-------------------------- MODULE MCSamEnrichment --------------------------
EXTENDS SamEnrichment

\* The first two vendors are aliases, the third is a municipality.
Aliases == [v \in 1..4 |-> IF v = 2 THEN 1 ELSE v]
Nothing == [v \in 1..4 |-> None]
With(v, uei) == [Nothing EXCEPT ![v] = uei]
TwoMasters == {Nothing, With(2, "u")}
TwoExtracts == {Nothing, With(1, "u")}
=============================================================================
