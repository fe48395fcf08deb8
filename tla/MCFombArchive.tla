--------------------------- MODULE MCFombArchive ---------------------------
EXTENDS FombArchive

\* The fiscal plans' page comes to link to a second document, and the first
\* document changes.
LastOf ==
    [x \in {"fiscal_plans", "contract_review", "plan", "revised"} |->
        IF x \in {"fiscal_plans", "plan"} THEN 2 ELSE 1]
Linked ==
    [c \in {"fiscal_plans", "contract_review"} |->
        IF c = "contract_review" THEN [v \in 1..1 |-> {}]
        ELSE [v \in 1..2 |-> IF v = 1 THEN {"plan"} ELSE {"plan", "revised"}]]
=============================================================================
