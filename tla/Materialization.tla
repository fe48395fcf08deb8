-------------------------- MODULE Materialization --------------------------
(***************************************************************************)
(* What a resumable crawl promises (the docstring of                        *)
(* scripts/materialize_ocpr_contracts_resumable.py): the canonical output   *)
(* goes from one complete output to another, and a completion receipt only  *)
(* ever stands beside the output it describes; whatever an interrupted run  *)
(* has fetched is invisible here.                                           *)
(***************************************************************************)

CONSTANTS
    Complete,  \* [total, output] of every complete output
    None       \* no output, no receipt

VARIABLES output, receipt

vars == <<output, receipt>>

Init == output = None /\ receipt = None

\* A new run begins: nothing is certified until it has come to its end.
Withdraw == receipt' = None /\ UNCHANGED output

Replace ==
    /\ receipt = None
    /\ \E c \in Complete : output' = c.output
    /\ UNCHANGED receipt

Certify ==
    /\ receipt' \in {c \in Complete : c.output = output}
    /\ UNCHANGED output

Next == Withdraw \/ Replace \/ Certify

Spec == Init /\ [][Next]_vars
=============================================================================
