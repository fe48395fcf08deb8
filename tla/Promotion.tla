----------------------------- MODULE Promotion -----------------------------
(***************************************************************************)
(* What the finalizer of the leaderboard release promises of a promotion     *)
(* (scripts/finalize_leaderboard_release.py): the producer's package, the     *)
(* copy that the hub holds and the promotion receipt change together or not  *)
(* at all, and the receipt once only.  After it a run may still hand over    *)
(* another package, both copies at a time, under the receipt that is there.  *)
(* A crash may leave the two in any state, but brings no promotion.          *)
(***************************************************************************)
EXTENDS Naturals

CONSTANT None        \* no file

VARIABLES
    package,         \* the producer's export
    target,          \* the copy in the hub's checkout
    promotion,       \* the package that the promotion receipt binds
    crashes          \* how often a run has died

files == <<package, target, promotion, crashes>>

Init == package = None /\ target = None /\ promotion = None /\ crashes = 0

Promote ==
    /\ promotion = None
    /\ package' # None /\ target' = package' /\ promotion' = package'
    /\ UNCHANGED crashes

Redeliver ==
    /\ promotion # None
    /\ package' # None /\ target' = package'
    /\ UNCHANGED <<promotion, crashes>>

Break ==
    /\ crashes' = crashes + 1
    /\ promotion' = promotion

Next == Promote \/ Redeliver \/ Break

Spec == Init /\ [][Next]_files
=============================================================================
