--------------------------- MODULE SourceRecords ---------------------------
(***************************************************************************)
(* What the state file of the source update controller promises            *)
(* (docs/SOURCE_UPDATE_CONTROLLER.md): it goes from one record of the        *)
(* sources to the next, and never shows half of a wave.  A step records a    *)
(* set of successes; a derived source is recorded with the versions of its   *)
(* parents that the file holds, so none of them is recorded in the same      *)
(* step.                                                                   *)
(***************************************************************************)
CONSTANTS
    Sources,    \* the canonical sources
    Parents,    \* the sources each source is computed from
    Derived,    \* the sources that run when a parent has changed
    Scheduled,  \* the sources that run again when time has passed
    Content,    \* the contents a success may record
    None        \* nothing recorded

VARIABLE rows   \* the row of every source

NewRow == [success |-> FALSE, waiting |-> FALSE, hash |-> None,
           versions |-> [p \in Sources |-> None]]

\* The row of s after a success with content c.
Success(s, c) ==
    [success  |-> TRUE,
     waiting  |-> rows[s].waiting \/ s \in Scheduled,
     hash     |-> c,
     versions |-> [p \in Sources |->
                     IF s \in Derived /\ p \in Parents[s] /\ rows[p].hash # None
                     THEN rows[p].hash ELSE rows[s].versions[p]]]

Init == rows = [s \in Sources |-> NewRow]

\* A wave, or an intake, is recorded: each source of S with its content.
Record(S, content) ==
    /\ \A s \in S \cap Derived : Parents[s] \cap S = {}
    /\ rows' = [s \in Sources |->
                  IF s \in S THEN Success(s, content[s]) ELSE rows[s]]

\* A source becomes due again.
Elapse(s) ==
    /\ rows[s].waiting
    /\ rows' = [rows EXCEPT ![s].waiting = FALSE]

\* The file is lost: every source starts over.
Forget == rows' = [s \in Sources |-> NewRow]

Next ==
    \/ \E S \in SUBSET Sources : \E content \in [S -> Content] : Record(S, content)
    \/ \E s \in Sources : Elapse(s)
    \/ Forget

Spec == Init /\ [][Next]_rows

-----------------------------------------------------------------------------
\* A success and its content are recorded together; the version of a parent is
\* recorded for derived sources only, for their parents only, and only of a
\* parent that has a record itself.
Grounded ==
    /\ \A s \in Sources : rows[s].success <=> rows[s].hash # None
    /\ \A s, p \in Sources : rows[s].versions[p] # None =>
          s \in Derived /\ p \in Parents[s] /\ rows[p].success
=============================================================================
