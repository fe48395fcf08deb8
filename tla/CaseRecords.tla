---------------------------- MODULE CaseRecords ----------------------------
(***************************************************************************)
(* The records of the Case Manager (moneysweep/case_manager, tables of      *)
(* migrations/001_case_manager_v1.sql) and what a command does to them.      *)
(*                                                                         *)
(* An object is a row of one of the tables.  Its identifier is a hash of     *)
(* its semantic parts (ids.py), so an object also stands for the request     *)
(* that creates it.  A command stands for its own payload, and for the       *)
(* SHA-256 of that payload.                                                 *)
(***************************************************************************)
EXTENDS Sequences, Integers

CONSTANTS
    Objects,      \* the rows that requests may ask for
    Kind,         \* the table of each object
    CaseOf,       \* the case each object is filed under
    Refs,         \* the claims, or the superseded snapshot, it refers to
    Reviewed,     \* findings created with contradiction_reviewed = true
    Unsupported,  \* objects whose evidence ids are not in the catalog
    None          \* no predecessor; no open transaction

Kinds == {"case", "case_evidence", "claim", "claim_evidence", "contradiction",
          "lead", "finding", "case_snapshot"}

ASSUME RecordsAssumption ==
    /\ Kind \in [Objects -> Kinds]
    /\ CaseOf \in [Objects -> Objects]
    /\ \A o \in Objects : Kind[CaseOf[o]] = "case"
    /\ \A o \in Objects : Kind[o] = "case" => CaseOf[o] = o
    /\ Refs \in [Objects -> SUBSET Objects]
    /\ Reviewed \subseteq Objects /\ Unsupported \subseteq Objects
    /\ None \notin [op : {"create", "resolve", "hold_apart", "close", "accept"},
                    object : Objects]

Cases == {o \in Objects : Kind[o] = "case"}

Statuses == {"absent", "present", "open", "resolved", "held_apart", "closed",
             "draft", "accepted"}

\* The status an object is created with.
FirstStatus(o) ==
    IF Kind[o] \in {"contradiction", "lead"} THEN "open"
    ELSE IF Kind[o] = "finding" THEN "draft" ELSE "present"

\* create_*, link_*; resolve_contradiction with its two outcomes; close_lead;
\* accept_finding.
Ops == {"create", "resolve", "hold_apart", "close", "accept"}

Fits(c) ==
    \/ c.op = "create"
    \/ c.op \in {"resolve", "hold_apart"} /\ Kind[c.object] = "contradiction"
    \/ c.op = "close" /\ Kind[c.object] = "lead"
    \/ c.op = "accept" /\ Kind[c.object] = "finding"

Commands == {c \in [op : Ops, object : Objects] : Fits(c)}

SlipNewStatus(c) ==          \* stores the verb instead of the status
    IF c.op = "create" THEN FirstStatus(c.object) ELSE c.op

NewStatus(c) ==
    CASE c.op = "create" -> FirstStatus(c.object)
      [] c.op = "resolve" -> "resolved"
      [] c.op = "hold_apart" -> "held_apart"
      [] c.op = "close" -> "closed"
      [] c.op = "accept" -> "accepted"

Stored(o, status) == status[o] # "absent"

-----------------------------------------------------------------------------
\* Commands that name evidence must name evidence of the canonical catalog.
NeedsEvidence(c) ==
    \/ c.op = "close"
    \/ Kind[c.object] \in {"case_evidence", "claim_evidence", "case_snapshot"}

SlipPrecheck(c, status) ==   \* leaves the references to the database
    /\ c.op # "create" => Stored(c.object, status)
    /\ NeedsEvidence(c) => c.object \notin Unsupported

\* The checks a command makes before its transaction: _require_case_object on
\* the objects it refers to and _require_evidence_ids.
Precheck(c, status) ==
    /\ c.op # "create" => Stored(c.object, status)
    /\ c.op = "create" => \A r \in Refs[c.object] :
            Stored(r, status) /\ CaseOf[r] = CaseOf[c.object]
    /\ NeedsEvidence(c) => c.object \notin Unsupported

\* REFERENCES clauses; claim_ids_json of a contradiction is not one.
ForeignKeys(o) ==
    (IF Kind[o] = "case" THEN {} ELSE {CaseOf[o]})
        \cup (IF Kind[o] = "contradiction" THEN {} ELSE Refs[o])

\* The statement of the transaction: an INSERT under PRIMARY KEY and REFERENCES,
\* or an UPDATE that must match one row.
Applicable(c, status) ==
    CASE c.op = "create" ->
            /\ ~Stored(c.object, status)
            /\ \A r \in ForeignKeys(c.object) : Stored(r, status)
      [] c.op \in {"resolve", "hold_apart"} -> status[c.object] = "open"
      [] c.op = "close" -> status[c.object] \notin {"absent", "closed"}
      [] c.op = "accept" -> status[c.object] = "draft" /\ c.object \in Reviewed

Applied(c, status) == [status EXCEPT ![c.object] = NewStatus(c)]

-----------------------------------------------------------------------------
\* case_audit_events, per case, in the order of insertion.
Event == [seq : Nat, prev : Commands \cup {None}, payload : Commands]

\* latest_audit: the last sequence number and the hash of the last payload.
Latest(events) ==
    IF events = <<>> THEN [seq |-> 0, hash |-> None]
    ELSE [seq |-> events[Len(events)].seq, hash |-> events[Len(events)].payload]

\* The event built from what latest_audit has read.
EventFor(c, latest) ==
    [seq |-> latest.seq + 1, prev |-> latest.hash, payload |-> c]

Logged(c, log, event) == [log EXCEPT ![CaseOf[c.object]] = Append(@, event)]
=============================================================================
