---------------------------- MODULE AuditedCases ----------------------------
(***************************************************************************)
(* What the Case Manager promises (service.py: "every command appends an    *)
(* audit event atomically"; the transaction contract of                     *)
(* docs/CASE_MANAGER_PHASE_1_API_CONTRACT.md): a command takes effect in     *)
(* one step, together with exactly one audit event that continues the chain  *)
(* of its case, or not at all.                                              *)
(***************************************************************************)
EXTENDS CaseRecords

VARIABLES
    status,  \* the lifecycle status of every object, "absent" until created
    log      \* the audit events of every case

vars == <<status, log>>

Init ==
    /\ status = [o \in Objects |-> "absent"]
    /\ log = [k \in Cases |-> <<>>]

Execute(c) ==
    /\ Precheck(c, status) /\ Applicable(c, status)
    /\ status' = Applied(c, status)
    /\ log' = Logged(c, log, EventFor(c, Latest(log[CaseOf[c.object]])))

Next == \E c \in Commands : Execute(c)

Spec == Init /\ [][Next]_vars

-----------------------------------------------------------------------------
(* What follows from the promise.                                           *)

\* The events of a case are numbered from 1 without gap or fork, and each one
\* carries the hash of the one before (validate_append_only_events).
AuditChain ==
    \A k \in Cases : \A i \in 1..Len(log[k]) :
        /\ log[k][i].seq = i
        /\ log[k][i].prev = IF i = 1 THEN None ELSE log[k][i - 1].payload

\* Event i of the case of o is about o.
About(o, i) == log[CaseOf[o]][i].payload.object = o
EventIds(o) == 1..Len(log[CaseOf[o]])

\* Every stored row and every lifecycle status is the work of an audited
\* command, and every audited command has taken effect: an object has the
\* status that the last event about it gave it, and is absent without one.
ObjectsAudited ==
    \A o \in Objects :
        \/ ~Stored(o, status) /\ \A i \in EventIds(o) : ~About(o, i)
        \/ \E i \in EventIds(o) :
              /\ About(o, i) /\ \A j \in EventIds(o) : j > i => ~About(o, j)
              /\ status[o] = NewStatus(log[CaseOf[o]][i].payload)

\* What a stored object refers to is stored, in the same case; for the claims
\* of a contradiction no foreign key sees to it.
ReferencesHold ==
    \A o \in Objects : Stored(o, status) =>
        \A r \in Refs[o] : Stored(r, status) /\ CaseOf[r] = CaseOf[o]
=============================================================================
