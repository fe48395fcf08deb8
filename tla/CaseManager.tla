---------------------------- MODULE CaseManager ----------------------------
(***************************************************************************)
(* The command side of the Case Manager: server threads that serve requests  *)
(* (server/backend/case_manager_api.py), each running CaseCommandService's   *)
(* checks and _execute over a SQLite connection                             *)
(* (moneysweep/case_manager/repository.py).                                  *)
(*                                                                         *)
(* SQLite and Python's sqlite3 are modelled from how repository.py uses      *)
(* them: one statement is atomic; a connection has at most one transaction,  *)
(* whose writes only that connection sees before COMMIT; one connection at   *)
(* a time may hold the write lock; INSERT and UPDATE outside a transaction   *)
(* open one; COMMIT and ROLLBACK outside a transaction do nothing.           *)
(***************************************************************************)
EXTENDS CaseRecords

CONSTANTS
    Threads,       \* the server threads
    Connections,   \* the SQLite connections
    ConnectionOf   \* the connection of the repository a thread uses

ASSUME ConnectionAssumption == ConnectionOf \in [Threads -> Connections]

VARIABLES
    db,        \* disk: the committed tables, [status, log]
    tx,        \* connection: the tables as its open transaction sees them, or None
    pc,        \* thread: how far the request is
    cmd,       \* thread: the command of the request, or None
    expected,  \* thread: what latest_audit has returned, or None
    acked      \* history: the commands answered with success

vars == <<db, tx, pc, cmd, expected, acked>>

Stages == {"idle", "checked", "ready", "begun", "written", "appended"}

Tables == [status : [Objects -> Statuses], log : [Cases -> Seq(Event)]]
LatestAudit == [seq : Nat, hash : Commands \cup {None}]

ASSUME NoneAssumption == None \notin Tables /\ None \notin LatestAudit

InTransaction(t) == tx[ConnectionOf[t]] # None

\* What a statement of t reads.
View(t) == IF InTransaction(t) THEN tx[ConnectionOf[t]] ELSE db

\* No other connection holds the write lock.
LockFree(t) == \A k \in Connections \ {ConnectionOf[t]} : tx[k] = None

CaseLog(t) == View(t).log[CaseOf[cmd[t].object]]

-----------------------------------------------------------------------------
\* The request is over, and with it the thread's local variables.
Answer(t) ==
    /\ pc' = [pc EXCEPT ![t] = "idle"]
    /\ cmd' = [cmd EXCEPT ![t] = None]
    /\ expected' = [expected EXCEPT ![t] = None]

\* The except branch of transaction(): roll back whatever the connection has
\* open, and answer with an error.
RollBack(t) ==
    /\ tx' = [tx EXCEPT ![ConnectionOf[t]] = None]
    /\ Answer(t)
    /\ UNCHANGED <<db, acked>>

\* A request arrives and passes the checks made outside any transaction of t,
\* _require_case_object and _require_evidence_ids; one that does not pass is
\* refused without a trace.
Receive(t, c) ==
    /\ pc[t] = "idle" /\ Precheck(c, View(t).status)
    /\ pc' = [pc EXCEPT ![t] = "checked"]
    /\ cmd' = [cmd EXCEPT ![t] = c]
    /\ UNCHANGED <<db, tx, expected, acked>>

ReadLatestAudit(t) ==
    /\ pc[t] = "checked"
    /\ expected' = [expected EXCEPT ![t] = Latest(CaseLog(t))]
    /\ pc' = [pc EXCEPT ![t] = "ready"]
    /\ UNCHANGED <<db, tx, cmd, acked>>

\* BEGIN IMMEDIATE
Begin(t) ==
    /\ pc[t] = "ready" /\ ~InTransaction(t) /\ LockFree(t)
    /\ tx' = [tx EXCEPT ![ConnectionOf[t]] = db]
    /\ pc' = [pc EXCEPT ![t] = "begun"]
    /\ UNCHANGED <<db, cmd, expected, acked>>

\* It fails inside a transaction, or when the lock is not released in time.
BeginFails(t) ==
    /\ pc[t] = "ready" /\ (InTransaction(t) \/ ~LockFree(t))
    /\ RollBack(t)

\* A statement that changes tables, opening a transaction if there is none.
Write(t, allowed, tables, stage) ==
    IF LockFree(t) /\ allowed
    THEN /\ tx' = [tx EXCEPT ![ConnectionOf[t]] = tables]
         /\ pc' = [pc EXCEPT ![t] = stage]
         /\ UNCHANGED <<db, cmd, expected, acked>>
    ELSE RollBack(t)

SlipWriteObject(t) ==        \* the object is written outside the transaction
    /\ pc[t] = "begun"
    /\ Applicable(cmd[t], db.status)
    /\ db' = [db EXCEPT !.status = Applied(cmd[t], @)]
    /\ pc' = [pc EXCEPT ![t] = "written"]
    /\ UNCHANGED <<tx, cmd, expected, acked>>

WriteObject(t) ==
    /\ pc[t] = "begun"
    /\ Write(t, Applicable(cmd[t], View(t).status),
             [View(t) EXCEPT !.status = Applied(cmd[t], @)], "written")

SlipAppendable(t) ==         \* the event is appended to whatever is there
    CaseOf[cmd[t].object] \in Cases

\* append_audit_event: the sequence and the predecessor are still what
\* latest_audit has read, and the case exists.
Appendable(t) ==
    /\ Latest(CaseLog(t)) = expected[t]
    /\ Stored(CaseOf[cmd[t].object], View(t).status)

AppendAuditEvent(t) ==
    /\ pc[t] = "written"
    /\ Write(t, Appendable(t),
             [View(t) EXCEPT !.log = Logged(cmd[t], @, EventFor(cmd[t], expected[t]))],
             "appended")

SlipCommit(t) ==             \* what a transaction has written is not kept
    /\ pc[t] = "appended"
    /\ tx' = [tx EXCEPT ![ConnectionOf[t]] = None]
    /\ acked' = acked \cup {cmd[t]}
    /\ Answer(t)
    /\ UNCHANGED db

\* COMMIT, then the answer to the client.
Commit(t) ==
    /\ pc[t] = "appended"
    /\ db' = View(t)
    /\ tx' = [tx EXCEPT ![ConnectionOf[t]] = None]
    /\ acked' = acked \cup {cmd[t]}
    /\ Answer(t)

\* A reader keeps the lock, or the disk is full.
CommitFails(t) == pc[t] = "appended" /\ RollBack(t)

\* The process that owns connection k dies.
Crash(k) ==
    /\ tx' = [tx EXCEPT ![k] = None]
    /\ pc' = [t \in Threads |-> IF ConnectionOf[t] = k THEN "idle" ELSE pc[t]]
    /\ cmd' = [t \in Threads |-> IF ConnectionOf[t] = k THEN None ELSE cmd[t]]
    /\ expected' = [t \in Threads |-> IF ConnectionOf[t] = k THEN None ELSE expected[t]]
    /\ UNCHANGED <<db, acked>>

-----------------------------------------------------------------------------
Init ==
    /\ db = [status |-> [o \in Objects |-> "absent"], log |-> [k \in Cases |-> <<>>]]
    /\ tx = [k \in Connections |-> None]
    /\ pc = [t \in Threads |-> "idle"]
    /\ cmd = [t \in Threads |-> None]
    /\ expected = [t \in Threads |-> None]
    /\ acked = {}

Serve(t) ==
    \/ ReadLatestAudit(t) \/ Begin(t) \/ BeginFails(t)
    \/ WriteObject(t) \/ AppendAuditEvent(t) \/ Commit(t) \/ CommitFails(t)

Next ==
    \/ \E t \in Threads, c \in Commands : Receive(t, c)
    \/ \E t \in Threads : Serve(t)
    \/ \E k \in Connections : Crash(k)

Spec == Init /\ [][Next]_vars

-----------------------------------------------------------------------------
(* Properties.                                                              *)

TypeOK ==
    /\ db \in Tables
    /\ tx \in [Connections -> Tables \cup {None}]
    /\ pc \in [Threads -> Stages]
    /\ cmd \in [Threads -> Commands \cup {None}]
    /\ expected \in [Threads -> LatestAudit \cup {None}]
    /\ acked \in SUBSET Commands
    /\ \A t \in Threads : (cmd[t] = None) <=> (pc[t] = "idle")
    /\ \A t \in Threads : expected[t] = None <=> pc[t] \in {"idle", "checked"}

\* The committed tables change as the promise says: every command takes effect
\* together with its audit event, or not at all.
Promise == INSTANCE AuditedCases WITH status <- db.status, log <- db.log
ImplementsPromise == Promise!Spec

\* The audit chain of the committed tables has no gap, fork or broken link.
AuditChain == Promise!AuditChain

\* The committed rows and the committed audit events tell the same story.
ObjectsAudited == Promise!ObjectsAudited

\* Committed rows refer to committed rows of the same case.
ReferencesHold == Promise!ReferencesHold

\* A command that was answered with success is in the audit log for good.
AckedIsLogged ==
    \A c \in acked : LET events == db.log[CaseOf[c.object]] IN
        \E i \in 1..Len(events) : events[i].payload = c
=============================================================================
