------------------------- MODULE CaseManagerProofs -------------------------
(***************************************************************************)
(* Proofs about CaseManager for any number of objects, threads and           *)
(* connections.  The audit chain, the foreign keys and the permanence of what *)
(* is committed hold however the threads share connections; that a command    *)
(* takes effect as a whole, as AuditedCases promises, needs that no two       *)
(* threads share one, which is what the run of CaseShared.cfg shows the       *)
(* server does not ensure.                                                   *)
(***************************************************************************)
EXTENDS CaseManager, TLAPS

\* Every thread has a connection of its own.
Separate == \A t, u \in Threads : ConnectionOf[t] = ConnectionOf[u] => t = u

-----------------------------------------------------------------------------
(* The operators on tables.                                                 *)

\* A case is filed under itself, every object under a case.
LEMMA CaseIsCase == \A o \in Objects : CaseOf[o] \in Cases
BY RecordsAssumption DEF Cases

\* A command names an object, and None is no command.
LEMMA CommandFacts ==
    ASSUME NEW c \in Commands
    PROVE  c.object \in Objects /\ c.op \in Ops /\ c # None
BY RecordsAssumption DEF Commands, Ops

\* A command gives its object a status, which is not "absent": no row is ever
\* deleted.
LEMMA NewStatusType ==
    ASSUME NEW c \in Commands
    PROVE  NewStatus(c) \in Statuses \ {"absent"}
BY CommandFacts DEF NewStatus, FirstStatus, Statuses, Ops

\* The statement of a command keeps the statuses well typed and every stored
\* row stored.
LEMMA AppliedType ==
    ASSUME NEW c \in Commands, NEW s \in [Objects -> Statuses]
    PROVE  /\ Applied(c, s) \in [Objects -> Statuses]
           /\ \A o \in Objects : Stored(o, s) => Stored(o, Applied(c, s))
BY CommandFacts, NewStatusType DEF Applied, Stored

\* latest_audit returns a number and the hash of a command, if any.
LEMMA LatestType ==
    ASSUME NEW e \in Seq(Event)
    PROVE  Latest(e) \in LatestAudit
<1>1. CASE e = <<>> BY <1>1 DEF Latest, LatestAudit
<1>2. CASE e # <<>>
  <2>1. e[Len(e)] \in Event BY <1>2
  <2> QED BY <1>2, <2>1 DEF Latest, LatestAudit, Event
<1> QED BY <1>1, <1>2

\* Appending an event keeps the logs well typed.
LEMMA LoggedType ==
    ASSUME NEW c \in Commands, NEW l \in [Cases -> Seq(Event)],
           NEW a \in LatestAudit
    PROVE  Logged(c, l, EventFor(c, a)) \in [Cases -> Seq(Event)]
<1>1. EventFor(c, a) \in Event BY DEF EventFor, Event, LatestAudit
<1>2. CaseOf[c.object] \in Cases BY CommandFacts, CaseIsCase
<1> QED BY <1>1, <1>2 DEF Logged

\* What the checks before the transaction have seen cannot become false: rows
\* are never deleted.
LEMMA PrecheckStable ==
    ASSUME NEW c \in Commands, NEW d \in Commands, NEW s \in [Objects -> Statuses],
           Precheck(c, s)
    PROVE  Precheck(c, Applied(d, s))
BY AppliedType, CommandFacts, RecordsAssumption DEF Precheck

-----------------------------------------------------------------------------
(* Type correctness.                                                        *)

\* The view of a thread is a pair of tables.
LEMMA ViewType ==
    ASSUME TypeOK, NEW t \in Threads
    PROVE  View(t) \in Tables
BY ConnectionAssumption DEF TypeOK, View, InTransaction

\* The tables are well typed at the start.
LEMMA InitType == Init => TypeOK
<1> SUFFICES ASSUME Init PROVE TypeOK OBVIOUS
<1>1. db \in Tables BY DEF Init, Tables, Statuses
<1> QED BY <1>1 DEF Init, TypeOK, Stages

\* Rolling back keeps the types.
LEMMA RollBackType ==
    ASSUME TypeOK, NEW t \in Threads, RollBack(t)
    PROVE  TypeOK'
BY ConnectionAssumption DEF TypeOK, RollBack, Answer, Stages

\* A statement that writes well-typed tables keeps the types.
LEMMA WriteType ==
    ASSUME TypeOK, NEW t \in Threads, NEW allowed, NEW tables,
           NEW stage \in {"written", "appended"},
           pc[t] \in {"begun", "written"},
           allowed => tables \in Tables,
           Write(t, allowed, tables, stage)
    PROVE  TypeOK'
<1>1. CASE LockFree(t) /\ allowed
  BY <1>1, ConnectionAssumption DEF TypeOK, Write, Stages
<1>2. CASE ~(LockFree(t) /\ allowed)
  BY <1>2, RollBackType DEF Write
<1> QED BY <1>1, <1>2

\* Every step of the server keeps the types.
LEMMA NextType == TypeOK /\ [Next]_vars => TypeOK'
<1> SUFFICES ASSUME TypeOK, [Next]_vars PROVE TypeOK' OBVIOUS
<1>1. ASSUME NEW t \in Threads, NEW c \in Commands, Receive(t, c) PROVE TypeOK'
  BY <1>1, CommandFacts DEF Receive, TypeOK, Stages
<1>2. ASSUME NEW t \in Threads, ReadLatestAudit(t) PROVE TypeOK'
  <2>1. cmd[t] \in Commands BY <1>2 DEF ReadLatestAudit, TypeOK
  <2>2. CaseLog(t) \in Seq(Event)
    BY <2>1, ViewType, CommandFacts, CaseIsCase DEF CaseLog, Tables
  <2>3. Latest(CaseLog(t)) \in LatestAudit /\ Latest(CaseLog(t)) # None
    BY <2>2, LatestType, NoneAssumption
  <2> QED BY <1>2, <2>3 DEF ReadLatestAudit, TypeOK, Stages
<1>3. ASSUME NEW t \in Threads, Begin(t) PROVE TypeOK'
  BY <1>3, ConnectionAssumption DEF Begin, TypeOK, Stages
<1>4. ASSUME NEW t \in Threads, BeginFails(t) PROVE TypeOK'
  BY <1>4, RollBackType DEF BeginFails
<1>5. ASSUME NEW t \in Threads, WriteObject(t) PROVE TypeOK'
  <2>1. cmd[t] \in Commands /\ View(t) \in Tables
    BY <1>5, ViewType DEF WriteObject, TypeOK
  <2>2. [View(t) EXCEPT !.status = Applied(cmd[t], @)] \in Tables
    BY <2>1, AppliedType DEF Tables
  <2> QED BY <1>5, <2>2, WriteType DEF WriteObject
<1>6. ASSUME NEW t \in Threads, AppendAuditEvent(t) PROVE TypeOK'
  <2>1. cmd[t] \in Commands /\ View(t) \in Tables /\ expected[t] \in LatestAudit
    BY <1>6, ViewType DEF AppendAuditEvent, TypeOK
  <2>2. [View(t) EXCEPT !.log = Logged(cmd[t], @, EventFor(cmd[t], expected[t]))]
           \in Tables
    BY <2>1, LoggedType DEF Tables
  <2> QED BY <1>6, <2>2, WriteType DEF AppendAuditEvent
<1>7. ASSUME NEW t \in Threads, Commit(t) PROVE TypeOK'
  <2>1. cmd[t] \in Commands /\ View(t) \in Tables
    BY <1>7, ViewType DEF Commit, TypeOK
  <2> QED BY <1>7, <2>1, ConnectionAssumption DEF Commit, Answer, TypeOK, Stages
<1>8. ASSUME NEW t \in Threads, CommitFails(t) PROVE TypeOK'
  BY <1>8, RollBackType DEF CommitFails
<1>9. ASSUME NEW k \in Connections, Crash(k) PROVE TypeOK'
  BY <1>9 DEF Crash, TypeOK, Stages
<1>10. CASE UNCHANGED vars BY <1>10 DEF vars, TypeOK
<1> QED BY <1>1, <1>2, <1>3, <1>4, <1>5, <1>6, <1>7, <1>8, <1>9, <1>10
        DEF Next, Serve

\* Whatever the requests, the tables and every open transaction stay well typed.
THEOREM TypeCorrect == Spec => []TypeOK
<1>1. Init => TypeOK BY InitType
<1>2. TypeOK /\ [Next]_vars => TypeOK' BY NextType
<1> QED BY <1>1, <1>2, PTL DEF Spec

-----------------------------------------------------------------------------
(* What holds however the threads share connections.  A thread may then read *)
(* and commit what another one has written, but the writes still go through  *)
(* one transaction at a time, each statement on what the last one has left.   *)

\* The numbers and the predecessors of audit events, as AuditChain has them.
Chained(log) ==
    \A k \in Cases : \A i \in 1..Len(log[k]) :
        /\ log[k][i].seq = i
        /\ log[k][i].prev = IF i = 1 THEN None ELSE log[k][i - 1].payload

\* What a stored row refers to under a foreign key is stored, and whatever it
\* refers to is filed under its case.
Tethered(status) ==
    \A o \in Objects : Stored(o, status) =>
        /\ \A r \in ForeignKeys(o) : Stored(r, status)
        /\ \A r \in Refs[o] : CaseOf[r] = CaseOf[o]

\* Every event is filed under a stored case, that of the object it is about.
Filed(tables) ==
    \A k \in Cases : \A i \in 1..Len(tables.log[k]) :
        CaseOf[tables.log[k][i].payload.object] = k /\ Stored(k, tables.status)

Sound(tables) == Chained(tables.log) /\ Tethered(tables.status) /\ Filed(tables)

\* Rows are never deleted, and events never changed or deleted.
Extends(old, new) ==
    /\ \A o \in Objects : Stored(o, old.status) => Stored(o, new.status)
    /\ \A k \in Cases : /\ Len(old.log[k]) <= Len(new.log[k])
                        /\ \A i \in 1..Len(old.log[k]) : new.log[k][i] = old.log[k][i]

\* A request that creates an object names references of the object's case.
SameCase(c) ==
    c.op = "create" => \A r \in Refs[c.object] : CaseOf[r] = CaseOf[c.object]

SharedInv ==
    /\ TypeOK
    /\ \A k, j \in Connections : tx[k] # None /\ tx[j] # None => k = j
    /\ Sound(db)
    /\ \A k \in Connections : tx[k] # None => Sound(tx[k]) /\ Extends(db, tx[k])
    /\ \A t \in Threads : cmd[t] # None => SameCase(cmd[t])

\* Extending is a preorder.
LEMMA ExtendsOrder ==
    /\ \A T \in Tables : Extends(T, T)
    /\ \A R, S, T \in Tables : Extends(R, S) /\ Extends(S, T) => Extends(R, T)
<1>1. ASSUME NEW T \in Tables PROVE Extends(T, T)
  <2>1. \A k \in Cases : T.log[k] \in Seq(Event) BY DEF Tables
  <2>2. \A k \in Cases : Len(T.log[k]) <= Len(T.log[k]) BY <2>1
  <2> QED BY <2>2 DEF Extends
<1>2. ASSUME NEW R \in Tables, NEW S \in Tables, NEW T \in Tables,
             Extends(R, S), Extends(S, T)
      PROVE  Extends(R, T)
  <2>1. ASSUME NEW k \in Cases
        PROVE  /\ Len(R.log[k]) <= Len(T.log[k])
               /\ \A i \in 1..Len(R.log[k]) : T.log[k][i] = R.log[k][i]
    <3>1. /\ R.log[k] \in Seq(Event) /\ S.log[k] \in Seq(Event) /\ T.log[k] \in Seq(Event)
      BY DEF Tables
    <3>2. Len(R.log[k]) \in Nat /\ Len(S.log[k]) \in Nat /\ Len(T.log[k]) \in Nat
      BY <3>1
    <3>3. /\ Len(R.log[k]) <= Len(S.log[k]) /\ Len(S.log[k]) <= Len(T.log[k])
          /\ \A i \in 1..Len(R.log[k]) : S.log[k][i] = R.log[k][i]
          /\ \A i \in 1..Len(S.log[k]) : T.log[k][i] = S.log[k][i]
      BY <1>2 DEF Extends
    <3>4. \A i \in 1..Len(R.log[k]) : i \in 1..Len(S.log[k]) BY <3>2, <3>3
    <3> QED BY <3>2, <3>3, <3>4
  <2> QED BY <1>2, <2>1 DEF Extends
<1> QED BY <1>1, <1>2

\* The event built from the last one of its case continues the chain.
LEMMA ContinuesChain ==
    ASSUME NEW log \in [Cases -> Seq(Event)], Chained(log), NEW c \in Commands
    PROVE  Chained(Logged(c, log, EventFor(c, Latest(log[CaseOf[c.object]]))))
<1> DEFINE e == EventFor(c, Latest(log[CaseOf[c.object]]))
           new == Logged(c, log, e)
<1> SUFFICES ASSUME NEW k \in Cases, NEW i \in 1..Len(new[k])
             PROVE  /\ new[k][i].seq = i
                    /\ new[k][i].prev = IF i = 1 THEN None ELSE new[k][i - 1].payload
  BY DEF Chained
<1>0. \A j \in 1..Len(log[k]) :
          /\ log[k][j].seq = j
          /\ log[k][j].prev = IF j = 1 THEN None ELSE log[k][j - 1].payload
  BY DEF Chained
<1>1. CASE k # CaseOf[c.object]
  <2>1. new[k] = log[k] BY <1>1 DEF Logged
  <2> HIDE DEF new
  <2> QED BY <1>0, <2>1
<1>2. CASE k = CaseOf[c.object]
  <2> DEFINE l == log[k]
  <2>1. l \in Seq(Event) /\ new[k] = Append(l, e) BY <1>2 DEF Logged
  <2>2. \A j \in 1..Len(l) : /\ l[j].seq = j
                             /\ l[j].prev = IF j = 1 THEN None ELSE l[j - 1].payload
    BY <1>0
  <2>3. e = [seq |-> Latest(l).seq + 1, prev |-> Latest(l).hash, payload |-> c]
    BY <1>2 DEF EventFor
  <2> HIDE DEF e, new
  <2>4. /\ e.seq = Len(l) + 1
        /\ e.prev = IF Len(l) = 0 THEN None ELSE l[Len(l)].payload
    <3>1. CASE l = <<>> BY <3>1, <2>3 DEF Latest
    <3>2. CASE l # <<>>
      <4>1. Len(l) \in 1..Len(l) BY <3>2, <2>1
      <4>2. l[Len(l)].seq = Len(l) BY <4>1, <2>2
      <4>3. Latest(l) = [seq |-> l[Len(l)].seq, hash |-> l[Len(l)].payload]
        BY <3>2 DEF Latest
      <4> HIDE DEF l
      <4> QED BY <4>1, <4>2, <4>3, <2>3
    <3> QED BY <3>1, <3>2
  <2> HIDE DEF l
  <2>5. Len(Append(l, e)) = Len(l) + 1 /\ Append(l, e)[Len(l) + 1] = e
        /\ \A j \in 1..Len(l) : Append(l, e)[j] = l[j]
    BY <2>1
  <2>6. Len(l) \in Nat BY <2>1
  <2>7. CASE i = Len(l) + 1 BY <2>1, <2>4, <2>5, <2>6, <2>7
  <2>8. CASE i # Len(l) + 1
    <3>1. i \in 1..Len(l) /\ (i # 1 => i - 1 \in 1..Len(l))
      BY <2>1, <2>5, <2>6, <2>8
    <3> QED BY <3>1, <2>1, <2>2, <2>5
  <2> QED BY <2>7, <2>8
<1> QED BY <1>1, <1>2

\* The statement of a command takes sound tables to sound tables that extend them.
LEMMA AppliedSound ==
    ASSUME NEW T \in Tables, Sound(T), NEW c \in Commands, SameCase(c),
           Applicable(c, T.status)
    PROVE  LET new == [T EXCEPT !.status = Applied(c, @)]
           IN  new \in Tables /\ Sound(new) /\ Extends(T, new)
<1> DEFINE status == Applied(c, T.status)
           new == [T EXCEPT !.status = Applied(c, @)]
<1>1. T.status \in [Objects -> Statuses] /\ T.log \in [Cases -> Seq(Event)]
  BY DEF Tables
<1>2. new = [status |-> status, log |-> T.log] /\ new \in Tables
  BY <1>1, AppliedType DEF Tables
<1>3. new.status = status /\ new.log = T.log
  BY <1>2
<1>4. \A o \in Objects : Stored(o, T.status) => Stored(o, status)
  BY <1>1, AppliedType
<1>5. Cases \subseteq Objects /\ \A o \in Objects : ForeignKeys(o) \subseteq Objects
  BY RecordsAssumption DEF Cases, ForeignKeys
<1>6. ASSUME NEW o \in Objects, Stored(o, status)
      PROVE  /\ \A r \in ForeignKeys(o) : Stored(r, status)
             /\ \A r \in Refs[o] : CaseOf[r] = CaseOf[o]
  <2>1. CASE Stored(o, T.status)
    BY <1>4, <1>5, <2>1 DEF Sound, Tethered
  <2>2. CASE ~Stored(o, T.status)
    <3>1. o = c.object BY <1>1, <1>6, <2>2 DEF Applied, Stored
    <3>2. c.op = "create"
      BY <2>2, <3>1, CommandFacts DEF Applicable, Ops, Stored
    <3>3. \A r \in ForeignKeys(o) : Stored(r, T.status)
      BY <3>1, <3>2 DEF Applicable
    <3> QED BY <1>4, <1>5, <3>1, <3>2, <3>3 DEF SameCase
  <2> QED BY <2>1, <2>2
<1> HIDE DEF status, new
<1>7. Sound(new)
  BY <1>3, <1>4, <1>5, <1>6 DEF Sound, Tethered, Filed
<1>8. Extends(T, new)
  BY <1>1, <1>3, <1>4, ExtendsOrder DEF Extends
<1> QED BY <1>2, <1>7, <1>8 DEF new

\* So does the audit event, appended to the chain that latest_audit has seen.
LEMMA LoggedSound ==
    ASSUME NEW T \in Tables, Sound(T), NEW c \in Commands,
           Stored(CaseOf[c.object], T.status)
    PROVE  LET event == EventFor(c, Latest(T.log[CaseOf[c.object]]))
               new == [T EXCEPT !.log = Logged(c, @, event)]
           IN  new \in Tables /\ Sound(new) /\ Extends(T, new)
<1> DEFINE event == EventFor(c, Latest(T.log[CaseOf[c.object]]))
           log == Logged(c, T.log, event)
           new == [T EXCEPT !.log = Logged(c, @, event)]
<1>0. CaseOf[c.object] \in Cases
  BY CommandFacts, CaseIsCase
<1>1. T.status \in [Objects -> Statuses] /\ T.log \in [Cases -> Seq(Event)]
  BY DEF Tables
<1>2. Latest(T.log[CaseOf[c.object]]) \in LatestAudit
  BY <1>0, <1>1, LatestType
<1>3. log \in [Cases -> Seq(Event)]
  BY <1>1, <1>2, LoggedType
<1>4. new = [status |-> T.status, log |-> log] /\ new \in Tables
  BY <1>1, <1>3 DEF Tables
<1>5. Chained(log)
  BY <1>1, ContinuesChain DEF Sound
<1>6. ASSUME NEW k \in Cases
      PROVE  /\ Len(T.log[k]) <= Len(log[k])
             /\ \A i \in 1..Len(T.log[k]) : log[k][i] = T.log[k][i]
             /\ \A i \in 1..Len(log[k]) :
                   \/ i \in 1..Len(T.log[k])
                   \/ k = CaseOf[c.object] /\ log[k][i].payload = c
  <2>1. T.log[k] \in Seq(Event) /\ Len(T.log[k]) \in Nat
    BY <1>1
  <2>2. event.payload = c
    BY DEF EventFor
  <2>3. log[k] = IF k = CaseOf[c.object] THEN Append(T.log[k], event) ELSE T.log[k]
    BY <1>0, <1>1 DEF Logged
  <2> HIDE DEF event, log
  <2>4. CASE k = CaseOf[c.object]
    BY <2>1, <2>2, <2>3, <2>4
  <2>5. CASE k # CaseOf[c.object]
    BY <2>1, <2>3, <2>5
  <2> QED BY <2>4, <2>5
<1>7. new.status = T.status /\ new.log = log
  BY <1>4
<1> HIDE DEF event, log, new
<1>8. Filed(new)
  <2> SUFFICES ASSUME NEW k \in Cases, NEW i \in 1..Len(log[k])
               PROVE  CaseOf[log[k][i].payload.object] = k /\ Stored(k, T.status)
    BY <1>7 DEF Filed
  <2>1. CASE i \in 1..Len(T.log[k])
    BY <1>6, <2>1 DEF Sound, Filed
  <2>2. CASE k = CaseOf[c.object] /\ log[k][i].payload = c
    BY <2>2
  <2> QED BY <1>6, <2>1, <2>2
<1>9. Sound(new)
  BY <1>5, <1>7, <1>8 DEF Sound
<1>10. Extends(T, new)
  BY <1>6, <1>7 DEF Extends
<1> QED BY <1>4, <1>9, <1>10 DEF event, new

\* What a thread reads is sound, and extends what is committed.
LEMMA ViewSound ==
    ASSUME SharedInv, NEW t \in Threads
    PROVE  View(t) \in Tables /\ Sound(View(t)) /\ Extends(db, View(t))
<1>1. View(t) \in Tables /\ db \in Tables BY ViewType DEF SharedInv, TypeOK
<1>2. CASE InTransaction(t)
  BY <1>1, <1>2, ConnectionAssumption DEF SharedInv, View, InTransaction
<1>3. CASE ~InTransaction(t)
  BY <1>1, <1>3, ExtendsOrder DEF SharedInv, View
<1> QED BY <1>2, <1>3

\* A step that opens no transaction and changes none keeps the tables sound.
LEMMA FewerTransactions ==
    ASSUME SharedInv, TypeOK', db' = db,
           \A k \in Connections : tx'[k] # None => tx'[k] = tx[k],
           \A t \in Threads : cmd'[t] # None => SameCase(cmd'[t])
    PROVE  SharedInv'
BY DEF SharedInv

\* A statement that extends what its thread reads, soundly, keeps the tables sound.
LEMMA WriteSound ==
    ASSUME SharedInv, TypeOK', NEW t \in Threads, NEW allowed, NEW tables, NEW stage,
           Write(t, allowed, tables, stage),
           allowed => /\ tables \in Tables /\ Sound(tables)
                      /\ Extends(View(t), tables)
    PROVE  SharedInv'
<1>0. tx \in [Connections -> Tables \cup {None}] /\ db \in Tables
      /\ cmd \in [Threads -> Commands \cup {None}]
  BY DEF SharedInv, TypeOK
<1>1. CASE LockFree(t) /\ allowed
  <2>1. tx' = [tx EXCEPT ![ConnectionOf[t]] = tables] /\ UNCHANGED <<db, cmd>>
    BY <1>1 DEF Write
  <2>2. \A k \in Connections : tx'[k] # None => k = ConnectionOf[t]
    BY <1>0, <1>1, <2>1 DEF LockFree
  <2>3. Sound(tables) /\ Extends(db, tables)
    BY <1>0, <1>1, ViewSound, ExtendsOrder
  <2>4. tx'[ConnectionOf[t]] = tables
    BY <1>0, <2>1, ConnectionAssumption
  <2> QED BY <2>1, <2>2, <2>3, <2>4 DEF SharedInv
<1>2. CASE ~(LockFree(t) /\ allowed)
  <2>1. RollBack(t) BY <1>2 DEF Write
  <2> QED BY <1>0, <2>1, FewerTransactions, ConnectionAssumption
          DEF RollBack, Answer, SharedInv
<1> QED BY <1>1, <1>2

\* Every step keeps the committed tables and those of the open transaction sound,
\* and what is committed it extends.
LEMMA NextShared == SharedInv /\ [Next]_vars => SharedInv' /\ Extends(db, db')
<1> SUFFICES ASSUME SharedInv, [Next]_vars PROVE SharedInv' /\ Extends(db, db') OBVIOUS
<1>0. /\ TypeOK' /\ tx \in [Connections -> Tables \cup {None}] /\ db \in Tables
      /\ cmd \in [Threads -> Commands \cup {None}]
  BY NextType DEF SharedInv, TypeOK
<1>1. Extends(db, db) BY <1>0, ExtendsOrder
<1>2. ASSUME NEW t \in Threads, RollBack(t) PROVE SharedInv' /\ db' = db
  BY <1>0, <1>2, FewerTransactions, ConnectionAssumption DEF RollBack, Answer, SharedInv
<1>3. ASSUME NEW t \in Threads, NEW c \in Commands, Receive(t, c)
      PROVE SharedInv' /\ db' = db
  <2>1. SameCase(c) BY <1>3 DEF Receive, Precheck, SameCase
  <2> QED BY <1>0, <1>3, <2>1, FewerTransactions DEF Receive, SharedInv
<1>4. ASSUME NEW t \in Threads, ReadLatestAudit(t) PROVE SharedInv' /\ db' = db
  BY <1>0, <1>4, FewerTransactions DEF ReadLatestAudit, SharedInv
<1>5. ASSUME NEW t \in Threads, Begin(t) PROVE SharedInv' /\ db' = db
  <2>1. /\ tx' = [tx EXCEPT ![ConnectionOf[t]] = db] /\ UNCHANGED <<db, cmd>>
        /\ \A k \in Connections : tx[k] = None
    BY <1>5 DEF Begin, LockFree, InTransaction
  <2> QED BY <1>0, <1>1, <2>1, ConnectionAssumption DEF SharedInv
<1>6. ASSUME NEW t \in Threads, WriteObject(t) PROVE SharedInv' /\ db' = db
  <2>1. cmd[t] \in Commands /\ SameCase(cmd[t])
    BY <1>0, <1>6 DEF WriteObject, SharedInv, TypeOK
  <2>2. Write(t, Applicable(cmd[t], View(t).status),
              [View(t) EXCEPT !.status = Applied(cmd[t], @)], "written")
    BY <1>6 DEF WriteObject
  <2>3. SharedInv' BY <1>0, <2>1, <2>2, ViewSound, AppliedSound, WriteSound
  <2> QED BY <2>2, <2>3 DEF Write, RollBack
<1>7. ASSUME NEW t \in Threads, AppendAuditEvent(t) PROVE SharedInv' /\ db' = db
  <2>1. cmd[t] \in Commands
    BY <1>0, <1>7 DEF AppendAuditEvent, SharedInv, TypeOK
  <2> DEFINE tables ==
          [View(t) EXCEPT !.log = Logged(cmd[t], @, EventFor(cmd[t], expected[t]))]
  <2>2. Write(t, Appendable(t), tables, "appended")
    BY <1>7 DEF AppendAuditEvent
  <2>3. ASSUME Appendable(t)
        PROVE  tables \in Tables /\ Sound(tables) /\ Extends(View(t), tables)
    <3>1. /\ expected[t] = Latest(View(t).log[CaseOf[cmd[t].object]])
          /\ Stored(CaseOf[cmd[t].object], View(t).status)
      BY <2>3 DEF Appendable, CaseLog
    <3> QED BY <2>1, <3>1, ViewSound, LoggedSound
  <2> HIDE DEF tables
  <2>4. SharedInv' BY <1>0, <2>2, <2>3, WriteSound
  <2> QED BY <2>2, <2>4 DEF Write, RollBack
<1>8. ASSUME NEW t \in Threads, Commit(t) PROVE SharedInv' /\ Extends(db, db')
  <2>1. /\ db' = View(t) /\ tx' = [tx EXCEPT ![ConnectionOf[t]] = None]
        /\ cmd' = [cmd EXCEPT ![t] = None]
    BY <1>8 DEF Commit, Answer
  <2>2. \A u \in Threads : cmd'[u] # None => SameCase(cmd'[u])
    BY <1>0, <2>1 DEF SharedInv
  <2>3. ASSUME NEW k \in Connections, tx'[k] # None
        PROVE  tx'[k] = tx[k] /\ db' = db
    <3>1. k # ConnectionOf[t] /\ tx'[k] = tx[k] BY <1>0, <2>1, <2>3
    <3>2. ~InTransaction(t)
      BY <2>3, <3>1, ConnectionAssumption DEF InTransaction, SharedInv
    <3> QED BY <2>1, <3>1, <3>2 DEF View
  <2>4. Sound(db') /\ Extends(db, db') BY <2>1, ViewSound
  <2> QED BY <1>0, <2>2, <2>3, <2>4 DEF SharedInv
<1>9. ASSUME NEW k \in Connections, Crash(k) PROVE SharedInv' /\ db' = db
  BY <1>0, <1>9, FewerTransactions DEF Crash, SharedInv
<1>10. CASE UNCHANGED vars BY <1>10, <1>0, <1>1, FewerTransactions DEF vars, SharedInv
<1> QED BY <1>1, <1>2, <1>3, <1>4, <1>5, <1>6, <1>7, <1>8, <1>9, <1>10
        DEF Next, Serve, BeginFails, CommitFails

\* The tables are sound in every behaviour of the server.
LEMMA SharedInvariant == Spec => []SharedInv
<1>1. Init => SharedInv
  <2> SUFFICES ASSUME Init PROVE Sound(db) BY InitType DEF Init, SharedInv
  <2>1. /\ \A o \in Objects : ~Stored(o, db.status)
        /\ \A k \in Cases : db.log[k] = <<>>
    BY DEF Init, Stored
  <2> QED BY <2>1 DEF Sound, Chained, Tethered, Filed
<1>2. SharedInv /\ [Next]_vars => SharedInv' BY NextShared
<1> QED BY <1>1, <1>2, PTL DEF Spec

\* The audit chain of every case never has a gap, a fork or a broken link, also
\* where threads share a connection: append_audit_event compares what latest_audit
\* has read with what the transaction it writes in holds.
THEOREM ChainIsSound == Spec => []AuditChain
<1>1. Promise!Cases = Cases BY DEF Promise!Cases, Cases
<1>2. SharedInv => AuditChain
  BY <1>1 DEF SharedInv, Sound, Chained, AuditChain, Promise!AuditChain
<1> QED BY <1>2, SharedInvariant, PTL

\* Committed rows keep what their foreign keys refer to and never refer to another
\* case than their own; audit events are filed under a stored case, their object's.
TablesAreSound == Tethered(db.status) /\ Filed(db)

\* The committed tables are sound also where threads share a connection.  (The
\* claims of a contradiction, which no foreign key guards, may then dangle: that
\* they do not, ReferencesAreSound says of separate connections.)
THEOREM ForeignKeysHold == Spec => []TablesAreSound
<1>1. SharedInv => TablesAreSound BY DEF SharedInv, Sound, TablesAreSound
<1> QED BY <1>1, SharedInvariant, PTL

\* No row is ever deleted, and no audit event changed or deleted.
CommitsAreKept == [][Extends(db, db')]_vars

\* Nothing that is committed is ever taken back, whoever shares a connection with
\* whom and whatever transaction is rolled back: the audit log is append-only.
THEOREM NothingTakenBack == Spec => CommitsAreKept
<1>1. SharedInv /\ [Next]_vars => [Extends(db, db')]_vars BY NextShared
<1> QED BY <1>1, SharedInvariant, PTL DEF Spec, CommitsAreKept

-----------------------------------------------------------------------------
(* Isolation.  What makes a commit the effect of one command on the committed *)
(* tables is that they have not changed since BEGIN IMMEDIATE: the lock keeps  *)
(* every other connection out, and a connection has one thread.              *)

Open(t) == pc[t] \in {"begun", "written", "appended"}

\* Transactions belong to threads in the middle of one, and to one at a time.
LockInv ==
    /\ \A k \in Connections : tx[k] # None =>
            \E t \in Threads : ConnectionOf[t] = k /\ Open(t)
    /\ \A t \in Threads : Open(t) => InTransaction(t) /\ LockFree(t)

\* The checks made before the transaction still hold of the committed tables.
CheckedInv == \A t \in Threads : pc[t] # "idle" => Precheck(cmd[t], db.status)

ChainedEvent(c) == EventFor(c, Latest(db.log[CaseOf[c.object]]))

\* What the open transaction of t has made of the committed tables so far.
ProgressOf(t) ==
    /\ pc[t] = "begun" => tx[ConnectionOf[t]] = db
    /\ pc[t] \in {"written", "appended"} => Applicable(cmd[t], db.status)
    /\ pc[t] = "written" => tx[ConnectionOf[t]] =
            [status |-> Applied(cmd[t], db.status), log |-> db.log]
    /\ pc[t] = "appended" => tx[ConnectionOf[t]] =
            [status |-> Applied(cmd[t], db.status),
             log |-> Logged(cmd[t], db.log, ChainedEvent(cmd[t]))]

ProgressInv == \A t \in Threads : ProgressOf(t)

IsolationInv == TypeOK /\ LockInv /\ CheckedInv /\ ProgressInv

\* The invariant holds before the first request.
LEMMA InitIsolation == Init => IsolationInv
BY InitType DEF Init, IsolationInv, LockInv, CheckedInv, ProgressInv, ProgressOf, Open

\* A thread outside a transaction of its own sees the committed tables.
LEMMA IdleView ==
    ASSUME Separate, IsolationInv, NEW t \in Threads, ~Open(t)
    PROVE  ~InTransaction(t) /\ View(t) = db
BY ConnectionAssumption DEF Separate, IsolationInv, LockInv, InTransaction, View

\* At most one thread is in the middle of a transaction.
LEMMA OneOpen ==
    ASSUME Separate, IsolationInv, NEW t \in Threads, NEW u \in Threads,
           Open(t), Open(u)
    PROVE  t = u
BY ConnectionAssumption DEF Separate, IsolationInv, LockInv, InTransaction, LockFree

\* Rolling back keeps the invariant.
LEMMA RollBackIsolation ==
    ASSUME Separate, IsolationInv, NEW t \in Threads, RollBack(t)
    PROVE  IsolationInv'
<1>1. TypeOK' BY RollBackType DEF IsolationInv
<1>2. tx' = [tx EXCEPT ![ConnectionOf[t]] = None]
      /\ pc' = [pc EXCEPT ![t] = "idle"] /\ cmd' = [cmd EXCEPT ![t] = None]
      /\ UNCHANGED db
  BY DEF RollBack, Answer
<1>3. pc'[t] = "idle" /\ \A u \in Threads \ {t} :
          /\ pc'[u] = pc[u] /\ cmd'[u] = cmd[u]
          /\ ConnectionOf[u] # ConnectionOf[t]
          /\ tx'[ConnectionOf[u]] = tx[ConnectionOf[u]]
  BY <1>2, ConnectionAssumption DEF IsolationInv, TypeOK, Separate
<1>4. LockInv'
  <2>1. \A k \in Connections : tx'[k] # None => k # ConnectionOf[t] /\ tx[k] # None
    BY <1>2 DEF IsolationInv, TypeOK
  <2>2. ASSUME NEW k \in Connections, tx'[k] # None
        PROVE  \E u \in Threads : ConnectionOf[u] = k /\ Open(u)'
    BY <2>1, <2>2, <1>3 DEF IsolationInv, LockInv, Open
  <2>3. ASSUME NEW u \in Threads, Open(u)' PROVE InTransaction(u)' /\ LockFree(u)'
    BY <2>1, <2>3, <1>3 DEF IsolationInv, LockInv, Open, InTransaction, LockFree
  <2> QED BY <2>2, <2>3 DEF LockInv
<1>5. CheckedInv' BY <1>2, <1>3 DEF IsolationInv, CheckedInv
<1>6. ProgressInv'
  <2> SUFFICES ASSUME NEW u \in Threads PROVE ProgressOf(u)' BY DEF ProgressInv
  <2>1. CASE u = t BY <2>1, <1>3 DEF ProgressOf
  <2>2. CASE u # t
    BY <2>2, <1>2, <1>3 DEF IsolationInv, ProgressInv, ProgressOf, ChainedEvent
  <2> QED BY <2>1, <2>2
<1> QED BY <1>1, <1>4, <1>5, <1>6 DEF IsolationInv

\* Every step other than a rollback that leaves the committed tables alone: what
\* the thread that takes it has to show for the invariant.
LEMMA ThreadStepIsolation ==
    ASSUME Separate, IsolationInv, TypeOK', NEW t \in Threads, UNCHANGED db,
           \A u \in Threads \ {t} : pc'[u] = pc[u] /\ cmd'[u] = cmd[u],
           \A k \in Connections : k # ConnectionOf[t] => tx'[k] = tx[k],
           Open(t)' => InTransaction(t)' /\ LockFree(t),
           ~Open(t)' => ~InTransaction(t)',
           pc'[t] # "idle" => Precheck(cmd'[t], db.status),
           ProgressOf(t)'
    PROVE  IsolationInv'
<1>1. \A u \in Threads \ {t} : ConnectionOf[u] # ConnectionOf[t]
  BY ConnectionAssumption DEF Separate
<1>2. LockInv'
  <2>1. ASSUME NEW k \in Connections, tx'[k] # None
        PROVE  \E u \in Threads : ConnectionOf[u] = k /\ Open(u)'
    <3>1. CASE k = ConnectionOf[t] BY <3>1, <2>1 DEF InTransaction
    <3>2. CASE k # ConnectionOf[t]
      BY <3>2, <2>1 DEF IsolationInv, LockInv, Open
    <3> QED BY <3>1, <3>2
  <2>2. ASSUME NEW u \in Threads, Open(u)' PROVE InTransaction(u)' /\ LockFree(u)'
    <3>1. CASE u = t BY <3>1, <2>2 DEF LockFree
    <3>2. CASE u # t
      <4>1. Open(u) /\ InTransaction(u) /\ LockFree(u)
        BY <3>2, <2>2 DEF Open, IsolationInv, LockInv
      <4>2. InTransaction(u)' /\ ~LockFree(t)
        BY <4>1, <1>1, <3>2, ConnectionAssumption DEF InTransaction, LockFree
      <4>3. ~Open(t)' BY <4>2
      <4> QED BY <4>1, <4>2, <4>3, ConnectionAssumption
              DEF InTransaction, LockFree
    <3> QED BY <3>1, <3>2
  <2> QED BY <2>1, <2>2 DEF LockInv
<1>3. CheckedInv'
  BY DEF IsolationInv, CheckedInv
<1>4. ProgressInv'
  <2> SUFFICES ASSUME NEW u \in Threads PROVE ProgressOf(u)' BY DEF ProgressInv
  <2>1. CASE u = t BY <2>1
  <2>2. CASE u # t
    BY <2>2, <1>1, ConnectionAssumption
       DEF IsolationInv, ProgressInv, ProgressOf, ChainedEvent
  <2> QED BY <2>1, <2>2
<1> QED BY <1>2, <1>3, <1>4 DEF IsolationInv

\* COMMIT: no other thread is in the middle of a transaction, and what the others
\* have checked stays true.
LEMMA CommitIsolation ==
    ASSUME Separate, IsolationInv, NEW t \in Threads, Commit(t)
    PROVE  IsolationInv'
<1> USE DEF IsolationInv
<1>1. TypeOK' BY NextType DEF Next, Serve
<1>2. Open(t) /\ cmd[t] \in Commands BY DEF Commit, Open, TypeOK
<1>3. db' = tx[ConnectionOf[t]] /\ db'.status = Applied(cmd[t], db.status)
  <2>1. InTransaction(t) BY <1>2 DEF LockInv
  <2>2. pc[t] = "appended" /\ db' = tx[ConnectionOf[t]] BY <2>1 DEF Commit, View
  <2>3. tx[ConnectionOf[t]] =
            [status |-> Applied(cmd[t], db.status),
             log |-> Logged(cmd[t], db.log, ChainedEvent(cmd[t]))]
    BY <2>2 DEF ProgressInv, ProgressOf
  <2> QED BY <2>2, <2>3
<1>4. pc'[t] = "idle" /\ \A u \in Threads \ {t} :
          pc'[u] = pc[u] /\ cmd'[u] = cmd[u]
  BY DEF Commit, Answer, TypeOK
<1>5. \A u \in Threads : ~Open(u)' BY <1>2, <1>4, OneOpen DEF Open
<1>6. \A k \in Connections : tx'[k] = None
  BY <1>2, ConnectionAssumption DEF Commit, TypeOK, LockInv, LockFree
<1>7. LockInv' BY <1>5, <1>6 DEF LockInv
<1>8. CheckedInv'
  <2> SUFFICES ASSUME NEW u \in Threads, pc'[u] # "idle"
               PROVE  Precheck(cmd'[u], db'.status)
    BY DEF CheckedInv
  <2>1. pc[u] # "idle" /\ cmd'[u] = cmd[u] BY <1>4
  <2>2. Precheck(cmd[u], db.status) /\ cmd[u] \in Commands
    BY <2>1 DEF CheckedInv, TypeOK
  <2>3. db.status \in [Objects -> Statuses] BY DEF TypeOK, Tables
  <2> QED BY <2>1, <2>2, <2>3, <1>2, <1>3, PrecheckStable
<1>9. ProgressInv' BY <1>5 DEF ProgressInv, ProgressOf, Open
<1> QED BY <1>1, <1>7, <1>8, <1>9

\* A crash is a rollback of everything the process had under way.
LEMMA CrashIsolation ==
    ASSUME Separate, IsolationInv, NEW k \in Connections, Crash(k)
    PROVE  IsolationInv'
<1> USE DEF IsolationInv
<1>1. TypeOK' BY NextType DEF Next
<1>2. /\ \A j \in Connections : tx'[j] = IF j = k THEN None ELSE tx[j]
      /\ \A u \in Threads : IF ConnectionOf[u] = k THEN pc'[u] = "idle"
                            ELSE pc'[u] = pc[u] /\ cmd'[u] = cmd[u]
      /\ db' = db
  BY DEF Crash, TypeOK
<1>3. LockInv'
  BY <1>2, ConnectionAssumption DEF LockInv, Open, InTransaction, LockFree
<1>4. CheckedInv' BY <1>2 DEF CheckedInv
<1>5. ProgressInv'
  <2> SUFFICES ASSUME NEW u \in Threads PROVE ProgressOf(u)' BY DEF ProgressInv
  <2>1. CASE ConnectionOf[u] = k BY <2>1, <1>2 DEF ProgressOf
  <2>2. CASE ConnectionOf[u] # k
    BY <2>2, <1>2, ConnectionAssumption DEF ProgressInv, ProgressOf, ChainedEvent
  <2> QED BY <2>1, <2>2
<1> QED BY <1>1, <1>3, <1>4, <1>5

\* Every step of the server keeps the invariant.
LEMMA NextIsolation == ASSUME Separate PROVE IsolationInv /\ [Next]_vars => IsolationInv'
<1> SUFFICES ASSUME IsolationInv, [Next]_vars PROVE IsolationInv' OBVIOUS
<1> USE DEF IsolationInv
<1>1. TypeOK' BY NextType
<1>2. ASSUME NEW t \in Threads, NEW c \in Commands, Receive(t, c) PROVE IsolationInv'
  <2>1. ~Open(t) /\ ~InTransaction(t) /\ View(t) = db
    BY <1>2, IdleView DEF Receive, Open
  <2>2. pc'[t] = "checked" /\ cmd'[t] = c /\ UNCHANGED <<db, tx>>
        /\ \A u \in Threads \ {t} : pc'[u] = pc[u] /\ cmd'[u] = cmd[u]
    BY <1>2 DEF Receive, TypeOK
  <2>3. ~Open(t)' /\ ~InTransaction(t)' /\ ProgressOf(t)'
    BY <2>1, <2>2 DEF Open, InTransaction, ProgressOf
  <2>4. Precheck(c, db.status) BY <1>2, <2>1 DEF Receive
  <2> QED BY <1>1, <2>2, <2>3, <2>4, ThreadStepIsolation
<1>3. ASSUME NEW t \in Threads, ReadLatestAudit(t) PROVE IsolationInv'
  <2>1. ~InTransaction(t) BY <1>3, IdleView DEF ReadLatestAudit, Open
  <2>2. pc'[t] = "ready" /\ UNCHANGED <<db, tx, cmd>>
        /\ \A u \in Threads \ {t} : pc'[u] = pc[u]
    BY <1>3 DEF ReadLatestAudit, TypeOK
  <2>3. ~Open(t)' /\ ~InTransaction(t)' /\ ProgressOf(t)'
    BY <2>1, <2>2 DEF Open, InTransaction, ProgressOf
  <2>4. Precheck(cmd[t], db.status) BY <1>3 DEF ReadLatestAudit, CheckedInv
  <2> QED BY <1>1, <2>2, <2>3, <2>4, ThreadStepIsolation
<1>4. ASSUME NEW t \in Threads, Begin(t) PROVE IsolationInv'
  <2>1. /\ pc'[t] = "begun" /\ tx'[ConnectionOf[t]] = db /\ UNCHANGED <<db, cmd>>
        /\ \A k \in Connections : k # ConnectionOf[t] => tx'[k] = tx[k]
        /\ \A u \in Threads \ {t} : pc'[u] = pc[u]
    BY <1>4, ConnectionAssumption DEF Begin, TypeOK
  <2>2. Open(t)' /\ InTransaction(t)' /\ ProgressOf(t)' /\ LockFree(t)
    BY <1>4, <2>1, NoneAssumption DEF Begin, Open, InTransaction, ProgressOf, TypeOK
  <2>3. Precheck(cmd[t], db.status) BY <1>4 DEF Begin, CheckedInv
  <2> QED BY <1>1, <2>1, <2>2, <2>3, ThreadStepIsolation
<1>5. ASSUME NEW t \in Threads, BeginFails(t) PROVE IsolationInv'
  BY <1>5, RollBackIsolation DEF BeginFails
<1>6. ASSUME NEW t \in Threads, WriteObject(t) PROVE IsolationInv'
  <2>1. CASE RollBack(t) BY <2>1, RollBackIsolation
  <2>2. CASE ~RollBack(t)
    <3>1. View(t) = db /\ db \in Tables
      BY <1>6 DEF WriteObject, Open, LockInv, ProgressInv, ProgressOf, View, TypeOK
    <3>2. LockFree(t) /\ Applicable(cmd[t], db.status)
      BY <1>6, <2>2, <3>1 DEF WriteObject, Write
    <3>3. [db EXCEPT !.status = Applied(cmd[t], @)] =
              [status |-> Applied(cmd[t], db.status), log |-> db.log]
      BY <3>1 DEF Tables
    <3>4. tx'[ConnectionOf[t]] = [status |-> Applied(cmd[t], db.status), log |-> db.log]
      BY <1>6, <2>2, <3>1, <3>3, ConnectionAssumption DEF WriteObject, Write, TypeOK
    <3>5. /\ pc'[t] = "written" /\ UNCHANGED <<db, cmd>>
          /\ \A k \in Connections : k # ConnectionOf[t] => tx'[k] = tx[k]
          /\ \A u \in Threads \ {t} : pc'[u] = pc[u]
      BY <1>6, <2>2, ConnectionAssumption DEF WriteObject, Write, TypeOK
    <3>6. tx'[ConnectionOf[t]] \in Tables
      <4>1. cmd[t] \in Commands BY <1>6 DEF WriteObject, TypeOK
      <4> QED BY <4>1, <3>4, <3>1, AppliedType DEF Tables
    <3>7. Open(t)' /\ InTransaction(t)' /\ ProgressOf(t)'
      BY <3>2, <3>4, <3>5, <3>6, NoneAssumption DEF Open, InTransaction, ProgressOf
    <3>8. Precheck(cmd[t], db.status) BY <1>6 DEF WriteObject, CheckedInv
    <3> QED BY <1>1, <3>2, <3>5, <3>7, <3>8, ThreadStepIsolation
  <2> QED BY <2>1, <2>2
<1>7. ASSUME NEW t \in Threads, AppendAuditEvent(t) PROVE IsolationInv'
  <2>1. CASE RollBack(t) BY <2>1, RollBackIsolation
  <2>2. CASE ~RollBack(t)
    <3> DEFINE view == [status |-> Applied(cmd[t], db.status), log |-> db.log]
               tables == [status |-> Applied(cmd[t], db.status),
                          log |-> Logged(cmd[t], db.log, ChainedEvent(cmd[t]))]
    <3>1. View(t) = view /\ Applicable(cmd[t], db.status) /\ cmd[t] \in Commands
      <4>1. pc[t] = "written" /\ cmd[t] \in Commands
        BY <1>7 DEF AppendAuditEvent, TypeOK
      <4>2. InTransaction(t) BY <4>1 DEF LockInv, Open
      <4>3. tx[ConnectionOf[t]] = view /\ Applicable(cmd[t], db.status)
        BY <4>1 DEF ProgressInv, ProgressOf
      <4> QED BY <4>1, <4>2, <4>3 DEF View
    <3>2. LockFree(t) /\ Appendable(t)
      BY <1>7, <2>2 DEF AppendAuditEvent, Write
    <3>3. EventFor(cmd[t], expected[t]) = ChainedEvent(cmd[t])
      BY <3>1, <3>2 DEF Appendable, CaseLog, ChainedEvent
    <3>4. tx'[ConnectionOf[t]] = tables
      BY <1>7, <2>2, <3>1, <3>3, ConnectionAssumption
         DEF AppendAuditEvent, Write, TypeOK
    <3>5. /\ pc'[t] = "appended" /\ UNCHANGED <<db, cmd>>
          /\ \A k \in Connections : k # ConnectionOf[t] => tx'[k] = tx[k]
          /\ \A u \in Threads \ {t} : pc'[u] = pc[u]
      BY <1>7, <2>2, ConnectionAssumption DEF AppendAuditEvent, Write, TypeOK
    <3>6. tables \in Tables
      <4>1. db \in Tables BY DEF TypeOK
      <4>2. db.log[CaseOf[cmd[t].object]] \in Seq(Event)
        BY <4>1, <3>1, CommandFacts, CaseIsCase DEF Tables
      <4> QED BY <4>1, <4>2, <3>1, AppliedType, LoggedType, LatestType
              DEF Tables, ChainedEvent
    <3>7. Open(t)' /\ InTransaction(t)' /\ ProgressOf(t)'
      BY <3>1, <3>4, <3>5, <3>6, NoneAssumption
         DEF Open, InTransaction, ProgressOf, ChainedEvent
    <3>8. Precheck(cmd[t], db.status) BY <1>7 DEF AppendAuditEvent, CheckedInv
    <3> HIDE DEF view, tables
    <3> QED BY <1>1, <3>2, <3>5, <3>7, <3>8, ThreadStepIsolation
  <2> QED BY <2>1, <2>2
<1>8. ASSUME NEW t \in Threads, Commit(t) PROVE IsolationInv'
  BY <1>8, CommitIsolation
<1>9. ASSUME NEW t \in Threads, CommitFails(t) PROVE IsolationInv'
  BY <1>9, RollBackIsolation DEF CommitFails
<1>10. ASSUME NEW k \in Connections, Crash(k) PROVE IsolationInv'
  BY <1>10, CrashIsolation
<1>11. CASE UNCHANGED vars
  BY <1>1, <1>11 DEF vars, LockInv, CheckedInv, ProgressInv, ProgressOf, ChainedEvent,
     Open, InTransaction, LockFree
<1> QED BY <1>2, <1>3, <1>4, <1>5, <1>6, <1>7, <1>8, <1>9, <1>10, <1>11
        DEF Next, Serve

-----------------------------------------------------------------------------
(* The promise is kept.                                                     *)

\* The operators on records are the same ones in the promise.
LEMMA SameRecords ==
    /\ Promise!Cases = Cases /\ Promise!Commands = Commands
    /\ \A c : Promise!NewStatus(c) = NewStatus(c)
    /\ \A o, s : Promise!Stored(o, s) <=> Stored(o, s)
    /\ \A c, s : Promise!Precheck(c, s) <=> Precheck(c, s)
    /\ \A c, s : Promise!Applicable(c, s) <=> Applicable(c, s)
    /\ \A c, s : Promise!Applied(c, s) = Applied(c, s)
    /\ \A e : Promise!Latest(e) = Latest(e)
    /\ \A c, a : Promise!EventFor(c, a) = EventFor(c, a)
    /\ \A c, l, e : Promise!Logged(c, l, e) = Logged(c, l, e)
<1>1. Promise!Cases = Cases /\ Promise!Commands = Commands
  BY DEF Cases, Promise!Cases, Commands, Promise!Commands, Ops, Promise!Ops,
         Fits, Promise!Fits
<1>2. \A c : Promise!NewStatus(c) = NewStatus(c)
  BY DEF NewStatus, Promise!NewStatus, FirstStatus, Promise!FirstStatus
<1>3. \A o, s : Promise!Stored(o, s) <=> Stored(o, s) BY DEF Stored, Promise!Stored
<1>4. \A c, s : Promise!Precheck(c, s) <=> Precheck(c, s)
  BY <1>3 DEF Precheck, Promise!Precheck, NeedsEvidence, Promise!NeedsEvidence
<1>5. \A c, s : Promise!Applicable(c, s) <=> Applicable(c, s)
  BY <1>3 DEF Applicable, Promise!Applicable, ForeignKeys, Promise!ForeignKeys
<1>6. \A c, s : Promise!Applied(c, s) = Applied(c, s)
  BY <1>2 DEF Applied, Promise!Applied
<1>7. /\ \A e : Promise!Latest(e) = Latest(e)
      /\ \A c, a : Promise!EventFor(c, a) = EventFor(c, a)
      /\ \A c, l, e : Promise!Logged(c, l, e) = Logged(c, l, e)
  BY DEF Latest, Promise!Latest, EventFor, Promise!EventFor, Logged, Promise!Logged
<1> QED BY <1>1, <1>2, <1>3, <1>4, <1>5, <1>6, <1>7

\* An audited command on the committed tables.
LEMMA ExecuteMeaning ==
    ASSUME NEW c
    PROVE  Promise!Execute(c) <=>
              /\ Precheck(c, db.status) /\ Applicable(c, db.status)
              /\ db'.status = Applied(c, db.status)
              /\ db'.log = Logged(c, db.log, ChainedEvent(c))
BY SameRecords DEF Promise!Execute, ChainedEvent

\* The committed tables change only by a commit, which is the audited command.
LEMMA CommitExecutes ==
    ASSUME Separate, IsolationInv, NEW t \in Threads, Commit(t)
    PROVE  cmd[t] \in Commands /\ Promise!Execute(cmd[t])
<1>1. pc[t] = "appended" /\ cmd[t] \in Commands
  BY DEF Commit, IsolationInv, TypeOK
<1>2. Precheck(cmd[t], db.status) BY <1>1 DEF IsolationInv, CheckedInv
<1>3. /\ Applicable(cmd[t], db.status)
      /\ tx[ConnectionOf[t]] =
            [status |-> Applied(cmd[t], db.status),
             log |-> Logged(cmd[t], db.log, ChainedEvent(cmd[t]))]
  BY <1>1 DEF IsolationInv, ProgressInv, ProgressOf
<1>4. InTransaction(t) BY <1>1 DEF IsolationInv, LockInv, Open
<1>5. db' = tx[ConnectionOf[t]] BY <1>4 DEF Commit, View
<1> QED BY <1>1, <1>2, <1>3, <1>5, ExecuteMeaning

\* A step of the server is an audited command, which a client may be told of,
\* or leaves the committed tables and the answers alone.
LEMMA StepExecutes ==
    ASSUME Separate, IsolationInv, [Next]_vars
    PROVE  \/ \E c \in Commands : Promise!Execute(c) /\ acked' = acked \cup {c}
           \/ UNCHANGED <<db, acked>>
<1>1. ASSUME NEW t \in Threads, Commit(t)
      PROVE \E c \in Commands : Promise!Execute(c) /\ acked' = acked \cup {c}
  BY <1>1, CommitExecutes DEF Commit
<1>2. ASSUME NEW t \in Threads, Serve(t), ~Commit(t) PROVE UNCHANGED <<db, acked>>
  BY <1>2 DEF Serve, ReadLatestAudit, Begin, BeginFails, WriteObject, AppendAuditEvent,
     CommitFails, Write, RollBack
<1>3. ASSUME NEW t \in Threads, NEW c \in Commands, Receive(t, c)
      PROVE UNCHANGED <<db, acked>>
  BY <1>3 DEF Receive
<1>4. ASSUME NEW k \in Connections, Crash(k) PROVE UNCHANGED <<db, acked>>
  BY <1>4 DEF Crash
<1>5. CASE UNCHANGED vars BY <1>5 DEF vars
<1> QED BY <1>1, <1>2, <1>3, <1>4, <1>5 DEF Next

\* With a connection for every thread, whatever the interleaving of requests, the
\* failures of BEGIN and COMMIT and the crashes, the committed tables change only
\* by whole audited commands.
THEOREM Implements == ASSUME Separate PROVE Spec => ImplementsPromise
<1>1. Init => IsolationInv /\ Promise!Init
  BY InitIsolation, SameRecords DEF Init, Promise!Init
<1>2. IsolationInv /\ [Next]_vars => IsolationInv' BY NextIsolation
<1>3. IsolationInv /\ [Next]_vars => [Promise!Next]_(Promise!vars)
  BY StepExecutes, SameRecords DEF Promise!Next, Promise!vars
<1> QED BY <1>1, <1>2, <1>3, PTL DEF Spec, ImplementsPromise, Promise!Spec

-----------------------------------------------------------------------------
(* What the promise is worth.                                               *)

\* What an audited command does to the logs: one event more for its case.
LEMMA ExecuteLogs ==
    ASSUME TypeOK, NEW c \in Commands, Promise!Execute(c)
    PROVE  /\ db.status \in [Objects -> Statuses] /\ db.log \in [Cases -> Seq(Event)]
           /\ CaseOf[c.object] \in Cases
           /\ db'.status = [db.status EXCEPT ![c.object] = NewStatus(c)]
           /\ \A k \in Cases : db'.log[k] =
                IF k = CaseOf[c.object] THEN Append(db.log[k], ChainedEvent(c))
                ELSE db.log[k]
<1>1. db.status \in [Objects -> Statuses] /\ db.log \in [Cases -> Seq(Event)]
  BY DEF TypeOK, Tables
<1>2. CaseOf[c.object] \in Cases BY CommandFacts, CaseIsCase
<1> QED BY <1>1, <1>2, ExecuteMeaning DEF Applied, Logged

\* An audited command moves its object to the status that its event tells of.
LEMMA ExecuteAudited ==
    ASSUME TypeOK, ObjectsAudited, NEW c \in Commands, Promise!Execute(c)
    PROVE  ObjectsAudited'
<1> DEFINE old(o) == db.log[CaseOf[o]]
           new(o) == db'.log[CaseOf[o]]
           Silent(o) == ~Stored(o, db.status)
                        /\ \A i \in 1..Len(old(o)) : old(o)[i].payload.object # o
           Told(o, i) == /\ old(o)[i].payload.object = o
                         /\ \A j \in 1..Len(old(o)) : j > i => old(o)[j].payload.object # o
                         /\ db.status[o] = NewStatus(old(o)[i].payload)
           Silent1(o) == ~Stored(o, db'.status)
                        /\ \A i \in 1..Len(new(o)) : new(o)[i].payload.object # o
           Told1(o, i) == /\ new(o)[i].payload.object = o
                          /\ \A j \in 1..Len(new(o)) : j > i => new(o)[j].payload.object # o
                          /\ db'.status[o] = NewStatus(new(o)[i].payload)
<1>1. \A o \in Objects : Silent(o) \/ \E i \in 1..Len(old(o)) : Told(o, i)
  BY SameRecords DEF ObjectsAudited, Promise!ObjectsAudited, Promise!About,
     Promise!EventIds
<1>2. SUFFICES ASSUME NEW o \in Objects
               PROVE  Silent1(o) \/ \E i \in 1..Len(new(o)) : Told1(o, i)
  BY SameRecords DEF ObjectsAudited, Promise!ObjectsAudited, Promise!About,
     Promise!EventIds
<1>3. CaseOf[o] \in Cases BY CaseIsCase
<1>4. old(o) \in Seq(Event) /\ Len(old(o)) \in Nat
  <2>1. old(o) \in Seq(Event) BY <1>3, ExecuteLogs
  <2> HIDE DEF old
  <2> QED BY <2>1
<1>5. ChainedEvent(c).payload = c BY DEF ChainedEvent, EventFor
<1>6. o # c.object => db'.status[o] = db.status[o]
  BY ExecuteLogs DEF Stored
<1>7. CASE CaseOf[o] # CaseOf[c.object]
  <2>1. new(o) = old(o) /\ o # c.object BY <1>3, <1>7, ExecuteLogs
  <2> QED BY <2>1, <1>1, <1>6 DEF Stored
<1>8. CASE CaseOf[o] = CaseOf[c.object]
  <2>1. new(o) = Append(old(o), ChainedEvent(c)) BY <1>3, <1>8, ExecuteLogs
  <2>2. Len(new(o)) = Len(old(o)) + 1 /\ new(o)[Len(old(o)) + 1].payload = c
        /\ \A j \in 1..Len(old(o)) : new(o)[j] = old(o)[j]
    BY <2>1, <1>4, <1>5
  <2>3. CASE o = c.object
    <3>1. db'.status[o] = NewStatus(c) BY <2>3, ExecuteLogs
    <3>2. Told1(o, Len(old(o)) + 1) BY <3>1, <2>2, <2>3, <1>4
    <3>3. Len(old(o)) + 1 \in 1..Len(new(o)) BY <2>2, <1>4
    <3> HIDE DEF Told1, old, new
    <3> QED BY <3>2, <3>3
  <2>4. CASE o # c.object
    <3>0. \A j \in 1..Len(new(o)) :
              \/ j \in 1..Len(old(o)) /\ new(o)[j] = old(o)[j]
              \/ j = Len(old(o)) + 1 /\ new(o)[j].payload.object # o
      <4> HIDE DEF old, new
      <4> QED BY <2>2, <2>4, <1>4
    <3>1. CASE Silent(o)
      <4>1. \A j \in 1..Len(new(o)) : new(o)[j].payload.object # o
        <5>1. \A j \in 1..Len(old(o)) : old(o)[j].payload.object # o BY <3>1
        <5> HIDE DEF old, new
        <5> QED BY <3>0, <5>1
      <4>2. ~Stored(o, db'.status) BY <3>1, <2>4, <1>6 DEF Stored
      <4> QED BY <4>1, <4>2
    <3>2. ASSUME NEW i \in 1..Len(old(o)), Told(o, i)
          PROVE  i \in 1..Len(new(o)) /\ Told1(o, i)
      <4>1. /\ old(o)[i].payload.object = o
            /\ \A j \in 1..Len(old(o)) : j > i => old(o)[j].payload.object # o
            /\ db.status[o] = NewStatus(old(o)[i].payload)
        BY <3>2
      <4>2. i \in 1..Len(new(o)) /\ new(o)[i] = old(o)[i]
        <5> HIDE DEF old, new
        <5> QED BY <2>2, <1>4
      <4>3. \A j \in 1..Len(new(o)) : j > i => new(o)[j].payload.object # o
        <5> HIDE DEF old, new
        <5> QED BY <3>0, <4>1
      <4>4. db'.status[o] = NewStatus(new(o)[i].payload)
        BY <4>1, <4>2, <2>4, <1>6
      <4> QED BY <4>1, <4>2, <4>3, <4>4
    <3> HIDE DEF Told, Told1, Silent, Silent1, old, new
    <3> QED BY <3>1, <3>2, <1>1
  <2> QED BY <2>3, <2>4
<1> QED BY <1>7, <1>8

\* An audited command creates an object only where what it refers to is stored,
\* and deletes nothing.
LEMMA ExecuteReferences ==
    ASSUME TypeOK, ReferencesHold, NEW c \in Commands, Promise!Execute(c)
    PROVE  ReferencesHold'
<1>1. SUFFICES ASSUME NEW o \in Objects, Stored(o, db'.status), NEW r \in Refs[o]
               PROVE  Stored(r, db'.status) /\ CaseOf[r] = CaseOf[o]
  BY SameRecords DEF ReferencesHold, Promise!ReferencesHold
<1>2. r \in Objects BY RecordsAssumption
<1>3. db.status \in [Objects -> Statuses] /\ db'.status = Applied(c, db.status)
  BY ExecuteMeaning, ExecuteLogs
<1>4. Stored(r, db.status) => Stored(r, db'.status) BY <1>2, <1>3, AppliedType
<1>5. CASE Stored(o, db.status)
  BY <1>4, <1>5, SameRecords DEF ReferencesHold, Promise!ReferencesHold
<1>6. CASE ~Stored(o, db.status)
  <2>1. o = c.object BY <1>1, <1>3, <1>6 DEF Applied, Stored
  <2>2. Precheck(c, db.status) BY ExecuteMeaning
  <2> QED BY <2>1, <2>2, <1>1, <1>4, <1>6 DEF Precheck
<1> QED BY <1>5, <1>6

\* An audited command is in the log of its case, and what was logged stays.
LEMMA ExecuteAcked ==
    ASSUME TypeOK, AckedIsLogged, NEW c \in Commands, Promise!Execute(c),
           acked' = acked \cup {c}
    PROVE  AckedIsLogged'
<1>1. SUFFICES ASSUME NEW d \in acked'
               PROVE  \E i \in 1..Len(db'.log[CaseOf[d.object]]) :
                          db'.log[CaseOf[d.object]][i].payload = d
  BY DEF AckedIsLogged
<1> DEFINE l == db.log[CaseOf[d.object]]
           m == db'.log[CaseOf[d.object]]
<1>2. d \in Commands BY DEF TypeOK
<1>3. CaseOf[d.object] \in Cases BY <1>2, CommandFacts, CaseIsCase
<1>4. l \in Seq(Event) BY <1>3, ExecuteLogs
<1>5. ChainedEvent(c).payload = c BY DEF ChainedEvent, EventFor
<1>6. CASE d = c
  <2>1. m = Append(l, ChainedEvent(c)) BY <1>3, <1>6, ExecuteLogs
  <2>2. Len(m) = Len(l) + 1 /\ m[Len(l) + 1].payload = d /\ Len(l) \in Nat
    BY <2>1, <1>4, <1>5, <1>6
  <2> QED BY <2>2
<1>7. CASE d # c
  <2>1. PICK i \in 1..Len(l) : l[i].payload = d BY <1>7 DEF AckedIsLogged
  <2>2. m = l \/ m = Append(l, ChainedEvent(c)) BY <1>3, ExecuteLogs
  <2>3. i \in 1..Len(m) /\ m[i] = l[i] BY <1>4, <2>1, <2>2
  <2> QED BY <2>1, <2>3
<1> QED BY <1>6, <1>7

-----------------------------------------------------------------------------
Proven == ObjectsAudited /\ ReferencesHold /\ AckedIsLogged

\* The three properties of the committed tables and the answers hold together.
LEMMA ProvenInvariant == ASSUME Separate PROVE Spec => [](IsolationInv /\ Proven)
<1>1. Init => IsolationInv /\ Proven
  <2> SUFFICES ASSUME Init PROVE Proven BY InitIsolation
  <2>1. AckedIsLogged BY DEF Init, AckedIsLogged
  <2>2. ObjectsAudited
    <3> SUFFICES ASSUME NEW o \in Objects
                 PROVE  ~Stored(o, db.status) /\ Promise!EventIds(o) = {}
      BY SameRecords DEF ObjectsAudited, Promise!ObjectsAudited
    <3> QED BY CaseIsCase DEF Init, Promise!EventIds, Stored
  <2>3. ReferencesHold
    BY SameRecords DEF Init, ReferencesHold, Promise!ReferencesHold, Stored
  <2> QED BY <2>1, <2>2, <2>3 DEF Proven
<1>2. IsolationInv /\ Proven /\ [Next]_vars => (IsolationInv /\ Proven)'
  <2> SUFFICES ASSUME IsolationInv, Proven, [Next]_vars PROVE Proven' BY NextIsolation
  <2>1. CASE UNCHANGED <<db, acked>>
    BY <2>1, SameRecords DEF Proven, AckedIsLogged, ObjectsAudited, Promise!ObjectsAudited, Promise!EventIds, Promise!About,
       ReferencesHold, Promise!ReferencesHold
  <2>2. ASSUME NEW c \in Commands, Promise!Execute(c), acked' = acked \cup {c}
        PROVE  Proven'
    BY <2>2, ExecuteAudited, ExecuteReferences, ExecuteAcked
       DEF Proven, IsolationInv
  <2> QED BY <2>1, <2>2, StepExecutes
<1> QED BY <1>1, <1>2, PTL DEF Spec

\* Object rows and audit events always tell the same story: no row, and no change
\* of a row, without its event, and no event without its effect.
THEOREM AuditIsComplete == ASSUME Separate PROVE Spec => []ObjectsAudited
<1>1. Proven => ObjectsAudited BY DEF Proven
<1> QED BY <1>1, ProvenInvariant, PTL

\* References never dangle and never leave their case, also those that no foreign
\* key guards and that were checked before the transaction.
THEOREM ReferencesAreSound == ASSUME Separate PROVE Spec => []ReferencesHold
<1>1. Proven => ReferencesHold BY DEF Proven
<1> QED BY <1>1, ProvenInvariant, PTL

\* What a client was told has been done is in the audit log for good.
THEOREM AnswersAreDurable == ASSUME Separate PROVE Spec => []AckedIsLogged
<1>1. Proven => AckedIsLogged BY DEF Proven
<1> QED BY <1>1, ProvenInvariant, PTL
=============================================================================
