----------------------- MODULE UpdateControllerProofs -----------------------
(***************************************************************************)
(* What TLAPS proves of UpdateController for all sources, dependency         *)
(* graphs, hosts, files, contents, retry budgets and worker counts, and      *)
(* under every fault of AllFaults.                                          *)
(***************************************************************************)
EXTENDS UpdateController, TLAPS, WellFoundedInduction, FiniteSetTheorems

\* Every status the output gate computes is one the controller knows.
LEMMA GateStatusType ==
    ASSUME NEW b, NEW a
    PROVE  GateStatus(b, a) \in Statuses
  BY DEF GateStatus, EmptyStatus, ChangeStatus, Statuses, SuccessStatuses,
         FailureStatuses

\* A fresh state row is well typed.
LEMMA NewRowType == NewRow \in Row
  BY DEF NewRow, Row, MaybeContent

\* The lane-local variables as LanesCleared leaves them are well typed.
LEMMA ClearedType ==
    ASSUME LanesCleared
    PROVE  /\ pc' \in [Sources -> Stages]
           /\ result' \in [Sources -> Statuses \cup {NotRun}]
           /\ attempt' \in [Sources -> 0..(MaxRetries + 1)]
           /\ before' \in [Sources -> MaybeContent]
           /\ reads' \in [Sources -> [Sources -> MaybeContent]]
           /\ todo' \in [Sources -> SUBSET Drops]
           /\ loaded' \in [Sources -> [Sources -> SUBSET Drops]]
  BY ControllerAssumption DEF LanesCleared, Stages, MaybeContent

\* The controller starts well typed.
LEMMA InitType == Init => TypeOK
<1>. SUFFICES ASSUME Init
              PROVE  TypeOK
  OBVIOUS
<1>1. None \in MaybeContent /\ 0 \in 0..(MaxRetries + 1)
  BY ControllerAssumption DEF MaybeContent
<1>2. /\ stateFile \in [Sources -> Row] /\ mem \in [Sources -> Row]
  BY NewRowType DEF Init
<1>3. reads \in [Sources -> [Sources -> MaybeContent]]
  BY <1>1 DEF Init
<1>4. loaded \in [Sources -> [Sources -> SUBSET Drops]]
  BY DEF Init
<1>5. attempt \in [Sources -> 0..(MaxRetries + 1)]
  BY <1>1 DEF Init
<1>. QED
  BY <1>1, <1>2, <1>3, <1>4, <1>5 DEF Init, TypeOK, Phases, Stages

\* What run_source commits is a well-typed state row.
LEMMA CommittedRowType ==
    ASSUME TypeOK, NEW s \in Sources
    PROVE  CommittedRow(s) \in Row
<1>1. mem[s] \in Row /\ output[s] \in MaybeContent
  BY DEF TypeOK
<1>2. ConsumedVersions(s) \in [Sources -> MaybeContent]
  <2>1. \A p \in Sources : mem[p].hash \in MaybeContent
    BY DEF TypeOK, Row
  <2>2. \A p \in Sources : mem[s].versions[p] \in MaybeContent
    BY <1>1 DEF Row
  <2>. QED
    BY <2>1, <2>2 DEF ConsumedVersions
<1>3. mem[s].waiting \in BOOLEAN
  BY <1>1 DEF Row
<1>. QED
  BY <1>1, <1>2, <1>3 DEF CommittedRow, Row

-----------------------------------------------------------------------------
(* Type correctness.                                                        *)

\* Drops, time and the loss of the state file keep the types.
LEMMA EnvironmentType == TypeOK /\ Environment => TypeOK'
<1>. SUFFICES ASSUME TypeOK, Environment
              PROVE  TypeOK'
  OBVIOUS
<1>1. ASSUME NEW s \in Sources, NEW d \in Drops, DropArrives(s, d)
      PROVE  TypeOK'
  BY <1>1 DEF TypeOK, DropArrives, runVars, laneVars
<1>2. ASSUME NEW s \in Sources, Elapse(s)
      PROVE  TypeOK'
  <2>1. stateFile' \in [Sources -> Row]
    BY <1>2 DEF TypeOK, Elapse, Row
  <2>. QED
    BY <1>2, <2>1 DEF TypeOK, Elapse, laneVars
<1>3. CASE LoseState
  BY <1>3, NewRowType DEF TypeOK, LoseState, laneVars
<1>. QED
  BY <1>1, <1>2, <1>3 DEF Environment

\* A new invocation keeps the types.
LEMMA BeginType ==
    ASSUME TypeOK, NEW mode \in Phases, NEW plan \in SUBSET Sources, Begin(mode, plan)
    PROVE  TypeOK'
  BY DEF TypeOK, Begin, diskVars, laneVars

\* Every command of the CLI starts well typed.
LEMMA CommandType == TypeOK /\ Command => TypeOK'
<1>. SUFFICES ASSUME TypeOK, Command
              PROVE  TypeOK'
  OBVIOUS
<1>1. ASSUME NEW sel \in Selections, StartDue(sel)
      PROVE  TypeOK'
  <2>1. DuePlan(sel, stateFile) \in SUBSET Sources
    BY ControllerAssumption DEF DuePlan
  <2>. QED
    BY <1>1, <2>1, BeginType DEF StartDue, Phases
<1>2. ASSUME NEW sel \in SUBSET Sources, StartForced(sel)
      PROVE  TypeOK'
  BY <1>2, BeginType DEF StartForced, Phases
<1>3. CASE StartIngest
  BY <1>3, BeginType DEF StartIngest, DropSources, Phases
<1>. QED
  BY <1>1, <1>2, <1>3 DEF Command

\* The control loop of a run keeps the types.
LEMMA ControlType == TypeOK /\ Control => TypeOK'
<1>. SUFFICES ASSUME TypeOK, Control
              PROVE  TypeOK'
  OBVIOUS
<1>1. CASE NextWave
  BY <1>1 DEF TypeOK, NextWave, Ready, Stages, diskVars
<1>2. CASE EndWave
  BY <1>2, ClearedType DEF TypeOK, EndWave, Completed, WaveFailed
<1>3. CASE StartDependents
  BY <1>3 DEF TypeOK, StartDependents, DuePlan, Dependents, Phases, diskVars, laneVars
<1>4. CASE EndRun
  BY <1>4 DEF TypeOK, EndRun, Phases, diskVars, laneVars
<1>5. CASE NextIngest
  BY <1>5 DEF TypeOK, NextIngest, Stages, diskVars
<1>6. CASE EndIngested
  BY <1>6, ClearedType DEF TypeOK, EndIngested, diskVars
<1>7. CASE EndIngest
  BY <1>7 DEF TypeOK, EndIngest, Phases, laneVars
<1>. QED
  BY <1>1, <1>2, <1>3, <1>4, <1>5, <1>6, <1>7 DEF Control

\* Every step of run_source keeps the types.
LEMMA RunSourceType ==
    ASSUME TypeOK, NEW s \in Sources, RunSource(s)
    PROVE  TypeOK'
<1>. USE DEF diskVars, runVars
<1>1. CASE Skip(s)
  BY <1>1 DEF TypeOK, Skip, SkipStatus, Finish, Stages, Statuses, NonRunStatuses
<1>2. CASE PreflightFails(s)
  BY <1>2 DEF TypeOK, PreflightFails, Fail, Finish, Stages, Statuses, FailureStatuses
<1>3. CASE Launch(s)
  BY <1>3, ControllerAssumption DEF TypeOK, Launch, Stages
<1>4. ASSUME NEW c \in MaybeContent, ProducerSucceeds(s, c)
      PROVE  TypeOK'
  <2>1. \A p \in Sources : output[p] \in MaybeContent
    BY DEF TypeOK
  <2>2. None \in MaybeContent
    BY DEF MaybeContent
  <2>3. reads' \in [Sources -> [Sources -> MaybeContent]]
    BY <1>4, <2>1, <2>2 DEF TypeOK, ProducerSucceeds
  <2>4. output' \in [Sources -> MaybeContent] /\ pc' \in [Sources -> Stages]
    BY <1>4 DEF TypeOK, ProducerSucceeds, Stages
  <2>. QED
    BY <1>4, <2>3, <2>4 DEF TypeOK, ProducerSucceeds
<1>5. ASSUME NEW c \in MaybeContent, ProducerRetries(s, c)
      PROVE  TypeOK'
  <2>1. attempt' \in [Sources -> 0..(MaxRetries + 1)]
    <3>1. attempt \in [Sources -> 0..(MaxRetries + 1)] /\ MaxRetries \in Nat
      BY ControllerAssumption DEF TypeOK
    <3>2. CASE attempt[s] <= MaxRetries
      <4>1. attempt[s] + 1 \in 0..(MaxRetries + 1)
        BY <3>1, <3>2
      <4>2. attempt' = [attempt EXCEPT ![s] = attempt[s] + 1]
        BY <1>5, <3>2 DEF ProducerRetries
      <4>. QED
        BY <3>1, <4>1, <4>2
    <3>3. CASE ~(attempt[s] <= MaxRetries)
      BY <1>5, <3>1, <3>3 DEF ProducerRetries
    <3>. QED
      BY <3>2, <3>3
  <2>2. /\ pc' \in [Sources -> Stages] /\ packets' \in SUBSET Sources
        /\ result' \in [Sources -> Statuses \cup {NotRun}]
    <3>1. "RATE_LIMITED" \in Statuses /\ "done" \in Stages
      BY DEF Statuses, FailureStatuses, Stages
    <3>2. UNCHANGED <<pc, result, packets>> \/ Fail(s, "RATE_LIMITED")
      BY <1>5 DEF ProducerRetries
    <3>3. CASE UNCHANGED <<pc, result, packets>>
      BY <3>3 DEF TypeOK
    <3>4. CASE Fail(s, "RATE_LIMITED")
      BY <3>1, <3>4 DEF TypeOK, Fail, Finish
    <3>. QED
      BY <3>2, <3>3, <3>4
  <2>3. output' \in [Sources -> MaybeContent]
    BY <1>5 DEF TypeOK, ProducerRetries
  <2>. QED
    BY <1>5, <2>1, <2>2, <2>3 DEF TypeOK, ProducerRetries
<1>6. ASSUME NEW c \in MaybeContent, ProducerFails(s, c)
      PROVE  TypeOK'
  BY <1>6 DEF TypeOK, ProducerFails, Fail, Finish, Stages, Statuses, FailureStatuses
<1>7. CASE Reject(s)
  <2>1. Status(s) \in Statuses
    BY GateStatusType DEF Status
  <2>. QED
    BY <1>7, <2>1 DEF TypeOK, Reject, Fail, Finish, Stages
<1>8. CASE Commit(s)
  <2>1. Status(s) \in Statuses /\ CommittedRow(s) \in Row
    BY GateStatusType, CommittedRowType DEF Status
  <2>2. NewDrops(s) \in SUBSET Drops
    BY DEF TypeOK, NewDrops
  <2>. QED
    BY <1>8, <2>1, <2>2 DEF TypeOK, Commit, Stages
<1>9. CASE MarkRead(s)
  BY <1>9 DEF TypeOK, MarkRead, Stages
<1>10. CASE MarkWrite(s)
  <2>1. PICK d \in todo[s] :
          /\ consumedFile' = [loaded[s] EXCEPT ![s] = @ \cup {d}]
          /\ todo' = [todo EXCEPT ![s] = @ \ {d}]
          /\ pc' = [pc EXCEPT ![s] = IF todo[s] = {d} THEN "done" ELSE "marking"]
    BY <1>10 DEF MarkWrite
  <2>2. d \in Drops /\ loaded[s] \in [Sources -> SUBSET Drops]
    BY DEF TypeOK
  <2>3. consumedFile' \in [Sources -> SUBSET Drops]
    BY <2>1, <2>2
  <2>. QED
    BY <1>10, <2>1, <2>3 DEF TypeOK, MarkWrite, Stages
<1>. QED
  BY <1>1, <1>2, <1>3, <1>4, <1>5, <1>6, <1>7, <1>8, <1>9, <1>10 DEF RunSource

\* Every step keeps the types.
LEMMA NextType == TypeOK /\ [Next]_vars => TypeOK'
<1>. SUFFICES ASSUME TypeOK, [Next]_vars
              PROVE  TypeOK'
  OBVIOUS
<1>1. CASE Crash
  BY <1>1, ClearedType DEF TypeOK, Crash, Phases, diskVars
<1>2. CASE UNCHANGED vars
  BY <1>2 DEF TypeOK, vars, diskVars, runVars, laneVars
<1>. QED
  BY <1>1, <1>2, EnvironmentType, CommandType, ControlType, RunSourceType DEF Next

\* Every variable of the controller keeps its type, in particular the attempt
\* counter never exceeds the retry budget.
THEOREM TypeCorrect == Spec => []TypeOK
<1>1. Init => TypeOK
  BY InitType
<1>2. TypeOK /\ [Next]_vars => TypeOK'
  BY NextType
<1>. QED
  BY <1>1, <1>2, PTL DEF Spec

-----------------------------------------------------------------------------
(* Waves and lanes.  LaneInv is the strengthening that makes                *)
(* DependencySafe, LaneExclusive and NoLostMark inductive.                  *)

\* A source whose lane has taken it up.
Taken(s) == pc[s] \notin {"out", "queued"}

\* Only sources of the current wave have a lane, and what a source of a wave
\* depends on is neither in the wave nor still to come.
WaveInv ==
    /\ \A s \in Sources : pc[s] # "out" => s \in wave
    /\ phase = "idle" => wave = {}
    /\ phase = "ingest" => \A s, t \in wave : s = t
    /\ phase \in {"main", "deps"} =>
          \A s \in wave : DependsOn[s] \cap (wave \cup pending) = {}

\* A lane takes its sources in order.
OrderInv == \A s \in wave : Taken(s) => \A t \in Earlier(s) : pc[t] = "done"

\* Only drop sources reach mark_consumed, and what one of them has read of the
\* manifest is still what the file holds.
MarkInv ==
    /\ \A s \in Sources : pc[s] \in {"marking", "writing"} => IsDrop(s)
    /\ \A s \in Sources : pc[s] = "writing" => loaded[s] = consumedFile

LaneInv == TypeOK /\ WaveInv /\ OrderInv /\ MarkInv

\* Two sources of one lane that are both taken up and not yet done are the same.
LEMMA OneInLane ==
    ASSUME WaveInv, OrderInv, NEW s \in Sources, NEW t \in Sources,
           LaneKey(s) = LaneKey(t),
           Taken(s), Taken(t), pc[s] # "done", pc[t] # "done"
    PROVE  s = t
<1>. SUFFICES ASSUME s # t
              PROVE  FALSE
  OBVIOUS
<1>1. s \in wave /\ t \in wave
  BY DEF WaveInv, Taken
<1>2. Rank[s] < Rank[t] \/ Rank[t] < Rank[s]
  BY ControllerAssumption
<1>3. s \in Earlier(t) \/ t \in Earlier(s)
  BY <1>1, <1>2 DEF Earlier
<1>. QED
  BY <1>1, <1>3 DEF OrderInv

\* What every step of run_source does to the stage of its source: it is taken
\* from the queue only when the earlier sources of its lane are done.
StageStep(s, x) ==
    /\ UNCHANGED <<phase, pending, wave>>
    /\ pc[s] \notin {"out", "done"}
    /\ pc' = [pc EXCEPT ![s] = x]
    /\ x \in {"marking", "writing"} => IsDrop(s)
    /\ x = "writing" => loaded'[s] = consumedFile'
    /\ pc[s] = "queued" => \A t \in Earlier(s) : pc[t] = "done"
    /\ \A t \in Sources \ {s} : loaded'[t] = loaded[t]
    /\ consumedFile' # consumedFile => pc[s] = "writing"

TakenStages == Stages \ {"out", "queued"}

\* A step of run_source moves one source of the current wave, and starts it only
\* when the source is startable.
LEMMA RunSourceStage ==
    ASSUME LaneInv, NEW s \in Sources, RunSource(s)
    PROVE  \E x \in TakenStages : StageStep(s, x)
<1>. USE DEF diskVars, runVars, StageStep
<1>0. pc \in [Sources -> Stages] /\ loaded \in [Sources -> [Sources -> SUBSET Drops]]
  BY DEF LaneInv, TypeOK
<1>1. CASE Skip(s)
  <2>1. StageStep(s, "done")
    BY <1>1 DEF Skip, Startable, Finish
  <2>. QED
    BY <2>1 DEF TakenStages, Stages
<1>2. CASE PreflightFails(s)
  <2>1. StageStep(s, "done")
    BY <1>2 DEF PreflightFails, Startable, Fail, Finish
  <2>. QED
    BY <2>1 DEF TakenStages, Stages
<1>3. CASE Launch(s)
  <2>1. StageStep(s, "ready")
    BY <1>3 DEF Launch, Startable
  <2>. QED
    BY <2>1 DEF TakenStages, Stages
<1>4. ASSUME NEW c \in MaybeContent, ProducerSucceeds(s, c)
      PROVE  StageStep(s, "exited")
  BY <1>4 DEF ProducerSucceeds
<1>5. ASSUME NEW c \in MaybeContent, ProducerRetries(s, c)
      PROVE  StageStep(s, "ready") \/ StageStep(s, "done")
  <2>1. CASE attempt[s] <= MaxRetries
    <3>1. pc' = [pc EXCEPT ![s] = "ready"]
      BY <1>0, <1>5, <2>1 DEF ProducerRetries
    <3>. QED
      BY <1>5, <3>1 DEF ProducerRetries
  <2>2. CASE ~(attempt[s] <= MaxRetries)
    BY <1>5, <2>2 DEF ProducerRetries, Fail, Finish
  <2>. QED
    BY <2>1, <2>2
<1>6. ASSUME NEW c \in MaybeContent, ProducerFails(s, c)
      PROVE  StageStep(s, "done")
  BY <1>6 DEF ProducerFails, Fail, Finish
<1>7. CASE Reject(s)
  <2>1. StageStep(s, "done")
    BY <1>7 DEF Reject, Fail, Finish
  <2>. QED
    BY <2>1 DEF TakenStages, Stages
<1>8. CASE Commit(s)
  <2>1. NewDrops(s) # {} => IsDrop(s)
    BY DEF NewDrops
  <2>2. StageStep(s, "done") \/ StageStep(s, "marking")
    BY <1>8, <2>1 DEF Commit
  <2>. QED
    BY <2>2 DEF TakenStages, Stages
<1>9. CASE MarkRead(s)
  <2>1. IsDrop(s)
    BY <1>9 DEF MarkRead, LaneInv, MarkInv
  <2>2. loaded'[s] = consumedFile' /\ \A t \in Sources \ {s} : loaded'[t] = loaded[t]
    BY <1>0, <1>9 DEF MarkRead
  <2>3. StageStep(s, "writing")
    BY <1>9, <2>1, <2>2 DEF MarkRead
  <2>. QED
    BY <2>3 DEF TakenStages, Stages
<1>10. CASE MarkWrite(s)
  <2>1. IsDrop(s)
    BY <1>10 DEF MarkWrite, LaneInv, MarkInv
  <2>2. StageStep(s, "done") \/ StageStep(s, "marking")
    BY <1>10, <2>1 DEF MarkWrite
  <2>. QED
    BY <2>2 DEF TakenStages, Stages
<1>11. "ready" \in TakenStages /\ "exited" \in TakenStages /\ "done" \in TakenStages
  BY DEF TakenStages, Stages
<1>12. ASSUME NEW x \in TakenStages, StageStep(s, x)
       PROVE  \E y \in TakenStages : StageStep(s, y)
  BY <1>12
<1>. QED
  BY <1>1, <1>2, <1>3, <1>4, <1>5, <1>6, <1>7, <1>8, <1>9, <1>10, <1>11, <1>12
  DEF RunSource

\* A step of run_source keeps the waves, the order of the lanes and the
\* manifest that a lane is about to replace.
LEMMA RunSourceLane ==
    ASSUME LaneInv, NEW s \in Sources, RunSource(s)
    PROVE  WaveInv' /\ OrderInv' /\ MarkInv'
<1>1. PICK x \in TakenStages : StageStep(s, x)
  BY RunSourceStage
<1>2. /\ pc' = [pc EXCEPT ![s] = x]
      /\ x \in {"marking", "writing"} => IsDrop(s)
      /\ x = "writing" => loaded'[s] = consumedFile'
  BY <1>1 DEF StageStep
<1>3. pc \in [Sources -> Stages] /\ s \in wave /\ UNCHANGED <<phase, pending, wave>>
  BY <1>1 DEF LaneInv, TypeOK, WaveInv, StageStep
<1>4. pc'[s] = x /\ \A t \in Sources \ {s} : pc'[t] = pc[t]
  BY <1>2, <1>3
<1>5. WaveInv'
  BY <1>3, <1>4 DEF LaneInv, WaveInv
<1>6. OrderInv'
  <2>. SUFFICES ASSUME NEW u \in wave, Taken(u)', NEW t \in Earlier(u)
                PROVE  pc'[t] = "done"
    BY <1>3 DEF OrderInv, Earlier
  <2>1. u \in Sources /\ t \in Sources /\ Rank[t] < Rank[u] /\ t \in wave
    BY DEF Earlier, LaneInv, TypeOK
  <2>2. t # u
    BY <2>1, ControllerAssumption
  <2>3. pc[t] = "done"
    <3>1. CASE u = s
      BY <3>1, <1>1 DEF StageStep, LaneInv, OrderInv, Taken
    <3>2. CASE u # s
      BY <3>2, <1>4, <2>1 DEF LaneInv, OrderInv, Taken
    <3>. QED
      BY <3>1, <3>2
  <2>4. t # s
    BY <1>1, <2>3 DEF StageStep
  <2>. QED
    BY <1>4, <2>1, <2>3, <2>4
<1>7. MarkInv'
  <2>1. ASSUME NEW t \in Sources, pc'[t] \in {"marking", "writing"}
        PROVE  IsDrop(t)
    BY <1>2, <1>4, <2>1 DEF LaneInv, MarkInv
  <2>2. ASSUME NEW t \in Sources, pc'[t] = "writing"
        PROVE  loaded'[t] = consumedFile'
    <3>1. CASE t = s
      BY <1>2, <1>4, <2>2, <3>1
    <3>2. CASE t # s
      <4>1. pc[t] = "writing" /\ loaded'[t] = consumedFile
        BY <1>1, <1>4, <2>2, <3>2 DEF StageStep, LaneInv, MarkInv
      <4>2. pc[s] # "writing"
        <5>1. SUFFICES ASSUME pc[s] = "writing"
                       PROVE  FALSE
          OBVIOUS
        <5>2. LaneKey(s) = LaneKey(t)
          BY <4>1, <5>1 DEF LaneInv, MarkInv, LaneKey
        <5>. QED
          BY <3>2, <4>1, <5>1, <5>2, OneInLane DEF LaneInv, Taken
      <4>. QED
        BY <1>1, <4>1, <4>2 DEF StageStep
    <3>. QED
      BY <3>1, <3>2
  <2>. QED
    BY <2>1, <2>2 DEF MarkInv
<1>. QED
  BY <1>5, <1>6, <1>7

\* A step that takes no lane further: it empties the lanes, queues a new wave,
\* or leaves stages and manifest alone.
LEMMA NoLanesInv ==
    ASSUME TypeOK', \A s \in Sources : pc'[s] \in {"out", "queued"}
    PROVE  OrderInv' /\ MarkInv'
<1>1. \A s \in wave' : s \in Sources
  BY DEF TypeOK
<1>2. OrderInv'
  BY <1>1 DEF OrderInv, Taken
<1>3. MarkInv'
  BY DEF MarkInv
<1>. QED
  BY <1>2, <1>3

\* Between waves every source is out of the lanes.
LEMMA EmptyWave ==
    ASSUME LaneInv, wave = {}
    PROVE  \A s \in Sources : pc[s] = "out"
  BY DEF LaneInv, WaveInv

\* A new invocation starts with empty lanes.
LEMMA BeginLane ==
    ASSUME LaneInv, TypeOK', NEW mode \in Phases, NEW plan, Begin(mode, plan)
    PROVE  LaneInv'
<1>1. wave = {} /\ wave' = {} /\ pc' = pc
  BY DEF LaneInv, WaveInv, Begin, laneVars
<1>2. \A s \in Sources : pc'[s] = "out"
  BY <1>1, EmptyWave
<1>3. WaveInv'
  BY <1>1, <1>2 DEF WaveInv
<1>. QED
  BY <1>2, <1>3, NoLanesInv DEF LaneInv

\* The control loop keeps the lanes in order.
LEMMA ControlLane ==
    ASSUME LaneInv, TypeOK', Control
    PROVE  LaneInv'
<1>0. pc \in [Sources -> Stages] /\ wave \in SUBSET Sources /\ pending \in SUBSET Sources
  BY DEF LaneInv, TypeOK
<1>1. CASE NextWave
  <2>1. \A s \in Sources : pc'[s] = IF s \in Ready(pending) THEN "queued" ELSE "out"
    BY <1>1 DEF NextWave
  <2>2. wave' = Ready(pending) /\ pending' = pending \ Ready(pending) /\ phase' = phase
        /\ phase \in {"main", "deps"}
    BY <1>1 DEF NextWave
  <2>3. \A s \in Ready(pending) : DependsOn[s] \cap pending = {}
    BY DEF Ready
  <2>4. WaveInv'
    BY <2>1, <2>2, <2>3 DEF WaveInv, Ready
  <2>. QED
    BY <2>1, <2>4, NoLanesInv DEF LaneInv
<1>2. CASE EndWave
  <2>1. (\A s \in Sources : pc'[s] = "out") /\ wave' = {}
    BY <1>2 DEF EndWave, LanesCleared
  <2>2. WaveInv'
    BY <2>1 DEF WaveInv
  <2>. QED
    BY <2>1, <2>2, NoLanesInv DEF LaneInv
<1>3. CASE StartDependents
  <2>1. wave' = {} /\ \A s \in Sources : pc'[s] = "out"
    BY <1>3, EmptyWave DEF StartDependents, laneVars
  <2>2. WaveInv'
    BY <2>1 DEF WaveInv
  <2>. QED
    BY <2>1, <2>2, NoLanesInv DEF LaneInv
<1>4. CASE EndRun
  <2>1. wave' = {} /\ \A s \in Sources : pc'[s] = "out"
    BY <1>4, EmptyWave DEF EndRun, laneVars
  <2>2. WaveInv'
    BY <2>1 DEF WaveInv
  <2>. QED
    BY <2>1, <2>2, NoLanesInv DEF LaneInv
<1>5. CASE NextIngest
  <2>1. PICK s \in pending :
          /\ wave' = IF NewDrops(s) # {} THEN {s} ELSE {}
          /\ pc' = [pc EXCEPT ![s] = IF NewDrops(s) # {} THEN "queued" ELSE "out"]
    BY <1>5 DEF NextIngest
  <2>2. \A t \in Sources : pc[t] = "out"
    BY <1>5, EmptyWave DEF NextIngest
  <2>3. \A t \in Sources : pc'[t] = IF t \in wave' THEN "queued" ELSE "out"
    BY <1>0, <2>1, <2>2
  <2>4. phase' = "ingest" /\ \A t, u \in wave' : t = u
    BY <1>5, <2>1 DEF NextIngest
  <2>5. WaveInv'
    BY <2>3, <2>4 DEF WaveInv
  <2>. QED
    BY <2>3, <2>5, NoLanesInv DEF LaneInv
<1>6. CASE EndIngested
  <2>1. (\A s \in Sources : pc'[s] = "out") /\ wave' = {}
    BY <1>6 DEF EndIngested, LanesCleared
  <2>2. WaveInv'
    BY <2>1 DEF WaveInv
  <2>. QED
    BY <2>1, <2>2, NoLanesInv DEF LaneInv
<1>7. CASE EndIngest
  <2>1. wave' = {} /\ \A s \in Sources : pc'[s] = "out"
    BY <1>7, EmptyWave DEF EndIngest, laneVars
  <2>2. WaveInv'
    BY <2>1 DEF WaveInv
  <2>. QED
    BY <2>1, <2>2, NoLanesInv DEF LaneInv
<1>. QED
  BY <1>1, <1>2, <1>3, <1>4, <1>5, <1>6, <1>7 DEF Control

\* The environment keeps the lanes in order.
LEMMA EnvironmentLane ==
    ASSUME LaneInv, TypeOK', Environment
    PROVE  LaneInv'
<1>1. /\ phase' = phase /\ pending' = pending /\ wave' = wave
      /\ consumedFile' = consumedFile /\ UNCHANGED laneVars
  BY DEF Environment, DropArrives, Elapse, LoseState, runVars
<1>2. WaveInv'
  BY <1>1 DEF LaneInv, WaveInv, laneVars
<1>3. OrderInv'
  BY <1>1 DEF LaneInv, OrderInv, Taken, Earlier, laneVars
<1>4. MarkInv'
  BY <1>1 DEF LaneInv, MarkInv, laneVars
<1>. QED
  BY <1>2, <1>3, <1>4 DEF LaneInv

\* Every step keeps the lanes in order.
LEMMA NextLane == LaneInv /\ [Next]_vars => LaneInv'
<1>. SUFFICES ASSUME LaneInv, [Next]_vars
              PROVE  LaneInv'
  OBVIOUS
<1>0. TypeOK'
  BY NextType DEF LaneInv
<1>1. CASE Environment
  BY <1>0, <1>1, EnvironmentLane
<1>2. CASE Command
  <2>1. ASSUME NEW plan, Begin("main", plan)
        PROVE  LaneInv'
    BY <1>0, <2>1, BeginLane DEF Phases
  <2>2. CASE StartIngest
    BY <1>0, <2>2, BeginLane DEF StartIngest, Phases
  <2>. QED
    BY <1>2, <2>1, <2>2 DEF Command, StartDue, StartForced
<1>3. CASE Control
  BY <1>0, <1>3, ControlLane
<1>4. CASE Crash
  <2>1. (\A s \in Sources : pc'[s] = "out") /\ wave' = {}
    BY <1>4 DEF Crash, LanesCleared
  <2>2. WaveInv'
    BY <2>1 DEF WaveInv
  <2>. QED
    BY <1>0, <2>1, <2>2, NoLanesInv DEF LaneInv
<1>5. ASSUME NEW s \in Sources, RunSource(s)
      PROVE  LaneInv'
  BY <1>0, <1>5, RunSourceLane DEF LaneInv
<1>6. CASE UNCHANGED vars
  <2>. USE <1>6 DEF vars, diskVars, runVars, laneVars
  <2>1. WaveInv'
    BY DEF LaneInv, WaveInv
  <2>2. OrderInv'
    BY DEF LaneInv, OrderInv, Taken, Earlier
  <2>3. MarkInv'
    BY DEF LaneInv, MarkInv
  <2>. QED
    BY <1>0, <2>1, <2>2, <2>3 DEF LaneInv
<1>. QED
  BY <1>1, <1>2, <1>3, <1>4, <1>5, <1>6 DEF Next

\* The lanes stay in order in every behaviour of the controller.
THEOREM LanesInOrder == Spec => []LaneInv
<1>1. Init => LaneInv
  <2>1. ASSUME Init PROVE WaveInv /\ OrderInv /\ MarkInv
    BY <2>1 DEF Init, WaveInv, OrderInv, MarkInv
  <2>. QED
    BY <2>1, InitType DEF LaneInv
<1>2. LaneInv /\ [Next]_vars => LaneInv'
  BY NextLane
<1>. QED
  BY <1>1, <1>2, PTL DEF Spec

-----------------------------------------------------------------------------
(* The safety properties, for every instance.                               *)

\* No producer runs together with a source it reads from (topological_waves),
\* nor before one that the plan still holds.
THEOREM DependencySafety == Spec => []DependencySafe
<1>1. LaneInv => DependencySafe
  <2>. SUFFICES ASSUME LaneInv, NEW s \in Sources, pc[s] \in ActiveStages,
                       NEW p \in DependsOn[s]
                PROVE  /\ pc[p] \notin ActiveStages
                       /\ phase \in {"main", "deps"} => p \notin pending
    BY DEF DependencySafe
  <2>1. p \in Sources /\ p # s
    BY ControllerAssumption
  <2>2. s \in wave /\ (pc[p] \in ActiveStages => p \in wave)
    BY <2>1 DEF LaneInv, WaveInv, ActiveStages
  <2>3. phase \in Phases
    BY DEF LaneInv, TypeOK
  <2>4. CASE phase \in {"main", "deps"}
    BY <2>2, <2>4 DEF LaneInv, WaveInv
  <2>5. CASE phase \in {"idle", "ingest"}
    BY <2>1, <2>2, <2>5 DEF LaneInv, WaveInv
  <2>. QED
    BY <2>3, <2>4, <2>5 DEF Phases
<1>. QED
  BY <1>1, LanesInOrder, PTL

\* Two sources of one lane are never in progress together (execution_lane_key).
THEOREM LaneExclusion == Spec => []LaneExclusive
<1>1. LaneInv => LaneExclusive
  BY OneInLane DEF LaneInv, LaneExclusive, ActiveStages, Taken
<1>. QED
  BY <1>1, LanesInOrder, PTL

\* The unlocked read-modify-write of mark_consumed loses no mark, because every
\* drop source runs in the one file-drop lane.
THEOREM MarksAreKept == Spec => NoLostMark
<1>1. LaneInv /\ [Next]_vars
        => [\A s \in Sources : consumedFile[s] \subseteq consumedFile'[s]]_vars
  <2>. SUFFICES ASSUME LaneInv, [Next]_vars, NEW s \in Sources
                PROVE  consumedFile[s] \subseteq consumedFile'[s]
    OBVIOUS
  <2>1. CASE consumedFile' = consumedFile
    BY <2>1
  <2>2. ASSUME NEW t \in Sources, MarkWrite(t)
        PROVE  consumedFile[s] \subseteq consumedFile'[s]
    <3>1. loaded[t] = consumedFile /\ consumedFile \in [Sources -> SUBSET Drops]
      BY <2>2 DEF MarkWrite, LaneInv, MarkInv, TypeOK
    <3>2. PICK d \in todo[t] : consumedFile' = [loaded[t] EXCEPT ![t] = @ \cup {d}]
      BY <2>2 DEF MarkWrite
    <3>. QED
      BY <3>1, <3>2
  <2>3. consumedFile' = consumedFile \/ \E t \in Sources : MarkWrite(t)
    BY DEF Next, Environment, DropArrives, Elapse, LoseState, Command, StartDue,
           StartForced, StartIngest, Begin, Control, NextWave, EndWave,
           StartDependents, EndRun, NextIngest, EndIngested, EndIngest, Crash,
           RunSource, Skip, PreflightFails, Launch, ProducerSucceeds,
           ProducerRetries, ProducerFails, Reject, Commit, MarkRead,
           diskVars, vars
  <2>. QED
    BY <2>1, <2>2, <2>3
<1>. QED
  BY <1>1, LanesInOrder, PTL DEF Spec, NoLostMark

-----------------------------------------------------------------------------
(* The exit code.  A packet is accounted for by the failure flags of the    *)
(* passes that are over, or by a source of the wave that is still running.  *)

WaveFailing == \E s \in wave : pc[s] = "done" /\ IsRunFailure(result[s])

PacketInv ==
    /\ phase \in {"main", "deps"} /\ packets # {} => failed \/ batchFailed \/ WaveFailing
    /\ phase = "main" => ~failed

\* Without a stray shadow file, the gate status of a rejected output is a
\* failure status.
LEMMA RejectedIsFailure ==
    ASSUME NEW s, ~GatePasses(Status(s))
    PROVE  IsRunFailure(Status(s))
<1>1. Status(s) \in {"OUTPUT_MISSING", "SCHEMA_FAILED", "OUTPUT_REGRESSION",
                     "EMPTY_SUSPICIOUS"} \cup SuccessStatuses
  BY DEF Status, GateStatus, EmptyStatus, ChangeStatus, SuccessStatuses
<1>2. Status(s) \notin SuccessStatuses
  BY DEF GatePasses
<1>. QED
  BY <1>1, <1>2 DEF IsRunFailure, NonRunStatuses

\* A step of run_source that appends a packet finishes with a failure status.
LEMMA RunSourcePacket ==
    ASSUME "shadow" \notin Faults, LaneInv, NEW s \in Sources, RunSource(s)
    PROVE  /\ UNCHANGED <<phase, failed, batchFailed, wave>>
           /\ packets' # packets =>
                 s \in wave /\ pc'[s] = "done" /\ IsRunFailure(result'[s])
           /\ \A t \in Sources : pc[t] = "done" =>
                 pc'[t] = "done" /\ result'[t] = result[t]
<1>. USE DEF diskVars, runVars
<1>0. /\ pc \in [Sources -> Stages] /\ result \in [Sources -> Statuses \cup {NotRun}]
      /\ pc[s] # "out" => s \in wave
  BY DEF LaneInv, TypeOK, WaveInv
<1>1. /\ IsRunFailure("PRODUCER_IMPORT_FAILED") /\ IsRunFailure("RATE_LIMITED")
      /\ IsRunFailure("PRODUCER_EXECUTION_FAILED")
  BY DEF IsRunFailure, SuccessStatuses, NonRunStatuses
<1>2. CASE Skip(s)
  BY <1>0, <1>2 DEF Skip, Startable, Finish
<1>3. CASE PreflightFails(s)
  BY <1>0, <1>1, <1>3 DEF PreflightFails, Startable, Fail, Finish
<1>4. CASE Launch(s)
  BY <1>0, <1>4 DEF Launch, Startable
<1>5. CASE \E c \in MaybeContent : ProducerSucceeds(s, c)
  BY <1>0, <1>5 DEF ProducerSucceeds
<1>6. CASE \E c \in MaybeContent : ProducerRetries(s, c)
  <2>1. pc[s] = "ready" /\ UNCHANGED <<phase, failed, batchFailed, wave>>
    BY <1>6 DEF ProducerRetries
  <2>2. UNCHANGED <<pc, result, packets>> \/ Fail(s, "RATE_LIMITED")
    BY <1>6 DEF ProducerRetries
  <2>. QED
    BY <1>0, <1>1, <2>1, <2>2 DEF Fail, Finish
<1>7. CASE \E c \in MaybeContent : ProducerFails(s, c)
  BY <1>0, <1>1, <1>7 DEF ProducerFails, Fail, Finish
<1>8. CASE Reject(s)
  <2>1. IsRunFailure(Status(s))
    BY <1>8, RejectedIsFailure DEF Reject
  <2>. QED
    BY <1>0, <1>8, <2>1 DEF Reject, Fail, Finish
<1>9. CASE Commit(s)
  BY <1>0, <1>9 DEF Commit
<1>10. CASE MarkRead(s)
  BY <1>0, <1>10 DEF MarkRead
<1>11. CASE MarkWrite(s)
  BY <1>0, <1>11 DEF MarkWrite
<1>. QED
  BY <1>2, <1>3, <1>4, <1>5, <1>6, <1>7, <1>8, <1>9, <1>10, <1>11 DEF RunSource

\* Every step keeps failure packets and failure statuses together.
LEMMA NextPacket ==
    ASSUME "shadow" \notin Faults, LaneInv, PacketInv, [Next]_vars
    PROVE  PacketInv'
<1>0. wave \in SUBSET Sources
  BY DEF LaneInv, TypeOK
<1>1. CASE Environment
  BY <1>1 DEF Environment, DropArrives, Elapse, LoseState, PacketInv, WaveFailing,
              runVars, laneVars
<1>2. CASE Command
  BY <1>2 DEF Command, StartDue, StartForced, StartIngest, Begin, PacketInv
<1>3. CASE Control
  <2>1. CASE NextWave
    <3>1. wave = {} /\ UNCHANGED <<phase, packets, failed, batchFailed>>
      BY <2>1 DEF NextWave
    <3>. QED
      BY <3>1 DEF PacketInv, WaveFailing
  <2>2. CASE EndWave
    <3>1. /\ UNCHANGED <<phase, packets, failed>>
          /\ batchFailed' = (batchFailed \/ WaveFailed)
      BY <2>2 DEF EndWave
    <3>2. WaveFailing => WaveFailed
      BY DEF WaveFailing, WaveFailed, Completed
    <3>. QED
      BY <3>1, <3>2 DEF PacketInv
  <2>3. CASE StartDependents
    <3>1. /\ phase = "main" /\ wave = {} /\ phase' = "deps" /\ packets' = packets
          /\ failed' = batchFailed
      BY <2>3 DEF StartDependents
    <3>. QED
      BY <3>1 DEF PacketInv, WaveFailing
  <2>4. CASE EndRun
    BY <2>4 DEF EndRun, PacketInv
  <2>5. CASE NextIngest
    BY <2>5 DEF NextIngest, PacketInv
  <2>6. CASE EndIngested
    BY <2>6 DEF EndIngested, PacketInv
  <2>7. CASE EndIngest
    BY <2>7 DEF EndIngest, PacketInv
  <2>. QED
    BY <1>3, <2>1, <2>2, <2>3, <2>4, <2>5, <2>6, <2>7 DEF Control
<1>4. CASE Crash
  BY <1>4 DEF Crash, PacketInv
<1>5. ASSUME NEW s \in Sources, RunSource(s)
      PROVE  PacketInv'
  <2>1. /\ UNCHANGED <<phase, failed, batchFailed, wave>>
        /\ packets' # packets =>
              s \in wave /\ pc'[s] = "done" /\ IsRunFailure(result'[s])
        /\ \A t \in Sources : pc[t] = "done" =>
              pc'[t] = "done" /\ result'[t] = result[t]
    BY <1>5, RunSourcePacket
  <2>2. WaveFailing => WaveFailing'
    BY <1>0, <2>1 DEF WaveFailing, IsRunFailure
  <2>3. packets' # packets => WaveFailing'
    BY <2>1 DEF WaveFailing, IsRunFailure
  <2>. QED
    BY <2>1, <2>2, <2>3 DEF PacketInv
<1>6. CASE UNCHANGED vars
  BY <1>6 DEF vars, runVars, laneVars, PacketInv, WaveFailing
<1>. QED
  BY <1>1, <1>2, <1>3, <1>4, <1>5, <1>6 DEF Next

\* A run that appended a failure packet exits non-zero, provided no producer
\* leaves a shadow file (with one, a packet comes with a success status and
\* the property is lost).
THEOREM FailuresSurface ==
    ASSUME "shadow" \notin Faults
    PROVE  Spec => FailureSurfaces
<1>1. Init => PacketInv
  BY DEF Init, PacketInv
<1>2. LaneInv /\ PacketInv /\ [Next]_vars => PacketInv'
  BY NextPacket
<1>3. LaneInv /\ PacketInv /\ [Next]_vars
        => [(phase \in {"main", "deps"} /\ phase' = "idle" /\ packets # {})
              => (failed' = TRUE)]_vars
  <2>. SUFFICES ASSUME LaneInv, PacketInv, Next, phase \in {"main", "deps"},
                       phase' = "idle", packets # {}
                PROVE  failed' = TRUE
    OBVIOUS
  <2>0. failed \in BOOLEAN /\ batchFailed \in BOOLEAN
    BY DEF LaneInv, TypeOK
  <2>1. CASE EndRun
    <3>1. wave = {} /\ failed' = (batchFailed \/ failed)
      BY <2>1 DEF EndRun
    <3>. QED
      BY <2>0, <3>1 DEF PacketInv, WaveFailing
  <2>2. CASE Crash
    BY <2>2 DEF Crash
  <2>3. EndRun \/ Crash
    <3>1. ~Environment
      BY DEF Environment, DropArrives, Elapse, LoseState, runVars
    <3>2. ~Command
      BY DEF Command, StartDue, StartForced, StartIngest, Begin
    <3>3. Control => EndRun
      BY DEF Control, NextWave, EndWave, StartDependents, NextIngest, EndIngested,
             EndIngest
    <3>4. \A s \in Sources : ~RunSource(s)
      BY RunSourcePacket
    <3>. QED
      BY <3>1, <3>2, <3>3, <3>4 DEF Next
  <2>. QED
    BY <2>1, <2>2, <2>3
<1>. QED
  BY <1>1, <1>2, <1>3, LanesInOrder, PTL DEF Spec, FailureSurfaces
-----------------------------------------------------------------------------
(* A lane that has taken a source up is not given up before it is done.     *)

BrokenInv == \A s \in wave : Taken(s) => ~LaneBroken(s)

\* A step of run_source leaves the results of the other sources alone.
LEMMA OtherResults ==
    ASSUME LaneInv, NEW s \in Sources, RunSource(s), NEW t \in Sources, t # s
    PROVE  result'[t] = result[t]
<1>. USE DEF Fail, Finish
<1>0. result \in [Sources -> Statuses \cup {NotRun}]
  BY DEF LaneInv, TypeOK
<1>1. Skip(s) \/ PreflightFails(s) \/ Launch(s) => result'[t] = result[t]
  BY <1>0 DEF Skip, PreflightFails, Launch
<1>2. ASSUME NEW c \in MaybeContent, ProducerRetries(s, c)
      PROVE  result'[t] = result[t]
  <2>1. result' = result \/ result' = [result EXCEPT ![s] = "RATE_LIMITED"]
    BY <1>2 DEF ProducerRetries
  <2>. QED
    BY <1>0, <2>1
<1>3. ASSUME NEW c \in MaybeContent, ProducerSucceeds(s, c) \/ ProducerFails(s, c)
      PROVE  result'[t] = result[t]
  BY <1>0, <1>3 DEF ProducerSucceeds, ProducerFails
<1>4. Reject(s) \/ Commit(s) \/ MarkRead(s) \/ MarkWrite(s) => result'[t] = result[t]
  BY <1>0 DEF Reject, Commit, MarkRead, MarkWrite
<1>. QED
  BY <1>1, <1>2, <1>3, <1>4 DEF RunSource

\* A step of run_source starts no source of a lane that is given up.
LEMMA OnlyStartable ==
    ASSUME NEW s \in Sources, RunSource(s), pc[s] = "queued"
    PROVE  Startable(s)
BY DEF RunSource, Skip, PreflightFails, Launch, ProducerSucceeds, ProducerRetries,
       ProducerFails, Reject, Commit, MarkRead, MarkWrite

\* No lane is given up over a source that is in progress: what EndWave leaves out
\* of the results was never started.
THEOREM NothingAbandoned == Spec => []BrokenInv
<1>1. Init => BrokenInv
  BY DEF Init, BrokenInv
<1>2. LaneInv /\ BrokenInv /\ [Next]_vars => BrokenInv'
  <2>. SUFFICES ASSUME LaneInv, BrokenInv, [Next]_vars
                PROVE  BrokenInv'
    OBVIOUS
  <2>0. /\ wave \in SUBSET Sources /\ pc \in [Sources -> Stages]
        /\ wave' \in SUBSET Sources
    BY NextType DEF LaneInv, TypeOK
  <2>1. ASSUME NEW s \in Sources, RunSource(s)
        PROVE  BrokenInv'
    <3>1. PICK x \in TakenStages : StageStep(s, x)
      BY <2>1, RunSourceStage
    <3>2. /\ UNCHANGED wave /\ pc[s] # "done"
          /\ \A t \in Sources \ {s} : pc'[t] = pc[t] /\ result'[t] = result[t]
      BY <2>0, <2>1, <3>1, OtherResults DEF StageStep
    <3>. SUFFICES ASSUME NEW u \in wave, Taken(u)', LaneBroken(u)'
                  PROVE  FALSE
      BY <3>2 DEF BrokenInv
    <3>3. /\ ~ContinueOnError
          /\ \A t \in Earlier(u) : pc[t] = "done"
          /\ ~LaneBroken(u)
      <4>1. CASE Taken(u)
        BY <4>1 DEF LaneBroken, LaneInv, OrderInv, BrokenInv
      <4>2. CASE ~Taken(u)
        <5>1. u = s
          BY <2>0, <3>2, <4>2 DEF Taken
        <5>2. pc[s] = "queued"
          BY <3>1, <4>2, <5>1 DEF StageStep, Taken
        <5>. QED
          BY <2>1, <5>1, <5>2, OnlyStartable DEF Startable, LaneBroken
      <4>. QED
        BY <4>1, <4>2
    <3>4. PICK t \in Earlier(u)' : pc'[t] = "done" /\ IsRunFailure(result'[t])
      BY DEF LaneBroken, IsRunFailure
    <3>5. t \in Earlier(u) /\ t \in Sources
      BY <2>0, <3>2, <3>4 DEF Earlier
    <3>6. t # s
      BY <3>2, <3>3, <3>5
    <3>7. pc[t] = "done" /\ IsRunFailure(result[t])
      BY <3>2, <3>4, <3>5, <3>6
    <3>. QED
      BY <3>3, <3>5, <3>7 DEF LaneBroken
  <2>2. CASE Environment
    BY <2>2 DEF Environment, DropArrives, Elapse, LoseState, runVars, laneVars,
                BrokenInv, Taken, LaneBroken, Earlier, IsRunFailure
  <2>3. CASE UNCHANGED vars
    BY <2>3 DEF vars, runVars, laneVars, BrokenInv, Taken, LaneBroken, Earlier,
                IsRunFailure
  <2>4. CASE Command \/ Crash
    <3>1. wave' = {}
      BY <2>4 DEF Command, StartDue, StartForced, StartIngest, Begin, Crash
    <3>. QED
      BY <3>1 DEF BrokenInv
  <2>5. CASE Control
    <3>1. \A s \in wave' : pc'[s] \in {"out", "queued"}
      <4>1. CASE NextWave
        BY <2>0, <4>1 DEF NextWave
      <4>2. CASE NextIngest
        BY <2>0, <4>2 DEF NextIngest
      <4>3. EndWave \/ EndIngested => wave' = {}
        BY DEF EndWave, EndIngested
      <4>4. StartDependents \/ EndRun \/ EndIngest => wave' = {}
        BY DEF StartDependents, EndRun, EndIngest
      <4>. QED
        BY <2>5, <4>1, <4>2, <4>3, <4>4 DEF Control
    <3>. QED
      BY <3>1 DEF BrokenInv, Taken
  <2>. QED
    BY <2>1, <2>2, <2>3, <2>4, <2>5 DEF Next
<1>. QED
  BY <1>1, <1>2, LanesInOrder, PTL DEF Spec

-----------------------------------------------------------------------------
(* No source runs twice.                                                    *)

\* A source with a result in this invocation is not planned again.
OncePerRun ==
    /\ phase = "idle" => ran = {}
    /\ wave \cap pending = {}
    /\ ran \cap (wave \cup pending) = {}

\* A step of run_source leaves the plan and the results of the waves alone.
LEMMA RunSourcePlan ==
    ASSUME NEW s \in Sources, RunSource(s)
    PROVE  UNCHANGED <<phase, pending, wave, ran>>
<1>1. Skip(s) \/ PreflightFails(s) \/ Launch(s) => UNCHANGED <<phase, pending, wave, ran>>
  BY DEF Skip, PreflightFails, Launch, runVars
<1>2. ASSUME NEW c \in MaybeContent,
             ProducerSucceeds(s, c) \/ ProducerRetries(s, c) \/ ProducerFails(s, c)
      PROVE  UNCHANGED <<phase, pending, wave, ran>>
  BY <1>2 DEF ProducerSucceeds, ProducerRetries, ProducerFails, runVars
<1>3. Reject(s) \/ Commit(s) \/ MarkRead(s) \/ MarkWrite(s)
        => UNCHANGED <<phase, pending, wave, ran>>
  BY DEF Reject, Commit, MarkRead, MarkWrite, runVars
<1>. QED
  BY <1>1, <1>2, <1>3 DEF RunSource

\* In one invocation no source gets a second turn: neither in a later wave, nor
\* as a dependent of what the same run has changed (cmd_run drops from the
\* second pass what has a result of the first).
THEOREM NoSourceTwice == Spec => []OncePerRun
<1>1. Init => OncePerRun
  BY DEF Init, OncePerRun
<1>2. OncePerRun /\ [Next]_vars => OncePerRun'
  <2>. SUFFICES ASSUME OncePerRun, [Next]_vars
                PROVE  OncePerRun'
    OBVIOUS
  <2>1. Environment => OncePerRun'
    BY DEF OncePerRun, Environment, DropArrives, Elapse, LoseState, runVars
  <2>2. Command \/ Crash => OncePerRun'
    BY DEF OncePerRun, Command, StartDue, StartForced, StartIngest, Begin, Crash
  <2>3. Control => OncePerRun'
    <3>1. NextWave => OncePerRun'
      BY DEF OncePerRun, NextWave, Ready
    <3>2. EndWave => OncePerRun'
      BY DEF OncePerRun, EndWave, Completed
    <3>3. StartDependents \/ EndRun \/ EndIngest => OncePerRun'
      BY DEF OncePerRun, StartDependents, EndRun, EndIngest
    <3>4. NextIngest => OncePerRun'
      BY DEF OncePerRun, NextIngest
    <3>5. EndIngested => OncePerRun'
      BY DEF OncePerRun, EndIngested
    <3>. QED
      BY <3>1, <3>2, <3>3, <3>4, <3>5 DEF Control
  <2>4. ASSUME NEW s \in Sources, RunSource(s)
        PROVE  OncePerRun'
    BY <2>4, RunSourcePlan DEF OncePerRun
  <2>5. UNCHANGED vars => OncePerRun'
    BY DEF OncePerRun, vars, runVars
  <2>. QED
    BY <2>1, <2>2, <2>3, <2>4, <2>5 DEF Next
<1>. QED
  BY <1>1, <1>2, PTL DEF Spec

-----------------------------------------------------------------------------
(* The safety half of RunsEnd: a run always has a next step, and every step  *)
(* it takes brings it nearer to its end.                                    *)

\* What the next control step of an invocation waits for.
ControlCanMove ==
    \/ phase \in {"main", "deps"} /\ wave = {} /\ (pending = {} \/ Ready(pending) # {})
    \/ /\ phase \in {"main", "deps"} /\ wave # {}
       /\ \A s \in wave : LaneFinished(LaneKey(s))
    \/ /\ phase = "ingest" /\ wave = {}
       /\ pending = {} \/ \E s \in pending : \A t \in pending : Rank[s] <= Rank[t]
    \/ phase = "ingest" /\ wave # {} /\ wave = Completed

\* What the next step of run_source waits for.
LaneCanMove(s) ==
    \/ Startable(s)
    \/ pc[s] \in {"ready", "exited", "marking"}
    \/ pc[s] = "writing" /\ todo[s] # {}

\* No wait of the controller is for ever: neither the dependency waves nor the
\* lanes nor the workers can block one another.
NeverStuck == phase # "idle" => ControlCanMove \/ \E s \in wave : LaneCanMove(s)

\* A source of the wave is in a lane, and a lane marks files as long as there
\* are some to mark.
TurnInv ==
    /\ \A s \in wave : pc[s] # "out"
    /\ \A s \in Sources : pc[s] \in {"marking", "writing"} => todo[s] # {}
    /\ \A s \in Sources : pc[s] = "ready" => attempt[s] > 0

\* Some source of any set that is not empty has the least rank.
LEMMA LeastRank ==
    ASSUME NEW S \in SUBSET Sources, S # {}
    PROVE  \E s \in S : \A t \in S : Rank[s] <= Rank[t]
<1>. DEFINE Ranks == {Rank[s] : s \in S}
<1>1. Ranks \in SUBSET Nat /\ Ranks # {}
  BY ControllerAssumption
<1>. HIDE DEF Ranks
<1>2. PICK m \in Ranks : \A k \in Ranks : <<k, m>> \notin OpToRel(<, Nat)
  BY <1>1, NatLessThanWellFounded, WFMin, Zenon
<1>3. \A k \in Ranks : ~(k < m)
  BY <1>1, <1>2, Zenon DEF OpToRel
<1>4. \A k \in Ranks : m <= k
  BY <1>1, <1>3
<1>5. PICK s \in S : m = Rank[s]
  BY DEF Ranks
<1>. QED
  BY <1>4, <1>5 DEF Ranks

\* A step of run_source keeps the turn of every lane.
LEMMA RunSourceTurn ==
    ASSUME LaneInv, TurnInv, NEW s \in Sources, RunSource(s)
    PROVE  TurnInv'
<1>0. /\ pc \in [Sources -> Stages] /\ wave \in SUBSET Sources
      /\ todo \in [Sources -> SUBSET Drops]
      /\ attempt \in [Sources -> 0..(MaxRetries + 1)] /\ MaxRetries \in Nat
  BY ControllerAssumption DEF LaneInv, TypeOK
<1>1. PICK x \in TakenStages : StageStep(s, x)
  BY RunSourceStage
<1>2. /\ wave' = wave /\ pc' = [pc EXCEPT ![s] = x] /\ x # "out"
  BY <1>1 DEF StageStep, TakenStages
<1>3. \A t \in wave' : pc'[t] # "out"
  BY <1>0, <1>2 DEF TurnInv
<1>4. \A t \in Sources \ {s} : todo'[t] = todo[t] /\ attempt'[t] = attempt[t]
  BY <1>0 DEF RunSource, Skip, PreflightFails, Launch, ProducerSucceeds, ProducerRetries,
              ProducerFails, Reject, Commit, MarkRead, MarkWrite
<1>5. pc'[s] \in {"marking", "writing"} => todo'[s] # {}
  <2>1. CASE Commit(s)
    BY <1>0, <2>1 DEF Commit
  <2>2. CASE MarkRead(s)
    BY <1>0, <2>2 DEF MarkRead, TurnInv
  <2>3. CASE MarkWrite(s)
    <3>1. PICK d \in todo[s] :
            /\ todo' = [todo EXCEPT ![s] = @ \ {d}]
            /\ pc' = [pc EXCEPT ![s] = IF todo[s] = {d} THEN "done" ELSE "marking"]
      BY <2>3 DEF MarkWrite
    <3>. QED
      BY <1>0, <3>1
  <2>4. ASSUME NEW c \in MaybeContent, ProducerRetries(s, c)
        PROVE  pc'[s] \in {"ready", "done"}
    <3>1. pc[s] = "ready" /\ (pc' = pc \/ pc' = [pc EXCEPT ![s] = "done"])
      BY <2>4 DEF ProducerRetries, Fail, Finish
    <3>. QED
      BY <1>0, <3>1
  <2>5. ASSUME NEW c \in MaybeContent, ProducerSucceeds(s, c) \/ ProducerFails(s, c)
        PROVE  pc'[s] \in {"exited", "done"}
    BY <1>0, <2>5 DEF ProducerSucceeds, ProducerFails, Fail, Finish
  <2>6. Skip(s) \/ PreflightFails(s) \/ Launch(s) \/ Reject(s)
          => pc'[s] \in {"ready", "done"}
    BY <1>0 DEF Skip, PreflightFails, Launch, Reject, Fail, Finish
  <2>. QED
    BY <2>1, <2>2, <2>3, <2>4, <2>5, <2>6 DEF RunSource
<1>6. pc'[s] = "ready" => attempt'[s] > 0
  <2>1. CASE Launch(s)
    BY <1>0, <2>1 DEF Launch
  <2>2. ASSUME NEW c \in MaybeContent, ProducerRetries(s, c), pc'[s] = "ready"
        PROVE  attempt'[s] > 0
    <3>1. pc[s] = "ready"
      BY <2>2 DEF ProducerRetries
    <3>2. attempt[s] > 0
      BY <3>1 DEF TurnInv
    <3>3. attempt' = [attempt EXCEPT ![s] = @ + 1] \/ attempt' = attempt
      BY <2>2 DEF ProducerRetries
    <3>4. attempt'[s] = attempt[s] + 1 \/ attempt'[s] = attempt[s]
      BY <1>0, <3>3
    <3>. QED
      BY <1>0, <3>2, <3>4
  <2>3. ASSUME NEW c \in MaybeContent, ProducerSucceeds(s, c) \/ ProducerFails(s, c)
        PROVE  pc'[s] # "ready"
    BY <1>0, <2>3 DEF ProducerSucceeds, ProducerFails, Fail, Finish
  <2>4. Skip(s) \/ PreflightFails(s) \/ Reject(s) \/ Commit(s) \/ MarkRead(s)
          => pc'[s] # "ready"
    BY <1>0 DEF Skip, PreflightFails, Reject, Commit, MarkRead, Fail, Finish
  <2>5. MarkWrite(s) => pc'[s] # "ready"
    BY <1>0 DEF MarkWrite
  <2>. QED
    BY <2>1, <2>2, <2>3, <2>4, <2>5 DEF RunSource
<1>. QED
  BY <1>0, <1>2, <1>3, <1>4, <1>5, <1>6 DEF TurnInv

\* Every step keeps the turn of every lane.
LEMMA NextTurn == LaneInv /\ TurnInv /\ [Next]_vars => TurnInv'
<1>. SUFFICES ASSUME LaneInv, TurnInv, [Next]_vars
              PROVE  TurnInv'
  OBVIOUS
<1>0. /\ pc \in [Sources -> Stages] /\ wave \in SUBSET Sources /\ pending \in SUBSET Sources
      /\ LaneInv'
  BY NextLane DEF LaneInv, TypeOK
<1>1. CASE Environment
  BY <1>1 DEF Environment, DropArrives, Elapse, LoseState, runVars, laneVars, TurnInv
<1>2. CASE Command
  BY <1>2 DEF Command, StartDue, StartForced, StartIngest, Begin, laneVars, TurnInv
<1>3. CASE Control
  <2>1. CASE NextWave
    <3>1. \A s \in wave' : pc'[s] = "queued"
      BY <1>0, <2>1 DEF NextWave, Ready
    <3>2. \A s \in Sources : pc'[s] \in {"out", "queued"}
      BY <2>1 DEF NextWave
    <3>. QED
      BY <3>1, <3>2 DEF TurnInv
  <2>2. EndWave \/ EndIngested => TurnInv'
    BY DEF EndWave, EndIngested, LanesCleared, TurnInv
  <2>3. StartDependents \/ EndRun \/ EndIngest => TurnInv'
    BY DEF StartDependents, EndRun, EndIngest, laneVars, TurnInv
  <2>4. CASE NextIngest
    <3>1. \A s \in Sources : pc[s] = "out"
      BY <2>4, EmptyWave DEF NextIngest
    <3>2. PICK s \in pending :
            /\ wave' = IF NewDrops(s) # {} THEN {s} ELSE {}
            /\ pc' = [pc EXCEPT ![s] = IF NewDrops(s) # {} THEN "queued" ELSE "out"]
      BY <2>4 DEF NextIngest
    <3>. QED
      BY <1>0, <3>1, <3>2 DEF TurnInv
  <2>. QED
    BY <1>3, <2>1, <2>2, <2>3, <2>4 DEF Control
<1>4. CASE Crash
  BY <1>4 DEF Crash, LanesCleared, TurnInv
<1>5. ASSUME NEW s \in Sources, RunSource(s)
      PROVE  TurnInv'
  BY <1>5, RunSourceTurn
<1>6. CASE UNCHANGED vars
  BY <1>6 DEF vars, runVars, laneVars, TurnInv
<1>. QED
  BY <1>1, <1>2, <1>3, <1>4, <1>5, <1>6 DEF Next

\* A lane that is not finished has a source that can move, if a worker is there
\* for the lane: the first one that is neither done nor given up.
LEMMA LaneMoves ==
    ASSUME LaneInv, TurnInv, NEW l, ~LaneFinished(l),
           l \in BusyLanes \/ Cardinality(BusyLanes) < Workers
    PROVE  \E s \in wave : LaneCanMove(s)
<1>. DEFINE U == {s \in wave : LaneKey(s) = l /\ pc[s] # "done" /\ ~LaneBroken(s)}
<1>0. /\ pc \in [Sources -> Stages] /\ wave \in SUBSET Sources
      /\ Rank \in [Sources -> Nat]
  BY ControllerAssumption DEF LaneInv, TypeOK
<1>1. U # {} /\ U \in SUBSET Sources
  BY <1>0 DEF LaneFinished
<1>2. PICK s \in U : \A t \in U : Rank[s] <= Rank[t]
  BY <1>1, LeastRank
<1>3. s \in wave /\ s \in Sources /\ pc[s] \notin {"out", "done"} /\ LaneKey(s) = l
  BY <1>0, <1>2 DEF TurnInv
<1>4. CASE pc[s] = "queued"
  <2>1. ASSUME NEW t \in Earlier(s), pc[t] # "done"
        PROVE  FALSE
    <3>1. t \in wave /\ LaneKey(t) = l /\ Rank[t] < Rank[s] /\ t \in Sources
      BY <1>0, <1>3 DEF Earlier
    <3>2. t \notin U
      BY <1>0, <1>2, <1>3, <3>1
    <3>3. LaneBroken(t)
      BY <2>1, <3>1, <3>2
    <3>4. Earlier(t) \subseteq Earlier(s)
      BY <1>0, <1>3, <3>1 DEF Earlier
    <3>5. LaneBroken(s)
      BY <3>3, <3>4 DEF LaneBroken
    <3>. QED
      BY <1>2, <3>5
  <2>2. Startable(s)
    BY <1>2, <1>3, <1>4, <2>1 DEF Startable
  <2>. QED
    BY <1>3, <2>2 DEF LaneCanMove
<1>5. CASE pc[s] # "queued"
  <2>1. pc[s] \in {"ready", "exited", "marking", "writing"}
    BY <1>0, <1>3, <1>5 DEF Stages
  <2>. QED
    BY <1>3, <2>1 DEF LaneCanMove, TurnInv
<1>. QED
  BY <1>4, <1>5

\* An invocation that is not over can always take a step: execute_selected waits
\* for lanes, a lane for its earlier sources or for a worker, and a wave for the
\* sources its own depend on, but never in a circle.
THEOREM NeverWaitsForEver == Spec => []NeverStuck
<1>1. Init => TurnInv
  BY DEF Init, TurnInv
<1>2. LaneInv /\ TurnInv /\ [Next]_vars => TurnInv'
  BY NextTurn
<1>3. LaneInv /\ TurnInv => NeverStuck
  <2>. SUFFICES ASSUME LaneInv, TurnInv, phase # "idle"
                PROVE  ControlCanMove \/ \E s \in wave : LaneCanMove(s)
    BY DEF NeverStuck
  <2>0. /\ phase \in {"main", "deps", "ingest"} /\ wave \in SUBSET Sources
        /\ pending \in SUBSET Sources /\ Workers \in Nat \ {0}
    BY ControllerAssumption DEF LaneInv, TypeOK, Phases
  <2>1. ASSUME wave # {}, NEW l, ~LaneFinished(l)
        PROVE  \E s \in wave : LaneCanMove(s)
    <3>1. CASE BusyLanes = {}
      <4>1. Cardinality(BusyLanes) < Workers
        BY <2>0, <3>1, FS_EmptySet
      <4>. QED
        BY <2>1, <4>1, LaneMoves
    <3>2. CASE BusyLanes # {}
      <4>1. PICK k \in BusyLanes : TRUE
        BY <3>2
      <4>2. ~LaneFinished(k)
        BY DEF BusyLanes
      <4>. QED
        BY <4>2, LaneMoves
    <3>. QED
      BY <3>1, <3>2
  <2>2. ASSUME pending # {}
        PROVE  \E s \in pending : \A t \in pending : Rank[s] <= Rank[t]
    BY <2>0, <2>2, LeastRank
  <2>3. ASSUME pending # {}
        PROVE  Ready(pending) # {}
    <3>1. PICK s \in pending : \A t \in pending : Rank[s] <= Rank[t]
      BY <2>2, <2>3
    <3>2. ASSUME NEW p \in DependsOn[s], p \in pending
          PROVE  FALSE
      BY <2>0, <3>1, <3>2, ControllerAssumption
    <3>. QED
      BY <3>2 DEF Ready
  <2>4. CASE wave = {}
    BY <2>0, <2>2, <2>3, <2>4 DEF ControlCanMove
  <2>5. CASE wave # {} /\ phase \in {"main", "deps"}
    BY <2>1, <2>5 DEF ControlCanMove
  <2>6. CASE wave # {} /\ phase = "ingest"
    <3>1. ASSUME wave # Completed
          PROVE  \E s \in wave : LaneCanMove(s)
      <4>1. PICK s \in wave : pc[s] # "done"
        BY <3>1 DEF Completed
      <4>2. Earlier(s) = {}
        <5>1. \A t \in wave : t = s
          BY <2>6 DEF LaneInv, WaveInv
        <5>. QED
          BY <2>0, <5>1, ControllerAssumption DEF Earlier
      <4>3. ~LaneFinished(LaneKey(s))
        BY <4>1, <4>2 DEF LaneFinished, LaneBroken
      <4>. QED
        BY <2>1, <2>6, <4>3
    <3>. QED
      BY <2>6, <3>1 DEF ControlCanMove
  <2>. QED
    BY <2>0, <2>4, <2>5, <2>6
<1>. QED
  BY <1>1, <1>2, <1>3, LanesInOrder, PTL DEF Spec

\* How many steps of run_source a source of the wave still has before it: the
\* attempts, the gate, and two for every file to be marked consumed.
Remaining(s) ==
    CASE pc[s] = "queued"  -> 2 * Cardinality(Drops) + MaxRetries + 4
      [] pc[s] = "ready"   -> 2 * Cardinality(Drops) + MaxRetries + 4 - attempt[s]
      [] pc[s] = "exited"  -> 2 * Cardinality(Drops) + 2
      [] pc[s] = "marking" -> 2 * Cardinality(todo[s]) + 1
      [] pc[s] = "writing" -> 2 * Cardinality(todo[s])
      [] OTHER             -> 0

\* One source of the wave comes nearer to its end, and no other is thrown back.
LaneAdvances(s) ==
    /\ UNCHANGED <<phase, pending, wave>>
    /\ Remaining(s) \in Nat /\ Remaining(s)' \in Nat /\ Remaining(s)' < Remaining(s)
    /\ \A t \in Sources \ {s} : Remaining(t)' = Remaining(t)

\* The plan of the invocation comes nearer to its end: the second pass begins,
\* planned sources are taken up or given up, or a wave is over.
PlanAdvances ==
    \/ phase = "main" /\ phase' = "deps"
    \/ phase' = phase /\ pending' \subseteq pending /\ pending' # pending
    \/ phase' = phase /\ pending' \subseteq pending /\ wave # {} /\ wave' = {}

\* Every step inside an invocation brings it nearer to its end, but those of the
\* environment, which leave it where it is.
RunAdvances ==
    [][phase # "idle" /\ phase' # "idle" =>
          \/ PlanAdvances
          \/ \E s \in wave : LaneAdvances(s)
          \/ Environment /\ UNCHANGED <<phase, pending, wave, laneVars>>]_vars

\* A set of files has a size, and one file less makes it smaller.
LEMMA FileCount ==
    ASSUME IsFiniteSet(Drops), NEW F \in SUBSET Drops
    PROVE  /\ Cardinality(F) \in Nat /\ Cardinality(F) <= Cardinality(Drops)
           /\ Cardinality(Drops) \in Nat
           /\ \A d \in F : Cardinality(F \ {d}) = Cardinality(F) - 1
<1>1. IsFiniteSet(F) /\ Cardinality(F) <= Cardinality(Drops)
  BY FS_Subset
<1>2. Cardinality(F) \in Nat /\ Cardinality(Drops) \in Nat
  BY <1>1, FS_CardinalityType
<1>3. \A d \in F : Cardinality(F \ {d}) = Cardinality(F) - 1
  BY <1>1, FS_RemoveElement
<1>. QED
  BY <1>1, <1>2, <1>3

\* How much is left is decided by a source's stage, attempts and files.
LEMMA RemainingType ==
    ASSUME IsFiniteSet(Drops), TypeOK, NEW s \in Sources
    PROVE  Remaining(s) \in Nat
<1>1. /\ attempt[s] \in 0..(MaxRetries + 1) /\ MaxRetries \in Nat
      /\ todo[s] \in SUBSET Drops
  BY ControllerAssumption DEF TypeOK
<1>2. Cardinality(todo[s]) \in Nat /\ Cardinality(Drops) \in Nat
  BY <1>1, FileCount
<1>. QED
  BY <1>1, <1>2 DEF Remaining

\* A step of run_source brings its source nearer to its end.
LEMMA RunSourceAdvances ==
    ASSUME IsFiniteSet(Drops), LaneInv, TurnInv, NEW s \in Sources, RunSource(s)
    PROVE  s \in wave /\ LaneAdvances(s)
<1>. DEFINE D == Cardinality(Drops)
            todos == Cardinality(todo[s])
<1>0. /\ pc \in [Sources -> Stages] /\ todo \in [Sources -> SUBSET Drops]
      /\ attempt \in [Sources -> 0..(MaxRetries + 1)] /\ MaxRetries \in Nat
  BY ControllerAssumption DEF LaneInv, TypeOK
<1>1. PICK x \in TakenStages : StageStep(s, x)
  BY RunSourceStage
<1>2. s \in wave /\ UNCHANGED <<phase, pending, wave>>
  BY <1>1 DEF StageStep, LaneInv, WaveInv
<1>3. \A t \in Sources \ {s} : Remaining(t)' = Remaining(t)
  <2>1. \A t \in Sources \ {s} : pc'[t] = pc[t]
    BY <1>0, <1>1 DEF StageStep
  <2>2. \A t \in Sources \ {s} : todo'[t] = todo[t] /\ attempt'[t] = attempt[t]
    BY <1>0 DEF RunSource, Skip, PreflightFails, Launch, ProducerSucceeds,
        ProducerRetries, ProducerFails, Reject, Commit, MarkRead, MarkWrite
  <2>. QED
    BY <2>1, <2>2 DEF Remaining
<1>4. Remaining(s) \in Nat /\ Remaining(s)' \in Nat
  <2>1. TypeOK /\ TypeOK'
    BY NextType DEF LaneInv, Next
  <2>2. Remaining(s) \in Nat
    BY <2>1, RemainingType
  <2>3. /\ attempt'[s] \in 0..(MaxRetries + 1) /\ todo'[s] \in SUBSET Drops
    BY <2>1 DEF TypeOK
  <2>4. Cardinality(todo'[s]) \in Nat /\ Cardinality(Drops) \in Nat
    BY <2>3, FileCount
  <2>5. Remaining(s)' \in Nat
    BY <1>0, <2>3, <2>4 DEF Remaining
  <2>. QED
    BY <2>2, <2>5
<1>5. /\ D \in Nat /\ todos \in Nat
      /\ \A d \in todo[s] : Cardinality(todo[s] \ {d}) = todos - 1
  BY <1>0, FileCount
<1>. HIDE DEF D, todos
<1>6. /\ pc[s] = "queued" => Remaining(s) = 2 * D + MaxRetries + 4
      /\ pc[s] = "ready" => Remaining(s) = 2 * D + MaxRetries + 4 - attempt[s]
      /\ pc[s] = "exited" => Remaining(s) = 2 * D + 2
      /\ pc[s] = "marking" => Remaining(s) = 2 * todos + 1
      /\ pc[s] = "writing" => Remaining(s) = 2 * todos
  BY DEF Remaining, D, todos
<1>7. /\ pc'[s] = "done" => Remaining(s)' = 0
      /\ pc'[s] = "ready" => Remaining(s)' = 2 * D + MaxRetries + 4 - attempt'[s]
      /\ pc'[s] = "exited" => Remaining(s)' = 2 * D + 2
      /\ pc'[s] = "marking" => Remaining(s)' = 2 * Cardinality(todo'[s]) + 1
      /\ pc'[s] = "writing" => Remaining(s)' = 2 * Cardinality(todo'[s])
  BY DEF Remaining, D
<1>8. attempt[s] \in Int /\ attempt[s] <= MaxRetries + 1
      /\ (pc[s] = "ready" => attempt[s] > 0)
  BY <1>0 DEF TurnInv
<1>9. pc[s] = "writing" => todos > 0
  BY <1>0, FS_EmptySet, FileCount, FS_Subset DEF TurnInv, todos
<1>10. Remaining(s)' < Remaining(s)
  <2>1. CASE Skip(s) \/ PreflightFails(s)
    BY <1>0, <1>5, <1>6, <1>7, <2>1 DEF Skip, PreflightFails, Startable, Fail, Finish
  <2>2. CASE Launch(s)
    BY <1>0, <1>5, <1>6, <1>7, <2>2 DEF Launch, Startable
  <2>3. ASSUME NEW c \in MaybeContent, ProducerSucceeds(s, c)
        PROVE  Remaining(s)' < Remaining(s)
    BY <1>0, <1>5, <1>6, <1>7, <1>8, <2>3 DEF ProducerSucceeds
  <2>4. ASSUME NEW c \in MaybeContent, ProducerRetries(s, c)
        PROVE  Remaining(s)' < Remaining(s)
    <3>1. pc[s] = "ready"
      BY <2>4 DEF ProducerRetries
    <3>2. \/ pc'[s] = "ready" /\ attempt'[s] = attempt[s] + 1
          \/ pc'[s] = "done"
      BY <1>0, <2>4, <3>1 DEF ProducerRetries, Fail, Finish
    <3>. QED
      BY <1>5, <1>6, <1>7, <1>8, <1>0, <3>1, <3>2
  <2>5. ASSUME NEW c \in MaybeContent, ProducerFails(s, c)
        PROVE  Remaining(s)' < Remaining(s)
    BY <1>0, <1>5, <1>6, <1>7, <1>8, <2>5 DEF ProducerFails, Fail, Finish
  <2>6. CASE Reject(s)
    BY <1>0, <1>5, <1>6, <1>7, <2>6 DEF Reject, Fail, Finish
  <2>7. CASE Commit(s)
    <3>1. /\ pc[s] = "exited" /\ pc'[s] \in {"done", "marking"}
          /\ todo'[s] = NewDrops(s)
      BY <1>0, <2>7 DEF Commit
    <3>2. NewDrops(s) \in SUBSET Drops
      BY DEF NewDrops, LaneInv, TypeOK
    <3>3. Cardinality(todo'[s]) \in Nat /\ Cardinality(todo'[s]) <= D
      BY <3>1, <3>2, FileCount DEF D
    <3>. QED
      BY <1>5, <1>6, <1>7, <3>1, <3>3
  <2>8. CASE MarkRead(s)
    <3>1. pc[s] = "marking" /\ pc'[s] = "writing" /\ todo' = todo
      BY <1>0, <2>8 DEF MarkRead
    <3>. QED
      BY <1>5, <1>6, <1>7, <3>1 DEF todos
  <2>9. CASE MarkWrite(s)
    <3>1. PICK d \in todo[s] :
            /\ todo' = [todo EXCEPT ![s] = @ \ {d}]
            /\ pc' = [pc EXCEPT ![s] = IF todo[s] = {d} THEN "done" ELSE "marking"]
      BY <2>9 DEF MarkWrite
    <3>2. /\ pc[s] = "writing" /\ pc'[s] \in {"done", "marking"}
          /\ todo'[s] = todo[s] \ {d}
      BY <1>0, <2>9, <3>1 DEF MarkWrite
    <3>3. Cardinality(todo'[s]) = todos - 1
      BY <1>5, <3>1, <3>2
    <3>. QED
      BY <1>5, <1>6, <1>7, <1>9, <3>2, <3>3
  <2>. QED
    BY <2>1, <2>2, <2>3, <2>4, <2>5, <2>6, <2>7, <2>8, <2>9 DEF RunSource
<1>. QED
  BY <1>2, <1>3, <1>4, <1>10 DEF LaneAdvances

\* An invocation runs no longer than its plan, its retries and its files last:
\* with finitely many files dropped, nothing in it is done over and over.
THEOREM RunsAdvance ==
    ASSUME IsFiniteSet(Drops)
    PROVE  Spec => RunAdvances
<1>1. Init => TurnInv
  BY DEF Init, TurnInv
<1>2. LaneInv /\ TurnInv /\ [Next]_vars => TurnInv'
  BY NextTurn
<1>3. LaneInv /\ TurnInv /\ [Next]_vars
        => [phase # "idle" /\ phase' # "idle" =>
              \/ PlanAdvances
              \/ \E s \in wave : LaneAdvances(s)
              \/ Environment /\ UNCHANGED <<phase, pending, wave, laneVars>>]_vars
  <2>. SUFFICES ASSUME LaneInv, TurnInv, Next, phase # "idle", phase' # "idle"
                PROVE  \/ PlanAdvances
                       \/ \E s \in wave : LaneAdvances(s)
                       \/ Environment /\ UNCHANGED <<phase, pending, wave, laneVars>>
    OBVIOUS
  <2>1. Environment => UNCHANGED <<phase, pending, wave, laneVars>>
    BY DEF Environment, DropArrives, Elapse, LoseState, runVars
  <2>2. ~Command /\ ~Crash
    BY DEF Command, StartDue, StartForced, StartIngest, Begin, Crash
  <2>3. Control => PlanAdvances
    <3>1. NextWave => PlanAdvances
      BY DEF NextWave, PlanAdvances, Ready
    <3>2. EndWave \/ EndIngested => PlanAdvances
      BY DEF EndWave, EndIngested, PlanAdvances
    <3>3. StartDependents => PlanAdvances
      BY DEF StartDependents, PlanAdvances
    <3>4. NextIngest => PlanAdvances
      BY DEF NextIngest, PlanAdvances
    <3>5. ~EndRun /\ ~EndIngest
      BY DEF EndRun, EndIngest
    <3>. QED
      BY <3>1, <3>2, <3>3, <3>4, <3>5 DEF Control
  <2>4. ASSUME NEW s \in Sources, RunSource(s)
        PROVE  \E t \in wave : LaneAdvances(t)
    BY <2>4, RunSourceAdvances
  <2>. QED
    BY <2>1, <2>2, <2>3, <2>4 DEF Next
<1>. QED
  BY <1>1, <1>2, <1>3, LanesInOrder, PTL DEF Spec, RunAdvances
=============================================================================
