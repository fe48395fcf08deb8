------------------------ MODULE UpdateRecordsProofs ------------------------
(***************************************************************************)
(* What TLAPS proves of the rows the controller keeps: the state file        *)
(* implements SourceRecords under every fault, and what a derived source      *)
(* records as consumed is what its producer has read.                       *)
(***************************************************************************)
EXTENDS UpdateControllerProofs

-----------------------------------------------------------------------------
(* The rows in memory and the rows in the file.                            *)

\* What a row of the memory looks like that the file does not have yet.
Unwritten(s) == mem[s] # stateFile[s]

\* A lane has recorded the success of s.
Committed(s) == pc[s] \in {"marking", "writing", "done"}

\* Between commands, memory and file agree; in a run they differ for committed
\* sources of the wave only, in an intake for drop sources it has had its turn
\* of; and where they differ, the memory has one success more.
RecordInv ==
    /\ phase = "idle" => mem = stateFile
    /\ phase = "ingest" => wave \cup pending \subseteq DropSources
                           /\ wave \cap pending = {}
    /\ \A s \in Sources : Unwritten(s) =>
          /\ phase \in {"main", "deps"} => s \in wave /\ Committed(s)
          /\ phase = "ingest" => IsDrop(s) /\ s \notin pending
                                 /\ (s \in wave => Committed(s))
          /\ \E c \in Content : mem[s] = Records!Success(s, c)

\* A content that passes the gate exists.
LEMMA PassedExists ==
    ASSUME TypeOK, NEW s \in Sources, GatePasses(Status(s))
    PROVE  output[s] \in Content
<1>1. output[s] \in Content \cup {None}
  BY DEF TypeOK, MaybeContent
<1>2. output[s] # None
  BY DEF GatePasses, SuccessStatuses, Status, GateStatus
<1>. QED
  BY <1>1, <1>2

\* A source of the wave and its parents.
LEMMA ParentsNotInWave ==
    ASSUME LaneInv, RecordInv, NEW s \in Sources, pc[s] # "out",
           NEW p \in DependsOn[s]
    PROVE  /\ p \in Sources /\ p # s /\ s \in wave /\ p \notin wave
           /\ phase \in {"main", "deps"} => p \notin pending
<1>1. p \in Sources /\ p # s
  BY ControllerAssumption
<1>2. s \in wave /\ phase \in Phases
  BY DEF LaneInv, WaveInv, TypeOK
<1>3. phase = "idle" => FALSE
  BY <1>2 DEF LaneInv, WaveInv
<1>4. phase = "ingest" => p \notin wave
  BY <1>1, <1>2 DEF LaneInv, WaveInv
<1>5. phase \in {"main", "deps"} => p \notin wave /\ p \notin pending
  BY <1>2 DEF LaneInv, WaveInv
<1>. QED
  BY <1>1, <1>2, <1>3, <1>4, <1>5 DEF Phases

\* What a lane commits is a success over what the file holds: the versions it
\* records are those of the file, because no parent is in the same wave.
LEMMA CommitIsSuccess ==
    ASSUME LaneInv, RecordInv, NEW s \in Sources, Commit(s)
    PROVE  /\ output[s] \in Content
           /\ CommittedRow(s) = Records!Success(s, output[s])
<1>1. pc[s] = "exited" /\ output[s] \in Content
  BY PassedExists DEF Commit, LaneInv
<1>2. s \in wave /\ phase \in Phases /\ phase # "idle"
  BY <1>1 DEF LaneInv, WaveInv, TypeOK
<1>3. mem[s] = stateFile[s]
  BY <1>1, <1>2 DEF RecordInv, Unwritten, Committed, Phases
<1>4. ASSUME NEW p \in DependsOn[s], Trigger[s] = "dependency"
      PROVE  p \in Sources /\ mem[p] = stateFile[p]
  <2>1. p \in Sources /\ p \notin wave
    BY <1>1, ParentsNotInWave
  <2>2. ~IsDrop(s)
    BY <1>4 DEF IsDrop, DropTriggers
  <2>3. phase \in {"main", "deps"}
    BY <1>2, <2>2 DEF RecordInv, DropSources, Phases
  <2>. QED
    BY <2>1, <2>3 DEF RecordInv, Unwritten
<1>5. ASSUME NEW p \in Sources
      PROVE  ConsumedVersions(s)[p] = Records!Success(s, output[s]).versions[p]
  BY <1>3, <1>4 DEF ConsumedVersions, Records!Success, Dependents
<1>6. ConsumedVersions(s) = Records!Success(s, output[s]).versions
  BY <1>5 DEF ConsumedVersions, Records!Success
<1>. QED
  BY <1>1, <1>3, <1>6 DEF CommittedRow, Records!Success, Scheduled

\* A step that leaves memory, file, phase and plan alone and that only moves on
\* what is already committed keeps the agreement of the rows.
LEMMA QuietStep ==
    ASSUME RecordInv, UNCHANGED <<mem, stateFile, phase, pending, wave>>,
           \A s \in Sources : Committed(s) => Committed(s)'
    PROVE  RecordInv'
BY DEF RecordInv, Unwritten, Records!Success

\* Every step of run_source but the commit leaves the rows alone.
LEMMA RunSourceQuiet ==
    ASSUME LaneInv, NEW s \in Sources, RunSource(s), ~Commit(s)
    PROVE  /\ UNCHANGED <<mem, stateFile, phase, pending, wave>>
           /\ \A t \in Sources : Committed(t) => Committed(t)'
<1>0. pc \in [Sources -> Stages]
  BY DEF LaneInv, TypeOK
<1>. USE DEF diskVars, runVars, Committed
<1>1. CASE Skip(s)
  BY <1>0, <1>1 DEF Skip, Finish
<1>2. CASE PreflightFails(s)
  BY <1>0, <1>2 DEF PreflightFails, Fail, Finish
<1>3. CASE Launch(s)
  BY <1>0, <1>3 DEF Launch, Startable
<1>4. CASE \E c \in MaybeContent : ProducerSucceeds(s, c)
  BY <1>0, <1>4 DEF ProducerSucceeds
<1>5. CASE \E c \in MaybeContent : ProducerRetries(s, c)
  <2>1. UNCHANGED <<mem, stateFile, phase, pending, wave>>
    BY <1>5 DEF ProducerRetries
  <2>2. pc' = pc \/ pc' = [pc EXCEPT ![s] = "done"]
    BY <1>5 DEF ProducerRetries, Fail, Finish
  <2>. QED
    BY <1>0, <2>1, <2>2
<1>6. CASE \E c \in MaybeContent : ProducerFails(s, c)
  BY <1>0, <1>6 DEF ProducerFails, Fail, Finish
<1>7. CASE Reject(s)
  BY <1>0, <1>7 DEF Reject, Fail, Finish
<1>8. CASE MarkRead(s)
  BY <1>0, <1>8 DEF MarkRead
<1>9. CASE MarkWrite(s)
  BY <1>0, <1>9 DEF MarkWrite
<1>. QED
  BY <1>1, <1>2, <1>3, <1>4, <1>5, <1>6, <1>7, <1>8, <1>9 DEF RunSource

\* The commit of a lane.
LEMMA CommitRecord ==
    ASSUME LaneInv, RecordInv, NEW s \in Sources, Commit(s)
    PROVE  RecordInv'
<1>0. /\ pc \in [Sources -> Stages] /\ mem \in [Sources -> Row]
      /\ stateFile \in [Sources -> Row]
  BY DEF LaneInv, TypeOK
<1>1. /\ pc[s] = "exited" /\ UNCHANGED <<stateFile, phase, pending, wave>>
      /\ mem' = [mem EXCEPT ![s] = CommittedRow(s)]
      /\ pc'[s] \in {"marking", "done"}
      /\ \A t \in Sources \ {s} : pc'[t] = pc[t] /\ mem'[t] = mem[t]
  BY <1>0 DEF Commit, diskVars
<1>2. s \in wave /\ phase # "idle"
  BY <1>1 DEF LaneInv, WaveInv
<1>3. mem'[s] = Records!Success(s, output[s])' /\ output[s] \in Content
  <2>1. mem'[s] = Records!Success(s, output[s])
    BY <1>0, <1>1, CommitIsSuccess
  <2>2. output' = output
    BY DEF Commit, diskVars
  <2>. QED
    BY <1>1, <2>1, <2>2, CommitIsSuccess DEF Records!Success
<1>4. ASSUME NEW t \in Sources, Unwritten(t)'
      PROVE  /\ phase' \in {"main", "deps"} => t \in wave' /\ Committed(t)'
             /\ phase' = "ingest" => IsDrop(t) /\ t \notin pending'
                                     /\ (t \in wave' => Committed(t)')
             /\ \E c \in Content : mem'[t] = Records!Success(t, c)'
  <2>1. CASE t = s
    <3>1. phase = "ingest" => IsDrop(s) /\ s \notin pending
      BY <1>2 DEF RecordInv, DropSources
    <3>2. output'[s] = output[s]
      BY DEF Commit, diskVars
    <3>. QED
      BY <1>1, <1>2, <1>3, <2>1, <3>1, <3>2 DEF Committed, Records!Success
  <2>2. CASE t # s
    <3>1. Unwritten(t) /\ (Committed(t) <=> Committed(t)')
      BY <1>1, <1>4, <2>2 DEF Unwritten, Committed
    <3>. QED
      BY <1>1, <2>2, <3>1 DEF RecordInv, Records!Success
  <2>. QED
    BY <2>1, <2>2
<1>. QED
  BY <1>1, <1>2, <1>4 DEF RecordInv

\* Between waves nothing is unwritten.
LEMMA NothingUnwritten ==
    ASSUME TypeOK, RecordInv, wave = {}, phase \in {"main", "deps"}
    PROVE  mem = stateFile
<1>1. \A s \in Sources : mem[s] = stateFile[s]
  BY DEF RecordInv, Unwritten
<1>2. mem \in [Sources -> Row] /\ stateFile \in [Sources -> Row]
  BY DEF TypeOK
<1>. QED
  BY <1>1, <1>2

\* Where memory and file are the same, the rows agree.
LEMMA SameRows ==
    ASSUME mem' = stateFile', phase' # "ingest"
    PROVE  RecordInv'
BY DEF RecordInv, Unwritten

\* The control loop keeps the agreement of the rows.
LEMMA ControlRecord ==
    ASSUME LaneInv, RecordInv, Control
    PROVE  RecordInv'
<1>0. TypeOK /\ pc \in [Sources -> Stages] /\ phase \in Phases
      /\ pending \in SUBSET Sources
  BY DEF LaneInv, TypeOK
<1>1. CASE NextWave
  BY <1>0, <1>1, NothingUnwritten, SameRows DEF NextWave, diskVars
<1>2. CASE EndWave
  BY <1>2, SameRows DEF EndWave
<1>3. CASE StartDependents
  BY <1>0, <1>3, NothingUnwritten, SameRows DEF StartDependents, diskVars
<1>4. CASE EndRun
  BY <1>4, SameRows DEF EndRun, diskVars
<1>5. CASE NextIngest
  <2>1. PICK s \in pending :
          /\ pending' = pending \ {s}
          /\ wave' = IF NewDrops(s) # {} THEN {s} ELSE {}
    BY <1>5 DEF NextIngest
  <2>2. UNCHANGED <<mem, stateFile, phase>> /\ phase = "ingest" /\ wave = {}
    BY <1>5 DEF NextIngest, diskVars
  <2>3. \A t \in Sources : Unwritten(t)' <=> Unwritten(t)
    BY <2>2 DEF Unwritten
  <2>4. ASSUME NEW t \in Sources, Unwritten(t)
        PROVE  IsDrop(t) /\ t \notin pending' /\ t \notin wave'
               /\ \E c \in Content : mem'[t] = Records!Success(t, c)'
    BY <2>1, <2>2, <2>4 DEF RecordInv, Records!Success
  <2>. QED
    BY <2>1, <2>2, <2>3, <2>4 DEF RecordInv
<1>6. CASE EndIngested
  <2>1. UNCHANGED <<mem, stateFile, phase, pending>> /\ wave' = {} /\ phase = "ingest"
    BY <1>6 DEF EndIngested, diskVars
  <2>2. ASSUME NEW t \in Sources, Unwritten(t)'
        PROVE  IsDrop(t) /\ t \notin pending
               /\ \E c \in Content : mem'[t] = Records!Success(t, c)'
    BY <2>1, <2>2 DEF RecordInv, Unwritten, Records!Success
  <2>. QED
    BY <2>1, <2>2 DEF RecordInv
<1>7. CASE EndIngest
  BY <1>7, SameRows DEF EndIngest
<1>. QED
  BY <1>1, <1>2, <1>3, <1>4, <1>5, <1>6, <1>7 DEF Control

\* Every step keeps the agreement of the rows.
LEMMA NextRecord == LaneInv /\ RecordInv /\ [Next]_vars => RecordInv'
<1>. SUFFICES ASSUME LaneInv, RecordInv, [Next]_vars
              PROVE  RecordInv'
  OBVIOUS
<1>1. CASE Environment
  <2>1. ASSUME NEW s \in Sources, NEW d \in Drops, DropArrives(s, d)
        PROVE  RecordInv'
    BY <2>1, QuietStep DEF DropArrives, runVars, laneVars, Committed
  <2>2. ASSUME NEW s \in Sources, Elapse(s)
        PROVE  RecordInv'
    BY <2>2, SameRows DEF Elapse
  <2>3. CASE LoseState
    BY <2>3, SameRows DEF LoseState
  <2>. QED
    BY <1>1, <2>1, <2>2, <2>3 DEF Environment
<1>2. CASE Command
  <2>1. ASSUME NEW plan, Begin("main", plan)
        PROVE  RecordInv'
    BY <2>1, SameRows DEF Begin, diskVars
  <2>2. CASE StartIngest
    <3>1. mem' = stateFile' /\ phase' = "ingest" /\ wave' = {} /\ pending' = DropSources
      BY <2>2 DEF StartIngest, Begin, diskVars
    <3>. QED
      BY <3>1 DEF RecordInv, Unwritten
  <2>. QED
    BY <1>2, <2>1, <2>2 DEF Command, StartDue, StartForced
<1>3. CASE Control
  BY <1>3, ControlRecord
<1>4. CASE Crash
  BY <1>4, SameRows DEF Crash, diskVars
<1>5. ASSUME NEW s \in Sources, RunSource(s)
      PROVE  RecordInv'
  <2>1. CASE Commit(s)
    BY <2>1, CommitRecord
  <2>2. CASE ~Commit(s)
    BY <1>5, <2>2, RunSourceQuiet, QuietStep
  <2>. QED
    BY <2>1, <2>2
<1>6. CASE UNCHANGED vars
  BY <1>6, QuietStep DEF vars, diskVars, runVars, laneVars, Committed
<1>. QED
  BY <1>1, <1>2, <1>3, <1>4, <1>5, <1>6 DEF Next

\* Memory and file agree in every behaviour of the controller.
THEOREM RowsAgree == Spec => [](LaneInv /\ RecordInv)
<1>1. Init => RecordInv
  BY DEF Init, RecordInv, Unwritten
<1>2. LaneInv /\ RecordInv /\ [Next]_vars => RecordInv'
  BY NextRecord
<1>. QED
  BY <1>1, <1>2, LanesInOrder, PTL DEF Spec

-----------------------------------------------------------------------------
(* The refinement.                                                          *)

\* Writing the memory to the file records the sources that differ.
LEMMA WriteIsRecord ==
    ASSUME LaneInv, RecordInv, phase # "idle", stateFile' = mem
    PROVE  Records!Next
<1>. DEFINE S == {s \in Sources : Unwritten(s)}
            content == [s \in S |-> mem[s].hash]
<1>0. /\ mem \in [Sources -> Row] /\ phase \in Phases /\ wave \in SUBSET Sources
  BY DEF LaneInv, TypeOK
<1>1. ASSUME NEW s \in S
      PROVE  content[s] \in Content /\ mem[s] = Records!Success(s, content[s])
  <2>1. PICK c \in Content : mem[s] = Records!Success(s, c)
    BY DEF RecordInv
  <2>2. mem[s].hash = c
    BY <2>1 DEF Records!Success
  <2>. QED
    BY <2>1, <2>2
<1>2. content \in [S -> Content]
  BY <1>1
<1>3. ASSUME NEW s \in S \cap Dependents
      PROVE  DependsOn[s] \cap S = {}
  <2>1. Unwritten(s) /\ ~IsDrop(s) /\ s \in Sources
    BY DEF Dependents, IsDrop, DropTriggers
  <2>2. phase \in {"main", "deps"}
    BY <1>0, <2>1 DEF RecordInv, Phases
  <2>3. S \subseteq wave
    BY <2>2 DEF RecordInv
  <2>. QED
    BY <2>2, <2>3 DEF LaneInv, WaveInv
<1>4. ASSUME NEW s \in Sources
      PROVE  mem[s] = IF s \in S THEN Records!Success(s, content[s]) ELSE stateFile[s]
  BY <1>1 DEF Unwritten
<1>5. stateFile' = [s \in Sources |->
                      IF s \in S THEN Records!Success(s, content[s]) ELSE stateFile[s]]
  BY <1>0, <1>4
<1>. HIDE DEF S, content
<1>6. Records!Record(S, content)
  BY <1>3, <1>5 DEF Records!Record
<1>7. S \in SUBSET Sources
  BY DEF S
<1>. QED
  BY <1>2, <1>6, <1>7 DEF Records!Next

\* Every step of the controller is a record, a due date that passes, the loss
\* of the file, or invisible in the file.
LEMMA StepRecords ==
    ASSUME LaneInv, RecordInv, [Next]_vars
    PROVE  Records!Next \/ stateFile' = stateFile
<1>1. CASE Environment
  <2>1. ASSUME NEW s \in Sources, Elapse(s)
        PROVE  Records!Next
    BY <2>1 DEF Elapse, Records!Next, Records!Elapse
  <2>2. LoseState => Records!Next
    BY DEF LoseState, Records!Next, Records!Forget, NewRow, Records!NewRow
  <2>3. ASSUME NEW s \in Sources, NEW d \in Drops, DropArrives(s, d)
        PROVE  stateFile' = stateFile
    BY <2>3 DEF DropArrives
  <2>. QED
    BY <1>1, <2>1, <2>2, <2>3 DEF Environment
<1>2. CASE Command
  BY <1>2 DEF Command, StartDue, StartForced, StartIngest, Begin, diskVars
<1>3. CASE Control
  <2>1. EndWave => Records!Next
    BY WriteIsRecord DEF EndWave
  <2>2. EndIngest => Records!Next
    BY WriteIsRecord DEF EndIngest
  <2>3. NextWave \/ StartDependents \/ EndRun \/ NextIngest \/ EndIngested
          => stateFile' = stateFile
    BY DEF NextWave, StartDependents, EndRun, NextIngest, EndIngested, diskVars
  <2>. QED
    BY <1>3, <2>1, <2>2, <2>3 DEF Control
<1>4. CASE Crash
  BY <1>4 DEF Crash, diskVars
<1>5. ASSUME NEW s \in Sources, RunSource(s)
      PROVE  stateFile' = stateFile
  <2>1. Commit(s) => stateFile' = stateFile
    BY DEF Commit, diskVars
  <2>. QED
    BY <1>5, <2>1, RunSourceQuiet
<1>6. CASE UNCHANGED vars
  BY <1>6 DEF vars, diskVars
<1>. QED
  BY <1>1, <1>2, <1>3, <1>4, <1>5, <1>6 DEF Next

\* The state file implements SourceRecords: whatever lanes run side by side,
\* whatever fails, half-writes or dies, the file shows whole waves only, and a
\* derived source with the versions of its parents that the file held before
\* (write_state after execute_selected's wave, executor.py's
\* dependency_versions_consumed).
THEOREM RecordsImplement == Spec => RecordsInWaves
<1>1. Init => Records!Init
  BY DEF Init, Records!Init, NewRow, Records!NewRow
<1>2. LaneInv /\ RecordInv /\ [Next]_vars => [Records!Next]_stateFile
  BY StepRecords
<1>. QED
  BY <1>1, <1>2, RowsAgree, PTL DEF Spec, RecordsInWaves, Records!Spec

\* What follows from it: the file records success and content together, and
\* the version of a parent only beside that parent's own record.
THEOREM RecordsGrounded == Spec => []Records!Grounded
<1>. DEFINE RowsTyped == stateFile \in [Sources -> Row]
<1>1. Init => Records!Grounded
  BY DEF Init, NewRow, Records!Grounded
<1>2. RowsTyped /\ Records!Grounded /\ [Records!Next]_stateFile => Records!Grounded'
  <2>. SUFFICES ASSUME RowsTyped, Records!Grounded, [Records!Next]_stateFile
                PROVE  Records!Grounded'
    OBVIOUS
  <2>1. ASSUME NEW S \in SUBSET Sources, NEW content \in [S -> Content],
               Records!Record(S, content)
        PROVE  Records!Grounded'
    <3>1. ASSUME NEW s \in S
          PROVE  /\ stateFile'[s].success = TRUE /\ stateFile'[s].hash # None
                 /\ \A p \in Sources : stateFile'[s].versions[p] =
                      IF s \in Dependents /\ p \in DependsOn[s] /\ stateFile[p].hash # None
                      THEN stateFile[p].hash ELSE stateFile[s].versions[p]
      <4>1. stateFile'[s] = Records!Success(s, content[s])
        BY <2>1 DEF Records!Record
      <4>2. content[s] \in Content /\ content[s] # None
        BY ContentAssumption
      <4>. QED
        BY <4>1, <4>2 DEF Records!Success
    <3>2. ASSUME NEW s \in Sources \ S
          PROVE  stateFile'[s] = stateFile[s]
      BY <2>1 DEF Records!Record
    <3>3. ASSUME NEW s \in Sources
          PROVE  stateFile'[s].success <=> stateFile'[s].hash # None
      BY <3>1, <3>2 DEF Records!Grounded
    <3>4. ASSUME NEW s \in Sources, stateFile[s].success
          PROVE  stateFile'[s].success
      BY <3>1, <3>2, <3>4
    <3>5. ASSUME NEW s \in Sources, NEW p \in Sources, stateFile'[s].versions[p] # None
          PROVE  s \in Dependents /\ p \in DependsOn[s] /\ stateFile'[p].success
      <4>1. \/ s \in Dependents /\ p \in DependsOn[s] /\ stateFile[p].hash # None
            \/ stateFile[s].versions[p] # None
        BY <3>1, <3>2, <3>5
      <4>. QED
        BY <3>4, <4>1 DEF Records!Grounded
    <3>. QED
      BY <3>3, <3>5 DEF Records!Grounded
  <2>2. ASSUME NEW s \in Sources, Records!Elapse(s)
        PROVE  Records!Grounded'
    <3>1. \A t \in Sources : /\ stateFile'[t].success = stateFile[t].success
                             /\ stateFile'[t].hash = stateFile[t].hash
                             /\ stateFile'[t].versions = stateFile[t].versions
      BY <2>2 DEF Records!Elapse, Row
    <3>. QED
      BY <3>1 DEF Records!Grounded
  <2>3. CASE Records!Forget
    BY <2>3 DEF Records!Forget, Records!NewRow, Records!Grounded
  <2>4. CASE UNCHANGED stateFile
    BY <2>4 DEF Records!Grounded
  <2>. QED
    BY <2>1, <2>2, <2>3, <2>4 DEF Records!Next
<1>3. TypeOK => RowsTyped
  BY DEF TypeOK
<1>4. Spec => [][Records!Next]_stateFile
  BY RecordsImplement, PTL DEF RecordsInWaves, Records!Spec
<1>. QED
  BY <1>1, <1>2, <1>3, <1>4, TypeCorrect, PTL DEF Spec

\* A derived source that lags behind its parents in the file is due for the next
\* run, whatever failed since they changed (evaluate_due).
THEOREM BehindIsDue ==
    Spec => [](\A s \in Dependents : Behind(s) => Due(s, stateFile))
<1>1. Records!Grounded => \A s \in Dependents : Behind(s) => Due(s, stateFile)
  <2>. SUFFICES ASSUME Records!Grounded, NEW s \in Dependents, Behind(s)
                PROVE  Due(s, stateFile)
    OBVIOUS
  <2>1. PICK p \in DependsOn[s] : stateFile[s].versions[p] # stateFile[p].hash
    BY DEF Behind
  <2>2. stateFile[p].hash # None
    <3>1. p \in Sources /\ stateFile[p].success
      BY ControllerAssumption DEF Dependents, Behind
    <3>. QED
      BY <3>1 DEF Records!Grounded
  <2>. QED
    BY <2>1, <2>2 DEF Due, ParentsSucceeded, ParentChanged, Behind, Dependents
<1>. QED
  BY <1>1, RecordsGrounded, PTL

\* A derived source for which something new is recorded as consumed is behind no
\* parent after that write, although the other lanes of its wave are recorded
\* by the same write.
CatchesUp ==
    \A s \in Dependents : stateFile'[s].versions # stateFile[s].versions => ~Behind(s)'

THEOREM RecordCatchesUp == Spec => [][CatchesUp]_vars
<1>1. TypeOK /\ Records!Grounded /\ [Records!Next]_stateFile /\ [Next]_vars => [CatchesUp]_vars
  <2>. SUFFICES ASSUME TypeOK, Records!Grounded, [Records!Next]_stateFile, NEW s \in Dependents,
                       stateFile'[s].versions # stateFile[s].versions, Behind(s)'
                PROVE  FALSE
    BY DEF CatchesUp
  <2>0. /\ s \in Sources /\ DependsOn[s] \subseteq Sources
        /\ stateFile \in [Sources -> Row]
    BY ControllerAssumption DEF Dependents, TypeOK
  <2>1. PICK p \in DependsOn[s] : stateFile'[s].versions[p] # stateFile'[p].hash
    BY DEF Behind
  <2>2. p \in Sources /\ stateFile'[p].success
    BY <2>0 DEF Behind
  <2>3. ASSUME NEW S \in SUBSET Sources, NEW content \in [S -> Content],
               Records!Record(S, content)
        PROVE  FALSE
    <3>1. stateFile' = [t \in Sources |-> IF t \in S THEN Records!Success(t, content[t])
                                                     ELSE stateFile[t]]
      BY <2>3 DEF Records!Record
    <3>2. s \in S /\ p \notin S
      BY <2>0, <2>3, <3>1 DEF Records!Record
    <3>3. stateFile'[p] = stateFile[p] /\ stateFile'[s] = Records!Success(s, content[s])
      BY <2>0, <2>2, <3>1, <3>2
    <3>4. stateFile[p].hash # None
      BY <2>2, <3>3 DEF Records!Grounded
    <3>5. stateFile'[s].versions[p] = stateFile[p].hash
      BY <2>2, <3>3, <3>4 DEF Records!Success
    <3>. QED
      BY <2>1, <3>3, <3>5
  <2>4. ASSUME NEW t \in Sources, Records!Elapse(t)
        PROVE  FALSE
    BY <2>0, <2>4 DEF Records!Elapse, Row
  <2>5. CASE Records!Forget
    BY <2>2, <2>5 DEF Records!Forget, Records!NewRow
  <2>. QED
    BY <2>3, <2>4, <2>5 DEF Records!Next
<1>2. Spec => [][Records!Next]_stateFile
  BY RecordsImplement, PTL DEF RecordsInWaves, Records!Spec
<1>. QED
  BY <1>1, <1>2, RecordsGrounded, TypeCorrect, PTL DEF Spec

-----------------------------------------------------------------------------
(* What a producer has read.                                                *)

\* What a producer has read of its parents is on disk until it is committed or
\* refused.
ReadsHold ==
    \A s \in Sources : pc[s] = "exited" =>
        \A p \in DependsOn[s] : reads[s][p] = output[p]

\* The outputs change by a producer only, in the lane of its source.
LEMMA OutputChange ==
    ASSUME LaneInv, [Next]_vars
    PROVE  \/ output' = output /\ \A s \in Sources : pc'[s] = "exited" =>
                                   pc[s] = "exited" /\ reads'[s] = reads[s]
           \/ \E s \in Sources :
                 /\ pc[s] = "ready"
                 /\ \A t \in Sources \ {s} :
                       output'[t] = output[t] /\ pc'[t] = pc[t] /\ reads'[t] = reads[t]
                 /\ \/ pc'[s] # "exited"
                    \/ \A p \in DependsOn[s] : reads'[s][p] = output[p]
<1>0. /\ pc \in [Sources -> Stages] /\ output \in [Sources -> MaybeContent]
      /\ reads \in [Sources -> [Sources -> MaybeContent]]
  BY DEF LaneInv, TypeOK
<1>. DEFINE Kept == output' = output /\ \A s \in Sources : pc'[s] = "exited" =>
                                   pc[s] = "exited" /\ reads'[s] = reads[s]
            Moved(s) ==
                 /\ pc[s] = "ready"
                 /\ \A t \in Sources \ {s} :
                       output'[t] = output[t] /\ pc'[t] = pc[t] /\ reads'[t] = reads[t]
                 /\ \/ pc'[s] # "exited"
                    \/ \A p \in DependsOn[s] : reads'[s][p] = output[p]
<1>1. CASE Environment
  BY <1>1 DEF Environment, DropArrives, Elapse, LoseState, laneVars
<1>2. CASE Command
  BY <1>2 DEF Command, StartDue, StartForced, StartIngest, Begin, diskVars, laneVars
<1>3. CASE Control
  <2>1. EndWave \/ EndIngested => Kept
    BY DEF EndWave, EndIngested, LanesCleared, diskVars
  <2>2. StartDependents \/ EndRun \/ EndIngest => Kept
    BY DEF StartDependents, EndRun, EndIngest, diskVars, laneVars
  <2>3. NextWave => Kept
    BY DEF NextWave, diskVars
  <2>4. NextIngest => Kept
    BY <1>0 DEF NextIngest, diskVars
  <2>. QED
    BY <1>3, <2>1, <2>2, <2>3, <2>4 DEF Control
<1>4. CASE Crash
  BY <1>4 DEF Crash, LanesCleared, diskVars
<1>5. ASSUME NEW s \in Sources, RunSource(s)
      PROVE  Kept \/ Moved(s)
  <2>1. ASSUME NEW c \in MaybeContent, ProducerSucceeds(s, c)
        PROVE  Moved(s)
    <3>1. \A p \in DependsOn[s] : p \in Sources
      BY ControllerAssumption
    <3>. QED
      BY <1>0, <2>1, <3>1 DEF ProducerSucceeds
  <2>2. ASSUME NEW c \in MaybeContent, ProducerRetries(s, c)
        PROVE  Moved(s)
    <3>1. pc' = pc \/ pc' = [pc EXCEPT ![s] = "done"]
      BY <2>2 DEF ProducerRetries, Fail, Finish
    <3>2. pc[s] = "ready" /\ output' = [output EXCEPT ![s] = c] /\ reads' = reads
      BY <2>2 DEF ProducerRetries
    <3>. QED
      BY <1>0, <3>1, <3>2
  <2>3. ASSUME NEW c \in MaybeContent, ProducerFails(s, c)
        PROVE  Moved(s)
    BY <1>0, <2>3 DEF ProducerFails, Fail, Finish
  <2>4. Skip(s) \/ PreflightFails(s) \/ Launch(s) => Kept
    BY <1>0 DEF Skip, PreflightFails, Launch, Fail, Finish, diskVars, runVars
  <2>5. Reject(s) \/ Commit(s) \/ MarkRead(s) \/ MarkWrite(s) => Kept
    BY <1>0 DEF Reject, Commit, MarkRead, MarkWrite, Fail, Finish, diskVars, runVars
  <2>. QED
    BY <1>5, <2>1, <2>2, <2>3, <2>4, <2>5 DEF RunSource
<1>6. CASE UNCHANGED vars
  BY <1>6 DEF vars, diskVars, laneVars
<1>. QED
  BY <1>1, <1>2, <1>3, <1>4, <1>5, <1>6 DEF Next

\* Whatever lanes run beside it and whatever fails, a producer's parents are
\* still what it has read when its output comes before the gate
\* (execute_selected starts no lane of a parent beside it).
THEOREM ReadsAreStable == Spec => []ReadsHold
<1>1. Init => ReadsHold
  BY DEF Init, ReadsHold
<1>2. LaneInv /\ RecordInv /\ ReadsHold /\ [Next]_vars => ReadsHold'
  <2>. SUFFICES ASSUME LaneInv, RecordInv, ReadsHold, [Next]_vars,
                       NEW s \in Sources, pc'[s] = "exited", NEW p \in DependsOn[s]
                PROVE  reads'[s][p] = output'[p]
    BY DEF ReadsHold
  <2>0. p \in Sources /\ p # s
    BY ControllerAssumption
  <2>1. CASE output' = output /\ pc[s] = "exited" /\ reads'[s] = reads[s]
    BY <2>1 DEF ReadsHold
  <2>2. ASSUME NEW t \in Sources, pc[t] = "ready",
               \A u \in Sources \ {t} :
                  output'[u] = output[u] /\ pc'[u] = pc[u] /\ reads'[u] = reads[u],
               \/ pc'[t] # "exited"
               \/ \A q \in DependsOn[t] : reads'[t][q] = output[q]
        PROVE  reads'[s][p] = output'[p]
    <3>1. pc[s] # "out"
      BY <2>2
    <3>2. p \notin wave
      BY <3>1, ParentsNotInWave
    <3>3. p # t
      BY <2>2, <3>2 DEF LaneInv, WaveInv
    <3>4. output'[p] = output[p]
      BY <2>0, <2>2, <3>3
    <3>5. CASE s = t
      BY <2>2, <3>4, <3>5
    <3>6. CASE s # t
      BY <2>2, <3>4, <3>6 DEF ReadsHold
    <3>. QED
      BY <3>5, <3>6
  <2>. QED
    BY <2>1, <2>2, OutputChange
<1>. QED
  BY <1>1, <1>2, RowsAgree, PTL DEF Spec

-----------------------------------------------------------------------------
(* What is recorded as consumed.                                            *)

\* Where nothing refuses, half-writes, dies or loses the file, the output on
\* disk is the recorded one.
Undisturbed ==
    /\ \A b \in MaybeContent, c \in Content : GatePasses(GateStatus(b, c))
    /\ Faults \cap {"partial", "shadow", "crash", "lose_state"} = {}

\* The recorded content of a source is the one on disk, except between its
\* producer and the gate; and no version is recorded of a parent without record.
OutputInv ==
    /\ \A s \in Sources : pc[s] # "exited" => mem[s].hash = output[s]
    /\ \A s \in Sources : mem[s].hash # None => output[s] # None
    /\ \A s, p \in Sources : mem[s].versions[p] # None => mem[p].hash # None

\* A step that leaves outputs and rows alone, and takes no source out of the
\* hands of the gate.
LEMMA OutputKept ==
    ASSUME OutputInv, output' = output,
           \A s \in Sources : /\ mem'[s].hash = mem[s].hash
                              /\ mem'[s].versions = mem[s].versions
                              /\ pc'[s] = "exited" \/ pc[s] # "exited"
    PROVE  OutputInv'
BY DEF OutputInv

\* The rows of the memory where no lane commits: the memory loaded from the file
\* is the memory there was, and only a due date may change.
LEMMA RowsKept ==
    ASSUME Undisturbed, LaneInv, RecordInv, [Next]_vars,
           \A s \in Sources : ~Commit(s)
    PROVE  \A s \in Sources : /\ mem'[s].hash = mem[s].hash
                             /\ mem'[s].versions = mem[s].versions
<1>0. mem \in [Sources -> Row] /\ TypeOK
  BY DEF LaneInv, TypeOK
<1>1. CASE Environment
  <2>1. ASSUME NEW t \in Sources, Elapse(t)
        PROVE  \A s \in Sources : /\ mem'[s].hash = mem[s].hash
                                 /\ mem'[s].versions = mem[s].versions
    <3>1. mem = stateFile /\ mem' = [mem EXCEPT ![t].waiting = FALSE]
      BY <2>1 DEF Elapse, RecordInv
    <3>. QED
      BY <1>0, <3>1 DEF Row
  <2>2. ~LoseState
    BY DEF LoseState, Undisturbed
  <2>. QED
    BY <1>1, <2>1, <2>2 DEF Environment, DropArrives, runVars
<1>2. CASE Command
  <2>1. mem' = stateFile /\ phase = "idle"
    BY <1>2 DEF Command, StartDue, StartForced, StartIngest, Begin
  <2>. QED
    BY <2>1 DEF RecordInv
<1>3. CASE Control
  <2>1. EndRun => mem' = mem
    BY <1>0, NothingUnwritten DEF EndRun
  <2>2. NextWave \/ EndWave \/ StartDependents \/ NextIngest \/ EndIngested \/ EndIngest
          => mem' = mem
    BY DEF NextWave, EndWave, StartDependents, NextIngest, EndIngested, EndIngest
  <2>. QED
    BY <1>3, <2>1, <2>2 DEF Control
<1>4. ~Crash
  BY DEF Crash, Undisturbed
<1>5. ASSUME NEW t \in Sources, RunSource(t)
      PROVE  mem' = mem
  BY <1>5, RunSourceQuiet
<1>6. CASE UNCHANGED vars
  BY <1>6 DEF vars, runVars
<1>. QED
  BY <1>1, <1>2, <1>3, <1>4, <1>5, <1>6 DEF Next

\* A commit brings the record to what is on disk.
LEMMA CommitOutput ==
    ASSUME LaneInv, RecordInv, OutputInv, NEW s \in Sources, Commit(s)
    PROVE  OutputInv'
<1>0. /\ mem \in [Sources -> Row] /\ pc \in [Sources -> Stages]
      /\ TypeOK
  BY DEF LaneInv, TypeOK
<1>1. /\ output' = output /\ mem' = [mem EXCEPT ![s] = CommittedRow(s)]
      /\ output[s] \in Content /\ output[s] # None
  BY <1>0, PassedExists, ContentAssumption DEF Commit, diskVars
<1>2. /\ mem'[s].hash = output[s]
      /\ \A p \in Sources : mem'[s].versions[p] # None =>
             mem[p].hash # None \/ mem[s].versions[p] # None
  BY <1>0, <1>1 DEF CommittedRow, ConsumedVersions
<1>3. \A t \in Sources \ {s} : mem'[t] = mem[t] /\ pc'[t] = pc[t]
  BY <1>0, <1>1 DEF Commit
<1>4. \A t \in Sources : mem[t].hash # None => mem'[t].hash # None
  BY <1>1, <1>2, <1>3
<1>5. \A t \in Sources : pc'[t] # "exited" => mem'[t].hash = output'[t]
  BY <1>1, <1>2, <1>3 DEF OutputInv
<1>6. \A t \in Sources : mem'[t].hash # None => output'[t] # None
  BY <1>1, <1>3 DEF OutputInv
<1>7. \A t, p \in Sources : mem'[t].versions[p] # None => mem'[p].hash # None
  BY <1>2, <1>3, <1>4 DEF OutputInv
<1>. QED
  BY <1>5, <1>6, <1>7 DEF OutputInv

\* Only what was not there before can be refused.
LEMMA RefusedIsAbsent ==
    ASSUME Undisturbed, LaneInv, OutputInv, NEW s \in Sources, Reject(s)
    PROVE  output[s] = None /\ mem[s].hash = None
<1>1. ~GatePasses(GateStatus(before[s], output[s]))
  BY DEF Reject, Undisturbed, Status
<1>2. before[s] \in MaybeContent /\ output[s] \in MaybeContent
  BY DEF LaneInv, TypeOK
<1>3. output[s] = None
  BY <1>1, <1>2 DEF Undisturbed, MaybeContent
<1>. QED
  BY <1>3 DEF OutputInv

\* No step but the gate's takes a source out of the gate's hands.
LEMMA GateKeeps ==
    ASSUME Undisturbed, LaneInv, BrokenInv, [Next]_vars,
           NEW s \in Sources, pc[s] = "exited"
    PROVE  pc'[s] = "exited" \/ Commit(s) \/ Reject(s)
<1>0. pc \in [Sources -> Stages] /\ s \in wave /\ phase # "idle"
  BY DEF LaneInv, TypeOK, WaveInv
<1>1. Environment => pc' = pc
  BY DEF Environment, DropArrives, Elapse, LoseState, laneVars
<1>2. ~Command
  BY <1>0 DEF Command, StartDue, StartForced, StartIngest, Begin
<1>3. ~Control
  <2>1. ~NextWave /\ ~StartDependents /\ ~EndRun /\ ~NextIngest /\ ~EndIngest
    BY <1>0 DEF NextWave, StartDependents, EndRun, NextIngest, EndIngest
  <2>2. ~EndIngested
    BY <1>0 DEF EndIngested, Completed
  <2>3. ~EndWave
    <3>. SUFFICES ASSUME EndWave
                  PROVE  FALSE
      OBVIOUS
    <3>1. LaneFinished(LaneKey(s))
      BY <1>0 DEF EndWave
    <3>2. LaneBroken(s)
      BY <1>0, <3>1 DEF LaneFinished
    <3>. QED
      BY <1>0, <3>2 DEF BrokenInv, Taken
  <2>. QED
    BY <2>1, <2>2, <2>3 DEF Control
<1>4. ~Crash
  BY DEF Crash, Undisturbed
<1>5. ASSUME NEW t \in Sources, RunSource(t)
      PROVE  pc'[s] = "exited" \/ Commit(s) \/ Reject(s)
  <2>1. CASE t # s
    <3>1. PICK x \in TakenStages : StageStep(t, x)
      BY <1>5, RunSourceStage
    <3>. QED
      BY <1>0, <2>1, <3>1 DEF StageStep
  <2>2. CASE t = s
    BY <1>5, <2>2 DEF RunSource, Skip, PreflightFails, Launch, Startable,
        ProducerSucceeds, ProducerRetries, ProducerFails, MarkRead, MarkWrite
  <2>. QED
    BY <2>1, <2>2
<1>6. CASE UNCHANGED vars
  BY <1>6 DEF vars, laneVars
<1>. QED
  BY <1>1, <1>2, <1>3, <1>4, <1>5, <1>6 DEF Next

\* A producer overwrites its output, without a trace in the rows, and hands it to
\* the gate; one that fails leaves it alone.
LEMMA ProducerOutput ==
    ASSUME Undisturbed, LaneInv, RecordInv, OutputInv, NEW s \in Sources,
           RunSource(s), output' # output
    PROVE  OutputInv'
<1>0. output \in [Sources -> MaybeContent] /\ pc \in [Sources -> Stages]
  BY DEF LaneInv, TypeOK
<1>1. PICK c \in MaybeContent : ProducerSucceeds(s, c)
  <2>1. ~\E c \in MaybeContent : ProducerRetries(s, c)
    BY <1>0 DEF ProducerRetries, Leaves, Undisturbed
  <2>2. ~\E c \in MaybeContent : ProducerFails(s, c)
    BY <1>0 DEF ProducerFails, Leaves, Undisturbed
  <2>. QED
    BY <2>1, <2>2 DEF RunSource, Skip, PreflightFails, Launch, Reject, Commit, MarkRead,
        MarkWrite, diskVars
<1>2. /\ mem' = mem /\ pc' = [pc EXCEPT ![s] = "exited"]
      /\ output' = [output EXCEPT ![s] = c] /\ c \in Content \cup {output[s]}
  BY <1>1 DEF ProducerSucceeds, runVars
<1>3. output[s] # None => c # None
  BY <1>2, ContentAssumption
<1>4. \A t \in Sources \ {s} : pc'[t] = pc[t] /\ output'[t] = output[t]
  BY <1>0, <1>2
<1>5. pc'[s] = "exited" /\ output'[s] = c
  BY <1>0, <1>2
<1>. QED
  BY <1>2, <1>3, <1>4, <1>5 DEF OutputInv

\* Every step of an undisturbed controller keeps records and outputs together.
LEMMA NextOutput ==
    ASSUME Undisturbed, LaneInv, RecordInv, BrokenInv, OutputInv, [Next]_vars
    PROVE  OutputInv'
<1>1. ASSUME NEW s \in Sources, Commit(s)
      PROVE  OutputInv'
  BY <1>1, CommitOutput
<1>2. ASSUME NEW s \in Sources, RunSource(s), output' # output
      PROVE  OutputInv'
  BY <1>2, ProducerOutput
<1>3. ASSUME \A s \in Sources : ~Commit(s), output' = output
      PROVE  OutputInv'
  <2>1. \A s \in Sources : /\ mem'[s].hash = mem[s].hash
                           /\ mem'[s].versions = mem[s].versions
    BY <1>3, RowsKept
  <2>2. ASSUME NEW s \in Sources, pc[s] = "exited", pc'[s] # "exited"
        PROVE  mem[s].hash = output[s]
    BY <1>3, <2>2, GateKeeps, RefusedIsAbsent
  <2>. QED
    BY <1>3, <2>1, <2>2 DEF OutputInv
<1>4. output' = output \/ \E s \in Sources : RunSource(s)
  BY DEF Next, Environment, DropArrives, Elapse, LoseState, Command, StartDue,
         StartForced, StartIngest, Begin, Control, NextWave, EndWave, StartDependents,
         EndRun, NextIngest, EndIngested, EndIngest, Crash, diskVars, vars
<1>. QED
  BY <1>1, <1>2, <1>3, <1>4

\* Where no output is refused or half-written and no process dies, the version of
\* a parent that a derived source records as consumed is the one its producer has
\* read (dependency_versions_consumed is taken from the shared state, not from
\* the files).
THEOREM ConsumedVersionsWereRead ==
    ASSUME Undisturbed
    PROVE  Spec => ConsumedWasRead
<1>. DEFINE Inv == LaneInv /\ RecordInv /\ BrokenInv /\ ReadsHold /\ OutputInv
<1>1. Init => OutputInv
  BY DEF Init, NewRow, OutputInv
<1>2. LaneInv /\ RecordInv /\ BrokenInv /\ OutputInv /\ [Next]_vars => OutputInv'
  BY NextOutput
<1>3. Inv /\ [Next]_vars
        => [\A s \in Dependents :
              pc[s] = "exited" /\ mem'[s] # mem[s] =>
                 \A p \in DependsOn[s] : mem'[s].versions[p] = reads[s][p]]_vars
  <2>. SUFFICES ASSUME Inv, [Next]_vars, NEW s \in Dependents, pc[s] = "exited",
                       mem'[s] # mem[s], NEW p \in DependsOn[s]
                PROVE  mem'[s].versions[p] = reads[s][p]
    OBVIOUS
  <2>0. /\ s \in Sources /\ Trigger[s] = "dependency" /\ p \in Sources
        /\ mem \in [Sources -> Row] /\ phase # "idle" /\ wave # {}
    BY ControllerAssumption DEF Dependents, LaneInv, TypeOK, WaveInv
  <2>1. Commit(s)
    <3>1. Environment => mem' = mem
      BY <2>0 DEF Environment, DropArrives, Elapse, LoseState, runVars
    <3>2. ~Command
      BY <2>0 DEF Command, StartDue, StartForced, StartIngest, Begin
    <3>3. Control => mem' = mem
      BY <2>0 DEF Control, NextWave, EndWave, StartDependents, EndRun, NextIngest,
                  EndIngested, EndIngest
    <3>4. ~Crash
      BY DEF Crash, Undisturbed
    <3>5. ASSUME NEW t \in Sources, RunSource(t), ~Commit(s)
          PROVE  mem'[s] = mem[s]
      <4>1. CASE Commit(t)
        BY <2>0, <3>5, <4>1 DEF Commit
      <4>2. CASE ~Commit(t)
        BY <3>5, <4>2, RunSourceQuiet
      <4>. QED
        BY <4>1, <4>2
    <3>6. UNCHANGED vars => mem' = mem
      BY DEF vars, runVars
    <3>. QED
      BY <3>1, <3>2, <3>3, <3>4, <3>5, <3>6 DEF Next
  <2>2. mem'[s].versions[p] = IF mem[p].hash # None THEN mem[p].hash
                                                    ELSE mem[s].versions[p]
    BY <2>0, <2>1 DEF Commit, CommittedRow, ConsumedVersions
  <2>3. pc[p] # "exited"
    <3>1. p \notin wave
      BY <2>0, ParentsNotInWave
    <3>. QED
      BY <2>0, <3>1 DEF LaneInv, WaveInv
  <2>4. reads[s][p] = mem[p].hash
    BY <2>0, <2>3 DEF ReadsHold, OutputInv
  <2>5. mem[p].hash = None => mem[s].versions[p] = None
    BY <2>0 DEF OutputInv
  <2>. QED
    BY <2>2, <2>4, <2>5
<1>. HIDE DEF Inv
<1>4. LaneInv /\ RecordInv /\ BrokenInv /\ ReadsHold /\ OutputInv => Inv
  BY DEF Inv
<1>. QED
  BY <1>1, <1>2, <1>3, <1>4, RowsAgree, NothingAbandoned, ReadsAreStable, PTL
  DEF Spec, ConsumedWasRead
-----------------------------------------------------------------------------
(* What is marked consumed.                                                 *)

\* The controller lives to the end of every command, and the file is not lost.
Surviving == Faults \cap {"crash", "lose_state"} = {}

\* Files of s are marked, about to be marked, or marked in what some lane has
\* read of the manifest.
MarkSeen(s) ==
    \/ consumedFile[s] # {}
    \/ pc[s] \in {"marking", "writing"}
    \/ \E t \in Sources : loaded[t][s] # {}

MarksEarned == \A s \in Sources : MarkSeen(s) => mem[s].success

\* The success of a source is not taken back in memory.
LEMMA SuccessKept ==
    ASSUME Surviving, LaneInv, RecordInv, [Next]_vars, NEW s \in Sources, mem[s].success
    PROVE  mem'[s].success
<1>0. mem \in [Sources -> Row] /\ TypeOK
  BY DEF LaneInv, TypeOK
<1>1. CASE Environment
  <2>1. ASSUME NEW t \in Sources, Elapse(t)
        PROVE  mem'[s].success
    <3>1. mem = stateFile /\ mem' = [mem EXCEPT ![t].waiting = FALSE]
      BY <2>1 DEF Elapse, RecordInv
    <3>. QED
      BY <1>0, <3>1 DEF Row
  <2>2. ~LoseState
    BY DEF LoseState, Surviving
  <2>. QED
    BY <1>1, <2>1, <2>2 DEF Environment, DropArrives, runVars
<1>2. CASE Command
  <2>1. mem' = stateFile /\ phase = "idle"
    BY <1>2 DEF Command, StartDue, StartForced, StartIngest, Begin
  <2>. QED
    BY <2>1 DEF RecordInv
<1>3. CASE Control
  <2>1. EndRun => mem' = mem
    BY <1>0, NothingUnwritten DEF EndRun
  <2>2. NextWave \/ EndWave \/ StartDependents \/ NextIngest \/ EndIngested \/ EndIngest
          => mem' = mem
    BY DEF NextWave, EndWave, StartDependents, NextIngest, EndIngested, EndIngest
  <2>. QED
    BY <1>3, <2>1, <2>2 DEF Control
<1>4. ~Crash
  BY DEF Crash, Surviving
<1>5. ASSUME NEW t \in Sources, RunSource(t)
      PROVE  mem'[s].success
  <2>1. Commit(t) => mem'[s].success
    BY <1>0 DEF Commit, CommittedRow
  <2>. QED
    BY <1>5, <2>1, RunSourceQuiet
<1>6. CASE UNCHANGED vars
  BY <1>6 DEF vars, runVars
<1>. QED
  BY <1>1, <1>2, <1>3, <1>4, <1>5, <1>6 DEF Next

\* Marks come from the commit of their own source only.
LEMMA MarksFromCommit ==
    ASSUME TypeOK, [Next]_vars, NEW s \in Sources, MarkSeen(s)'
    PROVE  MarkSeen(s) \/ Commit(s)
<1>0. /\ pc \in [Sources -> Stages] /\ consumedFile \in [Sources -> SUBSET Drops]
      /\ loaded \in [Sources -> [Sources -> SUBSET Drops]]
  BY DEF TypeOK
<1>1. CASE Environment
  BY <1>1 DEF Environment, DropArrives, Elapse, LoseState, laneVars, MarkSeen
<1>2. CASE Command
  BY <1>2 DEF Command, StartDue, StartForced, StartIngest, Begin, diskVars, laneVars,
              MarkSeen
<1>3. CASE Control
  <2>1. EndWave \/ EndIngested => MarkSeen(s)
    BY DEF EndWave, EndIngested, LanesCleared, diskVars, MarkSeen
  <2>2. StartDependents \/ EndRun \/ EndIngest => MarkSeen(s)
    BY DEF StartDependents, EndRun, EndIngest, diskVars, laneVars, MarkSeen
  <2>3. NextWave => MarkSeen(s)
    BY DEF NextWave, diskVars, MarkSeen
  <2>4. NextIngest => MarkSeen(s)
    BY <1>0 DEF NextIngest, diskVars, MarkSeen
  <2>. QED
    BY <1>3, <2>1, <2>2, <2>3, <2>4 DEF Control
<1>4. CASE Crash
  BY <1>4 DEF Crash, LanesCleared, diskVars, MarkSeen
<1>5. ASSUME NEW t \in Sources, RunSource(t)
      PROVE  MarkSeen(s) \/ Commit(s)
  <2>1. CASE MarkRead(t)
    <3>1. \A u \in Sources : loaded'[u] = IF u = t THEN consumedFile ELSE loaded[u]
      BY <1>0, <2>1 DEF MarkRead
    <3>2. consumedFile' = consumedFile /\ pc[t] = "marking" /\ pc' = [pc EXCEPT ![t] = "writing"]
      BY <2>1 DEF MarkRead, diskVars
    <3>3. pc'[s] \in {"marking", "writing"} => pc[s] \in {"marking", "writing"}
      BY <1>0, <3>2
    <3>. QED
      BY <3>1, <3>2, <3>3 DEF MarkSeen
  <2>2. CASE MarkWrite(t)
    <3>1. PICK d \in todo[t] : consumedFile' = [loaded[t] EXCEPT ![t] = @ \cup {d}]
      BY <2>2 DEF MarkWrite
    <3>2. loaded' = loaded /\ pc[t] = "writing" /\ \E x \in {"done", "marking"} : pc' = [pc EXCEPT ![t] = x]
      BY <2>2 DEF MarkWrite
    <3>3. consumedFile'[s] # {} => s = t \/ loaded[t][s] # {}
      BY <1>0, <3>1
    <3>4. pc'[s] \in {"marking", "writing"} => pc[s] \in {"marking", "writing"}
      BY <1>0, <3>2
    <3>. QED
      BY <3>2, <3>3, <3>4 DEF MarkSeen
  <2>3. CASE Commit(t)
    <3>1. /\ consumedFile' = consumedFile /\ loaded' = loaded
          /\ \A u \in Sources \ {t} : pc'[u] = pc[u]
      BY <1>0, <2>3 DEF Commit, diskVars
    <3>. QED
      BY <2>3, <3>1 DEF MarkSeen
  <2>4. ASSUME ~MarkRead(t), ~MarkWrite(t), ~Commit(t)
        PROVE  MarkSeen(s)
    <3>1. consumedFile' = consumedFile /\ loaded' = loaded
      BY <1>5, <2>4 DEF RunSource, Skip, PreflightFails, Launch, ProducerSucceeds,
          ProducerRetries, ProducerFails, Reject, diskVars
    <3>2. pc' = pc \/ \E x \in {"done", "ready", "exited"} : pc' = [pc EXCEPT ![t] = x]
      BY <1>5, <2>4 DEF RunSource, Skip, PreflightFails, Launch, ProducerSucceeds,
          ProducerRetries, ProducerFails, Reject, Fail, Finish
    <3>3. pc'[s] \in {"marking", "writing"} => pc[s] \in {"marking", "writing"}
      BY <1>0, <3>2
    <3>. QED
      BY <3>1, <3>3 DEF MarkSeen
  <2>. QED
    BY <2>1, <2>2, <2>3, <2>4
<1>6. CASE UNCHANGED vars
  BY <1>6 DEF vars, diskVars, laneVars, MarkSeen
<1>. QED
  BY <1>1, <1>2, <1>3, <1>4, <1>5, <1>6 DEF Next

\* Between commands, a source with a file marked consumed has a recorded success:
\* no file is set aside for a source that never used one.  A crash between
\* mark_consumed, which writes at once, and write_state at the end of the wave
\* breaks this, and so does a lost state file.
THEOREM MarkedIsRecorded ==
    ASSUME Surviving
    PROVE  Spec => [](phase = "idle" =>
                        \A s \in Sources : consumedFile[s] # {} => stateFile[s].success)
<1>1. Init => MarksEarned
  BY DEF Init, MarksEarned, MarkSeen
<1>2. LaneInv /\ RecordInv /\ MarksEarned /\ [Next]_vars => MarksEarned'
  <2>. SUFFICES ASSUME LaneInv, RecordInv, MarksEarned, [Next]_vars,
                       NEW s \in Sources, MarkSeen(s)'
                PROVE  mem'[s].success
    BY DEF MarksEarned
  <2>1. CASE MarkSeen(s)
    BY <2>1, SuccessKept DEF MarksEarned
  <2>2. CASE Commit(s)
    <3>1. mem \in [Sources -> Row]
      BY DEF LaneInv, TypeOK
    <3>. QED
      BY <2>2, <3>1 DEF Commit, CommittedRow
  <2>3. TypeOK
    BY DEF LaneInv
  <2>. QED
    BY <2>1, <2>2, <2>3, MarksFromCommit
<1>3. MarksEarned /\ RecordInv
        => (phase = "idle" => \A s \in Sources : consumedFile[s] # {} => stateFile[s].success)
  BY DEF MarksEarned, MarkSeen, RecordInv
<1>. QED
  BY <1>1, <1>2, <1>3, RowsAgree, PTL DEF Spec
=============================================================================
