-------------------------- MODULE UpdateController --------------------------
(***************************************************************************)
(* The source update controller (moneysweep/update_controller): one         *)
(* controller process at a time loads the state file, plans the due         *)
(* sources, runs them in dependency waves of concurrent lanes, gates each    *)
(* producer's output, records what passed, and writes the state file after  *)
(* every wave; operators drop files, producers overwrite their outputs in   *)
(* place, time passes and processes die meanwhile.                          *)
(*                                                                         *)
(* A source's row keeps the fields a decision of the controller depends on;  *)
(* the others (last_status, last_exit_code, consecutive_failures, the        *)
(* timestamps of the freshness report) are written and never read back.  A   *)
(* timestamp is kept as what it is used for:                                *)
(*   success       last_success_at is set                                   *)
(*   hash          output_manifest_hash                                     *)
(*   waiting       next_due_at lies in the future                           *)
(*   versions      dependency_versions_consumed                             *)
(***************************************************************************)
EXTENDS OutputGate, FiniteSets

CONSTANTS
    Sources,          \* the canonical sources
    Trigger,          \* trigger_type of each source
    DependsOn,        \* the blocking parents of each source
    Host,             \* upstream hostname of a source's endpoint, or None
    Rank,             \* order_index: a topological ranking without ties
    NoSecret,         \* sources whose required secret is not set
    Drops,            \* the files operators may drop, by their SHA-256
    Selections,       \* the sets --cadence and --trigger can select
    MaxRetries,       \* max_retries of a policy
    Workers,          \* --workers
    ContinueOnError,  \* --continue-on-error
    NoDependents,     \* --no-dependents
    Faults            \* which of AllFaults the environment may show

AllFaults == {"retryable",    \* a producer exits with a rate limit or network error
              "error",        \* it exits otherwise, times out or cannot start
              "preflight",    \* its strict preflight fails
              "partial",      \* a failing producer may already have written
              "shadow",       \* a producer may leave a .tmp file beside its output
              "late_drop",    \* files may be dropped while a run is in progress
              "crash",        \* the controller may die, or a lane raise
              "lose_state"}   \* the state file may be lost or corrupt

DropTriggers == {"file_drop", "on_drop"}
Triggers == DropTriggers \cup {"schedule", "dependency", "manual", "disabled"}

ASSUME ControllerAssumption ==
    /\ Trigger \in [Sources -> Triggers]
    /\ DependsOn \in [Sources -> SUBSET Sources]
    /\ Rank \in [Sources -> Nat]
    /\ \A s, t \in Sources : Rank[s] = Rank[t] => s = t
    /\ \A s \in Sources : \A p \in DependsOn[s] : Rank[p] < Rank[s]
    /\ NoSecret \subseteq Sources
    /\ Selections \subseteq SUBSET Sources
    /\ MaxRetries \in Nat /\ Workers \in Nat \ {0}
    /\ ContinueOnError \in BOOLEAN /\ NoDependents \in BOOLEAN
    /\ Faults \subseteq AllFaults

VARIABLES
    drops,         \* environment: the dropped files each source watches
    output,        \* disk: the content of each source's declared outputs
    consumedFile,  \* disk: source_update_consumed.local.json
    stateFile,     \* disk: source_update_state.json
    mem,           \* process: the state rows loaded, shared by all lanes
    phase,         \* process: what the controller is executing
    pending,       \* process: planned sources of waves still to come
    wave,          \* process: the sources of the current wave
    changed,       \* process: changed_parents
    ran,           \* process: sources with a result in this invocation
    packets,       \* disk: sources with a failure packet of this invocation
    batchFailed,   \* process: batch_failed of this execute_selected
    failed,        \* process: failed, the exit code once idle
    pc,            \* lane: how far run_source is with each source of the wave
    result,        \* lane: the status run_source returned
    attempt,       \* lane: attempt
    before,        \* lane: the output snapshot taken before the run
    reads,         \* lane: the parents' outputs the producer has read
    todo,          \* lane: the new candidates still to be marked consumed
    loaded         \* lane: the consumed manifest mark_consumed has read

diskVars == <<drops, output, consumedFile, stateFile>>
runVars  == <<mem, phase, pending, wave, changed, ran, packets, batchFailed, failed>>
laneVars == <<pc, result, attempt, before, reads, todo, loaded>>
vars     == <<diskVars, runVars, laneVars>>

-----------------------------------------------------------------------------
IsDrop(s) == Trigger[s] \in DropTriggers
DropSources == {s \in Sources : IsDrop(s)}

NotRun == "none"
NonRunStatuses == {"PLANNED", "NOT_DUE", "DISABLED", "MANUAL_INPUT_MISSING",
                   "DEPENDENCY_NOT_READY", "MISSING_SECRET"}
FailureStatuses == {"RATE_LIMITED", "PRODUCER_IMPORT_FAILED",
                    "PRODUCER_EXECUTION_FAILED", "OUTPUT_MISSING",
                    "OUTPUT_REGRESSION", "SCHEMA_FAILED", "EMPTY_SUSPICIOUS"}
Statuses == SuccessStatuses \cup NonRunStatuses \cup FailureStatuses

Phases == {"idle", "main", "deps", "ingest"}
Stages == {"out", "queued", "ready", "exited", "marking", "writing", "done"}
ActiveStages == {"ready", "exited", "marking", "writing"}

Row == [success : BOOLEAN, waiting : BOOLEAN, hash : MaybeContent,
        versions : [Sources -> MaybeContent]]

NewRow == [success |-> FALSE, waiting |-> FALSE, hash |-> None,
           versions |-> [p \in Sources |-> None]]

\* is_run_failure
IsRunFailure(status) == status \notin SuccessStatuses \cup NonRunStatuses

\* scan_source: the files whose digest is not in the consumed manifest.
NewDrops(s) == IF IsDrop(s) THEN drops[s] \ consumedFile[s] ELSE {}

-----------------------------------------------------------------------------
(* Slips that the properties below must catch: each is a variant of the     *)
(* definition it is named for.                                              *)

SlipParentChanged(s, rows) ==   \* a child that never ran is not due
    \E p \in DependsOn[s] :
        rows[s].versions[p] # None /\ rows[s].versions[p] # rows[p].hash

SlipReady(plan) == plan         \* one wave, dependencies ignored

SlipLaneKey(s) ==               \* drop sources no longer share a lane
    IF Host[s] # None THEN <<"host", Host[s]>> ELSE <<"local", s>>

-----------------------------------------------------------------------------
(* Planning: evaluate_due, build_plan, topological_waves, the lanes.        *)

ParentsSucceeded(s, rows) == \A p \in DependsOn[s] : rows[p].success
ParentChanged(s, rows) ==
    \E p \in DependsOn[s] :
        rows[p].hash # None /\ rows[s].versions[p] # rows[p].hash

Due(s, rows) ==
    \/ Trigger[s] = "schedule" /\ ~rows[s].waiting
    \/ IsDrop(s) /\ NewDrops(s) # {}
    \/ Trigger[s] = "dependency" /\ DependsOn[s] = {}
    \/ Trigger[s] = "dependency" /\ ParentsSucceeded(s, rows) /\ ParentChanged(s, rows)

DuePlan(sel, rows) == {s \in sel : Due(s, rows)}

\* The next wave: no dependency of a member is still in the plan.
Ready(plan) == {s \in plan : DependsOn[s] \cap plan = {}}

\* execution_lane_key
LaneKey(s) == IF IsDrop(s) THEN <<"file-drop", None>>
              ELSE IF Host[s] # None THEN <<"host", Host[s]>> ELSE <<"local", s>>

\* A lane runs its sources one after the other and stops at the first failure.
Earlier(s) == {t \in wave : LaneKey(t) = LaneKey(s) /\ Rank[t] < Rank[s]}
LaneBroken(s) ==
    /\ ~ContinueOnError
    /\ \E t \in Earlier(s) : pc[t] = "done" /\ IsRunFailure(result[t])
SlipLaneFinished(l) ==          \* waits for the rest of a broken lane
    \A s \in wave : LaneKey(s) = l => pc[s] = "done"

LaneFinished(l) ==
    \A s \in wave : LaneKey(s) = l => pc[s] = "done" \/ LaneBroken(s)
LaneStarted(l) == \E s \in wave : LaneKey(s) = l /\ pc[s] # "queued"
BusyLanes == {l \in {LaneKey(s) : s \in wave} : LaneStarted(l) /\ ~LaneFinished(l)}

SlipStartable(s) ==             \* the sources of a lane start together
    /\ s \in wave /\ pc[s] = "queued"
    /\ ~LaneBroken(s)
    /\ LaneKey(s) \in BusyLanes \/ Cardinality(BusyLanes) < Workers

Startable(s) ==
    /\ s \in wave /\ pc[s] = "queued"
    /\ \A t \in Earlier(s) : pc[t] = "done"
    /\ ~LaneBroken(s)
    /\ LaneKey(s) \in BusyLanes \/ Cardinality(BusyLanes) < Workers

-----------------------------------------------------------------------------
(* The environment.                                                         *)

\* An operator drops a file into a watch path of s.
DropArrives(s, d) ==
    /\ phase = "idle" \/ "late_drop" \in Faults
    /\ IsDrop(s) /\ d \notin drops[s]
    /\ drops' = [drops EXCEPT ![s] = @ \cup {d}]
    /\ UNCHANGED <<output, consumedFile, stateFile, runVars, laneVars>>

\* Time passes next_due_at.  A run is shorter than the shortest cadence, one
\* week, so this happens between runs.
Elapse(s) ==
    /\ phase = "idle" /\ stateFile[s].waiting
    /\ stateFile' = [stateFile EXCEPT ![s].waiting = FALSE]
    /\ mem' = stateFile'
    /\ UNCHANGED <<drops, output, consumedFile, phase, pending, wave, changed, ran,
                   packets, batchFailed, failed, laneVars>>

\* load_state on a lost or corrupt file: every source starts over.
LoseState ==
    /\ "lose_state" \in Faults /\ phase = "idle"
    /\ stateFile' = [s \in Sources |-> NewRow]
    /\ mem' = stateFile'
    /\ UNCHANGED <<drops, output, consumedFile, phase, pending, wave, changed, ran,
                   packets, batchFailed, failed, laneVars>>

-----------------------------------------------------------------------------
(* cmd_run: loading, planning, the waves of execute_selected, and the       *)
(* second pass over the dependents.                                         *)

LanesCleared ==
    /\ pc' = [s \in Sources |-> "out"]
    /\ result' = [s \in Sources |-> NotRun]
    /\ attempt' = [s \in Sources |-> 0]
    /\ before' = [s \in Sources |-> None]
    /\ reads' = [s \in Sources |-> [p \in Sources |-> None]]
    /\ todo' = [s \in Sources |-> {}]
    /\ loaded' = [s \in Sources |-> [t \in Sources |-> {}]]

Begin(mode, plan) ==
    /\ phase = "idle"
    /\ phase' = mode /\ pending' = plan /\ mem' = stateFile
    /\ wave' = {} /\ changed' = {} /\ ran' = {} /\ packets' = {}
    /\ batchFailed' = FALSE /\ failed' = FALSE
    /\ UNCHANGED <<diskVars, laneVars>>

\* run, or run --cadence / --trigger: the due sources of the selection.
StartDue(sel) == Begin("main", DuePlan(sel, stateFile))

\* run --source s, resume, or run --trigger manual: due or not.
StartForced(sel) == Begin("main", sel)

NextWave ==
    /\ phase \in {"main", "deps"} /\ wave = {} /\ Ready(pending) # {}
    /\ wave' = Ready(pending)
    /\ pending' = pending \ Ready(pending)
    /\ pc' = [s \in Sources |-> IF s \in Ready(pending) THEN "queued" ELSE "out"]
    /\ UNCHANGED <<diskVars, mem, phase, changed, ran, packets, batchFailed, failed,
                   result, attempt, before, reads, todo, loaded>>

Completed == {s \in wave : pc[s] = "done"}
WaveFailed == \E s \in Completed : IsRunFailure(result[s])

\* Every lane has returned: collect the results, write the state file, and
\* give up the remaining waves after a failure.
EndWave ==
    /\ phase \in {"main", "deps"} /\ wave # {}
    /\ \A s \in wave : LaneFinished(LaneKey(s))
    /\ changed' = changed \cup {s \in Completed : result[s] = "SUCCESS_WITH_CHANGE"}
    /\ ran' = ran \cup Completed
    /\ batchFailed' = (batchFailed \/ WaveFailed)
    /\ stateFile' = mem
    /\ wave' = {}
    /\ pending' = IF batchFailed' /\ ~ContinueOnError THEN {} ELSE pending
    /\ LanesCleared
    /\ UNCHANGED <<drops, output, consumedFile, mem, phase, packets, failed>>

Dependents == {s \in Sources : Trigger[s] = "dependency"}
Scheduled == {s \in Sources : Trigger[s] = "schedule"}

\* The waves of the plan are over: plan the dependents of what changed.
StartDependents ==
    /\ phase = "main" /\ wave = {} /\ pending = {}
    /\ ~NoDependents /\ changed # {}
    /\ phase' = "deps"
    /\ pending' = DuePlan(Dependents, mem) \ ran
    /\ failed' = batchFailed /\ batchFailed' = FALSE
    /\ UNCHANGED <<diskVars, mem, wave, changed, ran, packets, laneVars>>

SlipEndRun ==                   \* the dependents' outcome replaces the batch's
    /\ \/ phase = "main" /\ (NoDependents \/ changed = {})
       \/ phase = "deps"
    /\ wave = {} /\ pending = {}
    /\ phase' = "idle"
    /\ failed' = batchFailed
    /\ mem' = stateFile
    /\ changed' = {} /\ ran' = {} /\ packets' = {} /\ batchFailed' = FALSE
    /\ UNCHANGED <<diskVars, pending, wave, laneVars>>

EndRun ==
    /\ \/ phase = "main" /\ (NoDependents \/ changed = {})
       \/ phase = "deps"
    /\ wave = {} /\ pending = {}
    /\ phase' = "idle"
    /\ failed' = (batchFailed \/ failed)
    /\ mem' = stateFile
    /\ changed' = {} /\ ran' = {} /\ packets' = {} /\ batchFailed' = FALSE
    /\ UNCHANGED <<diskVars, pending, wave, laneVars>>

\* The process is killed, or an exception leaves run_source and aborts the
\* run: nothing after the last write_state survives but what is on disk.
Crash ==
    /\ "crash" \in Faults /\ phase # "idle"
    /\ phase' = "idle" /\ failed' = TRUE
    /\ mem' = stateFile
    /\ pending' = {} /\ wave' = {} /\ changed' = {} /\ ran' = {} /\ packets' = {}
    /\ batchFailed' = FALSE
    /\ LanesCleared
    /\ UNCHANGED diskVars

-----------------------------------------------------------------------------
(* cmd_ingest_drops: the drop sources one at a time, one write at the end.  *)

StartIngest == Begin("ingest", DropSources)

\* In the order of their ids, which for sources without dependencies is the
\* order of Rank.
NextIngest ==
    /\ phase = "ingest" /\ wave = {}
    /\ \E s \in pending :
        /\ \A t \in pending : Rank[s] <= Rank[t]
        /\ pending' = pending \ {s}
        /\ wave' = IF NewDrops(s) # {} THEN {s} ELSE {}
        /\ pc' = [pc EXCEPT ![s] = IF NewDrops(s) # {} THEN "queued" ELSE "out"]
    /\ UNCHANGED <<diskVars, mem, phase, changed, ran, packets, batchFailed, failed,
                   result, attempt, before, reads, todo, loaded>>

EndIngested ==
    /\ phase = "ingest" /\ wave # {} /\ wave = Completed
    /\ failed' = \/ failed
                 \/ \E s \in wave : result[s] \in {"PRODUCER_EXECUTION_FAILED",
                                                  "PRODUCER_IMPORT_FAILED"}
    /\ ran' = ran \cup wave
    /\ wave' = {}
    /\ LanesCleared
    /\ UNCHANGED <<diskVars, mem, phase, pending, changed, packets, batchFailed>>

EndIngest ==
    /\ phase = "ingest" /\ wave = {} /\ pending = {}
    /\ stateFile' = mem
    /\ phase' = "idle" /\ ran' = {} /\ packets' = {}
    /\ UNCHANGED <<drops, output, consumedFile, mem, pending, wave, changed,
                   batchFailed, failed, laneVars>>

-----------------------------------------------------------------------------
(* run_source, step by step in the lane's thread.                           *)

Finish(s, status) ==
    /\ pc' = [pc EXCEPT ![s] = "done"]
    /\ result' = [result EXCEPT ![s] = status]

\* A run that reported its failure: append_failure, then finish.
Fail(s, status) ==
    /\ packets' = packets \cup {s}
    /\ Finish(s, status)

\* The gates that never execute anything.
SkipStatus(s) ==
    IF Trigger[s] = "disabled" THEN "DISABLED"
    ELSE IF s \in NoSecret THEN "MISSING_SECRET"
    ELSE IF IsDrop(s) /\ NewDrops(s) = {} THEN "MANUAL_INPUT_MISSING"
    ELSE NotRun

Skip(s) ==
    /\ Startable(s) /\ SkipStatus(s) # NotRun
    /\ Finish(s, SkipStatus(s))
    /\ UNCHANGED <<diskVars, runVars, attempt, before, reads, todo, loaded>>

PreflightFails(s) ==
    /\ "preflight" \in Faults
    /\ Startable(s) /\ SkipStatus(s) = NotRun
    /\ Fail(s, "PRODUCER_IMPORT_FAILED")
    /\ UNCHANGED <<diskVars, mem, phase, pending, wave, changed, ran, batchFailed, failed,
                   attempt, before, reads, todo, loaded>>

\* snapshot_outputs(before), then the first attempt.
Launch(s) ==
    /\ Startable(s) /\ SkipStatus(s) = NotRun
    /\ pc' = [pc EXCEPT ![s] = "ready"]
    /\ before' = [before EXCEPT ![s] = output[s]]
    /\ attempt' = [attempt EXCEPT ![s] = 1]
    /\ UNCHANGED <<diskVars, runVars, result, reads, todo, loaded>>

\* The producer reads its parents' outputs and its watch paths, overwrites
\* its own output in place (or leaves it alone), and exits 0.
ProducerSucceeds(s, c) ==
    /\ pc[s] = "ready" /\ c \in Content \cup {output[s]}
    /\ reads' = [reads EXCEPT ![s] =
                    [p \in Sources |-> IF p \in DependsOn[s] THEN output[p] ELSE None]]
    /\ output' = [output EXCEPT ![s] = c]
    /\ pc' = [pc EXCEPT ![s] = "exited"]
    /\ UNCHANGED <<drops, consumedFile, stateFile, runVars, result, attempt, before,
                   todo, loaded>>

\* What an attempt that fails may leave of the output.
Leaves(s) == IF "partial" \in Faults THEN Content \cup {output[s]} ELSE {output[s]}

SlipProducerRetries(s, c) ==    \* one attempt too many
    /\ "retryable" \in Faults
    /\ pc[s] = "ready" /\ c \in Leaves(s)
    /\ output' = [output EXCEPT ![s] = c]
    /\ IF attempt[s] <= MaxRetries + 1
       THEN /\ attempt' = [attempt EXCEPT ![s] = @ + 1]
            /\ UNCHANGED <<pc, result, packets>>
       ELSE /\ Fail(s, "RATE_LIMITED")
            /\ UNCHANGED attempt
    /\ UNCHANGED <<drops, consumedFile, stateFile, mem, phase, pending, wave, changed,
                   ran, batchFailed, failed, before, reads, todo, loaded>>

\* RATE_LIMITED (and SOURCE_UNAVAILABLE, treated alike): try again while the
\* retry budget lasts.
ProducerRetries(s, c) ==
    /\ "retryable" \in Faults
    /\ pc[s] = "ready" /\ c \in Leaves(s)
    /\ output' = [output EXCEPT ![s] = c]
    /\ IF attempt[s] <= MaxRetries
       THEN /\ attempt' = [attempt EXCEPT ![s] = @ + 1]
            /\ UNCHANGED <<pc, result, packets>>
       ELSE /\ Fail(s, "RATE_LIMITED")
            /\ UNCHANGED attempt
    /\ UNCHANGED <<drops, consumedFile, stateFile, mem, phase, pending, wave, changed,
                   ran, batchFailed, failed, before, reads, todo, loaded>>

\* Any other exit code, a timeout, or an exception of subprocess.run.
ProducerFails(s, c) ==
    /\ "error" \in Faults
    /\ pc[s] = "ready" /\ c \in Leaves(s)
    /\ output' = [output EXCEPT ![s] = c]
    /\ Fail(s, "PRODUCER_EXECUTION_FAILED")
    /\ UNCHANGED <<drops, consumedFile, stateFile, mem, phase, pending, wave, changed,
                   ran, batchFailed, failed, attempt, before, reads, todo, loaded>>

Status(s) == GateStatus(before[s], output[s])

\* The output gate, or verify_atomic, refuses what a zero exit has produced.
Reject(s) ==
    /\ pc[s] = "exited"
    /\ ~GatePasses(Status(s)) \/ "shadow" \in Faults
    /\ Fail(s, Status(s))
    /\ UNCHANGED <<diskVars, mem, phase, pending, wave, changed, ran, batchFailed, failed,
                   attempt, before, reads, todo, loaded>>

\* dependency_versions_consumed, read from the state rows the lanes share.
ConsumedVersions(s) ==
    [p \in Sources |-> IF /\ Trigger[s] = "dependency"
                          /\ p \in DependsOn[s] /\ mem[p].hash # None
                       THEN mem[p].hash ELSE mem[s].versions[p]]

CommittedRow(s) ==
    [success  |-> TRUE,
     waiting  |-> mem[s].waiting \/ Trigger[s] = "schedule",
     hash     |-> output[s],
     versions |-> ConsumedVersions(s)]

\* The gates pass: commit the row, then rescan the watch paths of a drop
\* source; any other source is finished.
Commit(s) ==
    /\ pc[s] = "exited" /\ GatePasses(Status(s))
    /\ mem' = [mem EXCEPT ![s] = CommittedRow(s)]
    /\ todo' = [todo EXCEPT ![s] = NewDrops(s)]
    /\ result' = [result EXCEPT ![s] = Status(s)]
    /\ pc' = [pc EXCEPT ![s] = IF NewDrops(s) = {} THEN "done" ELSE "marking"]
    /\ UNCHANGED <<diskVars, phase, pending, wave, changed, ran, packets, batchFailed,
                   failed, attempt, before, reads, loaded>>

\* mark_consumed reads the manifest ...
MarkRead(s) ==
    /\ pc[s] = "marking"
    /\ loaded' = [loaded EXCEPT ![s] = consumedFile]
    /\ pc' = [pc EXCEPT ![s] = "writing"]
    /\ UNCHANGED <<diskVars, runVars, result, attempt, before, reads, todo>>

\* ... and replaces it with what it read and one candidate more.
MarkWrite(s) ==
    /\ pc[s] = "writing"
    /\ \E d \in todo[s] :
        /\ consumedFile' = [loaded[s] EXCEPT ![s] = @ \cup {d}]
        /\ todo' = [todo EXCEPT ![s] = @ \ {d}]
        /\ pc' = [pc EXCEPT ![s] = IF todo[s] = {d} THEN "done" ELSE "marking"]
    /\ UNCHANGED <<drops, output, stateFile, runVars, result, attempt, before, reads,
                   loaded>>

-----------------------------------------------------------------------------
Init ==
    /\ drops = [s \in Sources |-> {}]
    /\ output = [s \in Sources |-> None]
    /\ consumedFile = [s \in Sources |-> {}]
    /\ stateFile = [s \in Sources |-> NewRow]
    /\ mem = stateFile
    /\ phase = "idle"
    /\ pending = {} /\ wave = {} /\ changed = {} /\ ran = {} /\ packets = {}
    /\ batchFailed = FALSE /\ failed = FALSE
    /\ pc = [s \in Sources |-> "out"]
    /\ result = [s \in Sources |-> NotRun]
    /\ attempt = [s \in Sources |-> 0]
    /\ before = [s \in Sources |-> None]
    /\ reads = [s \in Sources |-> [p \in Sources |-> None]]
    /\ todo = [s \in Sources |-> {}]
    /\ loaded = [s \in Sources |-> [t \in Sources |-> {}]]

Environment ==
    \/ \E s \in Sources, d \in Drops : DropArrives(s, d)
    \/ \E s \in Sources : Elapse(s)
    \/ LoseState

Command ==
    \/ \E sel \in Selections : StartDue(sel)
    \/ \E s \in Sources : StartForced({s})
    \/ StartForced({s \in Sources : Trigger[s] = "manual"})
    \/ StartIngest

Control ==
    \/ NextWave \/ EndWave \/ StartDependents \/ EndRun
    \/ NextIngest \/ EndIngested \/ EndIngest

RunSource(s) ==
    \/ Skip(s) \/ PreflightFails(s) \/ Launch(s)
    \/ \E c \in MaybeContent : ProducerSucceeds(s, c)
    \/ \E c \in MaybeContent : ProducerRetries(s, c)
    \/ \E c \in MaybeContent : ProducerFails(s, c)
    \/ Reject(s) \/ Commit(s) \/ MarkRead(s) \/ MarkWrite(s)

Next ==
    \/ Environment
    \/ Command
    \/ Control
    \/ Crash
    \/ \E s \in Sources : RunSource(s)

Spec == Init /\ [][Next]_vars

\* The controller and its lanes are a program that keeps running until it ends or
\* dies.  Nothing else is fair: not commands, operators, time, or a producer's
\* success.
Fairness == WF_vars(Control) /\ \A s \in Sources : WF_vars(RunSource(s))

FairSpec == Spec /\ Fairness

-----------------------------------------------------------------------------
(* Properties.                                                              *)

TypeOK ==
    /\ drops \in [Sources -> SUBSET Drops]
    /\ output \in [Sources -> MaybeContent]
    /\ consumedFile \in [Sources -> SUBSET Drops]
    /\ stateFile \in [Sources -> Row] /\ mem \in [Sources -> Row]
    /\ phase \in Phases
    /\ pending \in SUBSET Sources /\ wave \in SUBSET Sources
    /\ changed \in SUBSET Sources /\ ran \in SUBSET Sources
    /\ packets \in SUBSET Sources
    /\ batchFailed \in BOOLEAN /\ failed \in BOOLEAN
    /\ pc \in [Sources -> Stages]
    /\ result \in [Sources -> Statuses \cup {NotRun}]
    /\ attempt \in [Sources -> 0..(MaxRetries + 1)]
    /\ before \in [Sources -> MaybeContent]
    /\ reads \in [Sources -> [Sources -> MaybeContent]]
    /\ todo \in [Sources -> SUBSET Drops]
    /\ loaded \in [Sources -> [Sources -> SUBSET Drops]]

\* A producer never runs while a source it reads from is running, and in a
\* run never before a source it reads from that the same plan still holds.
DependencySafe ==
    \A s \in Sources : pc[s] \in ActiveStages =>
        \A p \in DependsOn[s] :
            /\ pc[p] \notin ActiveStages
            /\ phase \in {"main", "deps"} => p \notin pending

\* Sources that share a lane (an upstream host, or the drop intake) never run
\* at the same time, whatever the number of workers.
LaneExclusive ==
    \A s, t \in Sources :
        /\ pc[s] \in ActiveStages /\ pc[t] \in ActiveStages
        /\ LaneKey(s) = LaneKey(t)
        => s = t

\* No step un-consumes a file: mark_consumed's read-modify-write of the one
\* manifest never overwrites what another source has recorded.
NoLostMark ==
    [][\A s \in Sources : consumedFile[s] \subseteq consumedFile'[s]]_vars

\* A run that appended a failure packet exits non-zero, also when the failure
\* is that of an automatically triggered dependent.
FailureSurfaces ==
    [][(phase \in {"main", "deps"} /\ phase' = "idle" /\ packets # {})
         => (failed' = TRUE)]_vars

\* The version of a parent that a derived source records as consumed is the
\* one its producer has read.
ConsumedWasRead ==
    [][\A s \in Dependents :
         pc[s] = "exited" /\ mem'[s] # mem[s] =>
            \A p \in DependsOn[s] : mem'[s].versions[p] = reads[s][p]]_vars

\* The state file goes from one record of the sources to the next: a wave is in
\* it as a whole or not at all, and a derived source with the versions of its
\* parents that the file held before.
Records == INSTANCE SourceRecords WITH
    rows <- stateFile, Parents <- DependsOn, Derived <- Dependents
RecordsInWaves == Records!Spec

\* The row-regression gate: an output that has lost more rows than the tolerance
\* allows never replaces the recorded one.
RegressionsAreCaught ==
    [][\A s \in Sources :
         mem[s].hash # None /\ mem'[s].hash # None
            => ~Regressed(mem[s].hash, mem'[s].hash)]_vars

\* Every invocation comes to its end.
RunsEnd == phase # "idle" ~> phase = "idle"

\* A derived source that has not consumed the version recorded for one of its
\* parents, although all of them have succeeded.
Behind(s) ==
    /\ \A p \in DependsOn[s] : stateFile[p].success
    /\ \E p \in DependsOn[s] : stateFile[s].versions[p] # stateFile[p].hash

\* The second pass plans whatever is due, not only the children of what has just
\* changed.  A run that got there and failed nowhere leaves no derived source
\* behind, also none that earlier runs left behind when it failed, except below a
\* source that was refreshed in that pass itself, which goes one level deep.
RunCatchesUp ==
    [][phase = "deps" /\ phase' = "idle" /\ ~failed' =>
         \A s \in Dependents \ NoSecret :
            Behind(s)' => DependsOn[s] \cap Dependents \cap ran # {}]_vars
=============================================================================
