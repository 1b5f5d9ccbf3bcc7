----------------------------- MODULE TrialRunner ------------------------------
(***************************************************************************)
(* The runner of trial phases behind the HTTP API (src/api/runner.rs): at  *)
(* most one job, either a scout, which is a child process (RayDriver)      *)
(* whose output is read by two tasks, or a forward phase, a task that      *)
(* queues a batch of the best scouted configs, awaits its acknowledgement  *)
(* and lets its run trade.  Handlers start, stop and inspect jobs under    *)
(* one mutex, which start releases between its two looks at the active     *)
(* job.                                                                    *)
(*                                                                         *)
(* What becomes of the queued batch and of the request to clear its run is *)
(* in TrialQueue: here an acknowledgement comes or not.                    *)
(***************************************************************************)
EXTENDS RayDriver

CONSTANTS
  Callers,     \* HTTP requests that are handled at once
  Requests,    \* [phase, length, maxRefs, maxConfigs]
  ConfigIds,   \* ids that may have a row in the configs table
  RefsCap, ConfigsCap,       \* FORWARD_MAX_REFS_HARD_CAP, ..._CONFIGS_HARD_CAP
  MaxLogs, MaxHistory,       \* max_logs, max_history
  MaxJobs, MaxLines          \* bounds: jobs started, lines a child writes

ASSUME CapsArePositive ==
  RefsCap \in Nat \ {0} /\ ConfigsCap \in Nat \ {0} /\ MaxLogs \in Nat \ {0} /\ MaxHistory \in Nat

Jobs == 1 .. MaxJobs      \* a scout's process has the number of its job
ASSUME DriversAreJobs == MaxJobs \in Nat /\ Drivers = Jobs

NoJob == [id |-> 0, phase |-> "none", state |-> "none"]
NoRequest == [phase |-> "none", length |-> 0, maxRefs |-> 0, maxConfigs |-> 0]

VARIABLES
  (* RunnerInner, under the mutex; of stop_tx the job it would stop, or 0   *)
  active, history, logs, nextId, stopTx,
  startPc, request,     \* start(), of each caller
  task, options, stopped, signal,   \* a job's task and its stop channel
  unread, written,                  \* the pipes of a scout's process
  batch,                            \* the configs a forward job queued
  stored                            \* the configs table

innerVars == <<active, history, logs, nextId, stopTx>>
startVars == <<startPc, request>>
taskVars == <<task, options, stopped>>
childVars == <<driver, unread, written>>
storedVars == <<refs, stored>>
runnerVars == <<innerVars, startVars, taskVars, signal, childVars, batch, storedVars>>

RunnerInit ==
  /\ active = NoJob /\ history = <<>> /\ logs = <<>> /\ nextId = 1 /\ stopTx = 0
  /\ startPc = [c \in Callers |-> "idle"] /\ request = [c \in Callers |-> NoRequest]
  /\ task = [j \in Jobs |-> "none"] /\ options = [j \in Jobs |-> NoRequest]
  /\ stopped = [j \in Jobs |-> FALSE] /\ signal = [j \in Jobs |-> FALSE]
  /\ DriverInit
  /\ unread = [j \in Jobs |-> 0] /\ written = [j \in Jobs |-> 0]
  /\ batch = [j \in Jobs |-> <<>>]
  /\ stored \in SUBSET ConfigIds

-----------------------------------------------------------------------------
(* Choosing a forward phase's configs.                                     *)

Smallest(a, b) == IF a < b THEN a ELSE b
Larger(a, b) == IF a > b THEN a ELSE b
Clamped(n, cap) == IF n < 1 THEN 1 ELSE Smallest(n, cap)

(* load_scout_references: the rows, unless the file cannot be parsed.      *)
LoadReferences == IF refs.whole THEN refs.rows ELSE <<>>

ValidRow(row) == row.id # 0 /\ row.trades > 0

SelectReferenceIds(rows, max) ==
  LET valid == SortSeq(SelectSeq(rows, ValidRow), Better)
  IN  [i \in 1 .. Smallest(max, Len(valid)) |-> valid[i].id]

(* The first occurrence of each id that has a row, at most max of them.    *)
LoadConfigs(ids, max) ==
  LET fresh == {i \in DOMAIN ids : ids[i] \in stored /\ \A k \in 1 .. i - 1 : ids[k] # ids[i]}
      at == SetToSortSeq(fresh, LAMBDA i, k : i < k)
  IN  [k \in 1 .. Smallest(max, Len(at)) |-> ids[at[k]]]

(* When the database has none of the top references, all are tried.        *)
ForwardConfigs(opts) ==
  LET top == LoadConfigs(SelectReferenceIds(LoadReferences, opts.maxRefs), opts.maxConfigs)
      all == SelectReferenceIds(LoadReferences, Len(LoadReferences))
  IN  IF top = <<>> THEN LoadConfigs(all, opts.maxConfigs) ELSE top

-----------------------------------------------------------------------------
(* The mutex-protected parts.                                              *)

Running == active.state = "running"

Trimmed(s, max) == SubSeq(s, Larger(1, Len(s) - max + 1), Len(s))

(* append_log: lines of a job that is not the active one are dropped.      *)
AppendLog(j, line) ==
  logs' = IF active.id = j THEN Trimmed(Append(logs, [job |-> j, line |-> line]), MaxLogs)
          ELSE logs

(* finish_job, the last thing a job's task does.                           *)
FinishJob(j, state) ==
  /\ task' = [task EXCEPT ![j] = "ended"]
  /\ IF active.id = j
     THEN /\ active' = [active EXCEPT !.state = state] /\ stopTx' = 0
          /\ history' = Trimmed(Append(history, active'), MaxHistory)
          /\ AppendLog(j, "summary")
     ELSE UNCHANGED <<active, stopTx, history, logs>>
  /\ UNCHANGED nextId

(* build_trial_runner_command and forward_phase_options refuse a length of *)
(* zero (cycles, budget) and clamp how much a forward phase takes.         *)
ValidRequest(req) == req.length > 0
Options(req) ==
  [req EXCEPT !.maxRefs = Clamped(@, RefsCap), !.maxConfigs = Clamped(@, ConfigsCap)]

StartReturns(c) ==
  /\ startPc' = [startPc EXCEPT ![c] = "idle"]
  /\ request' = [request EXCEPT ![c] = NoRequest]

(* start's first look.                                                     *)
StartCheck(c, req) ==
  /\ startPc[c] = "idle" /\ ~Running /\ ValidRequest(req)
  /\ startPc' = [startPc EXCEPT ![c] = "validate"]
  /\ request' = [request EXCEPT ![c] = Options(req)]
  /\ UNCHANGED <<innerVars, taskVars, signal, childVars, batch, storedVars>>

(* validate_phase_prerequisites reads the references without the mutex.    *)
StartValidate(c) ==
  /\ startPc[c] = "validate"
  /\ IF request[c].phase = "forward" /\ SelectSeq(LoadReferences, ValidRow) = <<>>
     THEN StartReturns(c)
     ELSE startPc' = [startPc EXCEPT ![c] = "commit"] /\ UNCHANGED request
  /\ UNCHANGED <<innerVars, taskVars, signal, childVars, batch, storedVars>>

(* The new job: its log begins anew, and its task is spawned.              *)
Commit(c) ==
  LET j == nextId
  IN  /\ active' = [id |-> j, phase |-> request[c].phase, state |-> "running"]
      /\ nextId' = nextId + 1 /\ stopTx' = j
      /\ logs' = <<[job |-> j, line |-> "starting"]>> /\ UNCHANGED history
      /\ task' = [task EXCEPT ![j] = "begin"] /\ options' = [options EXCEPT ![j] = request[c]]
      /\ UNCHANGED stopped

(* Mutation of StartCommit: the second look at the active job is left out. *)
StartCommit_NoRecheck(c) ==
  /\ startPc[c] = "commit" /\ nextId <= MaxJobs
  /\ StartReturns(c)
  /\ Commit(c)
  /\ UNCHANGED <<signal, childVars, batch, storedVars>>

(* start's second look, and the job.                                       *)
StartCommit(c) ==
  /\ startPc[c] = "commit" /\ nextId <= MaxJobs
  /\ StartReturns(c)
  /\ IF Running THEN UNCHANGED <<innerVars, taskVars>> ELSE Commit(c)
  /\ UNCHANGED <<signal, childVars, batch, storedVars>>

(* stop takes the sender and uses it.                                      *)
Stop ==
  /\ Running /\ stopTx # 0
  /\ signal' = [signal EXCEPT ![stopTx] = TRUE] /\ stopTx' = 0
  /\ UNCHANGED <<active, history, logs, nextId, startVars, taskVars, childVars, batch, storedVars>>

-----------------------------------------------------------------------------
(* A scout: spawn_job, read_stream.                                        *)

GoesTo(j, pc) == task' = [task EXCEPT ![j] = pc]

ScoutSpawn(j) ==
  /\ task[j] = "begin" /\ options[j].phase = "scout"
  /\ \/ /\ StartDriver(j, options[j].length)
        /\ GoesTo(j, "child") /\ UNCHANGED innerVars
     \/ FinishJob(j, "failed") /\ UNCHANGED driver
  /\ UNCHANGED <<startVars, options, stopped, signal, unread, written, batch, storedVars>>

ChildWrites(j) ==
  /\ IsRunning(j) /\ written[j] < MaxLines
  /\ written' = [written EXCEPT ![j] = @ + 1] /\ unread' = [unread EXCEPT ![j] = @ + 1]
  /\ UNCHANGED <<innerVars, startVars, taskVars, signal, driver, batch, storedVars>>

ChildSteps(j) ==
  /\ DriverStep(j)
  /\ UNCHANGED <<innerVars, startVars, taskVars, signal, unread, written, batch, stored>>

(* The reader of a pipe ends at a line that is not text: that line, and    *)
(* what comes after it through the same pipe, is lost.                     *)
ReadLine(j) ==
  /\ unread[j] > 0 /\ unread' = [unread EXCEPT ![j] = @ - 1]
  /\ AppendLog(j, "line") \/ UNCHANGED logs
  /\ UNCHANGED <<active, history, nextId, stopTx, startVars, taskVars, signal, driver, written,
                 batch, storedVars>>

(* Mutation of ScoutWait: the stop is only logged, and the child awaited.  *)
ScoutWait_LogsStop(j) ==
  /\ task[j] = "child"
  /\ \/ ~IsRunning(j) /\ UNCHANGED <<stopped, logs>>
     \/ /\ signal[j] /\ stopped' = [stopped EXCEPT ![j] = TRUE]
        /\ AppendLog(j, "stop requested")
  /\ GoesTo(j, "drain")
  /\ UNCHANGED <<active, history, nextId, stopTx, startVars, options, signal, childVars, batch,
                 storedVars>>

(* select!: the child's end, or the stop, which kills it.  Whichever of    *)
(* the two is noticed first says how the job ended.                        *)
ScoutWait(j) ==
  /\ task[j] = "child"
  /\ \/ ~IsRunning(j) /\ UNCHANGED <<stopped, driver, logs>>
     \/ /\ signal[j] /\ stopped' = [stopped EXCEPT ![j] = TRUE]
        /\ Kill(j)
        /\ AppendLog(j, "stop requested")
  /\ GoesTo(j, "drain")
  /\ UNCHANGED <<active, history, nextId, stopTx, startVars, options, signal, unread, written,
                 batch, storedVars>>

(* How the child ended, or that waiting for it failed, also after a stop.  *)
Outcomes(j) ==
  {"failed"} \cup (IF stopped[j] THEN {"stopped"} ELSE IF driver[j].pc = "ok" THEN {"success"} ELSE {})

(* Mutation of ScoutDrain: the readers are not awaited.                    *)
ScoutDrain_NoAwait(j) ==
  /\ task[j] = "drain" /\ ~IsRunning(j)
  /\ \E state \in Outcomes(j) : FinishJob(j, state)
  /\ UNCHANGED <<startVars, options, stopped, signal, childVars, batch, storedVars>>

(* The child is over, and the reader tasks, which end with its pipes, are  *)
(* awaited.                                                                *)
ScoutDrain(j) ==
  /\ task[j] = "drain" /\ ~IsRunning(j) /\ unread[j] = 0
  /\ \E state \in Outcomes(j) : FinishJob(j, state)
  /\ UNCHANGED <<startVars, options, stopped, signal, childVars, batch, storedVars>>

Scout(j) == ScoutSpawn(j) \/ ReadLine(j) \/ ScoutWait(j) \/ ScoutDrain(j)

-----------------------------------------------------------------------------
(* A forward phase: spawn_forward_job.                                     *)

(* The references and configs are read and the batch queued, unless there  *)
(* is none or the file cannot be written.                                  *)
ForwardQueue(j) ==
  /\ task[j] = "begin" /\ options[j].phase = "forward"
  /\ \/ /\ ForwardConfigs(options[j]) # <<>>
        /\ batch' = [batch EXCEPT ![j] = ForwardConfigs(options[j])]
        /\ GoesTo(j, "ack") /\ UNCHANGED innerVars
     \/ FinishJob(j, "failed") /\ UNCHANGED batch
  /\ UNCHANGED <<startVars, options, stopped, signal, childVars, storedVars>>

(* An acknowledgement: of a batch that was applied or not; or none in time.*)
ForwardAck(j) ==
  /\ task[j] = "ack"
  /\ \/ GoesTo(j, "run") /\ UNCHANGED innerVars
     \/ FinishJob(j, "failed")
  /\ UNCHANGED <<startVars, options, stopped, signal, childVars, batch, storedVars>>

(* The budget is over: the run is cleared, or the request for it fails.    *)
ForwardEnds(j) ==
  /\ task[j] = "run"
  /\ \E state \in {"success", "failed"} : FinishJob(j, state)
  /\ UNCHANGED <<startVars, options, stopped, signal, childVars, batch, storedVars>>

(* Asked to stop in either loop; what was sent before them waits there.    *)
ForwardStops(j) ==
  /\ task[j] \in {"ack", "run"} /\ signal[j]
  /\ FinishJob(j, "stopped")
  /\ UNCHANGED <<startVars, options, stopped, signal, childVars, batch, storedVars>>

-----------------------------------------------------------------------------
RunnerNext ==
  \/ \E c \in Callers :
       (\E req \in Requests : StartCheck(c, req)) \/ StartValidate(c) \/ StartCommit(c)
  \/ Stop
  \/ \E j \in Jobs :
       \/ Scout(j) \/ ChildWrites(j) \/ ChildSteps(j)
       \/ ForwardQueue(j) \/ ForwardAck(j) \/ ForwardEnds(j) \/ ForwardStops(j)

(* Tokio runs a task that is ready.  A child need not end by itself; the   *)
(* loops of a forward phase poll their channel before their clock.         *)
Fairness ==
  \A j \in Jobs :
    /\ WF_runnerVars(Scout(j)) /\ WF_runnerVars(ForwardQueue(j))
    /\ WF_runnerVars(ForwardStops(j))

RunnerSpec == RunnerInit /\ [][RunnerNext]_runnerVars /\ Fairness

-----------------------------------------------------------------------------
(* Properties.                                                             *)

JobStates == {"running", "success", "failed", "stopped"}

(* Every variable has its type; logs and history keep within their limits. *)
RunnerTypeOK ==
  /\ active = NoJob \/ (active.id \in Jobs /\ active.state \in JobStates)
  /\ nextId \in 1 .. MaxJobs + 1 /\ stopTx \in 0 .. MaxJobs
  /\ Len(logs) <= MaxLogs /\ Len(history) <= MaxHistory
  /\ startPc \in [Callers -> {"idle", "validate", "commit"}]
  /\ task \in [Jobs -> {"none", "begin", "child", "drain", "ack", "run", "ended"}]
  /\ DriverTypeOK /\ stored \subseteq ConfigIds

Alive(j) == task[j] \notin {"none", "ended"}

(* "runner job already active": whatever requests race, there is one job   *)
(* at a time, with its task and its child process, and the active job is   *)
(* running exactly while there is one.                                     *)
OneJobAtATime ==
  /\ \A i, j \in Jobs : Alive(i) /\ Alive(j) => i = j
  /\ \A j \in Jobs : Alive(j) <=> active.id = j /\ Running
  /\ \A j \in Jobs : IsRunning(j) => Alive(j)

(* The log the status shows of a job that is over is its own and complete: *)
(* nothing its child wrote is still to come after the summary.             *)
FinishedLogIsComplete ==
  active # NoJob /\ ~Running =>
    /\ Last(logs) = [job |-> active.id, line |-> "summary"]
    /\ \A i \in DOMAIN logs : logs[i].job = active.id
    /\ \A j \in Jobs : unread[j] = 0

(* A job that was asked to stop ends, also one whose child would not, and  *)
(* one that was asked before it came to listen.                            *)
StopEndsTheJob ==
  \A j \in Jobs : (Running /\ active.id = j /\ stopTx = 0) ~> ~Alive(j)
=============================================================================
