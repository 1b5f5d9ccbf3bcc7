------------------------------ MODULE TrialQueue ------------------------------
(***************************************************************************)
(* Trial batches by files (src/trial_queue_io.rs, runtime_hot_reload.rs):  *)
(* a client, the forward job of the runner (src/api/runner.rs) or the      *)
(* driver process (ray_driver/ipc.py), queues a batch, waits for its       *)
(* acknowledgement, lets its run trade and asks for the run to be cleared  *)
(* through the one control file.  The batch loop decides the oldest batch, *)
(* acknowledges it and archives it; the control loop clears the run.  The  *)
(* process may crash between any two steps; the files outlive it.          *)
(*                                                                         *)
(* A submission is its rank by the timestamp in its id, and names its run: *)
(* every client generates a new run id with a submission.  The steps of    *)
(* one apply_trial_batch are in TrialRuntime, as are batches by the single *)
(* command file.  Reads of a file that is being written parse as no answer *)
(* and are repeated, so a write is one step.                               *)
(***************************************************************************)
EXTENDS Naturals, FiniteSets

CONSTANTS
  MaxSubs,     \* bound: submissions
  Takeover,    \* those with allow_run_id_takeover: scouts of the driver
  Immovable,   \* bound: payloads whose rename, stash and marker may all fail
  MaxCrashes   \* bound: crashes of the process

Subs == 1 .. MaxSubs

ASSUME BoundAssumption == MaxSubs \in Nat /\ MaxCrashes \in Nat
ASSUME SubsAssumption == Takeover \subseteq Subs /\ Immovable \subseteq Subs

None == 0
Clients == {"runner", "driver"}

VARIABLES
  (* the files *)
  place,       \* of a payload: none, queue, moved (archived or stashed),
               \* marked: in the queue with a quarantine marker
  acks,        \* trial-acks: none, ok, error; taken: read and removed
  control,     \* trial-control.json: its run, and whether the file changed
               \* since the control loop took its fingerprint
  controlTmp,  \* the temporary file every client renames to it
  (* the process *)
  runId,       \* current_run_id
  batchPc, cur, outcome, stale,
  ctlPc,
  (* the clients *)
  clientPc, sub,
  (* histories *)
  decision, stuck, old, excused, crashes

fileVars    == <<place, stuck>>
controlVars == <<control, controlTmp>>
batchVars   == <<batchPc, cur, outcome, stale, decision>>
clientVars  == <<clientPc, sub, excused>>
crashVars   == <<old, crashes>>
vars == <<fileVars, acks, controlVars, runId, batchVars, ctlPc, clientVars, crashVars>>

Init ==
  /\ place = [s \in Subs |-> "none"] /\ stuck = {}
  /\ acks = [s \in Subs |-> "none"]
  /\ control = [run |-> None, new |-> FALSE] /\ controlTmp = None
  /\ runId = None
  /\ batchPc = "startup" /\ cur = None /\ outcome = "error" /\ stale = {}
  /\ ctlPc = "seed"
  /\ clientPc = [c \in Clients |-> "idle"] /\ sub = [c \in Clients |-> None]
  /\ decision = [s \in Subs |-> "none"]
  /\ old = {} /\ excused = {} /\ crashes = 0

-----------------------------------------------------------------------------
(* The clients.                                                            *)

(* finish_job, or the end of the driver's call.                            *)
End(c) ==
  /\ clientPc' = [clientPc EXCEPT ![c] = "idle"]
  /\ sub' = [sub EXCEPT ![c] = None]

Step(c, pc) == clientPc' = [clientPc EXCEPT ![c] = pc] /\ UNCHANGED sub

(* enqueue_trial_batch: a temporary file, renamed into the queue.          *)
Enqueue(s) == place' = [place EXCEPT ![s] = "queue"]

(* A second job is refused while one is running.  The id is made before    *)
(* the references and configs are read, so a batch may be queued after one *)
(* with a later timestamp; a client that finds none of them ends without.  *)
Submit(c, s) ==
  /\ clientPc[c] = "idle" /\ place[s] = "none"
  /\ s \in Takeover => c = "driver"
  /\ Enqueue(s)
  /\ clientPc' = [clientPc EXCEPT ![c] = "wait"] /\ sub' = [sub EXCEPT ![c] = s]
  /\ UNCHANGED <<stuck, acks, controlVars, runId, batchVars, ctlPc, excused, crashVars>>

(* A file that is there and parses.                                        *)
Answered(c) == acks[sub[c]] \in {"ok", "error"}

ReadAck(c) ==
  /\ clientPc[c] = "wait" /\ Answered(c)
  /\ acks' = [acks EXCEPT ![sub[c]] = "taken"]
  /\ IF acks[sub[c]] = "ok" THEN Step(c, "run") ELSE End(c)
  /\ UNCHANGED <<fileVars, controlVars, runId, batchVars, ctlPc, excused, crashVars>>

(* The deadline; or the driver is killed, as the runner does to a scout    *)
(* that is stopped.  The batch stays queued, the run current.              *)
GiveUp(c) ==
  /\ clientPc[c] = "wait" \/ (c = "driver" /\ clientPc[c] \in {"run", "rename"})
  /\ End(c)
  /\ excused' = excused \cup {sub[c]}
  /\ UNCHANGED <<fileVars, acks, controlVars, runId, batchVars, ctlPc, crashVars>>

(* Mutation of WriteClear: a stopped job only finishes.                    *)
WriteClear_StopFinishes(c) ==
  /\ clientPc[c] = "run"
  /\ \/ controlTmp' = sub[c] /\ Step(c, "rename") /\ UNCHANGED excused
     \/ c = "runner" /\ End(c) /\ UNCHANGED <<controlTmp, excused>>
  /\ UNCHANGED <<fileVars, acks, control, runId, batchVars, ctlPc, crashVars>>

(* The run's time is over, or the job was asked to stop, which may happen  *)
(* at any time: the request is written to the temporary file, over one     *)
(* that was not yet renamed, or the write fails.                           *)
WriteClear(c) ==
  /\ clientPc[c] = "run" \/ (clientPc[c] = "wait" /\ c = "runner")
  /\ LET early == IF clientPc[c] = "wait" THEN {sub[c]} ELSE {}
     IN  \/ /\ controlTmp' = sub[c] /\ Step(c, "rename")
            /\ excused' = excused \cup early \cup ({controlTmp} \ {None})
         \/ UNCHANGED controlTmp /\ End(c) /\ excused' = excused \cup {sub[c]}
  /\ UNCHANGED <<fileVars, acks, control, runId, batchVars, ctlPc, crashVars>>

ClearRequest(run) == [run |-> run, new |-> TRUE]

(* Renames what is there, over a request the control loop has not read     *)
(* yet; fails when the other client has renamed it already.                *)
RenameClear(c) ==
  /\ clientPc[c] = "rename"
  /\ \/ /\ controlTmp # None
        /\ control' = ClearRequest(controlTmp) /\ controlTmp' = None
        /\ excused' = IF control.new \/ ctlPc = "load"
                      THEN excused \cup {control.run} ELSE excused
     \/ controlTmp = None /\ UNCHANGED <<controlVars, excused>>
  /\ End(c)
  /\ UNCHANGED <<fileVars, acks, runId, batchVars, ctlPc, crashVars>>

Client(c) ==
  \/ \E s \in Subs : Submit(c, s)
  \/ ReadAck(c) \/ GiveUp(c) \/ WriteClear(c) \/ RenameClear(c)

-----------------------------------------------------------------------------
(* The batch loop.                                                         *)

(* Mutation of Listed: a quarantined payload is listed.                    *)
Listed_Quarantined == {s \in Subs : place[s] \in {"queue", "marked"}}

Listed == {s \in Subs : place[s] = "queue"}

Oldest(s, set) == s \in set /\ \A t \in set : s <= t

(* archive_trial_batch_queue_file: into the archive, which sheds its oldest*)
(* files, or else stashed under another extension, or else marked; when    *)
(* that fails too it stays listed.                                         *)
Archive(s) ==
  \/ \E to \in {"moved", "marked"} : place' = [place EXCEPT ![s] = to] /\ UNCHANGED stuck
  \/ s \in Immovable /\ stuck' = stuck \cup {s} /\ UNCHANGED place

(* Mutation of ListStale: what an earlier life left behind is kept.        *)
ListStale_Keeps ==
  /\ batchPc = "startup"
  /\ batchPc' = "list"
  /\ UNCHANGED <<fileVars, acks, controlVars, runId, cur, outcome, stale, decision,
                 ctlPc, clientVars, crashVars>>

ListStale ==
  /\ batchPc = "startup"
  /\ stale' = Listed
  /\ batchPc' = "stale"
  /\ UNCHANGED <<fileVars, acks, controlVars, runId, cur, outcome, decision, ctlPc,
                 clientVars, crashVars>>

ArchiveStale ==
  /\ batchPc = "stale"
  /\ \/ \E s \in stale :
          /\ Oldest(s, stale)
          /\ Archive(s)
          /\ stale' = stale \ {s}
          /\ UNCHANGED batchPc
     \/ stale = {} /\ batchPc' = "list" /\ UNCHANGED <<stale, fileVars>>
  /\ UNCHANGED <<acks, controlVars, runId, cur, outcome, decision, ctlPc, clientVars,
                 crashVars>>

LeaseAllows(s) == runId \in {s, None} \/ s \in Takeover

(* Mutation of DecideBatch: a failed patch is acknowledged as applied.     *)
DecideBatch_ErrorIsOk ==
  /\ batchPc = "list"
  /\ \E s \in Listed :
       /\ Oldest(s, Listed)
       /\ cur' = s
       /\ \/ LeaseAllows(s) /\ runId' = s /\ decision' = [decision EXCEPT ![s] = "applied"]
          \/ UNCHANGED runId /\ decision' = [decision EXCEPT ![s] = "rejected"]
  /\ batchPc' = "ack" /\ outcome' = "ok"
  /\ UNCHANGED <<fileVars, acks, controlVars, stale, ctlPc, clientVars, crashVars>>

(* apply_trial_batch: if the lease allows it, the run becomes current; the *)
(* payload, the durable write or the patch may fail whatever the lease.    *)
DecideBatch ==
  /\ batchPc = "list"
  /\ \E s \in Listed :
       /\ Oldest(s, Listed)
       /\ cur' = s
       /\ \/ /\ LeaseAllows(s)
             /\ runId' = s /\ outcome' = "ok"
             /\ decision' = [decision EXCEPT ![s] = "applied"]
          \/ /\ outcome' = "error" /\ UNCHANGED runId
             /\ decision' = [decision EXCEPT ![s] = "rejected"]
  /\ batchPc' = "ack"
  /\ UNCHANGED <<fileVars, acks, controlVars, stale, ctlPc, clientVars, crashVars>>

AckBatch ==
  /\ batchPc = "ack"
  /\ \/ acks' = [acks EXCEPT ![cur] = outcome]
     \/ UNCHANGED acks
  /\ batchPc' = "archive"
  /\ UNCHANGED <<fileVars, controlVars, runId, cur, outcome, stale, decision, ctlPc,
                 clientVars, crashVars>>

ArchiveBatch ==
  /\ batchPc = "archive"
  /\ Archive(cur)
  /\ batchPc' = "list" /\ cur' = None /\ outcome' = "error"
  /\ UNCHANGED <<acks, controlVars, runId, stale, decision, ctlPc, clientVars,
                 crashVars>>

BatchLoop ==
  \/ ListStale \/ ArchiveStale \/ DecideBatch \/ AckBatch \/ ArchiveBatch

-----------------------------------------------------------------------------
(* The control loop.                                                       *)

(* A command file found at startup counts as seen.                         *)
SeedControl ==
  /\ ctlPc = "seed"
  /\ ctlPc' = "watch"
  /\ control' = [control EXCEPT !.new = FALSE]
  /\ excused' = IF control.new THEN excused \cup {control.run} ELSE excused
  /\ UNCHANGED <<fileVars, acks, controlTmp, runId, batchVars, clientPc, sub, crashVars>>

(* A changed fingerprint is remembered before the file is read ...         *)
PollControl ==
  /\ ctlPc = "watch" /\ control.new
  /\ control' = [control EXCEPT !.new = FALSE]
  /\ ctlPc' = "load"
  /\ UNCHANGED <<fileVars, acks, controlTmp, runId, batchVars, clientVars, crashVars>>

Cleared(requested) == IF runId = requested THEN None ELSE runId

(* ... and only a request for the current run clears it.                   *)
LoadControl ==
  /\ ctlPc = "load"
  /\ runId' = Cleared(control.run)
  /\ ctlPc' = "watch"
  /\ UNCHANGED <<fileVars, acks, controlVars, batchVars, clientVars, crashVars>>

ControlLoop == SeedControl \/ PollControl \/ LoadControl

-----------------------------------------------------------------------------
(* The process crashes and is started again.  That ends the job in it; the *)
(* driver goes on.                                                         *)
Crash ==
  /\ crashes < MaxCrashes
  /\ batchPc' = "startup" /\ ctlPc' = "seed"
  /\ cur' = None /\ outcome' = "error" /\ stale' = {} /\ runId' = None
  /\ clientPc' = [clientPc EXCEPT !["runner"] = "idle"]
  /\ sub' = [sub EXCEPT !["runner"] = None]
  /\ old' = old \cup Listed /\ crashes' = crashes + 1
  /\ UNCHANGED <<fileVars, acks, controlVars, decision, excused>>

Next ==
  \/ \E c \in Clients : Client(c)
  \/ BatchLoop \/ ControlLoop \/ Crash

(* The watch loop of batches is a task of its own and keeps running.       *)
Spec == Init /\ [][Next]_vars /\ WF_vars(BatchLoop)

-----------------------------------------------------------------------------
(* Properties.                                                             *)

(* Types; an unread request names a run, a client has a submission unless  *)
(* it is idle, and the batch loop while it handles one.                    *)
TypeOK ==
  /\ place \in [Subs -> {"none", "queue", "moved", "marked"}]
  /\ acks \in [Subs -> {"none", "ok", "error", "taken"}]
  /\ control \in [run : Subs \cup {None}, new : BOOLEAN]
  /\ control.new \/ ctlPc = "load" => control.run # None
  /\ controlTmp \in Subs \cup {None} /\ runId \in Subs \cup {None}
  /\ batchPc \in {"startup", "stale", "list", "ack", "archive"}
  /\ IF batchPc \in {"ack", "archive"} THEN cur \in Subs ELSE cur = None
  /\ outcome \in {"ok", "error"} /\ stale \in SUBSET Subs
  /\ ctlPc \in {"seed", "watch", "load"}
  /\ clientPc \in [Clients -> {"idle", "wait", "run", "rename"}]
  /\ sub \in [Clients -> Subs \cup {None}]
  /\ \A c \in Clients : IF clientPc[c] = "idle" THEN sub[c] = None ELSE sub[c] \in Subs
  /\ decision \in [Subs -> {"none", "applied", "rejected"}]
  /\ {stuck, old, excused} \subseteq SUBSET Subs
  /\ crashes \in 0 .. MaxCrashes

(* What the files and histories say of a submission.                       *)
Status(s) ==
  IF s \in stuck THEN "lost"
  ELSE IF decision[s] # "none" THEN decision[s]
  ELSE IF place[s] = "none" THEN "new"
  ELSE IF place[s] = "queue" THEN "queued" ELSE "discarded"

StatusMap == [s \in Subs |-> Status(s)]
AnswerMap == [s \in Subs |-> IF s \in stuck THEN "none" ELSE acks[s]]

Promised == INSTANCE Submissions WITH status <- StatusMap, answer <- AnswerMap

(* "submission-scoped ack": through crashes, failing file operations and   *)
(* clients that give up, a batch is applied or rejected at most once and   *)
(* its acknowledgement says which, until its payload can neither be moved  *)
(* nor marked.                                                             *)
Implements == Promised!Spec

(* "startup archived stale payloads": what one life of the process leaves  *)
(* in the queue never becomes the run of a later life, unless it could     *)
(* neither be moved nor marked.                                            *)
StaleNeverApplied == [][runId' \in {runId, None} \/ runId' \notin old \ stuck]_vars

(* No run stays current after its client is done, once the control loop    *)
(* has nothing left to read, unless the client gave up before it knew of   *)
(* the batch's end or its request never reached the control loop.          *)
RunEndsWithClient ==
  (/\ runId # None /\ ctlPc = "watch" /\ ~control.new
   /\ \A c \in Clients : sub[c] # runId) => runId \in excused \cup stuck

(* Quarantined payloads, rejected batches and crashed clients do not hold  *)
(* up the others: every queued payload is dealt with.                      *)
QueueDrains ==
  \A s \in Subs : place[s] = "queue" ~>
    (place[s] # "queue" \/ stuck # {})

=============================================================================
