--------------------------- MODULE TrialJobProofs ----------------------------
(* Theorems about how trials are run: TrialQueue, for any number of          *)
(* submissions and crashes, any scouts and any set of payloads that can      *)
(* neither be moved nor marked; TrialRunner, for any number of callers, jobs *)
(* and lines, any caps, files and findings.  The two share no state.         *)
EXTENDS TrialQueue, TrialRunner, FoldTheorems

-----------------------------------------------------------------------------
(* TrialQueue.                                                             *)

Undecided(s) == decision[s] = "none" /\ acks[s] = "none"

(* What the batch loop will deal with before it lists the queue again.       *)
InHand(s) ==
  \/ batchPc = "startup"
  \/ batchPc = "stale" /\ s \in stale
  \/ batchPc \in {"ack", "archive"} /\ s = cur /\ s \notin old

(* The parts of the inductive invariant: what was never submitted has left   *)
(* no trace; only a decided submission has an acknowledgement; the one the   *)
(* loop is about to acknowledge is decided as it will say, and is queued;    *)
(* what an earlier life left behind, or was decided, is not listed again.    *)
NoTrace == \A s \in Subs : place[s] = "none" => Undecided(s) /\ s \notin stuck \cup old

AckedIsDecided == \A s \in Subs \ stuck : decision[s] = "none" => acks[s] = "none"

AckIsTrue ==
  batchPc = "ack" /\ cur \notin stuck =>
    /\ acks[cur] = "none"
    /\ decision[cur] = IF outcome = "ok" THEN "applied" ELSE "rejected"

CurQueued == batchPc \in {"ack", "archive"} => place[cur] = "queue"

StaleQueued ==
  /\ \A s \in stale : place[s] = "queue"
  /\ batchPc # "stale" => stale = {}

DecidedInHand ==
  \A s \in Subs \ stuck :
    place[s] = "queue" /\ (s \in old \/ decision[s] # "none") => InHand(s)

QueueInv ==
  /\ TypeOK /\ NoTrace /\ AckedIsDecided /\ AckIsTrue /\ CurQueued /\ StaleQueued
  /\ DecidedInHand

-----------------------------------------------------------------------------
LEMMA TypeInit == Init => TypeOK
  BY BoundAssumption DEF Init, TypeOK, Clients

LEMMA TypeStep == TypeOK /\ [Next]_vars => TypeOK'
<1> SUFFICES ASSUME TypeOK, [Next]_vars PROVE TypeOK'
  OBVIOUS
<1> USE DEF TypeOK, fileVars, controlVars, batchVars, clientVars, crashVars
<1>1. ASSUME NEW c \in Clients, NEW s \in Subs, Submit(c, s) PROVE TypeOK'
  BY <1>1 DEF Submit, Enqueue
<1>2. ASSUME NEW c \in Clients, ReadAck(c) PROVE TypeOK'
  BY <1>2 DEF ReadAck, Answered, Step, End
<1>3. ASSUME NEW c \in Clients, GiveUp(c) PROVE TypeOK'
  BY <1>3 DEF GiveUp, End
<1>4. ASSUME NEW c \in Clients, WriteClear(c) PROVE TypeOK'
  BY <1>4 DEF WriteClear, Step, End
<1>5. ASSUME NEW c \in Clients, RenameClear(c) PROVE TypeOK'
  <2>1. CASE /\ controlTmp # None /\ controlTmp' = None
             /\ control' = [run |-> controlTmp, new |-> TRUE]
    <3>1. control'.run = controlTmp /\ control' \in [run : Subs \cup {None}, new : BOOLEAN]
      BY <2>1
    <3>2. excused' = excused \/ ((control.new \/ ctlPc = "load") /\ excused' = excused \cup {control.run})
      BY <1>5, <2>1 DEF RenameClear, ClearRequest
    <3>3. excused' \in SUBSET Subs
      BY <3>2
    <3> QED BY <1>5, <2>1, <3>1, <3>3 DEF RenameClear, ClearRequest, End
  <2>2. CASE UNCHANGED <<controlVars, excused>>
    BY <1>5, <2>2 DEF RenameClear, ClearRequest, End
  <2> QED BY <1>5, <2>1, <2>2 DEF RenameClear, ClearRequest
<1>6. CASE ListStale
  BY <1>6 DEF ListStale, Listed
<1>7. CASE ArchiveStale
  BY <1>7 DEF ArchiveStale, Archive
<1>8. CASE DecideBatch
  BY <1>8 DEF DecideBatch, Listed
<1>9. CASE AckBatch
  BY <1>9 DEF AckBatch
<1>10. CASE ArchiveBatch
  BY <1>10 DEF ArchiveBatch, Archive
<1>11. CASE SeedControl
  <2>1. control' \in [run : Subs \cup {None}, new : BOOLEAN]
    BY <1>11 DEF SeedControl
  <2>2. excused' \in SUBSET Subs
    BY <1>11 DEF SeedControl
  <2> QED BY <1>11, <2>1, <2>2 DEF SeedControl
<1>12. CASE PollControl
  BY <1>12 DEF PollControl
<1>13. CASE LoadControl
  BY <1>13 DEF LoadControl, Cleared
<1>14. CASE Crash
  BY <1>14, BoundAssumption DEF Crash, Listed, Clients
<1>15. CASE UNCHANGED vars
  BY <1>15 DEF vars
<1> QED BY <1>1, <1>2, <1>3, <1>4, <1>5, <1>6, <1>7, <1>8, <1>9, <1>10, <1>11, <1>12,
           <1>13, <1>14, <1>15 DEF Next, Client, BatchLoop, ControlLoop

(* Whatever crashes, fails or is given up, each variable keeps its type, and *)
(* a client has a submission exactly while it is not idle.                   *)
THEOREM TypeCorrect == Spec => []TypeOK
BY TypeInit, TypeStep, PTL DEF Spec

-----------------------------------------------------------------------------
LEMMA QueueInit == Init => QueueInv
<1> SUFFICES ASSUME Init PROVE QueueInv
  OBVIOUS
<1> QED BY TypeInit DEF Init, QueueInv, NoTrace, Undecided, AckedIsDecided, AckIsTrue,
                        CurQueued, StaleQueued, DecidedInHand, InHand

(* The variables the invariant relates.                                      *)
queueVars == <<place, stuck, acks, batchPc, cur, outcome, stale, decision, old>>

LEMMA QueueUntouched ==
  QueueInv /\ TypeOK' /\ UNCHANGED queueVars => QueueInv'
BY DEF queueVars, QueueInv, NoTrace, Undecided, AckedIsDecided, AckIsTrue, CurQueued,
       StaleQueued, DecidedInHand, InHand

(* What archiving a payload s may do, with s now out of the loop's hand.     *)
LEMMA Archived ==
  ASSUME NEW s \in Subs, TypeOK, Archive(s), place[s] = "queue"
  PROVE  /\ \A t \in Subs \ {s} : place'[t] = place[t]
         /\ place'[s] = "queue" => s \in stuck'
         /\ place'[s] # "none"
         /\ stuck \subseteq stuck' /\ stuck' \subseteq stuck \cup {s}
BY DEF TypeOK, Archive

LEMMA QueueStep == QueueInv /\ [Next]_vars => QueueInv'
<1> SUFFICES ASSUME QueueInv, [Next]_vars PROVE QueueInv'
  OBVIOUS
<1>0. TypeOK /\ TypeOK'
  BY TypeStep DEF QueueInv
<1> DEFINE Parts == NoTrace /\ AckedIsDecided /\ AckIsTrue /\ CurQueued /\ StaleQueued
                    /\ DecidedInHand
<1> SUFFICES Parts'
  BY <1>0 DEF QueueInv
<1> USE DEF QueueInv, NoTrace, Undecided, AckedIsDecided, AckIsTrue, CurQueued,
            StaleQueued, DecidedInHand, InHand, TypeOK
<1>1. ASSUME NEW c \in Clients, NEW s \in Subs, Submit(c, s) PROVE Parts'
  BY <1>0, <1>1 DEF Submit, Enqueue, batchVars, crashVars
<1>2. ASSUME NEW c \in Clients, ReadAck(c) PROVE Parts'
  BY <1>0, <1>2 DEF ReadAck, Answered, fileVars, batchVars, crashVars
<1>3. CASE ListStale
  BY <1>0, <1>3 DEF ListStale, Listed, fileVars, crashVars
<1>4. CASE ArchiveStale
  <2>1. ASSUME NEW s \in stale, Archive(s), stale' = stale \ {s}, UNCHANGED batchPc
        PROVE  Parts'
    <3>1. s \in Subs /\ place[s] = "queue" /\ batchPc = "stale" /\ batchPc' = "stale"
      BY <1>0, <1>4, <2>1 DEF ArchiveStale
    <3>2. /\ \A t \in Subs \ {s} : place'[t] = place[t]
          /\ place'[s] = "queue" => s \in stuck'
          /\ place'[s] # "none"
          /\ stuck \subseteq stuck' /\ stuck' \subseteq stuck \cup {s}
      BY <1>0, <2>1, <3>1, Archived
    <3>3. UNCHANGED <<acks, decision, old>>
      BY <1>4 DEF ArchiveStale, crashVars
    <3> QED BY <1>0, <2>1, <3>1, <3>2, <3>3
  <2>2. CASE stale = {} /\ batchPc' = "list" /\ UNCHANGED <<stale, fileVars>>
    BY <1>0, <1>4, <2>2 DEF ArchiveStale, fileVars, crashVars
  <2> QED BY <1>4, <2>1, <2>2 DEF ArchiveStale
<1>5. CASE DecideBatch
  <2>1. PICK s \in Listed :
          /\ cur' = s
          /\ \/ outcome' = "ok" /\ decision' = [decision EXCEPT ![s] = "applied"]
             \/ outcome' = "error" /\ decision' = [decision EXCEPT ![s] = "rejected"]
    BY <1>5 DEF DecideBatch
  <2>2. s \in Subs /\ place[s] = "queue" /\ batchPc = "list" /\ batchPc' = "ack"
    BY <1>5, <2>1 DEF DecideBatch, Listed
  <2>3. s \notin stuck => s \notin old /\ decision[s] = "none" /\ acks[s] = "none"
    BY <1>0, <2>2
  <2>4. UNCHANGED <<place, stuck, acks, stale, old>>
    BY <1>5 DEF DecideBatch, fileVars, crashVars
  <2> QED BY <1>0, <2>1, <2>2, <2>3, <2>4
<1>6. CASE AckBatch
  <2>1. cur \in Subs /\ batchPc = "ack" /\ batchPc' = "archive"
    BY <1>0, <1>6 DEF AckBatch
  <2>2. acks' = [acks EXCEPT ![cur] = outcome] \/ acks' = acks
    BY <1>6 DEF AckBatch
  <2>3. UNCHANGED <<place, stuck, cur, outcome, stale, decision, old>>
    BY <1>6 DEF AckBatch, fileVars, crashVars
  <2> QED BY <1>0, <2>1, <2>2, <2>3
<1>7. CASE ArchiveBatch
  <2>1. cur \in Subs /\ place[cur] = "queue" /\ batchPc = "archive" /\ batchPc' = "list"
    BY <1>0, <1>7 DEF ArchiveBatch
  <2>2. /\ \A t \in Subs \ {cur} : place'[t] = place[t]
        /\ place'[cur] = "queue" => cur \in stuck'
        /\ place'[cur] # "none"
        /\ stuck \subseteq stuck' /\ stuck' \subseteq stuck \cup {cur}
    BY <1>0, <1>7, <2>1, Archived DEF ArchiveBatch
  <2>3. UNCHANGED <<acks, stale, decision, old>>
    BY <1>7 DEF ArchiveBatch, crashVars
  <2> QED BY <1>0, <2>1, <2>2, <2>3
<1>8. CASE Crash
  BY <1>0, <1>8 DEF Crash, Listed, fileVars
<1>9. ASSUME UNCHANGED queueVars PROVE Parts'
  BY <1>0, <1>9, QueueUntouched DEF queueVars
<1>10. ASSUME NEW c \in Clients, GiveUp(c) \/ WriteClear(c) \/ RenameClear(c) PROVE Parts'
  BY <1>9, <1>10 DEF GiveUp, WriteClear, RenameClear, queueVars, fileVars, batchVars, crashVars
<1>11. CASE ControlLoop
  BY <1>9, <1>11 DEF ControlLoop, SeedControl, PollControl, LoadControl, queueVars, fileVars,
                     batchVars, crashVars
<1>12. CASE UNCHANGED vars
  BY <1>9, <1>12 DEF vars, queueVars, fileVars, batchVars, crashVars
<1> QED BY <1>1, <1>2, <1>3, <1>4, <1>5, <1>6, <1>7, <1>8, <1>10, <1>11, <1>12
        DEF Next, Client, BatchLoop

LEMMA QueueInvariant == Spec => []QueueInv
BY QueueInit, QueueStep, PTL DEF Spec

-----------------------------------------------------------------------------
(* No run of a batch that an earlier life of the process left in the queue   *)
(* becomes current, for any number of crashes: the startup pass ends with    *)
(* none of them listed, except what could be neither moved nor marked.       *)
THEOREM StaleIsArchived == Spec => StaleNeverApplied
<1>1. QueueInv /\ [Next]_vars => [runId' \in {runId, None} \/ runId' \notin old \ stuck]_vars
  <2> SUFFICES ASSUME QueueInv, [Next]_vars, runId' # runId, runId' # None
               PROVE  runId' \notin old \ stuck
    OBVIOUS
  <2>1. DecideBatch
    BY DEF Next, vars, Client, Submit, Enqueue, ReadAck, Answered, GiveUp, WriteClear, RenameClear, BatchLoop,
           ListStale, ArchiveStale, AckBatch, ArchiveBatch, ControlLoop, SeedControl,
           PollControl, LoadControl, Cleared, Crash
  <2>2. runId' \in Listed /\ batchPc = "list"
    BY <2>1 DEF DecideBatch
  <2> QED BY <2>2 DEF QueueInv, DecidedInHand, InHand, Listed
<1> QED BY <1>1, QueueInvariant, PTL DEF Spec, StaleNeverApplied

-----------------------------------------------------------------------------
(* The files and the loop implement Submissions.                             *)

LEMMA MapsChange ==
  /\ (\A s \in Subs : Status(s)' = Status(s)) => StatusMap' = StatusMap
  /\ UNCHANGED <<acks, stuck>> => AnswerMap' = AnswerMap
BY DEF StatusMap, AnswerMap

LEMMA StatusKept == UNCHANGED <<place, stuck, decision>> => StatusMap' = StatusMap
BY DEF StatusMap, Status

LEMMA RefinesInit == Init => Promised!Init
BY DEF Init, Promised!Init, StatusMap, AnswerMap, Status

LEMMA RefinesStep == QueueInv /\ [Next]_vars => [Promised!Next]_<<StatusMap, AnswerMap>>
<1> SUFFICES ASSUME QueueInv, [Next]_vars
             PROVE  [Promised!Next]_<<StatusMap, AnswerMap>>
  OBVIOUS
<1>0. TypeOK
  BY DEF QueueInv
<1>1. ASSUME NEW c \in Clients, NEW s \in Subs, Submit(c, s) PROVE Promised!Submit(s)
  <2>1. Status(s) = "new"
    BY <1>1 DEF Submit, QueueInv, NoTrace, Undecided, Status
  <2>2. UNCHANGED <<stuck, decision, acks>>
    BY <1>1 DEF Submit, Enqueue, batchVars
  <2>3. Status(s)' = "queued"
    BY <1>0, <1>1, <2>1, <2>2 DEF Submit, Enqueue, Status, TypeOK
  <2>4. \A t \in Subs \ {s} : Status(t)' = Status(t)
    BY <1>0, <1>1, <2>2 DEF Submit, Enqueue, Status, TypeOK
  <2> QED BY <2>1, <2>2, <2>3, <2>4, MapsChange DEF Promised!Submit, StatusMap
<1>2. ASSUME NEW c \in Clients, ReadAck(c)
      PROVE  \/ Promised!Take(sub[c])
             \/ UNCHANGED <<StatusMap, AnswerMap>>
  <2>1. sub[c] \in Subs /\ acks[sub[c]] \in {"ok", "error"}
    BY <1>0, <1>2 DEF ReadAck, Answered, TypeOK
  <2>2. UNCHANGED <<place, stuck, decision>>
    BY <1>2 DEF ReadAck, Answered, fileVars, batchVars
  <2>3. acks' = [acks EXCEPT ![sub[c]] = "taken"]
    BY <1>2 DEF ReadAck, Answered
  <2>4. CASE sub[c] \in stuck
    BY <1>0, <2>1, <2>2, <2>3, <2>4, StatusKept DEF AnswerMap, TypeOK
  <2>5. CASE sub[c] \notin stuck
    <3>1. AnswerMap[sub[c]] \in {"ok", "error"}
      BY <2>1, <2>5 DEF AnswerMap
    <3>2. AnswerMap' = [AnswerMap EXCEPT ![sub[c]] = "taken"]
      BY <1>0, <2>1, <2>2, <2>3, <2>5 DEF AnswerMap, TypeOK
    <3> QED BY <2>2, <3>1, <3>2, StatusKept DEF Promised!Take
  <2> QED BY <2>4, <2>5
<1>3. ASSUME NEW s \in Subs, Archive(s), place[s] = "queue", UNCHANGED <<acks, decision>>
      PROVE  \/ Promised!Discard(s) \/ Promised!Lose(s)
             \/ UNCHANGED <<StatusMap, AnswerMap>>
  <2>1. CASE UNCHANGED stuck /\ \E to \in {"moved", "marked"} : place' = [place EXCEPT ![s] = to]
    <3>1. \A t \in Subs \ {s} : Status(t)' = Status(t)
      BY <1>0, <1>3, <2>1 DEF Status, TypeOK
    <3>2. CASE s \notin stuck /\ decision[s] = "none"
      <4>1. Status(s) = "queued" /\ Status(s)' = "discarded"
        BY <1>0, <1>3, <2>1, <3>2 DEF Status, TypeOK
      <4> QED BY <1>3, <2>1, <3>1, <4>1, MapsChange DEF Promised!Discard, StatusMap
    <3>3. CASE ~(s \notin stuck /\ decision[s] = "none")
      <4>1. Status(s)' = Status(s)
        BY <1>3, <2>1, <3>3 DEF Status
      <4> QED BY <1>3, <2>1, <3>1, <4>1, MapsChange
    <3> QED BY <3>2, <3>3
  <2>2. CASE stuck' = stuck \cup {s} /\ UNCHANGED place
    <3>1. CASE s \in stuck
      BY <1>0, <1>3, <2>2, <3>1, StatusKept, MapsChange DEF TypeOK
    <3>2. CASE s \notin stuck
      <4>1. Status(s) \in {"queued", "applied", "rejected"} /\ Status(s)' = "lost"
        BY <1>0, <1>3, <2>2, <3>2 DEF Status, TypeOK
      <4>2. \A t \in Subs \ {s} : Status(t)' = Status(t)
        BY <1>0, <1>3, <2>2 DEF Status, TypeOK
      <4>3. StatusMap' = [StatusMap EXCEPT ![s] = "lost"] /\ StatusMap[s] = Status(s)
        BY <4>1, <4>2 DEF StatusMap
      <4>4. AnswerMap' = [AnswerMap EXCEPT ![s] = "none"]
        BY <1>0, <1>3, <2>2 DEF AnswerMap, TypeOK
      <4> QED BY <4>1, <4>3, <4>4 DEF Promised!Lose
    <3> QED BY <3>1, <3>2
  <2> QED BY <1>3, <2>1, <2>2 DEF Archive
<1>4. ASSUME DecideBatch
      PROVE  \/ \E s \in Subs : Promised!Decide(s)
             \/ UNCHANGED <<StatusMap, AnswerMap>>
  <2>1. PICK s \in Listed, to \in {"applied", "rejected"} : decision' = [decision EXCEPT ![s] = to]
    BY <1>4 DEF DecideBatch
  <2>2. s \in Subs /\ place[s] = "queue" /\ batchPc = "list"
    BY <1>4, <2>1 DEF DecideBatch, Listed
  <2>3. UNCHANGED <<place, stuck, acks>>
    BY <1>4 DEF DecideBatch, fileVars
  <2>4. \A t \in Subs \ {s} : Status(t)' = Status(t)
    BY <1>0, <2>1, <2>2, <2>3 DEF Status, TypeOK
  <2>5. CASE s \in stuck
    <3>1. Status(s)' = Status(s)
      BY <2>3, <2>5 DEF Status
    <3> QED BY <2>3, <2>4, <3>1, MapsChange
  <2>6. CASE s \notin stuck
    <3>1. decision[s] = "none"
      BY <2>2, <2>6 DEF QueueInv, DecidedInHand, InHand
    <3>2. Status(s) = "queued" /\ Status(s)' = to
      BY <1>0, <2>1, <2>2, <2>3, <2>6, <3>1 DEF Status, TypeOK
    <3>3. StatusMap' = [StatusMap EXCEPT ![s] = to] /\ StatusMap[s] = "queued"
      BY <2>2, <2>4, <3>2 DEF StatusMap
    <3> QED BY <2>2, <2>3, <3>3, MapsChange DEF Promised!Decide
  <2> QED BY <2>5, <2>6
<1>5. ASSUME AckBatch
      PROVE  \/ Promised!Answer(cur)
             \/ UNCHANGED <<StatusMap, AnswerMap>>
  <2>1. cur \in Subs /\ outcome \in {"ok", "error"}
    BY <1>0, <1>5 DEF AckBatch, TypeOK
  <2>2. UNCHANGED <<place, stuck, decision>> /\ StatusMap' = StatusMap
    BY <1>5, StatusKept DEF AckBatch, fileVars
  <2>3. CASE acks' = acks
    BY <2>2, <2>3, MapsChange
  <2>4. CASE acks' = [acks EXCEPT ![cur] = outcome] /\ cur \in stuck
    BY <1>0, <2>1, <2>2, <2>4 DEF AnswerMap, TypeOK
  <2>5. CASE acks' = [acks EXCEPT ![cur] = outcome] /\ cur \notin stuck
    <3>1. acks[cur] = "none" /\ decision[cur] = IF outcome = "ok" THEN "applied" ELSE "rejected"
      BY <1>5, <2>5 DEF AckBatch, QueueInv, AckIsTrue
    <3>2. StatusMap[cur] = decision[cur] /\ AnswerMap[cur] = "none"
      BY <2>1, <2>5, <3>1 DEF StatusMap, AnswerMap, Status
    <3>3. AnswerMap' = [AnswerMap EXCEPT ![cur] = outcome]
      BY <1>0, <2>1, <2>2, <2>5 DEF AnswerMap, TypeOK
    <3> QED BY <2>1, <2>2, <3>1, <3>2, <3>3 DEF Promised!Answer
  <2> QED BY <1>5, <2>3, <2>4, <2>5 DEF AckBatch
<1>6. CASE ArchiveStale
  <2>1. ASSUME NEW s \in stale, Archive(s)
        PROVE  [Promised!Next]_<<StatusMap, AnswerMap>>
    BY <1>0, <1>3, <1>6, <2>1 DEF ArchiveStale, QueueInv, StaleQueued, TypeOK, Promised!Next
  <2>2. CASE UNCHANGED fileVars
    BY <1>6, <2>2, StatusKept, MapsChange DEF ArchiveStale, fileVars
  <2> QED BY <1>6, <2>1, <2>2 DEF ArchiveStale
<1>7. CASE ArchiveBatch
  <2>1. cur \in Subs /\ place[cur] = "queue" /\ Archive(cur) /\ UNCHANGED <<acks, decision>>
    BY <1>0, <1>7 DEF ArchiveBatch, QueueInv, CurQueued, TypeOK
  <2> QED BY <1>3, <2>1 DEF Promised!Next
<1>8. ASSUME UNCHANGED <<place, stuck, decision, acks>>
      PROVE  UNCHANGED <<StatusMap, AnswerMap>>
  BY <1>8, StatusKept, MapsChange
<1>9. ASSUME NEW c \in Clients, GiveUp(c) \/ WriteClear(c) \/ RenameClear(c)
      PROVE  UNCHANGED <<StatusMap, AnswerMap>>
  BY <1>8, <1>9 DEF GiveUp, WriteClear, RenameClear, fileVars, batchVars
<1>10. CASE ListStale \/ ControlLoop \/ Crash \/ UNCHANGED vars
  BY <1>8, <1>10 DEF ListStale, ControlLoop, SeedControl, PollControl, LoadControl, Crash,
                     vars, fileVars, batchVars
<1>11. CASE \E c \in Clients : Client(c)
  <2>1. PICK c \in Clients : Client(c)
    BY <1>11
  <2>2. ASSUME ReadAck(c) PROVE [Promised!Next]_<<StatusMap, AnswerMap>>
    <3>1. sub[c] \in Subs
      BY <1>0, <2>2 DEF ReadAck, Answered, TypeOK
    <3> QED BY <1>2, <2>2, <3>1 DEF Promised!Next
  <2> QED BY <1>1, <1>9, <2>1, <2>2 DEF Client, Promised!Next
<1>12. CASE DecideBatch
  BY <1>4, <1>12 DEF Promised!Next
<1>13. CASE AckBatch
  BY <1>0, <1>5, <1>13 DEF AckBatch, TypeOK, Promised!Next
<1> QED BY <1>6, <1>7, <1>10, <1>11, <1>12, <1>13 DEF Next, BatchLoop

(* Through crashes, failing file operations and clients that give up, every  *)
(* batch is applied or rejected at most once, and the one acknowledgement    *)
(* its client can take says which: TrialQueue implements Submissions.        *)
THEOREM DecidedOnce == Spec => Implements
BY QueueInvariant, RefinesInit, RefinesStep, PTL DEF Spec, Implements, Promised!Spec

-----------------------------------------------------------------------------
(* The run that is current, and who is to end it.                            *)

(* The control loop has the request of s still to read.                      *)
Unread(s) == control.run = s /\ (control.new \/ ctlPc = "load")

(* A client has s in hand: it waits, lets it run, or its request is in the   *)
(* temporary file.                                                           *)
Held(s) ==
  \E c \in Clients :
    /\ sub[c] = s
    /\ clientPc[c] \in {"wait", "run"} \/ (clientPc[c] = "rename" /\ controlTmp = s)

(* s is not the current run and cannot become it: it was decided, or is out  *)
(* of the queue, or was left there by an earlier life.                       *)
Over(s) ==
  /\ runId # s
  /\ s \in old \/ decision[s] # "none" \/ place[s] \in {"moved", "marked"}

(* The current run was applied, and a batch answered with an error was not;  *)
(* who asks for a run to be cleared knows it was decided; every submission   *)
(* is over, or its request is on the way, or a client has it.                *)
RunApplied == runId \in Subs \ stuck => decision[runId] = "applied"

ErrorIsRejected ==
  \A s \in Subs \ stuck : acks[s] = "error" => decision[s] = "rejected"

RequestsDecided ==
  \A s \in Subs \ (excused \cup stuck) :
    (\/ Unread(s)
     \/ controlTmp = s
     \/ \E c \in Clients : sub[c] = s /\ clientPc[c] \in {"run", "rename"})
      => decision[s] # "none"

Tracked ==
  \A s \in Subs \ (excused \cup stuck) :
    place[s] # "none" => Over(s) \/ Unread(s) \/ Held(s)

RunInv == RunApplied /\ ErrorIsRejected /\ RequestsDecided /\ Tracked

(* The variables this invariant relates, beside the ones of QueueInv.        *)
runVars == <<place, stuck, acks, control, controlTmp, runId, ctlPc, clientPc, sub,
             decision, old, excused>>

LEMMA RunUntouched == RunInv /\ UNCHANGED runVars => RunInv'
BY DEF runVars, RunInv, RunApplied, ErrorIsRejected, RequestsDecided, Tracked, Over,
       Unread, Held

LEMMA RunInit == Init => RunInv
<1> SUFFICES ASSUME Init PROVE RunInv
  OBVIOUS
<1>1. /\ runId \notin Subs /\ controlTmp \notin Subs /\ control.run \notin Subs
      /\ \A s \in Subs : place[s] = "none" /\ acks[s] = "none"
      /\ \A c \in Clients : clientPc[c] = "idle"
  BY DEF Init, Subs, None
<1> QED BY <1>1 DEF RunInv, RunApplied, ErrorIsRejected, RequestsDecided, Tracked, Unread

(* The end of c's call, with its submission excused or over or asked about:  *)
(* nothing else is lost.                                                     *)
LEMMA Ends ==
  ASSUME TypeOK, Tracked, NEW c \in Clients, NEW ended \in Subs, sub[c] = ended, End(c),
         UNCHANGED <<place, stuck, decision, old, runId>>,
         excused \subseteq excused',
         UNCHANGED controlTmp \/ controlTmp' = None,
         \A s \in Subs \ (excused' \cup stuck) :
           /\ Unread(s) => Unread(s)'
           /\ controlTmp = s /\ controlTmp' # s => Unread(s)',
         ended \in excused' \cup stuck \/ Over(ended) \/ Unread(ended)'
           \/ (clientPc[c] = "rename" /\ controlTmp = None)
  PROVE  Tracked'
<1> SUFFICES ASSUME NEW s \in Subs, s \notin excused', s \notin stuck', place'[s] # "none"
             PROVE  (Over(s) \/ Unread(s) \/ Held(s))'
  BY DEF Tracked
<1>1. /\ clientPc \in [Clients -> {"idle", "wait", "run", "rename"}]
      /\ sub \in [Clients -> Subs \cup {None}]
  BY DEF TypeOK
<1>2. None \notin Subs
  BY DEF None, Subs
<1>3. Over(s) \/ Unread(s) \/ Held(s)
  BY DEF Tracked
<1>4. Over(s) => Over(s)'
  BY DEF Over
<1>5. Unread(s) => Unread(s)'
  OBVIOUS
<1>6. ASSUME Held(s) PROVE (Over(s) \/ Unread(s) \/ Held(s))'
  <2>1. PICK d \in Clients :
          /\ sub[d] = s
          /\ clientPc[d] \in {"wait", "run"} \/ (clientPc[d] = "rename" /\ controlTmp = s)
    BY <1>6 DEF Held
  <2>2. CASE d = c
    <3>1. Over(s) \/ Unread(s)'
      BY <1>2, <2>1, <2>2
    <3> QED BY <1>4, <3>1
  <2>3. CASE d # c
    <3>1. sub'[d] = sub[d] /\ clientPc'[d] = clientPc[d]
      BY <1>1, <2>3 DEF End
    <3>2. CASE controlTmp' = controlTmp
      BY <2>1, <3>1, <3>2 DEF Held
    <3>3. CASE controlTmp' = None /\ controlTmp = s
      BY <1>2, <3>3
    <3>4. CASE clientPc[d] \in {"wait", "run"}
      BY <2>1, <3>1, <3>4 DEF Held
    <3> QED BY <2>1, <3>2, <3>3, <3>4
  <2> QED BY <2>2, <2>3
<1> QED BY <1>3, <1>4, <1>5, <1>6

LEMMA RunStep == QueueInv /\ TypeOK' /\ RunInv /\ [Next]_vars => RunInv'
<1> SUFFICES ASSUME QueueInv, TypeOK', RunInv, [Next]_vars PROVE RunInv'
  OBVIOUS
<1>0. /\ TypeOK /\ None \notin Subs
      /\ clientPc \in [Clients -> {"idle", "wait", "run", "rename"}]
      /\ sub \in [Clients -> Subs \cup {None}]
      /\ \A c \in Clients : clientPc[c] # "idle" => sub[c] \in Subs
      /\ place \in [Subs -> {"none", "queue", "moved", "marked"}]
      /\ acks \in [Subs -> {"none", "ok", "error", "taken"}]
      /\ decision \in [Subs -> {"none", "applied", "rejected"}]
      /\ control.new \/ ctlPc = "load" => control.run \in Subs
      /\ {stuck, old, excused} \subseteq SUBSET Subs
  BY DEF QueueInv, TypeOK, None, Subs
<1>1. ASSUME NEW c \in Clients, NEW s \in Subs, Submit(c, s) PROVE RunInv'
  <2>1. /\ UNCHANGED <<stuck, acks, control, controlTmp, runId, ctlPc, decision, old, excused>>
        /\ clientPc[c] = "idle" /\ place[s] = "none"
        /\ clientPc' = [clientPc EXCEPT ![c] = "wait"] /\ sub' = [sub EXCEPT ![c] = s]
        /\ place' = [place EXCEPT ![s] = "queue"]
    BY <1>1 DEF Submit, Enqueue, controlVars, batchVars, crashVars
  <2>2. RunApplied' /\ ErrorIsRejected'
    BY <2>1 DEF RunInv, RunApplied, ErrorIsRejected
  <2>3. RequestsDecided'
    BY <1>0, <2>1 DEF RunInv, RequestsDecided, Unread
  <2>4. ASSUME NEW t \in Subs, t \notin excused', t \notin stuck', place'[t] # "none"
        PROVE  (Over(t) \/ Unread(t) \/ Held(t))'
    <3>1. CASE t = s
      BY <1>0, <2>1, <3>1 DEF Held
    <3>2. CASE t # s
      <4>1. place[t] = place'[t]
        BY <1>0, <2>1, <3>2
      <4>2. Held(t) => Held(t)'
        BY <1>0, <2>1 DEF Held
      <4>3. Over(t) \/ Unread(t) \/ Held(t)
        BY <2>1, <2>4, <4>1 DEF RunInv, Tracked
      <4> QED BY <2>1, <4>1, <4>2, <4>3 DEF Over, Unread
    <3> QED BY <3>1, <3>2
  <2> QED BY <2>2, <2>3, <2>4 DEF RunInv, Tracked
<1>2. ASSUME NEW c \in Clients, ReadAck(c) PROVE RunInv'
  <2>1. /\ UNCHANGED <<place, stuck, control, controlTmp, runId, ctlPc, decision, old, excused>>
        /\ clientPc[c] = "wait" /\ sub[c] \in Subs /\ acks[sub[c]] \in {"ok", "error"}
        /\ acks' = [acks EXCEPT ![sub[c]] = "taken"]
    BY <1>0, <1>2 DEF ReadAck, Answered, fileVars, controlVars, batchVars, crashVars
  <2>2. RunApplied' /\ ErrorIsRejected'
    BY <1>0, <2>1 DEF RunInv, RunApplied, ErrorIsRejected
  <2>3. sub[c] \notin stuck => decision[sub[c]] # "none"
    BY <2>1 DEF QueueInv, AckedIsDecided
  <2>4. CASE acks[sub[c]] = "ok" /\ Step(c, "run")
    <3>1. RequestsDecided'
      BY <1>0, <2>1, <2>3, <2>4 DEF RunInv, RequestsDecided, Unread, Step
    <3>2. \A t \in Subs : Held(t) => Held(t)'
      BY <1>0, <2>1, <2>4 DEF Held, Step
    <3>3. Tracked'
      BY <2>1, <3>2 DEF RunInv, Tracked, Over, Unread
    <3> QED BY <2>2, <3>1, <3>3 DEF RunInv
  <2>5. CASE acks[sub[c]] = "error" /\ End(c)
    <3>1. sub[c] \notin stuck => Over(sub[c])
      BY <2>1, <2>3, <2>5 DEF RunInv, RunApplied, ErrorIsRejected, Over
    <3>2. Tracked'
      BY <1>0, <2>1, <2>5, <3>1, Ends DEF RunInv, Unread
    <3>3. RequestsDecided'
      BY <1>0, <2>1, <2>5 DEF RunInv, RequestsDecided, Unread, End
    <3> QED BY <2>2, <3>2, <3>3 DEF RunInv
  <2> QED BY <1>2, <2>1, <2>4, <2>5 DEF ReadAck
<1>3. ASSUME NEW c \in Clients, GiveUp(c) PROVE RunInv'
  <2>1. /\ UNCHANGED <<place, stuck, acks, control, controlTmp, runId, ctlPc, decision, old>>
        /\ sub[c] \in Subs /\ End(c) /\ excused' = excused \cup {sub[c]}
    BY <1>0, <1>3 DEF GiveUp, fileVars, controlVars, batchVars, crashVars
  <2>2. RunApplied' /\ ErrorIsRejected'
    BY <2>1 DEF RunInv, RunApplied, ErrorIsRejected
  <2>3. Tracked'
    BY <1>0, <2>1, Ends DEF RunInv, Unread
  <2>4. RequestsDecided'
    BY <1>0, <2>1 DEF RunInv, RequestsDecided, Unread, End
  <2> QED BY <2>2, <2>3, <2>4 DEF RunInv
<1>4. ASSUME NEW c \in Clients, WriteClear(c) PROVE RunInv'
  <2>1. /\ UNCHANGED <<place, stuck, acks, control, runId, ctlPc, decision, old>>
        /\ clientPc[c] \in {"run", "wait"} /\ sub[c] \in Subs
    BY <1>0, <1>4 DEF WriteClear, fileVars, batchVars, crashVars
  <2>2. RunApplied' /\ ErrorIsRejected'
    BY <2>1 DEF RunInv, RunApplied, ErrorIsRejected
  <2>3. CASE UNCHANGED controlTmp /\ End(c) /\ excused' = excused \cup {sub[c]}
    <3>1. Tracked'
      BY <1>0, <2>1, <2>3, Ends DEF RunInv, Unread
    <3>2. RequestsDecided'
      BY <1>0, <2>1, <2>3 DEF RunInv, RequestsDecided, Unread, End
    <3> QED BY <2>2, <3>1, <3>2 DEF RunInv
  <2>4. CASE /\ controlTmp' = sub[c] /\ Step(c, "rename")
             /\ excused' = excused \cup (IF clientPc[c] = "wait" THEN {sub[c]} ELSE {})
                                   \cup ({controlTmp} \ {None})
    <3>1. /\ sub' = sub /\ clientPc' = [clientPc EXCEPT ![c] = "rename"]
          /\ excused \subseteq excused'
          /\ controlTmp \in excused' \cup {None}
      BY <2>4 DEF Step
    <3>2. RequestsDecided'
      <4> SUFFICES ASSUME NEW t \in Subs, t \notin excused', t \notin stuck',
                          \/ Unread(t)'
                          \/ controlTmp' = t
                          \/ \E d \in Clients : sub'[d] = t /\ clientPc'[d] \in {"run", "rename"}
                   PROVE  decision'[t] # "none"
        BY DEF RequestsDecided
      <4>1. sub[c] = t => clientPc[c] = "run"
        BY <2>1, <2>4
      <4>2. \/ Unread(t)
            \/ \E d \in Clients : sub[d] = t /\ clientPc[d] \in {"run", "rename"}
        BY <1>0, <2>1, <2>4, <3>1, <4>1 DEF Unread
      <4> QED BY <2>1, <3>1, <4>2 DEF RunInv, RequestsDecided
    <3>3. ASSUME NEW t \in Subs, t \notin excused', t \notin stuck', place'[t] # "none"
          PROVE  (Over(t) \/ Unread(t) \/ Held(t))'
      <4>1. Over(t) \/ Unread(t) \/ Held(t)
        BY <2>1, <3>1, <3>3 DEF RunInv, Tracked
      <4>2. ASSUME Held(t) PROVE Held(t)'
        <5>1. PICK d \in Clients :
                /\ sub[d] = t
                /\ clientPc[d] \in {"wait", "run"} \/ (clientPc[d] = "rename" /\ controlTmp = t)
          BY <4>2 DEF Held
        <5>2. clientPc[d] \in {"wait", "run"}
          BY <1>0, <3>1, <3>3, <5>1
        <5> QED BY <1>0, <2>4, <3>1, <5>1, <5>2 DEF Held
      <4> QED BY <2>1, <4>1, <4>2 DEF Over, Unread
    <3> QED BY <2>2, <3>2, <3>3 DEF RunInv, Tracked
  <2> QED BY <1>4, <2>3, <2>4 DEF WriteClear
<1>5. ASSUME NEW c \in Clients, RenameClear(c) PROVE RunInv'
  <2>1. /\ UNCHANGED <<place, stuck, acks, runId, ctlPc, decision, old>>
        /\ clientPc[c] = "rename" /\ sub[c] \in Subs /\ End(c)
    BY <1>0, <1>5 DEF RenameClear, fileVars, batchVars, crashVars
  <2>2. RunApplied' /\ ErrorIsRejected'
    BY <2>1 DEF RunInv, RunApplied, ErrorIsRejected
  <2>3. CASE controlTmp = None /\ UNCHANGED <<controlVars, excused>>
    <3>1. UNCHANGED <<control, controlTmp>>
      BY <2>3 DEF controlVars
    <3>2. Tracked'
      BY <1>0, <2>1, <2>3, <3>1, Ends DEF RunInv, Unread
    <3>3. RequestsDecided'
      BY <1>0, <2>1, <2>3, <3>1 DEF RunInv, RequestsDecided, Unread, End
    <3> QED BY <2>2, <3>2, <3>3 DEF RunInv
  <2>4. CASE /\ controlTmp # None
             /\ control' = ClearRequest(controlTmp) /\ controlTmp' = None
             /\ excused' = IF control.new \/ ctlPc = "load"
                           THEN excused \cup {control.run} ELSE excused
    <3>1. /\ control'.run = controlTmp /\ control'.new = TRUE
          /\ excused \subseteq excused'
          /\ control.new \/ ctlPc = "load" => control.run \in excused'
      BY <2>4 DEF ClearRequest
    <3>2. \A t \in Subs : t \notin excused' => ~Unread(t)
      BY <3>1 DEF Unread
    <3>3. \A t \in Subs : Unread(t)' <=> t = controlTmp
      BY <3>1 DEF Unread
    <3>4. RequestsDecided'
      BY <1>0, <2>1, <2>4, <3>1, <3>3 DEF RunInv, RequestsDecided, End
    <3>5. ASSUME NEW t \in Subs, t \notin excused', t \notin stuck', place'[t] # "none"
          PROVE  (Over(t) \/ Unread(t) \/ Held(t))'
      <4>1. Over(t) \/ Held(t)
        BY <2>1, <3>1, <3>2, <3>5 DEF RunInv, Tracked
      <4>2. ASSUME Held(t), t # controlTmp PROVE Held(t)'
        <5>1. PICK d \in Clients :
                /\ sub[d] = t
                /\ clientPc[d] \in {"wait", "run"} \/ (clientPc[d] = "rename" /\ controlTmp = t)
          BY <4>2 DEF Held
        <5>2. d # c /\ clientPc[d] \in {"wait", "run"}
          BY <2>1, <4>2, <5>1
        <5>3. sub'[d] = sub[d] /\ clientPc'[d] = clientPc[d]
          BY <1>0, <2>1, <5>2 DEF End
        <5> QED BY <5>1, <5>2, <5>3 DEF Held
      <4> QED BY <2>1, <3>3, <4>1, <4>2 DEF Over
    <3> QED BY <2>2, <3>4, <3>5 DEF RunInv, Tracked
  <2> QED BY <1>5, <2>3, <2>4 DEF RenameClear
<1>6. ASSUME UNCHANGED runVars PROVE RunInv'
  BY <1>6, RunUntouched
<1>7. CASE ListStale
  BY <1>6, <1>7 DEF ListStale, runVars, fileVars, controlVars, clientVars, crashVars
<1>8. ASSUME NEW s \in Subs, Archive(s), place[s] = "queue",
             UNCHANGED <<acks, control, controlTmp, runId, ctlPc, clientPc, sub, decision,
                         old, excused>>
      PROVE  RunInv'
  <2>1. stuck \subseteq stuck'
    BY <1>8 DEF Archive
  <2>2. \A t \in Subs : /\ place'[t] \in {"moved", "marked"} \/ place'[t] = place[t]
                        /\ place[t] \in {"moved", "marked"} => place'[t] = place[t]
    BY <1>0, <1>8 DEF Archive
  <2>3. RunApplied' /\ ErrorIsRejected' /\ RequestsDecided'
    BY <1>8, <2>1 DEF RunInv, RunApplied, ErrorIsRejected, RequestsDecided, Unread
  <2>4. \A t \in Subs : place'[t] # "none" => place[t] # "none"
    BY <1>0, <1>8 DEF Archive
  <2>5. \A t \in Subs : /\ Over(t) => Over(t)'
                        /\ Unread(t) => Unread(t)'
                        /\ Held(t) => Held(t)'
    BY <1>8, <2>2 DEF Over, Unread, Held
  <2>6. Tracked'
    BY <1>8, <2>1, <2>4, <2>5 DEF RunInv, Tracked
  <2> QED BY <2>3, <2>6 DEF RunInv
<1>9. CASE ArchiveStale
  <2>1. UNCHANGED <<acks, control, controlTmp, runId, ctlPc, clientPc, sub, decision,
                    old, excused>>
    BY <1>9 DEF ArchiveStale, controlVars, clientVars, crashVars
  <2>2. ASSUME NEW s \in stale, Archive(s) PROVE RunInv'
    BY <1>0, <1>8, <2>1, <2>2 DEF QueueInv, StaleQueued, TypeOK
  <2>3. CASE UNCHANGED fileVars
    BY <1>6, <2>1, <2>3 DEF runVars, fileVars
  <2> QED BY <1>9, <2>2, <2>3 DEF ArchiveStale
<1>10. CASE ArchiveBatch
  <2>1. UNCHANGED <<acks, control, controlTmp, runId, ctlPc, clientPc, sub, decision,
                    old, excused>>
    BY <1>10 DEF ArchiveBatch, controlVars, clientVars, crashVars
  <2>2. cur \in Subs /\ place[cur] = "queue" /\ Archive(cur)
    BY <1>0, <1>10 DEF ArchiveBatch, QueueInv, CurQueued, TypeOK
  <2> QED BY <1>8, <2>1, <2>2
<1>11. CASE DecideBatch
  <2>1. PICK s \in Listed :
          \/ runId' = s /\ decision' = [decision EXCEPT ![s] = "applied"]
          \/ runId' = runId /\ decision' = [decision EXCEPT ![s] = "rejected"]
    BY <1>11 DEF DecideBatch
  <2>2. /\ UNCHANGED <<place, stuck, acks, control, controlTmp, ctlPc, clientPc, sub, old,
                       excused>>
        /\ s \in Subs /\ place[s] = "queue" /\ batchPc = "list"
    BY <1>11, <2>1 DEF DecideBatch, Listed, fileVars, controlVars, clientVars, crashVars
  <2>3. s \notin stuck => s \notin old /\ decision[s] = "none" /\ acks[s] = "none"
    BY <2>2 DEF QueueInv, DecidedInHand, InHand, AckedIsDecided
  <2>4. \A t \in Subs : /\ t # s => decision'[t] = decision[t]
                        /\ decision[t] # "none" => decision'[t] # "none"
    BY <1>0, <2>1, <2>2
  <2>5. RunApplied'
    BY <1>0, <2>1, <2>2, <2>3 DEF RunInv, RunApplied
  <2>6. ErrorIsRejected'
    BY <2>2, <2>3, <2>4 DEF RunInv, ErrorIsRejected
  <2>7. RequestsDecided'
    BY <2>2, <2>4 DEF RunInv, RequestsDecided, Unread
  <2>8. \A t \in Subs \ stuck : Over(t) => Over(t)'
    BY <2>1, <2>2, <2>3, <2>4 DEF Over
  <2>9. \A t \in Subs : Unread(t)' = Unread(t) /\ Held(t)' = Held(t)
    BY <2>2 DEF Unread, Held
  <2>10. Tracked'
    BY <2>2, <2>8, <2>9 DEF RunInv, Tracked
  <2> QED BY <2>5, <2>6, <2>7, <2>10 DEF RunInv
<1>12. CASE AckBatch
  <2>1. /\ UNCHANGED <<place, stuck, control, controlTmp, runId, ctlPc, clientPc, sub,
                       decision, old, excused>>
        /\ cur \in Subs /\ batchPc = "ack"
        /\ acks' = [acks EXCEPT ![cur] = outcome] \/ acks' = acks
    BY <1>0, <1>12 DEF AckBatch, TypeOK, fileVars, controlVars, clientVars, crashVars
  <2>2. cur \notin stuck /\ outcome = "error" => decision[cur] = "rejected"
    BY <2>1 DEF QueueInv, AckIsTrue
  <2>3. ErrorIsRejected'
    BY <1>0, <2>1, <2>2 DEF RunInv, ErrorIsRejected
  <2>4. RunApplied' /\ RequestsDecided' /\ Tracked'
    BY <2>1 DEF RunInv, RunApplied, RequestsDecided, Tracked, Over, Unread, Held
  <2> QED BY <2>3, <2>4 DEF RunInv
<1>13. CASE SeedControl
  <2>1. /\ UNCHANGED <<place, stuck, acks, controlTmp, runId, clientPc, sub, decision, old>>
        /\ ctlPc = "seed" /\ ctlPc' = "watch"
        /\ control' = [control EXCEPT !.new = FALSE]
        /\ excused' = IF control.new THEN excused \cup {control.run} ELSE excused
    BY <1>13 DEF SeedControl, fileVars, batchVars, crashVars
  <2>2. control'.new = FALSE
    BY <1>0, <2>1 DEF TypeOK
  <2>3. /\ excused \subseteq excused'
        /\ \A t \in Subs : /\ ~Unread(t)'
                           /\ Unread(t) => t \in excused'
                           /\ Over(t)' = Over(t) /\ Held(t)' = Held(t)
    BY <2>1, <2>2 DEF Unread, Over, Held
  <2>4. RunApplied' /\ ErrorIsRejected'
    BY <2>1 DEF RunInv, RunApplied, ErrorIsRejected
  <2>5. RequestsDecided'
    BY <2>1, <2>3 DEF RunInv, RequestsDecided
  <2>6. Tracked'
    BY <2>1, <2>3 DEF RunInv, Tracked
  <2> QED BY <2>4, <2>5, <2>6 DEF RunInv
<1>14. CASE PollControl
  <2>1. /\ UNCHANGED <<place, stuck, acks, controlTmp, runId, clientPc, sub, decision, old,
                       excused>>
        /\ control.new /\ ctlPc' = "load" /\ control' = [control EXCEPT !.new = FALSE]
    BY <1>14 DEF PollControl, fileVars, batchVars, clientVars, crashVars
  <2>2. control'.run = control.run
    BY <1>0, <2>1 DEF TypeOK
  <2>3. \A t \in Subs : /\ Unread(t)' = Unread(t)
                        /\ Over(t)' = Over(t) /\ Held(t)' = Held(t)
    BY <2>1, <2>2 DEF Unread, Over, Held
  <2>4. RunApplied' /\ ErrorIsRejected'
    BY <2>1 DEF RunInv, RunApplied, ErrorIsRejected
  <2>5. RequestsDecided'
    BY <2>1, <2>3 DEF RunInv, RequestsDecided
  <2>6. Tracked'
    BY <2>1, <2>3 DEF RunInv, Tracked
  <2> QED BY <2>4, <2>5, <2>6 DEF RunInv
<1>15. CASE LoadControl
  <2>1. /\ UNCHANGED <<place, stuck, acks, control, controlTmp, clientPc, sub, decision, old,
                       excused>>
        /\ ctlPc = "load" /\ ctlPc' = "watch" /\ control.run \in Subs
        /\ runId' \in {runId, None} /\ runId' # control.run
    BY <1>0, <1>15 DEF LoadControl, Cleared, fileVars, controlVars, batchVars, clientVars,
                       crashVars
  <2>2. RunApplied' /\ ErrorIsRejected'
    BY <1>0, <2>1 DEF RunInv, RunApplied, ErrorIsRejected
  <2>3. RequestsDecided'
    BY <2>1 DEF RunInv, RequestsDecided, Unread
  <2>4. \A t \in Subs \ (excused \cup stuck) : Unread(t) => Over(t)'
    BY <2>1 DEF RunInv, RequestsDecided, Unread, Over
  <2>5. \A t \in Subs : /\ Over(t) => Over(t)'
                        /\ Held(t)' = Held(t)
    BY <1>0, <2>1 DEF Over, Held
  <2>6. Tracked'
    BY <2>1, <2>4, <2>5 DEF RunInv, Tracked
  <2> QED BY <2>2, <2>3, <2>6 DEF RunInv
<1>16. CASE Crash
  <2>1. /\ UNCHANGED <<place, stuck, acks, control, controlTmp, decision, excused>>
        /\ runId' = None /\ old' = old \cup Listed /\ ctlPc' = "seed"
        /\ clientPc' = [clientPc EXCEPT !["runner"] = "idle"]
        /\ sub' = [sub EXCEPT !["runner"] = None]
    BY <1>16 DEF Crash, fileVars, controlVars
  <2>2. RunApplied' /\ ErrorIsRejected'
    BY <1>0, <2>1 DEF RunInv, RunApplied, ErrorIsRejected
  <2>3. \A t \in Subs : Unread(t)' => Unread(t)
    BY <2>1 DEF Unread
  <2>4. \A c \in Clients : clientPc'[c] \in {"run", "rename"} =>
                             clientPc'[c] = clientPc[c] /\ sub'[c] = sub[c]
    BY <1>0, <2>1
  <2>5. RequestsDecided'
    BY <2>1, <2>3, <2>4 DEF RunInv, RequestsDecided
  <2>6. \A t \in Subs : place'[t] # "none" => Over(t)'
    BY <1>0, <2>1 DEF Over, Listed
  <2> QED BY <2>2, <2>5, <2>6 DEF RunInv, Tracked
<1>17. CASE UNCHANGED vars
  BY <1>6, <1>17 DEF vars, runVars, fileVars, controlVars, batchVars, clientVars, crashVars
<1> QED BY <1>1, <1>2, <1>3, <1>4, <1>5, <1>7, <1>9, <1>10, <1>11, <1>12, <1>13, <1>14,
           <1>15, <1>16, <1>17 DEF Next, Client, BatchLoop, ControlLoop

LEMMA RunInvariant == Spec => [](QueueInv /\ RunInv)
<1>1. QueueInv /\ RunInv /\ [Next]_vars => (QueueInv /\ RunInv)'
  BY QueueStep, TypeStep, RunStep DEF QueueInv
<1> QED BY QueueInit, RunInit, <1>1, PTL DEF Spec

(* A current run whose client is gone was given up, or its request was lost, *)
(* or its payload could be neither moved nor marked: as long as none of that *)
(* happens, the run is cleared whatever the two clients overwrite or rename, *)
(* for any number of submissions and crashes.                                *)
THEOREM RunsEnd == Spec => []RunEndsWithClient
<1>1. QueueInv /\ RunInv => RunEndsWithClient
  <2> SUFFICES ASSUME QueueInv, RunInv, runId # None, ctlPc = "watch", ~control.new,
                      \A c \in Clients : sub[c] # runId,
                      runId \notin excused \cup stuck
               PROVE  FALSE
    BY DEF RunEndsWithClient
  <2>1. runId \in Subs
    BY DEF QueueInv, TypeOK
  <2>2. place[runId] # "none"
    BY <2>1 DEF QueueInv, NoTrace, Undecided, RunInv, RunApplied
  <2> QED BY <2>1, <2>2 DEF RunInv, Tracked, Over, Unread, Held
<1> QED BY <1>1, RunInvariant, PTL

-----------------------------------------------------------------------------
(* TrialRunner.                                                            *)

TaskPcs == {"none", "begin", "child", "drain", "ack", "run", "ended"}

(* Processes and the active job are records with at least these fields.      *)
Shapes ==
  /\ task \in [Jobs -> TaskPcs]
  /\ DOMAIN driver = Jobs /\ \A p \in Jobs : "pc" \in DOMAIN driver[p]
  /\ {"id", "state"} \subseteq DOMAIN active
  /\ nextId \in Nat \ {0}

(* A number that was not given out has no task; the task that is alive is    *)
(* the active job's; a process runs only while its job's task waits for it.  *)
FreshIds == \A j \in Jobs : j >= nextId => task[j] = "none"
AliveIsActive == \A j \in Jobs : Alive(j) <=> active.id = j /\ Running
RunsInChild == \A j \in Jobs : IsRunning(j) => task[j] = "child"

JobInv == Shapes /\ FreshIds /\ AliveIsActive /\ RunsInChild

LEMMA JobInit == RunnerInit => JobInv
BY DriversAreJobs DEF RunnerInit, DriverInit, NotStarted, NoJob, JobInv, Shapes, TaskPcs, FreshIds,
   AliveIsActive, Alive, Running, RunsInChild, IsRunning

(* The steps of a process start none, and leave the others alone.            *)
LEMMA DriverSteps ==
  ASSUME Shapes, NEW j \in Jobs, DriverStep(j)
  PROVE  /\ DOMAIN driver' = Jobs /\ \A p \in Jobs : "pc" \in DOMAIN driver'[p]
         /\ \A p \in Jobs : IsRunning(p)' => IsRunning(p)
<1> USE DEF Shapes
<1>1. ASSUME NEW how, Exits(j, how), driver[j].pc \in {"load", "submit", "run", "truncate", "write"}
      PROVE  /\ DOMAIN driver' = Jobs /\ \A p \in Jobs : "pc" \in DOMAIN driver'[p]
             /\ \A p \in Jobs : IsRunning(p)' => IsRunning(p)
  BY <1>1 DEF Exits, NotStarted, IsRunning
<1>2. CASE Load(j)
  BY <1>2 DEF Load, IsRunning
<1>3. CASE SubmitScout(j)
  BY <1>1, <1>3 DEF SubmitScout, Goes, IsRunning
<1>4. CASE QueryRun(j)
  BY <1>1, <1>4 DEF QueryRun, IsRunning
<1>5. CASE Truncate(j)
  BY <1>1, <1>5 DEF Truncate, Goes, IsRunning
<1>6. CASE Save(j)
  BY <1>1, <1>6 DEF Save, IsRunning
<1> QED BY <1>2, <1>3, <1>4, <1>5, <1>6 DEF DriverStep

LEMMA Killed ==
  ASSUME Shapes, NEW j \in Jobs, Kill(j)
  PROVE  /\ DOMAIN driver' = Jobs /\ \A p \in Jobs : "pc" \in DOMAIN driver'[p]
         /\ ~IsRunning(j)' /\ \A p \in Jobs : IsRunning(p)' => IsRunning(p)
BY DEF Shapes, Kill, Exits, NotStarted, IsRunning

LEMMA Started ==
  ASSUME Shapes, NEW j \in Jobs, NEW cycles, StartDriver(j, cycles)
  PROVE  /\ DOMAIN driver' = Jobs /\ \A p \in Jobs : "pc" \in DOMAIN driver'[p]
         /\ \A p \in Jobs \ {j} : IsRunning(p)' => IsRunning(p)
BY DEF Shapes, StartDriver, NotStarted, IsRunning

(* A task that ends was the active job's, which ends with it.                *)
LEMMA Finishes ==
  ASSUME JobInv, NEW j \in Jobs, Alive(j), ~IsRunning(j), NEW state, state # "running",
         FinishJob(j, state), UNCHANGED driver
  PROVE  JobInv'
<1>1. active.id = j /\ Running
  BY DEF JobInv, AliveIsActive
<1>2. active' = [active EXCEPT !.state = state] /\ nextId' = nextId
  BY <1>1 DEF FinishJob
<1>3. active'.id = j /\ active'.state = state /\ {"id", "state"} \subseteq DOMAIN active'
  BY <1>1, <1>2 DEF JobInv, Shapes
<1>4. task' = [task EXCEPT ![j] = "ended"]
  BY DEF FinishJob
<1>5. Shapes' /\ FreshIds'
  BY <1>2, <1>3, <1>4 DEF JobInv, Shapes, TaskPcs, FreshIds, Alive
<1>6. AliveIsActive'
  BY <1>1, <1>3, <1>4 DEF JobInv, Shapes, AliveIsActive, Alive, Running
<1>7. RunsInChild'
  BY <1>4 DEF JobInv, Shapes, RunsInChild, IsRunning
<1> QED BY <1>5, <1>6, <1>7 DEF JobInv

(* A task that goes on without a process of its own running stays the one.   *)
LEMMA GoesOn ==
  ASSUME JobInv, NEW j \in Jobs, Alive(j), ~IsRunning(j)',
         NEW pc \in TaskPcs \ {"none", "ended"}, GoesTo(j, pc), UNCHANGED <<active, nextId>>,
         DOMAIN driver' = Jobs, \A p \in Jobs : "pc" \in DOMAIN driver'[p],
         \A p \in Jobs \ {j} : IsRunning(p)' => IsRunning(p)
  PROVE  JobInv'
<1>1. Shapes' /\ FreshIds'
  BY DEF GoesTo, JobInv, Shapes, TaskPcs, FreshIds, Alive
<1>2. AliveIsActive'
  BY DEF GoesTo, JobInv, Shapes, TaskPcs, AliveIsActive, Alive, Running
<1>3. RunsInChild'
  BY DEF GoesTo, JobInv, Shapes, RunsInChild
<1> QED BY <1>1, <1>2, <1>3 DEF JobInv

LEMMA JobStep == JobInv /\ [RunnerNext]_runnerVars => JobInv'
<1> SUFFICES ASSUME JobInv, [RunnerNext]_runnerVars PROVE JobInv'
  OBVIOUS
<1>a. ASSUME UNCHANGED <<task, driver, active, nextId>> PROVE JobInv'
  BY <1>a DEF JobInv, Shapes, FreshIds, AliveIsActive, Alive, Running, RunsInChild, IsRunning
<1>b. \A j \in Jobs : task[j] \in {"begin", "drain", "ack", "run"} => Alive(j) /\ ~IsRunning(j)
  BY DEF JobInv, RunsInChild, Alive
<1>1. ASSUME NEW c \in Callers, NEW req \in Requests, StartCheck(c, req) PROVE JobInv'
  BY <1>1, <1>a DEF StartCheck, innerVars, taskVars, childVars
<1>2. ASSUME NEW c \in Callers, StartValidate(c) PROVE JobInv'
  BY <1>2, <1>a DEF StartValidate, innerVars, taskVars, childVars
<1>3. ASSUME NEW c \in Callers, StartCommit(c) PROVE JobInv'
  <2>1. CASE Running
    BY <1>3, <2>1, <1>a DEF StartCommit, innerVars, taskVars, childVars
  <2>2. CASE ~Running
    <3>1. /\ nextId <= MaxJobs /\ Commit(c) /\ UNCHANGED driver
      BY <1>3, <2>2 DEF StartCommit, childVars
    <3>2. /\ active' = [id |-> nextId, phase |-> request[c].phase, state |-> "running"]
          /\ nextId' = nextId + 1 /\ task' = [task EXCEPT ![nextId] = "begin"]
      BY <3>1 DEF Commit
    <3>3. nextId \in Jobs /\ task[nextId] = "none"
      BY <3>1, DriversAreJobs DEF JobInv, Shapes, FreshIds, Jobs
    <3>4. active'.id = nextId /\ active'.state = "running" /\ {"id", "state"} \subseteq DOMAIN active'
      BY <3>2
    <3>5. Shapes'
      <4>1. task' \in [Jobs -> TaskPcs]
        BY <3>2 DEF JobInv, Shapes, TaskPcs
      <4>2. nextId' \in Nat \ {0}
        BY <3>2 DEF JobInv, Shapes
      <4> QED BY <3>1, <3>4, <4>1, <4>2 DEF JobInv, Shapes
    <3>6. FreshIds'
      BY <3>2, DriversAreJobs DEF JobInv, Shapes, FreshIds, Jobs
    <3>7. AliveIsActive'
      BY <2>2, <3>2, <3>3, <3>4 DEF JobInv, Shapes, AliveIsActive, Alive, Running
    <3>8. RunsInChild'
      BY <3>1, <3>2, <3>3 DEF JobInv, Shapes, RunsInChild, IsRunning
    <3> QED BY <3>5, <3>6, <3>7, <3>8 DEF JobInv
  <2> QED BY <2>1, <2>2
<1>4. ASSUME Stop PROVE JobInv'
  BY <1>4, <1>a DEF Stop, taskVars, childVars
<1>5. ASSUME NEW j \in Jobs, ScoutSpawn(j) PROVE JobInv'
  <2>1. CASE StartDriver(j, options[j].length) /\ GoesTo(j, "child") /\ UNCHANGED innerVars
    <3>1. /\ DOMAIN driver' = Jobs /\ \A p \in Jobs : "pc" \in DOMAIN driver'[p]
          /\ \A p \in Jobs \ {j} : IsRunning(p)' => IsRunning(p)
      BY <2>1, Started DEF JobInv
    <3>2. task[j] = "begin" /\ task' = [task EXCEPT ![j] = "child"] /\ UNCHANGED <<active, nextId>>
      BY <1>5, <2>1 DEF ScoutSpawn, GoesTo, innerVars
    <3>3. Shapes' /\ FreshIds'
      BY <3>1, <3>2 DEF JobInv, Shapes, TaskPcs, FreshIds
    <3>4. AliveIsActive'
      BY <3>2 DEF JobInv, Shapes, AliveIsActive, Alive, Running
    <3>5. RunsInChild'
      BY <3>1, <3>2 DEF JobInv, Shapes, RunsInChild
    <3> QED BY <3>3, <3>4, <3>5 DEF JobInv
  <2>2. CASE FinishJob(j, "failed") /\ UNCHANGED driver
    BY <1>5, <1>b, <2>2, Finishes DEF ScoutSpawn
  <2> QED BY <1>5, <2>1, <2>2 DEF ScoutSpawn
<1>6. ASSUME NEW j \in Jobs, ReadLine(j) \/ ChildWrites(j) PROVE JobInv'
  BY <1>6, <1>a DEF ReadLine, ChildWrites, innerVars, taskVars
<1>7. ASSUME NEW j \in Jobs, ScoutWait(j) PROVE JobInv'
  <2>1. task[j] = "child" /\ GoesTo(j, "drain") /\ UNCHANGED <<active, nextId>>
    BY <1>7 DEF ScoutWait
  <2>2. /\ DOMAIN driver' = Jobs /\ \A p \in Jobs : "pc" \in DOMAIN driver'[p]
        /\ ~IsRunning(j)' /\ \A p \in Jobs : IsRunning(p)' => IsRunning(p)
    <3>1. CASE ~IsRunning(j) /\ UNCHANGED driver
      BY <3>1 DEF JobInv, Shapes, IsRunning
    <3>2. CASE Kill(j)
      BY <3>2, Killed DEF JobInv
    <3> QED BY <1>7, <3>1, <3>2 DEF ScoutWait
  <2> QED BY <2>1, <2>2, GoesOn DEF Alive, TaskPcs
<1>8. ASSUME NEW j \in Jobs, ScoutDrain(j) PROVE JobInv'
  <2>1. PICK state \in Outcomes(j) : FinishJob(j, state)
    BY <1>8 DEF ScoutDrain
  <2>2. state # "running"
    BY <2>1 DEF Outcomes
  <2> QED BY <1>8, <1>b, <2>1, <2>2, Finishes DEF ScoutDrain, childVars
<1>9. ASSUME NEW j \in Jobs, ChildSteps(j) PROVE JobInv'
  <2>1. UNCHANGED <<task, active, nextId>>
    BY <1>9 DEF ChildSteps, innerVars, taskVars
  <2>2. /\ DOMAIN driver' = Jobs /\ \A p \in Jobs : "pc" \in DOMAIN driver'[p]
        /\ \A p \in Jobs : IsRunning(p)' => IsRunning(p)
    BY <1>9, DriverSteps DEF ChildSteps, JobInv
  <2> QED BY <2>1, <2>2 DEF JobInv, Shapes, FreshIds, AliveIsActive, Alive, Running, RunsInChild
<1>10. ASSUME NEW j \in Jobs, ForwardQueue(j) \/ ForwardAck(j) \/ ForwardEnds(j) \/ ForwardStops(j)
       PROVE  JobInv'
  <2>1. task[j] \in {"begin", "ack", "run"} /\ UNCHANGED driver
    BY <1>10 DEF ForwardQueue, ForwardAck, ForwardEnds, ForwardStops, childVars
  <2>2. Alive(j) /\ ~IsRunning(j)
    BY <1>b, <2>1
  <2>3. CASE \E state \in {"success", "failed", "stopped"} : FinishJob(j, state)
    BY <2>1, <2>2, <2>3, Finishes
  <2>4. ASSUME NEW pc \in {"ack", "run"}, GoesTo(j, pc), UNCHANGED innerVars PROVE JobInv'
    <3>1. /\ DOMAIN driver' = Jobs /\ \A p \in Jobs : "pc" \in DOMAIN driver'[p]
          /\ ~IsRunning(j)' /\ \A p \in Jobs : IsRunning(p)' => IsRunning(p)
      BY <2>1, <2>2 DEF JobInv, Shapes, IsRunning
    <3>2. pc \in TaskPcs \ {"none", "ended"} /\ UNCHANGED <<active, nextId>>
      BY <2>4 DEF TaskPcs, innerVars
    <3> QED BY <2>2, <2>4, <3>1, <3>2, GoesOn
  <2> QED BY <1>10, <2>3, <2>4 DEF ForwardQueue, ForwardAck, ForwardEnds, ForwardStops
<1>11. ASSUME UNCHANGED runnerVars PROVE JobInv'
  BY <1>11, <1>a DEF runnerVars, innerVars, taskVars, childVars
<1> QED
  BY <1>1, <1>2, <1>3, <1>4, <1>5, <1>6, <1>7, <1>8, <1>9, <1>10, <1>11 DEF RunnerNext, Scout

(* However many requests race between the two looks of start, there is one   *)
(* job at a time, and no process outlives its job's task.                    *)
THEOREM OneJob == RunnerSpec => []OneJobAtATime
<1>1. JobInv => OneJobAtATime
  BY DEF JobInv, AliveIsActive, RunsInChild, OneJobAtATime, Alive
<1> QED BY JobInit, JobStep, <1>1, PTL DEF RunnerSpec
-----------------------------------------------------------------------------
(* The log of a job that is over.                                            *)

Lines == {"starting", "line", "stop requested", "summary"}
Entry == [job : Nat, line : Lines]

(* What a process wrote is unread only while its task waits for it, and the  *)
(* log is the active job's from the day it starts; a summary ends it.        *)
UnreadOfChild ==
  /\ unread \in [Jobs -> Nat]
  /\ \A j \in Jobs : unread[j] > 0 => task[j] \in {"child", "drain"}
LogOfActive ==
  /\ logs \in Seq(Entry)
  /\ active # NoJob =>
       /\ logs # <<>>
       /\ \A i \in DOMAIN logs : logs[i].job = active.id
       /\ ~Running => Last(logs) = [job |-> active.id, line |-> "summary"]

LogInv == UnreadOfChild /\ LogOfActive

LEMMA LogInit == RunnerInit => LogInv
BY DEF RunnerInit, LogInv, UnreadOfChild, LogOfActive

(* Trimming keeps the end of a log.                                          *)
LEMMA TrimmedLog ==
  ASSUME NEW s \in Seq(Entry), s # <<>>, NEW n \in Nat, \A i \in DOMAIN s : s[i].job = n
  PROVE  /\ Trimmed(s, MaxLogs) \in Seq(Entry) /\ Trimmed(s, MaxLogs) # <<>>
         /\ \A i \in DOMAIN Trimmed(s, MaxLogs) : Trimmed(s, MaxLogs)[i].job = n
         /\ Last(Trimmed(s, MaxLogs)) = Last(s)
<1> DEFINE from == Larger(1, Len(s) - MaxLogs + 1)
           t == SubSeq(s, from, Len(s))
<1>1. MaxLogs \in Nat /\ MaxLogs >= 1 /\ Len(s) \in Nat /\ Len(s) >= 1
  BY CapsArePositive
<1>2. from \in 1 .. Len(s)
  BY <1>1 DEF Larger
<1> HIDE DEF from
<1>3. \A i \in from .. Len(s) : s[i] \in Entry
  BY <1>1, <1>2
<1>4. /\ t \in Seq(Entry)
      /\ Len(t) = Len(s) - from + 1
      /\ \A i \in 1 .. Len(s) - from + 1 : t[i] = s[from + i - 1]
  BY <1>1, <1>2, <1>3, SubSeqProperties
<1> HIDE DEF t
<1>5. t # <<>> /\ DOMAIN t = 1 .. Len(s) - from + 1
  BY <1>1, <1>2, <1>4
<1>6. \A i \in DOMAIN t : t[i].job = n
  <2>1. \A i \in DOMAIN t : from + i - 1 \in DOMAIN s /\ t[i] = s[from + i - 1]
    BY <1>1, <1>2, <1>4, <1>5
  <2> QED BY <2>1
<1>7. Last(t) = Last(s)
  <2>1. Len(t) \in 1 .. Len(s) - from + 1 /\ from + Len(t) - 1 = Len(s)
    BY <1>1, <1>2, <1>4
  <2> QED BY <1>4, <2>1 DEF Last
<1>8. Trimmed(s, MaxLogs) = t
  BY DEF Trimmed, t, from
<1> QED BY <1>4, <1>5, <1>6, <1>7, <1>8

(* A line appended to the active job's log is its last one.                  *)
LEMMA AppendedLog ==
  ASSUME LogOfActive, NEW j \in Jobs, active.id = j, active # NoJob, NEW line \in Lines,
         AppendLog(j, line)
  PROVE  /\ logs' \in Seq(Entry) /\ logs' # <<>>
         /\ \A i \in DOMAIN logs' : logs'[i].job = j
         /\ Last(logs') = [job |-> j, line |-> line]
<1> DEFINE entry == [job |-> j, line |-> line]
           s == Append(logs, entry)
<1>1. entry \in Entry /\ j \in Nat /\ entry.job = j
  BY DriversAreJobs DEF Entry, Jobs
<1>2. logs \in Seq(Entry) /\ \A i \in DOMAIN logs : logs[i].job = j
  BY DEF LogOfActive
<1> HIDE DEF entry
<1>3. s \in Seq(Entry) /\ s # <<>> /\ Len(s) = Len(logs) + 1 /\ s[Len(s)] = entry
  BY <1>1, <1>2
<1>4. \A i \in DOMAIN s : s[i].job = j
  BY <1>1, <1>2, <1>3
<1>5. logs' = Trimmed(s, MaxLogs)
  BY DEF AppendLog, entry
<1>6. Last(s) = entry
  BY <1>3 DEF Last
<1> HIDE DEF s
<1>7. /\ Trimmed(s, MaxLogs) \in Seq(Entry) /\ Trimmed(s, MaxLogs) # <<>>
      /\ \A i \in DOMAIN Trimmed(s, MaxLogs) : Trimmed(s, MaxLogs)[i].job = j
      /\ Last(Trimmed(s, MaxLogs)) = Last(s)
  BY <1>1, <1>3, <1>4, TrimmedLog
<1> QED BY <1>5, <1>6, <1>7 DEF entry

(* The active job of a task that is alive is no NoJob.                       *)
LEMMA ActiveOfAlive ==
  ASSUME JobInv, NEW j \in Jobs, Alive(j)
  PROVE  active.id = j /\ Running /\ active # NoJob
BY DEF JobInv, AliveIsActive, Running, NoJob

(* A job that ends has nothing unread, and a summary.                        *)
LEMMA FinishesLog ==
  ASSUME JobInv, LogInv, NEW j \in Jobs, Alive(j), unread[j] = 0, NEW state, state # "running",
         FinishJob(j, state), UNCHANGED unread
  PROVE  LogInv'
<1>1. active.id = j /\ Running /\ active # NoJob
  BY ActiveOfAlive
<1>2. /\ active' = [active EXCEPT !.state = state] /\ AppendLog(j, "summary")
      /\ task' = [task EXCEPT ![j] = "ended"]
  BY <1>1 DEF FinishJob
<1>3. active'.id = j
  BY <1>1, <1>2 DEF JobInv, Shapes
<1>4. /\ logs' \in Seq(Entry) /\ logs' # <<>>
      /\ \A i \in DOMAIN logs' : logs'[i].job = j
      /\ Last(logs') = [job |-> j, line |-> "summary"]
  BY <1>1, <1>2, AppendedLog DEF LogInv, Lines
<1>5. LogOfActive'
  BY <1>3, <1>4 DEF LogOfActive
<1>6. UnreadOfChild'
  BY <1>2 DEF LogInv, UnreadOfChild, JobInv, Shapes
<1> QED BY <1>5, <1>6 DEF LogInv

(* A line of a job whose task is alive.                                      *)
LEMMA AppendsLine ==
  ASSUME JobInv, LogInv, NEW j \in Jobs, Alive(j), NEW line \in Lines,
         AppendLog(j, line), UNCHANGED active
  PROVE  LogOfActive'
<1>1. active.id = j /\ Running /\ active # NoJob
  BY ActiveOfAlive
<1>2. /\ logs' \in Seq(Entry) /\ logs' # <<>>
      /\ \A i \in DOMAIN logs' : logs'[i].job = j
  BY <1>1, AppendedLog DEF LogInv
<1> QED BY <1>1, <1>2 DEF LogOfActive, Running

LEMMA LogStep == JobInv /\ LogInv /\ [RunnerNext]_runnerVars => LogInv'
<1> SUFFICES ASSUME JobInv, LogInv, [RunnerNext]_runnerVars PROVE LogInv'
  OBVIOUS
<1>a. ASSUME UNCHANGED <<active, logs>> PROVE LogOfActive'
  BY <1>a DEF LogInv, LogOfActive, Running
<1>b. ASSUME UNCHANGED <<task, unread>> PROVE UnreadOfChild'
  BY <1>b DEF LogInv, UnreadOfChild
<1>c. \A j \in Jobs : task[j] \in {"begin", "child", "drain", "ack", "run"} => Alive(j)
  BY DEF Alive
<1>d. \A j \in Jobs : task[j] \in {"begin", "ack", "run"} => unread[j] = 0
  BY DEF LogInv, UnreadOfChild
<1>1. ASSUME NEW c \in Callers, NEW req \in Requests, StartCheck(c, req) PROVE LogInv'
  BY <1>1, <1>a, <1>b DEF StartCheck, innerVars, taskVars, childVars, LogInv
<1>2. ASSUME NEW c \in Callers, StartValidate(c) PROVE LogInv'
  BY <1>2, <1>a, <1>b DEF StartValidate, innerVars, taskVars, childVars, LogInv
<1>3. ASSUME NEW c \in Callers, StartCommit(c) PROVE LogInv'
  <2>1. CASE Running
    BY <1>3, <2>1, <1>a, <1>b DEF StartCommit, innerVars, taskVars, childVars, LogInv
  <2>2. CASE ~Running
    <3>1. nextId <= MaxJobs /\ Commit(c) /\ UNCHANGED unread
      BY <1>3, <2>2 DEF StartCommit, childVars
    <3>2. /\ active' = [id |-> nextId, phase |-> request[c].phase, state |-> "running"]
          /\ logs' = <<[job |-> nextId, line |-> "starting"]>>
          /\ task' = [task EXCEPT ![nextId] = "begin"]
      BY <3>1 DEF Commit
    <3>3. nextId \in Jobs /\ nextId \in Nat /\ task[nextId] = "none"
      BY <3>1, DriversAreJobs DEF JobInv, Shapes, FreshIds, Jobs
    <3>4. [job |-> nextId, line |-> "starting"] \in Entry
      BY <3>3 DEF Entry, Lines
    <3>5. active'.id = nextId /\ active'.state = "running"
      BY <3>2
    <3>6. LogOfActive'
      BY <3>2, <3>4, <3>5 DEF LogOfActive, Running
    <3>7. UnreadOfChild'
      BY <3>1, <3>2, <3>3 DEF LogInv, UnreadOfChild, JobInv, Shapes
    <3> QED BY <3>6, <3>7 DEF LogInv
  <2> QED BY <2>1, <2>2
<1>4. ASSUME Stop PROVE LogInv'
  BY <1>4, <1>a, <1>b DEF Stop, taskVars, childVars, LogInv
<1>5. ASSUME NEW j \in Jobs, ScoutSpawn(j) PROVE LogInv'
  <2>1. CASE GoesTo(j, "child") /\ UNCHANGED innerVars
    BY <1>5, <2>1, <1>a DEF ScoutSpawn, GoesTo, innerVars, LogInv, UnreadOfChild, JobInv, Shapes
  <2>2. CASE FinishJob(j, "failed")
    BY <1>5, <1>c, <1>d, <2>2, FinishesLog DEF ScoutSpawn
  <2> QED BY <1>5, <2>1, <2>2 DEF ScoutSpawn
<1>6. ASSUME NEW j \in Jobs, ReadLine(j) PROVE LogInv'
  <2>1. Alive(j)
    BY <1>6, <1>c DEF ReadLine, LogInv, UnreadOfChild
  <2>2. LogOfActive'
    <3>1. CASE AppendLog(j, "line")
      BY <1>6, <2>1, <3>1, AppendsLine DEF ReadLine, Lines
    <3>2. CASE UNCHANGED logs
      BY <1>6, <1>a, <3>2 DEF ReadLine
    <3> QED BY <1>6, <3>1, <3>2 DEF ReadLine
  <2>3. UnreadOfChild'
    BY <1>6 DEF ReadLine, LogInv, UnreadOfChild, taskVars
  <2> QED BY <2>2, <2>3 DEF LogInv
<1>7. ASSUME NEW j \in Jobs, ChildWrites(j) PROVE LogInv'
  <2>1. task[j] = "child"
    BY <1>7 DEF ChildWrites, JobInv, RunsInChild
  <2>2. UnreadOfChild'
    BY <1>7, <2>1 DEF ChildWrites, LogInv, UnreadOfChild, taskVars
  <2> QED BY <1>7, <1>a, <2>2 DEF ChildWrites, innerVars, LogInv
<1>8. ASSUME NEW j \in Jobs, ScoutWait(j) PROVE LogInv'
  <2>1. task[j] = "child" /\ GoesTo(j, "drain") /\ UNCHANGED <<active, unread>>
    BY <1>8 DEF ScoutWait
  <2>2. UnreadOfChild'
    BY <2>1 DEF GoesTo, LogInv, UnreadOfChild, JobInv, Shapes
  <2>3. CASE UNCHANGED logs
    BY <1>a, <2>1, <2>2, <2>3 DEF LogInv
  <2>4. CASE AppendLog(j, "stop requested")
    BY <1>c, <2>1, <2>2, <2>4, AppendsLine DEF LogInv, Lines
  <2> QED BY <1>8, <2>3, <2>4 DEF ScoutWait
<1>9. ASSUME NEW j \in Jobs, ScoutDrain(j) PROVE LogInv'
  <2>1. PICK state \in Outcomes(j) : FinishJob(j, state)
    BY <1>9 DEF ScoutDrain
  <2>2. state # "running"
    BY <2>1 DEF Outcomes
  <2> QED BY <1>9, <1>c, <2>1, <2>2, FinishesLog DEF ScoutDrain, childVars
<1>10. ASSUME NEW j \in Jobs, ChildSteps(j) PROVE LogInv'
  BY <1>10, <1>a, <1>b DEF ChildSteps, innerVars, taskVars, LogInv
<1>11. ASSUME NEW j \in Jobs, ForwardQueue(j) \/ ForwardAck(j) \/ ForwardEnds(j) \/ ForwardStops(j)
       PROVE  LogInv'
  <2>1. task[j] \in {"begin", "ack", "run"} /\ UNCHANGED unread
    BY <1>11 DEF ForwardQueue, ForwardAck, ForwardEnds, ForwardStops, childVars
  <2>2. CASE \E state \in {"success", "failed", "stopped"} : FinishJob(j, state)
    BY <1>c, <1>d, <2>1, <2>2, FinishesLog
  <2>3. ASSUME NEW pc \in {"ack", "run"}, GoesTo(j, pc), UNCHANGED innerVars PROVE LogInv'
    BY <1>a, <1>d, <2>1, <2>3 DEF GoesTo, innerVars, LogInv, UnreadOfChild, JobInv, Shapes
  <2> QED BY <1>11, <2>2, <2>3 DEF ForwardQueue, ForwardAck, ForwardEnds, ForwardStops
<1>12. ASSUME UNCHANGED runnerVars PROVE LogInv'
  BY <1>12, <1>a, <1>b DEF runnerVars, innerVars, taskVars, childVars, LogInv
<1> QED
  BY <1>1, <1>2, <1>3, <1>4, <1>5, <1>6, <1>7, <1>8, <1>9, <1>10, <1>11, <1>12 DEF RunnerNext, Scout

(* Whatever the order of a child's exit, its last lines and the next start,  *)
(* the log of a job that is over is its own, whole and ends with a summary.  *)
THEOREM LogComplete == RunnerSpec => []FinishedLogIsComplete
<1>1. JobInv /\ LogInv => FinishedLogIsComplete
  <2> SUFFICES ASSUME JobInv, LogInv, active # NoJob, ~Running
               PROVE  /\ Last(logs) = [job |-> active.id, line |-> "summary"]
                      /\ \A i \in DOMAIN logs : logs[i].job = active.id
                      /\ \A j \in Jobs : unread[j] = 0
    BY DEF FinishedLogIsComplete
  <2>1. \A j \in Jobs : ~Alive(j)
    BY DEF JobInv, AliveIsActive
  <2>2. \A j \in Jobs : unread[j] = 0
    BY <2>1 DEF LogInv, UnreadOfChild, Alive
  <2> QED BY <2>2 DEF LogInv, LogOfActive
<1> QED BY JobInit, JobStep, LogInit, LogStep, <1>1, PTL DEF RunnerSpec

-----------------------------------------------------------------------------
(* The references of the scouts: no merge loses a trade.                     *)

(* sum runs over the rows and ends with the trades of the config.            *)
TradeSums(sum, rows, id) ==
  /\ sum[0] = 0 /\ TradesOf(rows, id) = sum[Len(rows)]
  /\ \A k \in 1 .. Len(rows) :
       sum[k] = IF Counts(rows[k], id) THEN sum[k - 1] + rows[k].trades ELSE sum[k - 1]

(* The sums, run by run.                                                     *)
LEMMA TradesRun ==
  ASSUME NEW rows \in Seq(Row), NEW id
  PROVE  \E sum \in [0 .. Len(rows) -> Nat] : TradeSums(sum, rows, id)
<1> DEFINE Then(x, y) == IF Counts(y, id) THEN x + y.trades ELSE x
           n == Len(rows)
           T == Nat
           base == 0
           step == [k \in 1 .. n |-> [x \in T |-> Then(x, rows[k])]]
           Unrolls(it) == it = [s \in SUBSET (DOMAIN rows) |->
                              IF s = {} THEN base ELSE Then(it[s \ {Max(s)}], rows[Max(s)])]
           it == CHOOSE f : Unrolls(f)
<1>1. n \in Nat /\ DOMAIN rows = 1 .. n
  OBVIOUS
<1>2. base \in T
  OBVIOUS
<1>3. ASSUME NEW k \in 1 .. n, NEW x \in T PROVE Then(x, rows[k]) \in T
  <2> DEFINE row == rows[k]
  <2>1. row \in Row
    BY <1>1
  <2> HIDE DEF row
  <2>2. row.trades \in Nat /\ row.total \in Int
    BY <2>1 DEF Row
  <2>3. x + row.trades \in Nat
    BY <2>2
  <2> QED BY <2>3 DEF row

<1>4. TradesOf(rows, id) = it[1 .. n]
  BY <1>1 DEF TradesOf, FoldLeft, MapThenFoldSet
<1> HIDE DEF Then, T, base
<1>5. PICK f \in [SUBSET (1 .. n) -> T] : Folds(f, n, base, step)
  <2>1. step \in [1 .. n -> [T -> T]]
    BY <1>3
  <2> HIDE DEF step, n
  <2> QED BY <1>1, <1>2, <2>1, FoldRuns
<1>6. Unrolls(it)
  <2>1. ASSUME NEW s \in SUBSET (1 .. n), s # {}
        PROVE  step[Max(s)][f[s \ {Max(s)}]] = Then(f[s \ {Max(s)}], rows[Max(s)])
    <3>1. s \in SUBSET (0 .. n)
      BY <1>1
    <3>2. Max(s) \in 1 .. n
      BY <1>1, <2>1, <3>1, LastPosition
    <3> QED BY <3>2
  <2> HIDE DEF step, n
  <2>2. Unrolls(f)
    BY <1>1, <1>5, <2>1 DEF Folds
  <2> HIDE DEF Unrolls
  <2> QED BY <2>2
<1> HIDE DEF it
<1>7. it[1 .. 0] = base /\ \A k \in 1 .. n : it[1 .. k] = Then(it[1 .. k - 1], rows[k])
  <2>1. it[1 .. 0] = base
    BY <1>1, <1>6
  <2> SUFFICES ASSUME NEW k \in 1 .. n PROVE it[1 .. k] = Then(it[1 .. k - 1], rows[k])
    BY <2>1
  <2>2. 1 .. k \in SUBSET (1 .. n) /\ 1 .. k # {} /\ Max(1 .. k) = k /\ (1 .. k) \ {k} = 1 .. k - 1
    BY <1>1, Prefix
  <2> HIDE DEF n
  <2> QED BY <1>1, <1>6, <2>2
<1>8. \A k \in 0 .. n : it[1 .. k] \in T
  <2> DEFINE runs == [k \in 0 .. n |-> it[1 .. k]]
  <2>1. runs[0] \in T /\ \A k \in 1 .. n : runs[k - 1] \in T => runs[k] \in T
    <3> HIDE DEF n
    <3> QED BY <1>1, <1>2, <1>3, <1>7
  <2>2. \A k \in 0 .. n : runs[k] \in T
    <3> HIDE DEF runs, n
    <3> QED BY <1>1, <2>1, RunsTyped
  <2> QED BY <2>2
<1> DEFINE sum == [k \in 0 .. n |-> it[1 .. k]]
<1>9. 0 \in 0 .. n /\ n \in 0 .. n /\ \A k \in 1 .. n : k \in 0 .. n /\ k - 1 \in 0 .. n
  <2> HIDE DEF n
  <2> QED BY <1>1
<1>10. sum \in [0 .. n -> Nat] /\ sum[0] = 0 /\ TradesOf(rows, id) = sum[n]
  <2> HIDE DEF n, it
  <2> QED BY <1>4, <1>7, <1>8, <1>9 DEF T, base
<1>11. \A k \in 1 .. n : sum[k] = Then(sum[k - 1], rows[k])
  <2> HIDE DEF n, Then
  <2> QED BY <1>7, <1>9
<1> HIDE DEF sum
<1> QED BY <1>10, <1>11 DEF Then, n, TradeSums

LEMMA ProfitRun ==
  ASSUME NEW rows \in Seq(Row), NEW id
  PROVE  \E sum \in [0 .. Len(rows) -> Int] :
           /\ sum[0] = 0 /\ ProfitOf(rows, id) = sum[Len(rows)]
           /\ \A k \in 1 .. Len(rows) :
                sum[k] = IF Counts(rows[k], id) THEN sum[k - 1] + rows[k].total ELSE sum[k - 1]
<1> DEFINE Then(x, y) == IF Counts(y, id) THEN x + y.total ELSE x
           n == Len(rows)
           T == Int
           base == 0
           step == [k \in 1 .. n |-> [x \in T |-> Then(x, rows[k])]]
           Unrolls(it) == it = [s \in SUBSET (DOMAIN rows) |->
                              IF s = {} THEN base ELSE Then(it[s \ {Max(s)}], rows[Max(s)])]
           it == CHOOSE f : Unrolls(f)
<1>1. n \in Nat /\ DOMAIN rows = 1 .. n
  OBVIOUS
<1>2. base \in T
  OBVIOUS
<1>3. ASSUME NEW k \in 1 .. n, NEW x \in T PROVE Then(x, rows[k]) \in T
  <2> DEFINE row == rows[k]
  <2>1. row \in Row
    BY <1>1
  <2> HIDE DEF row
  <2>2. row.trades \in Nat /\ row.total \in Int
    BY <2>1 DEF Row
  <2>3. x + row.total \in Int
    BY <2>2
  <2> QED BY <2>3 DEF row

<1>4. ProfitOf(rows, id) = it[1 .. n]
  BY <1>1 DEF ProfitOf, FoldLeft, MapThenFoldSet
<1> HIDE DEF Then, T, base
<1>5. PICK f \in [SUBSET (1 .. n) -> T] : Folds(f, n, base, step)
  <2>1. step \in [1 .. n -> [T -> T]]
    BY <1>3
  <2> HIDE DEF step, n
  <2> QED BY <1>1, <1>2, <2>1, FoldRuns
<1>6. Unrolls(it)
  <2>1. ASSUME NEW s \in SUBSET (1 .. n), s # {}
        PROVE  step[Max(s)][f[s \ {Max(s)}]] = Then(f[s \ {Max(s)}], rows[Max(s)])
    <3>1. s \in SUBSET (0 .. n)
      BY <1>1
    <3>2. Max(s) \in 1 .. n
      BY <1>1, <2>1, <3>1, LastPosition
    <3> QED BY <3>2
  <2> HIDE DEF step, n
  <2>2. Unrolls(f)
    BY <1>1, <1>5, <2>1 DEF Folds
  <2> HIDE DEF Unrolls
  <2> QED BY <2>2
<1> HIDE DEF it
<1>7. it[1 .. 0] = base /\ \A k \in 1 .. n : it[1 .. k] = Then(it[1 .. k - 1], rows[k])
  <2>1. it[1 .. 0] = base
    BY <1>1, <1>6
  <2> SUFFICES ASSUME NEW k \in 1 .. n PROVE it[1 .. k] = Then(it[1 .. k - 1], rows[k])
    BY <2>1
  <2>2. 1 .. k \in SUBSET (1 .. n) /\ 1 .. k # {} /\ Max(1 .. k) = k /\ (1 .. k) \ {k} = 1 .. k - 1
    BY <1>1, Prefix
  <2> HIDE DEF n
  <2> QED BY <1>1, <1>6, <2>2
<1>8. \A k \in 0 .. n : it[1 .. k] \in T
  <2> DEFINE runs == [k \in 0 .. n |-> it[1 .. k]]
  <2>1. runs[0] \in T /\ \A k \in 1 .. n : runs[k - 1] \in T => runs[k] \in T
    <3> HIDE DEF n
    <3> QED BY <1>1, <1>2, <1>3, <1>7
  <2>2. \A k \in 0 .. n : runs[k] \in T
    <3> HIDE DEF runs, n
    <3> QED BY <1>1, <2>1, RunsTyped
  <2> QED BY <2>2
<1> DEFINE sum == [k \in 0 .. n |-> it[1 .. k]]
<1>9. 0 \in 0 .. n /\ n \in 0 .. n /\ \A k \in 1 .. n : k \in 0 .. n /\ k - 1 \in 0 .. n
  <2> HIDE DEF n
  <2> QED BY <1>1
<1>10. sum \in [0 .. n -> Int] /\ sum[0] = 0 /\ ProfitOf(rows, id) = sum[n]
  <2> HIDE DEF n, it
  <2> QED BY <1>4, <1>7, <1>8, <1>9 DEF T, base
<1>11. \A k \in 1 .. n : sum[k] = Then(sum[k - 1], rows[k])
  <2> HIDE DEF n, Then
  <2> QED BY <1>7, <1>9
<1> HIDE DEF sum
<1> QED BY <1>10, <1>11 DEF Then, n

LEMMA SumsTyped ==
  ASSUME NEW rows \in Seq(Row), NEW id
  PROVE  TradesOf(rows, id) \in Nat /\ ProfitOf(rows, id) \in Int
<1>1. Len(rows) \in Nat /\ Len(rows) \in 0 .. Len(rows)
  OBVIOUS
<1>2. TradesOf(rows, id) \in Nat
  BY <1>1, TradesRun DEF TradeSums
<1>3. ProfitOf(rows, id) \in Int
  BY <1>1, ProfitRun
<1> QED BY <1>2, <1>3

(* Trades only add up along the rows, so each row that counts is in the sum. *)
LEMMA TradesRise ==
  ASSUME NEW rows \in Seq(Row), NEW id
  PROVE  \E sum \in [0 .. Len(rows) -> Nat] :
           /\ TradeSums(sum, rows, id)
           /\ \A k \in 0 .. Len(rows) : \A i \in 0 .. k : sum[i] <= sum[k]
<1> DEFINE n == Len(rows)
<1>1. n \in Nat /\ \A k \in 1 .. n : k \in 0 .. n /\ k - 1 \in 0 .. n /\ rows[k] \in Row
  OBVIOUS
<1>2. PICK sum \in [0 .. n -> Nat] : TradeSums(sum, rows, id)
  BY TradesRun
<1>3. \A k \in 1 .. n : sum[k - 1] <= sum[k]
  <2> SUFFICES ASSUME NEW k \in 1 .. n PROVE sum[k - 1] <= sum[k]
    OBVIOUS
  <2>1. rows[k].trades \in Nat /\ sum[k - 1] \in Nat /\ sum[k] \in Nat
    <3> HIDE DEF n
    <3> QED BY <1>1 DEF Row
  <2> QED BY <1>2, <2>1 DEF TradeSums
<1>4. \A k \in 0 .. n : \A i \in 0 .. k : sum[i] <= sum[k]
  <2> HIDE DEF n
  <2>1. sum \in [0 .. n -> Int]
    OBVIOUS
  <2> QED BY <1>1, <1>3, <2>1, RisesThroughout
<1> QED BY <1>2, <1>4

LEMMA RowIsCounted ==
  ASSUME NEW rows \in Seq(Row), NEW id, NEW k \in DOMAIN rows, Counts(rows[k], id)
  PROVE  rows[k].trades <= TradesOf(rows, id)
<1>1. Len(rows) \in Nat /\ k \in 1 .. Len(rows) /\ k - 1 \in 0 .. Len(rows) /\ k \in 0 .. Len(rows)
      /\ Len(rows) \in 0 .. Len(rows) /\ k \in 0 .. Len(rows) /\ rows[k] \in Row
  OBVIOUS
<1>2. PICK sum \in [0 .. Len(rows) -> Nat] :
        /\ TradesOf(rows, id) = sum[Len(rows)]
        /\ sum[k] = sum[k - 1] + rows[k].trades
        /\ sum[k] <= sum[Len(rows)]
  BY <1>1, TradesRise DEF TradeSums
<1>3. rows[k].trades \in Nat /\ sum[k - 1] \in Nat /\ sum[k] \in Nat /\ sum[Len(rows)] \in Nat
  BY <1>1 DEF Row
<1> QED BY <1>2, <1>3

LEMMA SomeRowCounts ==
  ASSUME NEW rows \in Seq(Row), NEW id, TradesOf(rows, id) # 0
  PROVE  \E k \in DOMAIN rows : Counts(rows[k], id)
<1> SUFFICES ASSUME \A k \in DOMAIN rows : ~Counts(rows[k], id) PROVE FALSE
  OBVIOUS
<1> DEFINE n == Len(rows)
<1>1. n \in Nat /\ n \in 0 .. n
  OBVIOUS
<1>2. PICK sum \in [0 .. n -> Nat] :
        /\ sum[0] = 0 /\ TradesOf(rows, id) = sum[n]
        /\ \A k \in 1 .. n : sum[k] = sum[k - 1]
  <2>1. \A k \in 1 .. n : ~Counts(rows[k], id)
    OBVIOUS
  <2> QED BY <2>1, TradesRun DEF TradeSums
<1>3. \A k \in 0 .. n : sum[k] \in {0}
  <2> DEFINE none == {0}
  <2>1. sum[0] \in none /\ \A k \in 1 .. n : sum[k - 1] \in none => sum[k] \in none
    BY <1>2
  <2> HIDE DEF n, none
  <2>2. \A k \in 0 .. n : sum[k] \in none
    BY <1>1, <2>1, RunsTyped
  <2> QED BY <2>2 DEF none
<1> QED BY <1>1, <1>2, <1>3

(* Further rows add to the sum.                                              *)
LEMMA TradesGrow ==
  ASSUME NEW a \in Seq(Row), NEW b \in Seq(Row), NEW id
  PROVE  TradesOf(a, id) <= TradesOf(a \o b, id)
<1> DEFINE joined == a \o b
           n == Len(a)
           m == Len(joined)
<1>1. /\ joined \in Seq(Row) /\ n \in Nat /\ m \in Nat /\ n <= m
      /\ \A k \in 1 .. n : joined[k] = a[k] /\ k \in 1 .. m
  BY ConcatProperties
<1> HIDE DEF joined
<1>2. PICK f \in [0 .. n -> Nat] : TradeSums(f, a, id)
  BY TradesRun
<1>3. PICK g \in [0 .. m -> Nat] :
        /\ TradeSums(g, joined, id)
        /\ \A k \in 0 .. m : \A i \in 0 .. k : g[i] <= g[k]
  BY <1>1, TradesRise
<1> DEFINE G == {k \in 0 .. n : f[k] = g[k]}
<1>4. 0 \in G /\ \A k \in 1 .. n : k - 1 \in G => k \in G
  <2> HIDE DEF n, m
  <2>1. 0 \in 0 .. n /\ \A k \in 1 .. n : k \in 0 .. n
    BY <1>1
  <2>2. /\ f[0] = 0
        /\ \A k \in 1 .. n :
             f[k] = IF Counts(a[k], id) THEN f[k - 1] + a[k].trades ELSE f[k - 1]
    BY <1>2 DEF TradeSums, n
  <2>3. /\ g[0] = 0
        /\ \A k \in 1 .. m :
             g[k] = IF Counts(joined[k], id) THEN g[k - 1] + joined[k].trades ELSE g[k - 1]
    BY <1>3 DEF TradeSums, m
  <2> QED BY <1>1, <2>1, <2>2, <2>3
<1>5. \A k \in 0 .. n : k \in G
  <2>1. G \in SUBSET (0 .. n)
    OBVIOUS
  <2> HIDE DEF G, n
  <2> QED BY <1>1, <1>4, <2>1, IntervalInduction
<1>6. n \in 0 .. n /\ m \in 0 .. m /\ n \in 0 .. m
  <2> HIDE DEF n, m
  <2> QED BY <1>1
<1>7. f[n] = g[n] /\ g[n] <= g[m]
  <2> HIDE DEF n, m
  <2> QED BY <1>3, <1>5, <1>6
<1> QED BY <1>2, <1>3, <1>7 DEF joined, TradeSums

(* What the rows add up to is a finite set of rows that can be ranked.       *)
LEMMA AccumulatedRows ==
  ASSUME NEW rows \in Seq(Row)
  PROVE  /\ Accumulated(rows) \in SUBSET Row /\ IsFiniteSet(Accumulated(rows))
         /\ \A x \in Accumulated(rows) : x.trades > 0
         /\ \A x, y \in Accumulated(rows) : x.id = y.id => x = y
<1> DEFINE Positions == {k \in DOMAIN rows : rows[k].trades > 0}
           Sum(id) == [id |-> id, trades |-> TradesOf(rows, id), total |-> ProfitOf(rows, id)]
<1>1. Accumulated(rows) = {Sum(id) : id \in {rows[i].id : i \in Positions}}
  BY DEF Accumulated
<1>2. ASSUME NEW k \in Positions
      PROVE  rows[k].id \in Nat /\ Sum(rows[k].id) \in Row /\ TradesOf(rows, rows[k].id) > 0
  <2>1. rows[k] \in Row /\ k \in DOMAIN rows /\ rows[k].trades > 0
    OBVIOUS
  <2>2. rows[k].id \in Nat /\ rows[k].trades \in Nat
    BY <2>1 DEF Row
  <2>3. TradesOf(rows, rows[k].id) \in Nat /\ ProfitOf(rows, rows[k].id) \in Int
    BY SumsTyped
  <2>4. rows[k].trades <= TradesOf(rows, rows[k].id)
    BY <2>1, RowIsCounted DEF Counts
  <2> HIDE DEF Positions
  <2>5. Sum(rows[k].id) \in Row
    BY <2>2, <2>3 DEF Row
  <2> QED BY <2>1, <2>2, <2>3, <2>4, <2>5
<1>3. IsFiniteSet(Positions)
  <2>1. Len(rows) \in Nat /\ Positions \in SUBSET (1 .. Len(rows))
    OBVIOUS
  <2>2. IsFiniteSet(1 .. Len(rows))
    <3>1. 1 \in Int /\ Len(rows) \in Int
      BY <2>1
    <3> QED BY <3>1, FS_Interval
  <2> HIDE DEF Positions
  <2> QED BY <2>1, <2>2, FS_Subset
<1>4. IsFiniteSet(Accumulated(rows))
  <2> DEFINE f == [k \in Positions |-> Sum(rows[k].id)]
  <2>1. f \in Surjection(Positions, Accumulated(rows))
    <3> HIDE DEF Positions, Sum
    <3> QED BY <1>1 DEF Surjection
  <2> HIDE DEF f, Positions
  <2> QED BY <1>3, <2>1, FS_Surjection
<1>5. ASSUME NEW x \in Accumulated(rows) PROVE \E k \in Positions : x = Sum(rows[k].id)
  <2> HIDE DEF Positions, Sum
  <2> QED BY <1>1
<1> HIDE DEF Positions
<1>6. ASSUME NEW x \in Accumulated(rows) PROVE x \in Row /\ x.trades > 0
  <2>1. PICK k \in Positions : x = Sum(rows[k].id)
    BY <1>5
  <2> QED BY <1>2, <2>1
<1>7. ASSUME NEW x \in Accumulated(rows), NEW y \in Accumulated(rows), x.id = y.id PROVE x = y
  <2>1. PICK k \in Positions : x = Sum(rows[k].id)
    BY <1>5
  <2>2. PICK i \in Positions : y = Sum(rows[i].id)
    BY <1>5
  <2> QED BY <1>7, <2>1, <2>2
<1> QED BY <1>4, <1>6, <1>7

(* The order of the mean profits, of different configs that traded.          *)
Ranking == {pair \in Row \X Row : Better(pair[1], pair[2])}

LEMMA RankingOrders ==
  ASSUME NEW S \in SUBSET Row, \A x \in S : x.trades > 0,
         \A x, y \in S : x.id = y.id => x = y
  PROVE  Orders(Ranking, S)
<1>1. \A x, y \in S : <<x, y>> \in Ranking <=> Better(x, y)
  BY DEF Ranking
<1>2. \A x \in S : x.id \in Nat /\ x.trades \in Nat \ {0} /\ x.total \in Int
  BY DEF Row
<1>3. \A x \in S : ~Better(x, x)
  <2> SUFFICES ASSUME NEW x \in S PROVE ~Better(x, x)
    OBVIOUS
  <2>1. x.total * x.trades \in Int
    BY <1>2
  <2> QED BY <1>2, <2>1 DEF Better, EarnsMore, EarnsSame
<1>4. ASSUME NEW x \in S, NEW y \in S, x # y PROVE Better(x, y) \/ Better(y, x)
  <2>1. x.total * y.trades \in Int /\ y.total * x.trades \in Int /\ x.id # y.id
    BY <1>2, <1>4
  <2> QED BY <1>2, <2>1 DEF Better, EarnsMore, EarnsSame
<1>5. ASSUME NEW x \in S, NEW y \in S, NEW z \in S, Better(x, y), Better(y, z)
      PROVE  Better(x, z)
  <2>1. /\ x.total * y.trades \in Int /\ y.total * x.trades \in Int
        /\ y.total * z.trades \in Int /\ z.total * y.trades \in Int
        /\ x.total * z.trades \in Int /\ z.total * x.trades \in Int
    BY <1>2
  <2>2. /\ x.total * y.trades >= y.total * x.trades
        /\ y.total * z.trades >= z.total * y.trades
    BY <1>5, <2>1 DEF Better, EarnsMore, EarnsSame
  <2>3. /\ x.total * z.trades >= z.total * x.trades
        /\ x.total * z.trades = z.total * x.trades =>
             x.total * y.trades = y.total * x.trades /\ y.total * z.trades = z.total * y.trades
    BY <1>2, <2>2, CrosswiseTransitive
  <2>4. CASE x.total * z.trades = z.total * x.trades
    <3>1. x.total * y.trades = y.total * x.trades /\ y.total * z.trades = z.total * y.trades
      BY <2>3, <2>4
    <3>2. /\ x.trades > y.trades \/ (x.trades = y.trades /\ x.id < y.id)
          /\ y.trades > z.trades \/ (y.trades = z.trades /\ y.id < z.id)
      BY <1>5, <2>1, <3>1 DEF Better, EarnsMore, EarnsSame
    <3>3. x.trades > z.trades \/ (x.trades = z.trades /\ x.id < z.id)
      BY <1>2, <3>2
    <3> QED BY <2>4, <3>3 DEF Better, EarnsSame
  <2>5. CASE x.total * z.trades # z.total * x.trades
    <3>1. x.total * z.trades > z.total * x.trades
      BY <2>1, <2>3, <2>5
    <3> QED BY <3>1 DEF Better, EarnsMore
  <2> QED BY <2>4, <2>5
<1> QED BY <1>1, <1>3, <1>4, <1>5 DEF Orders

(* Merging keeps the trades of what there was and of what was found.         *)
LEMMA MergedKeeps ==
  ASSUME NEW existing \in Seq(Row), NEW found \in Seq(Row)
  PROVE  /\ Merged(existing, found) \in Seq(Row)
         /\ \A id : TradesOf(existing, id) <= TradesOf(Merged(existing, found), id)
<1> DEFINE rows == existing \o found
           S == Accumulated(rows)
           n == Cardinality(S)
           s == Sorted(S)
<1>1. rows \in Seq(Row)
  OBVIOUS
<1>2. /\ S \in SUBSET Row /\ IsFiniteSet(S)
      /\ \A x \in S : x.trades > 0
      /\ \A x, y \in S : x.id = y.id => x = y
  <2> HIDE DEF rows
  <2> QED BY <1>1, AccumulatedRows
<1>3. Orders(Ranking, S)
  <2> HIDE DEF S
  <2> QED BY <1>2, RankingOrders
<1>4. n \in Nat /\ s \in [1 .. n -> S] /\ \A i, k \in 1 .. n : i < k => s[i] # s[k]
  <2> HIDE DEF S
  <2>1. PICK f \in [1 .. n -> S] : \A i, k \in 1 .. n : i < k => <<f[i], f[k]>> \in Ranking
    BY <1>2, <1>3, SortedExists
  <2>2. n \in Nat
    BY <1>2, <1>3, SortedExists
  <2>3. f \in [1 .. n -> S] /\ \A i, k \in DOMAIN f : i < k => Better(f[i], f[k])
    BY <2>1 DEF Ranking
  <2>4. s \in [1 .. n -> S] /\ \A i, k \in DOMAIN s : i < k => Better(s[i], s[k])
    BY <2>3 DEF Sorted
  <2> HIDE DEF s
  <2>5. ASSUME NEW i \in 1 .. n, NEW k \in 1 .. n, i < k, s[i] = s[k] PROVE FALSE
    <3>1. Better(s[i], s[i]) /\ s[i] \in S
      BY <2>4, <2>5
    <3>2. s[i] \in Row
      BY <1>2, <3>1
    <3>3. <<s[i], s[i]>> \in Ranking
      BY <3>1, <3>2 DEF Ranking
    <3> QED BY <1>3, <3>1, <3>3 DEF Orders
  <2> QED BY <2>2, <2>4, <2>5
<1>5. \A x \in S : \E i \in 1 .. n : s[i] = x
  <2> HIDE DEF S, s
  <2> QED BY <1>2, <1>4, ListsAll
<1>6. s \in Seq(Row) /\ DOMAIN s = 1 .. n
  <2> HIDE DEF S, n, s
  <2>1. s \in [1 .. n -> Row] /\ DOMAIN s = 1 .. n
    BY <1>2, <1>4
  <2> QED BY <1>4, <2>1, SeqDef
<1>7. Merged(existing, found) = s
  BY DEF Merged
<1>8. ASSUME NEW id PROVE TradesOf(existing, id) <= TradesOf(s, id)
  <2>1. TradesOf(existing, id) <= TradesOf(rows, id)
    BY TradesGrow
  <2> HIDE DEF rows
  <2>2. TradesOf(existing, id) \in Nat /\ TradesOf(rows, id) \in Nat
    BY <1>1, SumsTyped
  <2> HIDE DEF s
  <2>3. TradesOf(s, id) \in Nat
    BY <1>6, SumsTyped
  <2>4. CASE TradesOf(rows, id) = 0
    BY <2>1, <2>2, <2>3, <2>4
  <2>5. CASE TradesOf(rows, id) # 0
    <3> DEFINE x == [id |-> id, trades |-> TradesOf(rows, id), total |-> ProfitOf(rows, id)]
    <3>1. PICK k \in DOMAIN rows : Counts(rows[k], id)
      BY <1>1, <2>5, SomeRowCounts
    <3>2. x \in S
      BY <3>1 DEF Accumulated, Counts
    <3> HIDE DEF S
    <3>3. PICK i \in 1 .. n : s[i] = x
      BY <1>5, <3>2
    <3>4. s[i].id = id /\ s[i].trades = TradesOf(rows, id)
      BY <3>3
    <3>5. Counts(s[i], id)
      BY <2>2, <2>5, <3>4 DEF Counts
    <3>6. s[i].trades <= TradesOf(s, id)
      <4>1. i \in DOMAIN s
        BY <1>6
      <4> QED BY <1>6, <3>5, <4>1, RowIsCounted
    <3> QED BY <2>1, <2>2, <2>3, <3>4, <3>6
  <2> QED BY <2>4, <2>5
<1> QED BY <1>6, <1>7, <1>8

(* What a scout that read a whole file will write has at least the trades of *)
(* the file, for each config: no other process writes it meanwhile.          *)
Holds == {"submit", "run", "truncate", "write"}

KeepsTrades(rows, p) ==
  driver[p].pc \in Holds /\ ~driver[p].fresh =>
    \A id : TradesOf(rows, id) <= TradesOf(driver[p].merged, id)

RefInv ==
  /\ refs \in [whole : BOOLEAN, rows : Seq(Row)]
  /\ DOMAIN driver = Jobs
  /\ \A p \in Jobs :
       /\ {"pc", "cycles", "merged", "fresh"} \subseteq DOMAIN driver[p]
       /\ driver[p].merged \in Seq(Row)
       /\ KeepsTrades(refs.rows, p)

LEMMA RefInit == RunnerInit => RefInv
<1> SUFFICES ASSUME RunnerInit PROVE RefInv
  OBVIOUS
<1>1. PICK rows \in RefFiles : refs = [whole |-> TRUE, rows |-> rows]
  BY DEF RunnerInit, DriverInit
<1>2. rows \in Seq(Row)
  BY RowsAssumption
<1>3. \A p \in Jobs : driver[p] = NotStarted /\ DOMAIN driver = Jobs
  BY DriversAreJobs DEF RunnerInit, DriverInit
<1>4. << >> \in Seq(Row)
  OBVIOUS
<1>5. DOMAIN driver = Jobs
  BY DriversAreJobs DEF RunnerInit, DriverInit
<1>6. refs \in [whole : BOOLEAN, rows : Seq(Row)]
  BY <1>1, <1>2
<1>7. /\ {"pc", "cycles", "merged", "fresh"} \subseteq DOMAIN NotStarted
      /\ NotStarted.merged = << >> /\ NotStarted.pc \notin Holds
  BY DEF NotStarted, Holds
<1> QED BY <1>3, <1>4, <1>5, <1>6, <1>7 DEF RefInv, KeepsTrades

(* A step of one process that leaves the file alone: the others do as before.*)
LEMMA RefsKept ==
  ASSUME RefInv, NEW j \in Jobs, UNCHANGED refs,
         DOMAIN driver' = Jobs, \A p \in Jobs \ {j} : driver'[p] = driver[p],
         {"pc", "cycles", "merged", "fresh"} \subseteq DOMAIN driver'[j],
         driver'[j].merged \in Seq(Row), KeepsTrades(refs.rows, j)'
  PROVE  RefInv'
BY DEF RefInv, KeepsTrades

LEMMA ScoutEnds ==
  ASSUME RefInv, NEW j \in Jobs, NEW how, how \notin Holds, Exits(j, how), UNCHANGED refs
  PROVE  RefInv'
<1>1. driver' = [driver EXCEPT ![j] = [NotStarted EXCEPT !.pc = how]]
  BY DEF Exits
<1>2. /\ DOMAIN driver' = Jobs /\ \A p \in Jobs \ {j} : driver'[p] = driver[p]
      /\ driver'[j] = [NotStarted EXCEPT !.pc = how]
  BY <1>1 DEF RefInv
<1>3. /\ {"pc", "cycles", "merged", "fresh"} \subseteq DOMAIN driver'[j]
      /\ driver'[j].merged = << >> /\ driver'[j].pc = how
  BY <1>2 DEF NotStarted
<1>4. << >> \in Seq(Row)
  OBVIOUS
<1> QED BY <1>2, <1>3, <1>4, RefsKept DEF KeepsTrades

LEMMA RefScoutSteps ==
  ASSUME JobInv, RefInv, NEW j \in Jobs, DriverStep(j)
  PROVE  RefInv'
<1>0. /\ refs \in [whole : BOOLEAN, rows : Seq(Row)] /\ DOMAIN driver = Jobs
      /\ {"pc", "cycles", "merged", "fresh"} \subseteq DOMAIN driver[j]
      /\ driver[j].merged \in Seq(Row)
      /\ KeepsTrades(refs.rows, j)
  BY DEF RefInv
<1>a. \A how \in {"error", "ok"} : how \notin Holds
  BY DEF Holds
<1>b. ASSUME NEW id PROVE TradesOf(refs.rows, id) <= TradesOf(refs.rows, id)
  <2>1. TradesOf(refs.rows, id) \in Nat
    BY <1>0, SumsTyped
  <2> QED BY <2>1
<1>1. CASE Load(j)
  <2>1. /\ UNCHANGED refs /\ DOMAIN driver' = Jobs
        /\ \A p \in Jobs \ {j} : driver'[p] = driver[p]
        /\ {"pc", "cycles", "merged", "fresh"} \subseteq DOMAIN driver'[j]
        /\ driver'[j].fresh = ~refs.whole
        /\ driver'[j].merged = IF refs.whole THEN refs.rows ELSE << >>
    BY <1>0, <1>1 DEF Load
  <2>2. driver'[j].merged \in Seq(Row)
    BY <1>0, <2>1
  <2>3. ~driver'[j].fresh => driver'[j].merged = refs.rows
    BY <1>0, <2>1
  <2>4. KeepsTrades(refs.rows, j)'
    BY <1>b, <2>1, <2>3 DEF KeepsTrades
  <2> QED BY <2>1, <2>2, <2>4, RefsKept
<1>2. ASSUME NEW pc, Goes(j, pc), driver[j].pc \in Holds, UNCHANGED refs PROVE RefInv'
  <2>1. /\ DOMAIN driver' = Jobs /\ \A p \in Jobs \ {j} : driver'[p] = driver[p]
        /\ {"pc", "cycles", "merged", "fresh"} \subseteq DOMAIN driver'[j]
        /\ driver'[j].fresh = driver[j].fresh /\ driver'[j].merged = driver[j].merged
    BY <1>0, <1>2 DEF Goes
  <2>2. KeepsTrades(refs.rows, j)'
    BY <1>0, <1>2, <2>1 DEF KeepsTrades
  <2> QED BY <1>0, <1>2, <2>1, <2>2, RefsKept
<1>3. CASE SubmitScout(j)
  BY <1>2, <1>3, <1>a, ScoutEnds DEF SubmitScout, Holds
<1>4. CASE QueryRun(j)
  <2>1. ASSUME NEW found \in Findings,
               driver' = [driver EXCEPT ![j].pc = "truncate", ![j].merged = Merged(@, found)]
        PROVE  RefInv'
    <3>1. /\ UNCHANGED refs /\ DOMAIN driver' = Jobs
          /\ \A p \in Jobs \ {j} : driver'[p] = driver[p]
          /\ {"pc", "cycles", "merged", "fresh"} \subseteq DOMAIN driver'[j]
          /\ driver'[j].fresh = driver[j].fresh
          /\ driver'[j].merged = Merged(driver[j].merged, found)
          /\ driver[j].pc \in Holds
      BY <1>0, <1>4, <2>1 DEF QueryRun, Holds
    <3>2. found \in Seq(Row)
      BY RowsAssumption
    <3>3. /\ driver'[j].merged \in Seq(Row)
          /\ \A id : TradesOf(driver[j].merged, id) <= TradesOf(driver'[j].merged, id)
      BY <1>0, <3>1, <3>2, MergedKeeps
    <3>4. ASSUME ~driver'[j].fresh, NEW id
          PROVE  TradesOf(refs.rows, id) <= TradesOf(driver'[j].merged, id)
      <4>1. TradesOf(refs.rows, id) <= TradesOf(driver[j].merged, id)
        BY <1>0, <3>1, <3>4 DEF KeepsTrades
      <4>2. TradesOf(driver[j].merged, id) <= TradesOf(driver'[j].merged, id)
        BY <3>3
      <4>3. /\ TradesOf(refs.rows, id) \in Nat /\ TradesOf(driver[j].merged, id) \in Nat
            /\ TradesOf(driver'[j].merged, id) \in Nat
        BY <1>0, <3>3, SumsTyped
      <4> QED BY <4>1, <4>2, <4>3
    <3>5. KeepsTrades(refs.rows, j)'
      BY <3>1, <3>4 DEF KeepsTrades
    <3> QED BY <3>1, <3>3, <3>5, RefsKept
  <2> QED BY <1>4, <1>a, <2>1, ScoutEnds DEF QueryRun
<1>5. ASSUME refs' = [refs EXCEPT !.whole = FALSE], Goes(j, "write"), driver[j].pc = "truncate"
      PROVE  RefInv'
  <2>1. refs' \in [whole : BOOLEAN, rows : Seq(Row)] /\ refs'.rows = refs.rows
    BY <1>0, <1>5
  <2>2. /\ DOMAIN driver' = Jobs /\ \A p \in Jobs \ {j} : driver'[p] = driver[p]
        /\ {"pc", "cycles", "merged", "fresh"} \subseteq DOMAIN driver'[j]
        /\ driver'[j].fresh = driver[j].fresh /\ driver'[j].merged = driver[j].merged
    BY <1>0, <1>5 DEF Goes
  <2>3. KeepsTrades(refs.rows, j)'
    BY <1>0, <1>5, <2>1, <2>2 DEF KeepsTrades, Holds
  <2>4. \A p \in Jobs \ {j} : KeepsTrades(refs.rows, p)'
    BY <2>1, <2>2 DEF RefInv, KeepsTrades
  <2> QED BY <1>0, <2>1, <2>2, <2>3, <2>4 DEF RefInv
<1>6. CASE Truncate(j)
  BY <1>5, <1>6, <1>a, ScoutEnds DEF Truncate
<1>7. ASSUME Save(j), refs' = [whole |-> TRUE, rows |-> driver[j].merged] PROVE RefInv'
  <2>1. refs' \in [whole : BOOLEAN, rows : Seq(Row)] /\ refs'.rows = driver[j].merged
    BY <1>0, <1>7
  <2>2. \A p \in Jobs \ {j} : driver[p].pc \notin Holds
    <3>1. IsRunning(j)
      BY <1>7 DEF Save, IsRunning
    <3>2. \A p \in Jobs : IsRunning(p) => p = j
      BY <3>1 DEF JobInv, AliveIsActive, RunsInChild, Alive
    <3> QED BY <3>2 DEF IsRunning, Holds
  <2>3. /\ DOMAIN driver' = Jobs /\ \A p \in Jobs \ {j} : driver'[p] = driver[p]
        /\ {"pc", "cycles", "merged", "fresh"} \subseteq DOMAIN driver'[j]
        /\ \/ driver'[j].merged = driver[j].merged
           \/ driver'[j].merged = << >> /\ driver'[j].pc \in {"ok", "error"}
    <3>1. CASE driver' = [driver EXCEPT ![j].pc = "submit", ![j].cycles = @ - 1]
      BY <1>0, <3>1
    <3>2. ASSUME NEW how \in {"ok", "error"}, Exits(j, how)
          PROVE  /\ DOMAIN driver' = Jobs /\ \A p \in Jobs \ {j} : driver'[p] = driver[p]
                 /\ {"pc", "cycles", "merged", "fresh"} \subseteq DOMAIN driver'[j]
                 /\ driver'[j].merged = << >> /\ driver'[j].pc \in {"ok", "error"}
      BY <1>0, <3>2 DEF Exits, NotStarted
    <3> QED BY <1>7, <3>1, <3>2 DEF Save
  <2>4. driver'[j].merged \in Seq(Row)
    <3>1. << >> \in Seq(Row)
      OBVIOUS
    <3> QED BY <1>0, <2>3, <3>1
  <2>5. KeepsTrades(refs.rows, j)'
    <3>1. CASE driver'[j].merged = driver[j].merged
      <4>1. ASSUME NEW id PROVE TradesOf(driver[j].merged, id) <= TradesOf(driver[j].merged, id)
        <5>1. TradesOf(driver[j].merged, id) \in Nat
          BY <1>0, SumsTyped
        <5> QED BY <5>1
      <4> QED BY <2>1, <3>1, <4>1 DEF KeepsTrades
    <3>2. CASE driver'[j].pc \in {"ok", "error"}
      BY <1>a, <3>2 DEF KeepsTrades
    <3> QED BY <2>3, <3>1, <3>2
  <2>6. \A p \in Jobs \ {j} : KeepsTrades(refs.rows, p)'
    BY <2>2, <2>3 DEF KeepsTrades
  <2> QED BY <2>1, <2>3, <2>4, <2>5, <2>6 DEF RefInv
<1>8. CASE Save(j)
  BY <1>7, <1>8, <1>a, ScoutEnds DEF Save
<1> QED BY <1>1, <1>3, <1>4, <1>6, <1>8 DEF DriverStep

LEMMA RefStep == JobInv /\ RefInv /\ [RunnerNext]_runnerVars => RefInv'
<1> SUFFICES ASSUME JobInv, RefInv, [RunnerNext]_runnerVars PROVE RefInv'
  OBVIOUS
<1>1. ASSUME UNCHANGED <<refs, driver>> PROVE RefInv'
  BY <1>1 DEF RefInv, KeepsTrades
<1>2. ASSUME NEW c \in Callers,
             (\E req \in Requests : StartCheck(c, req)) \/ StartValidate(c) \/ StartCommit(c)
      PROVE  RefInv'
  BY <1>1, <1>2 DEF StartCheck, StartValidate, StartCommit, childVars, storedVars
<1>3. CASE Stop
  BY <1>1, <1>3 DEF Stop, childVars, storedVars
<1>4. ASSUME NEW j \in Jobs, ScoutSpawn(j) PROVE RefInv'
  <2>1. UNCHANGED refs
    BY <1>4 DEF ScoutSpawn, storedVars
  <2>2. CASE StartDriver(j, options[j].length)
    <3>1. DOMAIN driver = Jobs
      BY DEF RefInv
    <3>2. /\ DOMAIN driver' = Jobs /\ \A p \in Jobs \ {j} : driver'[p] = driver[p]
          /\ {"pc", "cycles", "merged", "fresh"} \subseteq DOMAIN driver'[j]
          /\ driver'[j].merged = << >> /\ driver'[j].pc = "load"
      BY <2>2, <3>1 DEF StartDriver, NotStarted
    <3>3. << >> \in Seq(Row)
      OBVIOUS
    <3> QED BY <2>1, <3>2, <3>3, RefsKept DEF KeepsTrades, Holds
  <2> QED BY <1>1, <1>4, <2>1, <2>2 DEF ScoutSpawn
<1>5. ASSUME NEW j \in Jobs, ScoutWait(j) PROVE RefInv'
  <2>1. UNCHANGED refs
    BY <1>5 DEF ScoutWait, storedVars
  <2>2. CASE Kill(j)
    <3>1. "killed" \notin Holds
      BY DEF Holds
    <3>2. CASE Exits(j, "killed")
      BY <2>1, <3>1, <3>2, ScoutEnds
    <3>3. CASE UNCHANGED driver
      BY <1>1, <2>1, <3>3
    <3> QED BY <2>2, <3>2, <3>3 DEF Kill
  <2> QED BY <1>1, <1>5, <2>1, <2>2 DEF ScoutWait
<1>6. ASSUME NEW j \in Jobs, ReadLine(j) \/ ScoutDrain(j) \/ ChildWrites(j) PROVE RefInv'
  BY <1>1, <1>6 DEF ReadLine, ScoutDrain, ChildWrites, childVars, storedVars
<1>7. ASSUME NEW j \in Jobs, ChildSteps(j) PROVE RefInv'
  BY <1>7, RefScoutSteps DEF ChildSteps
<1>8. ASSUME NEW j \in Jobs, ForwardQueue(j) \/ ForwardAck(j) \/ ForwardEnds(j) \/ ForwardStops(j)
      PROVE  RefInv'
  BY <1>1, <1>8 DEF ForwardQueue, ForwardAck, ForwardEnds, ForwardStops, childVars, storedVars
<1>9. CASE UNCHANGED runnerVars
  BY <1>1, <1>9 DEF runnerVars, childVars, storedVars
<1> QED BY <1>2, <1>3, <1>4, <1>5, <1>6, <1>7, <1>8, <1>9 DEF RunnerNext, Scout

(* Whichever scouts ran before, failed or were killed, what one saves has of *)
(* every config at least the trades the file had, unless it found it torn.   *)
THEOREM ReferencesKept == RunnerSpec => ReferencesAccumulate
<1> DEFINE Saves ==
      \A p \in Drivers : Save(p) /\ ~driver[p].fresh =>
        \A i \in DOMAIN refs.rows :
          TradesOf(refs'.rows, refs.rows[i].id) >= TradesOf(refs.rows, refs.rows[i].id)
<1>1. RefInv => Saves
  <2> SUFFICES ASSUME RefInv, NEW p \in Jobs, Save(p), ~driver[p].fresh, NEW id
               PROVE  TradesOf(refs'.rows, id) >= TradesOf(refs.rows, id)
    BY DriversAreJobs
  <2>1. refs.rows \in Seq(Row) /\ driver[p].merged \in Seq(Row)
    BY DEF RefInv
  <2>2. TradesOf(refs.rows, id) \in Nat /\ TradesOf(driver[p].merged, id) \in Nat
    BY <2>1, SumsTyped
  <2>3. TradesOf(refs.rows, id) <= TradesOf(driver[p].merged, id)
    BY DEF RefInv, KeepsTrades, Save, Holds
  <2>4. refs'.rows \in {refs.rows, driver[p].merged}
    BY DEF Save
  <2> QED BY <2>2, <2>3, <2>4
<1> HIDE DEF Saves
<1>2. RefInv => [Saves]_<<refs, driver>>
  BY <1>1
<1>3. RunnerSpec => [][Saves]_<<refs, driver>>
  BY JobInit, JobStep, RefInit, RefStep, <1>2, PTL DEF RunnerSpec
<1> QED BY <1>3 DEF ReferencesAccumulate, Saves
=============================================================================
