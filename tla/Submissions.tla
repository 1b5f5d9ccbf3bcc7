----------------------------- MODULE Submissions -----------------------------
(***************************************************************************)
(* What the file protocol of the trial queue promises for each submission, *)
(* whatever crashes and whichever file operation fails: it is decided at   *)
(* most once, a decision is never revised, and the one answer a submitter  *)
(* can take agrees with it.                                                *)
(***************************************************************************)
CONSTANT Subs

VARIABLES
  status,   \* new, queued, applied, rejected, discarded; lost: no promise
  answer    \* none, ok, error; taken: the submitter has consumed it

Init ==
  /\ status = [s \in Subs |-> "new"]
  /\ answer = [s \in Subs |-> "none"]

Submit(s) ==
  /\ status[s] = "new"
  /\ status' = [status EXCEPT ![s] = "queued"]
  /\ UNCHANGED answer

Decide(s) ==
  /\ status[s] = "queued"
  /\ \E decision \in {"applied", "rejected"} :
       status' = [status EXCEPT ![s] = decision]
  /\ UNCHANGED answer

(* Withdrawn undecided and never answered.                                 *)
Discard(s) ==
  /\ status[s] = "queued"
  /\ status' = [status EXCEPT ![s] = "discarded"]
  /\ UNCHANGED answer

Answer(s) ==
  /\ answer[s] = "none"
  /\ \/ status[s] = "applied" /\ answer' = [answer EXCEPT ![s] = "ok"]
     \/ status[s] = "rejected" /\ answer' = [answer EXCEPT ![s] = "error"]
  /\ UNCHANGED status

Take(s) ==
  /\ answer[s] \in {"ok", "error"}
  /\ answer' = [answer EXCEPT ![s] = "taken"]
  /\ UNCHANGED status

(* The payload can be neither moved nor marked: it may be decided again.   *)
Lose(s) ==
  /\ status[s] \in {"queued", "applied", "rejected"}
  /\ status' = [status EXCEPT ![s] = "lost"]
  /\ answer' = [answer EXCEPT ![s] = "none"]

Next ==
  \E s \in Subs :
    Submit(s) \/ Decide(s) \/ Discard(s) \/ Answer(s) \/ Take(s) \/ Lose(s)

Spec == Init /\ [][Next]_<<status, answer>>

=============================================================================
