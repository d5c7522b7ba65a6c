------------------------ MODULE NotificationDelivery ------------------------
(***************************************************************************)
(* Telling the guide what happened                                         *)
(* (services/guide_operator_notification_delivery.py and the worker that   *)
(* calls deliver_one_notification).  The claim, its lease and its fence    *)
(* are those of the outbox.  What differs: a notice may be superseded      *)
(* (module Assignments, NoticeCurrent) and is then not sent any more, and  *)
(* Telegram does not recognise a repeated message, so that the guide sees  *)
(* it as often as it is sent.                                              *)
(***************************************************************************)
EXTENDS Leases

VARIABLES standing,  \* whether each notice is current
          closed,    \* the claims made of it when it ceased to be
          shown,     \* attempts whose message the guide got
          late,      \* attempts whose message may still come
          doubtful   \* attempts that ended without a definite answer

noticeVars == <<standing, closed, shown, late, doubtful>>
vars == <<leaseVars, noticeVars>>

(* An invitation expires by the clock; anything else is superseded by what *)
(* somebody did.                                                           *)
Standing == {"current", "expired", "superseded"}

(* Telegram's answer: 200 with "ok"; a 200 or redirect with anything else; *)
(* 4xx; 429 or 5xx; none, by timeout or a broken connection.               *)
Answer == {"ok", "garbled", "refused", "unavailable", "lost"}

(* Mutant: an answer that cannot be read is no answer. *)
VerdictCautious(answer) ==
  CASE answer = "ok" -> "delivered"
    [] answer = "refused" -> "failed"
    [] answer \in {"garbled", "unavailable", "lost"} -> "retrying"

Verdict(answer) ==
  CASE answer = "ok" -> "delivered"
    [] answer \in {"garbled", "refused"} -> "failed"
    [] answer \in {"unavailable", "lost"} -> "retrying"

Init ==
  /\ RowsInit
  /\ standing = [i \in Item |-> "current"]
  /\ closed = [i \in Item |-> 0]
  /\ shown = [i \in Item |-> {}]
  /\ late = [i \in Item |-> {}]
  /\ doubtful = [i \in Item |-> {}]

(* The clock passes the expiry of the invitation notice i announces. *)
Expire(i) ==
  /\ outcome[i] # "absent"
  /\ standing[i] = "current"
  /\ standing' = [standing EXCEPT ![i] = "expired"]
  /\ closed' = [closed EXCEPT ![i] = attempts[i]]
  /\ UNCHANGED <<leaseVars, shown, late, doubtful>>

(* What notice i announces is answered, changed or withdrawn. *)
Supersede(i) ==
  /\ outcome[i] # "absent"
  /\ standing[i] # "superseded"
  /\ standing' = [standing EXCEPT ![i] = "superseded"]
  /\ closed' = [closed EXCEPT ![i] = IF standing[i] = "current" THEN attempts[i] ELSE @]
  /\ UNCHANGED <<leaseVars, shown, late, doubtful>>

(* The notification table's own copies of the claim and of the outcome, in *)
(* which a row is open while it is 'pending', and the end of a delay.      *)
ClaimNotice(w) == Claim(w) /\ UNCHANGED noticeVars
FinishNotice(w) == Finish(w) /\ UNCHANGED noticeVars
RetryDue(i) == TimePasses(i) /\ UNCHANGED noticeVars

(* Mutant: the currency of the notice is not asked for. *)
AnyStanding(j) == outcome[j.item] # "absent"

(* Job j finds its notice current: an expiry is judged by the time of the  *)
(* claim, everything else by the tables as they are.                       *)
SeemsCurrent(j) ==
  \/ standing[j.item] = "current"
  \/ standing[j.item] = "expired" /\ j.attempt <= closed[j.item]

(* The worker reads, after its claim and in no transaction, whether the    *)
(* notice is current and who the guide is.                                 *)
Check(w) ==
  /\ job[w] # Idle
  /\ \/ SeemsCurrent(job[w]) /\ Advance(w, "claimed", "checked")
     \/ Advance(w, "claimed", "failed")
  /\ UNCHANGED noticeVars

(* Telegram answers attempt n of notice i; it may show the message unless  *)
(* it refuses it, now or after nobody waits any more.                      *)
TelegramAnswers(i, n, answer) ==
  /\ \/ answer # "refused" /\ shown' = [shown EXCEPT ![i] = @ \cup {n}]
     \/ answer # "ok" /\ UNCHANGED shown
  /\ \/ answer \in {"lost", "unavailable"} /\ n \notin shown'[i]
        /\ late' = [late EXCEPT ![i] = @ \cup {n}]
     \/ UNCHANGED late
  /\ doubtful' = IF answer \in {"lost", "unavailable"}
                 THEN [doubtful EXCEPT ![i] = @ \cup {n}]
                 ELSE doubtful

(* The worker sends the message and waits. *)
Send(w) ==
  /\ \E answer \in Answer :
       /\ Advance(w, "checked", Verdict(answer))
       /\ TelegramAnswers(job[w].item, job[w].attempt, answer)
  /\ UNCHANGED <<standing, closed>>

(* A message nobody waits for is shown after all. *)
LateMessage(i) ==
  /\ \E n \in late[i] :
       /\ shown' = [shown EXCEPT ![i] = @ \cup {n}]
       /\ late' = [late EXCEPT ![i] = @ \ {n}]
  /\ UNCHANGED <<leaseVars, standing, closed, doubtful>>

(* The worker loses its claim; what it learned is lost with it. *)
LoseClaim(w) ==
  /\ Crash(w)
  /\ doubtful' = IF job[w].stage \in Result
                 THEN [doubtful EXCEPT ![job[w].item] = @ \cup {job[w].attempt}]
                 ELSE doubtful
  /\ UNCHANGED <<standing, closed, shown, late>>

Next ==
  \/ \E i \in Item :
       \/ (Enqueue(i) \/ LeaseRunsOut(i)) /\ UNCHANGED noticeVars
       \/ RetryDue(i)
       \/ Expire(i)
       \/ Supersede(i)
       \/ LateMessage(i)
  \/ \E w \in Worker :
       \/ ClaimNotice(w) \/ FinishNotice(w)
       \/ Check(w)
       \/ Send(w)
       \/ LoseClaim(w)

(* The worker's loop swallows every exception and goes on (run_forever), a *)
(* request ends by its socket timeout, and time passes.                    *)
Fairness ==
  /\ \A w \in Worker :
       /\ WF_vars(ClaimNotice(w))
       /\ WF_vars(FinishNotice(w))
       /\ WF_vars(Check(w))
       /\ WF_vars(Send(w))
  /\ \A i \in Item : WF_vars(RetryDue(i))

Safe == Init /\ [][Next]_vars
Spec == Safe /\ Fairness

----------------------------------------------------------------------------

TypeOK ==
  /\ LeaseTypeOK
  /\ standing \in [Item -> Standing]
  /\ closed \in [Item -> Nat]
  /\ shown \in [Item -> SUBSET (1..MaxAttempts)]
  /\ late \in [Item -> SUBSET (1..MaxAttempts)]
  /\ doubtful \in [Item -> SUBSET Nat]

(* No message comes from an attempt that was claimed after its notice      *)
(* ceased to be current; one claimed before may still be sent, since the   *)
(* check and the send are no transaction (_deliver_claimed).               *)
NoStaleNotice ==
  \A i \in Item : \A n \in shown[i] : standing[i] = "current" \/ n <= closed[i]

(* The guide sees a notice twice only if the earlier message's answer was  *)
(* lost, or its worker died, or a lease ran out on it: retries and the     *)
(* second worker alone never repeat a message.                             *)
RepeatedOnlyInDoubt ==
  \A i \in Item :
    overruns[i] = 0 => \A m, n \in shown[i] : m < n => m \in doubtful[i]

(* A notice is in the end settled once and for all, and "delivered" is     *)
(* said only of one the guide was shown.                                   *)
Facts == INSTANCE FactDelivery WITH
           fate <- outcome, known <- {i \in Item : shown[i] # {}}
FactsSettled == Facts!Spec
FactsSafe == Facts!Safe
=============================================================================
