--------------------------- MODULE OutboxDelivery ---------------------------
(***************************************************************************)
(* Telling the operator what happened                                      *)
(* (services/guide_operator_outbound_delivery.py and the worker that calls *)
(* deliver_one).  Every row of guide_operator_outbox is POSTed until the   *)
(* operator acknowledges it, refuses it, or the attempts are used up.  The *)
(* request runs between two transactions; its answer may be lost, and it   *)
(* may reach the operator after the worker stopped waiting for it.         *)
(***************************************************************************)
EXTENDS Leases

VARIABLES told,  \* facts the operator has applied
          late,  \* requests given up on that may still reach the operator
          posts  \* how often each row was sent

outboxVars == <<told, late, posts>>
vars == <<leaseVars, outboxVars>>

(* What a worker can make of the operator's answer: acknowledged, applied  *)
(* or replayed; 200 or a redirect with anything else in it; 4xx; 429 or    *)
(* 5xx; none, by timeout or a broken connection.                           *)
Answer == {"acknowledged", "garbled", "refused", "unavailable", "lost"}

(* Mutant: any 200 will do, and a conflict means it is known already. *)
VerdictHopeful(answer) ==
  CASE answer \in {"acknowledged", "garbled", "refused"} -> "delivered"
    [] answer \in {"unavailable", "lost"} -> "retrying"

Verdict(answer) ==
  CASE answer = "acknowledged" -> "delivered"
    [] answer \in {"garbled", "refused"} -> "failed"
    [] answer \in {"unavailable", "lost"} -> "retrying"

Init ==
  /\ RowsInit
  /\ told = {}
  /\ late = {}
  /\ posts = [i \in Item |-> 0]

(* The operator answers w's request for row i.  It has applied the fact if *)
(* it says so; it has not if it refuses; otherwise one cannot tell.        *)
OperatorAnswers(i, answer) ==
  /\ \/ answer # "refused" /\ told' = told \cup {i}
     \/ answer # "acknowledged" /\ UNCHANGED told
  /\ \/ answer \in {"lost", "unavailable"} /\ late' = late \cup {i}
     \/ UNCHANGED late

(* The worker sends the row and waits. *)
Post(w) ==
  /\ \E answer \in Answer :
       /\ Advance(w, "claimed", Verdict(answer))
       /\ OperatorAnswers(job[w].item, answer)
  /\ posts' = [posts EXCEPT ![job[w].item] = @ + 1]

(* The row does not validate, or its token cannot be signed: nothing is *)
(* sent, and the row fails.                                              *)
Unsendable(w) ==
  /\ Advance(w, "claimed", "failed")
  /\ UNCHANGED outboxVars

(* A request nobody waits for arrives after all. *)
LateArrival(i) ==
  /\ i \in late
  /\ told' = told \cup {i}
  /\ late' = late \ {i}
  /\ UNCHANGED <<leaseVars, posts>>

Next ==
  \/ \E i \in Item :
       \/ (Enqueue(i) \/ TimePasses(i) \/ LeaseRunsOut(i)) /\ UNCHANGED outboxVars
       \/ LateArrival(i)
  \/ \E w \in Worker :
       \/ (Claim(w) \/ Finish(w) \/ Crash(w)) /\ UNCHANGED outboxVars
       \/ Post(w)
       \/ Unsendable(w)

(* The worker's loop goes on (run_forever, restarted with its process), a  *)
(* request ends by its socket timeout, and time passes.  Nothing makes a   *)
(* handler queue a row or the operator acknowledge one.                    *)
Fairness ==
  /\ \A w \in Worker :
       /\ WF_vars(Claim(w) /\ UNCHANGED outboxVars)
       /\ WF_vars(Finish(w) /\ UNCHANGED outboxVars)
       /\ WF_vars(Post(w) \/ Unsendable(w))
  /\ \A i \in Item : WF_vars(TimePasses(i) /\ UNCHANGED outboxVars)

Safe == Init /\ [][Next]_vars
Spec == Safe /\ Fairness

----------------------------------------------------------------------------

TypeOK ==
  /\ LeaseTypeOK
  /\ told \subseteq Item
  /\ late \subseteq Item
  /\ posts \in [Item -> Nat]

(* No row is sent more than MAX_DELIVERY_ATTEMPTS times, however claims,   *)
(* crashes and leases interleave (the attempt is counted by the claim).    *)
PostsBounded == \A i \in Item : posts[i] <= MaxAttempts

(* Each fact is owed, then settled once and for all; "delivered" is only   *)
(* said of facts the operator applied, although a late worker may hold an  *)
(* older answer; and every fact that is owed is settled in the end.        *)
Facts == INSTANCE FactDelivery WITH fate <- outcome, known <- told
FactsSettled == Facts!Spec
FactsSafe == Facts!Safe
=============================================================================
