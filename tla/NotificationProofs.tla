------------------------- MODULE NotificationProofs -------------------------
(***************************************************************************)
(* The safety of NotificationDelivery for all values of its constants.  To *)
(* the lease invariant are added where messages come from (MessagesSound), *)
(* what a worker at each stage may rely on (SenderSound), and that a       *)
(* message shown without doubt is the last attempt's and ends the notice   *)
(* (DoubtSound).                                                           *)
(***************************************************************************)
EXTENDS NotificationDelivery, LeasesProofs

USE DEF Result, Stage, Jobs, Outcome, ClaimNotice, FinishNotice, RetryDue

(* Attempt n of notice i was claimed while the notice was current. *)
InTime(i, n) == standing[i] = "current" \/ n <= closed[i]

MessagesSound(i) ==
  /\ closed[i] <= attempts[i]
  /\ late[i] \subseteq doubtful[i]
  /\ \A n \in shown[i] \cup late[i] :
       outcome[i] # "absent" /\ n <= attempts[i] /\ InTime(i, n)

SenderSound(w) ==
  job[w] # Idle =>
    /\ job[w].stage \in {"claimed", "checked"} => job[w].attempt <= MaxAttempts
    /\ job[w].stage = "checked" => InTime(job[w].item, job[w].attempt)
    /\ job[w].stage = "delivered" => job[w].attempt \in shown[job[w].item]

(* A worker is about to record attempt n of notice i for good. *)
Ending(w, i, n) ==
  Holds(w, i) /\ job[w].attempt = n /\ job[w].stage \in {"delivered", "failed"}

DoubtSound(i) ==
  overruns[i] = 0 =>
    \A n \in shown[i] :
      \/ n \in doubtful[i]
      \/ /\ n = attempts[i]
         /\ outcome[i] \in {"delivered", "failed"} \/ \E w \in Worker : Ending(w, i, n)

Sound ==
  /\ \A i \in Item : MessagesSound(i) /\ DoubtSound(i)
  /\ \A w \in Worker : SenderSound(w)

NoticeInv == TypeOK /\ LeaseInv /\ Sound

LEMMA VerdictType ==
  ASSUME NEW answer \in Answer
  PROVE  /\ Verdict(answer) \in Result
         /\ Verdict(answer) = "retrying" <=> answer \in {"lost", "unavailable"}
         /\ Verdict(answer) = "delivered" <=> answer = "ok"
  BY DEF Answer, Verdict

LEMMA NextIsLeaseStep ==
  ASSUME NoticeInv, [Next]_vars
  PROVE  LeaseStep \/ UNCHANGED leaseVars
  <1>1. ASSUME NEW w \in Worker, Send(w) PROVE LeaseStep
    BY <1>1, VerdictType DEF Send, LeaseStep
  <1>2. ASSUME NEW w \in Worker, Check(w) PROVE LeaseStep
    BY <1>2 DEF Check, LeaseStep
  <1>3. ASSUME NEW w \in Worker, LoseClaim(w) PROVE LeaseStep
    BY <1>3 DEF LoseClaim, LeaseStep
  <1>4. ASSUME NEW i \in Item, Expire(i) \/ Supersede(i) \/ LateMessage(i)
        PROVE  UNCHANGED leaseVars
    BY <1>4 DEF Expire, Supersede, LateMessage
  <1> QED BY <1>1, <1>2, <1>3, <1>4 DEF Next, LeaseStep, vars

LEMMA NextLeaseInv ==
  ASSUME NoticeInv, [Next]_vars
  PROVE  LeaseInv'
  BY NextIsLeaseStep, LeaseInvKept DEF NoticeInv

(* A worker with a claim: its notice, its attempt, and what they keep. *)
LEMMA JobFacts ==
  ASSUME NoticeInv, NEW w \in Worker, job[w] # Idle
  PROVE  \E i \in Item, n \in Nat \ {0} :
           /\ job[w].item = i /\ job[w].attempt = n
           /\ n <= attempts[i] /\ outcome[i] # "absent"
  <1>1. /\ job[w].item \in Item /\ job[w].attempt \in Nat \ {0}
        /\ JobSound(w)
    BY JobType DEF NoticeInv, LeaseInv
  <1> QED BY <1>1 DEF JobSound

(* What a stage keeps of the others: Advance moves one worker only. *)
LEMMA AdvanceFacts ==
  ASSUME NoticeInv, NEW w \in Worker, NEW s \in Stage, NEW t \in Stage, Advance(w, s, t)
  PROVE  /\ job[w] # Idle /\ job[w].stage = s
         /\ job'[w] # Idle /\ job'[w].stage = t
         /\ job'[w].item = job[w].item /\ job'[w].attempt = job[w].attempt
         /\ \A v \in Worker \ {w} : job'[v] = job[v]
         /\ UNCHANGED <<outcome, attempts, due, overruns>>
  BY AdvanceKeeps DEF NoticeInv, Advance, rows

(* The claim of a notice whose lease never ran out finds nobody at it. *)
LEMMA ClaimFacts ==
  ASSUME NoticeInv, NEW w \in Worker, Claim(w)
  PROVE  \E i \in Item :
           /\ outcome[i] = "waiting"
           /\ attempts' = [attempts EXCEPT ![i] = @ + 1]
           /\ job'[w].item = i /\ job'[w].attempt = attempts[i] + 1
           /\ job'[w].stage = IF Exhausted(attempts[i] + 1) THEN "failed" ELSE "claimed"
           /\ \A v \in Worker \ {w} : job'[v] = job[v]
           /\ overruns[i] = 0 => \A v \in Worker : ~ Holds(v, i)
  <1>1. PICK i \in Item :
          /\ Claimable(i)
          /\ attempts' = [attempts EXCEPT ![i] = @ + 1]
          /\ job' = [job EXCEPT ![w] =
               Job(i, attempts[i] + 1, IF Exhausted(attempts[i] + 1) THEN "failed" ELSE "claimed")]
    BY DEF Claim
  <1>2. job \in [Worker -> Jobs \cup {Idle}]
    BY DEF NoticeInv, LeaseInv, LeaseTypeOK
  <1>3. /\ job'[w].item = i /\ job'[w].attempt = attempts[i] + 1
        /\ job'[w].stage = IF Exhausted(attempts[i] + 1) THEN "failed" ELSE "claimed"
        /\ \A v \in Worker \ {w} : job'[v] = job[v]
    BY <1>1, <1>2 DEF Job
  <1>4. overruns[i] = 0 => \A v \in Worker : ~ Holds(v, i)
    BY <1>1 DEF Claimable, Holds, NoticeInv, LeaseInv, JobSound
  <1> QED BY <1>1, <1>3, <1>4 DEF Claimable

----------------------------------------------------------------------------
(* One lemma per action. *)

LEMMA EnqueueSound ==
  ASSUME NoticeInv, NEW i \in Item, Enqueue(i), UNCHANGED noticeVars
  PROVE  Sound'
  <1>1. \A j \in Item : outcome[j] = "absent" \/ outcome'[j] = outcome[j]
    BY DEF Enqueue, NoticeInv, LeaseInv, LeaseTypeOK
  <1>2. \A j \in Item : outcome'[j] # "absent" \/ outcome'[j] = outcome[j]
    BY DEF Enqueue, NoticeInv, LeaseInv, LeaseTypeOK
  <1>3. UNCHANGED <<attempts, job, overruns, standing, closed, shown, late, doubtful>>
    BY DEF Enqueue, noticeVars
  <1> QED BY <1>1, <1>2, <1>3
          DEF NoticeInv, Sound, MessagesSound, DoubtSound, SenderSound, InTime, Ending, Holds

LEMMA TimeSound ==
  ASSUME NoticeInv, NEW i \in Item, TimePasses(i) \/ LeaseRunsOut(i), UNCHANGED noticeVars
  PROVE  Sound'
  <1>1. \A j \in Item : overruns'[j] = 0 => overruns[j] = 0
    BY DEF TimePasses, LeaseRunsOut, NoticeInv, LeaseInv, LeaseTypeOK
  <1>2. UNCHANGED <<outcome, attempts, job, standing, closed, shown, late, doubtful>>
    BY DEF TimePasses, LeaseRunsOut, noticeVars
  <1> QED BY <1>1, <1>2
          DEF NoticeInv, Sound, MessagesSound, DoubtSound, SenderSound, InTime, Ending, Holds

(* Whoever closes a notice closes it after all attempts made so far. *)
LEMMA ClosingSound ==
  ASSUME NoticeInv, NEW i \in Item, Expire(i) \/ Supersede(i)
  PROVE  Sound'
  <1>1. UNCHANGED <<outcome, attempts, job, overruns, shown, late, doubtful>>
    BY DEF Expire, Supersede, leaseVars, rows
  <1>2. \A j \in Item : closed'[j] <= attempts[j]
    BY DEF Expire, Supersede, NoticeInv, Sound, MessagesSound, TypeOK, LeaseTypeOK
  <1>3. ASSUME NEW j \in Item, NEW n \in Nat, n <= attempts[j], InTime(j, n)
        PROVE  InTime(j, n)'
    BY <1>3 DEF InTime, Expire, Supersede, NoticeInv, TypeOK
  <1>4. \A j \in Item : MessagesSound(j)'
    BY <1>1, <1>2, <1>3 DEF NoticeInv, Sound, MessagesSound, TypeOK
  <1>5. \A j \in Item : DoubtSound(j)'
    BY <1>1 DEF NoticeInv, Sound, DoubtSound, Ending, Holds
  <1>6. ASSUME NEW w \in Worker PROVE SenderSound(w)'
    BY <1>1, <1>3, JobFacts DEF NoticeInv, Sound, SenderSound
  <1> QED BY <1>4, <1>5, <1>6 DEF Sound

LEMMA ClaimSound ==
  ASSUME NoticeInv, NEW w \in Worker, Claim(w), UNCHANGED noticeVars
  PROVE  Sound'
  <1>1. PICK i \in Item :
           /\ outcome[i] = "waiting"
           /\ attempts' = [attempts EXCEPT ![i] = @ + 1]
           /\ job'[w].item = i /\ job'[w].attempt = attempts[i] + 1
           /\ job'[w].stage = IF Exhausted(attempts[i] + 1) THEN "failed" ELSE "claimed"
           /\ \A v \in Worker \ {w} : job'[v] = job[v]
           /\ overruns[i] = 0 => \A v \in Worker : ~ Holds(v, i)
    BY ClaimFacts
  <1>2. /\ UNCHANGED <<outcome, overruns, standing, closed, shown, late, doubtful>>
        /\ attempts \in [Item -> Nat]
        /\ job[w] = Idle
        /\ MaxAttempts \in Nat
    BY LeasesAssumption
    DEF LeasesAssumption, Claim, noticeVars, NoticeInv, LeaseInv, LeaseTypeOK
  <1>3. \A j \in Item : attempts'[j] \in Nat /\ attempts[j] <= attempts'[j]
    BY <1>1, <1>2
  <1>4. ASSUME NEW j \in Item PROVE MessagesSound(j)'
    <2>1. /\ closed[j] \in Nat
          /\ \A n \in shown[j] \cup late[j] : n \in Nat
          /\ MessagesSound(j)
      BY DEF NoticeInv, Sound, TypeOK
    <2> QED BY <1>2, <1>3, <2>1 DEF MessagesSound, InTime
  <1>5. ASSUME NEW j \in Item PROVE DoubtSound(j)'
    <2>1. CASE j = i
      BY <2>1, <1>1, <1>2 DEF NoticeInv, Sound, DoubtSound, Ending
    <2>2. CASE j # i
      <3>1. attempts'[j] = attempts[j]
        BY <2>2, <1>1, <1>2
      <3>2. \A v \in Worker, n \in Nat : Ending(v, j, n) => Ending(v, j, n)'
        BY <1>1, <1>2 DEF Ending, Holds
      <3> QED BY <3>1, <3>2, <1>2 DEF NoticeInv, Sound, TypeOK, DoubtSound
    <2> QED BY <2>1, <2>2
  <1>6. ASSUME NEW v \in Worker PROVE SenderSound(v)'
    <2>1. CASE v = w
      BY <2>1, <1>1, <1>2 DEF SenderSound, Exhausted
    <2>2. CASE v # w
      BY <2>2, <1>1, <1>2 DEF NoticeInv, Sound, SenderSound, InTime
    <2> QED BY <2>1, <2>2
  <1> QED BY <1>4, <1>5, <1>6 DEF Sound

LEMMA CheckSound ==
  ASSUME NoticeInv, NEW w \in Worker, Check(w)
  PROVE  Sound'
  <1>1. PICK t \in {"checked", "failed"} :
          /\ Advance(w, "claimed", t)
          /\ t = "checked" => SeemsCurrent(job[w])
    BY DEF Check
  <1>2. /\ job[w] # Idle /\ job[w].stage = "claimed"
        /\ job'[w] # Idle /\ job'[w].stage = t
        /\ job'[w].item = job[w].item /\ job'[w].attempt = job[w].attempt
        /\ \A v \in Worker \ {w} : job'[v] = job[v]
        /\ UNCHANGED <<outcome, attempts, due, overruns>>
        /\ UNCHANGED <<standing, closed, shown, late, doubtful>>
    BY <1>1, AdvanceFacts DEF Check, noticeVars
  <1>3. \A j \in Item : MessagesSound(j)'
    BY <1>2 DEF NoticeInv, Sound, MessagesSound, InTime
  <1>4. \A v \in Worker, j \in Item, n \in Nat : Ending(v, j, n) => Ending(v, j, n)'
    BY <1>2 DEF Ending, Holds
  <1>5. \A j \in Item : DoubtSound(j)'
    BY <1>2, <1>4 DEF NoticeInv, Sound, TypeOK, DoubtSound
  <1>6. ASSUME NEW v \in Worker PROVE SenderSound(v)'
    <2>1. CASE v = w
      <3>1. t = "checked" => InTime(job[w].item, job[w].attempt)
        BY <1>1 DEF SeemsCurrent, InTime
      <3> QED BY <2>1, <3>1, <1>2 DEF NoticeInv, Sound, SenderSound, InTime
    <2>2. CASE v # w
      BY <2>2, <1>2 DEF NoticeInv, Sound, SenderSound, InTime
    <2> QED BY <2>1, <2>2
  <1> QED BY <1>3, <1>5, <1>6 DEF Sound

(* The message carries the sender's attempt: the last one where no lease   *)
(* ran out, and in time because it was checked.                            *)
LEMMA SendSound ==
  ASSUME NoticeInv, NEW w \in Worker, Send(w)
  PROVE  Sound'
  <1>1. PICK answer \in Answer :
          /\ Advance(w, "checked", Verdict(answer))
          /\ TelegramAnswers(job[w].item, job[w].attempt, answer)
          /\ UNCHANGED <<standing, closed>>
    BY DEF Send
  <1>2. /\ job[w] # Idle /\ job[w].stage = "checked"
        /\ job'[w] # Idle /\ job'[w].stage = Verdict(answer)
        /\ job'[w].item = job[w].item /\ job'[w].attempt = job[w].attempt
        /\ \A v \in Worker \ {w} : job'[v] = job[v]
        /\ UNCHANGED <<outcome, attempts, due, overruns>>
    BY <1>1, VerdictType, AdvanceFacts
  <1>3. PICK i \in Item, n \in Nat \ {0} :
           /\ job[w].item = i /\ job[w].attempt = n
           /\ n <= attempts[i] /\ outcome[i] # "absent"
    BY <1>2, JobFacts
  <1>4. /\ InTime(i, n)
        /\ overruns[i] = 0 => n = attempts[i]
    BY <1>2, <1>3 DEF NoticeInv, Sound, SenderSound, LeaseInv, JobSound
  <1>5. /\ \A j \in Item \ {i} :
             shown'[j] = shown[j] /\ late'[j] = late[j] /\ doubtful'[j] = doubtful[j]
        /\ shown[i] \subseteq shown'[i] /\ shown'[i] \subseteq shown[i] \cup {n}
        /\ late[i] \subseteq late'[i] /\ late'[i] \subseteq late[i] \cup {n}
        /\ doubtful[i] \subseteq doubtful'[i]
        /\ answer \in {"lost", "unavailable"} => n \in doubtful'[i]
        /\ answer \notin {"lost", "unavailable"} => late' = late
        /\ answer = "ok" => n \in shown'[i]
    BY <1>1, <1>3 DEF TelegramAnswers, NoticeInv, TypeOK
  <1>6. ASSUME NEW j \in Item PROVE MessagesSound(j)'
    <2>1. InTime(j, n)' = InTime(j, n) /\ \A m : InTime(j, m)' = InTime(j, m)
      BY <1>1 DEF InTime
    <2>2. CASE j = i
      <3>1. late'[i] \subseteq doubtful'[i]
        BY <1>5 DEF NoticeInv, Sound, MessagesSound
      <3> QED BY <2>1, <2>2, <3>1, <1>1, <1>2, <1>3, <1>4, <1>5
              DEF NoticeInv, Sound, MessagesSound
    <2>3. CASE j # i
      BY <2>1, <2>3, <1>1, <1>2, <1>5 DEF NoticeInv, Sound, MessagesSound
    <2> QED BY <2>2, <2>3
  <1>7. \A v \in Worker, j \in Item, m \in Nat : Ending(v, j, m) => Ending(v, j, m)'
    BY <1>2 DEF Ending, Holds
  <1>8. ASSUME NEW j \in Item PROVE DoubtSound(j)'
    <2>1. CASE j = i
      <3> SUFFICES ASSUME overruns[i] = 0, NEW m \in shown'[i], m \notin doubtful'[i]
                   PROVE  /\ m = attempts[i]
                          /\ outcome[i] \in {"delivered", "failed"}
                             \/ \E v \in Worker : Ending(v, i, m)'
        BY <2>1, <1>2 DEF DoubtSound
      <3>1. CASE m \in shown[i]
        <4>1. m \in Nat /\ m \notin doubtful[i]
          BY <3>1, <1>5 DEF NoticeInv, TypeOK
        <4> QED BY <3>1, <4>1, <1>7 DEF NoticeInv, Sound, DoubtSound
      <3>2. CASE m = n
        <4>1. Verdict(answer) \in {"delivered", "failed"}
          BY <3>2, <1>5, VerdictType
        <4>2. Ending(w, i, n)'
          BY <4>1, <1>2, <1>3 DEF Ending, Holds
        <4> QED BY <3>2, <4>2, <1>4
      <3> QED BY <3>1, <3>2, <1>5
    <2>2. CASE j # i
      BY <2>2, <1>2, <1>5, <1>7 DEF NoticeInv, Sound, TypeOK, DoubtSound
    <2> QED BY <2>1, <2>2
  <1>9. ASSUME NEW v \in Worker PROVE SenderSound(v)'
    <2>1. CASE v = w
      BY <2>1, <1>2, <1>3, <1>5, VerdictType DEF SenderSound
    <2>2. ASSUME v # w, job[v] # Idle PROVE SenderSound(v)'
      <3>1. job'[v] = job[v] /\ job[v].item \in Item
        BY <2>2, <1>2, JobType DEF NoticeInv, LeaseInv
      <3>2. shown[job[v].item] \subseteq shown'[job[v].item]
        BY <3>1, <1>5
      <3> QED BY <2>2, <3>1, <3>2, <1>1 DEF NoticeInv, Sound, SenderSound, InTime
    <2> QED BY <2>1, <2>2, <1>2 DEF SenderSound
  <1> QED BY <1>6, <1>8, <1>9 DEF Sound

LEMMA LateMessageSound ==
  ASSUME NoticeInv, NEW i \in Item, LateMessage(i)
  PROVE  Sound'
  <1>1. PICK n \in late[i] : /\ shown' = [shown EXCEPT ![i] = @ \cup {n}]
                             /\ late' = [late EXCEPT ![i] = @ \ {n}]
    BY DEF LateMessage
  <1>2. /\ UNCHANGED <<outcome, attempts, job, overruns, standing, closed, doubtful>>
        /\ n \in doubtful[i]
    BY DEF LateMessage, leaseVars, rows, NoticeInv, Sound, MessagesSound
  <1>3. \A j \in Item : /\ shown[j] \subseteq shown'[j]
                        /\ shown'[j] \subseteq shown[j] \cup (late[j] \cap doubtful[j])
                        /\ late'[j] \subseteq late[j]
    BY <1>1, <1>2 DEF NoticeInv, TypeOK
  <1>4. \A j \in Item : MessagesSound(j)'
    BY <1>2, <1>3 DEF NoticeInv, Sound, MessagesSound, InTime
  <1>5. \A j \in Item : DoubtSound(j)'
    BY <1>2, <1>3 DEF NoticeInv, Sound, DoubtSound, Ending, Holds
  <1>6. ASSUME NEW w \in Worker, job[w] # Idle PROVE SenderSound(w)'
    <2>1. job[w].item \in Item
      BY <1>6, JobType DEF NoticeInv, LeaseInv
    <2> QED BY <2>1, <1>2, <1>3, <1>6 DEF NoticeInv, Sound, SenderSound, InTime
  <1> QED BY <1>2, <1>4, <1>5, <1>6 DEF Sound, SenderSound

(* What is recorded for good settles the notice; nobody else is ending it. *)
LEMMA FinishSound ==
  ASSUME NoticeInv, NEW w \in Worker, Finish(w), UNCHANGED noticeVars
  PROVE  Sound'
  <1>1. /\ job[w] # Idle /\ job[w].stage \in Result
        /\ job' = [job EXCEPT ![w] = Idle]
        /\ UNCHANGED <<attempts, crashes, overruns, standing, closed, shown, late, doubtful>>
        /\ job \in [Worker -> Jobs \cup {Idle}]
        /\ outcome \in [Item -> Outcome]
    BY DEF Finish, noticeVars, NoticeInv, LeaseInv, LeaseTypeOK
  <1>2. PICK i \in Item, n \in Nat \ {0} :
           /\ job[w].item = i /\ job[w].attempt = n
           /\ n <= attempts[i] /\ outcome[i] # "absent"
    BY <1>1, JobFacts
  <1>3. overruns[i] = 0 => /\ n = attempts[i] /\ outcome[i] = "waiting"
                           /\ outcome' = [outcome EXCEPT ![i] = Recorded(job[w].stage, @)]
    BY <1>1, <1>2 DEF NoticeInv, LeaseInv, JobSound, Finish, Fenced
  <1>4. \/ outcome' = [outcome EXCEPT ![i] = Recorded(job[w].stage, @)]
        \/ outcome' = outcome
    BY <1>2 DEF Finish
  <1>5. \A j \in Item : /\ outcome[j] # "absent" => outcome'[j] # "absent"
                        /\ j # i => outcome'[j] = outcome[j]
    BY <1>1, <1>2, <1>4 DEF Recorded
  <1>6. \A j \in Item : MessagesSound(j)'
    BY <1>1, <1>5 DEF NoticeInv, Sound, MessagesSound, InTime
  <1>7. \A v \in Worker, j \in Item, m \in Nat : v # w /\ Ending(v, j, m) => Ending(v, j, m)'
    BY <1>1 DEF Ending, Holds
  <1>8. ASSUME NEW j \in Item PROVE DoubtSound(j)'
    <2>1. CASE j = i
      <3> SUFFICES ASSUME overruns[i] = 0, NEW m \in shown[i], m \notin doubtful[i]
                   PROVE  /\ m = attempts[i]
                          /\ outcome'[i] \in {"delivered", "failed"}
                             \/ \E v \in Worker : Ending(v, i, m)'
        BY <2>1, <1>1 DEF DoubtSound
      <3>1. m = attempts[i] /\ m \in Nat
        BY DEF NoticeInv, Sound, TypeOK, DoubtSound
      <3>2. PICK v \in Worker : Ending(v, i, m)
        BY <1>3 DEF NoticeInv, Sound, DoubtSound
      <3>3. CASE v = w
        <4>1. Recorded(job[w].stage, outcome[i]) \in {"delivered", "failed"}
          BY <3>2, <3>3 DEF Ending, Recorded
        <4> QED BY <3>1, <4>1, <1>1, <1>3
      <3>4. CASE v # w
        BY <3>1, <3>2, <3>4, <1>7
      <3> QED BY <3>3, <3>4
    <2>2. CASE j # i
      <3>1. \A v \in Worker, m \in Nat : Ending(v, j, m) => Ending(v, j, m)'
        BY <2>2, <1>2, <1>7 DEF Ending, Holds
      <3> QED BY <2>2, <3>1, <1>1, <1>5 DEF NoticeInv, Sound, TypeOK, DoubtSound
    <2> QED BY <2>1, <2>2
  <1>9. \A v \in Worker : SenderSound(v)'
    BY <1>1 DEF NoticeInv, Sound, SenderSound, InTime
  <1> QED BY <1>6, <1>8, <1>9 DEF Sound

(* A worker that dies with an answer leaves its attempt in doubt. *)
LEMMA LoseClaimSound ==
  ASSUME NoticeInv, NEW w \in Worker, LoseClaim(w)
  PROVE  Sound'
  <1>1. /\ job[w] # Idle
        /\ job' = [job EXCEPT ![w] = Idle]
        /\ UNCHANGED <<outcome, attempts, overruns, standing, closed, shown, late>>
        /\ job \in [Worker -> Jobs \cup {Idle}]
        /\ doubtful' = IF job[w].stage \in Result
                       THEN [doubtful EXCEPT ![job[w].item] = @ \cup {job[w].attempt}]
                       ELSE doubtful
    BY DEF LoseClaim, Crash, rows, NoticeInv, LeaseInv, LeaseTypeOK
  <1>2. PICK i \in Item, n \in Nat \ {0} : job[w].item = i /\ job[w].attempt = n
    BY <1>1, JobFacts
  <1>3. /\ \A j \in Item : doubtful[j] \subseteq doubtful'[j]
        /\ job[w].stage \in Result => n \in doubtful'[i]
    BY <1>1, <1>2 DEF NoticeInv, TypeOK
  <1>4. ASSUME NEW j \in Item PROVE MessagesSound(j)'
    BY <1>1, <1>3 DEF NoticeInv, Sound, MessagesSound, InTime
  <1>5. \A v \in Worker, j \in Item, m \in Nat :
          Ending(v, j, m) => Ending(v, j, m)' \/ m \in doubtful'[j]
    BY <1>1, <1>2, <1>3 DEF Ending, Holds
  <1>6. ASSUME NEW j \in Item PROVE DoubtSound(j)'
    BY <1>1, <1>3, <1>5 DEF NoticeInv, Sound, TypeOK, DoubtSound
  <1>7. \A v \in Worker : SenderSound(v)'
    BY <1>1 DEF NoticeInv, Sound, SenderSound, InTime
  <1> QED BY <1>4, <1>6, <1>7 DEF Sound

LEMMA NextSound ==
  ASSUME NoticeInv, [Next]_vars
  PROVE  Sound'
  <1>1. CASE UNCHANGED vars
    BY <1>1 DEF vars, leaseVars, rows, noticeVars, NoticeInv, Sound, MessagesSound,
                DoubtSound, SenderSound, InTime, Ending, Holds
  <1>2. ASSUME NEW i \in Item,
               \/ (Enqueue(i) \/ TimePasses(i) \/ LeaseRunsOut(i)) /\ UNCHANGED noticeVars
               \/ Expire(i) \/ Supersede(i) \/ LateMessage(i)
        PROVE  Sound'
    BY <1>2, EnqueueSound, TimeSound, ClosingSound, LateMessageSound
  <1>3. ASSUME NEW w \in Worker,
               \/ (Claim(w) \/ Finish(w)) /\ UNCHANGED noticeVars
               \/ Check(w) \/ Send(w) \/ LoseClaim(w)
        PROVE  Sound'
    BY <1>3, ClaimSound, FinishSound, CheckSound, SendSound, LoseClaimSound
  <1> QED BY <1>1, <1>2, <1>3 DEF Next

(* No attempt past the last sends, so that every message is of one of the  *)
(* allowed attempts.                                                       *)
LEMMA NextTypeOK ==
  ASSUME NoticeInv, [Next]_vars
  PROVE  TypeOK'
  <1> USE DEF TypeOK
  <1>1. LeaseTypeOK'
    BY NextLeaseInv DEF LeaseInv
  <1>2. ASSUME NEW w \in Worker, Send(w)
        PROVE  /\ shown' \in [Item -> SUBSET (1..MaxAttempts)]
               /\ late' \in [Item -> SUBSET (1..MaxAttempts)]
               /\ doubtful' \in [Item -> SUBSET Nat]
    <2>1. PICK answer \in Answer :
            /\ Advance(w, "checked", Verdict(answer))
            /\ TelegramAnswers(job[w].item, job[w].attempt, answer)
      BY <1>2 DEF Send
    <2>2. job[w] # Idle /\ job[w].stage = "checked"
      BY <2>1 DEF Advance
    <2>3. PICK i \in Item, n \in Nat \ {0} : job[w].item = i /\ job[w].attempt = n
      BY <2>2, JobFacts
    <2>4. n \in 1..MaxAttempts
      BY <2>2, <2>3, LeasesAssumption DEF LeasesAssumption, NoticeInv, Sound, SenderSound
    <2>5. TelegramAnswers(i, n, answer)
      BY <2>1, <2>3
    <2> QED BY <2>4, <2>5 DEF TelegramAnswers, NoticeInv
  <1>3. ASSUME NEW w \in Worker, LoseClaim(w)
        PROVE  doubtful' \in [Item -> SUBSET Nat]
    <2>1. PICK i \in Item, n \in Nat \ {0} : job[w].item = i /\ job[w].attempt = n
      BY <1>3, JobFacts DEF LoseClaim, Crash
    <2>2. doubtful' = [doubtful EXCEPT ![i] = @ \cup {n}] \/ doubtful' = doubtful
      BY <1>3, <2>1 DEF LoseClaim
    <2> QED BY <2>2 DEF NoticeInv
  <1>4. ASSUME NEW i \in Item, LateMessage(i)
        PROVE  /\ shown' \in [Item -> SUBSET (1..MaxAttempts)]
               /\ late' \in [Item -> SUBSET (1..MaxAttempts)]
    BY <1>4 DEF LateMessage, NoticeInv
  <1>5. ASSUME NEW i \in Item, Expire(i) \/ Supersede(i)
        PROVE  standing' \in [Item -> Standing] /\ closed' \in [Item -> Nat]
    BY <1>5 DEF Expire, Supersede, Standing, NoticeInv, LeaseTypeOK
  <1> QED BY <1>1, <1>2, <1>3, <1>4, <1>5
          DEF Next, Expire, Supersede, LateMessage, Check, Send, LoseClaim, vars, noticeVars,
              NoticeInv

LEMMA NextNoticeInv ==
  ASSUME NoticeInv, [Next]_vars
  PROVE  NoticeInv'
  BY NextLeaseInv, NextSound, NextTypeOK DEF NoticeInv

LEMMA InitNoticeInv ==
  Init => NoticeInv
  <1> SUFFICES ASSUME Init PROVE NoticeInv
    OBVIOUS
  <1>1. LeaseInv
    BY RowsInitSound DEF Init
  <1>2. TypeOK
    BY <1>1 DEF Init, TypeOK, LeaseInv, Standing
  <1>3. Sound
    BY DEF Init, RowsInit, Sound, MessagesSound, DoubtSound, SenderSound
  <1> QED BY <1>1, <1>2, <1>3 DEF NoticeInv

----------------------------------------------------------------------------

(* Every column and every message has its type; in particular no message   *)
(* is of an attempt past MAX_DELIVERY_ATTEMPTS (_deliver_claimed).         *)
THEOREM NoticeTypes == Safe => []TypeOK
  <1>1. NoticeInv => TypeOK
    BY DEF NoticeInv
  <1> QED BY <1>1, InitNoticeInv, NextNoticeInv, PTL DEF Safe

(* No message comes from an attempt claimed after its notice ceased to be  *)
(* current (_deliver_claimed, is_guide_operator_guide_notification_current).*)
THEOREM NoStaleNotices == Safe => []NoStaleNotice
  <1>1. NoticeInv => NoStaleNotice
    BY DEF NoticeInv, Sound, MessagesSound, InTime, NoStaleNotice
  <1> QED BY <1>1, InitNoticeInv, NextNoticeInv, PTL DEF Safe

(* A second message of a notice follows only an attempt that ended in      *)
(* doubt, or a lease that ran out (_apply_telegram_result).                *)
THEOREM NoticesRepeatOnlyInDoubt == Safe => []RepeatedOnlyInDoubt
  <1>1. NoticeInv => RepeatedOnlyInDoubt
    <2> SUFFICES ASSUME NoticeInv, NEW i \in Item, overruns[i] = 0,
                        NEW m \in shown[i], NEW n \in shown[i], m < n
                 PROVE  m \in doubtful[i]
      BY DEF RepeatedOnlyInDoubt
    <2>1. n <= attempts[i] /\ n \in Nat /\ m \in Nat /\ attempts[i] \in Nat
      BY DEF NoticeInv, Sound, MessagesSound, TypeOK, LeaseTypeOK
    <2>2. m # attempts[i]
      BY <2>1
    <2> QED BY <2>2 DEF NoticeInv, Sound, DoubtSound
  <1> QED BY <1>1, InitNoticeInv, NextNoticeInv, PTL DEF Safe

(* Each step is a step of FactDelivery on the outcomes and the notices     *)
(* shown, or leaves both alone.                                            *)
LEMMA NextIsFactStep ==
  ASSUME NoticeInv, [Next]_vars
  PROVE  [Facts!Next]_<<outcome, {i \in Item : shown[i] # {}}>>
  <1> DEFINE known == {i \in Item : shown[i] # {}}
  <1>1. ASSUME NEW i \in Item, Enqueue(i), UNCHANGED noticeVars PROVE Facts!Next
    BY <1>1 DEF Enqueue, noticeVars, Facts!Next, Facts!Owe
  <1>2. ASSUME NEW i \in Item, outcome[i] # "absent", UNCHANGED outcome,
               \A j \in Item \ {i} : shown'[j] = shown[j],
               shown[i] \subseteq shown'[i]
        PROVE  [Facts!Next]_<<outcome, known>>
    <2>1. CASE shown'[i] = {}
      <3>1. known' = known
        BY <2>1, <1>2
      <3> QED BY <3>1, <1>2
    <2>2. CASE shown'[i] # {}
      <3>1. known' = known \cup {i}
        BY <2>2, <1>2
      <3> QED BY <3>1, <1>2 DEF Facts!Next, Facts!Learn
    <2> QED BY <2>1, <2>2
  <1>3. ASSUME NEW i \in Item, LateMessage(i) PROVE [Facts!Next]_<<outcome, known>>
    BY <1>2, <1>3 DEF LateMessage, leaseVars, rows, NoticeInv, TypeOK, Sound, MessagesSound
  <1>4. ASSUME NEW w \in Worker, Send(w) PROVE [Facts!Next]_<<outcome, known>>
    <2>1. PICK answer \in Answer :
            /\ Advance(w, "checked", Verdict(answer))
            /\ TelegramAnswers(job[w].item, job[w].attempt, answer)
      BY <1>4 DEF Send
    <2>2. job[w] # Idle /\ UNCHANGED outcome
      BY <2>1 DEF Advance, rows
    <2>3. PICK i \in Item, n \in Nat \ {0} :
            job[w].item = i /\ job[w].attempt = n /\ outcome[i] # "absent"
      BY <2>2, JobFacts
    <2>4. /\ \A j \in Item \ {i} : shown'[j] = shown[j]
          /\ shown[i] \subseteq shown'[i]
      BY <2>1, <2>3 DEF TelegramAnswers, NoticeInv, TypeOK
    <2> QED BY <1>2, <2>2, <2>3, <2>4
  <1>5. ASSUME NEW w \in Worker, Finish(w), UNCHANGED noticeVars
        PROVE  [Facts!Next]_<<outcome, known>>
    <2>1. job[w] # Idle /\ job[w].stage \in Result /\ known' = known
      BY <1>5 DEF Finish, noticeVars
    <2>2. PICK i \in Item, n \in Nat \ {0} : job[w].item = i /\ job[w].attempt = n
      BY <2>1, JobFacts
    <2>3. CASE Fenced(job[w])
      <3>1. outcome[i] = "waiting"
        BY <2>1, <2>2, <2>3 DEF Fenced, NoticeInv, LeaseInv, JobSound
      <3>2. outcome' = [outcome EXCEPT ![i] = Recorded(job[w].stage, @)]
        BY <1>5, <2>2, <2>3 DEF Finish
      <3>3. CASE job[w].stage = "delivered"
        <4>1. i \in known
          BY <2>1, <2>2, <3>3 DEF NoticeInv, Sound, SenderSound
        <4> QED BY <2>1, <3>1, <3>2, <3>3, <4>1 DEF Recorded, Facts!Next, Facts!Deliver
      <3>4. CASE job[w].stage = "failed"
        BY <2>1, <3>1, <3>2, <3>4 DEF Recorded, Facts!Next, Facts!GiveUp
      <3>5. CASE job[w].stage = "retrying"
        BY <2>1, <3>2, <3>5 DEF Recorded, NoticeInv, LeaseInv, LeaseTypeOK
      <3> QED BY <2>1, <3>3, <3>4, <3>5
    <2>4. CASE ~ Fenced(job[w])
      BY <1>5, <2>1, <2>4 DEF Finish
    <2> QED BY <2>3, <2>4
  <1>6. ASSUME NEW w \in Worker,
               (Claim(w) /\ UNCHANGED noticeVars) \/ Check(w) \/ LoseClaim(w)
        PROVE  UNCHANGED <<outcome, known>>
    BY <1>6 DEF Claim, Check, Advance, LoseClaim, Crash, rows, noticeVars
  <1>7. ASSUME NEW i \in Item,
               \/ (TimePasses(i) \/ LeaseRunsOut(i)) /\ UNCHANGED noticeVars
               \/ Expire(i) \/ Supersede(i)
        PROVE  UNCHANGED <<outcome, known>>
    BY <1>7 DEF TimePasses, LeaseRunsOut, Expire, Supersede, leaseVars, rows, noticeVars
  <1>8. CASE UNCHANGED vars
    BY <1>8 DEF vars, leaseVars, rows, noticeVars
  <1> QED BY <1>1, <1>3, <1>4, <1>5, <1>6, <1>7, <1>8 DEF Next

(* Notices settle once, and "delivered" only when the guide was shown one  *)
(* (finish_guide_operator_guide_notification_delivery).                    *)
THEOREM NoticesDeliverFacts == Safe => FactsSafe
  <1>1. Init => Facts!Init
    BY DEF Init, RowsInit, Facts!Init
  <1> QED BY <1>1, InitNoticeInv, NextNoticeInv, NextIsFactStep, PTL
          DEF Safe, FactsSafe, Facts!Safe
=============================================================================
