---------------------------- MODULE OutboxProofs ----------------------------
(***************************************************************************)
(* The safety of OutboxDelivery for all values of its constants: any       *)
(* number of workers and rows, any bounds on attempts, crashes and         *)
(* overruns.  The lease invariant carries over; what is added is that a    *)
(* worker says "delivered" only of what the operator was told, and that    *)
(* every request still to be sent is an attempt already counted.           *)
(***************************************************************************)
EXTENDS OutboxDelivery, LeasesProofs, FiniteSetTheorems

USE DEF Result, Stage, Jobs, Outcome

(* The operator knows only facts that are owed, and all those a worker is  *)
(* about to record as delivered.                                           *)
ToldSound ==
  /\ told \subseteq {i \in Item : outcome[i] # "absent"}
  /\ late \subseteq {i \in Item : outcome[i] # "absent"}
  /\ \A w \in Worker : job[w] # Idle /\ job[w].stage = "delivered" => job[w].item \in told

OutboxInv == TypeOK /\ LeaseInv /\ ToldSound

(* Every step is one of the table and its workers, or does not touch them. *)
LEMMA NextIsLeaseStep ==
  ASSUME TypeOK, [Next]_vars
  PROVE  LeaseStep \/ UNCHANGED leaseVars
  <1>1. \A answer \in Answer : Verdict(answer) \in Stage
    BY DEF Answer, Verdict
  <1>2. ASSUME NEW w \in Worker, Post(w) PROVE LeaseStep
    BY <1>1, <1>2 DEF Post, LeaseStep
  <1>3. ASSUME NEW w \in Worker, Unsendable(w) PROVE LeaseStep
    BY <1>3 DEF Unsendable, LeaseStep
  <1> QED BY <1>2, <1>3 DEF Next, LeaseStep, LateArrival, vars

LEMMA NextLeaseInv ==
  ASSUME OutboxInv, [Next]_vars
  PROVE  LeaseInv'
  BY NextIsLeaseStep, LeaseInvKept DEF OutboxInv

(* A request is sent for a row that exists and is not settled. *)
LEMMA PostIsOwed ==
  ASSUME OutboxInv, NEW w \in Worker, Post(w)
  PROVE  /\ job[w].item \in Item /\ outcome[job[w].item] # "absent"
         /\ UNCHANGED outcome
  BY JobType DEF OutboxInv, LeaseInv, JobSound, Post, Advance, rows

LEMMA NextToldSound ==
  ASSUME OutboxInv, [Next]_vars
  PROVE  ToldSound'
  <1> USE DEF OutboxInv
  <1>1. ASSUME NEW i \in Item, Enqueue(i) \/ TimePasses(i) \/ LeaseRunsOut(i),
               UNCHANGED outboxVars
        PROVE  ToldSound'
    BY <1>1 DEF Enqueue, TimePasses, LeaseRunsOut, ToldSound, outboxVars, LeaseInv, LeaseTypeOK
  <1>2. ASSUME NEW i \in Item, LateArrival(i) PROVE ToldSound'
    BY <1>2 DEF LateArrival, ToldSound, leaseVars, rows
  <1>3. ASSUME NEW w \in Worker, Claim(w), UNCHANGED outboxVars PROVE ToldSound'
    <2>1. PICK i \in Item :
            job' = [job EXCEPT ![w] =
              Job(i, attempts[i] + 1, IF Exhausted(attempts[i] + 1) THEN "failed" ELSE "claimed")]
      BY <1>3 DEF Claim
    <2>2. job'[w].stage # "delivered"
      BY <2>1 DEF Job, LeaseInv, LeaseTypeOK
    <2> QED BY <2>1, <2>2, <1>3 DEF Claim, ToldSound, outboxVars, LeaseInv, LeaseTypeOK
  <1>4. ASSUME NEW w \in Worker, Finish(w) \/ Crash(w), UNCHANGED outboxVars PROVE ToldSound'
    <2>1. \A i \in Item : outcome'[i] # "absent" \/ outcome'[i] = outcome[i]
      BY <1>4, JobType DEF Finish, Crash, rows, Recorded, LeaseInv, LeaseTypeOK
    <2> QED BY <2>1, <1>4 DEF Finish, Crash, ToldSound, outboxVars, LeaseInv, LeaseTypeOK
  <1>5. ASSUME NEW w \in Worker, Post(w) PROVE ToldSound'
    <2>1. PICK answer \in Answer :
            /\ Advance(w, "claimed", Verdict(answer))
            /\ OperatorAnswers(job[w].item, answer)
      BY <1>5 DEF Post
    <2>2. Verdict(answer) = "delivered" => job[w].item \in told'
      BY <2>1 DEF Answer, Verdict, OperatorAnswers
    <2>3. /\ job'[w].stage = Verdict(answer) /\ job'[w].item = job[w].item
          /\ \A v \in Worker \ {w} : job'[v] = job[v]
      BY <2>1, AdvanceKeeps DEF Answer, Verdict
    <2>4. told \subseteq told' /\ told' \subseteq told \cup {job[w].item}
          /\ late' \subseteq late \cup {job[w].item}
      BY <2>1 DEF OperatorAnswers
    <2> QED BY <2>2, <2>3, <2>4, <1>5, PostIsOwed DEF ToldSound
  <1>6. ASSUME NEW w \in Worker, Unsendable(w) PROVE ToldSound'
    <2>1. Advance(w, "claimed", "failed") /\ UNCHANGED outboxVars
      BY <1>6 DEF Unsendable
    <2>2. job'[w].stage = "failed" /\ \A v \in Worker \ {w} : job'[v] = job[v]
      BY <2>1, AdvanceKeeps
    <2> QED BY <2>1, <2>2 DEF ToldSound, Advance, rows, outboxVars
  <1>7. CASE UNCHANGED vars
    BY <1>7 DEF ToldSound, vars, leaseVars, rows, outboxVars
  <1> QED BY <1>1, <1>2, <1>3, <1>4, <1>5, <1>6, <1>7 DEF Next

LEMMA NextOutboxInv ==
  ASSUME OutboxInv, [Next]_vars
  PROVE  OutboxInv'
  <1>1. LeaseInv' /\ ToldSound'
    BY NextLeaseInv, NextToldSound
  <1>2. posts' \in [Item -> Nat]
    <2>1. ASSUME NEW w \in Worker, Post(w) PROVE posts' \in [Item -> Nat]
      <3>1. job[w].item \in Item
        BY <2>1, PostIsOwed
      <3>2. posts' = [posts EXCEPT ![job[w].item] = @ + 1]
        BY <2>1 DEF Post
      <3> QED BY <3>1, <3>2 DEF OutboxInv, TypeOK
    <2> QED BY <2>1 DEF Next, vars, outboxVars, LateArrival, Unsendable, OutboxInv, TypeOK
  <1> QED BY <1>1, <1>2 DEF OutboxInv, TypeOK, LeaseInv, ToldSound

LEMMA InitOutboxInv ==
  Init => OutboxInv
  BY RowsInitSound DEF Init, OutboxInv, TypeOK, LeaseInv, ToldSound, RowsInit

(* Every column has a value of its type (guide_operator_outbox and the     *)
(* worker's claim).                                                        *)
THEOREM OutboxTypes == Safe => []TypeOK
  <1>1. OutboxInv => TypeOK
    BY DEF OutboxInv
  <1> QED BY <1>1, InitOutboxInv, NextOutboxInv, PTL DEF Safe

(* Two workers are at one row only after its lease ran out on one of them  *)
(* (claim_guide_operator_outbox_for_delivery).                             *)
THEOREM OutboxLeasesExclude == Safe => []LeaseExclusive
  <1>1. OutboxInv => LeaseExclusive
    BY InvExcludes DEF OutboxInv
  <1> QED BY <1>1, InitOutboxInv, NextOutboxInv, PTL DEF Safe

----------------------------------------------------------------------------

(* Each step is a step of FactDelivery on the outcomes and what the        *)
(* operator was told, or leaves both alone.                                *)
LEMMA NextIsFactStep ==
  ASSUME OutboxInv, [Next]_vars
  PROVE  [Facts!Next]_<<outcome, told>>
  <1> USE DEF OutboxInv
  <1>1. ASSUME NEW i \in Item, Enqueue(i), UNCHANGED outboxVars PROVE Facts!Next
    BY <1>1 DEF Enqueue, outboxVars, Facts!Next, Facts!Owe
  <1>2. ASSUME NEW i \in Item, LateArrival(i) PROVE Facts!Next
    BY <1>2 DEF LateArrival, leaseVars, rows, ToldSound, Facts!Next, Facts!Learn
  <1>3. ASSUME NEW w \in Worker, Post(w) PROVE [Facts!Next]_<<outcome, told>>
    BY <1>3, PostIsOwed DEF Post, OperatorAnswers, Facts!Next, Facts!Learn
  <1>4. ASSUME NEW w \in Worker, Finish(w), UNCHANGED outboxVars
        PROVE  [Facts!Next]_<<outcome, told>>
    <2> DEFINE i == job[w].item
    <2>1. i \in Item /\ job[w] # Idle /\ job[w].stage \in Result
      BY <1>4, JobType DEF Finish, LeaseInv
    <2>2. CASE Fenced(job[w])
      <3>1. outcome[i] = "waiting"
        BY <2>1, <2>2 DEF Fenced, LeaseInv, JobSound
      <3>2. outcome' = [outcome EXCEPT ![i] = Recorded(job[w].stage, @)]
        BY <1>4, <2>2 DEF Finish
      <3>3. CASE job[w].stage = "delivered"
        BY <1>4, <2>1, <3>1, <3>2, <3>3
        DEF ToldSound, outboxVars, Recorded, Facts!Next, Facts!Deliver
      <3>4. CASE job[w].stage = "failed"
        BY <1>4, <2>1, <3>1, <3>2, <3>4 DEF outboxVars, Recorded, Facts!Next, Facts!GiveUp
      <3>5. CASE job[w].stage = "retrying"
        BY <1>4, <2>1, <3>2, <3>5 DEF outboxVars, Recorded, LeaseInv, LeaseTypeOK
      <3> QED BY <2>1, <3>3, <3>4, <3>5
    <2>3. CASE ~ Fenced(job[w])
      BY <1>4, <2>3 DEF Finish, outboxVars
    <2> QED BY <2>2, <2>3
  <1>5. ASSUME NEW w \in Worker, ((Claim(w) \/ Crash(w)) /\ UNCHANGED outboxVars) \/ Unsendable(w)
        PROVE  UNCHANGED <<outcome, told>>
    BY <1>5 DEF Claim, Crash, Unsendable, Advance, rows, outboxVars
  <1>6. ASSUME NEW i \in Item, TimePasses(i) \/ LeaseRunsOut(i), UNCHANGED outboxVars
        PROVE  UNCHANGED <<outcome, told>>
    BY <1>6 DEF TimePasses, LeaseRunsOut, outboxVars
  <1>7. CASE UNCHANGED vars
    BY <1>7 DEF vars, leaseVars, rows, outboxVars
  <1> QED BY <1>1, <1>2, <1>3, <1>4, <1>5, <1>6, <1>7 DEF Next

(* The outbox delivers facts: what is settled stays settled, and only what *)
(* the operator applied is ever recorded as delivered                      *)
(* (finish_guide_operator_outbox_delivery).                                *)
THEOREM OutboxDeliversFacts == Safe => FactsSafe
  <1>1. Init => Facts!Init
    BY DEF Init, RowsInit, Facts!Init
  <1> QED BY <1>1, InitOutboxInv, NextOutboxInv, NextIsFactStep, PTL
          DEF Safe, FactsSafe, Facts!Safe

----------------------------------------------------------------------------

(* The attempts at row i whose request is still to be sent. *)
Unsent(i) ==
  {n \in 1..attempts[i] :
     \E w \in Worker : Holds(w, i) /\ job[w].attempt = n /\ job[w].stage = "claimed"}

(* Every request sent or still to be sent has an attempt of its own, and   *)
(* no attempt past the last one is for sending.                            *)
PostsCounted ==
  /\ \A w \in Worker : job[w] # Idle /\ job[w].stage = "claimed" => job[w].attempt <= MaxAttempts
  /\ \A i \in Item : /\ posts[i] + Cardinality(Unsent(i)) <= attempts[i]
                     /\ posts[i] + Cardinality(Unsent(i)) <= MaxAttempts

PostsInv == OutboxInv /\ PostsCounted

LEMMA UnsentFinite ==
  ASSUME OutboxInv, NEW i \in Item
  PROVE  /\ IsFiniteSet(Unsent(i))
         /\ Cardinality(Unsent(i)) \in Nat
  <1>1. IsFiniteSet(1..attempts[i])
    BY FS_Interval DEF OutboxInv, LeaseInv, LeaseTypeOK
  <1>2. Unsent(i) \in SUBSET (1..attempts[i])
    BY DEF Unsent
  <1>3. IsFiniteSet(Unsent(i))
    BY <1>1, <1>2, FS_Subset
  <1> QED BY <1>3, FS_CardinalityType

(* A step that sends nothing and claims nothing for sending. *)
LEMMA FewerUnsent ==
  ASSUME PostsInv, OutboxInv', NEW i \in Item,
         posts'[i] = posts[i], attempts[i] <= attempts'[i],
         Unsent(i)' \subseteq Unsent(i)
  PROVE  /\ posts'[i] + Cardinality(Unsent(i)') <= attempts'[i]
         /\ posts'[i] + Cardinality(Unsent(i)') <= MaxAttempts
  <1>1. /\ Cardinality(Unsent(i)') <= Cardinality(Unsent(i))
        /\ Cardinality(Unsent(i)') \in Nat /\ Cardinality(Unsent(i)) \in Nat
    BY UnsentFinite, FS_Subset, FS_CardinalityType DEF PostsInv
  <1>2. posts[i] \in Nat /\ attempts[i] \in Nat /\ attempts'[i] \in Nat /\ MaxAttempts \in Nat
    BY LeasesAssumption
    DEF LeasesAssumption, PostsInv, OutboxInv, TypeOK, LeaseInv, LeaseTypeOK
  <1> QED BY <1>1, <1>2 DEF PostsInv, PostsCounted

(* The claim adds at most the attempt it counts, and none past the last. *)
LEMMA ClaimCounts ==
  ASSUME PostsInv, OutboxInv', NEW w \in Worker, Claim(w), UNCHANGED outboxVars
  PROVE  PostsCounted'
  <1>1. PICK i \in Item :
          /\ attempts' = [attempts EXCEPT ![i] = @ + 1]
          /\ job' = [job EXCEPT ![w] =
               Job(i, attempts[i] + 1, IF Exhausted(attempts[i] + 1) THEN "failed" ELSE "claimed")]
    BY DEF Claim
  <1>2. /\ attempts \in [Item -> Nat] /\ attempts[i] \in Nat /\ MaxAttempts \in Nat
        /\ job \in [Worker -> Jobs \cup {Idle}]
        /\ posts' = posts /\ posts \in [Item -> Nat]
        /\ job[w] = Idle
    BY LeasesAssumption
    DEF LeasesAssumption, PostsInv, OutboxInv, TypeOK, LeaseTypeOK, outboxVars, Claim
  <1> DEFINE n == attempts[i] + 1
  <1>3. /\ job'[w] # Idle /\ job'[w].item = i /\ job'[w].attempt = n
        /\ job'[w].stage = IF Exhausted(n) THEN "failed" ELSE "claimed"
        /\ \A v \in Worker \ {w} : job'[v] = job[v]
    BY <1>1, <1>2, JobIsNoIdle
  <1>4. job'[w].stage = "claimed" => n <= MaxAttempts
    BY <1>2, <1>3 DEF Exhausted
  <1>5. \A v \in Worker : job'[v] # Idle /\ job'[v].stage = "claimed"
                            => job'[v].attempt <= MaxAttempts
    BY <1>3, <1>4 DEF PostsInv, PostsCounted
  <1>6. ASSUME NEW j \in Item, j # i
        PROVE  /\ posts'[j] + Cardinality(Unsent(j)') <= attempts'[j]
               /\ posts'[j] + Cardinality(Unsent(j)') <= MaxAttempts
    <2>1. attempts'[j] = attempts[j]
      BY <1>1, <1>2, <1>6
    <2>2. Unsent(j)' \subseteq Unsent(j)
      BY <1>3, <1>6, <2>1 DEF Unsent, Holds
    <2> QED BY <1>2, <2>1, <2>2, FewerUnsent
  <1>7. CASE job'[w].stage = "claimed"
    <2>1. Unsent(i)' \subseteq Unsent(i) \cup {n}
      BY <1>1, <1>2, <1>3 DEF Unsent, Holds
    <2>2. /\ IsFiniteSet(Unsent(i) \cup {n})
          /\ Cardinality(Unsent(i) \cup {n}) <= Cardinality(Unsent(i)) + 1
          /\ Cardinality(Unsent(i)) \in Nat
      <3>1. IsFiniteSet(Unsent(i)) /\ Cardinality(Unsent(i)) \in Nat
        BY UnsentFinite DEF PostsInv
      <3> QED BY <3>1, FS_AddElement
    <2>3. /\ Cardinality(Unsent(i)') <= Cardinality(Unsent(i)) + 1
          /\ Cardinality(Unsent(i)') \in Nat
      <3>1. /\ Cardinality(Unsent(i)') <= Cardinality(Unsent(i) \cup {n})
            /\ IsFiniteSet(Unsent(i)')
        BY <2>1, <2>2, FS_Subset
      <3>2. Cardinality(Unsent(i)') \in Nat /\ Cardinality(Unsent(i) \cup {n}) \in Nat
        BY <3>1, <2>2, FS_CardinalityType
      <3> QED BY <3>1, <3>2, <2>2
    <2>4. posts[i] \in Nat /\ posts'[i] = posts[i] /\ attempts'[i] = n
      BY <1>1, <1>2
    <2>5. posts[i] + Cardinality(Unsent(i)) <= attempts[i]
      BY DEF PostsInv, PostsCounted
    <2>6. /\ posts'[i] + Cardinality(Unsent(i)') <= attempts'[i]
          /\ posts'[i] + Cardinality(Unsent(i)') <= MaxAttempts
      BY <2>2, <2>3, <2>4, <2>5, <1>2, <1>4, <1>7
    <2> QED BY <2>6, <1>5, <1>6 DEF PostsCounted
  <1>8. CASE job'[w].stage # "claimed"
    <2>1. Unsent(i)' \subseteq Unsent(i)
      <3>1. ASSUME NEW m \in Unsent(i)' PROVE m \in Unsent(i)
        <4>1. PICK v \in Worker : /\ Holds(v, i)' /\ job'[v].attempt = m
                                  /\ job'[v].stage = "claimed"
          BY <3>1 DEF Unsent
        <4>2. v # w /\ job'[v] = job[v]
          BY <4>1, <1>8, <1>3
        <4>3. Holds(v, i) /\ job[v].attempt = m /\ job[v].stage = "claimed"
          BY <4>1, <4>2 DEF Holds
        <4>4. m \in 1..attempts[i]
          BY <4>3, JobType DEF PostsInv, OutboxInv, LeaseInv, JobSound, Holds
        <4> QED BY <4>3, <4>4 DEF Unsent
      <3> QED BY <3>1
    <2>2. posts'[i] = posts[i] /\ attempts[i] <= attempts'[i]
      BY <1>1, <1>2
    <2>3. /\ posts'[i] + Cardinality(Unsent(i)') <= attempts'[i]
          /\ posts'[i] + Cardinality(Unsent(i)') <= MaxAttempts
      BY <2>1, <2>2, FewerUnsent
    <2> QED BY <2>3, <1>5, <1>6 DEF PostsCounted
  <1> QED BY <1>7, <1>8

(* A request takes its own attempt from those unsent: no other worker has it. *)
LEMMA PostCounts ==
  ASSUME PostsInv, OutboxInv', NEW w \in Worker, Post(w)
  PROVE  PostsCounted'
  <1>0. PICK i \in Item, n \in Nat : i = job[w].item /\ n = job[w].attempt
    <2>1. job[w] # Idle
      BY DEF Post, Advance
    <2>2. job[w].item \in Item /\ job[w].attempt \in Nat
      BY <2>1, JobType DEF PostsInv, OutboxInv, LeaseInv
    <2> QED BY <2>2
  <1>1. /\ job[w] # Idle /\ job[w].stage = "claimed"
        /\ i = job[w].item /\ n = job[w].attempt
        /\ n \in 1..attempts[i] /\ n <= MaxAttempts
        /\ attempts' = attempts
        /\ posts' = [posts EXCEPT ![i] = @ + 1] /\ posts \in [Item -> Nat]
        /\ attempts \in [Item -> Nat] /\ MaxAttempts \in Nat
    BY <1>0, JobType, LeasesAssumption
    DEF LeasesAssumption, PostsInv, PostsCounted, OutboxInv, TypeOK, LeaseInv, LeaseTypeOK,
        JobSound, Post, Advance, rows
  <1>2. /\ job'[w].stage # "claimed"
        /\ \A v \in Worker \ {w} : job'[v] = job[v]
    <2>1. PICK answer \in Answer : Advance(w, "claimed", Verdict(answer))
      BY DEF Post
    <2>2. Verdict(answer) \in Stage /\ Verdict(answer) # "claimed"
      BY DEF Answer, Verdict
    <2> QED BY <2>1, <2>2, AdvanceKeeps DEF PostsInv, OutboxInv
  <1>3. \A v \in Worker : job'[v] # Idle /\ job'[v].stage = "claimed"
                            => job'[v].attempt <= MaxAttempts
    BY <1>2 DEF PostsInv, PostsCounted
  <1>4. \A j \in Item : Unsent(j)' \subseteq Unsent(j)
    BY <1>1, <1>2 DEF Unsent, Holds
  <1>5. ASSUME NEW j \in Item, j # i
        PROVE  /\ posts'[j] + Cardinality(Unsent(j)') <= attempts'[j]
               /\ posts'[j] + Cardinality(Unsent(j)') <= MaxAttempts
    <2>1. posts'[j] = posts[j] /\ attempts[j] <= attempts'[j]
      BY <1>1, <1>5
    <2> QED BY <2>1, <1>4, FewerUnsent
  <1>6. n \in Unsent(i) /\ n \notin Unsent(i)'
    <2>1. n \in Unsent(i)
      BY <1>1 DEF Unsent, Holds
    <2>2. \A v \in Worker \ {w} : ~ (Holds(v, i) /\ job[v].attempt = n)
      BY <1>1 DEF Holds, PostsInv, OutboxInv, LeaseInv, AttemptsApart
    <2> QED BY <2>1, <2>2, <1>2 DEF Unsent, Holds
  <1>7. /\ Cardinality(Unsent(i)) \in Nat /\ Cardinality(Unsent(i)') \in Nat
        /\ Cardinality(Unsent(i)') + 1 <= Cardinality(Unsent(i))
    <2>1. /\ IsFiniteSet(Unsent(i)) /\ Cardinality(Unsent(i)) \in Nat
          /\ IsFiniteSet(Unsent(i) \ {n})
          /\ Cardinality(Unsent(i) \ {n}) = Cardinality(Unsent(i)) - 1
      BY <1>1, <1>6, UnsentFinite, FS_RemoveElement DEF PostsInv
    <2>2. Unsent(i)' \subseteq Unsent(i) \ {n}
      BY <1>1, <1>4, <1>6
    <2>3. /\ Cardinality(Unsent(i)') <= Cardinality(Unsent(i) \ {n})
          /\ IsFiniteSet(Unsent(i)')
      BY <2>1, <2>2, FS_Subset
    <2>4. Cardinality(Unsent(i)') \in Nat
      BY <2>3, FS_CardinalityType
    <2> QED BY <2>1, <2>3, <2>4
  <1>8. /\ posts'[i] + Cardinality(Unsent(i)') <= attempts'[i]
        /\ posts'[i] + Cardinality(Unsent(i)') <= MaxAttempts
    <2>2. /\ posts[i] + Cardinality(Unsent(i)) <= attempts[i]
          /\ posts[i] + Cardinality(Unsent(i)) <= MaxAttempts
      BY <1>1 DEF PostsInv, PostsCounted
    <2>3. posts'[i] = posts[i] + 1 /\ posts[i] \in Nat /\ attempts[i] \in Nat
          /\ attempts'[i] = attempts[i] /\ MaxAttempts \in Nat
      BY <1>1
    <2> QED BY <2>2, <2>3, <1>7
  <1> QED BY <1>3, <1>5, <1>8 DEF PostsCounted

LEMMA NextPostsCounted ==
  ASSUME PostsInv, [Next]_vars
  PROVE  PostsInv'
  <1>1. OutboxInv'
    BY NextOutboxInv DEF PostsInv
  <1>2. ASSUME /\ UNCHANGED <<posts, attempts>>
               /\ \A v \in Worker :
                    job'[v] = job[v] \/ job'[v] = Idle \/ job'[v].stage # "claimed"
        PROVE  PostsCounted'
    <2>1. \A j \in Item : Unsent(j)' \subseteq Unsent(j)
      BY <1>2 DEF Unsent, Holds
    <2>2. \A j \in Item : attempts[j] \in Nat
      BY DEF PostsInv, OutboxInv, LeaseInv, LeaseTypeOK
    <2>3. ASSUME NEW j \in Item
          PROVE  /\ posts'[j] + Cardinality(Unsent(j)') <= attempts'[j]
                 /\ posts'[j] + Cardinality(Unsent(j)') <= MaxAttempts
      BY <1>1, <1>2, <2>1, <2>2, FewerUnsent
    <2>4. \A v \in Worker : job'[v] # Idle /\ job'[v].stage = "claimed"
                              => job'[v].attempt <= MaxAttempts
      BY <1>2 DEF PostsInv, PostsCounted
    <2> QED BY <2>3, <2>4 DEF PostsCounted
  <1>3. ASSUME NEW w \in Worker, Finish(w) \/ Crash(w), UNCHANGED outboxVars
        PROVE  PostsCounted'
    BY <1>2, <1>3
    DEF Finish, Crash, rows, outboxVars, PostsInv, OutboxInv, LeaseInv, LeaseTypeOK
  <1>4. ASSUME NEW w \in Worker, Unsendable(w) PROVE PostsCounted'
    <2>1. Advance(w, "claimed", "failed") /\ UNCHANGED <<posts, attempts>>
      BY <1>4 DEF Unsendable, Advance, rows, outboxVars
    <2>2. job'[w].stage = "failed" /\ \A v \in Worker \ {w} : job'[v] = job[v]
      BY <2>1, AdvanceKeeps DEF PostsInv, OutboxInv
    <2> QED BY <2>1, <2>2, <1>2
  <1>5. ASSUME NEW i \in Item,
               \/ (Enqueue(i) \/ TimePasses(i) \/ LeaseRunsOut(i)) /\ UNCHANGED outboxVars
               \/ LateArrival(i)
        PROVE  PostsCounted'
    BY <1>2, <1>5
    DEF Enqueue, TimePasses, LeaseRunsOut, LateArrival, outboxVars, leaseVars, rows
  <1>6. ASSUME UNCHANGED vars PROVE PostsCounted'
    BY <1>2, <1>6 DEF vars, leaseVars, rows, outboxVars
  <1>7. ASSUME NEW w \in Worker, (Claim(w) /\ UNCHANGED outboxVars) \/ Post(w)
        PROVE  PostsCounted'
    BY <1>1, <1>7, ClaimCounts, PostCounts
  <1>8. PostsCounted'
    BY <1>3, <1>4, <1>5, <1>6, <1>7 DEF Next
  <1> QED BY <1>1, <1>8 DEF PostsInv

LEMMA InitPostsInv ==
  Init => PostsInv
  <1> SUFFICES ASSUME Init PROVE PostsCounted
    BY InitOutboxInv DEF PostsInv
  <1>1. \A i \in Item : Unsent(i) = {}
    BY DEF Init, RowsInit, Unsent, Holds
  <1>2. \A i \in Item : posts[i] = 0 /\ attempts[i] = 0
    BY DEF Init, RowsInit
  <1>3. MaxAttempts \in Nat /\ 0 <= MaxAttempts
    BY LeasesAssumption DEF LeasesAssumption
  <1>4. \A w \in Worker : job[w] = Idle
    BY DEF Init, RowsInit
  <1>5. \A i \in Item : posts[i] + Cardinality(Unsent(i)) = 0
    <2>1. ASSUME NEW i \in Item PROVE Cardinality(Unsent(i)) = 0
      BY <1>1, FS_EmptySet, Zenon
    <2>2. 0 + 0 = 0
      OBVIOUS
    <2> QED BY <1>2, <2>1, <2>2, Zenon
  <1> QED BY <1>2, <1>3, <1>4, <1>5 DEF PostsCounted

(* However claims, crashes and overrun leases interleave, no row is sent   *)
(* more than MAX_DELIVERY_ATTEMPTS times (_deliver_claimed).               *)
THEOREM OutboxPostsBounded == Safe => []PostsBounded
  <1>1. PostsInv => PostsBounded
    <2> SUFFICES ASSUME PostsInv, NEW i \in Item PROVE posts[i] <= MaxAttempts
      BY DEF PostsBounded
    <2>1. Cardinality(Unsent(i)) \in Nat
      BY UnsentFinite DEF PostsInv
    <2>2. posts[i] \in Nat /\ MaxAttempts \in Nat
      BY LeasesAssumption DEF LeasesAssumption, PostsInv, OutboxInv, TypeOK
    <2>3. posts[i] + Cardinality(Unsent(i)) <= MaxAttempts
      BY DEF PostsInv, PostsCounted
    <2> QED BY <2>1, <2>2, <2>3
  <1> QED BY <1>1, InitPostsInv, NextPostsCounted, PTL DEF Safe
=============================================================================
