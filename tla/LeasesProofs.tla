---------------------------- MODULE LeasesProofs ----------------------------
(***************************************************************************)
(* What claims, leases and fences keep, whatever the workers do between a  *)
(* claim and its outcome.  OutboxProofs and NotificationProofs use it for  *)
(* their tables.                                                           *)
(***************************************************************************)
EXTENDS Leases, TLAPS

(* One step of the table or of a worker's place at a row. *)
LeaseStep ==
  \/ \E i \in Item : Enqueue(i) \/ TimePasses(i) \/ LeaseRunsOut(i)
  \/ \E w \in Worker :
       \/ Claim(w) \/ Finish(w) \/ Crash(w)
       \/ \E s, t \in Stage : Advance(w, s, t)

(* A job is of an attempt that was counted; nothing was recorded since the *)
(* last attempt while its worker is at it; and a row whose lease never ran *)
(* out too early is hidden while anybody is at it.                         *)
JobSound(w) ==
  job[w] # Idle =>
    LET i == job[w].item
    IN /\ job[w].attempt <= attempts[i]
       /\ outcome[i] # "absent"
       /\ job[w].attempt = attempts[i] => outcome[i] = "waiting"
       /\ overruns[i] = 0 => job[w].attempt = attempts[i] /\ ~due[i]

(* No two workers have the same attempt of the same row. *)
AttemptsApart ==
  \A v, w \in Worker :
    /\ job[v] # Idle /\ job[w] # Idle
    /\ job[v].item = job[w].item
    /\ job[v].attempt = job[w].attempt
    => v = w

LeaseInv ==
  /\ LeaseTypeOK
  /\ \A w \in Worker : JobSound(w)
  /\ AttemptsApart

USE DEF Result, Stage, Jobs, Outcome

LEMMA JobType ==
  ASSUME LeaseTypeOK, NEW w \in Worker, job[w] # Idle
  PROVE  /\ job[w] \in Jobs
         /\ job[w].item \in Item
         /\ job[w].attempt \in Nat \ {0}
         /\ job[w].stage \in Stage
  BY DEF LeaseTypeOK

(* What a worker is given is a job, not the mark of having none. *)
LEMMA JobIsNoIdle ==
  ASSUME NEW i \in Item, NEW n \in Nat \ {0}, NEW s \in Stage
  PROVE  /\ Job(i, n, s) \in Jobs
         /\ Job(i, n, s) # Idle
         /\ Job(i, n, s).item = i /\ Job(i, n, s).attempt = n /\ Job(i, n, s).stage = s
  <1>1. Job(i, n, s) \in Jobs
    BY DEF Job
  <1>2. Idle \notin Jobs
    BY LeasesAssumption DEF LeasesAssumption
  <1> QED BY <1>1, <1>2 DEF Job

LEMMA RowsInitSound ==
  RowsInit => LeaseInv
  BY LeasesAssumption
  DEF LeasesAssumption, RowsInit, LeaseInv, LeaseTypeOK, JobSound, AttemptsApart

LEMMA EnqueueKeeps ==
  ASSUME LeaseInv, NEW i \in Item, Enqueue(i)
  PROVE  LeaseInv'
  <1>1. LeaseTypeOK'
    BY DEF LeaseInv, LeaseTypeOK, Enqueue
  <1>2. \A w \in Worker : JobSound(w)'
    BY JobType DEF LeaseInv, LeaseTypeOK, JobSound, Enqueue
  <1>3. AttemptsApart'
    BY DEF LeaseInv, AttemptsApart, Enqueue
  <1> QED BY <1>1, <1>2, <1>3 DEF LeaseInv

LEMMA TimeKeeps ==
  ASSUME LeaseInv, NEW i \in Item, TimePasses(i) \/ LeaseRunsOut(i)
  PROVE  LeaseInv'
  <1>1. LeaseTypeOK'
    <2>1. CASE TimePasses(i)
      BY <2>1 DEF LeaseInv, LeaseTypeOK, TimePasses
    <2>2. CASE LeaseRunsOut(i)
      <3>1. overruns[i] + 1 \in 0..MaxOverruns
        BY <2>2, LeasesAssumption
        DEF LeasesAssumption, LeaseInv, LeaseTypeOK, LeaseRunsOut
      <3> QED BY <2>2, <3>1 DEF LeaseInv, LeaseTypeOK, LeaseRunsOut
    <2> QED BY <2>1, <2>2
  <1>2. ASSUME NEW w \in Worker PROVE JobSound(w)'
    <2>1. CASE TimePasses(i)
      BY <2>1, JobType
      DEF LeaseInv, LeaseTypeOK, JobSound, TimePasses, HoldsLatest, Holds
    <2>2. CASE LeaseRunsOut(i)
      BY <2>2, JobType DEF LeaseInv, LeaseTypeOK, JobSound, LeaseRunsOut
    <2> QED BY <2>1, <2>2
  <1>3. AttemptsApart'
    BY DEF LeaseInv, AttemptsApart, TimePasses, LeaseRunsOut
  <1> QED BY <1>1, <1>2, <1>3 DEF LeaseInv

(* The claim makes an attempt nobody has; where no lease ran out too early *)
(* nobody was at the row.                                                  *)
LEMMA ClaimKeeps ==
  ASSUME LeaseInv, NEW w \in Worker, Claim(w)
  PROVE  LeaseInv'
  <1> DEFINE n(i) == attempts[i] + 1
             stage(i) == IF Exhausted(n(i)) THEN "failed" ELSE "claimed"
  <1>1. PICK i \in Item :
          /\ Claimable(i)
          /\ attempts' = [attempts EXCEPT ![i] = @ + 1]
          /\ HideRow(i)
          /\ job' = [job EXCEPT ![w] = Job(i, n(i), stage(i))]
    BY DEF Claim
  <1>2. /\ UNCHANGED <<outcome, crashes, overruns>>
        /\ LeaseTypeOK
    BY DEF Claim, LeaseInv
  <1>3. n(i) \in Nat \ {0} /\ stage(i) \in Stage
    BY <1>2 DEF LeaseTypeOK
  <1>4. /\ Job(i, n(i), stage(i)) \in Jobs
        /\ Job(i, n(i), stage(i)).item = i
        /\ Job(i, n(i), stage(i)).attempt = n(i)
    BY <1>3, JobIsNoIdle
  <1> HIDE DEF n, stage
  <1>5. n(i) = attempts[i] + 1 /\ attempts'[i] = n(i) /\ attempts[i] \in Nat
    BY <1>1, <1>2 DEF LeaseTypeOK, n
  <1>6. LeaseTypeOK'
    BY <1>1, <1>2, <1>4 DEF LeaseTypeOK, HideRow
  <1>7. ASSUME NEW v \in Worker PROVE JobSound(v)'
    <2>1. CASE v = w
      BY <2>1, <1>1, <1>2, <1>4, <1>5 DEF LeaseTypeOK, JobSound, Claimable, HideRow
    <2>2. CASE v # w
      BY <2>2, <1>1, <1>2, <1>5, JobType
      DEF LeaseInv, LeaseTypeOK, JobSound, Claimable, HideRow
    <2> QED BY <2>1, <2>2
  <1>8. AttemptsApart'
    <2>1. \A v \in Worker \ {w} : job'[v] = job[v]
      BY <1>1, <1>2 DEF LeaseTypeOK
    <2>2. \A v \in Worker : job[v] # Idle /\ job[v].item = i => job[v].attempt # n(i)
      BY <1>2, <1>5, JobType DEF LeaseInv, JobSound
    <2>3. job'[w].item = i /\ job'[w].attempt = n(i)
      BY <1>1, <1>2, <1>4 DEF LeaseTypeOK
    <2> QED BY <2>1, <2>2, <2>3 DEF LeaseInv, AttemptsApart
  <1> QED BY <1>6, <1>7, <1>8 DEF LeaseInv

LEMMA AdvanceKeeps ==
  ASSUME LeaseInv, NEW w \in Worker, NEW s \in Stage, NEW t \in Stage, Advance(w, s, t)
  PROVE  /\ LeaseInv'
         /\ job'[w] # Idle /\ job'[w].stage = t
         /\ job'[w].item = job[w].item /\ job'[w].attempt = job[w].attempt
         /\ \A v \in Worker \ {w} : job'[v] = job[v]
  <1>1. job[w] \in Jobs
    BY JobType DEF LeaseInv, Advance
  <1>2. job' = [job EXCEPT ![w] = [job[w] EXCEPT !.stage = t]]
    BY DEF Advance
  <1>3. [job[w] EXCEPT !.stage = t] \in Jobs
    BY <1>1
  <1>4. /\ job'[w] # Idle /\ job'[w].stage = t
        /\ job'[w].item = job[w].item /\ job'[w].attempt = job[w].attempt
        /\ \A v \in Worker \ {w} : job'[v] = job[v]
    BY <1>1, <1>2, <1>3, LeasesAssumption DEF LeasesAssumption, LeaseInv, LeaseTypeOK
  <1>5. LeaseTypeOK'
    BY <1>2, <1>3 DEF LeaseInv, LeaseTypeOK, Advance, rows
  <1>6. \A v \in Worker : JobSound(v)'
    BY <1>4 DEF LeaseInv, JobSound, Advance, rows
  <1>7. AttemptsApart'
    BY <1>4 DEF LeaseInv, AttemptsApart, Advance
  <1> QED BY <1>4, <1>5, <1>6, <1>7 DEF LeaseInv

(* What is recorded is recorded by the worker of the last attempt, the     *)
(* only one there is.                                                      *)
LEMMA FinishKeeps ==
  ASSUME LeaseInv, NEW w \in Worker, Finish(w)
  PROVE  LeaseInv'
  <1> DEFINE i == job[w].item
  <1>1. /\ i \in Item /\ job[w].attempt \in Nat
        /\ job[w] # Idle /\ job[w].stage \in Result
    BY JobType DEF LeaseInv, Finish
  <1>2. /\ job' = [job EXCEPT ![w] = Idle]
        /\ UNCHANGED <<attempts, crashes, overruns>>
        /\ LeaseTypeOK
    BY DEF Finish, LeaseInv
  <1>3. \/ /\ attempts[i] = job[w].attempt
           /\ outcome' = [outcome EXCEPT ![i] = Recorded(job[w].stage, @)]
           /\ due' = [due EXCEPT ![i] = FALSE]
        \/ UNCHANGED <<outcome, due>>
    BY DEF Finish, Fenced, HideRow
  <1>4. LeaseTypeOK'
    BY <1>1, <1>2, <1>3 DEF LeaseTypeOK, Recorded
  <1>5. ASSUME NEW v \in Worker PROVE JobSound(v)'
    <2>1. CASE v = w
      BY <2>1, <1>2 DEF LeaseTypeOK, JobSound
    <2>2. ASSUME v # w, job[v] # Idle PROVE JobSound(v)'
      <3>1. job'[v] = job[v] /\ job[v].item \in Item /\ JobSound(v)
        BY <2>2, <1>2, JobType DEF LeaseInv, LeaseTypeOK
      <3>2. CASE job[v].item = i
        <4>1. job[v].attempt # job[w].attempt
          BY <2>2, <3>2, <1>1 DEF LeaseInv, AttemptsApart
        <4> QED BY <4>1, <3>1, <3>2, <2>2, <1>1, <1>2, <1>3
                DEF LeaseTypeOK, JobSound, Recorded
      <3>3. CASE job[v].item # i
        BY <3>1, <3>3, <2>2, <1>1, <1>2, <1>3 DEF LeaseTypeOK, JobSound
      <3> QED BY <3>2, <3>3
    <2> QED BY <2>1, <2>2, <1>2 DEF LeaseTypeOK, JobSound
  <1>6. AttemptsApart'
    BY <1>2 DEF LeaseInv, LeaseTypeOK, AttemptsApart
  <1> QED BY <1>4, <1>5, <1>6 DEF LeaseInv

LEMMA CrashKeeps ==
  ASSUME LeaseInv, NEW w \in Worker, Crash(w)
  PROVE  LeaseInv'
  <1>1. LeaseTypeOK'
    BY LeasesAssumption DEF LeasesAssumption, LeaseInv, LeaseTypeOK, Crash, rows
  <1>2. \A v \in Worker : JobSound(v)'
    BY DEF LeaseInv, LeaseTypeOK, JobSound, Crash, rows
  <1>3. AttemptsApart'
    BY DEF LeaseInv, LeaseTypeOK, AttemptsApart, Crash
  <1> QED BY <1>1, <1>2, <1>3 DEF LeaseInv

(* The invariant holds over every step of a table's rows and workers. *)
LEMMA LeaseInvKept ==
  ASSUME LeaseInv, LeaseStep \/ UNCHANGED leaseVars
  PROVE  LeaseInv'
  <1>1. CASE UNCHANGED leaseVars
    BY <1>1 DEF LeaseInv, LeaseTypeOK, JobSound, AttemptsApart, leaseVars, rows
  <1>2. CASE LeaseStep
    BY <1>2, EnqueueKeeps, TimeKeeps, ClaimKeeps, FinishKeeps, CrashKeeps, AdvanceKeeps
    DEF LeaseStep
  <1> QED BY <1>1, <1>2

(* LeaseExclusive: of the workers at a row whose lease never ran out too   *)
(* early each has the last attempt, and no two have the same.              *)
LEMMA InvExcludes ==
  LeaseInv => LeaseExclusive
  BY DEF LeaseInv, JobSound, AttemptsApart, LeaseExclusive, Holds
=============================================================================
