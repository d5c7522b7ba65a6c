------------------------------- MODULE Leases -------------------------------
(***************************************************************************)
(* How a worker takes a row of a delivery table and records what became of *)
(* it (database/queries.py, claim_guide_operator_outbox_for_delivery and   *)
(* finish_guide_operator_outbox_delivery; the notification table has its   *)
(* own copy of both).  A claim counts an attempt and hides the row for the *)
(* lease; the outcome is written only if no later claim has been made.     *)
(* Between the two, in no transaction, the worker talks to the other side. *)
(*                                                                         *)
(* Time is abstract: due says that next_attempt_at is NULL or has passed.  *)
(* A worker is a thread of a process; it may lose its claim (the process   *)
(* dies, or a write fails) and it may outlive its lease.  How often either *)
(* happens is bounded.                                                     *)
(***************************************************************************)
EXTENDS Naturals

CONSTANTS Item,         \* rows, numbered as ORDER BY created_at, id sees them
          Worker,
          Idle,         \* the job of a worker that has none
          MaxAttempts,  \* MAX_DELIVERY_ATTEMPTS
          MaxCrashes,   \* bound on lost claims
          MaxOverruns   \* bound on leases of one row that run out too early

VARIABLES outcome,   \* where the row stands: delivered_at, last_error_code
          attempts,  \* attempt_count
          due,       \* next_attempt_at is NULL or past
          job,       \* what each worker is doing
          crashes,   \* claims lost so far
          overruns   \* leases that ran out on a worker still at the row

rows == <<outcome, attempts, due>>
leaseVars == <<rows, job, crashes, overruns>>

(* A permanent error code keeps a row from ever being claimed: "failed". *)
Outcome == {"absent", "waiting", "delivered", "failed"}

(* A claimed row, and how far the worker is with it: claimed, found good   *)
(* to send, or what is to be recorded.                                     *)
Result == {"delivered", "retrying", "failed"}
Stage == {"claimed", "checked"} \cup Result
Job(i, n, s) == [item |-> i, attempt |-> n, stage |-> s]
Jobs == [item : Item, attempt : Nat \ {0}, stage : Stage]

ASSUME LeasesAssumption ==
  /\ Item \subseteq Nat
  /\ MaxAttempts \in Nat
  /\ MaxCrashes \in Nat
  /\ MaxOverruns \in Nat
  /\ Idle \notin Jobs

RowsInit ==
  /\ outcome = [i \in Item |-> "absent"]
  /\ attempts = [i \in Item |-> 0]
  /\ due = [i \in Item |-> FALSE]
  /\ job = [w \in Worker |-> Idle]
  /\ crashes = 0
  /\ overruns = [i \in Item |-> 0]

(* A handler queues a row in its own transaction. *)
Enqueue(i) ==
  /\ outcome[i] = "absent"
  /\ outcome' = [outcome EXCEPT ![i] = "waiting"]
  /\ due' = [due EXCEPT ![i] = TRUE]
  /\ UNCHANGED <<attempts, job, crashes, overruns>>

(* Mutant: only rows that were never claimed. *)
ClaimableOnce(i) == outcome[i] = "waiting" /\ due[i] /\ attempts[i] = 0

Claimable(i) == outcome[i] = "waiting" /\ due[i]

Holds(w, i) == job[w] # Idle /\ job[w].item = i

(* w's claim is the last one made of its row. *)
HoldsLatest(w, i) == Holds(w, i) /\ job[w].attempt = attempts[i]

(* Mutant: the lease is not written. *)
LeaseForgotten(i) == UNCHANGED due

(* next_attempt_at moves past now: the lease, or the delay of a retry. *)
HideRow(i) == due' = [due EXCEPT ![i] = FALSE]

(* Mutant: one attempt too many. *)
ExhaustedLate(n) == n > MaxAttempts + 1

(* The n-th attempt is one more than allowed. *)
Exhausted(n) == n > MaxAttempts

(* An idle worker claims the first row that is due.  A claim past the      *)
(* last attempt talks to nobody: all that is left is to write "failed".    *)
Claim(w) ==
  /\ job[w] = Idle
  /\ \E i \in Item :
       /\ Claimable(i)
       /\ \A j \in Item : Claimable(j) => i <= j
       /\ attempts' = [attempts EXCEPT ![i] = @ + 1]
       /\ HideRow(i)
       /\ job' = [job EXCEPT ![w] =
            Job(i, attempts[i] + 1, IF Exhausted(attempts[i] + 1) THEN "failed" ELSE "claimed")]
  /\ UNCHANGED <<outcome, crashes, overruns>>

(* Mutant: the outcome is written whatever was claimed since. *)
NotDelivered(j) == outcome[j.item] # "delivered"

(* The outcome of job j may be written: no later claim, not delivered.     *)
(* (The notification table asks for 'pending'; with no later claim that is *)
(* the same.)                                                              *)
Fenced(j) ==
  /\ attempts[j.item] = j.attempt
  /\ outcome[j.item] # "delivered"

(* Mutant: what is to be tried again gets an outcome of its own. *)
RecordedAsFound(stage, before) == stage

(* A row to be tried again goes on waiting. *)
Recorded(stage, before) == IF stage = "retrying" THEN before ELSE stage

(* The worker, at stage s of its job, gets to stage t. *)
Advance(w, s, t) ==
  /\ job[w] # Idle
  /\ job[w].stage = s
  /\ job' = [job EXCEPT ![w].stage = t]
  /\ UNCHANGED <<rows, crashes, overruns>>

(* The worker writes what it found out, or finds its claim overtaken. *)
Finish(w) ==
  /\ job[w] # Idle
  /\ job[w].stage \in Result
  /\ \/ /\ Fenced(job[w])
        /\ outcome' = [outcome EXCEPT ![job[w].item] = Recorded(job[w].stage, @)]
        /\ HideRow(job[w].item)
     \/ ~ Fenced(job[w]) /\ UNCHANGED <<outcome, due>>
  /\ job' = [job EXCEPT ![w] = Idle]
  /\ UNCHANGED <<attempts, crashes, overruns>>

(* The delay of a retry passes, or the lease of a claim nobody holds. *)
TimePasses(i) ==
  /\ outcome[i] = "waiting" /\ ~due[i]
  /\ \A w \in Worker : ~HoldsLatest(w, i)
  /\ due' = [due EXCEPT ![i] = TRUE]
  /\ UNCHANGED <<outcome, attempts, job, crashes, overruns>>

(* The lease runs out on a worker that is still at it. *)
LeaseRunsOut(i) ==
  /\ overruns[i] < MaxOverruns
  /\ outcome[i] = "waiting" /\ ~due[i]
  /\ \E w \in Worker : HoldsLatest(w, i)
  /\ overruns' = [overruns EXCEPT ![i] = @ + 1]
  /\ due' = [due EXCEPT ![i] = TRUE]
  /\ UNCHANGED <<outcome, attempts, job, crashes>>

(* The claim is lost, before or after the other side heard of the row.     *)
Crash(w) ==
  /\ crashes < MaxCrashes
  /\ job[w] # Idle
  /\ crashes' = crashes + 1
  /\ job' = [job EXCEPT ![w] = Idle]
  /\ UNCHANGED <<rows, overruns>>

----------------------------------------------------------------------------

LeaseTypeOK ==
  /\ outcome \in [Item -> Outcome]
  /\ attempts \in [Item -> Nat]
  /\ due \in [Item -> BOOLEAN]
  /\ job \in [Worker -> Jobs \cup {Idle}]
  /\ crashes \in 0..MaxCrashes
  /\ overruns \in [Item -> 0..MaxOverruns]

(* No two workers are at the same row unless its lease ran out on one of   *)
(* them; a crash, a retry or a second worker polling never does that       *)
(* (the conditional UPDATE of the claim).                                  *)
LeaseExclusive ==
  \A i \in Item :
    overruns[i] = 0 => \A v, w \in Worker : Holds(v, i) /\ Holds(w, i) => v = w
=============================================================================
