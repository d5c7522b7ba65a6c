--------------------------- MODULE ShopEventInbox ---------------------------
(***************************************************************************)
(* The inbox of shop events (services/guide_shop_event_inbox.py): a row    *)
(* per event, a watermark per aggregate, and the operations on them, each  *)
(* one transaction.  An event older than the watermark is stale at once; a *)
(* newer one makes those still waiting stale.  A waiting event is claimed, *)
(* which counts an attempt, and settled by who holds the claim.            *)
(*                                                                         *)
(* Time is the flag due: of a waiting event, that next_attempt_at is NULL  *)
(* or past; of a claimed one, that its claim is older than the lease.      *)
(***************************************************************************)
EXTENDS Naturals, FiniteSets

CONSTANTS Event,            \* values of event_id
          Guide,            \* values of guide_os_id
          Subject,          \* subject type and id
          Nothing,          \* no row
          MaxAttempts,      \* max_attempts of a new row
          MaxInboxAttempts  \* MAX_INBOX_ATTEMPTS

VARIABLES state,      \* the columns of guide_shop_event_inbox:
          content,    \* what the event says; never updated
          received,   \* the order of received_at
          attempts,   \* attempt_count
          limit,      \* max_attempts
          due,
          watermark   \* per aggregate, the event of its watermark row

inboxVars == <<state, content, received, attempts, limit, due, watermark>>

Final == {"delivered", "stale"}
State == {"absent", "pending", "processing", "dead_letter"} \cup Final

(* An event as the feed tells it. *)
Message == [event : Event, guide : Guide, subject : Subject, version : Nat \ {0}]
Aggregate(m) == <<m.guide, m.subject>>

(* An event id has bounded length. *)
ASSUME InboxAssumption ==
  /\ IsFiniteSet(Event)
  /\ MaxAttempts \in Nat \ {0}
  /\ MaxInboxAttempts \in Nat
  /\ MaxAttempts <= MaxInboxAttempts
  /\ Nothing \notin Message

InboxInit ==
  /\ state = [e \in Event |-> "absent"]
  /\ content = [e \in Event |-> Nothing]
  /\ received = [e \in Event |-> 0]
  /\ attempts = [e \in Event |-> 0]
  /\ limit = [e \in Event |-> MaxAttempts]
  /\ due = [e \in Event |-> FALSE]
  /\ watermark = [a \in Guide \X Subject |-> Nothing]

----------------------------------------------------------------------------
(* Ingestion.                                                              *)

(* Mutant: the id alone decides. *)
IdKnown(m) == content[m.event] # Nothing

(* Mutant: what is stored is never taken for the same event. *)
NeverTheSame(m) == FALSE

Duplicate(m) == content[m.event] = m

Conflicting(m) == content[m.event] # Nothing /\ ~Duplicate(m)

(* Mutant: an event of the same version is news. *)
FreshOrEqual(m) ==
  watermark[Aggregate(m)] # Nothing => m.version >= watermark[Aggregate(m)].version

Fresh(m) ==
  watermark[Aggregate(m)] # Nothing => m.version > watermark[Aggregate(m)].version

(* Event e waits with an older version of what m tells. *)
Overtaken(e, m) ==
  /\ state[e] = "pending"
  /\ Aggregate(content[e]) = Aggregate(m)
  /\ content[e].version < m.version

(* Mutant: the watermark row is inserted, never updated. *)
FirstKept(old, m) == IF old = Nothing THEN m ELSE old

(* The watermark row after m: inserted, or updated if m is newer. *)
Raised(old, m) == IF old = Nothing \/ m.version > old.version THEN m ELSE old

(* A new event gets a row; the watermark is its aggregate's newest event.  *)
Insert(m) ==
  /\ content[m.event] = Nothing
  /\ content' = [content EXCEPT ![m.event] = m]
  /\ received' = [received EXCEPT ![m.event] = Cardinality({e \in Event : state[e] # "absent"})]
  /\ due' = [due EXCEPT ![m.event] = TRUE]
  /\ \/ /\ Fresh(m)
        /\ state' = [e \in Event |->
             CASE e = m.event -> "pending"
               [] e # m.event /\ Overtaken(e, m) -> "stale"
               [] OTHER -> state[e]]
        /\ watermark' = [watermark EXCEPT ![Aggregate(m)] = Raised(@, m)]
     \/ /\ ~Fresh(m)
        /\ state' = [state EXCEPT ![m.event] = "stale"]
        /\ UNCHANGED watermark
  /\ UNCHANGED <<attempts, limit>>

----------------------------------------------------------------------------
(* Claims.                                                                 *)

Claimable(e) == state[e] = "pending" /\ due[e]

(* A claim as the worker keeps it: with the limit read when it was made.   *)
Exhausted(c) == c.attempt >= c.limit
Claims == [event : Event, attempt : Nat \ {0}, limit : Nat]

(* The event received first of those that are due. *)
ClaimDue(e) ==
  /\ Claimable(e)
  /\ \A f \in Event : Claimable(f) => received[e] <= received[f]
  /\ state' = [state EXCEPT ![e] = "processing"]
  /\ attempts' = [attempts EXCEPT ![e] = @ + 1]
  /\ due' = [due EXCEPT ![e] = FALSE]
  /\ UNCHANGED <<content, received, limit, watermark>>

(* Mutant: the attempt alone decides. *)
SameAttempt(c) == attempts[c.event] = c.attempt

(* The claim is still the one the row is processed under. *)
Held(c) == state[c.event] = "processing" /\ attempts[c.event] = c.attempt

(* The end of claim c: the row goes to state s, unless it was taken away.  *)
Settle(c, s) ==
  /\ state' = IF Held(c) THEN [state EXCEPT ![c.event] = s] ELSE state
  /\ due' = IF Held(c) THEN [due EXCEPT ![c.event] = FALSE] ELSE due
  /\ UNCHANGED <<content, received, attempts, limit, watermark>>

MarkDelivered(c) == Settle(c, "delivered")
MarkFailed(c) == Settle(c, IF Exhausted(c) THEN "dead_letter" ELSE "pending")

----------------------------------------------------------------------------
(* Recovery and replay.                                                    *)

(* Mutant: a claim of any age. *)
InHand(e) == state[e] = "processing"

(* Mutant: rows with no attempt left are not looked at. *)
AbandonedEarly(e) == state[e] = "processing" /\ due[e] /\ attempts[e] < limit[e]

Abandoned(e) == state[e] = "processing" /\ due[e]

(* The rows of a batch whose lease ran out are tried again at once, or are *)
(* dead letters.                                                           *)
RecoverAbandoned(batch) ==
  LET Spent(e) == attempts[e] >= limit[e] IN
  /\ \A e \in batch : Abandoned(e)
  /\ state' = [e \in Event |->
       IF e \in batch THEN IF Spent(e) THEN "dead_letter" ELSE "pending" ELSE state[e]]
  /\ due' = [e \in Event |-> IF e \in batch THEN ~Spent(e) ELSE due[e]]
  /\ UNCHANGED <<content, received, attempts, limit, watermark>>

(* Mutant: no cap. *)
AnyDeadLetter(e) == state[e] = "dead_letter"

Replayable(e) == state[e] = "dead_letter" /\ attempts[e] < MaxInboxAttempts

(* Mutant: the limit stays. *)
LimitKept(e) == limit[e]

(* One more attempt. *)
ReplayLimit(e) == attempts[e] + 1

ReplayDeadLetters(batch) ==
  /\ \A e \in batch : Replayable(e)
  /\ state' = [e \in Event |-> IF e \in batch THEN "pending" ELSE state[e]]
  /\ limit' = [e \in Event |-> IF e \in batch THEN ReplayLimit(e) ELSE limit[e]]
  /\ due' = [e \in Event |-> e \in batch \/ due[e]]
  /\ UNCHANGED <<content, received, attempts, watermark>>

(* The delay of a retry, or the lease of a claim, has passed. *)
Elapse(e) ==
  /\ state[e] \in {"pending", "processing"} /\ ~due[e]
  /\ due' = [due EXCEPT ![e] = TRUE]
  /\ UNCHANGED <<state, content, received, attempts, limit, watermark>>

----------------------------------------------------------------------------

InboxTypeOK ==
  /\ state \in [Event -> State]
  /\ content \in [Event -> Message \cup {Nothing}]
  /\ received \in [Event -> Nat]
  /\ attempts \in [Event -> Nat]
  /\ limit \in [Event -> 1..MaxInboxAttempts]
  /\ due \in [Event -> BOOLEAN]
  /\ watermark \in [Guide \X Subject -> Message \cup {Nothing}]

(* What guide_shop_event_reconciliation.py looks for at run time: an       *)
(* aggregate has a watermark when it has an event that is not stale, and   *)
(* then it is the newest of those, with a row of its own.                  *)
WatermarksSound ==
  \A g \in Guide, s \in Subject :
    LET live == {e \in Event : /\ state[e] \notin {"absent", "stale"}
                               /\ content[e].guide = g
                               /\ content[e].subject = s}
        mark == watermark[<<g, s>>]
    IN /\ live # {} => mark # Nothing
       /\ mark # Nothing =>
            /\ mark.event \in live
            /\ content[mark.event] = mark
            /\ \A e \in live : content[e].version <= mark.version

(* An event that was never claimed waits only while it is the newest of    *)
(* its aggregate: one overtaken is told to the guide only if it had been   *)
(* claimed before the newer one came (ingest marks pending rows only).     *)
UntriedIsNewest ==
  \A e \in Event :
    state[e] = "pending" /\ attempts[e] = 0 => watermark[Aggregate(content[e])] = content[e]

(* A claim never breaks CHECK(attempt_count <= max_attempts): it would     *)
(* raise for the first event in the queue, and no other would be claimed.  *)
ClaimsNeverBlock == \A e \in Event : Claimable(e) => attempts[e] < limit[e]

(* Delivered and stale are final, whoever comes late with an old claim; a  *)
(* dead letter only gets one more attempt; attempts are never taken back.  *)
RowsSettleOnce ==
  \A e \in Event :
    /\ state[e] \in Final => state'[e] = state[e]
    /\ state[e] = "dead_letter" /\ state'[e] # state[e] =>
         state'[e] = "pending" /\ limit'[e] = attempts[e] + 1
    /\ attempts'[e] \in attempts[e]..limit[e]
=============================================================================
