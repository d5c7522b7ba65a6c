-------------------------- MODULE ShopEventProofs --------------------------
(* Theorems about ShopEventWorker, for every value of its constants.       *)
EXTENDS ShopEventWorker, FiniteSetTheorems, TLAPS

----------------------------------------------------------------------------
(* What a step does to the inbox, whoever takes it.                        *)

Sending == {"claimed", "delivered", "failed"}

InboxStep ==
  \/ \E m \in Message : Insert(m)
  \/ \E e \in Event : ClaimDue(e)
  \/ \E w \in Worker : claim[w] \in Claims /\ (MarkDelivered(claim[w]) \/ MarkFailed(claim[w]))
  \/ \E batch \in SUBSET Event : RecoverAbandoned(batch) \/ ReplayDeadLetters(batch)
  \/ \E e \in Event : Elapse(e)
  \/ UNCHANGED inboxVars

(* A worker's page is a part of its guide's feed, and it has a claim just  *)
(* while it sends.                                                         *)
PageSound(w) ==
  phase[w] = "ingesting" =>
    /\ page[w] \in Pages
    /\ page[w].from < page[w].upTo
    /\ page[w].upTo <= Len(Feed[page[w].guide])
    /\ page[w].at \in (page[w].from + 1)..(page[w].upTo + 1)
ClaimSound(w) == IF phase[w] \in Sending THEN claim[w] \in Claims ELSE claim[w] = Nothing
WorkersSound == \A w \in Worker : PageSound(w) /\ ClaimSound(w)

CheckpointsInFeed == \A g \in Guide : checkpoint[g] <= Len(Feed[g])

WorkerTypeOK ==
  /\ checkpoint \in [Guide -> Nat]
  /\ phase \in [Worker -> Phase]
  /\ todo \in [Worker -> SUBSET Guide]
  /\ page \in [Worker -> Pages \cup {Nothing}]
  /\ left \in [Worker -> 0..BatchLimit]
  /\ claim \in [Worker -> Claims \cup {Nothing}]
  /\ shown \in [Event -> Nat]
  /\ inDoubt \subseteq Event
  /\ faults \in 0..MaxFaults

Base == InboxTypeOK /\ WorkerTypeOK /\ WorkersSound /\ CheckpointsInFeed

LEMMA FeedType ==
  ASSUME NEW g \in Guide
  PROVE  /\ Feed[g] \in Seq(Message)
         /\ Len(Feed[g]) \in Nat
         /\ \A i \in 1..Len(Feed[g]) : Feed[g][i] \in Message
  BY WorkerAssumption DEF WorkerAssumption

LEMMA PageInFeed ==
  ASSUME Base, NEW w \in Worker, phase[w] = "ingesting"
  PROVE  /\ page[w].guide \in Guide
         /\ page[w].from \in Nat /\ page[w].at \in Nat /\ page[w].upTo \in Nat
         /\ page[w].at <= page[w].upTo => Feed[page[w].guide][page[w].at] \in Message
<1>1. PageSound(w)
  BY DEF Base, WorkersSound
<1>2. /\ page[w].guide \in Guide
      /\ page[w].from \in Nat /\ page[w].at \in Nat /\ page[w].upTo \in Nat
  BY <1>1 DEF PageSound, Pages
<1>3. ASSUME page[w].at <= page[w].upTo
      PROVE  page[w].at \in 1..Len(Feed[page[w].guide])
  BY <1>1, <1>2, <1>3, FeedType DEF PageSound
<1> QED
  BY <1>2, <1>3, FeedType

(* Every step of the system is one of the inbox. *)
LEMMA StepsOfInbox ==
  ASSUME Base, [Next]_vars
  PROVE  InboxStep
<1>1. CASE UNCHANGED vars
  BY <1>1 DEF vars, InboxStep
<1>2. ASSUME NEW w \in Worker, Ingest(w)
      PROVE  InboxStep
  <2> DEFINE m == Feed[page[w].guide][page[w].at]
  <2>1. m \in Message
    BY <1>2, PageInFeed DEF Ingest
  <2>2. Insert(m) \/ UNCHANGED inboxVars
    BY <1>2 DEF Ingest
  <2> QED
    BY <2>1, <2>2 DEF InboxStep
<1>3. ASSUME NEW w \in Worker, Record(w)
      PROVE  InboxStep
  <2>1. claim[w] \in Claims
    BY <1>3 DEF Record, Base, WorkersSound, ClaimSound, Sending
  <2>2. MarkDelivered(claim[w]) \/ MarkFailed(claim[w])
    BY <1>3 DEF Record
  <2> QED
    BY <2>1, <2>2 DEF InboxStep
<1>4. ASSUME NEW w \in Worker, Recover(w)
      PROVE  InboxStep
  <2>1. {e \in Event : Abandoned(e)} \in SUBSET Event
    OBVIOUS
  <2>2. RecoverAbandoned({e \in Event : Abandoned(e)})
    BY <1>4 DEF Recover
  <2> QED
    BY <2>1, <2>2 DEF InboxStep
<1>5. ASSUME NEW w \in Worker, Claim(w)
      PROVE  InboxStep
  BY <1>5 DEF Claim, InboxStep
<1>6. ASSUME NEW w \in Worker,
             \/ \E g \in Guide : Fetch(w, g) \/ FetchFails(w, g)
             \/ IngestFails(w) \/ Advance(w) \/ PullsDone(w) \/ CycleEnds(w)
             \/ Send(w) \/ RecordFails(w) \/ Crash(w)
      PROVE  InboxStep
  <2>1. UNCHANGED inboxVars
    BY <1>6 DEF Fetch, FetchFails, IngestFails, Advance, PullsDone, CycleEnds, Send, RecordFails, Crash
  <2> QED
    BY <2>1 DEF InboxStep
<1>7. ASSUME NEW e \in Event, TimePasses(e) \/ LeaseRunsOut(e)
      PROVE  InboxStep
  BY <1>7 DEF TimePasses, LeaseRunsOut, InboxStep
<1>8. CASE OperatorRecovers
  <2>1. PICK batch \in SUBSET {e \in Event : Abandoned(e)} : RecoverAbandoned(batch)
    BY <1>8 DEF OperatorRecovers
  <2>2. batch \in SUBSET Event
    BY <2>1
  <2> QED
    BY <2>1, <2>2 DEF InboxStep
<1>9. CASE OperatorReplays
  <2>1. PICK batch \in SUBSET {e \in Event : Replayable(e)} : ReplayDeadLetters(batch)
    BY <1>9 DEF OperatorReplays
  <2>2. batch \in SUBSET Event
    BY <2>1
  <2> QED
    BY <2>1, <2>2 DEF InboxStep
<1> QED
  BY <1>1, <1>2, <1>3, <1>4, <1>5, <1>6, <1>7, <1>8, <1>9 DEF Next, WorkerStep, WorkerFault

----------------------------------------------------------------------------
(* Types.                                                                  *)

LEMMA AggregateType ==
  ASSUME NEW m \in Message
  PROVE  /\ m.event \in Event /\ m.guide \in Guide /\ m.subject \in Subject
         /\ m.version \in Nat \ {0}
         /\ Aggregate(m) \in Guide \X Subject
  BY DEF Message, Aggregate

LEMMA InboxTypes ==
  ASSUME InboxTypeOK, InboxStep
  PROVE  InboxTypeOK'
<1> USE DEF InboxTypeOK, State, Final
<1>1. ASSUME NEW m \in Message, Insert(m)
      PROVE  InboxTypeOK'
  <2> USE <1>1, AggregateType DEF Insert
  <2>1. content' \in [Event -> Message \cup {Nothing}]
    OBVIOUS
  <2>2. received' \in [Event -> Nat]
    <3>1. Cardinality({e \in Event : state[e] # "absent"}) \in Nat
      BY InboxAssumption, FS_Subset, FS_CardinalityType DEF InboxAssumption
    <3> QED
      BY <3>1
  <2>3. due' \in [Event -> BOOLEAN]
    OBVIOUS
  <2>4. state' \in [Event -> State]
    OBVIOUS
  <2>5. watermark' \in [Guide \X Subject -> Message \cup {Nothing}]
    BY DEF Raised
  <2> QED
    BY <2>1, <2>2, <2>3, <2>4, <2>5
<1>2. ASSUME NEW e \in Event, ClaimDue(e)
      PROVE  InboxTypeOK'
  BY <1>2 DEF ClaimDue
<1>3. ASSUME NEW w \in Worker, claim[w] \in Claims, MarkDelivered(claim[w]) \/ MarkFailed(claim[w])
      PROVE  InboxTypeOK'
  <2>1. claim[w].event \in Event
    BY <1>3 DEF Claims
  <2> QED
    BY <1>3, <2>1 DEF MarkDelivered, MarkFailed, Settle
<1>4. ASSUME NEW batch \in SUBSET Event, RecoverAbandoned(batch)
      PROVE  InboxTypeOK'
  BY <1>4 DEF RecoverAbandoned
<1>5. ASSUME NEW batch \in SUBSET Event, ReplayDeadLetters(batch)
      PROVE  InboxTypeOK'
  BY <1>5, InboxAssumption DEF ReplayDeadLetters, Replayable, ReplayLimit, InboxAssumption
<1>6. ASSUME NEW e \in Event, Elapse(e)
      PROVE  InboxTypeOK'
  BY <1>6 DEF Elapse
<1>7. CASE UNCHANGED inboxVars
  BY <1>7 DEF inboxVars
<1> QED
  BY <1>1, <1>2, <1>3, <1>4, <1>5, <1>6, <1>7 DEF InboxStep

(* A step of worker w, as far as its own variables go. *)
SoundAfter(w) == WorkerTypeOK' /\ PageSound(w)' /\ ClaimSound(w)' /\ CheckpointsInFeed'

LEMMA PullTypes ==
  ASSUME Base, NEW w \in Worker, NEW g \in Guide,
         PullFails(w, g), UNCHANGED <<checkpoint, shown, inDoubt>>, faults' \in 0..MaxFaults,
         phase[w] \in {"pulling", "ingesting"}
  PROVE  SoundAfter(w)
<1> USE DEF Base, PullFails, PullEnds, SoundAfter
<1>1. WorkerTypeOK'
  BY DEF WorkerTypeOK, Phase
<1>2. phase'[w] = "pulling" /\ claim' = claim
  BY DEF WorkerTypeOK
<1>3. PageSound(w)' /\ ClaimSound(w)'
  BY <1>2 DEF PageSound, ClaimSound, WorkersSound, Sending
<1>4. CheckpointsInFeed'
  BY DEF CheckpointsInFeed
<1> QED
  BY <1>1, <1>3, <1>4

LEMMA FaultType ==
  ASSUME Base, Fault
  PROVE  faults' \in 0..MaxFaults
  BY WorkerAssumption DEF Base, WorkerTypeOK, Fault, WorkerAssumption

LEMMA WorkerTypes ==
  ASSUME Base, NEW w \in Worker, WorkerStep(w) \/ WorkerFault(w)
  PROVE  SoundAfter(w)
<1> USE DEF Base
<1>0. /\ WorkerTypeOK /\ CheckpointsInFeed /\ PageSound(w) /\ ClaimSound(w)
      /\ faults \in 0..MaxFaults
  BY DEF WorkersSound, WorkerTypeOK
<1>1. ASSUME NEW g \in Guide, Fetch(w, g)
      PROVE  SoundAfter(w)
  <2> DEFINE from == checkpoint[g]
  <2>1. PICK upTo \in from..Len(Feed[g]) :
          \/ /\ upTo > from
             /\ phase' = [phase EXCEPT ![w] = "ingesting"]
             /\ page' = [page EXCEPT ![w] =
                  [guide |-> g, from |-> from, at |-> from + 1, upTo |-> upTo]]
             /\ UNCHANGED <<todo, left, claim>>
          \/ PullFails(w, g)
    BY <1>1 DEF Fetch
  <2>2. phase[w] = "pulling" /\ UNCHANGED <<checkpoint, shown, inDoubt, faults>>
    BY <1>1 DEF Fetch, history
  <2>3. CASE PullFails(w, g)
    BY <2>2, <2>3, <1>0, PullTypes
  <2>4. CASE /\ upTo > from
             /\ phase' = [phase EXCEPT ![w] = "ingesting"]
             /\ page' = [page EXCEPT ![w] =
                  [guide |-> g, from |-> from, at |-> from + 1, upTo |-> upTo]]
             /\ UNCHANGED <<todo, left, claim>>
    <3>1. from \in Nat /\ upTo \in Nat /\ upTo <= Len(Feed[g]) /\ Len(Feed[g]) \in Nat
      BY <1>0, FeedType DEF WorkerTypeOK
    <3> DEFINE p == [guide |-> g, from |-> from, at |-> from + 1, upTo |-> upTo]
    <3>2. p \in Pages
      BY <3>1 DEF Pages
    <3>3. page' = [page EXCEPT ![w] = p] /\ page'[w] = p /\ phase'[w] = "ingesting"
      BY <2>4, <1>0 DEF WorkerTypeOK
    <3>4. WorkerTypeOK'
      BY <2>2, <2>4, <1>0, <3>2, <3>3 DEF WorkerTypeOK, Phase
    <3>5. PageSound(w)'
      BY <3>1, <3>2, <3>3, <2>4 DEF PageSound
    <3>6. ClaimSound(w)'
      BY <3>3, <2>2, <2>4, <1>0 DEF ClaimSound, Sending
    <3>7. CheckpointsInFeed'
      BY <1>0, <2>2 DEF CheckpointsInFeed
    <3> QED
      BY <3>4, <3>5, <3>6, <3>7 DEF SoundAfter
  <2> QED
    BY <2>1, <2>3, <2>4
<1>2. ASSUME NEW g \in Guide, FetchFails(w, g)
      PROVE  SoundAfter(w)
  BY <1>2, FaultType, PullTypes DEF FetchFails
<1>3. CASE Ingest(w) \/ IngestFails(w)
  <2>1. page[w].guide \in Guide /\ phase[w] = "ingesting" /\ UNCHANGED <<checkpoint, shown, inDoubt>>
    BY <1>3, PageInFeed DEF Ingest, IngestFails, history
  <2>2. faults' \in 0..MaxFaults
    BY <1>0, <1>3, FaultType DEF Ingest, IngestFails, history
  <2>3. CASE PullFails(w, page[w].guide)
    BY <2>1, <2>2, <2>3, PullTypes
  <2>4. CASE Ingest(w) /\ NextEvent(w)
    <3>1. page[w].at <= page[w].upTo
      BY <2>4 DEF Ingest
    <3>2. page[w] \in Pages
      BY <2>1, <1>0 DEF PageSound
    <3>3. /\ page'[w] \in Pages
          /\ page'[w].guide = page[w].guide /\ page'[w].from = page[w].from
          /\ page'[w].upTo = page[w].upTo /\ page'[w].at = page[w].at + 1
      BY <2>4, <3>2, <1>0 DEF NextEvent, WorkerTypeOK, Pages
    <3>4. WorkerTypeOK'
      BY <1>0, <2>1, <2>2, <2>4, <3>3 DEF WorkerTypeOK, NextEvent
    <3>5. PageSound(w)'
      BY <1>0, <2>1, <3>1, <3>2, <3>3 DEF PageSound, Pages
    <3>6. ClaimSound(w)' /\ CheckpointsInFeed'
      BY <1>0, <2>1, <2>4 DEF ClaimSound, CheckpointsInFeed, NextEvent
    <3> QED
      BY <3>4, <3>5, <3>6 DEF SoundAfter
  <2> QED
    BY <1>3, <2>3, <2>4 DEF Ingest, IngestFails
<1>4. CASE Advance(w)
  <2> DEFINE p == page[w]
  <2>1. /\ phase[w] = "ingesting" /\ p.guide \in Guide /\ p.upTo \in Nat
        /\ p.upTo <= Len(Feed[p.guide])
    BY <1>4, <1>0, PageInFeed DEF Advance, PageSound
  <2>2. /\ checkpoint' \in [Guide -> Nat]
        /\ CheckpointsInFeed'
    BY <1>4, <1>0, <2>1 DEF Advance, WorkerTypeOK, CheckpointsInFeed
  <2>3. WorkerTypeOK'
    BY <1>4, <1>0, <2>2 DEF Advance, PullEnds, WorkerTypeOK, Phase, history
  <2>4. phase'[w] = "pulling" /\ claim' = claim
    BY <1>4, <1>0 DEF Advance, PullEnds, WorkerTypeOK
  <2>5. PageSound(w)' /\ ClaimSound(w)'
    BY <2>1, <2>4, <1>0 DEF PageSound, ClaimSound, Sending
  <2> QED
    BY <2>2, <2>3, <2>5 DEF SoundAfter
<1>5. CASE PullsDone(w) \/ Recover(w)
  <2>0. CheckpointsInFeed'
    BY <1>0, <1>5 DEF PullsDone, Recover, CheckpointsInFeed
  <2>3. BatchLimit \in 0..BatchLimit
    BY WorkerAssumption DEF WorkerAssumption
  <2>4. left' \in [Worker -> 0..BatchLimit]
    BY <1>0, <1>5, <2>3 DEF PullsDone, Recover, WorkerTypeOK
  <2>1. WorkerTypeOK'
    BY <1>0, <1>5, <2>4 DEF PullsDone, Recover, WorkerTypeOK, Phase, history
  <2>2. PageSound(w)' /\ ClaimSound(w)'
    BY <1>0, <1>5 DEF PullsDone, Recover, WorkerTypeOK, PageSound, ClaimSound, Sending
  <2> QED
    BY <2>0, <2>1, <2>2 DEF SoundAfter
<1>6. CASE Claim(w)
  <2>1. PICK e \in Event : claim' = [claim EXCEPT ![w] =
                             [event |-> e, attempt |-> attempts[e] + 1, limit |-> limit[e]]]
    BY <1>6 DEF Claim
  <2>2. [event |-> e, attempt |-> attempts[e] + 1, limit |-> limit[e]] \in Claims
    BY DEF Claims, InboxTypeOK
  <2>0. CheckpointsInFeed'
    BY <1>0, <1>6 DEF Claim, CheckpointsInFeed
  <2>5. left[w] - 1 \in 0..BatchLimit
    BY <1>0, <1>6, WorkerAssumption DEF Claim, WorkerTypeOK, WorkerAssumption
  <2>6. left' \in [Worker -> 0..BatchLimit]
    BY <1>0, <1>6, <2>5 DEF Claim, WorkerTypeOK
  <2>3. WorkerTypeOK'
    BY <1>0, <1>6, <2>1, <2>2, <2>6 DEF Claim, WorkerTypeOK, Phase, history
  <2>4. PageSound(w)' /\ ClaimSound(w)'
    BY <1>0, <1>6, <2>1, <2>2 DEF Claim, WorkerTypeOK, PageSound, ClaimSound, Sending
  <2> QED
    BY <2>0, <2>3, <2>4 DEF SoundAfter
<1>7. CASE CycleEnds(w) \/ Crash(w)
  <2>1. faults' \in 0..MaxFaults
    BY <1>0, <1>7, FaultType DEF CycleEnds, Crash, history
  <2>2. inDoubt' \subseteq Event
    BY <1>0, <1>7 DEF CycleEnds, Crash, Doubted, history, WorkerTypeOK, ClaimSound, Sending, Claims
  <2>0. CheckpointsInFeed'
    BY <1>0, <1>7 DEF CycleEnds, Crash, CheckpointsInFeed
  <2>5. 0 \in 0..BatchLimit
    BY WorkerAssumption DEF WorkerAssumption
  <2>6. left' \in [Worker -> 0..BatchLimit]
    BY <1>0, <1>7, <2>5 DEF CycleEnds, Crash, NewCycle, WorkerTypeOK
  <2>3. WorkerTypeOK'
    BY <1>0, <1>7, <2>1, <2>2, <2>6
    DEF CycleEnds, Crash, NewCycle, WorkerTypeOK, Phase, history
  <2>4. PageSound(w)' /\ ClaimSound(w)'
    BY <1>0, <1>7 DEF CycleEnds, Crash, NewCycle, WorkerTypeOK, PageSound, ClaimSound, Sending
  <2> QED
    BY <2>0, <2>3, <2>4 DEF SoundAfter
<1>8. CASE Send(w)
  <2>1. claim[w] \in Claims /\ claim[w].event \in Event
    BY <1>0, <1>8 DEF Send, ClaimSound, Sending, Claims
  <2>0. CheckpointsInFeed'
    BY <1>0, <1>8 DEF Send, CheckpointsInFeed
  <2>2. WorkerTypeOK'
    BY <1>0, <1>8, <2>1 DEF Send, WorkerTypeOK, Phase
  <2>3. PageSound(w)' /\ ClaimSound(w)'
    BY <1>0, <1>8, <2>1 DEF Send, WorkerTypeOK, PageSound, ClaimSound, Sending
  <2> QED
    BY <2>0, <2>2, <2>3 DEF SoundAfter
<1>9. CASE Record(w) \/ RecordFails(w)
  <2>1. claim[w] \in Claims /\ claim[w].event \in Event
    BY <1>0, <1>9 DEF Record, RecordFails, ClaimSound, Sending, Claims
  <2>2. faults' \in 0..MaxFaults /\ inDoubt' \subseteq Event
    BY <1>0, <1>9, <2>1, FaultType DEF Record, RecordFails, Doubted, history, WorkerTypeOK
  <2>3. WorkerTypeOK' /\ CheckpointsInFeed'
    BY <1>0, <1>9, <2>2 DEF Record, RecordFails, WorkerTypeOK, Phase, history, CheckpointsInFeed
  <2>4. PageSound(w)' /\ ClaimSound(w)'
    BY <1>0, <1>9 DEF Record, RecordFails, WorkerTypeOK, PageSound, ClaimSound, Sending
  <2> QED
    BY <2>3, <2>4 DEF SoundAfter
<1> QED
  BY <1>1, <1>2, <1>3, <1>4, <1>5, <1>6, <1>7, <1>8, <1>9 DEF WorkerStep, WorkerFault

(* Each worker changes its own variables only. *)
LEMMA OthersKept ==
  ASSUME Base, NEW w \in Worker, WorkerStep(w) \/ WorkerFault(w),
         NEW v \in Worker, v # w
  PROVE  phase'[v] = phase[v] /\ page'[v] = page[v] /\ claim'[v] = claim[v]
  BY DEF Base, WorkerTypeOK, WorkerStep, WorkerFault, Fetch, FetchFails, PullFails, PullEnds,
         Ingest, NextEvent, IngestFails, Advance, PullsDone, Recover, Claim, CycleEnds, NewCycle,
         Send, Record, RecordFails, Crash

LEMMA BaseKept ==
  ASSUME Base, [Next]_vars
  PROVE  Base'
<1>1. InboxTypeOK'
  BY StepsOfInbox, InboxTypes DEF Base
<1>2. ASSUME NEW w \in Worker, WorkerStep(w) \/ WorkerFault(w)
      PROVE  Base'
  <2>1. SoundAfter(w)
    BY <1>2, WorkerTypes
  <2>2. ASSUME NEW v \in Worker, v # w
        PROVE  PageSound(v)' /\ ClaimSound(v)'
    <3>1. phase'[v] = phase[v] /\ page'[v] = page[v] /\ claim'[v] = claim[v]
      BY <1>2, <2>2, OthersKept
    <3> QED
      BY <3>1 DEF Base, WorkersSound, PageSound, ClaimSound
  <2>3. WorkersSound'
    BY <2>1, <2>2 DEF SoundAfter, WorkersSound
  <2> QED
    BY <1>1, <2>1, <2>3 DEF SoundAfter, Base
<1>3. CASE UNCHANGED vars
  BY <1>1, <1>3 DEF Base, vars, workerVars, history, WorkerTypeOK, WorkersSound, PageSound,
                    ClaimSound, CheckpointsInFeed
<1>4. CASE \/ \E e \in Event : TimePasses(e) \/ LeaseRunsOut(e)
           \/ OperatorRecovers
           \/ OperatorReplays
  <2>1. UNCHANGED <<checkpoint, workerVars, shown>>
    BY <1>4 DEF TimePasses, LeaseRunsOut, OperatorRecovers, OperatorReplays, history
  <2>2. faults' \in 0..MaxFaults /\ inDoubt' \subseteq Event
    BY <1>4, FaultType
    DEF TimePasses, LeaseRunsOut, OperatorRecovers, OperatorReplays, history, Base, WorkerTypeOK
  <2> QED
    BY <1>1, <2>1, <2>2 DEF Base, workerVars, WorkerTypeOK, WorkersSound, PageSound, ClaimSound,
                            CheckpointsInFeed
<1> QED
  BY <1>2, <1>3, <1>4 DEF Next

LEMMA BaseInit == Init => Base
<1> SUFFICES ASSUME Init PROVE Base
  OBVIOUS
<1>1. InboxTypeOK
  BY InboxAssumption DEF Init, InboxInit, InboxTypeOK, InboxAssumption, State
<1>2. WorkerTypeOK
  BY WorkerAssumption DEF Init, WorkerTypeOK, Phase, WorkerAssumption
<1>3. WorkersSound
  BY DEF Init, WorkersSound, PageSound, ClaimSound, Sending
<1>4. CheckpointsInFeed
  BY FeedType DEF Init, CheckpointsInFeed
<1> QED
  BY <1>1, <1>2, <1>3, <1>4 DEF Base

THEOREM BaseInvariant == Safe => []Base
  BY BaseInit, BaseKept, PTL DEF Safe

(* Every column, checkpoint and worker has its type: attempts of a row, and *)
(* the limit a replay gives it, stay within MAX_INBOX_ATTEMPTS.             *)
THEOREM ShopEventTypes == Safe => []TypeOK
<1>1. Base => TypeOK
  BY DEF Base, WorkerTypeOK, TypeOK
<1> QED
  BY <1>1, BaseInvariant, PTL

----------------------------------------------------------------------------
(* Rows, claims and watermarks.                                            *)

(* A row has content; one that was claimed has attempts, and one that may  *)
(* be claimed has some left.                                               *)
RowSound(e) ==
  /\ state[e] = "absent" <=> content[e] = Nothing
  /\ content[e] # Nothing => content[e].event = e
  /\ state[e] \in {"absent", "pending"} => attempts[e] < limit[e]
  /\ state[e] \in {"processing", "delivered", "dead_letter"} => attempts[e] > 0
  /\ attempts[e] <= limit[e]

(* A claim was counted, and has the limit of the row it still holds. *)
LimitSound(c) ==
  /\ c.attempt <= attempts[c.event]
  /\ Held(c) => c.limit = limit[c.event]

(* The watermark of an aggregate is one of its rows, and not stale. *)
MarkSound(a) ==
  watermark[a] # Nothing =>
    /\ content[watermark[a].event] = watermark[a]
    /\ Aggregate(watermark[a]) = a
    /\ state[watermark[a].event] # "stale"

(* No row is newer than the watermark, and it is the row itself if that    *)
(* was never claimed and waits.                                            *)
RowMarked(e) ==
  content[e] # Nothing =>
    /\ watermark[Aggregate(content[e])] # Nothing
    /\ content[e].version <= watermark[Aggregate(content[e])].version
    /\ state[e] = "pending" /\ attempts[e] = 0 =>
         watermark[Aggregate(content[e])] = content[e]

RowsSound == \A e \in Event : RowSound(e)
LimitsSound == \A w \in Worker : claim[w] \in Claims => LimitSound(claim[w])
MarksSound == \A a \in Guide \X Subject : MarkSound(a)
RowsMarked == \A e \in Event : RowMarked(e)
InboxInv == RowsSound /\ MarksSound /\ RowsMarked

LEMMA InsertKeeps ==
  ASSUME InboxTypeOK, InboxInv, NEW m \in Message, Insert(m)
  PROVE  InboxInv'
<1> USE DEF InboxTypeOK, State, Final
<1> DEFINE f == m.event
           a == Aggregate(m)
<1>1. /\ f \in Event /\ a \in Guide \X Subject /\ m.version \in Nat \ {0} /\ m # Nothing
      /\ content[f] = Nothing /\ state[f] = "absent"
  BY AggregateType, InboxAssumption DEF Insert, InboxInv, RowsSound, RowSound, InboxAssumption
<1>2. /\ content' = [content EXCEPT ![f] = m]
      /\ attempts' = attempts /\ limit' = limit
  BY DEF Insert
<1>3. ASSUME NEW e \in Event, e # f
      PROVE  /\ content'[e] = content[e]
             /\ \/ state'[e] = state[e]
                \/ Fresh(m) /\ Overtaken(e, m) /\ state'[e] = "stale"
  <2>1. content'[e] = content[e]
    BY <1>1, <1>2, <1>3
  <2>2. CASE ~Fresh(m)
    BY <1>1, <1>3, <2>1, <2>2 DEF Insert
  <2>3. CASE Fresh(m) /\ Overtaken(e, m)
    BY <1>1, <1>3, <2>1, <2>3 DEF Insert
  <2>4. CASE Fresh(m) /\ ~Overtaken(e, m)
    BY <1>1, <1>3, <2>1, <2>4 DEF Insert
  <2> QED
    BY <2>2, <2>3, <2>4
<1>4. ASSUME NEW b \in Guide \X Subject, watermark[b] # Nothing
      PROVE  watermark[b] \in Message /\ watermark[b].event \in Event /\ watermark[b].event # f
  <2>1. watermark[b] \in Message /\ watermark[b].event \in Event
    BY <1>4, AggregateType
  <2>2. content[watermark[b].event] = watermark[b]
    BY <1>4 DEF InboxInv, MarksSound, MarkSound
  <2> QED
    BY <1>1, <1>4, <2>1, <2>2
<1>5. \/ /\ Fresh(m) /\ state'[f] = "pending" /\ watermark' = [watermark EXCEPT ![a] = m]
      \/ /\ ~Fresh(m) /\ state'[f] = "stale" /\ watermark' = watermark
         /\ state' = [state EXCEPT ![f] = "stale"]
  <2>1. Fresh(m) => Raised(watermark[a], m) = m
    BY <1>1 DEF Fresh, Raised
  <2>2. Fresh(m) => watermark' = [watermark EXCEPT ![a] = Raised(watermark[a], m)]
    BY DEF Insert
  <2>3. Fresh(m) => state'[f] = "pending"
    BY <1>1 DEF Insert
  <2> QED
    BY <2>1, <2>2, <2>3, <1>1 DEF Insert
<1>6. RowsSound'
  <2> SUFFICES ASSUME NEW e \in Event PROVE RowSound(e)'
    BY DEF RowsSound
  <2>1. RowSound(e)
    BY DEF InboxInv, RowsSound
  <2>2. CASE e = f
    BY <1>1, <1>2, <1>5, <2>1, <2>2 DEF RowSound
  <2>3. CASE e # f
    BY <1>2, <1>3, <2>1, <2>3 DEF RowSound, Overtaken
  <2> QED
    BY <2>2, <2>3
<1>7. MarksSound'
  <2> SUFFICES ASSUME NEW b \in Guide \X Subject, watermark'[b] # Nothing
               PROVE  MarkSound(b)'
    BY DEF MarksSound, MarkSound
  <2>1. CASE watermark'[b] = watermark[b]
    <3> DEFINE e == watermark[b].event
    <3>1. e \in Event /\ e # f /\ watermark[b] \in Message
      BY <2>1, <1>4
    <3>2. content[e] = watermark[b] /\ Aggregate(watermark[b]) = b /\ state[e] # "stale"
      BY <2>1 DEF InboxInv, MarksSound, MarkSound
    <3>3. content'[e] = watermark[b]
      BY <3>1, <3>2, <1>3
    <3>4. ~(Fresh(m) /\ Overtaken(e, m))
      <4> SUFFICES ASSUME Fresh(m), Overtaken(e, m) PROVE FALSE
        OBVIOUS
      <4>1. b = a /\ watermark'[b] = m
        BY <1>1, <1>5, <3>2 DEF Overtaken
      <4> QED
        BY <4>1, <2>1, <3>1
    <3>5. state'[e] # "stale"
      BY <3>1, <3>2, <3>4, <1>3
    <3> QED
      BY <2>1, <3>2, <3>3, <3>5 DEF MarkSound, Aggregate
  <2>2. CASE watermark'[b] # watermark[b]
    <3>1. b = a /\ watermark'[b] = m /\ state'[f] = "pending"
      BY <2>2, <1>5, <1>1
    <3>2. content'[f] = m
      BY <1>1, <1>2
    <3> QED
      BY <3>1, <3>2 DEF MarkSound, Aggregate
  <2> QED
    BY <2>1, <2>2
<1>8. RowsMarked'
  <2> SUFFICES ASSUME NEW e \in Event, content'[e] # Nothing
               PROVE  RowMarked(e)'
    BY DEF RowsMarked, RowMarked
  <2>1. CASE e = f
    <3>1. content'[e] = m
      BY <2>1, <1>1, <1>2
    <3>2. CASE Fresh(m)
      <4>1. watermark'[a] = m
        BY <3>2, <1>1, <1>5
      <4> QED
        BY <3>1, <4>1, <1>1 DEF RowMarked, Aggregate
    <3>3. CASE ~Fresh(m)
      <4>1. watermark'[a] = watermark[a] /\ state'[e] = "stale"
        BY <3>3, <2>1, <1>5
      <4>2. watermark[a] # Nothing /\ ~(m.version > watermark[a].version)
        BY <3>3 DEF Fresh
      <4>3. watermark[a].version \in Nat
        BY <4>2, <1>1, <1>4, AggregateType
      <4> QED
        BY <3>1, <4>1, <4>2, <4>3, <1>1 DEF RowMarked, Aggregate
    <3> QED
      BY <3>2, <3>3
  <2>2. CASE e # f
    <3> DEFINE k == Aggregate(content[e])
    <3>1. content'[e] = content[e] /\ content[e] \in Message /\ k \in Guide \X Subject
      BY <2>2, <1>3, AggregateType
    <3>2. /\ watermark[k] # Nothing /\ content[e].version <= watermark[k].version
          /\ state[e] = "pending" /\ attempts[e] = 0 => watermark[k] = content[e]
      BY <3>1 DEF InboxInv, RowsMarked, RowMarked
    <3>3. /\ content[e].version \in Nat /\ watermark[k].version \in Nat
      BY <3>1, <3>2, <1>4, AggregateType
    <3>4. CASE Fresh(m) /\ k = a
      <4>1. watermark'[k] = m /\ m.version > watermark[k].version
        BY <3>1, <3>2, <3>4, <1>1, <1>5 DEF Fresh
      <4>2. ~(state'[e] = "pending" /\ attempts[e] = 0)
        <5> SUFFICES ASSUME state'[e] = "pending", attempts[e] = 0 PROVE FALSE
          OBVIOUS
        <5>1. state[e] = "pending" /\ state'[e] = state[e]
          BY <2>2, <1>3
        <5>2. Overtaken(e, m)
          BY <5>1, <3>1, <3>2, <3>3, <3>4, <4>1, <1>1 DEF Overtaken
        <5> QED
          BY <5>1, <5>2, <2>2, <3>4, <1>1 DEF Insert
      <4> QED
        BY <3>1, <3>2, <3>3, <4>1, <4>2, <1>1, <1>2 DEF RowMarked, Aggregate
    <3>5. CASE ~(Fresh(m) /\ k = a)
      <4>1. watermark'[k] = watermark[k]
        BY <3>1, <3>5, <1>1, <1>5
      <4>2. state'[e] = "pending" => state[e] = "pending"
        BY <2>2, <1>3
      <4> QED
        BY <3>1, <3>2, <4>1, <4>2, <1>2 DEF RowMarked, Aggregate
    <3> QED
      BY <3>4, <3>5
  <2> QED
    BY <2>1, <2>2
<1> QED
  BY <1>6, <1>7, <1>8 DEF InboxInv

(* A step that updates rows, and makes none stale or new. *)
LEMMA RowsUpdated ==
  ASSUME InboxTypeOK, InboxInv, UNCHANGED <<content, watermark>>,
         \A e \in Event :
           /\ RowSound(e)'
           /\ state'[e] = "stale" => state[e] = "stale"
           /\ state'[e] = "pending" /\ attempts'[e] = 0 => state[e] = "pending" /\ attempts[e] = 0
  PROVE  InboxInv'
<1>1. RowsSound'
  BY DEF RowsSound
<1>2. ASSUME NEW a \in Guide \X Subject, watermark[a] # Nothing
      PROVE  watermark[a].event \in Event
  BY <1>2, AggregateType DEF InboxTypeOK
<1>3. MarksSound'
  BY <1>2 DEF InboxInv, MarksSound, MarkSound, Aggregate
<1>4. RowsMarked'
  BY DEF InboxInv, RowsMarked, RowMarked, Aggregate
<1> QED
  BY <1>1, <1>3, <1>4 DEF InboxInv

LEMMA InboxKept ==
  ASSUME InboxTypeOK, InboxInv, LimitsSound, InboxStep
  PROVE  InboxInv'
<1> USE DEF InboxTypeOK, State, Final
<1>0. \A e \in Event : RowSound(e)
  BY DEF InboxInv, RowsSound
<1>1. ASSUME NEW m \in Message, Insert(m)
      PROVE  InboxInv'
  BY <1>1, InsertKeeps
<1>2. ASSUME NEW d \in Event, ClaimDue(d)
      PROVE  InboxInv'
  <2>1. UNCHANGED <<content, watermark>>
    BY <1>2 DEF ClaimDue
  <2>2. ASSUME NEW e \in Event
        PROVE  /\ RowSound(e)'
               /\ state'[e] = "stale" => state[e] = "stale"
               /\ state'[e] = "pending" /\ attempts'[e] = 0 => state[e] = "pending" /\ attempts[e] = 0
    BY <1>0, <1>2 DEF ClaimDue, Claimable, RowSound
  <2> QED
    BY <2>1, <2>2, RowsUpdated
<1>3. ASSUME NEW w \in Worker, claim[w] \in Claims, MarkDelivered(claim[w]) \/ MarkFailed(claim[w])
      PROVE  InboxInv'
  <2>1. PICK c \in Claims : c = claim[w] /\ LimitSound(c)
    BY <1>3 DEF LimitsSound
  <2>2. PICK s \in {"delivered", "dead_letter", "pending"} :
          /\ Settle(c, s)
          /\ s = "pending" => c.attempt < c.limit
    BY <1>3, <2>1 DEF MarkDelivered, MarkFailed, Exhausted, Claims
  <2>3. c.event \in Event /\ UNCHANGED <<content, watermark>>
    BY <2>2 DEF Settle, Claims
  <2>4. ASSUME NEW e \in Event
        PROVE  /\ RowSound(e)'
               /\ state'[e] = "stale" => state[e] = "stale"
               /\ state'[e] = "pending" /\ attempts'[e] = 0 => state[e] = "pending" /\ attempts[e] = 0
    <3>1. RowSound(e)
      BY <1>0
    <3>2. CASE e = c.event /\ Held(c)
      BY <2>1, <2>2, <3>1, <3>2 DEF Settle, Held, RowSound, LimitSound
    <3>3. CASE ~(e = c.event /\ Held(c))
      <4>1. state'[e] = state[e] /\ UNCHANGED <<content, attempts, limit>>
        BY <2>2, <2>3, <3>3 DEF Settle
      <4> QED
        BY <3>1, <4>1 DEF RowSound
    <3> QED
      BY <3>2, <3>3
  <2> QED
    BY <2>3, <2>4, RowsUpdated
<1>4. ASSUME NEW batch \in SUBSET Event, RecoverAbandoned(batch)
      PROVE  InboxInv'
  <2>1. UNCHANGED <<content, watermark>>
    BY <1>4 DEF RecoverAbandoned
  <2>2. ASSUME NEW e \in Event
        PROVE  /\ RowSound(e)'
               /\ state'[e] = "stale" => state[e] = "stale"
               /\ state'[e] = "pending" /\ attempts'[e] = 0 => state[e] = "pending" /\ attempts[e] = 0
    BY <1>0, <1>4 DEF RecoverAbandoned, Abandoned, RowSound
  <2> QED
    BY <2>1, <2>2, RowsUpdated
<1>5. ASSUME NEW batch \in SUBSET Event, ReplayDeadLetters(batch)
      PROVE  InboxInv'
  <2>1. UNCHANGED <<content, watermark>>
    BY <1>5 DEF ReplayDeadLetters
  <2>2. ASSUME NEW e \in Event
        PROVE  /\ RowSound(e)'
               /\ state'[e] = "stale" => state[e] = "stale"
               /\ state'[e] = "pending" /\ attempts'[e] = 0 => state[e] = "pending" /\ attempts[e] = 0
    BY <1>0, <1>5 DEF ReplayDeadLetters, Replayable, ReplayLimit, RowSound
  <2> QED
    BY <2>1, <2>2, RowsUpdated
<1>6. ASSUME NEW d \in Event, Elapse(d)
      PROVE  InboxInv'
  BY <1>0, <1>6, RowsUpdated DEF Elapse, RowSound
<1>7. CASE UNCHANGED inboxVars
  BY <1>0, <1>7, RowsUpdated DEF inboxVars, RowSound
<1> QED
  BY <1>1, <1>2, <1>3, <1>4, <1>5, <1>6, <1>7 DEF InboxStep

(* A claim stays sound, and one that was lost is not held again. *)
LEMMA ClaimKept ==
  ASSUME InboxTypeOK, InboxStep, NEW c \in Claims, LimitSound(c)
  PROVE  LimitSound(c)' /\ (Held(c)' => Held(c)) /\ attempts'[c.event] >= attempts[c.event]
<1> USE DEF InboxTypeOK, State, Final, LimitSound, Held
<1>0. c.event \in Event /\ c.attempt \in Nat /\ c.limit \in Nat
  BY DEF Claims
<1>1. ASSUME NEW m \in Message, Insert(m)
      PROVE  /\ UNCHANGED <<attempts, limit>>
             /\ state'[c.event] = "processing" => state[c.event] = "processing"
  <2>1. m.event \in Event
    BY AggregateType
  <2> QED
    BY <1>0, <1>1, <2>1 DEF Insert
<1>2. ASSUME NEW d \in Event, ClaimDue(d)
      PROVE  LimitSound(c)' /\ (Held(c)' => Held(c)) /\ attempts'[c.event] >= attempts[c.event]
  BY <1>0, <1>2 DEF ClaimDue
<1>3. ASSUME NEW w \in Worker, claim[w] \in Claims, MarkDelivered(claim[w]) \/ MarkFailed(claim[w])
      PROVE  /\ UNCHANGED <<attempts, limit>>
             /\ state'[c.event] = "processing" => state[c.event] = "processing"
  BY <1>0, <1>3 DEF MarkDelivered, MarkFailed, Settle, Claims
<1>4. ASSUME NEW batch \in SUBSET Event, RecoverAbandoned(batch)
      PROVE  /\ UNCHANGED <<attempts, limit>>
             /\ state'[c.event] = "processing" => state[c.event] = "processing"
  BY <1>0, <1>4 DEF RecoverAbandoned
<1>5. ASSUME NEW batch \in SUBSET Event, ReplayDeadLetters(batch)
      PROVE  LimitSound(c)' /\ (Held(c)' => Held(c)) /\ attempts'[c.event] >= attempts[c.event]
  BY <1>0, <1>5 DEF ReplayDeadLetters
<1>6. CASE (\E d \in Event : Elapse(d)) \/ UNCHANGED inboxVars
  BY <1>0, <1>6 DEF Elapse, inboxVars
<1> QED
  BY <1>0, <1>1, <1>2, <1>3, <1>4, <1>5, <1>6 DEF InboxStep

(* Two workers never hold the same attempt at one event. *)
ClaimsUnique ==
  \A v, w \in Worker :
    /\ claim[v] \in Claims /\ claim[w] \in Claims
    /\ claim[v].event = claim[w].event /\ claim[v].attempt = claim[w].attempt
    => v = w

(* The claim of event e that worker w makes now. *)
NewClaim(w, e) ==
  /\ phase[w] = "notifying" /\ phase'[w] = "claimed"
  /\ ClaimDue(e)
  /\ claim' = [claim EXCEPT ![w] = [event |-> e, attempt |-> attempts[e] + 1, limit |-> limit[e]]]

LEMMA ClaimsChange ==
  ASSUME Base, [Next]_vars
  PROVE  \/ \E w \in Worker, e \in Event : NewClaim(w, e)
         \/ \A w \in Worker : claim'[w] \in {claim[w], Nothing}
<1>1. ASSUME NEW w \in Worker, Claim(w)
      PROVE  \E e \in Event : NewClaim(w, e)
  BY <1>1 DEF Claim, NewClaim, Base, WorkerTypeOK
<1>2. ASSUME NEW w \in Worker, WorkerStep(w) \/ WorkerFault(w), ~Claim(w)
      PROVE  \A v \in Worker : claim'[v] \in {claim[v], Nothing}
  <2>1. claim'[w] \in {claim[w], Nothing}
    BY <1>2 DEF Base, WorkerTypeOK, WorkerStep, WorkerFault, Fetch, FetchFails, PullFails, PullEnds,
                Ingest, NextEvent, IngestFails, Advance, PullsDone, Recover, CycleEnds, NewCycle,
                Send, Record, RecordFails, Crash
  <2> QED
    BY <1>2, <2>1, OthersKept
<1>3. CASE \/ \E e \in Event : TimePasses(e) \/ LeaseRunsOut(e)
           \/ OperatorRecovers \/ OperatorReplays \/ UNCHANGED vars
  BY <1>3 DEF TimePasses, LeaseRunsOut, OperatorRecovers, OperatorReplays, vars, workerVars
<1> QED
  BY <1>1, <1>2, <1>3 DEF Next

ClaimsInv == LimitsSound /\ ClaimsUnique

LEMMA ClaimsKept ==
  ASSUME Base, ClaimsInv, [Next]_vars
  PROVE  ClaimsInv'
<1>1. InboxTypeOK /\ InboxStep
  BY StepsOfInbox DEF Base
<1>2. Nothing \notin Claims
  BY WorkerAssumption DEF WorkerAssumption
<1>3. CASE \A w \in Worker : claim'[w] \in {claim[w], Nothing}
  <2>1. LimitsSound'
    <3> SUFFICES ASSUME NEW w \in Worker, claim'[w] \in Claims
                 PROVE  LimitSound(claim[w])'
      BY DEF LimitsSound
    <3>1. PICK c \in Claims : c = claim[w] /\ c = claim'[w]
      BY <1>2, <1>3
    <3>2. LimitSound(c)
      BY <3>1 DEF ClaimsInv, LimitsSound
    <3>3. LimitSound(c)'
      BY <1>1, <3>2, ClaimKept
    <3> QED
      BY <3>1, <3>3 DEF LimitSound, Held
  <2>2. ClaimsUnique'
    BY <1>2, <1>3 DEF ClaimsInv, ClaimsUnique
  <2> QED
    BY <2>1, <2>2 DEF ClaimsInv
<1>4. ASSUME NEW w \in Worker, NEW e \in Event, NewClaim(w, e)
      PROVE  ClaimsInv'
  <2>0. PICK n \in Claims : n = [event |-> e, attempt |-> attempts[e] + 1, limit |-> limit[e]]
    <3>1. [event |-> e, attempt |-> attempts[e] + 1, limit |-> limit[e]] \in Claims
      BY <1>1 DEF InboxTypeOK, Claims
    <3> QED
      BY <3>1
  <2>1. /\ claim'[w] = n
        /\ \A v \in Worker : v # w => claim'[v] = claim[v]
    BY <1>4, <2>0 DEF NewClaim, Base, WorkerTypeOK
  <2>2. /\ attempts'[e] = n.attempt /\ limit' = limit /\ attempts[e] \in Nat
        /\ n.event = e /\ n.attempt = attempts[e] + 1 /\ n.limit = limit[e]
    BY <1>1, <1>4, <2>0 DEF NewClaim, ClaimDue, InboxTypeOK
  <2>3. LimitSound(n)'
    BY <2>2 DEF LimitSound, Held
  <2>4. ASSUME NEW v \in Worker, v # w, claim'[v] \in Claims
        PROVE  /\ LimitSound(claim[v])'
               /\ claim'[v].event = e => claim'[v].attempt # n.attempt
    <3>1. PICK c \in Claims : c = claim[v] /\ c = claim'[v]
      BY <2>1, <2>4
    <3>2. LimitSound(c) /\ c.attempt \in Nat
      BY <3>1 DEF ClaimsInv, LimitsSound, Claims
    <3>3. LimitSound(c)'
      BY <1>1, <3>2, ClaimKept
    <3>4. c.event = e => c.attempt # n.attempt
      BY <2>2, <3>2 DEF LimitSound
    <3> QED
      BY <3>1, <3>3, <3>4 DEF LimitSound, Held
  <2>5. LimitsSound'
    <3> SUFFICES ASSUME NEW v \in Worker, claim'[v] \in Claims
                 PROVE  LimitSound(claim[v])'
      BY DEF LimitsSound
    <3>1. CASE v = w
      BY <2>1, <2>3, <3>1 DEF LimitSound, Held
    <3> QED
      BY <2>4, <3>1
  <2>6. ClaimsUnique'
    BY <2>1, <2>2, <2>4 DEF ClaimsUnique, ClaimsInv
  <2> QED
    BY <2>5, <2>6 DEF ClaimsInv
<1> QED
  BY <1>3, <1>4, ClaimsChange

Inv == Base /\ InboxInv /\ ClaimsInv

LEMMA InvInit == Init => Inv
<1> SUFFICES ASSUME Init PROVE Inv
  OBVIOUS
<1>1. InboxInv
  BY InboxAssumption
  DEF Init, InboxInit, InboxInv, RowsSound, RowSound, MarksSound, MarkSound, RowsMarked, RowMarked,
      InboxAssumption
<1>2. ClaimsInv
  BY WorkerAssumption DEF Init, ClaimsInv, LimitsSound, ClaimsUnique, WorkerAssumption
<1> QED
  BY <1>1, <1>2, BaseInit DEF Inv

LEMMA InvKept ==
  ASSUME Inv, [Next]_vars
  PROVE  Inv'
<1>1. InboxInv'
  BY StepsOfInbox, InboxKept DEF Inv, Base, ClaimsInv
<1> QED
  BY <1>1, BaseKept, ClaimsKept DEF Inv

THEOREM Invariance == Safe => []Inv
  BY InvInit, InvKept, PTL DEF Safe

----------------------------------------------------------------------------
(* What the inbox promises.                                                *)

(* What reconciliation looks for never happens: every aggregate with an    *)
(* event that is not stale has a watermark, and it is the newest of them.  *)
THEOREM WatermarksHold == Safe => []WatermarksSound
<1>1. Inv => WatermarksSound
  <2> SUFFICES ASSUME Inv, NEW g \in Guide, NEW s \in Subject
               PROVE  LET live == {e \in Event : /\ state[e] \notin {"absent", "stale"}
                                                 /\ content[e].guide = g
                                                 /\ content[e].subject = s}
                          mark == watermark[<<g, s>>]
                      IN /\ live # {} => mark # Nothing
                         /\ mark # Nothing =>
                              /\ mark.event \in live
                              /\ content[mark.event] = mark
                              /\ \A e \in live : content[e].version <= mark.version
    BY DEF WatermarksSound
  <2> DEFINE live == {e \in Event : /\ state[e] \notin {"absent", "stale"}
                                    /\ content[e].guide = g
                                    /\ content[e].subject = s}
             mark == watermark[<<g, s>>]
  <2>1. InboxTypeOK /\ RowsSound /\ MarksSound /\ RowsMarked
    BY DEF Inv, Base, InboxInv
  <2>2. ASSUME NEW e \in live
        PROVE  mark # Nothing /\ content[e].version <= mark.version
    <3>1. content[e] # Nothing /\ Aggregate(content[e]) = <<g, s>>
      BY <2>1 DEF RowsSound, RowSound, Aggregate
    <3> QED
      BY <2>1, <3>1 DEF RowsMarked, RowMarked
  <2>3. ASSUME mark # Nothing
        PROVE  mark.event \in live /\ content[mark.event] = mark
    <3>1. mark \in Message
      BY <2>1, <2>3 DEF InboxTypeOK
    <3>2. mark.event \in Event /\ mark # Nothing
      BY <2>3, <3>1, AggregateType
    <3>3. content[mark.event] = mark /\ Aggregate(mark) = <<g, s>> /\ state[mark.event] # "stale"
      BY <2>1, <2>3 DEF MarksSound, MarkSound
    <3>4. state[mark.event] # "absent"
      BY <2>1, <3>2, <3>3 DEF RowsSound, RowSound
    <3>5. mark.guide = g /\ mark.subject = s
      BY <3>3 DEF Aggregate
    <3> QED
      BY <3>2, <3>3, <3>4, <3>5
  <2> QED
    BY <2>2, <2>3
<1> QED
  BY <1>1, Invariance, PTL

(* An event that was never claimed waits only while it is the newest. *)
THEOREM OvertakenNotTried == Safe => []UntriedIsNewest
<1>1. Inv => UntriedIsNewest
  BY DEF Inv, InboxInv, RowsSound, RowSound, RowsMarked, RowMarked, UntriedIsNewest
<1> QED
  BY <1>1, Invariance, PTL

(* No claim breaks the CHECK on attempts, however rows were recovered and  *)
(* replayed: the head of the queue never blocks it.                        *)
THEOREM QueueNeverBlocks == Safe => []ClaimsNeverBlock
<1>1. Inv => ClaimsNeverBlock
  BY DEF Inv, InboxInv, RowsSound, RowSound, ClaimsNeverBlock, Claimable
<1> QED
  BY <1>1, Invariance, PTL

(* Delivered and stale are final, a dead letter gets one more attempt at a *)
(* time, and attempts only grow, up to the limit.                          *)
THEOREM SettlesOnce == Safe => SettledOnce
<1>1. ASSUME Inv, [Next]_vars
      PROVE  RowsSettleOnce
  <2> USE DEF InboxTypeOK, State, Final
  <2>0. InboxTypeOK /\ InboxStep
    BY <1>1, StepsOfInbox DEF Inv, Base
  <2> SUFFICES ASSUME NEW e \in Event
               PROVE  /\ state[e] \in Final => state'[e] = state[e]
                      /\ state[e] = "dead_letter" /\ state'[e] # state[e] =>
                           state'[e] = "pending" /\ limit'[e] = attempts[e] + 1
                      /\ attempts'[e] \in attempts[e]..limit[e]
    BY DEF RowsSettleOnce
  <2>1. RowSound(e)
    BY <1>1 DEF Inv, InboxInv, RowsSound
  <2>2. ASSUME NEW m \in Message, Insert(m)
        PROVE  /\ UNCHANGED attempts
               /\ state'[e] # state[e] => state[e] \in {"absent", "pending"}
    <3>1. state[m.event] = "absent"
      BY <1>1, <2>2, AggregateType DEF Inv, InboxInv, RowsSound, RowSound, Insert
    <3> QED
      BY <2>0, <2>2, <3>1, AggregateType DEF Insert, Overtaken
  <2>3. ASSUME NEW d \in Event, ClaimDue(d)
        PROVE  /\ attempts'[e] \in attempts[e]..limit[e]
               /\ state'[e] # state[e] => state[e] = "pending"
    BY <2>0, <2>1, <2>3 DEF ClaimDue, Claimable, RowSound
  <2>4. ASSUME NEW w \in Worker, claim[w] \in Claims, MarkDelivered(claim[w]) \/ MarkFailed(claim[w])
        PROVE  /\ UNCHANGED attempts
               /\ state'[e] # state[e] => state[e] = "processing"
    BY <2>0, <2>4 DEF MarkDelivered, MarkFailed, Settle, Held, Claims
  <2>5. ASSUME NEW batch \in SUBSET Event, RecoverAbandoned(batch)
        PROVE  /\ UNCHANGED attempts
               /\ state'[e] # state[e] => state[e] = "processing"
    BY <2>0, <2>5 DEF RecoverAbandoned, Abandoned
  <2>6. ASSUME NEW batch \in SUBSET Event, ReplayDeadLetters(batch)
        PROVE  /\ UNCHANGED attempts
               /\ state'[e] # state[e] =>
                    state[e] = "dead_letter" /\ state'[e] = "pending" /\ limit'[e] = attempts[e] + 1
    BY <2>0, <2>6 DEF ReplayDeadLetters, Replayable, ReplayLimit
  <2>7. CASE (\E d \in Event : Elapse(d)) \/ UNCHANGED inboxVars
    BY <2>0, <2>1, <2>7 DEF Elapse, inboxVars, RowSound
  <2>8. UNCHANGED attempts => attempts'[e] \in attempts[e]..limit[e]
    BY <2>0, <2>1 DEF RowSound
  <2> QED
    BY <2>0, <2>2, <2>3, <2>4, <2>5, <2>6, <2>7, <2>8 DEF InboxStep
<1> QED
  BY <1>1, Invariance, PTL DEF Safe, SettledOnce

----------------------------------------------------------------------------
(* Feeds and checkpoints.                                                  *)

(* The inbox has what guide g's feed told first, up to position n. *)
Taken(g, n) == \A i \in 1..n : content[Feed[g][i].event] = Feed[g][i]

TakenInv ==
  /\ NothingSkipped
  /\ \A w \in Worker : phase[w] = "ingesting" => Taken(page[w].guide, page[w].at - 1)

(* Content is never changed, so what was taken stays taken. *)
LEMMA TakenStays ==
  ASSUME Base, [Next]_vars, NEW g \in Guide, NEW n \in Nat, n <= Len(Feed[g]), Taken(g, n)
  PROVE  Taken(g, n)'
<1> USE DEF Base, InboxTypeOK
<1>1. ASSUME NEW e \in Event, content[e] # Nothing
      PROVE  content'[e] = content[e]
  <2>1. InboxStep
    BY StepsOfInbox
  <2>2. ASSUME NEW m \in Message, Insert(m)
        PROVE  content'[e] = content[e]
    BY <1>1, <2>2, AggregateType DEF Insert
  <2> QED
    BY <2>1, <2>2 DEF InboxStep, ClaimDue, MarkDelivered, MarkFailed, Settle, RecoverAbandoned,
                      ReplayDeadLetters, Elapse, inboxVars
<1>2. ASSUME NEW i \in 1..n
      PROVE  content'[Feed[g][i].event] = Feed[g][i]
  <2>1. Feed[g][i] \in Message
    BY FeedType
  <2>2. Feed[g][i].event \in Event /\ Feed[g][i] # Nothing
    BY <2>1, AggregateType, InboxAssumption DEF InboxAssumption
  <2> QED
    BY <1>1, <2>2 DEF Taken
<1> QED
  BY <1>2 DEF Taken

(* How a step moves checkpoints and pages. *)
LEMMA PagesMove ==
  ASSUME Base, [Next]_vars
  PROVE  \/ UNCHANGED <<checkpoint, phase, page>>
         \/ \E w \in Worker :
              /\ \A v \in Worker : v # w => phase'[v] = phase[v] /\ page'[v] = page[v]
              /\ \/ /\ checkpoint' = checkpoint /\ phase'[w] # "ingesting"
                 \/ /\ checkpoint' = checkpoint /\ phase'[w] = "ingesting"
                    /\ page'[w].guide \in Guide /\ page'[w].at = checkpoint[page'[w].guide] + 1
                 \/ /\ Ingest(w) /\ NextEvent(w)
                    /\ checkpoint' = checkpoint
                 \/ Advance(w)
<1> USE DEF Base
<1>1. ASSUME NEW w \in Worker, WorkerStep(w) \/ WorkerFault(w)
      PROVE  \/ UNCHANGED <<checkpoint, phase, page>>
             \/ /\ checkpoint' = checkpoint /\ phase'[w] # "ingesting"
             \/ /\ checkpoint' = checkpoint /\ phase'[w] = "ingesting"
                /\ page'[w].guide \in Guide /\ page'[w].at = checkpoint[page'[w].guide] + 1
             \/ /\ Ingest(w) /\ NextEvent(w)
                /\ checkpoint' = checkpoint
             \/ Advance(w)
  <2>0. phase \in [Worker -> Phase] /\ page \in [Worker -> Pages \cup {Nothing}]
    BY DEF WorkerTypeOK
  <2>1. ASSUME NEW g \in Guide, Fetch(w, g) \/ FetchFails(w, g)
        PROVE  /\ checkpoint' = checkpoint
               /\ \/ phase'[w] # "ingesting"
                  \/ page'[w].guide \in Guide /\ page'[w].at = checkpoint[page'[w].guide] + 1
    BY <2>0, <2>1 DEF Fetch, FetchFails, PullFails, PullEnds
  <2>2. CASE Ingest(w) \/ IngestFails(w)
    BY <2>0, <2>2 DEF Ingest, IngestFails, PullFails, PullEnds
  <2>3. CASE PullsDone(w) \/ Recover(w) \/ Claim(w) \/ CycleEnds(w) \/ Send(w) \/ Record(w)
             \/ RecordFails(w) \/ Crash(w)
    BY <2>0, <2>3 DEF PullsDone, Recover, Claim, CycleEnds, NewCycle, Send, Record, RecordFails, Crash
  <2> QED
    BY <1>1, <2>1, <2>2, <2>3 DEF WorkerStep, WorkerFault
<1>2. CASE \/ \E e \in Event : TimePasses(e) \/ LeaseRunsOut(e)
           \/ OperatorRecovers \/ OperatorReplays \/ UNCHANGED vars
  BY <1>2 DEF TimePasses, LeaseRunsOut, OperatorRecovers, OperatorReplays, vars, workerVars
<1> QED
  BY <1>1, <1>2, OthersKept DEF Next

(* A checkpoint that moves, moves behind a page that is in the inbox.      *)
LEMMA CheckpointMoves ==
  ASSUME Base, TakenInv, [Next]_vars, NEW g \in Guide, checkpoint'[g] # checkpoint[g]
  PROVE  checkpoint'[g] > checkpoint[g] /\ Taken(g, checkpoint'[g])
<1> USE DEF Base
<1>1. PICK w \in Worker : Advance(w)
  BY PagesMove
<1>2. /\ phase[w] = "ingesting" /\ page[w].at > page[w].upTo
      /\ checkpoint'[g] = page[w].upTo /\ page[w].guide = g /\ checkpoint[g] = page[w].from
  BY <1>1 DEF Advance, CheckpointUnmoved, WorkerTypeOK
<1>3. page[w].from \in Nat /\ page[w].at \in Nat /\ page[w].upTo \in Nat
  BY <1>2, PageInFeed
<1>4. page[w].from < page[w].upTo /\ page[w].at - 1 = page[w].upTo
  BY <1>2, <1>3 DEF WorkersSound, PageSound
<1>5. Taken(g, page[w].at - 1)
  BY <1>2 DEF TakenInv
<1> QED
  BY <1>2, <1>3, <1>4, <1>5

LEMMA TakenKept ==
  ASSUME Base, TakenInv, [Next]_vars
  PROVE  TakenInv'
<1>1. WorkerTypeOK /\ CheckpointsInFeed /\ WorkerTypeOK' /\ CheckpointsInFeed' /\ WorkersSound'
  BY BaseKept DEF Base
<1>2. ASSUME NEW g \in Guide
      PROVE  Taken(g, checkpoint[g])' /\ Taken(g, checkpoint[g])
  <2>0. Taken(g, checkpoint[g])
    BY DEF TakenInv, NothingSkipped, Taken
  <2>1. PICK n \in Nat : n = checkpoint'[g]
    BY <1>1 DEF WorkerTypeOK
  <2>2. n <= Len(Feed[g]) /\ Taken(g, n)
    BY <1>1, <2>0, <2>1, CheckpointMoves DEF CheckpointsInFeed
  <2>3. Taken(g, n)'
    BY <2>2, TakenStays
  <2> QED
    BY <2>0, <2>1, <2>3 DEF Taken
<1>3. ASSUME NEW w \in Worker, phase'[w] = "ingesting"
      PROVE  Taken(page[w].guide, page[w].at - 1)'
  <2>0. /\ page'[w].guide \in Guide /\ page'[w].at \in Nat \ {0}
        /\ page'[w].at - 1 <= Len(Feed[page'[w].guide])
    BY <1>1, <1>3, FeedType DEF WorkersSound, PageSound, Pages
  <2>1. PICK g \in Guide, n \in Nat : g = page'[w].guide /\ n = page'[w].at - 1
    BY <2>0
  <2>2. SUFFICES Taken(g, n)'
    BY <2>1 DEF Taken
  <2>3. CASE phase[w] = "ingesting" /\ page'[w] = page[w]
    <3>1. Taken(g, n)
      BY <2>1, <2>3 DEF TakenInv
    <3> QED
      BY <2>0, <2>1, <3>1, TakenStays
  <2>4. CASE page'[w].at = checkpoint[page'[w].guide] + 1
    <3>1. Taken(g, n)
      BY <1>1, <1>2, <2>1, <2>4 DEF WorkerTypeOK
    <3> QED
      BY <2>0, <2>1, <3>1, TakenStays
  <2>5. CASE Ingest(w) /\ NextEvent(w)
    <3>0. phase[w] = "ingesting" /\ page[w].at <= page[w].upTo /\ page[w] \in Pages
      BY <2>5 DEF Ingest, Base, WorkersSound, PageSound
    <3>5. page'[w].guide = page[w].guide /\ page'[w].at = page[w].at + 1
      BY <1>1, <2>5, <3>0 DEF NextEvent, WorkerTypeOK, Pages
    <3>1. phase[w] = "ingesting" /\ page[w].guide = g /\ page[w].at = n /\ n <= page[w].upTo
      BY <2>1, <3>0, <3>5 DEF Pages
    <3>2. Taken(g, n - 1) /\ n \in 1..Len(Feed[g])
      BY <2>0, <2>1, <3>1, PageInFeed DEF TakenInv, Base, WorkersSound, PageSound
    <3>3. Taken(g, n - 1)'
      BY <3>2, FeedType, TakenStays
    <3>4. content'[Feed[g][n].event] = Feed[g][n]
      <4>1. Insert(Feed[g][n]) \/ (Duplicate(Feed[g][n]) /\ UNCHANGED content)
        BY <1>1, <2>5, <3>1 DEF Ingest, NextEvent, PullFails, PullEnds, inboxVars, WorkerTypeOK
      <4>2. Feed[g][n] \in Message /\ Feed[g][n].event \in Event
        BY <3>2, FeedType, AggregateType
      <4> QED
        BY <4>1, <4>2 DEF Insert, Duplicate, Base, InboxTypeOK
    <3> QED
      BY <3>2, <3>3, <3>4 DEF Taken
  <2>6. ~Advance(w)
    BY <1>1, <1>3 DEF Advance, PullEnds, WorkerTypeOK
  <2>7. \/ phase'[w] = phase[w] /\ page'[w] = page[w]
        \/ page'[w].at = checkpoint[page'[w].guide] + 1
        \/ Ingest(w) /\ NextEvent(w)
    BY <1>3, <2>6, PagesMove
  <2> QED
    BY <1>3, <2>3, <2>4, <2>5, <2>7
<1> QED
  BY <1>2, <1>3 DEF TakenInv, NothingSkipped, Taken

LEMMA TakenAlways == Safe => [](Base /\ TakenInv)
<1>1. Init => TakenInv
  BY DEF Init, TakenInv, NothingSkipped
<1> QED
  BY <1>1, BaseInit, BaseKept, TakenKept, PTL DEF Safe

(* What a checkpoint has passed is in the inbox as the feed told it.       *)
THEOREM NothingIsSkipped == Safe => []NothingSkipped
<1>1. TakenInv => NothingSkipped
  BY DEF TakenInv
<1> QED
  BY <1>1, TakenAlways, PTL

(* Checkpoints only advance, however many workers read from them.          *)
THEOREM CheckpointsAdvance == Safe => CheckpointsOnlyAdvance
<1>1. ASSUME Base, TakenInv, [Next]_vars
      PROVE  \A g \in Guide : checkpoint'[g] >= checkpoint[g]
  <2> TAKE g \in Guide
  <2>1. checkpoint[g] \in Nat
    BY <1>1 DEF Base, WorkerTypeOK
  <2>2. checkpoint'[g] # checkpoint[g] => checkpoint'[g] > checkpoint[g]
    BY <1>1, CheckpointMoves
  <2>3. checkpoint'[g] \in Nat
    BY <1>1, BaseKept DEF Base, WorkerTypeOK
  <2> QED
    BY <2>1, <2>2, <2>3
<1> QED
  BY <1>1, TakenAlways, PTL DEF Safe, CheckpointsOnlyAdvance

----------------------------------------------------------------------------
(* Repeated messages.                                                      *)

Claimed(w, e) == claim[w] \in Claims /\ claim[w].event = e
DeliveredBy(w, e) == phase[w] = "delivered" /\ Claimed(w, e)

(* While an event is not in doubt, whoever claims it holds it within the   *)
(* lease, and one message shown is recorded, or is about to be.            *)
Certain(e) ==
  /\ \A w \in Worker : Claimed(w, e) => Held(claim[w]) /\ ~due[e]
  /\ shown[e] <= 1
  /\ shown[e] = 1 => state[e] = "delivered" \/ \E w \in Worker : DeliveredBy(w, e)

DoubtInv == \A e \in Event : e \notin inDoubt => Certain(e)

LEMMA SoleClaim ==
  ASSUME ClaimsUnique, NEW e \in Event, Certain(e),
         NEW v \in Worker, NEW w \in Worker, Claimed(v, e), Claimed(w, e)
  PROVE  v = w
  BY DEF ClaimsUnique, Certain, Claimed, Held

(* A step that keeps the claims of an event, and either its row or, if it  *)
(* has no claim, that it is delivered. *)
LEMMA CertainQuietly ==
  ASSUME NEW e \in Event, Certain(e), shown'[e] = shown[e],
         \A w \in Worker : Claimed(w, e)' => Claimed(w, e) /\ claim'[w] = claim[w],
         \A w \in Worker : DeliveredBy(w, e) => DeliveredBy(w, e)',
         \/ state'[e] = state[e] /\ attempts'[e] = attempts[e] /\ due'[e] = due[e]
         \/ /\ \A w \in Worker : ~Claimed(w, e)
            /\ state[e] = "delivered" => state'[e] = "delivered"
  PROVE  Certain(e)'
<1>1. ASSUME NEW w \in Worker, Claimed(w, e)'
      PROVE  Held(claim[w])' /\ ~due'[e]
  BY <1>1 DEF Certain, Claimed, Held
<1>2. shown'[e] = 1 => state'[e] = "delivered" \/ \E w \in Worker : DeliveredBy(w, e)'
  BY DEF Certain, DeliveredBy
<1> QED
  BY <1>1, <1>2 DEF Certain

LEMMA InsertLeaves ==
  ASSUME InboxTypeOK, NEW m \in Message, Insert(m), NEW e \in Event, e # m.event
  PROVE  /\ attempts'[e] = attempts[e] /\ due'[e] = due[e]
         /\ state'[e] = state[e] \/ state[e] = "pending"
  BY AggregateType DEF Insert, Overtaken, InboxTypeOK

LEMMA StaysCertain ==
  ASSUME Inv, Inv', NEW e \in Event, Certain(e), [Next]_vars, e \notin inDoubt'
  PROVE  Certain(e)'
<1> USE DEF Inv, Base
<1>0. /\ phase \in [Worker -> Phase] /\ claim \in [Worker -> Claims \cup {Nothing}]
      /\ Nothing \notin Claims
      /\ InboxTypeOK /\ shown \in [Event -> Nat]
      /\ ClaimsUnique
      /\ \A w \in Worker : ClaimSound(w)
  BY WorkerAssumption DEF WorkerTypeOK, WorkersSound, ClaimsInv, WorkerAssumption
<1>1. ASSUME NEW w \in Worker,
             \/ \E g \in Guide : Fetch(w, g) \/ FetchFails(w, g)
             \/ IngestFails(w) \/ Advance(w) \/ PullsDone(w) \/ CycleEnds(w)
      PROVE  Certain(e)'
  <2>1. UNCHANGED <<inboxVars, shown>>
    BY <1>1 DEF Fetch, FetchFails, IngestFails, Advance, PullsDone, CycleEnds, history
  <2>2. phase[w] \notin Sending /\ claim[w] = Nothing
    BY <1>0, <1>1 DEF Fetch, FetchFails, IngestFails, Advance, PullsDone, CycleEnds, ClaimSound, Sending
  <2>3. /\ claim' = [claim EXCEPT ![w] = Nothing]
        /\ \A v \in Worker : v # w => phase'[v] = phase[v]
    BY <1>0, <1>1, <2>2 DEF Fetch, FetchFails, PullFails, PullEnds, IngestFails, Advance, PullsDone,
                            CycleEnds, NewCycle
  <2> QED
    BY <1>0, <2>1, <2>2, <2>3, CertainQuietly DEF Claimed, DeliveredBy, inboxVars
<1>2. ASSUME NEW w \in Worker, Ingest(w)
      PROVE  Certain(e)'
  <2> DEFINE m == Feed[page[w].guide][page[w].at]
  <2>1. m \in Message
    BY <1>2, PageInFeed DEF Ingest
  <2>2. shown' = shown /\ claim' = claim /\ phase[w] = "ingesting"
        /\ (Insert(m) \/ UNCHANGED inboxVars)
        /\ \A v \in Worker : v # w => phase'[v] = phase[v]
    BY <1>0, <1>2 DEF Ingest, NextEvent, PullFails, PullEnds, history
  <2>3. \A v \in Worker : DeliveredBy(v, e) => DeliveredBy(v, e)'
    BY <2>2 DEF DeliveredBy, Claimed
  <2>4. CASE Insert(m)
    <3>1. state[m.event] = "absent"
      BY <2>1, <2>4, AggregateType DEF InboxInv, RowsSound, RowSound, Insert
    <3>2. \/ state'[e] = state[e] /\ attempts'[e] = attempts[e] /\ due'[e] = due[e]
          \/ state[e] \in {"absent", "pending"}
      BY <1>0, <2>1, <2>4, <3>1, InsertLeaves
    <3> QED
      BY <2>2, <2>3, <3>2, CertainQuietly DEF Claimed, Certain, Held
  <2>5. CASE UNCHANGED inboxVars
    BY <2>2, <2>3, <2>5, CertainQuietly DEF Claimed, inboxVars
  <2> QED
    BY <2>2, <2>4, <2>5
<1>3. ASSUME NEW batch \in SUBSET Event, RecoverAbandoned(batch) \/ ReplayDeadLetters(batch),
             shown' = shown, claim' = claim,
             \A w \in Worker : phase[w] = "delivered" => phase'[w] = "delivered"
      PROVE  Certain(e)'
  <2>1. \A w \in Worker : DeliveredBy(w, e) => DeliveredBy(w, e)'
    BY <1>3 DEF DeliveredBy, Claimed
  <2>2. \/ state'[e] = state[e] /\ attempts'[e] = attempts[e] /\ due'[e] = due[e]
        \/ /\ state[e] # "delivered"
           /\ state[e] # "processing" \/ due[e]
    BY <1>0, <1>3 DEF RecoverAbandoned, ReplayDeadLetters, Abandoned, Replayable, InboxTypeOK
  <2> QED
    BY <1>3, <2>1, <2>2, CertainQuietly DEF Claimed, Certain, Held
<1>4. ASSUME NEW w \in Worker, Recover(w)
      PROVE  Certain(e)'
  <2>1. /\ \E batch \in SUBSET Event : RecoverAbandoned(batch)
        /\ shown' = shown /\ claim' = claim
        /\ \A v \in Worker : phase[v] = "delivered" => phase'[v] = "delivered"
    <3>1. RecoverAbandoned({d \in Event : Abandoned(d)}) /\ {d \in Event : Abandoned(d)} \in SUBSET Event
      BY <1>4 DEF Recover
    <3> QED
      BY <1>0, <1>4, <3>1 DEF Recover, history
  <2> QED
    BY <1>3, <2>1
<1>5. CASE OperatorRecovers \/ OperatorReplays
  <2>1. \E batch \in SUBSET Event : RecoverAbandoned(batch) \/ ReplayDeadLetters(batch)
    BY <1>5 DEF OperatorRecovers, OperatorReplays
  <2> QED
    BY <1>3, <1>5, <2>1 DEF OperatorRecovers, OperatorReplays, workerVars, history
<1>6. ASSUME NEW w \in Worker, Claim(w)
      PROVE  Certain(e)'
  <2>1. PICK d \in Event : NewClaim(w, d)
    BY <1>6 DEF Claim, NewClaim, WorkerTypeOK
  <2>2. /\ shown' = shown /\ claim[w] = Nothing
        /\ \A v \in Worker : v # w => phase'[v] = phase[v] /\ claim'[v] = claim[v]
        /\ claim'[w].event = d /\ claim'[w].attempt = attempts[d] + 1
    BY <1>0, <1>6, <2>1 DEF Claim, NewClaim, history, ClaimSound, Sending
  <2>3. CASE e = d
    <3>1. state[e] = "pending" /\ state'[e] = "processing" /\ attempts'[e] = attempts[e] + 1 /\ ~due'[e]
      BY <1>0, <2>1, <2>3 DEF NewClaim, ClaimDue, Claimable, InboxTypeOK
    <3>2. \A v \in Worker : ~Claimed(v, e)
      BY <3>1 DEF Certain, Held, Claimed
    <3>3. shown[e] # 1
      BY <3>1, <3>2 DEF Certain, DeliveredBy
    <3> QED
      BY <2>2, <2>3, <3>1, <3>2, <3>3 DEF Certain, Claimed, Held
  <2>4. CASE e # d
    <3>1. state'[e] = state[e] /\ attempts'[e] = attempts[e] /\ due'[e] = due[e]
      BY <1>0, <2>1, <2>4 DEF NewClaim, ClaimDue, InboxTypeOK
    <3>2. \A v \in Worker : Claimed(v, e)' => Claimed(v, e) /\ claim'[v] = claim[v]
      BY <2>2, <2>4 DEF Claimed
    <3>3. \A v \in Worker : DeliveredBy(v, e) => DeliveredBy(v, e)'
      BY <1>0, <2>2 DEF DeliveredBy, Claimed
    <3> QED
      BY <2>2, <3>1, <3>2, <3>3, CertainQuietly
  <2> QED
    BY <2>3, <2>4
<1>7. ASSUME NEW w \in Worker, Send(w)
      PROVE  Certain(e)'
  <2>1. /\ phase[w] = "claimed" /\ claim' = claim /\ UNCHANGED inboxVars
        /\ claim[w] \in Claims
        /\ \A v \in Worker : v # w => phase'[v] = phase[v]
    BY <1>0, <1>7 DEF Send, ClaimSound, Sending
  <2>2. \A v \in Worker : DeliveredBy(v, e) => DeliveredBy(v, e)'
    BY <1>0, <2>1 DEF DeliveredBy, Claimed
  <2>3. CASE shown'[e] = shown[e]
    BY <2>1, <2>2, <2>3, CertainQuietly DEF Claimed, inboxVars
  <2>4. CASE shown'[e] # shown[e]
    <3>1. Claimed(w, e) /\ shown'[e] = shown[e] + 1 /\ phase'[w] = "delivered"
      BY <1>0, <1>7, <2>1, <2>4 DEF Send, Claimed
    <3>2. state[e] = "processing"
      BY <3>1 DEF Certain, Claimed, Held
    <3>3. shown[e] # 1
      BY <1>0, <2>1, <3>1, <3>2, SoleClaim DEF Certain, DeliveredBy
    <3>4. shown'[e] = 1
      BY <1>0, <3>1, <3>3 DEF Certain
    <3>5. DeliveredBy(w, e)'
      BY <2>1, <3>1 DEF DeliveredBy, Claimed
    <3> QED
      BY <2>1, <3>4, <3>5 DEF Certain, Claimed, Held, inboxVars
  <2> QED
    BY <2>3, <2>4
<1>8. ASSUME NEW w \in Worker, Record(w)
      PROVE  Certain(e)'
  <2>1. /\ phase[w] \in {"delivered", "failed"} /\ claim[w] \in Claims /\ shown' = shown
        /\ claim' = [claim EXCEPT ![w] = Nothing]
        /\ \A v \in Worker : v # w => phase'[v] = phase[v]
    BY <1>0, <1>8 DEF Record, ClaimSound, Sending, history
  <2>2. \A v \in Worker : Claimed(v, e)' => v # w /\ Claimed(v, e) /\ claim'[v] = claim[v]
    BY <1>0, <2>1 DEF Claimed
  <2>3. CASE ~Claimed(w, e)
    <3>1. claim[w].event \in Event /\ claim[w].event # e
      BY <2>1, <2>3 DEF Claimed, Claims
    <3>2. state'[e] = state[e] /\ attempts'[e] = attempts[e] /\ due'[e] = due[e]
      BY <1>0, <1>8, <3>1 DEF Record, MarkDelivered, MarkFailed, Settle, InboxTypeOK
    <3>3. \A v \in Worker : DeliveredBy(v, e) => DeliveredBy(v, e)'
      BY <1>0, <2>1, <2>3 DEF DeliveredBy, Claimed
    <3> QED
      BY <2>1, <2>2, <3>2, <3>3, CertainQuietly
  <2>4. CASE Claimed(w, e)
    <3>1. \A v \in Worker : ~Claimed(v, e)'
      BY <1>0, <2>2, <2>4, SoleClaim
    <3>2. Held(claim[w]) /\ state[e] = "processing"
      BY <2>4 DEF Certain, Claimed, Held
    <3>3. phase[w] = "delivered" => state'[e] = "delivered"
      BY <1>0, <1>8, <2>4, <3>2 DEF Record, MarkDelivered, Settle, Claimed, InboxTypeOK
    <3>4. phase[w] # "delivered" => shown[e] # 1
      BY <1>0, <2>4, <3>2, SoleClaim DEF Certain, DeliveredBy
    <3> QED
      BY <2>1, <3>1, <3>3, <3>4 DEF Certain
  <2> QED
    BY <2>3, <2>4
<1>9. ASSUME NEW w \in Worker, RecordFails(w) \/ Crash(w)
      PROVE  Certain(e)'
  <2>1. /\ UNCHANGED <<inboxVars, shown>>
        /\ claim' = [claim EXCEPT ![w] = Nothing]
        /\ \A v \in Worker : v # w => phase'[v] = phase[v]
        /\ phase[w] = "delivered" => claim[w] \in Claims /\ claim[w].event # e
    BY <1>0, <1>9 DEF RecordFails, Crash, NewCycle, Doubted, ClaimSound, Sending
  <2>2. \A v \in Worker : Claimed(v, e)' => Claimed(v, e) /\ claim'[v] = claim[v]
    BY <1>0, <2>1 DEF Claimed
  <2>3. \A v \in Worker : DeliveredBy(v, e) => DeliveredBy(v, e)'
    BY <1>0, <2>1 DEF DeliveredBy, Claimed
  <2> QED
    BY <2>1, <2>2, <2>3, CertainQuietly DEF inboxVars
<1>10. ASSUME NEW d \in Event, TimePasses(d) \/ LeaseRunsOut(d)
       PROVE  Certain(e)'
  <2>1. /\ shown' = shown /\ claim' = claim /\ phase' = phase
        /\ state' = state /\ attempts' = attempts
        /\ d # e => due'[e] = due[e]
    BY <1>0, <1>10 DEF TimePasses, LeaseRunsOut, Elapse, workerVars, history, InboxTypeOK
  <2>2. d = e => TimePasses(e)
    BY <1>10 DEF LeaseRunsOut
  <2>3. d = e => \A w \in Worker : ~Claimed(w, e)
    BY <1>0, <2>2 DEF TimePasses, InProgress, Certain, Claimed
  <2> QED
    BY <2>1, <2>3, CertainQuietly DEF Claimed, DeliveredBy
<1>11. CASE UNCHANGED vars
  BY <1>11, CertainQuietly DEF vars, inboxVars, workerVars, history, Claimed, DeliveredBy
<1> QED
  BY <1>1, <1>2, <1>4, <1>5, <1>6, <1>7, <1>8, <1>9, <1>10, <1>11 DEF Next, WorkerStep, WorkerFault

LEMMA DoubtGrows ==
  ASSUME Base, [Next]_vars
  PROVE  inDoubt \subseteq inDoubt'
  BY DEF Next, WorkerStep, WorkerFault, Fetch, FetchFails, Ingest, IngestFails, Advance, PullsDone,
         Recover, Claim, CycleEnds, Send, Record, RecordFails, Crash, Doubted, TimePasses,
         LeaseRunsOut, OperatorRecovers, OperatorReplays, vars, history

(* A guide sees an event twice only after an attempt whose end is unknown. *)
THEOREM NotRepeated == Safe => []RepeatedOnlyInDoubt
<1>1. Init => DoubtInv
  BY WorkerAssumption DEF Init, DoubtInv, Certain, Claimed, DeliveredBy, WorkerAssumption
<1>2. ASSUME Inv, DoubtInv, [Next]_vars
      PROVE  DoubtInv'
  BY <1>2, InvKept, StaysCertain, DoubtGrows DEF DoubtInv, Inv
<1>3. Inv /\ DoubtInv => RepeatedOnlyInDoubt
  BY DEF Inv, Base, WorkerTypeOK, DoubtInv, Certain, RepeatedOnlyInDoubt
<1> QED
  BY <1>1, <1>2, <1>3, InvInit, InvKept, PTL DEF Safe
=============================================================================
