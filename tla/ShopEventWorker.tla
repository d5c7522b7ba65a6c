-------------------------- MODULE ShopEventWorker --------------------------
(***************************************************************************)
(* The worker of shop events (services/guide_shop_event_worker.py): in     *)
(* every cycle it pulls a page of each guide's feed into the inbox, takes  *)
(* up what was abandoned, and tells guides of events by Telegram.  It may  *)
(* die at any point, and a second one may run at the same time; an         *)
(* administrator's script recovers and replays beside them.                *)
(***************************************************************************)
EXTENDS ShopEventInbox, Sequences

CONSTANTS Worker,
          Feed,        \* what the shop tells of each guide, in feed order
          PageLimit,   \* EVENT_PAGE_LIMIT
          BatchLimit,  \* NOTIFICATION_BATCH_LIMIT
          MaxFaults    \* bound on crashes, failed writes, failed pulls, overrun leases

VARIABLES checkpoint,  \* per guide, the position its cursor stands for
          phase,       \* where each worker is in its cycle
          todo,        \* the guides it has still to pull
          page,        \* the page it is ingesting
          left,        \* how many more events it may claim
          claim,       \* the claim it holds
          shown,       \* how many messages of an event the guide was shown
          inDoubt,     \* events with an attempt whose end is not known
          faults

(* checkpoint models cursor and generation at once: the position grows     *)
(* with every advance, so that comparing it compares both.                 *)
workerVars == <<phase, todo, page, left, claim>>
history == <<shown, inDoubt, faults>>
vars == <<inboxVars, checkpoint, workerVars, history>>

Phase == {"pulling", "ingesting", "recovering", "notifying", "claimed", "delivered", "failed"}
Pages == [guide : Guide, from : Nat, at : Nat, upTo : Nat]

ASSUME WorkerAssumption ==
  /\ Feed \in [Guide -> Seq(Message)]
  /\ PageLimit \in Nat \ {0}
  /\ BatchLimit \in Nat \ {0}
  /\ MaxFaults \in Nat
  /\ Nothing \notin Pages \cup Claims

Init ==
  /\ InboxInit
  /\ checkpoint = [g \in Guide |-> 0]
  /\ phase = [w \in Worker |-> "pulling"]
  /\ todo = [w \in Worker |-> Guide]
  /\ page = [w \in Worker |-> Nothing]
  /\ left = [w \in Worker |-> 0]
  /\ claim = [w \in Worker |-> Nothing]
  /\ shown = [e \in Event |-> 0]
  /\ inDoubt = {}
  /\ faults = 0

Fault == faults < MaxFaults /\ faults' = faults + 1

----------------------------------------------------------------------------
(* Pulling.                                                                *)

(* On with the next guide. *)
PullEnds(w) ==
  /\ phase' = [phase EXCEPT ![w] = "pulling"]
  /\ page' = [page EXCEPT ![w] = Nothing]
  /\ UNCHANGED <<left, claim>>

PullFails(w, g) ==
  /\ todo' = [todo EXCEPT ![w] = @ \ {g}]
  /\ PullEnds(w)

(* The page is of this guide's events. *)
PageAccepted(g, from, upTo) == \A i \in (from + 1)..upTo : Feed[g][i].guide = g

(* The worker gets the page after the checkpoint: as much as the feed has  *)
(* by then.  An empty one, or one with another guide's event, ends the     *)
(* pull.                                                                   *)
Fetch(w, g) ==
  LET from == checkpoint[g] IN
  /\ phase[w] = "pulling" /\ g \in todo[w]
  /\ \E upTo \in from..Len(Feed[g]) :
       /\ upTo <= from + PageLimit
       /\ from < Len(Feed[g]) => upTo > from
       /\ \/ /\ upTo > from /\ PageAccepted(g, from, upTo)
             /\ phase' = [phase EXCEPT ![w] = "ingesting"]
             /\ page' = [page EXCEPT ![w] =
                  [guide |-> g, from |-> from, at |-> from + 1, upTo |-> upTo]]
             /\ UNCHANGED <<todo, left, claim>>
          \/ /\ upTo = from \/ ~PageAccepted(g, from, upTo)
             /\ PullFails(w, g)
  /\ UNCHANGED <<inboxVars, checkpoint, history>>

FetchFails(w, g) ==
  /\ phase[w] = "pulling" /\ g \in todo[w]
  /\ Fault
  /\ PullFails(w, g)
  /\ UNCHANGED <<inboxVars, checkpoint, shown, inDoubt>>

NextEvent(w) == page' = [page EXCEPT ![w].at = @ + 1] /\ UNCHANGED <<phase, todo, left, claim>>

(* The next event of the page is stored, known already, or another one     *)
(* under a known id, which ends the pull.                                  *)
Ingest(w) ==
  LET p == page[w]
      m == Feed[p.guide][p.at]
  IN
  /\ phase[w] = "ingesting" /\ p.at <= p.upTo
  /\ \/ Insert(m) /\ NextEvent(w)
     \/ Duplicate(m) /\ NextEvent(w) /\ UNCHANGED inboxVars
     \/ Conflicting(m) /\ PullFails(w, p.guide) /\ UNCHANGED inboxVars
  /\ UNCHANGED <<checkpoint, history>>

IngestFails(w) ==
  /\ phase[w] = "ingesting"
  /\ Fault
  /\ PullFails(w, page[w].guide)
  /\ UNCHANGED <<inboxVars, checkpoint, shown, inDoubt>>

(* Mutant: the cursor is written as it came. *)
CheckpointAnyway(p) == TRUE

(* Nobody advanced the checkpoint since the page was asked for. *)
CheckpointUnmoved(p) == checkpoint[p.guide] = p.from

(* The whole page is in: the checkpoint moves behind it. *)
Advance(w) ==
  LET p == page[w] IN
  /\ phase[w] = "ingesting" /\ p.at > p.upTo
  /\ checkpoint' = IF CheckpointUnmoved(p) THEN [checkpoint EXCEPT ![p.guide] = p.upTo] ELSE checkpoint
  /\ todo' = [todo EXCEPT ![w] = @ \ {p.guide}]
  /\ PullEnds(w)
  /\ UNCHANGED <<inboxVars, history>>

PullsDone(w) ==
  /\ phase[w] = "pulling" /\ todo[w] = {}
  /\ phase' = [phase EXCEPT ![w] = "recovering"]
  /\ UNCHANGED <<inboxVars, checkpoint, todo, page, left, claim, history>>

----------------------------------------------------------------------------
(* Telling guides.                                                         *)

(* All that was abandoned is taken up (an instance has fewer rows than     *)
(* RECOVERY_BATCH_LIMIT).                                                  *)
Recover(w) ==
  /\ phase[w] = "recovering"
  /\ RecoverAbandoned({e \in Event : Abandoned(e)})
  /\ phase' = [phase EXCEPT ![w] = "notifying"]
  /\ left' = [left EXCEPT ![w] = BatchLimit]
  /\ UNCHANGED <<checkpoint, todo, page, claim, history>>

Claim(w) ==
  /\ phase[w] = "notifying" /\ left[w] > 0
  /\ \E e \in Event :
       /\ ClaimDue(e)
       /\ claim' = [claim EXCEPT ![w] =
            [event |-> e, attempt |-> attempts[e] + 1, limit |-> limit[e]]]
  /\ phase' = [phase EXCEPT ![w] = "claimed"]
  /\ left' = [left EXCEPT ![w] = @ - 1]
  /\ UNCHANGED <<checkpoint, todo, page, history>>

NewCycle(w) ==
  /\ phase' = [phase EXCEPT ![w] = "pulling"]
  /\ todo' = [todo EXCEPT ![w] = Guide]
  /\ page' = [page EXCEPT ![w] = Nothing]
  /\ left' = [left EXCEPT ![w] = 0]
  /\ claim' = [claim EXCEPT ![w] = Nothing]

(* Nothing is due, or the batch is done. *)
CycleEnds(w) ==
  /\ phase[w] = "notifying"
  /\ left[w] = 0 \/ \A e \in Event : ~Claimable(e)
  /\ NewCycle(w)
  /\ UNCHANGED <<inboxVars, checkpoint, history>>

(* Telegram shows the message and says so; or the call raises, and the     *)
(* guide may see the message or not; or the guide has no chat, and nothing *)
(* is sent.                                                                *)
Send(w) ==
  LET e == claim[w].event IN
  /\ phase[w] = "claimed"
  /\ \/ /\ phase' = [phase EXCEPT ![w] = "delivered"]
        /\ shown' = [shown EXCEPT ![e] = @ + 1]
        /\ UNCHANGED inDoubt
     \/ /\ phase' = [phase EXCEPT ![w] = "failed"]
        /\ \/ shown' = [shown EXCEPT ![e] = @ + 1] /\ inDoubt' = inDoubt \cup {e}
           \/ UNCHANGED <<shown, inDoubt>>
  /\ UNCHANGED <<inboxVars, checkpoint, todo, page, left, claim, faults>>

(* The outcome is recorded, and the next event claimed. *)
Record(w) ==
  /\ phase[w] \in {"delivered", "failed"}
  /\ IF phase[w] = "delivered" THEN MarkDelivered(claim[w]) ELSE MarkFailed(claim[w])
  /\ phase' = [phase EXCEPT ![w] = "notifying"]
  /\ claim' = [claim EXCEPT ![w] = Nothing]
  /\ UNCHANGED <<checkpoint, todo, page, left, history>>

(* The claim is lost; if the message was shown, nobody knows any more. *)
Doubted(w) ==
  inDoubt' = IF phase[w] = "delivered" THEN inDoubt \cup {claim[w].event} ELSE inDoubt

(* The outcome cannot be written; the worker goes on. *)
RecordFails(w) ==
  /\ phase[w] \in {"delivered", "failed"}
  /\ Fault
  /\ Doubted(w)
  /\ phase' = [phase EXCEPT ![w] = "notifying"]
  /\ claim' = [claim EXCEPT ![w] = Nothing]
  /\ UNCHANGED <<inboxVars, checkpoint, todo, page, left, shown>>

(* The process dies and is started again, or the cycle fails. *)
Crash(w) ==
  /\ Fault
  /\ Doubted(w)
  /\ NewCycle(w)
  /\ UNCHANGED <<inboxVars, checkpoint, shown>>

----------------------------------------------------------------------------

InProgress(e) == \E w \in Worker : claim[w] # Nothing /\ claim[w].event = e /\ Held(claim[w])

(* A retry's delay passes, or the lease of a claim nobody holds any more.  *)
TimePasses(e) ==
  /\ ~InProgress(e)
  /\ Elapse(e)
  /\ UNCHANGED <<checkpoint, workerVars, history>>

(* The lease runs out on a worker that is still sending. *)
LeaseRunsOut(e) ==
  /\ InProgress(e)
  /\ Fault
  /\ Elapse(e)
  /\ inDoubt' = inDoubt \cup {e}
  /\ UNCHANGED <<checkpoint, workerVars, shown>>

(* scripts/guide_shop_event_recovery.py, with any limit. *)
OperatorRecovers ==
  /\ \E batch \in SUBSET {e \in Event : Abandoned(e)} : batch # {} /\ RecoverAbandoned(batch)
  /\ UNCHANGED <<checkpoint, workerVars, history>>

OperatorReplays ==
  /\ \E batch \in SUBSET {e \in Event : Replayable(e)} : batch # {} /\ ReplayDeadLetters(batch)
  /\ UNCHANGED <<checkpoint, workerVars, history>>

WorkerStep(w) ==
  \/ \E g \in Guide : Fetch(w, g)
  \/ Ingest(w) \/ Advance(w) \/ PullsDone(w)
  \/ Recover(w) \/ Claim(w) \/ CycleEnds(w)
  \/ Send(w) \/ Record(w)

WorkerFault(w) ==
  \/ \E g \in Guide : FetchFails(w, g)
  \/ IngestFails(w) \/ RecordFails(w) \/ Crash(w)

Next ==
  \/ \E w \in Worker : WorkerStep(w) \/ WorkerFault(w)
  \/ \E e \in Event : TimePasses(e) \/ LeaseRunsOut(e)
  \/ OperatorRecovers
  \/ OperatorReplays

(* The loop never ends (run, restarted with the bot), and time passes.     *)
(* Nobody has to run the script.                                           *)
Fairness ==
  /\ \A w \in Worker : WF_vars(WorkerStep(w))
  /\ \A e \in Event : WF_vars(TimePasses(e))

Safe == Init /\ [][Next]_vars
Spec == Safe /\ Fairness

----------------------------------------------------------------------------

TypeOK ==
  /\ InboxTypeOK
  /\ checkpoint \in [Guide -> Nat]
  /\ phase \in [Worker -> Phase]
  /\ todo \in [Worker -> SUBSET Guide]
  /\ page \in [Worker -> Pages \cup {Nothing}]
  /\ left \in [Worker -> 0..BatchLimit]
  /\ claim \in [Worker -> Claims \cup {Nothing}]
  /\ shown \in [Event -> Nat]
  /\ inDoubt \subseteq Event
  /\ faults \in 0..MaxFaults

(* What a checkpoint has passed is in the inbox as the feed told it, after *)
(* crashes in the middle of a page, refused events, and a second worker on *)
(* another page.                                                           *)
NothingSkipped ==
  \A g \in Guide : \A i \in 1..checkpoint[g] : content[Feed[g][i].event] = Feed[g][i]

(* A checkpoint never goes back, though two workers read different pages   *)
(* from it at once (the comparison in advance).                            *)
CheckpointsOnlyAdvance == [][\A g \in Guide : checkpoint'[g] >= checkpoint[g]]_vars

(* "A repeated delivery creates no repeated message": the guide sees an    *)
(* event twice only after an attempt whose end nobody knows - a call that  *)
(* raised, a lost outcome, a lease that ran out on its worker.             *)
RepeatedOnlyInDoubt == \A e \in Event : shown[e] > 1 => e \in inDoubt

SettledOnce == [][RowsSettleOnce]_vars

(* Every event is in the end delivered, stale or a dead letter, whatever   *)
(* becomes of workers and sends; dead letters are replayed finitely often. *)
EventsSettle == <>[](\A e \in Event : state[e] \notin {"pending", "processing"})

(* The events of a feed that keeps its contract so far: they are its own   *)
(* guide's, and no feed tells another content under the id of one, unless  *)
(* further on in the same feed.                                            *)
Sound ==
  [g \in Guide |->
    {n \in 1..Len(Feed[g]) :
      /\ \A i \in 1..Len(Feed[g]) : Feed[g][i].guide = g
      /\ \A i \in 1..n, h \in Guide : \A j \in 1..Len(Feed[h]) :
           Feed[h][j].event = Feed[g][i].event => Feed[h][j] = Feed[g][i] \/ (h = g /\ j > i)}]

(* A feed is read up to the first event that contradicts one told before:  *)
(* a pull that dies in the middle of a page, or meets what another worker  *)
(* has stored, is only behind (ingest takes a known event for a duplicate, *)
(* and pull_once goes on).                                                 *)
FeedsRead == <>(\A g \in Guide : \A n \in Sound[g] : content[Feed[g][n].event] = Feed[g][n])
=============================================================================
