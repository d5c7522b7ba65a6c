# Guide OS: a verification development in TLA+

Guide OS is the assistant of a tour guide: a Telegram bot, a Mini App with its
API, and integrations with operator companies ("Guide Operator") and with a
shop network ("GuideShop"). All of them work on one SQLite database. This
directory models the part where several independent parties change shared
rows - the guide, operator companies, delivery workers, the shop's event
feed - and checks it with TLC and TLAPS.

Paths below are relative to the repository (`services/...` is
`src/services/...` in the map).

## The system's parts

| part | state it keeps | operations | what makes it correct |
|---|---|---|---|
| operator connections (`guide_operator_connection_service.py`) | connection, inbox and decision tables | invitation and disconnect events; the guide's confirm or decline | one decision per invitation; status, decision and reported fact agree |
| operator assignments (`guide_operator_assignment_service.py`) | assignments, versions, decisions, acknowledgements, protected rows of `tours`, outbox, notices | offer, withdraw/expire, cancel, ordinary and critical versions; the guide's accept/decline, confirm/reject, acknowledge | the calendar mirrors what was agreed, no double booking, version chain, replays answered |
| personal calendar (`tour_service.py`, bot dialogues and Mini App routes, `availability_service.py`) | personal rows of `tours`, the dialogue in memory, stored answers of keyed requests | save, edit, move, copy, delete, rows or groups of rows; tell an operator whether a range is free | double bookings only by the guide's own word, a repeated keyed request answered or refused, the rows of an entry agree, "free" can be offered |
| operator outbox delivery (`guide_operator_outbound_delivery.py`, `..._worker.py`) | delivery columns of the outbox | claim with a lease, POST, finish or retry | every fact settles; a late outcome never overwrites a later one |
| guide notifications (`guide_operator_notification_*.py`) | notification rows | queue, claim, currency check, Telegram send, finish | superseded notices are not sent; each row settles |
| reconcile and repair (`guide_operator_reconcile*_service.py`) | repair inbox and audits | compare evidence, recreate / correct / release a protected row | the mirror restored, none disturbed; stale evidence changes nothing |
| integration API (`web_api/guide_operator_integration.py`, `guide_operator_service_jwt.py`) | used token ids | parse, authorise, call a handler, map errors; read snapshots | a request already served is answered as a replay; snapshots and facts tell the same |
| GuideShop events (`guide_shop_event_*.py`) | event inbox, watermarks, checkpoints | pull pages, ingest, claim, notify, recover, replay dead letters | each event once, newest wins, nothing stuck |
| GuideShop links (`guide_shop_link_*.py`, `guide_shop_navigation.py`) | link requests, exchanges, evidence, tokens | issue, consume, confirm, revoke | one use per token; transitions in order; an answer once given stays true |
| Mini App API (`web_api/`) | sessions, idempotency responses | the entry routes and reads | a retried request is answered from the store, if its first answer got there |
| reminders, broadcast, tips | last reminder date, tips | loop per user | a reminder a day, repeated only in doubt |
| places, sales, income, reports | single rows of one guide | plain writes, sums | arithmetic |
| schema, runtimes, settings | - | - | - |

They interact through the database only. Inbound calls (operator events,
guide's answers from bot or Mini App) each run one handler, which commits
once; workers poll the outbox and the notification table in threads or in
processes of their own.

Hard here: calls of different parties in any order between two reads of the
same rows; at-least-once delivery in both directions, with duplicates and
reordering; checks made before a transaction and stale inside it; leases that
run out; versions that build on each other. `PROJECT.json` lists each hazard
with its line and the properties aimed at it.

## Modelling assumptions

* **One action per handler.** Each handler runs its writes in one
  `BEGIN IMMEDIATE` transaction (`database/db.py`, `run_write_with_retry`) in
  WAL mode, with one writer at a time. Inside it every condition that matters
  is read again, so the action's guard is the one of the transaction; checks
  made before it only refuse earlier. `_calendar_conflicts` reads on another
  connection, which while this transaction holds the write lock sees exactly
  the committed state before it.
* **A refusal or a replay is not a step.** The handlers raise before they
  write, and the transaction rolls back.
* **Operator events** carry no UUID here: an event is the record of its
  content. The same event id with another payload is refused before anything
  else; a second event with the content of an applied one is refused by the
  same guards as the first one's redelivery. Any event may arrive at any time,
  any number of times.
* **Data.** A date range is the set of its days; a role is a text and its
  trimmed form; a working package is its dates, its role, its day envelopes
  and the rest. Company and name comparisons only refuse, and are left out.
  Dates in a package with surrounding blanks pass the intake and make the
  confirmation fail before any write; they are left out too.
* **Rows of `tours`** are named by `TourId`. The table never reuses an id
  (AUTOINCREMENT); the model may reuse the name of a deleted row, which only
  adds behaviours.
* **Delivery workers** are the exception to one action per handler: a worker
  claims a row in one transaction, talks to the operator or to Telegram in
  none, and records the outcome in a third step, so these are actions of
  their own, and the worker may die between any two.
* **Time** in the delivery modules is the flag `due`: `next_attempt_at` is
  NULL or has passed. It becomes due again when the delay of a retry, or the
  lease of a claim nobody holds, has passed (`TimePasses`), or, at most
  `MaxOverruns` times per row, while its worker is still at it
  (`LeaseRunsOut`): the lease is 30 s, a request has a timeout of 7 s per
  socket operation and none for the whole answer. In the shop modules `due` is
  the same for a waiting event (`next_attempt_at`) and, for a claimed one,
  that its claim is older than `PROCESSING_LEASE_TIMEOUT`.
* **The other side.** A request without a definite answer may have been
  applied, may be applied later, or never. The operator recognises a
  repeated event by its id; Telegram does not, so the guide sees a message as
  often as it was sent.
* **The shop's feed** is a fixed sequence of events per guide; how much of it
  exists when a page is asked for, is any part of what follows the checkpoint,
  up to `PageLimit`. A cursor stands for a position. Every advance moves it
  forward, so that comparing cursor and generation, as `advance` does, is
  comparing positions. The feed may break its contract: name another guide,
  or tell two contents under one id.
* **Shop event worker.** A cycle pulls the guides in any order (the code's is
  that of a query). A failure of `recover_abandoned` or of the summary fails
  the cycle, which is `Crash`: nothing is lost but the place in the cycle. A
  failure while claiming leaves the row as it was. `mark_dead_letter` needs an
  event type without a text, and the contract's types all have one. With
  notifications switched off a worker only pulls: a part of the behaviours
  here, of which the liveness properties are not claimed. `MaxFaults` bounds
  crashes, failed pulls, failed writes and overrun leases together.
* **The guide's own edits** in `Assignments` carry no guard on overlaps: the
  bot saves over a conflict the guide was warned of, and stores new dates
  before it warns (`handlers/tour_edits.py`). A call reaches one row or all
  rows of a group; `Assignments` lets it reach any set of personal rows.
  `PersonalCalendar` has each of these calls with its checks.
* **Personal calendar.** Bot and Mini App API share one process and one event
  loop, so a handler is one step between two awaits; but each row, and the
  stored answer of a keyed request, has a commit of its own, and an exception
  or a restart may come between two of them. A text with dates is what the
  parser makes of it; `Parsed` completes each day with the next year in which
  it is not past, as `date_parser.py` does. Times are "full day" or one of
  several windows that do not overlap; city, company, income, note and so on
  are one value.
* **Repair.** Nothing in the code breaks the mirror of `Assignments`, so
  `Drift` does it: a row lost, moved, relabelled, doubled or detached, as the
  tests of the repair do it with SQL, within the constraints of the schema.
* **Link exchange.** A call reads its row, then the clock, then writes by
  compare-and-set; each is an action, and any other caller may come between.
  `Lapse` is the clock passing one token's or exchange's window.
* **Reminders.** One evening: the loop wakes every minute, a message is one
  await, and the calendar of `PersonalCalendar` changes between them.

## Modules

| module | models | state and actions |
|---|---|---|
| `Connections` | connection service, and the inbox, outbox and notice tables shared with the assignment service | `connStatus`, `connGuide`, `connDecision` are columns, `lapsed` says that the clock passed `invitation_expires_at`; `ReceiveConnectionInvitation`, `DecideConnection`, `ReceiveConnectionDisconnect`, `InvitationLapses` |
| `Assignments` (extends `Connections`) | assignment service and the calendar | one variable per column or table; `ReceiveOffer`, `CloseOffer`, `Accept`, `Decline`, `Cancel`, `ApplyOrdinaryVersion`, `IntakeCriticalVersion`, `ConfirmCritical`, `RejectCritical`, `AcknowledgeVersion`, and the guide's `GuideSavesEntry`, `GuideMovesEntries`, `GuideDeletesEntries` |
| `Commitment` | abstract specification: what a guide is promised | a phase, the blocked days and the days asked for, per assignment; `Ask`, `AskToMove`, `Agree`, `RefuseToMove`, `End` |
| `Leases` | the claim, the lease and the fence of the outbox and the notification table, which have the same code twice | `outcome`, `attempts`, `due` are a row's columns, `job` is what a worker holds in its stack frame; `Enqueue`, `Claim`, `Advance`, `Finish`, `TimePasses`, `LeaseRunsOut`, `Crash` |
| `OutboxDelivery` (extends `Leases`) | `guide_operator_outbound_delivery.py` and its worker | `told`: what the operator applied, `late`: requests that may still arrive, `posts`: how often a row was sent; `Post`, `Unsendable`, `LateArrival` |
| `NotificationDelivery` (extends `Leases`) | `guide_operator_notification_delivery.py` and its worker | `standing` and `closed`: whether the notice is current, and how many claims had been made when it ceased to be; `shown`, `late`, `doubtful`: attempts by what became of their message; `Check`, `Send`, `LateMessage`, `LoseClaim`, `Expire`, `Supersede` |
| `ShopEventInbox` | `guide_shop_event_inbox.py` | `state`, `content`, `received`, `attempts`, `limit`, `due` are a row's columns, `watermark` the other table; an operator per transaction: `Insert`, `ClaimDue`, `MarkDelivered`, `MarkFailed`, `RecoverAbandoned`, `ReplayDeadLetters` |
| `ShopEventWorker` (extends `ShopEventInbox`) | pull, checkpoint, notifications, worker and recovery script | `checkpoint` is a table; `phase`, `todo`, `page`, `left`, `claim` are what a worker has in its stack frames; `shown`, `inDoubt`: what the guide saw, and which attempts nobody knows the end of; an action per step between two awaits or transactions: `Fetch`, `Ingest`, `Advance`, `PullsDone`, `Recover`, `Claim`, `Send`, `Record`, `CycleEnds`; the failures `FetchFails`, `IngestFails`, `RecordFails`, `Crash`, `LeaseRunsOut`; the script's `OperatorRecovers`, `OperatorReplays` |
| `FactDelivery` | abstract specification of both: a fact that is owed is delivered or given up, once, and known if delivered | `fate`, `known`; `Owe`, `Learn`, `Deliver`, `GiveUp` |
| `AssignmentRequests` (extends `Assignments`) | the operator's event endpoints and read endpoints, the guide's routes | no state: an operator per endpoint that gives the answer (`EventAnswer`, `AcceptAnswer`, `DetailAnswer`, `IdentityAnswer`, `LocalAssignments`, ...), checks in the order of the code |
| `ProjectionRepair` (extends `Assignments`) | reconcile snapshots and repair | `repairs` is the repair inbox; `mislabeled`: rows whose labels differ from the package, `damaged`: assignments hit and not repaired since; `RepairLocalProjection` with its verdicts `Recreate`, `RepairMismatch`, `ReleaseStray`, `RepairConflict`, `NothingDone`; the faults `LoseRow`, `MoveRow`, `MislabelRow`, `DetachRow`, `StrayRow` |
| `LinkExchange` | link service, exchange service and their routes | `reqStatus`, `exStatus`, `exMember`, `evidence` are tables, `call` is what a request under way has read, `told` what was answered; `IssueToken`, `ConsumeToken`, `CreateProfileLink`, `Load`, `ReadClock`, `ExpireAwaiting`, `GuideTransition`, `ServiceTransition`, `AnswerStatus`, `AnswerEvidence`, ... |
| `OneTimeToken` | abstract specification of a link token: spent at most once, or withdrawn | `state`, `spent` |
| `PersonalCalendar` | add and edit dialogues of the bot, the entry routes, `tour_service.py`, availability told to operators | `rows`, `lastId` are the table; `dialog`, `prompts` are the dialogue and the buttons left in the chat; `answered` the idempotency store; an action per handler (`AddTourDetails`, `ConfirmConflictSave`, `ProcessEditDates`, `CreateTour`, `UpdateEntry`, `CopyEntry`, ...), `OperatorBooks`, `OperatorReleases`, `Restart`; `Availability` |
| `Reminders` (extends `PersonalCalendar`) | `reminder_service.py` | `marked` is a column, `telling`, `unsent` are the round in the stack frame, `heard` what reached the guide; `StartRound`, `Send`, `SendFails`, `MarkDay`, `MarkFails`, `SetNotificationTime`, `RestartAll` |
| `MCAssignments`, `MCOutboxDelivery`, `MCNotificationDelivery`, `MCShopEventWorker`, `MCProjectionRepair`, `MCLinkExchange`, `MCPersonalCalendar`, `MCReminders` | instances for TLC | - |
| `AssignmentsProofs`, `OperatorProofs`, `LeasesProofs`, `OutboxProofs`, `NotificationProofs`, `ShopEventProofs`, `LinkExchangeProofs`, `CalendarProofs` | theorems | see Proofs |

`Assignments` implements `Commitment` under the mapping at its end: the days
blocked are those of the protected row of `tours`, the days asked for those
of the open offer or of the pending critical version.

`OutboxDelivery` and `NotificationDelivery` implement `FactDelivery`: a row's
`outcome` is its fate, and a fact is known when the operator applied it, or
the guide was shown a message of it. The rows they deliver are those the
handlers of `Assignments` queue; what a handler does to a queued notice is
`Supersede`. That a notice never becomes current again, which
`NotificationDelivery` takes for granted, is checked and proved on the real
tables: `NoticesAge` in `Assignments`. That a current notice leads to a
request the handlers accept is `NoticesServed` in `AssignmentRequests`.

The link tokens of `LinkExchange` implement `OneTimeToken`: a request's status
is the token's state, and the grants are its spending.

`PersonalCalendar` and `Assignments` model the same table from two sides. The
first has one guide, every check of every edit, and an operator that books and
releases days it finds free; the second has the operators in full, and guides
who write whatever they like.

## Runs

| run | instance | question |
|---|---|---|
| `versions` | 1 guide, 1 assignment, 2 rows of `tours`, 2 overlapping spans, 2 roles (one untrimmed), 5 packages, 4 versions | are tables, calendar, outbox and snapshots consistent through all chains of versions, is every request answered as it should be? |
| `calendar` | 2 guides, 2 connections, 2 assignments, 2 rows, 2 one-day spans, 2 versions | do operators, moved versions and personal entries collide, is an offer stored only while its connection is confirmed, is the commitment implemented? |
| `ordinary_replay` | 1 assignment, 3 versions | expected violation: see Findings |
| `repair` | 1 assignment, 3 rows, 2 faults, 2 repair requests | do repairs restore the mirror, and nothing else? |
| `outbox` | 2 workers, 2 rows, 2 attempts, 1 crash, 1 overrun per row | are claims exclusive, outcomes final and true, does every fact settle? |
| `notification` | 2 workers, 1 notice, 3 attempts, 2 crashes, 2 overruns | can a guide see a stale notice, or one twice, does the notice settle? |
| `shop_events` | 2 workers, 1 guide, 3 events of one visit (two of one version, and an id told twice), pages of one, 2 attempts and 1 replay, 1 fault | is nothing skipped, do watermarks and attempts stay sound, when does a guide see an event twice, does every event settle and the feed get read? |
| `link` | 1 guide, 1 membership, 2 callers, 2 requests | do answers stay true however calls cross, is a token spent once, is every activation dated inside its window? |
| `link_exclusive` | the same with 2 guides | expected violation: see Findings |
| `personal_calendar` | 2 rows, 2 texts (one of two intervals, one inverted), 3 kinds of times, 2 details, 1 keyed request, 1 prompt, 1 fault | who can double-book, do entries stay whole, is "free" true? |
| `day_off` | 2 rows, no keyed request, no fault | expected violation: see Findings |
| `reminders` | 2 rows, 2 texts, 1 fault, 1 new reminder time | is a message repeated only in doubt, is what stands told? |

Bounds. `MaxVersion` bounds the version numbers: four allow an ordinary, a
confirmed critical, and an ordinary version on top of the offer, or a
rejected one and what would follow it; the chain's rules only relate
neighbouring versions and the last agreed one. Two assignments and two rows
are enough for a projection to collide with another and with a personal
entry, the two ways a conflict can arise; two connections can be of one guide
or of two. Spans that share a day and spans that do not are in separate runs
to keep each below three minutes. Names that nothing tells apart are symmetric,
never in a run with a liveness property. Deadlock is checked in `versions`,
`calendar`, `repair` and `shop_events`; the delivery modules may stop when
every row is settled, the link exchange and the personal calendar when their
bounds are used up.

Three rows let `repair` hold a protected row, its double and a personal entry
at once; two faults allow a second one after or on top of the first, two
requests a repair of what the first one repaired, on evidence read before it.

Two requests let one link token withdraw another, and an exchange meet an
older one of the same membership; two callers are what two crossing calls
need. Two rows of the personal calendar are one entry of two intervals, or
two entries; one prompt is enough for its button to be pressed after the
dialogue went on, one keyed request for its repetition. A copy that is sent
again after its source has changed needs three rows, which do not finish in
time: there `KeyedOnce` rests on its theorem.

Two workers are enough for a claim to overtake another; three attempts let an
overtaken worker return after the next but one, two crashes let a row lose
its worker twice. Two rows show that a retry of one does not hold up the
other (the claim takes the first due row); a notice interacts with others
only through that, so one is enough there.

Three shop events are the fewest with an event that is overtaken, one of the
same version, and one that is stale when it is claimed; the feed then tells the
first id once more, with another content. Two workers are enough for the
comparison in `advance` to fail and for a claim to be taken away. Batches and
pages of one make a worker go through its cycle again with events left over; a
crash between storing an event and moving the checkpoint has the page read
again. Every kind of fault is in the run, one in each behaviour; the safety
proofs hold for any number, and for pages of any length. Two workers leave room
for one guide only, so that no run shows that a guide whose feed is refused in
every cycle does not starve the others; the proofs are for any number of guides,
but of safety.

Fairness of the shop workers (`shop_events`). Weak fairness of
`WorkerStep` for each worker: `run` goes on after a failed cycle and is
restarted with the bot; the HTTP client and Telegram calls have timeouts. Weak
fairness of `TimePasses`: the clock goes on. None of the script: nobody has to
run it, and it can replay an event only `MAX_INBOX_ATTEMPTS` times in all.
Feed, Telegram and faults need not be kind, only faults are finitely many.

Fairness (`outbox`, `notification`). Weak fairness of each
step of a worker: `run_forever` polls again after every cycle, the
notification worker swallows exceptions and the outbox worker is a process of
its own that is started again, and a request ends by its socket timeout. Weak
fairness of `TimePasses`: the clock goes on. No fairness of handlers, of the
operator or of Telegram: they need never acknowledge anything. Crashes and
overruns are bounded, which is fairness too: a row whose every claim is lost
is claimed `MAX_DELIVERY_ATTEMPTS` times and then once more to record
"failed", so it settles only if some last claim survives.

Fairness (`reminders`). Weak fairness of `Loop`: the task is started with the
bot and swallows the exceptions of a round. Faults, edits and new reminder
times are bounded.

## Findings

* `apply_ordinary_assignment_version` says "Identical event delivery is safe."
  It answers a redelivery only while that version is the active one; after the
  next version the same event is refused with "Version inbox exists without the
  matching active version." The run `ordinary_replay` shows it: two versions
  applied, the first one's event delivered again. The critical intake does not
  have the problem, since it answers from the stored version row;
  `RequestsReplayed` checks that for every other kind of request.
* "The same membership must not bind to a different guide", says a test of the
  link provider. A confirmation does not look for another active exchange of
  its membership, only the profile link does: `link_exclusive` issues a token
  to one guide, binds the membership to another by profile link, and lets the
  first one's confirmation through.

* "Day off: always full-day; blocks entire date" and "Full-day vs anything on
  date: `time_conflict` 409", says `docs/mini_app/API_CONTRACT_v1.md` (371, 374).
  A change through the Mini App is checked as that of a tour with the times of
  the request, also when the entry is a day off (`web_api/routes/entries.py:173-177`,
  `web_api/dto.py:467`): `day_off` saves a day off, creates a tour in the morning
  of other days, and moves the day off onto these as if it were of an evening.
  `DoubleBookedOnlyByGuide` names such a change as its exception.

Two more have no run of their own. The properties next to them say what does
hold.

* "Same key + same body: Return original success response", says the same
  contract (169). The answer is stored after the effect, in a transaction of its
  own (`entries.py:81-91`). If that fails, the request sent again runs again: it
  is answered 409, having met the row it created itself, or, as a copy whose
  source has got other times since (`entries.py:282-319`), it creates a second
  row. `KeyedOnce` says no more than that a second row needs a fault, and never
  has the times of the first.
* `tests/test_date_parser.py` (30, 36) expects of a range that it starts before
  it ends. `date_parser.py:7` completes the year of each day by itself, so a
  range entered on its second day starts a year after it ends: no day shows the
  entry, an operator is told "free", and `_calendar_conflicts` refuses the
  acceptance. The tests' ranges fail on such days, 2 June and 8 and 9 March.
  `FreeIsOfferable` names such rows as its exception, and to the properties about
  double bookings they have no days.

## Observations

Behaviours met while modelling for which we looked for no document and claim no
defect; the models have them, and the properties are stated around them.

* The "save" button of an old conflict prompt saves what the dialogue holds by
  then, dates entered since and never checked among them
  (`handlers/add_tour.py:422`); the bot saves a day off without a conflict
  check (`add_tour.py:269-284`). New dates of an entry are stored before
  conflicts are looked up, and for one row of a group only
  (`handlers/tour_edits.py:305-345`).
* The Mini App cannot clear times or a note, and it gives every row of a group
  the same dates.
* An exchange may become active after its window: `confirm_for_guide` reads the
  clock (376) before it writes (`_guide_transition`, 398), and the window may end
  in between. The time it records is the earlier one, which is inside
  (`ActivationsDatedInTime`).
* "Partial" availability always ends in a refused acceptance, since acceptance
  does not look at times; merged entries of several intervals make the days
  between them "busy".
* An entry saved while a reminder round is under way is hidden by its mark.
* The detail of an accepted assignment lists its own days as conflicts
  (`find_assignment_conflicts` leaves out no row).
* Endpoints read the inbox before the handler does, so that of two concurrent
  deliveries both may answer "applied". Nothing is applied twice.
* Confirming a critical version stores its role trimmed, while the package
  keeps it as sent (`guide_operator_assignment_service.py:2112`). An ordinary
  version compares the package's role with both, so after an untrimmed role is
  confirmed no ordinary version is possible.
* An outbox event that waits for its retry is overtaken by later events of its
  assignment (`database/queries.py:2709`), and a replayed dead letter is told
  last (`guide_shop_event_inbox.py:471`). Both carry versions, by which the
  receiver can tell.

## Proofs

Every safety property of the passing runs, invariant, action property or
refinement, is also a theorem that TLAPS checks, for every value of the
constants that satisfies the named assumptions of the modules: the bounds of
the runs (versions, rows, workers, attempts, faults) are parameters there. The
runs came first, and show with their mutants that the properties can fail.

### Assignments and connections

Modules `AssignmentsProofs` and `OperatorProofs`. For every value of the
constants that satisfies `AssignmentsAssumption` (spans are not empty,
trimming is idempotent, packages are well formed, the null values are not rows
or ids), of `Spec`:

* `TypeCorrect`: `TypeOK`, conjunct by conjunct, from the actions alone.
* `CalendarMirrors`: `CalendarMirrorsAssignments`. It is inductive together
  with the types and with the fact that an accepted or offered assignment has
  a row: acceptance puts the protected row where the assignment says,
  confirmation moves both, cancellation deletes both, and a personal edit
  cannot reach a row whose owner is an assignment.
* `OnlyTheGuideOverlaps`: `OverlapsOnlyByGuide`. A row written on days that
  are free of all others overlaps none; the mirror gives the moved row of a
  confirmation its guide.
* `NoDoubleBooking`: `OperatorToursDisjoint`. The inductive step needs the
  mirror invariant: a confirmation excludes the row `projection[a]` from the
  conflict search, which is right only because that row is the assignment's
  own.
* `VersionsChained`: `VersionChain`, by the invariant `VersionInv`, which adds
  that versions are stored only once an assignment exists. Each assignment's
  chain (`VersionChainOf`) is kept by its own actions and untouched by those
  of others.
* `RejectionIsFinal`: the action property `RejectionFreezes`, from the same
  invariant: the rejected version is the one number `NextVersion` asks for.
* `NoticesOnlyAge`: `NoticesAge`, by `NoticeInv`: a queued notice names a
  connection or an assignment that is past its beginning, an ordinary one a
  version that is not beyond the active one, a critical one a version that is
  stored. So a version yet to be published can revive none.
* `ConnectionsAgree`: `ConnectionRecordsAgree`, and `ConsentFirst`:
  `OnlyOverConfirmedConnection`, by `ConsentInv`. The assignment service
  writes neither the connection tables nor a connection's fact, and a
  confirmation is never taken back: a disconnect changes the status only.
* `OffersNeedConsent`: the action property `OffersFollowConsent`, which that
  disconnect is for: what has been offered over a connection grows only while
  the connection's status is confirmed. Only `ReceiveOffer` makes it grow
  (`OnlyOffersOffer`).
* `AgreedTermsKept`: `AgreedTermsHold`, by `TermsInv`: some version up to the
  active one is the last agreed, the terms stored are its terms, and an
  ordinary version carries them on, envelope for envelope.
* `ServiceKeepsCommitment`: `CommitmentKept`, the refinement. `PromiseInv`
  joins the calendar's and the versions' invariants; a lemma per action shows
  the abstract step it maps to (`Accept` and `ConfirmCritical` to `Agree`,
  `Decline`, `CloseOffer` and `Cancel` to `End`, ...), and the others, the
  guide's edits among them, to a stutter.
* `RepliesAreReplays`: `RequestsReplayed`, by `InboxInv`: every event in the
  inbox has left its mark in the rows (`EventApplied`), and the mark stays,
  since a stored version is never written over (`StoredStays`), an assignment
  keeps its guide and a final status is final (`StatusStays`,
  `ConnectionStays`). It is this mark that the checks of a replay ask for. The
  one event whose mark does not stay is the superseded ordinary version, and it
  is the one the property leaves out (see Findings).
* `OperatorIsTold`: `OperatorSeesState`, by `ReportInv`: each fact in the
  outbox stands for a row and each such row for a fact (`VersionReported`,
  `AnswerReported`), and the mark on an unread version for a missing
  acknowledgement (`UnreadTold`). The snapshot's version and calendar follow
  with the version chain and the mirror.
* `NoticesAreServed`: `NoticesServed`. A request is applied when its list of
  checks passes (`PassedIsSuccess`, over `Verdict`); what a notice says while
  it is current, with the invariants above, passes each check but that of the
  calendar, and that one fails with its own error (`LastFails`,
  `CalendarFails`).

### Repair

The same service on damaged calendars, `RepairSpec`, in `AssignmentsProofs`;
any number of faults and repair requests:

* `MirrorsMended`: `MirroredUnlessDamaged`. It is not inductive by itself: a
  handler that runs on a damaged assignment must not reach the rows of another.
  `RowsTied` says what no damage undoes: a protected row lies on the calendar of
  its owner's guide, the owner is accepted or cancelled, and a pointer names a
  row of its own assignment or none. Then each step is about
  one assignment, and leaves the rows and columns of the others alone
  (`StepAbout`); what is left is one lemma per verdict of the repair.
* `RepairsAreNeeded`: the action property `NoNeedlessRepair`; each verdict
  reads the rows again, whatever the operator's evidence said.
* `RepairsOverlapNone`: `RepairsClearOfOthers`: the days a repair writes were
  looked up free in the same transaction, and the handlers overlap nothing on a
  damaged calendar either.
* `RepairTypes`: the types.

### Outbox and notifications

For every value of the constants that satisfies `LeasesAssumption` - any
number of workers, rows, attempts, crashes and overruns - TLAPS proves of
`Safe`:

* `OutboxLeasesExclude`: `LeaseExclusive`. The invariant is `LeaseInv`
  (module `LeasesProofs`): a job is of an attempt that was counted, two jobs
  of a row never have the same attempt, the worker of the last attempt finds
  its row still waiting, and a row whose lease never ran out is hidden while
  a worker is at it.
* `OutboxPostsBounded`: `PostsBounded`. The requests sent and the claims
  still to be sent have an attempt each: `PostsCounted` bounds their sum by
  the attempts counted and by `MaxAttempts`.
* `OutboxDeliversFacts` and `NoticesDeliverFacts`: `FactsSafe`, the safety
  half of the refinement. The fence together with `LeaseInv` shows that an
  outcome is written on a waiting row only.
* `NoStaleNotices`: `NoStaleNotice`. A worker past its check holds an attempt
  claimed in time (`SenderSound`), and who closes a notice closes it after
  all attempts made so far.
* `NoticesRepeatOnlyInDoubt`: `RepeatedOnlyInDoubt`, by `DoubtSound`: a
  message shown without doubt is of the last attempt, and the notice is
  settled or its worker is about to settle it, so no later claim can be made.
* `OutboxTypes`, `NoticeTypes`: the type invariants.

### Shop events

For every value of the constants that satisfies `InboxAssumption` and
`WorkerAssumption` - any number of workers, guides and faults, any feeds -
TLAPS proves every safety property of `ShopEventWorker`. All its steps are one
of seven changes of the inbox (`InboxStep`), so that what concerns the table
is proved once for each of these, whoever makes them:

* `ShopEventTypes`: `TypeOK`, with what a worker has in hand in each phase
  (`Base`).
* `WatermarksHold`, `OvertakenNotTried`, `QueueNeverBlocks`, `SettlesOnce`:
  `WatermarksSound`, `UntriedIsNewest`, `ClaimsNeverBlock`, `SettledOnce`. The
  invariant `InboxInv` says of each row how attempts and limit relate in its
  state, of each watermark that it is a row that is not stale, and of each row
  that its aggregate's watermark is no older. `ClaimsInv` is what claims owe
  to the fence: a claim was counted, no two are the same attempt at an event,
  and one still held has the row's limit. Without it `mark_failed`, which
  decides by the limit read when the claim was made, could put a row with no
  attempt left back in the queue.
* `NothingIsSkipped`, `CheckpointsAdvance`: `NothingSkipped`,
  `CheckpointsOnlyAdvance`. `TakenInv` adds that of the page being ingested,
  and all before it, what was passed is in the inbox: a page starts where a
  checkpoint was, content is never changed, and checkpoints never go back.
* `NotRepeated`: `RepeatedOnlyInDoubt`, by `DoubtInv`: as long as no attempt at
  an event is in doubt, its claim is held and within the lease, there is only
  one (`SoleClaim`), and a message shown is recorded, or about to be.

### Link exchange

Module `LinkExchangeProofs`, of `LinkSpec`, for any number of guides,
memberships, requests and calls under way. The invariant `LinkInv` says of each
exchange which few histories it can have (`Story`), and of what a call has
read, or was told, that it is true for good (`StillTrue`). Calls read without a
lock and answer later, so the proof is about rows that only advance: every step
moves a row along `Advance`, which keeps each thing that is still true
(`TruthStays`).

* `EvidenceAlwaysTells`, `AnswersAlwaysHold`, `AlwaysDatedInTime`:
  `EvidenceTellsHistory`, `AnswersHold`, `ActivationsDatedInTime`; the last is
  about the time recorded, not about when the row was written.
* `LinkTokensOneTime`: `TokensOneTime`, the refinement of `OneTimeToken`, step
  by step: consuming a token spends it, a new request withdraws the older ones
  of its guide, everything else stutters.

### Personal calendar and reminders

Module `CalendarProofs`, for any rows, texts, times and requests. `CalendarInv`
says that the rows of a group agree in kind, times and details, and that no row
or group bears a number still to be given out. An
entry is made of the rows of its group; that its least and greatest day exist
is by well-foundedness and finiteness (`LeastValue`, `GreatestValue`). `Noticed`
is the core: what the checks on entries see of a row is what there is.

* `GroupsStayUniform`: `GroupsUniform`; every write reaches all rows of a group
  or is of dates only.
* `FreeStaysOfferable`: `FreeIsOfferable`, inverted ranges aside.
* `DoubleBookingIsTheGuides`: the action property `DoubleBookedOnlyByGuide`. A
  permitted write is clear of all rows (`PermittedIsClear`); `StepsThatWrite`
  finds the few kinds of steps that write at all, and what each had checked.
  A day off changed by the Mini App is the exception (see Findings).
* `RetriesMeetTheFirst`: `KeyedOnce`. By `KeyedInv`, a row's key has a stored
  answer unless there was a fault, so without one the request does not run
  again; if it does, a row with the times it asks for is a conflict it meets.
* `NoReminderTwice`: `RemindedAgainOnlyInDoubt`, by `HeardInv`: a row that is
  still to be sent has been heard of only in rounds that left a doubt.

### Only model-checked

The liveness properties `FactsSettled`, `EventsSettle`, `FeedsRead` and
`DueReminded`, and the three expected violations. Liveness and `ENABLED`,
induction over data and recursive operators are beyond the provers; the
modules use no recursion, and no liveness is claimed of the connection and
assignment services: they act only when called. The bound on requests sent
(`PostsBounded`) and some of the type invariants are proved and not checked
again by a run.

## Not modelled

* Rendering, formatting and keyboards, the Mini App's front end, the GuideShop
  client and screens: no shared state whose interleavings a model would
  explore. A GuideShop navigation token is created and spent by one statement
  each.
* Places, sales, income, reports: rows of one guide, written one at a time, and
  sums over them. A commission passes an idempotency store like that of the
  entries (`web_api/routes/personal_commissions.py:87`), whose answer is stored
  after the effect; where a repeated entry meets a first row with its times as
  a conflict (`KeyedOnce`), a repeated commission would be recorded a second time.
* Service authentication: signature and claim checks, and one insert that
  claims the token's id, before each handler; nothing later reads it. Sessions
  and HTTP parsing likewise.
* Daily tips and the admin's broadcast: loops of sends that keep no state.
* GuideShop event observability: read-only counts; what it counts about
  watermarks is the invariant `WatermarksSound`.
* Settings and process start-up; schema migrations, which run once before any
  handler.
