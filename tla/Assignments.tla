---------------------------- MODULE Assignments ----------------------------
(***************************************************************************)
(* Operator assignments and the guide's calendar                           *)
(* (services/guide_operator_assignment_service.py, with the rows of tours  *)
(* that services/tour_service.py keeps).  An operator offers an assignment *)
(* over a confirmed connection; the guide accepts, which puts a protected  *)
(* tour on the calendar, or declines; the operator publishes versions of   *)
(* the working package, ordinary ones applied at once and critical ones    *)
(* only when the guide confirms; the operator may cancel.  Meanwhile the   *)
(* guide edits personal entries of the same calendar.                      *)
(*                                                                         *)
(* One action per handler, guarded by what its BEGIN IMMEDIATE transaction *)
(* re-reads.  The checks a handler makes before the transaction are made   *)
(* again in it, so they only refuse earlier.  Refusals and replays change  *)
(* nothing and are not steps; an operator event may be delivered at any    *)
(* time, any number of times and in any order.                             *)
(***************************************************************************)
EXTENDS Connections

CONSTANTS AssignmentId,  \* assignment ids the operator may use
          TourId,        \* names for the live rows of tours
          Span,          \* date ranges, each the set of its days
          Role,          \* role texts as the operator writes them
          Trimmed,       \* str.strip() on roles
          Package,       \* working packages
          NoRow,         \* what a query for a missing row returns
          MaxVersion     \* bound on version numbers, for TLC

VARIABLES status,           \* guide_operator_assignments.status
          guide,            \* .guide_os_id
          via,              \* .guide_connection_id
          row,              \* .start_date, .end_date and .role
          active,           \* .active_version_number
          pending,          \* .pending_critical_version_number, 0 for NULL
          unread,           \* .active_version_unread
          projection,       \* .projection_tour_id, NoTour for NULL
          versions,         \* guide_operator_assignment_versions
          decision,         \* guide_operator_assignment_decisions
          criticalDecision, \* guide_operator_critical_version_decisions
          acked,            \* guide_operator_version_acknowledgements
          tours             \* tours: the calendars of all guides

columns == <<status, guide, via, row, active, pending, unread, projection>>
records == <<versions, decision, criticalDecision, acked>>
vars == <<connVars, tableVars, columns, records, tours>>

NoTour == "no tour"
NoConnection == "no connection"
Personal == "personal"

Version == 1..MaxVersion
Status == {"none", "offered", "accepted", "declined", "withdrawn", "expired", "cancelled"}

(* Mutant: the role is stored as it came. *)
OccupancyUntrimmed(s, r) == [span |-> s, role |-> r]

(* Dates and role as the assignment's own columns hold them. *)
Occupancy(s, r) == [span |-> s, role |-> Trimmed[r]]
RowValues == [span : Span, role : {Trimmed[r] : r \in Role}]
Occupancies == {Occupancy(s, r) : s \in Span, r \in Role}

(* A row of tours: whose calendar, which days, and the assignment whose    *)
(* protected projection it is (source, note and tour_group_id), if any.    *)
Tour(g, s, owner) == [guide |-> g, span |-> s, owner |-> owner]
Tours == [guide : Guide, span : Span, owner : AssignmentId \cup {Personal}]

VersionRow(severity, p) == [severity |-> severity, package |-> p]
VersionRows == [severity : {"initial", "ordinary", "critical"}, package : Package]

(* A working package is what the code distinguishes of it: the dates and   *)
(* the role of its "assignment" object, the envelope (its set of days and  *)
(* the earliest start and latest end of each), and the rest.               *)
ASSUME AssignmentsAssumption ==
  /\ \A s \in Span : s # {}
  /\ Trimmed \in [Role -> Role]
  /\ \A r \in Role : Trimmed[Trimmed[r]] = Trimmed[r]
  /\ \A p \in Package : p.span \in Span /\ p.role \in Role
  /\ MaxVersion \in Nat \ {0}
  /\ NoRow \notin Tours \cup VersionRows \cup RowValues
  /\ NoTour \notin TourId
  /\ NoGuide \notin Guide
  /\ Personal \notin AssignmentId

(* assignment.offered.v1, assignment.cancelled.v1, assignment.withdrawn.v1 *)
(* and .expired.v1, assignment.version.published.v1                        *)
Offered(a, g, c, o, p) ==
  [kind |-> "offered", about |-> a, guide |-> g, via |-> c, row |-> o, package |-> p]
Cancelled(a, g, v) == [kind |-> "cancelled", about |-> a, guide |-> g, version |-> v]
Closed(a, g, s) == [kind |-> "closed", about |-> a, guide |-> g, status |-> s]
Published(a, g, v, severity, p) ==
  [kind |-> "published", about |-> a, guide |-> g, version |-> v,
   severity |-> severity, package |-> p]

----------------------------------------------------------------------------

Init ==
  /\ ConnInit
  /\ TablesInit
  /\ status = [a \in AssignmentId |-> "none"]
  /\ guide = [a \in AssignmentId |-> NoGuide]
  /\ via = [a \in AssignmentId |-> NoConnection]
  /\ row = [a \in AssignmentId |-> NoRow]
  /\ active = [a \in AssignmentId |-> 0]
  /\ pending = [a \in AssignmentId |-> 0]
  /\ unread = [a \in AssignmentId |-> FALSE]
  /\ projection = [a \in AssignmentId |-> NoTour]
  /\ versions = [a \in AssignmentId |-> [v \in Version |-> NoRow]]
  /\ decision = [a \in AssignmentId |-> None]
  /\ criticalDecision = [a \in AssignmentId |-> [v \in Version |-> None]]
  /\ acked = [a \in AssignmentId |-> {}]
  /\ tours = [t \in TourId |-> NoRow]

(* An operator event is recorded, and owes the operator a fact or the      *)
(* guide a notice.                                                         *)
Apply(e) == inbox' = inbox \cup {e}
Report(f) == outbox' = outbox \cup {f}
Notify(n) == notices' = notices \cup {n}

(* Mutant: protected tours are not taken for commitments. *)
CalendarFreeOfEntries(g, s, X) ==
  \A t \in TourId \ X :
    tours[t] # NoRow /\ tours[t].guide = g /\ tours[t].owner = Personal
      => tours[t].span \cap s = {}

(* No tour of guide g, those in X aside, has a day in s.  Statuses, times  *)
(* and entry types do not matter to _calendar_conflicts.                   *)
CalendarFree(g, s, X) ==
  \A t \in TourId \ X :
    tours[t] # NoRow /\ tours[t].guide = g => tours[t].span \cap s = {}

(* Mutant: the status of the connection is not read again. *)
ConnectionKnown(c, g) == connGuide[c] = g

(* The connection of an offer, as the transaction re-reads it. *)
ConnectionConfirmed(c, g) ==
  /\ connGuide[c] = g
  /\ connStatus[c] = "confirmed"

(* The operator offers an assignment with its version 1.  The dates and    *)
(* role of the offer and those inside its package are not compared.        *)
ReceiveOffer(a, g, c, o, p) ==
  /\ status[a] = "none"
  /\ ConnectionConfirmed(c, g)
  /\ status' = [status EXCEPT ![a] = "offered"]
  /\ guide' = [guide EXCEPT ![a] = g]
  /\ via' = [via EXCEPT ![a] = c]
  /\ row' = [row EXCEPT ![a] = o]
  /\ active' = [active EXCEPT ![a] = 1]
  /\ versions' = [versions EXCEPT ![a][1] = VersionRow("initial", p)]
  /\ Apply(Offered(a, g, c, o, p))
  /\ Notify(Notice("assignment_offer", a, 1))
  /\ UNCHANGED <<connVars, outbox, pending, unread, projection,
                 decision, criticalDecision, acked, tours>>

(* Mutant: an offer the operator closed can still be answered. *)
OfferKnown(a, g) ==
  /\ guide[a] = g
  /\ status[a] # "none"

(* The offer of a to g still waits for an answer. *)
OfferOpen(a, g) ==
  /\ guide[a] = g
  /\ status[a] = "offered"

(* The guide accepts: the calendar must be free on the assignment's days,  *)
(* and the protected tour is inserted with the decision.  The connection   *)
(* and the response deadline are not looked at again.                      *)
Accept(a, g) ==
  /\ OfferOpen(a, g)
  /\ decision[a] = None
  /\ CalendarFree(g, row[a].span, {})
  /\ \E t \in TourId :
       /\ tours[t] = NoRow
       /\ tours' = [tours EXCEPT ![t] = Tour(g, row[a].span, a)]
       /\ projection' = [projection EXCEPT ![a] = t]
  /\ status' = [status EXCEPT ![a] = "accepted"]
  /\ decision' = [decision EXCEPT ![a] = "accept"]
  /\ Report(Fact("assignment.decision.v1", a, 1, "accept"))
  /\ UNCHANGED <<connVars, inbox, notices, guide, via, row, active, pending, unread,
                 versions, criticalDecision, acked>>

Decline(a, g) ==
  /\ OfferOpen(a, g)
  /\ decision[a] = None
  /\ status' = [status EXCEPT ![a] = "declined"]
  /\ decision' = [decision EXCEPT ![a] = "decline"]
  /\ Report(Fact("assignment.decision.v1", a, 1, "decline"))
  /\ UNCHANGED <<connVars, inbox, notices, guide, via, row, active, pending, unread,
                 projection, versions, criticalDecision, acked, tours>>

(* The operator withdraws or expires an offer nobody decided.  Neither the *)
(* operator nor the guide is told anything.                                *)
CloseOffer(a, g, s) ==
  /\ OfferOpen(a, g)
  /\ projection[a] = NoTour
  /\ status' = [status EXCEPT ![a] = s]
  /\ Apply(Closed(a, g, s))
  /\ UNCHANGED <<connVars, outbox, notices, guide, via, row, active, pending, unread,
                 projection, records, tours>>

(* Mutant: the protected tour is forgotten, not deleted. *)
ReleaseNothing(a) == UNCHANGED tours

(* Exactly one protected tour is deleted, if the assignment has one. *)
ReleaseProjection(a) ==
  \/ projection[a] = NoTour /\ UNCHANGED tours
  \/ /\ projection[a] # NoTour
     /\ tours[projection[a]] # NoRow
     /\ tours[projection[a]].owner # Personal
     /\ tours' = [tours EXCEPT ![projection[a]] = NoRow]

(* The operator cancels the version it believes active: the pending        *)
(* critical version lapses and the protected tour leaves the calendar.     *)
Cancel(a, g, v) ==
  /\ guide[a] = g
  /\ active[a] = v
  /\ status[a] = "accepted"
  /\ ReleaseProjection(a)
  /\ status' = [status EXCEPT ![a] = "cancelled"]
  /\ projection' = [projection EXCEPT ![a] = NoTour]
  /\ pending' = [pending EXCEPT ![a] = 0]
  /\ Apply(Cancelled(a, g, v))
  /\ Report(Fact("assignment.cancellation.ack.v1", a, v, None))
  /\ Notify(Notice("assignment_cancellation", a, v))
  /\ UNCHANGED <<connVars, guide, via, row, active, unread, records>>

(* Mutant: the order is checked, a stored version is written over. *)
FollowsActive(a, v) ==
  /\ v = active[a] + 1
  /\ versions[a][active[a]] # NoRow

(* v is the next version of a and none is stored under its number. *)
NextVersion(a, v) ==
  /\ v = active[a] + 1
  /\ versions[a][v] = NoRow
  /\ versions[a][active[a]] # NoRow

(* Mutant: the envelopes of the days are not compared. *)
DatesAndRoleKept(o, previous, next) ==
  /\ next.role = o.role /\ next.role = previous.role
  /\ next.span = o.span /\ next.span = previous.span

(* Nothing the guide committed to may differ in an ordinary version: dates *)
(* and role of the row and of the active package, days, envelopes.         *)
OccupancyKept(o, previous, next) ==
  /\ next.role = o.role /\ next.role = previous.role
  /\ next.span = o.span /\ next.span = previous.span
  /\ next.envelope = previous.envelope

(* The operator publishes an ordinary version: active at once, unread, and *)
(* only the labels of the protected tour are rewritten.                    *)
ApplyOrdinaryVersion(a, g, v, p) ==
  /\ guide[a] = g
  /\ status[a] = "accepted"
  /\ NextVersion(a, v)
  /\ OccupancyKept(row[a], versions[a][active[a]].package, p)
  /\ projection[a] # NoTour
  /\ tours[projection[a]] # NoRow
  /\ tours[projection[a]].owner # Personal
  /\ tours[projection[a]].span = row[a].span
  /\ versions' = [versions EXCEPT ![a][v] = VersionRow("ordinary", p)]
  /\ active' = [active EXCEPT ![a] = v]
  /\ unread' = [unread EXCEPT ![a] = TRUE]
  /\ Apply(Published(a, g, v, "ordinary", p))
  /\ Report(Fact("assignment.version.applied.ack.v1", a, v, None))
  /\ Notify(Notice("ordinary_version_change", a, v))
  /\ UNCHANGED <<connVars, status, guide, via, row, pending, projection,
                 decision, criticalDecision, acked, tours>>

(* The operator publishes a critical version: stored and pending, nothing  *)
(* applied.                                                                *)
IntakeCriticalVersion(a, g, v, p) ==
  /\ guide[a] = g
  /\ status[a] = "accepted"
  /\ pending[a] = 0
  /\ NextVersion(a, v)
  /\ p # versions[a][active[a]].package
  /\ versions' = [versions EXCEPT ![a][v] = VersionRow("critical", p)]
  /\ pending' = [pending EXCEPT ![a] = v]
  /\ Apply(Published(a, g, v, "critical", p))
  /\ Report(Fact("assignment.version.received.ack.v1", a, v, None))
  /\ Notify(Notice("critical_confirmation_required", a, v))
  /\ UNCHANGED <<connVars, status, guide, via, row, active, unread, projection,
                 decision, criticalDecision, acked, tours>>

(* What the guide's answer to the pending critical version needs. *)
CriticalDecidable(a, g, v) ==
  /\ guide[a] = g
  /\ status[a] = "accepted"
  /\ criticalDecision[a][v] = None
  /\ pending[a] = v
  /\ versions[a][v] # NoRow
  /\ versions[a][v].severity = "critical"
  /\ projection[a] # NoTour

(* The guide confirms: the proposed days must be free of every other tour, *)
(* and version, row and protected tour move together.                      *)
ConfirmCritical(a, g, v) ==
  LET p == versions[a][v].package
      t == projection[a]
  IN /\ CriticalDecidable(a, g, v)
     /\ CalendarFree(g, p.span, {t})
     /\ tours[t] # NoRow
     /\ tours[t].owner = a
     /\ tours' = [tours EXCEPT ![t].span = p.span]
     /\ row' = [row EXCEPT ![a] = Occupancy(p.span, p.role)]
     /\ active' = [active EXCEPT ![a] = v]
     /\ pending' = [pending EXCEPT ![a] = 0]
     /\ unread' = [unread EXCEPT ![a] = FALSE]
     /\ criticalDecision' = [criticalDecision EXCEPT ![a][v] = "confirm_critical"]
     /\ Report(Fact("assignment.critical_version.decided.v1", a, v, "confirm_critical"))
     /\ UNCHANGED <<connVars, inbox, notices, status, guide, via, projection,
                    versions, decision, acked>>

(* The guide rejects: the proposal is dropped, its version row stays. *)
RejectCritical(a, g, v) ==
  /\ CriticalDecidable(a, g, v)
  /\ pending' = [pending EXCEPT ![a] = 0]
  /\ criticalDecision' = [criticalDecision EXCEPT ![a][v] = "reject_critical"]
  /\ Report(Fact("assignment.critical_version.decided.v1", a, v, "reject_critical"))
  /\ UNCHANGED <<connVars, inbox, notices, status, guide, via, row, active, unread,
                 projection, versions, decision, acked, tours>>

(* Mutant: an acknowledgement of an older version counts for the active one. *)
SomeVersionUnread(a, g, v) ==
  /\ guide[a] = g
  /\ v \notin acked[a]
  /\ status[a] = "accepted"
  /\ unread[a]
  /\ versions[a][v] # NoRow
  /\ versions[a][v].severity = "ordinary"

VersionUnread(a, g, v) ==
  /\ guide[a] = g
  /\ v \notin acked[a]
  /\ status[a] = "accepted"
  /\ active[a] = v
  /\ unread[a]
  /\ versions[a][v] # NoRow
  /\ versions[a][v].severity = "ordinary"

(* The guide has read the active ordinary version. *)
AcknowledgeVersion(a, g, v) ==
  /\ VersionUnread(a, g, v)
  /\ acked' = [acked EXCEPT ![a] = @ \cup {v}]
  /\ unread' = [unread EXCEPT ![a] = FALSE]
  /\ Report(Fact("assignment.version.acknowledged.v1", a, v, None))
  /\ UNCHANGED <<connVars, inbox, notices, status, guide, via, row, active, pending,
                 projection, versions, decision, criticalDecision, tours>>

----------------------------------------------------------------------------
(* The guide's own entries.  The bot saves over a conflict the guide was   *)
(* warned of, and edits dates before it warns, so no guard on overlaps.    *)

GuideSavesEntry(g, s) ==
  /\ \E t \in TourId :
       /\ tours[t] = NoRow
       /\ tours' = [tours EXCEPT ![t] = Tour(g, s, Personal)]
  /\ UNCHANGED <<connVars, tableVars, columns, records>>

(* The rows one call of the guide reaches: one personal row, or the rows   *)
(* of one tour_group_id.  Protected tours are refused by                   *)
(* is_operator_managed_tour and by the triggers on tours.                  *)
PersonalRows(g, S) ==
  \A t \in S : tours[t] # NoRow /\ tours[t].guide = g /\ tours[t].owner = Personal

GuideMovesEntries(g, S, s) ==
  /\ PersonalRows(g, S)
  /\ tours' = [t \in TourId |-> IF t \in S THEN Tour(g, s, Personal) ELSE tours[t]]
  /\ UNCHANGED <<connVars, tableVars, columns, records>>

GuideDeletesEntries(g, S) ==
  /\ PersonalRows(g, S)
  /\ tours' = [t \in TourId |-> IF t \in S THEN NoRow ELSE tours[t]]
  /\ UNCHANGED <<connVars, tableVars, columns, records>>

GuideEdits ==
  \E g \in Guide :
    \/ \E s \in Span : GuideSavesEntry(g, s)
    \/ \E S \in SUBSET TourId \ {{}} :
         \/ \E s \in Span : GuideMovesEntries(g, S, s)
         \/ GuideDeletesEntries(g, S)

(* What the guide answers and what the operator's events do. *)
GuideAnswers ==
  \E a \in AssignmentId, g \in Guide :
    \/ Accept(a, g)
    \/ Decline(a, g)
    \/ \E v \in Version : \/ ConfirmCritical(a, g, v)
                          \/ RejectCritical(a, g, v)
                          \/ AcknowledgeVersion(a, g, v)

OperatorEvents ==
  \E a \in AssignmentId, g \in Guide :
    \/ \E c \in ConnectionId, o \in Occupancies, p \in Package : ReceiveOffer(a, g, c, o, p)
    \/ \E s \in {"withdrawn", "expired"} : CloseOffer(a, g, s)
    \/ \E v \in Version :
         \/ Cancel(a, g, v)
         \/ \E p \in Package : \/ ApplyOrdinaryVersion(a, g, v, p)
                               \/ IntakeCriticalVersion(a, g, v, p)

ConnectionSteps == ConnNext /\ UNCHANGED <<columns, records, tours>>

Next == ConnectionSteps \/ OperatorEvents \/ GuideAnswers \/ GuideEdits

Spec == Init /\ [][Next]_vars

----------------------------------------------------------------------------
(* Properties *)

AssignmentTypeOK ==
  /\ status \in [AssignmentId -> Status]
  /\ guide \in [AssignmentId -> Guide \cup {NoGuide}]
  /\ via \in [AssignmentId -> ConnectionId \cup {NoConnection}]
  /\ row \in [AssignmentId -> RowValues \cup {NoRow}]
  /\ active \in [AssignmentId -> 0..MaxVersion]
  /\ pending \in [AssignmentId -> 0..MaxVersion]
  /\ unread \in [AssignmentId -> BOOLEAN]
  /\ projection \in [AssignmentId -> TourId \cup {NoTour}]
  /\ versions \in [AssignmentId -> [Version -> VersionRows \cup {NoRow}]]
  /\ decision \in [AssignmentId -> {None, "accept", "decline"}]
  /\ criticalDecision \in
       [AssignmentId -> [Version -> {None, "confirm_critical", "reject_critical"}]]
  /\ acked \in [AssignmentId -> SUBSET Version]
  /\ tours \in [TourId -> Tours \cup {NoRow}]

(* Every column has a value of its type, in the assignment tables and in   *)
(* those of the connections; in particular the stored role is trimmed.     *)
TypeOK == ConnTypeOK /\ AssignmentTypeOK

(* An assignment is accepted exactly while it has its protected tour on    *)
(* the calendar of its guide, on the assignment's own days; no other row   *)
(* is protected.  Three handlers and the guide's edits touch the two       *)
(* tables (_decide_assignment, apply_assignment_cancellation,              *)
(* decide_critical_assignment_version, tour_service).                      *)
CalendarMirrorsAssignments ==
  /\ \A a \in AssignmentId : status[a] = "accepted" <=> projection[a] # NoTour
  /\ \A a \in AssignmentId :
       projection[a] # NoTour => tours[projection[a]] = Tour(guide[a], row[a].span, a)
  /\ \A t \in TourId :
       tours[t] # NoRow /\ tours[t].owner # Personal => projection[tours[t].owner] = t

(* Two assignments a guide accepted never claim the same day, whatever     *)
(* versions were confirmed since and whatever the guide wrote over them    *)
(* (_calendar_conflicts in both decision handlers).                        *)
OperatorToursDisjoint ==
  \A t, u \in TourId :
    /\ t # u
    /\ tours[t] # NoRow /\ tours[t].owner # Personal
    /\ tours[u] # NoRow /\ tours[u].owner # Personal
    /\ tours[t].guide = tours[u].guide
    => tours[t].span \cap tours[u].span = {}

(* The stored versions are the active one, all those before it, and at     *)
(* most one beyond it, which is critical.  Every critical version up to    *)
(* the active one was confirmed; the one beyond it was not, and is pending *)
(* as long as it is undecided and the assignment accepted.                 *)
VersionChainOf(a) ==
  \A v \in Version :
    LET stored == versions[a][v] # NoRow
        critical == stored /\ versions[a][v].severity = "critical"
    IN /\ v <= active[a] =>
            /\ stored
            /\ critical => criticalDecision[a][v] = "confirm_critical"
       /\ v > active[a] /\ stored =>
            /\ v = active[a] + 1
            /\ critical
            /\ criticalDecision[a][v] # "confirm_critical"
       /\ pending[a] = v <=>
            critical /\ criticalDecision[a][v] = None /\ status[a] = "accepted"

(* So it is for every assignment, in whatever order events and answers     *)
(* came (the checks of the two intakes and of the critical decision).      *)
VersionChain == \A a \in AssignmentId : VersionChainOf(a)

(* The version whose terms the guide last agreed to. *)
ConfirmedVersions(a) == {v \in Version : criticalDecision[a][v] = "confirm_critical"}
LastAgreed(a) ==
  CHOOSE v \in {1} \cup ConfirmedVersions(a) : \A u \in ConfirmedVersions(a) : u <= v

(* However many ordinary versions followed, the assignment's dates, role   *)
(* and day envelopes are those of the version the guide last agreed to:    *)
(* the offer's own, or those of the last critical version confirmed        *)
(* (_ordinary_occupancy_violations against decide_critical_...).           *)
AgreedTermsHold ==
  \A a \in AssignmentId :
    status[a] # "none" =>
      LET agreed == versions[a][LastAgreed(a)].package
          current == versions[a][active[a]].package
      IN /\ current.envelope = agreed.envelope
         /\ IF LastAgreed(a) = 1
            THEN \E p \in Package : Offered(a, guide[a], via[a], row[a], p) \in inbox
            ELSE row[a] = Occupancy(agreed.span, agreed.role)
         /\ active[a] > 1 => row[a] = Occupancy(current.span, current.role)

(* Every assignment came over a connection its guide confirmed.            *)
OnlyOverConfirmedConnection ==
  \A a \in AssignmentId :
    status[a] # "none" =>
      /\ connGuide[via[a]] = guide[a]
      /\ connDecision[via[a]] = "confirm"

(* The assignments that came over a connection, each with its guide. *)
OfferedOver(c) == {<<a, guide[a]>> : a \in {b \in AssignmentId : status[b] # "none" /\ via[b] = c}}

(* What has been offered over a connection grows only while the connection *)
(* is confirmed, with offers to the guide who confirmed it, and never      *)
(* shrinks: a disconnect that crosses an offer shuts it out, for good      *)
(* (receive_assignment_offer reads the connection again in its             *)
(* transaction).                                                           *)
OffersFollowConsent ==
  [][\A c \in ConnectionId :
       OfferedOver(c)' # OfferedOver(c) =>
         /\ connStatus[c] = "confirmed"
         /\ OfferedOver(c) \subseteq OfferedOver(c)'
         /\ \A offer \in OfferedOver(c)' : offer[2] = connGuide[c]]_vars

Overlap(x, y) ==
  /\ x # NoRow /\ y # NoRow
  /\ x.guide = y.guide
  /\ x.span \cap y.span # {}

(* Two rows of one calendar come to overlap only in a step in which the    *)
(* guide writes a personal one: no acceptance and no confirmed version     *)
(* does it, however entries moved between the offer and the answer.        *)
OverlapsOnlyByGuide ==
  [][\A t, u \in TourId :
       t # u /\ Overlap(tours'[t], tours'[u]) /\ ~ Overlap(tours[t], tours[u]) =>
         \E x \in {t, u} : tours'[x].owner = Personal /\ tours'[x] # tours[x]]_vars

(* What notice n says still holds (database/queries.py,                     *)
(* is_guide_operator_guide_notification_current); the sender asks this     *)
(* before it sends.                                                        *)
NoticeCurrent(n) ==
  \/ /\ n.type = "connection_invitation"
     /\ connStatus[n.about] = "invited" /\ ~lapsed[n.about]
  \/ /\ n.type = "connection_disconnection"
     /\ connStatus[n.about] = "disconnected"
  \/ /\ n.type = "assignment_offer"
     /\ status[n.about] = "offered" /\ active[n.about] = n.version
  \/ /\ n.type = "ordinary_version_change"
     /\ status[n.about] = "accepted" /\ active[n.about] = n.version /\ unread[n.about]
  \/ /\ n.type = "critical_confirmation_required"
     /\ status[n.about] = "accepted" /\ pending[n.about] = n.version
  \/ /\ n.type = "assignment_cancellation"
     /\ status[n.about] = "cancelled" /\ active[n.about] = n.version

(* A notice is queued in the step that makes it true, and once it is       *)
(* superseded it stays so: a sender that finds it superseded may give it   *)
(* up for good.  (An invitation that arrives expired lapses in the step    *)
(* after.)                                                                 *)
NoticesAge ==
  [][/\ \A n \in notices' \ notices : NoticeCurrent(n)'
     /\ \A n \in notices : NoticeCurrent(n)' => NoticeCurrent(n)]_vars

(* A step leaves an assignment with a rejected critical version alone.     *)
FrozenOnceRejected ==
  \A a \in AssignmentId :
    (\E v \in Version : criticalDecision[a][v] = "reject_critical") =>
      /\ versions'[a] = versions[a]
      /\ active'[a] = active[a] /\ pending'[a] = pending[a]
      /\ row'[a] = row[a]

(* Once the guide has rejected a critical version, its number stays taken  *)
(* and no later number is the next one: the assignment's version, terms    *)
(* and calendar days never change again until it is cancelled.             *)
RejectionFreezes == [][FrozenOnceRejected]_vars

----------------------------------------------------------------------------
(* What the guide is promised (module Commitment), read off the tables:    *)
(* the days an operator blocks are those of the protected tour, the days   *)
(* it asks for are those of the open offer or of the pending version.      *)
Phase ==
  [a \in AssignmentId |->
     CASE status[a] = "none" -> "none"
       [] status[a] = "offered" -> "asked"
       [] status[a] = "accepted" -> "committed"
       [] OTHER -> "over"]

Blocked ==
  [a \in AssignmentId |->
     IF projection[a] = NoTour THEN {} ELSE tours[projection[a]].span]

Asked ==
  [a \in AssignmentId |->
     CASE status[a] = "offered" -> row[a].span
       [] status[a] = "accepted" /\ pending[a] # 0 ->
            versions[a][pending[a]].package.span
       [] OTHER -> {}]

Promise == INSTANCE Commitment WITH phase <- Phase, holder <- guide,
                                    blocked <- Blocked, asked <- Asked

(* The assignment service implements the commitment: an operator's days    *)
(* enter, move on or leave a guide's calendar only as Commitment allows.   *)
CommitmentKept == Promise!Spec

============================================================================
