------------------------- MODULE AssignmentRequests -------------------------
(***************************************************************************)
(* What the two HTTP surfaces over the connection and assignment services  *)
(* answer: the operator's event endpoints (web_api/                        *)
(* guide_operator_integration.py) and the guide's Mini App routes          *)
(* (web_api/routes/guide_operator_assignments.py and _connections.py).     *)
(*                                                                         *)
(* An answer is a function of the stored rows: a request whose effect is   *)
(* already stored is replayed, any other passes the checks of its handler, *)
(* in the order the code makes them, and is "applied" or refused with the  *)
(* error of the first check that fails.  Applying is what module           *)
(* Assignments has actions for; refusing and replaying change nothing.     *)
(*                                                                         *)
(* Not told apart: requests that are malformed or not authenticated, an    *)
(* event id used again with another payload, and the decision event id,    *)
(* which a guide's client makes anew for each press of a button.           *)
(***************************************************************************)
EXTENDS Assignments, FiniteSetsExt, Sequences

Check(holds, error) == [holds |-> holds, error |-> error]

(* The error of the first check that fails, or the success. *)
Verdict(checks, success) ==
  LET failed == {i \in DOMAIN checks : ~checks[i].holds}
  IN IF failed = {} THEN success ELSE checks[Min(failed)].error

Stored(a, v) == v \in Version /\ versions[a][v] # NoRow

----------------------------------------------------------------------------
(* Connections *)

InvitationAnswer(e) ==
  IF e \in inbox
  THEN Verdict(<<Check(connStatus[e.about] # "none", "validation_error")>>, "replayed")
  ELSE Verdict(<<Check(connStatus[e.about] = "none", "idempotency_conflict")>>, "applied")

DisconnectionChecks(e) ==
  << Check(connGuide[e.about] = e.guide, "not_found"),
     Check(connStatus[e.about] # "disconnected", "idempotency_conflict"),
     Check(connStatus[e.about] = "confirmed", "not_actionable") >>

DisconnectionAnswer(e) ==
  IF e \in inbox
  THEN Verdict(<<Check(connStatus[e.about] # "none", "validation_error")>>, "replayed")
  ELSE Verdict(DisconnectionChecks(e), "applied")

(* A stored decision is what a second press is measured against, whatever  *)
(* became of the connection since.                                         *)
ConnectionDecisionReplay(c, g, d) ==
  Verdict(<< Check(connGuide[c] = g, "not_found"),
             Check(connDecision[c] = d, "not_actionable") >>, "replayed")

ConnectionDecisionChecks(c, g) ==
  << Check(connGuide[c] = g, "not_found"),
     Check(connStatus[c] = "invited", "not_actionable"),
     Check(~lapsed[c], "not_actionable") >>

ConnectionDecisionAnswer(c, g, d) ==
  IF connDecision[c] # None
  THEN ConnectionDecisionReplay(c, g, d)
  ELSE Verdict(ConnectionDecisionChecks(c, g), "applied")

(* The guide's list marks the invitations that can be answered. *)
ConnectionActionable(c, g) ==
  /\ connGuide[c] = g
  /\ connStatus[c] = "invited" /\ ~lapsed[c]

----------------------------------------------------------------------------
(* The operator's events *)

OfferChecks(e) ==
  << Check(status[e.about] = "none", "idempotency_conflict"),
     Check(ConnectionConfirmed(e.via, e.guide), "validation_error") >>

OfferAnswer(e) ==
  IF e \in inbox
  THEN Verdict(<<Check(status[e.about] # "none", "validation_error")>>, "replayed")
  ELSE Verdict(OfferChecks(e), "applied")

ClosureReplay(e) ==
  Verdict(<< Check(guide[e.about] = e.guide, "not_found"),
             Check(status[e.about] = e.status, "validation_error") >>, "replayed")

ClosureChecks(e) ==
  << Check(guide[e.about] = e.guide, "not_found"),
     Check(status[e.about] = "offered", "not_actionable"),
     Check(projection[e.about] = NoTour, "idempotency_conflict") >>

ClosureAnswer(e) ==
  IF e \in inbox THEN ClosureReplay(e) ELSE Verdict(ClosureChecks(e), "applied")

CancellationReplay(e) ==
  Verdict(<< Check(guide[e.about] = e.guide, "not_found"),
             Check(status[e.about] = "cancelled", "validation_error") >>, "replayed")

(* The last check fails when the protected tour is not where the           *)
(* assignment says.                                                        *)
CancellationChecks(e) ==
  LET t == projection[e.about]
  IN << Check(guide[e.about] = e.guide, "not_found"),
        Check(active[e.about] = e.version, "idempotency_conflict"),
        Check(status[e.about] = "accepted", "not_actionable"),
        Check(t # NoTour => tours[t] # NoRow /\ tours[t].owner # Personal,
              "validation_error") >>

CancellationAnswer(e) ==
  IF e \in inbox THEN CancellationReplay(e) ELSE Verdict(CancellationChecks(e), "applied")

OrdinaryReplay(e) ==
  Verdict(<< Check(guide[e.about] = e.guide, "not_found"),
             Check(active[e.about] = e.version, "validation_error") >>, "replayed")

(* The chain both kinds of version have to follow. *)
ChainChecks(e) ==
  << Check(guide[e.about] = e.guide, "not_found"),
     Check(status[e.about] = "accepted", "not_actionable"),
     Check(e.severity = "critical" => pending[e.about] = 0, "idempotency_conflict"),
     Check(e.version = active[e.about] + 1, "idempotency_conflict") >>

OrdinaryChecks(e) ==
  LET a == e.about
      previous == versions[a][active[a]].package
      t == projection[a]
  IN ChainChecks(e) \o
     << Check(Stored(a, active[a]), "validation_error"),
        Check(Stored(a, active[a]) => OccupancyKept(row[a], previous, e.package),
              "validation_error"),
        Check(~Stored(a, e.version), "idempotency_conflict"),
        Check(t # NoTour, "validation_error"),
        Check(t # NoTour =>
                /\ tours[t] # NoRow
                /\ tours[t].owner # Personal
                /\ tours[t].span = row[a].span, "validation_error") >>

(* Mutant: a decided version is taken for a lost one. *)
CriticalReplayWhilePending(e) ==
  Verdict(<< Check(guide[e.about] = e.guide, "not_found"),
             Check(pending[e.about] = e.version, "validation_error") >>, "replayed")

(* A critical version is recognised by its row, which stays. *)
CriticalReplay(e) ==
  Verdict(<< Check(guide[e.about] = e.guide, "not_found"),
             Check(versions[e.about][e.version] = VersionRow("critical", e.package),
                   "validation_error") >>, "replayed")

CriticalChecks(e) ==
  LET a == e.about
  IN ChainChecks(e) \o
     << Check(Stored(a, active[a]), "validation_error"),
        Check(Stored(a, active[a]) => e.package # versions[a][active[a]].package,
              "validation_error"),
        Check(~Stored(a, e.version), "idempotency_conflict") >>

(* One endpoint takes both kinds of version. *)
VersionAnswer(e) ==
  CASE e.severity = "ordinary" ->
         IF e \in inbox THEN OrdinaryReplay(e) ELSE Verdict(OrdinaryChecks(e), "applied")
    [] e.severity = "critical" ->
         IF e \in inbox THEN CriticalReplay(e) ELSE Verdict(CriticalChecks(e), "applied")

EventAnswer(e) ==
  CASE e.kind = "connection_invited" -> InvitationAnswer(e)
    [] e.kind = "connection_disconnected" -> DisconnectionAnswer(e)
    [] e.kind = "offered" -> OfferAnswer(e)
    [] e.kind = "published" -> VersionAnswer(e)
    [] e.kind = "cancelled" -> CancellationAnswer(e)
    [] e.kind = "closed" -> ClosureAnswer(e)

----------------------------------------------------------------------------
(* The guide's requests *)

DecisionReplay(a, g, d) ==
  Verdict(<< Check(guide[a] = g, "not_found"),
             Check(decision[a] = d, "idempotency_conflict") >>, "replayed")

OfferOpenChecks(a, g) ==
  << Check(guide[a] = g, "not_found"),
     Check(status[a] = "offered", "not_actionable"),
     Check(status[a] = "offered" => Stored(a, 1), "validation_error") >>

AcceptAnswer(a, g) ==
  IF decision[a] # None
  THEN DecisionReplay(a, g, "accept")
  ELSE Verdict(OfferOpenChecks(a, g) \o
               <<Check(status[a] # "none" => CalendarFree(g, row[a].span, {}),
                       "calendar_conflict")>>, "applied")

DeclineAnswer(a, g) ==
  IF decision[a] # None
  THEN DecisionReplay(a, g, "decline")
  ELSE Verdict(OfferOpenChecks(a, g), "applied")

CriticalDecisionReplay(a, g, v, d) ==
  Verdict(<< Check(guide[a] = g, "not_found"),
             Check(criticalDecision[a][v] = d, "idempotency_conflict") >>, "replayed")

CriticalDecisionChecks(a, g, v) ==
  << Check(guide[a] = g, "not_found"),
     Check(status[a] = "accepted", "not_actionable"),
     Check(pending[a] = v, "idempotency_conflict"),
     Check(Stored(a, v) /\ (Stored(a, v) => versions[a][v].severity = "critical"),
           "validation_error"),
     Check(projection[a] # NoTour, "validation_error") >>

(* Only a confirmation looks at the calendar and at the protected tour. *)
ConfirmCriticalAnswer(a, g, v) ==
  LET t == projection[a]
  IN IF criticalDecision[a][v] # None
     THEN CriticalDecisionReplay(a, g, v, "confirm_critical")
     ELSE Verdict(CriticalDecisionChecks(a, g, v) \o
                  << Check(Stored(a, v) => CalendarFree(g, versions[a][v].package.span, {t}),
                           "calendar_conflict"),
                     Check(t # NoTour => tours[t] # NoRow /\ tours[t].owner = a,
                           "validation_error") >>, "applied")

RejectCriticalAnswer(a, g, v) ==
  IF criticalDecision[a][v] # None
  THEN CriticalDecisionReplay(a, g, v, "reject_critical")
  ELSE Verdict(CriticalDecisionChecks(a, g, v), "applied")

AcknowledgeChecks(a, g, v) ==
  << Check(guide[a] = g, "not_found"),
     Check(status[a] = "accepted", "not_actionable"),
     Check(active[a] = v, "idempotency_conflict"),
     Check(Stored(a, v), "not_found"),
     Check(Stored(a, v) => versions[a][v].severity = "ordinary", "not_actionable"),
     Check(unread[a], "not_actionable") >>

AcknowledgeReplay(a, g) == Verdict(<<Check(guide[a] = g, "not_found")>>, "replayed")

AcknowledgeAnswer(a, g, v) ==
  IF v \in acked[a]
  THEN AcknowledgeReplay(a, g)
  ELSE Verdict(AcknowledgeChecks(a, g, v), "applied")

(* The pending version a detail shows, with its conflicts. *)
PendingShown(a) ==
  << Check(pending[a] # 0 => Stored(a, pending[a]), "validation_error"),
     Check(pending[a] # 0 /\ Stored(a, pending[a])
             => versions[a][pending[a]].severity = "critical", "validation_error"),
     Check(pending[a] # 0 /\ status[a] = "accepted" => projection[a] # NoTour,
           "validation_error") >>

(* The detail of an offer shows no conflict of its days. *)
OfferShownFree(a) == CalendarFree(guide[a], row[a].span, {})

(* One assignment with its active package, its pending version and its     *)
(* history; every snapshot it shows has to be there.                       *)
DetailAnswer(a, g) ==
  Verdict(<< Check(guide[a] = g, "not_found"),
             Check(guide[a] = g => Stored(a, active[a]), "validation_error") >>
          \o PendingShown(a), "shown")

(* The sections of the guide's list: accepted assignments are sorted by    *)
(* date into upcoming, in progress and completed; declined, withdrawn and  *)
(* expired ones are left out.                                              *)
Section(a) ==
  CASE status[a] = "offered" -> "awaiting"
    [] status[a] = "accepted" -> "by date"
    [] status[a] = "cancelled" -> "cancelled"
    [] OTHER -> "omitted"

----------------------------------------------------------------------------
(* What an operator may read.  Reads of another guide's rows are not found. *)

(* The Telegram identity behind a connection. *)
IdentityChecks(c, g) ==
  <<Check(connGuide[c] = g /\ connStatus[c] = "confirmed", "not_found")>>

IdentityAnswer(c, g) == Verdict(IdentityChecks(c, g), "shown")

LocalConnection(c) == [about |-> c, status |-> connStatus[c]]

(* The protected row the assignment points at, or the only one there is. *)
CalendarProjection(a) ==
  LET rows == {t \in TourId : tours[t] # NoRow /\ tours[t].owner = a}
      chosen == {t \in rows : t = projection[a] \/ (projection[a] \notin rows /\ rows = {t})}
  IN [exists |-> chosen # {},
      span |-> UNION {tours[t].span : t \in chosen},
      version |-> IF chosen = {} THEN 0 ELSE active[a]]

LocalAssignment(a) ==
  [about |-> a, status |-> status[a], via |-> via[a], active |-> active[a],
   pending |-> pending[a], row |-> row[a], calendar |-> CalendarProjection(a)]

(* The pages of a guide's rows, read one after the other. *)
LocalConnections(g) == {LocalConnection(c) : c \in {x \in ConnectionId : connGuide[x] = g}}
LocalAssignments(g) == {LocalAssignment(a) : a \in {x \in AssignmentId : guide[x] = g}}

----------------------------------------------------------------------------
(* Properties *)

(* A newer version has taken the place of the ordinary version e. *)
Superseded(e) ==
  e.kind = "published" /\ e.severity = "ordinary" /\ active[e.about] # e.version

(* Whatever happened since, a request whose effect is stored is answered   *)
(* as a replay when it is made again: the operator's redelivered event     *)
(* (but for a superseded ordinary version), and the guide's second press   *)
(* of the same button, on a connection, an offer, a critical version or a  *)
(* notice of a change.  The states in which the handlers raise "inbox      *)
(* exists without ..." are never reached.                                  *)
RequestsReplayed ==
  /\ \A e \in inbox : ~Superseded(e) => EventAnswer(e) = "replayed"
  /\ \A c \in ConnectionId :
       connDecision[c] # None =>
         ConnectionDecisionAnswer(c, connGuide[c], connDecision[c]) = "replayed"
  /\ \A a \in AssignmentId :
       /\ decision[a] = "accept" => AcceptAnswer(a, guide[a]) = "replayed"
       /\ decision[a] = "decline" => DeclineAnswer(a, guide[a]) = "replayed"
       /\ \A v \in Version :
            /\ criticalDecision[a][v] = "confirm_critical" =>
                 ConfirmCriticalAnswer(a, guide[a], v) = "replayed"
            /\ criticalDecision[a][v] = "reject_critical" =>
                 RejectCriticalAnswer(a, guide[a], v) = "replayed"
            /\ v \in acked[a] => AcknowledgeAnswer(a, guide[a], v) = "replayed"

(* The docstring of apply_ordinary_assignment_version: "Idempotently apply *)
(* assignment.version.published.v1 when severity is ordinary. [...]        *)
(* Identical event delivery is safe."  A replay is answered only while the *)
(* version is active; later it raises "Version inbox exists without the    *)
(* matching active version."                                               *)
OrdinaryReplayAnswered ==
  \A e \in inbox :
    e.kind = "published" /\ e.severity = "ordinary" => EventAnswer(e) = "replayed"

(* What the operator can tell from the facts queued for it: the versions   *)
(* applied or confirmed, the greatest of which it takes for active.        *)
ReportedVersions(a) ==
  {1} \cup {v \in Version :
              \/ Fact("assignment.version.applied.ack.v1", a, v, None) \in outbox
              \/ Fact("assignment.critical_version.decided.v1", a, v, "confirm_critical") \in outbox}

AcceptReported(a) == Fact("assignment.decision.v1", a, 1, "accept") \in outbox
CancelReported(a, v) == Fact("assignment.cancellation.ack.v1", a, v, None) \in outbox

(* A snapshot says what the facts say: which version is active, that a     *)
(* critical version waits, that the cancelled version was the active one,  *)
(* and that the guide's calendar holds the assignment on its own days from *)
(* the acceptance to the cancellation.                                     *)
SnapshotTold(seen) ==
  LET a == seen.about
  IN /\ seen.status \in {"accepted", "cancelled"} <=> AcceptReported(a)
     /\ AcceptReported(a) =>
          /\ seen.active \in ReportedVersions(a)
          /\ \A v \in ReportedVersions(a) : v <= seen.active
          /\ seen.pending # 0 =>
               Fact("assignment.version.received.ack.v1", a, seen.pending, None) \in outbox
          /\ seen.status = "cancelled" <=> CancelReported(a, seen.active)
          /\ seen.calendar =
               IF CancelReported(a, seen.active)
                 THEN [exists |-> FALSE, span |-> {}, version |-> 0]
                 ELSE [exists |-> TRUE, span |-> seen.row.span, version |-> seen.active]

(* The outbox and the reconcile snapshots tell the operator the same, and  *)
(* that the guide has not read the active version.  A guide who answers an *)
(* old version, or an answer without its row, would break it.  A guide's   *)
(* identity is shown from the confirmation to the disconnect.              *)
OperatorSeesState ==
  \A g \in Guide :
    /\ \A seen \in LocalAssignments(g) : SnapshotTold(seen)
    /\ \A seen \in LocalConnections(g) :
         /\ seen.status \in {"confirmed", "disconnected"} <=>
              Fact("guide_connection.decided.v1", seen.about, 0, "confirm") \in outbox
         /\ IdentityAnswer(seen.about, g) = "shown" <=>
              /\ Fact("guide_connection.decided.v1", seen.about, 0, "confirm") \in outbox
              /\ Disconnection(seen.about, g) \notin inbox
    /\ \A a \in AssignmentId :
         status[a] \in {"accepted", "cancelled"} =>
           (unread[a] <=>
             /\ Fact("assignment.version.applied.ack.v1", a, active[a], None) \in outbox
             /\ Fact("assignment.version.acknowledged.v1", a, active[a], None) \notin outbox)

(* The guide can do what the current notice n asks for; what can refuse it *)
(* is the calendar alone.                                                  *)
Served(n) ==
  LET c == n.about
      a == n.about
  IN CASE n.type = "connection_invitation" ->
            /\ ConnectionActionable(c, connGuide[c])
            /\ ConnectionDecisionAnswer(c, connGuide[c], "confirm") = "applied"
       [] n.type = "connection_disconnection" ->
            ~ConnectionActionable(c, connGuide[c])
       [] n.type = "assignment_offer" ->
            /\ Section(a) = "awaiting"
            /\ AcceptAnswer(a, guide[a]) =
                 IF OfferShownFree(a) THEN "applied" ELSE "calendar_conflict"
            /\ DeclineAnswer(a, guide[a]) = "applied"
       [] n.type = "ordinary_version_change" ->
            /\ Section(a) = "by date"
            /\ AcknowledgeAnswer(a, guide[a], n.version) = "applied"
       [] n.type = "critical_confirmation_required" ->
            /\ Section(a) = "by date"
            /\ ConfirmCriticalAnswer(a, guide[a], n.version) \in {"applied", "calendar_conflict"}
            /\ RejectCriticalAnswer(a, guide[a], n.version) = "applied"
       [] n.type = "assignment_cancellation" -> Section(a) = "cancelled"

(* A notice that is current when it is sent leads somewhere: the list      *)
(* names what it is about, the detail opens and the answer it asks for is  *)
(* accepted (is_guide_operator_guide_notification_current against the      *)
(* guards of four handlers).  And an operator can cancel every accepted    *)
(* assignment by its active version.                                       *)
NoticesServed ==
  /\ \A n \in notices :
       NoticeCurrent(n) =>
         /\ Served(n)
         /\ n.type \notin {"connection_invitation", "connection_disconnection"} =>
              DetailAnswer(n.about, guide[n.about]) = "shown"
  /\ \A a \in AssignmentId :
       status[a] = "accepted" =>
         EventAnswer(Cancelled(a, guide[a], active[a])) = "applied"

=============================================================================
