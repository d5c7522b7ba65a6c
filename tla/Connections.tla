---------------------------- MODULE Connections ----------------------------
(***************************************************************************)
(* The consent link between a guide and an operator company                *)
(* (services/guide_operator_connection_service.py).  A company invites a   *)
(* guide, the guide confirms or declines before the invitation expires,    *)
(* and the company may later disconnect a confirmed link.                  *)
(*                                                                         *)
(* Every handler commits its rows in one BEGIN IMMEDIATE transaction       *)
(* (database/db.py, run_write_with_retry), so each is one action here: its *)
(* guard is what the transaction re-reads, its primed variables what it    *)
(* commits.  A refused call rolls back and is not a step.  A delivery      *)
(* whose event is already in the inbox is answered from the stored rows    *)
(* and changes nothing, so it is not a step either.                        *)
(*                                                                         *)
(* The inbox, the outbox and the guide notifications are the tables shared *)
(* with the assignment service; their rows are records of what the         *)
(* columns identify (the operator event, or the fact reported), without    *)
(* the UUIDs, hashes and timestamps.                                       *)
(***************************************************************************)
EXTENDS Naturals, FiniteSets

CONSTANTS Guide,          \* guides known to Guide OS (guide_os_id)
          ConnectionId    \* connection ids the operator may use

VARIABLES connStatus,     \* guide_operator_connections.status
          connGuide,      \* guide_operator_connections.guide_os_id
          connDecision,   \* guide_operator_connection_decisions.decision_type
          lapsed,         \* the clock is past invitation_expires_at
          inbox,          \* operator events applied so far
          outbox,         \* facts owed to the operator (guide_operator_outbox)
          notices         \* guide_operator_guide_notifications rows

connVars == <<connStatus, connGuide, connDecision, lapsed>>
tableVars == <<inbox, outbox, notices>>

NoGuide == "no guide"
None == "none"

ConnStatus == {"none", "invited", "confirmed", "declined", "disconnected"}

(* A row of guide_operator_outbox: the fact it reports to the operator. *)
Fact(type, about, version, outcome) ==
  [type |-> type, about |-> about, version |-> version, outcome |-> outcome]

(* A row of guide_operator_guide_notifications. *)
Notice(type, about, version) ==
  [type |-> type, about |-> about, version |-> version]

(* guide_connection.invited.v1 and guide_connection.disconnected.v1 *)
Invitation(c, g) == [kind |-> "connection_invited", about |-> c, guide |-> g]
Disconnection(c, g) == [kind |-> "connection_disconnected", about |-> c, guide |-> g]

----------------------------------------------------------------------------

ConnInit ==
  /\ connStatus = [c \in ConnectionId |-> "none"]
  /\ connGuide = [c \in ConnectionId |-> NoGuide]
  /\ connDecision = [c \in ConnectionId |-> None]
  /\ lapsed = [c \in ConnectionId |-> FALSE]

TablesInit ==
  /\ inbox = {}
  /\ outbox = {}
  /\ notices = {}

(* An invitation opens the connection; a second invitation for the same    *)
(* connection id is a conflict and leaves the first one alone.             *)
ReceiveConnectionInvitation(c, g) ==
  /\ connStatus[c] = "none"
  /\ connStatus' = [connStatus EXCEPT ![c] = "invited"]
  /\ connGuide' = [connGuide EXCEPT ![c] = g]
  /\ inbox' = inbox \cup {Invitation(c, g)}
  /\ notices' = notices \cup {Notice("connection_invitation", c, 0)}
  /\ UNCHANGED <<connDecision, lapsed, outbox>>

(* The clock passes invitation_expires_at. *)
InvitationLapses(c) ==
  /\ connStatus[c] = "invited"
  /\ ~lapsed[c]
  /\ lapsed' = [lapsed EXCEPT ![c] = TRUE]
  /\ UNCHANGED <<connStatus, connGuide, connDecision, tableVars>>

(* Mutant: only the invitation's owner and its expiry are checked. *)
InvitationUnexpired(c, g) ==
  /\ connGuide[c] = g
  /\ ~lapsed[c]

(* The invitation of c to g still waits for an answer. *)
InvitationOpen(c, g) ==
  /\ connGuide[c] = g
  /\ connDecision[c] = None
  /\ connStatus[c] = "invited"
  /\ ~lapsed[c]

(* The guide confirms or declines an open, unexpired invitation. *)
DecideConnection(c, g, d) ==
  /\ InvitationOpen(c, g)
  /\ connDecision' = [connDecision EXCEPT ![c] = d]
  /\ connStatus' = [connStatus EXCEPT ![c] =
                      IF d = "confirm" THEN "confirmed" ELSE "declined"]
  /\ outbox' = outbox \cup {Fact("guide_connection.decided.v1", c, 0, d)}
  /\ UNCHANGED <<connGuide, lapsed, inbox, notices>>

(* The operator ends a confirmed connection; no acknowledgement is queued. *)
ReceiveConnectionDisconnect(c, g) ==
  /\ connGuide[c] = g
  /\ connStatus[c] = "confirmed"
  /\ connStatus' = [connStatus EXCEPT ![c] = "disconnected"]
  /\ inbox' = inbox \cup {Disconnection(c, g)}
  /\ notices' = notices \cup {Notice("connection_disconnection", c, 0)}
  /\ UNCHANGED <<connGuide, connDecision, lapsed, outbox>>

ConnNext ==
  \E c \in ConnectionId :
    \/ InvitationLapses(c)
    \/ \E g \in Guide :
         \/ ReceiveConnectionInvitation(c, g)
         \/ ReceiveConnectionDisconnect(c, g)
         \/ \E d \in {"confirm", "decline"} : DecideConnection(c, g, d)

(* The connection service on its own. *)
ServiceInit == ConnInit /\ TablesInit
ConnSpec == ServiceInit /\ [][ConnNext]_<<connVars, tableVars>>

----------------------------------------------------------------------------

ConnTypeOK ==
  /\ connStatus \in [ConnectionId -> ConnStatus]
  /\ connGuide \in [ConnectionId -> Guide \cup {NoGuide}]
  /\ connDecision \in [ConnectionId -> {None, "confirm", "decline"}]
  /\ lapsed \in [ConnectionId -> BOOLEAN]

(* The stored decision, the status and what the operator is told agree in  *)
(* every state, also after a disconnect has overwritten the status: the    *)
(* decision row is what a replayed confirm or decline is answered from     *)
(* (guide_operator_connection_service.py, _decide_connection).             *)
ConnectionRecordsAgree ==
  \A c \in ConnectionId :
    /\ connStatus[c] \in {"confirmed", "disconnected"} <=> connDecision[c] = "confirm"
    /\ connStatus[c] = "declined" <=> connDecision[c] = "decline"
    /\ connStatus[c] = "none" <=> connGuide[c] = NoGuide
    /\ \A d \in {"confirm", "decline"} :
         Fact("guide_connection.decided.v1", c, 0, d) \in outbox <=> connDecision[c] = d
============================================================================
