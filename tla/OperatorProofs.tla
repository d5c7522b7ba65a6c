--------------------------- MODULE OperatorProofs ---------------------------
(***************************************************************************)
(* What an operator and a guide can rely on, for all values of the         *)
(* constants: the connection an operator came over, the terms the guide    *)
(* agreed to, and that the assignment service implements Commitment.       *)
(* Where the calendar invariants hold, what an assignment blocks is a      *)
(* function of its own columns (PromiseOf), so an action on one assignment *)
(* moves the promise of that one only (PromiseMoves), and each action is   *)
(* matched with its abstract one.                                          *)
(*                                                                         *)
(* Last, the two HTTP surfaces (AssignmentRequests): each event in the     *)
(* inbox left its mark in the rows and the mark stays (EventApplied), each *)
(* fact in the outbox stands for a row (ReportedOf), so that a repeated    *)
(* request is a replay, a current notice can be acted on, and the operator *)
(* reads what it was told.                                                 *)
(***************************************************************************)
EXTENDS AssignmentsProofs, AssignmentRequests

USE DEF None

(* An assignment that exists names one of the connections. *)
ViaPresent == \A a \in AssignmentId : status[a] # "none" => via[a] \in ConnectionId

ConsentInv ==
  /\ TypeInv
  /\ ConnectionRecordsAgree
  /\ ViaPresent
  /\ OnlyOverConfirmedConnection

LEMMA InitConsentInv == Init => ConsentInv
<1> SUFFICES ASSUME Init PROVE ConsentInv
  OBVIOUS
<1>1. ConnectionRecordsAgree
  BY DEF Init, ConnInit, TablesInit, ConnectionRecordsAgree
<1>2. ViaPresent /\ OnlyOverConfirmedConnection
  BY DEF Init, ViaPresent, OnlyOverConfirmedConnection
<1> QED
  BY <1>1, <1>2, InitTypeInv DEF ConsentInv

(* A step that reports nothing but, maybe, one fact about an assignment.   *)
AssignmentFactTypes ==
  {"assignment.decision.v1", "assignment.cancellation.ack.v1",
   "assignment.version.applied.ack.v1", "assignment.version.received.ack.v1",
   "assignment.critical_version.decided.v1", "assignment.version.acknowledged.v1"}

ReportsAssignment ==
  \/ outbox' = outbox
  \/ \E f : f.type \in AssignmentFactTypes /\ outbox' = outbox \cup {f}

LEMMA OneReport ==
  ASSUME NEW type \in AssignmentFactTypes, NEW a, NEW v, NEW x, Report(Fact(type, a, v, x))
  PROVE  ReportsAssignment
<1>1. Fact(type, a, v, x).type \in AssignmentFactTypes
  BY DEF Fact
<1> QED
  BY <1>1 DEF Report, ReportsAssignment

LEMMA ConnectionFactsApart ==
  \A b, c, e, d : Fact("guide_connection.decided.v1", b, 0, e)
                    = Fact("guide_connection.decided.v1", c, 0, d) <=> b = c /\ e = d
BY DEF Fact

(* Steps of the assignment service read connections and leave them alone. *)
LEMMA AssignmentsKeepRecords ==
  ASSUME ConnectionRecordsAgree, UNCHANGED connVars,
         ReportsAssignment
  PROVE  ConnectionRecordsAgree'
<1>1. \A c \in ConnectionId, d \in {"confirm", "decline"} :
        Fact("guide_connection.decided.v1", c, 0, d) \in outbox'
          <=> Fact("guide_connection.decided.v1", c, 0, d) \in outbox
  BY DEF ReportsAssignment, AssignmentFactTypes, Fact
<1>2. connStatus' = connStatus /\ connGuide' = connGuide /\ connDecision' = connDecision
  BY DEF connVars
<1> QED
  BY <1>1, <1>2 DEF ConnectionRecordsAgree

LEMMA ConnectionStepsKeepRecords ==
  ASSUME TypeInv, ConnectionRecordsAgree, ConnNext
  PROVE  ConnectionRecordsAgree'
<1> USE AssignmentsAssumption
    DEF AssignmentsAssumption, TypeInv, TypeOK, ConnTypeOK, ConnStatus
<1>1. ASSUME NEW c \in ConnectionId, InvitationLapses(c)
      PROVE  ConnectionRecordsAgree'
  BY <1>1 DEF InvitationLapses, tableVars, ConnectionRecordsAgree
<1>2. ASSUME NEW c \in ConnectionId, NEW g \in Guide, ReceiveConnectionInvitation(c, g)
      PROVE  ConnectionRecordsAgree'
  BY <1>2 DEF ReceiveConnectionInvitation, ConnectionRecordsAgree
<1>3. ASSUME NEW c \in ConnectionId, NEW g \in Guide, ReceiveConnectionDisconnect(c, g)
      PROVE  ConnectionRecordsAgree'
  BY <1>3 DEF ReceiveConnectionDisconnect, ConnectionRecordsAgree
<1>4. ASSUME NEW c \in ConnectionId, NEW g \in Guide, NEW e \in {"confirm", "decline"},
             DecideConnection(c, g, e)
      PROVE  ConnectionRecordsAgree'
  <2>1. /\ connStatus[c] = "invited" /\ connDecision[c] = None
        /\ connDecision' = [connDecision EXCEPT ![c] = e]
        /\ connStatus' = [connStatus EXCEPT ![c] =
                            IF e = "confirm" THEN "confirmed" ELSE "declined"]
        /\ connGuide' = connGuide
        /\ outbox' = outbox \cup {Fact("guide_connection.decided.v1", c, 0, e)}
    BY <1>4 DEF DecideConnection, InvitationOpen
  <2>2. ASSUME NEW b \in ConnectionId, NEW d \in {"confirm", "decline"}
        PROVE  Fact("guide_connection.decided.v1", b, 0, d) \in outbox' <=> connDecision'[b] = d
    <3>1. Fact("guide_connection.decided.v1", b, 0, d) \in outbox <=> connDecision[b] = d
      BY DEF ConnectionRecordsAgree
    <3>2. Fact("guide_connection.decided.v1", b, 0, d) \in outbox'
            <=> connDecision[b] = d \/ (b = c /\ d = e)
      BY <2>1, <3>1, ConnectionFactsApart
    <3> QED
      BY <2>1, <3>2
  <2>3. ASSUME NEW b \in ConnectionId
        PROVE  /\ connStatus'[b] \in {"confirmed", "disconnected"} <=> connDecision'[b] = "confirm"
               /\ connStatus'[b] = "declined" <=> connDecision'[b] = "decline"
               /\ connStatus'[b] = "none" <=> connGuide'[b] = NoGuide
    BY <2>1 DEF ConnectionRecordsAgree
  <2> QED
    BY <2>2, <2>3 DEF ConnectionRecordsAgree
<1> QED
  BY <1>1, <1>2, <1>3, <1>4 DEF ConnNext

(* A confirmed connection keeps its guide and its decision. *)
LEMMA ConfirmedStays ==
  ASSUME TypeInv, ConnectionRecordsAgree, ConnNext, NEW c \in ConnectionId,
         connDecision[c] = "confirm"
  PROVE  connDecision'[c] = "confirm" /\ connGuide'[c] = connGuide[c]
<1> USE DEF TypeInv, TypeOK, ConnTypeOK
<1>1. connStatus[c] \notin {"none", "invited"}
  BY DEF ConnectionRecordsAgree
<1> QED
  BY <1>1 DEF ConnNext, InvitationLapses, ReceiveConnectionInvitation,
              ReceiveConnectionDisconnect, DecideConnection, InvitationOpen

LEMMA NextConsentInv ==
  ASSUME ConsentInv, [Next]_vars
  PROVE  ConsentInv'
<1> USE DEF ConsentInv
<1>1. TypeInv'
  BY NextTypeInv
<1>2. CASE ConnectionSteps
  <2>1. ConnectionRecordsAgree'
    BY <1>2, ConnectionStepsKeepRecords DEF ConnectionSteps
  <2>2. UNCHANGED <<status, guide, via>> /\ ConnNext
    BY <1>2 DEF ConnectionSteps, columns
  <2>3. ViaPresent'
    BY <2>2 DEF ViaPresent
  <2>4. OnlyOverConfirmedConnection'
    BY <2>2, ConfirmedStays DEF ViaPresent, OnlyOverConfirmedConnection
  <2> QED
    BY <1>1, <2>1, <2>3, <2>4
<1>3. ASSUME NEW a \in AssignmentId, NEW g \in Guide, NEW c \in ConnectionId,
             NEW o \in Occupancies, NEW p \in Package, ReceiveOffer(a, g, c, o, p)
      PROVE  ConsentInv'
  <2>1. ConnectionRecordsAgree'
    BY <1>3, AssignmentsKeepRecords DEF ReceiveOffer, ReportsAssignment
  <2>2. /\ connGuide' = connGuide /\ connDecision' = connDecision
        /\ connGuide[c] = g /\ connDecision[c] = "confirm"
    BY <1>3 DEF ReceiveOffer, ConnectionConfirmed, ConnectionRecordsAgree, connVars
  <2>3. /\ guide' = [guide EXCEPT ![a] = g]
        /\ via' = [via EXCEPT ![a] = c]
        /\ status' = [status EXCEPT ![a] = "offered"]
    BY <1>3 DEF ReceiveOffer
  <2>4. ViaPresent' /\ OnlyOverConfirmedConnection'
    BY <2>2, <2>3 DEF ViaPresent, OnlyOverConfirmedConnection, TypeInv, TypeOK, AssignmentTypeOK
  <2> QED
    BY <1>1, <2>1, <2>4
<1>4. ASSUME UNCHANGED <<connVars, guide, via>>,
             \A a \in AssignmentId : status'[a] # "none" => status[a] # "none",
             ConnectionRecordsAgree'
      PROVE  ConsentInv'
  BY <1>1, <1>4 DEF ViaPresent, OnlyOverConfirmedConnection, connVars
<1>5. ASSUME NEW a \in AssignmentId, NEW g \in Guide,
             \/ Accept(a, g) \/ Decline(a, g)
             \/ \E s \in {"withdrawn", "expired"} : CloseOffer(a, g, s)
             \/ \E v \in Version : Cancel(a, g, v)
      PROVE  ConsentInv'
  <2>1. status[a] # "none"
    BY <1>5 DEF Accept, Decline, CloseOffer, Cancel, OfferOpen
  <2>2. /\ UNCHANGED <<connVars, guide, via>>
        /\ \A b \in AssignmentId \ {a} : status'[b] = status[b]
    BY <1>5 DEF Accept, Decline, CloseOffer, Cancel, TypeInv, TypeOK, AssignmentTypeOK
  <2>3. ReportsAssignment
    BY <1>5, OneReport
    DEF Accept, Decline, CloseOffer, Cancel, AssignmentFactTypes, ReportsAssignment
  <2>4. ConnectionRecordsAgree'
    BY <2>2, <2>3, AssignmentsKeepRecords
  <2> QED
    BY <1>4, <2>1, <2>2, <2>4
<1>6. ASSUME NEW a \in AssignmentId, NEW g \in Guide, NEW v \in Version,
             \/ \E p \in Package : ApplyOrdinaryVersion(a, g, v, p) \/ IntakeCriticalVersion(a, g, v, p)
             \/ ConfirmCritical(a, g, v) \/ RejectCritical(a, g, v) \/ AcknowledgeVersion(a, g, v)
      PROVE  ConsentInv'
  <2>1. UNCHANGED <<connVars, guide, via, status>>
    BY <1>6 DEF ApplyOrdinaryVersion, IntakeCriticalVersion, ConfirmCritical, RejectCritical,
                AcknowledgeVersion
  <2>2. ReportsAssignment
    BY <1>6, OneReport
    DEF ApplyOrdinaryVersion, IntakeCriticalVersion, ConfirmCritical, RejectCritical,
        AcknowledgeVersion, AssignmentFactTypes
  <2>3. ConnectionRecordsAgree'
    BY <2>1, <2>2, AssignmentsKeepRecords
  <2> QED
    BY <1>4, <2>1, <2>3
<1>7. CASE GuideEdits \/ UNCHANGED vars
  <2>1. UNCHANGED <<connVars, guide, via, status, outbox>>
    BY <1>7 DEF GuideEdits, GuideSavesEntry, GuideMovesEntries, GuideDeletesEntries,
                vars, columns, tableVars
  <2>2. ConnectionRecordsAgree'
    BY <2>1, AssignmentsKeepRecords DEF ReportsAssignment
  <2> QED
    BY <1>4, <2>1, <2>2
<1> QED
  BY <1>2, <1>3, <1>5, <1>6, <1>7 DEF Next, OperatorEvents, GuideAnswers

(* Decision row, status and reported fact of a connection agree in every   *)
(* state (_decide_connection, receive_connection_disconnect).              *)
THEOREM ConnectionsAgree == Spec => []ConnectionRecordsAgree
<1>1. ConsentInv => ConnectionRecordsAgree
  BY DEF ConsentInv
<1> QED
  BY <1>1, InitConsentInv, NextConsentInv, PTL DEF Spec

(* Every assignment came over a connection its guide confirmed             *)
(* (receive_assignment_offer).                                             *)
THEOREM ConsentFirst == Spec => []OnlyOverConfirmedConnection
<1>1. ConsentInv => OnlyOverConfirmedConnection
  BY DEF ConsentInv
<1> QED
  BY <1>1, InitConsentInv, NextConsentInv, PTL DEF Spec

(* No step but an offer makes an assignment known, or moves one to another *)
(* connection or guide.                                                    *)
LEMMA OnlyOffersOffer ==
  ASSUME TypeInv, Next,
         ~\E a \in AssignmentId, g \in Guide, c \in ConnectionId, o \in Occupancies, p \in Package :
            ReceiveOffer(a, g, c, o, p)
  PROVE  /\ UNCHANGED <<guide, via>>
         /\ \A a \in AssignmentId : status'[a] # "none" <=> status[a] # "none"
<1>1. CASE ConnectionSteps
  BY <1>1 DEF ConnectionSteps, columns
<1>2. ASSUME NEW a \in AssignmentId, NEW g \in Guide,
             \/ Accept(a, g) \/ Decline(a, g)
             \/ \E s \in {"withdrawn", "expired"} : CloseOffer(a, g, s)
             \/ \E v \in Version : Cancel(a, g, v)
      PROVE  /\ UNCHANGED <<guide, via>>
             /\ \A b \in AssignmentId : status'[b] # "none" <=> status[b] # "none"
  <2>1. status[a] # "none" /\ status'[a] # "none"
    BY <1>2 DEF Accept, Decline, CloseOffer, Cancel, OfferOpen, TypeInv, TypeOK, AssignmentTypeOK
  <2>2. /\ UNCHANGED <<guide, via>>
        /\ \A b \in AssignmentId \ {a} : status'[b] = status[b]
    BY <1>2 DEF Accept, Decline, CloseOffer, Cancel, TypeInv, TypeOK, AssignmentTypeOK
  <2> QED
    BY <2>1, <2>2
<1>3. ASSUME NEW a \in AssignmentId, NEW g \in Guide, NEW v \in Version,
             \/ \E p \in Package : ApplyOrdinaryVersion(a, g, v, p) \/ IntakeCriticalVersion(a, g, v, p)
             \/ ConfirmCritical(a, g, v) \/ RejectCritical(a, g, v) \/ AcknowledgeVersion(a, g, v)
      PROVE  UNCHANGED <<guide, via, status>>
  BY <1>3 DEF ApplyOrdinaryVersion, IntakeCriticalVersion, ConfirmCritical, RejectCritical,
              AcknowledgeVersion
<1>4. CASE GuideEdits
  BY <1>4 DEF GuideEdits, GuideSavesEntry, GuideMovesEntries, GuideDeletesEntries, columns
<1> QED
  BY <1>1, <1>2, <1>3, <1>4 DEF Next, OperatorEvents, GuideAnswers

(* Offers are added over a connection only while it is confirmed, and only *)
(* for the guide who confirmed it (receive_assignment_offer).              *)
THEOREM OffersNeedConsent == Spec => OffersFollowConsent
<1>1. ASSUME ConsentInv, Next, NEW c \in ConnectionId, OfferedOver(c)' # OfferedOver(c)
      PROVE  /\ connStatus[c] = "confirmed"
             /\ OfferedOver(c) \subseteq OfferedOver(c)'
             /\ \A offer \in OfferedOver(c)' : offer[2] = connGuide[c]
  <2>1. PICK a \in AssignmentId, g \in Guide, d \in ConnectionId, o \in Occupancies, p \in Package :
          ReceiveOffer(a, g, d, o, p)
    <3> SUFFICES ASSUME ~\E a \in AssignmentId, g \in Guide, d \in ConnectionId,
                           o \in Occupancies, p \in Package : ReceiveOffer(a, g, d, o, p)
                 PROVE  FALSE
      OBVIOUS
    <3>1. /\ UNCHANGED <<guide, via>>
          /\ \A a \in AssignmentId : status'[a] # "none" <=> status[a] # "none"
      BY <1>1, OnlyOffersOffer DEF ConsentInv
    <3> QED
      BY <1>1, <3>1 DEF OfferedOver
  <2>2. /\ status[a] = "none" /\ connGuide[d] = g /\ connStatus[d] = "confirmed"
        /\ guide'[a] = g /\ via'[a] = d /\ status'[a] = "offered"
        /\ \A b \in AssignmentId \ {a} :
             guide'[b] = guide[b] /\ via'[b] = via[b] /\ status'[b] = status[b]
    BY <1>1, <2>1 DEF ReceiveOffer, ConnectionConfirmed, ConsentInv, TypeInv, TypeOK, AssignmentTypeOK
  <2>3. CASE c # d
    BY <1>1, <2>2, <2>3 DEF OfferedOver
  <2>4. CASE c = d
    BY <1>1, <2>2, <2>4 DEF OfferedOver, ConsentInv, OnlyOverConfirmedConnection
  <2> QED
    BY <2>3, <2>4
<1>2. ConsentInv /\ [Next]_vars
        => [\A c \in ConnectionId :
              OfferedOver(c)' # OfferedOver(c) =>
                /\ connStatus[c] = "confirmed"
                /\ OfferedOver(c) \subseteq OfferedOver(c)'
                /\ \A offer \in OfferedOver(c)' : offer[2] = connGuide[c]]_vars
  BY <1>1
<1> QED
  BY <1>2, InitConsentInv, NextConsentInv, PTL DEF Spec, OffersFollowConsent

----------------------------------------------------------------------------
(* The terms.  LastAgreed chooses the greatest confirmed version, or 1; the *)
(* invariant carries that version along, so that its existence need not be *)
(* derived from the finiteness of a set.                                   *)
Agreed(a, m) ==
  /\ m \in {1} \cup ConfirmedVersions(a)
  /\ \A u \in ConfirmedVersions(a) : u <= m

(* The terms of a are those of version m. *)
TermsOf(a, m) ==
  LET agreed == versions[a][m].package
      current == versions[a][active[a]].package
  IN /\ current.envelope = agreed.envelope
     /\ IF m = 1
        THEN \E p \in Package : Offered(a, guide[a], via[a], row[a], p) \in inbox
        ELSE row[a] = Occupancy(agreed.span, agreed.role)
     /\ active[a] > 1 => row[a] = Occupancy(current.span, current.role)

TermsKnown(a) ==
  \E m \in Version :
    Agreed(a, m) /\ (status[a] # "none" => active[a] \in Version /\ TermsOf(a, m))

TermsInv == VersionInv /\ \A a \in AssignmentId : TermsKnown(a)

LEMMA LastAgreedIs ==
  ASSUME NEW a \in AssignmentId, NEW m \in Version, Agreed(a, m)
  PROVE  LastAgreed(a) = m
<1> DEFINE S == ConfirmedVersions(a)
           Last(v) == \A u \in S : u <= v
<1>1. m \in {1} \cup S /\ Last(m) /\ S \subseteq Version
  BY DEF Agreed, ConfirmedVersions
<1>2. PICK v \in {1} \cup S : v = LastAgreed(a) /\ Last(v)
  BY <1>1 DEF LastAgreed
<1>3. v <= m /\ m <= v
  BY <1>1, <1>2 DEF Version
<1> QED
  BY <1>1, <1>2, <1>3, AssignmentsAssumption DEF Version, AssignmentsAssumption

LEMMA InitTermsInv == Init => TermsInv
<1> SUFFICES ASSUME Init, NEW a \in AssignmentId PROVE TermsKnown(a)
  BY InitVersionInv DEF TermsInv
<1>1. ConfirmedVersions(a) = {}
  BY DEF Init, ConfirmedVersions
<1>2. 1 \in Version /\ Agreed(a, 1)
  BY <1>1, AssignmentsAssumption DEF AssignmentsAssumption, Version, Agreed
<1> QED
  BY <1>2 DEF Init, TermsKnown

(* Steps that leave the versions of a, its decisions and its terms alone. *)
LEMMA TermsUntouched ==
  ASSUME NEW a \in AssignmentId, TermsKnown(a),
         status'[a] # "none" => status[a] # "none",
         inbox \subseteq inbox', row'[a] = row[a], guide'[a] = guide[a], via'[a] = via[a],
         active'[a] = active[a], versions'[a] = versions[a],
         criticalDecision'[a] = criticalDecision[a]
  PROVE  TermsKnown(a)'
BY DEF TermsKnown, Agreed, ConfirmedVersions, TermsOf

LEMMA OfferSetsTerms ==
  ASSUME TermsInv, NEW a \in AssignmentId, NEW g \in Guide, NEW c \in ConnectionId,
         NEW o \in Occupancies, NEW p \in Package, ReceiveOffer(a, g, c, o, p)
  PROVE  TermsKnown(a)'
<1> USE AssignmentsAssumption
    DEF AssignmentsAssumption, TermsInv, VersionInv, TypeInv, TypeOK, AssignmentTypeOK, Version
<1>1. /\ active'[a] = 1 /\ criticalDecision' = criticalDecision
      /\ guide'[a] = g /\ via'[a] = c /\ row'[a] = o
      /\ Offered(a, g, c, o, p) \in inbox'
  BY DEF ReceiveOffer, Apply
<1>2. \A v \in Version : criticalDecision[a][v] = None
  BY DEF ReceiveOffer, VersionsFromOffer
<1>3. ConfirmedVersions(a)' = {}
  BY <1>1, <1>2 DEF ConfirmedVersions
<1>4. 1 \in Version /\ Agreed(a, 1)'
  BY <1>3 DEF Agreed
<1>5. TermsOf(a, 1)'
  BY <1>1 DEF TermsOf
<1> QED
  BY <1>1, <1>4, <1>5 DEF TermsKnown

(* Nothing beyond the active version is agreed. *)
LEMMA AgreedIsPast ==
  ASSUME TermsInv, NEW a \in AssignmentId, status[a] # "none", active[a] \in Version,
         NEW m \in Version, Agreed(a, m)
  PROVE  m <= active[a]
<1> USE AssignmentsAssumption
    DEF AssignmentsAssumption, TermsInv, VersionInv, TypeInv, TypeOK, AssignmentTypeOK, Version
<1>1. ASSUME m \in ConfirmedVersions(a)
      PROVE  m <= active[a]
  <2>1. criticalDecision[a][m] = "confirm_critical"
    BY <1>1 DEF ConfirmedVersions
  <2>2. versions[a][m] # NoRow
    BY <2>1 DEF VersionsFromOffer
  <2> QED
    BY <2>1, <2>2 DEF VersionChainOf
<1> QED
  BY <1>1 DEF Agreed

LEMMA PublishingKeepsTerms ==
  ASSUME TermsInv, NEW a \in AssignmentId, NEW g \in Guide, NEW v \in Version,
         NEW p \in Package,
         ApplyOrdinaryVersion(a, g, v, p) \/ IntakeCriticalVersion(a, g, v, p)
  PROVE  TermsKnown(a)'
<1> USE AssignmentsAssumption
    DEF AssignmentsAssumption, TermsInv, VersionInv, TypeInv, TypeOK, AssignmentTypeOK
<1>1. /\ status[a] = "accepted" /\ v = active[a] + 1
      /\ UNCHANGED <<status, guide, via, row, criticalDecision>>
      /\ inbox \subseteq inbox'
  BY DEF ApplyOrdinaryVersion, IntakeCriticalVersion, NextVersion, Apply
<1>2. PICK m \in Version : Agreed(a, m) /\ active[a] \in Version /\ TermsOf(a, m)
  BY <1>1 DEF TermsKnown
<1>3. m <= active[a] /\ m # v /\ active[a] # v
  <2>1. status[a] # "none" /\ active[a] \in Version /\ Agreed(a, m)
    BY <1>1, <1>2
  <2>2. m <= active[a]
    BY ONLY TermsInv, AssignmentsAssumption, a \in AssignmentId, m \in Version, <2>1, AgreedIsPast
  <2>3. active[a] \in Nat /\ m \in Nat
    BY <1>2 DEF Version
  <2> QED
    BY <1>1, <2>2, <2>3
<1>4. Agreed(a, m)'
  BY <1>1, <1>2 DEF Agreed, ConfirmedVersions
<1>5. versions'[a][m] = versions[a][m] /\ versions'[a][active[a]] = versions[a][active[a]]
  BY <1>2, <1>3 DEF ApplyOrdinaryVersion, IntakeCriticalVersion
<1>6. CASE ApplyOrdinaryVersion(a, g, v, p)
  <2>1. /\ active'[a] = v /\ versions'[a][v].package = p
        /\ p.envelope = versions[a][active[a]].package.envelope
        /\ p.span = row[a].span /\ p.role = row[a].role
    BY <1>6 DEF ApplyOrdinaryVersion, VersionRow, OccupancyKept
  <2>2. row[a] = Occupancy(p.span, p.role)
    <3>1. row[a] \in RowValues
      BY <1>1 DEF RowsPresent
    <3> QED
      BY <2>1, <3>1 DEF Occupancy, RowValues
  <2>3. TermsOf(a, m)'
    BY <1>1, <1>2, <1>5, <2>1, <2>2 DEF TermsOf
  <2> QED
    BY <1>4, <2>1, <2>3 DEF TermsKnown, Version
<1>7. CASE IntakeCriticalVersion(a, g, v, p)
  <2>1. active' = active
    BY <1>7 DEF IntakeCriticalVersion
  <2>2. TermsOf(a, m)'
    BY <1>1, <1>2, <1>5, <2>1 DEF TermsOf
  <2> QED
    BY <1>2, <1>4, <2>1, <2>2 DEF TermsKnown, Version
<1> QED
  BY <1>6, <1>7

LEMMA ConfirmingSetsTerms ==
  ASSUME TermsInv, NEW a \in AssignmentId, NEW g \in Guide, NEW v \in Version,
         ConfirmCritical(a, g, v)
  PROVE  TermsKnown(a)'
<1> USE AssignmentsAssumption
    DEF AssignmentsAssumption, TermsInv, VersionInv, TypeInv, TypeOK, AssignmentTypeOK
<1> DEFINE p == versions[a][v].package
<1>1. /\ status[a] = "accepted" /\ pending[a] = v /\ versions' = versions
      /\ active'[a] = v /\ row'[a] = Occupancy(p.span, p.role)
      /\ criticalDecision'[a] = [criticalDecision[a] EXCEPT ![v] = "confirm_critical"]
  BY DEF ConfirmCritical, CriticalDecidable
<1>2. PICK m \in Version : Agreed(a, m) /\ active[a] \in Version
  BY <1>1 DEF TermsKnown
<1>3. m <= active[a] /\ v = active[a] + 1
  BY <1>1, <1>2, AgreedIsPast, PendingIsNext
<1>4. ConfirmedVersions(a)' = ConfirmedVersions(a) \cup {v}
  BY <1>1 DEF ConfirmedVersions
<1>5. \A u \in ConfirmedVersions(a) : u <= v
  <2>1. ConfirmedVersions(a) \subseteq Version
    BY DEF ConfirmedVersions
  <2> QED
    BY <1>2, <1>3, <2>1 DEF Agreed, Version
<1>6. Agreed(a, v)'
  BY <1>4, <1>5 DEF Agreed, Version
<1>7. v # 1
  BY <1>2, <1>3 DEF Version
<1>8. TermsOf(a, v)'
  BY <1>1, <1>7 DEF TermsOf
<1> QED
  BY <1>1, <1>6, <1>8 DEF TermsKnown, Version

LEMMA RejectingKeepsTerms ==
  ASSUME TermsInv, NEW a \in AssignmentId, NEW g \in Guide, NEW v \in Version,
         RejectCritical(a, g, v)
  PROVE  TermsKnown(a)'
<1> USE DEF TermsInv, VersionInv, TypeInv, TypeOK, AssignmentTypeOK
<1>1. /\ status[a] = "accepted" /\ criticalDecision[a][v] = None
      /\ UNCHANGED <<status, guide, via, row, active, versions, inbox>>
      /\ criticalDecision'[a] = [criticalDecision[a] EXCEPT ![v] = "reject_critical"]
  BY DEF RejectCritical, CriticalDecidable
<1>2. ConfirmedVersions(a)' = ConfirmedVersions(a)
  BY <1>1 DEF ConfirmedVersions
<1>3. PICK m \in Version : Agreed(a, m) /\ active[a] \in Version /\ TermsOf(a, m)
  BY <1>1 DEF TermsKnown
<1>4. Agreed(a, m)' /\ TermsOf(a, m)'
  BY <1>1, <1>2, <1>3 DEF Agreed, TermsOf
<1> QED
  BY <1>1, <1>3, <1>4 DEF TermsKnown, Version

LEMMA NextTermsInv ==
  ASSUME TermsInv, [Next]_vars
  PROVE  TermsInv'
<1> SUFFICES ASSUME NEW b \in AssignmentId PROVE TermsKnown(b)'
  BY NextVersionInv DEF TermsInv
<1> USE DEF TermsInv, VersionInv, TypeInv, TypeOK, AssignmentTypeOK
<1>1. ASSUME NEW a \in AssignmentId, NEW g \in Guide, NEW c \in ConnectionId,
             NEW o \in Occupancies, NEW p \in Package, ReceiveOffer(a, g, c, o, p)
      PROVE  TermsKnown(b)'
  <2>1. CASE a = b
    BY <1>1, <2>1, OfferSetsTerms
  <2>2. CASE a # b
    BY <1>1, <2>2, TermsUntouched DEF ReceiveOffer, Apply
  <2> QED
    BY <2>1, <2>2
<1>2. ASSUME NEW a \in AssignmentId, NEW g \in Guide,
             \/ Accept(a, g) \/ Decline(a, g)
             \/ \E s \in {"withdrawn", "expired"} : CloseOffer(a, g, s)
             \/ \E v \in Version : Cancel(a, g, v) \/ AcknowledgeVersion(a, g, v)
      PROVE  TermsKnown(b)'
  <2>1. /\ UNCHANGED <<guide, via, row, active, versions, criticalDecision>>
        /\ inbox \subseteq inbox'
    BY <1>2 DEF Accept, Decline, CloseOffer, Cancel, AcknowledgeVersion, Apply, records
  <2>2. status[a] # "none" /\ \A d \in AssignmentId \ {a} : status'[d] = status[d]
    BY <1>2 DEF Accept, Decline, CloseOffer, Cancel, AcknowledgeVersion, OfferOpen, VersionUnread
  <2> QED
    BY <2>1, <2>2, TermsUntouched
<1>3. ASSUME NEW a \in AssignmentId, NEW g \in Guide, NEW v \in Version, NEW p \in Package,
             ApplyOrdinaryVersion(a, g, v, p) \/ IntakeCriticalVersion(a, g, v, p)
      PROVE  TermsKnown(b)'
  <2>1. CASE a = b
    BY <1>3, <2>1, PublishingKeepsTerms
  <2>2. CASE a # b
    BY <1>3, <2>2, TermsUntouched DEF ApplyOrdinaryVersion, IntakeCriticalVersion, Apply
  <2> QED
    BY <2>1, <2>2
<1>4. ASSUME NEW a \in AssignmentId, NEW g \in Guide, NEW v \in Version,
             ConfirmCritical(a, g, v) \/ RejectCritical(a, g, v)
      PROVE  TermsKnown(b)'
  <2>1. CASE a = b
    BY <1>4, <2>1, ConfirmingSetsTerms, RejectingKeepsTerms
  <2>2. CASE a # b
    BY <1>4, <2>2, TermsUntouched DEF ConfirmCritical, RejectCritical
  <2> QED
    BY <2>1, <2>2
<1>5. CASE ConnectionSteps
  <2>1. UNCHANGED <<status, guide, via, row, active, versions, criticalDecision>> /\ ConnNext
    BY <1>5 DEF ConnectionSteps, columns, records
  <2>2. inbox \subseteq inbox'
    BY <2>1 DEF ConnNext, InvitationLapses, ReceiveConnectionInvitation,
                ReceiveConnectionDisconnect, DecideConnection, tableVars
  <2> QED
    BY <2>1, <2>2, TermsUntouched
<1>6. CASE GuideEdits \/ UNCHANGED vars
  <2>1. UNCHANGED <<status, guide, via, row, active, versions, criticalDecision, inbox>>
    BY <1>6 DEF GuideEdits, GuideSavesEntry, GuideMovesEntries, GuideDeletesEntries,
                vars, columns, records, tableVars
  <2> QED
    BY <2>1, TermsUntouched
<1> QED
  BY <1>1, <1>2, <1>3, <1>4, <1>5, <1>6 DEF Next, OperatorEvents, GuideAnswers

(* Dates, role and day envelopes are those the guide last agreed to,       *)
(* whatever ordinary versions followed (apply_ordinary_assignment_version, *)
(* decide_critical_assignment_version).                                    *)
THEOREM AgreedTermsKept == Spec => []AgreedTermsHold
<1>1. TermsInv => AgreedTermsHold
  <2> SUFFICES ASSUME TermsInv, NEW a \in AssignmentId, status[a] # "none"
               PROVE  TermsOf(a, LastAgreed(a))
    BY DEF AgreedTermsHold, TermsOf
  <2> QED
    BY LastAgreedIs DEF TermsInv, TermsKnown
<1> QED
  BY <1>1, InitTermsInv, NextTermsInv, PTL DEF Spec

----------------------------------------------------------------------------
(* The promise of Commitment. *)

PromiseInv == CalendarInv /\ VersionInv

LEMMA NextPromiseInv ==
  ASSUME PromiseInv, [Next]_vars
  PROVE  PromiseInv'
BY NextCalendarInv, NextVersionInv DEF PromiseInv

(* The promise about b, read off the columns of b. *)
PromiseOf(b) ==
  /\ Phase[b] = CASE status[b] = "none" -> "none"
                  [] status[b] = "offered" -> "asked"
                  [] status[b] = "accepted" -> "committed"
                  [] OTHER -> "over"
  /\ Blocked[b] = IF status[b] = "accepted" THEN row[b].span ELSE {}
  /\ Asked[b] = CASE status[b] = "offered" -> row[b].span
                  [] status[b] = "accepted" /\ pending[b] # 0 ->
                       versions[b][pending[b]].package.span
                  [] OTHER -> {}

LEMMA PromiseRead ==
  ASSUME PromiseInv, NEW b \in AssignmentId
  PROVE  PromiseOf(b)
<1>1. projection[b] # NoTour => tours[projection[b]].span = row[b].span
  BY ProjectedTour DEF PromiseInv
<1>2. status[b] = "accepted" <=> projection[b] # NoTour
  BY DEF PromiseInv, CalendarInv, CalendarMirrorsAssignments
<1>3. Blocked[b] = IF status[b] = "accepted" THEN row[b].span ELSE {}
  BY <1>1, <1>2 DEF Blocked
<1> QED
  BY <1>3 DEF PromiseOf, Phase, Asked

LEMMA PromiseReadNext ==
  ASSUME PromiseInv, [Next]_vars, NEW b \in AssignmentId
  PROVE  PromiseOf(b)'
<1>1. PromiseInv'
  BY NextPromiseInv
<1>2. projection'[b] # NoTour => tours'[projection'[b]] = Tour(guide'[b], row'[b].span, b)
  BY <1>1 DEF PromiseInv, CalendarInv, CalendarMirrorsAssignments
<1>3. status'[b] = "accepted" <=> projection'[b] # NoTour
  BY <1>1 DEF PromiseInv, CalendarInv, CalendarMirrorsAssignments
<1>4. Blocked'[b] = IF status'[b] = "accepted" THEN row'[b].span ELSE {}
  BY <1>2, <1>3 DEF Blocked, Tour
<1> QED
  BY <1>4 DEF PromiseOf, Phase, Asked

(* A step on the columns of a moves the promise about a only. *)
LEMMA PromiseMoves ==
  ASSUME PromiseInv, [Next]_vars, NEW a \in AssignmentId,
         \A b \in AssignmentId \ {a} :
           /\ status'[b] = status[b] /\ row'[b] = row[b]
           /\ pending'[b] = pending[b] /\ versions'[b] = versions[b]
  PROVE  /\ Phase' = [Phase EXCEPT ![a] = Phase'[a]]
         /\ Blocked' = [Blocked EXCEPT ![a] = Blocked'[a]]
         /\ Asked' = [Asked EXCEPT ![a] = Asked'[a]]
         /\ Phase'[a] = Phase[a] => Phase' = Phase
         /\ Blocked'[a] = Blocked[a] => Blocked' = Blocked
<1>1. \A b \in AssignmentId : PromiseOf(b) /\ PromiseOf(b)'
  BY PromiseRead, PromiseReadNext
<1>2. \A b \in AssignmentId \ {a} :
        Phase'[b] = Phase[b] /\ Blocked'[b] = Blocked[b] /\ Asked'[b] = Asked[b]
  BY <1>1 DEF PromiseOf
<1>3. /\ Phase = [b \in AssignmentId |-> Phase[b]]
      /\ Phase' = [b \in AssignmentId |-> Phase'[b]]
      /\ Blocked = [b \in AssignmentId |-> Blocked[b]]
      /\ Blocked' = [b \in AssignmentId |-> Blocked'[b]]
      /\ Asked = [b \in AssignmentId |-> Asked[b]]
      /\ Asked' = [b \in AssignmentId |-> Asked'[b]]
  BY DEF Phase, Blocked, Asked
<1> QED
  BY <1>2, <1>3

----------------------------------------------------------------------------
(* Each action is an action of Commitment, or leaves the promise alone.    *)

LEMMA OfferAsks ==
  ASSUME PromiseInv, NEW a \in AssignmentId, NEW g \in Guide, NEW c \in ConnectionId,
         NEW o \in Occupancies, NEW p \in Package, ReceiveOffer(a, g, c, o, p), [Next]_vars
  PROVE  \E s \in Span : Promise!Ask(a, g, s)
<1> USE DEF PromiseInv, CalendarInv, TypeInv, TypeOK, AssignmentTypeOK
<1>1. /\ status[a] = "none" /\ status'[a] = "offered"
      /\ row'[a] = o /\ guide' = [guide EXCEPT ![a] = g]
      /\ \A b \in AssignmentId \ {a} :
           /\ status'[b] = status[b] /\ row'[b] = row[b]
           /\ pending'[b] = pending[b] /\ versions'[b] = versions[b]
  BY DEF ReceiveOffer
<1>2. PromiseOf(a) /\ PromiseOf(a)'
  BY PromiseRead, PromiseReadNext
<1>3. /\ Phase[a] = "none" /\ Phase'[a] = "asked"
      /\ Asked'[a] = o.span /\ Blocked'[a] = Blocked[a]
  <2>1. Phase[a] = "none" /\ Phase'[a] = "asked"
    BY <1>1, <1>2 DEF PromiseOf
  <2>2. Asked'[a] = o.span
    BY <1>1, <1>2 DEF PromiseOf
  <2>3. Blocked'[a] = {} /\ Blocked[a] = {}
    BY <1>1, <1>2 DEF PromiseOf
  <2> QED
    BY <2>1, <2>2, <2>3
<1>4. o.span \in Span
  BY DEF Occupancies, Occupancy
<1>5. Blocked' = Blocked
  BY <1>1, <1>3, PromiseMoves
<1>6. /\ Phase' = [Phase EXCEPT ![a] = "asked"]
      /\ Asked' = [Asked EXCEPT ![a] = o.span]
  BY <1>1, <1>3, PromiseMoves
<1>7. Promise!Ask(a, g, o.span)
  BY <1>1, <1>3, <1>5, <1>6 DEF Promise!Ask
<1> QED
  BY <1>4, <1>7

LEMMA AcceptAgrees ==
  ASSUME PromiseInv, NEW a \in AssignmentId, NEW g \in Guide, Accept(a, g), [Next]_vars
  PROVE  Promise!Agree(a)
<1> USE AssignmentsAssumption
    DEF AssignmentsAssumption, PromiseInv, CalendarInv, TypeInv, TypeOK, AssignmentTypeOK
<1>1. /\ status[a] = "offered" /\ status'[a] = "accepted" /\ guide[a] = g
      /\ row' = row /\ guide' = guide /\ pending' = pending /\ versions' = versions
      /\ \A b \in AssignmentId \ {a} : status'[b] = status[b]
      /\ CalendarFree(g, row[a].span, {})
  BY DEF Accept, OfferOpen
<1>2. PromiseOf(a) /\ PromiseOf(a)' /\ \A b \in AssignmentId : PromiseOf(b)
  BY PromiseRead, PromiseReadNext
<1>3. pending[a] = 0
  <2>1. \A v \in Version : pending[a] # v
    BY <1>1 DEF VersionInv, VersionChainOf
  <2> QED
    BY <2>1 DEF Version
<1>4. /\ Asked[a] = row[a].span /\ Asked'[a] = {}
      /\ Phase'[a] = "committed" /\ Blocked'[a] = row[a].span
  BY <1>1, <1>2, <1>3 DEF PromiseOf
<1>5. row[a].span # {}
  BY <1>1 DEF RowsPresent, RowValues
<1>6. ASSUME NEW b \in AssignmentId \ {a}, guide[b] = guide[a]
      PROVE  Blocked[b] \cap Asked[a] = {}
  <2>1. CASE projection[b] = NoTour
    BY <2>1 DEF Blocked
  <2>2. CASE projection[b] # NoTour
    <3>1. projection[b] \in TourId /\ tours[projection[b]] # NoRow
          /\ tours[projection[b]].guide = g
      BY <1>1, <1>6, <2>2, ProjectedTour
    <3>2. tours[projection[b]].span \cap row[a].span = {}
      BY <1>1, <3>1 DEF CalendarFree
    <3> QED
      BY <1>4, <2>2, <3>2 DEF Blocked
  <2> QED
    BY <2>1, <2>2
<1> QED
  BY <1>1, <1>4, <1>5, <1>6, PromiseMoves DEF Promise!Agree

LEMMA ConfirmAgrees ==
  ASSUME PromiseInv, NEW a \in AssignmentId, NEW g \in Guide, NEW v \in Version,
         ConfirmCritical(a, g, v), [Next]_vars
  PROVE  Promise!Agree(a)
<1> USE AssignmentsAssumption
    DEF AssignmentsAssumption, PromiseInv, CalendarInv, TypeInv, TypeOK, AssignmentTypeOK
<1> DEFINE p == versions[a][v].package
<1>1. /\ status[a] = "accepted" /\ pending[a] = v /\ pending'[a] = 0 /\ guide[a] = g
      /\ status' = status /\ guide' = guide /\ versions' = versions
      /\ row'[a] = Occupancy(p.span, p.role) /\ versions[a][v] # NoRow
      /\ \A b \in AssignmentId \ {a} : row'[b] = row[b] /\ pending'[b] = pending[b]
      /\ projection[a] # NoTour /\ CalendarFree(g, p.span, {projection[a]})
  BY DEF ConfirmCritical, CriticalDecidable
<1>2. PromiseOf(a) /\ PromiseOf(a)'
  BY PromiseRead, PromiseReadNext
<1>3. v # 0 /\ row'[a].span = p.span
  BY <1>1 DEF Version, Occupancy
<1>4. /\ Asked[a] = p.span /\ Asked'[a] = {}
      /\ Phase'[a] = "committed" /\ Blocked'[a] = p.span
  BY <1>1, <1>2, <1>3 DEF PromiseOf
<1>5. p.span # {}
  BY <1>1 DEF VersionRows
<1>6. ASSUME NEW b \in AssignmentId \ {a}, guide[b] = guide[a]
      PROVE  Blocked[b] \cap Asked[a] = {}
  <2>1. CASE projection[b] = NoTour
    BY <2>1 DEF Blocked
  <2>2. CASE projection[b] # NoTour
    <3>1. projection[b] \in TourId \ {projection[a]} /\ tours[projection[b]] # NoRow
          /\ tours[projection[b]].guide = g
      BY <1>1, <1>6, <2>2, ProjectedTour
    <3>2. tours[projection[b]].span \cap p.span = {}
      BY <1>1, <3>1 DEF CalendarFree
    <3> QED
      BY <1>4, <2>2, <3>2 DEF Blocked
  <2> QED
    BY <2>1, <2>2
<1> QED
  BY <1>1, <1>4, <1>5, <1>6, PromiseMoves DEF Promise!Agree

LEMMA IntakeAsksToMove ==
  ASSUME PromiseInv, NEW a \in AssignmentId, NEW g \in Guide, NEW v \in Version,
         NEW p \in Package, IntakeCriticalVersion(a, g, v, p), [Next]_vars
  PROVE  \E s \in Span : Promise!AskToMove(a, s)
<1> USE AssignmentsAssumption
    DEF AssignmentsAssumption, PromiseInv, CalendarInv, TypeInv, TypeOK, AssignmentTypeOK
<1>1. /\ status[a] = "accepted" /\ pending[a] = 0 /\ pending'[a] = v
      /\ status' = status /\ guide' = guide /\ row' = row
      /\ versions'[a][v] = VersionRow("critical", p)
      /\ \A b \in AssignmentId \ {a} : versions'[b] = versions[b] /\ pending'[b] = pending[b]
  BY DEF IntakeCriticalVersion
<1>2. PromiseOf(a) /\ PromiseOf(a)'
  BY PromiseRead, PromiseReadNext
<1>3. v # 0 /\ versions'[a][v].package.span = p.span
  BY <1>1 DEF Version, VersionRow
<1>4. /\ Phase[a] = "committed" /\ Phase'[a] = Phase[a]
      /\ Asked[a] = {} /\ Asked'[a] = p.span /\ Blocked'[a] = Blocked[a]
  BY <1>1, <1>2, <1>3 DEF PromiseOf
<1>5. Phase' = Phase /\ Blocked' = Blocked
  BY <1>1, <1>4, PromiseMoves
<1> QED
  BY <1>1, <1>4, <1>5, PromiseMoves DEF Promise!AskToMove

LEMMA RejectRefuses ==
  ASSUME PromiseInv, NEW a \in AssignmentId, NEW g \in Guide, NEW v \in Version,
         RejectCritical(a, g, v), [Next]_vars
  PROVE  Promise!RefuseToMove(a)
<1> USE AssignmentsAssumption
    DEF AssignmentsAssumption, PromiseInv, CalendarInv, TypeInv, TypeOK, AssignmentTypeOK
<1>1. /\ status[a] = "accepted" /\ pending[a] = v /\ pending'[a] = 0
      /\ status' = status /\ guide' = guide /\ row' = row /\ versions' = versions
      /\ versions[a][v] # NoRow
      /\ \A b \in AssignmentId \ {a} : pending'[b] = pending[b]
  BY DEF RejectCritical, CriticalDecidable
<1>2. PromiseOf(a) /\ PromiseOf(a)'
  BY PromiseRead, PromiseReadNext
<1>3. v # 0
  BY DEF Version
<1>4. versions[a][v].package.span # {}
  <2>1. versions[a][v] \in VersionRows
    BY <1>1
  <2> QED
    BY <2>1 DEF VersionRows
<1>5. /\ Phase[a] = "committed" /\ Phase'[a] = Phase[a]
      /\ Asked[a] # {} /\ Asked'[a] = {} /\ Blocked'[a] = Blocked[a]
  BY <1>1, <1>2, <1>3, <1>4 DEF PromiseOf
<1>6. Phase' = Phase /\ Blocked' = Blocked
  BY <1>1, <1>5, PromiseMoves
<1> QED
  BY <1>1, <1>5, <1>6, PromiseMoves DEF Promise!RefuseToMove

(* Declining, closing an offer and cancelling end the dealings. *)
LEMMA ClosingEnds ==
  ASSUME PromiseInv, NEW a \in AssignmentId, [Next]_vars,
         status[a] \in {"offered", "accepted"},
         status' = [status EXCEPT ![a] = status'[a]],
         status'[a] \in {"declined", "withdrawn", "expired", "cancelled"},
         pending' = [pending EXCEPT ![a] = 0],
         UNCHANGED <<guide, row, versions>>
  PROVE  Promise!End(a)
<1> USE DEF PromiseInv, CalendarInv, TypeInv, TypeOK, AssignmentTypeOK
<1>1. PromiseOf(a) /\ PromiseOf(a)'
  BY PromiseRead, PromiseReadNext
<1>2. /\ Phase[a] \in {"asked", "committed"} /\ Phase'[a] = "over"
      /\ Asked'[a] = {} /\ Blocked'[a] = {}
  BY <1>1 DEF PromiseOf
<1>3. \A b \in AssignmentId \ {a} :
           /\ status'[b] = status[b] /\ row'[b] = row[b]
           /\ pending'[b] = pending[b] /\ versions'[b] = versions[b]
  OBVIOUS
<1> QED
  BY <1>2, <1>3, PromiseMoves DEF Promise!End

(* A step that moves no status, no dates and no pending version. *)
LEMMA PromiseStays ==
  ASSUME PromiseInv, [Next]_vars, UNCHANGED <<status, guide, row, pending>>,
         \A b \in AssignmentId : pending[b] # 0 => versions'[b] = versions[b]
  PROVE  UNCHANGED <<Phase, guide, Blocked, Asked>>
<1>1. \A b \in AssignmentId : PromiseOf(b) /\ PromiseOf(b)'
  BY PromiseRead, PromiseReadNext
<1>2. \A b \in AssignmentId :
        Phase'[b] = Phase[b] /\ Blocked'[b] = Blocked[b] /\ Asked'[b] = Asked[b]
  BY <1>1 DEF PromiseOf
<1>3. /\ Phase = [b \in AssignmentId |-> Phase[b]]
      /\ Phase' = [b \in AssignmentId |-> Phase'[b]]
      /\ Blocked = [b \in AssignmentId |-> Blocked[b]]
      /\ Blocked' = [b \in AssignmentId |-> Blocked'[b]]
      /\ Asked = [b \in AssignmentId |-> Asked[b]]
      /\ Asked' = [b \in AssignmentId |-> Asked'[b]]
  BY DEF Phase, Blocked, Asked
<1> QED
  BY <1>2, <1>3

LEMMA PromiseStep ==
  ASSUME PromiseInv, [Next]_vars
  PROVE  [Promise!Next]_(Promise!commitmentVars)
<1> USE DEF PromiseInv, CalendarInv, TypeInv, TypeOK, AssignmentTypeOK
<1> DEFINE Stays == UNCHANGED <<Phase, guide, Blocked, Asked>>
<1>1. CASE OperatorEvents
  <2>1. ASSUME NEW a \in AssignmentId, NEW g \in Guide, NEW c \in ConnectionId,
               NEW o \in Occupancies, NEW p \in Package, ReceiveOffer(a, g, c, o, p)
        PROVE  Promise!Next
    BY <2>1, OfferAsks DEF Promise!Next
  <2>2. ASSUME NEW a \in AssignmentId, NEW g \in Guide, NEW s \in {"withdrawn", "expired"},
               CloseOffer(a, g, s)
        PROVE  Promise!Next
    <3>1. pending[a] = 0
      <4>1. \A v \in Version : pending[a] # v
        BY <2>2 DEF CloseOffer, OfferOpen, VersionInv, VersionChainOf
      <4> QED
        BY <4>1 DEF Version
    <3>2. Promise!End(a)
      BY <2>2, <3>1, ClosingEnds DEF CloseOffer, OfferOpen, records
    <3> QED
      BY <3>2 DEF Promise!Next
  <2>3. ASSUME NEW a \in AssignmentId, NEW g \in Guide, NEW v \in Version, Cancel(a, g, v)
        PROVE  Promise!Next
    <3>1. Promise!End(a)
      BY <2>3, ClosingEnds DEF Cancel, records
    <3> QED
      BY <3>1 DEF Promise!Next
  <2>4. ASSUME NEW a \in AssignmentId, NEW g \in Guide, NEW v \in Version, NEW p \in Package,
               ApplyOrdinaryVersion(a, g, v, p)
        PROVE  Stays
    <3>1. NextVersion(a, v) /\ UNCHANGED <<status, guide, row, pending>>
          /\ \A b \in AssignmentId \ {a} : versions'[b] = versions[b]
      BY <2>4 DEF ApplyOrdinaryVersion
    <3>2. pending[a] = 0
      <4>1. \A w \in Version : pending[a] # w
        BY <3>1, PendingIsNext DEF NextVersion
      <4> QED
        BY <4>1 DEF Version
    <3> QED
      BY <3>1, <3>2, PromiseStays
  <2>5. ASSUME NEW a \in AssignmentId, NEW g \in Guide, NEW v \in Version, NEW p \in Package,
               IntakeCriticalVersion(a, g, v, p)
        PROVE  Promise!Next
    BY <2>5, IntakeAsksToMove DEF Promise!Next
  <2> QED
    BY <1>1, <2>1, <2>2, <2>3, <2>4, <2>5 DEF OperatorEvents, Promise!commitmentVars
<1>2. CASE GuideAnswers
  <2>1. ASSUME NEW a \in AssignmentId, NEW g \in Guide, Accept(a, g)
        PROVE  Promise!Next
    BY <2>1, AcceptAgrees DEF Promise!Next
  <2>2. ASSUME NEW a \in AssignmentId, NEW g \in Guide, Decline(a, g)
        PROVE  Promise!Next
    <3>1. pending[a] = 0
      <4>1. \A v \in Version : pending[a] # v
        BY <2>2 DEF Decline, OfferOpen, VersionInv, VersionChainOf
      <4> QED
        BY <4>1 DEF Version
    <3>2. Promise!End(a)
      BY <2>2, <3>1, ClosingEnds DEF Decline, OfferOpen
    <3> QED
      BY <3>2 DEF Promise!Next
  <2>3. ASSUME NEW a \in AssignmentId, NEW g \in Guide, NEW v \in Version,
               ConfirmCritical(a, g, v)
        PROVE  Promise!Next
    BY <2>3, ConfirmAgrees DEF Promise!Next
  <2>4. ASSUME NEW a \in AssignmentId, NEW g \in Guide, NEW v \in Version,
               RejectCritical(a, g, v)
        PROVE  Promise!Next
    BY <2>4, RejectRefuses DEF Promise!Next
  <2>5. ASSUME NEW a \in AssignmentId, NEW g \in Guide, NEW v \in Version,
               AcknowledgeVersion(a, g, v)
        PROVE  Stays
    BY <2>5, PromiseStays DEF AcknowledgeVersion
  <2> QED
    BY <1>2, <2>1, <2>2, <2>3, <2>4, <2>5 DEF GuideAnswers, Promise!commitmentVars
<1>3. CASE ConnectionSteps \/ GuideEdits \/ UNCHANGED vars
  <2>1. UNCHANGED <<status, guide, row, pending, versions>>
    BY <1>3 DEF ConnectionSteps, GuideEdits, GuideSavesEntry, GuideMovesEntries,
                GuideDeletesEntries, vars, columns, records
  <2> QED
    BY <2>1, PromiseStays DEF Promise!commitmentVars
<1> QED
  BY <1>1, <1>2, <1>3 DEF Next

LEMMA PromiseStart == Init => Promise!Init
BY AssignmentsAssumption
DEF AssignmentsAssumption, Init, Promise!Init, Phase, Blocked, Asked

(* The assignment service keeps the commitment: an operator's days enter,  *)
(* move on or leave a guide's calendar only by the guide's agreement or by *)
(* the operator giving them up, and never share a day.                     *)
THEOREM ServiceKeepsCommitment == Spec => CommitmentKept
<1>1. Init => PromiseInv
  BY InitCalendarInv, InitVersionInv DEF PromiseInv
<1>2. PromiseInv /\ [Next]_vars => PromiseInv'
  BY NextPromiseInv
<1>3. PromiseInv /\ [Next]_vars => [Promise!Next]_(Promise!commitmentVars)
  BY PromiseStep
<1> QED
  BY <1>1, <1>2, <1>3, PromiseStart, PTL DEF Spec, CommitmentKept, Promise!Spec

----------------------------------------------------------------------------
(* Answers.  A verdict is the success when every check passes, and the     *)
(* error of the last check when that is the only one to fail.              *)
Errors ==
  {"not_found", "not_actionable", "validation_error", "idempotency_conflict",
   "calendar_conflict"}

Passing(x) == x \in [holds : BOOLEAN, error : Errors] /\ x.holds

Passed(checks) ==
  /\ checks \in Seq([holds : BOOLEAN, error : Errors])
  /\ \A i \in DOMAIN checks : checks[i].holds

LEMMA CheckPasses ==
  ASSUME NEW p \in BOOLEAN, NEW e \in Errors, p
  PROVE  Passing(Check(p, e))
BY DEF Check, Passing

LEMMA OnePassed ==
  ASSUME NEW w, Passing(w)
  PROVE  Passed(<<w>>)
BY DEF Passed, Passing

LEMMA TwoPassed ==
  ASSUME NEW w, NEW x, Passing(w), Passing(x)
  PROVE  Passed(<<w, x>>)
BY DEF Passed, Passing

LEMMA ThreePassed ==
  ASSUME NEW w, NEW x, NEW y, Passing(w), Passing(x), Passing(y)
  PROVE  Passed(<<w, x, y>>)
BY DEF Passed, Passing

LEMMA FourPassed ==
  ASSUME NEW w, NEW x, NEW y, NEW z, Passing(w), Passing(x), Passing(y), Passing(z)
  PROVE  Passed(<<w, x, y, z>>)
BY DEF Passed, Passing

LEMMA FivePassed ==
  ASSUME NEW v, NEW w, NEW x, NEW y, NEW z,
         Passing(v), Passing(w), Passing(x), Passing(y), Passing(z)
  PROVE  Passed(<<v, w, x, y, z>>)
BY DEF Passed, Passing

LEMMA SixPassed ==
  ASSUME NEW u, NEW v, NEW w, NEW x, NEW y, NEW z,
         Passing(u), Passing(v), Passing(w), Passing(x), Passing(y), Passing(z)
  PROVE  Passed(<<u, v, w, x, y, z>>)
BY DEF Passed, Passing

LEMMA BothPassed ==
  ASSUME NEW s, NEW t, Passed(s), Passed(t)
  PROVE  Passed(s \o t)
BY DEF Passed

LEMMA PassedIsSuccess ==
  ASSUME NEW checks, NEW success, Passed(checks)
  PROVE  Verdict(checks, success) = success
BY DEF Verdict, Passed

LEMMA OneFails ==
  ASSUME NEW e, NEW success
  PROVE  Verdict(<<Check(FALSE, e)>>, success) = e
<1> DEFINE t == <<Check(FALSE, e)>>
           failed == {i \in DOMAIN t : ~t[i].holds}
<1>1. failed = {1} /\ t[1].error = e
  BY DEF Check
<1>2. Min(failed) = 1
  BY <1>1 DEF Min
<1> QED
  BY <1>1, <1>2 DEF Verdict

LEMMA LastFails ==
  ASSUME NEW s, Passed(s), NEW e, NEW success
  PROVE  Verdict(s \o <<Check(FALSE, e)>>, success) = e
<1> DEFINE t == s \o <<Check(FALSE, e)>>
           failed == {i \in DOMAIN t : ~t[i].holds}
<1>1. failed = {Len(s) + 1} /\ t[Len(s) + 1].error = e
  BY DEF Passed, Check
<1>2. Min(failed) = Len(s) + 1
  BY <1>1 DEF Min, Passed
<1> QED
  BY <1>1, <1>2 DEF Verdict

----------------------------------------------------------------------------
(* What is final.  A stored version is never written over, an assignment   *)
(* keeps its guide, and a status no handler leads out of stays; so does    *)
(* what an applied event left in the rows.                                 *)
LEMMA EditsAside ==
  ASSUME GuideEdits \/ UNCHANGED vars
  PROVE  UNCHANGED <<connVars, tableVars, columns, records>>
BY DEF GuideEdits, GuideSavesEntry, GuideMovesEntries, GuideDeletesEntries, vars

LEMMA StoredStays ==
  ASSUME VersionInv, [Next]_vars, NEW a \in AssignmentId, NEW v \in Version,
         versions[a][v] # NoRow
  PROVE  versions'[a][v] = versions[a][v]
<1> USE DEF VersionInv, TypeInv, TypeOK, AssignmentTypeOK
<1>1. CASE ConnectionSteps \/ GuideEdits \/ UNCHANGED vars
  BY <1>1, EditsAside DEF ConnectionSteps, records
<1>2. CASE OperatorEvents
  <2>1. ASSUME NEW b \in AssignmentId, NEW g \in Guide, NEW c \in ConnectionId,
               NEW o \in Occupancies, NEW p \in Package, ReceiveOffer(b, g, c, o, p)
        PROVE  versions'[a][v] = versions[a][v]
    <3>1. b # a
      BY <2>1 DEF ReceiveOffer, VersionsFromOffer
    <3> QED
      BY <2>1, <3>1 DEF ReceiveOffer
  <2>2. ASSUME NEW b \in AssignmentId, NEW g \in Guide, NEW w \in Version, NEW p \in Package,
               ApplyOrdinaryVersion(b, g, w, p) \/ IntakeCriticalVersion(b, g, w, p)
        PROVE  versions'[a][v] = versions[a][v]
    <3>1. PICK r : versions' = [versions EXCEPT ![b][w] = r] /\ versions[b][w] = NoRow
      BY <2>2 DEF ApplyOrdinaryVersion, IntakeCriticalVersion, NextVersion
    <3> QED
      BY <3>1
  <2>3. ASSUME NEW b \in AssignmentId, NEW g \in Guide, NEW s \in {"withdrawn", "expired"},
               CloseOffer(b, g, s)
        PROVE  versions'[a][v] = versions[a][v]
    BY <2>3 DEF CloseOffer, records
  <2>4. ASSUME NEW b \in AssignmentId, NEW g \in Guide, NEW w \in Version, Cancel(b, g, w)
        PROVE  versions'[a][v] = versions[a][v]
    BY <2>4 DEF Cancel, records
  <2> QED
    BY <1>2, <2>1, <2>2, <2>3, <2>4 DEF OperatorEvents
<1>3. CASE GuideAnswers
  <2>1. versions' = versions
    BY <1>3 DEF GuideAnswers, Accept, Decline, ConfirmCritical, RejectCritical,
                AcknowledgeVersion
  <2> QED
    BY <2>1
<1> QED
  BY <1>1, <1>2, <1>3 DEF Next

LEMMA StatusStays ==
  ASSUME TypeInv, [Next]_vars, NEW a \in AssignmentId, status[a] # "none"
  PROVE  /\ guide'[a] = guide[a] /\ status'[a] # "none"
         /\ status[a] \in {"declined", "withdrawn", "expired", "cancelled"} =>
              status'[a] = status[a]
<1> DEFINE Goal == /\ guide'[a] = guide[a] /\ status'[a] # "none"
                   /\ status[a] \in {"declined", "withdrawn", "expired", "cancelled"} =>
                        status'[a] = status[a]
<1> USE DEF TypeInv, TypeOK, AssignmentTypeOK
<1>1. CASE ConnectionSteps \/ GuideEdits \/ UNCHANGED vars
  BY <1>1, EditsAside DEF ConnectionSteps, columns
<1>2. CASE OperatorEvents
  <2>1. ASSUME NEW b \in AssignmentId, NEW g \in Guide, NEW c \in ConnectionId,
               NEW o \in Occupancies, NEW p \in Package, ReceiveOffer(b, g, c, o, p)
        PROVE  Goal
    BY <2>1 DEF ReceiveOffer
  <2>2. ASSUME NEW b \in AssignmentId, NEW g \in Guide, NEW w \in Version, NEW p \in Package,
               ApplyOrdinaryVersion(b, g, w, p) \/ IntakeCriticalVersion(b, g, w, p)
        PROVE  Goal
    BY <2>2 DEF ApplyOrdinaryVersion, IntakeCriticalVersion
  <2>3. ASSUME NEW b \in AssignmentId, NEW g \in Guide, NEW s \in {"withdrawn", "expired"},
               CloseOffer(b, g, s)
        PROVE  Goal
    BY <2>3 DEF CloseOffer, OfferOpen
  <2>4. ASSUME NEW b \in AssignmentId, NEW g \in Guide, NEW w \in Version, Cancel(b, g, w)
        PROVE  Goal
    BY <2>4 DEF Cancel
  <2> QED
    BY <1>2, <2>1, <2>2, <2>3, <2>4 DEF OperatorEvents
<1>3. CASE GuideAnswers
  <2>1. ASSUME NEW b \in AssignmentId, NEW g \in Guide, Accept(b, g) \/ Decline(b, g)
        PROVE  Goal
    BY <2>1 DEF Accept, Decline, OfferOpen
  <2>2. ASSUME NEW b \in AssignmentId, NEW g \in Guide, NEW v \in Version,
               \/ ConfirmCritical(b, g, v) \/ RejectCritical(b, g, v)
               \/ AcknowledgeVersion(b, g, v)
        PROVE  Goal
    BY <2>2 DEF ConfirmCritical, RejectCritical, AcknowledgeVersion
  <2> QED
    BY <1>3, <2>1, <2>2 DEF GuideAnswers
<1> QED
  BY <1>1, <1>2, <1>3 DEF Next

(* The guide's answers touch no connection and no event. *)
LEMMA AnswersAside ==
  ASSUME GuideAnswers
  PROVE  UNCHANGED connVars /\ inbox' = inbox
<1>1. ASSUME NEW a \in AssignmentId, NEW g \in Guide, Accept(a, g) \/ Decline(a, g)
      PROVE  UNCHANGED connVars /\ inbox' = inbox
  BY <1>1 DEF Accept, Decline
<1>2. ASSUME NEW a \in AssignmentId, NEW g \in Guide, NEW v \in Version,
             ConfirmCritical(a, g, v) \/ RejectCritical(a, g, v) \/ AcknowledgeVersion(a, g, v)
      PROVE  UNCHANGED connVars /\ inbox' = inbox
  BY <1>2 DEF ConfirmCritical, RejectCritical, AcknowledgeVersion
<1> QED
  BY <1>1, <1>2 DEF GuideAnswers

LEMMA EventsAside ==
  ASSUME OperatorEvents
  PROVE  UNCHANGED connVars
BY DEF OperatorEvents, ReceiveOffer, CloseOffer, Cancel, ApplyOrdinaryVersion,
       IntakeCriticalVersion

LEMMA ConnectionStays ==
  ASSUME TypeInv, [Next]_vars, NEW c \in ConnectionId, connStatus[c] # "none"
  PROVE  /\ connGuide'[c] = connGuide[c] /\ connStatus'[c] # "none"
         /\ connStatus[c] = "disconnected" => connStatus'[c] = "disconnected"
<1> USE DEF TypeInv, TypeOK, ConnTypeOK, ConnStatus
<1>1. CASE UNCHANGED connVars
  BY <1>1 DEF connVars
<1>2. CASE ConnNext
  BY <1>2 DEF ConnNext, InvitationLapses, ReceiveConnectionInvitation,
              ReceiveConnectionDisconnect, DecideConnection, InvitationOpen
<1> QED
  BY <1>1, <1>2, EditsAside, EventsAside, AnswersAside DEF Next, ConnectionSteps

----------------------------------------------------------------------------
(* The inbox: what an applied event left in the rows. *)
EventApplied(e) ==
  \/ /\ e.kind = "connection_invited" /\ e.about \in ConnectionId
     /\ connStatus[e.about] # "none"
  \/ /\ e.kind = "connection_disconnected" /\ e.about \in ConnectionId
     /\ connStatus[e.about] = "disconnected" /\ connGuide[e.about] = e.guide
  \/ /\ e.kind = "offered" /\ e.about \in AssignmentId
     /\ status[e.about] # "none"
  \/ /\ e.kind = "closed" /\ e.about \in AssignmentId /\ e.status \in {"withdrawn", "expired"}
     /\ guide[e.about] = e.guide /\ status[e.about] = e.status
  \/ /\ e.kind = "cancelled" /\ e.about \in AssignmentId
     /\ guide[e.about] = e.guide /\ status[e.about] = "cancelled"
  \/ /\ e.kind = "published" /\ e.about \in AssignmentId /\ e.version \in Version
     /\ e.severity \in {"ordinary", "critical"} /\ guide[e.about] = e.guide
     /\ versions[e.about][e.version] = VersionRow(e.severity, e.package)
     /\ versions[e.about][e.version] # NoRow /\ status[e.about] # "none"

InboxInv ==
  /\ VersionInv
  /\ \A e \in inbox : EventApplied(e)
  /\ \A c \in ConnectionId :
       connStatus[c] = "disconnected" => Disconnection(c, connGuide[c]) \in inbox

LEMMA AppliedStays ==
  ASSUME VersionInv, [Next]_vars, NEW e, EventApplied(e)
  PROVE  EventApplied(e)'
<1>1. TypeInv
  BY DEF VersionInv
<1> QED
  BY <1>1, StoredStays, StatusStays, ConnectionStays DEF EventApplied

(* Every event a step applies says what the step did. *)
LEMMA NextApplied ==
  ASSUME VersionInv, [Next]_vars, NEW e \in inbox' \ inbox
  PROVE  EventApplied(e)'
<1> USE DEF VersionInv, TypeInv, TypeOK, ConnTypeOK, AssignmentTypeOK
<1>1. CASE GuideEdits \/ UNCHANGED vars
  BY <1>1, EditsAside DEF tableVars
<1>2. CASE ConnectionSteps
  <2>1. ASSUME NEW c \in ConnectionId, NEW g \in Guide, ReceiveConnectionInvitation(c, g)
        PROVE  EventApplied(e)'
    BY <2>1 DEF ReceiveConnectionInvitation, Invitation, EventApplied
  <2>2. ASSUME NEW c \in ConnectionId, NEW g \in Guide, ReceiveConnectionDisconnect(c, g)
        PROVE  EventApplied(e)'
    BY <2>2 DEF ReceiveConnectionDisconnect, Disconnection, EventApplied
  <2>3. ASSUME NEW c \in ConnectionId, InvitationLapses(c)
        PROVE  EventApplied(e)'
    BY <2>3 DEF InvitationLapses, tableVars
  <2>4. ASSUME NEW c \in ConnectionId, NEW g \in Guide, NEW d, DecideConnection(c, g, d)
        PROVE  EventApplied(e)'
    BY <2>4 DEF DecideConnection
  <2> QED
    BY <1>2, <2>1, <2>2, <2>3, <2>4 DEF ConnectionSteps, ConnNext
<1>3. CASE OperatorEvents
  <2>1. ASSUME NEW a \in AssignmentId, NEW g \in Guide, NEW c \in ConnectionId,
               NEW o \in Occupancies, NEW p \in Package, ReceiveOffer(a, g, c, o, p)
        PROVE  EventApplied(e)'
    <3>1. /\ e.kind = "offered" /\ e.about = a
      BY <2>1 DEF ReceiveOffer, Apply, Offered
    <3> QED
      BY <2>1, <3>1 DEF ReceiveOffer, EventApplied
  <2>2. ASSUME NEW a \in AssignmentId, NEW g \in Guide, NEW v \in Version, NEW p \in Package,
               ApplyOrdinaryVersion(a, g, v, p) \/ IntakeCriticalVersion(a, g, v, p)
        PROVE  EventApplied(e)'
    <3>1. PICK severity \in {"ordinary", "critical"} :
            /\ inbox' = inbox \cup {Published(a, g, v, severity, p)}
            /\ versions' = [versions EXCEPT ![a][v] = VersionRow(severity, p)]
            /\ guide[a] = g /\ status[a] = "accepted" /\ guide' = guide /\ status' = status
      BY <2>2 DEF ApplyOrdinaryVersion, IntakeCriticalVersion, Apply
    <3>2. /\ e.kind = "published" /\ e.about = a /\ e.version = v /\ e.guide = g
          /\ e.severity = severity /\ e.package = p
      BY <3>1 DEF Published
    <3>3. VersionRow(severity, p) \in VersionRows
      BY DEF VersionRow, VersionRows
    <3>4. VersionRow(severity, p) # NoRow
      BY <3>3, AssignmentsAssumption DEF AssignmentsAssumption
    <3>5. versions'[a][v] = VersionRow(severity, p)
      BY <3>1
    <3> QED
      BY <3>1, <3>2, <3>4, <3>5 DEF EventApplied
  <2>3. ASSUME NEW a \in AssignmentId, NEW g \in Guide, NEW s \in {"withdrawn", "expired"},
               CloseOffer(a, g, s)
        PROVE  EventApplied(e)'
    <3>1. e.kind = "closed" /\ e.about = a /\ e.guide = g /\ e.status = s
      BY <2>3 DEF CloseOffer, Apply, Closed
    <3> QED
      BY <2>3, <3>1 DEF CloseOffer, OfferOpen, EventApplied
  <2>4. ASSUME NEW a \in AssignmentId, NEW g \in Guide, NEW v \in Version, Cancel(a, g, v)
        PROVE  EventApplied(e)'
    <3>1. e.kind = "cancelled" /\ e.about = a /\ e.guide = g
      BY <2>4 DEF Cancel, Apply, Cancelled
    <3> QED
      BY <2>4, <3>1 DEF Cancel, EventApplied
  <2> QED
    BY <1>3, <2>1, <2>2, <2>3, <2>4 DEF OperatorEvents
<1>4. CASE GuideAnswers
  BY <1>4, AnswersAside
<1> QED
  BY <1>1, <1>2, <1>3, <1>4 DEF Next

(* Applied events are not forgotten. *)
LEMMA InboxGrows ==
  ASSUME [Next]_vars
  PROVE  inbox \subseteq inbox'
<1>1. CASE GuideEdits \/ UNCHANGED vars
  BY <1>1, EditsAside DEF tableVars
<1>2. CASE ConnectionSteps
  BY <1>2 DEF ConnectionSteps, ConnNext, InvitationLapses, ReceiveConnectionInvitation,
              ReceiveConnectionDisconnect, DecideConnection, tableVars
<1>3. CASE OperatorEvents
  BY <1>3 DEF OperatorEvents, ReceiveOffer, CloseOffer, Cancel, ApplyOrdinaryVersion,
              IntakeCriticalVersion, Apply
<1>4. CASE GuideAnswers
  BY <1>4, AnswersAside
<1> QED
  BY <1>1, <1>2, <1>3, <1>4 DEF Next

LEMMA NextInboxInv ==
  ASSUME InboxInv, [Next]_vars
  PROVE  InboxInv'
<1>1. VersionInv' /\ TypeInv
  BY NextVersionInv DEF InboxInv, VersionInv
<1>2. \A e \in inbox' : EventApplied(e)'
  BY NextApplied, AppliedStays DEF InboxInv
<1>3. ASSUME NEW c \in ConnectionId, connStatus'[c] = "disconnected"
      PROVE  Disconnection(c, connGuide'[c]) \in inbox'
  <2>1. CASE connStatus[c] = "disconnected"
    BY <1>1, <2>1, ConnectionStays, InboxGrows DEF InboxInv
  <2>2. CASE connStatus[c] # "disconnected"
    <3>1. ConnNext
      BY <1>3, <2>2, EditsAside, EventsAside, AnswersAside DEF Next, ConnectionSteps, connVars
    <3>2. PICK g \in Guide : ReceiveConnectionDisconnect(c, g)
      BY <1>1, <1>3, <2>2, <3>1
      DEF TypeInv, TypeOK, ConnTypeOK, ConnNext, InvitationLapses, ReceiveConnectionInvitation,
          ReceiveConnectionDisconnect, DecideConnection
    <3> QED
      BY <3>2 DEF ReceiveConnectionDisconnect
  <2> QED
    BY <2>1, <2>2
<1> QED
  BY <1>1, <1>2, <1>3 DEF InboxInv

----------------------------------------------------------------------------
(* The facts queued for the operator, each with the rows it speaks of. *)
VersionReported(a, v) ==
  /\ Fact("assignment.version.applied.ack.v1", a, v, None) \in outbox <=>
       versions[a][v] # NoRow /\ versions[a][v].severity = "ordinary"
  /\ Fact("assignment.version.received.ack.v1", a, v, None) \in outbox <=>
       versions[a][v] # NoRow /\ versions[a][v].severity = "critical"
  /\ Fact("assignment.critical_version.decided.v1", a, v, "confirm_critical") \in outbox <=>
       criticalDecision[a][v] = "confirm_critical"
  /\ Fact("assignment.version.acknowledged.v1", a, v, None) \in outbox <=> v \in acked[a]
  /\ CancelReported(a, v) <=> status[a] = "cancelled" /\ active[a] = v
  /\ v \in acked[a] => v <= active[a]
  /\ versions[a][v] # NoRow /\ versions[a][v].severity = "initial" => v = 1

AnswerReported(a) ==
  /\ decision[a] = "accept" <=> status[a] \in {"accepted", "cancelled"}
  /\ status[a] \in {"none", "offered"} => decision[a] = None
  /\ AcceptReported(a) <=> decision[a] = "accept"

(* The mark on an unread version stands for a row without its answer. *)
UnreadTold(a) ==
  /\ status[a] # "none" => active[a] \in Version
  /\ unread[a] <=>
       /\ active[a] \in Version /\ versions[a][active[a]] # NoRow
       /\ versions[a][active[a]].severity = "ordinary" /\ active[a] \notin acked[a]

ReportedOf(a) ==
  /\ AnswerReported(a)
  /\ UnreadTold(a)
  /\ \A v \in Version : VersionReported(a, v)

ReportInv == VersionInv /\ \A a \in AssignmentId : ReportedOf(a)

LEMMA FactsApart ==
  ASSUME NEW t, NEW a, NEW v, NEW x, outbox' = outbox \cup {Fact(t, a, v, x)}
  PROVE  \A u, b, w, y :
           Fact(u, b, w, y) \in outbox' <=>
             Fact(u, b, w, y) \in outbox \/ (u = t /\ b = a /\ w = v /\ y = x)
BY DEF Fact

(* The facts about b, and its columns, as they were. *)
LEMMA ReportsUntouched ==
  ASSUME NEW b \in AssignmentId, ReportedOf(b),
         \A u \in AssignmentFactTypes : \A v, x :
           Fact(u, b, v, x) \in outbox' <=> Fact(u, b, v, x) \in outbox,
         status'[b] = status[b], active'[b] = active[b], unread'[b] = unread[b],
         versions'[b] = versions[b], decision'[b] = decision[b],
         criticalDecision'[b] = criticalDecision[b], acked'[b] = acked[b]
  PROVE  ReportedOf(b)'
<1>1. AnswerReported(b)' /\ UnreadTold(b)'
  BY DEF ReportedOf, AnswerReported, UnreadTold, AcceptReported, AssignmentFactTypes
<1>2. \A v \in Version : VersionReported(b, v)'
  BY DEF ReportedOf, VersionReported, CancelReported, AssignmentFactTypes
<1> QED
  BY <1>1, <1>2 DEF ReportedOf

LEMMA ConnectionReports ==
  ASSUME ConnNext
  PROVE  \A u, b, v, x :
           u # "guide_connection.decided.v1" =>
             (Fact(u, b, v, x) \in outbox' <=> Fact(u, b, v, x) \in outbox)
<1>1. ASSUME NEW c \in ConnectionId, NEW g \in Guide, NEW d, DecideConnection(c, g, d)
      PROVE  outbox' = outbox \cup {Fact("guide_connection.decided.v1", c, 0, d)}
  BY <1>1 DEF DecideConnection
<1>2. ASSUME NEW c \in ConnectionId,
             \/ InvitationLapses(c)
             \/ \E g \in Guide : ReceiveConnectionInvitation(c, g)
                                  \/ ReceiveConnectionDisconnect(c, g)
      PROVE  outbox' = outbox
  BY <1>2 DEF InvitationLapses, ReceiveConnectionInvitation, ReceiveConnectionDisconnect,
              tableVars
<1> QED
  BY <1>1, <1>2, FactsApart DEF ConnNext

LEMMA OthersReported ==
  ASSUME ReportInv, NEW a \in AssignmentId,
         \/ outbox' = outbox
         \/ \E t, v, x : outbox' = outbox \cup {Fact(t, a, v, x)},
         NEW b \in AssignmentId \ {a},
         status'[b] = status[b], active'[b] = active[b], unread'[b] = unread[b],
         versions'[b] = versions[b], decision'[b] = decision[b],
         criticalDecision'[b] = criticalDecision[b], acked'[b] = acked[b]
  PROVE  ReportedOf(b)'
<1>1. \A u, v, x : Fact(u, b, v, x) \in outbox' <=> Fact(u, b, v, x) \in outbox
  BY FactsApart
<1> QED
  BY <1>1, ReportsUntouched DEF ReportInv

LEMMA OfferReports ==
  ASSUME ReportInv, NEW a \in AssignmentId, NEW g \in Guide, NEW c \in ConnectionId,
         NEW o \in Occupancies, NEW p \in Package, ReceiveOffer(a, g, c, o, p)
  PROVE  \A b \in AssignmentId : ReportedOf(b)'
<1> USE AssignmentsAssumption
    DEF AssignmentsAssumption, ReportInv, VersionInv, TypeInv, TypeOK, AssignmentTypeOK, Version
<1>1. /\ status[a] = "none" /\ status' = [status EXCEPT ![a] = "offered"]
      /\ active' = [active EXCEPT ![a] = 1]
      /\ versions' = [versions EXCEPT ![a][1] = VersionRow("initial", p)]
      /\ UNCHANGED <<outbox, unread, decision, criticalDecision, acked>>
  BY DEF ReceiveOffer
<1>2. active[a] = 0 /\ \A v \in Version : versions[a][v] = NoRow
  BY <1>1 DEF VersionsFromOffer
<1>3. /\ versions'[a][1] = VersionRow("initial", p) /\ versions'[a][1].severity = "initial"
      /\ \A v \in Version : v # 1 => versions'[a][v] = versions[a][v]
  BY <1>1 DEF VersionRow
<1>4. 1 \in Version /\ status'[a] = "offered" /\ active'[a] = 1
  BY <1>1
<1> HIDE DEF VersionInv, TypeInv, TypeOK, AssignmentTypeOK, Version, AssignmentsAssumption
<1>5. AnswerReported(a)'
  BY <1>1, <1>4 DEF ReportedOf, AnswerReported, AcceptReported
<1>6. UnreadTold(a)'
  <2>1. 0 \notin Version
    BY DEF Version
  <2> QED
    BY <1>1, <1>2, <1>3, <1>4, <2>1 DEF ReportedOf, UnreadTold
<1>7. ASSUME NEW v \in Version
      PROVE  VersionReported(a, v)'
  <2>1. VersionReported(a, v) /\ versions[a][v] = NoRow
    BY <1>2 DEF ReportedOf
  <2>2. v \notin acked[a]
    <3>1. ~ v <= 0
      BY DEF Version
    <3> QED
      BY <1>2, <2>1, <3>1 DEF VersionReported
  <2> QED
    BY <1>1, <1>3, <1>4, <2>1, <2>2 DEF VersionReported, CancelReported
<1>8. \A b \in AssignmentId \ {a} :
        status'[b] = status[b] /\ active'[b] = active[b] /\ versions'[b] = versions[b]
  BY <1>1 DEF VersionInv, TypeInv, TypeOK, AssignmentTypeOK
<1> QED
  BY <1>1, <1>5, <1>6, <1>7, <1>8, OthersReported DEF ReportedOf

(* The offer is answered or closed, or the assignment cancelled: the       *)
(* versions stay as they are.                                              *)
LEMMA StatusReports ==
  ASSUME ReportInv, NEW a \in AssignmentId, NEW g \in Guide,
         \/ Accept(a, g) \/ Decline(a, g)
         \/ \E s \in {"withdrawn", "expired"} : CloseOffer(a, g, s)
         \/ \E v \in Version : Cancel(a, g, v)
  PROVE  \A b \in AssignmentId : ReportedOf(b)'
<1> USE DEF ReportInv, VersionInv, TypeInv, TypeOK, AssignmentTypeOK
<1>1. /\ UNCHANGED <<active, unread, versions, criticalDecision, acked>>
      /\ status[a] # "none" /\ status'[a] # "none"
      /\ \A b \in AssignmentId \ {a} : status'[b] = status[b] /\ decision'[b] = decision[b]
      /\ \/ outbox' = outbox
         \/ \E t, v, x : outbox' = outbox \cup {Fact(t, a, v, x)}
  <2>1. ASSUME NEW d \in {"accept", "decline"},
               \/ d = "accept" /\ Accept(a, g)
               \/ d = "decline" /\ Decline(a, g)
        PROVE  /\ UNCHANGED <<active, unread, versions, criticalDecision, acked>>
               /\ status[a] # "none" /\ status'[a] # "none"
               /\ \A b \in AssignmentId \ {a} :
                    status'[b] = status[b] /\ decision'[b] = decision[b]
               /\ outbox' = outbox \cup {Fact("assignment.decision.v1", a, 1, d)}
    <3>1. CASE d = "accept"
      BY <2>1, <3>1 DEF Accept, OfferOpen, Report
    <3>2. CASE d = "decline"
      BY <2>1, <3>2 DEF Decline, OfferOpen, Report
    <3> QED
      BY <3>1, <3>2
  <2>2. ASSUME NEW s \in {"withdrawn", "expired"}, CloseOffer(a, g, s)
        PROVE  /\ UNCHANGED <<active, unread, records, outbox>>
               /\ status[a] # "none" /\ status'[a] # "none"
               /\ \A b \in AssignmentId \ {a} : status'[b] = status[b]
    BY <2>2 DEF CloseOffer, OfferOpen
  <2>3. ASSUME NEW v \in Version, Cancel(a, g, v)
        PROVE  /\ UNCHANGED <<active, unread, records>>
               /\ status[a] # "none" /\ status'[a] # "none"
               /\ \A b \in AssignmentId \ {a} : status'[b] = status[b]
               /\ outbox' = outbox \cup {Fact("assignment.cancellation.ack.v1", a, v, None)}
    BY <2>3 DEF Cancel, Report
  <2> HIDE DEF VersionInv, TypeInv, TypeOK, AssignmentTypeOK, ReportInv
  <2>4. CASE Accept(a, g)
    BY <2>4, <2>1
  <2>5. CASE Decline(a, g)
    BY <2>5, <2>1
  <2>6. CASE \E s \in {"withdrawn", "expired"} : CloseOffer(a, g, s)
    BY <2>6, <2>2 DEF records
  <2>7. CASE \E v \in Version : Cancel(a, g, v)
    BY <2>7, <2>3 DEF records
  <2> QED
    BY <2>4, <2>5, <2>6, <2>7
<1>2. UnreadTold(a)'
  BY <1>1 DEF ReportedOf, UnreadTold
<1>3. CASE Accept(a, g)
  <2>1. /\ status[a] = "offered" /\ status'[a] = "accepted"
        /\ decision'[a] = "accept"
        /\ outbox' = outbox \cup {Fact("assignment.decision.v1", a, 1, "accept")}
    BY <1>3 DEF Accept, OfferOpen, Report
  <2> HIDE DEF VersionInv, TypeInv, TypeOK, AssignmentTypeOK
  <2>2. AnswerReported(a)'
    BY <2>1, FactsApart DEF AnswerReported, AcceptReported
  <2>3. \A v \in Version : VersionReported(a, v)'
    BY <1>1, <2>1, FactsApart DEF ReportedOf, VersionReported, CancelReported
  <2> QED
    BY <1>1, <1>2, <2>2, <2>3, OthersReported DEF ReportedOf
<1>4. CASE Decline(a, g)
  <2>1. /\ status[a] = "offered" /\ status'[a] = "declined"
        /\ decision[a] = None /\ decision'[a] = "decline"
        /\ outbox' = outbox \cup {Fact("assignment.decision.v1", a, 1, "decline")}
    BY <1>4 DEF Decline, OfferOpen, Report
  <2> HIDE DEF VersionInv, TypeInv, TypeOK, AssignmentTypeOK
  <2>2. AnswerReported(a)'
    BY <2>1, FactsApart DEF ReportedOf, AnswerReported, AcceptReported, None
  <2>3. \A v \in Version : VersionReported(a, v)'
    BY <1>1, <2>1, FactsApart DEF ReportedOf, VersionReported, CancelReported
  <2> QED
    BY <1>1, <1>2, <2>2, <2>3, OthersReported DEF ReportedOf
<1>5. ASSUME NEW s \in {"withdrawn", "expired"}, CloseOffer(a, g, s)
      PROVE  \A b \in AssignmentId : ReportedOf(b)'
  <2>1. /\ status[a] = "offered" /\ status'[a] = s
        /\ decision' = decision /\ outbox' = outbox
    BY <1>5 DEF CloseOffer, OfferOpen, records
  <2> HIDE DEF VersionInv, TypeInv, TypeOK, AssignmentTypeOK
  <2>2. AnswerReported(a)'
    BY <2>1 DEF ReportedOf, AnswerReported, AcceptReported, None
  <2>3. \A v \in Version : VersionReported(a, v)'
    BY <1>1, <2>1 DEF ReportedOf, VersionReported, CancelReported
  <2> QED
    BY <1>1, <1>2, <2>2, <2>3, OthersReported DEF ReportedOf
<1>6. ASSUME NEW w \in Version, Cancel(a, g, w)
      PROVE  \A b \in AssignmentId : ReportedOf(b)'
  <2>1. /\ status[a] = "accepted" /\ status'[a] = "cancelled" /\ active[a] = w
        /\ decision' = decision
        /\ outbox' = outbox \cup {Fact("assignment.cancellation.ack.v1", a, w, None)}
    BY <1>6 DEF Cancel, Report, records
  <2> HIDE DEF VersionInv, TypeInv, TypeOK, AssignmentTypeOK
  <2>2. AnswerReported(a)'
    BY <2>1, FactsApart DEF ReportedOf, AnswerReported, AcceptReported
  <2>3. \A v \in Version : VersionReported(a, v)'
    BY <1>1, <2>1, FactsApart DEF ReportedOf, VersionReported, CancelReported
  <2> QED
    BY <1>1, <1>2, <2>2, <2>3, OthersReported DEF ReportedOf
<1> QED
  BY <1>3, <1>4, <1>5, <1>6

LEMMA OrdinaryReports ==
  ASSUME ReportInv, NEW a \in AssignmentId, NEW g \in Guide, NEW w \in Version,
         NEW p \in Package, ApplyOrdinaryVersion(a, g, w, p)
  PROVE  \A b \in AssignmentId : ReportedOf(b)'
<1> USE DEF ReportInv, VersionInv, TypeInv, TypeOK, AssignmentTypeOK
<1>1. /\ status[a] = "accepted" /\ w = active[a] + 1 /\ versions[a][w] = NoRow
      /\ UNCHANGED <<status, decision, criticalDecision, acked>>
      /\ versions' = [versions EXCEPT ![a][w] = VersionRow("ordinary", p)]
      /\ active' = [active EXCEPT ![a] = w] /\ unread' = [unread EXCEPT ![a] = TRUE]
      /\ outbox' = outbox \cup {Fact("assignment.version.applied.ack.v1", a, w, None)}
  BY DEF ApplyOrdinaryVersion, NextVersion, Report
<1>2. VersionRow("ordinary", p) # NoRow
  <2>1. VersionRow("ordinary", p) \in VersionRows
    BY DEF VersionRow, VersionRows
  <2> QED
    BY <2>1, AssignmentsAssumption DEF AssignmentsAssumption
<1>3. /\ versions'[a][w] # NoRow /\ versions'[a][w].severity = "ordinary"
      /\ \A v \in Version : v # w => versions'[a][v] = versions[a][v]
      /\ active'[a] = w /\ unread'[a] = TRUE
      /\ \A b \in AssignmentId \ {a} :
           active'[b] = active[b] /\ versions'[b] = versions[b] /\ unread'[b] = unread[b]
  BY <1>1, <1>2 DEF VersionRow
<1>4. active[a] < w /\ active[a] \in Nat /\ w \in Nat
  BY <1>1, AssignmentsAssumption DEF AssignmentsAssumption, Version
<1> HIDE DEF VersionInv, TypeInv, TypeOK, AssignmentTypeOK
<1>5. \A v \in acked[a] : v \in Version => v < w
  <2> SUFFICES ASSUME NEW v \in Version, v \in acked[a]
               PROVE  v < w
    OBVIOUS
  <2>1. v <= active[a] /\ v \in Nat
    BY AssignmentsAssumption DEF AssignmentsAssumption, ReportedOf, VersionReported, Version
  <2> QED
    BY <1>4, <2>1
<1>6. w \notin acked[a]
  BY <1>4, <1>5
<1>7. AnswerReported(a)'
  BY <1>1, FactsApart DEF ReportedOf, AnswerReported, AcceptReported
<1>8. UnreadTold(a)'
  BY <1>1, <1>3, <1>6 DEF UnreadTold
<1>9. ASSUME NEW v \in Version
      PROVE  VersionReported(a, v)'
  <2>1. VersionReported(a, v)
    BY DEF ReportedOf
  <2>2. v \in acked'[a] => v <= active'[a]
    <3>1. v \in Nat
      BY AssignmentsAssumption DEF AssignmentsAssumption, Version
    <3> QED
      BY <1>1, <1>3, <1>4, <1>5, <3>1
  <2> QED
    BY <1>1, <1>3, <2>1, <2>2, FactsApart DEF VersionReported, CancelReported, None
<1>10. ASSUME NEW b \in AssignmentId \ {a}
       PROVE  ReportedOf(b)'
  BY <1>1, <1>3, <1>10, OthersReported
<1> QED
  BY <1>7, <1>8, <1>9, <1>10 DEF ReportedOf

LEMMA IntakeReports ==
  ASSUME ReportInv, NEW a \in AssignmentId, NEW g \in Guide, NEW w \in Version,
         NEW p \in Package, IntakeCriticalVersion(a, g, w, p)
  PROVE  \A b \in AssignmentId : ReportedOf(b)'
<1> USE DEF ReportInv, VersionInv, TypeInv, TypeOK, AssignmentTypeOK
<1>1. /\ status[a] = "accepted" /\ w = active[a] + 1 /\ versions[a][w] = NoRow
      /\ UNCHANGED <<status, active, unread, decision, criticalDecision, acked>>
      /\ versions' = [versions EXCEPT ![a][w] = VersionRow("critical", p)]
      /\ outbox' = outbox \cup {Fact("assignment.version.received.ack.v1", a, w, None)}
  BY DEF IntakeCriticalVersion, NextVersion, Report
<1>2. VersionRow("critical", p) # NoRow
  <2>1. VersionRow("critical", p) \in VersionRows
    BY DEF VersionRow, VersionRows
  <2> QED
    BY <2>1, AssignmentsAssumption DEF AssignmentsAssumption
<1>3. /\ versions'[a][w] # NoRow /\ versions'[a][w].severity = "critical"
      /\ \A v \in Version : v # w => versions'[a][v] = versions[a][v]
      /\ \A b \in AssignmentId \ {a} : versions'[b] = versions[b]
  BY <1>1, <1>2 DEF VersionRow
<1>4. active[a] # w
  BY <1>1, AssignmentsAssumption DEF AssignmentsAssumption, Version
<1> HIDE DEF VersionInv, TypeInv, TypeOK, AssignmentTypeOK
<1>5. AnswerReported(a)'
  BY <1>1, FactsApart DEF ReportedOf, AnswerReported, AcceptReported
<1>6. UnreadTold(a)'
  BY <1>1, <1>3, <1>4 DEF ReportedOf, UnreadTold
<1>7. ASSUME NEW v \in Version
      PROVE  VersionReported(a, v)'
  <2>1. VersionReported(a, v)
    BY DEF ReportedOf
  <2> QED
    BY <1>1, <1>3, <2>1, FactsApart DEF VersionReported, CancelReported, None
<1> QED
  BY <1>1, <1>3, <1>5, <1>6, <1>7, OthersReported DEF ReportedOf

LEMMA DecisionReports ==
  ASSUME ReportInv, NEW a \in AssignmentId, NEW g \in Guide, NEW w \in Version,
         NEW d \in {"confirm_critical", "reject_critical"},
         \/ d = "confirm_critical" /\ ConfirmCritical(a, g, w)
         \/ d = "reject_critical" /\ RejectCritical(a, g, w)
  PROVE  \A b \in AssignmentId : ReportedOf(b)'
<1> USE DEF ReportInv, VersionInv, TypeInv, TypeOK, AssignmentTypeOK
<1>1. /\ status[a] = "accepted" /\ pending[a] = w /\ criticalDecision[a][w] = None
      /\ versions[a][w] # NoRow /\ versions[a][w].severity = "critical"
      /\ UNCHANGED <<status, versions, decision, acked>>
      /\ criticalDecision' = [criticalDecision EXCEPT ![a][w] = d]
      /\ outbox' = outbox \cup {Fact("assignment.critical_version.decided.v1", a, w, d)}
  BY DEF ConfirmCritical, RejectCritical, CriticalDecidable, Report
<1>2. /\ criticalDecision'[a][w] = d
      /\ \A v \in Version : v # w => criticalDecision'[a][v] = criticalDecision[a][v]
      /\ \A b \in AssignmentId \ {a} : criticalDecision'[b] = criticalDecision[b]
  BY <1>1
<1>3. w = active[a] + 1 /\ active[a] \in Nat
  BY <1>1, PendingIsNext, AssignmentsAssumption DEF AssignmentsAssumption
<1>4. /\ d = "confirm_critical" => active'[a] = w /\ unread'[a] = FALSE
      /\ d = "reject_critical" => active'[a] = active[a] /\ unread'[a] = unread[a]
      /\ \A b \in AssignmentId \ {a} : active'[b] = active[b] /\ unread'[b] = unread[b]
  BY DEF ConfirmCritical, RejectCritical
<1> HIDE DEF VersionInv, TypeInv, TypeOK, AssignmentTypeOK
<1>5. AnswerReported(a)'
  BY <1>1, FactsApart DEF ReportedOf, AnswerReported, AcceptReported
<1>6. UnreadTold(a)'
  BY <1>1, <1>4 DEF ReportedOf, UnreadTold
<1>7. ASSUME NEW v \in Version
      PROVE  VersionReported(a, v)'
  <2>1. VersionReported(a, v)
    BY DEF ReportedOf
  <2>2. v \in acked'[a] => v <= active'[a]
    <3>1. v \in Nat
      BY AssignmentsAssumption DEF AssignmentsAssumption, Version
    <3>2. v \in acked[a] => v <= active[a]
      BY <2>1 DEF VersionReported
    <3> QED
      BY <1>1, <1>3, <1>4, <3>1, <3>2
  <2> QED
    BY <1>1, <1>2, <2>1, <2>2, FactsApart DEF VersionReported, CancelReported, None
<1>8. ASSUME NEW b \in AssignmentId \ {a}
      PROVE  ReportedOf(b)'
  BY <1>1, <1>2, <1>4, <1>8, OthersReported
<1> QED
  BY <1>5, <1>6, <1>7, <1>8 DEF ReportedOf

LEMMA AcknowledgementReports ==
  ASSUME ReportInv, NEW a \in AssignmentId, NEW g \in Guide, NEW w \in Version,
         AcknowledgeVersion(a, g, w)
  PROVE  \A b \in AssignmentId : ReportedOf(b)'
<1> USE DEF ReportInv, VersionInv, TypeInv, TypeOK, AssignmentTypeOK
<1>1. /\ status[a] = "accepted" /\ active[a] = w
      /\ UNCHANGED <<status, active, versions, decision, criticalDecision>>
      /\ acked' = [acked EXCEPT ![a] = acked[a] \cup {w}]
      /\ unread' = [unread EXCEPT ![a] = FALSE]
      /\ outbox' = outbox \cup {Fact("assignment.version.acknowledged.v1", a, w, None)}
  BY DEF AcknowledgeVersion, VersionUnread, Report
<1>2. /\ acked'[a] = acked[a] \cup {w} /\ unread'[a] = FALSE
      /\ \A b \in AssignmentId \ {a} : acked'[b] = acked[b] /\ unread'[b] = unread[b]
  BY <1>1
<1> HIDE DEF VersionInv, TypeInv, TypeOK, AssignmentTypeOK
<1>3. AnswerReported(a)'
  BY <1>1, FactsApart DEF ReportedOf, AnswerReported, AcceptReported
<1>4. UnreadTold(a)'
  BY <1>1, <1>2 DEF ReportedOf, UnreadTold
<1>5. ASSUME NEW v \in Version
      PROVE  VersionReported(a, v)'
  <2>1. VersionReported(a, v)
    BY DEF ReportedOf
  <2>2. v \in acked'[a] => v <= active'[a]
    <3>1. w <= w
      BY AssignmentsAssumption DEF AssignmentsAssumption, Version
    <3> QED
      BY <1>1, <1>2, <2>1, <3>1 DEF VersionReported
  <2> QED
    BY <1>1, <1>2, <2>1, <2>2, FactsApart DEF VersionReported, CancelReported, None
<1>6. ASSUME NEW b \in AssignmentId \ {a}
      PROVE  ReportedOf(b)'
  BY <1>1, <1>2, <1>6, OthersReported
<1> QED
  BY <1>3, <1>4, <1>5, <1>6 DEF ReportedOf

LEMMA NextReportInv ==
  ASSUME ReportInv, [Next]_vars
  PROVE  ReportInv'
<1> SUFFICES \A b \in AssignmentId : ReportedOf(b)'
  BY NextVersionInv DEF ReportInv
<1>1. CASE ConnectionSteps
  <2>1. UNCHANGED <<status, active, unread, versions, decision, criticalDecision, acked>>
    BY <1>1 DEF ConnectionSteps, columns, records
  <2>2. \A u \in AssignmentFactTypes : \A b, v, x :
          Fact(u, b, v, x) \in outbox' <=> Fact(u, b, v, x) \in outbox
    BY <1>1, ConnectionReports DEF ConnectionSteps, AssignmentFactTypes
  <2> QED
    BY <2>1, <2>2, ReportsUntouched DEF ReportInv
<1>2. CASE GuideEdits \/ UNCHANGED vars
  <2>1. UNCHANGED <<status, active, unread, versions, decision, criticalDecision, acked, outbox>>
    BY <1>2, EditsAside DEF columns, records, tableVars
  <2> QED
    BY <2>1, ReportsUntouched DEF ReportInv
<1>3. CASE OperatorEvents
  BY <1>3, OfferReports, StatusReports, OrdinaryReports, IntakeReports DEF OperatorEvents
<1>4. CASE GuideAnswers
  BY <1>4, StatusReports, DecisionReports, AcknowledgementReports DEF GuideAnswers
<1> QED
  BY <1>1, <1>2, <1>3, <1>4 DEF Next

LEMMA InitReportInv == Init => ReportInv
<1> SUFFICES ASSUME Init, NEW a \in AssignmentId
             PROVE  ReportedOf(a)
  BY InitVersionInv DEF ReportInv
<1>1. outbox = {} /\ status[a] = "none" /\ active[a] = 0 /\ unread[a] = FALSE
      /\ decision[a] = None /\ acked[a] = {}
      /\ \A v \in Version : versions[a][v] = NoRow /\ criticalDecision[a][v] = None
  BY DEF Init, TablesInit
<1>2. 0 \notin Version
  BY DEF Version
<1> QED
  BY <1>1, <1>2
  DEF ReportedOf, AnswerReported, AcceptReported, UnreadTold, VersionReported, CancelReported,
      None

----------------------------------------------------------------------------
(* Replays.  The checks of a replay are one or two, and what the inbox     *)
(* says of the rows passes them.                                           *)
LEMMA OneHolds ==
  ASSUME NEW p \in BOOLEAN, NEW e \in Errors, p, NEW success
  PROVE  Verdict(<<Check(p, e)>>, success) = success
BY CheckPasses, OnePassed, PassedIsSuccess

LEMMA TwoHold ==
  ASSUME NEW p \in BOOLEAN, NEW q \in BOOLEAN, NEW e \in Errors, NEW f \in Errors,
         p, q, NEW success
  PROVE  Verdict(<<Check(p, e), Check(q, f)>>, success) = success
<1>1. Passing(Check(p, e)) /\ Passing(Check(q, f))
  BY CheckPasses
<1>2. Passed(<<Check(p, e), Check(q, f)>>)
  BY <1>1, TwoPassed
<1> QED
  BY <1>2, PassedIsSuccess

LEMMA TwoReplayed ==
  \A e, f \in Errors : Verdict(<<Check(TRUE, e), Check(TRUE, f)>>, "replayed") = "replayed"
BY TwoHold

LEMMA EventsReplayed ==
  ASSUME InboxInv, NEW e \in inbox, ~Superseded(e)
  PROVE  EventAnswer(e) = "replayed"
<1>1. EventApplied(e)
  BY DEF InboxInv
<1>2. /\ "not_found" \in Errors /\ "not_actionable" \in Errors
      /\ "validation_error" \in Errors /\ "idempotency_conflict" \in Errors
  BY DEF Errors
<1>3. CASE e.kind = "connection_invited"
  <2>1. EventAnswer(e) = InvitationAnswer(e) /\ connStatus[e.about] # "none"
    BY <1>1, <1>3 DEF EventAnswer, EventApplied
  <2> QED
    BY <1>2, <2>1, OneHolds DEF InvitationAnswer
<1>4. CASE e.kind = "connection_disconnected"
  <2>1. EventAnswer(e) = DisconnectionAnswer(e) /\ connStatus[e.about] # "none"
    BY <1>1, <1>4 DEF EventAnswer, EventApplied
  <2> QED
    BY <1>2, <2>1, OneHolds DEF DisconnectionAnswer
<1>5. CASE e.kind = "offered"
  <2>1. EventAnswer(e) = OfferAnswer(e) /\ status[e.about] # "none"
    BY <1>1, <1>5 DEF EventAnswer, EventApplied
  <2> QED
    BY <1>2, <2>1, OneHolds DEF OfferAnswer
<1>6. CASE e.kind = "closed"
  <2>1. /\ EventAnswer(e) = ClosureReplay(e)
        /\ guide[e.about] = e.guide /\ status[e.about] = e.status
    BY <1>1, <1>6 DEF EventAnswer, ClosureAnswer, EventApplied
  <2> QED
    BY <1>2, <2>1, TwoHold DEF ClosureReplay
<1>7. CASE e.kind = "cancelled"
  <2>1. /\ EventAnswer(e) = CancellationReplay(e)
        /\ guide[e.about] = e.guide /\ status[e.about] = "cancelled"
    BY <1>1, <1>7 DEF EventAnswer, CancellationAnswer, EventApplied
  <2>2. CancellationReplay(e)
          = Verdict(<<Check(TRUE, "not_found"), Check(TRUE, "validation_error")>>, "replayed")
    BY <2>1 DEF CancellationReplay, Check
  <2>3. CancellationReplay(e) = "replayed"
    BY <1>2, <2>2, TwoReplayed
  <2> QED
    BY <2>1, <2>3
<1>8. CASE e.kind = "published" /\ e.severity = "ordinary"
  <2>1. /\ EventAnswer(e) = OrdinaryReplay(e)
        /\ guide[e.about] = e.guide /\ active[e.about] = e.version
    BY <1>1, <1>8 DEF EventAnswer, VersionAnswer, EventApplied, Superseded
  <2> QED
    BY <1>2, <2>1, TwoHold DEF OrdinaryReplay
<1>9. CASE e.kind = "published" /\ e.severity = "critical"
  <2>1. /\ EventAnswer(e) = CriticalReplay(e)
        /\ guide[e.about] = e.guide
        /\ versions[e.about][e.version] = VersionRow("critical", e.package)
    BY <1>1, <1>9 DEF EventAnswer, VersionAnswer, EventApplied
  <2> QED
    BY <1>2, <2>1, TwoHold DEF CriticalReplay
<1> QED
  BY <1>1, <1>3, <1>4, <1>5, <1>6, <1>7, <1>8, <1>9 DEF EventApplied

(* A second press is measured against the stored answer alone. *)
LEMMA PressesReplayed ==
  /\ \A c \in ConnectionId :
       connDecision[c] # None =>
         ConnectionDecisionAnswer(c, connGuide[c], connDecision[c]) = "replayed"
  /\ \A a \in AssignmentId :
       /\ decision[a] = "accept" => AcceptAnswer(a, guide[a]) = "replayed"
       /\ decision[a] = "decline" => DeclineAnswer(a, guide[a]) = "replayed"
       /\ \A v \in Version :
            /\ criticalDecision[a][v] = "confirm_critical" =>
                 ConfirmCriticalAnswer(a, guide[a], v) = "replayed"
            /\ criticalDecision[a][v] = "reject_critical" =>
                 RejectCriticalAnswer(a, guide[a], v) = "replayed"
            /\ v \in acked[a] => AcknowledgeAnswer(a, guide[a], v) = "replayed"
<1>1. /\ "not_found" \in Errors /\ "not_actionable" \in Errors
      /\ "idempotency_conflict" \in Errors
  BY DEF Errors
<1>2. ASSUME NEW c \in ConnectionId, connDecision[c] # None
      PROVE  ConnectionDecisionAnswer(c, connGuide[c], connDecision[c]) = "replayed"
  <2>1. ConnectionDecisionReplay(c, connGuide[c], connDecision[c])
          = Verdict(<<Check(TRUE, "not_found"), Check(TRUE, "not_actionable")>>, "replayed")
    BY DEF ConnectionDecisionReplay
  <2>2. ConnectionDecisionReplay(c, connGuide[c], connDecision[c]) = "replayed"
    BY <1>1, <2>1, TwoReplayed
  <2> QED
    BY <1>2, <2>2 DEF ConnectionDecisionAnswer
<1>3. ASSUME NEW a \in AssignmentId, NEW d \in {"accept", "decline"}, decision[a] = d
      PROVE  DecisionReplay(a, guide[a], d) = "replayed"
  <2>1. DecisionReplay(a, guide[a], d)
          = Verdict(<<Check(TRUE, "not_found"), Check(TRUE, "idempotency_conflict")>>, "replayed")
    BY <1>3 DEF DecisionReplay, Check
  <2> QED
    BY <1>1, <2>1, TwoReplayed
<1>4. ASSUME NEW a \in AssignmentId, NEW v \in Version,
             NEW d \in {"confirm_critical", "reject_critical"}, criticalDecision[a][v] = d
      PROVE  CriticalDecisionReplay(a, guide[a], v, d) = "replayed"
  <2>1. CriticalDecisionReplay(a, guide[a], v, d)
          = Verdict(<<Check(TRUE, "not_found"), Check(TRUE, "idempotency_conflict")>>, "replayed")
    BY <1>4 DEF CriticalDecisionReplay, Check
  <2> QED
    BY <1>1, <2>1, TwoReplayed
<1>5. ASSUME NEW a \in AssignmentId
      PROVE  AcknowledgeReplay(a, guide[a]) = "replayed"
  BY <1>1, OneHolds DEF AcknowledgeReplay
<1>6. ASSUME NEW a \in AssignmentId
      PROVE  /\ decision[a] = "accept" => AcceptAnswer(a, guide[a]) = "replayed"
             /\ decision[a] = "decline" => DeclineAnswer(a, guide[a]) = "replayed"
  BY <1>3 DEF AcceptAnswer, DeclineAnswer
<1>7. ASSUME NEW a \in AssignmentId, NEW v \in Version
      PROVE  /\ criticalDecision[a][v] = "confirm_critical" =>
                  ConfirmCriticalAnswer(a, guide[a], v) = "replayed"
             /\ criticalDecision[a][v] = "reject_critical" =>
                  RejectCriticalAnswer(a, guide[a], v) = "replayed"
             /\ v \in acked[a] => AcknowledgeAnswer(a, guide[a], v) = "replayed"
  BY <1>4, <1>5 DEF ConfirmCriticalAnswer, RejectCriticalAnswer, AcknowledgeAnswer
<1> QED
  BY <1>2, <1>6, <1>7

LEMMA InitInboxInv == Init => InboxInv
BY InitVersionInv DEF Init, ConnInit, TablesInit, InboxInv

(* A request whose effect is stored is answered as a replay, whatever      *)
(* happened since (the replay branches of the event and decision           *)
(* handlers).                                                              *)
THEOREM RepliesAreReplays == Spec => []RequestsReplayed
<1>1. InboxInv => RequestsReplayed
  BY EventsReplayed, PressesReplayed DEF RequestsReplayed
<1> QED
  BY <1>1, InitInboxInv, NextInboxInv, PTL DEF Spec

----------------------------------------------------------------------------
(* What the operator reads.  The calendar of a snapshot has the protected  *)
(* tour or nothing, and the facts name the active version.                 *)
LEMMA SnapshotCalendar ==
  ASSUME CalendarInv, NEW a \in AssignmentId, status[a] \in {"accepted", "cancelled"}
  PROVE  CalendarProjection(a) =
           IF status[a] = "cancelled"
             THEN [exists |-> FALSE, span |-> {}, version |-> 0]
             ELSE [exists |-> TRUE, span |-> row[a].span, version |-> active[a]]
<1> DEFINE rows == {t \in TourId : tours[t] # NoRow /\ tours[t].owner = a}
           chosen == {t \in rows : t = projection[a] \/ (projection[a] \notin rows /\ rows = {t})}
<1>1. CalendarProjection(a) =
        [exists |-> chosen # {}, span |-> UNION {tours[t].span : t \in chosen},
         version |-> IF chosen = {} THEN 0 ELSE active[a]]
  BY DEF CalendarProjection
<1>2. \A t \in rows : t = projection[a] /\ t \in TourId
  BY AssignmentsAssumption
  DEF AssignmentsAssumption, CalendarInv, CalendarMirrorsAssignments
<1>3. CASE status[a] = "cancelled"
  <2>1. projection[a] = NoTour
    BY <1>3 DEF CalendarInv, CalendarMirrorsAssignments
  <2>2. chosen = {}
    BY <1>2, <2>1, AssignmentsAssumption DEF AssignmentsAssumption
  <2>3. UNION {tours[t].span : t \in chosen} = {}
    BY <2>2
  <2> HIDE DEF chosen
  <2> QED
    BY <1>1, <1>3, <2>2, <2>3
<1>4. CASE status[a] = "accepted"
  <2>1. projection[a] # NoTour
    BY <1>4 DEF CalendarInv, CalendarMirrorsAssignments
  <2>2. projection[a] \in rows /\ tours[projection[a]].span = row[a].span
    BY <2>1, ProjectedTour
  <2>3. chosen = {projection[a]}
    BY <1>2, <2>2
  <2>4. UNION {tours[t].span : t \in chosen} = row[a].span
    BY <2>2, <2>3
  <2> HIDE DEF chosen
  <2> QED
    BY <1>1, <1>4, <2>3, <2>4
<1> QED
  BY <1>3, <1>4

(* Every stored version up to the active one was reported, and none beyond *)
(* it was: that one is critical and waits or was rejected.                 *)
LEMMA ActiveIsReported ==
  ASSUME ReportInv, NEW a \in AssignmentId, status[a] \in {"accepted", "cancelled"}
  PROVE  /\ active[a] \in ReportedVersions(a)
         /\ \A v \in ReportedVersions(a) : v <= active[a]
<1>1. /\ active[a] \in Version /\ VersionChainOf(a) /\ VersionsFromOffer(a)
      /\ \A v \in Version : VersionReported(a, v)
  BY DEF ReportInv, VersionInv, ReportedOf, UnreadTold
<1>2. /\ active[a] <= active[a] /\ 1 <= active[a]
      /\ \A v \in Version : v > active[a] <=> ~ (v <= active[a])
  BY <1>1, AssignmentsAssumption DEF AssignmentsAssumption, Version
<1>3. versions[a][active[a]] # NoRow
  BY <1>1, <1>2 DEF VersionChainOf
<1>4. versions[a][active[a]].severity \in {"initial", "ordinary", "critical"}
  BY <1>1, <1>3
  DEF ReportInv, VersionInv, TypeInv, TypeOK, AssignmentTypeOK, VersionRows
<1>5. active[a] \in ReportedVersions(a)
  <2>1. CASE versions[a][active[a]].severity = "initial"
    BY <1>1, <1>3, <2>1 DEF VersionReported, ReportedVersions
  <2>2. CASE versions[a][active[a]].severity = "ordinary"
    BY <1>1, <1>3, <2>2 DEF VersionReported, ReportedVersions
  <2>3. CASE versions[a][active[a]].severity = "critical"
    <3>1. criticalDecision[a][active[a]] = "confirm_critical"
      BY <1>1, <1>2, <1>3, <2>3 DEF VersionChainOf
    <3> QED
      BY <1>1, <3>1 DEF VersionReported, ReportedVersions
  <2> QED
    BY <1>4, <2>1, <2>2, <2>3
<1>6. ASSUME NEW v \in ReportedVersions(a)
      PROVE  v <= active[a]
  <2>1. CASE v = 1
    BY <1>2, <2>1
  <2>2. CASE v \in Version /\ versions[a][v] # NoRow /\ versions[a][v].severity = "ordinary"
    BY <1>1, <1>2, <2>2 DEF VersionChainOf
  <2>3. CASE v \in Version /\ criticalDecision[a][v] = "confirm_critical"
    BY <1>1, <1>2, <2>3 DEF VersionChainOf, VersionsFromOffer, None
  <2> QED
    BY <1>1, <2>1, <2>2, <2>3 DEF ReportedVersions, VersionReported
<1> QED
  BY <1>5, <1>6

LEMMA SnapshotsTold ==
  ASSUME CalendarInv, ReportInv, NEW a \in AssignmentId
  PROVE  SnapshotTold(LocalAssignment(a))
<1> DEFINE seen == LocalAssignment(a)
<1>1. /\ seen.about = a /\ seen.status = status[a] /\ seen.active = active[a]
      /\ seen.pending = pending[a] /\ seen.row = row[a] /\ seen.calendar = CalendarProjection(a)
  BY DEF LocalAssignment
<1>2. status[a] \in {"accepted", "cancelled"} <=> AcceptReported(a)
  BY DEF ReportInv, ReportedOf, AnswerReported
<1>3. ASSUME AcceptReported(a)
      PROVE  /\ active[a] \in ReportedVersions(a)
             /\ \A v \in ReportedVersions(a) : v <= active[a]
             /\ pending[a] # 0 =>
                  Fact("assignment.version.received.ack.v1", a, pending[a], None) \in outbox
             /\ status[a] = "cancelled" <=> CancelReported(a, active[a])
             /\ CalendarProjection(a) =
                  IF CancelReported(a, active[a])
                    THEN [exists |-> FALSE, span |-> {}, version |-> 0]
                    ELSE [exists |-> TRUE, span |-> row[a].span, version |-> active[a]]
  <2>1. /\ active[a] \in ReportedVersions(a)
        /\ \A v \in ReportedVersions(a) : v <= active[a]
    BY <1>2, <1>3, ActiveIsReported
  <2>2. ASSUME pending[a] # 0
        PROVE  Fact("assignment.version.received.ack.v1", a, pending[a], None) \in outbox
    <3>1. pending[a] \in Version
      BY <2>2, AssignmentsAssumption
      DEF AssignmentsAssumption, ReportInv, VersionInv, TypeInv, TypeOK, AssignmentTypeOK, Version
    <3>2. versions[a][pending[a]] # NoRow /\ versions[a][pending[a]].severity = "critical"
      BY <3>1, PendingIsNext DEF ReportInv
    <3> QED
      BY <3>1, <3>2 DEF ReportInv, ReportedOf, VersionReported
  <2>3. status[a] = "cancelled" <=> CancelReported(a, active[a])
    BY <1>2, <1>3 DEF ReportInv, ReportedOf, UnreadTold, VersionReported
  <2> QED
    BY <1>2, <1>3, <2>1, <2>2, <2>3, SnapshotCalendar
<1> HIDE DEF seen
<1>4. SnapshotTold(seen)
  BY <1>1, <1>2, <1>3 DEF SnapshotTold
<1> QED
  BY <1>4 DEF seen

(* Whose identity is shown can be told from the decision and the inbox. *)
LEMMA IdentityTold ==
  ASSUME ConnectionRecordsAgree, InboxInv, NEW c \in ConnectionId, NEW g \in Guide,
         connGuide[c] = g
  PROVE  /\ connStatus[c] \in {"confirmed", "disconnected"} <=>
              Fact("guide_connection.decided.v1", c, 0, "confirm") \in outbox
         /\ IdentityAnswer(c, g) = "shown" <=>
              /\ Fact("guide_connection.decided.v1", c, 0, "confirm") \in outbox
              /\ Disconnection(c, g) \notin inbox
<1>1. connStatus[c] \in {"confirmed", "disconnected"} <=>
        Fact("guide_connection.decided.v1", c, 0, "confirm") \in outbox
  BY DEF ConnectionRecordsAgree
<1>2. Disconnection(c, g) \in inbox <=> connStatus[c] = "disconnected"
  <2>1. ASSUME Disconnection(c, g) \in inbox
        PROVE  connStatus[c] = "disconnected"
    <3>1. EventApplied(Disconnection(c, g))
      BY <2>1 DEF InboxInv
    <3> QED
      BY <3>1 DEF EventApplied, Disconnection
  <2>2. ASSUME connStatus[c] = "disconnected"
        PROVE  Disconnection(c, g) \in inbox
    BY <2>2 DEF InboxInv
  <2> QED
    BY <2>1, <2>2
<1>3. IdentityAnswer(c, g) = "shown" <=> connStatus[c] = "confirmed"
  <2>1. ASSUME connStatus[c] = "confirmed"
        PROVE  IdentityAnswer(c, g) = "shown"
    BY <2>1, OneHolds DEF IdentityAnswer, IdentityChecks, Errors
  <2>2. ASSUME connStatus[c] # "confirmed"
        PROVE  IdentityAnswer(c, g) = "not_found"
    <3>1. IdentityAnswer(c, g) = Verdict(<<Check(FALSE, "not_found")>>, "shown")
      BY <2>2 DEF IdentityAnswer, IdentityChecks, Check
    <3> QED
      BY <3>1, OneFails
  <2> QED
    BY <2>1, <2>2
<1> QED
  BY <1>1, <1>2, <1>3

(* The mark on the active version is told by the facts about it. *)
LEMMA UnreadIsTold ==
  ASSUME ReportInv, NEW a \in AssignmentId, status[a] \in {"accepted", "cancelled"}
  PROVE  unread[a] <=>
           /\ Fact("assignment.version.applied.ack.v1", a, active[a], None) \in outbox
           /\ Fact("assignment.version.acknowledged.v1", a, active[a], None) \notin outbox
BY DEF ReportInv, ReportedOf, UnreadTold, VersionReported

TellingInv == CalendarInv /\ ConsentInv /\ InboxInv /\ ReportInv

LEMMA OperatorSees == TellingInv => OperatorSeesState
<1> SUFFICES ASSUME TellingInv, NEW g \in Guide
             PROVE  /\ \A seen \in LocalAssignments(g) : SnapshotTold(seen)
                    /\ \A seen \in LocalConnections(g) :
                         /\ seen.status \in {"confirmed", "disconnected"} <=>
                              Fact("guide_connection.decided.v1", seen.about, 0, "confirm") \in outbox
                         /\ IdentityAnswer(seen.about, g) = "shown" <=>
                              /\ Fact("guide_connection.decided.v1", seen.about, 0, "confirm") \in outbox
                              /\ Disconnection(seen.about, g) \notin inbox
                    /\ \A a \in AssignmentId :
                         status[a] \in {"accepted", "cancelled"} =>
                           (unread[a] <=>
                             /\ Fact("assignment.version.applied.ack.v1", a, active[a], None) \in outbox
                             /\ Fact("assignment.version.acknowledged.v1", a, active[a], None) \notin outbox)
  BY DEF OperatorSeesState
<1>1. \A seen \in LocalAssignments(g) : SnapshotTold(seen)
  BY SnapshotsTold DEF LocalAssignments, TellingInv
<1>2. ASSUME NEW seen \in LocalConnections(g)
      PROVE  /\ seen.status \in {"confirmed", "disconnected"} <=>
                  Fact("guide_connection.decided.v1", seen.about, 0, "confirm") \in outbox
             /\ IdentityAnswer(seen.about, g) = "shown" <=>
                  /\ Fact("guide_connection.decided.v1", seen.about, 0, "confirm") \in outbox
                  /\ Disconnection(seen.about, g) \notin inbox
  <2>1. PICK c \in ConnectionId : connGuide[c] = g /\ seen = LocalConnection(c)
    BY DEF LocalConnections
  <2>2. seen.about = c /\ seen.status = connStatus[c]
    BY <2>1 DEF LocalConnection
  <2> QED
    BY <2>1, <2>2, IdentityTold DEF TellingInv, ConsentInv
<1>3. \A a \in AssignmentId :
        status[a] \in {"accepted", "cancelled"} =>
          (unread[a] <=>
            /\ Fact("assignment.version.applied.ack.v1", a, active[a], None) \in outbox
            /\ Fact("assignment.version.acknowledged.v1", a, active[a], None) \notin outbox)
  BY UnreadIsTold DEF TellingInv
<1> QED
  BY <1>1, <1>2, <1>3

LEMMA TellingStays == Spec => []TellingInv
<1>1. Init => TellingInv
  BY InitCalendarInv, InitConsentInv, InitInboxInv, InitReportInv DEF TellingInv
<1>2. TellingInv /\ [Next]_vars => TellingInv'
  BY NextCalendarInv, NextConsentInv, NextInboxInv, NextReportInv DEF TellingInv
<1> QED
  BY <1>1, <1>2, PTL DEF Spec

(* What the outbox told the operator and what its reconcile snapshots show *)
(* is the same, to the last version the guide has not read (every handler  *)
(* that queues a fact, against the read endpoints).                        *)
THEOREM OperatorIsTold == Spec => []OperatorSeesState
BY TellingStays, OperatorSees, PTL

----------------------------------------------------------------------------
(* What a current notice asks for is accepted. *)
LEMMA CheckTrue == \A e \in Errors : Passing(Check(TRUE, e))
BY CheckPasses

(* The calendar refuses, the check after it would not. *)
LEMMA CalendarFails ==
  ASSUME NEW s, Passed(s)
  PROVE  Verdict(s \o <<Check(FALSE, "calendar_conflict"), Check(TRUE, "validation_error")>>,
                 "applied") = "calendar_conflict"
<1> DEFINE t == s \o <<Check(FALSE, "calendar_conflict"), Check(TRUE, "validation_error")>>
           failed == {i \in DOMAIN t : ~t[i].holds}
<1>1. failed = {Len(s) + 1} /\ t[Len(s) + 1].error = "calendar_conflict"
  BY DEF Passed, Check
<1>2. Min({Len(s) + 1}) = Len(s) + 1
  BY DEF Min, Passed
<1>3. Verdict(t, "applied") = IF failed = {} THEN "applied" ELSE t[Min(failed)].error
  BY DEF Verdict
<1> HIDE DEF failed, t
<1>4. Verdict(t, "applied") = "calendar_conflict"
  BY <1>1, <1>2, <1>3
<1> QED
  BY <1>4 DEF t

LEMMA AllErrors ==
  /\ "not_found" \in Errors /\ "not_actionable" \in Errors /\ "validation_error" \in Errors
  /\ "idempotency_conflict" \in Errors /\ "calendar_conflict" \in Errors
BY DEF Errors

ServedInv == TellingInv /\ NoticeInv

(* The active version of an assignment is stored, and so is the first. *)
LEMMA ActiveIsStored ==
  ASSUME ReportInv, NEW a \in AssignmentId, status[a] # "none"
  PROVE  /\ active[a] \in Version /\ 1 \in Version
         /\ versions[a][active[a]] # NoRow /\ versions[a][1] # NoRow
<1>1. active[a] \in Version /\ VersionChainOf(a)
  BY DEF ReportInv, VersionInv, ReportedOf, UnreadTold
<1>2. 1 \in Version /\ 1 <= active[a] /\ active[a] <= active[a]
  BY <1>1, AssignmentsAssumption DEF AssignmentsAssumption, Version
<1> QED
  BY <1>1, <1>2 DEF VersionChainOf

LEMMA InvitationServed ==
  ASSUME ConsentInv, NEW c \in ConnectionId, connStatus[c] = "invited", ~lapsed[c]
  PROVE  /\ ConnectionActionable(c, connGuide[c])
         /\ ConnectionDecisionAnswer(c, connGuide[c], "confirm") = "applied"
<1>1. connDecision[c] = None
  BY DEF ConsentInv, ConnectionRecordsAgree, TypeInv, TypeOK, ConnTypeOK, None
<1>2. ConnectionDecisionChecks(c, connGuide[c]) =
        <<Check(TRUE, "not_found"), Check(TRUE, "not_actionable"), Check(TRUE, "not_actionable")>>
  BY DEF ConnectionDecisionChecks, Check
<1>3. Passed(ConnectionDecisionChecks(c, connGuide[c]))
  BY <1>2, CheckTrue, AllErrors, ThreePassed
<1> QED
  BY <1>1, <1>3, PassedIsSuccess DEF ConnectionDecisionAnswer, ConnectionActionable

LEMMA OfferServed ==
  ASSUME ReportInv, NEW a \in AssignmentId, status[a] = "offered"
  PROVE  /\ AcceptAnswer(a, guide[a]) =
              IF OfferShownFree(a) THEN "applied" ELSE "calendar_conflict"
         /\ DeclineAnswer(a, guide[a]) = "applied"
<1>1. decision[a] = None
  BY DEF ReportInv, ReportedOf, AnswerReported
<1>2. Stored(a, 1)
  BY ActiveIsStored DEF Stored
<1>3. OfferOpenChecks(a, guide[a]) =
        <<Check(TRUE, "not_found"), Check(TRUE, "not_actionable"),
          Check(TRUE, "validation_error")>>
  BY <1>2 DEF OfferOpenChecks, Check
<1>4. Passed(OfferOpenChecks(a, guide[a]))
  BY <1>3, CheckTrue, AllErrors, ThreePassed
<1>5. DeclineAnswer(a, guide[a]) = "applied"
  BY <1>1, <1>4, PassedIsSuccess DEF DeclineAnswer
<1>6. CASE OfferShownFree(a)
  <2>1. AcceptAnswer(a, guide[a]) =
          Verdict(OfferOpenChecks(a, guide[a]) \o <<Check(TRUE, "calendar_conflict")>>, "applied")
    BY <1>1, <1>6 DEF AcceptAnswer, OfferShownFree, Check
  <2>2. Passed(<<Check(TRUE, "calendar_conflict")>>)
    BY CheckTrue, AllErrors, OnePassed
  <2> QED
    BY <1>4, <1>5, <1>6, <2>1, <2>2, BothPassed, PassedIsSuccess
<1>7. CASE ~OfferShownFree(a)
  <2>1. AcceptAnswer(a, guide[a]) =
          Verdict(OfferOpenChecks(a, guide[a]) \o <<Check(FALSE, "calendar_conflict")>>, "applied")
    BY <1>1, <1>7 DEF AcceptAnswer, OfferShownFree, Check
  <2> QED
    BY <1>4, <1>5, <1>7, <2>1, LastFails
<1> QED
  BY <1>6, <1>7

LEMMA ChangeServed ==
  ASSUME ReportInv, NEW a \in AssignmentId, status[a] = "accepted", unread[a]
  PROVE  AcknowledgeAnswer(a, guide[a], active[a]) = "applied"
<1>1. /\ active[a] \notin acked[a] /\ Stored(a, active[a])
      /\ versions[a][active[a]].severity = "ordinary"
  BY DEF ReportInv, ReportedOf, UnreadTold, Stored
<1>2. AcknowledgeChecks(a, guide[a], active[a]) =
        << Check(TRUE, "not_found"), Check(TRUE, "not_actionable"),
           Check(TRUE, "idempotency_conflict"), Check(TRUE, "not_found"),
           Check(TRUE, "not_actionable"), Check(TRUE, "not_actionable") >>
  BY <1>1 DEF AcknowledgeChecks, Check
<1>3. Passed(AcknowledgeChecks(a, guide[a], active[a]))
  BY <1>2, CheckTrue, AllErrors, SixPassed
<1> QED
  BY <1>1, <1>3, PassedIsSuccess DEF AcknowledgeAnswer

LEMMA ProposalServed ==
  ASSUME CalendarInv, ReportInv, NEW a \in AssignmentId, NEW v \in Version,
         status[a] = "accepted", pending[a] = v
  PROVE  /\ ConfirmCriticalAnswer(a, guide[a], v) \in {"applied", "calendar_conflict"}
         /\ RejectCriticalAnswer(a, guide[a], v) = "applied"
<1> DEFINE t == projection[a]
           open == CriticalDecisionChecks(a, guide[a], v)
           free == CalendarFree(guide[a], versions[a][v].package.span, {t})
<1>1. /\ criticalDecision[a][v] = None /\ Stored(a, v)
      /\ versions[a][v].severity = "critical"
  BY PendingIsNext DEF ReportInv, Stored
<1>2. t # NoTour /\ tours[t] # NoRow /\ tours[t].owner = a
  BY ProjectedTour DEF CalendarInv, CalendarMirrorsAssignments
<1>3. open =
        << Check(TRUE, "not_found"), Check(TRUE, "not_actionable"),
           Check(TRUE, "idempotency_conflict"), Check(TRUE, "validation_error"),
           Check(TRUE, "validation_error") >>
  BY <1>1, <1>2 DEF CriticalDecisionChecks, Check
<1>4. Passed(open)
  BY <1>3, CheckTrue, AllErrors, FivePassed
<1>5. RejectCriticalAnswer(a, guide[a], v) = "applied"
  BY <1>1, <1>4, PassedIsSuccess DEF RejectCriticalAnswer
<1>6. CASE free
  <2>1. ConfirmCriticalAnswer(a, guide[a], v) =
          Verdict(open \o <<Check(TRUE, "calendar_conflict"), Check(TRUE, "validation_error")>>,
                  "applied")
    BY <1>1, <1>2, <1>6 DEF ConfirmCriticalAnswer, Check
  <2>2. Passed(<<Check(TRUE, "calendar_conflict"), Check(TRUE, "validation_error")>>)
    BY CheckTrue, AllErrors, TwoPassed
  <2> HIDE DEF open
  <2> QED
    BY <1>4, <1>5, <2>1, <2>2, BothPassed, PassedIsSuccess
<1>7. CASE ~free
  <2>1. ConfirmCriticalAnswer(a, guide[a], v) =
          Verdict(open \o <<Check(FALSE, "calendar_conflict"), Check(TRUE, "validation_error")>>,
                  "applied")
    BY <1>1, <1>2, <1>7 DEF ConfirmCriticalAnswer, Check
  <2> HIDE DEF open
  <2>2. ConfirmCriticalAnswer(a, guide[a], v) = "calendar_conflict"
    <3>1. Verdict(open \o <<Check(FALSE, "calendar_conflict"), Check(TRUE, "validation_error")>>,
                  "applied") = "calendar_conflict"
      BY <1>4, CalendarFails
    <3> QED
      BY <2>1, <3>1
  <2> QED
    BY <1>5, <2>2
<1> QED
  BY <1>6, <1>7

LEMMA DetailServed ==
  ASSUME CalendarInv, ReportInv, NEW a \in AssignmentId, status[a] # "none"
  PROVE  DetailAnswer(a, guide[a]) = "shown"
<1>1. Stored(a, active[a])
  BY ActiveIsStored DEF Stored
<1>2. pending[a] # 0 => Stored(a, pending[a]) /\ versions[a][pending[a]].severity = "critical"
  <2>1. pending[a] # 0 => pending[a] \in Version
    BY AssignmentsAssumption
    DEF AssignmentsAssumption, ReportInv, VersionInv, TypeInv, TypeOK, AssignmentTypeOK, Version
  <2> QED
    BY <2>1, PendingIsNext DEF ReportInv, Stored
<1>3. status[a] = "accepted" => projection[a] # NoTour
  BY DEF CalendarInv, CalendarMirrorsAssignments
<1>4. PendingShown(a) =
        << Check(TRUE, "validation_error"), Check(TRUE, "validation_error"),
           Check(TRUE, "validation_error") >>
  BY <1>2, <1>3 DEF PendingShown, Check
<1>5. Passed(PendingShown(a))
  BY <1>4, CheckTrue, AllErrors, ThreePassed
<1>6. DetailAnswer(a, guide[a]) =
        Verdict(<<Check(TRUE, "not_found"), Check(TRUE, "validation_error")>> \o PendingShown(a),
                "shown")
  BY <1>1 DEF DetailAnswer, Check
<1>7. Passed(<<Check(TRUE, "not_found"), Check(TRUE, "validation_error")>>)
  BY CheckTrue, AllErrors, TwoPassed
<1> QED
  BY <1>5, <1>6, <1>7, BothPassed, PassedIsSuccess

LEMMA CancellationServed ==
  ASSUME CalendarInv, InboxInv, NEW a \in AssignmentId, status[a] = "accepted"
  PROVE  EventAnswer(Cancelled(a, guide[a], active[a])) = "applied"
<1> DEFINE e == Cancelled(a, guide[a], active[a])
<1>1. /\ e.kind = "cancelled" /\ e.about = a /\ e.guide = guide[a] /\ e.version = active[a]
  BY DEF Cancelled
<1> HIDE DEF e
<1>2. e \notin inbox
  <2>1. ~ EventApplied(e)
    BY <1>1 DEF EventApplied
  <2> QED
    BY <2>1 DEF InboxInv
<1>3. /\ projection[a] # NoTour /\ tours[projection[a]] # NoRow
      /\ tours[projection[a]].owner # Personal
  BY ProjectedTour DEF CalendarInv, CalendarMirrorsAssignments
<1>4. CancellationChecks(e) =
        << Check(TRUE, "not_found"), Check(TRUE, "idempotency_conflict"),
           Check(TRUE, "not_actionable"), Check(TRUE, "validation_error") >>
  BY <1>1, <1>3 DEF CancellationChecks, Check
<1>5. Passed(CancellationChecks(e))
  BY <1>4, CheckTrue, AllErrors, FourPassed
<1>6. EventAnswer(e) = Verdict(CancellationChecks(e), "applied")
  BY <1>1, <1>2 DEF EventAnswer, CancellationAnswer
<1>7. EventAnswer(e) = "applied"
  BY <1>5, <1>6, PassedIsSuccess
<1> QED
  BY <1>7 DEF e

LEMMA CurrentServed ==
  ASSUME ServedInv, NEW n \in notices, NoticeCurrent(n)
  PROVE  /\ Served(n)
         /\ n.type \notin {"connection_invitation", "connection_disconnection"} =>
              DetailAnswer(n.about, guide[n.about]) = "shown"
<1>1. NoticeBased(n) /\ CalendarInv /\ ConsentInv /\ ReportInv
  BY DEF ServedInv, TellingInv, NoticeInv
<1>2. n.type \in {"connection_invitation", "connection_disconnection", "assignment_offer",
                  "ordinary_version_change", "critical_confirmation_required",
                  "assignment_cancellation"}
  BY <1>1 DEF NoticeBased
<1>3. ASSUME n.type \notin {"connection_invitation", "connection_disconnection"}
      PROVE  /\ n.about \in AssignmentId /\ status[n.about] # "none"
             /\ DetailAnswer(n.about, guide[n.about]) = "shown"
  <2>1. n.about \in AssignmentId /\ status[n.about] # "none"
    BY <1>1, <1>3 DEF NoticeBased
  <2> QED
    BY <1>1, <2>1, DetailServed
<1>4. CASE n.type = "connection_invitation"
  <2>1. /\ n.about \in ConnectionId /\ connStatus[n.about] = "invited" /\ ~lapsed[n.about]
    BY <1>1, <1>4 DEF NoticeBased, NoticeCurrent
  <2>2. /\ ConnectionActionable(n.about, connGuide[n.about])
        /\ ConnectionDecisionAnswer(n.about, connGuide[n.about], "confirm") = "applied"
    BY <1>1, <2>1, InvitationServed
  <2> QED
    BY <1>4, <2>2 DEF Served
<1>5. CASE n.type = "connection_disconnection"
  <2>1. connStatus[n.about] = "disconnected"
    BY <1>5 DEF NoticeCurrent
  <2>2. ~ConnectionActionable(n.about, connGuide[n.about])
    BY <2>1 DEF ConnectionActionable
  <2> QED
    BY <1>5, <2>2 DEF Served
<1>6. CASE n.type = "assignment_offer"
  <2>1. status[n.about] = "offered"
    BY <1>6 DEF NoticeCurrent
  <2>2. Section(n.about) = "awaiting"
    BY <2>1 DEF Section
  <2>3. /\ AcceptAnswer(n.about, guide[n.about]) =
             IF OfferShownFree(n.about) THEN "applied" ELSE "calendar_conflict"
        /\ DeclineAnswer(n.about, guide[n.about]) = "applied"
    BY <1>1, <1>3, <1>6, <2>1, OfferServed
  <2>4. Served(n)
    BY <1>6, <2>2, <2>3 DEF Served
  <2> QED
    BY <1>3, <1>6, <2>4
<1>7. CASE n.type = "ordinary_version_change"
  <2>1. status[n.about] = "accepted" /\ active[n.about] = n.version /\ unread[n.about]
    BY <1>7 DEF NoticeCurrent
  <2>2. Section(n.about) = "by date"
    BY <2>1 DEF Section
  <2>3. AcknowledgeAnswer(n.about, guide[n.about], n.version) = "applied"
    BY <1>1, <1>3, <1>7, <2>1, ChangeServed
  <2>4. Served(n)
    BY <1>7, <2>2, <2>3 DEF Served
  <2> QED
    BY <1>3, <1>7, <2>4
<1>8. CASE n.type = "critical_confirmation_required"
  <2>1. /\ status[n.about] = "accepted" /\ pending[n.about] = n.version
        /\ n.version \in Version
    BY <1>1, <1>8 DEF NoticeBased, NoticeCurrent
  <2>2. Section(n.about) = "by date"
    BY <2>1 DEF Section
  <2>3. /\ ConfirmCriticalAnswer(n.about, guide[n.about], n.version)
             \in {"applied", "calendar_conflict"}
        /\ RejectCriticalAnswer(n.about, guide[n.about], n.version) = "applied"
    BY <1>1, <1>3, <1>8, <2>1, ProposalServed
  <2>4. Served(n)
    BY <1>8, <2>2, <2>3 DEF Served
  <2> QED
    BY <1>3, <1>8, <2>4
<1>9. CASE n.type = "assignment_cancellation"
  <2>1. status[n.about] = "cancelled"
    BY <1>9 DEF NoticeCurrent
  <2>2. Section(n.about) = "cancelled"
    BY <2>1 DEF Section
  <2>3. Served(n)
    BY <1>9, <2>2 DEF Served
  <2> QED
    BY <1>3, <1>9, <2>3
<1> QED
  BY <1>2, <1>4, <1>5, <1>6, <1>7, <1>8, <1>9

(* A notice that is current when it is sent leads somewhere, and every     *)
(* accepted assignment can be cancelled (the currency predicate of the     *)
(* sender against the guards of the handlers).                             *)
THEOREM NoticesAreServed == Spec => []NoticesServed
<1>1. ServedInv => NoticesServed
  BY CurrentServed, CancellationServed DEF ServedInv, TellingInv, NoticesServed
<1>2. Init => NoticeInv
  BY InitVersionInv DEF Init, ConnInit, TablesInit, NoticeInv
<1>3. NoticeInv /\ [Next]_vars => NoticeInv'
  BY NoticesStep
<1>4. Spec => []NoticeInv
  BY <1>2, <1>3, PTL DEF Spec
<1> QED
  BY <1>1, <1>4, TellingStays, PTL DEF ServedInv
=============================================================================
