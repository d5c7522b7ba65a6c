------------------------- MODULE AssignmentsProofs -------------------------
(***************************************************************************)
(* Invariants of Assignments for all values of its constants, proved by    *)
(* the TLA+ proof system.  TypeOK is inductive once an offer is known to   *)
(* have left its dates in the row (RowsPresent); the calendar invariants   *)
(* are inductive together with the types and with each other, and rows of  *)
(* one calendar come to overlap only by the guide's own hand.              *)
(*                                                                         *)
(* VersionChain is inductive once it is known that nothing is published    *)
(* before the acceptance and nothing decided that was not published        *)
(* (VersionsFromOffer).  From it follows that a rejection is final, and    *)
(* that a notice of a version, once superseded, stays so.                  *)
(*                                                                         *)
(* Last, the same service on damaged calendars, and their repair: the rows *)
(* and the pointer of an assignment stay tied to it through any damage     *)
(* (RowsTied), so a step about one assignment leaves the calendar of the   *)
(* others as it was (StepAbout).                                           *)
(***************************************************************************)
EXTENDS ProjectionRepair, TLAPS

USE DEF None

(* An assignment that exists has its guide, its dates and its role. *)
RowsPresent ==
  \A a \in AssignmentId : status[a] # "none" => row[a] # NoRow /\ guide[a] # NoGuide

TypeInv == TypeOK /\ RowsPresent

LEMMA OccupancyType ==
  /\ \A s \in Span, r \in Role : Occupancy(s, r) \in RowValues
  /\ \A o \in Occupancies : o \in RowValues
BY DEF Occupancy, Occupancies, RowValues

LEMMA InitTypeInv == Init => TypeInv
<1> SUFFICES ASSUME Init PROVE TypeInv
  OBVIOUS
<1>1. ConnTypeOK
  BY DEF Init, ConnInit, ConnTypeOK, ConnStatus
<1>2. 0 \in 0..MaxVersion
  BY AssignmentsAssumption DEF AssignmentsAssumption
<1>3. AssignmentTypeOK
  BY <1>2 DEF Init, AssignmentTypeOK, Status
<1>4. RowsPresent
  BY DEF Init, RowsPresent
<1> QED
  BY <1>1, <1>3, <1>4 DEF TypeInv, TypeOK

(* The steps of the connection service leave the assignment tables alone. *)
LEMMA ConnectionTypes ==
  ASSUME ConnTypeOK, ConnNext
  PROVE  ConnTypeOK'
<1> USE DEF ConnTypeOK, ConnStatus
<1> SUFFICES ASSUME NEW c \in ConnectionId,
                    \/ InvitationLapses(c)
                    \/ \E g \in Guide :
                         \/ ReceiveConnectionInvitation(c, g)
                         \/ ReceiveConnectionDisconnect(c, g)
                         \/ \E d \in {"confirm", "decline"} : DecideConnection(c, g, d)
             PROVE  ConnTypeOK'
  BY DEF ConnNext
<1>1. CASE InvitationLapses(c)
  BY <1>1 DEF InvitationLapses
<1>2. ASSUME NEW g \in Guide, ReceiveConnectionInvitation(c, g)
      PROVE  ConnTypeOK'
  BY <1>2 DEF ReceiveConnectionInvitation
<1>3. ASSUME NEW g \in Guide, ReceiveConnectionDisconnect(c, g)
      PROVE  ConnTypeOK'
  BY <1>3 DEF ReceiveConnectionDisconnect
<1>4. ASSUME NEW g \in Guide, NEW d \in {"confirm", "decline"}, DecideConnection(c, g, d)
      PROVE  ConnTypeOK'
  BY <1>4 DEF DecideConnection
<1> QED
  BY <1>1, <1>2, <1>3, <1>4

(* Every step of the specification keeps the types, action by action.  An  *)
(* action that only moves columns of one assignment is left to SMT; the    *)
(* ones that build a row, a version or a tour show its type first.         *)
LEMMA NextTypeInv ==
  ASSUME TypeInv, [Next]_vars
  PROVE  TypeInv'
<1> USE AssignmentsAssumption, OccupancyType
    DEF AssignmentsAssumption,
        TypeInv, TypeOK, AssignmentTypeOK, RowsPresent, Status
<1>1. CASE ConnectionSteps
  BY <1>1, ConnectionTypes DEF ConnectionSteps, columns, records
<1>2. ASSUME NEW a \in AssignmentId, NEW g \in Guide, NEW c \in ConnectionId,
             NEW o \in Occupancies, NEW p \in Package, ReceiveOffer(a, g, c, o, p)
      PROVE  TypeInv'
  <2>1. o \in RowValues /\ o # NoRow /\ 1 \in Version /\ 1 \in 0..MaxVersion
    BY DEF Version
  <2>2. VersionRow("initial", p) \in VersionRows
    BY DEF VersionRow, VersionRows
  <2>3. ConnTypeOK'
    BY <1>2 DEF ReceiveOffer, ConnTypeOK, connVars
  <2>4. versions' \in [AssignmentId -> [Version -> VersionRows \cup {NoRow}]]
    BY <1>2, <2>1, <2>2 DEF ReceiveOffer
  <2> QED
    BY <1>2, <2>1, <2>3, <2>4 DEF ReceiveOffer
<1>3. ASSUME NEW a \in AssignmentId, NEW g \in Guide, Accept(a, g)
      PROVE  TypeInv'
  <2>1. row[a] \in RowValues
    BY <1>3 DEF Accept, OfferOpen
  <2>2. Tour(g, row[a].span, a) \in Tours
    BY <2>1 DEF Tour, Tours, RowValues
  <2>3. tours' \in [TourId -> Tours \cup {NoRow}]
    BY <1>3, <2>2 DEF Accept
  <2>4. ConnTypeOK'
    BY <1>3 DEF Accept, ConnTypeOK, connVars
  <2>5. projection' \in [AssignmentId -> TourId \cup {NoTour}]
    BY <1>3 DEF Accept
  <2> QED
    BY <1>3, <2>3, <2>4, <2>5 DEF Accept, OfferOpen
<1>4. ASSUME NEW a \in AssignmentId, NEW g \in Guide, Decline(a, g)
      PROVE  TypeInv'
  BY <1>4 DEF Decline, OfferOpen, ConnTypeOK, connVars
<1>5. ASSUME NEW a \in AssignmentId, NEW g \in Guide, NEW s \in {"withdrawn", "expired"},
             CloseOffer(a, g, s)
      PROVE  TypeInv'
  BY <1>5 DEF CloseOffer, OfferOpen, ConnTypeOK, connVars, records
<1>6. ASSUME NEW a \in AssignmentId, NEW g \in Guide, NEW v \in Version, Cancel(a, g, v)
      PROVE  TypeInv'
  <2>1. tours' \in [TourId -> Tours \cup {NoRow}]
    BY <1>6 DEF Cancel, ReleaseProjection
  <2>2. 0 \in 0..MaxVersion
    OBVIOUS
  <2> QED
    BY <1>6, <2>1, <2>2 DEF Cancel, ConnTypeOK, connVars, records
<1>7. ASSUME NEW a \in AssignmentId, NEW g \in Guide, NEW v \in Version, NEW p \in Package,
             ApplyOrdinaryVersion(a, g, v, p)
      PROVE  TypeInv'
  <2>1. v \in 0..MaxVersion
    BY DEF Version
  <2>2. VersionRow("ordinary", p) \in VersionRows
    BY DEF VersionRow, VersionRows
  <2>3. versions' \in [AssignmentId -> [Version -> VersionRows \cup {NoRow}]]
    BY <1>7, <2>2 DEF ApplyOrdinaryVersion
  <2>4. ConnTypeOK'
    BY <1>7 DEF ApplyOrdinaryVersion, ConnTypeOK, connVars
  <2> QED
    BY <1>7, <2>1, <2>3, <2>4 DEF ApplyOrdinaryVersion
<1>8. ASSUME NEW a \in AssignmentId, NEW g \in Guide, NEW v \in Version, NEW p \in Package,
             IntakeCriticalVersion(a, g, v, p)
      PROVE  TypeInv'
  <2>1. v \in 0..MaxVersion
    BY DEF Version
  <2>2. VersionRow("critical", p) \in VersionRows
    BY DEF VersionRow, VersionRows
  <2>3. versions' \in [AssignmentId -> [Version -> VersionRows \cup {NoRow}]]
    BY <1>8, <2>2 DEF IntakeCriticalVersion
  <2>4. ConnTypeOK'
    BY <1>8 DEF IntakeCriticalVersion, ConnTypeOK, connVars
  <2> QED
    BY <1>8, <2>1, <2>3, <2>4 DEF IntakeCriticalVersion
<1>9. ASSUME NEW a \in AssignmentId, NEW g \in Guide, NEW v \in Version,
             ConfirmCritical(a, g, v)
      PROVE  TypeInv'
  <2> DEFINE p == versions[a][v].package
             t == projection[a]
  <2>1. p \in Package /\ p.span \in Span /\ p.role \in Role
    BY <1>9 DEF ConfirmCritical, CriticalDecidable, VersionRows
  <2>2. Occupancy(p.span, p.role) \in RowValues
    BY <2>1
  <2>3. t \in TourId /\ tours[t] \in Tours
    BY <1>9 DEF ConfirmCritical, CriticalDecidable
  <2>4. [tours[t] EXCEPT !.span = p.span] \in Tours
    BY <2>1, <2>3 DEF Tours
  <2>5. tours' \in [TourId -> Tours \cup {NoRow}]
    BY <1>9, <2>3, <2>4 DEF ConfirmCritical
  <2>6. ConnTypeOK'
    BY <1>9 DEF ConfirmCritical, ConnTypeOK, connVars
  <2>7. v \in 0..MaxVersion /\ 0 \in 0..MaxVersion
    BY DEF Version
  <2>8. row' \in [AssignmentId -> RowValues \cup {NoRow}] /\ row'[a] # NoRow
    BY <1>9, <2>2 DEF ConfirmCritical
  <2> QED
    BY <1>9, <2>5, <2>6, <2>7, <2>8 DEF ConfirmCritical
<1>10. ASSUME NEW a \in AssignmentId, NEW g \in Guide, NEW v \in Version,
              RejectCritical(a, g, v)
       PROVE  TypeInv'
  <2>1. 0 \in 0..MaxVersion
    OBVIOUS
  <2> QED
    BY <1>10, <2>1 DEF RejectCritical, ConnTypeOK, connVars
<1>11. ASSUME NEW a \in AssignmentId, NEW g \in Guide, NEW v \in Version,
              AcknowledgeVersion(a, g, v)
       PROVE  TypeInv'
  BY <1>11 DEF AcknowledgeVersion, ConnTypeOK, connVars
<1>12. CASE GuideEdits
  <2>1. \A g \in Guide, s \in Span : Tour(g, s, Personal) \in Tours
    BY DEF Tour, Tours
  <2>2. ASSUME NEW g \in Guide, NEW s \in Span, GuideSavesEntry(g, s)
        PROVE  TypeInv'
    <3>1. tours' \in [TourId -> Tours \cup {NoRow}]
      BY <2>1, <2>2 DEF GuideSavesEntry
    <3> QED
      BY <2>2, <3>1 DEF GuideSavesEntry, ConnTypeOK, connVars, columns, records
  <2>3. ASSUME NEW g \in Guide, NEW S \in SUBSET TourId, NEW s \in Span,
               GuideMovesEntries(g, S, s)
        PROVE  TypeInv'
    <3>1. tours' \in [TourId -> Tours \cup {NoRow}]
      BY <2>1, <2>3 DEF GuideMovesEntries
    <3> QED
      BY <2>3, <3>1 DEF GuideMovesEntries, ConnTypeOK, connVars, columns, records
  <2>4. ASSUME NEW g \in Guide, NEW S \in SUBSET TourId, GuideDeletesEntries(g, S)
        PROVE  TypeInv'
    <3>1. tours' \in [TourId -> Tours \cup {NoRow}]
      BY <2>4 DEF GuideDeletesEntries
    <3> QED
      BY <2>4, <3>1 DEF GuideDeletesEntries, ConnTypeOK, connVars, columns, records
  <2> QED
    BY <1>12, <2>2, <2>3, <2>4 DEF GuideEdits
<1>13. CASE UNCHANGED vars
  BY <1>13 DEF vars, connVars, columns, records, ConnTypeOK
<1> QED
  BY <1>1, <1>2, <1>3, <1>4, <1>5, <1>6, <1>7, <1>8, <1>9, <1>10, <1>11, <1>12, <1>13
  DEF Next, OperatorEvents, GuideAnswers

(* Type correctness: whatever guides and operators do, in any order, every *)
(* column keeps a value of its type.                                       *)
THEOREM TypeCorrect == Spec => []TypeOK
<1>1. Spec => []TypeInv
  BY InitTypeInv, NextTypeInv, PTL DEF Spec
<1>2. TypeInv => TypeOK
  BY DEF TypeInv
<1> QED
  BY <1>1, <1>2, PTL

----------------------------------------------------------------------------
(* The calendar.  The one-to-one tie between accepted assignments and      *)
(* protected tours is what makes their disjointness inductive: a confirmed *)
(* version moves a tour it may exclude from the check only because that    *)
(* tour is its own.                                                        *)
CalendarInv == TypeInv /\ CalendarMirrorsAssignments /\ OperatorToursDisjoint

LEMMA InitCalendarInv == Init => CalendarInv
BY InitTypeInv
DEF Init, CalendarInv, CalendarMirrorsAssignments, OperatorToursDisjoint

(* The tour an assignment points to is its own, and no other's. *)
LEMMA ProjectedTour ==
  ASSUME CalendarInv, NEW a \in AssignmentId, projection[a] # NoTour
  PROVE  /\ projection[a] \in TourId
         /\ tours[projection[a]] # NoRow
         /\ tours[projection[a]].guide = guide[a]
         /\ tours[projection[a]].span = row[a].span
         /\ tours[projection[a]].owner = a
         /\ a # Personal
         /\ \A b \in AssignmentId : projection[b] = projection[a] => b = a
<1> USE AssignmentsAssumption
    DEF AssignmentsAssumption, CalendarInv, TypeInv, TypeOK, AssignmentTypeOK
<1>1. projection[a] \in TourId /\ status[a] = "accepted" /\ a # Personal
  BY DEF CalendarMirrorsAssignments
<1>2. row[a] \in RowValues /\ guide[a] \in Guide
  BY <1>1 DEF RowsPresent
<1>3. Tour(guide[a], row[a].span, a) \in Tours
  BY <1>2 DEF Tour, Tours, RowValues
<1>4. tours[projection[a]] = Tour(guide[a], row[a].span, a)
  BY DEF CalendarMirrorsAssignments
<1>5. tours[projection[a]].owner = a
  BY <1>4 DEF Tour
<1>6. \A b \in AssignmentId : projection[b] = projection[a] => b = a
  <2>1. ASSUME NEW b \in AssignmentId, projection[b] = projection[a]
        PROVE  tours[projection[a]].owner = b
    <3>1. tours[projection[b]] = Tour(guide[b], row[b].span, b)
      BY <2>1 DEF CalendarMirrorsAssignments
    <3> QED
      BY <2>1, <3>1 DEF Tour
  <2> QED
    BY <1>5, <2>1
<1> QED
  BY <1>1, <1>3, <1>4, <1>5, <1>6 DEF Tour

(* Steps that touch neither the tours nor what ties them to assignments. *)
LEMMA CalendarUntouched ==
  ASSUME CalendarInv, UNCHANGED <<status, guide, row, projection, tours>>
  PROVE  CalendarMirrorsAssignments' /\ OperatorToursDisjoint'
BY DEF CalendarInv, CalendarMirrorsAssignments, OperatorToursDisjoint

(* Steps that change nothing but the personal rows of one guide. *)
LEMMA CalendarPersonal ==
  ASSUME CalendarInv,
         UNCHANGED <<status, guide, row, projection>>,
         \A t \in TourId :
           \/ tours'[t] = tours[t]
           \/ /\ tours[t] = NoRow \/ tours[t].owner = Personal
              /\ tours'[t] = NoRow \/ tours'[t].owner = Personal
  PROVE  CalendarMirrorsAssignments' /\ OperatorToursDisjoint'
<1> USE AssignmentsAssumption
    DEF AssignmentsAssumption, CalendarInv, TypeInv, TypeOK, AssignmentTypeOK
<1>1. \A t \in TourId :
        \/ tours[t] # NoRow /\ tours[t].owner # Personal
        \/ tours'[t] # NoRow /\ tours'[t].owner # Personal
        => tours'[t] = tours[t]
  OBVIOUS
<1>2. \A a \in AssignmentId : projection[a] # NoTour =>
        tours[projection[a]] # NoRow /\ tours[projection[a]].owner # Personal
  BY ProjectedTour
<1>3. CalendarMirrorsAssignments'
  BY <1>1, <1>2 DEF CalendarMirrorsAssignments
<1>4. OperatorToursDisjoint'
  BY <1>1 DEF OperatorToursDisjoint
<1> QED
  BY <1>3, <1>4

LEMMA AcceptKeepsCalendar ==
  ASSUME CalendarInv, NEW a \in AssignmentId, NEW g \in Guide, Accept(a, g)
  PROVE  CalendarMirrorsAssignments' /\ OperatorToursDisjoint'
<1> USE AssignmentsAssumption
    DEF AssignmentsAssumption, CalendarInv, TypeInv, TypeOK, AssignmentTypeOK
<1>1. PICK t \in TourId :
        /\ tours[t] = NoRow
        /\ tours' = [tours EXCEPT ![t] = Tour(g, row[a].span, a)]
        /\ projection' = [projection EXCEPT ![a] = t]
  BY DEF Accept
<1>2. /\ status[a] = "offered" /\ guide[a] = g
      /\ status' = [status EXCEPT ![a] = "accepted"]
      /\ guide' = guide /\ row' = row
      /\ CalendarFree(g, row[a].span, {})
  BY DEF Accept, OfferOpen
<1>3. projection[a] = NoTour
  BY <1>2 DEF CalendarMirrorsAssignments
<1>4. row[a] \in RowValues
  BY <1>2 DEF RowsPresent
<1>5. /\ tours'[t] = Tour(g, row[a].span, a)
      /\ tours'[t].guide = g /\ tours'[t].span = row[a].span /\ tours'[t].owner = a
      /\ tours'[t] # NoRow /\ t # NoTour
      /\ \A u \in TourId \ {t} : tours'[u] = tours[u]
  <2>1. Tour(g, row[a].span, a) \in Tours
    BY <1>4 DEF Tour, Tours, RowValues
  <2> QED
    BY <1>1, <2>1 DEF Tour
<1>6. \A b \in AssignmentId : projection[b] # t
  BY <1>1, ProjectedTour
<1>7. CalendarMirrorsAssignments'
  <2>1. \A b \in AssignmentId : status'[b] = "accepted" <=> projection'[b] # NoTour
    BY <1>1, <1>2, <1>5 DEF CalendarMirrorsAssignments
  <2>2. ASSUME NEW b \in AssignmentId, projection'[b] # NoTour
        PROVE  tours'[projection'[b]] = Tour(guide'[b], row'[b].span, b)
    <3>1. CASE b = a
      BY <1>1, <1>2, <1>5, <3>1
    <3>2. CASE b # a
      BY <1>1, <1>2, <1>5, <1>6, <2>2, <3>2 DEF CalendarMirrorsAssignments
    <3> QED
      BY <3>1, <3>2
  <2>3. ASSUME NEW u \in TourId, tours'[u] # NoRow, tours'[u].owner # Personal
        PROVE  projection'[tours'[u].owner] = u
    <3>1. CASE u = t
      BY <1>1, <1>5, <3>1
    <3>2. CASE u # t
      <4>1. projection[tours[u].owner] = u /\ tours[u].owner # a
        BY <1>3, <1>5, <2>3, <3>2 DEF CalendarMirrorsAssignments
      <4> QED
        BY <1>1, <1>5, <2>3, <3>2, <4>1 DEF Tours
    <3> QED
      BY <3>1, <3>2
  <2> QED
    BY <2>1, <2>2, <2>3 DEF CalendarMirrorsAssignments
<1>8. OperatorToursDisjoint'
  <2>1. \A u \in TourId \ {t} :
          tours[u] # NoRow /\ tours[u].guide = g => tours[u].span \cap row[a].span = {}
    BY <1>2 DEF CalendarFree
  <2>2. \A u \in TourId \ {t} :
          tours'[u] # NoRow /\ tours'[u].guide = g => tours'[u].span \cap tours'[t].span = {}
    BY <1>5, <2>1
  <2>3. \A u \in TourId \ {t} :
          tours'[u] # NoRow /\ tours'[u].guide = g => tours'[t].span \cap tours'[u].span = {}
    BY <2>2
  <2>4. ASSUME NEW x \in TourId, NEW y \in TourId, x # y,
               tours'[x] # NoRow, tours'[x].owner # Personal,
               tours'[y] # NoRow, tours'[y].owner # Personal,
               tours'[x].guide = tours'[y].guide
        PROVE  tours'[x].span \cap tours'[y].span = {}
    <3>1. CASE x = t
      BY <1>5, <2>3, <2>4, <3>1
    <3>2. CASE y = t
      BY <1>5, <2>2, <2>4, <3>2
    <3>3. CASE x # t /\ y # t
      BY <1>5, <2>4, <3>3 DEF OperatorToursDisjoint
    <3> QED
      BY <3>1, <3>2, <3>3
  <2> QED
    BY <2>4 DEF OperatorToursDisjoint
<1> QED
  BY <1>7, <1>8

LEMMA CancelKeepsCalendar ==
  ASSUME CalendarInv, NEW a \in AssignmentId, NEW g \in Guide, NEW v \in Version,
         Cancel(a, g, v)
  PROVE  CalendarMirrorsAssignments' /\ OperatorToursDisjoint'
<1> USE AssignmentsAssumption
    DEF AssignmentsAssumption, CalendarInv, TypeInv, TypeOK, AssignmentTypeOK
<1> DEFINE t == projection[a]
<1>1. /\ status[a] = "accepted"
      /\ status' = [status EXCEPT ![a] = "cancelled"]
      /\ projection' = [projection EXCEPT ![a] = NoTour]
      /\ guide' = guide /\ row' = row
  BY DEF Cancel
<1>2. t \in TourId /\ tours[t] = Tour(guide[a], row[a].span, a)
  BY <1>1 DEF CalendarMirrorsAssignments
<1>3. tours' = [tours EXCEPT ![t] = NoRow]
  BY <1>1 DEF Cancel, ReleaseProjection, CalendarMirrorsAssignments
<1>4. tours[t].owner = a
  BY <1>2 DEF Tour
<1>5. \A b \in AssignmentId \ {a} : projection[b] # t
  BY <1>1, ProjectedTour DEF CalendarMirrorsAssignments
<1>6. CalendarMirrorsAssignments'
  <2>1. \A b \in AssignmentId : status'[b] = "accepted" <=> projection'[b] # NoTour
    BY <1>1 DEF CalendarMirrorsAssignments
  <2>2. \A b \in AssignmentId : projection'[b] # NoTour =>
          tours'[projection'[b]] = Tour(guide'[b], row'[b].span, b)
    BY <1>1, <1>3, <1>5 DEF CalendarMirrorsAssignments
  <2>3. \A u \in TourId : tours'[u] # NoRow /\ tours'[u].owner # Personal =>
          projection'[tours'[u].owner] = u
    BY <1>1, <1>2, <1>3, <1>4 DEF CalendarMirrorsAssignments, Tours
  <2> QED
    BY <2>1, <2>2, <2>3 DEF CalendarMirrorsAssignments
<1>7. OperatorToursDisjoint'
  BY <1>2, <1>3 DEF OperatorToursDisjoint
<1> QED
  BY <1>6, <1>7

LEMMA ConfirmKeepsCalendar ==
  ASSUME CalendarInv, NEW a \in AssignmentId, NEW g \in Guide, NEW v \in Version,
         ConfirmCritical(a, g, v)
  PROVE  CalendarMirrorsAssignments' /\ OperatorToursDisjoint'
<1> USE AssignmentsAssumption
    DEF AssignmentsAssumption, CalendarInv, TypeInv, TypeOK, AssignmentTypeOK
<1> DEFINE t == projection[a]
           p == versions[a][v].package
<1>1. /\ guide[a] = g /\ status[a] = "accepted"
      /\ CalendarFree(g, p.span, {t})
      /\ tours' = [tours EXCEPT ![t].span = p.span]
      /\ row' = [row EXCEPT ![a] = Occupancy(p.span, p.role)]
      /\ status' = status /\ guide' = guide /\ projection' = projection
  BY DEF ConfirmCritical, CriticalDecidable
<1>2. t \in TourId /\ tours[t] = Tour(g, row[a].span, a) /\ tours[t] \in Tours
  BY <1>1 DEF CalendarMirrorsAssignments, ConfirmCritical
<1>3. /\ tours'[t] = Tour(g, p.span, a)
      /\ tours'[t].guide = g /\ tours'[t].span = p.span /\ tours'[t].owner = a
      /\ \A u \in TourId \ {t} : tours'[u] = tours[u]
  BY <1>1, <1>2 DEF Tour
<1>4. \A b \in AssignmentId \ {a} : projection[b] # t
  BY <1>1, ProjectedTour DEF CalendarMirrorsAssignments
<1>5. CalendarMirrorsAssignments'
  <2>1. \A b \in AssignmentId : status'[b] = "accepted" <=> projection'[b] # NoTour
    BY <1>1 DEF CalendarMirrorsAssignments
  <2>2. ASSUME NEW b \in AssignmentId, projection'[b] # NoTour
        PROVE  tours'[projection'[b]] = Tour(guide'[b], row'[b].span, b)
    <3>1. CASE b = a
      BY <1>1, <1>3, <3>1 DEF Occupancy
    <3>2. CASE b # a
      BY <1>1, <1>3, <1>4, <2>2, <3>2 DEF CalendarMirrorsAssignments
    <3> QED
      BY <3>1, <3>2
  <2>3. \A u \in TourId : tours'[u] # NoRow /\ tours'[u].owner # Personal =>
          projection'[tours'[u].owner] = u
    BY <1>1, <1>3 DEF CalendarMirrorsAssignments
  <2> QED
    BY <2>1, <2>2, <2>3 DEF CalendarMirrorsAssignments
<1>6. OperatorToursDisjoint'
  BY <1>1, <1>3 DEF OperatorToursDisjoint, CalendarFree
<1> QED
  BY <1>5, <1>6

(* The guide's edits write personal rows, and free rows, only. *)
LEMMA EditsArePersonal ==
  ASSUME TypeInv, GuideEdits
  PROVE  \A t \in TourId :
           \/ tours'[t] = tours[t]
           \/ /\ tours[t] = NoRow \/ tours[t].owner = Personal
              /\ tours'[t] = NoRow \/ tours'[t].owner = Personal
<1>1. ASSUME NEW g \in Guide, NEW s \in Span, GuideSavesEntry(g, s), NEW t \in TourId
      PROVE  \/ tours'[t] = tours[t]
             \/ tours[t] = NoRow /\ tours'[t].owner = Personal
  BY <1>1 DEF GuideSavesEntry, TypeInv, TypeOK, AssignmentTypeOK, Tour
<1>2. ASSUME NEW g \in Guide, NEW S \in SUBSET TourId, NEW t \in TourId,
             \/ \E s \in Span : GuideMovesEntries(g, S, s)
             \/ GuideDeletesEntries(g, S)
      PROVE  \/ tours'[t] = tours[t]
             \/ /\ tours[t].owner = Personal
                /\ tours'[t] = NoRow \/ tours'[t].owner = Personal
  BY <1>2 DEF GuideMovesEntries, GuideDeletesEntries, PersonalRows, Tour
<1> QED
  BY <1>1, <1>2 DEF GuideEdits

LEMMA NextCalendarInv ==
  ASSUME CalendarInv, [Next]_vars
  PROVE  CalendarInv'
<1> SUFFICES CalendarMirrorsAssignments' /\ OperatorToursDisjoint'
  BY NextTypeInv DEF CalendarInv
<1>1. CASE ConnectionSteps
  BY <1>1, CalendarUntouched DEF ConnectionSteps, columns
<1>2. CASE OperatorEvents
  <2>1. ASSUME NEW a \in AssignmentId, NEW g \in Guide, NEW c \in ConnectionId,
               NEW o \in Occupancies, NEW p \in Package, ReceiveOffer(a, g, c, o, p)
        PROVE  CalendarMirrorsAssignments' /\ OperatorToursDisjoint'
    <3>1. projection[a] = NoTour
      BY <2>1 DEF ReceiveOffer, CalendarInv, CalendarMirrorsAssignments
    <3> QED
      BY <2>1, <3>1
      DEF ReceiveOffer, CalendarInv, TypeInv, TypeOK, AssignmentTypeOK,
          CalendarMirrorsAssignments, OperatorToursDisjoint
  <2>2. ASSUME NEW a \in AssignmentId, NEW g \in Guide, NEW s \in {"withdrawn", "expired"},
               CloseOffer(a, g, s)
        PROVE  CalendarMirrorsAssignments' /\ OperatorToursDisjoint'
    BY <2>2
    DEF CloseOffer, OfferOpen, CalendarInv, TypeInv, TypeOK, AssignmentTypeOK,
        CalendarMirrorsAssignments, OperatorToursDisjoint
  <2>3. ASSUME NEW a \in AssignmentId, NEW g \in Guide, NEW v \in Version, NEW p \in Package,
               ApplyOrdinaryVersion(a, g, v, p) \/ IntakeCriticalVersion(a, g, v, p)
        PROVE  CalendarMirrorsAssignments' /\ OperatorToursDisjoint'
    BY <2>3, CalendarUntouched DEF ApplyOrdinaryVersion, IntakeCriticalVersion
  <2> QED
    BY <1>2, <2>1, <2>2, <2>3, CancelKeepsCalendar DEF OperatorEvents
<1>3. CASE GuideAnswers
  <2>1. ASSUME NEW a \in AssignmentId, NEW g \in Guide, Decline(a, g)
        PROVE  CalendarMirrorsAssignments' /\ OperatorToursDisjoint'
    BY <2>1
    DEF Decline, OfferOpen, CalendarInv, TypeInv, TypeOK, AssignmentTypeOK,
        CalendarMirrorsAssignments, OperatorToursDisjoint
  <2>2. ASSUME NEW a \in AssignmentId, NEW g \in Guide, NEW v \in Version,
               RejectCritical(a, g, v) \/ AcknowledgeVersion(a, g, v)
        PROVE  CalendarMirrorsAssignments' /\ OperatorToursDisjoint'
    BY <2>2, CalendarUntouched DEF RejectCritical, AcknowledgeVersion
  <2> QED
    BY <1>3, <2>1, <2>2, AcceptKeepsCalendar, ConfirmKeepsCalendar DEF GuideAnswers
<1>4. CASE GuideEdits
  <2>1. UNCHANGED <<status, guide, row, projection>>
    BY <1>4 DEF GuideEdits, GuideSavesEntry, GuideMovesEntries, GuideDeletesEntries, columns
  <2>2. TypeInv
    BY DEF CalendarInv
  <2> QED
    BY <1>4, <2>1, <2>2, EditsArePersonal, CalendarPersonal
<1>5. CASE UNCHANGED vars
  BY <1>5, CalendarUntouched DEF vars, columns
<1> QED
  BY <1>1, <1>2, <1>3, <1>4, <1>5 DEF Next

(* An accepted assignment and its protected tour exist together and agree, *)
(* for any number of guides, assignments and versions.                     *)
THEOREM CalendarMirrors == Spec => []CalendarMirrorsAssignments
<1>1. Spec => []CalendarInv
  BY InitCalendarInv, NextCalendarInv, PTL DEF Spec
<1>2. CalendarInv => CalendarMirrorsAssignments
  BY DEF CalendarInv
<1> QED
  BY <1>1, <1>2, PTL

(* Two accepted assignments of a guide never share a day. *)
THEOREM NoDoubleBooking == Spec => []OperatorToursDisjoint
<1>1. Spec => []CalendarInv
  BY InitCalendarInv, NextCalendarInv, PTL DEF Spec
<1>2. CalendarInv => OperatorToursDisjoint
  BY DEF CalendarInv
<1> QED
  BY <1>1, <1>2, PTL

(* A protected tour is on the calendar of the guide of its assignment. *)
OwnCalendars ==
  \A t \in TourId :
    tours[t] # NoRow /\ tours[t].owner # Personal => tours[t].guide = guide[tours[t].owner]

LEMMA MirrorsAreOwn == CalendarInv => OwnCalendars
<1> SUFFICES ASSUME CalendarInv, NEW t \in TourId, tours[t] # NoRow, tours[t].owner # Personal
             PROVE  tours[t].guide = guide[tours[t].owner]
  BY DEF OwnCalendars
<1>1. tours[t].owner \in AssignmentId /\ projection[tours[t].owner] = t
  BY DEF CalendarInv, CalendarMirrorsAssignments, TypeInv, TypeOK, AssignmentTypeOK, Tours
<1>2. projection[tours[t].owner] # NoTour
  BY <1>1, AssignmentsAssumption DEF AssignmentsAssumption
<1> QED
  BY <1>1, <1>2, ProjectedTour

(* A row written on days that are free of all others overlaps none. *)
LEMMA FreeDaysOverlapNone ==
  ASSUME NEW k \in TourId, NEW g \in Guide, NEW s, CalendarFree(g, s, {k}),
         tours'[k].guide = g, tours'[k].span = s,
         \A t \in TourId \ {k} : tours'[t] = tours[t],
         NEW t \in TourId, NEW u \in TourId, t # u, Overlap(tours'[t], tours'[u])
  PROVE  Overlap(tours[t], tours[u])
<1>1. ASSUME NEW w \in TourId \ {k}, tours[w] # NoRow, tours[w].guide = g
      PROVE  tours[w].span \cap s = {}
  BY <1>1 DEF CalendarFree
<1>2. t # k
  BY <1>1 DEF Overlap
<1>3. u # k
  BY <1>1 DEF Overlap
<1> QED
  BY <1>2, <1>3

(* An acceptance and a confirmed version bring no rows to overlap, and the *)
(* other handlers write no row. *)
LEMMA OperatorsOverlapNone ==
  ASSUME TypeInv, OwnCalendars, ConnectionSteps \/ OperatorEvents \/ GuideAnswers,
         NEW t \in TourId, NEW u \in TourId, t # u, Overlap(tours'[t], tours'[u])
  PROVE  Overlap(tours[t], tours[u])
<1> USE DEF TypeInv, TypeOK, AssignmentTypeOK
<1>1. CASE tours' = tours
  BY <1>1
<1>2. ASSUME NEW a \in AssignmentId, NEW g \in Guide, Accept(a, g)
      PROVE  Overlap(tours[t], tours[u])
  <2>1. PICK k \in TourId : tours[k] = NoRow /\ tours' = [tours EXCEPT ![k] = Tour(g, row[a].span, a)]
    BY <1>2 DEF Accept
  <2>2. tours'[k].guide = g /\ tours'[k].span = row[a].span
    BY <2>1 DEF Tour
  <2>3. CalendarFree(g, row[a].span, {k})
    BY <1>2 DEF Accept, CalendarFree
  <2> QED
    BY <2>1, <2>2, <2>3, FreeDaysOverlapNone
<1>3. ASSUME NEW a \in AssignmentId, NEW g \in Guide, NEW v \in Version, ConfirmCritical(a, g, v)
      PROVE  Overlap(tours[t], tours[u])
  <2>1. PICK k \in TourId, s \in Span :
          /\ k = projection[a] /\ s = versions[a][v].package.span
          /\ CalendarFree(g, s, {k})
          /\ tours' = [tours EXCEPT ![k].span = s]
    <3>1. versions[a][v] \in VersionRows
      BY <1>3 DEF ConfirmCritical, CriticalDecidable
    <3>2. versions[a][v].package.span \in Span
      BY <3>1, AssignmentsAssumption DEF AssignmentsAssumption, VersionRows
    <3>3. projection[a] \in TourId
      BY <1>3 DEF ConfirmCritical, CriticalDecidable
    <3> QED
      BY <1>3, <3>2, <3>3 DEF ConfirmCritical
  <2>2. tours[k] \in Tours /\ tours[k].guide = g
    <3>1. /\ tours[k] # NoRow /\ tours[k].owner = a /\ a # Personal /\ guide[a] = g
      BY <1>3, <2>1, AssignmentsAssumption
      DEF AssignmentsAssumption, ConfirmCritical, CriticalDecidable
    <3> QED
      BY <3>1 DEF OwnCalendars
  <2>3. tours'[k].guide = g /\ tours'[k].span = s
    BY <2>1, <2>2 DEF Tours
  <2> QED
    BY <2>1, <2>3, FreeDaysOverlapNone
<1>4. ASSUME NEW a \in AssignmentId, NEW g \in Guide, NEW v \in Version, Cancel(a, g, v)
      PROVE  Overlap(tours[t], tours[u])
  <2>1. \A w \in TourId : tours'[w] = tours[w] \/ tours'[w] = NoRow
    BY <1>4 DEF Cancel, ReleaseProjection
  <2> QED
    BY <2>1 DEF Overlap
<1>5. CASE ConnectionSteps
  BY <1>1, <1>5 DEF ConnectionSteps, columns
<1>6. CASE OperatorEvents
  BY <1>1, <1>4, <1>6 DEF OperatorEvents, ReceiveOffer, CloseOffer, ApplyOrdinaryVersion, IntakeCriticalVersion
<1>7. CASE GuideAnswers
  BY <1>1, <1>2, <1>3, <1>7 DEF GuideAnswers, Decline, RejectCritical, AcknowledgeVersion
<1> QED
  BY <1>5, <1>6, <1>7

LEMMA OverlapsByGuideStep ==
  ASSUME TypeInv, OwnCalendars, [Next]_vars, NEW t \in TourId, NEW u \in TourId, t # u,
         Overlap(tours'[t], tours'[u]), ~ Overlap(tours[t], tours[u])
  PROVE  \E x \in {t, u} : tours'[x].owner = Personal /\ tours'[x] # tours[x]
<1>1. CASE GuideEdits
  <2>1. PICK x \in {t, u} : tours'[x] # tours[x]
    OBVIOUS
  <2>2. tours'[x] # NoRow
    BY DEF Overlap
  <2>3. tours'[x].owner = Personal
    BY <1>1, <2>1, <2>2, EditsArePersonal
  <2> QED
    BY <2>1, <2>3
<1>2. CASE UNCHANGED vars
  BY <1>2 DEF vars
<1> QED
  BY <1>1, <1>2, OperatorsOverlapNone DEF Next

(* Rows of one calendar come to overlap only in a step of the guide that   *)
(* writes a personal one: never by an answer to an operator.               *)
THEOREM OnlyTheGuideOverlaps == Spec => OverlapsOnlyByGuide
<1>1. ASSUME CalendarInv, [Next]_vars, NEW t \in TourId, NEW u \in TourId, t # u,
             Overlap(tours'[t], tours'[u]), ~ Overlap(tours[t], tours[u])
      PROVE  \E x \in {t, u} : tours'[x].owner = Personal /\ tours'[x] # tours[x]
  BY <1>1, MirrorsAreOwn, OverlapsByGuideStep DEF CalendarInv
<1>2. Spec => []CalendarInv
  BY InitCalendarInv, NextCalendarInv, PTL DEF Spec
<1>3. CalendarInv /\ [Next]_vars =>
        \A t, u \in TourId :
          t # u /\ Overlap(tours'[t], tours'[u]) /\ ~ Overlap(tours[t], tours[u]) =>
            \E x \in {t, u} : tours'[x].owner = Personal /\ tours'[x] # tours[x]
  BY <1>1
<1> QED
  BY <1>2, <1>3, PTL DEF Spec, OverlapsOnlyByGuide

----------------------------------------------------------------------------
(* The versions of an assignment. *)

VersionsFromOffer(a) ==
  /\ status[a] = "none" =>
       active[a] = 0 /\ \A v \in Version : versions[a][v] = NoRow
  /\ status[a] = "offered" =>
       \A v \in Version : versions[a][v] # NoRow => versions[a][v].severity = "initial"
  /\ \A v \in Version :
       criticalDecision[a][v] # None =>
         versions[a][v] # NoRow /\ versions[a][v].severity = "critical"

VersionInv ==
  /\ TypeInv
  /\ \A a \in AssignmentId : VersionChainOf(a) /\ VersionsFromOffer(a)

LEMMA InitVersionInv == Init => VersionInv
<1> SUFFICES ASSUME Init, NEW a \in AssignmentId
             PROVE  VersionChainOf(a) /\ VersionsFromOffer(a)
  BY InitTypeInv DEF VersionInv
<1>1. VersionChainOf(a)
  BY AssignmentsAssumption DEF AssignmentsAssumption, Init, VersionChainOf, Version
<1>2. VersionsFromOffer(a)
  BY DEF Init, VersionsFromOffer
<1> QED
  BY <1>1, <1>2

(* Both predicates read these five columns only. *)
LEMMA VersionsUntouched ==
  ASSUME VersionInv, NEW a \in AssignmentId,
         status'[a] = status[a], active'[a] = active[a], pending'[a] = pending[a],
         versions'[a] = versions[a], criticalDecision'[a] = criticalDecision[a]
  PROVE  VersionChainOf(a)' /\ VersionsFromOffer(a)'
BY DEF VersionInv, VersionChainOf, VersionsFromOffer

(* A status that moves on from "offered" or "accepted" without a new       *)
(* version: the answer to the offer, its closing, the cancellation.        *)
LEMMA StatusKeepsVersions ==
  ASSUME VersionInv, NEW a \in AssignmentId,
         \/ status[a] = "offered" /\ pending'[a] = pending[a]
         \/ status'[a] = "cancelled" /\ pending'[a] = 0,
         status'[a] \in Status \ {"none", "offered"},
         active'[a] = active[a], versions'[a] = versions[a],
         criticalDecision'[a] = criticalDecision[a]
  PROVE  VersionChainOf(a)' /\ VersionsFromOffer(a)'
<1> USE AssignmentsAssumption DEF AssignmentsAssumption, VersionInv, Version
<1>1. \A v \in Version : status[a] = "offered" /\ versions[a][v] # NoRow =>
                           versions[a][v].severity # "critical"
  BY DEF VersionsFromOffer
<1>2. \A v \in Version : status[a] = "offered" => pending[a] # v
  BY DEF VersionChainOf
<1>3. VersionChainOf(a)'
  BY <1>1, <1>2 DEF VersionChainOf
<1>4. VersionsFromOffer(a)'
  BY DEF VersionsFromOffer
<1> QED
  BY <1>3, <1>4

LEMMA OfferStartsVersions ==
  ASSUME VersionInv, NEW a \in AssignmentId, NEW g \in Guide, NEW c \in ConnectionId,
         NEW o \in Occupancies, NEW p \in Package, ReceiveOffer(a, g, c, o, p)
  PROVE  VersionChainOf(a)' /\ VersionsFromOffer(a)'
<1> USE AssignmentsAssumption
    DEF AssignmentsAssumption, VersionInv, TypeInv, TypeOK, AssignmentTypeOK, Version
<1>1. /\ active'[a] = 1 /\ status'[a] = "offered" /\ pending'[a] = pending[a]
      /\ criticalDecision' = criticalDecision
      /\ versions'[a] = [versions[a] EXCEPT ![1] = VersionRow("initial", p)]
  BY DEF ReceiveOffer
<1>2. \A v \in Version : versions[a][v] = NoRow /\ criticalDecision[a][v] = None
  BY DEF ReceiveOffer, VersionsFromOffer
<1>3. VersionRow("initial", p) # NoRow /\ VersionRow("initial", p).severity = "initial"
  BY DEF VersionRow, VersionRows
<1>4. \A v \in Version : pending[a] # v
  BY <1>2 DEF VersionChainOf
<1>5. VersionChainOf(a)'
  BY <1>1, <1>2, <1>3, <1>4 DEF VersionChainOf
<1>6. VersionsFromOffer(a)'
  BY <1>1, <1>2, <1>3 DEF VersionsFromOffer
<1> QED
  BY <1>5, <1>6

LEMMA PublishingKeepsVersions ==
  ASSUME VersionInv, NEW a \in AssignmentId, NEW g \in Guide, NEW v \in Version,
         NEW p \in Package,
         ApplyOrdinaryVersion(a, g, v, p) \/ IntakeCriticalVersion(a, g, v, p)
  PROVE  VersionChainOf(a)' /\ VersionsFromOffer(a)'
<1> USE AssignmentsAssumption
    DEF AssignmentsAssumption, VersionInv, TypeInv, TypeOK, AssignmentTypeOK, Version
<1>1. /\ status[a] = "accepted" /\ status' = status
      /\ v = active[a] + 1 /\ versions[a][v] = NoRow
      /\ criticalDecision' = criticalDecision
  BY DEF ApplyOrdinaryVersion, IntakeCriticalVersion, NextVersion
<1>2. criticalDecision[a][v] = None
  BY <1>1 DEF VersionsFromOffer
<1>3. CASE ApplyOrdinaryVersion(a, g, v, p)
  <2>1. /\ versions'[a] = [versions[a] EXCEPT ![v] = VersionRow("ordinary", p)]
        /\ active'[a] = v /\ pending' = pending
    BY <1>3 DEF ApplyOrdinaryVersion
  <2>2. VersionRow("ordinary", p) # NoRow /\ VersionRow("ordinary", p).severity = "ordinary"
    BY DEF VersionRow, VersionRows
  <2>3. VersionChainOf(a)'
    BY <1>1, <1>2, <2>1, <2>2 DEF VersionChainOf
  <2>4. VersionsFromOffer(a)'
    BY <1>1, <1>2, <2>1, <2>2 DEF VersionsFromOffer
  <2> QED
    BY <2>3, <2>4
<1>4. CASE IntakeCriticalVersion(a, g, v, p)
  <2>1. /\ versions'[a] = [versions[a] EXCEPT ![v] = VersionRow("critical", p)]
        /\ active' = active /\ pending[a] = 0 /\ pending'[a] = v
    BY <1>4 DEF IntakeCriticalVersion
  <2>2. VersionRow("critical", p) # NoRow /\ VersionRow("critical", p).severity = "critical"
    BY DEF VersionRow, VersionRows
  <2>3. VersionChainOf(a)'
    BY <1>1, <1>2, <2>1, <2>2 DEF VersionChainOf
  <2>4. VersionsFromOffer(a)'
    BY <1>1, <1>2, <2>1, <2>2 DEF VersionsFromOffer
  <2> QED
    BY <2>3, <2>4
<1> QED
  BY <1>3, <1>4

(* The pending version is the one after the active one, and undecided. *)
LEMMA PendingIsNext ==
  ASSUME VersionInv, NEW a \in AssignmentId, NEW v \in Version, pending[a] = v
  PROVE  /\ v = active[a] + 1
         /\ versions[a][v] # NoRow /\ versions[a][v].severity = "critical"
         /\ criticalDecision[a][v] = None
         /\ \A w \in Version : versions[a][w] # NoRow => w <= v
<1> USE AssignmentsAssumption
    DEF AssignmentsAssumption, VersionInv, TypeInv, TypeOK, AssignmentTypeOK, Version
<1>1. /\ versions[a][v] # NoRow /\ versions[a][v].severity = "critical"
      /\ criticalDecision[a][v] = None
  BY DEF VersionChainOf
<1>2. v > active[a]
  BY <1>1 DEF VersionChainOf
<1>3. v = active[a] + 1
  BY <1>1, <1>2 DEF VersionChainOf
<1>4. ASSUME NEW w \in Version, versions[a][w] # NoRow
      PROVE  w <= v
  <2>1. w > active[a] => w = active[a] + 1
    BY <1>4 DEF VersionChainOf
  <2> QED
    BY <1>3, <2>1
<1> QED
  BY <1>1, <1>3, <1>4

LEMMA DecidingKeepsVersions ==
  ASSUME VersionInv, NEW a \in AssignmentId, NEW g \in Guide, NEW v \in Version,
         ConfirmCritical(a, g, v) \/ RejectCritical(a, g, v)
  PROVE  VersionChainOf(a)' /\ VersionsFromOffer(a)'
<1> USE AssignmentsAssumption
    DEF AssignmentsAssumption, VersionInv, TypeInv, TypeOK, AssignmentTypeOK, Version
<1>1. /\ status[a] = "accepted" /\ pending[a] = v /\ pending'[a] = 0
      /\ status' = status /\ versions' = versions
  BY DEF ConfirmCritical, RejectCritical, CriticalDecidable
<1>2. /\ v = active[a] + 1
      /\ versions[a][v] # NoRow /\ versions[a][v].severity = "critical"
      /\ \A w \in Version : versions[a][w] # NoRow => w <= v
  BY <1>1, PendingIsNext
<1>3. \A w \in Version \ {v} : pending[a] # w
  BY <1>1
<1>4. CASE ConfirmCritical(a, g, v)
  <2>1. /\ active'[a] = v
        /\ criticalDecision'[a] = [criticalDecision[a] EXCEPT ![v] = "confirm_critical"]
    BY <1>4 DEF ConfirmCritical
  <2>2. VersionChainOf(a)'
    BY <1>1, <1>2, <1>3, <2>1 DEF VersionChainOf
  <2>3. VersionsFromOffer(a)'
    BY <1>1, <1>2, <2>1 DEF VersionsFromOffer
  <2> QED
    BY <2>2, <2>3
<1>5. CASE RejectCritical(a, g, v)
  <2>1. /\ active' = active
        /\ criticalDecision'[a] = [criticalDecision[a] EXCEPT ![v] = "reject_critical"]
    BY <1>5 DEF RejectCritical
  <2>2. VersionChainOf(a)'
    BY <1>1, <1>2, <1>3, <2>1 DEF VersionChainOf
  <2>3. VersionsFromOffer(a)'
    BY <1>1, <1>2, <2>1 DEF VersionsFromOffer
  <2> QED
    BY <2>2, <2>3
<1> QED
  BY <1>4, <1>5

LEMMA NextVersionInv ==
  ASSUME VersionInv, [Next]_vars
  PROVE  VersionInv'
<1> SUFFICES ASSUME NEW b \in AssignmentId
             PROVE  VersionChainOf(b)' /\ VersionsFromOffer(b)'
  BY NextTypeInv DEF VersionInv
<1> USE DEF VersionInv, TypeInv, TypeOK, AssignmentTypeOK
<1>1. CASE UNCHANGED <<status, active, pending, versions, criticalDecision>>
  BY <1>1, VersionsUntouched
<1>2. CASE OperatorEvents
  <2>1. ASSUME NEW a \in AssignmentId, NEW g \in Guide, NEW c \in ConnectionId,
               NEW o \in Occupancies, NEW p \in Package, ReceiveOffer(a, g, c, o, p)
        PROVE  VersionChainOf(b)' /\ VersionsFromOffer(b)'
    <3>1. CASE a = b
      BY <2>1, <3>1, OfferStartsVersions
    <3>2. CASE a # b
      BY <2>1, <3>2, VersionsUntouched DEF ReceiveOffer
    <3> QED
      BY <3>1, <3>2
  <2>2. ASSUME NEW a \in AssignmentId, NEW g \in Guide, NEW s \in {"withdrawn", "expired"},
               CloseOffer(a, g, s)
        PROVE  VersionChainOf(b)' /\ VersionsFromOffer(b)'
    <3>1. CASE a = b
      BY <2>2, <3>1, StatusKeepsVersions DEF CloseOffer, OfferOpen, Status, records
    <3>2. CASE a # b
      BY <2>2, <3>2, VersionsUntouched DEF CloseOffer, records
    <3> QED
      BY <3>1, <3>2
  <2>3. ASSUME NEW a \in AssignmentId, NEW g \in Guide, NEW v \in Version, Cancel(a, g, v)
        PROVE  VersionChainOf(b)' /\ VersionsFromOffer(b)'
    <3>1. CASE a = b
      BY <2>3, <3>1, StatusKeepsVersions DEF Cancel, Status, records
    <3>2. CASE a # b
      BY <2>3, <3>2, VersionsUntouched DEF Cancel, records
    <3> QED
      BY <3>1, <3>2
  <2>4. ASSUME NEW a \in AssignmentId, NEW g \in Guide, NEW v \in Version, NEW p \in Package,
               ApplyOrdinaryVersion(a, g, v, p) \/ IntakeCriticalVersion(a, g, v, p)
        PROVE  VersionChainOf(b)' /\ VersionsFromOffer(b)'
    <3>1. CASE a = b
      BY <2>4, <3>1, PublishingKeepsVersions
    <3>2. CASE a # b
      BY <2>4, <3>2, VersionsUntouched DEF ApplyOrdinaryVersion, IntakeCriticalVersion
    <3> QED
      BY <3>1, <3>2
  <2> QED
    BY <1>2, <2>1, <2>2, <2>3, <2>4 DEF OperatorEvents
<1>3. CASE GuideAnswers
  <2>1. ASSUME NEW a \in AssignmentId, NEW g \in Guide, Accept(a, g) \/ Decline(a, g)
        PROVE  VersionChainOf(b)' /\ VersionsFromOffer(b)'
    <3>1. CASE a = b
      BY <2>1, <3>1, StatusKeepsVersions DEF Accept, Decline, OfferOpen, Status
    <3>2. CASE a # b
      BY <2>1, <3>2, VersionsUntouched DEF Accept, Decline
    <3> QED
      BY <3>1, <3>2
  <2>2. ASSUME NEW a \in AssignmentId, NEW g \in Guide, NEW v \in Version,
               ConfirmCritical(a, g, v) \/ RejectCritical(a, g, v)
        PROVE  VersionChainOf(b)' /\ VersionsFromOffer(b)'
    <3>1. CASE a = b
      BY <2>2, <3>1, DecidingKeepsVersions
    <3>2. CASE a # b
      BY <2>2, <3>2, VersionsUntouched DEF ConfirmCritical, RejectCritical
    <3> QED
      BY <3>1, <3>2
  <2>3. ASSUME NEW a \in AssignmentId, NEW g \in Guide, NEW v \in Version,
               AcknowledgeVersion(a, g, v)
        PROVE  UNCHANGED <<status, active, pending, versions, criticalDecision>>
    BY <2>3 DEF AcknowledgeVersion
  <2> QED
    BY <1>1, <1>3, <2>1, <2>2, <2>3 DEF GuideAnswers
<1>4. CASE ConnectionSteps \/ GuideEdits \/ UNCHANGED vars
  <2>1. UNCHANGED <<status, active, pending, versions, criticalDecision>>
    BY <1>4 DEF ConnectionSteps, GuideEdits, GuideSavesEntry, GuideMovesEntries,
                GuideDeletesEntries, vars, columns, records
  <2> QED
    BY <1>1, <2>1
<1> QED
  BY <1>2, <1>3, <1>4 DEF Next

(* The stored versions form one chain: all confirmed up to the active one, *)
(* at most one beyond it, pending exactly while undecided.                 *)
THEOREM VersionsChained == Spec => []VersionChain
<1>1. Spec => []VersionInv
  BY InitVersionInv, NextVersionInv, PTL DEF Spec
<1>2. VersionInv => VersionChain
  BY DEF VersionInv, VersionChain
<1> QED
  BY <1>1, <1>2, PTL

----------------------------------------------------------------------------
(* A rejected version sits right after the active one and nothing is       *)
(* pending, so no handler finds a next version or a pending one.           *)
LEMMA RejectedBlocks ==
  ASSUME VersionInv, NEW a \in AssignmentId, NEW w \in Version,
         criticalDecision[a][w] = "reject_critical"
  PROVE  /\ status[a] # "none"
         /\ \A v \in Version : ~ NextVersion(a, v) /\ pending[a] # v
<1> USE AssignmentsAssumption
    DEF AssignmentsAssumption, VersionInv, TypeInv, TypeOK, AssignmentTypeOK, Version
<1>1. versions[a][w] # NoRow /\ versions[a][w].severity = "critical" /\ status[a] # "none"
  BY DEF VersionsFromOffer
<1>2. w > active[a]
  BY <1>1 DEF VersionChainOf
<1>3. w = active[a] + 1
  BY <1>1, <1>2 DEF VersionChainOf
<1>4. \A v \in Version : ~ NextVersion(a, v)
  BY <1>1, <1>3 DEF NextVersion
<1>5. \A v \in Version : pending[a] # v
  BY <1>3, PendingIsNext
<1> QED
  BY <1>1, <1>4, <1>5

LEMMA RejectionFreezesStep ==
  ASSUME VersionInv, [Next]_vars
  PROVE  FrozenOnceRejected
<1> SUFFICES ASSUME NEW b \in AssignmentId, NEW w \in Version,
                    criticalDecision[b][w] = "reject_critical"
             PROVE  /\ versions'[b] = versions[b]
                    /\ active'[b] = active[b] /\ pending'[b] = pending[b]
                    /\ row'[b] = row[b]
  BY DEF FrozenOnceRejected
<1> DEFINE Frozen == /\ versions'[b] = versions[b]
                     /\ active'[b] = active[b] /\ pending'[b] = pending[b]
                     /\ row'[b] = row[b]
<1> USE DEF VersionInv, TypeInv, TypeOK, AssignmentTypeOK
<1>1. status[b] # "none" /\ \A v \in Version : ~ NextVersion(b, v) /\ pending[b] # v
  BY RejectedBlocks
<1>2. ASSUME NEW a \in AssignmentId, NEW g \in Guide, NEW c \in ConnectionId,
             NEW o \in Occupancies, NEW p \in Package, ReceiveOffer(a, g, c, o, p)
      PROVE  Frozen
  BY <1>1, <1>2 DEF ReceiveOffer
<1>3. ASSUME NEW a \in AssignmentId, NEW g \in Guide,
             \/ Accept(a, g) \/ Decline(a, g)
             \/ \E s \in {"withdrawn", "expired"} : CloseOffer(a, g, s)
      PROVE  Frozen
  BY <1>3 DEF Accept, Decline, CloseOffer, records
<1>4. ASSUME NEW a \in AssignmentId, NEW g \in Guide, NEW v \in Version, Cancel(a, g, v)
      PROVE  Frozen
  <2>1. pending[b] = 0
    BY <1>1 DEF Version
  <2> QED
    BY <1>4, <2>1 DEF Cancel, records
<1>5. ASSUME NEW a \in AssignmentId, NEW g \in Guide, NEW v \in Version, NEW p \in Package,
             ApplyOrdinaryVersion(a, g, v, p) \/ IntakeCriticalVersion(a, g, v, p)
      PROVE  Frozen
  BY <1>1, <1>5 DEF ApplyOrdinaryVersion, IntakeCriticalVersion
<1>6. ASSUME NEW a \in AssignmentId, NEW g \in Guide, NEW v \in Version,
             ConfirmCritical(a, g, v) \/ RejectCritical(a, g, v)
      PROVE  Frozen
  BY <1>1, <1>6 DEF ConfirmCritical, RejectCritical, CriticalDecidable
<1>7. ASSUME NEW a \in AssignmentId, NEW g \in Guide, NEW v \in Version,
             AcknowledgeVersion(a, g, v)
      PROVE  Frozen
  BY <1>7 DEF AcknowledgeVersion
<1>8. CASE ConnectionSteps \/ GuideEdits \/ UNCHANGED vars
  BY <1>8 DEF ConnectionSteps, GuideEdits, GuideSavesEntry, GuideMovesEntries,
              GuideDeletesEntries, vars, columns, records
<1> QED
  BY <1>2, <1>3, <1>4, <1>5, <1>6, <1>7, <1>8 DEF Next, OperatorEvents, GuideAnswers

(* A rejection is final: until the operator cancels, no step changes the   *)
(* versions or the agreed terms of an assignment with a rejected version.  *)
THEOREM RejectionIsFinal == Spec => RejectionFreezes
<1>1. Spec => []VersionInv
  BY InitVersionInv, NextVersionInv, PTL DEF Spec
<1>2. VersionInv /\ [Next]_vars => [FrozenOnceRejected]_vars
  BY RejectionFreezesStep
<1> QED
  BY <1>1, <1>2, PTL DEF Spec, RejectionFreezes

----------------------------------------------------------------------------
(* Notices.  What a queued notice says can be no news: its connection or   *)
(* assignment has been there, its version is published, a disconnect or a  *)
(* cancellation is the last word.                                          *)
NoticeBased(n) ==
  \/ /\ n.type = "connection_invitation" /\ n.about \in ConnectionId
     /\ connStatus[n.about] # "none"
  \/ /\ n.type = "connection_disconnection" /\ n.about \in ConnectionId
     /\ connStatus[n.about] = "disconnected"
  \/ /\ n.type = "assignment_offer" /\ n.about \in AssignmentId
     /\ status[n.about] # "none"
  \/ /\ n.type = "ordinary_version_change" /\ n.about \in AssignmentId
     /\ status[n.about] \in {"accepted", "cancelled"}
     /\ n.version \in Version /\ n.version <= active[n.about]
  \/ /\ n.type = "critical_confirmation_required" /\ n.about \in AssignmentId
     /\ status[n.about] \in {"accepted", "cancelled"}
     /\ n.version \in Version /\ versions[n.about][n.version] # NoRow
  \/ /\ n.type = "assignment_cancellation" /\ n.about \in AssignmentId
     /\ status[n.about] = "cancelled"

NoticeInv ==
  /\ VersionInv
  /\ \A c \in ConnectionId : lapsed[c] => connStatus[c] # "none"
  /\ \A n \in notices : NoticeBased(n)

(* A step brings notices that are current, and revives none. *)
NoticesBorn == \A n \in notices' \ notices : NoticeBased(n)' /\ NoticeCurrent(n)'
NoticesKept ==
  \A n \in notices : NoticeBased(n)' /\ (NoticeCurrent(n)' => NoticeCurrent(n))

(* Steps that change nothing a notice is about. *)
LEMMA NoticesUntouched ==
  ASSUME NoticeInv,
         UNCHANGED <<connStatus, lapsed, status, active, pending, unread, versions, notices>>
  PROVE  NoticesBorn /\ NoticesKept
BY DEF NoticeInv, NoticesBorn, NoticesKept, NoticeBased, NoticeCurrent

LEMMA ConnectionNotices ==
  ASSUME NoticeInv, ConnNext, UNCHANGED <<status, active, pending, unread, versions>>
  PROVE  /\ NoticesBorn /\ NoticesKept
         /\ \A c \in ConnectionId : lapsed'[c] => connStatus'[c] # "none"
<1> USE DEF NoticeInv, VersionInv, TypeInv, TypeOK, ConnTypeOK, NoticesBorn, NoticesKept,
            NoticeBased, NoticeCurrent
<1>1. ASSUME NEW c \in ConnectionId, InvitationLapses(c)
      PROVE  /\ NoticesBorn /\ NoticesKept
             /\ \A k \in ConnectionId : lapsed'[k] => connStatus'[k] # "none"
  BY <1>1 DEF InvitationLapses, tableVars
<1>2. ASSUME NEW c \in ConnectionId, NEW g \in Guide, ReceiveConnectionInvitation(c, g)
      PROVE  /\ NoticesBorn /\ NoticesKept
             /\ \A k \in ConnectionId : lapsed'[k] => connStatus'[k] # "none"
  BY <1>2 DEF ReceiveConnectionInvitation, Notice
<1>3. ASSUME NEW c \in ConnectionId, NEW g \in Guide, ReceiveConnectionDisconnect(c, g)
      PROVE  /\ NoticesBorn /\ NoticesKept
             /\ \A k \in ConnectionId : lapsed'[k] => connStatus'[k] # "none"
  BY <1>3 DEF ReceiveConnectionDisconnect, Notice
<1>4. ASSUME NEW c \in ConnectionId, NEW g \in Guide, NEW d \in {"confirm", "decline"},
             DecideConnection(c, g, d)
      PROVE  /\ NoticesBorn /\ NoticesKept
             /\ \A k \in ConnectionId : lapsed'[k] => connStatus'[k] # "none"
  BY <1>4 DEF DecideConnection, InvitationOpen
<1> QED
  BY <1>1, <1>2, <1>3, <1>4 DEF ConnNext

LEMMA EventNotices ==
  ASSUME NoticeInv, OperatorEvents
  PROVE  NoticesBorn /\ NoticesKept
<1> USE AssignmentsAssumption
    DEF AssignmentsAssumption, NoticeInv, VersionInv, TypeInv, TypeOK, AssignmentTypeOK,
        Apply, Notify, connVars
<1>1. ASSUME NEW a \in AssignmentId, NEW g \in Guide, NEW c \in ConnectionId,
             NEW o \in Occupancies, NEW p \in Package, ReceiveOffer(a, g, c, o, p)
      PROVE  NoticesBorn /\ NoticesKept
  <2>1. /\ connStatus' = connStatus /\ lapsed' = lapsed
        /\ status[a] = "none" /\ status' = [status EXCEPT ![a] = "offered"]
        /\ active' = [active EXCEPT ![a] = 1]
        /\ pending' = pending /\ unread' = unread
        /\ \A b \in AssignmentId \ {a} : versions'[b] = versions[b]
        /\ notices' = notices \cup {Notice("assignment_offer", a, 1)}
    BY <1>1 DEF ReceiveOffer
  <2> QED
    BY <2>1 DEF NoticesBorn, NoticesKept, NoticeBased, NoticeCurrent, Notice
<1>2. ASSUME NEW a \in AssignmentId, NEW g \in Guide, NEW s \in {"withdrawn", "expired"},
             CloseOffer(a, g, s)
      PROVE  NoticesBorn /\ NoticesKept
  BY <1>2 DEF CloseOffer, OfferOpen, records, NoticesBorn, NoticesKept, NoticeBased, NoticeCurrent
<1>3. ASSUME NEW a \in AssignmentId, NEW g \in Guide, NEW v \in Version, Cancel(a, g, v)
      PROVE  NoticesBorn /\ NoticesKept
  BY <1>3
  DEF Cancel, records, Version, NoticesBorn, NoticesKept, NoticeBased, NoticeCurrent, Notice
<1>4. ASSUME NEW a \in AssignmentId, NEW g \in Guide, NEW v \in Version, NEW p \in Package,
             ApplyOrdinaryVersion(a, g, v, p)
      PROVE  NoticesBorn /\ NoticesKept
  <2>1. /\ connStatus' = connStatus /\ lapsed' = lapsed
        /\ status[a] = "accepted" /\ status' = status
        /\ v = active[a] + 1 /\ active' = [active EXCEPT ![a] = v]
        /\ unread' = [unread EXCEPT ![a] = TRUE] /\ pending' = pending
        /\ versions' = [versions EXCEPT ![a][v] = VersionRow("ordinary", p)]
        /\ notices' = notices \cup {Notice("ordinary_version_change", a, v)}
    BY <1>4 DEF ApplyOrdinaryVersion, NextVersion
  <2>2. VersionRow("ordinary", p) # NoRow
    BY DEF VersionRow, VersionRows
  <2>3. \A b \in AssignmentId, w \in Version :
          versions[b][w] # NoRow => versions'[b][w] # NoRow
    BY <2>1, <2>2
  <2>4. \A b \in AssignmentId, w \in Version :
          w <= active[b] => w <= active'[b] /\ (b = a => w # active'[b])
    BY <2>1 DEF Version
  <2> QED
    BY <2>1, <2>3, <2>4 DEF NoticesBorn, NoticesKept, NoticeBased, NoticeCurrent, Notice, Version
<1>5. ASSUME NEW a \in AssignmentId, NEW g \in Guide, NEW v \in Version, NEW p \in Package,
             IntakeCriticalVersion(a, g, v, p)
      PROVE  NoticesBorn /\ NoticesKept
  <2>1. /\ connStatus' = connStatus /\ lapsed' = lapsed
        /\ status[a] = "accepted" /\ status' = status
        /\ versions[a][v] = NoRow /\ pending' = [pending EXCEPT ![a] = v]
        /\ unread' = unread /\ active' = active
        /\ versions' = [versions EXCEPT ![a][v] = VersionRow("critical", p)]
        /\ notices' = notices \cup {Notice("critical_confirmation_required", a, v)}
    BY <1>5 DEF IntakeCriticalVersion, NextVersion
  <2>2. VersionRow("critical", p) # NoRow
    BY DEF VersionRow, VersionRows
  <2>3. versions'[a][v] # NoRow /\
        \A b \in AssignmentId, w \in Version :
          versions[b][w] # NoRow => versions'[b][w] # NoRow
    BY <2>1, <2>2
  <2>4. \A n \in notices : NoticeBased(n)'
    BY <2>1, <2>3 DEF NoticeBased
  <2>5. ASSUME NEW n \in notices, NoticeCurrent(n)'
        PROVE  NoticeCurrent(n)
    <3>1. CASE n.type = "critical_confirmation_required" /\ n.about = a
      <4>1. n.version \in Version /\ versions[a][n.version] # NoRow
        BY <3>1 DEF NoticeBased
      <4>2. pending'[a] = v /\ n.version = v
        BY <2>1, <2>5, <3>1 DEF NoticeCurrent
      <4> QED
        BY <2>1, <4>1, <4>2
    <3>2. CASE ~ (n.type = "critical_confirmation_required" /\ n.about = a)
      BY <2>1, <2>5, <3>2 DEF NoticeBased, NoticeCurrent
    <3> QED
      BY <3>1, <3>2
  <2>6. NoticesBorn
    BY <2>1, <2>3 DEF NoticesBorn, NoticeBased, NoticeCurrent, Notice
  <2> QED
    BY <2>4, <2>5, <2>6 DEF NoticesKept
<1> QED
  BY <1>1, <1>2, <1>3, <1>4, <1>5 DEF OperatorEvents

LEMMA AnswerNotices ==
  ASSUME NoticeInv, GuideAnswers
  PROVE  NoticesBorn /\ NoticesKept
<1> USE AssignmentsAssumption
    DEF AssignmentsAssumption, NoticeInv, VersionInv, TypeInv, TypeOK, AssignmentTypeOK,
        connVars, NoticesBorn, NoticesKept, NoticeBased, NoticeCurrent
<1>1. ASSUME NEW a \in AssignmentId, NEW g \in Guide, Accept(a, g) \/ Decline(a, g)
      PROVE  NoticesBorn /\ NoticesKept
  BY <1>1 DEF Accept, Decline, OfferOpen
<1>2. ASSUME NEW a \in AssignmentId, NEW g \in Guide, NEW v \in Version, ConfirmCritical(a, g, v)
      PROVE  NoticesBorn /\ NoticesKept
  <2>1. v = active[a] + 1
    BY <1>2, PendingIsNext DEF ConfirmCritical, CriticalDecidable
  <2>2. /\ connStatus' = connStatus /\ lapsed' = lapsed /\ notices' = notices
        /\ status[a] = "accepted" /\ status' = status /\ versions' = versions
        /\ active' = [active EXCEPT ![a] = v] /\ pending' = [pending EXCEPT ![a] = 0]
        /\ unread' = [unread EXCEPT ![a] = FALSE]
    BY <1>2 DEF ConfirmCritical, CriticalDecidable
  <2> QED
    BY <2>1, <2>2 DEF Version
<1>3. ASSUME NEW a \in AssignmentId, NEW g \in Guide, NEW v \in Version,
             RejectCritical(a, g, v) \/ AcknowledgeVersion(a, g, v)
      PROVE  NoticesBorn /\ NoticesKept
  BY <1>3 DEF RejectCritical, AcknowledgeVersion, Version
<1> QED
  BY <1>1, <1>2, <1>3 DEF GuideAnswers

LEMMA NoticesStep ==
  ASSUME NoticeInv, [Next]_vars
  PROVE  NoticeInv' /\ NoticesBorn /\ NoticesKept
<1>1. VersionInv'
  BY NextVersionInv DEF NoticeInv
<1>2. CASE ConnectionSteps
  <2>1. NoticesBorn /\ NoticesKept /\ \A c \in ConnectionId : lapsed'[c] => connStatus'[c] # "none"
    BY <1>2, ConnectionNotices DEF ConnectionSteps, columns, records
  <2> QED
    BY <1>1, <2>1 DEF NoticeInv, NoticesBorn, NoticesKept
<1>3. ASSUME NoticesBorn /\ NoticesKept, UNCHANGED <<connStatus, lapsed>>
      PROVE  NoticeInv'
  BY <1>1, <1>3 DEF NoticeInv, NoticesBorn, NoticesKept
<1>4. CASE OperatorEvents
  <2>1. UNCHANGED <<connStatus, lapsed>>
    BY <1>4 DEF OperatorEvents, ReceiveOffer, CloseOffer, Cancel, ApplyOrdinaryVersion,
                IntakeCriticalVersion, connVars
  <2> QED
    BY <1>3, <1>4, <2>1, EventNotices
<1>5. CASE GuideAnswers
  <2>1. UNCHANGED <<connStatus, lapsed>>
    <3>1. ASSUME NEW a \in AssignmentId, NEW g \in Guide, NEW v \in Version,
                 ConfirmCritical(a, g, v)
          PROVE  UNCHANGED <<connStatus, lapsed>>
      BY <3>1 DEF ConfirmCritical, connVars
    <3> QED
      BY <1>5, <3>1 DEF GuideAnswers, Accept, Decline, RejectCritical, AcknowledgeVersion, connVars
  <2> QED
    BY <1>3, <1>5, <2>1, AnswerNotices
<1>6. CASE GuideEdits \/ UNCHANGED vars
  <2>1. UNCHANGED <<connStatus, lapsed, status, active, pending, unread, versions, notices>>
    BY <1>6 DEF GuideEdits, GuideSavesEntry, GuideMovesEntries, GuideDeletesEntries, vars,
                connVars, tableVars, columns, records
  <2> QED
    BY <1>3, <2>1, NoticesUntouched
<1> QED
  BY <1>2, <1>4, <1>5, <1>6 DEF Next

(* A notice is queued by the step that makes it true, and once superseded  *)
(* it never becomes true again: the sender may give it up for good.        *)
THEOREM NoticesOnlyAge == Spec => NoticesAge
<1>1. Init => NoticeInv
  BY InitVersionInv DEF Init, ConnInit, TablesInit, NoticeInv
<1>2. NoticeInv /\ [Next]_vars => NoticeInv'
  BY NoticesStep
<1>3. NoticeInv /\ [Next]_vars =>
        /\ \A n \in notices' \ notices : NoticeCurrent(n)'
        /\ \A n \in notices : NoticeCurrent(n)' => NoticeCurrent(n)
  BY NoticesStep DEF NoticesBorn, NoticesKept
<1> QED
  BY <1>1, <1>2, <1>3, PTL DEF Spec, NoticesAge

----------------------------------------------------------------------------
(* Projection repair.  What ties an assignment to its calendar where rows  *)
(* may have been damaged: a pointer leads to a row of the assignment's     *)
(* own, and protected rows are those of accepted or cancelled assignments, *)
(* on the calendar of their guide.  It lets every handler, on a damaged    *)
(* assignment too, be seen to leave the mirrors of all others alone.       *)
RowsTied ==
  /\ \A t \in TourId :
       tours[t] # NoRow /\ tours[t].owner # Personal =>
         /\ tours[t].guide = guide[tours[t].owner]
         /\ status[tours[t].owner] \in {"accepted", "cancelled"}
  /\ \A a \in AssignmentId : projection[a] # NoTour => projection[a] \in ProtectedRows(a)

AnswersOK ==
  /\ repairs \in [RepairId -> RepairResults \cup {NoRow}]
  /\ \A r \in RepairId :
       repairs[r] # NoRow => (repairs[r].result = "applied" <=> repairs[r].action # "none")

LabelsOK == mislabeled \subseteq {t \in TourId : tours[t] # NoRow /\ tours[t].owner # Personal}

FaultsOK == damaged \subseteq AssignmentId /\ drifts \in 0..MaxDrift

RepairTables == AnswersOK /\ LabelsOK /\ FaultsOK

RepairInv == TypeInv /\ RepairTables /\ RowsTied /\ MirroredUnlessDamaged

LEMMA ProtectedIs ==
  ASSUME TypeInv, NEW a \in AssignmentId
  PROVE  /\ a # Personal
         /\ \A t \in ProtectedRows(a) : t \in TourId /\ tours[t] \in Tours /\ tours[t].owner = a
         /\ \A t \in TourId : t # NoTour
         /\ \A t \in ProtectedRows(a), b \in AssignmentId : t \in ProtectedRows(b) => b = a
BY AssignmentsAssumption
DEF AssignmentsAssumption, ProtectedRows, TypeInv, TypeOK, AssignmentTypeOK

LEMMA TiedIsOwn == RowsTied => OwnCalendars
BY DEF RowsTied, OwnCalendars

(* What is said of an assignment depends on its columns and its rows. *)
SameRows(a) ==
  \A t \in TourId :
    \/ tours[t] # NoRow /\ tours[t].owner = a
    \/ tours'[t] # NoRow /\ tours'[t].owner = a
    => tours'[t] = tours[t] /\ (t \in mislabeled' => t \in mislabeled)

SameColumns(a) ==
  /\ status'[a] = status[a] /\ guide'[a] = guide[a]
  /\ row'[a] = row[a] /\ projection'[a] = projection[a]

LEMMA MirrorKept ==
  ASSUME NEW a \in AssignmentId, SameRows(a), SameColumns(a)
  PROVE  /\ ProtectedRows(a)' = ProtectedRows(a)
         /\ Mirrored(a) => Mirrored(a)'
<1>1. ProtectedRows(a)' = ProtectedRows(a)
  BY DEF SameRows, ProtectedRows
<1>2. CASE status[a] = "accepted"
  <2>1. ASSUME NEW t \in TourId, ProtectedRows(a) = {t}, tours[t] = Tour(guide[a], row[a].span, a),
               t \notin mislabeled, projection[a] = t
        PROVE  Mirrored(a)'
    <3>1. t \in ProtectedRows(a)
      BY <2>1
    <3>2. tours'[t] = tours[t] /\ t \notin mislabeled'
      BY <2>1, <3>1 DEF SameRows, ProtectedRows
    <3> QED
      BY <1>1, <1>2, <2>1, <3>2 DEF SameColumns, Mirrored
  <2> QED
    BY <1>1, <1>2, <2>1 DEF Mirrored
<1>3. CASE status[a] # "accepted"
  BY <1>1, <1>3 DEF SameColumns, Mirrored
<1> QED
  BY <1>1, <1>2, <1>3

(* A step about assignment a: what it has to show of a, and that it leaves *)
(* the rows and columns of the others alone.                               *)
LEMMA StepAbout ==
  ASSUME RepairInv, NEW a \in AssignmentId,
         \A b \in AssignmentId \ {a} : SameRows(b) /\ SameColumns(b),
         damaged \ {a} \subseteq damaged' ,
         \A t \in TourId : tours'[t] # NoRow /\ tours'[t].owner = a =>
           tours'[t].guide = guide'[a] /\ status'[a] \in {"accepted", "cancelled"},
         projection'[a] # NoTour => projection'[a] \in ProtectedRows(a)',
         a \notin damaged' => Mirrored(a)',
         TypeInv'
  PROVE  RowsTied' /\ MirroredUnlessDamaged'
<1>1. ASSUME NEW t \in TourId, tours'[t] # NoRow, tours'[t].owner # Personal
      PROVE  /\ tours'[t].guide = guide'[tours'[t].owner]
             /\ status'[tours'[t].owner] \in {"accepted", "cancelled"}
  <2> DEFINE b == tours'[t].owner
  <2>1. b \in AssignmentId
    BY <1>1 DEF TypeInv, TypeOK, AssignmentTypeOK, Tours
  <2>2. CASE b = a
    BY <1>1, <2>2
  <2>3. CASE b # a
    <3>1. tours'[t] = tours[t] /\ SameColumns(b)
      BY <1>1, <2>1, <2>3 DEF SameRows
    <3> QED
      BY <1>1, <3>1 DEF RepairInv, RowsTied, SameColumns
  <2> QED
    BY <2>2, <2>3
<1>2. ASSUME NEW b \in AssignmentId \ {a}
      PROVE  /\ projection'[b] # NoTour => projection'[b] \in ProtectedRows(b)'
             /\ b \notin damaged' => Mirrored(b)'
  BY <1>2, MirrorKept DEF RepairInv, RowsTied, MirroredUnlessDamaged, SameColumns
<1>3. RowsTied'
  BY <1>1, <1>2 DEF RowsTied
<1>4. MirroredUnlessDamaged'
  BY <1>2 DEF MirroredUnlessDamaged
<1> QED
  BY <1>3, <1>4

LEMMA RepairInitInv == RepairInit => RepairInv
<1> SUFFICES ASSUME RepairInit PROVE RepairInv
  OBVIOUS
<1>1. TypeInv
  BY InitTypeInv DEF RepairInit
<1>2. RepairTables
  BY RepairAssumption DEF RepairAssumption, RepairInit, RepairTables, AnswersOK, LabelsOK, FaultsOK
<1>3. RowsTied /\ MirroredUnlessDamaged
  BY DEF RepairInit, Init, RowsTied, MirroredUnlessDamaged, Mirrored, ProtectedRows
<1> QED
  BY <1>1, <1>2, <1>3 DEF RepairInv

(* Steps about no assignment. *)
LEMMA StepAside ==
  ASSUME RepairInv, \A b \in AssignmentId : SameRows(b) /\ SameColumns(b),
         damaged' = damaged, TypeInv'
  PROVE  RowsTied' /\ MirroredUnlessDamaged'
<1>1. ASSUME NEW t \in TourId, tours'[t] # NoRow, tours'[t].owner # Personal
      PROVE  /\ tours'[t].guide = guide'[tours'[t].owner]
             /\ status'[tours'[t].owner] \in {"accepted", "cancelled"}
  <2>1. tours'[t].owner \in AssignmentId
    BY <1>1 DEF TypeInv, TypeOK, AssignmentTypeOK, Tours
  <2>2. tours'[t] = tours[t] /\ SameColumns(tours'[t].owner)
    BY <1>1, <2>1 DEF SameRows
  <2> QED
    BY <1>1, <2>2 DEF RepairInv, RowsTied, SameColumns
<1>2. ASSUME NEW b \in AssignmentId
      PROVE  /\ projection'[b] # NoTour => projection'[b] \in ProtectedRows(b)'
             /\ b \notin damaged' => Mirrored(b)'
  BY <1>2, MirrorKept DEF RepairInv, RowsTied, MirroredUnlessDamaged, SameColumns
<1> QED
  BY <1>1, <1>2 DEF RowsTied, MirroredUnlessDamaged

(* An offer that is not accepted has nothing on the calendar. *)
LEMMA OfferHasNoRows ==
  ASSUME RepairInv, NEW a \in AssignmentId, status[a] \notin {"accepted", "cancelled"}
  PROVE  ProtectedRows(a) = {} /\ projection[a] = NoTour
<1>1. ProtectedRows(a) = {}
  BY ProtectedIs DEF RepairInv, RowsTied, ProtectedRows
<1> QED
  BY <1>1 DEF RepairInv, RowsTied

(* Receiving, declining and closing offers. *)
LEMMA OffersKeepMirrors ==
  ASSUME RepairInv, NEW a \in AssignmentId,
         status[a] \notin {"accepted", "cancelled"}, status'[a] \notin {"accepted", "cancelled"},
         \A b \in AssignmentId \ {a} : SameColumns(b),
         projection' = projection, tours' = tours, mislabeled' \subseteq mislabeled,
         damaged' = damaged, TypeInv'
  PROVE  RowsTied' /\ MirroredUnlessDamaged'
<1>1. ProtectedRows(a) = {} /\ projection[a] = NoTour
  BY OfferHasNoRows
<1>2. ProtectedRows(a)' = {}
  BY <1>1 DEF ProtectedRows
<1>3. Mirrored(a)' /\ projection'[a] = NoTour
  BY <1>1, <1>2 DEF Mirrored
<1>4. \A b \in AssignmentId : SameRows(b)
  BY DEF SameRows
<1> QED
  BY <1>2, <1>3, <1>4, StepAbout DEF ProtectedRows

LEMMA AcceptMirrors ==
  ASSUME RepairInv, NEW a \in AssignmentId, NEW g \in Guide, Accept(a, g),
         mislabeled' \subseteq mislabeled, damaged' = damaged, TypeInv'
  PROVE  RowsTied' /\ MirroredUnlessDamaged'
<1> USE AssignmentsAssumption
    DEF AssignmentsAssumption, RepairInv, TypeInv, TypeOK, AssignmentTypeOK
<1>1. PICK t \in TourId :
        /\ tours[t] = NoRow
        /\ tours' = [tours EXCEPT ![t] = Tour(g, row[a].span, a)]
        /\ projection' = [projection EXCEPT ![a] = t]
  BY DEF Accept
<1>2. /\ status[a] = "offered" /\ guide[a] = g
      /\ status' = [status EXCEPT ![a] = "accepted"]
      /\ guide' = guide /\ row' = row
  BY DEF Accept, OfferOpen
<1>3. ProtectedRows(a) = {}
  BY <1>2, OfferHasNoRows
<1>4. Tour(g, row[a].span, a) \in Tours
  BY <1>2 DEF Tour, Tours, RowsPresent, RowValues
<1>5. /\ tours'[t] = Tour(guide'[a], row'[a].span, a) /\ tours'[t] # NoRow
      /\ tours'[t].guide = g /\ tours'[t].owner = a
      /\ \A u \in TourId \ {t} : tours'[u] = tours[u]
  BY <1>1, <1>2, <1>4 DEF Tour
<1>6. ProtectedRows(a)' = {t}
  BY <1>3, <1>5 DEF ProtectedRows
<1>7. t \notin mislabeled'
  BY <1>1 DEF RepairTables, LabelsOK
<1>8. Mirrored(a)'
  BY <1>1, <1>2, <1>5, <1>6, <1>7 DEF Mirrored
<1>9. \A b \in AssignmentId \ {a} : SameRows(b) /\ SameColumns(b)
  BY <1>1, <1>2, <1>5 DEF SameRows, SameColumns
<1>10. \A u \in TourId : tours'[u] # NoRow /\ tours'[u].owner = a =>
         tours'[u].guide = guide'[a] /\ status'[a] \in {"accepted", "cancelled"}
  <2>1. guide'[a] = g /\ status'[a] = "accepted"
    BY <1>2
  <2>2. \A u \in TourId : tours'[u] # NoRow /\ tours'[u].owner = a => u = t
    BY <1>3, <1>5 DEF ProtectedRows
  <2> HIDE DEF RepairInv, TypeInv, TypeOK, AssignmentTypeOK, AssignmentsAssumption
  <2> QED
    BY <1>5, <2>1, <2>2
<1>11. projection'[a] \in ProtectedRows(a)'
  BY <1>1, <1>6
<1> HIDE DEF RepairInv, TypeInv, AssignmentsAssumption
<1> QED
  BY <1>8, <1>9, <1>10, <1>11, StepAbout

LEMMA CancelMirrors ==
  ASSUME RepairInv, NEW a \in AssignmentId, NEW g \in Guide, NEW v \in Version, Cancel(a, g, v),
         mislabeled' \subseteq mislabeled, damaged' = damaged, TypeInv'
  PROVE  RowsTied' /\ MirroredUnlessDamaged'
<1>1. /\ status[a] = "accepted" /\ status'[a] = "cancelled"
      /\ \A b \in AssignmentId \ {a} : SameColumns(b)
      /\ guide' = guide /\ projection'[a] = NoTour
  BY DEF Cancel, SameColumns, RepairInv, TypeInv, TypeOK, AssignmentTypeOK
<1>2. /\ \A t \in TourId : tours'[t] = tours[t] \/ (tours'[t] = NoRow /\ t = projection[a])
      /\ projection[a] # NoTour => tours'[projection[a]] = NoRow
  BY ProtectedIs DEF Cancel, ReleaseProjection, RepairInv, TypeInv, TypeOK, AssignmentTypeOK
<1>3. ASSUME NEW b \in AssignmentId \ {a}
      PROVE  SameRows(b)
  <2>1. \A t \in ProtectedRows(b) : t # projection[a]
    BY ProtectedIs DEF RepairInv, RowsTied
  <2> QED
    BY <1>2, <2>1 DEF SameRows, ProtectedRows
<1>4. ASSUME a \notin damaged'
      PROVE  Mirrored(a)'
  <2>1. PICK t \in TourId : ProtectedRows(a) = {t} /\ projection[a] = t
    BY <1>1, <1>4 DEF RepairInv, MirroredUnlessDamaged, Mirrored
  <2>2. tours'[t] = NoRow
    BY <1>2, <2>1, ProtectedIs DEF RepairInv
  <2>3. ProtectedRows(a)' = {}
    BY <1>2, <2>1, <2>2 DEF ProtectedRows
  <2> QED
    BY <1>1, <2>3 DEF Mirrored
<1>5. \A t \in TourId : tours'[t] # NoRow /\ tours'[t].owner = a =>
        tours'[t].guide = guide'[a] /\ status'[a] \in {"accepted", "cancelled"}
  BY <1>1, <1>2, ProtectedIs DEF RepairInv, RowsTied
<1> QED
  BY <1>1, <1>3, <1>4, <1>5, StepAbout

LEMMA ConfirmMirrors ==
  ASSUME RepairInv, NEW a \in AssignmentId, NEW g \in Guide, NEW v \in Version,
         ConfirmCritical(a, g, v), damaged' = damaged, TypeInv',
         mislabeled' \subseteq mislabeled \ {projection[a]}
  PROVE  RowsTied' /\ MirroredUnlessDamaged'
<1> DEFINE t == projection[a]
           s == versions[a][v].package.span
<1>1. /\ status[a] = "accepted" /\ status' = status /\ guide' = guide /\ projection' = projection
      /\ t # NoTour /\ tours[t] # NoRow /\ tours[t].owner = a
      /\ row' = [row EXCEPT ![a] = Occupancy(s, versions[a][v].package.role)]
      /\ tours' = [tours EXCEPT ![t].span = s]
  BY DEF ConfirmCritical, CriticalDecidable
<1>2. t \in TourId /\ tours[t] \in Tours /\ t \in ProtectedRows(a)
  BY <1>1 DEF RepairInv, TypeInv, TypeOK, AssignmentTypeOK, ProtectedRows
<1>3. row'[a].span = s /\ \A b \in AssignmentId \ {a} : row'[b] = row[b]
  BY <1>1 DEF RepairInv, TypeInv, TypeOK, AssignmentTypeOK, Occupancy
<1>4. /\ tours'[t] # NoRow /\ tours'[t].owner = a /\ tours'[t].guide = tours[t].guide
      /\ tours'[t] = Tour(tours[t].guide, s, a)
      /\ \A u \in TourId \ {t} : tours'[u] = tours[u]
  <2>1. [tours[t] EXCEPT !.span = s] = Tour(tours[t].guide, s, a)
    BY <1>1, <1>2 DEF Tours, Tour
  <2>2. tours'[t] = Tour(tours[t].guide, s, a) /\ \A u \in TourId \ {t} : tours'[u] = tours[u]
    BY <1>1, <1>2, <2>1 DEF RepairInv, TypeInv, TypeOK, AssignmentTypeOK
  <2>3. tours'[t].owner = a /\ tours'[t].guide = tours[t].guide
    BY <2>2 DEF Tour
  <2>4. tours'[t] \in Tours
    <3>1. s \in Span
      <4>1. versions[a][v] \in VersionRows
        BY DEF ConfirmCritical, CriticalDecidable, RepairInv, TypeInv, TypeOK, AssignmentTypeOK
      <4> QED
        BY <4>1, AssignmentsAssumption DEF AssignmentsAssumption, VersionRows
    <3> QED
      BY <1>2, <2>2, <3>1 DEF Tour, Tours
  <2>5. tours'[t] # NoRow
    BY <2>4, AssignmentsAssumption DEF AssignmentsAssumption
  <2> QED
    BY <2>2, <2>3, <2>5
<1> HIDE DEF t, s
<1>5. ProtectedRows(a)' = ProtectedRows(a)
  BY <1>1, <1>4 DEF ProtectedRows
<1>6. \A b \in AssignmentId \ {a} : SameRows(b) /\ SameColumns(b)
  BY <1>1, <1>3, <1>4 DEF SameRows, SameColumns
<1>7. tours[t].guide = guide[a]
  BY <1>1, <1>2, ProtectedIs DEF RepairInv, RowsTied
<1>8. ASSUME a \notin damaged'
      PROVE  Mirrored(a)'
  <2>1. ProtectedRows(a) = {t}
    BY <1>1, <1>8 DEF RepairInv, MirroredUnlessDamaged, Mirrored, t
  <2>2. t \notin mislabeled'
    BY DEF t
  <2> QED
    BY <1>1, <1>2, <1>3, <1>4, <1>5, <1>7, <2>1, <2>2 DEF Mirrored, t
<1>9. \A u \in TourId : tours'[u] # NoRow /\ tours'[u].owner = a =>
        tours'[u].guide = guide'[a] /\ status'[a] \in {"accepted", "cancelled"}
  BY <1>1, <1>4, <1>7, ProtectedIs DEF RepairInv, RowsTied
<1>10. projection'[a] \in ProtectedRows(a)'
  BY <1>1, <1>2, <1>5 DEF t
<1> QED
  BY <1>6, <1>8, <1>9, <1>10, StepAbout

(* The guide's edits touch no protected row. *)
LEMMA EditsKeepMirrors ==
  ASSUME RepairInv, GuideEdits, mislabeled' \subseteq mislabeled, damaged' = damaged, TypeInv'
  PROVE  RowsTied' /\ MirroredUnlessDamaged'
<1>1. UNCHANGED <<status, guide, row, projection>>
  BY DEF GuideEdits, GuideSavesEntry, GuideMovesEntries, GuideDeletesEntries, columns
<1>2. \A b \in AssignmentId : SameRows(b)
  BY EditsArePersonal, ProtectedIs DEF RepairInv, SameRows
<1> QED
  BY <1>1, <1>2, StepAside DEF SameColumns

----------------------------------------------------------------------------
(* The service's own steps. *)

(* The rows whose labels a step of the service leaves wrong. *)
RelabelledRows ==
  mislabeled' = {t \in mislabeled :
                   /\ tours'[t] # NoRow
                   /\ \A a \in AssignmentId : active'[a] # active[a] => t # projection[a]}

(* A protected row that stays keeps its owner. *)
LEMMA OwnersStay ==
  ASSUME RepairInv, [Next]_vars, NEW t \in TourId,
         tours[t] # NoRow, tours[t].owner # Personal, tours'[t] # NoRow
  PROVE  tours'[t].owner = tours[t].owner
<1> USE DEF RepairInv, TypeInv, TypeOK, AssignmentTypeOK
<1>1. CASE tours' = tours
  BY <1>1
<1>2. ASSUME NEW a \in AssignmentId, NEW g \in Guide, Accept(a, g)
      PROVE  tours'[t].owner = tours[t].owner
  <2>1. PICK u \in TourId : tours[u] = NoRow /\ tours' = [tours EXCEPT ![u] = Tour(g, row[a].span, a)]
    BY <1>2 DEF Accept
  <2> QED
    BY <2>1
<1>3. ASSUME NEW a \in AssignmentId, NEW g \in Guide, NEW v \in Version, Cancel(a, g, v)
      PROVE  tours'[t].owner = tours[t].owner
  BY <1>3 DEF Cancel, ReleaseProjection
<1>4. ASSUME NEW a \in AssignmentId, NEW g \in Guide, NEW v \in Version, ConfirmCritical(a, g, v)
      PROVE  tours'[t].owner = tours[t].owner
  <2>1. tours' = [tours EXCEPT ![projection[a]].span = versions[a][v].package.span]
    BY <1>4 DEF ConfirmCritical
  <2>2. tours[t] \in Tours
    OBVIOUS
  <2> QED
    BY <2>1, <2>2 DEF Tours
<1>5. CASE GuideEdits
  BY <1>5, EditsArePersonal
<1> QED
  BY <1>1, <1>2, <1>3, <1>4, <1>5
  DEF Next, ConnectionSteps, OperatorEvents, GuideAnswers, ReceiveOffer, CloseOffer,
      ApplyOrdinaryVersion, IntakeCriticalVersion, Decline, RejectCritical,
      AcknowledgeVersion, vars

LEMMA ServiceTables ==
  ASSUME RepairInv, [Next]_vars, RelabelledRows, UNCHANGED <<repairs, damaged, drifts>>
  PROVE  RepairTables'
<1>1. \A t \in mislabeled' : t \in TourId /\ tours'[t] # NoRow /\ tours'[t].owner # Personal
  BY OwnersStay DEF RelabelledRows, RepairInv, RepairTables, LabelsOK
<1> QED
  BY <1>1 DEF RepairInv, RepairTables, AnswersOK, LabelsOK, FaultsOK

LEMMA ServiceMirrors ==
  ASSUME RepairInv, VersionInv, Next, RelabelledRows, damaged' = damaged, TypeInv'
  PROVE  RowsTied' /\ MirroredUnlessDamaged'
<1>1. mislabeled' \subseteq mislabeled
  BY DEF RelabelledRows
<1>2. ASSUME UNCHANGED <<status, guide, row, projection, tours>>
      PROVE  RowsTied' /\ MirroredUnlessDamaged'
  BY <1>1, <1>2, StepAside DEF SameRows, SameColumns
<1>3. CASE ConnectionSteps
  BY <1>2, <1>3 DEF ConnectionSteps, columns
<1>4. CASE OperatorEvents
  <2>1. ASSUME NEW a \in AssignmentId, NEW g \in Guide, NEW c \in ConnectionId,
               NEW o \in Occupancies, NEW p \in Package, ReceiveOffer(a, g, c, o, p)
        PROVE  RowsTied' /\ MirroredUnlessDamaged'
    <3>1. /\ status[a] \notin {"accepted", "cancelled"}
          /\ status'[a] \notin {"accepted", "cancelled"}
          /\ \A b \in AssignmentId \ {a} : SameColumns(b)
          /\ projection' = projection /\ tours' = tours
      BY <2>1 DEF ReceiveOffer, SameColumns, RepairInv, TypeInv, TypeOK, AssignmentTypeOK
    <3> QED
      BY <1>1, <3>1, OffersKeepMirrors
  <2>2. ASSUME NEW a \in AssignmentId, NEW g \in Guide, NEW s \in {"withdrawn", "expired"},
               CloseOffer(a, g, s)
        PROVE  RowsTied' /\ MirroredUnlessDamaged'
    <3>1. /\ status[a] \notin {"accepted", "cancelled"}
          /\ status'[a] \notin {"accepted", "cancelled"}
          /\ \A b \in AssignmentId \ {a} : SameColumns(b)
          /\ projection' = projection /\ tours' = tours
      BY <2>2 DEF CloseOffer, OfferOpen, SameColumns, RepairInv, TypeInv, TypeOK, AssignmentTypeOK
    <3> QED
      BY <1>1, <3>1, OffersKeepMirrors
  <2>3. ASSUME NEW a \in AssignmentId, NEW g \in Guide, NEW v \in Version, Cancel(a, g, v)
        PROVE  RowsTied' /\ MirroredUnlessDamaged'
    BY <1>1, <2>3, CancelMirrors
  <2>4. ASSUME NEW a \in AssignmentId, NEW g \in Guide, NEW v \in Version, NEW p \in Package,
               ApplyOrdinaryVersion(a, g, v, p) \/ IntakeCriticalVersion(a, g, v, p)
        PROVE  RowsTied' /\ MirroredUnlessDamaged'
    BY <1>2, <2>4 DEF ApplyOrdinaryVersion, IntakeCriticalVersion
  <2> QED
    BY <1>4, <2>1, <2>2, <2>3, <2>4 DEF OperatorEvents
<1>5. CASE GuideAnswers
  <2>1. ASSUME NEW a \in AssignmentId, NEW g \in Guide, Accept(a, g)
        PROVE  RowsTied' /\ MirroredUnlessDamaged'
    BY <1>1, <2>1, AcceptMirrors
  <2>2. ASSUME NEW a \in AssignmentId, NEW g \in Guide, Decline(a, g)
        PROVE  RowsTied' /\ MirroredUnlessDamaged'
    <3>1. /\ status[a] \notin {"accepted", "cancelled"}
          /\ status'[a] \notin {"accepted", "cancelled"}
          /\ \A b \in AssignmentId \ {a} : SameColumns(b)
          /\ projection' = projection /\ tours' = tours
      BY <2>2 DEF Decline, OfferOpen, SameColumns, RepairInv, TypeInv, TypeOK, AssignmentTypeOK
    <3> QED
      BY <1>1, <3>1, OffersKeepMirrors
  <2>3. ASSUME NEW a \in AssignmentId, NEW g \in Guide, NEW v \in Version,
               ConfirmCritical(a, g, v)
        PROVE  RowsTied' /\ MirroredUnlessDamaged'
    <3>1. pending[a] = v /\ active' = [active EXCEPT ![a] = v]
      BY <2>3 DEF ConfirmCritical, CriticalDecidable
    <3>2. v = active[a] + 1 /\ active[a] \in Nat
      BY <3>1, PendingIsNext, AssignmentsAssumption
      DEF AssignmentsAssumption, RepairInv, TypeInv, TypeOK, AssignmentTypeOK
    <3>3. active'[a] # active[a]
      BY <3>1, <3>2 DEF RepairInv, TypeInv, TypeOK, AssignmentTypeOK
    <3>4. mislabeled' \subseteq mislabeled \ {projection[a]}
      BY <3>3 DEF RelabelledRows
    <3> QED
      BY <2>3, <3>4, ConfirmMirrors
  <2>4. ASSUME NEW a \in AssignmentId, NEW g \in Guide, NEW v \in Version,
               RejectCritical(a, g, v) \/ AcknowledgeVersion(a, g, v)
        PROVE  RowsTied' /\ MirroredUnlessDamaged'
    BY <1>2, <2>4 DEF RejectCritical, AcknowledgeVersion
  <2> QED
    BY <1>5, <2>1, <2>2, <2>3, <2>4 DEF GuideAnswers
<1>6. CASE GuideEdits
  BY <1>1, <1>6, EditsKeepMirrors
<1> QED
  BY <1>3, <1>4, <1>5, <1>6 DEF Next

----------------------------------------------------------------------------
(* Repairs and drift: they rewrite rows and pointers of one assignment. *)

(* What an assignment's pointer and rows may be made of. *)
LEMMA RowsTyped ==
  ASSUME TypeInv, UNCHANGED <<connVars, tableVars, status, guide, via, row, active, pending,
                              unread, records>>,
         tours' \in [TourId -> Tours \cup {NoRow}],
         projection' \in [AssignmentId -> TourId \cup {NoTour}]
  PROVE  TypeInv'
BY DEF TypeInv, TypeOK, AssignmentTypeOK, ConnTypeOK, RowsPresent, records, connVars, tableVars

(* The row an assignment asks for. *)
LEMMA OwnRow ==
  ASSUME TypeInv, NEW a \in AssignmentId, status[a] # "none"
  PROVE  /\ guide[a] \in Guide /\ row[a].span \in Span
         /\ \A s \in Span : Tour(guide[a], s, a) \in Tours
<1>1. guide[a] \in Guide /\ row[a].span \in Span
  BY DEF TypeInv, TypeOK, AssignmentTypeOK, RowsPresent, RowValues
<1> QED
  BY <1>1 DEF Tour, Tours

(* A row is not the absence of one. *)
LEMMA RowIsThere ==
  ASSUME NEW x \in Tours
  PROVE  x # NoRow
BY AssignmentsAssumption DEF AssignmentsAssumption

(* Storing at t a row of a's own, in place of another of a's or of none. *)
LEMMA RowWritten ==
  ASSUME RepairInv, NEW a \in AssignmentId, NEW t \in TourId, NEW s \in Span,
         status[a] \in {"accepted", "cancelled"},
         tours[t] = NoRow \/ t \in ProtectedRows(a),
         tours' = [tours EXCEPT ![t] = Tour(guide[a], s, a)],
         \/ projection' = projection
         \/ projection' = [projection EXCEPT ![a] = t],
         mislabeled' \subseteq mislabeled \cup {t},
         a \notin damaged' => Mirrored(a)', damaged \ {a} \subseteq damaged',
         UNCHANGED <<connVars, tableVars, status, guide, via, row, active, pending, unread,
                     records>>
  PROVE  TypeInv' /\ RowsTied' /\ MirroredUnlessDamaged'
<1>1. Tour(guide[a], s, a) \in Tours
  BY OwnRow DEF RepairInv
<1>2. TypeInv'
  BY <1>1, RowsTyped DEF RepairInv, TypeInv, TypeOK, AssignmentTypeOK
<1>3. /\ tours'[t].owner = a /\ tours'[t].guide = guide[a] /\ tours'[t] # NoRow
      /\ \A u \in TourId \ {t} : tours'[u] = tours[u]
  BY <1>1, RowIsThere DEF Tour, RepairInv, TypeInv, TypeOK, AssignmentTypeOK
<1>4. ASSUME NEW b \in AssignmentId \ {a}
      PROVE  SameRows(b) /\ SameColumns(b)
  <2>1. \/ tours[t] = NoRow
        \/ tours[t].owner = a
    BY DEF ProtectedRows
  <2> QED
    BY <1>3, <2>1 DEF SameRows, SameColumns, RepairInv, TypeInv, TypeOK, AssignmentTypeOK
<1>5. \A u \in TourId : tours'[u] # NoRow /\ tours'[u].owner = a =>
        tours'[u].guide = guide'[a] /\ status'[a] \in {"accepted", "cancelled"}
  BY <1>3, ProtectedIs DEF RepairInv, RowsTied
<1>6. projection'[a] # NoTour => projection'[a] \in ProtectedRows(a)'
  <2>1. t \in ProtectedRows(a)' /\ \A u \in ProtectedRows(a) : u \in ProtectedRows(a)'
    BY <1>3 DEF ProtectedRows
  <2>2. projection'[a] \in {projection[a], t}
    BY DEF RepairInv, TypeInv, TypeOK, AssignmentTypeOK
  <2> QED
    BY <2>1, <2>2 DEF RepairInv, RowsTied
<1> QED
  BY <1>2, <1>4, <1>5, <1>6, StepAbout

(* Deleting rows of a's own, and clearing a pointer to one of them. *)
LEMMA RowsDeleted ==
  ASSUME RepairInv, NEW a \in AssignmentId, NEW S \in SUBSET ProtectedRows(a),
         tours' = [t \in TourId |-> IF t \in S THEN NoRow ELSE tours[t]],
         \/ projection' = [projection EXCEPT ![a] = NoTour]
         \/ projection' = projection /\ projection[a] \notin S,
         mislabeled' \subseteq mislabeled,
         a \notin damaged' => Mirrored(a)', damaged \ {a} \subseteq damaged',
         UNCHANGED <<connVars, tableVars, status, guide, via, row, active, pending, unread,
                     records>>
  PROVE  TypeInv' /\ RowsTied' /\ MirroredUnlessDamaged'
<1>1. TypeInv'
  BY RowsTyped DEF RepairInv, TypeInv, TypeOK, AssignmentTypeOK
<1>2. \A u \in TourId : tours'[u] = IF u \in S THEN NoRow ELSE tours[u]
  OBVIOUS
<1>3. ASSUME NEW b \in AssignmentId \ {a}
      PROVE  SameRows(b) /\ SameColumns(b)
  BY <1>2 DEF SameRows, SameColumns, ProtectedRows, RepairInv, TypeInv, TypeOK, AssignmentTypeOK
<1>4. \A u \in TourId : tours'[u] # NoRow /\ tours'[u].owner = a =>
        tours'[u].guide = guide'[a] /\ status'[a] \in {"accepted", "cancelled"}
  BY <1>2, ProtectedIs DEF RepairInv, RowsTied
<1>5. projection'[a] # NoTour => projection'[a] \in ProtectedRows(a)'
  BY <1>2 DEF ProtectedRows, RepairInv, RowsTied, TypeInv, TypeOK, AssignmentTypeOK
<1> QED
  BY <1>1, <1>3, <1>4, <1>5, StepAbout

(* The step of Recreate, RepairMismatch and ReleaseStray, each with what   *)
(* becomes of the rows; the repaired assignment is mirrored again.         *)
RepairKeeps ==
  /\ TypeInv' /\ RowsTied' /\ MirroredUnlessDamaged'
  /\ LabelsOK'

LEMMA RecreateMirrors ==
  ASSUME RepairInv, NEW r \in RepairId, NEW a \in AssignmentId, Recreate(r, a)
  PROVE  RepairKeeps
<1>1. PICK t \in TourId :
        /\ tours[t] = NoRow
        /\ tours' = [tours EXCEPT ![t] = Tour(guide[a], row[a].span, a)]
        /\ projection' = [projection EXCEPT ![a] = t]
        /\ mislabeled' = mislabeled \ {t}
  BY DEF Recreate
<1>2. status[a] = "accepted" /\ ProtectedRows(a) = {}
  BY DEF Recreate, Repairable
<1>3. /\ damaged' = damaged \ {a}
      /\ UNCHANGED <<connVars, tableVars, status, guide, via, row, active, pending, unread,
                     records>>
  BY DEF Recreate, Applied
<1>4. row[a].span \in Span /\ Tour(guide[a], row[a].span, a) \in Tours
  BY <1>2, OwnRow DEF RepairInv
<1>5. /\ tours'[t] = Tour(guide'[a], row'[a].span, a) /\ tours'[t] # NoRow
      /\ tours'[t].owner = a /\ \A u \in TourId \ {t} : tours'[u] = tours[u]
  BY <1>1, <1>3, <1>4, RowIsThere DEF Tour, RepairInv, TypeInv, TypeOK, AssignmentTypeOK
<1>6. ProtectedRows(a)' = {t}
  BY <1>2, <1>5 DEF ProtectedRows
<1>7. Mirrored(a)'
  BY <1>1, <1>2, <1>3, <1>5, <1>6 DEF Mirrored, RepairInv, TypeInv, TypeOK, AssignmentTypeOK
<1>8. TypeInv' /\ RowsTied' /\ MirroredUnlessDamaged'
  BY <1>1, <1>2, <1>3, <1>4, <1>7, RowWritten
<1>9. \A u \in mislabeled' : u \in TourId /\ tours'[u] # NoRow /\ tours'[u].owner # Personal
  BY <1>1, <1>5 DEF RepairInv, RepairTables, LabelsOK
<1> QED
  BY <1>8, <1>9 DEF RepairKeeps, LabelsOK

(* A row of a's own with other days is again a row of a's own. *)
LEMMA RowMoved ==
  ASSUME RepairInv, NEW a \in AssignmentId, NEW t \in ProtectedRows(a), NEW s,
         tours' = [tours EXCEPT ![t].span = s]
  PROVE  tours' = [tours EXCEPT ![t] = Tour(guide[a], s, a)]
<1>1. t \in TourId /\ tours[t] \in Tours /\ tours[t].owner = a /\ tours[t].guide = guide[a]
  BY ProtectedIs DEF RepairInv, RowsTied, ProtectedRows
<1>2. [tours[t] EXCEPT !.span = s] = Tour(guide[a], s, a)
  BY <1>1 DEF Tours, Tour
<1> QED
  BY <1>2

LEMMA MismatchMirrors ==
  ASSUME RepairInv, NEW r \in RepairId, NEW a \in AssignmentId, RepairMismatch(r, a)
  PROVE  RepairKeeps
<1>1. PICK t \in ProtectedRows(a) :
        /\ Repairable(a) /\ ProtectedRows(a) = {t}
        /\ tours' = [tours EXCEPT ![t].span = row[a].span]
        /\ projection' = [projection EXCEPT ![a] = t]
        /\ mislabeled' = mislabeled \ {t}
        /\ damaged' = damaged \ {a}
        /\ UNCHANGED <<connVars, tableVars, status, guide, via, row, active, pending, unread,
                       records>>
  BY DEF RepairMismatch, Applied
<1>2. status[a] = "accepted"
  BY <1>1 DEF Repairable
<1>3. t \in TourId /\ tours' = [tours EXCEPT ![t] = Tour(guide[a], row[a].span, a)]
  BY <1>1, RowMoved, ProtectedIs DEF RepairInv
<1>4. row[a].span \in Span /\ Tour(guide[a], row[a].span, a) \in Tours
  BY <1>2, OwnRow DEF RepairInv
<1>5. /\ tours'[t] = Tour(guide'[a], row'[a].span, a) /\ tours'[t] # NoRow
      /\ tours'[t].owner = a /\ \A u \in TourId \ {t} : tours'[u] = tours[u]
  <2>1. tours'[t] = Tour(guide'[a], row'[a].span, a) /\ \A u \in TourId \ {t} : tours'[u] = tours[u]
    BY <1>1, <1>3 DEF RepairInv, TypeInv, TypeOK, AssignmentTypeOK
  <2> QED
    BY <1>1, <1>4, <2>1, RowIsThere DEF Tour
<1>6. ProtectedRows(a)' = {t}
  BY <1>1, <1>3, <1>5 DEF ProtectedRows
<1>7. Mirrored(a)'
  BY <1>1, <1>2, <1>3, <1>5, <1>6 DEF Mirrored, RepairInv, TypeInv, TypeOK, AssignmentTypeOK
<1>8. TypeInv' /\ RowsTied' /\ MirroredUnlessDamaged'
  BY <1>1, <1>2, <1>3, <1>4, <1>7, RowWritten
<1>9. \A u \in mislabeled' : u \in TourId /\ tours'[u] # NoRow /\ tours'[u].owner # Personal
  BY <1>1, <1>5 DEF RepairInv, RepairTables, LabelsOK
<1> QED
  BY <1>8, <1>9 DEF RepairKeeps, LabelsOK

LEMMA ReleaseMirrors ==
  ASSUME RepairInv, NEW r \in RepairId, NEW a \in AssignmentId, ReleaseStray(r, a)
  PROVE  RepairKeeps
<1>1. /\ status[a] = "cancelled"
      /\ tours' = [t \in TourId |-> IF t \in ProtectedRows(a) THEN NoRow ELSE tours[t]]
      /\ projection' = [projection EXCEPT ![a] = NoTour]
      /\ mislabeled' = mislabeled \ ProtectedRows(a)
      /\ damaged' = damaged \ {a}
      /\ UNCHANGED <<connVars, tableVars, status, guide, via, row, active, pending, unread,
                     records>>
  BY DEF ReleaseStray, StrayRows, Applied
<1>2. \A u \in TourId : tours'[u] = IF u \in ProtectedRows(a) THEN NoRow ELSE tours[u]
  BY <1>1
<1>3. ProtectedRows(a)' = {}
  BY <1>2 DEF ProtectedRows
<1>4. projection'[a] = NoTour /\ status'[a] = "cancelled"
  BY <1>1 DEF RepairInv, TypeInv, TypeOK, AssignmentTypeOK
<1>5. Mirrored(a)'
  BY <1>3, <1>4 DEF Mirrored
<1>6. TypeInv' /\ RowsTied' /\ MirroredUnlessDamaged'
  <2>1. ProtectedRows(a) \in SUBSET ProtectedRows(a) /\ mislabeled' \subseteq mislabeled
    BY <1>1
  <2> QED
    BY <1>1, <1>5, <2>1, RowsDeleted
<1>7. \A u \in mislabeled' : u \in TourId /\ tours'[u] # NoRow /\ tours'[u].owner # Personal
  BY <1>1, <1>2 DEF RepairInv, RepairTables, LabelsOK
<1> QED
  BY <1>6, <1>7 DEF RepairKeeps, LabelsOK

(* A refusal changes nothing but the answers stored. *)
LEMMA RefusalMirrors ==
  ASSUME RepairInv, NEW r \in RepairId, NEW a \in AssignmentId,
         Refused(r, a, "conflict") \/ Refused(r, a, "no-op")
  PROVE  RepairKeeps
<1>1. UNCHANGED <<vars, mislabeled, damaged>>
  BY DEF Refused
<1>2. UNCHANGED <<status, guide, row, projection, tours>>
  BY <1>1 DEF vars, columns
<1>3. TypeInv'
  BY <1>1, NextTypeInv DEF RepairInv
<1>4. RowsTied' /\ MirroredUnlessDamaged'
  BY <1>1, <1>2, <1>3, StepAside DEF SameRows, SameColumns
<1> QED
  BY <1>1, <1>2, <1>3, <1>4 DEF RepairKeeps, RepairInv, RepairTables, LabelsOK

(* Drift damages the assignment it hits, and no other. *)
LEMMA DriftMirrors ==
  ASSUME RepairInv, Drift
  PROVE  RepairKeeps
<1>1. PICK a \in AssignmentId :
        /\ Hit(a)
        /\ \/ \E t \in ProtectedRows(a) :
                \/ LoseRow(a, t)
                \/ \E s \in Span : MoveRow(t, s)
                \/ MislabelRow(t)
           \/ DetachRow(a)
           \/ \E t \in TourId, s \in Span : StrayRow(a, t, s)
  BY DEF Drift
<1>2. /\ status[a] \in {"accepted", "cancelled"} /\ status[a] # "none"
      /\ a \in damaged' /\ damaged \ {a} \subseteq damaged'
      /\ UNCHANGED <<connVars, tableVars, status, guide, via, row, active, pending, unread,
                     records>>
  BY <1>1 DEF Hit
<1>3. ASSUME NEW t \in ProtectedRows(a), LoseRow(a, t)
      PROVE  RepairKeeps
  <2>1. /\ t \in TourId
        /\ tours' = [tours EXCEPT ![t] = NoRow]
        /\ projection' = [b \in AssignmentId |->
                            IF projection[b] = t THEN NoTour ELSE projection[b]]
        /\ mislabeled' = mislabeled \ {t}
    BY <1>3 DEF LoseRow, ProtectedRows
  <2>2. tours' = [u \in TourId |-> IF u \in {t} THEN NoRow ELSE tours[u]]
    BY <2>1 DEF RepairInv, TypeInv, TypeOK, AssignmentTypeOK
  <2>3. \A b \in AssignmentId \ {a} : projection[b] # t
    BY <1>3, ProtectedIs DEF RepairInv, RowsTied
  <2>4. CASE projection[a] = t
    <3>1. projection' = [projection EXCEPT ![a] = NoTour]
      <4>1. projection = [b \in AssignmentId |-> projection[b]]
        BY DEF RepairInv, TypeInv, TypeOK, AssignmentTypeOK
      <4> QED
        BY <2>1, <2>3, <2>4, <4>1
    <3>2. TypeInv' /\ RowsTied' /\ MirroredUnlessDamaged'
      <4>1. {t} \in SUBSET ProtectedRows(a) /\ mislabeled' \subseteq mislabeled
        BY <1>3, <2>1
      <4> QED
        BY <1>2, <2>2, <3>1, <4>1, RowsDeleted
    <3> QED
      BY <2>1, <2>2, <3>2 DEF RepairKeeps, RepairInv, RepairTables, LabelsOK
  <2>5. CASE projection[a] # t
    <3>1. projection' = projection
      BY <2>1, <2>3, <2>5 DEF RepairInv, TypeInv, TypeOK, AssignmentTypeOK
    <3>2. TypeInv' /\ RowsTied' /\ MirroredUnlessDamaged'
      <4>1. {t} \in SUBSET ProtectedRows(a) /\ mislabeled' \subseteq mislabeled
            /\ projection[a] \notin {t}
        BY <1>3, <2>1, <2>5
      <4> QED
        BY <1>2, <2>2, <3>1, <4>1, RowsDeleted
    <3> QED
      BY <2>1, <2>2, <3>2 DEF RepairKeeps, RepairInv, RepairTables, LabelsOK
  <2> QED
    BY <2>4, <2>5
<1>4. ASSUME NEW t \in ProtectedRows(a), NEW s \in Span, MoveRow(t, s)
      PROVE  RepairKeeps
  <2>1. /\ t \in TourId /\ projection' = projection /\ mislabeled' = mislabeled
        /\ tours' = [tours EXCEPT ![t] = Tour(guide[a], s, a)]
    BY <1>4, RowMoved DEF MoveRow, ProtectedRows
  <2>2. TypeInv' /\ RowsTied' /\ MirroredUnlessDamaged'
    BY <1>2, <1>4, <2>1, RowWritten
  <2>3. tours'[t] # NoRow /\ tours'[t].owner = a /\ \A u \in TourId \ {t} : tours'[u] = tours[u]
    BY <1>2, <2>1, OwnRow, RowIsThere DEF Tour, RepairInv, TypeInv, TypeOK, AssignmentTypeOK
  <2>4. \A u \in mislabeled' : u \in TourId /\ tours'[u] # NoRow /\ tours'[u].owner # Personal
    BY <2>1, <2>3, ProtectedIs DEF RepairInv, RepairTables, LabelsOK
  <2> QED
    BY <2>2, <2>4 DEF RepairKeeps, LabelsOK
<1>5. ASSUME NEW t \in ProtectedRows(a), MislabelRow(t)
      PROVE  RepairKeeps
  <2>1. /\ t \in TourId /\ projection' = projection /\ tours' = tours
        /\ mislabeled' = mislabeled \cup {t}
    BY <1>5 DEF MislabelRow, ProtectedRows
  <2>2. TypeInv'
    BY <1>2, <2>1, RowsTyped DEF RepairInv, TypeInv, TypeOK, AssignmentTypeOK
  <2>3. \A b \in AssignmentId \ {a} : SameRows(b) /\ SameColumns(b)
    BY <1>2, <1>5, <2>1 DEF SameRows, SameColumns, ProtectedRows
  <2>4. /\ projection'[a] # NoTour => projection'[a] \in ProtectedRows(a)'
        /\ \A u \in TourId : tours'[u] # NoRow /\ tours'[u].owner = a =>
             tours'[u].guide = guide'[a] /\ status'[a] \in {"accepted", "cancelled"}
    BY <1>2, <2>1, ProtectedIs DEF ProtectedRows, RepairInv, RowsTied
  <2>5. RowsTied' /\ MirroredUnlessDamaged'
    BY <1>2, <2>2, <2>3, <2>4, StepAbout
  <2> QED
    BY <1>5, <2>1, <2>2, <2>5, ProtectedIs DEF RepairKeeps, RepairInv, RepairTables, LabelsOK, ProtectedRows
<1>6. CASE DetachRow(a)
  <2>1. /\ projection' = [projection EXCEPT ![a] = NoTour]
        /\ tours' = tours /\ mislabeled' = mislabeled
    BY <1>6 DEF DetachRow
  <2>2. tours' = [u \in TourId |-> IF u \in {} THEN NoRow ELSE tours[u]]
    BY <2>1 DEF RepairInv, TypeInv, TypeOK, AssignmentTypeOK
  <2>3. TypeInv' /\ RowsTied' /\ MirroredUnlessDamaged'
    <3>1. {} \in SUBSET ProtectedRows(a) /\ mislabeled' \subseteq mislabeled
      BY <2>1
    <3> QED
      BY <1>2, <2>1, <2>2, <3>1, RowsDeleted
  <2> QED
    BY <2>1, <2>3 DEF RepairKeeps, RepairInv, RepairTables, LabelsOK
<1>7. ASSUME NEW t \in TourId, NEW s \in Span, StrayRow(a, t, s)
      PROVE  RepairKeeps
  <2>1. /\ tours[t] = NoRow
        /\ tours' = [tours EXCEPT ![t] = Tour(guide[a], s, a)]
        /\ mislabeled' = mislabeled \cup {t}
        /\ \/ projection' = projection
           \/ projection' = [projection EXCEPT ![a] = t]
    BY <1>7 DEF StrayRow
  <2>2. TypeInv' /\ RowsTied' /\ MirroredUnlessDamaged'
    BY <1>2, <2>1, RowWritten
  <2>3. tours'[t] # NoRow /\ tours'[t].owner = a /\ \A u \in TourId \ {t} : tours'[u] = tours[u]
    BY <1>2, <2>1, OwnRow, RowIsThere DEF Tour, RepairInv, TypeInv, TypeOK, AssignmentTypeOK
  <2>4. \A u \in mislabeled' : u \in TourId /\ tours'[u] # NoRow /\ tours'[u].owner # Personal
    BY <2>1, <2>3, ProtectedIs DEF RepairInv, RepairTables, LabelsOK
  <2> QED
    BY <2>2, <2>4 DEF RepairKeeps, LabelsOK
<1> QED
  BY <1>1, <1>3, <1>4, <1>5, <1>6, <1>7

----------------------------------------------------------------------------
(* The answers stored, and what they say of the assignment they are about. *)

(* What one answered call stores. *)
LEMMA AnswerStored ==
  ASSUME RepairInv, NEW r \in RepairId, NEW a \in AssignmentId,
         NEW result \in {"applied", "no-op", "conflict"},
         NEW action \in {"none", "recreate", "repair_mismatch", "release_stray"},
         result = "applied" <=> action # "none", Answer(r, a, result, action)
  PROVE  /\ AnswersOK'
         /\ \A q \in RepairId : repairs'[q] # repairs[q] =>
              repairs'[q].about = a /\ repairs'[q].result = result
<1>1. RepairResult(a, result, action) \in RepairResults
  BY DEF RepairResult, RepairResults
<1>2. repairs' = [repairs EXCEPT ![r] = RepairResult(a, result, action)]
  BY DEF Answer
<1>3. repairs \in [RepairId -> RepairResults \cup {NoRow}]
  BY DEF RepairInv, RepairTables, AnswersOK
<1>4. repairs' \in [RepairId -> RepairResults \cup {NoRow}]
  BY <1>1, <1>2, <1>3
<1>5. ASSUME NEW q \in RepairId, repairs'[q] # repairs[q]
      PROVE  repairs'[q].about = a /\ repairs'[q].result = result
  <2>1. repairs'[q] = RepairResult(a, result, action)
    BY <1>2, <1>3, <1>5
  <2> QED
    BY <2>1 DEF RepairResult
<1>6. ASSUME NEW q \in RepairId, repairs'[q] # NoRow
      PROVE  repairs'[q].result = "applied" <=> repairs'[q].action # "none"
  <2>1. CASE q = r
    <3>1. repairs'[q] = RepairResult(a, result, action)
      BY <1>2, <1>3, <2>1
    <3> QED
      BY <3>1 DEF RepairResult
  <2>2. CASE q # r
    <3>1. repairs'[q] = repairs[q]
      BY <1>2, <1>3, <2>2
    <3> QED
      BY <1>6, <3>1 DEF RepairInv, RepairTables, AnswersOK
  <2> QED
    BY <2>1, <2>2
<1> QED
  BY <1>4, <1>5, <1>6 DEF AnswersOK

(* A repair that is applied was needed. *)
Needed ==
  \A r \in RepairId :
    repairs'[r] # repairs[r] /\ repairs'[r].result = "applied" =>
      \E a \in AssignmentId : a = repairs'[r].about /\ ~ Mirrored(a)

LEMMA RepairNeeded ==
  ASSUME RepairInv, RepairStep
  PROVE  RepairKeeps /\ AnswersOK' /\ Needed
<1>1. PICK r \in RepairId, a \in AssignmentId, g \in Guide, e \in Evidence :
        RepairLocalProjection(r, a, g, e)
  BY DEF RepairStep
<1>2. CASE Recreate(r, a)
  <2>1. Answer(r, a, "applied", "recreate")
    BY <1>2 DEF Recreate, Applied
  <2>2. ~ Mirrored(a)
    BY <1>2 DEF Recreate, Repairable, Mirrored
  <2> QED
    BY <1>2, <2>1, <2>2, AnswerStored, RecreateMirrors DEF Needed
<1>3. CASE RepairMismatch(r, a)
  <2>1. Answer(r, a, "applied", "repair_mismatch")
    BY <1>3 DEF RepairMismatch, Applied
  <2>2. PICK t \in ProtectedRows(a) :
          status[a] = "accepted" /\ ProtectedRows(a) = {t} /\ ~InStep(a, t)
    BY <1>3 DEF RepairMismatch, Repairable
  <2>3. Tour(guide[a], row[a].span, a).span = row[a].span
    BY DEF Tour
  <2>4. ~ Mirrored(a)
    BY <2>2, <2>3 DEF Mirrored, InStep
  <2> QED
    BY <1>3, <2>1, <2>4, AnswerStored, MismatchMirrors DEF Needed
<1>4. CASE ReleaseStray(r, a)
  <2>1. Answer(r, a, "applied", "release_stray")
    BY <1>4 DEF ReleaseStray, Applied
  <2>2. ~ Mirrored(a)
    BY <1>4 DEF ReleaseStray, Mirrored
  <2> QED
    BY <1>4, <2>1, <2>2, AnswerStored, ReleaseMirrors DEF Needed
<1>5. ASSUME NEW result \in {"no-op", "conflict"}, Refused(r, a, result)
      PROVE  RepairKeeps /\ AnswersOK' /\ Needed
  <2>1. Answer(r, a, result, "none")
    BY <1>5 DEF Refused
  <2> QED
    BY <1>5, <2>1, AnswerStored, RefusalMirrors DEF Needed
<1> QED
  BY <1>1, <1>2, <1>3, <1>4, <1>5 DEF RepairLocalProjection, NothingDone, RepairConflict

(* The version columns are changed by the service alone. *)
LEMMA VersionsAside ==
  ASSUME VersionInv, TypeInv',
         UNCHANGED <<status, active, pending, versions, criticalDecision>>
  PROVE  VersionInv'
BY VersionsUntouched DEF VersionInv

LEMMA RepairStepAside ==
  ASSUME RepairInv, RepairStep
  PROVE  /\ UNCHANGED <<status, active, pending, versions, criticalDecision>>
         /\ FaultsOK'
<1>1. PICK r \in RepairId, a \in AssignmentId, g \in Guide, e \in Evidence :
        RepairLocalProjection(r, a, g, e)
  BY DEF RepairStep
<1>2. CASE Recreate(r, a) \/ RepairMismatch(r, a) \/ ReleaseStray(r, a)
  <2>1. PICK action : Applied(r, a, action)
    BY <1>2 DEF Recreate, RepairMismatch, ReleaseStray
  <2> QED
    BY <2>1 DEF Applied, records, RepairInv, RepairTables, FaultsOK
<1>3. ASSUME NEW result, Refused(r, a, result)
      PROVE  /\ UNCHANGED <<status, active, pending, versions, criticalDecision>>
             /\ FaultsOK'
  BY <1>3 DEF Refused, vars, columns, records, RepairInv, RepairTables, FaultsOK
<1> QED
  BY <1>1, <1>2, <1>3 DEF RepairLocalProjection, NothingDone, RepairConflict

LEMMA DriftAside ==
  ASSUME RepairInv, Drift
  PROVE  /\ UNCHANGED <<status, active, pending, versions, criticalDecision, repairs>>
         /\ FaultsOK' /\ drifts' # drifts
BY RepairAssumption
DEF RepairAssumption, Drift, Hit, records, RepairInv, RepairTables, FaultsOK

LEMMA NextRepairInv ==
  ASSUME RepairInv, VersionInv, [RepairNext]_allVars
  PROVE  RepairInv' /\ VersionInv' /\ Needed
<1>1. CASE ServiceStep
  <2>1. /\ Next /\ RelabelledRows /\ UNCHANGED <<repairs, damaged, drifts>>
    BY <1>1 DEF ServiceStep, RelabelledRows
  <2>2. VersionInv' /\ TypeInv'
    BY <2>1, NextVersionInv DEF VersionInv
  <2> QED
    BY <2>1, <2>2, ServiceTables, ServiceMirrors DEF RepairInv, Needed
<1>2. CASE RepairStep
  BY <1>2, RepairNeeded, RepairStepAside, VersionsAside DEF RepairKeeps, RepairInv, RepairTables
<1>3. CASE Drift
  <2>1. RepairKeeps
    BY <1>3, DriftMirrors
  <2>2. /\ UNCHANGED <<status, active, pending, versions, criticalDecision, repairs>>
        /\ FaultsOK'
    BY <1>3, DriftAside
  <2> QED
    BY <2>1, <2>2, VersionsAside DEF RepairKeeps, RepairInv, RepairTables, AnswersOK, Needed
<1>4. CASE UNCHANGED allVars
  <2>1. UNCHANGED <<vars, repairs, mislabeled, damaged, drifts>>
    BY <1>4 DEF allVars, repairVars
  <2>2. VersionInv' /\ TypeInv'
    BY <2>1, NextVersionInv DEF VersionInv
  <2>3. UNCHANGED <<status, guide, row, projection, tours>>
    BY <2>1 DEF vars, columns
  <2>4. RowsTied' /\ MirroredUnlessDamaged'
    BY <2>1, <2>2, <2>3, StepAside DEF SameRows, SameColumns
  <2> QED
    BY <2>1, <2>2, <2>3, <2>4
    DEF RepairInv, RepairTables, AnswersOK, LabelsOK, FaultsOK, Needed
<1> QED
  BY <1>1, <1>2, <1>3, <1>4 DEF RepairNext

LEMMA RepairStays == RepairSpec => [](RepairInv /\ VersionInv)
<1>1. RepairInit => RepairInv /\ VersionInv
  BY RepairInitInv, InitVersionInv DEF RepairInit
<1>2. RepairInv /\ VersionInv /\ [RepairNext]_allVars => (RepairInv /\ VersionInv)'
  BY NextRepairInv
<1> QED
  BY <1>1, <1>2, PTL DEF RepairSpec

(* The two tables and the rows' labels are of their types. *)
THEOREM RepairTypes == RepairSpec => []RepairTypeOK
<1>1. RepairInv /\ VersionInv => RepairTypeOK
  BY DEF RepairInv, TypeInv, RepairTables, AnswersOK, LabelsOK, FaultsOK, RepairTypeOK
<1> QED
  BY <1>1, RepairStays, PTL

(* An assignment never hit, or repaired since, is on the calendar exactly  *)
(* as it says, whatever happened to its neighbours.                        *)
THEOREM MirrorsMended == RepairSpec => []MirroredUnlessDamaged
<1>1. RepairInv /\ VersionInv => MirroredUnlessDamaged
  BY DEF RepairInv
<1> QED
  BY <1>1, RepairStays, PTL

(* No repair is applied to an assignment that needs none. *)
THEOREM RepairsAreNeeded == RepairSpec => NoNeedlessRepair
<1>1. RepairInv /\ VersionInv /\ [RepairNext]_allVars =>
        \A r \in RepairId :
          repairs'[r] # repairs[r] /\ repairs'[r].result = "applied" =>
            \E a \in AssignmentId : a = repairs'[r].about /\ ~ Mirrored(a)
  BY NextRepairInv DEF Needed
<1> QED
  BY <1>1, RepairStays, PTL DEF RepairSpec, NoNeedlessRepair

(* A repair overlaps no row: it writes on days that are free of every      *)
(* other, or deletes.                                                      *)
LEMMA RepairOverlapsNone ==
  ASSUME RepairInv, RepairStep, NEW t \in TourId, NEW u \in TourId, t # u,
         Overlap(tours'[t], tours'[u])
  PROVE  Overlap(tours[t], tours[u])
<1>1. PICK r \in RepairId, a \in AssignmentId, g \in Guide, e \in Evidence :
        RepairLocalProjection(r, a, g, e)
  BY DEF RepairStep
<1>2. CASE Recreate(r, a)
  <2>1. PICK k \in TourId :
          tours[k] = NoRow /\ tours' = [tours EXCEPT ![k] = Tour(guide[a], row[a].span, a)]
    BY <1>2 DEF Recreate
  <2>2. CalendarFree(guide[a], row[a].span, {k})
    BY <1>2 DEF Recreate, DaysFree, CalendarFree
  <2>3. /\ tours'[k].guide = guide[a] /\ tours'[k].span = row[a].span
        /\ \A w \in TourId \ {k} : tours'[w] = tours[w]
    BY <2>1 DEF Tour, RepairInv, TypeInv, TypeOK, AssignmentTypeOK
  <2>4. guide[a] \in Guide
    BY <1>2, OwnRow DEF Recreate, Repairable, RepairInv
  <2> QED
    BY <2>2, <2>3, <2>4, FreeDaysOverlapNone
<1>3. CASE RepairMismatch(r, a)
  <2>1. PICK k \in ProtectedRows(a) :
          DaysFree(a, {k}) /\ tours' = [tours EXCEPT ![k].span = row[a].span]
    BY <1>3 DEF RepairMismatch
  <2>2. k \in TourId /\ tours' = [tours EXCEPT ![k] = Tour(guide[a], row[a].span, a)]
    BY <2>1, RowMoved DEF ProtectedRows
  <2>3. /\ tours'[k].guide = guide[a] /\ tours'[k].span = row[a].span
        /\ \A w \in TourId \ {k} : tours'[w] = tours[w]
    BY <2>2 DEF Tour, RepairInv, TypeInv, TypeOK, AssignmentTypeOK
  <2>4. guide[a] \in Guide
    BY <1>3, OwnRow DEF RepairMismatch, Repairable, RepairInv
  <2> QED
    BY <2>1, <2>2, <2>3, <2>4, FreeDaysOverlapNone DEF DaysFree
<1>4. CASE ReleaseStray(r, a)
  BY <1>4 DEF ReleaseStray, Overlap
<1>5. CASE UNCHANGED vars
  BY <1>5 DEF vars
<1> QED
  BY <1>1, <1>2, <1>3, <1>4, <1>5
  DEF RepairLocalProjection, NothingDone, RepairConflict, Refused

(* Rows come to overlap only when the guide writes one, or by drift. *)
THEOREM RepairsOverlapNone == RepairSpec => RepairsClearOfOthers
<1>1. ASSUME RepairInv, VersionInv, [RepairNext]_allVars, drifts' = drifts,
             NEW t \in TourId, NEW u \in TourId, t # u,
             Overlap(tours'[t], tours'[u]), ~ Overlap(tours[t], tours[u])
      PROVE  \E x \in {t, u} : tours'[x].owner = Personal /\ tours'[x] # tours[x]
  <2>1. CASE [Next]_vars
    BY <1>1, <2>1, TiedIsOwn, OverlapsByGuideStep DEF RepairInv
  <2>2. CASE RepairStep
    BY <1>1, <2>2, RepairOverlapsNone
  <2>3. CASE Drift
    BY <1>1, <2>3, DriftAside
  <2> QED
    BY <1>1, <2>1, <2>2, <2>3 DEF RepairNext, ServiceStep, allVars
<1>2. RepairInv /\ VersionInv /\ [RepairNext]_allVars =>
        (drifts' = drifts =>
           \A t, u \in TourId :
             t # u /\ Overlap(tours'[t], tours'[u]) /\ ~ Overlap(tours[t], tours[u]) =>
               \E x \in {t, u} : tours'[x].owner = Personal /\ tours'[x] # tours[x])
  BY <1>1
<1> QED
  BY <1>2, RepairStays, PTL DEF RepairSpec, RepairsClearOfOthers
============================================================================
