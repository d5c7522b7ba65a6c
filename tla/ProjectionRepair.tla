------------------------- MODULE ProjectionRepair -------------------------
(***************************************************************************)
(* Reconciliation of the protected tours                                   *)
(* (services/guide_operator_reconcile_service.py and                       *)
(* guide_operator_reconcile_repair_service.py).  The operator reads what   *)
(* the guide's calendar shows of an assignment and, where that differs     *)
(* from the assignment, asks for a repair, sending back what it read.      *)
(*                                                                         *)
(* The service itself keeps tours and assignments in step (Assignments,    *)
(* CalendarMirrorsAssignments), so there is nothing to repair until the    *)
(* tours table is changed behind its back: a hand edit, a restored         *)
(* backup.  Drift is that fault, as the tests of the repair produce it     *)
(* with SQL of their own, within the foreign key and the unique index on   *)
(* projection_tour_id.                                                     *)
(***************************************************************************)
EXTENDS Assignments

CONSTANTS RepairId,   \* repair_request_id values
          MaxDrift    \* bound on the faults, for TLC

VARIABLES repairs,    \* guide_operator_projection_repair_inbox
          mislabeled, \* rows whose title, city or day cities are not the package's
          damaged,    \* assignments hit by drift and not repaired since
          drifts      \* faults so far

repairVars == <<repairs, mislabeled, damaged, drifts>>
allVars == <<vars, repairVars>>

ASSUME RepairAssumption == MaxDrift \in Nat

RepairResult(a, result, action) == [about |-> a, result |-> result, action |-> action]
RepairResults ==
  [about : AssignmentId, result : {"applied", "no-op", "conflict"},
   action : {"none", "recreate", "repair_mismatch", "release_stray"}]

RepairInit ==
  /\ Init
  /\ repairs = [r \in RepairId |-> NoRow]
  /\ mislabeled = {}
  /\ damaged = {}
  /\ drifts = 0

(* The rows whose source and note say they project a. *)
ProtectedRows(a) == {t \in TourId : tours[t] # NoRow /\ tours[t].owner = a}

(* The days the calendar shows for a: those of the row pointed to, or of   *)
(* the only protected row; none when neither exists.                       *)
Fingerprint(a) ==
  LET rows == ProtectedRows(a)
      chosen == {t \in rows : t = projection[a] \/ (projection[a] \notin rows /\ rows = {t})}
  IN UNION {tours[t].span : t \in chosen}

(* What the operator sends back of its snapshot. *)
Evidence == [status : {"accepted", "cancelled"}, version : Version,
             seen : Span \cup {{}}]
EvidenceHolds(a, e) ==
  /\ status[a] = e.status
  /\ active[a] = e.version
  /\ Fingerprint(a) = e.seen

(* The active version is there and its dates are the assignment's own. *)
DesiredKnown(a) ==
  /\ versions[a][active[a]] # NoRow
  /\ versions[a][active[a]].package.span = row[a].span

(* An accepted assignment that may be repaired at all. *)
Repairable(a) ==
  /\ status[a] = "accepted"
  /\ pending[a] = 0
  /\ decision[a] = "accept"
  /\ DesiredKnown(a)

(* Mutant: the pointer and the row id are compared as a text and a number. *)
NeverInStep(a, t) == FALSE

(* The row shows what the assignment says. *)
InStep(a, t) ==
  /\ tours[t].span = row[a].span
  /\ t \notin mislabeled
  /\ projection[a] = t

(* Mutant: the row is stored before the outcome is known. *)
AnswerEarly(r, a, result, action) ==
  /\ repairs[r] = NoRow
  /\ repairs' = [repairs EXCEPT ![r] = RepairResult(a, "applied", action)]

(* A request id is answered once and for all: a repeated call with the     *)
(* same payload is answered from the stored row, another payload refused,  *)
(* and neither is a step.                                                  *)
Answer(r, a, result, action) ==
  /\ repairs[r] = NoRow
  /\ repairs' = [repairs EXCEPT ![r] = RepairResult(a, result, action)]

Applied(r, a, action) ==
  /\ Answer(r, a, "applied", action)
  /\ damaged' = damaged \ {a}
  /\ UNCHANGED <<connVars, tableVars, status, guide, via, row, active, pending, unread,
                 records, drifts>>

Refused(r, a, result) ==
  /\ Answer(r, a, result, "none")
  /\ UNCHANGED <<vars, mislabeled, damaged, drifts>>

(* Mutant: a lost row is put back over whatever took its days. *)
DaysAnyway(a, X) == TRUE

(* The days of a are free of every row outside X. *)
DaysFree(a, X) == CalendarFree(guide[a], row[a].span, X)

(* The protected row is missing: it is inserted again. *)
Recreate(r, a) ==
  /\ Repairable(a)
  /\ ProtectedRows(a) = {}
  /\ DaysFree(a, {})
  /\ \E t \in TourId :
       /\ tours[t] = NoRow
       /\ tours' = [tours EXCEPT ![t] = Tour(guide[a], row[a].span, a)]
       /\ projection' = [projection EXCEPT ![a] = t]
       /\ mislabeled' = mislabeled \ {t}
  /\ Applied(r, a, "recreate")

(* The one protected row has other days or labels, or is not pointed to. *)
RepairMismatch(r, a) ==
  \E t \in ProtectedRows(a) :
    /\ Repairable(a)
    /\ ProtectedRows(a) = {t}
    /\ ~InStep(a, t)
    /\ DaysFree(a, {t})
    /\ tours' = [tours EXCEPT ![t].span = row[a].span]
    /\ projection' = [projection EXCEPT ![a] = t]
    /\ mislabeled' = mislabeled \ {t}
    /\ Applied(r, a, "repair_mismatch")

(* Mutant: only the row that is pointed to is released. *)
PointedRows(a) == ProtectedRows(a) \cap {projection[a]}

StrayRows(a) == ProtectedRows(a)

(* A cancelled assignment still has protected rows: all of them go. *)
ReleaseStray(r, a) ==
  /\ status[a] = "cancelled"
  /\ ProtectedRows(a) # {}
  /\ tours' = [t \in TourId |-> IF t \in StrayRows(a) THEN NoRow ELSE tours[t]]
  /\ projection' = [projection EXCEPT ![a] = NoTour]
  /\ mislabeled' = mislabeled \ StrayRows(a)
  /\ Applied(r, a, "release_stray")

(* The calendar has since taken the days the repair would block. *)
RepairConflict(r, a) ==
  /\ Repairable(a)
  /\ \/ ProtectedRows(a) = {} /\ ~DaysFree(a, {})
     \/ \E t \in ProtectedRows(a) :
          ProtectedRows(a) = {t} /\ ~InStep(a, t) /\ ~DaysFree(a, {t})
  /\ Refused(r, a, "conflict")

(* Stale evidence, an assignment not to be repaired, more than one row, or *)
(* nothing to do.                                                          *)
NothingDone(r, a, e) ==
  /\ \/ ~EvidenceHolds(a, e)
     \/ status[a] = "accepted" /\ ~Repairable(a)
     \/ status[a] = "accepted" /\ Cardinality(ProtectedRows(a)) > 1
     \/ status[a] = "accepted" /\ \E t \in ProtectedRows(a) :
          ProtectedRows(a) = {t} /\ InStep(a, t)
     \/ status[a] = "cancelled" /\ ProtectedRows(a) = {}
  /\ Refused(r, a, "no-op")

(* The operator asks for a repair of g's assignment a on evidence e. *)
RepairLocalProjection(r, a, g, e) ==
  /\ status[a] # "none"
  /\ guide[a] = g
  /\ \/ NothingDone(r, a, e)
     \/ /\ EvidenceHolds(a, e)
        /\ \/ Recreate(r, a)
           \/ RepairMismatch(r, a)
           \/ ReleaseStray(r, a)
           \/ RepairConflict(r, a)

----------------------------------------------------------------------------
(* Drift: one protected row changes behind the service's back. *)

Hit(a) ==
  /\ status[a] \in {"accepted", "cancelled"}
  /\ drifts < MaxDrift
  /\ drifts' = drifts + 1
  /\ damaged' = damaged \cup {a}
  /\ UNCHANGED <<connVars, tableVars, status, guide, via, row, active, pending, unread,
                 records, repairs>>

(* The row is deleted, the pointer to it cleared. *)
LoseRow(a, t) ==
  /\ tours' = [tours EXCEPT ![t] = NoRow]
  /\ projection' = [b \in AssignmentId |-> IF projection[b] = t THEN NoTour ELSE projection[b]]
  /\ mislabeled' = mislabeled \ {t}

(* The row is moved to other days. *)
MoveRow(t, s) ==
  /\ s # tours[t].span
  /\ tours' = [tours EXCEPT ![t].span = s]
  /\ UNCHANGED <<projection, mislabeled>>

(* The row gets another title or city. *)
MislabelRow(t) ==
  /\ mislabeled' = mislabeled \cup {t}
  /\ UNCHANGED <<tours, projection>>

(* The pointer to the row is lost. *)
DetachRow(a) ==
  /\ projection[a] # NoTour
  /\ projection' = [projection EXCEPT ![a] = NoTour]
  /\ UNCHANGED <<tours, mislabeled>>

(* A protected row nobody asked for, with labels of its own; its insertion *)
(* may also take over the pointer.                                         *)
StrayRow(a, t, s) ==
  /\ tours[t] = NoRow
  /\ tours' = [tours EXCEPT ![t] = Tour(guide[a], s, a)]
  /\ mislabeled' = mislabeled \cup {t}
  /\ \/ UNCHANGED projection
     \/ projection' = [projection EXCEPT ![a] = t]

Drift ==
  \E a \in AssignmentId :
    /\ Hit(a)
    /\ \/ \E t \in ProtectedRows(a) :
            \/ LoseRow(a, t)
            \/ \E s \in Span : MoveRow(t, s)
            \/ MislabelRow(t)
       \/ DetachRow(a)
       \/ \E t \in TourId, s \in Span : StrayRow(a, t, s)

(* A version that becomes active rewrites the labels of the row pointed    *)
(* to; a row that is deleted takes its labels along.                       *)
ServiceStep ==
  /\ Next
  /\ mislabeled' = {t \in mislabeled :
                      /\ tours'[t] # NoRow
                      /\ \A a \in AssignmentId :
                           active'[a] # active[a] => t # projection[a]}
  /\ UNCHANGED <<repairs, damaged, drifts>>

RepairStep ==
  \E r \in RepairId, a \in AssignmentId, g \in Guide, e \in Evidence :
    RepairLocalProjection(r, a, g, e)

RepairNext == ServiceStep \/ RepairStep \/ Drift

RepairSpec == RepairInit /\ [][RepairNext]_allVars

----------------------------------------------------------------------------
(* Properties *)

(* Columns have values of their types; the answer stored under a request   *)
(* id is one the service gives, with its action.                           *)
RepairTypeOK ==
  /\ TypeOK
  /\ repairs \in [RepairId -> RepairResults \cup {NoRow}]
  /\ mislabeled \subseteq {t \in TourId : tours[t] # NoRow /\ tours[t].owner # Personal}
  /\ damaged \subseteq AssignmentId
  /\ drifts \in 0..MaxDrift
  /\ \A r \in RepairId :
       repairs[r] # NoRow => (repairs[r].result = "applied" <=> repairs[r].action # "none")

(* The calendar shows of a exactly what the assignment says. *)
Mirrored(a) ==
  IF status[a] = "accepted"
  THEN \E t \in TourId :
         /\ ProtectedRows(a) = {t}
         /\ tours[t] = Tour(guide[a], row[a].span, a)
         /\ t \notin mislabeled
         /\ projection[a] = t
  ELSE projection[a] = NoTour /\ ProtectedRows(a) = {}

(* Whatever else happens to the two tables, before the repair, after it    *)
(* and to other assignments: an assignment that was never hit, or was      *)
(* repaired since, is mirrored by the calendar (_repair_accepted,          *)
(* _repair_cancelled, and every handler on a damaged neighbour).           *)
MirroredUnlessDamaged == \A a \in AssignmentId \ damaged : Mirrored(a)

(* No repair is applied to an assignment that needs none, however old the  *)
(* evidence it was asked on: what the operator read may come true again.   *)
NoNeedlessRepair ==
  [][\A r \in RepairId :
       repairs'[r] # repairs[r] /\ repairs'[r].result = "applied" =>
         \E a \in AssignmentId : a = repairs'[r].about /\ ~ Mirrored(a)]_allVars

(* Repairs, too, never put a tour on days the guide has given away since:  *)
(* rows come to overlap only when the guide writes one, or by drift.       *)
RepairsClearOfOthers ==
  [][drifts' = drifts =>
       \A t, u \in TourId :
         t # u /\ Overlap(tours'[t], tours'[u]) /\ ~ Overlap(tours[t], tours[u]) =>
           \E x \in {t, u} : tours'[x].owner = Personal /\ tours'[x] # tours[x]]_allVars
============================================================================
