--------------------------- MODULE CalendarProofs ---------------------------
(***************************************************************************)
(* The guide's calendar and its reminders for all values of the constants. *)
(* The rows of a group agree because every write reaches all of them, and  *)
(* a new group has a number no row bears (CalendarInv).  So an entry, one  *)
(* row standing for its group, tells the truth about each row it covers    *)
(* (Noticed), which is what the checks on entries rest on.                 *)
(***************************************************************************)
EXTENDS Reminders, FiniteSetTheorems, WellFoundedInduction, TLAPS

LEMMA IdsAreNumbers ==
  /\ MaxRows \in Nat
  /\ \A r \in Id : r \in 1..MaxRows /\ r \in 0..MaxRows /\ r \in Nat
BY CalendarAssumption DEF CalendarAssumption, Id

(* A nonempty set of numbers has a least one. *)
LEMMA LeastNumber ==
  ASSUME NEW T \in SUBSET Nat, T # {}
  PROVE  \E n \in T : \A m \in T : n <= m
<1> DEFINE Less == {p \in Nat \X Nat : p[1] < p[2]}
<1>1. OpToRel(<, Nat) = Less
  BY DEF OpToRel
<1>2. IsWellFoundedOn(Less, Nat)
  BY <1>1, NatLessThanWellFounded
<1>3. \A n, m \in Nat : <<m, n>> \in Less <=> m < n
  OBVIOUS
<1> HIDE DEF Less
<1>4. \E n \in T : \A m \in T : <<m, n>> \notin Less
  BY <1>2, WFMin, Zenon
<1>5. PICK n \in T : \A m \in T : <<m, n>> \notin Less
  BY <1>4
<1>6. \A m \in T : n \in Nat /\ m \in Nat /\ ~ (m < n)
  BY <1>3, <1>5
<1> QED
  BY <1>6

(* Of finitely many integers one is the least: the one with fewest below. *)
LEMMA LeastValue ==
  ASSUME NEW R, IsFiniteSet(R), R # {}, NEW f \in [R -> Int]
  PROVE  \E r \in R : \A q \in R : f[r] <= f[q]
<1> DEFINE Below(r) == {q \in R : f[q] < f[r]}
           T == {Cardinality(Below(r)) : r \in R}
<1>1. \A r \in R : Below(r) \in SUBSET R /\ IsFiniteSet(Below(r))
  BY FS_Subset
<1>2. T \in SUBSET Nat /\ T # {}
  BY <1>1, FS_CardinalityType
<1>3. PICK r \in R : \A q \in R : Cardinality(Below(r)) <= Cardinality(Below(q))
  <2>1. \E n \in T : \A m \in T : n <= m
    <3> HIDE DEF T
    <3> QED
      BY <1>2, LeastNumber
  <2> HIDE DEF Below
  <2> QED
    BY <2>1
<1>4. ASSUME NEW q \in R, f[q] < f[r]
      PROVE  FALSE
  <2>1. Below(q) \in SUBSET Below(r) /\ q \in Below(r) /\ q \notin Below(q)
    BY <1>4
  <2>2. Cardinality(Below(q)) <= Cardinality(Below(r)) /\ Cardinality(Below(r)) # Cardinality(Below(q))
    BY <1>1, <2>1, FS_Subset
  <2>3. Cardinality(Below(q)) \in Nat /\ Cardinality(Below(r)) \in Nat
    BY <1>1, FS_CardinalityType
  <2> QED
    BY <1>3, <2>2, <2>3
<1> QED
  BY <1>4

LEMMA GreatestValue ==
  ASSUME NEW R, IsFiniteSet(R), R # {}, NEW f \in [R -> Int]
  PROVE  \E r \in R : \A q \in R : f[q] <= f[r]
<1> DEFINE g == [r \in R |-> -f[r]]
<1>1. g \in [R -> Int]
  OBVIOUS
<1>2. PICK r \in R : \A q \in R : g[r] <= g[q]
  <2> HIDE DEF g
  <2> QED
    BY <1>1, LeastValue
<1> QED
  BY <1>2

----------------------------------------------------------------------------

Kind == {"tour", "day off", "operator"}
Step == {"none", "date", "details", "income", "prompt", "edit dates", "edit details"}
RowRecord == [group : Id, first : Int, last : Int, kind : Kind, slot : Slot, detail : Detail,
              key : Key \cup {NoKey}]
DialogRecord == [step : Step, text : Text \cup {NoText}, complete : BOOLEAN, tour : 0..MaxRows]

CalendarInv ==
  /\ rows \in [Id -> RowRecord \cup {NoRow}]
  /\ lastId \in 0..MaxRows
  /\ dialog \in DialogRecord
  /\ \A r \in Live : r <= lastId /\ rows[r].group <= lastId
  /\ GroupsUniform

(* The entry made of some rows of a group. *)
LEMMA MergedIs ==
  ASSUME CalendarInv, NEW R \in SUBSET Live, R # {}
  PROVE  \E head \in R :
           /\ Merged(R).group = rows[head].group /\ Merged(R).kind = rows[head].kind
           /\ Merged(R).slot = rows[head].slot /\ Merged(R).detail = rows[head].detail
           /\ Merged(R).first = rows[head].first /\ Merged(R).last \in Int
           /\ \A b \in R : Merged(R).first <= rows[b].first /\ rows[b].last <= Merged(R).last
<1>1. IsFiniteSet(R)
  <2>1. IsFiniteSet(Id)
    BY CalendarAssumption, FS_Interval DEF CalendarAssumption, Id
  <2> QED
    BY <2>1, FS_Subset DEF Live
<1>2. \A r \in R : rows[r] \in RowRecord /\ r \in Nat
  BY CalendarAssumption DEF CalendarAssumption, CalendarInv, Live, Id
<1> DEFINE first == [r \in R |-> rows[r].first]
           last == [r \in R |-> rows[r].last]
<1>3. first \in [R -> Int] /\ last \in [R -> Int]
  BY <1>2 DEF RowRecord
<1>4. \E head \in R : \A q \in R : \/ rows[head].first < rows[q].first
                                   \/ rows[head].first = rows[q].first /\ head <= q
  <2>1. PICK r \in R : \A q \in R : first[r] <= first[q]
    <3> HIDE DEF first
    <3> QED
      BY <1>1, <1>3, LeastValue
  <2> DEFINE T == {q \in R : rows[q].first = rows[r].first}
  <2>2. T \in SUBSET Nat /\ T # {}
    BY <1>2
  <2>3. PICK n \in T : \A m \in T : n <= m
    BY <2>2, LeastNumber
  <2>4. n \in R /\ rows[n].first = rows[r].first
    OBVIOUS
  <2>5. ASSUME NEW q \in R
        PROVE  rows[n].first < rows[q].first \/ (rows[n].first = rows[q].first /\ n <= q)
    <3>1. rows[r].first <= rows[q].first
      BY <2>1
    <3>2. rows[q].first \in Int /\ rows[r].first \in Int
      BY <1>2 DEF RowRecord
    <3>3. rows[q].first = rows[r].first => n <= q
      BY <2>3
    <3> HIDE DEF T, first
    <3> QED
      BY <2>4, <3>1, <3>2, <3>3
  <2> HIDE DEF T, first
  <2> QED
    BY <2>4, <2>5
<1>5. \E d \in {rows[r].last : r \in R} : \A r \in R : rows[r].last <= d
  <2>1. PICK r \in R : \A q \in R : last[q] <= last[r]
    <3> HIDE DEF last
    <3> QED
      BY <1>1, <1>3, GreatestValue
  <2> QED
    BY <2>1
<1> DEFINE head == CHOOSE r \in R : \A q \in R : \/ rows[r].first < rows[q].first
                                                 \/ rows[r].first = rows[q].first /\ r <= q
           end == CHOOSE d \in {rows[r].last : r \in R} : \A r \in R : rows[r].last <= d
<1>6. head \in R /\ \A q \in R : \/ rows[head].first < rows[q].first
                                 \/ rows[head].first = rows[q].first /\ head <= q
  BY <1>4
<1>7. end \in Int /\ \A r \in R : rows[r].last <= end
  BY <1>2, <1>5 DEF RowRecord
<1>8. Merged(R) = [rows[head] EXCEPT !.last = end]
  BY DEF Merged
<1> HIDE DEF head, end
<1>9. rows[head] \in RowRecord
  BY <1>2, <1>6
<1> QED
  BY <1>2, <1>6, <1>7, <1>8, <1>9 DEF RowRecord

(* The times an entry passes on. *)
LEMMA EntryTyped ==
  ASSUME CalendarInv, NEW r \in Live
  PROVE  Entry(r).slot \in Slot
<1>1. GroupOf(r) \in SUBSET Live /\ r \in GroupOf(r)
  BY DEF GroupOf
<1>2. \E head \in GroupOf(r) : Entry(r).slot = rows[head].slot
  BY <1>1, MergedIs DEF Entry
<1>3. \A q \in GroupOf(r) : rows[q] \in RowRecord
  BY <1>1 DEF Live, CalendarInv
<1> QED
  BY <1>2, <1>3 DEF RowRecord

(* A row that shares a day with p is noticed through its entry. *)
LEMMA Noticed ==
  ASSUME CalendarInv, NEW p, p.first \in Int, p.last \in Int, NEW own, NEW b \in Live,
         rows[b].group \notin own, Shared(p, rows[b]) # {}
  PROVE  \E e \in SameDays(p, own) :
           /\ e.kind = rows[b].kind /\ e.slot = rows[b].slot
           /\ e.first <= rows[b].first /\ rows[b].last <= e.last
           /\ e.first \in Int /\ e.last \in Int
<1>1. rows[b] \in RowRecord
  BY DEF CalendarInv, Live
<1>2. PICK day \in Int : /\ p.first <= day /\ day <= p.last
                         /\ rows[b].first <= day /\ day <= rows[b].last
  BY <1>1 DEF Shared, RowRecord
<1>3. b \in InRange(p)
  BY <1>1, <1>2 DEF InRange, RowRecord
<1> DEFINE R == {r \in InRange(p) : rows[r].group = rows[b].group}
<1>4. R \in SUBSET Live /\ b \in R
  BY <1>3 DEF InRange
<1> DEFINE e == Merged(R)
<1>5. PICK head \in R : /\ e.group = rows[head].group /\ e.kind = rows[head].kind
                        /\ e.slot = rows[head].slot /\ e.first = rows[head].first
                        /\ e.last \in Int
                        /\ \A q \in R : e.first <= rows[q].first /\ rows[q].last <= e.last
  <2> HIDE DEF R
  <2> QED
    BY <1>4, MergedIs
<1>6. e \in EntriesIn(p)
  BY <1>3 DEF EntriesIn, Entries
<1>7. e.group = rows[b].group /\ e.kind = rows[b].kind /\ e.slot = rows[b].slot
  BY <1>4, <1>5 DEF CalendarInv, GroupsUniform
<1>8. e.first <= rows[b].first /\ rows[b].last <= e.last /\ e.first \in Int /\ e.last \in Int
  BY <1>4, <1>5 DEF CalendarInv, Live, RowRecord
<1> HIDE DEF e
<1>9. day \in p.first..p.last \cap e.first..e.last
  BY <1>1, <1>2, <1>8 DEF RowRecord
<1> QED
  BY <1>6, <1>7, <1>8, <1>9 DEF SameDays

----------------------------------------------------------------------------
(* What the writes do to the table. *)

RowTable == [Id -> RowRecord \cup {NoRow}]

LEMMA CreateEffect ==
  ASSUME CalendarInv, NEW spans \in Seq(Interval), NEW kind \in Kind, NEW slot \in Slot,
         NEW detail \in Detail, NEW key \in Key \cup {NoKey},
         CreateTours(spans, kind, slot, detail, key)
  PROVE  /\ rows' \in RowTable
         /\ lastId' \in 0..MaxRows /\ lastId <= lastId'
         /\ \A r \in Id :
              \/ rows'[r] = rows[r]
              \/ /\ rows[r] = NoRow /\ r <= lastId'
                 /\ \E n \in DOMAIN spans :
                      rows'[r] = Row(lastId + 1, spans[n], kind, slot, detail, key)
                 /\ rows'[r] \in RowRecord /\ lastId + 1 <= lastId'
<1> DEFINE new == (lastId + 1)..(lastId + Len(spans))
<1>1. /\ new \subseteq Id
      /\ rows' = [r \in Id |-> IF r \in new
                                 THEN Row(lastId + 1, spans[r - lastId], kind, slot, detail, key)
                                 ELSE rows[r]]
      /\ lastId' = lastId + Len(spans)
  BY DEF CreateTours
<1>2. lastId \in Nat /\ lastId <= MaxRows /\ Len(spans) \in Nat /\ MaxRows \in Nat
      /\ DOMAIN spans = 1..Len(spans)
  BY CalendarAssumption DEF CalendarAssumption, CalendarInv
<1>3. lastId' \in 0..MaxRows /\ lastId <= lastId'
  <2>1. CASE Len(spans) = 0
    BY <1>1, <1>2, <2>1
  <2>2. CASE Len(spans) # 0
    <3>1. lastId + Len(spans) \in new
      BY <1>2, <2>2
    <3> QED
      BY <1>1, <1>2, <3>1 DEF Id
  <2> QED
    BY <2>1, <2>2
<1>4. ASSUME NEW r \in new
      PROVE  /\ rows[r] = NoRow /\ r <= lastId' /\ lastId + 1 <= lastId'
             /\ r - lastId \in DOMAIN spans
             /\ rows'[r] = Row(lastId + 1, spans[r - lastId], kind, slot, detail, key)
             /\ rows'[r] \in RowRecord
  <2>1. r \in Id /\ r \in Int /\ lastId < r /\ r <= lastId'
    BY <1>1, <1>2, <1>4
  <2>2. rows[r] = NoRow
    BY <1>2, <2>1 DEF CalendarInv, Live
  <2>3. r - lastId \in DOMAIN spans
    BY <1>2, <1>4
  <2>4. spans[r - lastId] \in Interval
    BY <2>3
  <2>5. lastId + 1 \in Id
    BY <1>2, <1>3, <2>1, CalendarAssumption DEF CalendarAssumption, Id
  <2>6. rows'[r] = Row(lastId + 1, spans[r - lastId], kind, slot, detail, key)
    BY <1>1, <1>4
  <2>7. spans[r - lastId][1] \in Int /\ spans[r - lastId][2] \in Int
    BY <2>4 DEF Interval
  <2>8. rows'[r] \in RowRecord
    BY <2>5, <2>6, <2>7 DEF Row, RowRecord
  <2>9. lastId + 1 <= lastId'
    BY <1>2, <1>3, <2>1
  <2> QED
    BY <2>1, <2>2, <2>3, <2>6, <2>8, <2>9
<1>5. \A r \in Id \ new : rows'[r] = rows[r]
  BY <1>1
<1>6. rows' \in RowTable
  <2>1. \A r \in Id : rows'[r] \in RowRecord \cup {NoRow}
    BY <1>4, <1>5 DEF CalendarInv
  <2> QED
    BY <1>1, <2>1 DEF RowTable
<1> HIDE DEF new
<1> QED
  BY <1>3, <1>4, <1>5, <1>6

LEMMA CreateKeepsInv ==
  ASSUME CalendarInv, NEW spans \in Seq(Interval), NEW kind \in Kind, NEW slot \in Slot,
         NEW detail \in Detail, NEW key \in Key \cup {NoKey},
         CreateTours(spans, kind, slot, detail, key), dialog' \in DialogRecord
  PROVE  CalendarInv'
<1>1. /\ rows' \in RowTable
      /\ lastId' \in 0..MaxRows /\ lastId <= lastId'
  BY CreateEffect
<1> DEFINE New(r) == /\ r <= lastId' /\ lastId + 1 <= lastId'
                     /\ rows'[r].group = lastId + 1 /\ rows'[r].kind = kind
                     /\ rows'[r].slot = slot /\ rows'[r].detail = detail
           Old(r) == /\ rows'[r] = rows[r] /\ r \in Live
                     /\ r <= lastId /\ rows[r].group <= lastId /\ rows[r] \in RowRecord
<1>2. ASSUME NEW r \in Id, rows'[r] # NoRow
      PROVE  New(r) \/ Old(r)
  <2>1. CASE rows'[r] = rows[r]
    BY <1>2, <2>1 DEF CalendarInv, Live
  <2>2. CASE rows'[r] # rows[r]
    <3>1. /\ r <= lastId' /\ lastId + 1 <= lastId'
          /\ \E n \in DOMAIN spans : rows'[r] = Row(lastId + 1, spans[n], kind, slot, detail, key)
      BY <2>2, CreateEffect
    <3> QED
      BY <3>1 DEF Row
  <2> QED
    BY <2>1, <2>2
<1>3. \A r \in Live' : r <= lastId' /\ rows'[r].group <= lastId'
  BY <1>1, <1>2, CalendarAssumption DEF CalendarAssumption, Live, CalendarInv, RowRecord, Id
<1>4. GroupsUniform'
  <2> SUFFICES ASSUME NEW r \in Live', NEW q \in Live', rows'[r].group = rows'[q].group
               PROVE  /\ rows'[r].kind = rows'[q].kind
                      /\ rows'[r].slot = rows'[q].slot
                      /\ rows'[r].detail = rows'[q].detail
    BY DEF GroupsUniform
  <2>1. (New(r) \/ Old(r)) /\ (New(q) \/ Old(q))
    BY <1>2 DEF Live
  <2>2. CASE New(r) /\ New(q)
    BY <2>2
  <2>3. CASE Old(r) /\ Old(q)
    BY <2>3 DEF CalendarInv, GroupsUniform
  <2>4. CASE (New(r) /\ Old(q)) \/ (Old(r) /\ New(q))
    BY <2>4, CalendarAssumption DEF CalendarAssumption, CalendarInv, RowRecord, Id
  <2> QED
    BY <2>1, <2>2, <2>3, <2>4
<1> QED
  BY <1>1, <1>3, <1>4 DEF CalendarInv, RowTable

(* A write to rows that exist, which leaves each in its group. *)
LEMMA RewriteKeepsInv ==
  ASSUME CalendarInv, rows' \in RowTable, lastId' = lastId, dialog' \in DialogRecord,
         \A r \in Id : rows'[r] # NoRow =>
           rows[r] # NoRow /\ rows'[r].group = rows[r].group /\ rows'[r].kind = rows[r].kind,
         \A r, q \in Id :
           rows'[r] # NoRow /\ rows'[q] # NoRow /\ rows[r].group = rows[q].group =>
             rows'[r].slot = rows'[q].slot /\ rows'[r].detail = rows'[q].detail
  PROVE  CalendarInv'
<1>1. \A r \in Live' : r <= lastId' /\ rows'[r].group <= lastId'
  BY DEF CalendarInv, Live
<1>2. GroupsUniform'
  BY DEF CalendarInv, Live, GroupsUniform
<1> QED
  BY <1>1, <1>2 DEF CalendarInv, RowTable

LEMMA EditDetailsEffect ==
  ASSUME CalendarInv, NEW r \in Live, NEW d \in Detail, EditDetails(r, d)
  PROVE  /\ rows' \in RowTable
         /\ \A q \in Id \ GroupOf(r) : rows'[q] = rows[q]
         /\ \A q \in GroupOf(r) :
              /\ rows'[q] \in RowRecord /\ rows'[q].detail = d
              /\ rows'[q].group = rows[q].group /\ rows'[q].kind = rows[q].kind
              /\ rows'[q].slot = rows[q].slot
              /\ rows'[q].first = rows[q].first /\ rows'[q].last = rows[q].last
<1>1. \A q \in GroupOf(r) : q \in Id /\ rows[q] \in RowRecord
  BY DEF GroupOf, Live, CalendarInv
<1>2. /\ \A q \in GroupOf(r) : rows'[q] = [rows[q] EXCEPT !.detail = d]
      /\ \A q \in Id \ GroupOf(r) : rows'[q] = rows[q]
  BY <1>1 DEF EditDetails, EditedRows
<1>3. ASSUME NEW q \in GroupOf(r)
      PROVE  /\ rows'[q] \in RowRecord /\ rows'[q].detail = d
             /\ rows'[q].group = rows[q].group /\ rows'[q].kind = rows[q].kind
             /\ rows'[q].slot = rows[q].slot
             /\ rows'[q].first = rows[q].first /\ rows'[q].last = rows[q].last
  <2>1. rows[q] \in RowRecord /\ rows'[q] = [rows[q] EXCEPT !.detail = d]
    BY <1>1, <1>2
  <2> QED
    BY <2>1 DEF RowRecord
<1>4. rows' \in RowTable
  <2>1. \A q \in Id : rows'[q] \in RowRecord \cup {NoRow}
    BY <1>2, <1>3 DEF CalendarInv
  <2> QED
    BY <2>1 DEF EditDetails, RowTable
<1> QED
  BY <1>2, <1>3, <1>4

LEMMA EditDetailsKeepsInv ==
  ASSUME CalendarInv, NEW r \in Live, NEW d \in Detail, EditDetails(r, d),
         lastId' = lastId, dialog' \in DialogRecord
  PROVE  CalendarInv'
<1>1. /\ rows' \in RowTable
      /\ \A q \in Id : rows'[q] # NoRow =>
           rows[q] # NoRow /\ rows'[q].group = rows[q].group /\ rows'[q].kind = rows[q].kind
  BY EditDetailsEffect DEF GroupOf, Live
<1>2. ASSUME NEW p \in Id, NEW q \in Id, rows'[p] # NoRow, rows'[q] # NoRow,
             rows[p].group = rows[q].group
      PROVE  rows'[p].slot = rows'[q].slot /\ rows'[p].detail = rows'[q].detail
  <2>1. p \in Live /\ q \in Live /\ (p \in GroupOf(r) <=> q \in GroupOf(r))
    BY <1>1, <1>2 DEF Live, GroupOf
  <2>2. rows[p].slot = rows[q].slot /\ rows[p].detail = rows[q].detail
    BY <1>2, <2>1 DEF CalendarInv, GroupsUniform
  <2> QED
    BY <2>1, <2>2, EditDetailsEffect
<1> QED
  BY <1>1, <1>2, RewriteKeepsInv

(* A draft is written to the rows of a group alike. *)
LEMMA DraftEffect ==
  ASSUME CalendarInv, NEW r \in Live, NEW s \in Interval, NEW slot \in Slot, NEW d \in Detail,
         WriteDraft(r, s, slot, d)
  PROVE  /\ rows' \in RowTable
         /\ \A q \in Id \ GroupOf(r) : rows'[q] = rows[q]
         /\ \A q \in GroupOf(r) :
              /\ rows'[q] \in RowRecord /\ rows'[q].detail = d
              /\ rows'[q].group = rows[q].group /\ rows'[q].kind = rows[q].kind
              /\ rows'[q].slot = Written(rows[q].slot, slot)
              /\ rows'[q].first = s[1] /\ rows'[q].last = s[2]
<1>1. \A q \in GroupOf(r) : q \in Id /\ rows[q] \in RowRecord
  BY DEF GroupOf, Live, CalendarInv
<1>2. s[1] \in Int /\ s[2] \in Int
  BY DEF Interval
<1>3. \A q \in Id \ GroupOf(r) : rows'[q] = rows[q]
  BY <1>1 DEF WriteDraft, EditedRows
<1>4. ASSUME NEW q \in GroupOf(r)
      PROVE  /\ rows'[q] \in RowRecord /\ rows'[q].detail = d
             /\ rows'[q].group = rows[q].group /\ rows'[q].kind = rows[q].kind
             /\ rows'[q].slot = Written(rows[q].slot, slot)
             /\ rows'[q].first = s[1] /\ rows'[q].last = s[2]
  <2> DEFINE e1 == [rows[q] EXCEPT !.first = s[1]]
             e2 == [e1 EXCEPT !.last = s[2]]
             e3 == [e2 EXCEPT !.detail = d]
             e4 == [e3 EXCEPT !.slot = Written(@, slot)]
  <2>1. rows'[q] = e4
    BY <1>1 DEF WriteDraft, EditedRows
  <2>2. /\ e1 \in RowRecord /\ e1.group = rows[q].group /\ e1.kind = rows[q].kind
        /\ e1.slot = rows[q].slot /\ e1.first = s[1]
    BY <1>1, <1>2 DEF RowRecord
  <2> HIDE DEF e1
  <2>3. /\ e2 \in RowRecord /\ e2.group = rows[q].group /\ e2.kind = rows[q].kind
        /\ e2.slot = rows[q].slot /\ e2.first = s[1] /\ e2.last = s[2]
    BY <1>2, <2>2 DEF RowRecord
  <2> HIDE DEF e2
  <2>4. /\ e3 \in RowRecord /\ e3.group = rows[q].group /\ e3.kind = rows[q].kind
        /\ e3.slot = rows[q].slot /\ e3.first = s[1] /\ e3.last = s[2] /\ e3.detail = d
    BY <2>3 DEF RowRecord
  <2> HIDE DEF e3
  <2>5. /\ e4 \in RowRecord /\ e4.group = rows[q].group /\ e4.kind = rows[q].kind
        /\ e4.slot = Written(rows[q].slot, slot)
        /\ e4.first = s[1] /\ e4.last = s[2] /\ e4.detail = d
    BY <2>4 DEF RowRecord, Written
  <2> HIDE DEF e4
  <2> QED
    BY <2>1, <2>5
<1>5. rows' \in RowTable
  <2>1. \A q \in Id : rows'[q] \in RowRecord \cup {NoRow}
    BY <1>3, <1>4 DEF CalendarInv
  <2> QED
    BY <2>1 DEF WriteDraft, RowTable
<1> QED
  BY <1>3, <1>4, <1>5

LEMMA DraftKeepsInv ==
  ASSUME CalendarInv, NEW r \in Live, NEW s \in Interval, NEW slot \in Slot, NEW d \in Detail,
         WriteDraft(r, s, slot, d), lastId' = lastId, dialog' \in DialogRecord
  PROVE  CalendarInv'
<1>1. /\ rows' \in RowTable
      /\ \A q \in Id : rows'[q] # NoRow =>
           rows[q] # NoRow /\ rows'[q].group = rows[q].group /\ rows'[q].kind = rows[q].kind
  BY DraftEffect DEF GroupOf, Live
<1>2. ASSUME NEW p \in Id, NEW q \in Id, rows'[p] # NoRow, rows'[q] # NoRow,
             rows[p].group = rows[q].group
      PROVE  rows'[p].slot = rows'[q].slot /\ rows'[p].detail = rows'[q].detail
  <2>1. p \in Live /\ q \in Live /\ (p \in GroupOf(r) <=> q \in GroupOf(r))
    BY <1>1, <1>2 DEF Live, GroupOf
  <2>2. rows[p].slot = rows[q].slot /\ rows[p].detail = rows[q].detail
    BY <1>2, <2>1 DEF CalendarInv, GroupsUniform
  <2> QED
    BY <2>1, <2>2, DraftEffect
<1> QED
  BY <1>1, <1>2, RewriteKeepsInv

LEMMA DatesEffect ==
  ASSUME CalendarInv, NEW r \in Live, NEW s \in Interval, EditDates(r, s)
  PROVE  /\ rows' \in RowTable
         /\ \A q \in Id \ {r} : rows'[q] = rows[q]
         /\ rows'[r].group = rows[r].group /\ rows'[r].kind = rows[r].kind
         /\ rows'[r].slot = rows[r].slot /\ rows'[r].detail = rows[r].detail
         /\ rows'[r].key = rows[r].key
<1>1. r \in Id /\ rows[r] \in RowRecord /\ s[1] \in Int /\ s[2] \in Int
  BY DEF Live, CalendarInv, Interval
<1> DEFINE e1 == [rows[r] EXCEPT !.first = s[1]]
           e2 == [e1 EXCEPT !.last = s[2]]
<1>2. rows' = [rows EXCEPT ![r] = e2]
  BY <1>1 DEF EditDates, CalendarInv
<1>3. /\ e1 \in RowRecord /\ e1.group = rows[r].group /\ e1.kind = rows[r].kind
      /\ e1.slot = rows[r].slot /\ e1.detail = rows[r].detail /\ e1.key = rows[r].key
  BY <1>1 DEF RowRecord
<1> HIDE DEF e1
<1>4. /\ e2 \in RowRecord /\ e2.group = rows[r].group /\ e2.kind = rows[r].kind
      /\ e2.slot = rows[r].slot /\ e2.detail = rows[r].detail /\ e2.key = rows[r].key
  BY <1>1, <1>3 DEF RowRecord
<1> HIDE DEF e2
<1> QED
  BY <1>1, <1>2, <1>4 DEF CalendarInv, RowTable

LEMMA DatesKeepInv ==
  ASSUME CalendarInv, NEW r \in Live, NEW s \in Interval, EditDates(r, s),
         lastId' = lastId, dialog' \in DialogRecord
  PROVE  CalendarInv'
<1>1. \A q \in Id : rows'[q] # NoRow =>
        /\ rows[q] # NoRow
        /\ rows'[q].group = rows[q].group /\ rows'[q].kind = rows[q].kind
        /\ rows'[q].slot = rows[q].slot /\ rows'[q].detail = rows[q].detail
  BY DatesEffect DEF Live
<1>2. rows' \in RowTable
  BY DatesEffect
<1>3. \A p, q \in Id :
        rows'[p] # NoRow /\ rows'[q] # NoRow /\ rows[p].group = rows[q].group =>
          rows'[p].slot = rows'[q].slot /\ rows'[p].detail = rows'[q].detail
  BY <1>1 DEF CalendarInv, GroupsUniform, Live
<1> QED
  BY <1>1, <1>2, <1>3, RewriteKeepsInv

LEMMA DeleteKeepsInv ==
  ASSUME CalendarInv, NEW r \in Live, DeleteGroup(r), lastId' = lastId, dialog' \in DialogRecord
  PROVE  CalendarInv'
<1>1. \A q \in Id : rows'[q] = rows[q] \/ rows'[q] = NoRow
  BY DEF DeleteGroup
<1>2. rows' \in RowTable
  BY DEF DeleteGroup, RowTable, CalendarInv
<1>3. \A p, q \in Id :
        rows'[p] # NoRow /\ rows'[q] # NoRow /\ rows[p].group = rows[q].group =>
          rows'[p].slot = rows'[q].slot /\ rows'[p].detail = rows'[q].detail
  BY <1>1 DEF CalendarInv, GroupsUniform, Live
<1> QED
  BY <1>1, <1>2, <1>3, RewriteKeepsInv

(* The fields of the dialogue that its handlers set. *)
LEMMA DialogChange ==
  ASSUME NEW e \in DialogRecord, NEW step \in Step, NEW t \in Text \cup {NoText},
         NEW tour \in 0..MaxRows
  PROVE  /\ [e EXCEPT !.step = step] \in DialogRecord
         /\ [e EXCEPT !.step = step, !.text = t] \in DialogRecord
         /\ [e EXCEPT !.step = step, !.complete = TRUE] \in DialogRecord
         /\ [e EXCEPT !.step = step, !.tour = tour] \in DialogRecord
<1> DEFINE f == [e EXCEPT !.step = step]
<1>1. f \in DialogRecord
  BY DEF DialogRecord
<1> HIDE DEF f
<1>2. /\ [f EXCEPT !.text = t] \in DialogRecord
      /\ [f EXCEPT !.complete = TRUE] \in DialogRecord
      /\ [f EXCEPT !.tour = tour] \in DialogRecord
  BY <1>1 DEF DialogRecord
<1> QED
  BY <1>1, <1>2 DEF f

LEMMA DialogStarts ==
  /\ NoDialog \in DialogRecord
  /\ \A t \in Text : [NoDialog EXCEPT !.step = "details", !.text = t] \in DialogRecord
  /\ dialog \in DialogRecord => \A step \in Step : At(step) \in DialogRecord
<1>1. NoTour \in 0..MaxRows
  BY IdsAreNumbers DEF NoTour
<1>2. NoDialog \in DialogRecord
  BY <1>1 DEF NoDialog, DialogRecord, Step
<1>3. ASSUME dialog \in DialogRecord, NEW step \in Step
      PROVE  At(step) \in DialogRecord
  BY <1>1, <1>3, DialogChange DEF At
<1>4. ASSUME NEW t \in Text
      PROVE  [NoDialog EXCEPT !.step = "details", !.text = t] \in DialogRecord
  <2>1. "details" \in Step
    BY DEF Step
  <2> QED
    BY <1>2, <2>1 DEF DialogRecord
<1> QED
  BY <1>2, <1>3, <1>4

LEMMA SaveTourKeepsInv ==
  ASSUME CalendarInv, NEW kind \in Kind, SaveTour(dialog.text, kind)
  PROVE  CalendarInv'
<1>1. dialog.text \in Seq(Interval)
  <2>1. dialog.text \in Text \cup {NoText}
    BY DEF CalendarInv, DialogRecord
  <2>2. Text \subseteq Seq(Interval)
    BY CalendarAssumption DEF CalendarAssumption
  <2>3. NoText \in Seq(Interval)
    BY DEF NoText
  <2> QED
    BY <2>1, <2>2, <2>3
<1>2. FullDay \in Slot /\ NoKey \in Key \cup {NoKey}
  BY CalendarAssumption DEF CalendarAssumption
<1>3. CASE /\ \E d \in Detail : CreateTours(dialog.text, kind, FullDay, d, NoKey)
           /\ dialog' = NoDialog
  BY <1>1, <1>2, <1>3, CreateKeepsInv, DialogStarts
<1>4. ASSUME NEW n \in 0..(Len(dialog.text) - 1), NEW d \in Detail,
             CreateTours(SubSeq(dialog.text, 1, n), kind, FullDay, d, NoKey), dialog' = dialog
      PROVE  CalendarInv'
  <2>1. SubSeq(dialog.text, 1, n) \in Seq(Interval)
    BY <1>1
  <2>2. dialog' \in DialogRecord
    BY <1>4 DEF CalendarInv
  <2> QED
    BY <1>2, <1>4, <2>1, <2>2, CreateKeepsInv
<1> QED
  BY <1>3, <1>4 DEF SaveTour

(* The table as it was. *)
LEMMA RowsKeptInv ==
  ASSUME CalendarInv, UNCHANGED <<rows, lastId>>, dialog' \in DialogRecord
  PROVE  CalendarInv'
BY DEF CalendarInv, GroupsUniform, Live

LEMMA DialogKeepsInv ==
  ASSUME CalendarInv, DialogNext
  PROVE  CalendarInv'
<1>0. dialog \in DialogRecord /\ NoText \in Text \cup {NoText} /\ 0 \in 0..MaxRows
  BY CalendarAssumption DEF CalendarAssumption, CalendarInv
<1>1. CASE AddTourStart
  BY <1>0, <1>1, RowsKeptInv, DialogStarts DEF AddTourStart, Step
<1>2. ASSUME NEW t \in Text, AddTourDate(t)
      PROVE  CalendarInv'
  <2>1. dialog' \in DialogRecord
    BY <1>0, <1>2, DialogChange DEF AddTourDate, Step
  <2> QED
    BY <1>2, <2>1, RowsKeptInv DEF AddTourDate
<1>3. ASSUME NEW t \in Text, CreateTourFromDay(t)
      PROVE  CalendarInv'
  BY <1>3, RowsKeptInv, DialogStarts DEF CreateTourFromDay
<1>4. CASE AddTourDetails
  <2>1. dialog' \in DialogRecord
    BY <1>0, <1>4, DialogChange DEF AddTourDetails, Step
  <2> QED
    BY <1>4, <2>1, RowsKeptInv DEF AddTourDetails
<1>5. CASE SaveDayOff
  BY <1>5, SaveTourKeepsInv DEF SaveDayOff, Kind
<1>6. CASE AddTourIncome
  <2>1. CASE SaveTour(dialog.text, "tour")
    BY <2>1, SaveTourKeepsInv DEF Kind
  <2>2. CASE UNCHANGED <<rows, lastId>> /\ dialog' = At("prompt")
    BY <1>0, <2>2, RowsKeptInv, DialogStarts DEF Step
  <2> QED
    BY <1>6, <2>1, <2>2 DEF AddTourIncome
<1>7. CASE ConfirmConflictSave
  BY <1>7, SaveTourKeepsInv DEF ConfirmConflictSave, Kind
<1>8. CASE CancelConflictSave \/ CancelAddTour \/ KeepCurrent
  BY <1>8, RowsKeptInv, DialogStarts DEF CancelConflictSave, CancelAddTour, KeepCurrent
<1>9. CASE ViewConflictDates
  BY <1>0, <1>9, RowsKeptInv DEF ViewConflictDates
<1>10. ASSUME NEW r \in Id, NEW step \in {"edit dates", "edit details"}, StartEdit(r, step)
       PROVE  CalendarInv'
  <2>0. r \in 0..MaxRows
    BY IdsAreNumbers
  <2>1. step \in Step
    BY DEF Step
  <2>2. dialog' \in DialogRecord
    BY <1>0, <1>10, <2>0, <2>1, DialogChange DEF StartEdit
  <2> QED
    BY <1>10, <2>2, RowsKeptInv DEF StartEdit
<1>11. ASSUME NEW t \in Text, ProcessEditDates(t)
       PROVE  CalendarInv'
  <2>0. t \in Seq(Interval) /\ Len(t) = 1
    BY <1>11, CalendarAssumption DEF CalendarAssumption, ProcessEditDates
  <2>1. t[1] \in Interval
    BY <2>0
  <2> QED
    BY <1>11, <2>1, DatesKeepInv, DialogStarts DEF ProcessEditDates, Own
<1>12. ASSUME NEW d \in Detail, ProcessEditDetails(d)
       PROVE  CalendarInv'
  BY <1>12, EditDetailsKeepsInv, RowsKeptInv, DialogStarts DEF ProcessEditDetails, Own
<1>13. ASSUME NEW r \in Id, NEW d \in Detail, SetTourStatus(r, d)
       PROVE  CalendarInv'
  BY <1>0, <1>13, EditDetailsKeepsInv DEF SetTourStatus, Own
<1>14. ASSUME NEW r \in Id, BotDeletesTour(r)
       PROVE  CalendarInv'
  BY <1>0, <1>14, DeleteKeepsInv DEF BotDeletesTour, Own
<1> QED
  BY <1>1, <1>2, <1>3, <1>4, <1>5, <1>6, <1>7, <1>8, <1>9, <1>10, <1>11, <1>12, <1>13, <1>14
  DEF DialogNext

LEMMA RequestsKeepInv ==
  ASSUME CalendarInv, NEW k \in Key \cup {NoKey}, dialog' = dialog
  PROVE  /\ \A s \in Span, d \in Detail, slot \in Slot :
              /\ CreateTour(k, s, slot, d) => CalendarInv'
              /\ \A r \in Id : UpdateEntry(k, r, s, slot, d) => CalendarInv'
              /\ CreateDayOff(k, s, d) => CalendarInv'
         /\ \A r \in Id, s \in Span : CopyEntry(k, r, s) => CalendarInv'
         /\ \A r \in Id, d \in Detail : PatchDayLocations(k, r, d) => CalendarInv'
         /\ \A r \in Id : DeleteEntry(k, r) => CalendarInv'
<1>0. dialog' \in DialogRecord /\ FullDay \in Slot
  BY CalendarAssumption DEF CalendarAssumption, CalendarInv
<1>1. \A s \in Span : s \in Interval /\ <<s>> \in Seq(Interval)
  BY CalendarAssumption DEF CalendarAssumption
<1>2. ASSUME NEW s \in Span, NEW kind \in {"tour", "day off"}, NEW slot \in Slot, NEW d \in Detail,
             CreateEntry(s, kind, slot, d, k)
      PROVE  CalendarInv'
  BY <1>0, <1>1, <1>2, CreateKeepsInv DEF CreateEntry, Kind
<1>3. CASE Unchanged
  BY <1>0, <1>3, RowsKeptInv DEF Unchanged
<1>4. ASSUME NEW s \in Span, NEW d \in Detail, NEW slot \in Slot
      PROVE  CreateTour(k, s, slot, d) => CalendarInv'
  BY <1>2, <1>3 DEF CreateTour
<1>5. ASSUME NEW s \in Span, NEW d \in Detail
      PROVE  CreateDayOff(k, s, d) => CalendarInv'
  BY <1>0, <1>2, <1>3 DEF CreateDayOff, CreateDayOffEntry
<1>6. ASSUME NEW s \in Span, NEW d \in Detail, NEW slot \in Slot, NEW r \in Id,
             UpdateEntry(k, r, s, slot, d)
      PROVE  CalendarInv'
  <2>1. lastId' = lastId /\ ((WriteDraft(r, s, slot, d) /\ r \in Live) \/ rows' = rows)
    BY <1>6 DEF UpdateEntry, Own
  <2> QED
    BY <1>0, <1>1, <2>1, DraftKeepsInv, RowsKeptInv
<1>7. ASSUME NEW r \in Id, NEW s \in Span, CopyEntry(k, r, s)
      PROVE  CalendarInv'
  <2>1. CASE r \in Live /\ CopyOf(r, s, k)
    <3>1. Entry(r).slot \in Slot
      BY <2>1, EntryTyped
    <3> QED
      BY <1>2, <2>1, <3>1 DEF CopyOf
  <2> QED
    BY <1>3, <1>7, <2>1 DEF CopyEntry
<1>8. ASSUME NEW r \in Id, NEW d \in Detail, PatchDayLocations(k, r, d)
      PROVE  CalendarInv'
  BY <1>0, <1>8, EditDetailsKeepsInv, RowsKeptInv DEF PatchDayLocations, Own
<1>9. ASSUME NEW r \in Id, DeleteEntry(k, r)
      PROVE  CalendarInv'
  BY <1>0, <1>9, DeleteKeepsInv, RowsKeptInv DEF DeleteEntry, Own
<1> QED
  BY <1>4, <1>5, <1>6, <1>7, <1>8, <1>9

LEMMA NextCalendarInv == CalendarInv /\ [CalendarNext \/ Restart]_calendarVars => CalendarInv'
<1> SUFFICES ASSUME CalendarInv, [CalendarNext \/ Restart]_calendarVars
             PROVE  CalendarInv'
  OBVIOUS
<1>1. CASE DialogNext
  BY <1>1, DialogKeepsInv
<1>2. CASE RequestNext
  <2>1. dialog' = dialog
    BY <1>2 DEF RequestNext, Request, CreateTour, UpdateEntry, CreateDayOff, CopyEntry,
       PatchDayLocations, DeleteEntry
  <2>2. PICK k \in Key \cup {NoKey} :
          \/ \E s \in Span, d \in Detail :
               \/ \E slot \in Slot : \/ CreateTour(k, s, slot, d)
                                   \/ \E r \in Id : UpdateEntry(k, r, s, slot, d)
               \/ CreateDayOff(k, s, d)
          \/ \E r \in Id, s \in Span : CopyEntry(k, r, s)
          \/ \E r \in Id, d \in Detail : PatchDayLocations(k, r, d)
          \/ \E r \in Id : DeleteEntry(k, r)
    BY <1>2 DEF RequestNext
  <2>3. CASE \E s \in Span, d \in Detail :
               \/ \E slot \in Slot : \/ CreateTour(k, s, slot, d)
                                   \/ \E r \in Id : UpdateEntry(k, r, s, slot, d)
               \/ CreateDayOff(k, s, d)
    <3>1. \A s \in Span, d \in Detail, slot \in Slot :
            /\ CreateTour(k, s, slot, d) => CalendarInv'
            /\ \A r \in Id : UpdateEntry(k, r, s, slot, d) => CalendarInv'
            /\ CreateDayOff(k, s, d) => CalendarInv'
      BY <2>1, RequestsKeepInv
    <3>2. FullDay \in Slot
      BY CalendarAssumption DEF CalendarAssumption
    <3> QED
      BY <2>3, <3>1, <3>2, Zenon
  <2>4. CASE \E r \in Id, s \in Span : CopyEntry(k, r, s)
    BY <2>1, <2>4, RequestsKeepInv, Zenon
  <2>5. CASE \E r \in Id, d \in Detail : PatchDayLocations(k, r, d)
    BY <2>1, <2>5, RequestsKeepInv, Zenon
  <2>6. CASE \E r \in Id : DeleteEntry(k, r)
    BY <2>1, <2>6, RequestsKeepInv, Zenon
  <2> QED
    BY <2>2, <2>3, <2>4, <2>5, <2>6
<1>3. ASSUME NEW s \in Span, OperatorBooks(s)
      PROVE  CalendarInv'
  <2>1. <<s>> \in Seq(Interval) /\ FullDay \in Slot
    BY CalendarAssumption DEF CalendarAssumption
  <2>2. dialog' \in DialogRecord /\ NoKey \in Key \cup {NoKey} /\ "operator" \in Kind
    BY <1>3 DEF OperatorBooks, CalendarInv, Kind
  <2> QED
    BY <1>3, <2>1, <2>2, CreateKeepsInv DEF OperatorBooks
<1>4. ASSUME NEW r \in Id, OperatorReleases(r)
      PROVE  CalendarInv'
  <2>1. r \in Live /\ lastId' = lastId /\ dialog' \in DialogRecord
    BY <1>4 DEF OperatorReleases, CalendarInv
  <2> QED
    BY <1>4, <2>1, DeleteKeepsInv DEF OperatorReleases
<1>5. CASE Restart
  BY <1>5, RowsKeptInv, DialogStarts DEF Restart
<1>6. CASE UNCHANGED calendarVars
  BY <1>6, RowsKeptInv DEF calendarVars, CalendarInv
<1> QED
  BY <1>1, <1>2, <1>3, <1>4, <1>5, <1>6 DEF CalendarNext, OperatorNext

LEMMA InitCalendarInv == CalendarInit => CalendarInv
<1>1. NoDialog \in DialogRecord
  BY DialogStarts
<1> QED
  BY <1>1, IdsAreNumbers DEF CalendarInit, CalendarInv, Live, GroupsUniform

(* All rows of a group agree, whichever row of it was opened for an edit   *)
(* (edit_tour_*, update_tour_entry, update_day_locations).                 *)
THEOREM GroupsStayUniform == CalendarSpec => []GroupsUniform
<1>1. CalendarInv => GroupsUniform
  BY DEF CalendarInv
<1> QED
  BY <1>1, InitCalendarInv, NextCalendarInv, PTL DEF CalendarSpec

(* A range reported free has no row an acceptance would meet               *)
(* (get_day_availability against _calendar_conflicts).                     *)
THEOREM FreeStaysOfferable == CalendarSpec => []FreeIsOfferable
<1>1. ASSUME CalendarInv, NEW s \in Asked, Availability(s) = "free",
             NEW r \in InRange(Probe(s, "tour", FullDay)), ~(rows[r].first > rows[r].last)
      PROVE  FALSE
  <2> DEFINE p == Probe(s, "tour", FullDay)
             E == EntriesIn(p)
             day == IF rows[r].first > s[1] THEN rows[r].first ELSE s[1]
  <2>1. s[1] \in Int /\ s[2] \in Int /\ s[1] <= s[2]
    BY <1>1, CalendarAssumption DEF CalendarAssumption, Asked
  <2>2. p.first = s[1] /\ p.last = s[2]
    BY DEF Probe
  <2>3. r \in Live /\ rows[r] \in RowRecord /\ rows[r].first <= s[2] /\ rows[r].last >= s[1]
    BY <1>1, <2>2 DEF InRange, Live, CalendarInv
  <2>4. /\ day \in Int /\ s[1] <= day /\ day <= s[2]
        /\ rows[r].first <= day /\ day <= rows[r].last
    BY <1>1, <2>1, <2>3 DEF RowRecord
  <2> HIDE DEF day
  <2>5. Shared(p, rows[r]) # {}
    BY <2>2, <2>3, <2>4, <2>1 DEF Shared, RowRecord
  <2>6. PICK e \in SameDays(p, {}) : /\ e.first <= rows[r].first /\ rows[r].last <= e.last
                                     /\ e.first \in Int /\ e.last \in Int
    <3> HIDE DEF p
    <3> QED
      BY <1>1, <2>1, <2>2, <2>3, <2>5, Noticed
  <2>7. e \in E /\ On(e, day)
    BY <2>3, <2>4, <2>6 DEF SameDays, On, RowRecord
  <2> HIDE DEF E
  <2>8. DayAvailability(E, day) # "free"
    BY <2>7 DEF DayAvailability
  <2>9. Availability(s) # "free"
    <3> DEFINE told == {DayAvailability(E, d) : d \in s[1]..s[2]}
    <3>1. told # {"free"}
      BY <2>1, <2>4, <2>8
    <3>2. Availability(s) = RangeAvailability(told)
      BY DEF Availability, E
    <3> HIDE DEF told
    <3> QED
      BY <3>1, <3>2 DEF RangeAvailability
  <2> QED
    BY <1>1, <2>9
<1>2. CalendarInv => FreeIsOfferable
  BY <1>1 DEF FreeIsOfferable
<1> QED
  BY <1>2, InitCalendarInv, NextCalendarInv, PTL DEF CalendarSpec
----------------------------------------------------------------------------
(* What a write meets. *)

(* No row shares both a day and times with a row that is about to be. *)
Clear(s, kind, slot) ==
  \A b \in Live :
    TimesOverlap(Probe(s, kind, slot), rows[b]) => Shared(Probe(s, kind, slot), rows[b]) = {}

(* What is permitted by the entries is clear of the rows. *)
LEMMA PermittedIsClear ==
  ASSUME CalendarInv, NEW s \in Interval, NEW kind, NEW slot, NEW own,
         Permitted(Probe(s, kind, slot), own), NEW b \in Live, rows[b].group \notin own,
         TimesOverlap(Probe(s, kind, slot), rows[b])
  PROVE  Shared(Probe(s, kind, slot), rows[b]) = {}
<1> DEFINE p == Probe(s, kind, slot)
<1>1. p.first \in Int /\ p.last \in Int
  BY DEF Probe, Interval
<1> HIDE DEF p
<1>2. ASSUME Shared(p, rows[b]) # {}
      PROVE  FALSE
  <2>1. PICK e \in SameDays(p, own) : e.kind = rows[b].kind /\ e.slot = rows[b].slot
    BY <1>1, <1>2, Noticed
  <2>2. ~TimesOverlap(p, e) /\ TimesOverlap(p, rows[b])
    BY <2>1 DEF Permitted, p
  <2> QED
    BY <2>1, <2>2 DEF TimesOverlap, IsFull
<1> QED
  BY <1>2 DEF p

(* A range the dialogue found no conflicting date in. *)
LEMMA DatesFreeAreClear ==
  ASSUME NEW t, ConflictingDates(t) = {}, NEW n \in DOMAIN t, NEW kind, NEW slot
  PROVE  Clear(t[n], kind, slot)
<1> SUFFICES ASSUME NEW b \in Live
             PROVE  Shared(Probe(t[n], kind, slot), rows[b]) = {}
  BY DEF Clear
<1> DEFINE both == (t[n][1]..t[n][2]) \cap (rows[b].first..rows[b].last)
<1>1. both \in {(t[i][1]..t[i][2]) \cap (rows[r].first..rows[r].last) : i \in DOMAIN t, r \in Live}
  OBVIOUS
<1>2. Shared(Probe(t[n], kind, slot), rows[b]) = both
  BY DEF Shared, Probe
<1> HIDE DEF both
<1>3. both \subseteq ConflictingDates(t)
  BY <1>1 DEF ConflictingDates
<1> QED
  BY <1>2, <1>3

(* A range without any row. *)
LEMMA EmptyRangeIsClear ==
  ASSUME CalendarInv, NEW s \in Interval, InRange(Probe(s, "tour", FullDay)) = {},
         NEW kind, NEW slot
  PROVE  Clear(s, kind, slot)
<1> SUFFICES ASSUME NEW b \in Live PROVE Shared(Probe(s, kind, slot), rows[b]) = {}
  BY DEF Clear
<1>1. rows[b].first \in Int /\ rows[b].last \in Int /\ s[1] \in Int /\ s[2] \in Int
  BY DEF Live, CalendarInv, RowRecord, Interval
<1>2. ~(rows[b].first <= s[2] /\ rows[b].last >= s[1])
  BY DEF InRange, Probe
<1> QED
  BY <1>1, <1>2 DEF Shared, Probe

(* Rows made where it is clear; with a key, by a request for a range whose *)
(* answer is stored or lost in the step.                                   *)
CreatesClear ==
  \E spans \in Seq(Interval), kind \in Kind, slot \in Slot, d \in Detail, key \in Key \cup {NoKey} :
    /\ CreateTours(spans, kind, slot, d, key)
    /\ \A n \in DOMAIN spans : Clear(spans[n], kind, slot)
    /\ key # NoKey => Fresh(key) /\ Answer(key) /\ \A n \in DOMAIN spans : spans[n][1] <= spans[n][2]

(* A change of a tour or day off the Mini App has checked like a tour. *)
ChangesChecked ==
  \E r \in Live, s \in Span, slot \in Slot, d \in Detail :
    /\ Own(r) /\ Permitted(Probe(s, "tour", slot), {rows[r].group}) /\ WriteDraft(r, s, slot, d)
    /\ \E k \in Key \cup {NoKey} : UpdateEntry(k, r, s, slot, d)

KeepsPlaces == \E r \in Live : DeleteGroup(r) \/ \E d \in Detail : EditDetails(r, d)

LEMMA IncomeSaves ==
  ASSUME CalendarInv, ConflictingDates(dialog.text) = {}, SaveTour(dialog.text, "tour")
  PROVE  CreatesClear
<1> DEFINE t == dialog.text
<1>1. t \in Seq(Interval)
  <2>1. t \in Text \cup {NoText}
    BY DEF CalendarInv, DialogRecord
  <2>2. Text \subseteq Seq(Interval)
    BY CalendarAssumption DEF CalendarAssumption
  <2>3. NoText \in Seq(Interval)
    BY DEF NoText
  <2> QED
    BY <2>1, <2>2, <2>3
<1>2. FullDay \in Slot /\ NoKey \in Key \cup {NoKey} /\ "tour" \in Kind
  BY CalendarAssumption DEF CalendarAssumption, Kind
<1>3. \A n \in DOMAIN t : Clear(t[n], "tour", FullDay)
  BY DatesFreeAreClear
<1>4. (\E d \in Detail : CreateTours(t, "tour", FullDay, d, NoKey))
      \/ (\E n \in 0..(Len(t) - 1), d \in Detail :
            CreateTours(SubSeq(t, 1, n), "tour", FullDay, d, NoKey))
  BY DEF SaveTour
<1> HIDE DEF t
<1>5. ASSUME NEW n \in 0..(Len(t) - 1)
      PROVE  /\ SubSeq(t, 1, n) \in Seq(Interval)
             /\ \A i \in DOMAIN SubSeq(t, 1, n) : Clear(SubSeq(t, 1, n)[i], "tour", FullDay)
  <2>1. SubSeq(t, 1, n) \in Seq(Interval)
    BY <1>1
  <2>2. ASSUME NEW i \in DOMAIN SubSeq(t, 1, n)
        PROVE  i \in DOMAIN t /\ SubSeq(t, 1, n)[i] = t[i]
    BY <1>1, <2>2
  <2> QED
    BY <1>3, <2>1, <2>2
<1> QED
  BY <1>1, <1>2, <1>3, <1>4, <1>5 DEF CreatesClear

(* Each step that writes is of one of these kinds. *)
LEMMA StepsThatWrite ==
  ASSUME CalendarInv, CalendarNext \/ Restart
  PROVE  \/ SaveDayOff \/ ConfirmConflictSave
         \/ \E t \in Text : ProcessEditDates(t)
         \/ CreatesClear
         \/ ChangesChecked
         \/ KeepsPlaces
         \/ rows' = rows
<1>0. FullDay \in Slot /\ NoKey \in Key \cup {NoKey} /\ {"tour", "day off", "operator"} \subseteq Kind
  BY CalendarAssumption DEF CalendarAssumption, Kind
<1>1. \A s \in Span : /\ s \in Interval /\ s[1] <= s[2] /\ <<s>> \in Seq(Interval)
                      /\ DOMAIN <<s>> = {1} /\ <<s>>[1] = s
  BY CalendarAssumption DEF CalendarAssumption
<1>2. ASSUME NEW s \in Span, NEW kind \in Kind, NEW slot \in Slot, NEW d \in Detail,
             NEW key \in Key \cup {NoKey}, CreateTours(<<s>>, kind, slot, d, key),
             Clear(s, kind, slot), key # NoKey => Fresh(key) /\ Answer(key)
      PROVE  CreatesClear
  <2> DEFINE spans == <<s>>
  <2>1. /\ spans \in Seq(Interval) /\ CreateTours(spans, kind, slot, d, key)
        /\ \A n \in DOMAIN spans : Clear(spans[n], kind, slot) /\ spans[n][1] <= spans[n][2]
    BY <1>1, <1>2
  <2> HIDE DEF spans
  <2> QED
    BY <1>2, <2>1 DEF CreatesClear
<1>3. CASE DialogNext
  <2>1. CASE AddTourIncome
    BY <2>1, IncomeSaves DEF AddTourIncome
  <2>2. ASSUME NEW d \in Detail, ProcessEditDetails(d)
        PROVE  KeepsPlaces \/ rows' = rows
    BY <2>2 DEF ProcessEditDetails, KeepsPlaces, Own
  <2>3. ASSUME NEW r \in Id, NEW d \in Detail, SetTourStatus(r, d)
        PROVE  KeepsPlaces
    BY <2>3 DEF SetTourStatus, KeepsPlaces, Own
  <2>4. ASSUME NEW r \in Id, BotDeletesTour(r)
        PROVE  KeepsPlaces
    BY <2>4 DEF BotDeletesTour, KeepsPlaces, Own
  <2>5. ASSUME NEW t \in Text, AddTourDate(t) \/ CreateTourFromDay(t)
        PROVE  rows' = rows
    BY <2>5 DEF AddTourDate, CreateTourFromDay
  <2>6. ASSUME NEW r \in Id, NEW step, StartEdit(r, step)
        PROVE  rows' = rows
    BY <2>6 DEF StartEdit
  <2>7. CASE \/ AddTourStart \/ AddTourDetails \/ CancelConflictSave \/ ViewConflictDates
             \/ CancelAddTour \/ KeepCurrent
    BY <2>7 DEF AddTourStart, AddTourDetails, CancelConflictSave, ViewConflictDates,
                CancelAddTour, KeepCurrent
  <2> QED
    BY <1>3, <2>1, <2>2, <2>3, <2>4, <2>5, <2>6, <2>7 DEF DialogNext
<1>4. CASE RequestNext
  <2>1. PICK k \in Key \cup {NoKey} :
          \/ \E s \in Span, d \in Detail :
               \/ \E slot \in Slot : \/ CreateTour(k, s, slot, d)
                                   \/ \E r \in Id : UpdateEntry(k, r, s, slot, d)
               \/ CreateDayOff(k, s, d)
          \/ \E r \in Id, s \in Span : CopyEntry(k, r, s)
          \/ \E r \in Id, d \in Detail : PatchDayLocations(k, r, d)
          \/ \E r \in Id : DeleteEntry(k, r)
    BY <1>4 DEF RequestNext
  <2>2. ASSUME NEW s \in Span, NEW kind \in Kind, NEW slot \in Slot, NEW d \in Detail,
               Request(k), Permitted(Probe(s, kind, slot), {}), CreateEntry(s, kind, slot, d, k)
        PROVE  CreatesClear
    <3>1. Clear(s, kind, slot)
      BY <1>1, <2>2, PermittedIsClear DEF Clear
    <3> QED
      BY <1>2, <2>2, <3>1 DEF CreateEntry, Request
  <2>3. ASSUME NEW s \in Span, NEW slot \in Slot, NEW d \in Detail, CreateTour(k, s, slot, d)
        PROVE  CreatesClear \/ rows' = rows
    BY <1>0, <2>2, <2>3 DEF CreateTour, Unchanged
  <2>4. ASSUME NEW s \in Span, NEW d \in Detail, CreateDayOff(k, s, d)
        PROVE  CreatesClear \/ rows' = rows
    BY <1>0, <2>2, <2>4 DEF CreateDayOff, CreateDayOffEntry, Unchanged
  <2>5. ASSUME NEW s \in Span, NEW d \in Detail, NEW slot \in Slot, NEW r \in Id,
               UpdateEntry(k, r, s, slot, d)
        PROVE  ChangesChecked \/ rows' = rows
    <3>1. \/ rows' = rows
          \/ /\ Own(r) /\ Permitted(Probe(s, "tour", slot), {rows[r].group})
             /\ WriteDraft(r, s, slot, d)
      BY <2>5 DEF UpdateEntry
    <3>2. \E l \in Key \cup {NoKey} : UpdateEntry(l, r, s, slot, d)
      BY <2>5
    <3> HIDE DEF UpdateEntry, WriteDraft, Permitted
    <3> QED
      BY <3>1, <3>2 DEF ChangesChecked, Own
  <2>6. ASSUME NEW r \in Id, NEW s \in Span, CopyEntry(k, r, s)
        PROVE  CreatesClear \/ rows' = rows
    <3>1. CASE /\ Request(k) /\ r \in Live /\ CopyOf(r, s, k)
               /\ Permitted(Probe(s, "tour", Entry(r).slot), {})
      <4>1. Entry(r).slot \in Slot
        BY <3>1, EntryTyped
      <4> QED
        BY <1>0, <2>2, <3>1, <4>1 DEF CopyOf
    <3> QED
      BY <2>6, <3>1 DEF CopyEntry, Unchanged
  <2>7. ASSUME NEW r \in Id, NEW d \in Detail, PatchDayLocations(k, r, d)
        PROVE  KeepsPlaces \/ rows' = rows
    BY <2>7 DEF PatchDayLocations, KeepsPlaces, Own
  <2>8. ASSUME NEW r \in Id, DeleteEntry(k, r)
        PROVE  KeepsPlaces \/ rows' = rows
    BY <2>8 DEF DeleteEntry, KeepsPlaces, Own
  <2> QED
    BY <2>1, <2>3, <2>4, <2>5, <2>6, <2>7, <2>8
<1>5. ASSUME NEW s \in Span, OperatorBooks(s)
      PROVE  CreatesClear
  <2>1. PICK d \in Detail : CreateTours(<<s>>, "operator", FullDay, d, NoKey)
    BY <1>5 DEF OperatorBooks
  <2>2. Clear(s, "operator", FullDay)
    BY <1>1, <1>5, EmptyRangeIsClear DEF OperatorBooks
  <2> QED
    BY <1>0, <1>2, <2>1, <2>2
<1>6. ASSUME NEW r \in Id, OperatorReleases(r)
      PROVE  KeepsPlaces
  BY <1>6 DEF OperatorReleases, KeepsPlaces
<1>7. CASE Restart
  BY <1>7 DEF Restart
<1> QED
  BY <1>3, <1>4, <1>5, <1>6, <1>7 DEF CalendarNext, OperatorNext
LEMMA ProbeIsTyped ==
  ASSUME NEW s \in Interval, NEW kind, NEW slot
  PROVE  /\ Probe(s, kind, slot).first = s[1] /\ Probe(s, kind, slot).last = s[2]
         /\ Probe(s, kind, slot).kind = kind /\ Probe(s, kind, slot).slot = slot
         /\ s[1] \in Int /\ s[2] \in Int
BY DEF Probe, Interval

(* A clash is one whichever row comes first. *)
LEMMA ClashIsMutual ==
  ASSUME NEW R, NEW a, NEW b
  PROVE  Clash(R, a, b) <=> Clash(R, b, a)
<1>1. TimesOverlap(R[a], R[b]) <=> TimesOverlap(R[b], R[a])
  BY DEF TimesOverlap
<1>2. Shared(R[a], R[b]) = Shared(R[b], R[a])
  BY DEF Shared
<1> QED
  BY <1>1, <1>2 DEF Clash

(* A row made where it is clear clashes with none. *)
LEMMA CreatesClearNoClash ==
  ASSUME CalendarInv, CreatesClear, NEW a \in Id, NEW b \in Id
  PROVE  ~NewClash(a, b)
<1>1. PICK spans \in Seq(Interval), kind \in Kind, slot \in Slot, d \in Detail,
           key \in Key \cup {NoKey} :
        /\ CreateTours(spans, kind, slot, d, key)
        /\ \A n \in DOMAIN spans : Clear(spans[n], kind, slot)
  BY DEF CreatesClear
<1> DEFINE Made(r) == \E n \in DOMAIN spans : rows'[r] = Row(lastId + 1, spans[n], kind, slot, d, key)
<1>2. \A r \in Id : rows'[r] = rows[r] \/ Made(r)
  BY <1>1, CreateEffect
<1>3. ASSUME NEW p \in Id, NEW q \in Id, Made(p), rows'[q] = rows[q], Clash(rows', p, q)
      PROVE  FALSE
  <2>1. PICK n \in DOMAIN spans : rows'[p] = Row(lastId + 1, spans[n], kind, slot, d, key)
    BY <1>3
  <2> DEFINE new == Probe(spans[n], kind, slot)
  <2>2. /\ rows'[p].first = new.first /\ rows'[p].last = new.last
        /\ rows'[p].kind = new.kind /\ rows'[p].slot = new.slot
    BY <2>1 DEF Row, Probe
  <2> HIDE DEF new
  <2>3. q \in Live /\ TimesOverlap(new, rows[q]) /\ Shared(new, rows[q]) # {}
    BY <1>3, <2>2 DEF Clash, TimesOverlap, IsFull, Shared, Live
  <2>4. Clear(spans[n], kind, slot)
    BY <1>1
  <2> QED
    BY <2>3, <2>4 DEF Clear, new
<1>4. ASSUME Made(a), Made(b)
      PROVE  rows'[a].group = rows'[b].group
  BY <1>4 DEF Row
<1> HIDE DEF Made
<1> QED
  BY <1>2, <1>3, <1>4, ClashIsMutual DEF NewClash, Clash

(* A change that is permitted brings a clash to a day off only. *)
LEMMA ChangesCheckedClash ==
  ASSUME CalendarInv, ChangesChecked, NEW a \in Id, NEW b \in Id, NewClash(a, b)
  PROVE  \E q \in {a, b} : rows[q] # NoRow /\ rows[q].kind = "day off" /\ EntryChanged(q)
<1>1. PICK r \in Live, s \in Span, slot \in Slot, d \in Detail :
        /\ Own(r) /\ Permitted(Probe(s, "tour", slot), {rows[r].group}) /\ WriteDraft(r, s, slot, d)
        /\ \E k \in Key \cup {NoKey} : UpdateEntry(k, r, s, slot, d)
  BY DEF ChangesChecked
<1>0. ASSUME NEW q \in GroupOf(r)
      PROVE  EntryChanged(q)
  <2>1. r \in GroupOf(q)
    BY <1>0 DEF GroupOf
  <2> QED
    BY <1>1, <2>1 DEF EntryChanged
<1>2. s \in Interval
  BY CalendarAssumption DEF CalendarAssumption
<1>3. /\ \A q \in Id \ GroupOf(r) : rows'[q] = rows[q]
      /\ \A q \in GroupOf(r) :
           /\ rows'[q] \in RowRecord
           /\ rows'[q].group = rows[q].group /\ rows'[q].kind = rows[q].kind
           /\ rows'[q].slot = Written(rows[q].slot, slot)
           /\ rows'[q].first = s[1] /\ rows'[q].last = s[2]
  BY <1>1, <1>2, DraftEffect
<1>4. ASSUME NEW p \in GroupOf(r), NEW q \in Id \ GroupOf(r), Clash(rows', p, q)
      PROVE  rows[p].kind = "day off"
  <2>1. q \in Live /\ rows'[q] = rows[q] /\ rows[q].group \notin {rows[r].group}
    BY <1>3, <1>4 DEF Clash, GroupOf, Live
  <2>2. rows[p].kind = rows[r].kind /\ rows[p] \in RowRecord
    BY <1>1 DEF GroupOf, CalendarInv, GroupsUniform, Live
  <2>3. rows[p].kind \in {"tour", "day off"}
    BY <1>1, <2>2 DEF Own, RowRecord, Kind
  <2>4. CASE rows[p].kind = "tour"
    <3> DEFINE new == Probe(s, "tour", slot)
    <3>1. /\ new.first = rows'[p].first /\ new.last = rows'[p].last
          /\ new.kind = rows'[p].kind /\ new.slot = slot
      BY <1>2, <1>3, <2>4, ProbeIsTyped
    <3>2. rows'[p].slot = slot \/ slot = FullDay
      BY <1>3 DEF Written
    <3> HIDE DEF new
    <3>3. TimesOverlap(new, rows[q]) /\ Shared(new, rows[q]) # {}
      BY <1>4, <2>1, <3>1, <3>2 DEF Clash, TimesOverlap, IsFull, Shared
    <3>4. Shared(new, rows[q]) = {}
      BY <1>1, <1>2, <2>1, <3>3, PermittedIsClear DEF new
    <3> QED
      BY <3>3, <3>4
  <2> QED
    BY <2>3, <2>4
<1>5. CASE a \in GroupOf(r) /\ b \notin GroupOf(r)
  <2>1. Clash(rows', a, b) /\ rows'[b] = rows[b] /\ ~Clash(rows, a, b)
    BY <1>3, <1>5 DEF NewClash
  <2>2. rows[a].kind = "day off" /\ rows[a] # NoRow
    BY <1>4, <1>5, <2>1 DEF GroupOf, Live
  <2> QED
    BY <1>0, <1>5, <2>2
<1>6. CASE b \in GroupOf(r) /\ a \notin GroupOf(r)
  <2>1. Clash(rows', b, a) /\ rows'[a] = rows[a] /\ ~Clash(rows, b, a)
    BY <1>3, <1>6, ClashIsMutual DEF NewClash
  <2>2. rows[b].kind = "day off" /\ rows[b] # NoRow
    BY <1>4, <1>6, <2>1 DEF GroupOf, Live
  <2> QED
    BY <1>0, <1>6, <2>2
<1>7. CASE a \in GroupOf(r) /\ b \in GroupOf(r)
  BY <1>3, <1>7 DEF NewClash, Clash, GroupOf
<1>8. CASE a \notin GroupOf(r) /\ b \notin GroupOf(r)
  BY <1>3, <1>8 DEF NewClash, Clash
<1> QED
  BY <1>5, <1>6, <1>7, <1>8

(* Neither does a deletion or a change of details. *)
LEMMA KeepsPlacesNoClash ==
  ASSUME CalendarInv, KeepsPlaces, NEW a \in Id, NEW b \in Id
  PROVE  ~NewClash(a, b)
<1>1. \A q \in {a, b} :
        \/ rows'[q] = NoRow
        \/ rows'[q] = rows[q]
        \/ /\ rows[q] # NoRow
           /\ rows'[q].group = rows[q].group /\ rows'[q].kind = rows[q].kind
           /\ rows'[q].slot = rows[q].slot
           /\ rows'[q].first = rows[q].first /\ rows'[q].last = rows[q].last
  <2>1. PICK r \in Live : DeleteGroup(r) \/ \E d \in Detail : EditDetails(r, d)
    BY DEF KeepsPlaces
  <2>2. CASE DeleteGroup(r)
    BY <2>2 DEF DeleteGroup
  <2>3. ASSUME NEW d \in Detail, EditDetails(r, d), NEW q \in {a, b}
        PROVE  \/ rows'[q] = rows[q]
               \/ /\ rows[q] # NoRow
                  /\ rows'[q].group = rows[q].group /\ rows'[q].kind = rows[q].kind
                  /\ rows'[q].slot = rows[q].slot
                  /\ rows'[q].first = rows[q].first /\ rows'[q].last = rows[q].last
    BY <2>3, EditDetailsEffect DEF GroupOf, Live
  <2> QED
    BY <2>1, <2>2, <2>3
<1> QED
  BY <1>1 DEF NewClash, Clash, TimesOverlap, IsFull, Shared

(* An entry becomes a double booking only by a prompt's button, "day off"  *)
(* or new dates in the bot, or a day off changed through the Mini App      *)
(* (check_entry_conflicts, get_conflicting_dates).                         *)
THEOREM DoubleBookingIsTheGuides == CalendarSpec => DoubleBookedOnlyByGuide
<1> DEFINE Guide(a, b) == \/ ConfirmConflictSave
                          \/ SaveDayOff
                          \/ dialog.tour \in {a, b} /\ \E t \in Text : ProcessEditDates(t)
                          \/ \E r \in {a, b} :
                               rows[r] # NoRow /\ rows[r].kind = "day off" /\ EntryChanged(r)
<1>1. ASSUME CalendarInv, CalendarNext \/ Restart, NEW a \in Id, NEW b \in Id, NewClash(a, b)
      PROVE  Guide(a, b)
  <2>1. CASE \E t \in Text : ProcessEditDates(t)
    <3>1. PICK t \in Text : ProcessEditDates(t)
      BY <2>1
    <3>2. dialog.tour \in {a, b}
      <4> SUFFICES ASSUME dialog.tour \notin {a, b} PROVE FALSE
        OBVIOUS
      <4>1. rows'[a] = rows[a] /\ rows'[b] = rows[b]
        BY <1>1, <3>1 DEF ProcessEditDates, EditDates, CalendarInv
      <4> QED
        BY <1>1, <4>1 DEF NewClash, Clash
    <3> QED
      BY <3>1, <3>2
  <2>2. CASE SaveDayOff \/ ConfirmConflictSave
    BY <2>2
  <2>3. CASE CreatesClear
    BY <1>1, <2>3, CreatesClearNoClash
  <2>4. CASE ChangesChecked
    BY <1>1, <2>4, ChangesCheckedClash
  <2>5. CASE KeepsPlaces
    BY <1>1, <2>5, KeepsPlacesNoClash
  <2>6. CASE rows' = rows
    BY <1>1, <2>6 DEF NewClash
  <2> HIDE DEF Guide
  <2> QED
    BY <1>1, <2>1, <2>2, <2>3, <2>4, <2>5, <2>6, StepsThatWrite
<1>2. CalendarInv /\ [CalendarNext \/ Restart]_calendarVars
        => [\A a, b \in Id : NewClash(a, b) => Guide(a, b)]_calendarVars
  BY <1>1
<1> QED
  BY <1>2, InitCalendarInv, NextCalendarInv, PTL DEF CalendarSpec, DoubleBookedOnlyByGuide

(* The row of a request has its answer stored, unless a fault came between. *)
KeyedInv ==
  /\ CalendarInv
  /\ faults \in Nat
  /\ \A r \in Live : rows[r].key \in answered \cup {NoKey} \/ faults > 0

(* Answers stay stored, and faults are only counted up. *)
LEMMA AnswersStay ==
  ASSUME faults \in Nat, [CalendarNext \/ Restart]_calendarVars
  PROVE  answered \subseteq answered' /\ faults' \in Nat /\ faults <= faults'
<1> DEFINE Stay == answered \subseteq answered' /\ faults' \in Nat /\ faults <= faults'
<1> SUFFICES Stay
  OBVIOUS
<1>1. ASSUME NEW k \in Key \cup {NoKey}, Request(k)
      PROVE  Stay
  BY <1>1 DEF Request, Answer, Fault
<1>2. ASSUME NEW kind \in Kind, SaveTour(dialog.text, kind), UNCHANGED answered
      PROVE  Stay
  BY <1>2 DEF SaveTour, Fault
<1>3. CASE UNCHANGED <<answered, faults>>
  BY <1>3
<1> HIDE DEF Stay
<1>4. CASE DialogNext
  <2>1. CASE SaveDayOff \/ ConfirmConflictSave
    BY <1>2, <2>1 DEF SaveDayOff, ConfirmConflictSave, Kind
  <2>2. CASE AddTourIncome
    <3>1. CASE SaveTour(dialog.text, "tour")
      BY <1>2, <2>2, <3>1 DEF AddTourIncome, Kind
    <3>2. CASE UNCHANGED <<answered, faults>>
      BY <1>3, <3>2
    <3> QED
      BY <2>2, <3>1, <3>2 DEF AddTourIncome
  <2>3. CASE \/ AddTourStart \/ AddTourDetails \/ CancelConflictSave \/ ViewConflictDates
             \/ CancelAddTour \/ KeepCurrent
             \/ \E t \in Text : AddTourDate(t) \/ CreateTourFromDay(t) \/ ProcessEditDates(t)
             \/ \E r \in Id, step \in {"edit dates", "edit details"} : StartEdit(r, step)
             \/ \E d \in Detail : ProcessEditDetails(d)
             \/ \E r \in Id, d \in Detail : SetTourStatus(r, d)
             \/ \E r \in Id : BotDeletesTour(r)
    <3>1. UNCHANGED <<answered, faults>>
      BY <2>3
      DEF AddTourStart, AddTourDate, CreateTourFromDay, AddTourDetails, CancelConflictSave,
          ViewConflictDates, CancelAddTour, StartEdit, ProcessEditDates, ProcessEditDetails,
          KeepCurrent, SetTourStatus, BotDeletesTour
    <3> QED
      BY <1>3, <3>1
  <2> QED
    BY <1>4, <2>1, <2>2, <2>3 DEF DialogNext
<1>5. CASE RequestNext
  <2>1. \E k \in Key \cup {NoKey} : Request(k)
    <3>1. PICK k \in Key \cup {NoKey} :
            \/ \E s \in Span, d \in Detail :
                 \/ \E slot \in Slot : \/ CreateTour(k, s, slot, d)
                                     \/ \E r \in Id : UpdateEntry(k, r, s, slot, d)
                 \/ CreateDayOff(k, s, d)
            \/ \E r \in Id, s \in Span : CopyEntry(k, r, s)
            \/ \E r \in Id, d \in Detail : PatchDayLocations(k, r, d)
            \/ \E r \in Id : DeleteEntry(k, r)
      BY <1>5 DEF RequestNext
    <3>2. Request(k)
      BY <3>1
      DEF CreateTour, UpdateEntry, CreateDayOff, CopyEntry, PatchDayLocations, DeleteEntry
    <3> QED
      BY <3>2
  <2> QED
    BY <1>1, <2>1
<1>6. CASE OperatorNext
  BY <1>3, <1>6 DEF OperatorNext, OperatorBooks, OperatorReleases
<1>7. CASE Restart
  BY <1>7 DEF Restart, Fault, Stay
<1>8. CASE UNCHANGED calendarVars
  BY <1>3, <1>8 DEF calendarVars
<1> QED
  BY <1>4, <1>5, <1>6, <1>7, <1>8 DEF CalendarNext, Stay

(* A row keeps its key, and gets one from a request only. *)
LEMMA KeysStay ==
  ASSUME CalendarInv, CalendarNext \/ Restart, NEW r \in Live'
  PROVE  \/ r \in Live /\ rows'[r].key = rows[r].key
         \/ rows'[r].key = NoKey
         \/ rows[r] = NoRow /\ Fresh(rows'[r].key) /\ Answer(rows'[r].key)
<1>0. r \in Id /\ rows'[r] # NoRow /\ (rows[r] = NoRow \/ rows[r] \in RowRecord)
  BY DEF Live, CalendarInv
<1>1. CASE CreatesClear
  <2>1. PICK spans \in Seq(Interval), kind \in Kind, slot \in Slot, d \in Detail,
             key \in Key \cup {NoKey} :
          /\ CreateTours(spans, kind, slot, d, key)
          /\ key # NoKey => Fresh(key) /\ Answer(key)
    BY <1>1 DEF CreatesClear
  <2>2. CASE rows'[r] = rows[r]
    BY <1>0, <2>2 DEF Live
  <2>3. CASE rows[r] = NoRow /\ \E n \in DOMAIN spans :
                rows'[r] = Row(lastId + 1, spans[n], kind, slot, d, key)
    <3>1. rows'[r].key = key
      BY <2>3 DEF Row
    <3> QED
      BY <2>1, <2>3, <3>1
  <2> QED
    BY <1>0, <2>1, <2>2, <2>3, CreateEffect
<1>2. CASE SaveDayOff \/ ConfirmConflictSave
  <2>1. PICK spans, kind, d : CreateTours(spans, kind, FullDay, d, NoKey)
    BY <1>2 DEF SaveDayOff, ConfirmConflictSave, SaveTour
  <2> QED
    BY <1>0, <2>1 DEF CreateTours, Row, Live
<1>3. CASE \E t \in Text : ProcessEditDates(t)
  <2>1. PICK t \in Text : ProcessEditDates(t)
    BY <1>3
  <2>2. t \in Seq(Interval) /\ Len(t) = 1
    BY <2>1, CalendarAssumption DEF CalendarAssumption, ProcessEditDates
  <2>3. t[1] \in Interval
    BY <2>2
  <2>4. dialog.tour \in Live /\ EditDates(dialog.tour, t[1])
    BY <2>1 DEF ProcessEditDates, Own
  <2>5. /\ \A q \in Id \ {dialog.tour} : rows'[q] = rows[q]
        /\ rows'[dialog.tour].key = rows[dialog.tour].key
    BY <2>3, <2>4, DatesEffect
  <2> QED
    BY <1>0, <2>4, <2>5 DEF Live
<1>4. CASE ChangesChecked
  BY <1>0, <1>4 DEF ChangesChecked, WriteDraft, EditedRows, GroupOf, Live, RowRecord
<1>5. CASE KeepsPlaces
  BY <1>0, <1>5 DEF KeepsPlaces, DeleteGroup, EditDetails, EditedRows, GroupOf, Live, RowRecord
<1>6. CASE rows' = rows
  BY <1>0, <1>6 DEF Live
<1> QED
  BY <1>1, <1>2, <1>3, <1>4, <1>5, <1>6, StepsThatWrite

LEMMA NextKeyedInv == KeyedInv /\ [CalendarNext \/ Restart]_calendarVars => KeyedInv'
<1> SUFFICES ASSUME KeyedInv, [CalendarNext \/ Restart]_calendarVars
             PROVE  KeyedInv'
  OBVIOUS
<1>1. /\ CalendarInv'
      /\ answered \subseteq answered' /\ faults' \in Nat /\ faults <= faults'
  BY NextCalendarInv, AnswersStay DEF KeyedInv
<1>2. ASSUME NEW r \in Live'
      PROVE  rows'[r].key \in answered' \cup {NoKey} \/ faults' > 0
  <2>1. CASE r \in Live /\ rows'[r].key = rows[r].key
    BY <1>1, <2>1 DEF KeyedInv
  <2>2. CASE Answer(rows'[r].key)
    BY <1>1, <2>2 DEF Answer, Fault, KeyedInv
  <2>3. CASE rows'[r].key = NoKey
    BY <2>3
  <2>4. CASE UNCHANGED calendarVars
    BY <1>1, <1>2, <2>4 DEF calendarVars, Live, KeyedInv
  <2> QED
    BY <1>2, <2>1, <2>2, <2>3, <2>4, KeysStay DEF KeyedInv
<1> QED
  BY <1>1, <1>2 DEF KeyedInv

LEMMA InitKeyedInv == CalendarInit => KeyedInv
BY InitCalendarInv DEF CalendarInit, KeyedInv, Live

(* A request makes a second row beside its first only after its answer was *)
(* lost, and never with the dates and times the first row has (_idempotent *)
(* and check_entry_conflicts).                                             *)
THEOREM RetriesMeetTheFirst == CalendarSpec => KeyedOnce
<1> DEFINE Twice(r, s) == /\ rows[r] # NoRow /\ rows[s] = NoRow /\ rows'[s] # NoRow
                          /\ rows[r].key # NoKey /\ rows'[s].key = rows[r].key
<1>1. ASSUME KeyedInv, CalendarNext \/ Restart, NEW r \in Id, NEW s \in Id, Twice(r, s)
      PROVE  faults > 0
  <2>1. Fresh(rows'[s].key)
    BY <1>1, KeysStay DEF Live, KeyedInv
  <2> QED
    BY <1>1, <2>1 DEF Fresh, KeyedInv, Live
<1>2. ASSUME CalendarInv, CalendarNext \/ Restart, NEW r \in Id, NEW s \in Id, Twice(r, s),
             Times(rows[r]) = Times(rows'[s])
      PROVE  FALSE
  <2>1. CASE CreatesClear
    <3>1. PICK spans \in Seq(Interval), kind \in Kind, slot \in Slot, d \in Detail,
               key \in Key \cup {NoKey} :
            /\ CreateTours(spans, kind, slot, d, key)
            /\ \A n \in DOMAIN spans : Clear(spans[n], kind, slot)
            /\ key # NoKey => \A n \in DOMAIN spans : spans[n][1] <= spans[n][2]
      BY <2>1 DEF CreatesClear
    <3>2. PICK n \in DOMAIN spans : rows'[s] = Row(lastId + 1, spans[n], kind, slot, d, key)
      BY <1>2, <3>1, CreateEffect
    <3> DEFINE span == spans[n]
               new == Probe(span, kind, slot)
    <3>3. key # NoKey /\ Times(rows[r]) = <<span[1], span[2], slot>>
      BY <1>2, <3>2 DEF Row, Times
    <3>4. span \in Interval /\ span[1] <= span[2]
      BY <3>1, <3>3
    <3>5. rows[r].first = span[1] /\ rows[r].last = span[2] /\ rows[r].slot = slot
      BY <3>3 DEF Times
    <3>6. new.first = span[1] /\ new.last = span[2] /\ new.slot = slot
          /\ span[1] \in Int /\ span[2] \in Int
      BY <3>4, ProbeIsTyped
    <3>7. r \in Live /\ Clear(span, kind, slot)
      BY <1>2, <3>1 DEF Live
    <3> HIDE DEF new, span
    <3>8. TimesOverlap(new, rows[r]) /\ span[1] \in Shared(new, rows[r])
      BY <3>4, <3>5, <3>6 DEF TimesOverlap, Shared
    <3> QED
      BY <3>7, <3>8 DEF Clear, new
  <2>2. CASE SaveDayOff \/ ConfirmConflictSave
    <3>1. PICK spans, kind, d : CreateTours(spans, kind, FullDay, d, NoKey)
      BY <2>2 DEF SaveDayOff, ConfirmConflictSave, SaveTour
    <3>2. rows'[s].key = NoKey
      BY <1>2, <3>1 DEF CreateTours, Row
    <3> QED
      BY <1>2, <3>2
  <2>3. CASE \E t \in Text : ProcessEditDates(t)
    <3>1. PICK t \in Text : ProcessEditDates(t)
      BY <2>3
    <3>2. s # dialog.tour
      BY <1>2, <3>1 DEF ProcessEditDates, Own, Live
    <3>3. rows'[s] = rows[s]
      BY <3>1, <3>2, <1>2 DEF ProcessEditDates, EditDates, CalendarInv
    <3> QED
      BY <1>2, <3>3
  <2>4. CASE ChangesChecked
    BY <1>2, <2>4 DEF ChangesChecked, WriteDraft, EditedRows, GroupOf, Live
  <2>5. CASE KeepsPlaces
    BY <1>2, <2>5 DEF KeepsPlaces, DeleteGroup, EditDetails, EditedRows, GroupOf, Live
  <2>6. CASE rows' = rows
    BY <1>2, <2>6
  <2> HIDE DEF Twice
  <2> QED
    BY <1>2, <2>1, <2>2, <2>3, <2>4, <2>5, <2>6, StepsThatWrite
<1>3. KeyedInv /\ [CalendarNext \/ Restart]_calendarVars
        => [\A r, s \in Id :
              /\ rows[r] # NoRow /\ rows[s] = NoRow /\ rows'[s] # NoRow
              /\ rows[r].key # NoKey /\ rows'[s].key = rows[r].key
              => faults > 0 /\ Times(rows[r]) # Times(rows'[s])]_calendarVars
  BY <1>1, <1>2 DEF KeyedInv
<1> QED
  BY <1>3, InitKeyedInv, NextKeyedInv, PTL DEF CalendarSpec, KeyedOnce

----------------------------------------------------------------------------
(* The reminders. *)

(* A row still to be sent in a round, or of a day no round has told yet,   *)
(* has been heard of only in rounds that left a doubt.                     *)
HeardInv ==
  /\ marked \in BOOLEAN /\ telling \in BOOLEAN
  /\ heard \in [Id -> Nat] /\ doubts \in Nat /\ resets \in Nat
  /\ telling => ~marked
  /\ \A r \in Id :
       /\ heard[r] <= 1 + doubts + resets
       /\ ~marked /\ (~telling \/ r \in unsent) => heard[r] <= doubts + resets

LEMMA NextHeardInv == HeardInv /\ [RemindersNext]_remindedVars => HeardInv'
<1> SUFFICES ASSUME HeardInv, [RemindersNext]_remindedVars
             PROVE  HeardInv'
  OBVIOUS
<1>1. CASE UNCHANGED reminderVars
  BY <1>1 DEF HeardInv, reminderVars
<1>2. CASE StartRound
  BY <1>2 DEF StartRound, HeardInv
<1>3. ASSUME NEW r \in Id, Send(r)
      PROVE  HeardInv'
  <2>1. heard' \in [Id -> Nat] /\ heard'[r] = heard[r] + 1 /\ \A q \in Id \ {r} : heard'[q] = heard[q]
    BY <1>3 DEF Send, HeardInv
  <2> QED
    BY <1>3, <2>1 DEF Send, Unsent, HeardInv
<1>0. /\ doubts \in Nat /\ resets \in Nat /\ heard \in [Id -> Nat]
      /\ \A q \in Id : heard[q] \in Nat /\ heard[q] <= 1 + doubts + resets
  BY DEF HeardInv
<1>4. ASSUME heard' \in [Id -> Nat], doubts' \in Nat, resets' \in Nat,
             marked' \in BOOLEAN, telling' \in BOOLEAN, telling' => ~marked',
             \A q \in Id : heard'[q] <= doubts' + resets'
      PROVE  HeardInv'
  BY <1>4 DEF HeardInv
<1>5. CASE MarkDay
  BY <1>5 DEF MarkDay, EndRound, HeardInv
<1>6. ASSUME NEW r \in Id, SendFails(r)
      PROVE  HeardInv'
  <2>1. /\ doubts' = doubts + 1 /\ resets' = resets
        /\ heard' = heard \/ heard' = [heard EXCEPT ![r] = @ + 1]
        /\ heard[r] <= doubts + resets
    BY <1>6 DEF SendFails, HeardInv
  <2>2. /\ heard' \in [Id -> Nat]
        /\ \A q \in Id : heard'[q] <= doubts' + resets'
        /\ doubts' \in Nat /\ resets' \in Nat
    BY <1>0, <2>1
  <2>3. marked' \in BOOLEAN /\ telling' = FALSE
    BY <1>6 DEF SendFails, EndRound, HeardInv
  <2>4. telling' \in BOOLEAN /\ marked' \in BOOLEAN /\ (telling' => ~marked')
    BY <2>3, Zenon
  <2> QED
    BY <1>4, <2>2, <2>4, Zenon
<1>7. CASE MarkFails
  <2>1. doubts' = doubts + 1 /\ resets' = resets /\ heard' = heard
    BY <1>7 DEF MarkFails
  <2>2. /\ heard' \in [Id -> Nat]
        /\ \A q \in Id : heard'[q] <= doubts' + resets'
        /\ doubts' \in Nat /\ resets' \in Nat
    BY <1>0, <2>1
  <2>3. marked' \in BOOLEAN /\ telling' = FALSE
    BY <1>7 DEF MarkFails, EndRound, HeardInv
  <2>4. telling' \in BOOLEAN /\ marked' \in BOOLEAN /\ (telling' => ~marked')
    BY <2>3, Zenon
  <2> QED
    BY <1>4, <2>2, <2>4, Zenon
<1>8. CASE SetNotificationTime
  <2>1. doubts' = doubts /\ resets' = resets + 1 /\ heard' = heard
    BY <1>8 DEF SetNotificationTime
  <2>2. /\ heard' \in [Id -> Nat]
        /\ \A q \in Id : heard'[q] <= doubts' + resets'
        /\ doubts' \in Nat /\ resets' \in Nat
    BY <1>0, <2>1
  <2>3. marked' = FALSE /\ telling' \in BOOLEAN
    BY <1>8 DEF SetNotificationTime, HeardInv
  <2>4. telling' \in BOOLEAN /\ marked' \in BOOLEAN /\ (telling' => ~marked')
    BY <2>3, Zenon
  <2> QED
    BY <1>4, <2>2, <2>4, Zenon
<1>9. CASE RestartAll
  <2>0. marked' = marked /\ resets' = resets /\ heard' = heard /\ telling' = FALSE
    BY <1>9 DEF RestartAll, EndRound
  <2>1. CASE telling
    <3>1. doubts' = doubts + 1
      BY <1>9, <2>1 DEF RestartAll
    <3>2. /\ heard' \in [Id -> Nat]
          /\ \A q \in Id : heard'[q] <= doubts' + resets'
          /\ doubts' \in Nat /\ resets' \in Nat
      BY <1>0, <2>0, <3>1
    <3>3. marked' \in BOOLEAN
      BY <2>0 DEF HeardInv
    <3>4. telling' \in BOOLEAN /\ (telling' => ~marked')
      BY <2>0, Zenon
    <3> QED
      BY <1>4, <3>2, <3>3, <3>4, Zenon
  <2>2. CASE ~telling
    <3>1. doubts' = doubts
      BY <1>9, <2>2 DEF RestartAll
    <3> QED
      BY <2>0, <2>2, <3>1 DEF HeardInv
  <2> QED
    BY <2>1, <2>2
<1> QED
  BY <1>1, <1>2, <1>3, <1>4, <1>5, <1>6, <1>7, <1>8, <1>9 DEF RemindersNext, Loop, remindedVars

(* The guide hears of an entry again only after a round that ended         *)
(* unmarked or a new reminder time (send_tour_reminders).                  *)
THEOREM NoReminderTwice == RemindersSafe => []RemindedAgainOnlyInDoubt
<1>1. ASSUME RemindersInit
      PROVE  HeardInv
  <2>1. heard \in [Id -> Nat] /\ \A r \in Id : heard[r] = 0
    BY <1>1 DEF RemindersInit
  <2>2. doubts = 0 /\ resets = 0 /\ marked = FALSE /\ telling = FALSE
    BY <1>1 DEF RemindersInit
  <2>3. marked \in BOOLEAN /\ telling \in BOOLEAN /\ (telling => ~marked)
    BY <2>2, Zenon
  <2>4. \A r \in Id : heard[r] <= doubts + resets /\ heard[r] <= 1 + doubts + resets
    BY <2>1, <2>2
  <2>5. doubts \in Nat /\ resets \in Nat
    BY <2>2
  <2> QED
    BY <2>1, <2>3, <2>4, <2>5, Zenon DEF HeardInv
<1>2. HeardInv => RemindedAgainOnlyInDoubt
  BY DEF HeardInv, RemindedAgainOnlyInDoubt
<1> QED
  BY <1>1, <1>2, NextHeardInv, PTL DEF RemindersSafe
=============================================================================
