-------------------------- MODULE PersonalCalendar --------------------------
(***************************************************************************)
(* The personal side of one guide's calendar: the rows of tours that the   *)
(* bot's dialogues (handlers/add_tour.py, tour_edits.py, tour_cards.py)    *)
(* and the Mini App's entry routes (web_api/routes/entries.py) write       *)
(* through services/tour_service.py.                                       *)
(*                                                                         *)
(* Bot and Mini App API share one process and one event loop, so what a    *)
(* handler does between two awaits is one step; but each row, and the      *)
(* stored answer of a keyed request, is committed by itself, and the step  *)
(* may end in an exception between two commits.  A crash is such an end    *)
(* followed by Restart.                                                    *)
(*                                                                         *)
(* Days are numbers.  A date message is what parse_date_input makes of it: *)
(* a sequence of intervals.  It completes each day with the next year in   *)
(* which it is not past, so "1-3/06" sent on June 2 starts a year after it *)
(* ends: an interval may be inverted.  Company, city, status, income,      *)
(* payment, note and day locations are one value, the details of a row.    *)
(***************************************************************************)
EXTENDS Integers, Sequences, FiniteSets

CONSTANTS Text,        \* date messages, each a sequence of intervals
          Span,        \* date ranges the Mini App sends, as the API validates them
          Slot,        \* times of a draft: FullDay, or a window disjoint from the others
          Detail,      \* company, city, status, income, payment, note and day locations
          Day,         \* days an operator may ask about
          Key,         \* endpoints with a value of the Idempotency-Key header
          NoRow,       \* what an id without a row stands for
          MaxRows,     \* bound: rows ever written
          MaxPrompts,  \* bound: conflict prompts whose buttons are still in the chat
          MaxFaults    \* bound: exceptions and restarts

VARIABLES rows,        \* tours, by id
          lastId,      \* the AUTOINCREMENT counter of tours
          dialog,      \* state and data of the add-tour dialogue, in memory
          prompts,     \* conflict prompts left in the chat
          answered,    \* keys in miniapp_idempotency
          faults       \* exceptions and restarts so far

calendarVars == <<rows, lastId, dialog, prompts, answered, faults>>

FullDay == "full day"
NoKey == "no key"
NoText == << >>
NoTour == 0
Id == 1..MaxRows

(* A day without its year: the next one that is not past. *)
Resolved(d, today, year) == IF d >= today THEN d ELSE d + year

(* A range of one month, each of whose days finds its year alone. *)
Parsed(from, to, today, year) == <<Resolved(from, today, year), Resolved(to, today, year)>>

Interval == Int \X Int

ASSUME CalendarAssumption ==
  /\ Text \subseteq Seq(Interval) \ {NoText}
  /\ Span \subseteq Interval /\ \A s \in Span : s[1] <= s[2]
  /\ FullDay \in Slot
  /\ Day \subseteq Int
  /\ NoKey \notin Key
  /\ MaxRows \in Nat /\ MaxPrompts \in Nat /\ MaxFaults \in Nat

(* A row as it is stored.  key is history: the keyed request it was        *)
(* created by.                                                             *)
Row(g, s, kind, slot, detail, key) ==
  [group |-> g, first |-> s[1], last |-> s[2], kind |-> kind, slot |-> slot,
   detail |-> detail, key |-> key]

(* complete: company, city and status have been given.  tour: the row whose *)
(* new dates or details the next message is.                               *)
NoDialog == [step |-> "none", text |-> NoText, complete |-> FALSE, tour |-> NoTour]
At(step) == [dialog EXCEPT !.step = step, !.tour = NoTour]

CalendarInit ==
  /\ rows = [r \in Id |-> NoRow]
  /\ lastId = 0
  /\ dialog = NoDialog
  /\ prompts = 0
  /\ answered = {}
  /\ faults = 0

----------------------------------------------------------------------------
(* Reading the calendar. *)

Live == {r \in Id : rows[r] # NoRow}

(* Protected rows of operator assignments are not the guide's to change. *)
Own(r) == r \in Live /\ rows[r].kind # "operator"

GroupOf(r) == {q \in Live : rows[q].group = rows[r].group}

InRange(p) == {r \in Live : rows[r].first <= p.last /\ rows[r].last >= p.first}

(* The rows of one group are shown as one entry, which takes all but its   *)
(* dates from the first of them.                                           *)
Merged(R) ==
  LET head == CHOOSE r \in R : \A q \in R : \/ rows[r].first < rows[q].first
                                            \/ rows[r].first = rows[q].first /\ r <= q
  IN [rows[head] EXCEPT !.last = CHOOSE d \in {rows[r].last : r \in R} :
                                    \A r \in R : rows[r].last <= d]

Entries(R) == {Merged({r \in R : rows[r].group = g}) : g \in {rows[r].group : r \in R}}

(* The entries with a row in the range of p. *)
EntriesIn(p) == Entries(InRange(p))

(* The entry a row belongs to. *)
Entry(r) == Merged(GroupOf(r))

IsFull(e) == e.kind = "day off" \/ e.slot = FullDay

(* Mutant: two windows never overlap. *)
FullDaysOverlap(a, b) == IsFull(a) \/ IsFull(b)

TimesOverlap(a, b) == IsFull(a) \/ IsFull(b) \/ a.slot = b.slot

Probe(s, kind, slot) == [first |-> s[1], last |-> s[2], kind |-> kind, slot |-> slot]

(* The entries with a day of the probe, those of the edited group aside. *)
SameDays(p, own) ==
  {e \in EntriesIn(p) : e.group \notin own /\ p.first..p.last \cap e.first..e.last # {}}

(* A day off or overlapping times block.  Another entry of the day warns,  *)
(* and the request is refused unless it comes with the warning             *)
(* acknowledged; whether it does is left open.                             *)
Permitted(p, own) == \A e \in SameDays(p, own) : ~TimesOverlap(p, e)
Objected(p, own) == SameDays(p, own) # {}

(* Mutant: the calendar is not looked at. *)
NoDates(t) == {}

(* The days of a date message on which the guide has anything. *)
ConflictingDates(t) ==
  UNION {(t[i][1]..t[i][2]) \cap (rows[r].first..rows[r].last) : i \in DOMAIN t, r \in Live}

On(e, day) == e.first <= day /\ day <= e.last

(* Mutant: a day with windows only has room. *)
DayAvailabilityByFullDays(E, day) ==
  IF \E e \in E : On(e, day) /\ IsFull(e) THEN "busy" ELSE "free"

(* A day as the operator is told of it. *)
DayAvailability(E, day) ==
  LET today == {e \in E : On(e, day)}
  IN CASE today = {} -> "free"
       [] \E e \in today : IsFull(e) -> "busy"
       [] OTHER -> "partial"

(* What all days of a range have in common. *)
RangeAvailability(told) ==
  CASE told = {"free"} -> "free"
    [] told = {"busy"} -> "busy"
    [] OTHER -> "partial"

(* A range, by the entries with a row in it. *)
Availability(s) ==
  LET E == EntriesIn(Probe(s, "tour", FullDay))
  IN RangeAvailability({DayAvailability(E, day) : day \in s[1]..s[2]})

(* Ranges an operator asks about. *)
Asked == {s \in Day \X Day : s[1] <= s[2]}

----------------------------------------------------------------------------
(* Writing it. *)

(* One row for each interval, all of one new group. *)
CreateTours(spans, kind, slot, detail, key) ==
  LET new == (lastId + 1)..(lastId + Len(spans))
  IN /\ new \subseteq Id
     /\ rows' = [r \in Id |-> IF r \in new THEN Row(lastId + 1, spans[r - lastId], kind, slot, detail, key)
                                           ELSE rows[r]]
     /\ lastId' = lastId + Len(spans)

(* The Mini App's entries have one row, of a group of its own. *)
CreateEntry(s, kind, slot, d, key) == CreateTours(<<s>>, kind, slot, d, key)

CreateDayOffEntry(s, d, key) == CreateEntry(s, "day off", FullDay, d, key)

(* A copy has the times of its source, but not all of its details: day     *)
(* locations are left out.                                                 *)
CopyOf(r, s, key) == \E d \in Detail : CreateEntry(s, "tour", Entry(r).slot, d, key)

(* Mutant: an edit reaches the row that was opened alone. *)
OpenedRow(r) == {r}

(* An edit of one row is written to every row of its group. *)
EditedRows(r) == GroupOf(r)

EditDetails(r, d) ==
  rows' = [q \in Id |-> IF q \in EditedRows(r) THEN [rows[q] EXCEPT !.detail = d] ELSE rows[q]]

(* New dates are for the opened row only. *)
EditDates(r, s) == rows' = [rows EXCEPT ![r].first = s[1], ![r].last = s[2]]

DeleteGroup(r) == rows' = [q \in Id |-> IF q \in GroupOf(r) THEN NoRow ELSE rows[q]]

Fault == faults < MaxFaults /\ faults' = faults + 1

(* The dialogue's rows are committed one by one, and the dialogue is       *)
(* cleared after the last.                                                 *)
SaveTour(t, kind) ==
  \/ /\ \E d \in Detail : CreateTours(t, kind, FullDay, d, NoKey)
     /\ dialog' = NoDialog
     /\ UNCHANGED faults
  \/ \E n \in 0..(Len(t) - 1), d \in Detail :
       /\ Fault
       /\ CreateTours(SubSeq(t, 1, n), kind, FullDay, d, NoKey)
       /\ UNCHANGED dialog

----------------------------------------------------------------------------
(* The bot's dialogue. *)

(* The menu button starts over from any state and keeps the data. *)
AddTourStart ==
  /\ dialog' = At("date")
  /\ UNCHANGED <<rows, lastId, prompts, answered, faults>>

AddTourDate(t) ==
  /\ dialog.step = "date"
  /\ dialog' = [dialog EXCEPT !.step = "details", !.text = t]
  /\ UNCHANGED <<rows, lastId, prompts, answered, faults>>

(* The button of a free day: a new dialogue, the day given, whatever was   *)
(* being asked.                                                            *)
CreateTourFromDay(t) ==
  /\ Len(t) = 1
  /\ dialog' = [NoDialog EXCEPT !.step = "details", !.text = t]
  /\ UNCHANGED <<rows, lastId, prompts, answered, faults>>

(* Company, city and status, or back to the date. *)
AddTourDetails ==
  /\ \/ dialog.step = "details" /\ dialog' = [dialog EXCEPT !.step = "income", !.complete = TRUE]
     \/ dialog.step = "details" /\ dialog' = [dialog EXCEPT !.step = "date"]
     \/ dialog.step = "income" /\ dialog' = [dialog EXCEPT !.step = "details"]
  /\ UNCHANGED <<rows, lastId, prompts, answered, faults>>

(* "I have a day off" instead of a company saves without a look. *)
SaveDayOff ==
  /\ dialog.step = "details"
  /\ SaveTour(dialog.text, "day off")
  /\ UNCHANGED <<prompts, answered>>

AddTourIncome ==
  /\ dialog.step = "income"
  /\ IF ConflictingDates(dialog.text) = {}
       THEN SaveTour(dialog.text, "tour") /\ UNCHANGED prompts
       ELSE /\ prompts < MaxPrompts
            /\ prompts' = prompts + 1
            /\ dialog' = At("prompt")
            /\ UNCHANGED <<rows, lastId, faults>>
  /\ UNCHANGED answered

(* The button of a prompt saves what the dialogue holds by now, in         *)
(* whatever state it is; without its data the handler fails.               *)
ConfirmConflictSave ==
  /\ prompts > 0
  /\ dialog.text # NoText /\ dialog.complete
  /\ SaveTour(dialog.text, "tour")
  /\ prompts' = IF dialog' = NoDialog THEN prompts - 1 ELSE prompts
  /\ UNCHANGED answered

CancelConflictSave ==
  /\ prompts > 0
  /\ prompts' = prompts - 1
  /\ dialog' = NoDialog
  /\ UNCHANGED <<rows, lastId, answered, faults>>

(* Looking at the days replaces the prompt; the dialogue goes on. *)
ViewConflictDates ==
  /\ prompts > 0
  /\ prompts' = prompts - 1
  /\ UNCHANGED <<rows, lastId, dialog, answered, faults>>

(* Cancelled by message: the prompt's buttons stay in the chat. *)
CancelAddTour ==
  /\ dialog.step \in {"date", "details", "income", "prompt"}
  /\ dialog' = NoDialog
  /\ UNCHANGED <<rows, lastId, prompts, answered, faults>>

(* A card's button asks for new dates or details; what the add-tour        *)
(* dialogue holds is kept.  An operator's entry is asked about like others *)
(* and refused later.                                                      *)
StartEdit(r, step) ==
  /\ r \in Live
  /\ dialog' = [dialog EXCEPT !.step = step, !.tour = r]
  /\ UNCHANGED <<rows, lastId, prompts, answered, faults>>

(* New dates for one row, which is written before conflicts are looked up; *)
(* a refusal asks again.                                                   *)
ProcessEditDates(t) ==
  /\ dialog.step = "edit dates"
  /\ Own(dialog.tour)
  /\ Len(t) = 1
  /\ EditDates(dialog.tour, t[1])
  /\ dialog' = NoDialog
  /\ UNCHANGED <<lastId, prompts, answered, faults>>

(* A new company, city, income or note; a refusal ends the dialogue too. *)
ProcessEditDetails(d) ==
  /\ dialog.step = "edit details"
  /\ IF Own(dialog.tour) THEN EditDetails(dialog.tour, d) ELSE UNCHANGED rows
  /\ dialog' = NoDialog
  /\ UNCHANGED <<lastId, prompts, answered, faults>>

(* "Keep it": the question's button ends whatever dialogue there is. *)
KeepCurrent ==
  /\ dialog # NoDialog
  /\ dialog' = NoDialog
  /\ UNCHANGED <<rows, lastId, prompts, answered, faults>>

(* Status and payment are buttons of the card. *)
SetTourStatus(r, d) ==
  /\ Own(r)
  /\ EditDetails(r, d)
  /\ UNCHANGED <<lastId, dialog, prompts, answered, faults>>

BotDeletesTour(r) ==
  /\ Own(r)
  /\ DeleteGroup(r)
  /\ UNCHANGED <<lastId, dialog, prompts, answered, faults>>

----------------------------------------------------------------------------
(* The Mini App's requests. *)

(* A key with a stored answer gets that answer, or 409 for another body:   *)
(* no step.                                                                *)
Fresh(k) == k \notin answered

(* The answer, refusal or not, is stored after the effect, unless that     *)
(* fails.                                                                  *)
Answer(k) ==
  \/ answered' = answered \cup ({k} \ {NoKey}) /\ UNCHANGED faults
  \/ k # NoKey /\ Fault /\ UNCHANGED answered

Unchanged == UNCHANGED <<rows, lastId>>

Request(k) == Fresh(k) /\ Answer(k) /\ UNCHANGED <<dialog, prompts>>

CreateTour(k, s, slot, d) ==
  /\ Request(k)
  /\ LET p == Probe(s, "tour", slot)
     IN \/ Permitted(p, {}) /\ CreateEntry(s, "tour", slot, d, k)
        \/ Objected(p, {}) /\ Unchanged

CreateDayOff(k, s, d) ==
  /\ Request(k)
  /\ LET p == Probe(s, "day off", FullDay)
     IN \/ Permitted(p, {}) /\ CreateDayOffEntry(s, d, k)
        \/ Objected(p, {}) /\ Unchanged

(* A value the draft leaves out is not written. *)
Written(old, slot) == IF slot = FullDay THEN old ELSE slot

(* All rows of the group take the new dates.  The draft is that of a tour, *)
(* whatever the entry.                                                     *)
WriteDraft(r, s, slot, d) ==
  rows' = [q \in Id |->
    IF q \in EditedRows(r)
      THEN [rows[q] EXCEPT !.first = s[1], !.last = s[2], !.detail = d,
                           !.slot = Written(@, slot)]
      ELSE rows[q]]

UpdateEntry(k, r, s, slot, d) ==
  /\ Request(k)
  /\ LET p == Probe(s, "tour", slot)
     IN \/ Own(r) /\ Permitted(p, {rows[r].group}) /\ WriteDraft(r, s, slot, d)
        \/ r \in Live /\ Objected(p, {rows[r].group}) /\ UNCHANGED rows
        \/ ~Own(r) /\ UNCHANGED rows
  /\ UNCHANGED lastId

PatchDayLocations(k, r, d) ==
  /\ Request(k)
  /\ IF Own(r) THEN EditDetails(r, d) ELSE UNCHANGED rows
  /\ UNCHANGED lastId

DeleteEntry(k, r) ==
  /\ Request(k)
  /\ IF Own(r) THEN DeleteGroup(r) ELSE UNCHANGED rows
  /\ UNCHANGED lastId

(* The times of the source are read when the request is handled, at a      *)
(* retry anew.  A day off is not copied, and for an operator's entry,      *)
(* which has no payment, the handler fails.                                *)
CopyEntry(k, r, s) ==
  /\ r \in Live => Own(r)
  /\ Request(k)
  /\ LET p == Probe(s, "tour", Entry(r).slot)
     IN \/ r \in Live /\ Entry(r).kind = "tour" /\ Permitted(p, {}) /\ CopyOf(r, s, k)
        \/ r \in Live /\ Objected(p, {}) /\ Unchanged
        \/ (r \in Live => Entry(r).kind = "day off") /\ Unchanged

----------------------------------------------------------------------------

(* An assignment is accepted on days without any entry, and ends. *)
OperatorBooks(s) ==
  /\ InRange(Probe(s, "tour", FullDay)) = {}
  /\ \E d \in Detail : CreateTours(<<s>>, "operator", FullDay, d, NoKey)
  /\ UNCHANGED <<dialog, prompts, answered, faults>>

OperatorReleases(r) ==
  /\ r \in Live \ {q \in Id : Own(q)}
  /\ DeleteGroup(r)
  /\ UNCHANGED <<lastId, dialog, prompts, answered, faults>>

(* The process ends and starts again: dialogues are kept in memory only. *)
Restart ==
  /\ Fault
  /\ dialog' = NoDialog
  /\ UNCHANGED <<rows, lastId, prompts, answered>>

DialogNext ==
  \/ AddTourStart
  \/ \E t \in Text : AddTourDate(t) \/ CreateTourFromDay(t)
  \/ AddTourDetails
  \/ SaveDayOff
  \/ AddTourIncome
  \/ ConfirmConflictSave
  \/ CancelConflictSave
  \/ ViewConflictDates
  \/ CancelAddTour
  \/ \E r \in Id, step \in {"edit dates", "edit details"} : StartEdit(r, step)
  \/ \E t \in Text : ProcessEditDates(t)
  \/ \E d \in Detail : ProcessEditDetails(d)
  \/ KeepCurrent
  \/ \E r \in Id, d \in Detail : SetTourStatus(r, d)
  \/ \E r \in Id : BotDeletesTour(r)

RequestNext ==
  \E k \in Key \cup {NoKey} :
    \/ \E s \in Span, d \in Detail :
         \/ \E slot \in Slot : \/ CreateTour(k, s, slot, d)
                             \/ \E r \in Id : UpdateEntry(k, r, s, slot, d)
         \/ CreateDayOff(k, s, d)
    \/ \E r \in Id, s \in Span : CopyEntry(k, r, s)
    \/ \E r \in Id, d \in Detail : PatchDayLocations(k, r, d)
    \/ \E r \in Id : DeleteEntry(k, r)

OperatorNext ==
  \/ \E s \in Span : OperatorBooks(s)
  \/ \E r \in Id : OperatorReleases(r)

CalendarNext == DialogNext \/ RequestNext \/ OperatorNext

CalendarSpec == CalendarInit /\ [][CalendarNext \/ Restart]_calendarVars

----------------------------------------------------------------------------

Shared(a, b) == (a.first..a.last) \cap (b.first..b.last)

(* Rows a and b of table R commit the guide twice. *)
Clash(R, a, b) ==
  /\ R[a] # NoRow /\ R[b] # NoRow
  /\ R[a].group # R[b].group
  /\ TimesOverlap(R[a], R[b])
  /\ Shared(R[a], R[b]) # {}

NewClash(a, b) == Clash(rows', a, b) /\ ~Clash(rows, a, b)

(* The Mini App changes the entry of row r. *)
EntryChanged(r) ==
  \E k \in Key \cup {NoKey}, q \in GroupOf(r), s \in Span, slot \in Slot, d \in Detail :
    UpdateEntry(k, q, s, slot, d)

(* An entry becomes a double booking only when the guide presses a         *)
(* prompt's button, says "day off" in the bot or sends new dates to it:    *)
(* never by a create, copy or change of a tour through the Mini App, a     *)
(* dialogue that found the days free, or an assignment                     *)
(* (check_entry_conflicts, get_conflicting_dates).  The one exception is a *)
(* defect, which DayOffsBlock exhibits: a day off that the Mini App        *)
(* changes is checked as a tour with times.                                *)
DoubleBookedOnlyByGuide ==
  [][\A a, b \in Id : NewClash(a, b) =>
       \/ ConfirmConflictSave
       \/ SaveDayOff
       \/ dialog.tour \in {a, b} /\ \E t \in Text : ProcessEditDates(t)
       \/ \E r \in {a, b} : rows[r] # NoRow /\ rows[r].kind = "day off" /\ EntryChanged(r)]_calendarVars

(* No request of the Mini App brings a clash: "Day off: always full-day;   *)
(* blocks entire date", "Full-day vs anything on date: time_conflict 409"  *)
(* (docs/mini_app/API_CONTRACT_v1.md, section 7).                          *)
DayOffsBlock == [][\A a, b \in Id : NewClash(a, b) => ~RequestNext]_calendarVars

Times(e) == <<e.first, e.last, e.slot>>

(* A request creates a second row only if the answer to the first could    *)
(* not be stored (_idempotent stores it after the effect, in a transaction *)
(* of its own), and not with the dates and times the first row now has:    *)
(* then it meets that row as a conflict.  So there are two rows only if    *)
(* the first was changed, the retry has another body, or it is a copy      *)
(* whose source has got other times in between.                            *)
KeyedOnce ==
  [][\A r, s \in Id :
       /\ rows[r] # NoRow /\ rows[s] = NoRow /\ rows'[s] # NoRow
       /\ rows[r].key # NoKey /\ rows'[s].key = rows[r].key
       => faults > 0 /\ Times(rows[r]) # Times(rows'[s])]_calendarVars

(* An entry is shown from one of its rows, so all rows of a group have to  *)
(* agree in everything but their dates, whichever row was opened in the    *)
(* bot or in the Mini App for an edit, and whatever the dialogue was about *)
(* when it started (edit_tour_*, update_tour_entry, update_day_locations). *)
GroupsUniform ==
  \A r, q \in Live :
    rows[r].group = rows[q].group =>
      /\ rows[r].kind = rows[q].kind
      /\ rows[r].slot = rows[q].slot
      /\ rows[r].detail = rows[q].detail

(* A range an operator is told is free is one the guide can accept an      *)
(* offer on: what the operator reads off merged entries, with their types  *)
(* and times, is never more than the rows that _calendar_conflicts looks   *)
(* at.  The exception is a row whose dates are inverted, which no day      *)
(* shows and a range around it meets.                                      *)
FreeIsOfferable ==
  \A s \in Asked :
    Availability(s) = "free" =>
      \A r \in InRange(Probe(s, "tour", FullDay)) : rows[r].first > rows[r].last
=============================================================================
