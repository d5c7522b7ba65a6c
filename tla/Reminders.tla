------------------------------ MODULE Reminders ------------------------------
(***************************************************************************)
(* The reminder loop (services/reminder_service.py) over the guide's       *)
(* calendar, on one evening: the guide is told of every entry of tomorrow, *)
(* once.  A round reads the entries, sends each with an await of its own,  *)
(* so that the calendar changes meanwhile, and then marks the day as told; *)
(* a failure ends the round unmarked, and the next tick starts again.      *)
(* The order of the messages and their text are left out.                  *)
(***************************************************************************)
EXTENDS PersonalCalendar

CONSTANTS Tomorrow,     \* the day the loop looks at
          MaxResets     \* bound: changes of the reminder time

ASSUME RemindersAssumption == Tomorrow \in Int /\ MaxResets \in Nat

VARIABLES marked,       \* users.last_tour_reminder_date is tomorrow
          telling,      \* a round is under way
          unsent,       \* the entries it has yet to send
          heard,        \* history: messages that have reached the guide, by row
          doubts,       \* history: rounds that ended unmarked
          resets        \* history: changes of the reminder time

reminderVars == <<marked, telling, unsent, heard, doubts, resets>>
remindedVars == <<calendarVars, reminderVars>>

RemindersInit ==
  /\ CalendarInit
  /\ marked = FALSE /\ telling = FALSE /\ unsent = {}
  /\ heard = [r \in Id |-> 0]
  /\ doubts = 0 /\ resets = 0

(* The rows with tomorrow among their days, of whatever kind. *)
Due == {r \in Live : Tomorrow \in rows[r].first..rows[r].last}

(* Mutant: a round that failed is not repeated. *)
StartRoundOnce ==
  /\ ~telling /\ ~marked /\ doubts = 0
  /\ Due # {}
  /\ telling' = TRUE /\ unsent' = Due
  /\ UNCHANGED <<calendarVars, marked, heard, doubts, resets>>

StartRound ==
  /\ ~telling /\ ~marked
  /\ Due # {}
  /\ telling' = TRUE /\ unsent' = Due
  /\ UNCHANGED <<calendarVars, marked, heard, doubts, resets>>

(* Mutant: an entry stays in the round that has been sent. *)
StillUnsent(r) == unsent

Unsent(r) == unsent \ {r}

Send(r) ==
  /\ telling /\ r \in unsent
  /\ unsent' = Unsent(r)
  /\ heard' = [heard EXCEPT ![r] = @ + 1]
  /\ UNCHANGED <<calendarVars, marked, telling, doubts, resets>>

EndRound == telling' = FALSE /\ unsent' = {}

(* The call fails; the message may have come through. *)
SendFails(r) ==
  /\ telling /\ r \in unsent
  /\ Fault /\ doubts' = doubts + 1
  /\ heard' = heard \/ heard' = [heard EXCEPT ![r] = @ + 1]
  /\ EndRound
  /\ UNCHANGED <<rows, lastId, dialog, prompts, answered, marked, resets>>

MarkDay ==
  /\ telling /\ unsent = {}
  /\ marked' = TRUE
  /\ EndRound
  /\ UNCHANGED <<calendarVars, heard, doubts, resets>>

MarkFails ==
  /\ telling /\ unsent = {}
  /\ Fault /\ doubts' = doubts + 1
  /\ EndRound
  /\ UNCHANGED <<rows, lastId, dialog, prompts, answered, marked, heard, resets>>

(* The guide sets another time: the day counts as not yet told. *)
SetNotificationTime ==
  /\ resets < MaxResets
  /\ resets' = resets + 1
  /\ marked' = FALSE
  /\ UNCHANGED <<calendarVars, telling, unsent, heard, doubts>>

RestartAll ==
  /\ Restart
  /\ EndRound
  /\ doubts' = IF telling THEN doubts + 1 ELSE doubts
  /\ UNCHANGED <<marked, heard, resets>>

Loop == StartRound \/ (\E r \in Id : Send(r)) \/ MarkDay

RemindersNext ==
  \/ CalendarNext /\ UNCHANGED reminderVars
  \/ Loop
  \/ \E r \in Id : SendFails(r)
  \/ MarkFails
  \/ SetNotificationTime
  \/ RestartAll

RemindersSafe == RemindersInit /\ [][RemindersNext]_remindedVars

(* The loop wakes every minute, and its sends return. *)
RemindersSpec == RemindersSafe /\ WF_remindedVars(Loop)

----------------------------------------------------------------------------

(* The guide is reminded of an entry once, and again only for a round that *)
(* ended unmarked or a new reminder time (send_tour_reminders, which marks *)
(* the day after the last message).                                        *)
RemindedAgainOnlyInDoubt == \A r \in Id : heard[r] <= 1 + doubts + resets

(* An entry of tomorrow that stands while the day is unmarked and no round *)
(* is under way is told, unless it goes away or moves first.  (One that    *)
(* comes during a round is not: the round's mark hides it.)                *)
DueReminded ==
  \A r \in Id : (r \in Due /\ ~marked /\ ~telling) ~> (heard[r] > 0 \/ r \notin Due)
=============================================================================
