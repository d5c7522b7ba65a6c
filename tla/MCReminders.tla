----------------------------- MODULE MCReminders -----------------------------
(* Reminders over a small calendar. *)
EXTENDS Reminders, TLC

(* Tomorrow and the day after it. *)
MCTomorrow == <<1, 1>>
MCLater == <<2, 2>>

MCText == {<<MCTomorrow>>, <<MCLater>>}
MCSpan == {MCTomorrow}
MCSlot == {FullDay}
=============================================================================
