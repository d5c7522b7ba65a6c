------------------------- MODULE MCPersonalCalendar -------------------------
(* PersonalCalendar on a small instance. *)
EXTENDS PersonalCalendar, TLC

(* Today is day 2 of a year of three days. *)
MCDate(from, to) == Parsed(from, to, 2, 3)

(* Today; tomorrow, and a range that starts a year from yesterday and ends *)
(* tomorrow.                                                               *)
MCText == {<<MCDate(2, 2)>>, <<MCDate(3, 3), MCDate(1, 3)>>}
MCSpan == {<<3, 4>>}
CONSTANTS morning, evening
MCSlot == {FullDay, morning, evening}
MCDay == 3..4

(* Nothing tells one window, or one value of the details, from another. *)
MCSymmetry == Permutations({morning, evening}) \cup Permutations(Detail)
=============================================================================
