---------------------------- MODULE OneTimeToken ----------------------------
(***************************************************************************)
(* What a one-time token promises: it is issued, it is spent at most once  *)
(* or withdrawn, and whoever spends it is the only one to do so.  Several  *)
(* tokens may move in one step (a new token withdraws the older ones).     *)
(***************************************************************************)
EXTENDS Naturals

CONSTANT Token

VARIABLES state,   \* what has become of each token
          spent    \* how many callers were granted something for it

Moves == {<<"unborn", "live">>, <<"unborn", "used">>, <<"live", "used">>, <<"live", "dead">>}

Init == /\ state = [t \in Token |-> "unborn"]
        /\ spent = [t \in Token |-> 0]

Next ==
  /\ \A t \in Token : state'[t] # state[t] => <<state[t], state'[t]>> \in Moves
  /\ spent' = [t \in Token |->
       IF state[t] # "used" /\ state'[t] = "used" THEN spent[t] + 1 ELSE spent[t]]

Spec == Init /\ [][Next]_<<state, spent>>
=============================================================================
