---------------------------- MODULE FactDelivery ----------------------------
(***************************************************************************)
(* What a queue of facts promises, without workers, attempts, leases or    *)
(* time: a fact that is owed is in the end either delivered, and then the  *)
(* other side knows it, or given up; neither is ever taken back.  The      *)
(* other side may learn a fact before, after, or without its delivery      *)
(* being recorded, but none that is not owed.                              *)
(***************************************************************************)
CONSTANT Item

VARIABLES fate,  \* what became of each fact
          known  \* the facts the other side knows

Init ==
  /\ fate = [i \in Item |-> "absent"]
  /\ known = {}

Owe(i) ==
  /\ fate[i] = "absent"
  /\ fate' = [fate EXCEPT ![i] = "waiting"]
  /\ UNCHANGED known

Learn(i) ==
  /\ fate[i] # "absent"
  /\ known' = known \cup {i}
  /\ UNCHANGED fate

Deliver(i) ==
  /\ fate[i] = "waiting"
  /\ i \in known
  /\ fate' = [fate EXCEPT ![i] = "delivered"]
  /\ UNCHANGED known

GiveUp(i) ==
  /\ fate[i] = "waiting"
  /\ fate' = [fate EXCEPT ![i] = "failed"]
  /\ UNCHANGED known

Next == \E i \in Item : Owe(i) \/ Learn(i) \/ Deliver(i) \/ GiveUp(i)

(* The safety half, and all of it. *)
Safe == Init /\ [][Next]_<<fate, known>>
Spec == Safe /\ \A i \in Item : WF_<<fate, known>>(Deliver(i) \/ GiveUp(i))
=============================================================================
