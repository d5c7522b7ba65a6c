------------------------- MODULE MCShopEventWorker -------------------------
(* Instances of ShopEventWorker for TLC. *)
EXTENDS ShopEventWorker, TLC

CONSTANTS g1, visit, e1, e2, e3

Tell(e, g, v) == [event |-> e, guide |-> g, subject |-> visit, version |-> v]

(* A visit changes; two events are of one version; the last one contradicts *)
(* the first.                                                               *)
VisitFeed == g1 :> <<Tell(e1, g1, 1), Tell(e2, g1, 2), Tell(e3, g1, 2), Tell(e1, g1, 3)>>
=============================================================================
