--------------------------- MODULE MCLinkExchange ---------------------------
(* LinkExchange on a small instance. *)
EXTENDS LinkExchange, TLC

Alike == Permutations(Guide) \cup Permutations(Membership) \cup Permutations(Caller)
=============================================================================
