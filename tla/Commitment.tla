----------------------------- MODULE Commitment -----------------------------
(***************************************************************************)
(* What Guide OS promises a guide who works with operators, without        *)
(* versions, tours, tables or events: an operator may ask for days; the    *)
(* days asked for block the guide's calendar only when the guide agrees,   *)
(* and then no two commitments of one guide share a day; the operator may  *)
(* ask to move a commitment, and may give it up at any time.               *)
(***************************************************************************)
CONSTANTS AssignmentId, Guide, Span

VARIABLES phase,    \* where the dealings about an assignment stand
          holder,   \* the guide it is offered to
          blocked,  \* the days it blocks on the guide's calendar
          asked     \* the days the guide is being asked for

commitmentVars == <<phase, holder, blocked, asked>>

Init ==
  /\ phase = [a \in AssignmentId |-> "none"]
  /\ \A a \in AssignmentId : holder[a] \notin Guide
  /\ blocked = [a \in AssignmentId |-> {}]
  /\ asked = [a \in AssignmentId |-> {}]

(* The operator asks guide g for the days s. *)
Ask(a, g, s) ==
  /\ phase[a] = "none"
  /\ phase' = [phase EXCEPT ![a] = "asked"]
  /\ holder' = [holder EXCEPT ![a] = g]
  /\ asked' = [asked EXCEPT ![a] = s]
  /\ UNCHANGED blocked

(* The operator asks for other days of a commitment. *)
AskToMove(a, s) ==
  /\ phase[a] = "committed"
  /\ asked[a] = {}
  /\ asked' = [asked EXCEPT ![a] = s]
  /\ UNCHANGED <<phase, holder, blocked>>

(* The guide agrees: the days asked for are blocked, clear of the guide's  *)
(* other commitments.                                                      *)
Agree(a) ==
  /\ asked[a] # {}
  /\ \A b \in AssignmentId \ {a} :
       holder[b] = holder[a] => blocked[b] \cap asked[a] = {}
  /\ phase' = [phase EXCEPT ![a] = "committed"]
  /\ blocked' = [blocked EXCEPT ![a] = asked[a]]
  /\ asked' = [asked EXCEPT ![a] = {}]
  /\ UNCHANGED holder

(* The guide refuses to move a commitment, which stays as it was. *)
RefuseToMove(a) ==
  /\ phase[a] = "committed"
  /\ asked[a] # {}
  /\ asked' = [asked EXCEPT ![a] = {}]
  /\ UNCHANGED <<phase, holder, blocked>>

(* The offer is declined or withdrawn, or the commitment given up. *)
End(a) ==
  /\ phase[a] \in {"asked", "committed"}
  /\ phase' = [phase EXCEPT ![a] = "over"]
  /\ blocked' = [blocked EXCEPT ![a] = {}]
  /\ asked' = [asked EXCEPT ![a] = {}]
  /\ UNCHANGED holder

Next ==
  \E a \in AssignmentId :
    \/ \E g \in Guide, s \in Span : Ask(a, g, s)
    \/ \E s \in Span : AskToMove(a, s)
    \/ Agree(a)
    \/ RefuseToMove(a)
    \/ End(a)

Spec == Init /\ [][Next]_commitmentVars
=============================================================================
