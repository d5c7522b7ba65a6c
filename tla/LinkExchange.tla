---------------------------- MODULE LinkExchange ----------------------------
(***************************************************************************)
(* How a GuideShop membership is bound to a guide                          *)
(* (services/guide_shop_link_service.py, guide_shop_link_exchange_         *)
(* service.py and the routes of guide_shop_link_provider.py).  A guide is  *)
(* issued a one-time link token; GuideShop spends it on an exchange for a  *)
(* membership; the guide confirms or revokes the exchange before it lapses.*)
(* For a verified profile GuideShop binds the membership in one call.      *)
(*                                                                         *)
(* A call on an existing exchange reads its row, then the clock, and then  *)
(* changes the row by compare-and-set in a transaction of its own, so a    *)
(* Caller is a request under way with what it has read so far.  The calls  *)
(* that create an exchange are one transaction each; they read the clock   *)
(* before it, which is why what lapsed meanwhile may still count as valid. *)
(*                                                                         *)
(* link_request_id is unique among exchanges, so an exchange bears the id  *)
(* of its request.  Bodies, request ids and the signature checks in front  *)
(* of each route are left out.                                             *)
(***************************************************************************)
EXTENDS Naturals, FiniteSets

CONSTANTS Guide,         \* guide_os_id
          Membership,    \* guide_membership_ref
          Caller,        \* requests under way at a time
          Wanted,        \* the statuses the service's own transition is asked for
          MaxRequests    \* bound: rows of guide_shop_link_requests

ASSUME BoundAssumption == MaxRequests \in Nat
ASSUME WantedAssumption == Wanted \subseteq {"active", "revoked", "expired", "conflict"}

VARIABLES reqStatus,     \* guide_shop_link_requests.status
          reqGuide,      \* guide_shop_link_requests.guide_os_id
          exStatus,      \* guide_shop_link_exchanges.status
          exMember,      \* guide_shop_link_exchanges.guide_membership_ref
          evidence,      \* guide_shop_link_exchange_evidence
          lapsed,        \* what the clock has passed: <<"token", r>>, <<"exchange", r>>
          call,          \* what each caller has read
          told,          \* history: the statuses beyond awaiting answered for each exchange
          grants         \* history: how often each token was spent

Request == 1..MaxRequests
NoGuide == "no guide"
NoMembership == "no membership"

requestVars == <<reqStatus, reqGuide, grants>>
exchangeVars == <<exStatus, exMember, evidence>>
linkVars == <<requestVars, exchangeVars, lapsed, call, told>>

ReqStatus == {"none", "issued", "consumed", "revoked"}
ExStatus == {"none", "awaiting", "active", "revoked", "expired", "conflict"}

(* The statuses that carry a lifecycle evidence row. *)
Evidenced == {"active", "revoked", "conflict"}

(* An evidence row, and whether its occurred_at is past the exchange's window. *)
Evidence(status, late) == [status |-> status, late |-> late]

Idle == [pc |-> "idle", op |-> "none", about |-> 0, to |-> "none", seen |-> "none", late |-> FALSE]

----------------------------------------------------------------------------

RequestsInit ==
  /\ reqStatus = [r \in Request |-> "none"]
  /\ reqGuide = [r \in Request |-> NoGuide]
  /\ grants = [r \in Request |-> 0]

ExchangesInit ==
  /\ exStatus = [r \in Request |-> "none"]
  /\ exMember = [r \in Request |-> NoMembership]

EvidenceInit == evidence = [r \in Request |-> {}]

LinkInit ==
  /\ RequestsInit
  /\ ExchangesInit
  /\ EvidenceInit
  /\ lapsed = {}
  /\ call = [c \in Caller |-> Idle]
  /\ told = [r \in Request |-> {}]

(* AUTOINCREMENT: rows are numbered in the order they are inserted. *)
NextRequest(r) == reqStatus[r] = "none" /\ \A s \in 1..(r - 1) : reqStatus[s] # "none"

IssuedTo(g) == {r \in Request : reqStatus[r] = "issued" /\ reqGuide[r] = g}

(* The request rows after g's issued tokens are revoked and row r is added. *)
WithNewRequest(r, g, status) ==
  [s \in Request |-> IF s = r THEN status ELSE IF s \in IssuedTo(g) THEN "revoked" ELSE reqStatus[s]]

(* A token is issued; the guide's earlier unspent ones die with it. *)
IssueToken(g) ==
  \E r \in Request :
    /\ NextRequest(r)
    /\ reqStatus' = WithNewRequest(r, g, "issued")
    /\ reqGuide' = [reqGuide EXCEPT ![r] = g]
    /\ UNCHANGED <<grants, exchangeVars, lapsed, call, told>>

RevokeRequests(g) ==
  /\ IssuedTo(g) # {}
  /\ reqStatus' = [r \in Request |-> IF r \in IssuedTo(g) THEN "revoked" ELSE reqStatus[r]]
  /\ UNCHANGED <<reqGuide, grants, exchangeVars, lapsed, call, told>>

----------------------------------------------------------------------------
(* Spending a token. *)

(* Mutant: whoever once found the token valid may take it. *)
SpendChecked(r, past) == <<"token", r>> \notin past

(* UPDATE ... WHERE status = 'issued' AND expires_at > now *)
Spendable(r, past) == reqStatus[r] = "issued" /\ <<"token", r>> \notin past

Spend(r) ==
  /\ reqStatus' = [reqStatus EXCEPT ![r] = "consumed"]
  /\ grants' = [grants EXCEPT ![r] = @ + 1]
  /\ UNCHANGED reqGuide

(* consume_link_token checks the row it has read ... *)
CheckToken(c, r) ==
  /\ call[c] = Idle
  /\ reqStatus[r] = "issued"
  /\ <<"token", r>> \notin lapsed
  /\ call' = [call EXCEPT ![c] = [pc |-> "checked", op |-> "consume", about |-> r, to |-> "none",
                                  seen |-> "none", late |-> FALSE]]
  /\ UNCHANGED <<requestVars, exchangeVars, lapsed, told>>

(* ... and spends it if it is still there to be spent. *)
ConsumeToken(c) ==
  /\ call[c].pc = "checked"
  /\ \E past \in SUBSET lapsed :
       LET r == call[c].about
       IN IF Spendable(r, past) THEN Spend(r) ELSE UNCHANGED requestVars
  /\ call' = [call EXCEPT ![c] = Idle]
  /\ UNCHANGED <<exchangeVars, lapsed, told>>

(* GuideShop presents the token with the membership it is for. *)
CreateExchange(r, m) ==
  /\ \E past \in SUBSET lapsed : Spendable(r, past)
  /\ Spend(r)
  /\ exStatus' = [exStatus EXCEPT ![r] = "awaiting"]
  /\ exMember' = [exMember EXCEPT ![r] = m]
  /\ UNCHANGED <<evidence, lapsed, call, told>>

----------------------------------------------------------------------------
(* Binding a membership to a verified profile, in one transaction. *)

ActiveOn(m) == {x \in Request : exStatus[x] = "active" /\ exMember[x] = m}

(* Mutant: an awaiting exchange of the membership is taken up, lapsed or not. *)
AwaitingAtAll(g, m, past) ==
  {x \in Request : exStatus[x] = "awaiting" /\ exMember[x] = m /\ reqGuide[x] = g}

(* The exchanges an earlier, interrupted attempt may have left behind. *)
Recoverable(g, m, past) ==
  {x \in Request : /\ exStatus[x] = "awaiting" /\ exMember[x] = m /\ reqGuide[x] = g
                   /\ <<"exchange", x>> \notin past}

(* Mutant: the exchange is activated without its evidence. *)
ActivateSilently(x, late) ==
  /\ exStatus' = [exStatus EXCEPT ![x] = "active"]
  /\ evidence' = evidence
  /\ told' = [told EXCEPT ![x] = @ \cup {"active"}]

Activate(x, late) ==
  /\ exStatus' = [exStatus EXCEPT ![x] = "active"]
  /\ evidence' = [evidence EXCEPT ![x] = @ \cup {Evidence("active", late)}]
  /\ told' = [told EXCEPT ![x] = @ \cup {"active"}]

(* The exact binding exists: answered from its row. *)
ProfileLinkExists(g, m) ==
  \E x \in ActiveOn(m) :
    /\ reqGuide[x] = g
    /\ told' = [told EXCEPT ![x] = @ \cup {"active"}]
    /\ UNCHANGED <<requestVars, exchangeVars, lapsed, call>>

ProfileLinkRecovers(g, m) ==
  \E past \in SUBSET lapsed :
    \E x \in Recoverable(g, m, past) :
      /\ ActiveOn(m) = {}
      /\ \A y \in Recoverable(g, m, past) : x <= y
      /\ Activate(x, <<"exchange", x>> \in past)
      /\ UNCHANGED <<requestVars, exMember, lapsed, call>>

(* An internal token is stored as consumed, and its exchange goes straight *)
(* to active.                                                              *)
ProfileLinkCreates(g, m) ==
  \E past \in SUBSET lapsed, r \in Request :
    /\ ActiveOn(m) = {}
    /\ Recoverable(g, m, past) = {}
    /\ NextRequest(r)
    /\ reqStatus' = WithNewRequest(r, g, "consumed")
    /\ reqGuide' = [reqGuide EXCEPT ![r] = g]
    /\ grants' = [grants EXCEPT ![r] = @ + 1]
    /\ exMember' = [exMember EXCEPT ![r] = m]
    /\ Activate(r, FALSE)
    /\ UNCHANGED <<lapsed, call>>

(* A membership active for another guide is a conflict: nothing is written. *)
CreateProfileLink(g, m) ==
  \/ ProfileLinkExists(g, m)
  \/ ProfileLinkRecovers(g, m)
  \/ ProfileLinkCreates(g, m)

----------------------------------------------------------------------------
(* Calls on an exchange. *)

(* The row is read: GuideShop asks for the status or the evidence, the     *)
(* guide of the exchange confirms, revokes or asks for the evidence.       *)
Load(c, op, x, to) ==
  /\ call[c] = Idle
  /\ exStatus[x] # "none"
  /\ call' = [call EXCEPT ![c] = [pc |-> "loaded", op |-> op, about |-> x, to |-> to,
                                  seen |-> exStatus[x], late |-> FALSE]]
  /\ UNCHANGED <<requestVars, exchangeVars, lapsed, told>>

GetStatus(c, x) == Load(c, "status", x, "none")
GetEvidence(c, x) == Load(c, "evidence", x, "none")
ConfirmForGuide(c, x) == Load(c, "guide", x, "active")
RevokeForGuide(c, x) == Load(c, "guide", x, "revoked")
Transition(c, x, to) == Load(c, "service", x, to)

ReadClock(c) ==
  /\ call[c].pc = "loaded"
  /\ call' = [call EXCEPT ![c].pc = "timed", ![c].late = <<"exchange", call[c].about>> \in lapsed]
  /\ UNCHANGED <<requestVars, exchangeVars, lapsed, told>>

(* The caller has read an awaiting exchange whose window is over. *)
FindsLapsed(c) == call[c].seen = "awaiting" /\ call[c].late

(* The lapsed exchange is expired; if another call was faster its row is   *)
(* read again.                                                             *)
ExpireAwaiting(c) ==
  LET x == call[c].about
  IN /\ call[c].pc = "timed" /\ call[c].op # "service" /\ FindsLapsed(c)
     /\ IF exStatus[x] = "awaiting"
          THEN /\ exStatus' = [exStatus EXCEPT ![x] = "expired"]
               /\ call' = [call EXCEPT ![c].seen = "expired"]
          ELSE /\ call' = [call EXCEPT ![c].seen = exStatus[x]]
               /\ UNCHANGED exStatus
     /\ UNCHANGED <<requestVars, exMember, evidence, lapsed, told>>

Decided(c, op) == call[c].pc = "timed" /\ call[c].op = op /\ ~FindsLapsed(c)

(* Of the answers only those that say more than "awaiting" are remembered. *)
Reply(c, x, answers) ==
  /\ call' = [call EXCEPT ![c] = Idle]
  /\ told' = [told EXCEPT ![x] = @ \cup (answers \ {"awaiting"})]

AnswerStatus(c) ==
  /\ Decided(c, "status")
  /\ Reply(c, call[c].about, {call[c].seen})
  /\ UNCHANGED <<requestVars, exchangeVars, lapsed>>

(* The evidence row of the exchange's status at this moment, if the status *)
(* read before carries one; otherwise the evidence is not ready.           *)
CurrentEvidence(x) == {e.status : e \in {f \in evidence[x] : f.status = exStatus[x]}}

AnswerEvidence(c) ==
  LET x == call[c].about
  IN /\ Decided(c, "evidence")
     /\ Reply(c, x, IF call[c].seen \in Evidenced THEN CurrentEvidence(x) ELSE {})
     /\ UNCHANGED <<requestVars, exchangeVars, lapsed>>

(* Mutant: the row is changed whatever it has become since it was read. *)
SwapBlindly(x, expected, to, late) ==
  /\ exStatus' = [exStatus EXCEPT ![x] = to]
  /\ evidence' = [evidence EXCEPT ![x] =
       IF to \in Evidenced THEN @ \cup {Evidence(to, late)} ELSE @]

(* UPDATE ... WHERE status = expected, with the evidence row of the new status. *)
Swap(x, expected, to, late) ==
  /\ exStatus[x] = expected
  /\ exStatus' = [exStatus EXCEPT ![x] = to]
  /\ evidence' = [evidence EXCEPT ![x] =
       IF to \in Evidenced THEN @ \cup {Evidence(to, late)} ELSE @]

AllowedFrom(to) == IF to = "active" THEN {"awaiting"} ELSE {"awaiting", "active"}

(* The guide's confirmation or revocation is written ... *)
GuideTransition(c) ==
  LET x == call[c].about
      to == call[c].to
  IN /\ Decided(c, "guide")
     /\ call[c].seen \in AllowedFrom(to)
     /\ Swap(x, call[c].seen, to, call[c].late)
     /\ Reply(c, x, {to})
     /\ UNCHANGED <<requestVars, exMember, lapsed>>

(* ... or was written before, or is refused. *)
GuideAnswered(c) ==
  LET x == call[c].about
      to == call[c].to
      same == call[c].seen = to \/ (call[c].seen \in AllowedFrom(to) /\ exStatus[x] = to)
  IN /\ Decided(c, "guide")
     /\ same \/ call[c].seen \notin AllowedFrom(to) \/ exStatus[x] # call[c].seen
     /\ Reply(c, x, IF same THEN {to} ELSE {})
     /\ UNCHANGED <<requestVars, exchangeVars, lapsed>>

ServiceMoves == {<<"awaiting", "active">>, <<"awaiting", "conflict">>, <<"awaiting", "expired">>,
                 <<"awaiting", "revoked">>, <<"active", "revoked">>}

(* The service's own transition: a lapsed exchange expires whatever was    *)
(* asked for, and a row that changed meanwhile is not read again.          *)
ServiceTransition(c) ==
  LET x == call[c].about
      seen == call[c].seen
      to == IF FindsLapsed(c) THEN "expired" ELSE call[c].to
  IN /\ call[c].pc = "timed" /\ call[c].op = "service"
     /\ IF <<seen, call[c].to>> \in ServiceMoves /\ exStatus[x] = seen
          THEN Swap(x, seen, to, call[c].late) /\ Reply(c, x, {to})
          ELSE Reply(c, x, {}) /\ UNCHANGED <<exStatus, evidence>>
     /\ UNCHANGED <<requestVars, exMember, lapsed>>

----------------------------------------------------------------------------

(* The clock passes the expiry of a token or of an exchange. *)
Lapse(kind, r) ==
  /\ <<kind, r>> \notin lapsed
  /\ (kind = "token" /\ reqStatus[r] = "issued") \/ (kind = "exchange" /\ exStatus[r] = "awaiting")
  /\ lapsed' = lapsed \cup {<<kind, r>>}
  /\ UNCHANGED <<requestVars, exchangeVars, call, told>>

TokenNext ==
  \/ \E g \in Guide : IssueToken(g) \/ RevokeRequests(g)
  \/ \E c \in Caller : ConsumeToken(c) \/ \E r \in Request : CheckToken(c, r)
  \/ \E r \in Request, m \in Membership : CreateExchange(r, m)

CallNext ==
  \E c \in Caller :
    \/ \E x \in Request :
         \/ GetStatus(c, x) \/ GetEvidence(c, x)
         \/ ConfirmForGuide(c, x) \/ RevokeForGuide(c, x)
         \/ \E to \in Wanted : Transition(c, x, to)
    \/ ReadClock(c)
    \/ ExpireAwaiting(c)
    \/ AnswerStatus(c)
    \/ AnswerEvidence(c)
    \/ GuideTransition(c)
    \/ GuideAnswered(c)
    \/ ServiceTransition(c)

LinkNext ==
  \/ TokenNext
  \/ CallNext
  \/ \E g \in Guide, m \in Membership : CreateProfileLink(g, m)
  \/ \E kind \in {"token", "exchange"}, r \in Request : Lapse(kind, r)

LinkSpec == LinkInit /\ [][LinkNext]_linkVars

----------------------------------------------------------------------------

LinkTypeOK ==
  /\ reqStatus \in [Request -> ReqStatus]
  /\ reqGuide \in [Request -> Guide \cup {NoGuide}]
  /\ exStatus \in [Request -> ExStatus]
  /\ exMember \in [Request -> Membership \cup {NoMembership}]
  /\ evidence \in [Request -> SUBSET [status : Evidenced, late : BOOLEAN]]
  /\ lapsed \subseteq {"token", "exchange"} \X Request
  /\ call \in [Caller -> [pc : {"idle", "checked", "loaded", "timed"},
                          op : {"none", "consume", "status", "evidence", "guide", "service"},
                          about : 0..MaxRequests, to : ExStatus, seen : ExStatus, late : BOOLEAN]]
  /\ told \in [Request -> SUBSET (ExStatus \ {"awaiting"})]
  /\ grants \in [Request -> Nat]

Recorded(x) == {e.status : e \in evidence[x]}

(* The evidence rows tell the exchange's story, one row for each status it *)
(* has had that carries one, however calls on it crossed: an awaiting or   *)
(* expired exchange never was active, and a revoked or conflicting one     *)
(* keeps what came before (guide_shop_link_exchange_evidence, whose rows   *)
(* can be neither changed nor removed).                                    *)
EvidenceTellsHistory ==
  \A x \in Request :
    /\ exStatus[x] \in {"none", "awaiting", "expired"} => Recorded(x) = {}
    /\ exStatus[x] = "active" => Recorded(x) = {"active"}
    /\ exStatus[x] = "conflict" => Recorded(x) = {"conflict"}
    /\ exStatus[x] = "revoked" => Recorded(x) \in {{"revoked"}, {"active", "revoked"}}
    /\ \A d, e \in evidence[x] : d.status = e.status => d = e

(* What a caller was once told stays true although the answer is given     *)
(* from a row read earlier: an exchange reported active has its evidence   *)
(* and can only be revoked since, one reported revoked, expired or in      *)
(* conflict is so for ever (get_status, confirm_for_guide, get_evidence).  *)
AnswersHold ==
  \A x \in Request :
    /\ "active" \in told[x] => exStatus[x] \in {"active", "revoked"} /\ "active" \in Recorded(x)
    /\ \A s \in {"revoked", "expired", "conflict"} : s \in told[x] => exStatus[x] = s

(* Every activation bears a time inside the window of its exchange: a      *)
(* confirmation and the profile link that takes up an old exchange decide  *)
(* on a reading of the clock before the window's end and record that       *)
(* reading.  It bounds occurred_at and not the write, which may come after *)
(* the window: the service reads the clock before the transaction          *)
(* (confirm_for_guide, create_active_for_verified_profile).  Only revoking *)
(* what was activated may be dated later.                                  *)
ActivationsDatedInTime ==
  \A x \in Request : \A e \in evidence[x] :
    e.late => e.status = "revoked" /\ Evidence("active", FALSE) \in evidence[x]

TokenState == [none |-> "unborn", issued |-> "live", consumed |-> "used", revoked |-> "dead"]

(* The link tokens are one-time tokens, whichever of the three ways of     *)
(* spending them callers take and however they race.                       *)
Tokens == INSTANCE OneTimeToken WITH Token <- Request, spent <- grants,
                                     state <- [r \in Request |-> TokenState[reqStatus[r]]]
TokensOneTime == Tokens!Spec

(* A membership is never active for two guides                             *)
(* (tests/test_guide_shop_link_provider.py: the same membership must not   *)
(* bind to a different guide).                                             *)
OneGuidePerMembership ==
  \A x, y \in Request :
    exStatus[x] = "active" /\ exStatus[y] = "active" /\ exMember[x] = exMember[y]
      => reqGuide[x] = reqGuide[y]
=============================================================================
