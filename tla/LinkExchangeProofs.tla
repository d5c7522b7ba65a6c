------------------------- MODULE LinkExchangeProofs -------------------------
(***************************************************************************)
(* The link exchange for any number of guides, memberships, requests and   *)
(* callers under way.  What a caller read, and what it was told, stays     *)
(* true (StillTrue) because a row only ever advances (Advance), and each   *)
(* row is at any time one of a few stories (Story).                        *)
(***************************************************************************)
EXTENDS LinkExchange, TLAPS

(* The status of exchange x and its evidence rows, with their dates. *)
Story(x) ==
  /\ reqStatus[x] # "consumed" => exStatus[x] = "none"
  /\ exStatus[x] \in {"none", "awaiting", "expired"} => evidence[x] = {}
  /\ exStatus[x] = "active" => evidence[x] = {Evidence("active", FALSE)}
  /\ exStatus[x] = "conflict" => evidence[x] = {Evidence("conflict", FALSE)}
  /\ exStatus[x] = "revoked" =>
       \/ evidence[x] = {Evidence("revoked", FALSE)}
       \/ \E late \in BOOLEAN :
            evidence[x] = {Evidence("active", FALSE), Evidence("revoked", late)}

(* That x has, or had, status s is known for good. *)
StillTrue(x, s) ==
  /\ s # "none" /\ exStatus[x] # "none"
  /\ s = "active" => /\ exStatus[x] \in {"active", "revoked"}
                     /\ Evidence("active", FALSE) \in evidence[x]
  /\ s \in {"revoked", "expired", "conflict"} => exStatus[x] = s

CallSound(c) ==
  /\ call[c].pc # "idle" => call[c].about \in Request
  /\ call[c].pc \in {"loaded", "timed"} =>
       /\ StillTrue(call[c].about, call[c].seen)
       /\ call[c].op = "guide" => call[c].to \in {"active", "revoked"}
       /\ call[c].op = "service" => call[c].to \in {"active", "revoked", "expired", "conflict"}

LinkInv ==
  /\ LinkTypeOK
  /\ \A x \in Request : Story(x) /\ \A s \in told[x] : StillTrue(x, s)
  /\ \A c \in Caller : CallSound(c)

(* How a step may change exchange x. *)
Advance(x) ==
  \/ exStatus'[x] = exStatus[x] /\ evidence'[x] = evidence[x]
  \/ exStatus[x] \in {"none", "awaiting"} /\ exStatus'[x] # "none"
  \/ /\ exStatus[x] = "active" /\ exStatus'[x] = "revoked"
     /\ evidence[x] \subseteq evidence'[x]

(* What a step owes to the row of x, to the answers about it and to c. *)
RowStep(x) == Story(x)' /\ Advance(x)
AnswerStep(x) == \A s \in told'[x] : s \in told[x] \/ StillTrue(x, s)'
CallStep(c) == call'[c] = call[c] \/ CallSound(c)'

LEMMA InitLinkInv == LinkInit => LinkInv
<1> SUFFICES ASSUME LinkInit PROVE LinkInv
  OBVIOUS
<1> USE BoundAssumption DEF BoundAssumption, LinkInit, RequestsInit, ExchangesInit, EvidenceInit
<1>1. Idle \in [pc : {"idle", "checked", "loaded", "timed"},
                op : {"none", "consume", "status", "evidence", "guide", "service"},
                about : 0..MaxRequests, to : ExStatus, seen : ExStatus, late : BOOLEAN]
  BY DEF Idle, ExStatus
<1>2. LinkTypeOK
  BY <1>1 DEF LinkTypeOK, ReqStatus, ExStatus
<1>3. \A x \in Request : Story(x) /\ told[x] = {}
  BY DEF Story
<1>4. \A c \in Caller : CallSound(c)
  BY DEF CallSound, Idle
<1> QED
  BY <1>2, <1>3, <1>4 DEF LinkInv

(* What was true of a row stays so when it advances. *)
LEMMA TruthStays ==
  ASSUME NEW x \in Request, NEW s, Story(x), Advance(x), StillTrue(x, s)
  PROVE  StillTrue(x, s)'
BY DEF Story, Advance, StillTrue

LEMMA InvFromSteps ==
  ASSUME LinkInv, LinkTypeOK',
         \A x \in Request : RowStep(x) /\ AnswerStep(x),
         \A c \in Caller : CallStep(c)
  PROVE  LinkInv'
<1>1. ASSUME NEW x \in Request, NEW s \in told'[x]
      PROVE  StillTrue(x, s)'
  BY <1>1, TruthStays DEF LinkInv, RowStep, AnswerStep
<1>2. ASSUME NEW c \in Caller
      PROVE  CallSound(c)'
  <2>1. CASE CallSound(c)'
    BY <2>1
  <2>2. CASE call'[c] = call[c]
    <3>1. ASSUME call[c].pc \in {"loaded", "timed"}
          PROVE  StillTrue(call[c].about, call[c].seen)'
      <4>1. PICK x \in Request, s \in ExStatus : x = call[c].about /\ s = call[c].seen
        BY <3>1 DEF LinkInv, CallSound, LinkTypeOK
      <4>2. StillTrue(x, s)'
        BY <3>1, <4>1, TruthStays DEF LinkInv, CallSound, RowStep
      <4> QED
        BY <2>2, <4>1, <4>2 DEF StillTrue
    <3> QED
      BY <2>2, <3>1 DEF LinkInv, CallSound, StillTrue
  <2> QED
    BY <1>2, <2>1, <2>2 DEF CallStep
<1> QED
  BY <1>1, <1>2 DEF LinkInv, RowStep

(* Every step keeps the invariant because it keeps these. *)
StepSound ==
  /\ LinkTypeOK'
  /\ \A x \in Request : RowStep(x) /\ AnswerStep(x)
  /\ \A c \in Caller : CallStep(c)

CallRecord == [pc : {"idle", "checked", "loaded", "timed"},
               op : {"none", "consume", "status", "evidence", "guide", "service"},
               about : 0..MaxRequests, to : ExStatus, seen : ExStatus, late : BOOLEAN]

LEMMA IdleCall == Idle \in CallRecord
BY BoundAssumption DEF BoundAssumption, Idle, CallRecord, ExStatus

(* A step of the token table alone: what was consumed stays consumed. *)
LEMMA RowsUntouched ==
  ASSUME LinkInv, UNCHANGED <<exStatus, evidence, told>>,
         \A x \in Request : reqStatus[x] = "consumed" => reqStatus'[x] = "consumed"
  PROVE  \A x \in Request : RowStep(x) /\ AnswerStep(x)
BY DEF LinkInv, RowStep, AnswerStep, Story, Advance

(* Every step changes the record of one caller at most. *)
LEMMA OneCall ==
  ASSUME LinkInv, NEW c \in Caller, NEW k \in CallRecord,
         call' = [call EXCEPT ![c] = k], CallSound(c)'
  PROVE  /\ call' \in [Caller -> CallRecord]
         /\ \A d \in Caller : CallStep(d)
BY DEF LinkInv, LinkTypeOK, CallStep, CallRecord

LEMMA TokenSteps ==
  ASSUME LinkInv, TokenNext
  PROVE  StepSound
<1>0. LinkTypeOK
  BY DEF LinkInv
<1>1. ASSUME NEW g \in Guide, IssueToken(g) \/ RevokeRequests(g)
      PROVE  StepSound
  <2>1. /\ UNCHANGED <<grants, exStatus, exMember, evidence, lapsed, call, told>>
        /\ reqGuide' \in [Request -> Guide \cup {NoGuide}]
        /\ reqStatus' \in [Request -> ReqStatus]
        /\ \A x \in Request : reqStatus[x] = "consumed" => reqStatus'[x] = "consumed"
    <3>1. CASE IssueToken(g)
      <4>1. PICK r \in Request : /\ NextRequest(r)
                                 /\ reqStatus' = WithNewRequest(r, g, "issued")
                                 /\ reqGuide' = [reqGuide EXCEPT ![r] = g]
                                 /\ UNCHANGED <<grants, exchangeVars, lapsed, call, told>>
        BY <3>1 DEF IssueToken
      <4>2. reqGuide' \in [Request -> Guide \cup {NoGuide}]
        BY <4>1, <1>0 DEF LinkTypeOK
      <4>3. reqStatus' \in [Request -> ReqStatus]
        BY <4>1, <1>0 DEF LinkTypeOK, WithNewRequest, ReqStatus
      <4>4. \A x \in Request : reqStatus[x] = "consumed" => reqStatus'[x] = "consumed"
        BY <4>1 DEF NextRequest, WithNewRequest, IssuedTo
      <4> QED
        BY <4>1, <4>2, <4>3, <4>4 DEF exchangeVars
    <3>2. CASE RevokeRequests(g)
      BY <3>2, <1>0 DEF RevokeRequests, IssuedTo, LinkTypeOK, ReqStatus, exchangeVars
    <3> QED
      BY <1>1, <3>1, <3>2
  <2>2. LinkTypeOK'
    BY <2>1, <1>0 DEF LinkTypeOK
  <2>3. \A x \in Request : RowStep(x) /\ AnswerStep(x)
    BY <2>1, RowsUntouched
  <2> QED
    BY <2>1, <2>2, <2>3 DEF StepSound, CallStep
<1>2. ASSUME NEW c \in Caller, ConsumeToken(c)
      PROVE  StepSound
  <2>1. /\ UNCHANGED <<reqGuide, exStatus, exMember, evidence, lapsed, told>>
        /\ call' = [call EXCEPT ![c] = Idle]
        /\ reqStatus' \in [Request -> ReqStatus]
        /\ grants' \in [Request -> Nat]
        /\ \A x \in Request : reqStatus[x] = "consumed" => reqStatus'[x] = "consumed"
    <3> DEFINE r == call[c].about
    <3>1. /\ Spend(r) \/ UNCHANGED requestVars
          /\ call' = [call EXCEPT ![c] = Idle]
          /\ UNCHANGED <<exchangeVars, lapsed, told>>
      BY <1>2 DEF ConsumeToken
    <3>2. CASE Spend(r)
      <4>1. r \in Request
        BY <1>2 DEF ConsumeToken, LinkInv, CallSound
      <4>2. reqStatus' \in [Request -> ReqStatus] /\ grants' \in [Request -> Nat]
        BY <3>2, <4>1, <1>0 DEF Spend, LinkTypeOK, ReqStatus
      <4>3. \A x \in Request : reqStatus[x] = "consumed" => reqStatus'[x] = "consumed"
        BY <3>2, <1>0 DEF Spend, LinkTypeOK
      <4> QED
        BY <3>1, <3>2, <4>2, <4>3 DEF Spend, exchangeVars
    <3>3. CASE UNCHANGED requestVars
      BY <3>1, <3>3, <1>0 DEF requestVars, exchangeVars, LinkTypeOK
    <3> QED
      BY <3>1, <3>2, <3>3
  <2>2. CallSound(c)'
    BY <2>1, <1>0 DEF CallSound, Idle, LinkTypeOK
  <2>3. call' \in [Caller -> CallRecord] /\ \A d \in Caller : CallStep(d)
    BY <2>1, <2>2, IdleCall, OneCall
  <2>4. LinkTypeOK'
    BY <2>1, <2>3, <1>0 DEF LinkTypeOK, CallRecord
  <2>5. \A x \in Request : RowStep(x) /\ AnswerStep(x)
    BY <2>1, RowsUntouched
  <2> QED
    BY <2>3, <2>4, <2>5 DEF StepSound
<1>3. ASSUME NEW c \in Caller, NEW r \in Request, CheckToken(c, r)
      PROVE  StepSound
  <2> DEFINE k == [pc |-> "checked", op |-> "consume", about |-> r, to |-> "none",
                 seen |-> "none", late |-> FALSE]
  <2>1. UNCHANGED <<requestVars, exchangeVars, lapsed, told>> /\ call' = [call EXCEPT ![c] = k]
    BY <1>3 DEF CheckToken
  <2>2. k \in CallRecord
    BY BoundAssumption DEF BoundAssumption, Request, CallRecord, ExStatus
  <2>3. CallSound(c)'
    BY <2>1, <1>0 DEF CallSound, Idle, LinkTypeOK
  <2>4. call' \in [Caller -> CallRecord] /\ \A d \in Caller : CallStep(d)
    BY <2>1, <2>2, <2>3, OneCall
  <2>5. LinkTypeOK'
    BY <2>1, <2>4, <1>0 DEF LinkTypeOK, CallRecord, requestVars, exchangeVars
  <2>6. \A x \in Request : RowStep(x) /\ AnswerStep(x)
    BY <2>1, RowsUntouched DEF requestVars, exchangeVars
  <2> QED
    BY <2>4, <2>5, <2>6 DEF StepSound
<1>4. ASSUME NEW r \in Request, NEW m \in Membership, CreateExchange(r, m)
      PROVE  StepSound
  <2>1. /\ reqStatus[r] = "issued" /\ reqStatus' = [reqStatus EXCEPT ![r] = "consumed"]
        /\ grants' = [grants EXCEPT ![r] = @ + 1] /\ reqGuide' = reqGuide
        /\ exStatus' = [exStatus EXCEPT ![r] = "awaiting"]
        /\ exMember' = [exMember EXCEPT ![r] = m]
        /\ UNCHANGED <<evidence, lapsed, call, told>>
    BY <1>4 DEF CreateExchange, Spendable, Spend
  <2>2. exStatus[r] = "none"
    BY <2>1 DEF LinkInv, Story
  <2>3. LinkTypeOK'
    <3>1. reqStatus' \in [Request -> ReqStatus] /\ exStatus' \in [Request -> ExStatus]
      BY <2>1, <1>0 DEF LinkTypeOK, ReqStatus, ExStatus
    <3>2. grants' \in [Request -> Nat] /\ exMember' \in [Request -> Membership \cup {NoMembership}]
      BY <2>1, <1>0 DEF LinkTypeOK
    <3> QED
      BY <2>1, <3>1, <3>2, <1>0 DEF LinkTypeOK
  <2>4. ASSUME NEW x \in Request
        PROVE  RowStep(x) /\ AnswerStep(x)
    BY <2>1, <2>2, <1>0 DEF LinkInv, LinkTypeOK, RowStep, Story, Advance, AnswerStep
  <2> QED
    BY <2>1, <2>3, <2>4 DEF StepSound, CallStep
<1> QED
  BY <1>1, <1>2, <1>3, <1>4 DEF TokenNext

(* What a row says now is true for good. *)
LEMMA RowIsTrue ==
  ASSUME NEW x \in Request, Story(x), exStatus[x] # "none"
  PROVE  StillTrue(x, exStatus[x])
BY DEF Story, StillTrue

(* The two ways an exchange advances: out of its window's wait, or revoked. *)
Moved(x, to, late) ==
  /\ reqStatus'[x] = "consumed"
  /\ exStatus' = [exStatus EXCEPT ![x] = to]
  /\ evidence' = [evidence EXCEPT ![x] =
       IF to \in Evidenced THEN @ \cup {Evidence(to, late)} ELSE @]
  /\ \/ /\ exStatus[x] \in {"none", "awaiting"}
        /\ to = "expired" \/ (to \in Evidenced /\ late = FALSE)
     \/ exStatus[x] = "active" /\ to = "revoked"

LEMMA RowMoved ==
  ASSUME LinkInv, NEW x \in Request, NEW to, NEW late \in BOOLEAN, Moved(x, to, late),
         \A y \in Request : reqStatus[y] = "consumed" => reqStatus'[y] = "consumed"
  PROVE  /\ exStatus' \in [Request -> ExStatus]
         /\ evidence' \in [Request -> SUBSET [status : Evidenced, late : BOOLEAN]]
         /\ \A y \in Request : RowStep(y)
         /\ StillTrue(x, to)'
<1>0. LinkTypeOK /\ \A y \in Request : Story(y)
  BY DEF LinkInv
<1>1. exStatus' \in [Request -> ExStatus]
  BY <1>0 DEF LinkTypeOK, Moved, ExStatus, Evidenced
<1>2. evidence' \in [Request -> SUBSET [status : Evidenced, late : BOOLEAN]]
  <2>1. to \in Evidenced => Evidence(to, late) \in [status : Evidenced, late : BOOLEAN]
    BY DEF Evidence
  <2> QED
    BY <1>0, <2>1 DEF LinkTypeOK, Moved
<1>3. exStatus'[x] = to /\ evidence'[x] = IF to \in Evidenced THEN evidence[x] \cup {Evidence(to, late)}
                                                             ELSE evidence[x]
  BY <1>0 DEF Moved, LinkTypeOK
<1>4. RowStep(x)
  <2>1. CASE exStatus[x] \in {"none", "awaiting"}
    <3>1. evidence[x] = {}
      BY <1>0, <2>1 DEF Story
    <3>2. to = "expired" => evidence'[x] = {}
      BY <1>3, <3>1 DEF Evidenced
    <3>3. to \in Evidenced => evidence'[x] = {Evidence(to, FALSE)}
      BY <1>3, <2>1, <3>1 DEF Moved, Evidenced
    <3> QED
      BY <1>3, <2>1, <3>2, <3>3 DEF RowStep, Story, Advance, Moved, Evidenced
  <2>2. CASE exStatus[x] = "active" /\ to = "revoked"
    <3>1. evidence[x] = {Evidence("active", FALSE)} /\ reqStatus'[x] = "consumed"
      BY <1>0, <2>2 DEF Story, Moved
    <3>2. evidence'[x] = {Evidence("active", FALSE), Evidence("revoked", late)}
      BY <1>3, <2>2, <3>1 DEF Evidenced
    <3>3. Advance(x)
      BY <1>3, <2>2, <3>1, <3>2 DEF Advance
    <3>4. Story(x)'
      BY <1>3, <2>2, <3>1, <3>2 DEF Story
    <3> QED
      BY <3>3, <3>4 DEF RowStep
  <2> QED
    BY <2>1, <2>2 DEF Moved
<1>5. ASSUME NEW y \in Request, y # x
      PROVE  RowStep(y)
  <2>1. exStatus'[y] = exStatus[y] /\ evidence'[y] = evidence[y]
    BY <1>0, <1>5 DEF Moved, LinkTypeOK
  <2> QED
    BY <1>0, <1>5, <2>1 DEF RowStep, Story, Advance
<1>6. StillTrue(x, to)'
  BY <1>3, <1>4 DEF RowStep, Story, StillTrue, Moved, Evidenced
<1> QED
  BY <1>1, <1>2, <1>4, <1>5, <1>6

(* A call is answered with something true. *)
LEMMA Replied ==
  ASSUME LinkInv, NEW c \in Caller, NEW x \in Request, NEW answers \in SUBSET ExStatus,
         Reply(c, x, answers), \A s \in answers \ {"awaiting"} : StillTrue(x, s)'
  PROVE  /\ call' \in [Caller -> CallRecord]
         /\ told' \in [Request -> SUBSET (ExStatus \ {"awaiting"})]
         /\ \A y \in Request : AnswerStep(y)
         /\ \A d \in Caller : CallStep(d)
<1>0. LinkTypeOK
  BY DEF LinkInv
<1>1. call' = [call EXCEPT ![c] = Idle]
  BY DEF Reply
<1>2. told' \in [Request -> SUBSET (ExStatus \ {"awaiting"})]
  BY <1>0 DEF Reply, LinkTypeOK
<1>3. \A y \in Request : AnswerStep(y)
  BY <1>0 DEF Reply, AnswerStep, LinkTypeOK
<1>4. CallSound(c)'
  BY <1>0, <1>1 DEF CallSound, Idle, LinkTypeOK
<1> QED
  BY <1>1, <1>2, <1>3, <1>4, IdleCall, OneCall

LEMMA CallSteps ==
  ASSUME LinkInv, CallNext
  PROVE  StepSound
<1>0. LinkTypeOK
  BY DEF LinkInv
<1>1. PICK c \in Caller :
        \/ \E x \in Request, op \in {"status", "evidence", "guide", "service"},
              to \in {"none"} \cup Wanted \cup {"active", "revoked"} :
             /\ Load(c, op, x, to)
             /\ op = "guide" => to \in {"active", "revoked"}
             /\ op = "service" => to \in Wanted
        \/ ReadClock(c) \/ ExpireAwaiting(c) \/ AnswerStatus(c) \/ AnswerEvidence(c)
        \/ GuideTransition(c) \/ GuideAnswered(c) \/ ServiceTransition(c)
  BY DEF CallNext, GetStatus, GetEvidence, ConfirmForGuide, RevokeForGuide, Transition
<1>2. PICK was \in CallRecord : was = call[c]
  BY <1>0 DEF LinkTypeOK, CallRecord
<1> DEFINE x == was.about
           seen == was.seen
<1>3. ASSUME call[c].pc \in {"loaded", "timed"}
      PROVE  /\ x \in Request /\ StillTrue(x, seen) /\ Story(x)
             /\ seen \in ExStatus \ {"none"} /\ exStatus[x] \in ExStatus \ {"none"}
             /\ reqStatus[x] = "consumed"
  BY <1>0, <1>2, <1>3 DEF LinkInv, CallSound, StillTrue, Story, CallRecord, LinkTypeOK
<1>4. ASSUME NEW k \in CallRecord, call' = [call EXCEPT ![c] = k], CallSound(c)',
             UNCHANGED <<requestVars, exchangeVars, lapsed, told>>
      PROVE  StepSound
  <2>1. \A y \in Request : RowStep(y) /\ AnswerStep(y)
    BY <1>4, RowsUntouched DEF requestVars, exchangeVars
  <2>2. call' \in [Caller -> CallRecord] /\ \A d \in Caller : CallStep(d)
    BY <1>4, OneCall
  <2>3. LinkTypeOK'
    BY <1>0, <1>4, <2>2 DEF LinkTypeOK, CallRecord, requestVars, exchangeVars
  <2> QED
    BY <2>1, <2>2, <2>3 DEF StepSound
<1>5. ASSUME NEW answers \in SUBSET ExStatus, x \in Request, Reply(c, x, answers),
             \A s \in answers \ {"awaiting"} : StillTrue(x, s)',
             UNCHANGED <<requestVars, exMember, lapsed>>,
             exStatus' \in [Request -> ExStatus],
             evidence' \in [Request -> SUBSET [status : Evidenced, late : BOOLEAN]],
             \A y \in Request : RowStep(y)
      PROVE  StepSound
  <2>1. /\ call' \in [Caller -> CallRecord]
        /\ told' \in [Request -> SUBSET (ExStatus \ {"awaiting"})]
        /\ \A y \in Request : AnswerStep(y)
        /\ \A d \in Caller : CallStep(d)
    BY <1>5, Replied
  <2>2. LinkTypeOK'
    BY <1>0, <1>5, <2>1 DEF LinkTypeOK, CallRecord, requestVars
  <2> QED
    BY <1>5, <2>1, <2>2 DEF StepSound
<1>6. ASSUME NEW answers \in SUBSET ExStatus, x \in Request, Reply(c, x, answers),
             \A s \in answers \ {"awaiting"} : StillTrue(x, s),
             UNCHANGED <<requestVars, exchangeVars, lapsed>>
      PROVE  StepSound
  <2>1. \A y \in Request : RowStep(y)
    BY <1>6 DEF LinkInv, RowStep, Story, Advance, requestVars, exchangeVars
  <2>2. \A s \in answers \ {"awaiting"} : StillTrue(x, s)'
    BY <1>6 DEF StillTrue, exchangeVars
  <2> QED
    BY <1>0, <1>5, <1>6, <2>1, <2>2 DEF LinkTypeOK, requestVars, exchangeVars
<1>7. ASSUME NEW y \in Request, NEW op \in {"status", "evidence", "guide", "service"},
             NEW to \in {"none"} \cup Wanted \cup {"active", "revoked"}, Load(c, op, y, to),
             op = "guide" => to \in {"active", "revoked"}, op = "service" => to \in Wanted
      PROVE  StepSound
  <2> DEFINE k == [pc |-> "loaded", op |-> op, about |-> y, to |-> to,
                   seen |-> exStatus[y], late |-> FALSE]
  <2>1. /\ call' = [call EXCEPT ![c] = k] /\ exStatus[y] # "none"
        /\ UNCHANGED <<requestVars, exchangeVars, lapsed, told>>
    BY <1>7 DEF Load
  <2>2. k \in CallRecord
    <3>1. exStatus[y] \in ExStatus
      BY <1>0 DEF LinkTypeOK
    <3>2. y \in 0..MaxRequests
      BY BoundAssumption DEF BoundAssumption, Request
    <3>3. to \in ExStatus
      BY WantedAssumption DEF WantedAssumption, ExStatus
    <3> QED
      BY <3>1, <3>2, <3>3 DEF CallRecord
  <2>3. call'[c] = k
    BY <1>0, <2>1 DEF LinkTypeOK
  <2>4. StillTrue(y, exStatus[y])
    BY <2>1, RowIsTrue DEF LinkInv
  <2>5. PICK s : s = exStatus[y]
    OBVIOUS
  <2>6. CallSound(c)'
    <3>1. StillTrue(y, s)'
      BY <2>1, <2>4, <2>5 DEF StillTrue, exchangeVars
    <3>2. call'[c].about = y /\ call'[c].seen = s /\ call'[c].op = op /\ call'[c].to = to
      BY <2>3, <2>5
    <3>3. StillTrue(call[c].about, call[c].seen)'
      BY <3>1, <3>2 DEF StillTrue
    <3> QED
      BY <1>7, <3>2, <3>3, WantedAssumption DEF CallSound, WantedAssumption
  <2> HIDE DEF k
  <2> QED
    BY <1>4, <2>1, <2>2, <2>6
<1>8. ASSUME ReadClock(c)
      PROVE  StepSound
  <2>0. PICK late \in BOOLEAN : late = (<<"exchange", x>> \in lapsed)
    <3>1. (<<"exchange", x>> \in lapsed) \in BOOLEAN
      OBVIOUS
    <3> QED
      BY <3>1
  <2> DEFINE e == [was EXCEPT !.pc = "timed"]
             k == [e EXCEPT !.late = late]
  <2>1. /\ call[c].pc = "loaded" /\ call' = [call EXCEPT ![c] = k]
        /\ UNCHANGED <<requestVars, exchangeVars, lapsed, told>>
    BY <1>8, <1>0, <1>2, <2>0 DEF ReadClock, LinkTypeOK
  <2>2. k \in CallRecord
    <3>1. e \in CallRecord
      BY <1>2 DEF CallRecord
    <3> HIDE DEF e
    <3> QED
      BY <3>1 DEF CallRecord
  <2>3. /\ call'[c].pc = "timed" /\ call'[c].about = x /\ call'[c].seen = seen
        /\ call'[c].op = call[c].op /\ call'[c].to = call[c].to
    BY <1>0, <1>2, <2>1 DEF LinkTypeOK, CallRecord
  <2>4. CallSound(c)'
    <3>1. StillTrue(x, seen) /\ x \in Request
      BY <1>2, <1>3, <2>1
    <3>2. StillTrue(call[c].about, call[c].seen)'
      BY <2>1, <2>3, <3>1 DEF StillTrue, exchangeVars
    <3> QED
      BY <1>2, <2>1, <2>3, <3>1, <3>2 DEF LinkInv, CallSound
  <2> HIDE DEF k
  <2> QED
    BY <1>4, <2>1, <2>2, <2>4
<1>9. ASSUME ExpireAwaiting(c), exStatus[x] = "awaiting"
      PROVE  StepSound
  <2> DEFINE k == [was EXCEPT !.seen = "expired"]
  <2>1. /\ call[c].pc = "timed" /\ call[c].op # "service" /\ call' = [call EXCEPT ![c] = k]
        /\ exStatus' = [exStatus EXCEPT ![x] = "expired"]
        /\ UNCHANGED <<requestVars, exMember, evidence, lapsed, told>>
    BY <1>9, <1>2, <1>0 DEF ExpireAwaiting, LinkTypeOK
  <2>2. k \in CallRecord
    BY <1>2 DEF CallRecord, ExStatus
  <2>3. x \in Request /\ reqStatus[x] = "consumed"
    BY <1>2, <1>3, <2>1
  <2>4. Moved(x, "expired", TRUE)
    BY <1>0, <1>9, <2>1, <2>3 DEF Moved, LinkTypeOK, Evidenced, requestVars
  <2>5. /\ exStatus' \in [Request -> ExStatus] /\ \A y \in Request : RowStep(y)
        /\ StillTrue(x, "expired")'
    BY <2>1, <2>3, <2>4, RowMoved DEF requestVars
  <2>6. /\ call'[c].about = x /\ call'[c].seen = "expired"
        /\ call'[c].op = call[c].op /\ call'[c].to = call[c].to
    BY <1>0, <1>2, <2>1 DEF LinkTypeOK, CallRecord
  <2>7. CallSound(c)'
    <3>1. StillTrue(call[c].about, call[c].seen)'
      BY <2>5, <2>6 DEF StillTrue
    <3> QED
      BY <2>1, <2>3, <2>6, <3>1 DEF LinkInv, CallSound
  <2> HIDE DEF k
  <2>8. call' \in [Caller -> CallRecord] /\ \A d \in Caller : CallStep(d)
    BY <2>1, <2>2, <2>7, OneCall
  <2>9. LinkTypeOK'
    BY <1>0, <2>1, <2>5, <2>8 DEF LinkTypeOK, CallRecord, requestVars
  <2> QED
    BY <2>1, <2>5, <2>8, <2>9 DEF StepSound, AnswerStep
<1>10. ASSUME ExpireAwaiting(c), exStatus[x] # "awaiting"
       PROVE  StepSound
  <2> DEFINE k == [was EXCEPT !.seen = exStatus[x]]
  <2>1. /\ call[c].pc = "timed" /\ call[c].op # "service" /\ call' = [call EXCEPT ![c] = k]
        /\ UNCHANGED <<requestVars, exchangeVars, lapsed, told>>
    BY <1>10, <1>2, <1>0 DEF ExpireAwaiting, LinkTypeOK, exchangeVars
  <2>2. x \in Request /\ exStatus[x] \in ExStatus /\ exStatus[x] # "none" /\ Story(x)
    BY <1>2, <1>3, <2>1
  <2>3. k \in CallRecord
    BY <1>2, <2>2 DEF CallRecord
  <2>4. /\ call'[c].about = x /\ call'[c].seen = exStatus[x]
        /\ call'[c].op = call[c].op /\ call'[c].to = call[c].to
    BY <1>0, <1>2, <2>1 DEF LinkTypeOK, CallRecord
  <2>5. StillTrue(x, exStatus[x])
    BY <2>2, RowIsTrue
  <2>6. CallSound(c)'
    <3>1. StillTrue(call[c].about, call[c].seen)'
      BY <2>1, <2>4, <2>5 DEF StillTrue, exchangeVars
    <3> QED
      BY <2>1, <2>2, <2>4, <3>1 DEF LinkInv, CallSound
  <2> HIDE DEF k
  <2> QED
    BY <1>4, <2>1, <2>3, <2>6
<1>11. ASSUME AnswerStatus(c)
       PROVE  StepSound
  <2>1. /\ call[c].pc = "timed" /\ Reply(c, x, {seen})
        /\ UNCHANGED <<requestVars, exchangeVars, lapsed>>
    BY <1>11, <1>2 DEF AnswerStatus, Decided
  <2>2. x \in Request /\ {seen} \in SUBSET ExStatus /\ StillTrue(x, seen)
    BY <1>2, <1>3, <2>1
  <2> QED
    BY <1>6, <2>1, <2>2
<1>12. ASSUME AnswerEvidence(c)
       PROVE  StepSound
  <2> DEFINE answers == IF seen \in Evidenced THEN CurrentEvidence(x) ELSE {}
  <2>1. /\ call[c].pc = "timed" /\ Reply(c, x, answers)
        /\ UNCHANGED <<requestVars, exchangeVars, lapsed>>
    BY <1>12, <1>2 DEF AnswerEvidence, Decided
  <2>2. x \in Request /\ exStatus[x] \in ExStatus /\ StillTrue(x, exStatus[x])
    BY <1>2, <1>3, <2>1, RowIsTrue
  <2>3. answers \subseteq {exStatus[x]}
    BY DEF CurrentEvidence
  <2> HIDE DEF answers
  <2> QED
    BY <1>6, <2>1, <2>2, <2>3
<1>13. ASSUME GuideTransition(c)
       PROVE  StepSound
  <2> DEFINE to == was.to
             late == was.late
  <2>1. /\ call[c].pc = "timed" /\ call[c].op = "guide" /\ ~FindsLapsed(c)
        /\ seen \in AllowedFrom(to) /\ Swap(x, seen, to, late) /\ Reply(c, x, {to})
        /\ UNCHANGED <<requestVars, exMember, lapsed>>
    BY <1>13, <1>2 DEF GuideTransition, Decided
  <2>2. x \in Request /\ reqStatus[x] = "consumed" /\ late \in BOOLEAN
    BY <1>2, <1>3, <2>1 DEF CallRecord
  <2>3. to \in {"active", "revoked"}
    BY <1>2, <2>1 DEF LinkInv, CallSound
  <2>4. Moved(x, to, late)
    BY <1>2, <2>1, <2>2, <2>3 DEF Moved, Swap, AllowedFrom, FindsLapsed, Evidenced, requestVars
  <2>5. {to} \in SUBSET ExStatus
    BY <2>3 DEF ExStatus
  <2>6. /\ exStatus' \in [Request -> ExStatus]
        /\ evidence' \in [Request -> SUBSET [status : Evidenced, late : BOOLEAN]]
        /\ \A y \in Request : RowStep(y)
        /\ StillTrue(x, to)'
    BY <2>1, <2>2, <2>4, RowMoved DEF requestVars
  <2> QED
    BY <1>5, <2>1, <2>2, <2>5, <2>6
<1>14. ASSUME GuideAnswered(c)
       PROVE  StepSound
  <2> DEFINE to == was.to
             same == seen = to \/ (seen \in AllowedFrom(to) /\ exStatus[x] = to)
             answers == IF same THEN {to} ELSE {}
  <2>1. /\ call[c].pc = "timed" /\ call[c].op = "guide" /\ Reply(c, x, answers)
        /\ UNCHANGED <<requestVars, exchangeVars, lapsed>>
    BY <1>14, <1>2 DEF GuideAnswered, Decided
  <2>2. x \in Request /\ StillTrue(x, seen) /\ StillTrue(x, exStatus[x])
    BY <1>2, <1>3, <2>1, RowIsTrue
  <2>3. answers \in SUBSET ExStatus /\ \A s \in answers : StillTrue(x, s)
    BY <1>2, <2>2 DEF CallRecord
  <2> HIDE DEF answers
  <2> QED
    BY <1>6, <2>1, <2>2, <2>3
<1>15. ASSUME ServiceTransition(c)
       PROVE  StepSound
  <2> DEFINE to == IF seen = "awaiting" /\ was.late THEN "expired" ELSE was.to
             late == was.late
  <2>1. /\ call[c].pc = "timed" /\ call[c].op = "service"
        /\ UNCHANGED <<requestVars, exMember, lapsed>>
        /\ \/ /\ <<seen, call[c].to>> \in ServiceMoves /\ exStatus[x] = seen
              /\ Swap(x, seen, to, late) /\ Reply(c, x, {to})
           \/ Reply(c, x, {}) /\ UNCHANGED <<exStatus, evidence>>
    BY <1>15, <1>2 DEF ServiceTransition, FindsLapsed
  <2>2. x \in Request /\ reqStatus[x] = "consumed" /\ late \in BOOLEAN
    BY <1>2, <1>3, <2>1 DEF CallRecord
  <2>3. ASSUME <<seen, call[c].to>> \in ServiceMoves, exStatus[x] = seen,
               Swap(x, seen, to, late), Reply(c, x, {to})
        PROVE  StepSound
    <3>1. Moved(x, to, late)
      BY <1>2, <2>1, <2>2, <2>3 DEF Moved, Swap, ServiceMoves, FindsLapsed, Evidenced, requestVars
    <3>2. {to} \in SUBSET ExStatus
      BY <1>2 DEF CallRecord, ExStatus
    <3> HIDE DEF to
    <3>3. /\ exStatus' \in [Request -> ExStatus]
          /\ evidence' \in [Request -> SUBSET [status : Evidenced, late : BOOLEAN]]
          /\ \A y \in Request : RowStep(y)
          /\ StillTrue(x, to)'
      BY <2>1, <2>2, <3>1, RowMoved DEF requestVars
    <3> QED
      BY <1>5, <2>1, <2>2, <2>3, <3>2, <3>3
  <2>4. ASSUME Reply(c, x, {}), UNCHANGED <<exStatus, evidence>>
        PROVE  StepSound
    BY <1>6, <2>1, <2>2, <2>4 DEF exchangeVars
  <2> QED
    BY <2>1, <2>3, <2>4
<1> QED
  BY <1>1, <1>7, <1>8, <1>9, <1>10, <1>11, <1>12, <1>13, <1>14, <1>15

LEMMA ProfileSteps ==
  ASSUME LinkInv, NEW g \in Guide, NEW m \in Membership, CreateProfileLink(g, m)
  PROVE  StepSound
<1>0. LinkTypeOK
  BY DEF LinkInv
<1>1. CASE ProfileLinkExists(g, m)
  <2>1. PICK x \in Request : /\ exStatus[x] = "active"
                             /\ told' = [told EXCEPT ![x] = @ \cup {"active"}]
                             /\ UNCHANGED <<requestVars, exchangeVars, lapsed, call>>
    BY <1>1 DEF ProfileLinkExists, ActiveOn
  <2>2. told' \in [Request -> SUBSET (ExStatus \ {"awaiting"})]
    BY <1>0, <2>1 DEF LinkTypeOK, ExStatus
  <2>3. LinkTypeOK'
    BY <1>0, <2>1, <2>2 DEF LinkTypeOK, requestVars, exchangeVars
  <2>4. \A y \in Request : RowStep(y)
    BY <2>1 DEF LinkInv, RowStep, Story, Advance, requestVars, exchangeVars
  <2>5. StillTrue(x, "active")'
    BY <2>1 DEF LinkInv, Story, StillTrue, exchangeVars
  <2>6. \A y \in Request : AnswerStep(y)
    BY <1>0, <2>1, <2>5 DEF AnswerStep, LinkTypeOK
  <2> QED
    BY <2>1, <2>3, <2>4, <2>6 DEF StepSound, CallStep
<1>2. ASSUME NEW x \in Request, Activate(x, FALSE), exStatus[x] \in {"none", "awaiting"},
             reqStatus'[x] = "consumed",
             \A y \in Request : reqStatus[y] = "consumed" => reqStatus'[y] = "consumed",
             reqStatus' \in [Request -> ReqStatus],
             reqGuide' \in [Request -> Guide \cup {NoGuide}],
             exMember' \in [Request -> Membership \cup {NoMembership}],
             grants' \in [Request -> Nat],
             UNCHANGED <<lapsed, call>>
      PROVE  StepSound
  <2>1. Moved(x, "active", FALSE)
    BY <1>2 DEF Activate, Moved, Evidenced
  <2>2. /\ exStatus' \in [Request -> ExStatus]
        /\ evidence' \in [Request -> SUBSET [status : Evidenced, late : BOOLEAN]]
        /\ \A y \in Request : RowStep(y)
        /\ StillTrue(x, "active")'
    BY <1>2, <2>1, RowMoved
  <2>3. told' \in [Request -> SUBSET (ExStatus \ {"awaiting"})]
    BY <1>0, <1>2 DEF Activate, LinkTypeOK, ExStatus
  <2>4. LinkTypeOK'
    BY <1>0, <1>2, <2>2, <2>3 DEF LinkTypeOK
  <2>5. \A y \in Request : AnswerStep(y)
    BY <1>0, <1>2, <2>2 DEF Activate, AnswerStep, LinkTypeOK
  <2> QED
    BY <1>2, <2>2, <2>4, <2>5 DEF StepSound, CallStep
<1>3. CASE ProfileLinkRecovers(g, m)
  <2>1. PICK past \in SUBSET lapsed, x \in Request :
          /\ exStatus[x] = "awaiting" /\ <<"exchange", x>> \notin past
          /\ Activate(x, <<"exchange", x>> \in past)
          /\ UNCHANGED <<requestVars, exMember, lapsed, call>>
    BY <1>3 DEF ProfileLinkRecovers, Recoverable
  <2>2. Activate(x, FALSE)
    <3>1. (<<"exchange", x>> \in past) = FALSE
      BY <2>1
    <3> QED
      BY <2>1, <3>1, Zenon
  <2>3. reqStatus[x] = "consumed"
    BY <2>1 DEF LinkInv, Story
  <2> QED
    BY <1>0, <1>2, <2>1, <2>2, <2>3 DEF LinkTypeOK, requestVars
<1>4. CASE ProfileLinkCreates(g, m)
  <2>1. PICK x \in Request : /\ NextRequest(x)
                             /\ reqStatus' = WithNewRequest(x, g, "consumed")
                             /\ reqGuide' = [reqGuide EXCEPT ![x] = g]
                             /\ grants' = [grants EXCEPT ![x] = @ + 1]
                             /\ exMember' = [exMember EXCEPT ![x] = m]
                             /\ Activate(x, FALSE)
                             /\ UNCHANGED <<lapsed, call>>
    BY <1>4 DEF ProfileLinkCreates
  <2>2. exStatus[x] = "none"
    BY <2>1 DEF NextRequest, LinkInv, Story
  <2>3. reqStatus' \in [Request -> ReqStatus]
    BY <1>0, <2>1 DEF LinkTypeOK, WithNewRequest, ReqStatus
  <2>4. /\ reqStatus'[x] = "consumed"
        /\ \A y \in Request : reqStatus[y] = "consumed" => reqStatus'[y] = "consumed"
    BY <2>1 DEF WithNewRequest, IssuedTo
  <2>5. /\ reqGuide' \in [Request -> Guide \cup {NoGuide}]
        /\ exMember' \in [Request -> Membership \cup {NoMembership}]
    BY <1>0, <2>1 DEF LinkTypeOK
  <2>6. grants' \in [Request -> Nat]
    BY <1>0, <2>1 DEF LinkTypeOK
  <2> QED
    BY <1>2, <2>1, <2>2, <2>3, <2>4, <2>5, <2>6
<1> QED
  BY <1>1, <1>3, <1>4 DEF CreateProfileLink

(* The invariant is inductive. *)
LEMMA NextLinkInv == LinkInv /\ [LinkNext]_linkVars => LinkInv'
<1> SUFFICES ASSUME LinkInv, [LinkNext]_linkVars
             PROVE  LinkInv'
  OBVIOUS
<1>1. CASE LinkNext
  <2>1. ASSUME NEW kind \in {"token", "exchange"}, NEW r \in Request, Lapse(kind, r)
        PROVE  StepSound
    <3>1. LinkTypeOK'
      BY <2>1 DEF LinkInv, LinkTypeOK, Lapse, requestVars, exchangeVars
    <3>2. \A x \in Request : RowStep(x) /\ AnswerStep(x)
      BY <2>1, RowsUntouched DEF Lapse, requestVars, exchangeVars
    <3> QED
      BY <2>1, <3>1, <3>2 DEF StepSound, CallStep, Lapse
  <2>2. StepSound
    BY <1>1, <2>1, TokenSteps, CallSteps, ProfileSteps DEF LinkNext
  <2> QED
    BY <2>2, InvFromSteps DEF StepSound
<1>2. CASE UNCHANGED linkVars
  BY <1>2 DEF linkVars, requestVars, exchangeVars, LinkInv, LinkTypeOK, Story, StillTrue, CallSound
<1> QED
  BY <1>1, <1>2

(* The exchange's tables, and what its callers know of them, keep to       *)
(* LinkInv.                                                                *)
THEOREM LinkInvHolds == LinkSpec => []LinkInv
<1>1. LinkInit => LinkInv
  BY InitLinkInv
<1>2. LinkInv /\ [LinkNext]_linkVars => LinkInv'
  BY NextLinkInv
<1> QED
  BY <1>1, <1>2, PTL DEF LinkSpec

(* However callers cross, an exchange's evidence rows are the statuses it  *)
(* has had (guide_shop_link_exchange_evidence).                            *)
THEOREM EvidenceAlwaysTells == LinkSpec => []EvidenceTellsHistory
<1>1. ASSUME LinkInv, NEW x \in Request
      PROVE  /\ exStatus[x] \in {"none", "awaiting", "expired"} => Recorded(x) = {}
             /\ exStatus[x] = "active" => Recorded(x) = {"active"}
             /\ exStatus[x] = "conflict" => Recorded(x) = {"conflict"}
             /\ exStatus[x] = "revoked" => Recorded(x) \in {{"revoked"}, {"active", "revoked"}}
             /\ \A d, e \in evidence[x] : d.status = e.status => d = e
  <2>1. Story(x) /\ exStatus[x] \in ExStatus
    BY <1>1 DEF LinkInv, LinkTypeOK
  <2>2. CASE exStatus[x] \in {"none", "awaiting", "expired"}
    BY <2>1, <2>2 DEF Story, Recorded
  <2>3. CASE exStatus[x] \in {"active", "conflict"}
    <3>1. evidence[x] = {Evidence(exStatus[x], FALSE)}
      BY <2>1, <2>3 DEF Story
    <3> QED
      BY <2>3, <3>1 DEF Recorded, Evidence
  <2>4. CASE exStatus[x] = "revoked"
    <3>1. CASE evidence[x] = {Evidence("revoked", FALSE)}
      BY <2>4, <3>1 DEF Recorded, Evidence
    <3>2. ASSUME NEW late \in BOOLEAN,
                 evidence[x] = {Evidence("active", FALSE), Evidence("revoked", late)}
          PROVE  /\ Recorded(x) = {"active", "revoked"}
                 /\ \A d, e \in evidence[x] : d.status = e.status => d = e
      BY <3>2 DEF Recorded, Evidence
    <3> QED
      BY <2>1, <2>4, <3>1, <3>2 DEF Story
  <2> QED
    BY <2>1, <2>2, <2>3, <2>4 DEF ExStatus
<1>2. LinkInv => EvidenceTellsHistory
  BY <1>1 DEF EvidenceTellsHistory
<1> QED
  BY <1>2, LinkInvHolds, PTL

(* An answer given from a row read earlier is not overtaken (get_status,   *)
(* confirm_for_guide, get_evidence).                                       *)
THEOREM AnswersAlwaysHold == LinkSpec => []AnswersHold
<1>1. LinkInv => AnswersHold
  BY DEF LinkInv, StillTrue, AnswersHold, Recorded, Evidence
<1> QED
  BY <1>1, LinkInvHolds, PTL

(* Whichever call activates an exchange, the time it records is inside the *)
(* window; the write itself may be later.                                  *)
THEOREM AlwaysDatedInTime == LinkSpec => []ActivationsDatedInTime
<1>1. LinkInv => ActivationsDatedInTime
  BY DEF LinkInv, LinkTypeOK, Story, ActivationsDatedInTime, Evidence, ExStatus
<1> QED
  BY <1>1, LinkInvHolds, PTL

----------------------------------------------------------------------------
(* The link tokens are one-time tokens.                                    *)

StatusMoves == {<<"none", "issued">>, <<"none", "consumed">>,
                <<"issued", "consumed">>, <<"issued", "revoked">>}

TokenMove ==
  /\ \A r \in Request : reqStatus'[r] # reqStatus[r] => <<reqStatus[r], reqStatus'[r]>> \in StatusMoves
  /\ grants' = [r \in Request |->
       IF reqStatus[r] # "consumed" /\ reqStatus'[r] = "consumed" THEN grants[r] + 1 ELSE grants[r]]

LEMMA NoTokenMove ==
  ASSUME LinkInv, UNCHANGED requestVars
  PROVE  TokenMove
BY DEF LinkInv, LinkTypeOK, requestVars, TokenMove

(* A row that can be spent is, and is counted. *)
LEMMA SpendMoves ==
  ASSUME LinkInv, NEW r \in Request, reqStatus[r] = "issued", Spend(r)
  PROVE  TokenMove
<1>0. LinkTypeOK
  BY DEF LinkInv
<1>1. /\ reqStatus'[r] = "consumed" /\ grants'[r] = grants[r] + 1
      /\ \A s \in Request : s # r => reqStatus'[s] = reqStatus[s] /\ grants'[s] = grants[s]
  BY <1>0 DEF LinkTypeOK, Spend
<1>2. grants' \in [Request -> Nat]
  BY <1>0 DEF LinkTypeOK, Spend
<1> QED
  BY <1>0, <1>1, <1>2 DEF LinkTypeOK, TokenMove, StatusMoves

(* A new row comes in with the status it is given and withdraws others. *)
LEMMA NewRequestMoves ==
  ASSUME LinkInv, NEW r \in Request, NEW g \in Guide, NEW status \in {"issued", "consumed"},
         NextRequest(r), reqStatus' = WithNewRequest(r, g, status),
         grants' = IF status = "consumed" THEN [grants EXCEPT ![r] = @ + 1] ELSE grants
  PROVE  TokenMove
<1>0. LinkTypeOK
  BY DEF LinkInv
<1>1. /\ reqStatus[r] = "none" /\ reqStatus'[r] = status
      /\ \A s \in Request : s # r => \/ reqStatus'[s] = reqStatus[s]
                                     \/ reqStatus[s] = "issued" /\ reqStatus'[s] = "revoked"
  BY DEF NextRequest, WithNewRequest, IssuedTo
<1>2. grants' = [s \in Request |->
        IF s = r /\ status = "consumed" THEN grants[s] + 1 ELSE grants[s]]
  BY <1>0 DEF LinkTypeOK
<1>3. \A s \in Request : (reqStatus[s] # "consumed" /\ reqStatus'[s] = "consumed")
                           <=> (s = r /\ status = "consumed")
  BY <1>1
<1> QED
  BY <1>1, <1>2, <1>3 DEF TokenMove, StatusMoves

LEMMA LinkMovesTokens ==
  ASSUME LinkInv, LinkNext
  PROVE  TokenMove
<1>0. LinkTypeOK
  BY DEF LinkInv
<1>1. ASSUME NEW g \in Guide, IssueToken(g)
      PROVE  TokenMove
  BY <1>1, NewRequestMoves DEF IssueToken
<1>2. ASSUME NEW g \in Guide, RevokeRequests(g)
      PROVE  TokenMove
  BY <1>0, <1>2 DEF LinkTypeOK, RevokeRequests, IssuedTo, TokenMove, StatusMoves
<1>3. ASSUME NEW c \in Caller, ConsumeToken(c)
      PROVE  TokenMove
  <2>1. call[c].about \in Request
    BY <1>3 DEF ConsumeToken, LinkInv, CallSound
  <2> QED
    BY <1>3, <2>1, SpendMoves, NoTokenMove DEF ConsumeToken, Spendable
<1>4. ASSUME NEW r \in Request, NEW m \in Membership, CreateExchange(r, m)
      PROVE  TokenMove
  BY <1>4, SpendMoves DEF CreateExchange, Spendable
<1>5. ASSUME NEW g \in Guide, NEW m \in Membership, ProfileLinkCreates(g, m)
      PROVE  TokenMove
  BY <1>5, NewRequestMoves DEF ProfileLinkCreates
<1>6. CASE UNCHANGED requestVars
  BY <1>6, NoTokenMove
<1>7. TokenNext => TokenMove \/ UNCHANGED requestVars
  BY <1>1, <1>2, <1>3, <1>4 DEF TokenNext, CheckToken
<1>8. CallNext => UNCHANGED requestVars
  BY DEF CallNext, Load, GetStatus, GetEvidence, ConfirmForGuide, RevokeForGuide, Transition,
         ReadClock, ExpireAwaiting, AnswerStatus, AnswerEvidence, GuideTransition, GuideAnswered,
         ServiceTransition
<1>9. ASSUME NEW g \in Guide, NEW m \in Membership, CreateProfileLink(g, m)
      PROVE  TokenMove
  BY <1>5, <1>6, <1>9 DEF CreateProfileLink, ProfileLinkExists, ProfileLinkRecovers
<1> QED
  BY <1>6, <1>7, <1>8, <1>9 DEF LinkNext, Lapse

LEMMA TokenMoveIsOneTime ==
  ASSUME LinkInv, LinkInv', TokenMove
  PROVE  Tokens!Next
<1>1. /\ \A r \in Request : reqStatus[r] \in ReqStatus /\ reqStatus'[r] \in ReqStatus
  BY DEF LinkInv, LinkTypeOK
<1>2. ASSUME NEW a \in ReqStatus, NEW b \in ReqStatus
      PROVE  /\ TokenState[a] # TokenState[b] => a # b
             /\ <<a, b>> \in StatusMoves => <<TokenState[a], TokenState[b]>> \in Tokens!Moves
             /\ TokenState[a] = "used" <=> a = "consumed"
  BY DEF ReqStatus, TokenState, StatusMoves, Tokens!Moves
<1> QED
  BY <1>1, <1>2 DEF TokenMove, Tokens!Next

(* However the three ways of spending a link token race, it is spent once  *)
(* (consume_link_token, create_exchange, create_profile_link).             *)
THEOREM LinkTokensOneTime == LinkSpec => TokensOneTime
<1>1. LinkInit => Tokens!Init
  BY DEF LinkInit, RequestsInit, Tokens!Init, TokenState
<1>2. LinkInv /\ LinkInv' /\ [LinkNext]_linkVars
        => [Tokens!Next]_<<[r \in Request |-> TokenState[reqStatus[r]]], grants>>
  BY LinkMovesTokens, TokenMoveIsOneTime DEF linkVars, requestVars
<1> QED
  BY <1>1, <1>2, LinkInvHolds, PTL DEF LinkSpec, TokensOneTime, Tokens!Spec
=============================================================================
