-------------------------- MODULE NFSession_proofs --------------------------
(***************************************************************************)
(* The forwarder's session, for every size of the sequence number space,   *)
(* every set of lifetimes and every number of objects.                     *)
(***************************************************************************)
EXTENDS NFSession, Session_proofs

-----------------------------------------------------------------------------
(* Messages *)

LEMMA CreateIsMessage ==
    ASSUME NEW c \in Creates
    PROVE  /\ c \in Message /\ c.kind = "CREATE" /\ c.dir = "down"
           /\ c.msn \in MSNs /\ c.lifetime \in Lifetimes
<1>1. PICK m \in MSNs, l \in Lifetimes : c = Request("CREATE", "down", m, l)
    BY DEF Creates
<1> QED BY <1>1, RequestIsMessage

LEMMA RefreshIsMessage ==
    ASSUME NEW q \in Refreshes
    PROVE  q \in Message /\ q.kind = "REFRESH" /\ q.msn \in MSNs /\ q.lifetime \in Lifetimes
<1>1. PICK m \in MSNs, l \in Lifetimes : q = Request("REFRESH", "down", m, l)
    BY DEF Refreshes
<1> QED BY <1>1, RequestIsMessage

LEMMA BiddingIsMessage ==
    ASSUME NEW b \in Biddings
    PROVE  b \in Message
<1>1. PICK d \in {"down", "up"} : b = Request("BIDDING", d, 0, 0)
    BY DEF Biddings
<1>2. 0 \in MSNs
    BY LIMITAssumption DEF MSNs
<1> QED BY <1>1, <1>2, RequestIsMessage, ZeroLifetime

LEMMA AnsweredIsMessage ==
    ASSUME NEW r \in Answered
    PROVE  r \in Message /\ r.kind = "RESPONSE" /\ r.dir = "up"
BY DEF Answered, Responses

\* The CREATE passed on is one and asks for no longer lifetime than the one received.
LEMMA BuiltCreate ==
    ASSUME NEW c \in Message, NEW l \in Lifetimes
    PROVE  /\ build_create_message(c, l) \in Message
           /\ build_create_message(c, l).kind = "CREATE"
<1>1. c.msn \in MSNs /\ c.lifetime \in Lifetimes
    BY DEF Message
<1>2. (IF l <= c.lifetime THEN l ELSE c.lifetime) \in Lifetimes
    BY <1>1
<1> QED BY <1>1, <1>2, RequestIsMessage DEF build_create_message

LEMMA BuiltTeardown ==
    ASSUME NEW m \in MSNs
    PROVE  /\ build_teardown_message(m) \in Message
           /\ build_teardown_message(m).kind = "REFRESH"
           /\ build_teardown_message(m).dir = "down"
           /\ build_teardown_message(m).lifetime = 0
BY NextNumber, RequestIsMessage, ZeroLifetime DEF build_teardown_message

-----------------------------------------------------------------------------
(* The inductive invariant *)

\* A pending session keeps the CREATE it is about, and once the RESPONSE to it has
\* come and the installation is under way, a successful RESPONSE to just that CREATE.
CreateKept == InPending => create_message \in Message /\ create_message.dir = "down"

ResponseKept ==
    In("PENDING_INSTALLING") =>
        /\ response_message \in Message
        /\ response_message.ok
        /\ response_message.msn = create_message.msn

\* No object is recorded as installed before the installation was confirmed.
NothingHeldYet == fate = "new" \/ InPending => rule.responses = 0

IInv ==
    /\ TypeOK
    /\ TimerGuardsState
    /\ CreateKept
    /\ ResponseKept
    /\ NothingHeldYet

LEMMA IInvInit == Init => IInv
<1> SUFFICES ASSUME Init PROVE IInv
    OBVIOUS
<1> USE DEF Init, SessionInit
<1>0. outdated \in BOOLEAN /\ awaiting \in BOOLEAN
    OBVIOUS
<1>1. TypeOK
    BY <1>0, EmptyRuleIsRule, ZeroLifetime, LIMITAssumption
       DEF TypeOK, SessionTypeOK, States, Fates, MSNs
<1> QED
    BY <1>1, EmptyRuleIsRule
       DEF IInv, TimerGuardsState, CreateKept, ResponseKept, NothingHeldYet, InPending, In

-----------------------------------------------------------------------------
(* What the actions have in common *)

LEMMA DiscardPreserves == IInv /\ Discard /\ UNCHANGED nf => IInv'
BY DEF IInv, TypeOK, SessionTypeOK, TimerGuardsState, CreateKept, ResponseKept,
       NothingHeldYet, InPending, In, Discard, nf

LEMMA ThrowPreserves ==
    ASSUME IInv, NEW sent \in SUBSET Message, Throw(sent), UNCHANGED nf
    PROVE  IInv'
BY DEF IInv, TypeOK, SessionTypeOK, TimerGuardsState, CreateKept, ResponseKept,
       NothingHeldYet, InPending, In, Throw, Fates, nf

LEMMA AbortPreserves == IInv /\ Abort /\ UNCHANGED nf => IInv'
BY DEF IInv, TypeOK, SessionTypeOK, TimerGuardsState, CreateKept, ResponseKept,
       NothingHeldYet, InPending, In, Abort, Fates, nf

\* A step into STATE_ANSLP_CLOSE: what is left to show are the types.
LEMMA ClosePreserves ==
    ASSUME IInv, Return("CLOSE"), lifetime' \in Lifetimes, msn' \in MSNs, rule' \in Rule,
           armed' \subseteq {"state", "response"}, outdated' \in BOOLEAN,
           out' \subseteq Message, posted' \subseteq {"check", "install", "interact", "remove"},
           create_message' \in Message \cup {Null}, awaiting' \in BOOLEAN,
           UNCHANGED <<refresh_message, response_message>>
    PROVE  IInv'
BY DEF IInv, TypeOK, SessionTypeOK, TimerGuardsState, CreateKept, ResponseKept,
       NothingHeldYet, InPending, In, Return, Fates, States

\* The CREATE that opens the session, or opens it again.
LEMMA ProcessCreatePreserves ==
    ASSUME IInv, fate = "new" \/ InPending,
           NEW c \in Creates, NEW n \in 0 .. MaxObjects, NEW l \in Lifetimes, NEW selected,
           ProcessCreate(c, n, l, selected)
    PROVE  IInv'
<1> USE DEF IInv, TypeOK, SessionTypeOK
<1>1. outdated' \in BOOLEAN
    BY TimersBoolean DEF ProcessCreate
<1>2. posted' \subseteq {"check", "install", "interact", "remove"}
    BY DEF ProcessCreate, Post, NoPost
<1>3. rule' \in Rule /\ rule'.responses = 0
    BY DEF ProcessCreate, Rule, NothingHeldYet
<1>4. build_create_message(c, l) \in Message
    BY BuiltCreate, CreateIsMessage
<1>5. out' \subseteq Message
    BY <1>4 DEF ProcessCreate, Send
<1>6. armed' \subseteq {"state", "response"} /\ "state" \in armed'
    BY DEF ProcessCreate, Timers
<1>7. fate' = "live" /\ state' \in {"PENDING_CHECK", "PENDING"}
    BY DEF ProcessCreate, Return
<1> QED
    BY <1>1, <1>2, <1>3, <1>5, <1>6, <1>7, CreateIsMessage
       DEF ProcessCreate, Fates, States, TimerGuardsState, CreateKept, ResponseKept,
           NothingHeldYet, InPending, In

LEMMA ProcessCreateFailsPreserves ==
    ASSUME IInv, NEW c \in Creates, NEW n \in 0 .. MaxObjects, NEW l \in Lifetimes,
           ProcessCreateFails(c, n, l)
    PROVE  IInv'
<1>1. rule' \in Rule
    BY DEF ProcessCreateFails, Rule, IInv, TypeOK, SessionTypeOK
<1>2. out' \subseteq Message
    BY CreateIsMessage, ErrorResponse DEF ProcessCreateFails, Send
<1> QED
    BY <1>1, <1>2, ClosePreserves, CreateIsMessage
       DEF ProcessCreateFails, IInv, TypeOK, SessionTypeOK

LEMMA UninstallPreserves ==
    ASSUME IInv, In("AUCTIONING"), NEW fired, NEW stopped, UninstallRule(fired, stopped),
           out' \subseteq Message, awaiting' \in BOOLEAN
    PROVE  IInv'
<1> USE DEF IInv, TypeOK, SessionTypeOK
<1>1. outdated' \in BOOLEAN
    BY TimersBoolean DEF UninstallRule
<1>2. posted' \subseteq {"check", "install", "interact", "remove"}
    BY DEF UninstallRule, Post, NoPost
<1>3. armed' \subseteq {"state", "response"}
    BY DEF UninstallRule, Timers
<1>4. TypeOK'
    BY <1>1, <1>2, <1>3 DEF UninstallRule, Return, Fates, States
<1>5. TimerGuardsState'
    BY DEF UninstallRule, Timers, Return, TimerGuardsState
<1> QED
    BY <1>4, <1>5
       DEF UninstallRule, Return, CreateKept, ResponseKept, NothingHeldYet, InPending,
           PendingStates, In
-----------------------------------------------------------------------------
(* One step per action *)

LEMMA UnreachablePreserves ==
    ASSUME IInv, NEW fired, PendingUnreachable(fired)
    PROVE  IInv'
<1> USE DEF IInv, TypeOK, SessionTypeOK
<1>1. outdated' \in BOOLEAN
    BY TimersBoolean DEF PendingUnreachable
<1>2. out' \subseteq Message
    BY ErrorResponse DEF PendingUnreachable, Send, CreateKept
<1>3. armed' \subseteq {"state", "response"}
    BY DEF PendingUnreachable, Timers
<1> QED BY <1>1, <1>2, <1>3, ClosePreserves DEF PendingUnreachable, nf

LEMMA IInvTimer == IInv /\ (StateTimer \/ ResponseTimer) => IInv'
<1> SUFFICES ASSUME IInv, StateTimer \/ ResponseTimer PROVE IInv'
    OBVIOUS
<1> USE DEF IInv, TypeOK, SessionTypeOK
<1>1. CASE PendingUnreachable({"state"})
    BY <1>1, UnreachablePreserves
<1>2. CASE AuctioningTimeout
    BY <1>2, UninstallPreserves DEF AuctioningTimeout, Send
<1>3. CASE TeardownTimeout
  <2>1. outdated' \in BOOLEAN
    BY <1>3, TimersBoolean DEF TeardownTimeout
  <2>2. armed' \subseteq {"state", "response"}
    BY <1>3 DEF TeardownTimeout, Timers
  <2> QED BY <1>3, <2>1, <2>2, ClosePreserves DEF TeardownTimeout, Send, nf
<1>4. CASE PendingResponseTimer \/ TeardownResponseTimer
    BY <1>4
       DEF PendingResponseTimer, TeardownResponseTimer, DropTimer, nf, TimerGuardsState,
           CreateKept, ResponseKept, NothingHeldYet, InPending, In
<1>5. CASE AuctioningUnanswered({"response"})
    BY <1>5, UninstallPreserves DEF AuctioningUnanswered, Unanswered, Send
<1> QED BY <1>1, <1>2, <1>3, <1>4, <1>5 DEF StateTimer, ResponseTimer

LEMMA IInvApi == IInv /\ Api => IInv'
<1> SUFFICES ASSUME IInv, Api PROVE IInv'
    OBVIOUS
<1> USE DEF IInv, TypeOK, SessionTypeOK
<1>1. ASSUME NEW a \in 0 .. MaxObjects, CheckPassed(a) PROVE IInv'
  <2>1. outdated' \in BOOLEAN
    BY <1>1, TimersBoolean DEF CheckPassed
  <2>2. PICK left \in CheckFilter(rule.requests, a) : rule' = [rule EXCEPT !.requests = left]
    BY <1>1 DEF CheckPassed
  <2>3. left \in 0 .. MaxObjects
    BY <1>1, FilterBound, BoundsAssumption DEF CheckPassed, CheckAnswered, Rule
  <2>4. rule' \in Rule /\ rule'.responses = rule.responses
    BY <2>2, <2>3 DEF Rule
  <2>5. InPending /\ create_message \in Message
    BY <1>1 DEF CheckPassed, CheckAnswered, CreateKept, InPending, PendingStates, In
  <2>6. out' \subseteq Message
    BY <1>1, <2>5, BuiltCreate DEF CheckPassed, Send
  <2>7. armed' \subseteq {"state", "response"} /\ "state" \in armed'
    BY <1>1 DEF CheckPassed, Timers
  <2> QED
    BY <1>1, <2>1, <2>4, <2>5, <2>6, <2>7
       DEF CheckPassed, Return, Fates, States, nf, TimerGuardsState, CreateKept,
           ResponseKept, NothingHeldYet, InPending, PendingStates, In
<1>2. ASSUME NEW a \in 0 .. MaxObjects, CheckCrashes(a) PROVE IInv'
    BY <1>2, AbortPreserves DEF CheckCrashes
<1>3. ASSUME NEW n \in 0 .. MaxObjects, InstallingInstalled(n) PROVE IInv'
  <2>1. outdated' \in BOOLEAN
    BY <1>3, TimersBoolean DEF InstallingInstalled
  <2>2. rule' \in Rule
    BY <1>3 DEF InstallingInstalled, set_reponse_objects, Rule
  <2>3. out' \subseteq Message
    BY <1>3 DEF InstallingInstalled, Send, ResponseKept
  <2>4. armed' \subseteq {"state", "response"} /\ "state" \in armed'
    BY <1>3 DEF InstallingInstalled, Timers
  <2> QED
    BY <1>3, <2>1, <2>2, <2>3, <2>4
       DEF InstallingInstalled, Return, Fates, States, nf, TimerGuardsState, CreateKept,
           ResponseKept, NothingHeldYet, InPending, PendingStates, In
<1>4. ASSUME NEW n \in 0 .. MaxObjects, InstallingMismatch(n) PROVE IInv'
  <2>1. outdated' \in BOOLEAN
    BY <1>4, TimersBoolean DEF InstallingMismatch
  <2>2. posted' \subseteq {"check", "install", "interact", "remove"}
    BY <1>4 DEF InstallingMismatch, Post, NoPost
  <2>3. response_message \in Message
    BY <1>4 DEF InstallingMismatch, ResponseKept
  <2>4. out' \subseteq Message
    BY <1>4, <2>3, ErrorResponse, BuiltTeardown DEF InstallingMismatch, Send
  <2>5. armed' \subseteq {"state", "response"}
    BY <1>4 DEF InstallingMismatch, Timers
  <2> QED
    BY <1>4, <2>1, <2>2, <2>4, <2>5, ClosePreserves, ZeroLifetime, NextNumber
       DEF InstallingMismatch, nf
<1>5. CASE TeardownRemoved
  <2>1. outdated' \in BOOLEAN
    BY <1>5, TimersBoolean DEF TeardownRemoved
  <2>2. armed' \subseteq {"state", "response"}
    BY <1>5 DEF TeardownRemoved, Timers
  <2> QED BY <1>5, <2>1, <2>2, ClosePreserves DEF TeardownRemoved, Send, nf
<1> QED BY <1>1, <1>2, <1>3, <1>4, <1>5 DEF Api

\* A CREATE that meets a pending session.
LEMMA IInvPendingCreate ==
    ASSUME IInv, NEW c \in Creates, NEW n \in 0 .. MaxObjects, NEW selected \in BOOLEAN,
           \/ PendingCreateTerminates(c) \/ PendingCreateRepeated(c)
           \/ PendingCreateReplaced(c, n, selected) \/ PendingCreateReplacedFails(c, n)
    PROVE  IInv'
<1> USE DEF IInv, TypeOK, SessionTypeOK
<1>1. CASE PendingCreateTerminates(c)
  <2>1. outdated' \in BOOLEAN
    BY <1>1, TimersBoolean DEF PendingCreateTerminates
  <2>2. armed' \subseteq {"state", "response"}
    BY <1>1 DEF PendingCreateTerminates, Timers
  <2> QED
    BY <1>1, <2>1, <2>2, ClosePreserves, CreateIsMessage DEF PendingCreateTerminates, Send, nf
<1>2. CASE PendingCreateRepeated(c)
  <2>1. outdated' \in BOOLEAN
    BY <1>2, TimersBoolean DEF PendingCreateRepeated
  <2>2. armed' \subseteq {"state", "response"} /\ "state" \in armed'
    BY <1>2 DEF PendingCreateRepeated, Timers
  <2>3. out' \subseteq Message
    BY <1>2, CreateIsMessage DEF PendingCreateRepeated, Send
  <2> QED
    BY <1>2, <2>1, <2>2, <2>3
       DEF PendingCreateRepeated, nf, TimerGuardsState, CreateKept, ResponseKept,
           NothingHeldYet, InPending, In
<1>3. CASE PendingCreateReplaced(c, n, selected) \/ PendingCreateReplacedFails(c, n)
    BY <1>3, ProcessCreatePreserves, ProcessCreateFailsPreserves, CreateIsMessage
       DEF PendingCreateReplaced, PendingCreateReplacedFails, Replaces
<1> QED BY <1>1, <1>2, <1>3

LEMMA IInvNetwork == IInv /\ Network => IInv'
<1> SUFFICES ASSUME IInv, Network PROVE IInv'
    OBVIOUS
<1> USE DEF IInv, TypeOK, SessionTypeOK
<1>1. ASSUME NEW c \in Creates, CloseZeroLifetime(c) PROVE IInv'
    BY <1>1, ClosePreserves DEF CloseZeroLifetime, Send, nf
<1>2. ASSUME NEW c \in Creates, NEW n \in 0 .. MaxObjects, NEW selected \in BOOLEAN,
             CloseCreate(c, n, selected)
      PROVE  IInv'
    BY <1>2, ProcessCreatePreserves, CreateIsMessage, CheckedLifetime DEF CloseCreate
<1>3. ASSUME NEW c \in Creates, NEW n \in 0 .. MaxObjects, CloseCreateFails(c, n)
      PROVE  IInv'
    BY <1>3, ProcessCreateFailsPreserves, CreateIsMessage, CheckedLifetime
       DEF CloseCreateFails
<1>4. ASSUME NEW c \in Creates,
             \/ PendingCreateTerminates(c) \/ PendingCreateRepeated(c)
             \/ \E n \in 0 .. MaxObjects :
                   \/ PendingCreateReplacedFails(c, n)
                   \/ \E selected \in BOOLEAN : PendingCreateReplaced(c, n, selected)
      PROVE  IInv'
  <2>1. 0 \in 0 .. MaxObjects /\ TRUE \in BOOLEAN
    BY BoundsAssumption
  <2> QED BY <1>4, <2>1, IInvPendingCreate
<1>5. CASE PendingUnreachable({})
    BY <1>5, UnreachablePreserves
<1>6. CASE PendingOther \/ AuctioningOther \/ TeardownOther
    BY <1>6, DiscardPreserves DEF PendingOther, AuctioningOther, TeardownOther
<1>7. ASSUME NEW r \in Answered, PendingSuccess(r) PROVE IInv'
  <2>1. outdated' \in BOOLEAN
    BY <1>7, TimersBoolean DEF PendingSuccess
  <2>2. posted' \subseteq {"check", "install", "interact", "remove"}
    BY <1>7 DEF PendingSuccess, PostIfInstalling, Post, NoPost
  <2>3. armed' \subseteq {"state", "response"} /\ "state" \in armed'
    BY <1>7 DEF PendingSuccess, Timers
  <2> QED
    BY <1>7, <2>1, <2>2, <2>3, AnsweredIsMessage
       DEF PendingSuccess, is_anslp_response, Return, Send, Fates, States, TimerGuardsState,
           CreateKept, ResponseKept, NothingHeldYet, InPending, PendingStates, In
<1>8. ASSUME NEW r \in Answered, PendingSuccessThrows(r) \/ AuctioningOverThrows(r)
      PROVE  IInv'
    BY <1>8, ThrowPreserves, AnsweredIsMessage
       DEF PendingSuccessThrows, AuctioningOverThrows, UninstallThrows
<1>9. ASSUME NEW r \in Answered, PendingFailure(r) PROVE IInv'
  <2>1. outdated' \in BOOLEAN
    BY <1>9, TimersBoolean DEF PendingFailure
  <2>2. armed' \subseteq {"state", "response"}
    BY <1>9 DEF PendingFailure, Timers
  <2> QED
    BY <1>9, <2>1, <2>2, ClosePreserves, AnsweredIsMessage DEF PendingFailure, Send, nf
<1>10. ASSUME NEW r \in Answered, AuctioningRefreshed(r) PROVE IInv'
  <2>1. outdated' \in BOOLEAN
    BY <1>10, TimersBoolean DEF AuctioningRefreshed
  <2>2. armed' \subseteq {"state", "response"} /\ "state" \in armed'
    BY <1>10 DEF AuctioningRefreshed, Timers
  <2>3. awaiting' \in BOOLEAN /\ out' \subseteq Message
    BY <1>10, AnsweredIsMessage DEF AuctioningRefreshed, Send
  <2> QED
    BY <1>10, <2>1, <2>2, <2>3
       DEF AuctioningRefreshed, RefreshAnswered, TimerGuardsState, CreateKept, ResponseKept,
           NothingHeldYet, InPending, PendingStates, In
<1>11. ASSUME NEW r \in Answered, AuctioningOver(r) PROVE IInv'
    BY <1>11, UninstallPreserves, AnsweredIsMessage
       DEF AuctioningOver, SessionOver, RefreshAnswered, Send
<1>12. ASSUME NEW q \in Refreshes, AuctioningRefresh(q) PROVE IInv'
  <2>1. outdated' \in BOOLEAN
    BY <1>12, TimersBoolean DEF AuctioningRefresh
  <2>2. armed' \subseteq {"state", "response"} /\ ("state" \in armed => "state" \in armed')
    BY <1>12 DEF AuctioningRefresh, Timers
  <2>3. awaiting' \in BOOLEAN /\ out' \subseteq Message /\ refresh_message' \in Message
    BY <1>12, RefreshIsMessage DEF AuctioningRefresh, Send
  <2>4. lifetime' \in Lifetimes /\ msn' \in MSNs
    BY <1>12, RefreshIsMessage, CheckedLifetime DEF AuctioningRefresh
  <2> QED
    BY <1>12, <2>1, <2>2, <2>3, <2>4
       DEF AuctioningRefresh, TimerGuardsState, CreateKept, ResponseKept,
           NothingHeldYet, InPending, PendingStates, In
<1>13. ASSUME NEW q \in Refreshes, AuctioningRefreshDuplicate(q) PROVE IInv'
    BY <1>13, DiscardPreserves DEF AuctioningRefreshDuplicate
<1>14. CASE AuctioningUnanswered({}) \/ AuctioningRouteChanged
    BY <1>14, UninstallPreserves
       DEF AuctioningUnanswered, Unanswered, AuctioningRouteChanged, Send
<1>15. CASE AuctioningEndThrows \/ BiddingThrows
    BY <1>15, ThrowPreserves DEF AuctioningEndThrows, UninstallThrows, BiddingThrows
<1>16. CASE AuctioningOtherAssertFails
    BY <1>16, AbortPreserves DEF AuctioningOtherAssertFails
<1>17. ASSUME BiddingForUs \/ \E b \in Biddings : BiddingForwarded(b) PROVE IInv'
  <2>1. out' \subseteq Message /\ posted' \subseteq {"check", "install", "interact", "remove"}
    BY <1>17, BiddingIsMessage DEF BiddingForUs, BiddingForwarded, Send, Post
  <2> QED
    BY <1>17, <2>1
       DEF BiddingForUs, BiddingForwarded, nf, TimerGuardsState, CreateKept, ResponseKept,
           NothingHeldYet, InPending, In
<1> QED
    BY <1>1, <1>2, <1>3, <1>4, <1>5, <1>6, <1>7, <1>8, <1>9, <1>10, <1>11, <1>12,
       <1>13, <1>14, <1>15, <1>16, <1>17 DEF Network

LEMMA IInvStep == IInv /\ [Next]_vars => IInv'
<1> SUFFICES ASSUME IInv, [Next]_vars PROVE IInv'
    OBVIOUS
<1> USE DEF IInv, TypeOK, SessionTypeOK, TimerGuardsState, CreateKept, ResponseKept,
        NothingHeldYet, InPending, In
<1>1. CASE Superseded
    BY <1>1 DEF Superseded, OutdatedTimer, nf
<1>2. CASE UNCHANGED vars
    BY <1>2 DEF vars, session, nf
<1> QED
    BY <1>1, <1>2, IInvTimer, IInvApi, IInvNetwork DEF Next

\* Every branch of the forwarder's handlers keeps the invariant.
THEOREM Invariance == Spec => []IInv
BY IInvInit, IInvStep, PTL DEF Spec
-----------------------------------------------------------------------------
(* What a step of a pending session sends *)

\* m tells a neighbour that the pending session is given up.
Reports(m) ==
    \/ m.kind = "RESPONSE" /\ m.dir = "up" /\ ~ m.ok /\ m.msn = create_message'.msn
    \/ m.kind \in {"CREATE", "REFRESH"} /\ m.dir = "down" /\ m.lifetime = 0

\* A pending session goes on without a RESPONSE, becomes active and passes on the
\* RESPONSE it keeps, or ends with a report and without a successful RESPONSE.
StepSends ==
    \/ fate' # "final" /\ \A m \in out' : m.kind # "RESPONSE"
    \/ /\ In("PENDING_INSTALLING") /\ In("AUCTIONING")'
       /\ out' = {response_message}
       /\ rule'.responses = rule.requests
    \/ /\ \A m \in out' : m.kind = "RESPONSE" => ~ m.ok
       /\ \E m \in out' : Reports(m)

LEMMA ErrorReports ==
    ASSUME create_message' \in Message, create_message'.dir = "down",
           out' = {create_error_response(create_message')}
    PROVE  StepSends
<1>1. Reports(create_error_response(create_message'))
    BY ErrorResponse DEF Reports, invertDirection
<1> QED BY <1>1, ErrorResponse DEF StepSends

LEMMA ProcessCreateSends ==
    ASSUME NEW c \in Creates, NEW n, NEW l \in Lifetimes, NEW selected,
           ProcessCreate(c, n, l, selected)
    PROVE  StepSends
<1>1. build_create_message(c, l).kind = "CREATE"
    BY CreateIsMessage, BuiltCreate
<1> QED BY <1>1 DEF ProcessCreate, Send, Return, StepSends

LEMMA PendingStepSends == IInv /\ InPending /\ Next => StepSends
<1> SUFFICES ASSUME IInv, InPending, Next PROVE StepSends
    OBVIOUS
<1> USE DEF Send, Throw, Abort, Discard, Return
<1>0. create_message \in Message /\ create_message.dir = "down"
    BY DEF IInv, CreateKept
<1>1. ASSUME out' = {}, fate' # "final" PROVE StepSends
    BY <1>1 DEF StepSends
<1>2. fate = "live" /\ state \in PendingStates /\ ~ In("AUCTIONING") /\ ~ In("PENDING_TEARDOWN")
    BY DEF InPending, PendingStates, In
<1>3. ASSUME NEW fired, PendingUnreachable(fired) PROVE StepSends
    BY <1>0, <1>3, ErrorReports DEF PendingUnreachable, nf
<1>4. CASE StateTimer \/ ResponseTimer \/ Superseded
    BY <1>1, <1>2, <1>3, <1>4
       DEF StateTimer, ResponseTimer, AuctioningTimeout, TeardownTimeout,
           PendingResponseTimer, TeardownResponseTimer, DropTimer, AuctioningUnanswered,
           Unanswered, Superseded, OutdatedTimer
<1>5. CASE Api
  <2>1. ASSUME NEW a, CheckPassed(a) PROVE StepSends
    <3>1. build_create_message(create_message, lifetime).kind = "CREATE"
      BY <1>0, BuiltCreate DEF IInv, TypeOK, SessionTypeOK
    <3> QED BY <2>1, <3>1 DEF CheckPassed, StepSends
  <2>2. ASSUME NEW a, CheckCrashes(a) PROVE StepSends
    BY <2>2, <1>1 DEF CheckCrashes
  <2>3. ASSUME NEW n, InstallingInstalled(n) PROVE StepSends
    BY <2>3
       DEF InstallingInstalled, set_reponse_objects, StepSends, In, IInv, TypeOK,
           SessionTypeOK, Rule
  <2>4. ASSUME NEW n, InstallingMismatch(n) PROVE StepSends
    <3>1. response_message \in Message /\ msn \in MSNs
      BY <2>4 DEF InstallingMismatch, IInv, ResponseKept, TypeOK, SessionTypeOK
    <3>2. Reports(build_teardown_message(msn))
      BY <3>1, BuiltTeardown DEF Reports
    <3>3. \A m \in out' : m.kind = "RESPONSE" => ~ m.ok
      BY <2>4, <3>1, BuiltTeardown, ErrorResponse DEF InstallingMismatch
    <3> QED BY <2>4, <3>2, <3>3 DEF InstallingMismatch, StepSends
  <2> QED
    BY <1>2, <1>5, <2>1, <2>2, <2>3, <2>4 DEF Api, TeardownRemoved
<1>6. CASE Network
  <2>1. ASSUME NEW c \in Creates, PendingCreateTerminates(c) PROVE StepSends
    BY <2>1, CreateIsMessage DEF PendingCreateTerminates, Terminates, StepSends, Reports
  <2>2. ASSUME NEW c \in Creates, PendingCreateRepeated(c) PROVE StepSends
    BY <1>2, <2>2, CreateIsMessage DEF PendingCreateRepeated, StepSends
  <2>3. ASSUME NEW c \in Creates, NEW n, NEW selected, PendingCreateReplaced(c, n, selected)
        PROVE  StepSends
    BY <2>3, ProcessCreateSends, CreateIsMessage DEF PendingCreateReplaced
  <2>4. ASSUME NEW c \in Creates, NEW n, PendingCreateReplacedFails(c, n) PROVE StepSends
    BY <2>4, ErrorReports, CreateIsMessage DEF PendingCreateReplacedFails, ProcessCreateFails
  <2>5. ASSUME NEW r \in Answered, PendingSuccess(r) \/ PendingSuccessThrows(r)
        PROVE  StepSends
    BY <2>5, <1>1 DEF PendingSuccess, PendingSuccessThrows
  <2>6. ASSUME NEW r \in Answered, PendingFailure(r) PROVE StepSends
    <3>1. Reports(r)
      BY <2>6, AnsweredIsMessage DEF PendingFailure, is_anslp_response, Reports, nf
    <3> QED BY <2>6, <3>1 DEF PendingFailure, StepSends
  <2>7. CASE PendingOther
    BY <1>1, <1>2, <2>7 DEF PendingOther
  <2> QED
    BY <1>2, <1>3, <1>6, <2>1, <2>2, <2>3, <2>4, <2>5, <2>6, <2>7
       DEF Network, CloseZeroLifetime, CloseCreate, CloseCreateFails, AuctioningRefreshed,
           AuctioningOver, AuctioningOverThrows, SessionOver, RefreshAnswered,
           AuctioningRefresh, AuctioningRefreshDuplicate, AuctioningUnanswered, Unanswered,
           AuctioningRouteChanged, AuctioningEndThrows, AuctioningOther,
           AuctioningOtherAssertFails, BiddingForUs, BiddingThrows, BiddingForwarded,
           InOpen, TeardownOther
<1> QED BY <1>4, <1>5, <1>6 DEF Next

-----------------------------------------------------------------------------
(* The theorems *)

\* The variables have their types.
THEOREM TypeCorrect == Spec => []TypeOK
BY Invariance, PTL DEF IInv

\* A session in the table has its state timer running, on every branch.
THEOREM TimerGuards == Spec => []TimerGuardsState
BY Invariance, PTL DEF IInv

\* The success RESPONSE passed on answers the CREATE the session holds now, after
\* all this node's objects were installed.
THEOREM SuccessesAnswerCreate == Spec => SuccessAnswersCreate
<1> DEFINE P == InPending => \A m \in out' : m.kind = "RESPONSE" /\ m.ok
                => /\ m.msn = create_message.msn
                   /\ In("AUCTIONING")'
                   /\ rule'.responses = rule.requests
<1>1. IInv /\ Next => P
    BY PendingStepSends DEF StepSends, IInv, ResponseKept
<1>2. IInv /\ [Next]_vars => [P]_vars
    BY <1>1
<1> QED
    BY <1>2, Invariance, PTL DEF Spec, SuccessAnswersCreate

\* A session given up while pending tells one of its neighbours.
THEOREM PendingEndsReported == Spec => PendingEndReported
<1> DEFINE P == InPending /\ fate' = "final" => \E m \in out' :
                   \/ m.kind = "RESPONSE" /\ m.dir = "up" /\ ~ m.ok /\ m.msn = create_message'.msn
                   \/ m.kind \in {"CREATE", "REFRESH"} /\ m.dir = "down" /\ m.lifetime = 0
<1>1. IInv /\ Next => P
    BY PendingStepSends DEF StepSends, Reports, In
<1>2. IInv /\ [Next]_vars => [P]_vars
    BY <1>1
<1> QED
    BY <1>2, Invariance, PTL DEF Spec, PendingEndReported

-----------------------------------------------------------------------------
(* The forwarder's session implements the life cycle *)

\* A handler that throws or fails an assertion takes the session to its end.
LEMMA FailImplements ==
    ASSUME fate = "live", fate' \in {"thrown", "abort"}, UNCHANGED <<rule, posted>>
    PROVE  LC!Next
<1>1. Phase \in {"idle", "pending", "active", "releasing"}
    BY PhaseOf DEF In
<1>2. LC!Fail
    BY <1>1, PhaseOfNext DEF LC!Fail
<1> QED BY <1>2 DEF LC!Next

LEMMA UninstallImplements ==
    ASSUME In("AUCTIONING"), NEW fired, NEW stopped, UninstallRule(fired, stopped)
    PROVE  LC!Next
<1>1. Phase = "active"
    BY PhaseOf
<1>2. CASE HoldsObjects(rule)
  <2>1. LC!Release
    BY <1>1, <1>2, PhaseOfNext
       DEF UninstallRule, HoldsObjects, Return, Post, LC!Release
  <2> QED BY <2>1 DEF LC!Next
<1>3. CASE ~ HoldsObjects(rule)
  <2>1. LC!Leave
    BY <1>1, <1>3, PhaseOfNext
       DEF UninstallRule, HoldsObjects, Return, NoPost, LC!Leave
  <2> QED BY <2>1 DEF LC!Next
<1> QED BY <1>2, <1>3

LEMMA AbandonImplements ==
    ASSUME InPending, fate' = "final", rule'.responses = rule.responses, UNCHANGED posted
    PROVE  LC!Next
<1>1. LC!Abandon
    BY PhaseOf, PhaseOfNext DEF InPending, PendingStates, LC!Abandon
<1> QED BY <1>1 DEF LC!Next

LEMMA FinishImplements ==
    ASSUME In("PENDING_TEARDOWN"), fate' = "final", UNCHANGED <<rule, posted>>
    PROVE  LC!Next
<1>1. LC!Finish
    BY PhaseOf, PhaseOfNext DEF LC!Finish
<1> QED BY <1>1 DEF LC!Next

\* A CREATE opens the session, or leaves a pending one pending.
LEMMA ProcessCreateImplements ==
    ASSUME IInv, fate = "new" \/ InPending, NEW c, NEW n, NEW l, NEW selected,
           ProcessCreate(c, n, l, selected)
    PROVE  LC!Next \/ UNCHANGED LC!vars
<1>1. Phase' = "pending"
    BY PhaseOfNext DEF ProcessCreate, Return
<1>2. UNCHANGED <<rule.responses > 0, "remove" \in posted>>
    BY DEF ProcessCreate, Post, NoPost, IInv, TypeOK, SessionTypeOK, Rule
<1>3. CASE fate = "new"
  <2>1. LC!Open
    BY <1>1, <1>2, <1>3, PhaseOf DEF LC!Open
  <2> QED BY <2>1 DEF LC!Next
<1>4. CASE InPending
    BY <1>1, <1>2, <1>4, PhaseOf DEF InPending, PendingStates, LC!vars
<1> QED BY <1>3, <1>4

LEMMA ProcessCreateFailsImplements ==
    ASSUME IInv, fate = "new" \/ InPending, NEW c, NEW n, NEW l, ProcessCreateFails(c, n, l)
    PROVE  LC!Next
<1>1. fate' = "final" /\ rule'.responses = rule.responses /\ UNCHANGED posted
    BY DEF ProcessCreateFails, Return, IInv, TypeOK, SessionTypeOK, Rule
<1>2. CASE fate = "new"
  <2>1. LC!Open
    BY <1>1, <1>2, PhaseOf, PhaseOfNext DEF LC!Open
  <2> QED BY <2>1 DEF LC!Next
<1>3. CASE InPending
    BY <1>1, <1>3, AbandonImplements
<1> QED BY <1>2, <1>3

LEMMA StepImplements == IInv /\ Next => LC!Next \/ UNCHANGED LC!vars
<1> SUFFICES ASSUME IInv, Next PROVE LC!Next \/ UNCHANGED LC!vars
    OBVIOUS
<1> USE DEF In, Return
<1>0. ASSUME UNCHANGED <<fate, state, rule>>, ("remove" \in posted') = ("remove" \in posted)
      PROVE  UNCHANGED LC!vars
    BY <1>0, PhaseOfNext DEF LC!vars
<1>1. CASE StateTimer \/ ResponseTimer \/ Superseded
  <2>1. CASE PendingUnreachable({"state"})
    BY <2>1, AbandonImplements DEF PendingUnreachable
  <2>2. CASE AuctioningTimeout \/ AuctioningUnanswered({"response"})
    BY <2>2, UninstallImplements DEF AuctioningTimeout, AuctioningUnanswered, Unanswered
  <2>3. CASE TeardownTimeout
    BY <2>3, FinishImplements DEF TeardownTimeout
  <2>4. CASE PendingResponseTimer \/ TeardownResponseTimer \/ Superseded
    BY <1>0, <2>4
       DEF PendingResponseTimer, TeardownResponseTimer, DropTimer, Superseded, OutdatedTimer
  <2> QED BY <1>1, <2>1, <2>2, <2>3, <2>4 DEF StateTimer, ResponseTimer
<1>2. CASE Api
  <2>1. ASSUME NEW a, CheckPassed(a) PROVE UNCHANGED LC!vars
    <3>1. rule'.responses = rule.responses
      BY <2>1 DEF CheckPassed, IInv, TypeOK, SessionTypeOK, Rule
    <3> QED
      BY <2>1, <3>1, PhaseOf, PhaseOfNext DEF CheckPassed, CheckAnswered, LC!vars
  <2>2. ASSUME NEW a, CheckCrashes(a) PROVE LC!Next
    BY <2>2, FailImplements DEF CheckCrashes, CheckAnswered, Abort
  <2>3. ASSUME NEW n, InstallingInstalled(n) PROVE LC!Next
    <3>1. LC!Activate
      BY <2>3, PhaseOf, PhaseOfNext DEF InstallingInstalled, LC!Activate
    <3> QED BY <3>1 DEF LC!Next
  <2>4. ASSUME NEW n, InstallingMismatch(n) PROVE LC!Next
    <3>1. InPending
      BY <2>4 DEF InstallingMismatch, InPending, PendingStates
    <3>2. UNCHANGED <<rule, posted>>
      BY <2>4, <3>1 DEF InstallingMismatch, HoldsObjects, NoPost, IInv, NothingHeldYet
    <3> QED BY <2>4, <3>1, <3>2, AbandonImplements DEF InstallingMismatch
  <2>5. CASE TeardownRemoved
    BY <2>5, FinishImplements DEF TeardownRemoved
  <2> QED BY <1>2, <2>1, <2>2, <2>3, <2>4, <2>5 DEF Api
<1>3. CASE Network
  <2>1. ASSUME NEW c \in Creates, CloseZeroLifetime(c) PROVE LC!Next
    <3>1. LC!Open
      BY <2>1, PhaseOf, PhaseOfNext DEF CloseZeroLifetime, LC!Open
    <3> QED BY <3>1 DEF LC!Next
  <2>2. ASSUME NEW c \in Creates, PendingCreateTerminates(c) PROVE LC!Next
    BY <2>2, AbandonImplements DEF PendingCreateTerminates
  <2>3. ASSUME NEW c \in Creates, PendingCreateRepeated(c) PROVE UNCHANGED LC!vars
    BY <1>0, <2>3 DEF PendingCreateRepeated
  <2>4. ASSUME NEW c \in Creates, NEW n, CloseCreateFails(c, n) \/ PendingCreateReplacedFails(c, n)
        PROVE  LC!Next
    BY <2>4, ProcessCreateFailsImplements
       DEF CloseCreateFails, PendingCreateReplacedFails, Replaces
  <2>5. ASSUME NEW c \in Creates, NEW n, NEW selected,
               CloseCreate(c, n, selected) \/ PendingCreateReplaced(c, n, selected)
        PROVE  LC!Next \/ UNCHANGED LC!vars
    BY <2>5, ProcessCreateImplements DEF CloseCreate, PendingCreateReplaced, Replaces
  <2>6. CASE PendingUnreachable({})
    BY <2>6, AbandonImplements DEF PendingUnreachable
  <2>7. CASE PendingOther \/ AuctioningOther \/ TeardownOther
    BY <1>0, <2>7 DEF PendingOther, AuctioningOther, TeardownOther, Discard
  <2>8. ASSUME NEW r, PendingSuccess(r) PROVE UNCHANGED LC!vars
    <3>1. ("remove" \in posted') = ("remove" \in posted)
      BY <2>8 DEF PendingSuccess, PostIfInstalling, Post, NoPost
    <3> QED BY <2>8, <3>1, PhaseOf, PhaseOfNext DEF PendingSuccess, LC!vars
  <2>9. ASSUME NEW r, PendingSuccessThrows(r) \/ AuctioningOverThrows(r) PROVE LC!Next
    BY <2>9, FailImplements
       DEF PendingSuccessThrows, AuctioningOverThrows, SessionOver, RefreshAnswered,
           UninstallThrows, Throw
  <2>10. ASSUME NEW r, PendingFailure(r) PROVE LC!Next
    BY <2>10, AbandonImplements DEF PendingFailure, InPending, PendingStates
  <2>11. ASSUME NEW r, AuctioningRefreshed(r) PROVE UNCHANGED LC!vars
    BY <1>0, <2>11 DEF AuctioningRefreshed
  <2>12. ASSUME NEW r, AuctioningOver(r) PROVE LC!Next
    BY <2>12, UninstallImplements DEF AuctioningOver, SessionOver, RefreshAnswered
  <2>13. ASSUME NEW q, AuctioningRefresh(q) \/ AuctioningRefreshDuplicate(q)
         PROVE  UNCHANGED LC!vars
    BY <1>0, <2>13 DEF AuctioningRefresh, AuctioningRefreshDuplicate, Discard
  <2>14. CASE AuctioningUnanswered({}) \/ AuctioningRouteChanged
    BY <2>14, UninstallImplements DEF AuctioningUnanswered, Unanswered, AuctioningRouteChanged
  <2>15. CASE AuctioningEndThrows \/ BiddingThrows \/ AuctioningOtherAssertFails
    BY <2>15, FailImplements
       DEF AuctioningEndThrows, UninstallThrows, BiddingThrows, InOpen,
           AuctioningOtherAssertFails, Throw, Abort
  <2>16. ASSUME BiddingForUs \/ \E b \in Biddings : BiddingForwarded(b)
         PROVE  UNCHANGED LC!vars
    <3>1. CASE BiddingForUs
      BY <1>0, <3>1 DEF BiddingForUs, Post
    <3>2. ASSUME NEW b \in Biddings, BiddingForwarded(b) PROVE UNCHANGED LC!vars
      BY <1>0, <3>2 DEF BiddingForwarded
    <3> QED BY <2>16, <3>1, <3>2
  <2> QED
    BY <1>3, <2>1, <2>2, <2>3, <2>4, <2>5, <2>6, <2>7, <2>8, <2>9, <2>10, <2>11,
       <2>12, <2>13, <2>14, <2>15, <2>16 DEF Network
<1> QED
    BY <1>1, <1>2, <1>3 DEF Next

\* The forwarder's session implements the life cycle: objects a session held while
\* active are not left behind without a request to remove them.
THEOREM Refinement == Spec => ImplementsLifecycle
<1>1. Init => LC!Init
    BY PhaseOf DEF Init, SessionInit, EmptyRule, LC!Init
<1>2. IInv /\ [Next]_vars => [LC!Next]_(LC!vars)
  <2>1. UNCHANGED vars => UNCHANGED LC!vars
    BY PhaseOfNext DEF vars, session, LC!vars
  <2> QED BY <2>1, StepImplements
<1> QED
    BY <1>1, <1>2, Invariance, PTL DEF Spec, ImplementsLifecycle, LC!Spec

\* A forwarder's session that is gone has asked for the removal of the objects it
\* held (remove_auction_rules).
THEOREM ObjectsReleased == Spec => []InstalledObjectsReleased
BY Refinement, LifecycleReleases, PTL DEF ImplementsLifecycle
=============================================================================
