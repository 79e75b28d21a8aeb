-------------------------- MODULE NRSession_proofs --------------------------
(***************************************************************************)
(* The receiver's session, for every size of the sequence number space,    *)
(* every set of lifetimes and every number of retries and objects.         *)
(***************************************************************************)
EXTENDS NRSession, Session_proofs

-----------------------------------------------------------------------------
(* Messages *)

LEMMA CreateIsMessage ==
    ASSUME NEW c \in Creates
    PROVE  /\ c \in Message /\ c.dir = "down" /\ c # Null
           /\ c.msn \in MSNs /\ c.lifetime \in Lifetimes
<1>1. PICK m \in MSNs, l \in Lifetimes : c = Request("CREATE", "down", m, l)
    BY DEF Creates
<1> QED BY <1>1, RequestIsMessage, NullIsNoMessage

LEMMA RefreshIsMessage ==
    ASSUME NEW q \in Refreshes
    PROVE  q \in Message /\ q.msn \in MSNs /\ q.lifetime \in Lifetimes
<1>1. PICK m \in MSNs, l \in Lifetimes : q = Request("REFRESH", "down", m, l)
    BY DEF Refreshes
<1> QED BY <1>1, RequestIsMessage

-----------------------------------------------------------------------------
(* The inductive invariant *)

\* A session in the table keeps the CREATE that opened it, so that there is
\* something to answer whenever the pending phase ends; a new one keeps nothing.
CreateKept ==
    /\ fate = "live" => create_message \in Message /\ create_message.dir = "down"
    /\ fate = "new" => create_message = Null /\ create_counter = 0

\* No object is recorded as installed before the installation was confirmed.
NothingHeldYet == Pending => rule.responses = 0

\* The session never keeps a lifetime the configuration does not admit.
LifetimeAdmitted == lifetime <= MaxLifetime

IInv ==
    /\ TypeOK
    /\ TimerGuardsState
    /\ CreateKept
    /\ NothingHeldYet
    /\ LifetimeAdmitted

LEMMA IInvInit == Init => IInv
<1> SUFFICES ASSUME Init PROVE IInv
    OBVIOUS
<1> USE DEF Init, SessionInit
<1>0. outdated \in BOOLEAN
    OBVIOUS
<1>1. TypeOK
    BY <1>0, EmptyRuleIsRule, ZeroLifetime, LIMITAssumption, BoundsAssumption
       DEF TypeOK, SessionTypeOK, States, Fates, MSNs
<1>2. TimerGuardsState /\ CreateKept /\ NothingHeldYet
    BY EmptyRuleIsRule DEF TimerGuardsState, CreateKept, NothingHeldYet
<1>3. LifetimeAdmitted
    BY LifetimesAssumption DEF LifetimeAdmitted
<1> QED BY <1>1, <1>2, <1>3 DEF IInv

-----------------------------------------------------------------------------
(* What the actions have in common *)

LEMMA DiscardPreserves == IInv /\ Discard /\ UNCHANGED nr => IInv'
BY DEF IInv, TypeOK, SessionTypeOK, TimerGuardsState, CreateKept, NothingHeldYet,
       LifetimeAdmitted, Pending, In, Discard, nr

LEMMA ThrowPreserves ==
    ASSUME IInv, NEW sent \in SUBSET Message, Throw(sent), UNCHANGED create_counter,
           create_message' \in Message \cup {Null}
    PROVE  IInv'
BY DEF IInv, TypeOK, SessionTypeOK, TimerGuardsState, CreateKept, NothingHeldYet,
       LifetimeAdmitted, Pending, In, Throw, Fates

LEMMA AbortPreserves == IInv /\ Abort /\ UNCHANGED nr => IInv'
BY DEF IInv, TypeOK, SessionTypeOK, TimerGuardsState, CreateKept, NothingHeldYet,
       LifetimeAdmitted, Pending, In, Abort, Fates, nr

LEMMA UninstallPreserves ==
    ASSUME IInv, In("AUCTIONING"), NEW fired, UninstallRule(fired),
           out' \subseteq Message
    PROVE  IInv'
<1> USE DEF IInv, TypeOK, SessionTypeOK
<1>1. outdated' \in BOOLEAN
    BY TimersBoolean DEF UninstallRule
<1>2. posted' \subseteq {"check", "install", "interact", "remove"}
    BY DEF UninstallRule, Post, NoPost
<1>3. armed' \subseteq {"state"}
    BY DEF UninstallRule, Timers
<1>4. TypeOK'
    BY <1>1, <1>2, <1>3 DEF UninstallRule, Return, Fates, States, nr
<1>5. TimerGuardsState'
    BY <1>3 DEF UninstallRule, Timers, Return, TimerGuardsState, In
<1> QED
    BY <1>4, <1>5
       DEF UninstallRule, Return, CreateKept, NothingHeldYet, LifetimeAdmitted, Pending,
           In, nr

\* The success RESPONSEs the actions send are messages.
LEMMA AnswersAreMessages ==
    ASSUME IInv
    PROVE  /\ \A n : InstallingInstalled(n) => out' \subseteq Message
           /\ \A c \in Creates : \A selected :
                 CloseNotParticipating(c, selected) => out' \subseteq Message
           /\ \A q \in Refreshes : RefreshAccepted(q) => out' \subseteq Message
           /\ \A q \in Refreshes : {create_success_response(q, 0)} \subseteq Message
<1>1. ASSUME NEW n, InstallingInstalled(n) PROVE out' \subseteq Message
  <2>1. create_message \in Message /\ lifetime \in Lifetimes
    BY <1>1 DEF InstallingInstalled, In, IInv, TypeOK, SessionTypeOK, CreateKept
  <2>2. create_success_response(create_message, lifetime) \in Message
    BY <2>1, SuccessResponse
  <2> QED BY <1>1, <2>2 DEF InstallingInstalled, Send
<1>2. ASSUME NEW c \in Creates, NEW selected, CloseNotParticipating(c, selected)
      PROVE  out' \subseteq Message
    BY <1>2, SuccessResponse, CreateIsMessage, CheckedLifetime DEF CloseNotParticipating, Send
<1>3. ASSUME NEW q \in Refreshes, RefreshAccepted(q) PROVE out' \subseteq Message
    BY <1>3, SuccessResponse, RefreshIsMessage, CheckedLifetime DEF RefreshAccepted, Send
<1>4. ASSUME NEW q \in Refreshes PROVE {create_success_response(q, 0)} \subseteq Message
    BY SuccessResponse, RefreshIsMessage, ZeroLifetime
<1> QED BY <1>1, <1>2, <1>3, <1>4

-----------------------------------------------------------------------------
(* One step per action *)

LEMMA IInvStateTimer == IInv /\ StateTimer => IInv'
<1> SUFFICES ASSUME IInv, StateTimer PROVE IInv'
    OBVIOUS
<1> USE BoundsAssumption
    DEF IInv, TypeOK, SessionTypeOK, TimerGuardsState, CreateKept, NothingHeldYet,
        LifetimeAdmitted, Pending, In, Send, Return, Fates, States
<1>0. create_counter \in Nat
    OBVIOUS
<1>1. CASE PendingRetry({"state"})
  <2>1. outdated' \in BOOLEAN
    BY <1>1, TimersBoolean DEF PendingRetry
  <2> QED BY <1>0, <1>1, <2>1, RetryBound DEF PendingRetry, Timers, Post
<1>2. CASE PendingGiveUp({"state"})
  <2>1. outdated' \in BOOLEAN
    BY <1>2, TimersBoolean DEF PendingGiveUp
  <2> QED BY <1>2, <2>1, ErrorResponse DEF PendingGiveUp, Timers, nr
<1>3. CASE InstallingRetry
  <2>1. outdated' \in BOOLEAN
    BY <1>3, TimersBoolean DEF InstallingRetry
  <2>2. posted' \subseteq {"check", "install", "interact", "remove"}
    BY <1>3 DEF InstallingRetry, PostIfInstalling, Post, NoPost
  <2> QED BY <1>0, <1>3, <2>1, <2>2, RetryBound DEF InstallingRetry, Timers
<1>4. CASE InstallingRetryThrows \/ TeardownRetryThrows \/ AuctioningTimeoutThrows
    BY <1>4, ThrowPreserves
       DEF InstallingRetryThrows, TeardownRetryThrows, AuctioningTimeoutThrows,
           UninstallThrows, nr
<1>5. CASE InstallingGiveUp
  <2>1. outdated' \in BOOLEAN
    BY <1>5, TimersBoolean DEF InstallingGiveUp
  <2> QED BY <1>5, <2>1, ErrorResponse DEF InstallingGiveUp, Timers, nr
<1>6. CASE AuctioningTimeout
    BY <1>6, UninstallPreserves DEF AuctioningTimeout, TimedOut
<1>7. CASE TeardownRetry
  <2>1. outdated' \in BOOLEAN
    BY <1>7, TimersBoolean DEF TeardownRetry
  <2> QED BY <1>0, <1>7, <2>1, RetryBound DEF TeardownRetry, Timers, Post
<1>8. CASE TeardownGiveUp
  <2>1. outdated' \in BOOLEAN
    BY <1>8, TimersBoolean DEF TeardownGiveUp
  <2> QED BY <1>8, <2>1 DEF TeardownGiveUp, Timers, nr
<1> QED
    BY <1>1, <1>2, <1>3, <1>4, <1>5, <1>6, <1>7, <1>8 DEF StateTimer

LEMMA IInvApi == IInv /\ Api => IInv'
<1> SUFFICES ASSUME IInv, Api PROVE IInv'
    OBVIOUS
<1> USE BoundsAssumption
    DEF IInv, TypeOK, SessionTypeOK, TimerGuardsState, CreateKept, NothingHeldYet,
        LifetimeAdmitted, Pending, In, Send, Return, Fates, States
<1>1. ASSUME NEW a \in 0 .. MaxObjects, PendingChecked(a) PROVE IInv'
  <2>1. outdated' \in BOOLEAN
    BY <1>1, TimersBoolean DEF PendingChecked
  <2>2. PICK left \in CheckFilter(rule.requests, a) : rule' = [rule EXCEPT !.requests = left]
    BY <1>1 DEF PendingChecked
  <2>3. left \in 0 .. MaxObjects
    BY <1>1, FilterBound DEF PendingChecked, CheckAnswered, Rule
  <2>4. rule' \in Rule /\ rule'.responses = rule.responses
    BY <2>2, <2>3 DEF Rule
  <2> QED
    BY <1>1, <2>1, <2>4
       DEF PendingChecked, CheckAnswered, Timers, PostIfInstalling, Post, NoPost
<1>2. ASSUME NEW a \in 0 .. MaxObjects, PendingCheckedCrashes(a) PROVE IInv'
    BY <1>2, AbortPreserves DEF PendingCheckedCrashes
<1>3. CASE PendingCheckedThrows
    BY <1>3, ThrowPreserves DEF PendingCheckedThrows, nr
<1>4. ASSUME NEW n \in 0 .. MaxObjects, InstallingInstalled(n) PROVE IInv'
  <2>1. outdated' \in BOOLEAN
    BY <1>4, TimersBoolean DEF InstallingInstalled
  <2>2. rule' \in Rule
    BY <1>4 DEF InstallingInstalled, set_reponse_objects, Rule
  <2>3. out' \subseteq Message
    BY <1>4, AnswersAreMessages
  <2> QED
    BY <1>4, <2>1, <2>2, <2>3 DEF InstallingInstalled, Timers, nr
<1>5. ASSUME NEW n \in 0 .. MaxObjects, InstallingMismatch(n) PROVE IInv'
  <2>1. outdated' \in BOOLEAN
    BY <1>5, TimersBoolean DEF InstallingMismatch
  <2>2. out' \subseteq Message
    BY <1>5, ErrorResponse DEF InstallingMismatch
  <2>3. posted' \subseteq {"check", "install", "interact", "remove"}
    BY <1>5 DEF InstallingMismatch, Post, NoPost
  <2>4. lifetime' \in Lifetimes /\ lifetime' <= MaxLifetime
    BY <1>5, LifetimesAssumption DEF InstallingMismatch
  <2> QED
    BY <1>5, <2>1, <2>2, <2>3, <2>4 DEF InstallingMismatch, Timers, nr
<1>6. CASE ApiBidding
    BY <1>6, RequestIsMessage, ZeroLifetime DEF ApiBidding, nr
<1>7. CASE TeardownRemoved
  <2>1. outdated' \in BOOLEAN
    BY <1>7, TimersBoolean DEF TeardownRemoved
  <2> QED BY <1>7, <2>1 DEF TeardownRemoved, Timers, nr
<1> QED
    BY <1>1, <1>2, <1>3, <1>4, <1>5, <1>6, <1>7 DEF Api

LEMMA IInvNetwork == IInv /\ Network => IInv'
<1> SUFFICES ASSUME IInv, Network PROVE IInv'
    OBVIOUS
<1> USE BoundsAssumption, CreateIsMessage, CheckedLifetime
    DEF IInv, TypeOK, SessionTypeOK, TimerGuardsState, CreateKept, NothingHeldYet,
        LifetimeAdmitted, Pending, In, Send, Return, Fates, States
<1>1. ASSUME NEW c \in Creates, NEW n \in 0 .. MaxObjects, CloseCheck(c, n) PROVE IInv'
  <2>1. outdated' \in BOOLEAN
    BY <1>1, TimersBoolean DEF CloseCheck
  <2>2. rule' \in Rule /\ rule'.responses = 0
    BY <1>1 DEF CloseCheck, Rule
  <2>3. create_counter' \in 0 .. IF MaxRetries = 0 THEN 1 ELSE MaxRetries
    BY <1>1 DEF CloseCheck, CreateReceived, inc_counter
  <2>4. posted' \subseteq {"check", "install", "interact", "remove"}
    BY <1>1 DEF CloseCheck, Post
  <2> QED
    BY <1>1, <2>1, <2>2, <2>3, <2>4 DEF CloseCheck, CreateReceived, Timers
<1>2. ASSUME NEW c \in Creates, NEW n \in 0 .. MaxObjects, CloseCheckFails(c, n) PROVE IInv'
  <2>1. rule' \in Rule
    BY <1>2 DEF CloseCheckFails, Rule
  <2> QED BY <1>2, <2>1, ErrorResponse DEF CloseCheckFails, CreateReceived
<1>3. ASSUME NEW c \in Creates, NEW selected \in BOOLEAN, CloseNotParticipating(c, selected)
      PROVE  IInv'
  <2>1. outdated' \in BOOLEAN
    BY <1>3, TimersBoolean DEF CloseNotParticipating
  <2>2. out' \subseteq Message
    BY <1>3, AnswersAreMessages
  <2> QED
    BY <1>3, <2>1, <2>2, EmptyRuleIsRule
       DEF CloseNotParticipating, CreateReceived, Timers
<1>4. ASSUME NEW c \in Creates, CloseInvalidLifetime(c) PROVE IInv'
    BY <1>4, ErrorResponse DEF CloseInvalidLifetime, CreateReceived
<1>5. ASSUME NEW c \in Creates, CloseThrows(c) PROVE IInv'
    BY <1>5, ThrowPreserves DEF CloseThrows, CreateReceived
<1>6. CASE CloseOther
    BY <1>6 DEF CloseOther, nr
<1>7. CASE PendingRetry({})
  <2>1. outdated' \in BOOLEAN
    BY <1>7, TimersBoolean DEF PendingRetry
  <2> QED BY <1>7, <2>1, RetryBound DEF PendingRetry, Timers, Post
<1>8. CASE PendingGiveUp({})
  <2>1. outdated' \in BOOLEAN
    BY <1>8, TimersBoolean DEF PendingGiveUp
  <2> QED BY <1>8, <2>1, ErrorResponse DEF PendingGiveUp, Timers, nr
<1>9. CASE PendingRetryThrows \/ BiddingThrows
    BY <1>9, ThrowPreserves DEF PendingRetryThrows, BiddingThrows, nr
<1>10. ASSUME NEW q \in Refreshes, RefreshAccepted(q) PROVE IInv'
  <2>1. outdated' \in BOOLEAN
    BY <1>10, TimersBoolean DEF RefreshAccepted
  <2>2. lifetime' \in Lifetimes /\ lifetime' <= MaxLifetime /\ msn' \in MSNs
    BY <1>10, RefreshIsMessage DEF RefreshAccepted
  <2>3. out' \subseteq Message
    BY <1>10, AnswersAreMessages
  <2> QED
    BY <1>10, <2>1, <2>2, <2>3 DEF RefreshAccepted, RefreshNewer, Timers, nr
<1>11. ASSUME NEW q \in Refreshes, AuctioningTeardown(q) PROVE IInv'
  <2>1. out' \subseteq Message
    BY <1>11, AnswersAreMessages DEF AuctioningTeardown
  <2> QED
    BY <1>11, <2>1, UninstallPreserves DEF AuctioningTeardown, TeardownRequested, RefreshNewer
<1>12. ASSUME NEW q \in Refreshes, AuctioningTeardownThrows(q) PROVE IInv'
  <2>1. {create_success_response(q, 0)} \in SUBSET Message
    BY AnswersAreMessages
  <2> QED
    BY <1>12, <2>1, ThrowPreserves DEF AuctioningTeardownThrows, UninstallThrows, nr
<1>13. CASE Bidding
    BY <1>13 DEF Bidding, Post, nr
<1>14. CASE PendingOther \/ InstallingOther \/ AuctioningOther \/ TeardownOther
    BY <1>14, DiscardPreserves
       DEF PendingOther, InstallingOther, AuctioningOther, TeardownOther
<1> QED
    BY <1>1, <1>2, <1>3, <1>4, <1>5, <1>6, <1>7, <1>8, <1>9, <1>10, <1>11, <1>12,
       <1>13, <1>14 DEF Network

LEMMA IInvStep == IInv /\ [Next]_vars => IInv'
<1> SUFFICES ASSUME IInv, [Next]_vars PROVE IInv'
    OBVIOUS
<1> USE DEF IInv, TypeOK, SessionTypeOK, TimerGuardsState, CreateKept, NothingHeldYet,
        LifetimeAdmitted, Pending, In
<1>1. CASE Superseded
    BY <1>1 DEF Superseded, OutdatedTimer, nr
<1>2. CASE UNCHANGED vars
    BY <1>2 DEF vars, session, nr
<1> QED
    BY <1>1, <1>2, IInvStateTimer, IInvApi, IInvNetwork DEF Next

\* Every branch of the receiver's handlers keeps the invariant.
THEOREM Invariance == Spec => []IInv
BY IInvInit, IInvStep, PTL DEF Spec
-----------------------------------------------------------------------------
(* What a step sends *)

\* The RESPONSE m answers the CREATE the session keeps, and promises the lifetime
\* the session has exactly if the session is up after the step.
AnswersCreate(m) ==
    /\ m \in Message /\ m.kind = "RESPONSE" /\ m.dir = "up"
    /\ m.msn = create_message'.msn
    /\ m.ok <=> In("AUCTIONING")'
    /\ m.ok => m.lifetime = lifetime'
    /\ ~ m.ok => m.lifetime = 0

\* Every step sends nothing and does not end the pending phase with a session
\* that was opened, or answers the CREATE at the end of that phase, or answers
\* a REFRESH with the lifetime the active session keeps or with none.
StepSends ==
    \/ /\ out' = {}
       /\ Pending => Pending' \/ fate' \in {"thrown", "abort"} \/ create_message' = Null
    \/ Pending /\ \E m : out' = {m} /\ AnswersCreate(m)
    \/ ~ Pending /\ \A m \in out' : m.kind = "RESPONSE" /\ m.lifetime # 0
                     => In("AUCTIONING")' /\ m.lifetime = lifetime'

LEMMA ErrorAnswersCreate ==
    ASSUME create_message' \in Message, create_message'.dir = "down",
           ~ In("AUCTIONING")'
    PROVE  AnswersCreate(create_error_response(create_message'))
BY ErrorResponse DEF AnswersCreate, invertDirection

LEMMA ActiveAnswersCreate ==
    ASSUME create_message' \in Message, create_message'.dir = "down",
           lifetime' \in Lifetimes, In("AUCTIONING")'
    PROVE  AnswersCreate(create_success_response(create_message', lifetime'))
BY SuccessResponse DEF AnswersCreate, invertDirection

LEMMA EveryStepSends == IInv /\ Next => StepSends
<1> SUFFICES ASSUME IInv, Next PROVE StepSends
    OBVIOUS
<1> USE DEF Send, Throw, Abort, Discard, Return
<1>1. ASSUME Pending, ~ Pending', out' = {create_error_response(create_message')},
             create_message' \in Message, create_message'.dir = "down", fate' = "final"
      PROVE  StepSends
    BY <1>1, ErrorAnswersCreate DEF StepSends, In
<1>2. ASSUME Pending, In("AUCTIONING")', lifetime' \in Lifetimes,
             out' = {create_success_response(create_message', lifetime')},
             create_message' \in Message, create_message'.dir = "down"
      PROVE  StepSends
    BY <1>2, ActiveAnswersCreate DEF StepSends
<1>3. ASSUME fate = "live", ~ Pending, out' = {} PROVE StepSends
    BY <1>3 DEF StepSends
<1>4. ASSUME out' = {}, Pending' \/ fate' \in {"thrown", "abort"} PROVE StepSends
    BY <1>4 DEF StepSends
<1>5. CASE StateTimer
  <2>1. CASE PendingRetry({"state"}) \/ InstallingRetry
    BY <2>1, <1>4 DEF PendingRetry, InstallingRetry, Pending, In
  <2>2. CASE PendingGiveUp({"state"}) \/ InstallingGiveUp
    BY <2>2, <1>1 DEF PendingGiveUp, InstallingGiveUp, Pending, In, nr, IInv, CreateKept
  <2>3. CASE InstallingRetryThrows \/ AuctioningTimeoutThrows \/ TeardownRetryThrows
    BY <2>3, <1>4
       DEF InstallingRetryThrows, AuctioningTimeoutThrows, TeardownRetryThrows, UninstallThrows
  <2>4. CASE AuctioningTimeout \/ TeardownRetry \/ TeardownGiveUp
    BY <2>4, <1>3 DEF AuctioningTimeout, TimedOut, TeardownRetry, TeardownGiveUp, Pending, In
  <2> QED BY <1>5, <2>1, <2>2, <2>3, <2>4 DEF StateTimer
<1>6. CASE Superseded
    BY <1>6, <1>3, <1>4 DEF Superseded, OutdatedTimer, Pending, In
<1>7. CASE Api
  <2>1. ASSUME NEW a, PendingChecked(a) \/ PendingCheckedCrashes(a) \/ PendingCheckedThrows
        PROVE  StepSends
    BY <2>1, <1>4
       DEF PendingChecked, PendingCheckedCrashes, PendingCheckedThrows, Pending, In
  <2>2. ASSUME NEW n, InstallingInstalled(n) PROVE StepSends
    BY <2>2, <1>2
       DEF InstallingInstalled, Pending, In, nr, IInv, CreateKept, TypeOK, SessionTypeOK
  <2>3. ASSUME NEW n, InstallingMismatch(n) PROVE StepSends
    <3>1. /\ Pending /\ ~ In("AUCTIONING")'
          /\ create_message' \in Message /\ create_message'.dir = "down"
          /\ out' = {create_error_response(create_message')}
      BY <2>3 DEF InstallingMismatch, Pending, In, nr, IInv, CreateKept
    <3> QED BY <3>1, ErrorAnswersCreate DEF StepSends
  <2>4. CASE ApiBidding
    <3>1. ~ Pending /\ \A m \in out' : m.kind # "RESPONSE"
      BY <2>4 DEF ApiBidding, Pending, In, Request
    <3> QED BY <3>1 DEF StepSends
  <2>5. CASE TeardownRemoved
    BY <2>5, <1>3 DEF TeardownRemoved, Pending, In
  <2> QED BY <1>7, <2>1, <2>2, <2>3, <2>4, <2>5 DEF Api
<1>8. CASE Network
  <2>1. ASSUME NEW c \in Creates, NEW n, CloseCheck(c, n) PROVE StepSends
    BY <2>1, <1>4 DEF CloseCheck, Pending, In
  <2>2. ASSUME NEW c \in Creates, NEW n, CloseCheckFails(c, n) \/ CloseInvalidLifetime(c)
        PROVE  StepSends
    BY <2>2, <1>1, CreateIsMessage
       DEF CloseCheckFails, CloseInvalidLifetime, CreateReceived, Pending, In
  <2>3. ASSUME NEW c \in Creates, NEW selected, CloseNotParticipating(c, selected)
        PROVE  StepSends
    <3>1. lifetime' \in Lifetimes
      BY <2>3, CreateIsMessage, CheckedLifetime DEF CloseNotParticipating
    <3> QED
      BY <2>3, <3>1, <1>2, CreateIsMessage
         DEF CloseNotParticipating, CreateReceived, Pending, In
  <2>4. ASSUME NEW c \in Creates, CloseThrows(c) PROVE StepSends
    BY <2>4, <1>4 DEF CloseThrows
  <2>5. CASE CloseOther
    BY <2>5 DEF CloseOther, StepSends, nr, IInv, CreateKept
  <2>6. CASE PendingRetry({}) \/ PendingRetryThrows
    BY <2>6, <1>4 DEF PendingRetry, PendingRetryThrows, Pending, In
  <2>7. CASE PendingGiveUp({})
    BY <2>7, <1>1 DEF PendingGiveUp, Pending, In, nr, IInv, CreateKept
  <2>8. ASSUME NEW q \in Refreshes, RefreshAccepted(q) PROVE StepSends
    <3>1. /\ ~ Pending /\ In("AUCTIONING")'
          /\ out' = {create_success_response(q, lifetime')}
          /\ lifetime' \in Lifetimes
      BY <2>8, RefreshIsMessage, CheckedLifetime DEF RefreshAccepted, RefreshNewer, Pending, In
    <3>2. create_success_response(q, lifetime').lifetime = lifetime'
      BY <3>1, RefreshIsMessage, SuccessResponse
    <3> QED BY <3>1, <3>2 DEF StepSends
  <2>9. ASSUME NEW q \in Refreshes, AuctioningTeardown(q) \/ AuctioningTeardownThrows(q)
        PROVE  StepSends
    <3>1. ~ Pending /\ out' = {create_success_response(q, 0)}
      BY <2>9
         DEF AuctioningTeardown, AuctioningTeardownThrows, UninstallThrows,
             TeardownRequested, RefreshNewer, Pending, In
    <3>2. create_success_response(q, 0).lifetime = 0
      BY RefreshIsMessage, SuccessResponse, ZeroLifetime
    <3> QED BY <3>1, <3>2 DEF StepSends
  <2>10. CASE Bidding \/ BiddingThrows
    BY <2>10, <1>3 DEF Bidding, BiddingThrows, Pending, In
  <2>11. CASE PendingOther \/ InstallingOther \/ AuctioningOther \/ TeardownOther
    BY <2>11, <1>3, <1>4
       DEF PendingOther, InstallingOther, AuctioningOther, TeardownOther, Pending, In
  <2> QED
    BY <1>8, <2>1, <2>2, <2>3, <2>4, <2>5, <2>6, <2>7, <2>8, <2>9, <2>10, <2>11
       DEF Network
<1> QED
    BY <1>5, <1>6, <1>7, <1>8 DEF Next

-----------------------------------------------------------------------------
(* The theorems *)

\* The variables have their types; the retry counter stays within the configured
\* number of retries.
THEOREM TypeCorrect == Spec => []TypeOK
BY Invariance, PTL DEF IInv

\* A session in the table has its state timer running, whatever happened.
THEOREM TimerGuards == Spec => []TimerGuardsState
BY Invariance, PTL DEF IInv

\* The CREATE that opens a session is answered by exactly one RESPONSE, with
\* success exactly if the session is up.
THEOREM CreatesAnswered == Spec => CreateAnswered
<1> DEFINE P == Pending /\ ~ Pending' /\ fate' \in {"live", "final"} /\ create_message' # Null
                => \E m \in Message :
                      /\ out' = {m}
                      /\ m.kind = "RESPONSE" /\ m.dir = "up" /\ m.msn = create_message'.msn
                      /\ m.ok <=> In("AUCTIONING")'
                      /\ m.ok => m.lifetime = lifetime'
<1>1. IInv /\ Next => P
    BY EveryStepSends DEF StepSends, AnswersCreate
<1>2. IInv /\ [Next]_vars => [P]_vars
    BY <1>1
<1> QED
    BY <1>2, Invariance, PTL DEF Spec, CreateAnswered

\* A promised lifetime is the one the session keeps, is admitted, and is guarded
\* by the state timer.
THEOREM PromisesKept == Spec => PromiseKept
<1> DEFINE P == \A m \in out' : m.kind = "RESPONSE" /\ m.lifetime > 0
                => /\ In("AUCTIONING")'
                   /\ lifetime' = m.lifetime /\ m.lifetime <= MaxLifetime
                   /\ armed' = {"state"}
<1>1. IInv /\ Next => P
  <2> SUFFICES ASSUME IInv, Next, NEW m \in out', m.kind = "RESPONSE", m.lifetime > 0
               PROVE  /\ In("AUCTIONING")'
                      /\ lifetime' = m.lifetime /\ m.lifetime <= MaxLifetime
                      /\ armed' = {"state"}
    OBVIOUS
  <2>1. m.lifetime # 0
    OBVIOUS
  <2>2. In("AUCTIONING")' /\ lifetime' = m.lifetime
    BY <2>1, EveryStepSends DEF StepSends, AnswersCreate
  <2>3. IInv'
    BY IInvStep
  <2> QED BY <2>2, <2>3 DEF IInv, LifetimeAdmitted, TimerGuardsState, In
<1>2. IInv /\ [Next]_vars => [P]_vars
    BY <1>1
<1> QED
    BY <1>2, Invariance, PTL DEF Spec, PromiseKept
-----------------------------------------------------------------------------
(* The way to the end *)

\* The session is over, but for the removal of its objects.
Over == Ended \/ In("PENDING_TEARDOWN")

\* No event brings back a session that is over.
LEMMA StaysOver == Next /\ Over => Over'
<1> SUFFICES ASSUME Next, Over PROVE Over'
    OBVIOUS
<1> USE DEF Over, Ended, In, Return, Throw, Discard
<1>1. CASE StateTimer \/ Superseded
    BY <1>1
       DEF StateTimer, PendingRetry, PendingGiveUp, InstallingRetry, InstallingRetryThrows,
           InstallingGiveUp, AuctioningTimeout, AuctioningTimeoutThrows, TimedOut,
           TeardownRetry, TeardownRetryThrows, TeardownGiveUp, Superseded, OutdatedTimer
<1>2. CASE Api
    BY <1>2
       DEF Api, PendingChecked, PendingCheckedCrashes, PendingCheckedThrows, CheckAnswered,
           InstallingInstalled, InstallingMismatch, ApiBidding, TeardownRemoved
<1>3. CASE Network
    BY <1>3
       DEF Network, CreateReceived, CloseCheck, CloseCheckFails, CloseNotParticipating,
           CloseInvalidLifetime, CloseThrows, CloseOther, PendingRetry, PendingRetryThrows,
           PendingGiveUp, RefreshAccepted, RefreshNewer, AuctioningTeardown,
           AuctioningTeardownThrows, TeardownRequested, Bidding, BiddingThrows,
           PendingOther, InstallingOther, AuctioningOther, TeardownOther
<1> QED
    BY <1>1, <1>2, <1>3 DEF Next

-----------------------------------------------------------------------------
(* The receiver's session implements the life cycle *)

\* A handler that throws or fails an assertion takes the session to its end.
LEMMA FailImplements ==
    ASSUME IInv, fate \in {"new", "live"}, fate' \in {"thrown", "abort"},
           UNCHANGED <<rule, posted>>
    PROVE  LC!Next
<1>1. Phase \in {"idle", "pending", "active", "releasing"}
    BY PhaseOf DEF In
<1>2. LC!Fail
    BY <1>1, PhaseOfNext DEF LC!Fail
<1> QED BY <1>2 DEF LC!Next

LEMMA UninstallImplements ==
    ASSUME In("AUCTIONING"), NEW fired, UninstallRule(fired)
    PROVE  LC!Next
<1>1. Phase = "active"
    BY PhaseOf
<1>2. CASE HoldsObjects(rule)
  <2>1. LC!Release
    BY <1>1, <1>2, PhaseOfNext
       DEF UninstallRule, HoldsObjects, Return, Post, LC!Release
  <2> QED BY <2>1 DEF LC!Next
<1>3. CASE ~ HoldsObjects(rule)
  <2>1. LC!Leave
    BY <1>1, <1>3, PhaseOfNext
       DEF UninstallRule, HoldsObjects, Return, NoPost, LC!Leave
  <2> QED BY <2>1 DEF LC!Next
<1> QED BY <1>2, <1>3

LEMMA StepImplements == IInv /\ Next => LC!Next \/ UNCHANGED LC!vars
<1> SUFFICES ASSUME IInv, Next PROVE LC!Next \/ UNCHANGED LC!vars
    OBVIOUS
<1> USE DEF In, Return
<1>0. ASSUME UNCHANGED <<fate, state, rule>>, ("remove" \in posted') = ("remove" \in posted)
      PROVE  UNCHANGED LC!vars
    BY <1>0, PhaseOfNext DEF LC!vars
<1>a. ASSUME In("PENDING") \/ In("PENDING_INSTALLING"), fate' = "final",
             UNCHANGED <<rule, posted>>
      PROVE  LC!Next
  <2>1. LC!Abandon
    BY <1>a, PhaseOf, PhaseOfNext DEF LC!Abandon
  <2> QED BY <2>1 DEF LC!Next
<1>1. CASE StateTimer
  <2>1. CASE PendingRetry({"state"}) \/ InstallingRetry
    BY <1>0, <2>1 DEF PendingRetry, InstallingRetry, PostIfInstalling, Post, NoPost
  <2>2. CASE PendingGiveUp({"state"}) \/ InstallingGiveUp
    BY <1>a, <2>2 DEF PendingGiveUp, InstallingGiveUp
  <2>3. CASE InstallingRetryThrows \/ AuctioningTimeoutThrows \/ TeardownRetryThrows
    BY <2>3, FailImplements
       DEF InstallingRetryThrows, AuctioningTimeoutThrows, TimedOut, TeardownRetryThrows,
           UninstallThrows, Throw
  <2>4. CASE AuctioningTimeout
    BY <2>4, UninstallImplements DEF AuctioningTimeout, TimedOut
  <2>5. CASE TeardownRetry
    <3>1. LC!ReleaseAgain
      BY <2>5, PhaseOf, PhaseOfNext DEF TeardownRetry, Post, LC!ReleaseAgain
    <3> QED BY <3>1 DEF LC!Next
  <2>6. CASE TeardownGiveUp
    <3>1. LC!Finish
      BY <2>6, PhaseOf, PhaseOfNext DEF TeardownGiveUp, LC!Finish
    <3> QED BY <3>1 DEF LC!Next
  <2> QED BY <1>1, <2>1, <2>2, <2>3, <2>4, <2>5, <2>6 DEF StateTimer
<1>2. CASE Superseded
    BY <1>0, <1>2 DEF Superseded, OutdatedTimer
<1>3. CASE Api
  <2>1. ASSUME NEW a, PendingChecked(a) PROVE UNCHANGED LC!vars
    <3>1. rule'.responses = rule.responses
      BY <2>1 DEF PendingChecked, IInv, TypeOK, SessionTypeOK, Rule
    <3>2. ("remove" \in posted') = ("remove" \in posted)
      BY <2>1 DEF PendingChecked, PostIfInstalling, Post, NoPost
    <3> QED
      BY <2>1, <3>1, <3>2, PhaseOf, PhaseOfNext DEF PendingChecked, CheckAnswered, LC!vars
  <2>2. ASSUME NEW a, PendingCheckedCrashes(a) \/ PendingCheckedThrows PROVE LC!Next
    BY <2>2, FailImplements
       DEF PendingCheckedCrashes, PendingCheckedThrows, CheckAnswered, Throw, Abort
  <2>3. ASSUME NEW n, InstallingInstalled(n) PROVE LC!Next
    <3>1. LC!Activate
      BY <2>3, PhaseOf, PhaseOfNext DEF InstallingInstalled, LC!Activate
    <3> QED BY <3>1 DEF LC!Next
  <2>4. ASSUME NEW n, InstallingMismatch(n) PROVE LC!Next
    <3>1. UNCHANGED <<rule, posted>>
      BY <2>4 DEF InstallingMismatch, HoldsObjects, NoPost, IInv, NothingHeldYet, Pending
    <3>2. LC!Abandon
      BY <2>4, <3>1, PhaseOf, PhaseOfNext DEF InstallingMismatch, LC!Abandon
    <3> QED BY <3>2 DEF LC!Next
  <2>5. CASE ApiBidding
    BY <1>0, <2>5 DEF ApiBidding
  <2>6. CASE TeardownRemoved
    <3>1. LC!Finish
      BY <2>6, PhaseOf, PhaseOfNext DEF TeardownRemoved, LC!Finish
    <3> QED BY <3>1 DEF LC!Next
  <2> QED BY <1>3, <2>1, <2>2, <2>3, <2>4, <2>5, <2>6 DEF Api
<1>4. CASE Network
  <2>0. fate = "new" => rule.responses = 0
    BY DEF IInv, NothingHeldYet, Pending
  <2>1. ASSUME fate = "new", fate' \in {"live", "final"}, state' # "PENDING_TEARDOWN",
               rule'.responses = 0, ("remove" \in posted') = ("remove" \in posted)
        PROVE  LC!Next
    <3>1. Phase' \in {"pending", "active", "gone"}
      BY <2>1, PhaseOfNext
    <3>2. LC!Open
      BY <2>0, <2>1, <3>1, PhaseOf DEF LC!Open
    <3> QED BY <3>2 DEF LC!Next
  <2>2. ASSUME NEW c, NEW n,
               CloseCheck(c, n) \/ CloseCheckFails(c, n) \/ CloseInvalidLifetime(c)
        PROVE  LC!Next
    BY <2>0, <2>1, <2>2
       DEF CloseCheck, CloseCheckFails, CloseInvalidLifetime, CreateReceived, Post
  <2>3. ASSUME NEW c, NEW selected, CloseNotParticipating(c, selected) \/ CloseOther
        PROVE  LC!Next
    BY <2>0, <2>1, <2>3, EmptyRuleIsRule DEF CloseNotParticipating, CloseOther, CreateReceived
  <2>4. ASSUME NEW c, CloseThrows(c) \/ PendingRetryThrows \/ BiddingThrows PROVE LC!Next
    BY <2>4, FailImplements
       DEF CloseThrows, CreateReceived, PendingRetryThrows, BiddingThrows, Throw
  <2>5. CASE PendingRetry({}) \/ Bidding
    BY <1>0, <2>5 DEF PendingRetry, Bidding, Post
  <2>6. CASE PendingGiveUp({})
    BY <1>a, <2>6 DEF PendingGiveUp
  <2>7. ASSUME NEW q, RefreshAccepted(q) PROVE UNCHANGED LC!vars
    BY <1>0, <2>7 DEF RefreshAccepted
  <2>8. ASSUME NEW q, AuctioningTeardown(q) PROVE LC!Next
    BY <2>8, UninstallImplements DEF AuctioningTeardown, TeardownRequested, RefreshNewer
  <2>9. ASSUME NEW q, AuctioningTeardownThrows(q) PROVE LC!Next
    BY <2>9, FailImplements
       DEF AuctioningTeardownThrows, TeardownRequested, RefreshNewer, UninstallThrows, Throw
  <2>10. CASE PendingOther \/ InstallingOther \/ AuctioningOther \/ TeardownOther
    BY <1>0, <2>10
       DEF PendingOther, InstallingOther, AuctioningOther, TeardownOther, Discard
  <2> QED
    BY <1>4, <2>2, <2>3, <2>4, <2>5, <2>6, <2>7, <2>8, <2>9, <2>10 DEF Network
<1> QED
    BY <1>1, <1>2, <1>3, <1>4 DEF Next

\* The receiver's session implements the life cycle: objects a session held while
\* active are not left behind without a request to remove them.
THEOREM Refinement == Spec => ImplementsLifecycle
<1>1. Init => LC!Init
    BY PhaseOf DEF Init, SessionInit, EmptyRule, LC!Init
<1>2. IInv /\ [Next]_vars => [LC!Next]_(LC!vars)
  <2>1. UNCHANGED vars => UNCHANGED LC!vars
    BY PhaseOfNext DEF vars, session, LC!vars
  <2> QED BY <2>1, StepImplements
<1> QED
    BY <1>1, <1>2, Invariance, PTL DEF Spec, ImplementsLifecycle, LC!Spec

\* A receiver's session that is gone has asked for the removal of the objects it
\* held (remove_auction_rules).
THEOREM ObjectsReleased == Spec => []InstalledObjectsReleased
BY Refinement, LifecycleReleases, PTL DEF ImplementsLifecycle
=============================================================================
