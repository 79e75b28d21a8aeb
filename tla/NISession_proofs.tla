-------------------------- MODULE NISession_proofs --------------------------
(***************************************************************************)
(* The initiator's session, for every size of the sequence number space,   *)
(* every set of lifetimes and every number of retries and objects.         *)
(***************************************************************************)
EXTENDS NISession, Session_proofs

-----------------------------------------------------------------------------
(* Messages *)

LEMMA CreateMessage ==
    ASSUME NEW l \in Lifetimes, msn \in MSNs
    PROVE  /\ build_create_message(l) \in Message
           /\ build_create_message(l).kind = "CREATE"
BY NextNumber DEF build_create_message, Request, Message

LEMMA RefreshMessage ==
    ASSUME NEW l \in Lifetimes, msn \in MSNs
    PROVE  /\ build_refresh_message(l) \in Message
           /\ build_refresh_message(l).kind = "REFRESH"
           /\ build_refresh_message(l).lifetime = l
BY NextNumber DEF build_refresh_message, Request, Message

LEMMA BiddingMessage ==
    ASSUME msn \in MSNs
    PROVE  build_bidding_message \in Message
BY NextNumber, LifetimesAssumption DEF build_bidding_message, Request, Message

-----------------------------------------------------------------------------
(* The inductive invariant *)

\* A session that has not become active holds no objects and has sent no
\* REFRESH that could be repeated; and the rule it asks to have installed never
\* records any.
NothingHeldYet ==
    /\ fate = "new" \/ (fate = "live" /\ state \in {"PENDING", "PENDING_INSTALLING"})
          => last_refresh_msg = Null /\ rule.responses = 0
    /\ last_auction_install_rule.responses = 0

\* A session waiting for the removal of its objects has asked for it.
RemovalAsked ==
    /\ In("PENDING_TEARDOWN") => "remove" \in posted
    /\ fate = "final" /\ rule.responses > 0 => "remove" \in posted

IInv ==
    /\ TypeOK
    /\ TimerGuardsState
    /\ RetransmissionHasMessage
    /\ NothingHeldYet
    /\ RemovalAsked

LEMMA IInvInit == Init => IInv
<1> SUFFICES ASSUME Init PROVE IInv
    OBVIOUS
<1> USE DEF Init, SessionInit
<1>0. outdated \in BOOLEAN
    OBVIOUS
<1>1. rule \in Rule /\ last_auction_install_rule \in Rule
    BY BoundsAssumption DEF Rule, EmptyRule
<1>2. TypeOK
    BY <1>0, <1>1, LifetimesAssumption, BoundsAssumption DEF TypeOK, SessionTypeOK, States, Fates
<1>3. TimerGuardsState /\ RetransmissionHasMessage
    BY DEF TimerGuardsState, RetransmissionHasMessage, In
<1>4. NothingHeldYet /\ RemovalAsked
    BY DEF NothingHeldYet, RemovalAsked, In, EmptyRule
<1> QED BY <1>2, <1>3, <1>4 DEF IInv

-----------------------------------------------------------------------------
(* What the actions have in common *)

LEMMA DiscardPreserves == IInv /\ Discard /\ UNCHANGED ni => IInv'
BY DEF IInv, TypeOK, SessionTypeOK, TimerGuardsState, RetransmissionHasMessage,
       NothingHeldYet, RemovalAsked, In, Discard, ni

LEMMA ThrowPreserves == IInv /\ Throw({}) /\ UNCHANGED ni => IInv'
BY DEF IInv, TypeOK, SessionTypeOK, TimerGuardsState, RetransmissionHasMessage,
       NothingHeldYet, RemovalAsked, In, Throw, Fates, ni

LEMMA AbortPreserves == IInv /\ Abort /\ UNCHANGED ni => IInv'
BY DEF IInv, TypeOK, SessionTypeOK, TimerGuardsState, RetransmissionHasMessage,
       NothingHeldYet, RemovalAsked, In, Abort, Fates, ni

\* Giving an installation up leaves a session that has sent no REFRESH to repeat
\* and holds no objects, so it may close without a removal.
LEMMA AbandonPreserves ==
    ASSUME IInv, In("PENDING_INSTALLING"),
           NEW r \in Rule, r.responses = 0, AbandonInstallation(r),
           armed' \subseteq {"response", "refresh"}, outdated' \in BOOLEAN
    PROVE  IInv'
<1> USE DEF IInv, TypeOK, SessionTypeOK
<1>1. msn' \in MSNs /\ out' \subseteq Message
    BY RefreshMessage, NextNumber, ZeroLifetime DEF AbandonInstallation, Send
<1>2. posted' \subseteq {"check", "install", "interact", "remove"}
    BY DEF AbandonInstallation, Post, NoPost
<1> QED
    BY <1>1, <1>2, ZeroLifetime
       DEF AbandonInstallation, Return, Fates, States, TimerGuardsState, In,
           RetransmissionHasMessage, NothingHeldYet, RemovalAsked

\* A session that was active closes at once only if it holds no objects.
LEMMA UninstallPreserves ==
    ASSUME IInv, In("AUCTIONING"), NEW fired, UninstallRule(fired)
    PROVE  IInv'
<1> USE DEF IInv, TypeOK, SessionTypeOK
<1>1. outdated' \in BOOLEAN
    BY TimersBoolean DEF UninstallRule
<1>2. posted' \subseteq {"check", "install", "interact", "remove"}
    BY DEF UninstallRule, Post, NoPost
<1>3. armed' \subseteq {"response", "refresh"}
    BY DEF UninstallRule, Timers
<1>4. TypeOK'
    BY <1>1, <1>2, <1>3, BoundsAssumption DEF UninstallRule, Return, Send, Fates, States
<1>5. TimerGuardsState'
    BY DEF UninstallRule, Timers, Return, TimerGuardsState, In
<1>6. RetransmissionHasMessage' /\ NothingHeldYet'
    BY DEF UninstallRule, Return, RetransmissionHasMessage, NothingHeldYet, In
<1>7. RemovalAsked'
    BY DEF UninstallRule, Return, RemovalAsked, HoldsObjects, Post, In, Rule
<1> QED BY <1>4, <1>5, <1>6, <1>7

-----------------------------------------------------------------------------
(* One step per action *)

LEMMA IInvApi == IInv /\ Api => IInv'
<1> SUFFICES ASSUME IInv, Api PROVE IInv'
    OBVIOUS
<1> USE BoundsAssumption, ZeroLifetime, NullIsNoMessage
    DEF IInv, TypeOK, SessionTypeOK, TimerGuardsState, RetransmissionHasMessage,
        NothingHeldYet, RemovalAsked, In, Send, Return, Fates, States
<1>1. ASSUME NEW l \in Lifetimes, NEW q \in BOOLEAN, ApiCreate(l, q) PROVE IInv'
  <2>1. /\ msn' \in MSNs
        /\ last_create_msg' \in Message /\ last_create_msg'.kind = "CREATE"
        /\ outdated' \in BOOLEAN
    BY <1>1, CreateMessage, NextNumber, TimersBoolean DEF ApiCreate
  <2> QED BY <1>1, <2>1 DEF ApiCreate, Timers
<1>2. ASSUME NEW l \in Lifetimes, ApiCreateAssertFails(l) PROVE IInv'
    BY <1>2, AbortPreserves DEF ApiCreateAssertFails
<1>3. CASE PendingTeardown
  <2>1. msn' \in MSNs /\ out' \subseteq Message
    BY <1>3, RefreshMessage, NextNumber DEF PendingTeardown
  <2> QED BY <1>3, <2>1 DEF PendingTeardown
<1>4. CASE InstallingTeardown
    BY <1>4, AbandonPreserves DEF InstallingTeardown
<1>5. CASE AuctioningTeardown
  <2>1. /\ msn' \in MSNs
        /\ last_refresh_msg' \in Message
        /\ last_refresh_msg'.kind = "REFRESH" /\ last_refresh_msg'.lifetime = 0
    BY <1>5, RefreshMessage, NextNumber DEF AuctioningTeardown, SendRefresh
  <2> QED BY <1>5, <2>1 DEF AuctioningTeardown, SendRefresh
<1>6. ASSUME NEW n \in 0 .. MaxObjects, InstallingInstalled(n) PROVE IInv'
  <2>1. outdated' \in BOOLEAN
    BY <1>6, TimersBoolean DEF InstallingInstalled
  <2>2. rule' \in Rule
    BY <1>6 DEF InstallingInstalled, set_reponse_objects, Rule
  <2> QED BY <1>6, <2>1, <2>2 DEF InstallingInstalled, Timers
<1>7. ASSUME NEW n \in 0 .. MaxObjects, InstallingMismatch(n) PROVE IInv'
    BY <1>7, AbandonPreserves, EmptyRuleIsRule DEF InstallingMismatch
<1>8. CASE AuctioningInstallAgain
    BY <1>8, DiscardPreserves DEF AuctioningInstallAgain
<1>9. CASE ApiBidding
  <2>1. msn' \in MSNs /\ out' \subseteq Message
    BY <1>9, BiddingMessage, NextNumber DEF ApiBidding
  <2> QED BY <1>9, <2>1 DEF ApiBidding, ni
<1>10. CASE TeardownRemoved
  <2>1. outdated' \in BOOLEAN
    BY <1>10, TimersBoolean DEF TeardownRemoved
  <2> QED BY <1>10, <2>1 DEF TeardownRemoved, Timers, ni
<1> QED
    BY <1>1, <1>2, <1>3, <1>4, <1>5, <1>6, <1>7, <1>8, <1>9, <1>10 DEF Api

LEMMA IInvResponseTimer == IInv /\ ResponseTimer => IInv'
<1> SUFFICES ASSUME IInv, ResponseTimer PROVE IInv'
    OBVIOUS
<1> USE BoundsAssumption, ZeroLifetime, NullIsNoMessage
    DEF IInv, TypeOK, SessionTypeOK, TimerGuardsState, RetransmissionHasMessage,
        NothingHeldYet, RemovalAsked, In, Send, Return, Fates, States
<1>0. ASSUME NEW c \in 0 .. MaxRetries, RetriesLeft(c) PROVE inc_counter(c) \in 0 .. MaxRetries
    BY <1>0 DEF RetriesLeft, inc_counter
<1>1. CASE PendingRetry
  <2>1. outdated' \in BOOLEAN
    BY <1>1, TimersBoolean DEF PendingRetry
  <2>2. last_create_msg \in Message
    BY <1>1 DEF PendingRetry, Null
  <2> QED BY <1>0, <1>1, <2>1, <2>2 DEF PendingRetry, Timers
<1>2. CASE PendingGiveUp
  <2>1. outdated' \in BOOLEAN
    BY <1>2, TimersBoolean DEF PendingGiveUp
  <2> QED BY <1>2, <2>1 DEF PendingGiveUp, Timers, ni
<1>3. CASE InstallingRetry
  <2>1. outdated' \in BOOLEAN
    BY <1>3, TimersBoolean DEF InstallingRetry
  <2> QED BY <1>0, <1>3, <2>1 DEF InstallingRetry, Timers, Post
<1>4. CASE InstallingRetryThrows
    BY <1>4, ThrowPreserves DEF InstallingRetryThrows
<1>5. CASE InstallingGiveUp
  <2>1. outdated' \in BOOLEAN
    BY <1>5, TimersBoolean DEF InstallingGiveUp
  <2>2. armed' \subseteq {"response", "refresh"}
    BY <1>5 DEF InstallingGiveUp, Timers
  <2> QED BY <1>5, <2>1, <2>2, AbandonPreserves, EmptyRuleIsRule DEF InstallingGiveUp
<1>6. CASE AuctioningRetry
  <2>1. outdated' \in BOOLEAN
    BY <1>6, TimersBoolean DEF AuctioningRetry
  <2> QED BY <1>0, <1>6, <2>1 DEF AuctioningRetry, Timers
<1>7. CASE AuctioningGiveUp
    BY <1>7, UninstallPreserves DEF AuctioningGiveUp, NoAnswer
<1>8. CASE AuctioningGiveUpThrows
    BY <1>8, ThrowPreserves DEF AuctioningGiveUpThrows, UninstallThrows
<1>9. CASE TeardownRetry
  <2>1. outdated' \in BOOLEAN
    BY <1>9, TimersBoolean DEF TeardownRetry
  <2> QED BY <1>0, <1>9, <2>1 DEF TeardownRetry, Timers, Post
<1>10. CASE TeardownRetryThrows
    BY <1>10, ThrowPreserves DEF TeardownRetryThrows, UninstallThrows
<1>11. CASE TeardownGiveUp
  <2>1. outdated' \in BOOLEAN
    BY <1>11, TimersBoolean DEF TeardownGiveUp
  <2> QED BY <1>11, <2>1 DEF TeardownGiveUp, Timers, ni
<1> QED
    BY <1>1, <1>2, <1>3, <1>4, <1>5, <1>6, <1>7, <1>8, <1>9, <1>10, <1>11
       DEF ResponseTimer

LEMMA IInvNetwork == IInv /\ Network => IInv'
<1> SUFFICES ASSUME IInv, Network PROVE IInv'
    OBVIOUS
<1> USE BoundsAssumption, ZeroLifetime, NullIsNoMessage
    DEF IInv, TypeOK, SessionTypeOK, TimerGuardsState, RetransmissionHasMessage,
        NothingHeldYet, RemovalAsked, In, Send, Return, Fates, States
<1>1. CASE PendingNoNextNode
    BY <1>1 DEF PendingNoNextNode, ni
<1>2. ASSUME NEW r \in Responses, NEW n \in 0 .. MaxObjects, PendingSuccess(r, n) PROVE IInv'
  <2>1. outdated' \in BOOLEAN
    BY <1>2, TimersBoolean DEF PendingSuccess
  <2>2. lifetime' \in Lifetimes
    BY <1>2 DEF PendingSuccess, Responses, Message
  <2>3. last_auction_install_rule' \in Rule /\ last_auction_install_rule'.responses = 0
    BY <1>2 DEF PendingSuccess, build_auction_install_rule, Rule
  <2> QED BY <1>2, <2>1, <2>2, <2>3 DEF PendingSuccess, Timers, Post
<1>3. ASSUME NEW r \in Responses, PendingSuccessThrows(r) PROVE IInv'
    BY <1>3, ThrowPreserves DEF PendingSuccessThrows
<1>4. ASSUME NEW r \in Responses, PendingFailure(r) PROVE IInv'
    BY <1>4 DEF PendingFailure, ni
<1>5. ASSUME NEW r \in Responses, AuctioningRefreshed(r) PROVE IInv'
  <2>1. outdated' \in BOOLEAN
    BY <1>5, TimersBoolean DEF AuctioningRefreshed
  <2> QED BY <1>5, <2>1 DEF AuctioningRefreshed, RefreshAnswered, Timers
<1>6. ASSUME NEW r \in Responses, AuctioningOver(r) PROVE IInv'
    BY <1>6, UninstallPreserves DEF AuctioningOver, SessionOver, RefreshAnswered
<1>7. ASSUME NEW r \in Responses, AuctioningOverThrows(r) PROVE IInv'
    BY <1>7, ThrowPreserves DEF AuctioningOverThrows, UninstallThrows
<1>8. ASSUME NEW queued \in BOOLEAN, Bidding(queued) PROVE IInv'
    BY <1>8 DEF Bidding, Post, NoPost, ni
<1>9. CASE PendingOther \/ InstallingOther \/ AuctioningOther \/ TeardownOther
    BY <1>9, DiscardPreserves
       DEF PendingOther, InstallingOther, AuctioningOther, TeardownOther
<1>10. CASE AuctioningOtherAssertFails
    BY <1>10, AbortPreserves DEF AuctioningOtherAssertFails
<1> QED
    BY <1>1, <1>2, <1>3, <1>4, <1>5, <1>6, <1>7, <1>8, <1>9, <1>10 DEF Network

LEMMA IInvStep == IInv /\ [Next]_vars => IInv'
<1> SUFFICES ASSUME IInv, [Next]_vars PROVE IInv'
    OBVIOUS
<1> USE DEF IInv, TypeOK, SessionTypeOK, TimerGuardsState, RetransmissionHasMessage,
            NothingHeldYet, RemovalAsked, In
<1>1. CASE ResponseTimer
    BY <1>1, IInvResponseTimer
<1>2. CASE AuctioningRefresh
  <2>1. outdated' \in BOOLEAN
    BY <1>2, TimersBoolean DEF AuctioningRefresh
  <2>2. /\ msn' \in MSNs
        /\ last_refresh_msg' \in Message
        /\ last_refresh_msg'.kind = "REFRESH" /\ last_refresh_msg'.lifetime = lifetime
    BY <1>2, RefreshMessage, NextNumber DEF AuctioningRefresh, SendRefresh
  <2> QED
    BY <1>2, <2>1, <2>2, BoundsAssumption, NullIsNoMessage
       DEF AuctioningRefresh, SendRefresh, Send, Timers
<1>3. CASE TeardownRefreshTimer
    BY <1>3 DEF TeardownRefreshTimer, DropTimer, ni
<1>4. CASE Superseded
    BY <1>4 DEF Superseded, OutdatedTimer, ni
<1>5. CASE Api
    BY <1>5, IInvApi
<1>6. CASE Network
    BY <1>6, IInvNetwork
<1>7. CASE UNCHANGED vars
    BY <1>7 DEF vars, session, ni
<1> QED
    BY <1>1, <1>2, <1>3, <1>4, <1>5, <1>6, <1>7 DEF Next, RefreshTimer

\* Every branch of the initiator's handlers keeps the invariant.
THEOREM Invariance == Spec => []IInv
BY IInvInit, IInvStep, PTL DEF Spec

-----------------------------------------------------------------------------
(* What a step sends *)

\* m is a new request: it carries the next sequence number, which the session
\* keeps, and if it is a REFRESH the lifetime the session then has.
New(m) ==
    /\ m.kind \in {"CREATE", "REFRESH", "BIDDING"} /\ m.dir = "down" /\ m.ok = TRUE
    /\ m.msn = next_msg_sequence_number(msn)
    /\ msn' = m.msn
    /\ m.kind = "REFRESH" => m.lifetime = lifetime'

StepSends ==
    \/ out' = {} /\ UNCHANGED msn
    \/ out' = {last_create_msg} /\ In("PENDING") /\ UNCHANGED msn
    \/ out' = {last_refresh_msg} /\ In("AUCTIONING") /\ UNCHANGED <<msn, lifetime>>
    \/ \E m : out' = {m} /\ New(m)

\* A step sends nothing, a new message, or repeats the one the state keeps.
LEMMA EveryStepSends == Next => StepSends
<1> SUFFICES ASSUME Next PROVE StepSends
    OBVIOUS
<1> USE DEF StepSends, Send, Throw, Abort, Discard
<1> DEFINE Refresh(l) == build_refresh_message(l)
<1>0. ASSUME NEW l, out' = {Refresh(l)}, msn' = next_msg_sequence_number(msn), lifetime' = l
      PROVE  StepSends
  <2>1. New(Refresh(l))
    BY <1>0 DEF New, build_refresh_message, Request
  <2> QED BY <1>0, <2>1
<1>1. CASE ResponseTimer
  <2>1. CASE InstallingGiveUp
    BY <1>0, <2>1 DEF InstallingGiveUp, AbandonInstallation
  <2> QED
    BY <1>1, <2>1
       DEF ResponseTimer, PendingRetry, PendingGiveUp, InstallingRetry,
           InstallingRetryThrows, AuctioningRetry, AuctioningGiveUp,
           AuctioningGiveUpThrows, TeardownRetry, TeardownRetryThrows, TeardownGiveUp,
           UninstallRule, UninstallThrows
<1>2. CASE RefreshTimer \/ Superseded
    BY <1>0, <1>2
       DEF RefreshTimer, AuctioningRefresh, SendRefresh, TeardownRefreshTimer, DropTimer,
           Superseded, OutdatedTimer
<1>3. CASE Api
  <2>1. ASSUME NEW l \in Lifetimes, NEW q \in BOOLEAN, ApiCreate(l, q) PROVE StepSends
    <3>1. out' = {build_create_message(l)} /\ New(build_create_message(l))
      BY <2>1 DEF ApiCreate, New, build_create_message, Request
    <3> QED BY <3>1
  <2>2. CASE PendingTeardown \/ InstallingTeardown \/ AuctioningTeardown
    BY <1>0, <2>2
       DEF PendingTeardown, InstallingTeardown, AbandonInstallation, AuctioningTeardown,
           SendRefresh
  <2>3. ASSUME NEW n \in 0 .. MaxObjects, InstallingMismatch(n) PROVE StepSends
    BY <1>0, <2>3 DEF InstallingMismatch, AbandonInstallation
  <2>4. CASE ApiBidding
    <3>1. out' = {build_bidding_message} /\ New(build_bidding_message)
      BY <2>4 DEF ApiBidding, New, build_bidding_message, Request
    <3> QED BY <3>1
  <2> QED
    BY <1>3, <2>1, <2>2, <2>3, <2>4
       DEF Api, ApiCreateAssertFails, InstallingInstalled, AuctioningInstallAgain,
           TeardownRemoved
<1>4. CASE Network
    BY <1>4
       DEF Network, PendingNoNextNode, PendingSuccess, PendingSuccessThrows,
           PendingFailure, AuctioningRefreshed, AuctioningOver, AuctioningOverThrows,
           UninstallRule, UninstallThrows, Bidding, PendingOther, InstallingOther,
           AuctioningOther, TeardownOther, AuctioningOtherAssertFails
<1> QED
    BY <1>1, <1>2, <1>3, <1>4 DEF Next

\* What the session keeps for repetition it has sent before, or sends now.
LEMMA KeptIsSent ==
    Next => /\ last_create_msg' \in {last_create_msg, Null} \cup out'
            /\ last_refresh_msg' \in {last_refresh_msg} \cup out'
<1> SUFFICES ASSUME Next
             PROVE  /\ last_create_msg' \in {last_create_msg, Null} \cup out'
                    /\ last_refresh_msg' \in {last_refresh_msg} \cup out'
    OBVIOUS
<1> USE DEF ni, Send
<1>1. CASE ResponseTimer
    BY <1>1
       DEF ResponseTimer, PendingRetry, PendingGiveUp, InstallingRetry, InstallingGiveUp,
           AbandonInstallation, InstallingRetryThrows, AuctioningRetry, AuctioningGiveUp,
           AuctioningGiveUpThrows, TeardownRetry, TeardownRetryThrows, TeardownGiveUp,
           UninstallRule, UninstallThrows
<1>2. CASE RefreshTimer \/ Superseded
    BY <1>2
       DEF RefreshTimer, AuctioningRefresh, SendRefresh, TeardownRefreshTimer, Superseded
<1>3. CASE Api
    BY <1>3
       DEF Api, ApiCreateAssertFails, ApiCreate, PendingTeardown, InstallingTeardown,
           AbandonInstallation, AuctioningTeardown, SendRefresh, InstallingInstalled,
           InstallingMismatch, AuctioningInstallAgain, ApiBidding, TeardownRemoved
<1>4. CASE Network
    BY <1>4
       DEF Network, PendingNoNextNode, PendingSuccess, PendingSuccessThrows,
           PendingFailure, AuctioningRefreshed, AuctioningOver, AuctioningOverThrows,
           UninstallRule, UninstallThrows, Bidding, PendingOther, InstallingOther,
           AuctioningOther, TeardownOther, AuctioningOtherAssertFails
<1> QED
    BY <1>1, <1>2, <1>3, <1>4 DEF Next

\* The answer to the CREATE is the only way beyond PENDING, and a session that is
\* beyond it keeps its CREATE and its lifetime, unless it is torn down.
BeyondPending == In("PENDING_INSTALLING") \/ In("AUCTIONING")

LEMMA StaysBeyondPending ==
    Next /\ BeyondPending'
      => \/ /\ BeyondPending
            /\ last_create_msg' = last_create_msg
            /\ lifetime' \in {lifetime, 0}
         \/ In("PENDING") /\ In("PENDING_INSTALLING")'
<1> SUFFICES ASSUME Next, BeyondPending'
             PROVE  \/ /\ BeyondPending
                       /\ last_create_msg' = last_create_msg
                       /\ lifetime' \in {lifetime, 0}
                    \/ In("PENDING") /\ In("PENDING_INSTALLING")'
    OBVIOUS
<1> USE DEF BeyondPending, In, Throw, Abort, Discard, Return, ni
<1>1. CASE ResponseTimer
    BY <1>1
       DEF ResponseTimer, PendingRetry, PendingGiveUp, InstallingRetry, InstallingGiveUp,
           AbandonInstallation, InstallingRetryThrows, AuctioningRetry, AuctioningGiveUp,
           AuctioningGiveUpThrows, TeardownRetry, TeardownRetryThrows, TeardownGiveUp,
           UninstallRule, UninstallThrows
<1>2. CASE RefreshTimer \/ Superseded
    BY <1>2
       DEF RefreshTimer, AuctioningRefresh, TeardownRefreshTimer, DropTimer,
           Superseded, OutdatedTimer
<1>3. CASE Api
    BY <1>3
       DEF Api, ApiCreateAssertFails, ApiCreate, PendingTeardown, InstallingTeardown,
           AbandonInstallation, AuctioningTeardown, InstallingInstalled,
           InstallingMismatch, AuctioningInstallAgain, ApiBidding, TeardownRemoved
<1>4. CASE Network
    BY <1>4
       DEF Network, PendingNoNextNode, PendingSuccess, PendingSuccessThrows,
           PendingFailure, AuctioningRefreshed, AuctioningOver, AuctioningOverThrows,
           UninstallRule, UninstallThrows, Bidding, PendingOther, InstallingOther,
           AuctioningOther, TeardownOther, AuctioningOtherAssertFails
<1> QED
    BY <1>1, <1>2, <1>3, <1>4 DEF Next

\* Nothing but the user's teardown changes the lifetime of an active session.
LEMMA LifetimeOfActive ==
    Next /\ In("AUCTIONING") => lifetime' \in {lifetime, 0}
<1> SUFFICES ASSUME Next, In("AUCTIONING") PROVE lifetime' \in {lifetime, 0}
    OBVIOUS
<1> USE DEF In, Throw, Abort, Discard
<1>1. CASE ResponseTimer
    BY <1>1
       DEF ResponseTimer, PendingRetry, PendingGiveUp, InstallingRetry, InstallingGiveUp,
           InstallingRetryThrows, AuctioningRetry, AuctioningGiveUp,
           AuctioningGiveUpThrows, TeardownRetry, TeardownRetryThrows, TeardownGiveUp,
           UninstallRule, UninstallThrows
<1>2. CASE RefreshTimer \/ Superseded
    BY <1>2
       DEF RefreshTimer, AuctioningRefresh, TeardownRefreshTimer, DropTimer,
           Superseded, OutdatedTimer
<1>3. CASE Api
    BY <1>3
       DEF Api, ApiCreateAssertFails, ApiCreate, PendingTeardown, InstallingTeardown,
           AuctioningTeardown, InstallingInstalled, InstallingMismatch,
           AuctioningInstallAgain, ApiBidding, TeardownRemoved
<1>4. CASE Network
    BY <1>4
       DEF Network, PendingNoNextNode, PendingSuccess, PendingSuccessThrows,
           PendingFailure, AuctioningRefreshed, AuctioningOver, AuctioningOverThrows,
           UninstallRule, UninstallThrows, Bidding, PendingOther, InstallingOther,
           AuctioningOther, TeardownOther, AuctioningOtherAssertFails
<1> QED
    BY <1>1, <1>2, <1>3, <1>4 DEF Next

-----------------------------------------------------------------------------
(* The theorems *)

\* The variables have their types and no retry counter passes the configured
\* number of retries.
THEOREM TypeCorrect == Spec => []TypeOK
BY Invariance, PTL DEF IInv

\* In every state that waits for somebody a timer ends the wait; an active
\* session has exactly one of its two timers running.
THEOREM TimersGuardStates == Spec => []TimerGuardsState
BY Invariance, PTL DEF IInv

\* The response timer always finds the message to repeat, and the REFRESH kept
\* for repetition asks for the lifetime the session has now.
THEOREM RetransmissionsPossible == Spec => []RetransmissionHasMessage
BY Invariance, PTL DEF IInv

\* After a teardown no REFRESH, new or repeated, asks for a lifetime again.
THEOREM TeardownsAreFinal == Spec => TornDownForGood
<1> DEFINE P == In("AUCTIONING") /\ lifetime = 0
                => lifetime' = 0 /\ \A m \in out' : m.kind = "REFRESH" => m.lifetime = 0
<1>1. IInv /\ Next => P
  <2> SUFFICES ASSUME IInv, Next, In("AUCTIONING"), lifetime = 0
               PROVE  lifetime' = 0 /\ \A m \in out' : m.kind = "REFRESH" => m.lifetime = 0
    OBVIOUS
  <2>1. lifetime' = 0
    BY LifetimeOfActive
  <2>2. last_refresh_msg.kind = "REFRESH" => last_refresh_msg.lifetime = 0
    BY DEF IInv, RetransmissionHasMessage, Null
  <2> QED
    BY <2>1, <2>2, EveryStepSends DEF StepSends, New, In
<1>2. IInv /\ [Next]_vars => [P]_vars
    BY <1>1
<1> QED
    BY <1>2, Invariance, PTL DEF Spec, TornDownForGood

\* What is sent repeats the last CREATE or REFRESH or is newer, as the peers
\* compare, than everything sent before, whatever the size of the number space.
THEOREM MessagesAreFresh == Spec => SentMessagesAreFresh
<1> DEFINE P == \A m \in out' : \/ m \in {last_create_msg, last_refresh_msg}
                                \/ is_greater_than(m.msn, msn) /\ msn' = m.msn
<1>1. IInv /\ Next => P
    BY EveryStepSends, NextNumber DEF StepSends, New, IInv, TypeOK, SessionTypeOK
<1>2. IInv /\ [Next]_vars => [P]_vars
    BY <1>1
<1> QED
    BY <1>2, Invariance, PTL DEF Spec, SentMessagesAreFresh

-----------------------------------------------------------------------------
(* The initiator's session implements the life cycle *)

\* A handler that throws or fails an assertion takes the session to its end.
LEMMA FailImplements ==
    ASSUME IInv, fate \in {"new", "live"}, fate' \in {"thrown", "abort"},
           UNCHANGED <<rule, posted>>
    PROVE  LC!Next
<1>1. Phase \in {"idle", "pending", "active", "releasing"}
    BY PhaseOf DEF IInv, TypeOK, States, TimerGuardsState, In
<1>2. LC!Fail
    BY <1>1, PhaseOfNext DEF LC!Fail
<1> QED BY <1>2 DEF LC!Next

\* The three ways to give an installation up: nothing is held, so nothing is
\* asked for.
LEMMA AbandonImplements ==
    ASSUME IInv, In("PENDING_INSTALLING"),
           NEW r \in Rule, r.responses = 0, AbandonInstallation(r)
    PROVE  LC!Next
<1>1. Phase = "pending" /\ Phase' = "gone"
    BY PhaseOf, PhaseOfNext DEF AbandonInstallation, Return, In
<1>2. UNCHANGED <<rule.responses > 0, "remove" \in posted>>
    BY DEF AbandonInstallation, HoldsObjects, NoPost, IInv, NothingHeldYet, In
<1>3. LC!Abandon
    BY <1>1, <1>2 DEF LC!Abandon
<1> QED BY <1>3 DEF LC!Next

LEMMA UninstallImplements ==
    ASSUME IInv, In("AUCTIONING"), NEW fired, UninstallRule(fired)
    PROVE  LC!Next
<1>1. Phase = "active"
    BY PhaseOf
<1>2. CASE HoldsObjects(rule)
  <2>1. LC!Release
    BY <1>1, <1>2, PhaseOfNext
       DEF UninstallRule, HoldsObjects, Return, Post, LC!Release
  <2> QED BY <2>1 DEF LC!Next
<1>3. CASE ~ HoldsObjects(rule)
  <2>1. LC!Leave
    BY <1>1, <1>3, PhaseOfNext
       DEF UninstallRule, HoldsObjects, Return, NoPost, LC!Leave
  <2> QED BY <2>1 DEF LC!Next
<1> QED BY <1>2, <1>3

LEMMA StepImplements == IInv /\ Next => LC!Next \/ UNCHANGED LC!vars
<1> SUFFICES ASSUME IInv, Next PROVE LC!Next \/ UNCHANGED LC!vars
    OBVIOUS
<1> USE DEF In, Return
<1>0. ASSUME UNCHANGED <<fate, state, rule>>, ("remove" \in posted') = ("remove" \in posted)
      PROVE  UNCHANGED LC!vars
    BY <1>0, PhaseOfNext DEF LC!vars
<1>1. CASE ResponseTimer
  <2>1. CASE PendingRetry \/ InstallingRetry \/ AuctioningRetry
    BY <1>0, <2>1 DEF PendingRetry, InstallingRetry, AuctioningRetry, Post
  <2>2. CASE PendingGiveUp
    <3>1. LC!Abandon
      BY <2>2, PhaseOf, PhaseOfNext DEF PendingGiveUp, LC!Abandon
    <3> QED BY <3>1 DEF LC!Next
  <2>3. CASE \/ InstallingRetryThrows \/ AuctioningGiveUpThrows \/ TeardownRetryThrows
    BY <2>3, FailImplements
       DEF InstallingRetryThrows, AuctioningGiveUpThrows, NoAnswer, TeardownRetryThrows,
           UninstallThrows, Throw
  <2>4. CASE InstallingGiveUp
    BY <2>4, AbandonImplements, EmptyRuleIsRule DEF InstallingGiveUp
  <2>5. CASE AuctioningGiveUp
    BY <2>5, UninstallImplements DEF AuctioningGiveUp, NoAnswer
  <2>6. CASE TeardownRetry
    <3>1. LC!ReleaseAgain
      BY <2>6, PhaseOf, PhaseOfNext DEF TeardownRetry, Post, LC!ReleaseAgain
    <3> QED BY <3>1 DEF LC!Next
  <2>7. CASE TeardownGiveUp
    <3>1. LC!Finish
      BY <2>7, PhaseOf, PhaseOfNext DEF TeardownGiveUp, LC!Finish
    <3> QED BY <3>1 DEF LC!Next
  <2> QED
    BY <1>1, <2>1, <2>2, <2>3, <2>4, <2>5, <2>6, <2>7 DEF ResponseTimer
<1>2. CASE RefreshTimer \/ Superseded
    BY <1>0, <1>2
       DEF RefreshTimer, AuctioningRefresh, TeardownRefreshTimer, DropTimer,
           Superseded, OutdatedTimer
<1>3. CASE Api
  <2>1. ASSUME NEW l \in Lifetimes, NEW q \in BOOLEAN, ApiCreate(l, q) PROVE LC!Next
    <3>1. LC!Open
      BY <2>1, PhaseOf, PhaseOfNext DEF ApiCreate, LC!Open
    <3> QED BY <3>1 DEF LC!Next
  <2>2. ASSUME NEW l \in Lifetimes, ApiCreateAssertFails(l) PROVE LC!Next
    BY <2>2, FailImplements DEF ApiCreateAssertFails, Abort
  <2>3. CASE PendingTeardown
    <3>1. LC!Abandon
      BY <2>3, PhaseOf, PhaseOfNext DEF PendingTeardown, LC!Abandon
    <3> QED BY <3>1 DEF LC!Next
  <2>4. CASE InstallingTeardown
    BY <2>4, AbandonImplements
       DEF InstallingTeardown, IInv, TypeOK, SessionTypeOK, NothingHeldYet
  <2>5. CASE AuctioningTeardown \/ AuctioningInstallAgain \/ ApiBidding
    BY <1>0, <2>5 DEF AuctioningTeardown, AuctioningInstallAgain, Discard, ApiBidding
  <2>6. ASSUME NEW n \in 0 .. MaxObjects, InstallingInstalled(n) PROVE LC!Next
    <3>1. LC!Activate
      BY <2>6, PhaseOf, PhaseOfNext DEF InstallingInstalled, LC!Activate
    <3> QED BY <3>1 DEF LC!Next
  <2>7. ASSUME NEW n \in 0 .. MaxObjects, InstallingMismatch(n) PROVE LC!Next
    BY <2>7, AbandonImplements, EmptyRuleIsRule DEF InstallingMismatch
  <2>8. CASE TeardownRemoved
    <3>1. LC!Finish
      BY <2>8, PhaseOf, PhaseOfNext DEF TeardownRemoved, LC!Finish
    <3> QED BY <3>1 DEF LC!Next
  <2> QED
    BY <1>3, <2>1, <2>2, <2>3, <2>4, <2>5, <2>6, <2>7, <2>8 DEF Api
<1>4. CASE Network
  <2>1. CASE PendingNoNextNode \/ \E r \in Responses : PendingFailure(r)
    <3>1. LC!Abandon
      BY <2>1, PhaseOf, PhaseOfNext DEF PendingNoNextNode, PendingFailure, LC!Abandon
    <3> QED BY <3>1 DEF LC!Next
  <2>2. ASSUME NEW r \in Responses, NEW n \in 0 .. MaxObjects, PendingSuccess(r, n)
        PROVE  UNCHANGED LC!vars
    BY <2>2, PhaseOf, PhaseOfNext DEF PendingSuccess, Post, LC!vars
  <2>3. ASSUME NEW r \in Responses, PendingSuccessThrows(r) \/ AuctioningOverThrows(r)
        PROVE  LC!Next
    BY <2>3, FailImplements
       DEF PendingSuccessThrows, AuctioningOverThrows, SessionOver, RefreshAnswered,
           UninstallThrows, Throw
  <2>4. ASSUME NEW r \in Responses, AuctioningRefreshed(r) PROVE UNCHANGED LC!vars
    BY <1>0, <2>4 DEF AuctioningRefreshed
  <2>5. ASSUME NEW r \in Responses, AuctioningOver(r) PROVE LC!Next
    BY <2>5, UninstallImplements DEF AuctioningOver, SessionOver, RefreshAnswered
  <2>6. ASSUME NEW queued \in BOOLEAN, Bidding(queued) PROVE UNCHANGED LC!vars
    BY <1>0, <2>6 DEF Bidding, Post, NoPost
  <2>7. CASE PendingOther \/ InstallingOther \/ AuctioningOther \/ TeardownOther
    BY <1>0, <2>7
       DEF PendingOther, InstallingOther, AuctioningOther, TeardownOther, Discard
  <2>8. CASE AuctioningOtherAssertFails
    BY <2>8, FailImplements DEF AuctioningOtherAssertFails, Abort
  <2> QED
    BY <1>4, <2>1, <2>2, <2>3, <2>4, <2>5, <2>6, <2>7, <2>8 DEF Network
<1> QED
    BY <1>1, <1>2, <1>3, <1>4 DEF Next

\* The initiator's session implements the life cycle, with its rule's response
\* objects as what it holds and remove_auction_rules as what it asks for.
THEOREM Refinement == Spec => ImplementsLifecycle
<1>1. Init => LC!Init
    BY PhaseOf DEF Init, SessionInit, EmptyRule, LC!Init
<1>2. IInv /\ [Next]_vars => [LC!Next]_(LC!vars)
  <2>1. UNCHANGED vars => UNCHANGED LC!vars
    BY PhaseOfNext DEF vars, session, LC!vars
  <2> QED BY <2>1, StepImplements
<1> QED
    BY <1>1, <1>2, Invariance, PTL DEF Spec, ImplementsLifecycle, LC!Spec

\* A session that is gone has asked for the removal of the objects it held.
THEOREM ObjectsReleased == Spec => []InstalledObjectsReleased
BY Refinement, LifecycleReleases, PTL DEF ImplementsLifecycle
=============================================================================
