---------------------------- MODULE Path_proofs ----------------------------
(***************************************************************************)
(* An initiator and a receiver joined by a network that loses, delays,     *)
(* reorders and repeats messages: what the sessions' own invariants say    *)
(* of the two together, for every value of the constants.                  *)
(***************************************************************************)
EXTENDS Path, TLAPS

\* The sessions again, with what is proved of each of them.
NIP == INSTANCE NISession_proofs WITH
        state <- i_state, fate <- i_fate, lifetime <- i_lifetime, msn <- i_msn,
        rule <- i_rule, armed <- i_armed, outdated <- i_outdated, out <- i_out,
        posted <- i_posted

NRP == INSTANCE NRSession_proofs WITH
        state <- r_state, fate <- r_fate, lifetime <- r_lifetime, msn <- r_msn,
        rule <- r_rule, armed <- r_armed, outdated <- r_outdated, out <- r_out,
        posted <- r_posted, create_counter <- r_create_counter,
        create_message <- r_create_message

-----------------------------------------------------------------------------
(* Both instances of a session's module are the same module.  The lists are *)
(* the definitions that its initial states and its steps are built from.    *)

LEMMA SameInitiator == (NI!Init => NIP!Init) /\ (NI!Next => NIP!Next)
BY DEF NI!MSNs, NIP!MSNs, NI!next_msg_sequence_number, NIP!next_msg_sequence_number,
       NI!Message, NIP!Message, NI!Null, NIP!Null, NI!Request, NIP!Request,
       NI!Responses, NIP!Responses, NI!is_anslp_response, NIP!is_anslp_response,
       NI!EmptyRule, NIP!EmptyRule, NI!HoldsObjects, NIP!HoldsObjects,
       NI!set_reponse_objects, NIP!set_reponse_objects, NI!Timers, NIP!Timers,
       NI!RetriesLeft, NIP!RetriesLeft, NI!inc_counter, NIP!inc_counter, NI!Return,
       NIP!Return, NI!Throw, NIP!Throw, NI!Abort, NIP!Abort, NI!Discard, NIP!Discard,
       NI!DropTimer, NIP!DropTimer, NI!OutdatedTimer, NIP!OutdatedTimer, NI!In, NIP!In,
       NI!NoPost, NIP!NoPost, NI!Send, NIP!Send, NI!Post, NIP!Post, NI!Answers,
       NIP!Answers, NI!SessionInit, NIP!SessionInit, NI!ni, NIP!ni, NI!Init, NIP!Init,
       NI!build_create_message, NIP!build_create_message, NI!build_refresh_message,
       NIP!build_refresh_message, NI!build_bidding_message, NIP!build_bidding_message,
       NI!build_auction_install_rule, NIP!build_auction_install_rule,
       NI!SetupIntervalPositive, NIP!SetupIntervalPositive, NI!ApiCreate, NIP!ApiCreate,
       NI!ApiCreateAssertFails, NIP!ApiCreateAssertFails, NI!PendingRetry,
       NIP!PendingRetry, NI!PendingGiveUp, NIP!PendingGiveUp, NI!PendingNoNextNode,
       NIP!PendingNoNextNode, NI!PendingTeardown, NIP!PendingTeardown,
       NI!PendingSuccess, NIP!PendingSuccess, NI!PendingSuccessThrows,
       NIP!PendingSuccessThrows, NI!PendingFailure, NIP!PendingFailure, NI!PendingOther,
       NIP!PendingOther, NI!InstallingRetry, NIP!InstallingRetry,
       NI!InstallingRetryThrows, NIP!InstallingRetryThrows, NI!AbandonInstallation,
       NIP!AbandonInstallation, NI!InstallingGiveUp, NIP!InstallingGiveUp,
       NI!InstallingTeardown, NIP!InstallingTeardown, NI!InstallingInstalled,
       NIP!InstallingInstalled, NI!InstallingMismatch, NIP!InstallingMismatch,
       NI!InstallingOther, NIP!InstallingOther, NI!SendRefresh, NIP!SendRefresh,
       NI!AuctioningRefresh, NIP!AuctioningRefresh, NI!AuctioningRetry,
       NIP!AuctioningRetry, NI!UninstallRule, NIP!UninstallRule, NI!UninstallThrows,
       NIP!UninstallThrows, NI!NoAnswer, NIP!NoAnswer, NI!AuctioningGiveUp,
       NIP!AuctioningGiveUp, NI!AuctioningGiveUpThrows, NIP!AuctioningGiveUpThrows,
       NI!AuctioningTeardown, NIP!AuctioningTeardown, NI!ApiBidding, NIP!ApiBidding,
       NI!Bidding, NIP!Bidding, NI!RefreshAnswered, NIP!RefreshAnswered,
       NI!AuctioningRefreshed, NIP!AuctioningRefreshed, NI!SessionOver, NIP!SessionOver,
       NI!AuctioningOver, NIP!AuctioningOver, NI!AuctioningOverThrows,
       NIP!AuctioningOverThrows, NI!AuctioningInstallAgain, NIP!AuctioningInstallAgain,
       NI!AuctioningOther, NIP!AuctioningOther, NI!AuctioningOtherAssertFails,
       NIP!AuctioningOtherAssertFails, NI!TeardownRetry, NIP!TeardownRetry,
       NI!TeardownRetryThrows, NIP!TeardownRetryThrows, NI!TeardownGiveUp,
       NIP!TeardownGiveUp, NI!TeardownRemoved, NIP!TeardownRemoved,
       NI!TeardownRefreshTimer, NIP!TeardownRefreshTimer, NI!TeardownOther,
       NIP!TeardownOther, NI!Superseded, NIP!Superseded, NI!ResponseTimer,
       NIP!ResponseTimer, NI!RefreshTimer, NIP!RefreshTimer, NI!Api, NIP!Api,
       NI!Network, NIP!Network, NI!Next, NIP!Next

LEMMA SameReceiver ==
    /\ NR!Init => NRP!Init
    /\ NR!StateTimer \/ NR!Superseded => NRP!StateTimer \/ NRP!Superseded
    /\ ReceiverApi => NRP!Api
    /\ \A c, n :
          /\ NR!CloseCheck(c, n) => NRP!CloseCheck(c, n)
          /\ NR!CloseCheckFails(c, n) => NRP!CloseCheckFails(c, n)
          /\ NR!CloseNotParticipating(c, n) => NRP!CloseNotParticipating(c, n)
          /\ NR!CloseInvalidLifetime(c) => NRP!CloseInvalidLifetime(c)
          /\ NR!CloseThrows(c) => NRP!CloseThrows(c)
          /\ NR!RefreshAccepted(c) => NRP!RefreshAccepted(c)
          /\ NR!AuctioningTeardown(c) => NRP!AuctioningTeardown(c)
          /\ NR!AuctioningTeardownThrows(c) => NRP!AuctioningTeardownThrows(c)
    /\ NR!PendingRetry({}) \/ NR!PendingRetryThrows \/ NR!PendingGiveUp({})
          => NRP!PendingRetry({}) \/ NRP!PendingRetryThrows \/ NRP!PendingGiveUp({})
<1> USE DEF ReceiverApi, NR!is_greater_than, NRP!is_greater_than, NR!Null, NRP!Null,
            NR!invertDirection, NRP!invertDirection, NR!create_error_response,
            NRP!create_error_response, NR!create_success_response,
            NRP!create_success_response, NR!check_lifetime, NRP!check_lifetime,
            NR!EmptyRule, NRP!EmptyRule, NR!HoldsObjects, NRP!HoldsObjects,
            NR!set_reponse_objects, NRP!set_reponse_objects, NR!CheckFilter,
            NRP!CheckFilter, NR!CheckFilterCrashes, NRP!CheckFilterCrashes, NR!Timers,
            NRP!Timers, NR!RetriesLeft, NRP!RetriesLeft, NR!inc_counter,
            NRP!inc_counter, NR!Return, NRP!Return, NR!Throw, NRP!Throw, NR!Abort,
            NRP!Abort, NR!OutdatedTimer, NRP!OutdatedTimer, NR!In, NRP!In, NR!NoPost,
            NRP!NoPost, NR!Send, NRP!Send, NR!Post, NRP!Post, NR!PostIfInstalling,
            NRP!PostIfInstalling, NR!Answers, NRP!Answers, NR!SessionInit,
            NRP!SessionInit, NR!nr, NRP!nr, NR!Init, NRP!Init, NR!CreateReceived,
            NRP!CreateReceived, NR!CloseCheck, NRP!CloseCheck, NR!CloseNotParticipating,
            NRP!CloseNotParticipating, NR!CloseInvalidLifetime,
            NRP!CloseInvalidLifetime, NR!CloseCheckFails, NRP!CloseCheckFails,
            NR!CloseThrows, NRP!CloseThrows, NR!PendingRetry, NRP!PendingRetry,
            NR!PendingRetryThrows, NRP!PendingRetryThrows, NR!PendingGiveUp,
            NRP!PendingGiveUp, NR!CheckAnswered, NRP!CheckAnswered, NR!PendingChecked,
            NRP!PendingChecked, NR!PendingCheckedCrashes, NRP!PendingCheckedCrashes,
            NR!PendingCheckedThrows, NRP!PendingCheckedThrows, NR!InstallingRetry,
            NRP!InstallingRetry, NR!InstallingRetryThrows, NRP!InstallingRetryThrows,
            NR!InstallingGiveUp, NRP!InstallingGiveUp, NR!InstallingInstalled,
            NRP!InstallingInstalled, NR!InstallingMismatch, NRP!InstallingMismatch,
            NR!RefreshNewer, NRP!RefreshNewer, NR!RefreshAccepted, NRP!RefreshAccepted,
            NR!UninstallRule, NRP!UninstallRule, NR!UninstallThrows,
            NRP!UninstallThrows, NR!TeardownRequested, NRP!TeardownRequested,
            NR!AuctioningTeardown, NRP!AuctioningTeardown, NR!AuctioningTeardownThrows,
            NRP!AuctioningTeardownThrows, NR!TimedOut, NRP!TimedOut,
            NR!AuctioningTimeout, NRP!AuctioningTimeout, NR!AuctioningTimeoutThrows,
            NRP!AuctioningTimeoutThrows, NR!ApiBidding, NRP!ApiBidding,
            NR!TeardownRetry, NRP!TeardownRetry, NR!TeardownRetryThrows,
            NRP!TeardownRetryThrows, NR!TeardownGiveUp, NRP!TeardownGiveUp,
            NR!TeardownRemoved, NRP!TeardownRemoved, NR!Superseded, NRP!Superseded,
            NR!StateTimer, NRP!StateTimer, NR!Api, NRP!Api
<1>1. NR!Init => NRP!Init
    OBVIOUS
<1>2. NR!StateTimer \/ NR!Superseded => NRP!StateTimer \/ NRP!Superseded
    OBVIOUS
<1>3. ReceiverApi => NRP!Api
    OBVIOUS
<1>4. ASSUME NEW c, NEW n
      PROVE  /\ NR!CloseCheck(c, n) => NRP!CloseCheck(c, n)
             /\ NR!CloseCheckFails(c, n) => NRP!CloseCheckFails(c, n)
             /\ NR!CloseNotParticipating(c, n) => NRP!CloseNotParticipating(c, n)
             /\ NR!CloseInvalidLifetime(c) => NRP!CloseInvalidLifetime(c)
             /\ NR!CloseThrows(c) => NRP!CloseThrows(c)
             /\ NR!RefreshAccepted(c) => NRP!RefreshAccepted(c)
             /\ NR!AuctioningTeardown(c) => NRP!AuctioningTeardown(c)
             /\ NR!AuctioningTeardownThrows(c) => NRP!AuctioningTeardownThrows(c)
    OBVIOUS
<1>5. NR!PendingRetry({}) \/ NR!PendingRetryThrows \/ NR!PendingGiveUp({})
        => NRP!PendingRetry({}) \/ NRP!PendingRetryThrows \/ NRP!PendingGiveUp({})
    OBVIOUS
<1> QED BY <1>1, <1>2, <1>3, <1>4, <1>5

-----------------------------------------------------------------------------
(* The inductive invariant *)

Requests == {m \in sent : m.kind # "RESPONSE"}

MessagesTyped ==
    /\ sent \subseteq NIP!Message
    /\ \A m \in Requests : m.dir = "down" /\ m.ok = TRUE

\* How many numbers before a the number n was used.
Age(a, n) == IF a >= n THEN a - n ELSE a - n + 2 * LIMIT

\* Every request has one of the last numbers used, so no two share one.
NumbersDistinct ==
    /\ used \in 0 .. MaxNumbers
    /\ \A m \in Requests : Age(i_msn, m.msn) < used
    /\ \A m \in Requests : \A q \in Requests : m.msn = q.msn => m = q

\* What the sessions keep was sent.
KeptMessagesSent ==
    /\ last_create_msg \in Requests \cup {NIP!Null}
    /\ last_refresh_msg \in Requests \cup {NIP!Null}
    /\ r_create_message \in {m \in Requests : m.kind = "CREATE"} \cup {NRP!Null}

\* What a RESPONSE of success with number n says of the receiver: a request with
\* this number was sent; if it was a CREATE a session became active with it, and
\* if it was a teardown the session is over unless a new one was opened.
Granted(n) ==
    \E q \in Requests :
        /\ q.msn = n
        /\ q.kind = "CREATE" => q \in accepted
        /\ q.kind = "REFRESH" /\ q.lifetime = 0 /\ reopened = 0 => NRP!Over

AnswersTrue ==
    \A r \in sent : r.kind = "RESPONSE" /\ r.ok
                    => r.lifetime <= MaxLifetime /\ Granted(r.msn)

AgreedIsOver == agreed /\ reopened = 0 => NRP!Over

IInv ==
    /\ NIP!IInv
    /\ NRP!IInv
    /\ reopened \in Nat
    /\ MessagesTyped
    /\ NumbersDistinct
    /\ KeptMessagesSent
    /\ AnswersTrue
    /\ ActiveOnlyIfAccepted
    /\ AgreedIsOver

LEMMA IInvInit == Init => IInv
<1> SUFFICES ASSUME Init PROVE IInv
    OBVIOUS
<1> USE LIMITAssumption, LifetimesAssumption, BoundsAssumption, InstallRulesAssumption,
        NumbersAssumption
<1>1. NIP!IInv
    BY SameInitiator, NIP!IInvInit DEF Init
<1>2. NRP!IInv
    BY SameReceiver, NRP!IInvInit DEF Init
<1>3. MessagesTyped /\ NumbersDistinct /\ AnswersTrue /\ AgreedIsOver /\ reopened \in Nat
    BY DEF Init, MessagesTyped, NumbersDistinct, AnswersTrue, AgreedIsOver, Requests
<1>4. KeptMessagesSent
    BY DEF Init, NI!Init, NR!Init, KeptMessagesSent, NI!Null, NIP!Null, NR!Null, NRP!Null
<1>5. ActiveOnlyIfAccepted
    BY DEF Init, NI!Init, NI!SessionInit, ActiveOnlyIfAccepted, InitiatorActive, NI!In
<1> QED BY <1>1, <1>2, <1>3, <1>4, <1>5 DEF IInv

-----------------------------------------------------------------------------
(* The steps of the path are steps of the sessions *)

LEMMA InitiatorStep == MessagesTyped /\ Initiator => NIP!Next
<1> SUFFICES ASSUME MessagesTyped, Initiator PROVE NI!Next
    BY SameInitiator
<1>1. \A r \in Arriving("RESPONSE", "up") : r \in NI!Responses
    BY DEF Arriving, MessagesTyped, NIP!Message, NIP!MSNs, NI!Message, NI!MSNs, NI!Responses
<1>2. InitiatorTimers => NI!Next
    BY DEF InitiatorTimers, NI!Next
<1>3. InitiatorApi => NI!Next
    BY DEF InitiatorApi, NI!Next, NI!Api
<1>4. InitiatorNetwork => NI!Next
    BY <1>1 DEF InitiatorNetwork, InitiatorReceives, NI!Next, NI!Network
<1> QED BY <1>2, <1>3, <1>4 DEF Initiator

LEMMA ReceiverStep == MessagesTyped /\ Receiver => NRP!Next
<1> SUFFICES ASSUME MessagesTyped, Receiver PROVE NRP!Next
    OBVIOUS
<1>1. ASSUME NEW c \in Arriving("CREATE", "down"), ReceiverOpens(c) PROVE NRP!Network
  <2>1. c \in NRP!Creates
    BY DEF Arriving, MessagesTyped, Requests, NIP!Message, NIP!MSNs, NRP!MSNs,
           NRP!Creates, NRP!Request
  <2> QED BY <1>1, <2>1, SameReceiver DEF ReceiverOpens, NRP!Network
<1>2. ASSUME NEW q \in Arriving("REFRESH", "down"), ReceiverRefreshed(q) PROVE NRP!Network
  <2>1. q \in NRP!Refreshes
    BY DEF Arriving, MessagesTyped, Requests, NIP!Message, NIP!MSNs, NRP!MSNs,
           NRP!Refreshes, NRP!Request
  <2> QED BY <1>2, <2>1, SameReceiver DEF ReceiverRefreshed, NRP!Network
<1>3. CASE NR!PendingRetry({}) \/ NR!PendingRetryThrows \/ NR!PendingGiveUp({})
  <2>1. NRP!PendingRetry({}) \/ NRP!PendingRetryThrows \/ NRP!PendingGiveUp({})
    BY <1>3, SameReceiver
  <2> QED BY <2>1 DEF NRP!Network, NRP!Next
<1>4. CASE NR!StateTimer \/ NR!Superseded \/ ReceiverApi
    BY <1>4, SameReceiver DEF NRP!Next
<1> QED BY <1>1, <1>2, <1>3, <1>4 DEF Receiver, ReceiverNetwork, NRP!Next

-----------------------------------------------------------------------------
(* Steps of the initiator *)

\* The next number is none of the last LIMIT ones, and makes them older by one.
LEMMA NextNumberIsNew ==
    ASSUME NEW a \in NIP!MSNs, NEW n \in NIP!MSNs, NEW u \in Nat, u < LIMIT, Age(a, n) < u
    PROVE  /\ NIP!next_msg_sequence_number(a) # n
           /\ Age(NIP!next_msg_sequence_number(a), n) < u + 1
BY LIMITAssumption DEF Age, NIP!MSNs, NIP!next_msg_sequence_number

\* A repetition adds nothing to the messages under way; a new request adds one.
LEMMA InitiatorSends ==
    ASSUME IInv, NIP!IInv', Initiator
    PROVE  /\ i_out' \subseteq Requests'
           /\ \/ sent' = sent /\ UNCHANGED <<i_msn, used>>
              \/ \E m \in NIP!Message :
                    /\ sent' = sent \cup {m} /\ NIP!New(m)
                    /\ used' = used + 1 /\ used' <= MaxNumbers
<1>1. sent' = sent \cup i_out' /\ i_out' \subseteq NIP!Message
    BY DEF Initiator, Carry, NIP!IInv, NIP!TypeOK, NIP!SessionTypeOK
<1>2. NIP!StepSends
    BY InitiatorStep, NIP!EveryStepSends, LIMITAssumption, LifetimesAssumption,
       BoundsAssumption, InstallRulesAssumption DEF IInv
<1>3. CASE i_msn' = i_msn /\ i_out' \subseteq {last_create_msg, last_refresh_msg}
  <2>1. NIP!Null \notin NIP!Message
    BY DEF NIP!Null, NIP!Message
  <2>2. i_out' \subseteq Requests
    BY <1>1, <1>3, <2>1 DEF IInv, KeptMessagesSent
  <2> QED BY <1>1, <1>3, <2>2 DEF Initiator, Requests
<1>4. ASSUME NEW m, i_out' = {m}, NIP!New(m)
      PROVE  /\ m \in NIP!Message /\ sent' = sent \cup {m} /\ m \in Requests'
             /\ used' = used + 1 /\ used' <= MaxNumbers
  <2>1. i_msn' # i_msn
    BY <1>4, LIMITAssumption
       DEF NIP!New, NIP!next_msg_sequence_number, IInv, NIP!IInv, NIP!TypeOK,
           NIP!SessionTypeOK, NIP!MSNs
  <2> QED BY <1>1, <1>4, <2>1 DEF Initiator, Requests, NIP!New
<1> QED BY <1>2, <1>3, <1>4 DEF NIP!StepSends

LEMMA InitiatorRequests ==
    ASSUME IInv, NIP!IInv', Initiator
    PROVE  MessagesTyped' /\ NumbersDistinct' /\ KeptMessagesSent'
<1>1. /\ last_create_msg' \in {last_create_msg, NIP!Null} \cup i_out'
      /\ last_refresh_msg' \in {last_refresh_msg} \cup i_out'
      /\ i_out' \subseteq Requests' /\ r_create_message' = r_create_message
    BY InitiatorStep, InitiatorSends, NIP!KeptIsSent, LIMITAssumption, LifetimesAssumption,
       BoundsAssumption, InstallRulesAssumption
       DEF IInv, Initiator, receiver
<1>2. Requests \subseteq Requests'
    BY DEF Initiator, Carry, Requests
<1>3. KeptMessagesSent'
    BY <1>1, <1>2 DEF IInv, KeptMessagesSent, NRP!Null
<1>4. CASE sent' = sent /\ UNCHANGED <<i_msn, used>>
    BY <1>3, <1>4 DEF IInv, MessagesTyped, NumbersDistinct, Requests
<1>5. ASSUME NEW m \in NIP!Message, sent' = sent \cup {m}, NIP!New(m),
             used' = used + 1, used' <= MaxNumbers
      PROVE  MessagesTyped' /\ NumbersDistinct'
  <2>1. Requests' = Requests \cup {m}
    BY <1>5 DEF Requests, NIP!New
  <2>2. MessagesTyped'
    BY <1>5, <2>1 DEF IInv, MessagesTyped, NIP!New
  <2>3. \A q \in Requests : q.msn \in NIP!MSNs /\ Age(i_msn, q.msn) < used
    BY DEF IInv, MessagesTyped, NumbersDistinct, Requests, NIP!Message
  <2>4. /\ i_msn \in NIP!MSNs /\ m.msn = i_msn' /\ m.msn \in NIP!MSNs
        /\ i_msn' = NIP!next_msg_sequence_number(i_msn)
    BY <1>5 DEF IInv, NIP!IInv, NIP!TypeOK, NIP!SessionTypeOK, NIP!New, NIP!Message
  <2>5. used \in Nat /\ used < LIMIT /\ used' \in 0 .. MaxNumbers
    BY <1>5, NumbersAssumption, LIMITAssumption DEF IInv, NumbersDistinct
  <2>6. \A q \in Requests : q.msn # m.msn /\ Age(i_msn', q.msn) < used'
    BY <1>5, <2>3, <2>4, <2>5, NextNumberIsNew
  <2>7. Age(i_msn', m.msn) < used'
    BY <1>5, <2>4, <2>5 DEF Age, NIP!MSNs
  <2>8. NumbersDistinct'
    BY <2>1, <2>5, <2>6, <2>7 DEF IInv, NumbersDistinct
  <2> QED BY <2>2, <2>8
<1> QED BY <1>3, <1>4, <1>5, InitiatorSends

\* Only a RESPONSE of success under way takes the initiator out of PENDING into
\* the installation.
LEMMA SuccessOpens ==
    ASSUME Initiator, NIP!In("PENDING"), NIP!In("PENDING_INSTALLING")'
    PROVE  \E r \in Arriving("RESPONSE", "up") : \E n \in 0 .. MaxObjects :
              NI!PendingSuccess(r, n)
<1> USE DEF NIP!In, NI!In, NI!Return, NI!Throw, NI!Abort
<1>1. ~ InitiatorTimers
    BY DEF InitiatorTimers, NI!ResponseTimer, NI!PendingRetry, NI!PendingGiveUp,
           NI!InstallingRetry, NI!InstallingRetryThrows, NI!InstallingGiveUp,
           NI!AuctioningRetry, NI!AuctioningGiveUp, NI!AuctioningGiveUpThrows,
           NI!NoAnswer, NI!TeardownRetry, NI!TeardownRetryThrows, NI!TeardownGiveUp,
           NI!RefreshTimer, NI!AuctioningRefresh, NI!TeardownRefreshTimer,
           NI!Superseded, NI!OutdatedTimer
<1>2. ~ InitiatorApi
    BY DEF InitiatorApi, NI!ApiCreateAssertFails, NI!ApiCreate, NI!PendingTeardown,
           NI!InstallingTeardown, NI!AuctioningTeardown, NI!InstallingInstalled,
           NI!InstallingMismatch, NI!TeardownRemoved
<1>3. InitiatorNetwork
    BY <1>1, <1>2 DEF Initiator
<1> QED
    BY <1>3
       DEF InitiatorNetwork, InitiatorReceives, NI!PendingNoNextNode,
           NI!PendingSuccessThrows, NI!PendingFailure, NI!AuctioningRefreshed,
           NI!RefreshAnswered, NI!AuctioningOver, NI!AuctioningOverThrows,
           NI!SessionOver, NI!AuctioningOtherAssertFails

\* The initiator learns of the receiver only what is true: the RESPONSE it takes
\* for the answer to its CREATE or its teardown answers just that request.
LEMMA InitiatorPreserves == IInv /\ Initiator => IInv'
<1> SUFFICES ASSUME IInv, Initiator PROVE IInv'
    OBVIOUS
<1>1. NIP!IInv'
    BY InitiatorStep, NIP!IInvStep, LIMITAssumption, LifetimesAssumption,
       BoundsAssumption, InstallRulesAssumption DEF IInv
<1>2. NRP!IInv'
    BY NRP!IInvStep, LIMITAssumption, LifetimesAssumption,
       BoundsAssumption, InstallRulesAssumption
       DEF IInv, Initiator, receiver, NRP!vars, NRP!session, NRP!nr
<1>3. MessagesTyped' /\ NumbersDistinct' /\ KeptMessagesSent'
    BY <1>1, InitiatorRequests
<1>4. UNCHANGED <<reopened, accepted, r_fate, r_state>> /\ sent \subseteq sent'
    BY DEF Initiator, Carry, receiver
<1>5. \A n : Granted(n) => Granted(n)'
    BY <1>4 DEF Granted, Requests, NRP!Over, NRP!Ended, NRP!In
<1>6. AnswersTrue'
  <2>1. \A r \in sent' : r.kind = "RESPONSE" => r \in sent
    BY <1>1, InitiatorSends DEF NIP!New
  <2> QED BY <1>5, <2>1 DEF IInv, AnswersTrue
<1>7. \A r \in sent : r.kind = "RESPONSE" /\ r.ok
                      => /\ r.lifetime <= MaxLifetime
                         /\ \E q \in Requests :
                               /\ q.msn = r.msn
                               /\ q.kind = "CREATE" => q \in accepted
                               /\ q.kind = "REFRESH" /\ q.lifetime = 0 /\ reopened = 0
                                     => NRP!Over
    BY DEF IInv, AnswersTrue, Granted
<1>8. ActiveOnlyIfAccepted'
  <2>1. SUFFICES ASSUME NIP!BeyondPending'
                 PROVE  last_create_msg' \in accepted /\ i_lifetime' <= MaxLifetime
    BY <1>4 DEF ActiveOnlyIfAccepted, InitiatorActive, NIP!BeyondPending, NI!In, NIP!In
  <2>2. CASE NIP!BeyondPending /\ last_create_msg' = last_create_msg
             /\ i_lifetime' \in {i_lifetime, 0}
    BY <2>2, LifetimesAssumption
       DEF IInv, ActiveOnlyIfAccepted, InitiatorActive, NIP!BeyondPending, NI!In, NIP!In
  <2>3. CASE NIP!In("PENDING") /\ NIP!In("PENDING_INSTALLING")'
    <3>1. PICK r \in Arriving("RESPONSE", "up"), n \in 0 .. MaxObjects :
                 NI!PendingSuccess(r, n)
      BY <2>3, SuccessOpens
    <3>2. /\ r \in sent /\ r.kind = "RESPONSE" /\ r.ok /\ r.msn = last_create_msg.msn
          /\ last_create_msg \in Requests /\ last_create_msg.kind = "CREATE"
          /\ i_lifetime' = r.lifetime /\ last_create_msg' = last_create_msg
      BY <2>3, <3>1
         DEF Arriving, NI!PendingSuccess, NI!is_anslp_response, NI!Null, NIP!Null, IInv,
             KeptMessagesSent, NIP!IInv, NIP!RetransmissionHasMessage
    <3> QED BY <1>7, <3>2 DEF IInv, NumbersDistinct
  <2> QED
    BY <2>1, <2>2, <2>3, InitiatorStep, NIP!StaysBeyondPending, LIMITAssumption,
       LifetimesAssumption, BoundsAssumption, InstallRulesAssumption DEF IInv
<1>9. AgreedIsOver'
  <2>1. SUFFICES ASSUME TeardownAgreed, reopened = 0 PROVE NRP!Over
    BY <1>4 DEF IInv, AgreedIsOver, Initiator, NRP!Over, NRP!Ended, NRP!In
  <2>2. PICK r \in Arriving("RESPONSE", "up") :
                r.ok /\ i_lifetime = 0 /\ NI!RefreshAnswered(r)
    BY <2>1 DEF TeardownAgreed, NI!AuctioningOver, NI!AuctioningOverThrows, NI!SessionOver
  <2>3. /\ r \in sent /\ r.kind = "RESPONSE" /\ r.ok /\ r.msn = last_refresh_msg.msn
        /\ last_refresh_msg \in Requests
        /\ last_refresh_msg.kind = "REFRESH" /\ last_refresh_msg.lifetime = 0
    BY <2>2
       DEF Arriving, NI!RefreshAnswered, NI!is_anslp_response, NI!Null, NIP!Null, IInv,
           KeptMessagesSent, NIP!IInv, NIP!RetransmissionHasMessage
  <2> QED BY <1>7, <2>1, <2>3 DEF IInv, NumbersDistinct
<1> QED
    BY <1>1, <1>2, <1>3, <1>4, <1>6, <1>8, <1>9 DEF IInv

-----------------------------------------------------------------------------
(* Steps of the receiver *)

\* The receiver keeps the CREATE it was opened with.
LEMMA ReceiverKeeps ==
    ASSUME IInv, Receiver
    PROVE  \/ r_create_message' = r_create_message
           \/ \E c \in Arriving("CREATE", "down") : r_create_message' = c
<1> USE DEF NR!nr
<1>1. CASE NR!StateTimer \/ NR!Superseded
    BY <1>1
       DEF NR!StateTimer, NR!PendingRetry, NR!PendingGiveUp, NR!InstallingRetry,
           NR!InstallingRetryThrows, NR!InstallingGiveUp, NR!AuctioningTimeout,
           NR!AuctioningTimeoutThrows, NR!UninstallRule, NR!UninstallThrows,
           NR!TeardownRetry, NR!TeardownRetryThrows, NR!TeardownGiveUp, NR!Superseded
<1>2. CASE ReceiverApi
    BY <1>2
       DEF ReceiverApi, NR!PendingChecked, NR!PendingCheckedCrashes,
           NR!PendingCheckedThrows, NR!InstallingInstalled, NR!InstallingMismatch,
           NR!TeardownRemoved
<1>3. CASE ReceiverNetwork
    BY <1>3
       DEF ReceiverNetwork, ReceiverOpens, NR!CloseCheck, NR!CloseCheckFails,
           NR!CloseNotParticipating, NR!CloseInvalidLifetime, NR!CloseThrows,
           NR!CreateReceived, ReceiverRefreshed, NR!RefreshAccepted,
           NR!AuctioningTeardown, NR!AuctioningTeardownThrows, NR!UninstallRule,
           NR!UninstallThrows, NR!PendingRetry, NR!PendingRetryThrows, NR!PendingGiveUp
<1> QED BY <1>1, <1>2, <1>3 DEF Receiver

\* A receiver that is not pending answers nothing but REFRESHes under way.
LEMMA ReceiverAnswersRefresh ==
    ASSUME IInv, Receiver, ~ NRP!Pending
    PROVE  \/ r_out' = {}
           \/ \E q \in Arriving("REFRESH", "down") : ReceiverRefreshed(q)
<1> USE DEF NRP!Pending, NRP!In, NR!In, NR!Send, NR!Throw
<1>1. CASE NR!StateTimer \/ NR!Superseded
    BY <1>1
       DEF NR!StateTimer, NR!PendingRetry, NR!PendingGiveUp, NR!InstallingRetry,
           NR!InstallingRetryThrows, NR!InstallingGiveUp, NR!AuctioningTimeout,
           NR!AuctioningTimeoutThrows, NR!UninstallThrows,
           NR!TeardownRetry, NR!TeardownRetryThrows, NR!TeardownGiveUp, NR!Superseded,
           NR!OutdatedTimer
<1>2. CASE ReceiverApi
    BY <1>2
       DEF ReceiverApi, NR!PendingChecked, NR!PendingCheckedCrashes, NR!CheckAnswered,
           NR!PendingCheckedThrows, NR!InstallingInstalled, NR!InstallingMismatch,
           NR!TeardownRemoved
<1>3. CASE ReceiverNetwork
    BY <1>3
       DEF ReceiverNetwork, ReceiverOpens, NR!CloseCheck, NR!CloseCheckFails,
           NR!CloseNotParticipating, NR!CloseInvalidLifetime, NR!CloseThrows,
           NR!CreateReceived, NR!PendingRetry, NR!PendingRetryThrows, NR!PendingGiveUp
<1> QED BY <1>1, <1>2, <1>3 DEF Receiver

\* The answer to a REFRESH repeats its number and grants no more than the
\* configuration admits; a receiver that agrees to a teardown is over.
LEMMA RefreshAnswer ==
    ASSUME IInv, NEW q \in Arriving("REFRESH", "down"), ReceiverRefreshed(q)
    PROVE  /\ \A m \in r_out' : /\ m.kind = "RESPONSE" /\ m.msn = q.msn
                                /\ m.lifetime <= MaxLifetime
           /\ q.lifetime = 0 => NRP!Over'
<1>0. q \in NIP!Message
    BY DEF Arriving, IInv, MessagesTyped
<1>1. q.lifetime \in Nat /\ MaxLifetime \in Nat
    BY <1>0, LifetimesAssumption DEF NIP!Message
<1>2. CASE NR!RefreshAccepted(q)
  <2>1. q.lifetime # 0 /\ NR!check_lifetime(q.lifetime) <= MaxLifetime
    BY <1>1, <1>2 DEF NR!RefreshAccepted, NR!check_lifetime
  <2> QED
    BY <1>2, <2>1
       DEF NR!RefreshAccepted, NR!Send, NR!create_success_response, NR!create_error_response
<1>3. CASE NR!AuctioningTeardown(q) \/ NR!AuctioningTeardownThrows(q)
  <2>1. NRP!Over'
    BY <1>3
       DEF NR!AuctioningTeardown, NR!AuctioningTeardownThrows, NR!UninstallRule,
           NR!UninstallThrows, NR!Throw, NR!Return, NRP!Over, NRP!Ended, NRP!In
  <2>2. r_out' = {NR!create_success_response(q, 0)}
    BY <1>3
       DEF NR!AuctioningTeardown, NR!AuctioningTeardownThrows, NR!UninstallThrows,
           NR!Throw, NR!Send
  <2> QED
    BY <1>1, <2>1, <2>2 DEF NR!create_success_response, NR!create_error_response
<1> QED BY <1>2, <1>3 DEF ReceiverRefreshed

LEMMA ReceiverPreserves == IInv /\ Receiver => IInv'
<1> SUFFICES ASSUME IInv, Receiver PROVE IInv'
    OBVIOUS
<1> USE LIMITAssumption, LifetimesAssumption, BoundsAssumption, InstallRulesAssumption
<1>1. NRP!Next /\ NRP!IInv'
    BY ReceiverStep, NRP!IInvStep DEF IInv
<1>2. NIP!IInv'
    BY NIP!IInvStep DEF IInv, Receiver, initiator, NIP!vars, NIP!session, NIP!ni
<1>3. /\ UNCHANGED <<reopened, used, agreed, i_msn, i_state, i_fate, i_lifetime>>
      /\ UNCHANGED <<last_create_msg, last_refresh_msg>>
      /\ sent' = sent \cup r_out' /\ accepted \subseteq accepted'
    BY DEF Receiver, Carry, initiator
<1>4. NRP!StepSends
    BY <1>1, NRP!EveryStepSends DEF IInv
<1>5. r_create_message' \in {m \in Requests : m.kind = "CREATE"} \cup {NRP!Null}
    BY ReceiverKeeps DEF IInv, KeptMessagesSent, Arriving, Requests
<1>6. \A m \in r_out' : m.kind = "RESPONSE" /\ m \in NIP!Message
  <2>1. r_out' \subseteq NIP!Message
    BY <1>1
       DEF NRP!IInv, NRP!TypeOK, NRP!SessionTypeOK, NRP!Message, NRP!MSNs, NIP!Message,
           NIP!MSNs
  <2>2. CASE NRP!Pending
    BY <1>4, <2>1, <2>2 DEF NRP!StepSends, NRP!AnswersCreate
  <2>3. CASE ~ NRP!Pending
    BY <2>1, <2>3, ReceiverAnswersRefresh, RefreshAnswer
  <2> QED BY <2>2, <2>3
<1>7. Requests' = Requests
    BY <1>3, <1>6 DEF Requests
<1>8. MessagesTyped' /\ NumbersDistinct' /\ KeptMessagesSent'
    BY <1>3, <1>5, <1>6, <1>7 DEF IInv, MessagesTyped, NumbersDistinct, KeptMessagesSent
<1>9. NRP!Over => NRP!Over'
    BY <1>1, NRP!StaysOver
<1>10. \A n : Granted(n) => Granted(n)'
    BY <1>3, <1>7, <1>9 DEF Granted
<1>11. ASSUME NEW m \in r_out', m.ok PROVE m.lifetime <= MaxLifetime /\ Granted(m.msn)'
  <2>1. CASE NRP!Pending
    <3>1. /\ NRP!In("AUCTIONING")' /\ ~ NRP!In("AUCTIONING")
          /\ m.msn = r_create_message'.msn /\ m.lifetime = r_lifetime'
      BY <1>4, <1>11, <2>1 DEF NRP!StepSends, NRP!AnswersCreate, NRP!Pending, NRP!In
    <3>2. r_lifetime' <= MaxLifetime
      BY <1>1 DEF NRP!IInv, NRP!LifetimeAdmitted
    <3>3. r_create_message' \in accepted'
      BY <3>1 DEF Receiver, NRP!In, NR!In
    <3>4. r_create_message' \in Requests /\ r_create_message'.kind = "CREATE"
      BY <1>1, <1>5, <3>1, NRP!NullIsNoMessage DEF NRP!IInv, NRP!CreateKept, NRP!In
    <3> QED BY <1>7, <3>1, <3>2, <3>3, <3>4 DEF Granted
  <2>2. CASE ~ NRP!Pending
    <3>1. PICK q \in Arriving("REFRESH", "down") : ReceiverRefreshed(q)
      BY <1>11, <2>2, ReceiverAnswersRefresh
    <3>2. q \in Requests /\ q.kind = "REFRESH"
      BY DEF Arriving, Requests
    <3> QED BY <1>7, <1>11, <3>1, <3>2, RefreshAnswer DEF Granted
  <2> QED BY <2>1, <2>2
<1>12. AnswersTrue'
    BY <1>3, <1>10, <1>11 DEF IInv, AnswersTrue
<1>13. ActiveOnlyIfAccepted' /\ AgreedIsOver'
    BY <1>3, <1>9 DEF IInv, ActiveOnlyIfAccepted, InitiatorActive, NI!In, AgreedIsOver
<1> QED
    BY <1>1, <1>2, <1>3, <1>8, <1>12, <1>13 DEF IInv

-----------------------------------------------------------------------------
(* A new session of the receiver *)

LEMMA CreatePreserves == IInv /\ create_session => IInv'
<1> SUFFICES ASSUME IInv, create_session PROVE IInv'
    OBVIOUS
<1> USE LIMITAssumption, LifetimesAssumption, BoundsAssumption, InstallRulesAssumption
<1>1. NRP!Init'
    BY DEF create_session, NRP!Init, NRP!SessionInit, NR!EmptyRule, NRP!EmptyRule,
           NR!Null, NRP!Null
<1>2. NRP!IInv'
    BY <1>1, NRP!IInvInit, PTL
<1>3. NIP!IInv'
    BY NIP!IInvStep DEF IInv, create_session, initiator, NIP!vars, NIP!session, NIP!ni
<1>4. /\ UNCHANGED <<used, agreed, i_msn, i_state, i_fate, i_lifetime, accepted, sent>>
      /\ UNCHANGED <<last_create_msg, last_refresh_msg>>
      /\ reopened' \in Nat /\ reopened' # 0 /\ r_create_message' = NRP!Null
    BY DEF create_session, initiator, IInv, NR!Null, NRP!Null
<1>5. MessagesTyped' /\ NumbersDistinct' /\ KeptMessagesSent' /\ AnswersTrue'
    BY <1>4
       DEF IInv, MessagesTyped, NumbersDistinct, KeptMessagesSent, AnswersTrue, Granted,
           Requests
<1>6. ActiveOnlyIfAccepted' /\ AgreedIsOver'
    BY <1>4 DEF IInv, ActiveOnlyIfAccepted, InitiatorActive, NI!In, AgreedIsOver
<1> QED BY <1>2, <1>3, <1>4, <1>5, <1>6 DEF IInv

LEMMA IInvStep == IInv /\ [Next]_vars => IInv'
<1> SUFFICES ASSUME IInv, UNCHANGED vars PROVE IInv'
    BY InitiatorPreserves, ReceiverPreserves, CreatePreserves DEF Next
<1> USE LIMITAssumption, LifetimesAssumption, BoundsAssumption, InstallRulesAssumption
<1>1. NIP!IInv' /\ NRP!IInv'
    BY NIP!IInvStep, NRP!IInvStep
       DEF IInv, vars, initiator, receiver, NIP!vars, NIP!session, NIP!ni, NRP!vars,
           NRP!session, NRP!nr
<1>2. MessagesTyped' /\ NumbersDistinct' /\ KeptMessagesSent' /\ AnswersTrue'
    BY DEF vars, initiator, receiver, IInv, MessagesTyped, NumbersDistinct,
           KeptMessagesSent, AnswersTrue, Granted, Requests, NRP!Over, NRP!Ended, NRP!In
<1>3. ActiveOnlyIfAccepted' /\ AgreedIsOver' /\ reopened' \in Nat
    BY DEF vars, initiator, receiver, IInv, ActiveOnlyIfAccepted, InitiatorActive, NI!In,
           AgreedIsOver, NRP!Over, NRP!Ended, NRP!In
<1> QED BY <1>1, <1>2, <1>3 DEF IInv

\* The sessions' invariants and those between the two ends hold on every path.
THEOREM Invariance == Spec => []IInv
BY IInvInit, IInvStep, PTL DEF Spec

-----------------------------------------------------------------------------
(* The theorems *)

\* The initiator goes beyond PENDING only with a session of the receiver that
\* became active with its CREATE, and with a lifetime the receiver admits.
THEOREM ActiveIfAccepted == Spec => []ActiveOnlyIfAccepted
BY Invariance, PTL DEF IInv

\* When the initiator's teardown is agreed to, the receiver's session is over.
THEOREM TeardownsTakeEffect == Spec => []TeardownEffective
<1>1. IInv => TeardownEffective
    BY DEF IInv, AgreedIsOver, TeardownEffective, ReceiverActive, NR!In, NRP!Over,
           NRP!Ended, NRP!In
<1> QED BY <1>1, Invariance, PTL
=============================================================================
