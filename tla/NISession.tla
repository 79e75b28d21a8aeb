----------------------------- MODULE NISession -----------------------------
(***************************************************************************)
(* The initiator's session (ni_session.cpp).  A local user's api_create    *)
(* starts it: the session sends CREATE down the path, waits for a RESPONSE,*)
(* has the objects that came back installed by the auction process, and    *)
(* keeps the session alive with REFRESH messages until the user tears it   *)
(* down, the path rejects a REFRESH or nobody answers one.                 *)
(*                                                                         *)
(* One action per branch of the handle_state_ functions.  The environment  *)
(* (the network, the auction process, the user) may deliver any event at   *)
(* any time, so messages lost, duplicated, delayed or reordered are        *)
(* included.                                                               *)
(***************************************************************************)
EXTENDS Session

VARIABLES
    create_counter, refresh_counter, teardown_counter,
    last_create_msg, last_refresh_msg,
    last_auction_install_rule

ni == <<create_counter, refresh_counter, teardown_counter,
        last_create_msg, last_refresh_msg, last_auction_install_rule>>

vars == <<session, ni>>

States == {"CLOSE", "PENDING", "PENDING_INSTALLING", "AUCTIONING", "PENDING_TEARDOWN"}

\* The constructor: a random sequence number and no messages sent yet.
Init ==
    /\ SessionInit
    /\ msn \in MSNs
    /\ create_counter = 0
    /\ refresh_counter = 0
    /\ teardown_counter = 0
    /\ last_create_msg = Null
    /\ last_refresh_msg = Null
    /\ last_auction_install_rule = EmptyRule

-----------------------------------------------------------------------------
(* Messages the initiator builds, each with the next sequence number. *)

build_create_message(l) == Request("CREATE", "down", next_msg_sequence_number(msn), l)

build_refresh_message(l) == Request("REFRESH", "down", next_msg_sequence_number(msn), l)

build_bidding_message == Request("BIDDING", "down", next_msg_sequence_number(msn), 0)

\* The RESPONSE's objects become the request objects of the rule to install.
build_auction_install_rule(n) == [requests |-> n, responses |-> 0]

-----------------------------------------------------------------------------
(* STATE_ANSLP_CLOSE *)

\* setup_session computes the refresh interval, which is positive exactly
\* when the lifetime is.
SetupIntervalPositive(l) == l > 0

\* The handler ends in CLOSE when the event names no queue to answer to.
ApiCreate(l, hasQueue) ==
    /\ fate = "new"
    /\ SetupIntervalPositive(l)
    /\ lifetime' = l
    /\ msn' = next_msg_sequence_number(msn)
    /\ last_create_msg' = build_create_message(l)
    /\ Send({last_create_msg'})
    /\ Timers({}, {"response"}, {})
    /\ Return(IF hasQueue THEN "PENDING" ELSE "CLOSE")
    /\ UNCHANGED <<rule, posted, create_counter, refresh_counter, teardown_counter,
                   last_refresh_msg, last_auction_install_rule>>

\* assert( r > 0 ) in setup_session.
ApiCreateAssertFails(l) ==
    /\ fate = "new"
    /\ ~ SetupIntervalPositive(l)
    /\ Abort
    /\ UNCHANGED ni

-----------------------------------------------------------------------------
(* STATE_ANSLP_PENDING *)

PendingRetry ==
    /\ In("PENDING")
    /\ "response" \in armed
    /\ RetriesLeft(create_counter)
    /\ create_counter' = inc_counter(create_counter)
    /\ Send({last_create_msg})
    /\ Timers({"response"}, {"response"}, {})
    /\ UNCHANGED <<state, fate, lifetime, msn, rule, posted, refresh_counter,
                   teardown_counter, last_create_msg, last_refresh_msg,
                   last_auction_install_rule>>

PendingGiveUp ==
    /\ In("PENDING")
    /\ "response" \in armed
    /\ ~ RetriesLeft(create_counter)
    /\ Timers({"response"}, {}, {})
    /\ Send({})
    /\ Return("CLOSE")
    /\ UNCHANGED <<lifetime, msn, rule, posted, ni>>

PendingNoNextNode ==
    /\ In("PENDING")
    /\ Send({})
    /\ Return("CLOSE")
    /\ UNCHANGED <<lifetime, msn, rule, armed, outdated, posted, ni>>

PendingTeardown ==
    /\ In("PENDING")
    /\ lifetime' = 0
    /\ last_create_msg' = Null
    /\ msn' = next_msg_sequence_number(msn)
    /\ Send({build_refresh_message(0)})
    /\ Return("CLOSE")
    /\ UNCHANGED <<rule, armed, outdated, posted, create_counter, refresh_counter,
                   teardown_counter, last_refresh_msg, last_auction_install_rule>>

\* A RESPONSE to our CREATE with n objects.  A node on the path may have
\* changed the lifetime.
PendingSuccess(r, n) ==
    /\ In("PENDING")
    /\ is_anslp_response(r, last_create_msg)
    /\ r.ok
    /\ Timers({}, {"response"}, {})
    /\ lifetime' = r.lifetime
    /\ create_counter' = 0
    /\ last_auction_install_rule' = build_auction_install_rule(n)
    /\ Post("install")
    /\ Send({})
    /\ Return("PENDING_INSTALLING")
    /\ UNCHANGED <<msn, rule, refresh_counter, teardown_counter, last_create_msg,
                   last_refresh_msg>>

\* put_response throws: this node is no auctioneer, or the queue is shut down.
PendingSuccessThrows(r) ==
    /\ In("PENDING")
    /\ is_anslp_response(r, last_create_msg)
    /\ r.ok
    /\ Throw({})
    /\ UNCHANGED ni

PendingFailure(r) ==
    /\ In("PENDING")
    /\ is_anslp_response(r, last_create_msg)
    /\ ~ r.ok
    /\ Send({})
    /\ Return("CLOSE")
    /\ UNCHANGED <<lifetime, msn, rule, armed, outdated, posted, ni>>

PendingOther ==
    /\ In("PENDING")
    /\ Discard
    /\ UNCHANGED ni

-----------------------------------------------------------------------------
(* STATE_ANSLP_PENDING_INSTALLING *)

InstallingRetry ==
    /\ In("PENDING_INSTALLING")
    /\ "response" \in armed
    /\ RetriesLeft(create_counter)
    /\ create_counter' = inc_counter(create_counter)
    /\ Post("install")
    /\ Send({})
    /\ Timers({"response"}, {"response"}, {})
    /\ UNCHANGED <<state, fate, lifetime, msn, rule, refresh_counter, teardown_counter,
                   last_create_msg, last_refresh_msg, last_auction_install_rule>>

InstallingRetryThrows ==
    /\ In("PENDING_INSTALLING")
    /\ "response" \in armed
    /\ RetriesLeft(create_counter)
    /\ Throw({})
    /\ UNCHANGED ni

\* What the three ways out of this state that give the session up have in
\* common.  r is the rule the session is left with.
AbandonInstallation(r) ==
    /\ lifetime' = 0
    /\ last_create_msg' = Null
    /\ rule' = r
    /\ IF HoldsObjects(last_auction_install_rule) THEN Post("remove") ELSE NoPost
    /\ msn' = next_msg_sequence_number(msn)
    /\ Send({build_refresh_message(0)})
    /\ Return("CLOSE")
    /\ UNCHANGED <<create_counter, refresh_counter, teardown_counter,
                   last_refresh_msg, last_auction_install_rule>>

InstallingGiveUp ==
    /\ In("PENDING_INSTALLING")
    /\ "response" \in armed
    /\ ~ RetriesLeft(create_counter)
    /\ Timers({"response"}, {}, {})
    /\ AbandonInstallation(EmptyRule)

InstallingTeardown ==
    /\ In("PENDING_INSTALLING")
    /\ AbandonInstallation(rule)
    /\ UNCHANGED <<armed, outdated>>

\* The auction process reports the n objects it installed.
InstallingInstalled(n) ==
    /\ In("PENDING_INSTALLING")
    /\ Answers("install")
    /\ n = last_auction_install_rule.requests
    /\ rule' = set_reponse_objects(last_auction_install_rule, n)
    /\ create_counter' = 0
    /\ Timers({}, {"refresh"}, {"response"})
    /\ Send({})
    /\ Return("AUCTIONING")
    /\ UNCHANGED <<lifetime, msn, posted, refresh_counter, teardown_counter,
                   last_create_msg, last_refresh_msg, last_auction_install_rule>>

InstallingMismatch(n) ==
    /\ In("PENDING_INSTALLING")
    /\ Answers("install")
    /\ n # last_auction_install_rule.requests
    /\ AbandonInstallation(EmptyRule)
    /\ UNCHANGED <<armed, outdated>>

InstallingOther ==
    /\ In("PENDING_INSTALLING")
    /\ Discard
    /\ UNCHANGED ni

-----------------------------------------------------------------------------
(* STATE_ANSLP_AUCTIONING *)

SendRefresh_NotKept(l) ==
    /\ last_refresh_msg' = last_refresh_msg
    /\ msn' = next_msg_sequence_number(msn)
    /\ Send({build_refresh_message(l)})

\* A new REFRESH, kept for retransmission.
SendRefresh(l) ==
    /\ last_refresh_msg' = build_refresh_message(l)
    /\ msn' = next_msg_sequence_number(msn)
    /\ Send({last_refresh_msg'})

AuctioningRefresh ==
    /\ In("AUCTIONING")
    /\ "refresh" \in armed
    /\ SendRefresh(lifetime)
    /\ refresh_counter' = 0
    /\ Timers({"refresh"}, {"response"}, {})
    /\ UNCHANGED <<state, fate, lifetime, rule, posted, create_counter,
                   teardown_counter, last_create_msg, last_auction_install_rule>>

AuctioningRetry ==
    /\ In("AUCTIONING")
    /\ "response" \in armed
    /\ RetriesLeft(refresh_counter)
    /\ refresh_counter' = inc_counter(refresh_counter)
    /\ Send({last_refresh_msg})
    /\ Timers({"response"}, {"response"}, {})
    /\ UNCHANGED <<state, fate, lifetime, msn, rule, posted, create_counter,
                   teardown_counter, last_create_msg, last_refresh_msg,
                   last_auction_install_rule>>

\* The session is over: remove the installed objects and wait for the
\* confirmation, or close at once when there are none.
UninstallRule(fired) ==
    /\ teardown_counter' = 0
    /\ \/ /\ HoldsObjects(rule)
          /\ Post("remove")
          /\ Timers(fired, {"response"}, {})
          /\ Return("PENDING_TEARDOWN")
       \/ /\ ~ HoldsObjects(rule)
          /\ NoPost
          /\ Timers(fired, {}, {"response"})
          /\ Return("CLOSE")
    /\ Send({})
    /\ UNCHANGED <<lifetime, msn, rule, create_counter, refresh_counter,
                   last_create_msg, last_refresh_msg, last_auction_install_rule>>

\* remove_auction_rules throws when the queue is shut down.
UninstallThrows ==
    /\ HoldsObjects(rule)
    /\ Throw({})
    /\ UNCHANGED ni

NoAnswer ==
    /\ In("AUCTIONING")
    /\ "response" \in armed
    /\ ~ RetriesLeft(refresh_counter)

AuctioningGiveUp == NoAnswer /\ UninstallRule({"response"})

AuctioningGiveUpThrows == NoAnswer /\ UninstallThrows

AuctioningTeardown_NotKept ==
    /\ In("AUCTIONING")
    /\ lifetime' = 0
    /\ msn' = next_msg_sequence_number(msn)
    /\ Send({build_refresh_message(0)})
    /\ UNCHANGED <<state, fate, rule, armed, outdated, posted, ni>>

\* The user ends the session.  The running timer is left as it is.
AuctioningTeardown ==
    /\ In("AUCTIONING")
    /\ lifetime' = 0
    /\ SendRefresh(0)
    /\ UNCHANGED <<state, fate, rule, armed, outdated, posted, create_counter,
                   refresh_counter, teardown_counter, last_create_msg,
                   last_auction_install_rule>>

ApiBidding ==
    /\ In("AUCTIONING") \/ In("PENDING_TEARDOWN")
    /\ msn' = next_msg_sequence_number(msn)
    /\ Send({build_bidding_message})
    /\ UNCHANGED <<state, fate, lifetime, rule, armed, outdated, posted, ni>>

\* An error of the rule installer is caught here.
Bidding(queued) ==
    /\ In("AUCTIONING") \/ In("PENDING_TEARDOWN")
    /\ IF queued THEN Post("interact") ELSE NoPost
    /\ Send({})
    /\ UNCHANGED <<state, fate, lifetime, msn, rule, armed, outdated, ni>>

RefreshAnswered(r) ==
    /\ In("AUCTIONING")
    /\ is_anslp_response(r, last_refresh_msg)

AuctioningRefreshed(r) ==
    /\ RefreshAnswered(r)
    /\ r.ok
    /\ lifetime # 0
    /\ Timers({}, {"refresh"}, {"response"})
    /\ refresh_counter' = 0
    /\ Send({})
    /\ UNCHANGED <<state, fate, lifetime, msn, rule, posted, create_counter,
                   teardown_counter, last_create_msg, last_refresh_msg,
                   last_auction_install_rule>>

SessionOver(r) == RefreshAnswered(r) /\ (lifetime = 0 \/ ~ r.ok)

AuctioningOver(r) == SessionOver(r) /\ UninstallRule({})

AuctioningOverThrows(r) == SessionOver(r) /\ UninstallThrows

\* A repeated api_install, which is recognised before any message is.
AuctioningInstallAgain ==
    /\ In("AUCTIONING")
    /\ Discard
    /\ UNCHANGED ni

\* Any other event is compared with the last REFRESH, whose getter asserts
\* that there is one.
AuctioningOther ==
    /\ In("AUCTIONING")
    /\ last_refresh_msg # Null
    /\ Discard
    /\ UNCHANGED ni

AuctioningOtherAssertFails ==
    /\ In("AUCTIONING")
    /\ last_refresh_msg = Null
    /\ Abort
    /\ UNCHANGED ni

-----------------------------------------------------------------------------
(* STATE_ANSLP_PENDING_TEARDOWN *)

TeardownRetry ==
    /\ In("PENDING_TEARDOWN")
    /\ "response" \in armed
    /\ RetriesLeft(teardown_counter)
    /\ teardown_counter' = inc_counter(teardown_counter)
    /\ Post("remove")
    /\ Send({})
    /\ Timers({"response"}, {"response"}, {})
    /\ UNCHANGED <<state, fate, lifetime, msn, rule, create_counter, refresh_counter,
                   last_create_msg, last_refresh_msg, last_auction_install_rule>>

TeardownRetryThrows ==
    /\ In("PENDING_TEARDOWN")
    /\ "response" \in armed
    /\ RetriesLeft(teardown_counter)
    /\ UninstallThrows

TeardownGiveUp ==
    /\ In("PENDING_TEARDOWN")
    /\ "response" \in armed
    /\ ~ RetriesLeft(teardown_counter)
    /\ Timers({"response"}, {}, {})
    /\ Send({})
    /\ Return("CLOSE")
    /\ UNCHANGED <<lifetime, msn, rule, posted, ni>>

TeardownRemoved ==
    /\ In("PENDING_TEARDOWN")
    /\ Answers("remove")
    /\ Timers({}, {}, {"response"})
    /\ Send({})
    /\ Return("CLOSE")
    /\ UNCHANGED <<lifetime, msn, rule, posted, ni>>

TeardownRefreshTimer ==
    /\ In("PENDING_TEARDOWN")
    /\ DropTimer("refresh")
    /\ UNCHANGED ni

TeardownOther ==
    /\ In("PENDING_TEARDOWN")
    /\ Discard
    /\ UNCHANGED ni

Superseded == OutdatedTimer /\ UNCHANGED ni

-----------------------------------------------------------------------------
(* The timer module delivers every timer message that is under way. *)

ResponseTimer ==
    \/ PendingRetry \/ PendingGiveUp
    \/ InstallingRetry \/ InstallingRetryThrows \/ InstallingGiveUp
    \/ AuctioningRetry \/ AuctioningGiveUp \/ AuctioningGiveUpThrows
    \/ TeardownRetry \/ TeardownRetryThrows \/ TeardownGiveUp

RefreshTimer == AuctioningRefresh \/ TeardownRefreshTimer

\* Requests of the local user and answers of the auction process.
Api ==
    \/ \E l \in Lifetimes : ApiCreateAssertFails(l) \/ \E q \in BOOLEAN : ApiCreate(l, q)
    \/ PendingTeardown \/ InstallingTeardown \/ AuctioningTeardown
    \/ \E n \in 0 .. MaxObjects : InstallingInstalled(n) \/ InstallingMismatch(n)
    \/ AuctioningInstallAgain
    \/ ApiBidding
    \/ TeardownRemoved

\* Messages and notifications from the network.
Network ==
    \/ PendingNoNextNode
    \/ \E r \in Responses :
          \/ \E n \in 0 .. MaxObjects : PendingSuccess(r, n)
          \/ PendingSuccessThrows(r) \/ PendingFailure(r)
          \/ AuctioningRefreshed(r) \/ AuctioningOver(r) \/ AuctioningOverThrows(r)
    \/ \E queued \in BOOLEAN : Bidding(queued)
    \/ PendingOther \/ InstallingOther \/ AuctioningOther \/ TeardownOther
    \/ AuctioningOtherAssertFails

Next == ResponseTimer \/ RefreshTimer \/ Superseded \/ Api \/ Network

Spec == Init /\ [][Next]_vars

Fairness == WF_vars(ResponseTimer) /\ WF_vars(RefreshTimer)

FairSpec == Spec /\ Fairness

-----------------------------------------------------------------------------
(* Properties *)

\* The types of the variables; no retry counter exceeds the configured number.
TypeOK ==
    /\ SessionTypeOK
    /\ state \in States
    /\ armed \subseteq {"response", "refresh"}
    /\ create_counter \in 0 .. MaxRetries
    /\ refresh_counter \in 0 .. MaxRetries
    /\ teardown_counter \in 0 .. MaxRetries
    /\ last_create_msg \in Message \cup {Null}
    /\ last_refresh_msg \in Message \cup {Null}
    /\ last_auction_install_rule \in Rule

\* Every state that waits for somebody has a timer running that ends the wait:
\* the response timer while an answer is due, and in AUCTIONING exactly one of
\* the two timers, so that the session never refreshes itself while a REFRESH
\* is unanswered and never falls silent.
TimerGuardsState ==
    /\ fate = "live" => state # "CLOSE"
    /\ fate = "live" /\ state # "AUCTIONING" => "response" \in armed
    /\ In("AUCTIONING") => ("refresh" \in armed) # ("response" \in armed)

\* Whenever the response timer may ask for a retransmission the message to
\* repeat exists, and the REFRESH kept for it carries the session's present
\* lifetime: after a teardown no REFRESH from before can be repeated.
RetransmissionHasMessage ==
    /\ In("PENDING") => last_create_msg.kind = "CREATE"
    /\ In("AUCTIONING") /\ "response" \in armed => last_refresh_msg # Null
    /\ last_refresh_msg # Null =>
          last_refresh_msg.kind = "REFRESH" /\ last_refresh_msg.lifetime = lifetime

\* Once a session lives for 0 seconds (the user tore it down) it stays so, and
\* no REFRESH it sends, new or repeated, asks any node for a lifetime again.
TornDownForGood ==
    [][ In("AUCTIONING") /\ lifetime = 0
        => lifetime' = 0 /\ \A m \in out' : m.kind = "REFRESH" => m.lifetime = 0 ]_vars

\* Every message the session sends is either a repetition of the last CREATE or
\* REFRESH or newer, in the serial order the peers compare with, than
\* everything sent before; this includes the wrap-around of the counter.
SentMessagesAreFresh ==
    [][ \A m \in out' : \/ m \in {last_create_msg, last_refresh_msg}
                        \/ is_greater_than(m.msn, msn) /\ msn' = m.msn ]_vars

\* The session implements the life cycle: installed objects are not left behind
\* by a session that was active, whichever branch of the handlers ends it.
ImplementsLifecycle == LC!Spec

\* A session waiting for its CREATE to be answered or its objects to be
\* installed does not wait for ever: the retries run out.
PendingEnds ==
    fate = "live" /\ state \in {"PENDING", "PENDING_INSTALLING"}
        ~> Ended \/ In("AUCTIONING")

\* A session the user tore down comes to its end even if no message and no
\* answer of the auction process ever arrives again.
TeardownCompletes == In("AUCTIONING") /\ lifetime = 0 ~> Ended

(***************************************************************************)
(* Claims of the code's comments and assertions that do not hold.          *)
(***************************************************************************)

\* assert(last_refresh_msg != NULL ) in get_last_refresh_message.
RefreshAssertHolds == ~ (fate = "abort" /\ state = "AUCTIONING")
=============================================================================
