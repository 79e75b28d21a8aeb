-------------------------------- MODULE Path --------------------------------
(***************************************************************************)
(* The shortest path: an initiator's and a receiver's session joined by a  *)
(* network that loses, delays, reorders and duplicates messages.  What     *)
(* either session sends is added to the set of messages under way; a       *)
(* message may be taken from it never, once or many times.                 *)
(*                                                                         *)
(* The sessions are NISession and NRSession.  A receiver's session that is *)
(* gone leaves room for a new one, which the dispatcher creates for any    *)
(* CREATE without a session, a repeated one included.                      *)
(*                                                                         *)
(* Users who bid are left out: a BIDDING changes nothing of what keeps a   *)
(* session up or ends it.  So are the events a session discards.           *)
(***************************************************************************)
EXTENDS Integers

CONSTANTS LIMIT, Lifetimes, MaxLifetime, MaxRetries, InstallRules, MaxObjects,
          First,       \* the random number the initiator starts from
          MaxNumbers,  \* bound: sequence numbers the initiator uses
          MaxReopened  \* bound: sessions the receiver opens after its first one

ASSUME LIMITAssumption == LIMIT \in Nat /\ LIMIT > 1
ASSUME LifetimesAssumption ==
    /\ Lifetimes \subseteq Nat
    /\ 0 \in Lifetimes
    /\ MaxLifetime \in Lifetimes
ASSUME BoundsAssumption == MaxRetries \in Nat /\ MaxObjects \in Nat
ASSUME InstallRulesAssumption == InstallRules \in BOOLEAN

\* All numbers of one session are comparable in the serial order.
ASSUME NumbersAssumption ==
    First \in 0 .. 2 * LIMIT - 1 /\ MaxNumbers \in 0 .. LIMIT /\ MaxReopened \in Nat

VARIABLES
    i_state, i_fate, i_lifetime, i_msn, i_rule, i_armed, i_outdated, i_out, i_posted,
    create_counter, refresh_counter, teardown_counter, last_create_msg,
    last_refresh_msg, last_auction_install_rule,
    r_state, r_fate, r_lifetime, r_msn, r_rule, r_armed, r_outdated, r_out, r_posted,
    r_create_counter, r_create_message,
    sent,      \* the messages under way
    reopened,  \* how many sessions the receiver opened after its first one
    used,      \* sequence numbers the initiator used
    accepted,  \* history: CREATEs with which a receiver's session became active
    agreed     \* history: the initiator was told that its teardown is accepted

initiator == <<i_state, i_fate, i_lifetime, i_msn, i_rule, i_armed, i_outdated, i_out,
               i_posted, create_counter, refresh_counter, teardown_counter,
               last_create_msg, last_refresh_msg, last_auction_install_rule>>

receiver == <<r_state, r_fate, r_lifetime, r_msn, r_rule, r_armed, r_outdated, r_out,
              r_posted, r_create_counter, r_create_message>>

vars == <<initiator, receiver, sent, reopened, used, accepted, agreed>>

NI == INSTANCE NISession WITH
        state <- i_state, fate <- i_fate, lifetime <- i_lifetime, msn <- i_msn,
        rule <- i_rule, armed <- i_armed, outdated <- i_outdated, out <- i_out,
        posted <- i_posted

NR == INSTANCE NRSession WITH
        state <- r_state, fate <- r_fate, lifetime <- r_lifetime, msn <- r_msn,
        rule <- r_rule, armed <- r_armed, outdated <- r_outdated, out <- r_out,
        posted <- r_posted, create_counter <- r_create_counter,
        create_message <- r_create_message

Init ==
    /\ NI!Init /\ NR!Init
    /\ i_msn = First
    /\ sent = {}
    /\ reopened = 0
    /\ used = 0
    /\ accepted = {}
    /\ agreed = FALSE

Arriving(kind, dir) == {m \in sent : m.kind = kind /\ m.dir = dir}

\* dispatcher::send_message hands what a session sends to GIST.
Carry(out) == sent' = sent \cup out

-----------------------------------------------------------------------------
(* The initiator. *)

InitiatorTimers == NI!ResponseTimer \/ NI!RefreshTimer \/ NI!Superseded

\* The local user and the auction process.
InitiatorApi ==
    \/ \E l \in Lifetimes : NI!ApiCreateAssertFails(l) \/ \E q \in BOOLEAN : NI!ApiCreate(l, q)
    \/ NI!PendingTeardown \/ NI!InstallingTeardown \/ NI!AuctioningTeardown
    \/ \E n \in 0 .. MaxObjects : NI!InstallingInstalled(n) \/ NI!InstallingMismatch(n)
    \/ NI!TeardownRemoved

InitiatorReceives(r) ==
    \/ \E n \in 0 .. MaxObjects : NI!PendingSuccess(r, n)
    \/ NI!PendingSuccessThrows(r) \/ NI!PendingFailure(r)
    \/ NI!AuctioningRefreshed(r) \/ NI!AuctioningOver(r) \/ NI!AuctioningOverThrows(r)
    \/ NI!AuctioningOtherAssertFails

InitiatorNetwork ==
    \/ \E r \in Arriving("RESPONSE", "up") : InitiatorReceives(r)
    \/ NI!PendingNoNextNode

\* A RESPONSE that the session took for the answer to its teardown.
TeardownAgreed ==
    \E r \in Arriving("RESPONSE", "up") :
        r.ok /\ i_lifetime = 0 /\ (NI!AuctioningOver(r) \/ NI!AuctioningOverThrows(r))

Initiator ==
    /\ InitiatorTimers \/ InitiatorApi \/ InitiatorNetwork
    /\ used' = IF i_msn' = i_msn THEN used ELSE used + 1
    /\ used' <= MaxNumbers
    /\ agreed' = (agreed \/ TeardownAgreed)
    /\ Carry(i_out')
    /\ UNCHANGED <<receiver, reopened, accepted>>

-----------------------------------------------------------------------------
(* The receiver. *)

ReceiverApi ==
    \/ \E n \in 0 .. MaxObjects : NR!PendingChecked(n) \/ NR!PendingCheckedCrashes(n)
    \/ NR!PendingCheckedThrows
    \/ \E n \in 0 .. MaxObjects : NR!InstallingInstalled(n) \/ NR!InstallingMismatch(n)
    \/ NR!TeardownRemoved

ReceiverOpens(c) ==
    \/ \E n \in 0 .. MaxObjects : NR!CloseCheck(c, n) \/ NR!CloseCheckFails(c, n)
    \/ \E selected \in BOOLEAN : NR!CloseNotParticipating(c, selected)
    \/ NR!CloseInvalidLifetime(c) \/ NR!CloseThrows(c)

ReceiverRefreshed(q) ==
    NR!RefreshAccepted(q) \/ NR!AuctioningTeardown(q) \/ NR!AuctioningTeardownThrows(q)

ReceiverNetwork ==
    \/ \E c \in Arriving("CREATE", "down") : ReceiverOpens(c)
    \/ \E q \in Arriving("REFRESH", "down") : ReceiverRefreshed(q)
    \/ NR!PendingRetry({}) \/ NR!PendingRetryThrows \/ NR!PendingGiveUp({})

Receiver ==
    /\ NR!StateTimer \/ NR!Superseded \/ ReceiverApi \/ ReceiverNetwork
    /\ accepted' = IF NR!In("AUCTIONING")' /\ ~ NR!In("AUCTIONING")
                   THEN accepted \cup {r_create_message'} ELSE accepted
    /\ Carry(r_out')
    /\ UNCHANGED <<initiator, reopened, used, agreed>>

\* The dispatcher creates a session for a CREATE that has none.
create_session ==
    /\ r_fate \in {"final", "thrown"}
    /\ reopened < MaxReopened
    /\ Arriving("CREATE", "down") # {}
    /\ reopened' = reopened + 1
    /\ r_state' = "CLOSE" /\ r_fate' = "new" /\ r_lifetime' = 0 /\ r_msn' = 0
    /\ r_rule' = NR!EmptyRule /\ r_armed' = {} /\ r_outdated' = FALSE
    /\ r_out' = {} /\ r_posted' = {}
    /\ r_create_counter' = 0 /\ r_create_message' = NR!Null
    /\ UNCHANGED <<initiator, sent, used, accepted, agreed>>

Next == Initiator \/ Receiver \/ create_session

\* The timer module delivers a timer message unless the timer is restarted.
Restarted == \E q \in Arriving("REFRESH", "down") : NR!RefreshAccepted(q)

TimerFires == NR!StateTimer /\ Receiver

Fairness == []<><<Restarted>>_vars \/ WF_vars(TimerFires)

Spec == Init /\ [][Next]_vars /\ Fairness

-----------------------------------------------------------------------------
(* Properties *)

InitiatorActive == NI!In("PENDING_INSTALLING") \/ NI!In("AUCTIONING")

ReceiverActive == NR!In("AUCTIONING")

\* The initiator goes beyond PENDING only with a receiver's session that became
\* active with the very CREATE the initiator sent, and it keeps no longer
\* lifetime than the receiver admits: no error, no RESPONSE to a REFRESH and no
\* RESPONSE of an earlier attempt is taken for that answer.
ActiveOnlyIfAccepted ==
    InitiatorActive => last_create_msg \in accepted /\ i_lifetime <= MaxLifetime

\* Once the initiator was told that its teardown is accepted, the receiver's
\* session it was told by is over, whatever REFRESHes are still under way; only
\* a session opened anew by a repeated CREATE can be up.
TeardownEffective == agreed /\ reopened = 0 => ~ ReceiverActive

\* A receiver's session does not outlive the initiator's for ever: the REFRESHes
\* still under way keep it up at most once each, and then its timer ends it,
\* even if the initiator died without a word.
OrphanEnds == <>(NI!Ended) => <>[](~ ReceiverActive)
=============================================================================
