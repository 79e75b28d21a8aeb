------------------------------ MODULE Session ------------------------------
(***************************************************************************)
(* What the three kinds of signalling session (ni_session, nf_session and  *)
(* nr_session) share: message sequence numbers compared as RFC 1982 serial *)
(* numbers, the messages a session sends, its timers, the rule whose       *)
(* objects it asks the auction process to install and remove, and what the *)
(* dispatcher does with a session once its handler has returned or thrown. *)
(*                                                                         *)
(* One step of a session module is one call of session::process, made by   *)
(* the dispatcher with the session's lock held.                            *)
(***************************************************************************)
EXTENDS Integers, FiniteSets

CONSTANTS
    LIMIT,        \* half the sequence number space (2^31 in the code)
    Lifetimes,    \* session lifetimes, in seconds; 0 asks for a teardown
    MaxLifetime,  \* the longest lifetime the node's configuration admits
    MaxRetries,   \* the configuration's number of retransmissions
    InstallRules, \* the configuration lets this node install auction rules
    MaxObjects    \* bound: objects carried by one message or event

ASSUME LIMITAssumption == LIMIT \in Nat /\ LIMIT > 1
ASSUME LifetimesAssumption ==
    /\ Lifetimes \subseteq Nat
    /\ 0 \in Lifetimes
    /\ MaxLifetime \in Lifetimes
ASSUME BoundsAssumption == MaxRetries \in Nat /\ MaxObjects \in Nat
ASSUME InstallRulesAssumption == InstallRules \in BOOLEAN

VARIABLES
    state,      \* the state of the session's state machine
    fate,       \* what became of the session object, see Fates
    lifetime,   \* the session lifetime
    msn,        \* the message sequence number
    rule,       \* how many request and response objects the rule holds
    armed,      \* timers whose current timer message is still to come
    outdated,   \* some superseded timer message is still to come
    out,        \* the messages the last step sent
    posted      \* kinds of request put so far into the auction process' queue

session == <<state, fate, lifetime, msn, rule, armed, outdated, out, posted>>

(***************************************************************************)
(* Sequence numbers.  MSNs stands for uint32.                              *)
(***************************************************************************)
MSNs == 0 .. (2 * LIMIT - 1)

is_greater_than(s1, s2) ==
    /\ s1 # s2
    /\ \/ s1 < s2 /\ s2 - s1 > LIMIT
       \/ s1 > s2 /\ s1 - s2 < LIMIT

next_msg_sequence_number_saturating(m) == IF m = 2 * LIMIT - 1 THEN m ELSE m + 1

next_msg_sequence_number_NoWrap(m) == m + 1

next_msg_sequence_number(m) == IF m = 2 * LIMIT - 1 THEN 0 ELSE m + 1

(***************************************************************************)
(* Messages.  dir is the direction flag of the message routing             *)
(* information: "down" leads to the NR, "up" to the NI.  A field that a    *)
(* kind of message does not carry has a fixed value.                       *)
(***************************************************************************)
Message == [kind : {"CREATE", "REFRESH", "BIDDING", "RESPONSE"},
            dir : {"down", "up"}, msn : MSNs, lifetime : Lifetimes, ok : BOOLEAN]

Null == [kind |-> "NULL", dir |-> "down", msn |-> 0, lifetime |-> 0, ok |-> FALSE]

Request(k, d, m, l) == [kind |-> k, dir |-> d, msn |-> m, lifetime |-> l, ok |-> TRUE]

invertDirection(d) == IF d = "down" THEN "up" ELSE "down"

create_error_response_SameDirection(q) ==
    [kind |-> "RESPONSE", dir |-> q.dir, msn |-> q.msn, lifetime |-> 0, ok |-> FALSE]

create_error_response(q) ==
    [kind |-> "RESPONSE", dir |-> invertDirection(q.dir), msn |-> q.msn,
     lifetime |-> 0, ok |-> FALSE]

create_success_response(q, l) ==
    [create_error_response(q) EXCEPT !.lifetime = l, !.ok = TRUE]

Responses == {m \in Message : m.kind = "RESPONSE"}

is_anslp_response_AnyNumber(r, last) == last # Null

\* A RESPONSE answers the message whose sequence number it repeats.
is_anslp_response(r, last) == last # Null /\ r.msn = last.msn

check_lifetime_Ignored(l) == l

\* A request for a longer lifetime than the node admits is cut down.
check_lifetime(l) == IF l > MaxLifetime THEN MaxLifetime ELSE l

(***************************************************************************)
(* Rules.  Only the numbers of request and of response objects steer the   *)
(* state machines.                                                         *)
(***************************************************************************)
Rule == [requests : 0 .. MaxObjects, responses : 0 .. MaxObjects]

EmptyRule == [requests |-> 0, responses |-> 0]

HoldsObjects_OffByOne(r) == r.responses > 1

\* The test before every removal: does the rule record installed objects?
HoldsObjects(r) == r.responses > 0

set_reponse_objects(r, n) == [r EXCEPT !.responses = n]

\* The loop that removes the request objects a check did not confirm erases
\* elements of the map its reverse iterator walks over: with n objects of which
\* a are confirmed, the numbers of objects it can leave (all outcomes of the
\* compiled loop for n <= 2, a superset above) and when it crashes.
CheckFilter(n, a) == IF a = n THEN {n} ELSE {r \in 1 .. n - 1 : r >= a}

CheckFilterCrashes(n, a) == n = 1 /\ a = 0

(***************************************************************************)
(* Timers.  timer::start asks the timer module for a message with a fresh  *)
(* id and forgets the id of the previous one, timer::stop forgets the id;  *)
(* neither cancels the message under way, which arrives all the same and   *)
(* matches no timer any more.                                              *)
(***************************************************************************)
Timers_StopLast(fired, started, stopped) ==
    /\ armed' = (armed \cup started) \ (fired \cup stopped)
    /\ outdated' = (outdated \/ (armed \ fired) \cap (started \cup stopped) # {})

Timers(fired, started, stopped) ==
    /\ armed' = (armed \ (fired \cup stopped)) \cup started
    /\ outdated' = (outdated \/ (armed \ fired) \cap (started \cup stopped) # {})

RetriesLeft_OffByOne(counter) == counter <= MaxRetries

\* The test before every retransmission.
RetriesLeft(counter) == counter < MaxRetries

inc_counter_Forgotten(counter) == counter

inc_counter(counter) == counter + 1

Fates == {"new",     \* created by the dispatcher, first event not processed yet
          "live",    \* in the session table
          "final",   \* reached the final state and removed from the table
          "thrown",  \* the handler threw; removed, its lock never released
          "abort"}   \* an assertion failed or memory was violated: daemon gone

(***************************************************************************)
(* The ways a handler ends.  A session back in STATE_ANSLP_CLOSE is final  *)
(* and the dispatcher removes it; one whose handler throws is removed too. *)
(***************************************************************************)
Return(st) ==
    /\ state' = st
    /\ fate' = IF st = "CLOSE" THEN "final" ELSE "live"

\* What the handler changed of the session before it threw is lost with it;
\* what it sent is on its way.
Throw(sent) ==
    /\ fate' = "thrown"
    /\ out' = sent
    /\ UNCHANGED <<state, lifetime, msn, rule, armed, outdated, posted>>

Abort ==
    /\ fate' = "abort"
    /\ out' = {}
    /\ UNCHANGED <<state, lifetime, msn, rule, armed, outdated, posted>>

\* The event changes nothing the session keeps.
Discard ==
    /\ out' = {}
    /\ UNCHANGED <<state, fate, lifetime, msn, rule, armed, outdated, posted>>

\* A timer message that no longer matches, or not in this state, is dropped.
DropTimer(t) ==
    /\ t \in armed
    /\ armed' = armed \ {t}
    /\ out' = {}
    /\ UNCHANGED <<state, fate, lifetime, msn, rule, outdated, posted>>

OutdatedTimer ==
    /\ fate = "live"
    /\ outdated
    /\ outdated' \in BOOLEAN
    /\ out' = {}
    /\ UNCHANGED <<state, fate, lifetime, msn, rule, armed, posted>>

In(st) == fate = "live" /\ state = st

Ended == fate \in {"final", "thrown", "abort"}

NoPost == UNCHANGED posted

Send(ms) == out' = ms

Post(kind) == posted' = posted \cup {kind}

\* dispatcher::check and install_auction_rules reach the auction process only
\* on a node configured to install rules.
PostIfInstalling(kind) == IF InstallRules THEN Post(kind) ELSE NoPost

\* The auction process answers requests; it volunteers nothing.
Answers(kind) == kind \in posted

\* The types of the variables that every kind of session has.
SessionTypeOK ==
    /\ fate \in Fates
    /\ lifetime \in Lifetimes
    /\ msn \in MSNs
    /\ rule \in Rule
    /\ outdated \in BOOLEAN
    /\ out \subseteq Message
    /\ posted \subseteq {"check", "install", "interact", "remove"}

\* The phase of the abstract life cycle (module Lifecycle) a session is in.
Phase ==
    CASE fate = "new" -> "idle"
      [] fate = "live" /\ state = "AUCTIONING" -> "active"
      [] fate = "live" /\ state = "PENDING_TEARDOWN" -> "releasing"
      [] fate = "live" /\ state \notin {"AUCTIONING", "PENDING_TEARDOWN"} -> "pending"
      [] fate = "final" -> "gone"
      [] OTHER -> "failed"

\* How the session's state reads as a state of the abstract life cycle.
LC == INSTANCE Lifecycle WITH
        phase <- Phase,
        held <- rule.responses > 0,
        asked <- "remove" \in posted

\* A session that is gone and whose rule recorded installed objects has called
\* remove_auction_rules for them.
InstalledObjectsReleased == LC!InstalledObjectsReleased

SessionInit ==
    /\ state = "CLOSE"
    /\ fate = "new"
    /\ lifetime = 0
    /\ rule = EmptyRule
    /\ armed = {}
    /\ outdated = FALSE
    /\ out = {}
    /\ posted = {}
=============================================================================
