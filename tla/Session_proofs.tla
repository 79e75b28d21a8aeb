--------------------------- MODULE Session_proofs ---------------------------
(***************************************************************************)
(* Facts about the operators all kinds of session are built from.          *)
(***************************************************************************)
EXTENDS Session, TLAPS

-----------------------------------------------------------------------------
(* Sequence numbers *)

\* The number after m is a sequence number and newer than m in the order of
\* is_greater_than, also when it wraps around to 0.
LEMMA NextNumber ==
    ASSUME NEW m \in MSNs
    PROVE  /\ next_msg_sequence_number(m) \in MSNs
           /\ is_greater_than(next_msg_sequence_number(m), m)
BY LIMITAssumption DEF MSNs, next_msg_sequence_number, is_greater_than

\* Of two numbers at most one is newer than the other, so that a REFRESH and its
\* predecessor cannot both be taken for the newer one.
LEMMA NewerAsymmetric ==
    ASSUME NEW m \in MSNs, NEW n \in MSNs, is_greater_than(m, n)
    PROVE  ~ is_greater_than(n, m)
BY LIMITAssumption DEF MSNs, is_greater_than

-----------------------------------------------------------------------------
(* Lifetimes *)

LEMMA ZeroLifetime == 0 \in Lifetimes
BY LifetimesAssumption

\* Whatever lifetime a peer asks for, the node keeps one it admits.
LEMMA CheckedLifetime ==
    ASSUME NEW l \in Lifetimes
    PROVE  /\ check_lifetime(l) \in Lifetimes
           /\ check_lifetime(l) <= MaxLifetime
BY LifetimesAssumption DEF check_lifetime

-----------------------------------------------------------------------------
(* Messages *)

\* Nothing that is in the set of messages is the null pointer.
LEMMA NullIsNoMessage == Null \notin Message
BY DEF Null, Message

LEMMA RequestIsMessage ==
    ASSUME NEW k \in {"CREATE", "REFRESH", "BIDDING"}, NEW d \in {"down", "up"},
           NEW m \in MSNs, NEW l \in Lifetimes
    PROVE  /\ Request(k, d, m, l) \in Message
           /\ Request(k, d, m, l).kind = k /\ Request(k, d, m, l).dir = d
           /\ Request(k, d, m, l).msn = m /\ Request(k, d, m, l).lifetime = l
BY DEF Request, Message

\* An error RESPONSE repeats the number of what it answers, travels the other way
\* and promises nothing.
LEMMA ErrorResponse ==
    ASSUME NEW q \in Message
    PROVE  /\ create_error_response(q) \in Message
           /\ create_error_response(q).kind = "RESPONSE"
           /\ create_error_response(q).dir = invertDirection(q.dir)
           /\ create_error_response(q).msn = q.msn
           /\ create_error_response(q).lifetime = 0
           /\ create_error_response(q).ok = FALSE
BY ZeroLifetime DEF create_error_response, invertDirection, Message

LEMMA SuccessResponse ==
    ASSUME NEW q \in Message, NEW l \in Lifetimes
    PROVE  /\ create_success_response(q, l) \in Message
           /\ create_success_response(q, l).kind = "RESPONSE"
           /\ create_success_response(q, l).dir = invertDirection(q.dir)
           /\ create_success_response(q, l).msn = q.msn
           /\ create_success_response(q, l).lifetime = l
           /\ create_success_response(q, l).ok = TRUE
BY DEF create_success_response, create_error_response, invertDirection, Message

-----------------------------------------------------------------------------
(* Rules, retries and timers *)

LEMMA EmptyRuleIsRule == EmptyRule \in Rule /\ EmptyRule.responses = 0
BY BoundsAssumption DEF EmptyRule, Rule

\* The filter over the objects of a check leaves no more than it was given.
LEMMA FilterBound ==
    ASSUME NEW n \in 0 .. MaxObjects, NEW a \in 0 .. n, NEW left \in CheckFilter(n, a)
    PROVE  left \in 0 .. n
BY BoundsAssumption DEF CheckFilter

LEMMA RetryBound ==
    ASSUME NEW c \in Nat, RetriesLeft(c)
    PROVE  inc_counter(c) \in 0 .. MaxRetries
BY BoundsAssumption DEF RetriesLeft, inc_counter

LEMMA TimersBoolean ==
    ASSUME NEW fired, NEW started, NEW stopped, Timers(fired, started, stopped)
    PROVE  outdated' \in BOOLEAN
BY DEF Timers

-----------------------------------------------------------------------------
(* Phases of the life cycle *)

LEMMA PhaseOf ==
    /\ fate = "new" => Phase = "idle"
    /\ fate = "live" /\ state \notin {"AUCTIONING", "PENDING_TEARDOWN"} => Phase = "pending"
    /\ In("AUCTIONING") => Phase = "active"
    /\ In("PENDING_TEARDOWN") => Phase = "releasing"
    /\ fate = "final" => Phase = "gone"
    /\ fate \in {"thrown", "abort"} => Phase = "failed"
BY DEF Phase, In

LEMMA PhaseOfNext ==
    /\ fate' = "live" /\ state' \notin {"AUCTIONING", "PENDING_TEARDOWN"} => Phase' = "pending"
    /\ fate' = "live" /\ state' = "AUCTIONING" => Phase' = "active"
    /\ fate' = "live" /\ state' = "PENDING_TEARDOWN" => Phase' = "releasing"
    /\ fate' = "final" => Phase' = "gone"
    /\ fate' \in {"thrown", "abort"} => Phase' = "failed"
    /\ fate' = fate /\ state' = state => Phase' = Phase
BY DEF Phase

-----------------------------------------------------------------------------
(* The life cycle of installed objects *)

\* What makes the promise of Lifecycle inductive: before the installation was
\* confirmed the rule holds nothing, and a releasing session that holds objects
\* has asked.
LifecycleInv ==
    /\ (rule.responses > 0) \in BOOLEAN /\ ("remove" \in posted) \in BOOLEAN
    /\ Phase \in {"idle", "pending"} => ~ rule.responses > 0
    /\ Phase \in {"releasing", "gone"} /\ rule.responses > 0 => "remove" \in posted

LEMMA LifecycleStep == LifecycleInv /\ [LC!Next]_(LC!vars) => LifecycleInv'
<1> SUFFICES ASSUME LifecycleInv, [LC!Next]_(LC!vars) PROVE LifecycleInv'
    OBVIOUS
<1>1. CASE LC!Open
    BY <1>1 DEF LifecycleInv, LC!Open
<1>2. CASE LC!Activate
    BY <1>2 DEF LifecycleInv, LC!Activate
<1>3. CASE LC!Abandon
    BY <1>3 DEF LifecycleInv, LC!Abandon
<1>4. CASE LC!Release
    BY <1>4 DEF LifecycleInv, LC!Release
<1>5. CASE LC!Leave
    BY <1>5 DEF LifecycleInv, LC!Leave
<1>6. CASE LC!ReleaseAgain
    BY <1>6 DEF LifecycleInv, LC!ReleaseAgain
<1>7. CASE LC!Finish
    BY <1>7 DEF LifecycleInv, LC!Finish
<1>8. CASE LC!Fail
    BY <1>8 DEF LifecycleInv, LC!Fail
<1>9. CASE UNCHANGED LC!vars
    BY <1>9 DEF LifecycleInv, LC!vars
<1> QED
    BY <1>1, <1>2, <1>3, <1>4, <1>5, <1>6, <1>7, <1>8, <1>9 DEF LC!Next

\* Any session that implements the life cycle keeps its promise: once it is gone,
\* the removal of the objects it held was asked for (remove_auction_rules).
THEOREM LifecycleReleases == LC!Spec => []InstalledObjectsReleased
<1>1. LC!Init => LifecycleInv
    BY DEF LC!Init, LifecycleInv
<1>2. LifecycleInv => InstalledObjectsReleased
    BY DEF LifecycleInv, InstalledObjectsReleased, LC!InstalledObjectsReleased
<1> QED
    BY <1>1, <1>2, LifecycleStep, PTL DEF LC!Spec
=============================================================================
