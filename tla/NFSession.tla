----------------------------- MODULE NFSession -----------------------------
(***************************************************************************)
(* The forwarder's session (nf_session.cpp): a node between initiator and  *)
(* receiver.  It has its own auction process check the objects of a CREATE,*)
(* passes the CREATE on, installs its share when the RESPONSE comes back   *)
(* and passes that on, and afterwards relays REFRESH messages and their    *)
(* RESPONSEs while its own state timer guards the session.                 *)
(***************************************************************************)
EXTENDS Session

VARIABLES
    create_message,    \* the last CREATE received
    refresh_message,   \* the last REFRESH accepted
    response_message,  \* the RESPONSE to the CREATE
    awaiting           \* history: a REFRESH was passed on and not answered yet

nf == <<create_message, refresh_message, response_message, awaiting>>

vars == <<session, nf>>

States == {"CLOSE", "PENDING_CHECK", "PENDING", "PENDING_INSTALLING",
           "AUCTIONING", "PENDING_TEARDOWN"}

PendingStates == {"PENDING_CHECK", "PENDING", "PENDING_INSTALLING"}

Creates == {Request("CREATE", "down", m, l) : m \in MSNs, l \in Lifetimes}

Refreshes == {Request("REFRESH", "down", m, l) : m \in MSNs, l \in Lifetimes}

\* RESPONSEs travel against the direction of what they answer.  A forwarder
\* does not look at the lifetime they carry, so the model's all carry 0.
Answered == {r \in Responses : r.dir = "up" /\ r.lifetime = 0}

\* Nor at the sequence number of a BIDDING message.
Biddings == {Request("BIDDING", d, 0, 0) : d \in {"down", "up"}}

Init ==
    /\ SessionInit
    /\ msn = 0
    /\ create_message = Null
    /\ refresh_message = Null
    /\ response_message = Null
    /\ awaiting = FALSE

-----------------------------------------------------------------------------
(* Messages the forwarder builds. *)

build_create_message(c, l) ==
    Request("CREATE", "down", c.msn, IF l <= c.lifetime THEN l ELSE c.lifetime)

build_teardown_message(m) == Request("REFRESH", "down", next_msg_sequence_number(m), 0)

-----------------------------------------------------------------------------
(* process_state_close: the CREATE c with n objects opens the session with  *)
(* lifetime l, or opens it again.                                           *)

Participates(selected) == selected /\ InstallRules

ProcessCreate(c, n, l, selected) ==
    /\ create_message' = c
    /\ lifetime' = l
    /\ msn' = c.msn
    /\ rule' = [rule EXCEPT !.requests = n]
    /\ Timers({}, {"state"}, {})
    /\ \/ /\ Participates(selected)
          /\ Post("check")
          /\ Send({})
          /\ Return("PENDING_CHECK")
       \/ /\ ~ Participates(selected)
          /\ NoPost
          /\ Send({build_create_message(c, l)})
          /\ Return("PENDING")
    /\ UNCHANGED <<refresh_message, response_message, awaiting>>

\* The MRI is not path-coupled or the check cannot be queued.
ProcessCreateFails(c, n, l) ==
    /\ create_message' = c
    /\ lifetime' = l
    /\ msn' = c.msn
    /\ rule' \in {rule, [rule EXCEPT !.requests = n]}
    /\ Send({create_error_response(c)})
    /\ Return("CLOSE")
    /\ UNCHANGED <<armed, outdated, posted, refresh_message, response_message, awaiting>>

(* STATE_ANSLP_CLOSE *)

CloseCreate(c, n, selected) ==
    /\ fate = "new"
    /\ check_lifetime(c.lifetime) > 0
    /\ ProcessCreate(c, n, check_lifetime(c.lifetime), selected)

CloseCreateFails(c, n) ==
    /\ fate = "new"
    /\ check_lifetime(c.lifetime) > 0
    /\ ProcessCreateFails(c, n, check_lifetime(c.lifetime))

CloseZeroLifetime(c) ==
    /\ fate = "new"
    /\ check_lifetime(c.lifetime) = 0
    /\ Send({})
    /\ Return("CLOSE")
    /\ UNCHANGED <<lifetime, msn, rule, armed, outdated, posted, nf>>

-----------------------------------------------------------------------------
(* The three pending states treat another CREATE alike. *)

InPending == fate = "live" /\ state \in PendingStates

\* Sequence numbers are compared as plain numbers here.
Terminates(c) == c.msn > create_message.msn /\ c.lifetime = 0

Repeats(c) == c.msn = create_message.msn

PendingCreateTerminates(c) ==
    /\ InPending
    /\ Terminates(c)
    /\ Timers({}, {}, {"state"})
    /\ Send({c})
    /\ Return("CLOSE")
    /\ UNCHANGED <<lifetime, msn, rule, posted, nf>>

PendingCreateRepeated(c) ==
    /\ InPending
    /\ ~ Terminates(c) /\ Repeats(c)
    /\ Timers({}, {"state"}, {})
    /\ Send(IF state = "PENDING_CHECK" THEN {} ELSE {c})
    /\ UNCHANGED <<state, fate, lifetime, msn, rule, posted, nf>>

Replaces(c) == InPending /\ ~ Terminates(c) /\ ~ Repeats(c)

PendingCreateReplaced(c, n, selected) ==
    Replaces(c) /\ ProcessCreate(c, n, c.lifetime, selected)

PendingCreateReplacedFails(c, n) ==
    Replaces(c) /\ ProcessCreateFails(c, n, c.lifetime)

\* No route to the next node (fired is {}), or the state timer.
PendingUnreachable(fired) ==
    /\ InPending
    /\ fired \subseteq armed
    /\ Timers(fired, {}, {})
    /\ Send({create_error_response(create_message)})
    /\ Return("CLOSE")
    /\ UNCHANGED <<lifetime, msn, rule, posted, nf>>

\* Events none of the branches expects, and the response timer, which may be
\* under way when a CREATE takes the session back to an earlier state.
PendingOther == InPending /\ Discard /\ UNCHANGED nf

PendingResponseTimer == InPending /\ DropTimer("response") /\ UNCHANGED nf

-----------------------------------------------------------------------------
(* STATE_ANSLP_PENDING_CHECK *)

CheckAnswered(a) ==
    /\ In("PENDING_CHECK")
    /\ Answers("check")
    /\ a \in 0 .. rule.requests

CheckPassed(a) ==
    /\ CheckAnswered(a)
    /\ \E left \in CheckFilter(rule.requests, a) : rule' = [rule EXCEPT !.requests = left]
    /\ Send({build_create_message(create_message, lifetime)})
    /\ Timers({}, {"state"}, {})
    /\ Return("PENDING")
    /\ UNCHANGED <<lifetime, msn, posted, nf>>

CheckCrashes(a) ==
    /\ CheckAnswered(a)
    /\ CheckFilterCrashes(rule.requests, a)
    /\ Abort
    /\ UNCHANGED nf

-----------------------------------------------------------------------------
(* STATE_ANSLP_PENDING *)

PendingSuccess(r) ==
    /\ In("PENDING")
    /\ is_anslp_response(r, create_message)
    /\ r.ok
    /\ response_message' = r
    /\ PostIfInstalling("install")
    /\ Timers({}, {"state", "response"}, {})
    /\ Send({})
    /\ Return("PENDING_INSTALLING")
    /\ UNCHANGED <<lifetime, msn, rule, create_message, refresh_message, awaiting>>

PendingSuccessThrows(r) ==
    /\ In("PENDING")
    /\ is_anslp_response(r, create_message)
    /\ r.ok
    /\ InstallRules
    /\ Throw({})
    /\ UNCHANGED nf

PendingFailure(r) ==
    /\ In("PENDING")
    /\ is_anslp_response(r, create_message)
    /\ ~ r.ok
    /\ Timers({}, {}, {"state"})
    /\ Send({r})
    /\ Return("CLOSE")
    /\ UNCHANGED <<lifetime, msn, rule, posted, nf>>

-----------------------------------------------------------------------------
(* STATE_ANSLP_PENDING_INSTALLING *)

\* The response timer started with the installation goes on running.
InstallingInstalled(n) ==
    /\ In("PENDING_INSTALLING")
    /\ Answers("install")
    /\ n = rule.requests
    /\ rule' = set_reponse_objects(rule, n)
    /\ Send({response_message})
    /\ Timers({}, {"state"}, {})
    /\ Return("AUCTIONING")
    /\ UNCHANGED <<lifetime, msn, posted, nf>>

InstallingMismatch(n) ==
    /\ In("PENDING_INSTALLING")
    /\ Answers("install")
    /\ n # rule.requests
    /\ lifetime' = 0
    /\ IF HoldsObjects(rule) THEN Post("remove") ELSE NoPost
    /\ msn' = next_msg_sequence_number(msn)
    /\ Send({build_teardown_message(msn), create_error_response(response_message)})
    /\ Timers({}, {}, {"state"})
    /\ Return("CLOSE")
    /\ UNCHANGED <<rule, nf>>

-----------------------------------------------------------------------------
(* STATE_ANSLP_AUCTIONING *)

\* A REFRESH that is newer than the last refreshing one is passed on as it
\* came.  A teardown (lifetime 0) leaves the sequence number alone.
AuctioningRefresh(q) ==
    /\ In("AUCTIONING")
    /\ is_greater_than(q.msn, msn)
    /\ lifetime' = check_lifetime(q.lifetime)
    /\ msn' = IF lifetime' > 0 THEN q.msn ELSE msn
    /\ refresh_message' = q
    /\ awaiting' = TRUE
    /\ Timers({}, {"response"}, {})
    /\ Send({q})
    /\ UNCHANGED <<state, fate, rule, posted, create_message, response_message>>

AuctioningRefreshDuplicate(q) ==
    /\ In("AUCTIONING")
    /\ ~ is_greater_than(q.msn, msn)
    /\ Discard
    /\ UNCHANGED nf

\* Remove the installed objects and wait for the confirmation, or close at
\* once when there are none.
UninstallRule(fired, stopped) ==
    /\ \/ /\ HoldsObjects(rule)
          /\ Post("remove")
          /\ Timers(fired, {"state"}, stopped)
          /\ Return("PENDING_TEARDOWN")
       \/ /\ ~ HoldsObjects(rule)
          /\ NoPost
          /\ Timers(fired, {}, {"state"} \cup stopped)
          /\ Return("CLOSE")
    /\ UNCHANGED <<lifetime, msn, rule, create_message, refresh_message, response_message>>

UninstallThrows(sent) ==
    /\ HoldsObjects(rule)
    /\ Throw(sent)
    /\ UNCHANGED nf

\* No route to the next node, or no RESPONSE in time.
Unanswered(fired) == In("AUCTIONING") /\ fired \subseteq armed

AuctioningUnanswered(fired) ==
    Unanswered(fired) /\ Send({}) /\ UninstallRule(fired, {}) /\ UNCHANGED awaiting

\* No REFRESH arrived in time.
AuctioningTimeout ==
    /\ In("AUCTIONING")
    /\ "state" \in armed
    /\ Send({})
    /\ UninstallRule({"state"}, {"response"})
    /\ UNCHANGED awaiting

AuctioningRouteChanged ==
    In("AUCTIONING") /\ Send({}) /\ UninstallRule({}, {}) /\ UNCHANGED awaiting

\* remove_auction_rules throws, in any of the three branches above.
AuctioningEndThrows == In("AUCTIONING") /\ UninstallThrows({})

RefreshAnswered(r) ==
    /\ In("AUCTIONING")
    /\ is_anslp_response(r, refresh_message)

\* The response timer is left running.
AuctioningRefreshed(r) ==
    /\ RefreshAnswered(r)
    /\ r.ok
    /\ lifetime # 0
    /\ Timers({}, {"state"}, {})
    /\ awaiting' = FALSE
    /\ Send({r})
    /\ UNCHANGED <<state, fate, lifetime, msn, rule, posted, create_message,
                   refresh_message, response_message>>

SessionOver(r) == RefreshAnswered(r) /\ (lifetime = 0 \/ ~ r.ok)

AuctioningOver(r) ==
    SessionOver(r) /\ Send({r}) /\ UninstallRule({}, {}) /\ awaiting' = FALSE

AuctioningOverThrows(r) == SessionOver(r) /\ UninstallThrows({r})

\* Any event no earlier branch takes is compared with the last REFRESH,
\* whose getter asserts that there is one.
AuctioningOther ==
    /\ In("AUCTIONING")
    /\ refresh_message # Null
    /\ Discard
    /\ UNCHANGED nf

AuctioningOtherAssertFails ==
    /\ In("AUCTIONING")
    /\ refresh_message = Null
    /\ Abort
    /\ UNCHANGED nf

-----------------------------------------------------------------------------
(* BIDDING messages, in STATE_ANSLP_AUCTIONING and STATE_ANSLP_PENDING_TEARDOWN *)

InOpen == In("AUCTIONING") \/ In("PENDING_TEARDOWN")

BiddingForUs ==
    /\ InOpen
    /\ Post("interact")
    /\ Send({})
    /\ UNCHANGED <<state, fate, lifetime, msn, rule, armed, outdated, nf>>

BiddingThrows == InOpen /\ Throw({}) /\ UNCHANGED nf

BiddingForwarded(b) ==
    /\ InOpen
    /\ Send({b})
    /\ UNCHANGED <<state, fate, lifetime, msn, rule, armed, outdated, posted, nf>>

-----------------------------------------------------------------------------
(* STATE_ANSLP_PENDING_TEARDOWN *)

TeardownTimeout ==
    /\ In("PENDING_TEARDOWN")
    /\ "state" \in armed
    /\ Timers({"state"}, {}, {})
    /\ Send({})
    /\ Return("CLOSE")
    /\ UNCHANGED <<lifetime, msn, rule, posted, nf>>

TeardownRemoved ==
    /\ In("PENDING_TEARDOWN")
    /\ Answers("remove")
    /\ Timers({}, {}, {"state"})
    /\ Send({})
    /\ Return("CLOSE")
    /\ UNCHANGED <<lifetime, msn, rule, posted, nf>>

TeardownResponseTimer == In("PENDING_TEARDOWN") /\ DropTimer("response") /\ UNCHANGED nf

TeardownOther == In("PENDING_TEARDOWN") /\ Discard /\ UNCHANGED nf

Superseded == OutdatedTimer /\ UNCHANGED nf

-----------------------------------------------------------------------------
StateTimer ==
    PendingUnreachable({"state"}) \/ AuctioningTimeout \/ TeardownTimeout

ResponseTimer ==
    PendingResponseTimer \/ AuctioningUnanswered({"response"}) \/ TeardownResponseTimer

Api ==
    \/ \E a \in 0 .. MaxObjects : CheckPassed(a) \/ CheckCrashes(a)
    \/ \E n \in 0 .. MaxObjects : InstallingInstalled(n) \/ InstallingMismatch(n)
    \/ TeardownRemoved

Network ==
    \/ \E c \in Creates :
          \/ CloseZeroLifetime(c)
          \/ PendingCreateTerminates(c) \/ PendingCreateRepeated(c)
          \/ \E n \in 0 .. MaxObjects :
                \/ CloseCreateFails(c, n) \/ PendingCreateReplacedFails(c, n)
                \/ \E selected \in BOOLEAN :
                      CloseCreate(c, n, selected) \/ PendingCreateReplaced(c, n, selected)
    \/ PendingUnreachable({}) \/ PendingOther
    \/ \E r \in Answered :
          \/ PendingSuccess(r) \/ PendingSuccessThrows(r) \/ PendingFailure(r)
          \/ AuctioningRefreshed(r) \/ AuctioningOver(r) \/ AuctioningOverThrows(r)
    \/ \E q \in Refreshes : AuctioningRefresh(q) \/ AuctioningRefreshDuplicate(q)
    \/ AuctioningUnanswered({}) \/ AuctioningRouteChanged \/ AuctioningEndThrows
    \/ AuctioningOther \/ AuctioningOtherAssertFails
    \/ BiddingForUs \/ BiddingThrows
    \/ \E b \in Biddings : BiddingForwarded(b)
    \/ TeardownOther

Next == StateTimer \/ ResponseTimer \/ Superseded \/ Api \/ Network

Spec == Init /\ [][Next]_vars

Fairness == WF_vars(StateTimer) /\ WF_vars(ResponseTimer)

FairSpec == Spec /\ Fairness

-----------------------------------------------------------------------------
(* Properties *)

\* The types of the variables.
TypeOK ==
    /\ SessionTypeOK
    /\ state \in States
    /\ armed \subseteq {"state", "response"}
    /\ create_message \in Message \cup {Null}
    /\ refresh_message \in Message \cup {Null}
    /\ response_message \in Message \cup {Null}
    /\ awaiting \in BOOLEAN

\* As long as the session is in the table its state timer is running, also
\* where a handler stops the timer first and starts it again on one branch only.
TimerGuardsState ==
    fate = "live" => state # "CLOSE" /\ "state" \in armed

\* The success RESPONSE passed on towards the initiator answers the CREATE the
\* session holds now, not one it replaced, and is passed on only when every
\* object this node was to install has been.
SuccessAnswersCreate ==
    [][ InPending => \A m \in out' : m.kind = "RESPONSE" /\ m.ok
        => /\ m.msn = create_message.msn
           /\ In("AUCTIONING")'
           /\ rule'.responses = rule.requests ]_vars

\* A session given up while pending tells its neighbours: the initiator's side
\* gets an error RESPONSE to the CREATE, or the receiver's side the teardown.
PendingEndReported ==
    [][ InPending /\ fate' = "final" => \E m \in out' :
           \/ m.kind = "RESPONSE" /\ m.dir = "up" /\ ~ m.ok /\ m.msn = create_message'.msn
           \/ m.kind \in {"CREATE", "REFRESH"} /\ m.dir = "down" /\ m.lifetime = 0 ]_vars

\* The session implements the life cycle: installed objects are not left behind
\* by a session that was active, whichever branch of the handlers ends it.
ImplementsLifecycle == LC!Spec

\* The events of the neighbours that start the state timer anew without taking
\* the session further.
Prolonged ==
    \/ \E r \in Answered : AuctioningRefreshed(r)
    \/ \E c \in Creates :
          \/ PendingCreateRepeated(c)
          \/ \E n \in 0 .. MaxObjects, selected \in BOOLEAN :
                PendingCreateReplaced(c, n, selected)

\* Soft state: if from some time on no CREATE and no answered REFRESH prolongs
\* the session, it is over in the end, in whatever state it was left.
SoftState == <>[][~ Prolonged]_vars => (fate = "live" ~> Ended)

(***************************************************************************)
(* Claims of the code's comments and assertions that do not hold.          *)
(***************************************************************************)

\* "Send an error message to the ni": when the installation falls short, the
\* initiator's side gets an error RESPONSE.
MismatchReported ==
    [][ \A n \in 0 .. MaxObjects : InstallingMismatch(n)
        => \E m \in out' : m.kind = "RESPONSE" /\ m.dir = "up" /\ ~ m.ok ]_vars

\* "Wait confirmation to close session": once a teardown was passed on, only a
\* REFRESH newer than it may give the session a lifetime again.
TeardownNotUndone ==
    [][ In("AUCTIONING") /\ lifetime = 0 /\ In("AUCTIONING")' /\ lifetime' > 0
        => is_greater_than(refresh_message'.msn, refresh_message.msn) ]_vars

\* "Downstream peer didn't respond ... the upstream peer is still waiting for a
\* response to its REFRESH message": the response timer runs only while a REFRESH
\* that was passed on has not been answered.
ResponseTimerMeansWaiting == In("AUCTIONING") /\ "response" \in armed => awaiting
=============================================================================
