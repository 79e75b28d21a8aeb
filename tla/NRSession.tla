----------------------------- MODULE NRSession -----------------------------
(***************************************************************************)
(* The receiver's session (nr_session.cpp): the last node of the path, or  *)
(* an edge node that answers for it.  A CREATE starts it; the session has  *)
(* the auction process check and then install the objects the CREATE       *)
(* carries, answers the CREATE, and stays up as long as REFRESH messages   *)
(* arrive before its state timer fires.                                    *)
(***************************************************************************)
EXTENDS Session

VARIABLES create_counter, create_message

nr == <<create_counter, create_message>>

vars == <<session, nr>>

States == {"CLOSE", "PENDING", "PENDING_INSTALLING", "AUCTIONING", "PENDING_TEARDOWN"}

Creates == {Request("CREATE", "down", m, l) : m \in MSNs, l \in Lifetimes}

Refreshes == {Request("REFRESH", "down", m, l) : m \in MSNs, l \in Lifetimes}

Init ==
    /\ SessionInit
    /\ msn = 0
    /\ create_counter = 0
    /\ create_message = Null

-----------------------------------------------------------------------------
(* STATE_ANSLP_CLOSE.  c is the CREATE received, n the number of objects it *)
(* carries, selected whether it asks the receiver to take part.             *)

CreateReceived(c) ==
    /\ fate = "new"
    /\ create_message' = c

\* save_auction_rule: the objects become the rule's requests and, on a node
\* that takes part, the auction process is asked to check them.
CloseCheck(c, n) ==
    /\ CreateReceived(c)
    /\ check_lifetime(c.lifetime) > 0
    /\ InstallRules
    /\ lifetime' = check_lifetime(c.lifetime)
    /\ msn' = c.msn
    /\ rule' = [requests |-> n, responses |-> 0]
    /\ Post("check")
    /\ create_counter' = inc_counter(create_counter)
    /\ Timers({}, {"state"}, {})
    /\ Send({})
    /\ Return("PENDING")

CloseNotParticipating(c, selected) ==
    /\ CreateReceived(c)
    /\ check_lifetime(c.lifetime) > 0
    /\ ~ (selected /\ InstallRules)
    /\ lifetime' = check_lifetime(c.lifetime)
    /\ msn' = c.msn
    /\ rule' = EmptyRule
    /\ Send({create_success_response(c, lifetime')})
    /\ Timers({}, {"state"}, {})
    /\ Return("AUCTIONING")
    /\ UNCHANGED <<posted, create_counter>>

CloseInvalidLifetime(c) ==
    /\ CreateReceived(c)
    /\ check_lifetime(c.lifetime) = 0
    /\ Send({create_error_response(c)})
    /\ Return("CLOSE")
    /\ UNCHANGED <<lifetime, msn, rule, armed, outdated, posted, create_counter>>

\* The check cannot be queued.
CloseCheckFails(c, n) ==
    /\ CreateReceived(c)
    /\ check_lifetime(c.lifetime) > 0
    /\ InstallRules
    /\ lifetime' = check_lifetime(c.lifetime)
    /\ msn' = c.msn
    /\ rule' = [requests |-> n, responses |-> 0]
    /\ Send({create_error_response(c)})
    /\ Return("CLOSE")
    /\ UNCHANGED <<armed, outdated, posted, create_counter>>

\* The MRI is not path-coupled; nobody catches the request_error.
CloseThrows(c) ==
    /\ CreateReceived(c)
    /\ check_lifetime(c.lifetime) > 0
    /\ Throw({})
    /\ UNCHANGED create_counter

\* Another thread found the new session first and its event is no CREATE.
CloseOther ==
    /\ fate = "new"
    /\ Send({})
    /\ Return("CLOSE")
    /\ UNCHANGED <<lifetime, msn, rule, armed, outdated, posted, nr>>

-----------------------------------------------------------------------------
(* STATE_ANSLP_PENDING.  GIST's no_next_node_found is handled like the state *)
(* timer: fired is {"state"} for the timer and {} for the notification.      *)

PendingRetry(fired) ==
    /\ In("PENDING")
    /\ fired \subseteq armed
    /\ RetriesLeft(create_counter)
    /\ create_counter' = inc_counter(create_counter)
    /\ Post("check")
    /\ Timers(fired, {"state"}, {})
    /\ Send({})
    /\ UNCHANGED <<state, fate, lifetime, msn, rule, create_message>>

PendingRetryThrows ==
    /\ In("PENDING")
    /\ RetriesLeft(create_counter)
    /\ Throw({})
    /\ UNCHANGED nr

PendingGiveUp(fired) ==
    /\ In("PENDING")
    /\ fired \subseteq armed
    /\ ~ RetriesLeft(create_counter)
    /\ Timers(fired, {}, {})
    /\ Send({create_error_response(create_message)})
    /\ Return("CLOSE")
    /\ UNCHANGED <<lifetime, msn, rule, posted, nr>>

\* The check confirms a of the objects.  Every retry renames the objects, so
\* the answer to an earlier check confirms none of them.
CheckAnswered(a) ==
    /\ In("PENDING")
    /\ Answers("check")
    /\ a \in 0 .. rule.requests

PendingChecked(a) ==
    /\ CheckAnswered(a)
    /\ \E left \in CheckFilter(rule.requests, a) : rule' = [rule EXCEPT !.requests = left]
    /\ create_counter' = 0
    /\ PostIfInstalling("install")
    /\ Timers({}, {"state"}, {})
    /\ Send({})
    /\ Return("PENDING_INSTALLING")
    /\ UNCHANGED <<lifetime, msn, create_message>>

PendingCheckedCrashes(a) ==
    /\ CheckAnswered(a)
    /\ CheckFilterCrashes(rule.requests, a)
    /\ Abort
    /\ UNCHANGED nr

PendingCheckedThrows ==
    /\ CheckAnswered(rule.requests)
    /\ Throw({})
    /\ UNCHANGED nr

PendingOther ==
    /\ In("PENDING")
    /\ Discard
    /\ UNCHANGED nr

-----------------------------------------------------------------------------
(* STATE_ANSLP_PENDING_INSTALLING *)

InstallingRetry ==
    /\ In("PENDING_INSTALLING")
    /\ "state" \in armed
    /\ RetriesLeft(create_counter)
    /\ create_counter' = inc_counter(create_counter)
    /\ PostIfInstalling("install")
    /\ Timers({"state"}, {"state"}, {})
    /\ Send({})
    /\ UNCHANGED <<state, fate, lifetime, msn, rule, create_message>>

InstallingRetryThrows ==
    /\ In("PENDING_INSTALLING")
    /\ "state" \in armed
    /\ RetriesLeft(create_counter)
    /\ Throw({})
    /\ UNCHANGED nr

InstallingGiveUp ==
    /\ In("PENDING_INSTALLING")
    /\ "state" \in armed
    /\ ~ RetriesLeft(create_counter)
    /\ Timers({"state"}, {}, {})
    /\ Send({create_error_response(create_message)})
    /\ Return("CLOSE")
    /\ UNCHANGED <<lifetime, msn, rule, posted, nr>>

\* The auction process reports that it installed n objects.
InstallingInstalled(n) ==
    /\ In("PENDING_INSTALLING")
    /\ Answers("install")
    /\ n = rule.requests
    /\ rule' = set_reponse_objects(rule, n)
    /\ Send({create_success_response(create_message, lifetime)})
    /\ Timers({}, {"state"}, {})
    /\ Return("AUCTIONING")
    /\ UNCHANGED <<lifetime, msn, posted, nr>>

InstallingMismatch_Success(n) ==
    /\ In("PENDING_INSTALLING")
    /\ Answers("install")
    /\ n # rule.requests
    /\ lifetime' = 0
    /\ IF HoldsObjects(rule) THEN Post("remove") ELSE NoPost
    /\ Send({create_success_response(create_message, lifetime)})
    /\ Timers({}, {"state"}, {})
    /\ Return("PENDING_TEARDOWN")
    /\ UNCHANGED <<msn, rule, nr>>

InstallingMismatch(n) ==
    /\ In("PENDING_INSTALLING")
    /\ Answers("install")
    /\ n # rule.requests
    /\ lifetime' = 0
    /\ IF HoldsObjects(rule) THEN Post("remove") ELSE NoPost
    /\ Send({create_error_response(create_message)})
    /\ Timers({}, {"state"}, {})
    /\ Return("PENDING_TEARDOWN")
    /\ UNCHANGED <<msn, rule, nr>>

InstallingOther ==
    /\ In("PENDING_INSTALLING")
    /\ Discard
    /\ UNCHANGED nr

-----------------------------------------------------------------------------
(* STATE_ANSLP_AUCTIONING *)

RefreshNewer_Any(q) == In("AUCTIONING")

\* A REFRESH that is not newer than the last one accepted is dropped.
RefreshNewer(q) ==
    /\ In("AUCTIONING")
    /\ is_greater_than(q.msn, msn)

RefreshAccepted(q) ==
    /\ RefreshNewer(q)
    /\ check_lifetime(q.lifetime) > 0
    /\ lifetime' = check_lifetime(q.lifetime)
    /\ msn' = q.msn
    /\ Send({create_success_response(q, lifetime')})
    /\ Timers({}, {"state"}, {})
    /\ UNCHANGED <<state, fate, rule, posted, nr>>

\* Remove the installed objects and wait for the confirmation, or close at
\* once when there are none.
UninstallRule(fired) ==
    /\ \/ /\ HoldsObjects(rule)
          /\ Post("remove")
          /\ Timers(fired, {"state"}, {})
          /\ Return("PENDING_TEARDOWN")
       \/ /\ ~ HoldsObjects(rule)
          /\ NoPost
          /\ Timers(fired, {}, {"state"})
          /\ Return("CLOSE")
    /\ UNCHANGED <<lifetime, msn, rule, nr>>

\* remove_auction_rules throws when the queue is shut down; what was sent
\* before is on its way.
UninstallThrows(sent) ==
    /\ HoldsObjects(rule)
    /\ Throw(sent)
    /\ UNCHANGED nr

TeardownRequested(q) == RefreshNewer(q) /\ check_lifetime(q.lifetime) = 0

AuctioningTeardown(q) ==
    /\ TeardownRequested(q)
    /\ Send({create_success_response(q, 0)})
    /\ UninstallRule({})

AuctioningTeardownThrows(q) ==
    TeardownRequested(q) /\ UninstallThrows({create_success_response(q, 0)})

TimedOut == In("AUCTIONING") /\ "state" \in armed

AuctioningTimeout == TimedOut /\ Send({}) /\ UninstallRule({"state"})

AuctioningTimeoutThrows == TimedOut /\ UninstallThrows({})

\* Nobody catches the rule installer's error here.
Bidding ==
    /\ In("AUCTIONING")
    /\ Post("interact")
    /\ Send({})
    /\ UNCHANGED <<state, fate, lifetime, msn, rule, armed, outdated, nr>>

BiddingThrows == In("AUCTIONING") /\ Throw({}) /\ UNCHANGED nr

\* Bids have a sequence number of their own, msn_bidding, not modelled.
ApiBidding ==
    /\ In("AUCTIONING") \/ In("PENDING_TEARDOWN")
    /\ \E m \in MSNs : Send({Request("BIDDING", "up", m, 0)})
    /\ UNCHANGED <<state, fate, lifetime, msn, rule, armed, outdated, posted, nr>>

\* A REFRESH not newer than the last one accepted is among these.
AuctioningOther == In("AUCTIONING") /\ Discard /\ UNCHANGED nr

-----------------------------------------------------------------------------
(* STATE_ANSLP_PENDING_TEARDOWN *)

TeardownRetry ==
    /\ In("PENDING_TEARDOWN")
    /\ "state" \in armed
    /\ RetriesLeft(create_counter)
    /\ create_counter' = inc_counter(create_counter)
    /\ Post("remove")
    /\ Timers({"state"}, {"state"}, {})
    /\ Send({})
    /\ UNCHANGED <<state, fate, lifetime, msn, rule, create_message>>

TeardownRetryThrows ==
    /\ In("PENDING_TEARDOWN")
    /\ "state" \in armed
    /\ RetriesLeft(create_counter)
    /\ Throw({})
    /\ UNCHANGED nr

TeardownGiveUp ==
    /\ In("PENDING_TEARDOWN")
    /\ "state" \in armed
    /\ ~ RetriesLeft(create_counter)
    /\ Timers({"state"}, {}, {})
    /\ Send({})
    /\ Return("CLOSE")
    /\ UNCHANGED <<lifetime, msn, rule, posted, nr>>

TeardownRemoved ==
    /\ In("PENDING_TEARDOWN")
    /\ Answers("remove")
    /\ Timers({}, {}, {"state"})
    /\ Send({})
    /\ Return("CLOSE")
    /\ UNCHANGED <<lifetime, msn, rule, posted, nr>>

TeardownOther == In("PENDING_TEARDOWN") /\ Discard /\ UNCHANGED nr

Superseded == OutdatedTimer /\ UNCHANGED nr

-----------------------------------------------------------------------------
StateTimer ==
    \/ PendingRetry({"state"}) \/ PendingGiveUp({"state"})
    \/ InstallingRetry \/ InstallingRetryThrows \/ InstallingGiveUp
    \/ AuctioningTimeout \/ AuctioningTimeoutThrows
    \/ TeardownRetry \/ TeardownRetryThrows \/ TeardownGiveUp

Api ==
    \/ \E a \in 0 .. MaxObjects : PendingChecked(a) \/ PendingCheckedCrashes(a)
    \/ PendingCheckedThrows
    \/ \E n \in 0 .. MaxObjects : InstallingInstalled(n) \/ InstallingMismatch(n)
    \/ ApiBidding
    \/ TeardownRemoved

Network ==
    \/ \E c \in Creates :
          \/ \E n \in 0 .. MaxObjects : CloseCheck(c, n) \/ CloseCheckFails(c, n)
          \/ \E selected \in BOOLEAN : CloseNotParticipating(c, selected)
          \/ CloseInvalidLifetime(c) \/ CloseThrows(c)
    \/ CloseOther
    \/ PendingRetry({}) \/ PendingRetryThrows \/ PendingGiveUp({})
    \/ \E q \in Refreshes :
          RefreshAccepted(q) \/ AuctioningTeardown(q) \/ AuctioningTeardownThrows(q)
    \/ Bidding \/ BiddingThrows
    \/ PendingOther \/ InstallingOther \/ AuctioningOther \/ TeardownOther

Next == StateTimer \/ Superseded \/ Api \/ Network

Spec == Init /\ [][Next]_vars

Fairness == WF_vars(StateTimer)

FairSpec == Spec /\ Fairness

-----------------------------------------------------------------------------
(* Properties *)

Pending == fate = "new" \/ In("PENDING") \/ In("PENDING_INSTALLING")

\* The types of the variables.  The first check counts as a try, so the counter
\* is 1 even if no retries are configured.
TypeOK ==
    /\ SessionTypeOK
    /\ state \in States
    /\ armed \subseteq {"state"}
    /\ create_counter \in 0 .. IF MaxRetries = 0 THEN 1 ELSE MaxRetries
    /\ create_message \in Message \cup {Null}

\* The soft state of the receiver: as long as the session is in the table its
\* state timer is running, in every state and after every event, so that a
\* session whose peers fall silent is always found out.
TimerGuardsState ==
    fate = "live" => state # "CLOSE" /\ armed = {"state"}

\* Every CREATE that opens a session is answered by exactly one RESPONSE, sent
\* towards the initiator when the pending phase ends, whichever of the check,
\* the installation, the retries and the timers ends it; the RESPONSE promises
\* success, with the lifetime the node keeps, exactly if the session is up.  A
\* handler that throws is excluded: it answers nothing, and the dispatcher removes
\* the session.
CreateAnswered ==
    [][ Pending /\ ~ Pending' /\ fate' \in {"live", "final"} /\ create_message' # Null
        => \E m \in Message :
              /\ out' = {m}
              /\ m.kind = "RESPONSE" /\ m.dir = "up" /\ m.msn = create_message'.msn
              /\ m.ok <=> In("AUCTIONING")'
              /\ m.ok => m.lifetime = lifetime' ]_vars

\* A RESPONSE that promises a lifetime comes from a session that is up, keeps
\* just that lifetime, which its configuration admits, and has its timer running.
PromiseKept ==
    [][ \A m \in out' : m.kind = "RESPONSE" /\ m.lifetime > 0
        => /\ In("AUCTIONING")'
           /\ lifetime' = m.lifetime /\ m.lifetime <= MaxLifetime
           /\ armed' = {"state"} ]_vars

\* The session implements the life cycle: installed objects are not left behind
\* by a session that was active, whichever branch of the handlers ends it.
ImplementsLifecycle == LC!Spec

\* The check, the installation and the removal end whatever the auction process
\* does: the retries run out.
PendingEnds ==
    fate = "live" /\ state \in {"PENDING", "PENDING_INSTALLING"}
        ~> Ended \/ In("AUCTIONING")

\* Soft state: if from some time on no REFRESH is accepted, the session is over
\* in the end.
SoftState ==
    <>[][ \A q \in Refreshes : ~ RefreshAccepted(q) ]_vars => (fate = "live" ~> Ended)

(***************************************************************************)
(* Claims of the code's comments that do not hold.                         *)
(***************************************************************************)

\* "Uninstall the previous rules": a session that tears down an installation
\* that succeeded only in part asks for the removal of that part.
PartialInstallationRemoved ==
    [][ In("PENDING_TEARDOWN") /\ fate' = "final" => "remove" \in posted' ]_vars
=============================================================================
