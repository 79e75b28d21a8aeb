------------------------------- MODULE Daemon -------------------------------
(***************************************************************************)
(* The daemon around the sessions: startup and registration with GIST, the *)
(* worker threads that take messages from the input queue, map them to     *)
(* events and process them, the rule installer through which sessions put  *)
(* requests into the auction process' queue, the auction process' answers, *)
(* and the shutdown.                                                       *)
(*                                                                         *)
(* GIST, the timer module, the threads' library and the auction process    *)
(* are not part of the repository; they are modelled as the daemon uses    *)
(* them.  What a thread does with an event of a session is module          *)
(* Dispatcher, instantiated as D.  What a session does with it is reduced  *)
(* to the state it goes to and the call of the rule installer it makes on  *)
(* the way; the session modules have the rest.                             *)
(***************************************************************************)
EXTENDS Integers, Sequences, FiniteSets

CONSTANTS
    Threads,      \* dispatcher threads
    NetIds,       \* session ids that other nodes chose
    Config,       \* configurations, see ConfigAssumption
    Arrivals,     \* kinds of message that arrive, a subset of Arriving
    MaxMessages,  \* bound: messages that arrive from outside
    DoneSize,     \* DONE_SESSION_LIST_SIZE
    None          \* NULL

\* Every message opens at most one session.
Objects == 1 .. MaxMessages

\* A random id that create_ni_session draws is the number of the user's request.
Sids == NetIds \cup 1 .. MaxMessages

ASSUME ThreadsAssumption == IsFiniteSet(Threads) /\ Threads # {}
ASSUME BoundsAssumption == MaxMessages \in Nat /\ DoneSize \in Nat
ASSUME NoneAssumption == None \notin Threads /\ None \notin Sids
\* queue: the daemon was given an installQueue; install: install_auction_rules;
\* auctioneer: is_auctioneer; threads: as many as dispatcher-threads says.
ASSUME ConfigAssumption ==
    Config \subseteq [queue : BOOLEAN, install : BOOLEAN, auctioneer : BOOLEAN,
                      threads : SUBSET Threads]

VARIABLES
    config,      \* the daemon's configuration
    daemon,      \* where the daemon's life is, see Lives
    gist,        \* the GIST threads: "off", "starting", "up" or "stopped"
    input,       \* the input queue, known to the queue manager while registered
    arrived,     \* number of messages that arrived from outside
    thread,      \* per thread: "loop", "event" or "ended"
    hands,       \* per thread: the event it processes
    installer,   \* the rule installer object: "none", "nop", "netauct", "deleted"
    sessions,    \* per session object: its class and state
    reaction,    \* per thread: what is left to do of the handler it is in
    requests,    \* the auction process' queue
    installed,   \* session ids whose objects the auction process has installed
    lastRequest, \* history: per session id, the last request to install or remove
                 \* that a session of that id decided on
    dangling,    \* history: a return queue was used after its end
    pc, event, wanted, s, table, sid_of, final, owner, done, deleted, crashed
                 \* the dispatcher threads and the session manager

D == INSTANCE Dispatcher

around == <<config, daemon, gist, input, arrived, thread, hands, installer,
            sessions, reaction, requests, installed, lastRequest, dangling>>

dispatch == <<pc, event, wanted, s, table, sid_of, final, owner, done, deleted, crashed>>

vars == <<around, dispatch>>

Lives == {"startup", "registering", "running", "stopping", "shutdown", "stopped",
          "aborted"}  \* an assertion failed, or a handler crashed

Alive == daemon # "aborted" /\ ~ crashed

(***************************************************************************)
(* Queues (FastQueue).  No caller asks for expedited delivery.             *)
(***************************************************************************)
FastQueue == [items |-> <<>>, shutdownflag |-> FALSE]

enqueue(q, e) == IF q.shutdownflag THEN q ELSE [q EXCEPT !.items = Append(@, e)]

dequeue(q) == [q EXCEPT !.items = Tail(@)]

\* Refuses new events and deletes the stored ones.
cleanup(q) == [items |-> <<>>, shutdownflag |-> TRUE]

(***************************************************************************)
(* The mapper: messages of the input queue to events.  NoEvent is NULL.    *)
(***************************************************************************)
NoEvent == [kind |-> "NULL", session |-> None]

Event(k, m) == [kind |-> k, session |-> m.session]

\* What GIST, the timer module and the user put into the input queue.
Arriving == {"create", "message", "unparsable", "query", "confirm", "route_bad",
             "notification", "no_node", "status", "timer", "api_create", "api_teardown",
             "api_bidding", "unknown"}

ASSUME ArrivalsAssumption == Arrivals \subseteq Arriving

\* A payload is parsed (module Codec), to a CREATE or another message; without
\* one GIST asks for routing state or just confirms.
map_api_receive_message(m) ==
    CASE m.kind = "create"     -> Event("create", m)
      [] m.kind = "message"    -> Event("msg", m)
      [] m.kind = "unparsable" -> Event("invalid_msg", m)
      [] m.kind = "query"      -> Event("routing_state_check", m)
      [] m.kind = "confirm"    -> NoEvent

map_api_network_notification(m) ==
    IF m.kind = "route_bad" THEN Event("route_changed_bad", m) ELSE NoEvent

map_api_message_status(m) ==
    IF m.kind = "no_node" THEN Event("no_next_node_found", m) ELSE NoEvent

map_api_message(m) ==
    CASE m.kind \in {"create", "message", "unparsable", "query", "confirm"}
            -> map_api_receive_message(m)
      [] m.kind \in {"route_bad", "notification"} -> map_api_network_notification(m)
      [] m.kind \in {"no_node", "status"} -> map_api_message_status(m)

Api == {"api_create", "api_teardown", "api_bidding", "api_check", "api_install", "api_remove"}

map_to_event_RemoveForgotten(m) ==
    CASE m.kind = "timer" -> Event("timer", m)
      [] m.kind \in Api \ {"api_remove"} -> Event(m.kind, m)
      [] m.kind \in {"unknown", "api_remove"} -> NoEvent
      [] OTHER -> map_api_message(m)

map_to_event(m) ==
    CASE m.kind = "timer" -> Event("timer", m)
      [] m.kind \in Api -> Event(m.kind, m)
      [] m.kind = "unknown" -> NoEvent
      [] OTHER -> map_api_message(m)

(***************************************************************************)
(* What a session does with an event, as far as the daemon sees it: the    *)
(* outcomes of the handler of each state, read off the session modules.    *)
(* An outcome is the state returned, after a call of the rule installer or *)
(* none; "abort" stands for a failed assertion or a crash, "throw" for an  *)
(* exception.  Events a handler does not expect change nothing.            *)
(***************************************************************************)
States == {"CLOSE", "PENDING_CHECK", "PENDING", "PENDING_INSTALLING", "AUCTIONING",
           "PENDING_TEARDOWN"}

Go(st) == [to |-> st, call |-> ""]

Ask(st, c) == [to |-> st, call |-> c]

Nothing == Go("CLOSE")

\* The rule's objects are removed, or it holds none.
Uninstall == {Ask("PENDING_TEARDOWN", "remove"), Go("CLOSE")}

ni_session(st, k) ==
    CASE st = "CLOSE" /\ k = "api_create" -> {Go("PENDING"), Go("CLOSE"), Go("abort")}
      [] st = "PENDING" /\ k = "timer" -> {Go(st), Go("CLOSE")}
      [] st = "PENDING" /\ k \in {"no_next_node_found", "api_teardown"} -> {Go("CLOSE")}
      [] st = "PENDING" /\ k = "msg" ->
            {Go(st), Go("CLOSE"), Ask("PENDING_INSTALLING", "put_response")}
      [] st = "PENDING_INSTALLING" /\ k = "timer" ->
            {Go(st), Ask(st, "put_response"), Go("CLOSE")}
      [] st = "PENDING_INSTALLING" /\ k = "api_teardown" -> {Go("CLOSE")}
      [] st = "PENDING_INSTALLING" /\ k = "api_install" -> {Go("AUCTIONING"), Go("CLOSE")}
      [] st = "AUCTIONING" /\ k = "timer" -> {Go(st)} \cup Uninstall
      [] st = "AUCTIONING" /\ k = "msg" ->
            {Go(st), Ask(st, "interaction"), Go("abort")} \cup Uninstall
      [] st = "AUCTIONING" /\ k \notin {"timer", "msg", "api_teardown", "api_bidding", "api_install"} ->
            {Go(st), Go("abort")}
      [] st = "PENDING_TEARDOWN" /\ k = "timer" -> {Go(st), Ask(st, "remove"), Go("CLOSE")}
      [] st = "PENDING_TEARDOWN" /\ k = "msg" -> {Go(st), Ask(st, "interaction")}
      [] st = "PENDING_TEARDOWN" /\ k = "api_remove" -> {Go("CLOSE")}
      [] OTHER -> {Go(st)}

\* When not all objects were installed, the rule holds none to be removed, except
\* those of a former life of a session that was opened again.
nr_session(st, k) ==
    CASE st = "CLOSE" /\ k = "create" ->
            {Go("AUCTIONING"), Go("CLOSE"), Go("throw")}
                \cup (IF config.install THEN {Ask("PENDING", "check")} ELSE {})
      [] st = "PENDING" /\ k = "timer" -> {Go(st), Ask(st, "check"), Go("CLOSE")}
      [] st = "PENDING" /\ k = "no_next_node_found" -> {Ask(st, "check"), Go("CLOSE")}
      [] st = "PENDING" /\ k = "api_check" -> {Ask("PENDING_INSTALLING", "create"), Go("abort")}
      [] st = "PENDING_INSTALLING" /\ k = "timer" -> {Go(st), Ask(st, "create"), Go("CLOSE")}
      [] st = "PENDING_INSTALLING" /\ k = "api_install" ->
            {Go("AUCTIONING"), Go("PENDING_TEARDOWN"), Ask("PENDING_TEARDOWN", "remove")}
      [] st = "AUCTIONING" /\ k = "timer" -> {Go(st)} \cup Uninstall
      [] st = "AUCTIONING" /\ k = "msg" -> {Go(st), Ask(st, "interaction")} \cup Uninstall
      [] st = "PENDING_TEARDOWN" /\ k = "timer" -> {Go(st), Ask(st, "remove"), Go("CLOSE")}
      [] st = "PENDING_TEARDOWN" /\ k = "api_remove" -> {Go("CLOSE")}
      [] OTHER -> {Go(st)}

\* process_state_close, for the CREATE that opens the session and for one that
\* replaces it.
process_state_close ==
    {Go("PENDING"), Go("CLOSE")}
        \cup (IF config.install THEN {Ask("PENDING_CHECK", "check")} ELSE {})

Pending == {"PENDING_CHECK", "PENDING", "PENDING_INSTALLING"}

\* handle_state_close returns nothing for an event that is no CREATE.
nf_session(st, k) ==
    CASE st = "CLOSE" /\ k = "create" -> process_state_close
      [] st = "CLOSE" /\ k # "create" -> {Go(any) : any \in States \cup {"abort"}}
      [] st \in Pending /\ k = "create" ->
            {Go(st)} \cup process_state_close
      [] st \in Pending /\ k = "timer" ->
            {Go(st), Go("CLOSE")}
      [] st \in Pending /\ k = "no_next_node_found" ->
            {Go("CLOSE")}
      [] st = "PENDING_CHECK" /\ k = "api_check" -> {Go("PENDING"), Go("abort")}
      [] st = "PENDING" /\ k = "msg" ->
            {Go(st), Go("CLOSE"), Ask("PENDING_INSTALLING", "create")}
      [] st = "PENDING_INSTALLING" /\ k = "api_install" ->
            {Go("AUCTIONING"), Go("CLOSE"), Ask("CLOSE", "remove")}
      [] st = "AUCTIONING" /\ k = "timer" -> {Go(st)} \cup Uninstall
      [] st = "AUCTIONING" /\ k = "msg" ->
            {Go(st), Ask(st, "interaction"), Go("abort")} \cup Uninstall
      [] st = "AUCTIONING" /\ k \in {"no_next_node_found", "route_changed_bad"} -> Uninstall
      [] st = "AUCTIONING" /\ k \notin {"timer", "msg", "no_next_node_found", "route_changed_bad"} ->
            {Go(st), Go("abort")}
      [] st = "PENDING_TEARDOWN" /\ k = "timer" -> {Go(st), Go("CLOSE")}
      [] st = "PENDING_TEARDOWN" /\ k = "msg" -> {Go(st), Ask(st, "interaction")}
      [] st = "PENDING_TEARDOWN" /\ k = "api_remove" -> {Go("CLOSE")}
      [] OTHER -> {Go(st)}

Reactions(x, k) ==
    CASE x.role = "ni" -> ni_session(x.state, k)
      [] x.role = "nr" -> nr_session(x.state, k)
      [] x.role = "nf" -> nf_session(x.state, k)

(***************************************************************************)
(* The rule installer.                                                     *)
(***************************************************************************)
\* The nop installer takes every call and does nothing.
Nop == installer = "nop"

\* Whether the installer puts a request into the auction process' queue.
Posts(call) ==
    /\ ~ Nop
    /\ CASE call = "check"        -> config.install
         [] call = "create"       -> config.install
         [] call = "put_response" -> config.auctioneer
         [] call = "remove"       -> config.install \/ config.auctioneer
         [] call = "interaction"  -> TRUE
         [] OTHER                 -> FALSE

\* put_response needs an auctioneer, and every request a queue that takes it.
Throws(call) ==
    /\ ~ Nop
    /\ \/ call = "put_response" /\ ~ config.auctioneer
       \/ Posts(call) /\ requests.shutdownflag

\* What is left of the handler when the installer threw: an initiator's session
\* logs a lost interaction, and the code that opens a session answers with an
\* error; nobody else catches it.
AfterThrow(x, r) ==
    CASE r.call = "interaction" /\ x.role = "ni" -> Go(r.to)
      [] r.call = "check" /\ (x.role = "nf" \/ x.state = "CLOSE") -> Go("CLOSE")
      [] OTHER -> Go("throw")

\* check and remove hand over a return queue that lives in their own frame.
ReturnQueue(t, call) == IF call \in {"check", "remove"} THEN t ELSE "null"

Request(t, call, i) == [call |-> call, session |-> i, ret |-> ReturnQueue(t, call)]

Installs == {"create", "put_response"}

(***************************************************************************)
(* Startup.                                                                *)
(***************************************************************************)
Init ==
    /\ config \in Config
    /\ daemon = "startup"
    /\ gist = "off"
    /\ input = FastQueue
    /\ arrived = 0
    /\ thread = [t \in Threads |-> "ended"]
    /\ hands = [t \in Threads |-> NoEvent]
    /\ installer = "none"
    /\ sessions = [o \in Objects |-> [role |-> "none", state |-> "CLOSE"]]
    /\ reaction = [t \in Threads |-> Nothing]
    /\ requests = FastQueue
    /\ installed = {}
    /\ lastRequest = [i \in Sids |-> "none"]
    /\ dangling = FALSE
    /\ D!Init

startup ==
    /\ daemon = "startup"
    /\ daemon' = "registering"
    /\ installer' = IF config.queue /\ (config.auctioneer \/ config.install)
                    THEN "netauct" ELSE "nop"
    /\ gist' = "starting"
    /\ UNCHANGED <<config, input, arrived, thread, hands, sessions, reaction, requests,
                   installed, lastRequest, dangling, dispatch>>

GistComesUp ==
    /\ gist = "starting"
    /\ gist' = "up"
    /\ UNCHANGED <<config, daemon, input, arrived, thread, hands, installer, sessions,
                   reaction, requests, installed, lastRequest, dangling, dispatch>>

\* The registration is repeated until GIST's queue accepts it, then the
\* threads' library starts the main loops.
Register ==
    /\ daemon = "registering" /\ gist = "up"
    /\ daemon' = "running"
    /\ thread' = [t \in Threads |-> IF t \in config.threads THEN "loop" ELSE "ended"]
    /\ UNCHANGED <<config, gist, input, arrived, hands, installer, sessions, reaction,
                   requests, installed, lastRequest, dangling, dispatch>>

InputRegistered == daemon \in {"registering", "running", "stopping", "shutdown"}

\* The ids a message may name: others know the id of an initiator's session once
\* the session exists.
Names(k) ==
    IF k = "api_create" THEN {arrived + 1}
    ELSE NetIds \cup ({sid_of[o] : o \in Objects} \ {None})

\* GIST delivers after the registration, timers and the user need the queue.
Arrive(k, i) ==
    /\ arrived < MaxMessages
    /\ InputRegistered
    /\ k # "api_create" => daemon # "registering" /\ gist = "up"
    /\ arrived' = arrived + 1
    /\ input' = enqueue(input, [kind |-> k, session |-> i])
    /\ UNCHANGED <<config, daemon, gist, thread, hands, installer, sessions, reaction,
                   requests, installed, lastRequest, dangling, dispatch>>

(***************************************************************************)
(* The main loop of thread t.                                              *)
(***************************************************************************)
\* The state is tested before the wait for a message, not after it.
NextRound == IF daemon = "running" THEN "loop" ELSE "ended"

\* Events the dispatcher answers itself.
NoSession == {"routing_state_check", "invalid_msg"}

\* What the event is to the dispatcher.
Kind(e) == IF e.kind \in {"api_create", "create"} THEN e.kind ELSE "other"

Dequeue(t) ==
    /\ input.items # <<>>
    /\ input' = dequeue(input)
    /\ LET e == map_to_event(Head(input.items))
       IN /\ hands' = [hands EXCEPT ![t] = e]
          /\ thread' = [thread EXCEPT ![t] = IF e = NoEvent THEN NextRound ELSE "event"]
          /\ IF e = NoEvent \/ e.kind \in NoSession THEN UNCHANGED dispatch
             ELSE D!Dequeue(t, Kind(e), e.session)

main_loop_Blocking(t) ==
    /\ thread[t] = "loop"
    /\ Dequeue(t)
    /\ UNCHANGED <<config, daemon, gist, arrived, installer, sessions, reaction, requests,
                   installed, lastRequest, dangling>>

\* The thread waits for a message; after 100 ms without one it tests the state.
main_loop(t) ==
    /\ thread[t] = "loop"
    /\ \/ Dequeue(t)
       \/ /\ input.items = <<>> /\ daemon # "running"
          /\ thread' = [thread EXCEPT ![t] = "ended"]
          /\ UNCHANGED <<input, hands, dispatch>>
    /\ UNCHANGED <<config, daemon, gist, arrived, installer, sessions, reaction, requests,
                   installed, lastRequest, dangling>>

EventDone_EventKept(t) ==
    /\ thread' = [thread EXCEPT ![t] = NextRound]
    /\ UNCHANGED hands

\* process returns and the event is deleted.
EventDone(t) ==
    /\ thread' = [thread EXCEPT ![t] = NextRound]
    /\ hands' = [hands EXCEPT ![t] = NoEvent]

process_NoSession(t) ==
    /\ thread[t] = "event"
    /\ hands[t].kind \in NoSession
    /\ EventDone(t)
    /\ UNCHANGED <<config, daemon, gist, input, arrived, installer, sessions, reaction,
                   requests, installed, lastRequest, dangling, dispatch>>

\* A step of the dispatcher after which process may return.
Returning(t) ==
    /\ IF pc'[t] = "idle" THEN EventDone(t) ELSE UNCHANGED <<thread, hands>>
    /\ UNCHANGED <<config, daemon, gist, input, arrived, installer, sessions, reaction,
                   requests, installed, lastRequest, dangling>>

get_session(t) == D!Lookup(t) /\ Returning(t)

\* A CREATE opens a receiver's session on the node it is for, and at the edge,
\* and a forwarder's elsewhere.
Roles(k) == IF k = "api_create" THEN {"ni"} ELSE {"nr", "nf"}

create_session(t) ==
    \E o \in Objects, r \in Roles(event[t]) :
        /\ \A p \in Objects : p < o => sid_of[p] # None
        /\ D!Create(t, o, hands[t].session)
        /\ sessions' = [sessions EXCEPT ![o] = [role |-> r, state |-> "CLOSE"]]
        /\ UNCHANGED <<config, daemon, gist, input, arrived, thread, hands, installer,
                       reaction, requests, installed, lastRequest, dangling>>

\* The session's lock is taken, and the handler decides what to do.
process_event(t) ==
    LET o == s[t]
        i == sid_of[o]
    IN /\ D!Acquire(t)
       /\ \E r \in Reactions(sessions[o], hands[t].kind) :
            /\ reaction' = [reaction EXCEPT ![t] = r]
            /\ lastRequest' = IF r.call \in Installs \cup {"remove"} /\ Posts(r.call)
                              THEN [lastRequest EXCEPT ![i] = r.call] ELSE lastRequest
            /\ daemon' = IF r.to = "abort" THEN "aborted" ELSE daemon
       /\ UNCHANGED <<config, gist, input, arrived, thread, hands, installer, sessions,
                      requests, installed, dangling>>

\* The handler calls the rule installer.
call_installer(t) ==
    LET r == reaction[t]
    IN /\ pc[t] = "process"
       /\ r.call # ""
       /\ reaction' = [reaction EXCEPT ![t] =
                          IF Throws(r.call) THEN AfterThrow(sessions[s[t]], r) ELSE Go(r.to)]
       /\ requests' = IF Posts(r.call)
                      THEN enqueue(requests, Request(t, r.call, sid_of[s[t]])) ELSE requests
       /\ UNCHANGED <<config, daemon, gist, input, arrived, thread, hands, installer,
                      sessions, installed, lastRequest, dangling, dispatch>>

\* The handler returns the new state.  The installer's frame is gone, and with it
\* the return queue a request still points to.
set_state(t) ==
    LET st == reaction[t].to
    IN /\ reaction[t].call = ""
       /\ st \in States
       /\ D!Process(t, st = "CLOSE")
       /\ sessions' = [sessions EXCEPT ![s[t]].state = st]
       /\ reaction' = [reaction EXCEPT ![t] = Nothing]
       /\ requests' = [requests EXCEPT !.items =
            [n \in DOMAIN @ |-> IF @[n].ret = t THEN [@[n] EXCEPT !.ret = "dead"] ELSE @[n]]]
       /\ UNCHANGED <<config, daemon, gist, input, arrived, thread, hands, installer,
                      installed, lastRequest, dangling>>

\* An exception leaves the handler, and the session's lock stays as it is.
process_event_Throws(t) ==
    /\ reaction[t] = Go("throw")
    /\ D!ProcessThrows(t)
    /\ reaction' = [reaction EXCEPT ![t] = Nothing]
    /\ UNCHANGED <<config, daemon, gist, input, arrived, thread, hands, installer,
                   sessions, requests, installed, lastRequest, dangling>>

release(t) == D!Release(t) /\ Returning(t)

is_final(t) == D!IsFinal(t) /\ Returning(t)

\* A closed session and one whose handler threw are removed.
remove_session(t) == D!Remove(t) /\ Returning(t)

(***************************************************************************)
(* The auction process.                                                    *)
(***************************************************************************)
Answer(call) ==
    CASE call = "check" -> "api_check"
      [] call \in Installs -> "api_install"
      [] call = "remove" -> "api_remove"

\* It serves a request and answers with an event in the daemon's input queue,
\* and in the request's return queue if there is one.
Serve ==
    /\ requests.items # <<>>
    /\ LET r == Head(requests.items)
       IN /\ installed' = CASE r.call \in Installs -> installed \cup {r.session}
                            [] r.call = "remove" -> installed \ {r.session}
                            [] OTHER -> installed
          /\ input' = IF r.call # "interaction" /\ InputRegistered
                      THEN enqueue(input, [kind |-> Answer(r.call), session |-> r.session])
                      ELSE input
          /\ dangling' = (dangling \/ r.ret = "dead")
    /\ requests' = dequeue(requests)
    /\ UNCHANGED <<config, daemon, gist, arrived, thread, hands, installer, sessions,
                   reaction, lastRequest, dispatch>>

\* The auction process ends and destroys its queue.
CloseRequests ==
    /\ config.queue
    /\ ~ requests.shutdownflag
    /\ requests' = cleanup(requests)
    /\ UNCHANGED <<config, daemon, gist, input, arrived, thread, hands, installer,
                   sessions, reaction, installed, lastRequest, dangling, dispatch>>

(***************************************************************************)
(* Shutdown.                                                               *)
(***************************************************************************)
\* The threads' library sets the state the main loops test.
StopProcessing ==
    /\ daemon = "running"
    /\ daemon' = "stopping"
    /\ UNCHANGED <<config, gist, input, arrived, thread, hands, installer, sessions,
                   reaction, requests, installed, lastRequest, dangling, dispatch>>

\* The library deletes the daemon object when the threads have stopped.
AllEnded == \A t \in Threads : thread[t] = "ended"

\* The first half of shutdown: remove_all removes nothing, GIST is stopped.
shutdown ==
    /\ daemon = "stopping" /\ AllEnded
    /\ daemon' = "shutdown"
    /\ gist' = "stopped"
    /\ UNCHANGED <<config, input, arrived, thread, hands, installer, sessions, reaction,
                   requests, installed, lastRequest, dangling, dispatch>>

\* The second half: the installer is deleted, the input queue unregistered.
unregister ==
    /\ daemon = "shutdown"
    /\ daemon' = "stopped"
    /\ installer' = "deleted"
    /\ UNCHANGED <<config, gist, input, arrived, thread, hands, sessions, reaction,
                   requests, installed, lastRequest, dangling, dispatch>>

Worker(t) ==
    /\ Alive
    /\ \/ main_loop(t) \/ process_NoSession(t)
       \/ get_session(t) \/ create_session(t)
       \/ process_event(t) \/ call_installer(t) \/ set_state(t) \/ process_event_Throws(t)
       \/ release(t) \/ is_final(t) \/ remove_session(t)

Startup == Alive /\ (startup \/ GistComesUp \/ Register)

Shutdown == Alive /\ (shutdown \/ unregister)

AuctionProcess == Alive /\ Serve

Outside ==
    /\ Alive
    /\ \/ \E k \in Arrivals : \E i \in Names(k) : Arrive(k, i)
       \/ CloseRequests \/ StopProcessing

Next == Startup \/ (\E t \in Threads : Worker(t)) \/ AuctionProcess \/ Outside \/ Shutdown

\* Threads are scheduled, GIST starts, the auction process serves its queue.
Fairness ==
    /\ WF_vars(Startup)
    /\ \A t \in Threads : WF_vars(Worker(t))
    /\ WF_vars(AuctionProcess)
    /\ WF_vars(Shutdown)

Spec == Init /\ [][Next]_vars /\ Fairness

(***************************************************************************)
(* Properties.                                                             *)
(***************************************************************************)
\* The types of the variables.  A thread has an event in its hands exactly while
\* it processes one, and is in the dispatcher only then.
TypeOK ==
    /\ config \in Config
    /\ daemon \in Lives
    /\ gist \in {"off", "starting", "up", "stopped"}
    /\ arrived \in 0 .. MaxMessages
    /\ thread \in [Threads -> {"loop", "event", "ended"}]
    /\ \A t \in Threads : hands[t] # NoEvent <=> thread[t] = "event"
    /\ \A t \in Threads : pc[t] # "idle" => thread[t] = "event"
    /\ installer \in {"none", "nop", "netauct", "deleted"}
    /\ sessions \in [Objects -> [role : {"none", "ni", "nr", "nf"}, state : States]]
    /\ installed \subseteq Sids
    /\ D!TypeOK

\* Only one session object was ever opened under the id.
Alone(i) == \A o, p \in Objects : sid_of[o] = i /\ sid_of[p] = i => o = p

\* Thread t has decided on a request about the objects of session id i that it
\* has not yet put into the queue.
AboutToPost(t, i) ==
    /\ pc[t] = "process" /\ sid_of[s[t]] = i
    /\ reaction[t].call \in Installs \cup {"remove"} /\ Posts(reaction[t].call)

\* What the auction process has installed is what the session wants: once all
\* requests of a session are posted and served, it has the session's objects
\* exactly if the last request that the session's handlers decided on was to
\* install.  Deciding and posting are two steps, and only the session's lock
\* keeps the threads' requests in the order of the decisions.
AuctionProcessUpToDate ==
    \A i \in Sids :
        /\ requests.items = <<>> /\ ~ requests.shutdownflag
        /\ Alone(i)
        /\ \A t \in Threads : ~ AboutToPost(t, i)
        => (i \in installed <=> lastRequest[i] \in Installs)

\* The session waits for the answer to call c.
Waits(o, c) ==
    /\ sid_of[o] # None /\ table[sid_of[o]] = o
    /\ sessions[o].state =
          CASE c = "check"   -> IF sessions[o].role = "nf" THEN "PENDING_CHECK" ELSE "PENDING"
            [] c = "install" -> "PENDING_INSTALLING"
            [] c = "remove"  -> "PENDING_TEARDOWN"

\* The answer to call c for session id i is still to come.
Underway(i, c) ==
    LET calls == IF c = "install" THEN Installs ELSE {c}
    IN \/ \E n \in DOMAIN requests.items :
             requests.items[n].session = i /\ requests.items[n].call \in calls
       \/ \E n \in DOMAIN input.items :
             input.items[n].session = i /\ input.items[n].kind \in {Answer(x) : x \in calls}

\* A session does not lose the answer to a check, an installation or a removal
\* it waits for: the request is served, the answer is mapped to an event and
\* finds the session, which leaves the state in which it waits.
AnswersReachSessions ==
    \A o \in Objects : \A c \in {"check", "install", "remove"} :
        (Waits(o, c) /\ Underway(sid_of[o], c))
        ~> (~ Waits(o, c) \/ daemon # "running" \/ requests.shutdownflag \/ ~ Alive)

\* Thread t waits for a lock that another thread did not release when its
\* handler threw.
Blocked(t) ==
    LET u == owner[s[t]]
    IN  /\ pc[t] = "acquire" /\ u \notin {None, t}
        /\ ~ (pc[u] \in {"process", "release"} /\ s[u] = s[t])

\* "A timeout makes sure the loop condition is checked regularly": a daemon told
\* to stop comes to the end of its shutdown.  No message, no session, no closed
\* queue of the auction process and no lock of a session in use holds a thread;
\* only a lock that another thread's exception left behind does, and with one
\* thread there is none.
ShutdownCompletes ==
    (daemon = "stopping")
        ~> (daemon = "stopped" \/ ~ Alive \/ \E t \in Threads : Blocked(t))

\* remove_all has removed the installed rules when the daemon has stopped and
\* the auction process has served what was asked of it; otherwise "You have to
\* remove them manually!" is logged, which needs an exception.
RulesRemovedAtShutdown ==
    daemon = "stopped" /\ requests.items = <<>> => installed = {}

\* The "fast queue where we have to put the return" exists as long as the
\* request that names it.
ReturnQueueExists == ~ dangling
=============================================================================
