--------------------------- MODULE Daemon_proofs ---------------------------
(***************************************************************************)
(* The daemon, for every number of threads, session ids and messages, for  *)
(* every configuration and every length of the list of finished sessions:  *)
(* the requests of all threads reach the auction process in the order in   *)
(* which the sessions decided on them.                                     *)
(***************************************************************************)
EXTENDS Daemon, SequenceTheorems, TLAPS

\* The dispatcher with its proofs.
DP == INSTANCE Dispatcher_proofs

-----------------------------------------------------------------------------
(* Both instances of the dispatcher are the same module. *)

LEMMA SameDispatcher ==
    /\ D!Init => DP!Init
    /\ D!Next => DP!Next
    /\ D!TypeOK <=> DP!TypeOK
    /\ D!TypeOK' <=> DP!TypeOK'
    /\ UNCHANGED dispatch => UNCHANGED DP!vars
<1>1. D!Init => DP!Init
    BY DEF D!Init, DP!Init
<1>2. D!Next => DP!Next
    BY DEF D!Next, DP!Next, D!Step, DP!Step, D!Kinds, DP!Kinds, D!At, DP!At, D!Goto, DP!Goto,
           D!Dequeue, DP!Dequeue, D!Lookup, DP!Lookup, D!NewId, DP!NewId, D!Create,
           DP!Create, D!Acquire, DP!Acquire, D!Process, DP!Process, D!ProcessThrows,
           DP!ProcessThrows, D!Release, DP!Release, D!IsFinal, DP!IsFinal,
           D!store_session_asdone, DP!store_session_asdone, D!remove_session,
           DP!remove_session, D!Remove, DP!Remove
<1>3. (D!TypeOK <=> DP!TypeOK) /\ (D!TypeOK' <=> DP!TypeOK')
    BY DEF D!TypeOK, DP!TypeOK, D!Locations, DP!Locations, D!Kinds, DP!Kinds
<1>4. UNCHANGED dispatch => UNCHANGED DP!vars
    BY DEF dispatch, DP!vars
<1> QED BY <1>1, <1>2, <1>3, <1>4

\* What the daemon's constants give the dispatcher's.
LEMMA DispatcherConstants ==
    /\ None \notin Threads /\ None \notin Sids /\ None \notin Objects
    /\ DoneSize \in Nat
BY NoneAssumption, BoundsAssumption DEF Sids, Objects

LEMMA DispatcherInit == D!Init => DP!IInv
BY SameDispatcher, DispatcherConstants, DP!IInvInit

LEMMA DispatcherStep == DP!IInv /\ (D!Next \/ UNCHANGED dispatch) => DP!IInv'
BY SameDispatcher, DispatcherConstants, DP!IInvStep

-----------------------------------------------------------------------------
(* The types of what the queues hold *)

Messages == [kind : Arriving \cup Api, session : Sids]

Events == [kind : Api \cup {"create", "msg", "invalid_msg", "routing_state_check",
                            "route_changed_bad", "no_next_node_found", "timer"},
           session : Sids]

Calls == {"check", "create", "put_response", "remove", "interaction"}

Requests == [call : Calls, session : Sids, ret : Threads \cup {"null", "dead"}]

LEMMA NoEventIsNone == NoEvent \notin Events
BY NoneAssumption DEF NoEvent, Events

\* Every message that can be in the input queue is mapped, to an event for the
\* same session id or to none.
LEMMA MapsToEvent ==
    ASSUME NEW m \in Messages
    PROVE  map_to_event(m) \in Events \cup {NoEvent}
<1> USE DEF Events, Event
<1>1. m.session \in Sids
    BY DEF Messages
<1>2. CASE m.kind \in Api \cup {"timer", "unknown"}
    BY <1>1, <1>2 DEF map_to_event, Api
<1>3. CASE m.kind \in {"create", "message", "unparsable", "query", "confirm"}
  <2>1. map_to_event(m) = map_api_receive_message(m)
    BY <1>3 DEF map_to_event, map_api_message, Api
  <2> QED BY <1>1, <1>3, <2>1 DEF map_api_receive_message
<1>4. CASE m.kind \in {"route_bad", "notification"}
  <2>1. map_to_event(m) = map_api_network_notification(m)
    BY <1>4 DEF map_to_event, map_api_message, Api
  <2> QED BY <1>1, <1>4, <2>1 DEF map_api_network_notification
<1>5. CASE m.kind \in {"no_node", "status"}
  <2>1. map_to_event(m) = map_api_message_status(m)
    BY <1>5 DEF map_to_event, map_api_message, Api
  <2> QED BY <1>1, <1>5, <2>1 DEF map_api_message_status
<1> QED BY <1>2, <1>3, <1>4, <1>5 DEF Messages, Arriving, Api

LEMMA PostedCall ==
    ASSUME NEW call, Posts(call)
    PROVE  call \in Calls
BY DEF Posts, Calls

-----------------------------------------------------------------------------
(* The inductive invariant *)

QueuesTyped ==
    /\ input \in [items : Seq(Messages), shutdownflag : BOOLEAN]
    /\ requests \in [items : Seq(Requests), shutdownflag : BOOLEAN]
    /\ hands \in [Threads -> Events \cup {NoEvent}]
    /\ DOMAIN reaction = Threads
    /\ lastRequest \in [Sids -> Calls \cup {"none"}]

\* No thread runs before the registration or in the shutdown, so that none has a
\* session while the rule installer is made or deleted.
ThreadsAway == daemon \in {"startup", "registering", "shutdown"} => AllEnded

\* An event that the dispatcher answers itself takes the thread to no session.
NoSessionIdle == \A t \in Threads : hands[t].kind \in NoSession => pc[t] = "idle"

\* Request n of the queue q installs or removes the objects of session id i.
Changes(q, n, i) == q[n].session = i /\ q[n].call \in Installs \cup {"remove"}

\* No request in the queue is about the objects of i, and the auction process has
\* them exactly if the last decision was to install them.
Settled(i) ==
    /\ \A n \in 1 .. Len(requests.items) : ~ Changes(requests.items, n, i)
    /\ i \in installed <=> lastRequest[i] \in Installs

\* Of the requests about the objects of i that are in the queue, the last is the
\* last one decided on.
Queued(i) ==
    \E n \in 1 .. Len(requests.items) :
        /\ Changes(requests.items, n, i)
        /\ requests.items[n].call = lastRequest[i]
        /\ \A j \in 1 .. Len(requests.items) : j > n => ~ Changes(requests.items, j, i)

\* A thread that has yet to post a request about i posts the last one decided on.
InOrder(i) ==
    /\ \A t \in Threads : AboutToPost(t, i) => reaction[t].call = lastRequest[i]
    /\ (\E t \in Threads : AboutToPost(t, i)) \/ Settled(i) \/ Queued(i)

RequestsInOrder ==
    ~ requests.shutdownflag => \A i \in Sids : Alone(i) => InOrder(i)

IInv ==
    /\ TypeOK
    /\ DP!IInv
    /\ QueuesTyped
    /\ ThreadsAway
    /\ NoSessionIdle
    /\ RequestsInOrder

LEMMA IInvInit == Init => IInv
<1> SUFFICES ASSUME Init PROVE IInv
    OBVIOUS
<1> USE DEF Init
<1>1. DP!IInv /\ D!TypeOK
    BY DispatcherInit, SameDispatcher DEF DP!IInv
<1>2. pc = [t \in Threads |-> "idle"]
    BY DEF D!Init
<1>3. TypeOK
    BY <1>1, <1>2, BoundsAssumption DEF TypeOK, Lives, States
<1>4. QueuesTyped
    BY DEF QueuesTyped, FastQueue
<1>5. ThreadsAway /\ NoSessionIdle
    BY <1>2 DEF ThreadsAway, AllEnded, NoSessionIdle
<1>6. RequestsInOrder
    BY <1>2 DEF RequestsInOrder, InOrder, AboutToPost, Settled, Installs, FastQueue
<1> QED BY <1>1, <1>3, <1>4, <1>5, <1>6 DEF IInv

-----------------------------------------------------------------------------
(* What the operations on the queues do *)

LEMMA EnqueueType ==
    ASSUME NEW S, NEW q \in [items : Seq(S), shutdownflag : BOOLEAN], NEW e \in S
    PROVE  enqueue(q, e) \in [items : Seq(S), shutdownflag : BOOLEAN]
BY DEF enqueue

LEMMA DequeueType ==
    ASSUME NEW S, NEW q \in [items : Seq(S), shutdownflag : BOOLEAN], q.items # <<>>
    PROVE  /\ dequeue(q) \in [items : Seq(S), shutdownflag : BOOLEAN]
           /\ dequeue(q).items = Tail(q.items)
           /\ dequeue(q).shutdownflag = q.shutdownflag
           /\ Head(q.items) \in S
BY HeadTailProperties DEF dequeue

\* A request about i that is the last one decided on is queued; any other leaves
\* what is true of i.
LEMMA EnqueueInOrder ==
    ASSUME QueuesTyped, NEW r \in Requests, ~ requests.shutdownflag,
           requests' = enqueue(requests, r), UNCHANGED <<installed, lastRequest>>,
           NEW i \in Sids,
           r.session = i /\ r.call \in Installs \cup {"remove"} => r.call = lastRequest[i]
    PROVE  /\ r.session = i /\ r.call \in Installs \cup {"remove"} => Queued(i)'
           /\ Settled(i) \/ Queued(i) => Settled(i)' \/ Queued(i)'
<1> DEFINE q == requests.items
           p == requests'.items
<1>1. q \in Seq(Requests)
    BY DEF QueuesTyped
<1>2. p = Append(q, r)
    BY DEF enqueue, QueuesTyped
<1>3. /\ Len(q) \in Nat /\ Len(p) = Len(q) + 1 /\ p[Len(p)] = r
      /\ \A n \in 1 .. Len(q) : p[n] = q[n]
    BY <1>1, <1>2, AppendProperties, LenProperties
<1>4. \A n \in 1 .. Len(q) : Changes(p, n, i) <=> Changes(q, n, i)
    BY <1>3 DEF Changes
<1>5. Changes(p, Len(p), i) <=> r.session = i /\ r.call \in Installs \cup {"remove"}
    BY <1>3 DEF Changes
<1>6. CASE r.session = i /\ r.call \in Installs \cup {"remove"}
  <2>1. p[Len(p)].call = lastRequest'[i]
    BY <1>3, <1>6
  <2>2. Len(p) \in 1 .. Len(p) /\ \A j \in 1 .. Len(p) : ~ (j > Len(p))
    BY <1>3
  <2> QED BY <1>5, <1>6, <2>1, <2>2 DEF Queued
<1>7. CASE ~ (r.session = i /\ r.call \in Installs \cup {"remove"})
  <2>1. \A n \in 1 .. Len(p) : n \notin 1 .. Len(q) => n = Len(p)
    BY <1>3
  <2>2. CASE Settled(i)
    BY <1>4, <1>5, <1>7, <2>1, <2>2 DEF Settled
  <2>3. CASE Queued(i)
    <3>1. PICK n \in 1 .. Len(q) :
             /\ Changes(q, n, i) /\ q[n].call = lastRequest[i]
             /\ \A j \in 1 .. Len(q) : j > n => ~ Changes(q, j, i)
      BY <2>3 DEF Queued
    <3>2. n \in 1 .. Len(p) /\ Changes(p, n, i) /\ p[n].call = lastRequest'[i]
      BY <1>3, <1>4, <3>1
    <3>3. \A j \in 1 .. Len(p) : j > n => ~ Changes(p, j, i)
      BY <1>4, <1>5, <1>7, <2>1, <3>1
    <3> QED BY <1>7, <3>2, <3>3 DEF Queued
  <2> QED BY <1>7, <2>2, <2>3
<1> QED BY <1>6, <1>7

\* Serving the first request, with its effect on what is installed.
LEMMA ServeInOrder ==
    ASSUME QueuesTyped, requests.items # <<>>, requests' = dequeue(requests),
           UNCHANGED lastRequest,
           LET r == Head(requests.items)
           IN  installed' = CASE r.call \in Installs -> installed \cup {r.session}
                              [] r.call = "remove" -> installed \ {r.session}
                              [] OTHER -> installed,
           NEW i \in Sids, Settled(i) \/ Queued(i)
    PROVE  Settled(i)' \/ Queued(i)'
<1> DEFINE q == requests.items
           p == requests'.items
<1>1. q \in Seq(Requests) /\ p = Tail(q)
    BY DequeueType DEF QueuesTyped
<1>2. Head(q) = q[1] /\ Len(q) \in Nat \ {0}
    BY <1>1, EmptySeq
<1>3. /\ Len(p) = Len(q) - 1
      /\ \A n \in 1 .. Len(p) : p[n] = q[n + 1]
    BY <1>1, HeadTailProperties
<1>4. \A n \in 1 .. Len(p) : Changes(p, n, i) <=> Changes(q, n + 1, i)
    BY <1>3 DEF Changes
<1>5. ~ Changes(q, 1, i) => (i \in installed' <=> i \in installed)
    BY <1>2 DEF Changes, Installs
<1>6. CASE Settled(i)
  <2>1. ~ Changes(q, 1, i)
    BY <1>2, <1>6 DEF Settled
  <2>2. \A n \in 1 .. Len(p) : ~ Changes(p, n, i)
    BY <1>2, <1>3, <1>4, <1>6 DEF Settled
  <2> QED BY <1>5, <1>6, <2>1, <2>2 DEF Settled
<1>7. CASE Queued(i)
  <2>1. PICK n \in 1 .. Len(q) :
           /\ Changes(q, n, i) /\ q[n].call = lastRequest[i]
           /\ \A j \in 1 .. Len(q) : j > n => ~ Changes(q, j, i)
    BY <1>7 DEF Queued
  <2>2. CASE n = 1
    <3>1. ASSUME NEW j \in 1 .. Len(p) PROVE ~ Changes(p, j, i)
      <4>1. j + 1 \in 1 .. Len(q) /\ j + 1 > n
        BY <1>2, <1>3, <2>2
      <4> QED BY <1>4, <2>1, <4>1
    <3>2. i \in installed' <=> lastRequest[i] \in Installs
      BY <1>2, <2>1, <2>2 DEF Changes, Installs
    <3> QED BY <3>1, <3>2 DEF Settled
  <2>3. CASE n > 1
    <3>1. n - 1 \in 1 .. Len(p) /\ (n - 1) + 1 = n
      BY <1>2, <1>3, <2>3
    <3>2. Changes(p, n - 1, i) /\ p[n - 1].call = lastRequest[i]
      BY <1>3, <1>4, <2>1, <3>1
    <3>3. ASSUME NEW j \in 1 .. Len(p), j > n - 1 PROVE ~ Changes(p, j, i)
      <4>1. j + 1 \in 1 .. Len(q) /\ j + 1 > n
        BY <1>2, <1>3, <3>3
      <4> QED BY <1>4, <2>1, <4>1
    <3> QED BY <3>1, <3>2, <3>3 DEF Queued
  <2> QED BY <1>2, <2>2, <2>3
<1> QED BY <1>6, <1>7

\* The same calls about the same sessions in the queue.
SameCalls ==
    /\ requests'.shutdownflag = requests.shutdownflag
    /\ Len(requests'.items) = Len(requests.items)
    /\ \A n \in 1 .. Len(requests.items) :
          /\ requests'.items[n].call = requests.items[n].call
          /\ requests'.items[n].session = requests.items[n].session

LEMMA SameInOrder ==
    ASSUME SameCalls, UNCHANGED installed, NEW i \in Sids, lastRequest'[i] = lastRequest[i],
           Settled(i) \/ Queued(i)
    PROVE  Settled(i)' \/ Queued(i)'
<1>1. CASE Settled(i)
    BY <1>1 DEF SameCalls, Settled, Changes
<1>2. CASE Queued(i)
    BY <1>2 DEF SameCalls, Queued, Changes
<1> QED BY <1>1, <1>2

-----------------------------------------------------------------------------
(* Who is about to post *)

\* Nothing that AboutToPost and Alone speak of changes.
SamePosters ==
    /\ \A i \in Sids : Alone(i)' => Alone(i)
    /\ \A i \in Sids : \A t \in Threads :
          /\ AboutToPost(t, i)' <=> AboutToPost(t, i)
          /\ AboutToPost(t, i) => reaction'[t].call = reaction[t].call

LEMMA QuietStep ==
    ASSUME IInv, SamePosters, SameCalls, UNCHANGED <<installed, lastRequest>>
    PROVE  RequestsInOrder'
<1> SUFFICES ASSUME ~ requests.shutdownflag, NEW i \in Sids, Alone(i)
             PROVE  InOrder(i)'
    BY DEF RequestsInOrder, SameCalls, SamePosters
<1>1. InOrder(i)
    BY DEF IInv, RequestsInOrder
<1>2. \A t \in Threads : AboutToPost(t, i)' => reaction'[t].call = lastRequest'[i]
    BY <1>1 DEF InOrder, SamePosters
<1>3. (\E t \in Threads : AboutToPost(t, i)') \/ Settled(i)' \/ Queued(i)'
    BY <1>1, SameInOrder DEF InOrder, SamePosters
<1> QED BY <1>2, <1>3 DEF InOrder

\* A step that leaves the dispatcher alone while the installer stays as it is.
LEMMA OutsidePosters ==
    ASSUME UNCHANGED <<config, installer, reaction, dispatch>>
    PROVE  SamePosters
BY DEF SamePosters, Alone, AboutToPost, Posts, Nop, dispatch

\* While no thread is at a session the installer may change.
LEMMA AwayPosters ==
    ASSUME IInv, AllEnded, UNCHANGED <<reaction, dispatch>>
    PROVE  SamePosters
<1>1. \A t \in Threads : pc[t] = "idle"
    BY DEF IInv, TypeOK, AllEnded
<1> QED BY <1>1 DEF SamePosters, Alone, AboutToPost, dispatch

\* A step of thread t in the dispatcher, outside the session's state machine.
LEMMA DispatcherPosters ==
    ASSUME IInv, NEW t \in Threads, pc[t] # "process", pc'[t] # "process",
           \A u \in Threads \ {t} : pc'[u] = pc[u] /\ s'[u] = s[u],
           \A o \in Objects : sid_of[o] # None => sid_of'[o] = sid_of[o],
           UNCHANGED <<config, installer, reaction>>
    PROVE  SamePosters
<1>1. \A i \in Sids : i # None
    BY NoneAssumption
<1>2. ASSUME NEW i \in Sids, Alone(i)' PROVE Alone(i)
    BY <1>1, <1>2 DEF Alone
<1>3. ASSUME NEW i \in Sids, NEW u \in Threads
      PROVE  AboutToPost(u, i)' <=> AboutToPost(u, i)
  <2>1. CASE u = t
    BY <2>1 DEF AboutToPost
  <2>2. CASE u # t
    <3>1. pc[u] = "process" => s[u] \in Objects /\ sid_of[s[u]] \in Sids
      BY DEF IInv, DP!IInv, DP!ThreadsReady, DP!Working
    <3>2. pc[u] = "process" => sid_of'[s'[u]] = sid_of[s[u]]
      BY <1>1, <2>2, <3>1
    <3> QED BY <2>2, <3>2 DEF AboutToPost, Posts, Nop
  <2> QED BY <2>1, <2>2
<1> QED BY <1>2, <1>3 DEF SamePosters

-----------------------------------------------------------------------------
(* One step per action *)

\* What a step that leaves the dispatcher alone keeps of it.
LEMMA SameDispatch ==
    ASSUME IInv, UNCHANGED dispatch
    PROVE  DP!IInv' /\ D!TypeOK' /\ pc' = pc
BY DispatcherStep, SameDispatcher DEF IInv, DP!IInv, dispatch

LEMMA SameQueue ==
    ASSUME UNCHANGED requests
    PROVE  SameCalls
BY DEF SameCalls

LEMMA LifeStep ==
    ASSUME IInv, \/ startup \/ GistComesUp \/ Register \/ StopProcessing
                 \/ shutdown \/ unregister
    PROVE  IInv'
<1>1. UNCHANGED <<config, input, arrived, hands, sessions, reaction, requests, installed,
                  lastRequest, dispatch>>
    BY DEF startup, GistComesUp, Register, StopProcessing, shutdown, unregister
<1>2. SamePosters
  <2>1. CASE startup \/ unregister
    BY <1>1, <2>1, AwayPosters DEF startup, unregister, IInv, ThreadsAway
  <2>2. CASE GistComesUp \/ Register \/ StopProcessing \/ shutdown
    BY <1>1, <2>2, OutsidePosters DEF GistComesUp, Register, StopProcessing, shutdown
  <2> QED BY <2>1, <2>2
<1>3. RequestsInOrder'
    BY <1>1, <1>2, SameQueue, QuietStep
<1>4. DP!IInv' /\ D!TypeOK' /\ pc' = pc
    BY <1>1, SameDispatch
<1>5. QueuesTyped' /\ NoSessionIdle'
    BY <1>1, <1>4 DEF IInv, QueuesTyped, NoSessionIdle
<1>6. CASE Register
  <2>1. \A t \in Threads : thread[t] = "ended" /\ hands[t] = NoEvent /\ pc[t] = "idle"
    BY <1>6 DEF Register, IInv, ThreadsAway, AllEnded, TypeOK
  <2> QED
    BY <1>1, <1>3, <1>4, <1>5, <1>6, <2>1 DEF Register, IInv, TypeOK, ThreadsAway, Lives
<1>7. CASE startup \/ GistComesUp \/ StopProcessing \/ shutdown \/ unregister
  <2>1. TypeOK'
    BY <1>1, <1>4, <1>7
       DEF startup, GistComesUp, StopProcessing, shutdown, unregister, IInv, TypeOK, Lives
  <2>2. ThreadsAway'
    BY <1>7
       DEF startup, GistComesUp, StopProcessing, shutdown, unregister, IInv, ThreadsAway,
           AllEnded
  <2> QED BY <1>3, <1>4, <1>5, <2>1, <2>2 DEF IInv
<1> QED BY <1>6, <1>7

LEMMA ArriveStep ==
    ASSUME IInv, NEW k \in Arrivals, NEW i \in Names(k), Arrive(k, i)
    PROVE  IInv'
<1>1. i \in Sids
  <2>1. CASE k = "api_create"
    <3>1. i = arrived + 1 /\ arrived \in Nat /\ arrived < MaxMessages
      BY <2>1, BoundsAssumption DEF Names, Arrive, IInv, TypeOK
    <3> QED BY <3>1, BoundsAssumption DEF Sids
  <2>2. CASE k # "api_create"
    <3>1. sid_of \in [Objects -> Sids \cup {None}]
      BY DEF IInv, DP!IInv, DP!TypeOK
    <3> QED BY <2>2, <3>1 DEF Names, Sids
  <2> QED BY <2>1, <2>2
<1>2. [kind |-> k, session |-> i] \in Messages
    BY <1>1, ArrivalsAssumption DEF Messages
<1>3. input' \in [items : Seq(Messages), shutdownflag : BOOLEAN]
    BY <1>2, EnqueueType DEF Arrive, IInv, QueuesTyped
<1>4. arrived' \in 0 .. MaxMessages
    BY BoundsAssumption DEF Arrive, IInv, TypeOK
<1>5. RequestsInOrder'
    BY OutsidePosters, SameQueue, QuietStep DEF Arrive
<1>6. DP!IInv' /\ D!TypeOK' /\ pc' = pc
    BY SameDispatch DEF Arrive
<1> QED
    BY <1>3, <1>4, <1>5, <1>6
       DEF Arrive, IInv, TypeOK, QueuesTyped, ThreadsAway, NoSessionIdle, AllEnded

LEMMA ServeStep ==
    ASSUME IInv, Serve
    PROVE  IInv'
<1> DEFINE r == Head(requests.items)
<1>1. r \in Requests /\ requests' \in [items : Seq(Requests), shutdownflag : BOOLEAN]
    BY DequeueType DEF Serve, IInv, QueuesTyped
<1>2. r.session \in Sids /\ r.call \in Calls
    BY <1>1 DEF Requests
<1>3. installed' = CASE r.call \in Installs -> installed \cup {r.session}
                     [] r.call = "remove" -> installed \ {r.session}
                     [] OTHER -> installed
    BY Zenon DEF Serve
<1>4. installed' \subseteq Sids
    BY <1>2, <1>3 DEF IInv, TypeOK
<1>5. r.call # "interaction" => [kind |-> Answer(r.call), session |-> r.session] \in Messages
    BY <1>2 DEF Answer, Messages, Calls, Installs, Api
<1>6. input' \in [items : Seq(Messages), shutdownflag : BOOLEAN]
    BY <1>5, EnqueueType DEF Serve, IInv, QueuesTyped
<1>7. RequestsInOrder'
  <2>1. SamePosters
    BY OutsidePosters DEF Serve
  <2>2. requests'.shutdownflag = requests.shutdownflag
    BY DequeueType DEF Serve, IInv, QueuesTyped
  <2> SUFFICES ASSUME ~ requests.shutdownflag, NEW i \in Sids, Alone(i)
               PROVE  InOrder(i)'
    BY <2>1, <2>2 DEF RequestsInOrder, SamePosters
  <2>3. InOrder(i)
    BY DEF IInv, RequestsInOrder
  <2>4. Settled(i) \/ Queued(i) => Settled(i)' \/ Queued(i)'
    BY <1>3, ServeInOrder DEF Serve, IInv
  <2>5. \A t \in Threads : AboutToPost(t, i)' => reaction'[t].call = lastRequest'[i]
    BY <2>1, <2>3 DEF Serve, InOrder, SamePosters
  <2> QED BY <2>1, <2>3, <2>4, <2>5 DEF InOrder, SamePosters
<1>8. DP!IInv' /\ D!TypeOK' /\ pc' = pc
    BY SameDispatch DEF Serve
<1> QED
    BY <1>1, <1>4, <1>6, <1>7, <1>8
       DEF Serve, IInv, TypeOK, QueuesTyped, ThreadsAway, NoSessionIdle, AllEnded

LEMMA CloseStep ==
    ASSUME IInv, CloseRequests
    PROVE  IInv'
<1>1. requests' \in [items : Seq(Requests), shutdownflag : BOOLEAN] /\ requests'.shutdownflag
    BY DEF CloseRequests, cleanup
<1>2. DP!IInv' /\ D!TypeOK' /\ pc' = pc
    BY SameDispatch DEF CloseRequests
<1> QED
    BY <1>1, <1>2
       DEF CloseRequests, IInv, TypeOK, QueuesTyped, ThreadsAway, NoSessionIdle, AllEnded,
           RequestsInOrder

-----------------------------------------------------------------------------
(* The steps of the threads *)

\* A thread at work: the daemon is running or stopping.
LEMMA AtWork ==
    ASSUME IInv, NEW t \in Threads, thread[t] # "ended", daemon' \in {daemon, "aborted"}
    PROVE  ThreadsAway'
BY DEF IInv, ThreadsAway, AllEnded

\* A step of the dispatcher keeps what is proved of it.
LEMMA DispatcherKept ==
    ASSUME IInv, D!Next
    PROVE  DP!IInv' /\ D!TypeOK'
BY DispatcherStep, SameDispatcher DEF IInv, DP!IInv

\* The thread is done with its event.
LEMMA EventDoneType ==
    ASSUME IInv, NEW t \in Threads, EventDone(t)
    PROVE  /\ thread' \in [Threads -> {"loop", "event", "ended"}]
           /\ hands' \in [Threads -> Events \cup {NoEvent}]
           /\ \A u \in Threads : hands'[u] # NoEvent <=> thread'[u] = "event"
           /\ \A u \in Threads \ {t} : thread'[u] = thread[u] /\ hands'[u] = hands[u]
           /\ hands'[t] = NoEvent
BY DEF EventDone, IInv, TypeOK, QueuesTyped, NextRound

LEMMA NoEventKind == NoEvent.kind \notin NoSession
BY DEF NoEvent, NoSession

LEMMA DequeueStep ==
    ASSUME IInv, NEW t \in Threads, thread[t] = "loop", Dequeue(t),
           UNCHANGED <<config, daemon, gist, arrived, installer, sessions, reaction, requests,
                       installed, lastRequest>>
    PROVE  IInv'
<1> DEFINE e == map_to_event(Head(input.items))
<1>1. /\ input' \in [items : Seq(Messages), shutdownflag : BOOLEAN]
      /\ Head(input.items) \in Messages
    BY DequeueType DEF Dequeue, IInv, QueuesTyped
<1>2. e \in Events \cup {NoEvent}
    BY <1>1, MapsToEvent
<1>3. /\ hands' = [hands EXCEPT ![t] = e]
      /\ thread' = [thread EXCEPT ![t] = IF e = NoEvent THEN NextRound ELSE "event"]
      /\ IF e = NoEvent \/ e.kind \in NoSession THEN UNCHANGED dispatch
         ELSE D!Dequeue(t, Kind(e), e.session)
    BY DEF Dequeue
<1> HIDE DEF e
<1>4. pc[t] = "idle" /\ pc \in [Threads -> D!Locations]
    BY DEF IInv, TypeOK, D!TypeOK
<1>5. /\ hands' \in [Threads -> Events \cup {NoEvent}]
      /\ thread' \in [Threads -> {"loop", "event", "ended"}]
      /\ \A u \in Threads : hands'[u] # NoEvent <=> thread'[u] = "event"
    BY <1>2, <1>3 DEF NextRound, IInv, QueuesTyped, TypeOK
<1>6. /\ DP!IInv' /\ D!TypeOK' /\ SamePosters
      /\ \A u \in Threads : pc'[u] # "idle" => thread'[u] = "event"
      /\ NoSessionIdle'
  <2>1. CASE e = NoEvent \/ e.kind \in NoSession
    <3>1. UNCHANGED dispatch /\ pc' = pc
      BY <1>3, <2>1 DEF dispatch
    <3>2. DP!IInv' /\ D!TypeOK' /\ SamePosters
      BY <3>1, SameDispatch, OutsidePosters
    <3> QED BY <1>3, <1>4, <3>1, <3>2 DEF IInv, TypeOK, NoSessionIdle, QueuesTyped
  <2>2. CASE ~ (e = NoEvent \/ e.kind \in NoSession)
    <3>1. e \in Events /\ D!Dequeue(t, Kind(e), e.session)
      BY <1>2, <1>3, <2>2
    <3>2. Kind(e) \in D!Kinds /\ e.session \in Sids
      BY <3>1 DEF Kind, D!Kinds, Events
    <3>3. D!Next
      BY <3>1, <3>2 DEF D!Next
    <3>4. /\ \E l \in {"create", "lookup"} : pc' = [pc EXCEPT ![t] = l]
          /\ UNCHANGED <<s, sid_of>>
      BY <3>1 DEF D!Dequeue, D!Goto
    <3>5. SamePosters
      BY <1>4, <3>4, DispatcherPosters
    <3> QED
      BY <1>3, <1>4, <2>2, <3>3, <3>4, <3>5, DispatcherKept
         DEF IInv, TypeOK, NoSessionIdle, QueuesTyped
  <2> QED BY <2>1, <2>2
<1>7. RequestsInOrder'
    BY <1>6, SameQueue, QuietStep
<1>8. ThreadsAway'
    BY AtWork
<1> QED
    BY <1>1, <1>5, <1>6, <1>7, <1>8 DEF IInv, TypeOK, QueuesTyped

LEMMA MainLoopStep ==
    ASSUME IInv, NEW t \in Threads, main_loop(t)
    PROVE  IInv'
<1>1. CASE Dequeue(t)
    BY <1>1, DequeueStep DEF main_loop
<1>2. CASE thread' = [thread EXCEPT ![t] = "ended"] /\ UNCHANGED <<input, hands, dispatch>>
  <2>1. RequestsInOrder'
    BY <1>2, OutsidePosters, SameQueue, QuietStep DEF main_loop
  <2>2. DP!IInv' /\ D!TypeOK' /\ pc' = pc
    BY <1>2, SameDispatch
  <2>3. ThreadsAway'
    BY AtWork DEF main_loop
  <2> QED
    BY <1>2, <2>1, <2>2, <2>3 DEF main_loop, IInv, TypeOK, QueuesTyped, NoSessionIdle
<1> QED BY <1>1, <1>2 DEF main_loop

LEMMA NoSessionStep ==
    ASSUME IInv, NEW t \in Threads, process_NoSession(t)
    PROVE  IInv'
<1>1. /\ UNCHANGED <<config, daemon, gist, input, arrived, installer, sessions, reaction,
                     requests, installed, lastRequest, dispatch>>
      /\ thread[t] # "ended" /\ EventDone(t) /\ pc[t] = "idle"
    BY DEF process_NoSession, IInv, NoSessionIdle
<1>2. RequestsInOrder' /\ ThreadsAway'
    BY <1>1, OutsidePosters, SameQueue, QuietStep, AtWork
<1>3. DP!IInv' /\ D!TypeOK' /\ pc' = pc
    BY <1>1, SameDispatch
<1>4. /\ thread' \in [Threads -> {"loop", "event", "ended"}]
      /\ hands' \in [Threads -> Events \cup {NoEvent}]
      /\ \A u \in Threads : hands'[u] # NoEvent <=> thread'[u] = "event"
      /\ \A u \in Threads \ {t} : thread'[u] = thread[u] /\ hands'[u] = hands[u]
      /\ hands'[t] = NoEvent
    BY <1>1, EventDoneType
<1>5. NoSessionIdle' /\ \A u \in Threads : pc'[u] # "idle" => thread'[u] = "event"
    BY <1>1, <1>3, <1>4, NoEventKind DEF IInv, TypeOK, NoSessionIdle
<1> QED
    BY <1>1, <1>2, <1>3, <1>4, <1>5 DEF IInv, TypeOK, QueuesTyped

\* A thread that is in the dispatcher has an event about a session.
LEMMA InDispatcher ==
    ASSUME IInv, NEW t \in Threads, pc[t] # "idle"
    PROVE  /\ thread[t] = "event"
           /\ hands[t] \in Events /\ hands[t].session \in Sids
           /\ hands[t].kind \notin NoSession
<1>1. thread[t] = "event" /\ hands[t] \in Events
    BY DEF IInv, TypeOK, QueuesTyped
<1>2. hands[t].kind \notin NoSession
    BY DEF IInv, NoSessionIdle
<1> QED BY <1>1, <1>2 DEF Events

\* Steps outside the state machine, after which the thread may be done.
LEMMA ReturningStep ==
    ASSUME IInv, NEW t \in Threads, D!Next, Returning(t),
           pc[t] \notin {"idle", "process"},
           NEW l \in D!Locations \ {"process"}, pc' = [pc EXCEPT ![t] = l],
           \A u \in Threads \ {t} : s'[u] = s[u], UNCHANGED sid_of
    PROVE  IInv'
<1>1. pc \in [Threads -> D!Locations]
    BY DEF IInv, TypeOK, D!TypeOK
<1>2. pc'[t] = l /\ \A u \in Threads \ {t} : pc'[u] = pc[u]
    BY <1>1
<1>3. UNCHANGED <<config, daemon, gist, input, arrived, installer, sessions, reaction,
                  requests, installed, lastRequest>>
    BY DEF Returning
<1>4. SamePosters
    BY <1>2, <1>3, DispatcherPosters
<1>5. RequestsInOrder'
    BY <1>3, <1>4, SameQueue, QuietStep
<1>6. DP!IInv' /\ D!TypeOK'
    BY DispatcherKept
<1>7. thread[t] = "event" /\ hands[t].kind \notin NoSession
    BY InDispatcher
<1>8. ThreadsAway'
    BY <1>3, <1>7, AtWork
<1>9. CASE l = "idle"
  <2>1. EventDone(t)
    BY <1>2, <1>9 DEF Returning
  <2> QED
    BY <1>2, <1>3, <1>5, <1>6, <1>8, <1>9, <2>1, EventDoneType, NoEventKind
       DEF IInv, TypeOK, QueuesTyped, NoSessionIdle
<1>10. CASE l # "idle"
  <2>1. UNCHANGED <<thread, hands>>
    BY <1>2, <1>10 DEF Returning
  <2> QED
    BY <1>2, <1>3, <1>5, <1>6, <1>7, <1>8, <1>10, <2>1
       DEF IInv, TypeOK, QueuesTyped, NoSessionIdle
<1> QED BY <1>9, <1>10

LEMMA ReturningSteps ==
    ASSUME IInv, NEW t \in Threads,
           get_session(t) \/ release(t) \/ is_final(t) \/ remove_session(t)
    PROVE  IInv'
<1> USE DEF D!At, D!Goto, D!Locations
<1>0. (D!Lookup(t) \/ D!Release(t) \/ D!IsFinal(t) \/ D!Remove(t) => D!Next) /\ Returning(t)
    BY DEF get_session, release, is_final, remove_session, D!Next, D!Step
<1>1. CASE get_session(t)
  <2>1. PICK l \in {"acquire", "create", "idle"} : pc' = [pc EXCEPT ![t] = l]
    BY <1>1 DEF get_session, D!Lookup
  <2>2. /\ pc[t] = "lookup" /\ UNCHANGED sid_of /\ D!Lookup(t)
        /\ \A u \in Threads \ {t} : s'[u] = s[u]
    BY <1>1 DEF get_session, D!Lookup, IInv, TypeOK, D!TypeOK
  <2> QED BY <1>0, <2>1, <2>2, ReturningStep
<1>2. CASE release(t)
  <2>1. /\ pc' = [pc EXCEPT ![t] = "is_final"]
        /\ pc[t] = "release" /\ UNCHANGED <<s, sid_of>> /\ D!Release(t)
    BY <1>2 DEF release, D!Release
  <2> QED BY <1>0, <2>1, ReturningStep
<1>3. CASE is_final(t)
  <2>1. PICK l \in {"remove", "idle"} : pc' = [pc EXCEPT ![t] = l]
    BY <1>3 DEF is_final, D!IsFinal
  <2>2. pc[t] = "is_final" /\ UNCHANGED <<s, sid_of>> /\ D!IsFinal(t)
    BY <1>3 DEF is_final, D!IsFinal
  <2> QED BY <1>0, <2>1, <2>2, ReturningStep
<1>4. CASE remove_session(t)
  <2>1. /\ pc' = [pc EXCEPT ![t] = "idle"]
        /\ pc[t] \in {"remove", "abort"} /\ UNCHANGED <<s, sid_of>> /\ D!Remove(t)
    BY <1>4 DEF remove_session, D!Remove
  <2> QED BY <1>0, <2>1, ReturningStep
<1> QED BY <1>1, <1>2, <1>3, <1>4

LEMMA CreateSessionStep ==
    ASSUME IInv, NEW t \in Threads, create_session(t)
    PROVE  IInv'
<1>1. PICK o \in Objects, r \in Roles(event[t]) :
         /\ D!Create(t, o, hands[t].session)
         /\ sessions' = [sessions EXCEPT ![o] = [role |-> r, state |-> "CLOSE"]]
    BY DEF create_session
<1>2. UNCHANGED <<config, daemon, gist, input, arrived, thread, hands, installer, reaction,
                  requests, installed, lastRequest>>
    BY DEF create_session
<1>3. /\ pc[t] = "create" /\ pc' = [pc EXCEPT ![t] = "acquire"]
      /\ s' = [s EXCEPT ![t] = o]
      /\ sid_of[o] = None /\ sid_of' = [sid_of EXCEPT ![o] = hands[t].session]
    BY <1>1 DEF D!Create, D!At, D!Goto
<1>4. /\ pc \in [Threads -> D!Locations] /\ s \in [Threads -> Objects \cup {None}]
      /\ sid_of \in [Objects -> Sids \cup {None}]
    BY DEF IInv, TypeOK, D!TypeOK
<1>5. thread[t] = "event" /\ hands[t].session \in Sids /\ hands[t].kind \notin NoSession
    BY <1>3, InDispatcher
<1>6. D!Next
    BY <1>1, <1>5 DEF D!Next, D!Step
<1>7. DP!IInv' /\ D!TypeOK'
    BY <1>6, DispatcherKept
<1>8. SamePosters
    BY <1>2, <1>3, <1>4, DispatcherPosters
<1>9. RequestsInOrder' /\ ThreadsAway'
    BY <1>2, <1>5, <1>8, SameQueue, QuietStep, AtWork
<1>10. sessions' \in [Objects -> [role : {"none", "ni", "nr", "nf"}, state : States]]
    BY <1>1 DEF Roles, States, IInv, TypeOK
<1>11. NoSessionIdle' /\ \A u \in Threads : pc'[u] # "idle" => thread'[u] = "event"
    BY <1>2, <1>3, <1>4, <1>5 DEF IInv, TypeOK, NoSessionIdle
<1> QED
    BY <1>2, <1>7, <1>9, <1>10, <1>11 DEF IInv, TypeOK, QueuesTyped

\* Where the lock is needed: the thread that enters the state machine of the only
\* session of an id finds no other that has yet to post a request about it.
LEMMA NobodyElsePosts ==
    ASSUME IInv, NEW t \in Threads, NEW u \in Threads, NEW i \in Sids, Alone(i),
           pc[t] = "acquire", owner[s[t]] = None, sid_of[s[t]] = i, AboutToPost(u, i)
    PROVE  FALSE
<1>1. s[t] \in Objects /\ s[u] \in Objects /\ pc[u] = "process" /\ sid_of[s[u]] = i
    BY DEF IInv, DP!IInv, DP!ThreadsReady, DP!Working, AboutToPost
<1>2. s[u] = s[t]
    BY <1>1 DEF Alone
<1>3. owner[s[u]] = u
    BY <1>1 DEF IInv, DP!IInv, DP!LockHeld
<1> QED BY <1>2, <1>3, NoneAssumption

LEMMA ProcessEventStep ==
    ASSUME IInv, NEW t \in Threads, process_event(t)
    PROVE  IInv'
<1> DEFINE k == sid_of[s[t]]
           Decides(r) == r.call \in Installs \cup {"remove"} /\ Posts(r.call)
<1>1. PICK r \in Reactions(sessions[s[t]], hands[t].kind) :
         /\ reaction' = [reaction EXCEPT ![t] = r]
         /\ lastRequest' = IF Decides(r) THEN [lastRequest EXCEPT ![k] = r.call]
                           ELSE lastRequest
         /\ daemon' = IF r.to = "abort" THEN "aborted" ELSE daemon
    BY DEF process_event
<1>2. /\ UNCHANGED <<config, gist, input, arrived, thread, hands, installer, sessions,
                     requests, installed>>
      /\ D!Acquire(t)
    BY DEF process_event
<1>3. /\ pc[t] = "acquire" /\ pc' = [pc EXCEPT ![t] = "process"]
      /\ owner[s[t]] = None /\ UNCHANGED <<s, sid_of>>
    BY <1>2 DEF D!Acquire, D!At, D!Goto
<1>4. pc \in [Threads -> D!Locations] /\ DOMAIN reaction = Threads
    BY DEF IInv, TypeOK, D!TypeOK, QueuesTyped
<1>5. k \in Sids
    BY <1>3 DEF IInv, DP!IInv, DP!ThreadsReady, DP!Working
<1>6. DP!IInv' /\ D!TypeOK'
    BY <1>2, DispatcherKept DEF D!Next, D!Step
<1>7. thread[t] = "event" /\ hands[t].kind \notin NoSession
    BY <1>3, InDispatcher
<1>8. ThreadsAway' /\ daemon' \in Lives
    BY <1>1, <1>7, AtWork DEF IInv, TypeOK, Lives
<1>9. NoSessionIdle' /\ \A u \in Threads : pc'[u] # "idle" => thread'[u] = "event"
    BY <1>2, <1>3, <1>4, <1>7 DEF IInv, TypeOK, NoSessionIdle
<1>10. lastRequest' \in [Sids -> Calls \cup {"none"}] /\ DOMAIN reaction' = Threads
    BY <1>1, <1>4, <1>5, PostedCall DEF IInv, QueuesTyped
<1>11. RequestsInOrder'
  <2> SUFFICES ASSUME ~ requests.shutdownflag, NEW i \in Sids, Alone(i)
               PROVE  InOrder(i)'
    BY <1>2, <1>3 DEF RequestsInOrder, Alone
  <2>1. InOrder(i)
    BY DEF IInv, RequestsInOrder
  <2>2. \A u \in Threads \ {t} :
           (AboutToPost(u, i)' <=> AboutToPost(u, i)) /\ reaction'[u] = reaction[u]
    BY <1>1, <1>2, <1>3, <1>4 DEF AboutToPost, Posts, Nop
  <2>3. ~ AboutToPost(t, i)
    BY <1>3 DEF AboutToPost
  <2>4. AboutToPost(t, i)' <=> k = i /\ Decides(r)
    BY <1>1, <1>2, <1>3, <1>4 DEF AboutToPost, Posts, Nop
  <2>5. CASE k = i /\ Decides(r)
    <3>1. \A u \in Threads : ~ AboutToPost(u, i)
      BY <1>3, <2>5, NobodyElsePosts
    <3>2. reaction'[t].call = r.call /\ lastRequest'[i] = r.call
      BY <1>1, <1>4, <2>5 DEF IInv, QueuesTyped
    <3>3. \A u \in Threads : AboutToPost(u, i)' => reaction'[u].call = lastRequest'[i]
      BY <2>2, <3>1, <3>2
    <3> QED BY <2>4, <2>5, <3>3 DEF InOrder
  <2>6. CASE ~ (k = i /\ Decides(r))
    <3>1. lastRequest'[i] = lastRequest[i]
      BY <1>1, <2>6 DEF IInv, QueuesTyped
    <3>2. SameCalls
      BY <1>2, SameQueue
    <3>3. Settled(i) \/ Queued(i) => Settled(i)' \/ Queued(i)'
      BY <1>2, <3>1, <3>2, SameInOrder
    <3>4. \A u \in Threads : AboutToPost(u, i)' => reaction'[u].call = lastRequest'[i]
      BY <2>1, <2>2, <2>4, <2>6, <3>1 DEF InOrder
    <3>5. (\E u \in Threads : AboutToPost(u, i)) => \E u \in Threads : AboutToPost(u, i)'
      BY <2>2, <2>3
    <3> QED BY <2>1, <3>3, <3>4, <3>5 DEF InOrder
  <2> QED BY <2>5, <2>6
<1> QED
    BY <1>2, <1>6, <1>8, <1>9, <1>10, <1>11 DEF IInv, TypeOK, QueuesTyped

\* The call that has been made is not made again.
LEMMA CallMade ==
    ASSUME NEW x, NEW r
    PROVE  AfterThrow(x, r).call = "" /\ Go(r.to).call = ""
BY DEF AfterThrow, Go

LEMMA CallInstallerStep ==
    ASSUME IInv, NEW t \in Threads, call_installer(t)
    PROVE  IInv'
<1> DEFINE c == reaction[t].call
           k == sid_of[s[t]]
           q == Request(t, c, k)
<1>1. /\ UNCHANGED <<config, daemon, gist, input, arrived, thread, hands, installer,
                     sessions, installed, lastRequest, dispatch>>
      /\ pc[t] = "process"
      /\ requests' = IF Posts(c) THEN enqueue(requests, q) ELSE requests
    BY DEF call_installer
<1>2. UNCHANGED <<pc, s, sid_of>>
    BY <1>1 DEF dispatch
<1>3. \A u \in Threads : reaction'[u] = IF u = t THEN reaction'[t] ELSE reaction[u]
    BY DEF call_installer, IInv, QueuesTyped
<1>4. reaction'[t].call = "" /\ DOMAIN reaction' = Threads
  <2> DEFINE after == IF Throws(c) THEN AfterThrow(sessions[s[t]], reaction[t])
                      ELSE Go(reaction[t].to)
  <2>1. reaction' = [reaction EXCEPT ![t] = after]
    BY DEF call_installer
  <2>2. after.call = ""
    BY CallMade
  <2> HIDE DEF after
  <2>3. DOMAIN reaction = Threads
    BY DEF IInv, QueuesTyped
  <2> QED BY <2>1, <2>2, <2>3
<1>5. k \in Sids
    BY <1>1 DEF IInv, DP!IInv, DP!ThreadsReady, DP!Working
<1>6. Posts(c) => q \in Requests /\ q.call = c /\ q.session = k
    BY <1>5, PostedCall DEF Request, Requests, ReturnQueue
<1>7. requests' \in [items : Seq(Requests), shutdownflag : BOOLEAN]
    BY <1>1, <1>6, EnqueueType DEF IInv, QueuesTyped
<1>8. DP!IInv' /\ D!TypeOK'
    BY <1>1, SameDispatch
<1>9. ThreadsAway'
    BY <1>1, AtWork, InDispatcher
<1>10. RequestsInOrder'
  <2>1. requests'.shutdownflag = requests.shutdownflag
    BY <1>1 DEF enqueue, IInv, QueuesTyped
  <2> SUFFICES ASSUME ~ requests.shutdownflag, NEW i \in Sids, Alone(i)
               PROVE  InOrder(i)'
    BY <1>2, <2>1 DEF RequestsInOrder, Alone
  <2>2. InOrder(i)
    BY DEF IInv, RequestsInOrder
  <2>3. \A u \in Threads \ {t} :
           (AboutToPost(u, i)' <=> AboutToPost(u, i)) /\ reaction'[u] = reaction[u]
    BY <1>1, <1>2, <1>3 DEF AboutToPost, Posts, Nop
  <2>4. ~ AboutToPost(t, i)'
    BY <1>4 DEF AboutToPost, Installs
  <2>5. \A u \in Threads : AboutToPost(u, i)' => reaction'[u].call = lastRequest'[i]
    BY <1>1, <2>2, <2>3, <2>4 DEF InOrder
  <2>6. AboutToPost(t, i) <=> Posts(c) /\ k = i /\ c \in Installs \cup {"remove"}
    BY <1>1 DEF AboutToPost
  <2>7. CASE Posts(c)
    <3>1. q.session = i /\ q.call \in Installs \cup {"remove"} => q.call = lastRequest[i]
      BY <1>6, <2>2, <2>6, <2>7 DEF InOrder
    <3>2. /\ AboutToPost(t, i) => Queued(i)'
          /\ Settled(i) \/ Queued(i) => Settled(i)' \/ Queued(i)'
      BY <1>1, <1>6, <2>6, <2>7, <3>1, EnqueueInOrder DEF IInv
    <3> QED BY <2>2, <2>3, <2>5, <3>2 DEF InOrder
  <2>8. CASE ~ Posts(c)
    <3>1. SameCalls
      BY <1>1, <2>8, SameQueue
    <3>2. Settled(i) \/ Queued(i) => Settled(i)' \/ Queued(i)'
      BY <1>1, <3>1, SameInOrder
    <3> QED BY <2>2, <2>3, <2>5, <2>6, <2>8, <3>2 DEF InOrder
  <2> QED BY <2>7, <2>8
<1> QED
    BY <1>1, <1>2, <1>4, <1>7, <1>8, <1>9, <1>10
       DEF IInv, TypeOK, QueuesTyped, NoSessionIdle

\* A thread whose handler has made its call leaves the state machine.
LEMMA LeavingStep ==
    ASSUME IInv, NEW t \in Threads, pc[t] = "process", reaction[t].call = "",
           NEW l \in {"release", "abort"}, pc' = [pc EXCEPT ![t] = l],
           reaction' = [reaction EXCEPT ![t] = Nothing], D!Next, SameCalls,
           requests' \in [items : Seq(Requests), shutdownflag : BOOLEAN],
           sessions' \in [Objects -> [role : {"none", "ni", "nr", "nf"}, state : States]],
           UNCHANGED <<config, daemon, gist, input, arrived, thread, hands, installer,
                       installed, lastRequest, s, sid_of>>
    PROVE  IInv'
<1>1. pc \in [Threads -> D!Locations] /\ DOMAIN reaction = Threads
    BY DEF IInv, TypeOK, D!TypeOK, QueuesTyped
<1>2. ASSUME NEW i \in Sids, NEW u \in Threads
      PROVE  /\ AboutToPost(u, i)' <=> AboutToPost(u, i)
             /\ AboutToPost(u, i) => reaction'[u].call = reaction[u].call
  <2>1. CASE u = t
    BY <1>1, <2>1 DEF AboutToPost, Installs
  <2>2. CASE u # t
    BY <1>1, <2>2 DEF AboutToPost, Posts, Nop
  <2> QED BY <2>1, <2>2
<1>3. SamePosters
    BY <1>2 DEF SamePosters, Alone
<1>4. RequestsInOrder'
    BY <1>3, QuietStep
<1>5. DP!IInv' /\ D!TypeOK'
    BY DispatcherKept
<1>6. thread[t] = "event" /\ hands[t].kind \notin NoSession
    BY InDispatcher
<1>7. ThreadsAway'
    BY <1>6, AtWork
<1>8. NoSessionIdle' /\ \A u \in Threads : pc'[u] # "idle" => thread'[u] = "event"
    BY <1>1, <1>6 DEF IInv, TypeOK, NoSessionIdle
<1> QED
    BY <1>1, <1>4, <1>5, <1>7, <1>8 DEF IInv, TypeOK, QueuesTyped

\* A frame that ends marks the requests that point into it, nothing else.
LEMMA SetStateStep ==
    ASSUME IInv, NEW t \in Threads, set_state(t)
    PROVE  IInv'
<1> DEFINE q == requests.items
           Mark(n) == IF q[n].ret = t THEN [q[n] EXCEPT !.ret = "dead"] ELSE q[n]
           p == [n \in 1 .. Len(q) |-> Mark(n)]
           st == reaction[t].to
<1>1. requests \in [items : Seq(Requests), shutdownflag : BOOLEAN] /\ q \in Seq(Requests)
    BY DEF IInv, QueuesTyped
<1>2. DOMAIN q = 1 .. Len(q) /\ Len(q) \in Nat
    BY <1>1, LenProperties
<1>3. requests' = [requests EXCEPT !.items = p]
    BY <1>2, Zenon DEF set_state
<1>4. requests'.items = p /\ requests'.shutdownflag = requests.shutdownflag
    BY <1>1, <1>3
<1>5. ASSUME NEW n \in 1 .. Len(q)
      PROVE  Mark(n) \in Requests /\ Mark(n).call = q[n].call /\ Mark(n).session = q[n].session
  <2>1. q[n] \in Requests
    BY <1>1, ElementOfSeq
  <2> QED BY <2>1 DEF Requests
<1>6. p \in Seq(Requests) /\ Len(p) = Len(q)
  <2>1. p \in [1 .. Len(q) -> Requests]
    BY <1>5
  <2>2. p \in Seq(Requests)
    BY <1>2, <2>1, SeqDef
  <2> QED BY <1>2, <2>2, LenProperties
<1>7. requests' \in [items : Seq(Requests), shutdownflag : BOOLEAN]
    BY <1>1, <1>3, <1>6
<1>8. SameCalls
  <2>1. \A n \in 1 .. Len(q) : p[n].call = q[n].call /\ p[n].session = q[n].session
    BY <1>5
  <2> QED BY <1>4, <1>6, <2>1 DEF SameCalls
<1>9. /\ D!Process(t, st = "CLOSE") /\ (st = "CLOSE") \in BOOLEAN
      /\ reaction[t].call = "" /\ st \in States
      /\ sessions' = [sessions EXCEPT ![s[t]].state = st]
      /\ reaction' = [reaction EXCEPT ![t] = Nothing]
      /\ UNCHANGED <<config, daemon, gist, input, arrived, thread, hands, installer,
                     installed, lastRequest>>
    BY DEF set_state
<1>10. pc[t] = "process" /\ pc' = [pc EXCEPT ![t] = "release"] /\ UNCHANGED <<s, sid_of>>
    BY <1>9 DEF D!Process, D!At, D!Goto
<1>11. D!Next
    BY <1>9 DEF D!Next, D!Step
<1>12. s[t] \in Objects
    BY <1>10 DEF IInv, DP!IInv, DP!ThreadsReady, DP!Working
<1>13. sessions' \in [Objects -> [role : {"none", "ni", "nr", "nf"}, state : States]]
    BY <1>9, <1>12 DEF IInv, TypeOK
<1> HIDE DEF st, q, p
<1> QED
    BY <1>7, <1>8, <1>9, <1>10, <1>11, <1>13, LeavingStep

LEMMA ThrowsStep ==
    ASSUME IInv, NEW t \in Threads, process_event_Throws(t)
    PROVE  IInv'
<1>0. reaction[t] = Go("throw") /\ Go("throw").call = ""
    BY DEF process_event_Throws, Go
<1>1. /\ reaction[t].call = "" /\ D!ProcessThrows(t)
      /\ reaction' = [reaction EXCEPT ![t] = Nothing]
      /\ UNCHANGED <<config, daemon, gist, input, arrived, thread, hands, installer, sessions,
                     requests, installed, lastRequest>>
    BY <1>0 DEF process_event_Throws
<1>2. pc[t] = "process" /\ pc' = [pc EXCEPT ![t] = "abort"] /\ UNCHANGED <<s, sid_of>>
    BY <1>1 DEF D!ProcessThrows, D!At, D!Goto
<1>3. D!Next
    BY <1>1 DEF D!Next, D!Step
<1>4. /\ requests' \in [items : Seq(Requests), shutdownflag : BOOLEAN]
      /\ sessions' \in [Objects -> [role : {"none", "ni", "nr", "nf"}, state : States]]
    BY <1>1 DEF IInv, TypeOK, QueuesTyped
<1> QED BY <1>1, <1>2, <1>3, <1>4, SameQueue, LeavingStep

LEMMA IInvStep == IInv /\ [Next]_vars => IInv'
<1> SUFFICES ASSUME IInv, [Next]_vars PROVE IInv'
    OBVIOUS
<1>1. ASSUME NEW t \in Threads, Worker(t) PROVE IInv'
    BY <1>1, MainLoopStep, NoSessionStep, ReturningSteps, CreateSessionStep,
       ProcessEventStep, CallInstallerStep, SetStateStep, ThrowsStep DEF Worker
<1>2. CASE UNCHANGED vars
  <2>1. UNCHANGED around /\ UNCHANGED dispatch
    BY <1>2 DEF vars
  <2>2. RequestsInOrder'
    BY <2>1, OutsidePosters, SameQueue, QuietStep DEF around
  <2>3. DP!IInv' /\ D!TypeOK' /\ pc' = pc
    BY <2>1, SameDispatch
  <2> QED
    BY <2>1, <2>2, <2>3
       DEF around, IInv, TypeOK, QueuesTyped, ThreadsAway, NoSessionIdle, AllEnded
<1>3. CASE Startup \/ Shutdown
    BY <1>3, LifeStep DEF Startup, Shutdown
<1>4. CASE Outside
    BY <1>4, ArriveStep, CloseStep, LifeStep DEF Outside
<1>5. CASE AuctionProcess
    BY <1>5, ServeStep DEF AuctionProcess
<1> QED BY <1>1, <1>2, <1>3, <1>4, <1>5 DEF Next

\* Every step of the daemon keeps the invariant.
THEOREM Invariance == Spec => []IInv
BY IInvInit, IInvStep, PTL DEF Spec

-----------------------------------------------------------------------------
(* The theorems *)

\* The variables have their types; a thread has an event in its hands exactly
\* while it processes one, and is at a session only then.
THEOREM TypeCorrect == Spec => []TypeOK
BY Invariance, PTL DEF IInv

\* When the auction process has served its queue and no thread has yet to post, it
\* has a session's objects exactly if the last decision of the session's handlers
\* was to install them.  Decision and posting are two steps of a thread, and other
\* threads may take any steps between them; the session's lock, which an exception
\* leaves held, keeps them out of the session.  For ids that only one session object
\* was opened under: two objects of one id have two locks.
THEOREM RequestsServedInOrder == Spec => []AuctionProcessUpToDate
<1>1. IInv => AuctionProcessUpToDate
  <2> SUFFICES ASSUME IInv, requests.items = <<>>, ~ requests.shutdownflag,
                      NEW i \in Sids, Alone(i),
                      \A t \in Threads : ~ AboutToPost(t, i)
               PROVE  i \in installed <=> lastRequest[i] \in Installs
    BY DEF AuctionProcessUpToDate
  <2>1. Len(requests.items) = 0
    OBVIOUS
  <2>2. Settled(i)
    BY <2>1 DEF IInv, RequestsInOrder, InOrder, Queued
  <2> QED BY <2>2 DEF Settled
<1> QED BY <1>1, Invariance, PTL
=============================================================================
