----------------------------- MODULE Dispatcher -----------------------------
(***************************************************************************)
(* The daemon's dispatcher threads (anslp_daemon::main_loop and            *)
(* dispatcher::process), the session table and the list of finished        *)
(* sessions they share (session_manager.cpp), and the lock of each session.*)
(*                                                                         *)
(* A step of a thread is a call that is atomic with respect to the other   *)
(* threads: a method of session_manager runs under the manager's mutex,    *)
(* acquire and release are one mutex operation each, and the state machine *)
(* runs between them.  is_final is read after the lock was released.       *)
(***************************************************************************)
EXTENDS Integers, Sequences, FiniteSets

CONSTANTS
    Threads,   \* the dispatcher threads
    Sids,      \* session ids
    Objects,   \* bound: session objects created in a behaviour
    DoneSize,  \* DONE_SESSION_LIST_SIZE
    None       \* NULL

ASSUME NoneAssumption ==
    None \notin Threads /\ None \notin Sids /\ None \notin Objects
ASSUME DoneSizeAssumption == DoneSize \in Nat

VARIABLES
    pc,       \* where in dispatcher::process each thread is
    event,    \* the kind of event each thread processes
    wanted,   \* the session id of that event
    s,        \* the session object each thread works on
    table,    \* session_manager::session_table
    sid_of,   \* the id of each session object created so far
    final,    \* the session objects whose state machine is in its final state
    owner,    \* the thread that holds each session's lock
    done,     \* session_manager::sessionDone
    deleted,  \* the session objects deleted
    crashed   \* a null pointer was dereferenced

vars == <<pc, event, wanted, s, table, sid_of, final, owner, done, deleted, crashed>>

Kinds == {"api_create",  \* a local user's request: names no session
          "create",      \* an NSLP CREATE message: opens a session if there is none
          "other"}       \* everything else, timers included

Locations == {"idle", "lookup", "create", "acquire", "process", "release",
              "is_final", "remove", "abort"}

Init ==
    /\ pc = [t \in Threads |-> "idle"]
    /\ event = [t \in Threads |-> "other"]
    /\ wanted = [t \in Threads |-> None]
    /\ s = [t \in Threads |-> None]
    /\ table = [i \in Sids |-> None]
    /\ sid_of = [o \in Objects |-> None]
    /\ final = {}
    /\ owner = [o \in Objects |-> None]
    /\ done = <<>>
    /\ deleted = {}
    /\ crashed = FALSE

Goto(t, l) == pc' = [pc EXCEPT ![t] = l]

At(t, l) == pc[t] = l /\ ~ crashed

-----------------------------------------------------------------------------
\* The thread takes the next event out of the input queue.
Dequeue(t, kind, sid) ==
    /\ At(t, "idle")
    /\ event' = [event EXCEPT ![t] = kind]
    /\ wanted' = [wanted EXCEPT ![t] = IF kind = "api_create" THEN None ELSE sid]
    /\ Goto(t, IF kind = "api_create" THEN "create" ELSE "lookup")
    /\ UNCHANGED <<s, table, sid_of, final, owner, done, deleted, crashed>>

\* get_session; an event that opens no session and finds none is discarded.
Lookup(t) ==
    /\ At(t, "lookup")
    /\ s' = [s EXCEPT ![t] = table[wanted[t]]]
    /\ Goto(t, IF table[wanted[t]] # None THEN "acquire"
               ELSE IF event[t] = "create" THEN "create" ELSE "idle")
    /\ UNCHANGED <<event, wanted, table, sid_of, final, owner, done, deleted, crashed>>

\* create_ni_session draws a random id, which no session and no event has had;
\* the others take the event's.
NewId(sid) ==
    /\ \A o \in Objects : sid_of[o] # sid
    /\ \A t \in Threads : wanted[t] # sid

Create_NotStored(t, o, sid) ==
    /\ At(t, "create")
    /\ sid_of[o] = None
    /\ IF event[t] = "api_create" THEN NewId(sid) ELSE sid = wanted[t]
    /\ sid_of' = [sid_of EXCEPT ![o] = sid]
    /\ s' = [s EXCEPT ![t] = o]
    /\ Goto(t, "acquire")
    /\ UNCHANGED <<event, wanted, table, final, owner, done, deleted, crashed>>

Create(t, o, sid) ==
    /\ At(t, "create")
    /\ sid_of[o] = None
    /\ IF event[t] = "api_create" THEN NewId(sid) ELSE sid = wanted[t]
    /\ sid_of' = [sid_of EXCEPT ![o] = sid]
    /\ table' = [table EXCEPT ![sid] = o]
    /\ s' = [s EXCEPT ![t] = o]
    /\ Goto(t, "acquire")
    /\ UNCHANGED <<event, wanted, final, owner, done, deleted, crashed>>

Acquire_NoWait(t) ==
    /\ At(t, "acquire")
    /\ owner' = [owner EXCEPT ![s[t]] = t]
    /\ Goto(t, "process")
    /\ UNCHANGED <<event, wanted, s, table, sid_of, final, done, deleted, crashed>>

Acquire(t) ==
    /\ At(t, "acquire")
    /\ owner[s[t]] = None
    /\ owner' = [owner EXCEPT ![s[t]] = t]
    /\ Goto(t, "process")
    /\ UNCHANGED <<event, wanted, s, table, sid_of, final, done, deleted, crashed>>

\* The state machine may close the session or keep it open.  A thread may still
\* hold a closed one, which a CREATE opens again; for any other event a closed
\* forwarder's handler returns no value, so that its state is undefined.
Process(t, closes) ==
    /\ At(t, "process")
    /\ final' = IF closes THEN final \cup {s[t]} ELSE final \ {s[t]}
    /\ Goto(t, "release")
    /\ UNCHANGED <<event, wanted, s, table, sid_of, owner, done, deleted, crashed>>

\* An exception leaves the handler: the lock is not released.
ProcessThrows(t) ==
    /\ At(t, "process")
    /\ Goto(t, "abort")
    /\ UNCHANGED <<event, wanted, s, table, sid_of, final, owner, done, deleted, crashed>>

Release(t) ==
    /\ At(t, "release")
    /\ owner' = [owner EXCEPT ![s[t]] = None]
    /\ Goto(t, "is_final")
    /\ UNCHANGED <<event, wanted, s, table, sid_of, final, done, deleted, crashed>>

IsFinal(t) ==
    /\ At(t, "is_final")
    /\ Goto(t, IF s[t] \in final THEN "remove" ELSE "idle")
    /\ UNCHANGED <<event, wanted, s, table, sid_of, final, owner, done, deleted, crashed>>

store_session_asdone_KeepsFront(o) ==
    /\ done' = Append(done, o)
    /\ deleted' = IF Len(done) >= DoneSize THEN deleted \cup {Head(done')} ELSE deleted

\* The finished session joins the list; the list's oldest session is deleted
\* when the list is longer than DoneSize.
store_session_asdone(o) ==
    LET longer == Append(done, o)
    IN  IF Len(longer) > DoneSize
        THEN done' = Tail(longer) /\ deleted' = deleted \cup {Head(longer)}
        ELSE done' = longer /\ deleted' = deleted

remove_session_KeepsEntry(sid) ==
    IF table[sid] = None
    THEN /\ crashed' = TRUE
         /\ UNCHANGED <<table, done, deleted>>
    ELSE /\ store_session_asdone(table[sid])
         /\ UNCHANGED <<table, crashed>>

remove_session_StoresNull(sid) ==
    /\ table' = [table EXCEPT ![sid] = None]
    /\ store_session_asdone(table[sid])
    /\ UNCHANGED crashed

\* remove_session erases the entry and then uses the session it found there,
\* without asking whether it found one.
remove_session(sid) ==
    /\ table' = [table EXCEPT ![sid] = None]
    /\ IF table[sid] = None
       THEN crashed' = TRUE /\ UNCHANGED <<done, deleted>>
       ELSE store_session_asdone(table[sid]) /\ UNCHANGED crashed

Remove(t) ==
    /\ At(t, "remove") \/ At(t, "abort")
    /\ remove_session(sid_of[s[t]])
    /\ Goto(t, "idle")
    /\ UNCHANGED <<event, wanted, s, sid_of, final, owner>>

-----------------------------------------------------------------------------
Step(t) ==
    \/ Lookup(t)
    \/ \E o \in Objects, sid \in Sids : Create(t, o, sid)
    \/ Acquire(t)
    \/ \E closes \in BOOLEAN : Process(t, closes)
    \/ ProcessThrows(t)
    \/ Release(t) \/ IsFinal(t) \/ Remove(t)

Next ==
    \E t \in Threads :
        \/ \E kind \in Kinds, sid \in Sids : Dequeue(t, kind, sid)
        \/ Step(t)

Spec == Init /\ [][Next]_vars

\* A thread that can go on does.
FairSpec == Spec /\ \A t \in Threads : WF_vars(Step(t))

-----------------------------------------------------------------------------
(* Properties *)

\* The types of the variables.
TypeOK ==
    /\ pc \in [Threads -> Locations]
    /\ event \in [Threads -> Kinds]
    /\ wanted \in [Threads -> Sids \cup {None}]
    /\ s \in [Threads -> Objects \cup {None}]
    /\ table \in [Sids -> Objects \cup {None}]
    /\ sid_of \in [Objects -> Sids \cup {None}]
    /\ final \subseteq Objects
    /\ owner \in [Objects -> Threads \cup {None}]
    /\ done \in Seq(Objects)
    /\ deleted \subseteq Objects
    /\ crashed \in BOOLEAN

\* dispatcher::process "locks the session while it executes": no two threads
\* are in the state machine of the same session.
MutualExclusion ==
    \A t, u \in Threads :
        pc[t] = "process" /\ pc[u] = "process" /\ s[t] = s[u] => t = u

\* A session object is in at most one of the session table, the list of finished
\* sessions and the set of deleted ones, and in the list once: however the
\* threads race to remove it, it is deleted at most once.
DeletedAtMostOnce ==
    /\ \A i \in Sids : \A k \in 1 .. Len(done) : table[i] # done[k]
    /\ \A i \in Sids : table[i] \notin deleted
    /\ \A j, k \in 1 .. Len(done) : done[j] = done[k] => j = k
    /\ \A k \in 1 .. Len(done) : done[k] \notin deleted

\* "If there is no session with this ID, NULL is returned": a session that is not
\* in the table may be removed.  The code contradicts its comment, since
\* remove_session uses s->get_id() of what it found; so this holds only where
\* nobody removes such a session, that is with one thread.
RemovalSafe == ~ crashed

\* With one thread a session that was left open can be found under its id, so that
\* the events that follow, timers among them, reach it.
OpenSessionsInTable ==
    \A t \in Threads :
        pc[t] = "idle" /\ s[t] # None /\ s[t] \notin final /\ owner[s[t]] = None
            => table[sid_of[s[t]]] = s[t]

\* create_session "may only be called if the session manager doesn't already have
\* a session for the event": nobody opens a session of the event's id between the
\* lookup and the creation.  With one thread nobody can.
CreateOnlyIfAbsent ==
    \A t \in Threads :
        pc[t] = "create" /\ event[t] = "create" => table[wanted[t]] = None

\* With one thread the session that a full list of finished sessions deletes is
\* never one that the thread works on.
NoUseAfterDelete ==
    \A t \in Threads : pc[t] \notin {"idle", "lookup", "create"} => s[t] \notin deleted

\* "This method calls the user-defined process_event method and takes care of
\* locking": a thread that takes an event out of the queue comes back for the
\* next one.
ThreadReturns ==
    \A t \in Threads : pc[t] = "acquire" ~> pc[t] # "acquire" \/ crashed
=============================================================================
