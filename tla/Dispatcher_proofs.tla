-------------------------- MODULE Dispatcher_proofs -------------------------
(***************************************************************************)
(* The dispatcher threads, for any number of threads, session ids and      *)
(* session objects and any length of the list of finished sessions.        *)
(***************************************************************************)
EXTENDS Dispatcher, TLAPS

\* The places where a thread works on a session object.
Working == {"acquire", "process", "release", "is_final", "remove", "abort"}

\* A thread that looks a session up has an id to look for, one that works on a
\* session has one that was created.
ThreadsReady ==
    \A t \in Threads :
        /\ pc[t] = "lookup" => wanted[t] \in Sids
        /\ pc[t] \in Working => s[t] \in Objects
        /\ s[t] \in Objects => sid_of[s[t]] \in Sids

\* The session table leads from an id to a session of that id.
TableConsistent == \A i \in Sids : table[i] # None => sid_of[table[i]] = i

\* Only sessions that were created are finished or deleted.
DoneCreated ==
    /\ \A k \in 1 .. Len(done) : sid_of[done[k]] # None
    /\ \A o \in deleted : sid_of[o] # None

\* A thread that has acquired its session's lock holds it until release, and
\* after an exception for ever.
LockHeld ==
    \A t \in Threads : pc[t] \in {"process", "release", "abort"} => owner[s[t]] = t

IInv ==
    /\ TypeOK
    /\ ThreadsReady
    /\ TableConsistent
    /\ DoneCreated
    /\ DeletedAtMostOnce
    /\ LockHeld

LEMMA IInvInit == Init => IInv
<1> SUFFICES ASSUME Init PROVE IInv
    OBVIOUS
<1>0. crashed \in BOOLEAN
    BY DEF Init
<1>1. TypeOK
    BY <1>0 DEF Init, TypeOK, Locations, Kinds
<1>2. ThreadsReady /\ TableConsistent /\ LockHeld
    BY NoneAssumption DEF Init, ThreadsReady, TableConsistent, LockHeld, Working
<1>3. DoneCreated /\ DeletedAtMostOnce
    BY DEF Init, DoneCreated, DeletedAtMostOnce
<1> QED BY <1>1, <1>2, <1>3 DEF IInv

-----------------------------------------------------------------------------
(* The list of finished sessions *)

\* A session that is in neither the list nor the set of deleted sessions joins
\* the list or, if the list is full, pushes its oldest session out.
LEMMA StoreKeepsApart ==
    ASSUME IInv, NEW o \in Objects, sid_of[o] # None,
           \A k \in 1 .. Len(done) : done[k] # o,
           o \notin deleted,
           store_session_asdone(o), UNCHANGED sid_of
    PROVE  /\ done' \in Seq(Objects) /\ deleted' \subseteq Objects
           /\ DoneCreated'
           /\ \A k \in 1 .. Len(done') :
                 done'[k] = o \/ \E j \in 1 .. Len(done) : done'[k] = done[j]
           /\ \A d \in deleted' :
                 d \in deleted \/ d = o \/ \E j \in 1 .. Len(done) : d = done[j]
           /\ \A j, k \in 1 .. Len(done') : done'[j] = done'[k] => j = k
           /\ \A k \in 1 .. Len(done') : done'[k] \notin deleted'
<1> DEFINE longer == Append(done, o)
<1> USE DoneSizeAssumption DEF IInv, TypeOK, DoneCreated, DeletedAtMostOnce
<1>1. /\ longer \in Seq(Objects)
      /\ Len(longer) = Len(done) + 1 /\ Len(done) \in Nat
      /\ longer[Len(longer)] = o
      /\ \A k \in 1 .. Len(done) : longer[k] = done[k]
    OBVIOUS
<1>2. /\ \A k \in 1 .. Len(longer) :
            longer[k] = o \/ \E j \in 1 .. Len(done) : longer[k] = done[j]
      /\ \A k \in 1 .. Len(longer) : longer[k] \notin deleted /\ sid_of[longer[k]] # None
    BY <1>1
<1>3. \A j, k \in 1 .. Len(longer) : longer[j] = longer[k] => j = k
    BY <1>1
<1> HIDE DEF longer
<1>4. CASE Len(longer) > DoneSize
  <2>1. done' = Tail(longer) /\ deleted' = deleted \cup {longer[1]}
    BY <1>1, <1>4 DEF store_session_asdone, longer
  <2>2. /\ Len(done') = Len(longer) - 1
        /\ \A k \in 1 .. Len(done') : done'[k] = longer[k + 1] /\ k + 1 \in 1 .. Len(longer)
        /\ done' \in Seq(Objects)
    BY <1>1, <2>1
  <2>3. 1 \in 1 .. Len(longer) /\ longer[1] \in Objects
    BY <1>1
  <2> QED BY <1>1, <1>2, <1>3, <2>1, <2>2, <2>3
<1>5. CASE ~ (Len(longer) > DoneSize)
  <2>1. done' = longer /\ deleted' = deleted
    BY <1>5 DEF store_session_asdone, longer
  <2> QED BY <1>1, <1>2, <1>3, <2>1
<1> QED BY <1>4, <1>5

\* remove_session takes the session it finds out of the table before it joins
\* the list, and no other id leads to it.
LEMMA RemoveKeepsApart ==
    ASSUME IInv, NEW sid \in Sids, remove_session(sid), UNCHANGED sid_of
    PROVE  /\ table' \in [Sids -> Objects \cup {None}]
           /\ done' \in Seq(Objects) /\ deleted' \subseteq Objects
           /\ crashed' \in BOOLEAN
           /\ TableConsistent' /\ DoneCreated' /\ DeletedAtMostOnce'
<1> USE DEF IInv, TypeOK
<1>1. table' = [table EXCEPT ![sid] = None]
    BY DEF remove_session
<1>2. TableConsistent' /\ table' \in [Sids -> Objects \cup {None}]
    BY <1>1 DEF TableConsistent
<1>3. CASE table[sid] = None
  <2>1. UNCHANGED <<done, deleted>> /\ crashed' = TRUE
    BY <1>3 DEF remove_session
  <2>2. DoneCreated'
    BY <2>1 DEF DoneCreated
  <2>3. DeletedAtMostOnce'
    BY <1>1, <1>3, <2>1 DEF DeletedAtMostOnce
  <2> QED BY <1>2, <2>1, <2>2, <2>3
<1>4. CASE table[sid] # None
  <2> DEFINE o == table[sid]
  <2>1. /\ store_session_asdone(o) /\ crashed' = crashed
        /\ o \in Objects
    BY <1>4 DEF remove_session
  <2>2. /\ sid_of[o] # None
        /\ \A k \in 1 .. Len(done) : done[k] # o
        /\ o \notin deleted
    BY <1>4, NoneAssumption DEF TableConsistent, DeletedAtMostOnce
  <2>3. \A i \in Sids : table'[i] # o
    BY <1>1, <1>4 DEF TableConsistent
  <2>4. \A i \in Sids : table'[i] \in {table[i], None}
    BY <1>1
  <2>5. /\ done' \in Seq(Objects) /\ deleted' \subseteq Objects
        /\ DoneCreated'
        /\ \A k \in 1 .. Len(done') :
              done'[k] = o \/ \E j \in 1 .. Len(done) : done'[k] = done[j]
        /\ \A d \in deleted' :
              d \in deleted \/ d = o \/ \E j \in 1 .. Len(done) : d = done[j]
        /\ \A j, k \in 1 .. Len(done') : done'[j] = done'[k] => j = k
        /\ \A k \in 1 .. Len(done') : done'[k] \notin deleted'
    BY <2>1, <2>2, StoreKeepsApart
  <2> HIDE DEF o
  <2>6. \A k \in 1 .. Len(done') : done'[k] \in Objects
    BY <2>5
  <2>7. ASSUME NEW i \in Sids, table'[i] \in deleted' PROVE FALSE
    <3>1. table'[i] # None
      BY <2>5, <2>7, NoneAssumption
    <3>2. table'[i] = table[i] /\ table'[i] # o
      BY <2>3, <2>4, <3>1
    <3>3. table[i] \in deleted \/ \E j \in 1 .. Len(done) : table[i] = done[j]
      BY <2>5, <2>7, <3>2
    <3> QED BY <3>3 DEF DeletedAtMostOnce
  <2>8. \A i \in Sids : \A k \in 1 .. Len(done') : table'[i] # done'[k]
    BY <2>3, <2>4, <2>5, <2>6, NoneAssumption DEF DeletedAtMostOnce
  <2>9. DeletedAtMostOnce'
    BY <2>5, <2>7, <2>8 DEF DeletedAtMostOnce
  <2> QED BY <1>2, <2>1, <2>5, <2>9
<1> QED BY <1>3, <1>4

-----------------------------------------------------------------------------
(* One step per action *)

LEMMA IInvStep == IInv /\ [Next]_vars => IInv'
<1> SUFFICES ASSUME IInv, [Next]_vars PROVE IInv'
    OBVIOUS
<1> USE NoneAssumption DEF IInv
<1>1. ASSUME NEW t \in Threads, NEW kind \in Kinds, NEW sid \in Sids, Dequeue(t, kind, sid)
      PROVE  IInv'
  <2>1. TypeOK'
    BY <1>1 DEF Dequeue, TypeOK, Goto, Locations
  <2>2. ThreadsReady' /\ LockHeld'
    BY <1>1 DEF Dequeue, TypeOK, Goto, ThreadsReady, LockHeld, Working
  <2>3. TableConsistent' /\ DoneCreated' /\ DeletedAtMostOnce'
    BY <1>1 DEF Dequeue, TableConsistent, DoneCreated, DeletedAtMostOnce
  <2> QED BY <2>1, <2>2, <2>3
<1>2. ASSUME NEW t \in Threads, Lookup(t) PROVE IInv'
  <2>0. wanted[t] \in Sids /\ table[wanted[t]] \in Objects \cup {None}
    BY <1>2 DEF Lookup, At, ThreadsReady, TypeOK
  <2>1. TypeOK'
    BY <1>2, <2>0 DEF Lookup, TypeOK, Goto, Locations
  <2>2. ThreadsReady' /\ LockHeld'
    BY <1>2, <2>0 DEF Lookup, TypeOK, Goto, ThreadsReady, LockHeld, Working, TableConsistent
  <2>3. TableConsistent' /\ DoneCreated' /\ DeletedAtMostOnce'
    BY <1>2 DEF Lookup, TableConsistent, DoneCreated, DeletedAtMostOnce
  <2> QED BY <2>1, <2>2, <2>3
<1>3. ASSUME NEW t \in Threads, NEW o \in Objects, NEW sid \in Sids, Create(t, o, sid)
      PROVE  IInv'
  <2>1. TypeOK'
    BY <1>3 DEF Create, TypeOK, Goto, Locations
  <2>2. ThreadsReady' /\ LockHeld'
    BY <1>3 DEF Create, TypeOK, Goto, ThreadsReady, LockHeld, Working
  <2>3. TableConsistent'
    BY <1>3 DEF Create, TypeOK, TableConsistent
  <2>4. DoneCreated'
    BY <1>3 DEF Create, TypeOK, DoneCreated
  <2>5. o \notin deleted /\ \A k \in 1 .. Len(done) : done[k] # o
    BY <1>3 DEF Create, DoneCreated
  <2>6. DeletedAtMostOnce'
    BY <1>3, <2>5 DEF Create, TypeOK, DeletedAtMostOnce
  <2> QED BY <2>1, <2>2, <2>3, <2>4, <2>6
<1>4. ASSUME NEW t \in Threads, Acquire(t) PROVE IInv'
  <2>1. TypeOK'
    BY <1>4 DEF Acquire, At, TypeOK, ThreadsReady, Working, Goto, Locations
  <2>2. ThreadsReady' /\ LockHeld'
    BY <1>4 DEF Acquire, At, TypeOK, Goto, ThreadsReady, LockHeld, Working
  <2>3. TableConsistent' /\ DoneCreated' /\ DeletedAtMostOnce'
    BY <1>4 DEF Acquire, TableConsistent, DoneCreated, DeletedAtMostOnce
  <2> QED BY <2>1, <2>2, <2>3
<1>5. ASSUME NEW t \in Threads, NEW closes \in BOOLEAN, Process(t, closes) PROVE IInv'
  <2>1. TypeOK'
    BY <1>5 DEF Process, At, TypeOK, ThreadsReady, Working, Goto, Locations
  <2>2. ThreadsReady' /\ LockHeld'
    BY <1>5 DEF Process, At, TypeOK, Goto, ThreadsReady, LockHeld, Working
  <2>3. TableConsistent' /\ DoneCreated' /\ DeletedAtMostOnce'
    BY <1>5 DEF Process, TableConsistent, DoneCreated, DeletedAtMostOnce
  <2> QED BY <2>1, <2>2, <2>3
<1>6. ASSUME NEW t \in Threads, ProcessThrows(t) PROVE IInv'
  <2>1. TypeOK'
    BY <1>6 DEF ProcessThrows, TypeOK, Goto, Locations
  <2>2. ThreadsReady' /\ LockHeld'
    BY <1>6 DEF ProcessThrows, At, TypeOK, Goto, ThreadsReady, LockHeld, Working
  <2>3. TableConsistent' /\ DoneCreated' /\ DeletedAtMostOnce'
    BY <1>6 DEF ProcessThrows, TableConsistent, DoneCreated, DeletedAtMostOnce
  <2> QED BY <2>1, <2>2, <2>3
<1>7. ASSUME NEW t \in Threads, Release(t) PROVE IInv'
  <2>0. s[t] \in Objects /\ owner[s[t]] = t
    BY <1>7 DEF Release, At, ThreadsReady, Working, LockHeld
  <2>1. TypeOK'
    BY <1>7, <2>0 DEF Release, TypeOK, Goto, Locations
  <2>2. ThreadsReady'
    BY <1>7 DEF Release, At, TypeOK, Goto, ThreadsReady, Working
  <2>3. LockHeld'
    BY <1>7, <2>0 DEF Release, TypeOK, Goto, LockHeld
  <2>4. TableConsistent' /\ DoneCreated' /\ DeletedAtMostOnce'
    BY <1>7 DEF Release, TableConsistent, DoneCreated, DeletedAtMostOnce
  <2> QED BY <2>1, <2>2, <2>3, <2>4
<1>8. ASSUME NEW t \in Threads, IsFinal(t) PROVE IInv'
  <2>1. TypeOK'
    BY <1>8 DEF IsFinal, TypeOK, Goto, Locations
  <2>2. ThreadsReady' /\ LockHeld'
    BY <1>8 DEF IsFinal, At, TypeOK, Goto, ThreadsReady, LockHeld, Working
  <2>3. TableConsistent' /\ DoneCreated' /\ DeletedAtMostOnce'
    BY <1>8 DEF IsFinal, TableConsistent, DoneCreated, DeletedAtMostOnce
  <2> QED BY <2>1, <2>2, <2>3
<1>9. ASSUME NEW t \in Threads, Remove(t) PROVE IInv'
  <2>0. sid_of[s[t]] \in Sids
    BY <1>9 DEF Remove, At, ThreadsReady, Working
  <2>1. /\ table' \in [Sids -> Objects \cup {None}]
        /\ done' \in Seq(Objects) /\ deleted' \subseteq Objects
        /\ crashed' \in BOOLEAN
        /\ TableConsistent' /\ DoneCreated' /\ DeletedAtMostOnce'
    BY <1>9, <2>0, RemoveKeepsApart DEF Remove
  <2>2. TypeOK'
    BY <1>9, <2>1 DEF Remove, TypeOK, Goto, Locations
  <2>3. ThreadsReady' /\ LockHeld'
    BY <1>9 DEF Remove, TypeOK, Goto, ThreadsReady, LockHeld, Working
  <2> QED BY <2>1, <2>2, <2>3
<1>10. CASE UNCHANGED vars
    BY <1>10 DEF vars, TypeOK, ThreadsReady, TableConsistent, DoneCreated,
                 DeletedAtMostOnce, LockHeld
<1> QED
    BY <1>1, <1>2, <1>3, <1>4, <1>5, <1>6, <1>7, <1>8, <1>9, <1>10 DEF Next, Step

LEMMA Invariance == Spec => []IInv
BY IInvInit, IInvStep, PTL DEF Spec

-----------------------------------------------------------------------------
(* The theorems about any number of threads *)

\* The variables have their types: in particular no null pointer gets into the
\* list of finished sessions.
THEOREM TypeCorrect == Spec => []TypeOK
BY Invariance, PTL DEF IInv

\* No two threads are in the state machine of one session at the same time.
THEOREM SessionsExclusive == Spec => []MutualExclusion
<1>1. IInv => MutualExclusion
    BY DEF IInv, LockHeld, MutualExclusion
<1> QED BY <1>1, Invariance, PTL

\* However the threads race to remove sessions, none is deleted twice.
THEOREM NoDoubleDelete == Spec => []DeletedAtMostOnce
BY Invariance, PTL DEF IInv

-----------------------------------------------------------------------------
(* The theorems about a single thread, the configuration's default *)

SingleThread == \A t, u \in Threads : t = u

\* The thread works on the session the table has, decides to remove only a
\* closed one, and leaves every session open in the table but those it blocked.
OneAtATime ==
    \A t \in Threads :
        /\ pc[t] \in Working => table[sid_of[s[t]]] = s[t]
        /\ pc[t] = "remove" => s[t] \in final
        /\ ~ crashed
        /\ pc[t] = "idle" /\ s[t] # None /\ s[t] \notin final /\ owner[s[t]] = None
              => table[sid_of[s[t]]] = s[t]

LEMMA OneAtATimeStep ==
    ASSUME SingleThread, IInv, OneAtATime, [Next]_vars
    PROVE  OneAtATime'
<1> USE NoneAssumption DEF IInv, TypeOK, OneAtATime, SingleThread, At, Goto, Working
<1>1. ASSUME NEW t \in Threads, NEW kind \in Kinds, NEW sid \in Sids, Dequeue(t, kind, sid)
      PROVE  OneAtATime'
    BY <1>1 DEF Dequeue
<1>2. ASSUME NEW t \in Threads, Lookup(t) PROVE OneAtATime'
    BY <1>2 DEF Lookup, ThreadsReady, TableConsistent
<1>3. ASSUME NEW t \in Threads, NEW o \in Objects, NEW sid \in Sids, Create(t, o, sid)
      PROVE  OneAtATime'
    BY <1>3 DEF Create
<1>4. ASSUME NEW t \in Threads, Acquire(t) PROVE OneAtATime'
    BY <1>4 DEF Acquire
<1>5. ASSUME NEW t \in Threads, NEW closes \in BOOLEAN, Process(t, closes) PROVE OneAtATime'
    BY <1>5 DEF Process
<1>6. ASSUME NEW t \in Threads, ProcessThrows(t) PROVE OneAtATime'
    BY <1>6 DEF ProcessThrows
<1>7. ASSUME NEW t \in Threads, Release(t) PROVE OneAtATime'
    BY <1>7 DEF Release
<1>8. ASSUME NEW t \in Threads, IsFinal(t) PROVE OneAtATime'
    BY <1>8 DEF IsFinal
<1>9. ASSUME NEW t \in Threads, Remove(t) PROVE OneAtATime'
  <2>1. s[t] \in Objects /\ table[sid_of[s[t]]] # None
    BY <1>9 DEF Remove, ThreadsReady
  <2>2. s[t] \in final \/ owner[s[t]] = t
    BY <1>9 DEF Remove, LockHeld
  <2>3. crashed' = crashed /\ UNCHANGED <<s, final, owner>> /\ pc' = [pc EXCEPT ![t] = "idle"]
    BY <1>9, <2>1 DEF Remove, remove_session
  <2> QED BY <1>9, <2>2, <2>3
<1>10. CASE UNCHANGED vars
    BY <1>10 DEF vars
<1> QED
    BY <1>1, <1>2, <1>3, <1>4, <1>5, <1>6, <1>7, <1>8, <1>9, <1>10 DEF Next, Step

LEMMA SingleThreadInvariance ==
    ASSUME SingleThread
    PROVE  Spec => [](IInv /\ OneAtATime)
<1>1. Init => OneAtATime
    BY DEF Init, OneAtATime, Working
<1>2. IInv /\ OneAtATime /\ [Next]_vars => OneAtATime'
    BY OneAtATimeStep
<1> QED
    BY <1>1, <1>2, Invariance, PTL DEF Spec

\* With one dispatcher thread a removal always finds its session in the table.
THEOREM RemovalsSafe ==
    ASSUME SingleThread, Threads # {}
    PROVE  Spec => []RemovalSafe
<1>1. IInv /\ OneAtATime => RemovalSafe
    BY DEF OneAtATime, RemovalSafe
<1> QED BY <1>1, SingleThreadInvariance, PTL

\* With one dispatcher thread the sessions that are open stay in the table.
THEOREM OpenSessionsFound ==
    ASSUME SingleThread
    PROVE  Spec => []OpenSessionsInTable
<1>1. IInv /\ OneAtATime => OpenSessionsInTable
    BY DEF OneAtATime, OpenSessionsInTable
<1> QED BY <1>1, SingleThreadInvariance, PTL

\* With one dispatcher thread no handler runs on a session that was deleted.
THEOREM DeletedNotUsed ==
    ASSUME SingleThread
    PROVE  Spec => []NoUseAfterDelete
<1>1. IInv /\ OneAtATime => NoUseAfterDelete
    BY DEF IInv, TypeOK, ThreadsReady, OneAtATime, NoUseAfterDelete, DeletedAtMostOnce,
           Locations, Working
<1> QED BY <1>1, SingleThreadInvariance, PTL
=============================================================================
