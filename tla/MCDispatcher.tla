---------------------------- MODULE MCDispatcher ----------------------------
(***************************************************************************)
(* Dispatcher for TLC: threads, session ids and session objects are model  *)
(* values that may be exchanged for one another, and the number of threads *)
(* that are started is chosen at the start, as dispatcher-threads does.    *)
(***************************************************************************)
EXTENDS Dispatcher, TLC

VARIABLE pool  \* the threads that were started

MCInit == Init /\ pool \in SUBSET Threads \ {{}}

MCNext ==
    /\ Next
    /\ \A t \in Threads \ pool : pc'[t] = pc[t]
    /\ UNCHANGED pool

MCSpec == MCInit /\ [][MCNext]_<<vars, pool>>

Symmetry == Permutations(Threads) \cup Permutations(Sids) \cup Permutations(Objects)

\* dispatcher-threads has its default value, 1.
Alone == Cardinality(pool) = 1

\* remove_session uses s->get_id() of the session it found without asking whether
\* it found one: with one thread every session that is closed or aborted is still
\* in the table, under its own id, when it is removed.  (With two threads it need
\* not be.)
AloneRemovalSafe == Alone => RemovalSafe

\* With one thread a session that was left open can be found under its id, so that
\* the events that follow, timers among them, reach it.  (With two threads another
\* session may take its place in the table.)
AloneOpenSessionsInTable == Alone => OpenSessionsInTable

\* With one thread the session that a full list of finished sessions deletes is
\* never the one the thread works on.  (With two threads it may be.)
AloneNoUseAfterDelete == Alone => NoUseAfterDelete
=============================================================================
