------------------------------ MODULE MCDaemon ------------------------------
(* Configurations of Daemon and the messages that arrive. *)
EXTENDS Daemon

\* dispatcher-threads is 1 unless the user says otherwise.
OneThread == {CHOOSE t \in Threads : TRUE}

Node(q, i, a, ts) == [queue |-> q, install |-> i, auctioneer |-> a, threads |-> ts]

\* A node that installs rules, and the auctioneer's.
EitherNode == {Node(TRUE, i, ~ i, OneThread) : i \in BOOLEAN}

\* The messages that open sessions and bring them to the states in which they wait
\* for an answer.
Openings == {"create", "message", "api_create"}

\* Without a queue and without rules to install the daemon does nothing of interest.
OneThreadNodes ==
    {Node(q, i, a, OneThread) : q, i, a \in BOOLEAN}
        \ {Node(FALSE, FALSE, a, OneThread) : a \in BOOLEAN}

\* Every configuration with one thread, and one with all threads.
AllNodes == OneThreadNodes \cup {Node(TRUE, TRUE, FALSE, Threads)}

MCArrivals == Arriving
=============================================================================
