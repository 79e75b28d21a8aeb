# TLA+ models of the A-NSLP daemon

A-NSLP is a signalling protocol for auctions on top of the NSIS transport
(GIST).  An *initiator* (NI) sends a CREATE down the path, *forwarders* (NF) let
their auction process check the objects it carries and pass it on, the
*receiver* (NR) answers; on the way back every node has its auction process
install its share of the objects.  Afterwards REFRESH messages keep the session
alive at every node (soft state) and BIDDING messages carry bids.  All nodes run
the same daemon.

This directory holds specifications of the daemon's session state machines, its
dispatcher, the daemon around them, the messages on the wire and the two ends of
a path; configurations for TLC; and proofs checked by TLAPS.

## Inventory

| part (source) | state | operations | interacts with |
|---|---|---|---|
| initiator session (`src/ni_session.cpp`) | state, lifetime, sequence number, last CREATE and REFRESH, rule to install, three retry counters, two timers | one handler per state, one branch per event | dispatcher (messages, timers, rules) |
| receiver session (`src/nr_session.cpp`) | state, lifetime, sequence number, CREATE, rule, one counter, one timer | same | same |
| forwarder session (`src/nf_session.cpp`) | state, lifetime, sequence number, CREATE, REFRESH, RESPONSE, rule, two timers | same | same |
| base class and helpers (`src/session.cpp`, `src/anslp_timers.cpp`, `src/msg/ntlp_msg.cpp`, `src/msg/anslp_response.cpp`, `include/events.h`) | lock, ids of current timer messages | lifetimes, serial numbers, responses, timers, event tests | sessions |
| dispatcher (`src/dispatcher.cpp`) | none | `process`: look up or create the session, lock, run the state machine, unlock, remove if final | manager, sessions, rule installer, GIST |
| session manager (`src/session_manager.cpp`) | session table, list of the last 300 finished sessions, mutex | create, get, remove, store as done | dispatcher threads |
| rule installer (`src/netauct_rule_installer.cpp`, `src/nop_auction_rule_installer.cpp`) | queue to the auction process | check, create, put_response, remove, auction_interaction | sessions, auction process |
| queues (`src/aqueue.cpp`) | queue, shutdown flag | enqueue, dequeue, cleanup | rule installer, auction process |
| daemon (`src/anslp_daemon.cpp`) | threads, input queue, rule installer, GIST threads | startup, main loop, shutdown | everything |
| GIST mapper (`src/gistka_mapper.cpp`) | none | messages of the input queue to events, session messages to GIST's API | daemon, messages, GIST |
| messages (`src/msg/*`) | store of objects by type and number | compose, check, serialize, deserialize | sessions, GIST mapper |
| IPAP messages (`src/msg/anslp_ipap_*`) | auction data | encode, decode, XML form, splitting | messages, user |
| rules and keys (`src/auction_rule.cpp`, `src/mspec_rule_key.cpp`) | request and response objects by key | set, copy, count | sessions |
| configuration, benchmark journal | parameters, measurements | read, write | everything |

Hard behaviours: every session is driven by a network that loses, duplicates,
delays and reorders messages, by timers that are not cancelled but only made
obsolete, by an auction process that answers late, partly or never, and by a
local user; retransmissions run in between.  With more than one dispatcher
thread, threads race for one session.  `PROJECT.json` lists the hazards with
their lines.

What makes each part correct:

* sessions: waiting always ends (a timer is running, retries run out); what is
  repeated is what should be repeated now; sequence numbers only go forward in
  the order the peers use; every CREATE gets an answer and a promise in an answer
  is kept; objects installed by an active session are asked to be removed before
  it goes away;
* dispatcher and manager: one thread at a time in a session; a session in use
  is not deleted and none is deleted twice; an open session can be found; a
  thread comes back for the next event (with several threads not all of this is
  so, see the runs);
* daemon, queues, rule installer: a request is not lost, repeated or overtaken on
  its way to the auction process, its answer reaches the session, and a daemon
  told to stop comes to its end unless a lock was left behind;
* messages: what a session composed is what the peer parses; the parser comes
  to an end with every payload and loses no object of it;
* two ends of a path: what one end believes of the other is true in spite of the
  network between them, and neither end stays up for ever without the other.

## Modules

`Session` is extended by the three session modules.  It has the variables all
sessions share and the operators for serial numbers (`is_greater_than`,
`next_msg_sequence_number`), messages and responses, lifetimes
(`check_lifetime`), rules, timers, and the ways a handler ends.

*One step of a session module is one call of `session::process`*, made with the
session's lock held.  Every branch of a `handle_state_` function is an action,
named for the state and the event; the action contains everything the branch
does.  `fate` tells what the dispatcher does afterwards: a session back in
`STATE_ANSLP_CLOSE` is removed (`final`), a handler that throws takes the
session out of the table (`thrown`), a failed assertion ends the daemon
(`abort`).

| module | models |
|---|---|
| `Session` | what the sessions share |
| `NISession`, `NRSession`, `NFSession` | the three state machines, each in an arbitrary environment |
| `Lifecycle` | abstract: what a session promises about installed objects |
| `Dispatcher` | dispatcher threads, session table, finished list, locks |
| `MCDispatcher` | `Dispatcher` with the choice of how many threads are started, and the symmetry set for TLC |
| `Daemon` | `Dispatcher` with startup, main loops, mapper, rule installer, auction process' queue, shutdown |
| `MCDaemon` | `Daemon` with its configurations and arriving messages |
| `Codec` | object store, composition, encoding and parsing of messages |
| `MCCodec` | `Codec` with payloads of other software |
| `Path` | `NISession` and `NRSession` over a network that loses, reorders and duplicates |
| `Session_proofs` | lemmas about what the sessions share, and what the abstract life cycle promises |
| `NISession_proofs`, `NRSession_proofs`, `NFSession_proofs`, `Dispatcher_proofs`, `Daemon_proofs`, `Codec_proofs`, `Path_proofs` | theorems |

Abstractions, all in the data:

* A message is its kind, direction, sequence number, lifetime and, for a
  RESPONSE, whether it is a success.  Addresses and the rest of the routing
  information are left out; the direction flag stays because responses invert it.
* Of a rule only the numbers of request and of response objects are kept: they
  are all the state machines test.
* A timer is armed or not.  `armed` holds the timers whose *current* message is
  on its way, `outdated` says that some superseded message is.  How long a timer
  runs is left out: any armed timer may fire at any time.
* `out` holds the messages sent by the last step, `posted` the kinds of request
  put into the auction process' queue so far.
* The environment delivers any event at any time, so loss, duplication, delay
  and reordering need no model of the network.  The auction process answers only
  kinds of request that were posted, with any number of objects.
* The counter for bids (`msn_bidding`) is left out.
* `CheckFilter`: the loop that drops unconfirmed objects (`nr_session.cpp`
  483-509, the same in `nf_session.cpp`) erases from a map while a reverse
  iterator walks over it.  Its outcomes, found by compiling the loop, are a
  nondeterministic choice; with one unconfirmed object it crashes.
* `awaiting` in `NFSession` is a history variable: a REFRESH was passed on and
  not answered.

In `Dispatcher` the state machine is reduced to what the dispatcher sees of it,
whether the session is final.  A step is a call that is atomic for the other
threads: a method of the manager (under its mutex), one mutex operation, one run
of the state machine (under the session's lock).  Ids and objects come from
finite sets; `api_create` draws an id nobody has used.  A thread may hold a
session that another has removed; what a closed session does with an event other
than a CREATE is undefined for a forwarder (`handle_state_close` returns no
value), so `Process` leaves it open.

### Daemon

`daemon` and `gist` are where the daemon and GIST are in their lives (`startup`
and `Register` are the two halves of `anslp_daemon::startup`, `shutdown` and
`unregister` those of `anslp_daemon::shutdown`).  `input` is the daemon's queue
of messages, `requests` the auction process' queue, a `FastQueue` each.  A thread
takes a message, maps it to an event (`map_to_event` and the operators before it
are the mapper's methods) and processes it.  The state the loop tests may change
while the thread waits for a message, so a thread may take one more message of a
daemon that was told to stop.  How many threads there are is part of the
configuration (`config.threads`).

`Daemon` instantiates `Dispatcher` (`D`): the variables `pc` ... `crashed` are the
dispatcher's, and every step of a thread inside `dispatcher::process` is an action
of `Dispatcher` together with what the rest of the daemon does in it.  So lookup,
creation, lock, state machine, unlock, `is_final` and removal are steps of their
own, an exception leaves the lock held, and a thread may wait for the lock of a
session that is no longer in the table.  The state machine takes three steps: the
handler decides (`process_event`), calls the rule installer (`call_installer`),
and returns the new state (`set_state`) or an exception (`process_event_Throws`);
other threads and the auction process run in between.

Of a session its class and its state are kept (`sessions`, per session object).
`ni_session`, `nr_session` and `nf_session` list, for every state and event, the
outcomes the handlers of `NISession`, `NRSession` and `NFSession` have: the state
they return and the call of the rule installer they make.  What decides between
the outcomes (numbers of objects, sequence numbers, retries, lifetimes) is a
nondeterministic choice, so there are more behaviours than the sessions have,
never fewer.  In particular a forwarder goes from the check to PENDING without a
call and installs on the RESPONSE; an installation that falls short ends without
a removal request, except for the objects of a former life of a session that was
opened again; failed assertions are outcomes (`abort`).  `AfterThrow` says which
handlers catch the installer's exception.

`config` holds the three parameters that choose and steer the installer; `Nop` is
the installer that ignores calls.  GIST, the timer module, the thread library and
the auction process are external: they are modelled as the daemon uses them (the
auction process serves its queue in order, answers with an event in the input
queue, and may close its queue).  `lastRequest` (the last request to install or
remove a session decided on, set with the decision, not with the posting) and
`dangling` are history variables.

### Codec

A behaviour composes one of the messages that sessions and dispatcher build,
checks it, serializes it and parses it at the peer, or it parses a payload of
other software.  Composing, writing and parsing take one object a step: `todo`
holds the objects a session has yet to set, then the keys `serialize` has yet to
write; `size` is what `get_serialized_size` returned, the length of the payload
that is reserved before anything is written.  `sent` and `parsed` are histories.
An object that is missing when `serialize` asks for it is undefined behaviour:
the call runs off the end of `serialize_object` (`RunOffTheEnd`) or writes
nothing (`WriteNothing`), depending on the build.  The size of a message is a sum
over its objects; it is stated as the number of their bytes.  `set`, `get`, `getMaxSequence` and
`set_object` are the object store with its keys compared by a sum; the records
`anslp_create` ... `anslp_bidding` say for each class what `serialize` writes in
which order and what `check` asks for; `deserialize_value`, `deserialize_ipap`
and `deserialize_object` give the outcome of parsing one object: read, refused
with an entry in the error list, refused silently, or thrown.

The scale is smaller than the code's: words of 2 bytes, lengths below 4 words
instead of 2^12, object types numbered from 1 in the same order.  The inside of
an IPAP message belongs to a library; it is a body whose first byte is its
length, which is what the code uses of it: how many bytes an import consumed.

### Path

`Path` instantiates `NISession` and `NRSession` with disjoint variables and keeps
every message ever sent in `sent`, from which either end takes messages never,
once or often.  The dispatcher's `create_session` gives the receiver a new
session for a CREATE that has none, a duplicate included, at most `MaxReopened`
times.  Bids are left out.  Forwarders are not composed: `NFSession` does not
keep the lifetime a RESPONSE carries, which the two ends compare.

## Runs

All runs use `CHECK_DEADLOCK FALSE`: a session that has ended, a parsed message
and a daemon that has stopped take no further step, and in `Dispatcher` the
supply of session objects is bounded.

| run | checks |
|---|---|
| `NISession` | retry bounds and types; a timer guards every waiting state and exactly one timer runs in AUCTIONING; the message to repeat exists and has the present lifetime; teardown is for good; messages are fresh; the life cycle is implemented; pending and torn-down sessions end |
| `NRSession` | every CREATE answered once with the truth; promises kept and within the configured maximum; timer always running; the life cycle; pending ends; soft state |
| `NFSession` | a success passed up answers the CREATE held now and only after a complete installation; every abandoned pending session is reported to a neighbour; timer always running; the life cycle; soft state |
| `Dispatcher` | any number of threads (one and two): mutual exclusion and no double deletion; one thread, the default of `dispatcher-threads` (`Alone...`): a removal finds its session, an open session can be found, the finished list deletes no session in use.  None of the last three holds with two threads, see below |
| `Codec` | the store keeps all objects of a message apart and in order; the size reserved is the size written; a message whose objects fit their length field is neither refused nor changed on its way; the parser ends with every payload |
| `DaemonAnswers` | one thread, sessions of all three kinds: an answer to a check, an installation or a removal that is under way gets the session out of the state in which it waits |
| `DaemonThreads` | all kinds of message, every configuration with one thread and a node that installs rules with two: the auction process has a session's objects exactly if the last decision was to install them, although decision and posting are separate steps; a daemon told to stop comes to its end, unless (with two threads) a thread waits for a lock that another thread's exception left behind |
| `Path` | the initiator is active only if the receiver accepted that very CREATE, with no longer lifetime than admitted; an agreed teardown is not undone by REFRESHes under way; a receiver does not outlive its initiator for ever |

Four runs refute what the code says of itself; `PROJECT.json` quotes the lines.

| run | claim refuted |
|---|---|
| `NIRefreshAssert` | the assertion that a REFRESH was sent before anything is compared with it |
| `NFMismatch` | that the initiator gets the error when the forwarder's installation falls short |
| `DispatcherBlocked` | that processing an event takes care of the lock (two threads, an exception) |
| `CodecMissing` | that serializing a missing object throws: for every error RESPONSE it runs off the end of a function |

More claims that do not hold are stated in the modules and can be checked by
naming them in a configuration as `INVARIANT` (or `PROPERTY`, for the action
properties):

| claim | module, change to the configuration | what TLC shows |
|---|---|---|
| `PartialInstallationRemoved` | `NRSession` | "Uninstall the previous rules." (`nr_session.cpp` 608): a partial installation is torn down and the session closes without a removal request |
| `TeardownNotUndone` | `NFSession`, `LIMIT = 3` | "Wait confirmation to close session" (`nf_session.cpp` 1145): the number of the teardown is not recorded, an older REFRESH delivered late revives the session |
| `ResponseTimerMeansWaiting` | `NFSession` | "the upstream peer is still waiting for a response" (`nf_session.cpp` 1194): the response timer also runs after the installation and after an answered REFRESH |
| `RemovalSafe` | `Dispatcher`, `DispatcherBlocked.cfg` | "If there is no session with this ID, NULL is returned." (`session_manager.cpp` 223): `remove_session` uses `s->get_id()` of what it found (243); two threads that hold one session remove it both, and the second removal dereferences a null pointer |
| `CreateOnlyIfAbsent` | `Dispatcher`, `DispatcherBlocked.cfg` | "This method may only be called if the session manager doesn't already have" a session for the event (`dispatcher.cpp` 212): lookup and creation are two calls, and two threads with a CREATE for one id both open a session |
| `OpenSessionsInTable` | `Dispatcher`, `DispatcherBlocked.cfg` | "Instances of this class are thread-safe." (`session_manager.h` 58): of two sessions created for one id only the second is in the table, and the first, left open, is found by no event |
| `NoUseAfterDelete` | `Dispatcher`, `DispatcherBlocked.cfg`, `Objects` of 3 | a thread that looked a session up still works on it when the finished list, once full, deletes it |
| `ShutdownCompletes` without `Blocked` | `MCDaemon` | "A timeout makes sure the loop condition is checked regularly." (`anslp_daemon.cpp` 292): a thread that waits for the lock of an aborted session never tests the condition again (two threads) |
| `ErrorsRecorded` | `MCCodec` | the mapper asserts that a refused payload left an error (`gistka_mapper.cpp` 258): padding that is not 0 is refused silently |
| `RulesRemovedAtShutdown` | `MCDaemon` | `remove_all` logs "Removing all auction rules" and removes none (`netauct_rule_installer.cpp` 357) |
| `ReturnQueueExists` | `MCDaemon` | the return queue named in a check or a removal lives on the stack of a call that has returned (`netauct_rule_installer.cpp` 199, 311) |

Met on the way and modelled, without a statement of their own: `setup_session`'s
assertion fails for a lifetime of 0 (`ApiCreateAssertFails`); the forwarder's
getter has the same unguarded assertion as the initiator's
(`AuctioningOtherAssertFails`); the initiator, too, abandons an installation
without asking for its removal although a comment says "In any case, we call the
function to remove the rule" (`AbandonInstallation`, whose condition no state
satisfies); a CREATE that replaces another is not checked against the maximal
lifetime (`PendingCreateReplaced`); a BIDDING without objects fails `check`, which `create_api_msg`
takes for a programming error (`CheckFails`); at the end of a payload an object
with a value throws through the mapper (`ObjectThrows`); a duplicate of the
CREATE opens a receiver's session again after an agreed teardown
(`create_session` of `Path`, which `TeardownEffective` therefore excludes and
`OrphanEnds` shows to end).

### Bounds

* `LIMIT` is half the sequence number space, 2 or 3 instead of 2^31.  With 2
  there are numbers that are newer, older and incomparable, and the counter
  wraps around within a session; `TeardownNotUndone` needs two numbers newer than
  a third, hence 3.  `Path` uses 4, starts at 6 and allows 4 numbers, so that
  the counter wraps around in mid-session and all numbers stay comparable.
* `Lifetimes`: 0 (teardown), admitted ones and one above `MaxLifetime`.
* `MaxRetries`: 1 or 2, so that both sides of every retry test are taken and, at
  the receiver, whose first check counts as a try, a retry happens.
* `MaxObjects` 2: none, one, some and all objects confirmed or installed.
* `Objects` 3 and `DoneSize` 1 in `Dispatcher`: a third session pushes the first
  out of the finished list while the second is in it.
* `Codec`: up to 2 IPAP objects of up to 7 bytes (with and without padding, on
  both sides of the length field's limit of 3 words), 2 values, all payloads of
  up to 5 bytes after the message header with a known and an unknown message type,
  and payloads of two objects, a repeated unique object among them.
* `Daemon`: one session id that others know, besides those of initiators' sessions,
  and 2 or 3 messages from outside.  Two messages open a session and end it (a
  CREATE, whose check and installation follow from the auction process' answers,
  and a timer), give two threads events of one session, or open two sessions for
  one id; three also leave one in the queue at the shutdown.  A second id would
  only repeat what the first shows: sessions of different ids share nothing but
  the queues.  `DoneSize` is the code's 300, so that no session is deleted;
  `Dispatcher` covers the deletion.  `DaemonThreads` has 2 messages of all kinds;
  `DaemonAnswers` has 3, of the kinds that open sessions and take them to the
  states in which they wait, and one thread.  `AnswersReachSessions` was
  also checked with two threads and two messages, with the same result.
* `Path`: one retry, one object, one session reopened.  With one reopened
  session, a CREATE, its retransmission and their RESPONSEs of both sessions are
  under way at once.

### Fairness

`WF` on the actions of each timer: the timer module delivers every message it
was asked for.  Nothing is assumed of the network, the user or the auction
process.  `PendingEnds` and `TeardownCompletes` need no more because the
timers concerned are restarted only by their own firing, each time with a retry
used up.  `SoftState` of receiver and forwarder is conditional: events that
start the state timer anew could postpone its firing for ever, so the property
asks for the end only when they stop.  In `Dispatcher`, a thread that can go on
does.  `Daemon` assumes that threads that can go on do, that GIST starts, and that
the auction process serves its queue (not that it never closes it); it does not
assume that messages arrive or that anyone stops the daemon.  `Codec` assumes
that the mapper's thread goes on.  `Path` assumes of the receiver's state timer
only what the timer module gives: if it is not restarted again and again by
accepted REFRESHes, it fires; nothing is assumed of the network or the
initiator, which may die.

## Proofs

All theorems hold for every value of the constants that satisfies the `ASSUME`s
of the modules (`LIMIT > 1`, 0 is a lifetime, retry and object bounds are
naturals, `None` is not a thread, id or object, the messages that arrive at the
daemon are of the kinds GIST delivers, a session uses at most `LIMIT` sequence
numbers, an object may have at least one word, a payload is a sequence of bytes).  Every inductive invariant was checked with TLC on the run of its
module before it was proved.

**`Session_proofs`.**  Lemmas the three kinds of session share: the next sequence
number is newer, of two numbers at most one is newer, a checked lifetime is one
the node admits, a RESPONSE repeats the number of what it answers and travels
the other way, and how `state` and `fate` read as a phase of the life cycle.
`LifecycleReleases`: a session that implements `Lifecycle` has asked for the
removal of its objects when it is gone.  With the `Refinement` theorem of each
kind of session this gives `ObjectsReleased` for initiator, receiver and
forwarder, without looking at their handlers again.

**`NISession_proofs`.**  The invariant `IInv` is inductive.  Beyond the checked
invariants it says that a session that was not yet active has sent no REFRESH
and holds no objects, that the rule asked to be installed never records
response objects (`NothingHeldYet`), and that a session waiting for a removal
asked for it (`RemovalAsked`).  Types alone are not inductive: a retransmission
sends the kept message, which must be shown to exist.  The REFRESH kept for
repetition carries the present lifetime only because the one step that takes
the lifetime over from the path happens before any REFRESH.  From `IInv`:
`TypeCorrect`, `TimersGuardStates`, `RetransmissionsPossible`,
`ObjectsReleased`; with the lemma on what a step sends (`EveryStepSends`) also
`TeardownsAreFinal` and `MessagesAreFresh`, the latter for every size of the
number space; and `Refinement`, that the session implements `Lifecycle`.

**`NRSession_proofs`.**  The strengthening: a session in the table keeps the
CREATE that opened it and a new one keeps none (`CreateKept`), no object is
recorded as installed before the installation is confirmed (`NothingHeldYet`),
and the lifetime is one the configuration admits (`LifetimeAdmitted`).  Types
are not inductive without `CreateKept`: giving up answers the kept CREATE.  From
it `TypeCorrect` and `TimerGuards`; with `EveryStepSends`, which says what each
step sends and when the pending phase ends, `CreatesAnswered` (exactly one
RESPONSE per CREATE) and `PromisesKept` (a promised lifetime is kept, admitted
and timed); and `Refinement`.

**`NFSession_proofs`.**  As above, with the RESPONSE the session holds back while
its own objects are installed: it is a success and answers the CREATE held now
(`ResponseKept`), which is what `SuccessesAnswerCreate` needs when a newer CREATE
replaces the one under way.  Also `TypeCorrect`, `TimerGuards`,
`PendingEndsReported` and `Refinement`.

**`Dispatcher_proofs`.**  For any numbers of threads, ids and objects and any
length of the list: `TypeCorrect`, `SessionsExclusive` (a thread past `acquire`
owns the lock), `NoDoubleDelete` (table, finished list and deleted sessions are
disjoint; this needs that the table leads from an id to a session of that id, so
a removed session is at no other place in the table).  If there is one thread
only, `RemovalsSafe` (removals find their session), `OpenSessionsFound` (open
sessions stay in the table) and `DeletedNotUsed` (no deleted session is used);
they rest on `OneAtATime`: the only thread works on the session the table has and
removes only a closed one.

**`Daemon_proofs`.**  For any numbers of threads, ids and messages, every
configuration and every length of the finished list: `TypeCorrect`, and
`RequestsServedInOrder` (`AuctionProcessUpToDate`).  The dispatcher's invariant is
taken from `Dispatcher_proofs` through an instance (`DP`): every step of the
daemon is a step of the dispatcher or leaves it alone (`DispatcherStep`).
`AuctionProcessUpToDate` says nothing of requests still queued or not yet posted,
so it is not inductive; `RequestsInOrder` is: until the queue is shut down, for
each id that only one session object was opened under, every thread that has
decided on a request and not yet posted it has the last one decided on, and there
is such a thread, or the last request about the session in the queue is the last
one decided on (`Queued`), or there is none and what is installed agrees with it
(`Settled`).  The step that needs the lock is the next decision
(`NobodyElsePosts`): the thread that acquires the session's lock finds no other
thread between decision and posting, because such a thread owns the lock
(`LockHeld` of the dispatcher).  Two session objects of one id have two locks, which
is why the property asks for one (`Alone`).  No thread is at work while the
installer is made or deleted (`ThreadsAway`).

**`Codec_proofs`.**  For any values, any number and length of IPAP objects, any
width of the length field and any payloads of other software: `TypeCorrect`,
`ObjectsKept` (`StoreKeepsObjects`) and `MessagesArriveUnchanged`
(`ArrivesUnchanged`).  The last speaks of the end of a message only, so the
invariant has to say where encoder and parser stand between two objects.

* The store (`ParserInv`, and `Composition` for the message composed): the keys
  of one type are numbered without a gap from 1, and a type other than IPAP has
  the number 1 only.  Keys are compared by the sum of type and number; two
  different keys have different sums only because IPAP is the largest type
  (`SameKeyIsEqual`).  A new IPAP object therefore gets a number nobody has
  (`NewKeyIsNew`), and `set_object` adds an entry and replaces none
  (`SetObjectAdds`).
* The encoder (`EncoderInv`): what is set and what is still to be set together
  are a message the sessions compose (`ToBeSet`); each object written stands in
  the payload at its place, one after the other (`SentInBuffer`); what is written
  and what is still to be written are the objects of the store, each once, IPAP
  objects in the order of their numbers (`ToBeWritten`).  So the bytes written
  and the bytes of an object not yet written never exceed the size reserved
  (`RoomForObject`), and in the end there is nothing left to fill up
  (`PayloadComplete`).  Sizes are cardinalities, which the theorems on finite sets
  handle; a recursive sum would need an induction.
* The parser (`ParserFollows`): it stands at the place of the next object
  written, and its store has the entries of those before it.  `ReadBack` is the
  step: at such a place `deserialize_object` returns the object `serialize` wrote,
  with header, length field and padding.  This is where the objects must fit
  their length field: a longer one has its length cut off, and the precondition
  `Fits` of `ArrivesUnchanged` cannot be dropped.

**`Path_proofs`.**  The invariants of the two sessions together, whatever the
network loses, delays, reorders or repeats: `ActiveIfAccepted` and
`TeardownsTakeEffect`.  `IInv` contains the sessions' own invariants, taken from
their proof modules through an instance of each (`NIP`, `NRP`), and four facts
between the ends.  No two requests of the initiator share a sequence number
(`NumbersDistinct`): each has one of the last `used` numbers, counted backwards
through the wrap-around, and there are never more than `LIMIT`.  What the sessions
keep for repetition or to answer was sent (`KeptMessagesSent`), so repetitions add
nothing.  A RESPONSE of success is true of the receiver (`AnswersTrue`): it has
the number of a request that was sent; if that is a CREATE, a session became
active with it, and if it is a teardown, the session is over or a new one was
opened.  And what the initiator was told stays so (`AgreedIsOver`), since no event
brings a session back that is over.  With distinct numbers the RESPONSE the
initiator takes for its answer can only belong to the request it waits for.

Only model-checked: the liveness properties (`PendingEnds`, `TeardownCompletes`,
`SoftState`, `AnswersReachSessions`, `ShutdownCompletes`, `OrphanEnds`,
`ParserEnds`).  They rest on fairness, which is out of the prover's reach.  `ParserEnds` together with the proved `ArrivesUnchanged` says that a message
of a session that was sent and fits its length fields arrives as it was composed.

## Not modelled

* The inside of IPAP messages, their XML form (`anslp_ipap_xml_message.cpp`) and
  the splitter (`anslp_ipap_message_splitter.cpp`): conversions of auction data,
  field by field, with libipap and libxml2, which are not in the repository.
  They keep no state between calls and take no part in the protocol.
* `execute_command` of the rule installer and the functions that read its answers
  (HTTP with libcurl): no code of the daemon calls them.
* Configuration files and the benchmark journal: parameters are CONSTANTS or
  `config`, measurements change nothing.
* The durations of timers, addresses and routing information.
* A path with forwarders: the forwarder is checked in an arbitrary environment
  only.

## Plan

1. Done: sessions, life cycle, dispatcher, daemon with rule installer and queues,
   messages, initiator and receiver over a network; proofs of the safety
   properties of all of them.
2. Open: the lifetime of a RESPONSE in `NFSession`, and with it a path with a
   forwarder.
