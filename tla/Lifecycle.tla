----------------------------- MODULE Lifecycle -----------------------------
(***************************************************************************)
(* What every kind of signalling session promises about the objects it has *)
(* the auction process install: a session that was active while holding    *)
(* installed objects never just goes away, it first asks for their removal *)
(* and passes through a releasing phase.  The specification says nothing   *)
(* of messages, timers and retries.                                        *)
(*                                                                         *)
(* NISession, NFSession and NRSession are shown to implement Spec.         *)
(***************************************************************************)
VARIABLES
    phase,  \* idle, pending, active, releasing, gone or failed
    held,   \* the session's rule records installed objects
    asked   \* the auction process was asked to remove the session's objects

vars == <<phase, held, asked>>

Init ==
    /\ phase = "idle"
    /\ held = FALSE
    /\ asked = FALSE

\* The first event opens the session, with nothing installed, or is refused.
Open ==
    /\ phase = "idle"
    /\ phase' \in {"pending", "active", "gone"}
    /\ UNCHANGED <<held, asked>>

\* The installation was confirmed, possibly with no object to install.
Activate ==
    /\ phase = "pending"
    /\ phase' = "active"
    /\ held' \in BOOLEAN
    /\ UNCHANGED asked

\* The session is given up before anything was confirmed.
Abandon ==
    /\ phase = "pending"
    /\ phase' \in {"releasing", "gone"}
    /\ UNCHANGED <<held, asked>>

Release ==
    /\ phase = "active"
    /\ held
    /\ phase' = "releasing"
    /\ asked' = TRUE
    /\ UNCHANGED held

Leave ==
    /\ phase = "active"
    /\ ~ held
    /\ phase' = "gone"
    /\ UNCHANGED <<held, asked>>

ReleaseAgain ==
    /\ phase = "releasing"
    /\ asked' = TRUE
    /\ UNCHANGED <<phase, held>>

Finish ==
    /\ phase = "releasing"
    /\ phase' = "gone"
    /\ UNCHANGED <<held, asked>>

\* The session's handler threw, or the daemon died.
Fail ==
    /\ phase \in {"idle", "pending", "active", "releasing"}
    /\ phase' = "failed"
    /\ UNCHANGED <<held, asked>>

Next ==
    \/ Open \/ Activate \/ Abandon \/ Release \/ Leave
    \/ ReleaseAgain \/ Finish \/ Fail

Spec == Init /\ [][Next]_vars

(***************************************************************************)
(* A session that is gone and held installed objects has asked the auction *)
(* process to remove them (remove_auction_rules).                          *)
(***************************************************************************)
InstalledObjectsReleased == phase = "gone" /\ held => asked
=============================================================================
