------------------------------- MODULE Barrier -------------------------------
(***************************************************************************)
(* What a barrier promises to the caller that opens it, independently of   *)
(* counters, lists and timers: while it is open any set of keys may be     *)
(* awaited; once it is committed the awaited set only shrinks; it releases *)
(* exactly once, because nothing is awaited any more or because time ran   *)
(* out; and it never waits for nobody.                                     *)
(***************************************************************************)
EXTENDS FiniteSets

CONSTANT Keys   \* whatever can be enrolled: swc enrols windows

VARIABLES
    phase,      \* "none", "open", "waiting" or "released"
    awaited,    \* the keys whose answer is still owed
    outcome     \* how the barrier was released: "none", "answered", "expired"

barrierVars == <<phase, awaited, outcome>>

BarrierTypeOK ==
    /\ phase \in {"none", "open", "waiting", "released"}
    /\ awaited \subseteq Keys
    /\ outcome \in {"none", "answered", "expired"}

BarrierInit ==
    /\ phase = "none"
    /\ awaited = {}
    /\ outcome = "none"

\* A new barrier, with nobody awaited; it may take the place of a released one.
Open ==
    /\ phase \in {"none", "released"}
    /\ phase' = "open"
    /\ awaited' = {}
    /\ outcome' = "none"

\* Before the commit keys come, answer and go freely.
Collect ==
    /\ phase = "open"
    /\ awaited' \in SUBSET Keys
    /\ UNCHANGED <<phase, outcome>>

\* The commit starts the wait, unless nobody is awaited.
StartWait ==
    /\ phase = "open"
    /\ awaited # {}
    /\ phase' = "waiting"
    /\ UNCHANGED <<awaited, outcome>>

\* One key less to wait for, and others remain.
Shrink ==
    /\ phase = "waiting"
    /\ awaited' # {}
    /\ awaited' \subseteq awaited
    /\ UNCHANGED <<phase, outcome>>

\* Nothing is owed any more: at the commit or later.
ReleaseAnswered ==
    /\ phase \in {"open", "waiting"}
    /\ phase = "open" => awaited = {}
    /\ awaited' = {}
    /\ phase' = "released"
    /\ outcome' = "answered"

\* Time ran out, or no timer could be had, with somebody still awaited.
ReleaseExpired ==
    /\ phase \in {"open", "waiting"}
    /\ awaited # {}
    /\ phase' = "released"
    /\ outcome' = "expired"
    /\ UNCHANGED awaited

\* Late answers after the release change nothing that the caller can see.
Late ==
    /\ phase = "released"
    /\ awaited' \subseteq awaited
    /\ UNCHANGED <<phase, outcome>>

Discard ==
    /\ phase # "none"
    /\ phase' = "none"
    /\ awaited' = {}
    /\ outcome' = "none"

Release == ReleaseAnswered \/ ReleaseExpired

BarrierNext ==
    \/ Open \/ Collect \/ StartWait \/ Shrink
    \/ Release \/ Late \/ Discard

BarrierSafety == BarrierInit /\ [][BarrierNext]_barrierVars

\* A wait always ends, by its release or with the barrier itself.
BarrierSpec == BarrierSafety /\ WF_barrierVars(phase = "waiting" /\ (Release \/ Discard))
==============================================================================
