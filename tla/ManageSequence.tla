--------------------------- MODULE ManageSequence ---------------------------
(***************************************************************************)
(* The sequencing core of wm/river_wm.c: the phase of the manage/render    *)
(* loop, the dirty flag and the idle callback that turn changes into       *)
(* sequences, the one bound window manager, which may come and go, clients *)
(* that were told "unavailable" because there is one, and the cohort of    *)
(* windows that libswc/window.c settles between manage_finish and          *)
(* render_start.  WindowCohort models the inside of the cohort; here it    *)
(* has members and waits or not, holds their surfaces and leaves windows   *)
(* parked.                                                                 *)
(* The names every specification has are named for the sequence, since     *)
(* RelayoutProofs extends this module beside Transaction.                  *)
(*                                                                         *)
(* The manager is a client that plays by the protocol: it answers each     *)
(* start event once, in order, as late as it likes, or disconnects.  A     *)
(* client that was told "unavailable" may do as it likes.                  *)
(***************************************************************************)
EXTENDS Naturals, Sequences

CONSTANTS
    Windows,        \* the wl_surfaces a window can be mapped on, one at a time
    Allocations,    \* what transaction_create can do: {TRUE}, or also fail
    MaxUnanswered   \* bound: start events left unanswered while an unavailable
                    \* client makes a request

ASSUME AllocationsAssumption == Allocations \subseteq BOOLEAN /\ MaxUnanswered \in Nat

VARIABLES
    managed,        \* wm.manager is not NULL
    phase,          \* wm.phase
    dirty,          \* wm.dirty
    idle,           \* wm.idle: an idle callback is scheduled
    open,           \* wm.windows: the windows that are mapped
    cohort,         \* window_transaction: "none" or "waiting"
    members,        \* transaction_windows: enrolled in the waiting cohort
    parked,         \* presentable_windows: settled, not presented
    held,           \* surfaces with render_hold.held
    stranded,       \* history: those left held by a window that closed while parked,
                    \* until they take part in a cohort again
    unanswered,     \* start events the manager has not answered, oldest first
    inherited,      \* history: the manager bound while a cohort was waiting
    meddled         \* history: an unavailable client has moved the phase under this manager

windowVars == <<open, cohort, members, parked, held, stranded>>
managerPast == <<inherited, meddled>>
sequenceVars == <<managed, phase, dirty, idle, windowVars, unanswered, managerPast>>

Phases == {"idle", "manage", "settle", "render"}

\* Besides the types: without a manager the loop rests.
SequenceTypeOK ==
    /\ managed \in BOOLEAN
    /\ phase \in Phases
    /\ dirty \in BOOLEAN
    /\ idle \in BOOLEAN
    /\ open \subseteq Windows
    /\ cohort \in {"none", "waiting"}
    /\ members \subseteq open
    /\ parked \subseteq open
    /\ held \subseteq Windows /\ stranded \subseteq Windows
    /\ unanswered \in Seq({"manage_start", "render_start"})
    /\ inherited \in BOOLEAN /\ meddled \in BOOLEAN
    /\ ~managed => phase = "idle" /\ unanswered = <<>> /\ ~meddled

SequenceInit ==
    /\ managed = FALSE
    /\ phase = "idle"
    /\ dirty = FALSE
    /\ idle = FALSE
    /\ open = {}
    /\ cohort = "none"
    /\ members = {}
    /\ parked = {}
    /\ held = {} /\ stranded = {}
    /\ unanswered = <<>>
    /\ inherited = FALSE /\ meddled = FALSE

-----------------------------------------------------------------------------
\* schedule_sequence(), reached with wm.manager and wm.phase as given.
ScheduleSequence(hasManager, inPhase) ==
    /\ dirty' = TRUE
    /\ idle' = (idle \/ (hasManager /\ inPhase = "idle"))

\* begin_render(), the cohort's completion callback: whoever is the manager now
\* is told, whatever phase it is in.
BeginRender ==
    IF managed
    THEN /\ phase' = "render"
         /\ unanswered' = Append(unanswered, "render_start")
    ELSE /\ phase' = "idle"
         /\ UNCHANGED unanswered

\* manager_resource_destroy(); the answers it still owed go with it.
ForgetManager ==
    /\ managed' = FALSE
    /\ phase' = "idle"
    /\ unanswered' = <<>>
    /\ inherited' = FALSE /\ meddled' = FALSE

\* wl_resource_post_error() disconnects the client.
Reject ==
    /\ ForgetManager
    /\ UNCHANGED <<dirty, idle, windowVars>>

-----------------------------------------------------------------------------
\* Fault: the new manager waits for a change to be told of anything.
ConnectQuietly ==
    /\ ~managed
    /\ managed' = TRUE
    /\ inherited' = (cohort = "waiting")
    /\ UNCHANGED <<phase, dirty, idle, windowVars, unanswered, meddled>>

\* bind_manager().  While there is a manager, any other client is told "unavailable";
\* its object takes requests all the same: see Meddling.
Connect ==
    /\ ~managed
    /\ managed' = TRUE
    /\ inherited' = (cohort = "waiting")
    /\ ScheduleSequence(TRUE, phase)
    /\ UNCHANGED <<phase, windowVars, unanswered, meddled>>

\* The scheduled callback and a waiting cohort survive the manager.
Disconnect ==
    /\ managed
    /\ ForgetManager
    /\ UNCHANGED <<dirty, idle, windowVars>>

\* An output, a binding or a title changed, or a client asked (manage_dirty).
StateChanges ==
    /\ ScheduleSequence(managed, phase)
    /\ UNCHANGED <<managed, phase, windowVars, unanswered, managerPast>>

\* begin_manage()
BeginManage ==
    IF managed /\ phase = "idle"
    THEN /\ dirty' = FALSE
         /\ phase' = "manage"
         /\ unanswered' = Append(unanswered, "manage_start")
    ELSE UNCHANGED <<dirty, phase, unanswered>>

\* handle_idle()
HandleIdle ==
    /\ idle
    /\ idle' = FALSE
    /\ BeginManage
    /\ UNCHANGED <<managed, windowVars, managerPast>>

\* river_wm_add_window(), for a toplevel on a surface that may still be held
MapWindow(w) ==
    /\ w \notin open
    /\ open' = open \cup {w}
    /\ ScheduleSequence(managed, phase)
    /\ UNCHANGED <<managed, phase, cohort, members, parked, held, stranded, unanswered, managerPast>>

\* Fault: the cohort that completed is not forgotten, and its timer completes it again.
CompleteCohortAgain(these) ==
    /\ UNCHANGED <<cohort, members>>
    /\ parked' = these
    /\ BeginRender

\* transaction_done() and begin_render(), for a cohort of these windows.
CompleteCohort(these) ==
    /\ cohort' = "none"
    /\ members' = {}
    /\ parked' = these
    /\ BeginRender

\* Every member has answered, or time is up.
CohortCompletes ==
    /\ cohort = "waiting"
    /\ CompleteCohort(members)
    /\ UNCHANGED <<managed, dirty, idle, open, held, stranded, managerPast>>

\* window_finalize(): the window leaves its cohort, which ends its hold and completes
\* from inside this call if no other member owes an answer (lastOwed), and only then
\* is it taken off the list and a sequence scheduled.  A parked window is only taken
\* off the list of the parked: its surface stays held.
CloseWindow(w, lastOwed) ==
    /\ w \in open
    /\ open' = open \ {w}
    /\ IF w \in members /\ (lastOwed \/ members = {w})
       THEN CompleteCohort(members \ {w})
       ELSE /\ members' = members \ {w}
            /\ parked' = parked \ {w}
            /\ UNCHANGED <<cohort, phase, unanswered>>
    /\ held' = held \ (members \cap {w})
    /\ stranded' = stranded \cup (parked \cap {w})
    /\ ScheduleSequence(managed, phase')
    /\ UNCHANGED <<managed, managerPast>>

\* The next start event is the one the manager answers next.
Answers(event) ==
    /\ managed
    /\ unanswered # <<>>
    /\ Head(unanswered) = event

\* present_cohort(), and the windows enrolled after it are held.
PresentAndHold(enrolled) ==
    /\ held' = (held \ parked) \cup enrolled
    /\ stranded' = stranded \ enrolled

\* swc_transaction_begin(), the proposals, and swc_transaction_commit(), when the
\* manager then owes what is left.  The windows whose geometry changes are enrolled;
\* awaited says whether one of them owes an answer and a timer could be had.  While the
\* last cohort is still waiting, begin and commit do nothing; else what was parked is
\* presented first.
SettleCohort(left, allocated, enrolled, awaited) ==
    IF cohort = "waiting"
    THEN /\ phase' = "settle"
         /\ unanswered' = left
         /\ UNCHANGED <<cohort, members, parked, held, stranded>>
    ELSE IF ~allocated
    THEN /\ phase' = "settle"
         /\ unanswered' = left
         /\ parked' = {}
         /\ PresentAndHold({})
         /\ UNCHANGED <<cohort, members>>
    ELSE IF enrolled # {} /\ awaited
    THEN /\ phase' = "settle"
         /\ unanswered' = left
         /\ cohort' = "waiting"
         /\ members' = enrolled
         /\ parked' = {}
         /\ PresentAndHold(enrolled)
    ELSE /\ phase' = "render"
         /\ unanswered' = Append(left, "render_start")
         /\ parked' = enrolled
         /\ PresentAndHold(enrolled)
         /\ UNCHANGED <<cohort, members>>

\* Fault: wm.phase is set after the commit, over what begin_render() just set.
ManageFinishLate(allocated, enrolled, awaited) ==
    /\ Answers("manage_start")
    /\ enrolled \subseteq open
    /\ IF phase # "manage" THEN Reject
       ELSE /\ phase' = "settle"
            /\ unanswered' = Tail(unanswered)
            /\ parked' = enrolled
            /\ PresentAndHold(enrolled)
            /\ UNCHANGED <<managed, dirty, idle, open, cohort, members, managerPast>>

\* manager_manage_finish()
ManageFinish(allocated, enrolled, awaited) ==
    /\ Answers("manage_start")
    /\ enrolled \subseteq open
    /\ IF phase # "manage" THEN Reject
       ELSE /\ SettleCohort(Tail(unanswered), allocated, enrolled, awaited)
            /\ UNCHANGED <<managed, dirty, idle, open, managerPast>>

\* Fault: what became dirty during the sequence is not looked at.
RenderFinishForgetful ==
    /\ Answers("render_start")
    /\ IF phase # "render" THEN Reject
       ELSE /\ phase' = "idle"
            /\ parked' = {} /\ PresentAndHold({})
            /\ unanswered' = Tail(unanswered)
            /\ inherited' = FALSE
            /\ UNCHANGED <<managed, open, cohort, members, dirty, idle, meddled>>

\* Fault: what render_finish was to show stays held.
RenderFinishUnpresented ==
    /\ Answers("render_start")
    /\ IF phase # "render" THEN Reject
       ELSE /\ phase' = "idle"
            /\ unanswered' = Tail(unanswered)
            /\ inherited' = FALSE
            /\ IF dirty THEN ScheduleSequence(managed, "idle") ELSE UNCHANGED <<dirty, idle>>
            /\ UNCHANGED <<managed, windowVars, meddled>>

\* manager_render_finish(), in its phase, when the manager then owes what is left
PresentAndRest(left) ==
    /\ phase' = "idle"
    /\ parked' = {} /\ PresentAndHold({})
    /\ unanswered' = left
    /\ inherited' = FALSE
    /\ IF dirty THEN ScheduleSequence(managed, "idle") ELSE UNCHANGED <<dirty, idle>>
    /\ UNCHANGED <<managed, open, cohort, members>>

\* manager_render_finish()
RenderFinish ==
    /\ Answers("render_start")
    /\ IF phase # "render" THEN Reject
       ELSE PresentAndRest(Tail(unanswered)) /\ UNCHANGED meddled

Settling ==
    \E allocated \in Allocations, enrolled \in SUBSET Windows, awaited \in BOOLEAN :
        ManageFinish(allocated, enrolled, awaited)

\* The same requests of a client that was told "unavailable": its object has the
\* manager's implementation, and nothing is asked but the phase.  In another phase it
\* is disconnected, to no effect.
MeddleManage(allocated, enrolled, awaited) ==
    /\ phase = "manage" /\ Len(unanswered) < MaxUnanswered
    /\ enrolled \subseteq open
    /\ SettleCohort(unanswered, allocated, enrolled, awaited)
    /\ meddled' = TRUE
    /\ UNCHANGED <<managed, dirty, idle, open, inherited>>

MeddleRender ==
    /\ phase = "render" /\ Len(unanswered) < MaxUnanswered
    /\ PresentAndRest(unanswered)
    /\ meddled' = TRUE

Meddling ==
    \/ \E allocated \in Allocations, enrolled \in SUBSET Windows, awaited \in BOOLEAN :
          MeddleManage(allocated, enrolled, awaited)
    \/ MeddleRender

SequenceNext ==
    \/ Connect \/ Disconnect \/ Meddling
    \/ StateChanges \/ HandleIdle
    \/ \E w \in Windows : MapWindow(w)
    \/ \E w \in Windows, lastOwed \in BOOLEAN : CloseWindow(w, lastOwed)
    \/ Settling \/ CohortCompletes \/ RenderFinish

\* The event loop runs its idle callbacks, and a waiting cohort has a timer.
LoopFairness == WF_sequenceVars(HandleIdle) /\ WF_sequenceVars(CohortCompletes)

\* A manager that is alive answers in the end.
ManagerFairness == WF_sequenceVars(Settling) /\ WF_sequenceVars(RenderFinish)

SequenceSpec == SequenceInit /\ [][SequenceNext]_sequenceVars /\ LoopFairness /\ ManagerFairness

-----------------------------------------------------------------------------
\* A change the manager has not been told of never waits for another change: while
\* the loop rests, the callback that starts a sequence is scheduled
\* (river_wm.c 2037-2058, 2124-2137, 2192-2196, 2334).
NoLostWakeup == dirty /\ managed /\ phase = "idle" => idle

\* The loop waits for the windows only while there is a cohort whose completion
\* calls it back, even though that call can come from inside the commit, and even
\* with the cohort of an earlier manager still open (river_wm.c 2156-2175,
\* window.c 364-382, 417-428).
SettleIsAwaited == phase = "settle" => cohort = "waiting"

\* A manager sees the loop of the protocol, and each of its answers is accepted, but
\* in two cases: it inherited a waiting cohort from its predecessor, or a client that
\* was told "unavailable" has made the manager's requests, which the code obeys
\* though the comment on bind_manager says that object has no implementation.
TheLoop == INSTANCE ManageLoop WITH
    step <- IF managed /\ ~inherited /\ ~meddled THEN phase ELSE "gone",
    owed <- IF managed /\ ~inherited /\ ~meddled THEN unanswered ELSE <<>>

\* (river_wm.c 2037-2060, 2110-2111, 2149-2156, 2185-2192, 2321-2333)
ImplementsLoop == TheLoop!LoopSpec

\* Every change is told to a manager that stays and answers, whoever else makes
\* requests (river_wm.c 2114-2137, 2194-2196).
EveryChangeIsManaged == dirty ~> (~dirty \/ ~managed)

\* While a manager stays and answers, no surface is left with its content held, not
\* even one that a dead manager's cohort left parked, but for one: a window that closes
\* while parked leaves its surface held, and a new toplevel on it shows nothing until it
\* takes part in a cohort; then it is shown like any other (swc.h 607-608,
\* river_wm.c 2159, 2191, window.c 221-228, 321-345).
NothingStaysFrozen ==
    \A w \in Windows : w \in held \ stranded ~> (w \notin held \ stranded \/ ~managed)

==============================================================================
