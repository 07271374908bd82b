------------------------------ MODULE Repaint ------------------------------
(***************************************************************************)
(* Repainting: damage, scheduled updates and page flips of compositor.c,   *)
(* the frame events of primary_plane.c, and what switching the virtual     *)
(* terminal (launch.c on both sides of the socket, swc.c) does to them.    *)
(*                                                                         *)
(* Damage is kept by cell: the area that one view has on one screen.  A    *)
(* cell is stale while the screen shows something else there than what the *)
(* compositor would paint now.  A commit changes and damages the whole of  *)
(* its view; views do not change their size, and lie on a screen as long   *)
(* as they are visible.  A zoomed screen and opaque regions, which only    *)
(* change how much is painted, are left out.                               *)
(***************************************************************************)
EXTENDS Integers, FiniteSets, Sequences, Functions

CONSTANTS
    N,           \* screens, numbered in the order of swc.screens
    View,        \* views of windows
    MaxNotices,  \* bound on the unread events of the launcher
    Holding      \* whether surfaces are put under a render hold

ASSUME RepaintAssumption ==
    /\ N \in Nat \ {0}
    /\ MaxNotices \in Nat \ {0}
    /\ Holding \in BOOLEAN

Screen == 1 .. N
Cell == Screen \X View

\* An idle callback is perform_update, or the send_frame of a screen.
Update == 0
Launcher == 0

VARIABLES
    active,       \* swc.active
    launcher,     \* "on", "off", or "stopping": notice sent, master not dropped
    notices,      \* events of the launcher in the socket
    screens,      \* view->base.screens; empty if and only if it is hidden
    surfDamage,   \* views with surface->state.damage
    compDamage,   \* compositor.damage, as cells
    backlog,      \* damage recorded for a screen's next buffer (wld_surface)
    scheduled,    \* compositor.scheduled_updates
    pending,      \* compositor.pending_flips
    needModeset,  \* screens with plane->need_modeset
    flips,        \* page flips the kernel has accepted and not completed
    idles,        \* idle callbacks of the event loop, in order
    draining,     \* the loop is running them, and nothing else till it is done
    dispatched,   \* the descriptors this iteration of the loop has served
    wants,        \* views whose clients wait for a frame callback
    held,         \* views whose surface is under a render hold
    replay,       \* of those, the ones with a commit to replay
    stale,        \* history: the stale cells
    eaten,        \* history: held views whose damage was painted too early
    dropped,      \* history: stale cells whose damage was thrown away
    dormant       \* history: "begun" once the present schedule was begun while the
                  \* session was inactive, "missed" when its update came before
                  \* the session and no flip was pending to bring another

session == <<launcher, notices>>
loop == <<idles, draining, dispatched>>
hold == <<held, replay>>
vars == <<active, session, screens, surfDamage, compDamage, backlog, scheduled,
          pending, needModeset, flips, loop, wants, hold, stale, eaten, dropped, dormant>>

Visible == {v \in View : screens[v] # {}}
Cells(v) == screens[v] \X {v}

\* Where damage is recorded that a later repaint of its screen will cover.
Recorded == compDamage \union backlog

Init ==
    /\ active = FALSE /\ launcher = "off" /\ notices = <<>>
    /\ screens = [v \in View |-> {}]
    /\ surfDamage = {} /\ compDamage = {} /\ backlog = {}
    /\ scheduled = {} /\ pending = {} /\ needModeset = Screen
    /\ flips = [s \in Screen |-> 0]
    /\ idles = <<>> /\ draining = FALSE /\ dispatched = {}
    /\ wants = {} /\ held = {} /\ replay = {}
    /\ stale = {} /\ eaten = {} /\ dropped = {}
    /\ dormant = "no"

-----------------------------------------------------------------------------
(* Scheduling and damage.                                                  *)

\* schedule_updates: the idle callback is added with the first screen only.
Schedule(ss) ==
    /\ scheduled' = scheduled \union ss
    /\ idles' = IF scheduled = {} THEN Append(idles, Update) ELSE idles

\* update: what schedules for views does nothing while the session is inactive.
UpdateView(ss) ==
    IF active /\ ss # {} THEN Schedule(ss) ELSE UNCHANGED <<scheduled, idles>>

\* attach: the view shows another buffer and is repainted where it lies; one that
\* is resized by it is left out.
Attach(v) ==
    /\ UpdateView(screens[v])
    /\ stale' = stale \union Cells(v)

\* Cells are added to compositor.damage.
Damage(cells) ==
    /\ compDamage' = compDamage \union cells
    /\ dropped' = dropped \ cells

\* A descriptor of the loop is served.  The iteration ends with its idle
\* callbacks, at once if there are none.
Serve(fd) ==
    /\ ~draining
    /\ fd \notin dispatched
    /\ dispatched' = IF idles' = <<>> THEN {} ELSE dispatched \union {fd}
    /\ UNCHANGED draining

-----------------------------------------------------------------------------
(* perform_update, entered with the pending flips, the kernel's flips and  *)
(* the idle callbacks that the event being handled leaves.  `refused` is   *)
(* the first screen, in their order, whose buffer the kernel refuses with  *)
(* EACCES, or N + 1: after it swc_deactivate has cleared the scheduled     *)
(* updates, and the screens behind it are passed by.                       *)

\* A fault: a screen is repainted although it waits for a flip.
UpdatesAtOnce(waiting) == scheduled

\* The screens an update repaints, if the kernel accepts their buffers.
Updates(waiting) == scheduled \ waiting

\* A fault: screens that wait for a flip are passed over before their damage
\* is recorded.
OfferedWhenShown(damage, updates, refused) ==
    backlog \union {c \in damage : c[1] \in updates /\ c[1] <= refused}

\* wld_surface_damage, called in update_screen for every scheduled screen, also
\* if it waits for a flip and is passed over then.
Offered(damage, updates, refused) ==
    backlog \union {c \in damage : c[1] \in scheduled /\ c[1] <= refused}

\* Access ends with the launcher's last step, before or during an update.
Refusals(updates) ==
    {r \in updates \union {N + 1} :
        /\ launcher = "on" => r = N + 1
        /\ launcher = "off" => \A s \in updates : r <= s}

\* Screens in the order of swc.screens.
InOrder(ss) ==
    [i \in 1 .. Cardinality(ss) |->
        CHOOSE s \in ss : Cardinality({t \in ss : t < s}) = i - 1]

\* target_swap_buffers and the attach of the primary plane: a mode is set at
\* once and its frame sent from an idle callback, a flip is left to the kernel.
SwapBuffers(shown, flying, queue) ==
    /\ flips' = [s \in Screen |-> IF s \in shown \ needModeset
                                  THEN flying[s] + 1 ELSE flying[s]]
    /\ idles' = queue \o InOrder(shown \intersect needModeset)
    /\ needModeset' = needModeset \ shown

\* calculate_damage, and update_screen for every screen.
Repainted(updates, refused, waiting, flying, queue) ==
    LET painted == surfDamage \intersect Visible
        damage  == compDamage \union UNION {Cells(v) : v \in painted}
        offered == Offered(damage, updates, refused)
        shown   == {s \in updates : s < refused}
        fresh   == {c \in offered : c[1] \in shown}
    IN  /\ surfDamage' = surfDamage \ painted
        /\ eaten' = eaten \union (painted \intersect replay)
        /\ compDamage' = {}
        /\ backlog' = offered \ fresh
        /\ stale' = stale \ fresh
        /\ dropped' = (dropped \ fresh) \union
                      {c \in (damage \intersect stale) \ backlog : c[1] > refused}
        /\ pending' = waiting \union shown
        /\ SwapBuffers(shown, flying, queue)
        /\ active' = (refused > N)
        /\ scheduled' = IF refused > N THEN scheduled \ updates ELSE {}
        /\ launcher' = IF refused > N THEN launcher ELSE "off"
        /\ dormant' = "no"

PerformUpdate(waiting, flying, queue) ==
    LET updates == Updates(waiting)
    IN  \/ /\ ~active \/ updates = {}
           /\ pending' = waiting
           /\ flips' = flying
           /\ idles' = queue
           /\ dormant' = IF ~active /\ dormant = "begun" /\ waiting = {} THEN "missed" ELSE dormant
           /\ UNCHANGED <<active, launcher, surfDamage, compDamage, backlog,
                          scheduled, needModeset, stale, eaten, dropped>>
        \/ /\ active /\ updates # {}
           /\ \E refused \in Refusals(updates) :
                 Repainted(updates, refused, waiting, flying, queue)

\* handle_frame of surface.c: the views of a screen are told of its frame.
TellFrame(s) == wants' = wants \ {v \in View : s \in screens[v]}

\* A fault: what had to wait for the flip is not painted after it.
ScreenFrameOnly(s, flying, queue) ==
    /\ TellFrame(s)
    /\ pending' = pending \ {s}
    /\ flips' = flying
    /\ idles' = queue
    /\ UNCHANGED <<active, launcher, surfDamage, compDamage, backlog, scheduled,
                   needModeset, stale, eaten, dropped, dormant>>

\* handle_screen_frame: the screen shows its buffer, clients are told, and
\* what could not be painted while the flip was pending is painted now.
ScreenFrame(s, flying, queue) ==
    /\ TellFrame(s)
    /\ PerformUpdate(pending \ {s}, flying, queue)

-----------------------------------------------------------------------------
(* The event loop.                                                         *)

\* An idle callback is run: perform_update, or send_frame after a mode is set.
RunIdle ==
    /\ idles # <<>>
    /\ IF Head(idles) = Update
       THEN PerformUpdate(pending, flips, Tail(idles)) /\ UNCHANGED wants
       ELSE ScreenFrame(Head(idles), flips, Tail(idles))
    /\ draining' = (idles' # <<>>)
    /\ dispatched' = IF idles' = <<>> THEN {} ELSE dispatched
    /\ UNCHANGED <<notices, screens, hold>>

\* handle_page_flip: the kernel completes a flip, whoever has access by now.
PageFlip(s) ==
    /\ flips[s] > 0
    /\ ScreenFrame(s, [flips EXCEPT ![s] = @ - 1], idles)
    /\ Serve(s)
    /\ UNCHANGED <<notices, screens, hold>>

\* swc_activate, with its handlers in compositor.c and primary_plane.c.
SwcActivate ==
    /\ active' = TRUE
    /\ needModeset' = Screen
    /\ Schedule(Screen)
    /\ UNCHANGED dormant

\* A fault: the schedule outlives the session.
DeactivateOnly ==
    /\ active' = FALSE
    /\ dormant' = "no"
    /\ UNCHANGED <<scheduled, needModeset, idles>>

\* swc_deactivate, with its handler in compositor.c.
SwcDeactivate ==
    /\ active' = FALSE
    /\ scheduled' = {}
    /\ dormant' = "no"
    /\ UNCHANGED <<needModeset, idles>>

\* handle_data and handle_event of libswc/launch.c.
ReadNotice ==
    /\ notices # <<>>
    /\ notices' = Tail(notices)
    /\ \/ Head(notices) = "activate" /\ SwcActivate
       \/ Head(notices) = "deactivate" /\ SwcDeactivate
    /\ Serve(Launcher)
    /\ UNCHANGED <<launcher, screens, surfDamage, compDamage, backlog, pending,
                   flips, wants, hold, stale, eaten, dropped>>

-----------------------------------------------------------------------------
(* Clients and the window manager.                                         *)

\* What requests leave alone; and whether one began a schedule in vain.
Requested ==
    /\ ~draining
    /\ dormant' = IF ~active /\ scheduled = {} /\ scheduled' # {} THEN "begun" ELSE dormant
    /\ UNCHANGED <<active, session, backlog, pending, needModeset, flips,
                   draining, dispatched>>

\* surface_apply_pending: a new buffer, damage and a frame callback.
Commit(v) ==
    /\ surfDamage' = surfDamage \union {v}
    /\ wants' = wants \union {v}
    /\ eaten' = eaten \ {v}
    /\ \/ /\ v \in held
          /\ replay' = replay \union {v}
          /\ UNCHANGED <<scheduled, idles, stale, dropped>>
       \/ /\ v \notin held
          /\ Attach(v)
          /\ dropped' = dropped \ Cells(v)
          /\ UNCHANGED replay
    /\ Requested
    /\ UNCHANGED <<screens, compDamage, held>>

\* surface_hold_render
Hold(v) ==
    /\ Holding
    /\ v \notin held
    /\ held' = held \union {v}
    /\ UNCHANGED <<screens, surfDamage, compDamage, scheduled, idles, wants,
                   replay, stale, eaten, dropped>>
    /\ Requested

\* surface_release_render: the buffer is attached and an update scheduled; the
\* damage of its commits is still in surface->state, unless it was consumed.
Release(v) ==
    /\ v \in held
    /\ held' = held \ {v}
    /\ replay' = replay \ {v}
    /\ eaten' = eaten \ {v}
    /\ IF v \in replay
       THEN /\ Attach(v)
            /\ dropped' = IF v \in eaten
                          THEN dropped \union (Cells(v) \ Recorded)
                          ELSE dropped \ Cells(v)
       ELSE UNCHANGED <<scheduled, idles, stale, dropped>>
    /\ Requested
    /\ UNCHANGED <<screens, surfDamage, compDamage, wants>>

\* raise_window, which does not ask whether the session is active.
Raise(v) ==
    /\ v \in Visible
    /\ Damage(Cells(v))
    /\ stale' = stale \union Cells(v)
    /\ Schedule(screens[v])
    /\ Requested
    /\ UNCHANGED <<screens, surfDamage, wants, hold, eaten>>

\* compositor_view_show, which raises the window and damages its view.
Show(v, ss) ==
    /\ v \notin Visible
    /\ screens' = [screens EXCEPT ![v] = ss]
    /\ Damage(ss \X {v})
    /\ stale' = stale \union (ss \X {v})
    /\ Schedule(ss)
    /\ Requested
    /\ UNCHANGED <<surfDamage, wants, hold, eaten>>

\* compositor_view_hide
Hide(v) ==
    /\ v \in Visible
    /\ screens' = [screens EXCEPT ![v] = {}]
    /\ Damage(Cells(v))
    /\ stale' = stale \union Cells(v)
    /\ UpdateView(screens[v])
    /\ Requested
    /\ UNCHANGED <<surfDamage, wants, hold, eaten>>

\* move: the screens it leaves and those it comes to are updated.
Move(v, ss) ==
    /\ v \in Visible
    /\ screens' = [screens EXCEPT ![v] = ss]
    /\ Damage(Cells(v) \union (ss \X {v}))
    /\ stale' = stale \union Cells(v) \union (ss \X {v})
    /\ UpdateView(screens[v] \union ss)
    /\ Requested
    /\ UNCHANGED <<surfDamage, wants, hold, eaten>>

\* compositor_update_screens, after a screen was moved: views come to lie on
\* others, and all is damaged, active or not.
MoveScreen(placed) ==
    /\ \A v \in View : placed[v] = {} <=> v \notin Visible
    /\ screens' = placed
    /\ Damage(Cell)
    /\ stale' = Cell
    /\ Schedule(Screen)
    /\ Requested
    /\ UNCHANGED <<surfDamage, wants, hold, eaten>>

-----------------------------------------------------------------------------
(* The launcher (launch/launch.c), a process of its own.                   *)

launcherLeaves == <<active, screens, surfDamage, compDamage, backlog, scheduled,
                    pending, needModeset, flips, loop, wants, hold, stale,
                    eaten, dropped, dormant>>

\* deactivate: the notice is sent first ...
SendDeactivate ==
    /\ launcher = "on"
    /\ Len(notices) < MaxNotices
    /\ launcher' = "stopping"
    /\ notices' = Append(notices, "deactivate")
    /\ UNCHANGED launcherLeaves

\* ... and stop_devices takes the access away, without waiting for an answer.
StopDevices ==
    /\ launcher = "stopping"
    /\ launcher' = "off"
    /\ UNCHANGED <<notices, launcherLeaves>>

\* activate: start_devices, then the notice.
Activate ==
    /\ launcher = "off"
    /\ Len(notices) < MaxNotices
    /\ launcher' = "on"
    /\ notices' = Append(notices, "activate")
    /\ UNCHANGED launcherLeaves

Request ==
    \/ \E v \in View : Commit(v) \/ Hold(v) \/ Release(v) \/ Raise(v) \/ Hide(v)
    \/ \E v \in View, ss \in (SUBSET Screen) \ {{}} : Show(v, ss) \/ Move(v, ss)
    \/ \E placed \in [View -> SUBSET Screen] : MoveScreen(placed)

Next ==
    \/ RunIdle
    \/ \E s \in Screen : PageFlip(s)
    \/ ReadNotice
    \/ Request
    \/ SendDeactivate \/ StopDevices \/ Activate

\* The event loop runs its idle callbacks, and the kernel completes flips.
Fairness == WF_vars(RunIdle) /\ \A s \in Screen : WF_vars(PageFlip(s))

Spec == Init /\ [][Next]_vars /\ Fairness

-----------------------------------------------------------------------------
(* Properties.                                                             *)

FramesQueued(s) == Cardinality({i \in DOMAIN idles : idles[i] = s})

\* The variables have their types.  The callbacks that wait stay few: one
\* update for each time the schedule was emptied, one frame for each screen.
TypeOK ==
    /\ active \in BOOLEAN /\ draining \in BOOLEAN
    /\ launcher \in {"on", "stopping", "off"}
    /\ notices \in Seq({"activate", "deactivate"})
    /\ screens \in [View -> SUBSET Screen]
    /\ \A views \in {surfDamage, wants, held, replay, eaten} : views \subseteq View
    /\ \A cells \in {compDamage, backlog, stale, dropped} : cells \subseteq Cell
    /\ \A ss \in {scheduled, pending, needModeset} : ss \subseteq Screen
    /\ flips \in [Screen -> Nat]
    /\ dispatched \subseteq 0 .. N
    /\ idles \in Seq(0 .. N) /\ Len(idles) <= 2 * N + 2
    /\ dormant \in {"no", "begun", "missed"}

\* A screen waits for a flip exactly while one frame event is on its way to it,
\* from the kernel or from the event loop: never none, which would stop the
\* screen for good, and never two, of which the kernel would refuse one
\* (pending_flips against target_swap_buffers and handle_screen_frame).
FramesMatch ==
    TypeOK /\ \A s \in Screen :
        flips[s] + FramesQueued(s) = IF s \in pending THEN 1 ELSE 0

Kept == Recorded \union UNION {Cells(v) : v \in surfDamage}

\* What a screen shows wrongly is recorded as damage somewhere, in the surface,
\* the compositor or the screen's buffers, although compositor.damage is cleared
\* after every update and updates are skipped, refused and cut short; save what
\* was thrown away with the screens an interrupted update did not reach, or
\* painted during a hold.
DamageIsKept == stale \ dropped \subseteq Kept

\* Something is coming that will repaint the scheduled screens: an idle callback,
\* or the frame of some screen.
RepaintComes == scheduled # {} => Update \in Range(idles) \/ pending # {}

\* A screen that shows something wrongly is scheduled.
StaleIsScheduled == \A c \in stale \ dropped : c[1] \in scheduled

\* A client that waits for a frame has its view on a screen that will have one.
FrameComes ==
    \A v \in (wants \intersect Visible) \ replay :
        screens[v] \intersect (scheduled \union pending) # {}

\* While the session is active, whoever waits for a repaint will have it, though
\* schedule_updates adds the callback for the first screen only, perform_update
\* skips what waits for a flip, and a deactivation clears the schedule.  One case is
\* excepted: a window shown or raised, or a screen moved, while the session is
\* inactive begins a schedule whose update finds it inactive; the screens stay
\* scheduled, and then neither the activation nor anything after it adds an update
\* (compositor.c 887, 2422-2428).
UpdateIsDue ==
    active => (dormant = "missed" \/ RepaintComes) /\ StaleIsScheduled /\ FrameComes

\* What is wrong on a screen is painted in the end, unless the session is
\* deactivated, the damage is lost as in DamageIsKept, or the update was missed as
\* in UpdateIsDue.
EventuallyShown ==
    \A c \in Cell :
        (active /\ c \in stale)
            ~> (c \notin stale \/ ~active \/ c \in dropped \/ dormant = "missed")

=============================================================================
