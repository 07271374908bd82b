# A TLA+ model of neoswc

neoswc is a Wayland compositor in C: the library `libswc` (surfaces, windows,
input, output), a compositor program in `wm/` that leaves all window management
to a separate client speaking `river-window-management-v1`, and a privileged
launcher in `launch/` that owns the virtual terminal and the devices. It is one
process with one event loop and no threads. What makes it hard is therefore not
shared memory but *who else moves*: many clients, the window manager (a client
that may be slow, die and be replaced), timers, idle callbacks, page flips and
the launcher, each of which may act between any two entries into the code, and
callbacks that run from inside the call that causes them.

This directory models that code. `PROJECT.json` maps each definition to the
lines it stands for, and lists the runs, the mutants that show each property can
fail, the hazards of the code and the theorems.

## Inventory

| Component (source) | State | Operations | Talks to | What is hard | Correct when |
|---|---|---|---|---|---|
| transaction barrier (`transaction.c`) | participants with serial and ack, two counters, timer, committed, complete | create, add, remove, ack, commit, timeout, destroy | window cohort (callback from inside ack, remove and commit), event loop | late timer, stale ack, counters beside a list | completes exactly once, when nobody owes an answer or time is up; never waits for nobody |
| window cohort (`window.c`, `surface.c`, `view.c`, `xdg_shell.c`) | per window: geometry, pending move, pending configure, serial; enrolled and parked lists; hold of each surface | begin, set size/position, commit, present, ack, buffer commit, map, close | barrier, clients, manager | acks, commits, closing windows and the timer in any order | nothing of a relayout shows early, all of it is shown, stragglers catch up |
| manage/render sequence (`wm/river_wm.c`) | phase, dirty, idle callback, bound manager | bind, manage_finish, render_finish, idle, completion, disconnect | cohort, manager | manager dies in any phase; synchronous completion; wakeups | every change is told; protocol order is kept |
| river objects (`wm/river_wm.c`) | window, node, output, seat and shell surface objects, resource pointers | advertise, get, destroy, forget | manager, windows, screens | three independent lifetimes for each object | no object is used after any of them ends; a new manager is told everything |
| key dispatch and bindings (`keyboard.c`, `bindings.c`, `river_wm.c`) | pressed keys with their takers, keys of the client, modifiers, bindings, queued events | press, release, reset, enable, disable, destroy, flush | focused client, manager, session | release after anything has changed | each release finds who took the press |
| pointer and buttons (`pointer.c`, `bindings.c`, `select.c`) | buttons with takers, focus, cursor surface, bindings array | motion, button, axis, cursor, add and remove binding | clients, windows, compositor | pointers into an array that moves | as for keys; cursor surface never dangles |
| input focus (`input.c`) | focused view, its client's resources | set focus, bind | keyboard, pointer | focus destroyed | enter and leave alternate |
| surfaces, views, regions (`surface.c`, `view.c`, `region.c`) | pending and current state, hold, screens | attach, damage, commit, frame | compositor, windows, subsurfaces | pending against current state | a commit is applied as a whole, once |
| compositor (`compositor.c`) | one list of views in layers, parents, damage, scheduled and pending screens, zoom | attach, move, raise, restack, show, hide, repaint, flip | planes, screens, session | updates against flips against deactivation; one list for all layers | damage is always painted in the end; layers are kept |
| output pipeline (`plane.c`, `primary_plane.c`, `screen.c`, `output.c`, `mode.c`, `drm.c`) | planes, modes, page flips, positions, usable geometry; screens are found at start and stay | flip, set mode, position | kernel, compositor, session, managers | flips that fail or come late; screens move one at a time | one flip outstanding for each screen; everybody knows the layout |
| xdg-shell roles and positioner (`xdg_shell.c`) | role, states, positioner, popup parent | get role, configure, place | windows | ack serials; constraint arithmetic | popup lies on the screen when the rules allow it |
| wl_shell (`shell.c`, `shell_surface.c`) | as a toplevel, acks at once | as above | windows | synchronous acks | as windows |
| layer shell, panels (`layer_shell.c`, `panel.c`, `panel_manager.c`) | layer, anchor, exclusive zone; modifiers of a screen | set, commit, attach, destroy | screens | recomputing the usable area in order | usable geometry is the screen less the zones |
| subsurfaces (`subsurface.c`, `subcompositor.c`) | sync flag, pending commit, order and position pending | place, set sync/desync, parent commit | surfaces, views | nested sync | synchronised state appears with the parent's |
| selections (`data*.c`) | sources, offers, selection | set, offer, receive, cancel | clients of two protocols, the keyboard focus | source destroyed with offers outstanding | one owner; the old one is cancelled once |
| seat and devices (`seat*.c`) | libinput's open devices, focus of the data device | open, close, suspend, resume, events | keyboard, pointer, launcher | devices that come and go while the session does | devices are open while the session is active |
| session launcher (`launch/`, `libswc/launch.c`) | active flag, open devices, socket | open, activate, deactivate | kernel, compositor | events while waiting for a response; revocation before notice | a device is used only while active |
| output management, xdg-output (`output_management.c`, `xdg_output.c`) | serial, heads, configurations | create, apply, test | screens | stale configurations | a stale one is cancelled |
| image capture, snapshots (`image_capture.c`, `snap.c`) | sessions and frames | capture | screens | screen destroyed under a frame | one result for each frame |
| decorations (`decor.c`, `*_decoration.c`) | mode, fonts | draw, set mode | windows | none | mode sent before use |
| XWayland (`xserver.c`, `xwm.c`) | server process, X windows | start, map, property | X server, windows | association of two identities | each X window has at most one window |
| buffers (`shm.c`, `dmabuf.c`, `wayland_buffer.c`) | pools, references | create, resize, destroy | renderer | pool resized while mapped | memory outlives its buffers |
| start and shutdown (`swc.c`, `wm/main.c`) | active flag, manager process | initialise, activate, run | all | order of destruction | reverse of creation |
| tools, examples, tests (`extra/`, `example/`, `cursor/`, `zig/`, `test/`) | - | - | - | - | read as documentation |

## Modules

| Module | Role |
|---|---|
| `Barrier` | abstract: what a cohort barrier promises whoever opens it |
| `Transaction` | `transaction.c`, one action per function; implements `Barrier` with its fairness |
| `WindowCohort`, `MCWindowCohort` | `window.c` over the barrier, with `surface.c`'s hold and `xdg_shell.c`'s exchange with clients; implements `Barrier` again, from the windows' side |
| `WindowCohortProofs` | what members show, whose ack answers, and the refinement of `Barrier`, proved |
| `ManageLoop` | abstract: the main loop the protocol promises a manager |
| `ManageSequence` | the phases of `river_wm.c` over a cohort reduced to its members; implements `ManageLoop` |
| `RelayoutProofs` | the invariants and the refinements of `Transaction` and `ManageSequence`, proved |
| `RiverObjects`, `MCRiverObjects` | the objects of `river_wm.c`: structs, swc's things and the resources of two managers in turn |
| `KeyBindings`, `MCKeyBindings` | dispatch of keys and the focus in `keyboard.c`, and the manager's key bindings in `river_wm.c` |
| `RiverProofs` | both halves of the manager's view of `river_wm.c`: routing of releases, what the focused client believes and what the manager's queue tells (`KeyBindings`); lifetimes of its objects and what a manager is told (`RiverObjects`), proved |
| `Pointer`, `MCPointer` | buttons, focus and cursor in `pointer.c` and `input.c`, the binding array of `bindings.c`, the grab of `select.c`, interactive moves and resizes of `window.c` |
| `PointerProofs` | that clients are told of the focus as it is, that releases are heard through every chain of interactions and that interactions end with their buttons, proved |
| `Repaint` | scheduled updates, damage and page flips of `compositor.c` and `primary_plane.c`, under a session that comes and goes |
| `Stacking`, `MCStacking` | the one list of views in `compositor.c` with its layers, parents, popups and every function that reorders it; the positioner of `xdg_shell.c` as a function |
| `StackingProofs` | that popups go with their parents, that what is raised is in front and that layers stay in order, for any views, proved |
| `Subsurfaces`, `MCSubsurfaces` | synchronised commits, the four lists of children and their views |
| `SubsurfaceProofs` | what is seen, what a commit applies and the order it leaves, for any tree of surfaces, proved |
| `Outputs`, `MCOutputs` | positions and usable areas of screens, layer surfaces, panels, output management and what everybody is told |
| `ScreenProofs` | that no damage is forgotten, no repaint missed and no frame event lost or doubled (`Repaint`); that everybody is told the same layout (`Outputs`), proved |
| `Session` | the launcher and the compositor as two processes with a socket; libinput's devices |
| `Selections`, `MCSelections` | sources, offers and the selection over `wl_data_device` and data control |
| `SeatProofs` | the seat: that input files work only while the launcher holds the terminal (`Session`); that offers do not dangle and that readers and owners know the selection (`Selections`), proved |

The levels fit together by what they promise. `Transaction` shows the object with
counters and a timer to be a barrier; `WindowCohort` takes the barrier's completion
rule (`Settle`) and shows that windows which open, close, ack and time out use it as
a barrier over themselves; `ManageSequence` takes from the cohort that it completes
at once, later or when a member closes, and leaves its members parked; `RiverObjects`
takes from the loop that a sequence may begin whenever a manager is bound.
`Transaction` keeps the counters, so wrap-around would be seen; `WindowCohort` keeps the
data the user sees (positions, sizes, holds); `ManageSequence` keeps the callbacks.
`Session` produces the notices that `Repaint` and the reset in `KeyBindings` consume, and
shows in which orders they can come; `Repaint` shows what they do to the screens. A
view is an area in `Repaint`, a place in a list in `Stacking` and `Subsurfaces`, and
something that may lie under the pointer in `Pointer`.

### State and actions

`Transaction`: `participants`, `serial`, `acked` are the list and its fields; `size`
and `pending` the counters; `timer` is `null`, `armed`, `due` (collected by the event
loop, to be dispatched in this iteration) or `disarmed`. `Expire` is libwayland,
every other action is a function of the file. `completions` and `heard` are history.

`WindowCohort`: `win[w]` is the `struct window` of a wl_surface, the surface itself
(`buf`, `held`, `replay`) and the client's unread configure events (`inbox`). A
surface outlives its window. Since one entry into the code may run several functions
(`swc_window_set_geometry` sets the size, then the position, and each may join the
cohort; an ack may complete the barrier from inside itself), each function is an
operator from a state record to a state record, and an action is one entry; the modules
below do the same where one call runs several functions. A
position and a size are numbers: the code treats both axes alike. The serial sent in
a configure event is the window's own count (`configure_serial` takes a new value
with each); an event whose serial nobody records is `Unrecorded`. Before the first
resize `configure_serial` is uninitialised memory and may match anything. Three entries move or configure a
window without asking its cohort: `SetWindowGeometry`, `MoveMotion` and `ResizeMotion`; `nudged` is history, whom the
first two have moved in a step. A buffer of a new size may move a window that is resized by its left or top edge
(`Attach`). A window is one surface here: that the hold of a surface is put on its subsurfaces and taken off them
first (`surface.c` 565-569, 587-591) is left out.

`ManageSequence`: `unanswered` holds start events on their way to the manager, which
answers them in order and as late as it likes. `SettleCohort` is
`swc_transaction_begin`, the proposals and `swc_transaction_commit` run inside
`manage_finish`: with a cohort still waiting they do nothing, and if nobody owes an
answer or no timer can be had, `begin_render` runs before `manage_finish` returns.
`CloseWindow` runs `window_finalize` first, which may complete the cohort, and only
then schedules a sequence, as the code does. `held` are the surfaces under a render hold, which
may outlast the window on them. `Meddling` is a client that was told `unavailable`: its object has
the manager's implementation, so its requests move the phase and only the phase is asked. `stranded` and `meddled` are
history: the surfaces held by a window that closed while parked, and whether such a client
has moved the phase of the present manager.

`RiverObjects`: an object is its kind, its subject, its client and a number; `data` holds
its user data, the subject until somebody clears it. The three lives of a window are
`swc`, `memory` and the objects that refer to it. `knows` is what the manager was told.
Screens are there before any client and stay: the code has no hot-plug of outputs
(`drm.c` creates them at start; only `swc_finalize` would destroy them, which nothing
here calls).

`KeyBindings`: `handler[k]` is who took the press of a key, `clientKeys` the keys the
client was given, `held` the key that holds a binding, `pending` the queue for the
next manage sequence. `Press` runs the handlers in the order they are listed: swc's
own bindings, the observer (once the first binding has been enabled), the client.
`heardKeys` and `heardMods` are what the client with the focus believes; `told` is what
the manager believes. `Among` is a loop over a C list that skips entries, as a recursive
function (its order is that of the list), so that proofs can follow it.

`Pointer`: `buttons` is the set of pressed buttons with who took each (`by`), the slot of
the array a binding was found in, and the client that was told; `grabs` the handlers in front
of the fixed ones. Neither needs an order: values and serials of the pressed buttons are
distinct, and which of two handlers in front comes first does not matter, since a press passes
interactions by and the grab is asked for by name. An interaction remembers the handler it replaced (`original`), so that
the release follows a chain. `array` keeps the memory of the bindings and how much of it is in
use, because a removed binding leaves its slot to the last; `moved` is history, the bindings
that took or lost a place under a press. The pointer's position is only the view found under
it, which may be any: views map, move and restack under a pointer that rests.

`Repaint`: damage and staleness are sets of cells, the area of one view on one screen;
`surfDamage` is `surface->state.damage`, `compDamage` is `compositor.damage`, `backlog`
what `wld_surface_damage` keeps for a screen's next buffer (each buffer keeps its own;
one set stands for them, emptied when a buffer is shown and kept when it is refused).
`scheduled`, `pending` and `needModeset` are the masks and flags of the code, `idles` the
event loop's idle callbacks in order, `flips` what the kernel has still to complete. An
action is one event: an idle callback, a flip, a notice of the launcher, or a request.
`draining` and `dispatched` keep to the loop's order, in which each descriptor is served
once and then idle callbacks run until none is left. `Repainted` is the loop over the
screens, cut short at `refused`, the first whose buffer the kernel does not take; the
launcher, another process, may take the access away between two screens. `stale`, `eaten`
and `dropped` are history, and so is `dormant`: whether the present schedule was begun while
the session was inactive, and then whether its update came in vain.

`Stacking`: `stack` is `compositor.views`, front first, hidden views included; `view[v]` has
the layer, the parent (possibly `Gone`: freed and still pointed to) and visibility.
`RaiseWindow`, `RestackForLayer` and the rest are the scans of the code over the whole list. Windows, popups, the manager's
bars, layer surfaces and panels differ in which functions reach them. `Show` is the walk of
`compositor_view_show` over that list while it changes: for each view that it finds behind
where it is, and whose parent it shows, it calls itself, which raises a window and so may move the view
that the walk stands on. `path` has the views of the calls that have not returned, the innermost
last, and `Step` is one turn of the innermost loop; each view appears once and each loop ends once, so
that the number of turns is known. `overlooked` is history: the popups that lay before the walk and lie behind it
after a window was raised, as long as their parent is seen.

`Subsurfaces`: `surf[s]` is a surface with its subsurface role and its view, `order[s]` the
four lists of its children (current and pending, below and above). Walks along views and
parents are sets of what can be reached (`Reach`), loops over children and over a subtree recursive
functions, so that proofs can follow them. Of the state that is
committed, the presence of a buffer and the order stand for the rest, which goes the same way.

`Outputs`: screens lie side by side, so a position is a column; a zone is a number of rows.
`heard`, `seen` and `heads` are what the window manager, the wl_output resources and an
output manager were told last. What a client sets before a commit or an apply is an
argument of that action. `overdue` is history: the screens that a panel with a strut has docked on
and whose area was not computed since.

`Session`: `stack` is what the compositor is in the middle of, innermost last: starting,
telling its listeners, letting libinput open devices, waiting for an answer. Waiting serves
notices, so an activation can begin inside anything, also inside another. The launcher serves what one `poll`
found in the order of the code (`round`): the socket and then the signal pipe. `refused` are the devices nobody
asks for again while libinput is not suspended, and `orphaned` is history: an inner wait has thrown away the answer an outer one waits for.

`Selections`: `offers` are pairs of a device and a source, whose source becomes `None` when
it goes; `heard` is what the last selection event of each device said, `taken` and `cancelled`
what the owners of sources were told.

## Runs

Every run passes. State counts are distinct states.

| Run | Instance | States | Question |
|---|---|---|---|
| `Transaction` | 3 keys, 2 serials | 30,656 | does the barrier keep its promise in every order of calls? |
| `WindowCohort` | 2 windows (tiled or stacked), 1 proposed size, 2 positions, 2 configures, 2 unread events | 830,357 | does a relayout of two windows land whole? |
| `ManageSequence` | 3 windows, a client told `unavailable`, 3 unanswered events, allocations succeed | 3,735 | is every change told, and every window shown, whoever dies? |
| `RiverObjects` | a window, an output, a shell surface, 2 clients | 366,144 | does no object outlive what it points at, and does each manager believe what is true? |
| `KeyBindings` | a modifier, 2 keys, 2 bindings and one of swc's, 3 queued events | 489,728 | does each release find who took the press, and each client hear of it? |
| `Pointer` | 2 windows of 2 clients (one can be moved), 2 buttons, a binding of each | 853,188 | the same for buttons, and does the focus agree with what clients are told? |
| `Repaint` | 2 screens, 1 view, 2 unread notices, holds | 942,986 | is everything repainted, whoever switches the terminal when? |
| `Stacking` | 2 windows (one transient for the other at times), a popup, a bar, a layer surface, a panel | 241,857 | do layers, parents and popups survive every reordering? |
| `Subsurfaces` | a window and two surfaces that become siblings or nest | 657,464 | does synchronised state come with the top, and the order with the commit? |
| `Outputs` | 2 screens, 3 positions, a layer surface with 3 states, a panel, 2 configurations | 243,000 | is everybody told where the screens are and what is left of them? |
| `Session` | 3 devices, 4 input files, 4 messages, 4 frames | 1,024,606 | do both processes agree, and does every wait end? |
| `Selections` | an application and a clipboard manager, a source each | 521,920 | does no offer lead to a freed source, and do readers and sources know? |

Properties, by hazard:

* *Completion.* `CompletesOnce`: a timer already collected when the last ack arrives
  does not run the handler again. `ImplementsBarrier` (both levels): the barrier completes
  exactly when nothing is owed or time is up, never before the commit, and in `Transaction`
  also that it does complete. The counters and acks it rests on are the invariants
  `CountersMatch`, `AckIsExact` and `NeverStalls`, which are proved rather than run.
* *The relayout.* `CohortShape`: no window is on two lists, a member is alive and held.
  `FrozenUntilPresented`: the content of no member changes before present, nor while the cohort waits
  its position, but where its client sets a window geometry or the pointer drags it, which the code
  carries out at once. `StragglerKeepsMove`: presenting neither moves a window that did not answer
  nor forgets its move. `AnswerIsForThisCohort`: an ack of a later configure does not
  answer for this cohort.
* *The loop.* `NoLostWakeup`, `EveryChangeIsManaged`: a change during a sequence is told
  after it. `SettleIsAwaited`: the loop never waits for a completion that has happened.
  `NothingStaysFrozen`: while a manager stays and answers no surface stays held, also not one that a dead
  manager's cohort left; excepted is a surface whose window closed while parked, until it takes part
  in a cohort (`stranded`). `ImplementsLoop`: a manager that neither inherited a waiting cohort nor is
  meddled with sees the protocol's loop.
* *Managers and their objects.* `UserDataIsAlive`, `BeliefIsKept` (with it that `closed`
  reaches the manager), `EverythingIsTold`.
* *Keys.* `ClientKeysMatch` (with it the assertion of `keyboard_reset`, and what the client
  with the focus believes of keys and modifiers), `HeldIsPressed`, `LastEventTellsHeld`
  (after a flush the manager's belief is right, and no queued event names a binding that is gone).
* *The pointer.* `ReleasesAreHeard` through every chain of interactions, and by every binding
  that kept its place in a compacted array; `FocusIsTold`; `GrabsEnd`: no handler is left in front once its buttons are up.
* *Repainting.* `FramesMatch`: exactly one frame event is on its way to a screen that
  waits for a flip. `DamageIsKept`: `compositor.damage` is cleared for all screens after
  each update, and yet nothing is forgotten of a screen that was skipped or refused.
  `UpdateIsDue`: with one idle callback for all screens, each that needs a repaint has one
  coming. `EventuallyShown`: and gets it. Both except the one case in which the code leaves the screens alone: an update
  that was scheduled while the session was inactive and ran before it was active.
* *The stack.* `OrderIsKept`: moving one view among views in the order of their layers
  leaves them in that order. `RaisedIsInFront`, `PopupFollowsParent` (but for popups that a
  show passed by; and a popup lies where it was asked for, for all positioners with sizes up to 4).
* *Trees of surfaces.* `SeenWithParent`, `ContentComesWithTop`, `OrderComesWithCommit`.
* *Screens.* `LayoutIsAgreed`: usable areas are what today's zones leave, but on a screen that a panel with a strut
  docked on, until it is updated, and everybody has been told; `AnchoredOnceAcked`; `StaleIsCancelled`.
* *The session.* `GrantedWhileActive`: a file works only while the terminal is ours, also in
  the socket; `AgreedAtRest`: both processes, all listeners and libinput agree when nothing is on its way, and every
  device works while the terminal is ours that was not turned away by a full table or during the start;
  `ComesBack`: every wait ends, but for one whose answer an inner wait has thrown away, and the terminal is given
  back wherever the compositor died.
* *The clipboard.* `OffersAreAlive`, `ReadersKnow`, `SourcesKnow`.

The type invariants are conjuncts of an invariant of each run or, where a proof module
needs them, theorems.

### Bounds

* `WindowCohort`: `MaxSerial` is the number of configures of the windows alive, together (a
  window that is closed and mapped again starts anew), `MaxInbox` the events their clients have
  not read; a change of focus comes to a client that has read everything. Two of each with two windows
  give every order of two acks, two commits, a
  closing, a timeout, a window configured again while a member, and a second cohort that
  meets a straggler. One proposed size besides the initial one and two positions are what equality
  tests in the code can tell apart. `MCView` makes one state of those that differ in the names of the two windows,
  places or serials, or in what nothing will read again. The code moves a window for its window geometry
  once; the model lets it happen at any time.
* `ManageSequence`: `MaxUnanswered` bounds the events the manager has not answered when a client that was
  told `unavailable` makes a request; such a client can start a sequence while the manager still owes the
  answers of the last.
* `KeyBindings`: `MaxEvents` bounds the queue (a C list without a bound); three events hold
  a press, a stop of its repeat and a modifiers update, which one press can add at once. A
  press that would overflow it waits for a flush.
* `Repaint`: cells of different views never meet in the code's decisions, so one view is
  enough; two screens give an order in the loop and one pending beside one that is not.
  `MaxNotices` bounds the launcher's lead over the compositor: with two unread events the
  session is lost and regained before the compositor hears of either.
* `Session`: `MaxInputs` is the length of the launcher's table `input_fds` (128 in the code),
  which is emptied only when the terminal goes; at four, three devices that come and go
  fill it. `MaxNotices` bounds the socket, and `MaxFrames` how deep the compositor is in calls when the terminal
  is still switched: four frames are a start or an activation, the devices it opens, the wait for one and an activation
  inside that, which opens devices and waits in turn.
* `RiverObjects`: `MaxObjects` bounds the objects that exist when one more is asked for,
  `MaxKept` those a client keeps when it stops to manage. One window, output and shell surface are enough, because the code treats
  each struct by itself; two clients, because there is one manager at a time.
* `Pointer`: two buttons give a second press and release inside a first, and with a binding of
  each one can take the other's place. Serials are told apart only among those still in use, and
  `MCView` makes one state of those that differ in the names of serials or in what lies behind the
  end of the array where no press points. `Again = FALSE` keeps an interaction from beginning
  again while the press it took over is held.
* `Stacking`: `Chosen` are the layers a client can ask for, one below and one above the
  windows; `Sizes` and `Offsets` cover odd and even sizes and negative offsets.
* `Outputs`: `Positions` lets two screens touch, overlap and leave a gap. One height of the layer surface's
  buffers is enough: a new buffer is measured and mapped in one commit, whatever was shown before.
* `Transaction`, `Subsurfaces` and `Selections` have no bound besides the
  sets they are given.

### Fairness

Only what the code's scheduling owes. In `Transaction`, an armed timer expires and a due
one is dispatched; in `WindowCohort`, the timer of a committed cohort fires. In
`ManageSequence`, the event loop runs its idle callbacks and a
waiting cohort completes, because its timer does (`Transaction` shows that it has one); a
manager that stays answers its start events, and each such property excuses a manager
that leaves. In `Repaint`, the event loop runs its idle callbacks and the kernel completes
each flip it has accepted. In `Session`, each of the two processes goes on with what it has to
serve; nobody owes a switch of the terminal. Clients owe nothing anywhere.

Deadlock is checked in every run but `Session`, which really stops: when the compositor is
gone the launcher restores the terminal and exits.

## Proofs

All proofs hold for every value of the constants; the assumptions are those named in the
modules, and those that theorems state (`FALSE \notin Allocations`, `Again = FALSE`).

* `RelayoutProofs`, of `Transaction` (keys finite): `IInv` joins `CompletesOnce`, `CountersMatch`, `AckIsExact`
  and `NeverStalls` with `Lifecycle` - a destroyed object holds nothing, only a commit creates
  a timer - without which `NeverStalls` is not inductive. The counters are read as cardinalities:
  `PendingIsEmptiness` turns `pending = 0` into "nobody is owed", which every completing
  step needs. `RefinesBarrier` maps every step to a step of `Barrier` or a stutter.
* `RelayoutProofs`, of `ManageSequence`: `ChangesAreScheduled` holds also if allocations fail;
  `SettlingIsAwaited` needs `FALSE \notin Allocations`, because if `transaction_create` fails in
  `swc_transaction_begin` the loop does stay in settle with nothing to end it.
  `RefinesLoop` rests on the relation between the phase and the unanswered start events of
  a manager that did not inherit a cohort and is not meddled with.
* `RiverProofs`, of `KeyBindings`: `ClientKeysMatch` and `HeldIsPressed` are inductive together with the
  types of `handler` and `held`. The key lemma is that `keyboard_handle_key` and
  `keyboard_reset` let go of exactly what the takers of the released keys hold
  (`LetGoRoutes`), and tell the focused client of those the client had.
  `LastEventTellsHeld` is inductive by itself, with the whole type invariant in it, for a queue
  of any length (`Fits` is the same in three parts, `ToldIs` and `TypesAre` the bridge). What is
  appended counts over what was there (`Joined`, `SaidLast`), so each
  action need only queue a press of what it holds and a release of what it lets go of
  (`Agree`). Destroying a binding is the hard step: a pass over the queue drops its events, and
  `AmongIs` says, by induction over the pass, that the order of the other events is as it was.
* `RiverProofs`, of `RiverObjects` (windows, outputs and shell surfaces are different things):
  all three properties, for any number of windows, clients and objects, where the run has one
  window and two clients. The invariant `RInv` joins `BeliefIsKept` with `ObjectsHeld`, which
  says for each struct what the code relies on without checking: the objects it tracks point
  back at it and are of the right kind; of a *closed* window nothing points at it that it does
  not track (an open one may have untracked objects of earlier managers); and an open window
  that has an object has it of the client that manages now. The last is why a destructor run
  for an old manager's object cannot make the present one forget a window. `DestroyedHolds` covers the
  destructors of any set of objects in one go, so one object, a dying client and a dying manager
  are three uses of it; `Arrives` covers every object that comes.
* `ScreenProofs`, of `Repaint`: `DamageIsKept` is not inductive alone. An update clears the damage of
  every screen, so the damage that remains must lie on scheduled screens
  (`StaleIsScheduled`), and the damage of a held commit must still be there or counted as
  lost (`ReplayIsDamaged`). One lemma covers an update cut short anywhere
  (`RepaintedKeeps`), one every request that damages what it changes
  (`DamagedRequestKeeps`). `RepaintsAreDue` adds that what is scheduled while the session is inactive was begun
  then and is `dormant` (`Asleep`). `FramesAlwaysMatch` counts the
  callbacks in the event loop's queue as a number of positions (`CountAppend`, `CountConcat`,
  `CountTail`); `FramesMatch` becomes inductive with `UpdatesAreFew`, which bounds the queued updates, and
  with the fact that a screen is put into a queue only when it leaves another place.
* `ScreenProofs`, of `Outputs` (finitely many screens, at least one, finitely many surfaces, panels and columns):
  all three properties. Each call is an operator on the record of the state, so the lemmas say that it takes a
  `Good` record to a `Good` one; inside a call the area of one screen is out of date until `UpdateUsable`
  (`UpdateAgrees`), and no other screen's (`ZonesElsewhere`). That the pointer stays on a screen is geometry of
  intervals (`ClipStaysInside`, `RecoveryFinds`). `config_finish` moves one screen after the other, so `Moved` is a
  recursive function: `RoundsExist` shows that it has a value and `MovedHolds` that each round leaves a layout everybody
  was told. `StaleIsCancelled` needs that an outdated configuration has an old serial, which holds because
  every move makes all serials old (`Forward`).
* `SeatProofs`, of `Selections`: every step but a read builds its new state from a record with helpers
  that mirror the functions of the code, so the lemmas say what each helper makes of a sound
  record (`SetSelectionGood`, `ExpireGood`, ...). The parts that make the three invariants inductive: a
  data control source that was not used was never the selection, which is why `Choose` need
  not take a cancellation back; and `SoundBut(t, dying)`, since in the middle of
  `data_destroy` the selection's source is no longer the selection and is not told so.
* `WindowCohortProofs`: all five properties of `WindowCohort`. `CohortShape` is inductive as it
  stands (`Shape`, over the record that the operators pass on), with a lemma for each function
  of the code: `SameMember` for those that leave a window's place in the cohort alone,
  `TransactionDoneShape`, `PresentCohortShape` and so on for the others. The action properties
  follow because a member is held, so `Attach` cannot reach it (`CommitBufferAllowed`), because
  `swc_window_set_position` moves a window at once only when there is no transaction
  (`SetPositionKeeps`), and because presenting a window that did not answer attaches its
  buffer only if it was replayed (`PresentCohortAllowed`). `CohortIsABarrier` needs `Waits`
  besides: a committed cohort waits for somebody, which every step that could end the wait
  keeps by completing (`ShrinkSteps`), and before the first transaction there are no members.
* `PointerProofs` (finitely many windows, buttons and bindings): `FocusIsTold` is inductive with
  the types of focus, cursor and `entered`. A release may run through any chain of interactions
  and end any of them; whatever it ends, it moves neither the focus nor what the clients were
  told (`ReleaseSame`, `EndSame`), so the chain need not be understood. What moves the focus
  leaves before it enters, so that nobody has the pointer in between (`LeaveTold`, `EnterTold`).
  `ReleasesAreHeard` and `GrabsEnd` are about the chains. Their invariant `Sound` says that a rank
  descends along each (`Ranked`), so that a chain ends before it is as long as there are
  interactions (`PathEnds`, by counting); that each interaction is called by one press or by
  one other interaction (`OneCaller`), so that what ends on one chain leaves the others
  alone (`CutShort`); that the handler an interaction replaced is on the chain of the press with its
  serial (`Owed`), so that ending it without a button finds the button; and, of the array, that each
  binding is in it once and a press points to a place that exists (`Places`, `Placed`).
  Both assume `Again = FALSE`: begun again under one press, an interaction would call itself.
* `SeatProofs`, of `Session` (no device named `drm` or `vt`): `GrantedWhileActive` becomes inductive with
  three facts about the launcher. What `poll()` found is still there when it is served
  (`RoundIsServed`), so a release in the same round as a request is handled on a
  consistent state; the launcher hears `child` only when nothing is left of the compositor
  (`GoneIsEmpty`), which is why `cleanup()` need not revoke a file; and an answer on its
  way counts as a file (`NothingWorks`).
* `SubsurfaceProofs` (finitely many surfaces; no window is given a parent): all three properties.
  The invariant `Kept`, of a record of the state, has three parts. `Good` says that the lists agree with the links
  (`Orderly`), that a view lies above its parent's unless that is gone (`Linked`), and what is seen (`Together`).
  `Acyclic` says that nobody hangs from itself, which rests on the check of `get_subsurface`, and without which
  applying a parent's order would disturb that of a surface already done. `Waiting` says that only a
  subsurface has cached state. Two recursive functions carry the weight. `RestackIs` follows the loop
  over the children: each is put beside the one before, so that they end up on one side of the parent, the later the
  farther, and no other two views change places. `ApplyPendingHolds` follows the flush of a subtree: whatever is
  `done` hangs from the top, has nothing cached left, has its pending order as the current one and its views
  in that order (`Flushed`); that a later child leaves the order of those before it alone is `InOrderStays`. Every
  request then either applies nothing (`Quietly`) or the commits of one surface that nothing holds back
  (`Applies`, `StepIs`), from which the two action properties follow.
* `StackingProofs` (finitely many views, of disjoint kinds; nobody is its own parent): all three
  properties. A list is known by which view is ahead of which (`Ahead`), and the functions of the
  code by the view that they move (`MovedOnly`) and what it passes. `Good` joins what every one of
  them needs and keeps: each view that exists is on the list once (`Sound`), what is seen and always on top
  is in a layer above the windows (`TopIsAbove`), popups are seen with their parents (`Together`),
  and a view that is pointed to as a parent exists or is `Gone` (`Rooted`). The hard function is the
  show. `Walking` is the invariant of its nested loops: whatever has appeared hangs from the view
  that was asked for, and a popup that is hidden beneath a view that is seen belongs to one of the views
  of the path and lies behind where that one's loop has come to (`Expects`, `Expected`), unless it
  was passed by. Each turn shows one more view or ends one loop, so the walk is over after twice as
  many turns as there are views. Windows that the walk raises hang from the one that was shown,
  which is why `RaisedIsInFront` excepts only these (`Shows`). For `OrderIsKept`, each function puts
  its view behind what is in the layers above and in front of what is in those below (`Fits`); two views
  that changed places may each be the one that was moved (`MovedBy`), and a step that shows or hides
  two views moved none (`TwoKeepOrder`).

Where a proof needs induction over a number or a finite set, it takes a least counterexample, from the
well-foundedness of `<` and of strict inclusion in the library (`UpTo`, `NatMin`, `FiniteEnd`).

Every invariant that a run checks but `AgreedAtRest`, and every action property, is proved. Only model-checked is liveness
(`EventuallyShown`, `EveryChangeIsManaged`, `NothingStaysFrozen`, `ComesBack`, the fair part of
`ImplementsBarrier`), since temporal reasoning under fairness is beyond the provers used.

## Where the code does something else

Met while modelling. The models follow the code; where a property would fail, it excepts the
case or the model excludes it, as said here.

*The relayout.* `begin_render` reports the sizes of the last commit, which comes after the ack
that completes the cohort (`river_wm.c` 2092; its comments say it has come). xdg-shell lets a
client ack only the last configure, but those sent for a focus or a mode change have serials
nobody remembers (`xdg_shell.c` 688): such an ack is ignored and the cohort waits for its timeout.
`configure_serial` is not initialised (`xdg_shell.c` 763). A cohort that completes without a
manager stays parked and frozen until one comes (`river_wm.c` 2073, against `swc.h` 607-608). A
cohort outlives its manager and sends `render_start` to the next one in its manage phase, whose
correct `manage_finish` is then a protocol error (`river_wm.c` 2110); `ImplementsLoop` excepts a
manager that inherited a cohort. A second client that binds the manager's global is told `unavailable`, and its object
then takes every request (`river_wm.c` 2327, against the comment above it, "the implementation is left NULL"): its
`manage_finish` or `render_finish` moves the phase of the real manager, which is told `render_start` before it has
finished, or is disconnected for its own correct answer; `ImplementsLoop` excepts a manager with which this was done. A
window that closes while parked leaves its surface held, and the next toplevel on that surface shows nothing until
it takes part in a cohort (`window.c` 221-228). `set_window_geometry` and an interactive move change the place of a
window that waits for its cohort. Leaving fullscreen never tells the client (`window.c` 571-575).

*Keys.* A modifier uses up the request to eat the next key that is not a modifier
(`river_wm.c` 950). Modifiers are sent before `wl_keyboard.enter` (`keyboard.c` 53-76);
`keyboard_reset` leaves the focused client with stale ones, as `ClientKeysMatch` says. Events
queued for one manager are flushed to the next (`river_wm.c` 1146).

*Managers.* The position of the pointer is not told again to a new manager (`river_wm.c`
1997-2029, 2289). A manager that destroys its object explicitly keeps its others; a window that
closes then is freed under them (2295, excluded by the guard of `CloseWindow`). A wl_surface
that goes before its shell surface, and `get_node` of such a kept object, which strands the new
manager's node, are excluded too.

*Repainting.* A window mapped, raised or moved while the session is inactive schedules an update
whose callback finds it inactive and does nothing; after the activation no call adds another, and nothing repaints any
screen until the next deactivation (`compositor.c` 887). `UpdateIsDue` and `EventuallyShown` except exactly this
(`dormant`). A repaint during a hold paints the
held commit's damage from the old buffer and forgets it (2309), and a refused flip loses the
damage of the screens behind it (2414): both are counted in `dropped`. A flip that fails
otherwise than with EACCES (2410) leaves its screen neither pending nor scheduled and is left out.

*The stack.* `swc_window_lower` puts a window second of its layer (against `swc.h` 862-864). The
only view of its layer, lowered, falls behind everything (`FallsBehind`). A bar placed on top can
end behind a popup or hidden window (against `swc.h` 842-844); a window that is shown again, or
pressed on after another was placed on top, can come in front of its own popup. Transient windows that `set_parent`
shows or hides are shown behind the manager's back. `swc_window_restack` ignores layers.
`window_set_parent` with no parent dereferences it (`window.c` 1034). A view whose parent was
destroyed keeps the pointer (`Gone`). The loop of `compositor_view_show` goes on from where the view it
has just shown lies then; if that is a transient window, it has been raised, perhaps back behind
popups of the same parent that the loop had not reached, which then stay hidden though their parent
is seen (`compositor.c` 2012-2018): `PopupFollowsParent` excepts those (`overlooked`).

*Subsurfaces.* When a parent becomes desynchronised, what its desynchronised children held back
stays with them until they commit again, because the walk passes over children that are synchronised no
longer (`subsurface.c` 309, `surface.c` 344); the cached state is not kept apart from the
pending one; raising and showing move only the surface's own view; a shown buffer can be released during a
hold (`surface.c` 268-271).

*The pointer.* An interaction begun again under one press links its handler twice
(`window.c` 152-196; excluded by `Again = FALSE`), and so does a second `swc_select` grab; a window
closed with an interaction leaves its handler behind (`window.c` 927). The array of bindings may
be reallocated under a press. A binding added or removed while a button is held changes what lies in the place
the press points to, and the release runs whichever handler is there (`bindings.c` 165, 287; the
manager's pointer bindings go this way, `river_wm.c` 830 and 853, and the protocol promises
`released` when "the pointer button triggering the binding has been released",
`river-window-management-v1.xml` 1889-1892): `ReleasesAreHeard` excepts the bindings of that place (`moved`). A second press changes the focus (`compositor.c` 2450). A grab of
`swc_select` hides presses from observers (against `pointer.c` 619-632).

*Screens.* Docking a panel that has its strut already does not update the new screen's area (`panel.c` 84-130,
against `river_wm.c` 466-471); `LayoutIsAgreed` excepts that screen until it is updated (`overdue`). Docking twice
on one screen inserts a link twice; a panel with a buffer and no dock reads an uninitialised
edge. Surfaces and panels do not move with their screen, nor is xdg-output's position sent
again. An unmapped layer surface keeps the keyboard. Zones that leave nothing give an empty area.

*The session.* When the terminal goes and comes back while the compositor waits for a device, an activation runs
inside the wait; its own `send_request` throws away the answer the outer one waits for, which then waits for ever
(`libswc/launch.c` 125; excepted from `ComesBack` as `orphaned`). When the terminal comes for the first time while the
devices of the start are opened (`-n`), those that were refused before stay closed, because the nested
`libinput_resume` finds nothing suspended (`seat.c` 402, 129; excepted from `AgreedAtRest` as `refused`). `seat-evdev.c` never
reopens revoked devices.

*The clipboard.* A wl_data_source may be set a second time. A data device bound after the focus is not
told the selection until it changes, and of several devices of one client one is told.
MIME types that come after an offer are not told.

## Not modelled

Fullscreen, size clamping and shells that ack at once (`wl_shell`, XWayland) in the
cohort; keymaps, layouts, locked modifiers and the registration of swc's own bindings; axis
events, cursor images and the geometry of moves; decoration hints, titles and requests that
only pass a value on; zoom, overlays, opaque regions and proxy buffers in `Repaint`, whose views
neither change size nor lie off all screens; margins and keyboard interactivity of layer surfaces;
modes, scale and enabling in output management, which the code refuses; MIME types; failing
allocations outside `transaction.c` and `swc_transaction_begin`. Drag and drop, the primary
selection, constraint adjustment of popups and the hot-plug of screens are not implemented by
the code. Pixels, drawing, parsing and kernel calls are not modelled at all. Image capture,
decorations, XWayland and buffers have no module: each is mostly I/O with a kernel, a
renderer or an X server behind it, as `PROJECT.json` says.

## Plan

What would add most from here:

1. `wl_shell` and fullscreen in `WindowCohort`, as windows that ack inside the configure.
2. An abstract `Display` for `Repaint` (what is wrong is put right while the session
   lasts).
3. Image capture: frames against screens and their sessions.
