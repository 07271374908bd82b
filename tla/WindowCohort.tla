---------------------------- MODULE WindowCohort ----------------------------
(***************************************************************************)
(* Frame-perfect relayout: libswc/window.c's cohort of reconfigured        *)
(* windows over the barrier of transaction.c, the render hold of           *)
(* surface.c, and the configure/ack/commit exchange of xdg_shell.c with    *)
(* the clients.                                                            *)
(*                                                                         *)
(* A call may run several functions one after another (set_geometry sets   *)
(* the size and then the position; the last ack completes the barrier from *)
(* inside itself), so each function is an operator from a state record to  *)
(* a state record, and an action is one entry into the code.  Positions    *)
(* and sizes are one-dimensional: the code treats both axes alike.         *)
(***************************************************************************)
EXTENDS Naturals, Sequences, FiniteSetsExt

CONSTANTS
    Windows,        \* wl_surfaces that carry an xdg_toplevel while mapped
    Sizes,          \* content sizes a window can be given, without 0
    Positions,      \* where a window can be put
    NoMove,         \* stands for move.pending = false
    MaxSerial,      \* bound: configures requested of the windows alive, together
    MaxInbox        \* bound: configure events not read yet, of all clients together

ASSUME CohortAssumption ==
    /\ Sizes \subseteq Nat \ {0}
    /\ Positions \subseteq Nat
    /\ 0 \in Positions
    /\ NoMove \notin Positions
    /\ MaxSerial \in Nat \ {0}
    /\ MaxInbox \in Nat \ {0}

Unsized == 0        \* no buffer yet, or "the client chooses"
Unrecorded == 0     \* a configure event whose serial the server forgot

VARIABLES
    win,        \* [Windows -> record]: struct window, its surface and its client
    txn,        \* window_transaction: "none", "open" or "committed"
    outcome,    \* history: how the last cohort completed
    nudged      \* history: whom its client or the pointer has moved in this step

vars == <<win, txn, outcome, nudged>>

\* A surface without a window; the surface outlives the windows put on it.
NoWindow ==
    [live |-> FALSE, x |-> 0, size |-> Unsized, mode |-> "stacked",
     moveTo |-> NoMove, pending |-> FALSE, acknowledged |-> FALSE,
     asked |-> Unsized, serial |-> 0,
     member |-> "none", answered |-> FALSE, joined |-> 0,
     buf |-> Unsized, held |-> FALSE, replay |-> FALSE,
     inbox |-> <<>>]

WindowType ==
    [live : BOOLEAN, x : Positions, size : Sizes \cup {Unsized},
     mode : {"stacked", "tiled"},
     moveTo : Positions \cup {NoMove},
     pending : BOOLEAN, acknowledged : BOOLEAN,
     asked : Sizes \cup {Unsized}, serial : Nat,
     member : {"none", "enrolled", "parked"}, answered : BOOLEAN,
     joined : Nat,
     buf : Sizes \cup {Unsized}, held : BOOLEAN, replay : BOOLEAN,
     inbox : Seq(Nat)]

TypeOK ==
    /\ win \in [Windows -> WindowType]
    /\ txn \in {"none", "open", "committed"}
    /\ outcome \in {"none", "answered", "expired"}
    /\ nudged \subseteq Windows

Init ==
    /\ win = [w \in Windows |-> NoWindow]
    /\ txn = "none"
    /\ outcome = "none"
    /\ nudged = {}

Now == [win |-> win, txn |-> txn, outcome |-> outcome]

Becomes(s) ==
    /\ win' = s.win
    /\ txn' = s.txn
    /\ outcome' = s.outcome
    /\ nudged' = {}

Enrolled(s) == {w \in DOMAIN s.win : s.win[w].member = "enrolled"}
Parked(s) == {w \in DOMAIN s.win : s.win[w].member = "parked"}

-----------------------------------------------------------------------------
(* One window *)

\* flush(): carry out a pending move.
Flush(r) == IF r.moveTo = NoMove THEN r ELSE [r EXCEPT !.x = r.moveTo, !.moveTo = NoMove]

\* view_attach() shows the surface's buffer; if its size is new, handle_resize() moves
\* a window that is being resized by its left or top edge (to `at`; whether any
\* window is, and where that takes it, is left open), then handle_attach() runs.
Attach(r, at) ==
    LET shown == [r EXCEPT !.size = r.buf, !.x = IF r.buf = r.size THEN @ ELSE at]
    IN IF r.member = "enrolled" THEN shown
       ELSE [(IF r.acknowledged THEN Flush(shown) ELSE shown) EXCEPT !.pending = FALSE]

\* Out of every cohort list.
Unlink(r) == [r EXCEPT !.member = "none", !.answered = FALSE, !.joined = 0]

\* surface_release_render() of the window's own surface.
ReleaseRender(r, at) ==
    LET free == [r EXCEPT !.held = FALSE, !.replay = FALSE]
    IN IF r.held /\ r.replay /\ r.live THEN Attach(free, at) ELSE free

\* send_configure(): what a configure event says besides its serial is left out,
\* because a client may draw in any size whatever it was asked for.
SendConfigure(r, serial) == [r EXCEPT !.inbox = Append(@, serial)]

\* configure(): the only event whose serial is recorded.
Configure(r) ==
    [SendConfigure(r, r.serial + 1) EXCEPT !.serial = r.serial + 1, !.acknowledged = FALSE]

\* set_mode(), with the assignment its callers make.
SetMode(r, mode) == [SendConfigure(r, Unrecorded) EXCEPT !.mode = mode]

-----------------------------------------------------------------------------
(* The cohort *)

\* transaction_done(): the cohort is parked, not applied.
TransactionDone(s, how) ==
    [win |-> [w \in DOMAIN s.win |->
                IF s.win[w].member = "enrolled"
                THEN [s.win[w] EXCEPT !.member = "parked"] ELSE s.win[w]],
     txn |-> "none",
     outcome |-> how]

\* The barrier completes as soon as it is committed and owed nothing.
Settle(s) ==
    IF s.txn = "committed" /\ \A w \in Enrolled(s) : s.win[w].answered
    THEN TransactionDone(s, "answered")
    ELSE s

JoinTransaction(s, w, awaitingAck) ==
    IF s.txn # "open" \/ s.win[w].member = "enrolled" THEN s
    ELSE [s EXCEPT !.win[w] = [@ EXCEPT !.member = "enrolled", !.joined = s.win[w].serial,
                                        !.answered = ~awaitingAck, !.held = TRUE]]

\* Fault: a window that closes does not tell the barrier.
LeaveSilently(s, w) == [s EXCEPT !.win[w] = ReleaseRender(Unlink(@), s.win[w].x)]

\* Where it leaves its view no longer matters: the window is about to go.
LeaveTransaction(s, w) ==
    IF s.win[w].member = "enrolled"
    THEN Settle([s EXCEPT !.win[w] = ReleaseRender(Unlink(@), s.win[w].x)])
    ELSE [s EXCEPT !.win[w] = Unlink(@)]

\* Fault: the windows that did not answer move too.
PresentEverybody(s, at) ==
    [s EXCEPT !.win = [w \in DOMAIN s.win |->
        LET r == s.win[w]
        IN IF r.member = "parked"
           THEN ReleaseRender(Unlink([Flush(r) EXCEPT !.pending = FALSE]), at[w]) ELSE r]]

\* A window that answered moves and stops waiting; every hold ends.
PresentCohort(s, at) ==
    [s EXCEPT !.win = [w \in DOMAIN s.win |->
        LET r == s.win[w]
            moved == IF r.answered THEN [Flush(r) EXCEPT !.pending = FALSE] ELSE r
        IN IF r.member = "parked" THEN ReleaseRender(Unlink(moved), at[w]) ELSE r]]

\* Fault: any ack that matches the last configure releases the barrier.
AckAnySerial(s, w) ==
    Settle([s EXCEPT !.win[w].acknowledged = TRUE,
                     !.win[w].answered = @ \/ s.win[w].member = "enrolled"])

\* window_ack_configure()
AckWindow(s, w) ==
    LET r == s.win[w]
        counts == r.member = "enrolled" /\ r.joined = r.serial
    IN Settle([s EXCEPT !.win[w].acknowledged = TRUE,
                        !.win[w].answered = @ \/ counts])

\* swc_window_set_size(): the client answers later, so a cohort always waits.
SetSize(s, w, size) ==
    LET r == s.win[w]
        configured == [Configure(r) EXCEPT
                         !.asked = IF r.mode = "tiled" THEN size ELSE @,
                         !.pending = r.mode = "tiled" \/ @]
    IN IF size = (IF r.pending THEN r.asked ELSE r.size) THEN s
       ELSE JoinTransaction([s EXCEPT !.win[w] = configured], w, TRUE)

SetPosition(s, w, x) ==
    LET r == s.win[w]
        moving == [s EXCEPT !.win[w].moveTo = x]
    IN IF x = r.x THEN [s EXCEPT !.win[w].moveTo = NoMove]
       ELSE IF s.txn # "none" THEN JoinTransaction(moving, w, r.pending /\ ~r.acknowledged)
       ELSE IF r.pending THEN moving
       ELSE [moving EXCEPT !.win[w] = Flush(@)]

SetGeometry(s, w, x, size) == SetPosition(SetSize(s, w, size), w, x)

-----------------------------------------------------------------------------
(* Calls of the window manager *)

Room == MapThenSumSet(LAMBDA v : Len(win[v].inbox), Windows) < MaxInbox

CanSend(w) == win[w].live /\ Room

CanConfigure(w) == CanSend(w) /\ MapThenSumSet(LAMBDA v : win[v].serial, Windows) < MaxSerial

\* xdg_toplevel_new() and river_wm_add_window(): the view is mapped onto a surface
\* that may still be held, and the manager tiles the window.
MapWindow(w) ==
    /\ ~win[w].live /\ Room
    /\ LET fresh == [NoWindow EXCEPT !.live = TRUE, !.buf = win[w].buf,
                                     !.held = win[w].held, !.replay = win[w].held]
           mapped == IF fresh.held THEN fresh ELSE Attach(fresh, fresh.x)
       IN Becomes([Now EXCEPT !.win[w] = SetMode(mapped, "tiled")])

\* window_finalize(): the client's toplevel goes away, its wl_surface stays.
DestroyWindow(w) ==
    /\ win[w].live
    /\ LET gone == LeaveTransaction(Now, w)
       IN Becomes([gone EXCEPT !.win[w] =
            [NoWindow EXCEPT !.buf = gone.win[w].buf, !.held = gone.win[w].held,
                             !.replay = gone.win[w].replay]])

\* Fault: a cohort that was never presented stays parked.
BeginOverParked(allocated, at) ==
    /\ txn = "none"
    /\ Becomes(IF allocated THEN [win |-> win, txn |-> "open", outcome |-> "none"] ELSE Now)

\* swc_transaction_begin(): a cohort left parked is presented first.
Begin(allocated, at) ==
    /\ txn = "none"
    /\ LET s == PresentCohort(Now, at)
       IN Becomes(IF allocated THEN [win |-> s.win, txn |-> "open", outcome |-> "none"] ELSE s)

\* swc_transaction_commit(): without a timer the cohort is released at once.
Commit(timerAdded) ==
    /\ txn = "open"
    /\ LET s == Settle([Now EXCEPT !.txn = "committed"])
       IN Becomes(IF s.txn = "committed" /\ ~timerAdded
                  THEN TransactionDone(s, "expired") ELSE s)

Present(at) == Parked(Now) # {} /\ Becomes(PresentCohort(Now, at))

Resize(w, size) == CanConfigure(w) /\ Becomes(SetSize(Now, w, size))

Move(w, x) == win[w].live /\ Becomes(SetPosition(Now, w, x))

Relayout(w, x, size) == CanConfigure(w) /\ Becomes(SetGeometry(Now, w, x, size))

\* swc_window_set_stacked(): a window that is not enrolled takes the place it was to
\* have.
SetStacked(w) ==
    /\ CanSend(w)
    /\ win[w].mode # "stacked"
    /\ LET r == IF win[w].member = "enrolled" THEN win[w] ELSE Flush(win[w])
       IN Becomes([Now EXCEPT !.win[w] =
            SetMode([r EXCEPT !.pending = FALSE, !.asked = Unsized], "stacked")])

\* swc_window_focus() of this or another window tells the client its state, here
\* only one that has read everything (a bound).
FocusChange(w) ==
    /\ CanSend(w)
    /\ win[w].inbox = <<>>
    /\ Becomes([Now EXCEPT !.win[w] = SendConfigure(@, Unrecorded)])

-----------------------------------------------------------------------------
(* The event loop, the pointer and the clients *)

\* The view of w is moved at once, whatever its cohort is doing.
Nudge(w, x) ==
    /\ win[w].live
    /\ x # win[w].x
    /\ win' = [win EXCEPT ![w].x = x]
    /\ nudged' = {w}
    /\ UNCHANGED <<txn, outcome>>

\* xdg_surface.set_window_geometry with an offset; the code lets a surface move
\* so once, and by that offset.
SetWindowGeometry(w, x) == Nudge(w, x)

\* move_motion() of a window that is being moved with the pointer.
MoveMotion(w, x) == Nudge(w, x)

\* resize_motion() of a window that is being resized: another configure, whose
\* serial takes the place of the recorded one, but configure.serial stays.
ResizeMotion(w) ==
    /\ CanSend(w)
    /\ LET r == win[w]
           outdated == [i \in DOMAIN r.inbox |->
                          IF r.inbox[i] = r.serial THEN Unrecorded ELSE r.inbox[i]]
       IN Becomes([Now EXCEPT !.win[w].inbox = Append(outdated, r.serial)])

Timeout == txn = "committed" /\ Becomes(TransactionDone(Now, "expired"))

\* The serial of a configure() matches until the next one.  Before the first,
\* configure_serial has never been written: what it holds may match anything.
AckMatches(r, serial) ==
    IF r.serial = 0 THEN BOOLEAN ELSE {serial = r.serial}

\* xdg_surface.ack_configure for the n-th event the client has not answered;
\* those before it need no answer of their own.
AckConfigure(w, n) ==
    LET read == [Now EXCEPT !.win[w].inbox = SubSeq(@, n + 1, Len(@))]
    IN \E matches \in AckMatches(win[w], win[w].inbox[n]) :
          Becomes(IF matches THEN AckWindow(read, w) ELSE read)

\* Fault: the commit ignores the hold.
CommitBufferAtOnce(w, size, at) ==
    /\ win[w].live
    /\ Becomes([Now EXCEPT !.win[w] = Attach([@ EXCEPT !.buf = size], at)])

\* wl_surface.commit of a new buffer, in whatever size the client drew it.
CommitBuffer(w, size, at) ==
    /\ win[w].live
    /\ LET drawn == [win[w] EXCEPT !.buf = size]
       IN Becomes([Now EXCEPT !.win[w] =
            IF drawn.held THEN [drawn EXCEPT !.replay = TRUE] ELSE Attach(drawn, at)])

Next ==
    \/ \E w \in Windows :
         \/ MapWindow(w) \/ DestroyWindow(w)
         \/ FocusChange(w) \/ SetStacked(w) \/ ResizeMotion(w)
         \/ \E size \in Sizes : Resize(w, size)
         \/ \E size \in Sizes, at \in Positions : CommitBuffer(w, size, at)
         \/ \E x \in Positions : Move(w, x) \/ SetWindowGeometry(w, x) \/ MoveMotion(w, x)
         \/ \E x \in Positions, size \in Sizes : Relayout(w, x, size)
         \/ \E n \in 1..Len(win[w].inbox) : AckConfigure(w, n)
    \/ \E at \in [Parked(Now) -> Positions] : Present(at) \/ \E ok \in BOOLEAN : Begin(ok, at)
    \/ \E ok \in BOOLEAN : Commit(ok)
    \/ Timeout

\* The timer is the only step the system owes.
Spec == Init /\ [][Next]_vars /\ WF_vars(Timeout)

-----------------------------------------------------------------------------
\* A window is enrolled only while a transaction is open and parked only while
\* none is, and a member of either list is alive and held: begin() presents what
\* was left parked, and a window that closes leaves (window.c 217-236, 364-382).
CohortShape ==
    /\ TypeOK
    /\ \A w \in Windows : win[w].member # "none" =>
         /\ win[w].live /\ win[w].held
         /\ win[w].member = IF txn = "none" THEN "parked" ELSE "enrolled"

\* What a member shows does not change until the cohort is presented: not its
\* content, whatever its client commits, and while the cohort is still waiting
\* not its position either, except that a client that announces its geometry and a
\* pointer that drags the window move it at once (window.c 261-267, 769, 826-833;
\* surface.c 308-325; xdg_shell.c 711-716).
FrozenUntilPresented ==
    [][\A w \in Windows : win[w].member # "none" /\ win'[w].member # "none" =>
         /\ win'[w].size = win[w].size
         /\ (win[w].member = "enrolled" /\ w \notin nudged') => win'[w].x = win[w].x]_vars

\* Presenting a cohort neither moves a window that did not answer nor forgets
\* where it was to go, unless it has answered since and the buffer it committed
\* under the hold is what moves it; without an answer such a buffer can only push
\* back the edge the window is being resized by (window.c 331-348, 835-859).
StragglerKeepsMove ==
    [][\A w \in Windows :
         win[w].member = "parked" /\ ~win[w].answered
           /\ win'[w].member = "none" /\ win'[w].live
         => \/ /\ win'[w].moveTo = win[w].moveTo
               /\ win'[w].x = win[w].x \/ (win[w].replay /\ win'[w].size # win[w].size)
            \/ win[w].acknowledged /\ win[w].replay]_vars

\* A window that is configured again after it was enrolled belongs to a later
\* cohort: only an ack of the configure it was enrolled with, or of one that an
\* interactive resize has put in its place, answers for this one (window.c 247-258,
\* 436-443, 641, 801; transaction.c 198-205).
AnswerIsForThisCohort ==
    [][\A w \in Windows :
         /\ win[w].member = "enrolled" /\ ~win[w].answered
         /\ win'[w].member # "none" /\ win'[w].answered
         => win'[w].acknowledged /\ win'[w].serial = win[w].joined]_vars

\* The cohort is a barrier over the windows that still owe an answer.
TheBarrier == INSTANCE Barrier WITH
    Keys    <- Windows,
    phase   <- CASE txn = "open" -> "open"
                 [] txn = "committed" -> "waiting"
                 [] txn = "none" -> IF outcome = "none" THEN "none" ELSE "released",
    awaited <- {w \in Windows : win[w].member # "none" /\ ~win[w].answered}

\* Whatever the interleaving of calls, acks, commits, closing windows and the
\* timer, the cohort completes exactly when the last window it waits for answers
\* or leaves, or when time runs out (window.c 217-313, 417-444).
ImplementsBarrier == TheBarrier!BarrierSafety

==============================================================================
