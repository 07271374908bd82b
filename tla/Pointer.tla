------------------------------ MODULE Pointer ------------------------------
(***************************************************************************)
(* The pointer of a seat: who takes a button and who hears its release     *)
(* (libswc/pointer.c, bindings.c, select.c), the focus and the resources   *)
(* that share it (input.c), the cursor a client sets, and the interactive  *)
(* moves and resizes of window.c that take a pressed button over.          *)
(*                                                                         *)
(* The pointer's position is kept only as the view found under it when an  *)
(* event looks (view_at in compositor.c), which may be any: views map,     *)
(* move and change places under a pointer that rests.  An interaction that *)
(* ends calls the handler it replaced, which may be another interaction;   *)
(* operators on a state record follow that chain.  Axis events and frames  *)
(* change nothing here and are left out.                                   *)
(***************************************************************************)
EXTENDS Naturals, FiniteSets, SequencesExt

CONSTANTS
    Views,          \* views of surfaces; a window stands for its own view
    Clients,
    Owner,          \* [Views -> Clients]: wl_resource_get_client of the surface
    Windows,        \* the views that carry a window
    WindowOf,       \* [Views -> Windows or None]: the toplevel a view is part of
    Buttons,        \* button codes; one button is pressed once at a time
    Bindings,       \* button bindings
    ButtonOf,       \* [Bindings -> Buttons], one binding of a button
    Again,          \* bound: an interaction may begin again under the press of an earlier one
    None

ASSUME PointerAssumption ==
    /\ Owner \in [Views -> Clients]
    /\ Windows \subseteq Views
    /\ WindowOf \in [Views -> Windows \cup {None}]
    /\ \A w \in Windows : WindowOf[w] = w
    /\ ButtonOf \in [Bindings -> Buttons]
    /\ \A b, c \in Bindings : ButtonOf[b] = ButtonOf[c] => b = c
    /\ Again \in BOOLEAN
    /\ IsFiniteSet(Windows) /\ IsFiniteSet(Buttons) /\ IsFiniteSet(Bindings)
    /\ None \notin Views \cup Clients \cup Bindings

Interactions == {"move", "resize"} \X Windows
Client == <<"client">>          \* client_handler
Bound == <<"bindings">>         \* button_binding_handler
Selection == <<"select">>       \* select_pointer_handler
Nobody == <<"nobody">>          \* NULL
Handlers == Interactions \cup {Client, Bound, Selection, Nobody}
Serials == 1..Cardinality(Buttons) + Cardinality(Interactions)

VARIABLES
    views,      \* the views that exist
    stacked,    \* windows in stacked mode
    focus,      \* pointer->focus.view
    bound,      \* clients with a wl_pointer
    buttons,    \* pointer->buttons: [value, serial, by, slot, to]
    grabs,      \* the handlers inserted in front of the fixed ones
    inter,      \* [Interactions -> [original, serial]], meant while they are active
    select,     \* "off", or what a grab of swc_select waits for: "press", "release"
    array,      \* button_bindings: its memory, and how much of it is in use
    cursor,     \* pointer->cursor: whose it is and whether it has a surface
    entered,    \* history: the surface each client was told it has the pointer on
    down,       \* history: the buttons each client was told are pressed there
    heard,      \* history: the bindings that were told of a press only
    moved       \* history: the bindings that took or lost a place under the presses held

vars == <<views, stacked, focus, bound, buttons, grabs, inter, select, array, cursor,
          entered, down, heard, moved>>

Idle == [original |-> Nobody, serial |-> 0]
DefaultCursor == [client |-> None, surface |-> FALSE]

TypeOK ==
    /\ views \subseteq Views
    /\ stacked \subseteq Windows
    /\ focus \in views \cup {None}
    /\ bound \subseteq Clients
    /\ buttons \subseteq [value : Buttons, serial : Serials, by : Handlers,
                          slot : 0..Cardinality(Bindings), to : Clients \cup {None}]
    /\ grabs \subseteq Interactions \cup {Selection}
    /\ inter \in [Interactions -> [original : Handlers, serial : Serials \cup {0}]]
    /\ select \in {"off", "press", "release"}
    /\ array \in [memory : Seq(Bindings), size : 0..Cardinality(Bindings)]
    /\ array.size <= Len(array.memory)
    /\ cursor \in [client : Clients \cup {None}, surface : BOOLEAN]
    /\ entered \in [Clients -> Views \cup {None}]
    /\ down \in [Clients -> SUBSET Buttons]
    /\ heard \subseteq Bindings
    /\ moved \subseteq Bindings

Init ==
    /\ views = {} /\ stacked = Windows /\ focus = None /\ bound = {}
    /\ buttons = {} /\ grabs = {} /\ inter = [i \in Interactions |-> Idle]
    /\ select = "off" /\ array = [memory |-> <<>>, size |-> 0]
    /\ cursor = DefaultCursor
    /\ entered = [c \in Clients |-> None] /\ down = [c \in Clients |-> {}]
    /\ heard = {} /\ moved = {}

\* What a button event can reach.
Now == [focus |-> focus, buttons |-> buttons, grabs |-> grabs, inter |-> inter,
        select |-> select, cursor |-> cursor, entered |-> entered, down |-> down,
        heard |-> heard]

Becomes(t) ==
    /\ focus' = t.focus /\ buttons' = t.buttons /\ grabs' = t.grabs /\ inter' = t.inter
    /\ select' = t.select /\ cursor' = t.cursor
    /\ entered' = t.entered /\ down' = t.down /\ heard' = t.heard

-----------------------------------------------------------------------------
(* Focus *)

\* swc_set_cursor(): the client's cursor is dropped.
ForceCursor(t) == [t EXCEPT !.cursor = DefaultCursor]

\* The client whose resources are in focus.active, if it has any.
Active(v) == IF v # None /\ Owner[v] \in bound THEN Owner[v] ELSE None

\* unfocus(), leave()
Leave(t) ==
    LET c == Active(t.focus)
    IN IF c = None THEN [t EXCEPT !.focus = None]
       ELSE [t EXCEPT !.focus = None, !.entered[c] = None, !.down[c] = {}]

\* focus(), enter(): another client starts from the compositor's cursor.
Enter(t, v) ==
    LET c == Active(v)
    IN IF c = None THEN [t EXCEPT !.focus = v, !.cursor = DefaultCursor]
       ELSE [t EXCEPT !.focus = v, !.entered[c] = v,
                      !.cursor = IF @.client \in {None, c} THEN @ ELSE DefaultCursor]

\* input_focus_set()
SetFocus(t, v) == IF v = t.focus THEN t ELSE Enter(Leave(t), v)

-----------------------------------------------------------------------------
(* Buttons and interactions *)

\* A press points into the array of bindings.
InUse(t) == \E b \in t.buttons : b.slot # 0

IsActive(t, h) == h \in t.grabs

\* An interaction ends on a release if it replaced somebody, who is then told.
PassesOn(t, h) ==
    h \in Interactions /\ IsActive(t, h) /\ t.inter[h].original # Nobody

\* Who is called in turn by the handler h of a button that is released.
Chain(t, h) ==
    LET called[n \in 0..Cardinality(Interactions)] ==
          IF n = 0 THEN <<h>>
          ELSE LET before == called[n - 1]
               IN IF PassesOn(t, Last(before))
                  THEN Append(before, t.inter[Last(before)].original) ELSE before
    IN called[Cardinality(Interactions)]

\* Interactions that replaced each other and would call each other for ever.
Cyclic(t, h) == PassesOn(t, Last(Chain(t, h)))

\* find_button_binding(), if the modifiers are those of the binding.
Slot(value) ==
    LET found == {k \in 1..array.size : ButtonOf[array.memory[k]] = value}
    IN IF found = {} THEN 0 ELSE CHOOSE k \in found : TRUE

\* Fault: the release looks for the binding again.
PressedByValue(b) ==
    IF Slot(b.value) = 0 THEN None ELSE array.memory[Slot(b.value)]

\* press->data: what is now in the place where the press found its binding
Pressed(b) == array.memory[b.slot]

\* Fault: of the interactions on the way only the first ends.
ReleaseOutermost(t, h, b) ==
    LET end == Last(Chain(t, h))
        ended == IF PassesOn(t, h)
                 THEN [t EXCEPT !.grabs = @ \ {h}, !.inter[h] = Idle] ELSE t
    IN IF end = Client /\ Active(t.focus) # None
       THEN [ended EXCEPT !.down[Active(t.focus)] = @ \ {b.value}]
       ELSE IF end = Bound THEN [ended EXCEPT !.heard = @ \ {Pressed(b)}] ELSE ended

\* handler->button(RELEASED) for the pressed button b: the interactions on the
\* way end, and who took the press first is told.
Release(t, h, b) ==
    LET chain == Chain(t, h)
        over == {i \in ToSet(chain) : PassesOn(t, i)}
        ended == [t EXCEPT !.grabs = @ \ over,
                           !.inter = [i \in Interactions |-> IF i \in over THEN Idle ELSE @[i]]]
        c == Active(t.focus)
    IN CASE Last(chain) = Client /\ c # None -> [ended EXCEPT !.down[c] = @ \ {b.value}]
         [] Last(chain) = Bound -> [ended EXCEPT !.heard = @ \ {Pressed(b)}]
         [] Last(chain) = Selection /\ t.select = "release" ->
              ForceCursor([ended EXCEPT !.select = "off", !.grabs = @ \ {Selection}])
         [] OTHER -> ended

\* end_interaction() without a button: the press is found by its serial.
End(t, i) ==
    LET held == {b \in t.buttons : b.serial = t.inter[i].serial}
        told == IF t.inter[i].original = Nobody \/ held = {} THEN t
                ELSE Release(t, t.inter[i].original, CHOOSE b \in held : TRUE)
    IN IF ~IsActive(t, i) THEN t
       ELSE [told EXCEPT !.grabs = @ \ {i}, !.inter[i] = Idle]

NextSerial ==
    CHOOSE n \in Serials : /\ \A b \in buttons : n # b.serial
                           /\ \A i \in Interactions : n # inter[i].serial

\* pointer_handle_button(), pressed over the view u: an interaction does not take
\* a press; a grab does; else the press sets the focus and goes to a binding or
\* to the client.
PressButton(value, u, modifiersMatch) ==
    LET fresh == [value |-> value, serial |-> NextSerial, by |-> Nobody, slot |-> 0, to |-> None]
        over == SetFocus(Now, u)
        c == Active(u)
        taken(t, b) == [t EXCEPT !.buttons = @ \cup {b}]
    IN /\ \A b \in buttons : b.value # value
       /\ u \in views \cup {None}
       /\ IF select = "press"
          THEN /\ Becomes(taken([Now EXCEPT !.select = "release"], [fresh EXCEPT !.by = Selection]))
               /\ ~modifiersMatch
          ELSE IF modifiersMatch
          THEN /\ Slot(value) # 0
               /\ Becomes(taken([over EXCEPT !.heard = @ \cup {array.memory[Slot(value)]}],
                                [fresh EXCEPT !.by = Bound, !.slot = Slot(value)]))
          ELSE IF c # None
          THEN Becomes(taken([over EXCEPT !.down[c] = @ \cup {value}],
                             [fresh EXCEPT !.by = Client, !.to = c]))
          ELSE Becomes(taken(over, fresh))
       /\ UNCHANGED <<views, stacked, bound, array, moved>>

\* pointer_handle_button(), released
ReleaseButton(b) ==
    /\ ~Cyclic(Now, b.by)
    /\ LET t == [Release(Now, b.by, b) EXCEPT !.buttons = @ \ {b}]
       IN IF InUse(t) THEN Becomes(t) /\ UNCHANGED moved
          ELSE Becomes([t EXCEPT !.heard = @ \ moved]) /\ moved' = {}
    /\ UNCHANGED <<views, stacked, bound, array>>

\* pointer_handle_absolute_motion(), to a place over u: the front interaction or
\* a grab that is dragged takes it; else the focus follows unless a button is
\* down.
Motion(u) ==
    /\ u \in views \cup {None}
    /\ \A g \in grabs : g = Selection /\ select = "press"
    /\ buttons = {}
    /\ Becomes(SetFocus(Now, u))
    /\ UNCHANGED <<views, stacked, bound, array, moved>>

\* Neither a pressed button nor an interaction would still call i.
Forgotten(i) ==
    /\ \A b \in buttons : b.by # i
    /\ \A j \in Interactions : inter[j].original # i

\* begin_interaction() for the press that the client of w names
RequestInteraction(i, b) ==
    /\ i[2] \in views \cap stacked
    /\ ~IsActive(Now, i)
    /\ Again \/ Forgotten(i)
    /\ b.to = Owner[i[2]]
    /\ Becomes([Now EXCEPT
         !.inter[i] = [original |-> b.by, serial |-> b.serial],
         !.buttons = (@ \ {b}) \cup {[b EXCEPT !.by = i]},
         !.grabs = @ \cup {i}])
    /\ UNCHANGED <<views, stacked, bound, array, moved>>

\* swc_window_begin_move() and swc_window_begin_resize(): without a button
BeginInteraction(i) ==
    /\ i[2] \in views \cap stacked
    /\ ~IsActive(Now, i)
    /\ Becomes([Now EXCEPT !.inter[i] = Idle, !.grabs = @ \cup {i}])
    /\ UNCHANGED <<views, stacked, bound, array, moved>>

\* swc_window_end_move() and swc_window_end_resize()
EndInteraction(i) ==
    /\ IsActive(Now, i)
    /\ Becomes(End(Now, i))
    /\ UNCHANGED <<views, stacked, bound, array, moved>>

SetTiled(w) ==
    /\ w \in views
    /\ Becomes(End(End(Now, <<"move", w>>), <<"resize", w>>))
    /\ stacked' = stacked \ {w}
    /\ UNCHANGED <<views, bound, array, moved>>

SetStacked(w) ==
    /\ w \in views
    /\ stacked' = stacked \cup {w}
    /\ UNCHANGED <<views, focus, bound, buttons, grabs, inter, select, array, cursor,
                   entered, down, heard, moved>>

\* swc_select.grab; a second grab before the first is over would insert the one
\* handler again and is left out.
Grab ==
    /\ select = "off"
    /\ Becomes(ForceCursor([Now EXCEPT !.select = "press", !.grabs = @ \cup {Selection}]))
    /\ UNCHANGED <<views, stacked, bound, array, moved>>

-----------------------------------------------------------------------------
(* Bindings *)

\* The bindings whose press or whose place changes when b is written to place k.
Moved(k, b) ==
    IF array.memory[k] # b /\ \E p \in buttons : p.slot = k
    THEN {array.memory[k], b} ELSE {}

\* swc_add_binding(); a press in progress would lose its slot if the array moved.
AddBinding(b) ==
    LET n == array.size + 1
        grows == n > Len(array.memory)
    IN /\ b \notin {array.memory[k] : k \in 1..array.size}
       /\ grows => ~InUse(Now)
       /\ array' = [memory |-> IF grows THEN Append(array.memory, b)
                               ELSE [array.memory EXCEPT ![n] = b],
                    size |-> n]
       /\ moved' = moved \cup (IF grows THEN {} ELSE Moved(n, b))
       /\ UNCHANGED <<views, stacked, focus, bound, buttons, grabs, inter, select, cursor,
                      entered, down, heard>>

\* swc_remove_binding(): the last one takes its place.
RemoveBinding(b) ==
    LET k == Slot(ButtonOf[b])
        last == array.memory[array.size]
    IN /\ b \in {array.memory[j] : j \in 1..array.size}
       /\ array' = [memory |-> [array.memory EXCEPT ![k] = last], size |-> array.size - 1]
       /\ moved' = moved \cup Moved(k, last)
       /\ UNCHANGED <<views, stacked, focus, bound, buttons, grabs, inter, select, cursor,
                      entered, down, heard>>

-----------------------------------------------------------------------------
(* Clients *)

OpenView(v) ==
    /\ v \notin views
    /\ views' = views \cup {v}
    /\ stacked' = stacked \cup ({v} \cap Windows)
    /\ UNCHANGED <<focus, bound, buttons, grabs, inter, select, array, cursor,
                   entered, down, heard, moved>>

\* compositor_view_destroy() and handle_focus_view_destroy().  A window that has
\* an interaction, or a press that went through one, stays in the handlers and
\* is left out.
CloseView(v) ==
    LET named == {i \in Interactions : i[2] = v}
    IN /\ v \in views
       /\ \A i \in named : ~IsActive(Now, i)
       /\ \A b \in buttons : b.by \notin named
       /\ \A i \in Interactions : inter[i].original \notin named
       /\ views' = views \ {v}
       /\ Becomes(IF focus = v THEN Leave(Now) ELSE Now)
       /\ UNCHANGED <<stacked, bound, array, moved>>

\* Fault: a wl_pointer that comes late is not told where the pointer is.
BindUntold(c) ==
    /\ c \notin bound
    /\ bound' = bound \cup {c}
    /\ UNCHANGED <<views, stacked, focus, buttons, grabs, inter, select, array, cursor,
                   entered, down, heard, moved>>

\* input_focus_add_resource(): enter() for this resource alone
AddResource(t, c) ==
    IF t.focus # None /\ Owner[t.focus] = c
    THEN [t EXCEPT !.entered[c] = t.focus,
                   !.cursor = IF @.client \in {None, c} THEN @ ELSE DefaultCursor]
    ELSE t

\* pointer_bind()
Bind(c) ==
    /\ c \notin bound
    /\ bound' = bound \cup {c}
    /\ Becomes(AddResource(Now, c))
    /\ UNCHANGED <<views, stacked, array, moved>>

\* unbind()
Unbind(c) ==
    /\ c \in bound
    /\ bound' = bound \ {c}
    /\ entered' = [entered EXCEPT ![c] = None]
    /\ down' = [down EXCEPT ![c] = {}]
    /\ UNCHANGED <<views, stacked, focus, buttons, grabs, inter, select, array, cursor, heard,
                   moved>>

\* set_cursor(): only from the client that has the focus, and not over a cursor
\* the compositor forces.
SetCursor(c, surface) ==
    /\ c \in bound
    /\ focus # None /\ Owner[focus] = c
    /\ select = "off"
    /\ cursor' = [client |-> c, surface |-> surface]
    /\ UNCHANGED <<views, stacked, focus, bound, buttons, grabs, inter, select, array,
                   entered, down, heard, moved>>

\* handle_cursor_surface_destroy()
CursorSurfaceDestroy ==
    /\ cursor.surface
    /\ cursor' = DefaultCursor
    /\ UNCHANGED <<views, stacked, focus, bound, buttons, grabs, inter, select, array,
                   entered, down, heard, moved>>

Next ==
    \/ \E v \in Buttons, u \in Views \cup {None}, m \in BOOLEAN : PressButton(v, u, m)
    \/ \E b \in buttons : ReleaseButton(b)
    \/ \E u \in Views \cup {None} : Motion(u)
    \/ \E i \in Interactions : \/ \E b \in buttons : RequestInteraction(i, b)
                               \/ BeginInteraction(i) \/ EndInteraction(i)
    \/ \E w \in Windows : SetTiled(w) \/ SetStacked(w)
    \/ Grab
    \/ \E b \in Bindings : AddBinding(b) \/ RemoveBinding(b)
    \/ \E v \in Views : OpenView(v) \/ CloseView(v)
    \/ \E c \in Clients : Bind(c) \/ Unbind(c) \/ \E s \in BOOLEAN : SetCursor(c, s)
    \/ CursorSurfaceDestroy

Spec == Init /\ [][Next]_vars

-----------------------------------------------------------------------------
(* Properties *)

\* A client that was told a button went down hears of its release, or loses the
\* pointer: whatever it believes pressed is held, and the release will find its
\* way to the client through every interaction that took the button over.  A
\* binding that was told of a press hears of the release, and nobody hears of one
\* without a press, though other bindings come and go: but for those that took or
\* lost, while the button was held, the place in the array the press points to
\* (pointer.c 877-925, window.c 152-196, 805-819; bindings.c 142-165, 262-290).
ReleasesAreHeard ==
    /\ \A c \in Clients : \A v \in down[c] :
         \E b \in buttons : b.value = v /\ Last(Chain(Now, b.by)) = Client
    /\ \A x \in Bindings \ moved :
         x \in heard <=> \E b \in buttons : b.by = Bound /\ array.memory[b.slot] = x

\* Enter and leave agree with the focus: the one client that was told it has the
\* pointer is the one that owns the view, and it was told that view, though
\* views are destroyed and resources come and go; and it is not shown under the
\* cursor another one set (input.c 30-151, pointer.c 130-170).
FocusIsTold ==
    /\ \A c \in Clients :
         entered[c] = IF focus # None /\ Active(focus) = c THEN focus ELSE None
    /\ Active(focus) # None => cursor.client \in {None, Active(focus)}

\* A handler is in front of the others for each interaction under way and for a
\* grab; when no button is held, nothing that a button began is left: the press
\* it took over is still held, and its release will come through it
\* (window.c 152-196, select.c 57-75).
GrabsEnd ==
    /\ TypeOK
    /\ Selection \in grabs <=> select # "off"
    /\ \A i \in Interactions : inter[i].original # Nobody =>
         /\ i \in grabs
         /\ \E b \in buttons : b.serial = inter[i].serial /\ i \in ToSet(Chain(Now, b.by))

=============================================================================
