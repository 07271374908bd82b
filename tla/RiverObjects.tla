---------------------------- MODULE RiverObjects ----------------------------
(***************************************************************************)
(* The objects a window manager holds (wm/river_wm.c): a window, its node, *)
(* an output and the area left on it, the seat and the manager's own shell *)
(* surfaces.  Each has up to three lives that end in any order: the thing  *)
(* in swc, the struct of the compositor program, and the objects of a      *)
(* client, whose user data point at the struct.                            *)
(*                                                                         *)
(* An object is a tuple of its kind, its subject, its client and a number; *)
(* user data are the subject until somebody clears them.  The phases of    *)
(* the loop are in ManageSequence: here a sequence may begin whenever a     *)
(* manager is bound.  Screens are there from the start, before any client, *)
(* and end only with swc_finalize(), which no program here calls.  Left    *)
(* out is what the code does not survive: a window that closes under an    *)
(* object kept by an earlier manager, a wl_surface that goes before its    *)
(* shell surface.                                                          *)
(***************************************************************************)
EXTENDS Naturals, FiniteSets

CONSTANTS
    Windows, Outputs, Shells, Clients,
    Sizes,          \* sizes a client commits; 0 before the first
    MaxObjects,     \* bound: objects that exist when a client asks for one more
    MaxKept,        \* bound: objects a client keeps when it stops to manage
    None

Kinds == {"window", "node", "output", "layer output", "seat", "layer seat", "shell", "shell node"}
Objects ==
    Kinds \X (Windows \cup Outputs \cup Shells \cup {None}) \X Clients \X {1, 2}

ASSUME RiverObjectsAssumption ==
    /\ Sizes \subseteq Nat \ {0}
    /\ MaxObjects \in Nat /\ MaxKept \in Nat
    /\ Windows \cap Outputs = {} /\ Windows \cap Shells = {} /\ Outputs \cap Shells = {}
    /\ None \notin Windows \cup Outputs \cup Shells \cup Clients \cup Objects

VARIABLES
    windows,    \* struct river_window of each swc window
    outputs,    \* struct river_output of each screen
    shells,     \* struct river_shell_surface of each wl_surface that may get one
    manager,    \* the client of wm.manager
    seat,       \* wm.seat
    layerSeat,  \* wm.layer_seat
    data,       \* the objects that exist, each with its user data
    queue,      \* windows in pending_binding_events; their order tells nothing apart
    place,      \* wm.pointer_x, pointer_y: "unsent", or the pointer is "there" or "away"
    knows       \* history: what the manager was told since it began to manage

vars == <<windows, outputs, shells, manager, seat, layerSeat, data, queue, place, knows>>

Object(kind, x, c) == <<kind, x, c, 1>>
ObjectsOf(c) == {r \in DOMAIN data : r[3] = c}

NoWindow == [swc |-> FALSE, memory |-> FALSE, resource |-> None, node |-> None, sent |-> 0,
             committed |-> 0, shown |-> 0]
\* river_wm_add_screen(), for each connected output
AddScreen == [resource |-> None, layer |-> None]
NoShell == [view |-> FALSE, resource |-> None, node |-> None]
Nothing == [windows |-> {}, size |-> [w \in Windows |-> 0], outputs |-> {}, place |-> FALSE]

TypeOK ==
    /\ windows \in [Windows -> [swc : BOOLEAN, memory : BOOLEAN,
                                resource : Objects \cup {None}, node : Objects \cup {None},
                                sent : Sizes \cup {0}, committed : Sizes \cup {0},
                                shown : Sizes \cup {0}]]
    /\ outputs \in [Outputs -> [resource : Objects \cup {None}, layer : Objects \cup {None}]]
    /\ shells \in [Shells -> [view : BOOLEAN, resource : Objects \cup {None}, node : Objects \cup {None}]]
    /\ manager \in Clients \cup {None}
    /\ seat \in Objects \cup {None} /\ layerSeat \in Objects \cup {None}
    /\ DOMAIN data \subseteq Objects
    /\ \A r \in DOMAIN data : data[r] \in Windows \cup Outputs \cup Shells \cup {None}
    /\ queue \subseteq Windows
    /\ place \in {"unsent", "there", "away"}
    /\ knows \in [windows : SUBSET Windows, size : [Windows -> Sizes \cup {0}],
                  outputs : SUBSET Outputs, place : BOOLEAN]

Init ==
    /\ windows = [w \in Windows |-> NoWindow]
    /\ outputs = [o \in Outputs |-> AddScreen]
    /\ shells = [s \in Shells |-> NoShell]
    /\ manager = None /\ seat = None /\ layerSeat = None
    /\ data = [r \in {} |-> None]
    /\ queue = {} /\ place = "unsent"
    /\ knows = Nothing

\* The objects that remain and those that come, with their user data.
With(d, r, x) == [q \in DOMAIN d \cup {r} |-> IF q = r THEN x ELSE d[q]]
Without(d, gone) == [q \in DOMAIN d \ gone |-> d[q]]
Cleared(d, r) == IF r \in DOMAIN d THEN [d EXCEPT ![r] = None] ELSE d
Room == Cardinality(DOMAIN data) < MaxObjects
Referring(x) == {r \in DOMAIN data : data[r] = x}

-----------------------------------------------------------------------------
(* Windows and nodes *)

\* Fault: the node is not counted.
MaybeFreeByWindow(x) == [x EXCEPT !.memory = x.swc \/ x.resource # None]

\* maybe_free_window()
MaybeFree(x) == [x EXCEPT !.memory = x.swc \/ x.resource # None \/ x.node # None]

\* node_resource_destroy(), if the node is one of those that go
LoseNode(x, gone) == IF x.node \in gone THEN MaybeFree([x EXCEPT !.node = None]) ELSE x

\* window_resource_destroy()
LoseResource(x, gone) ==
    IF x.resource \in gone THEN MaybeFree([x EXCEPT !.resource = None]) ELSE x

\* drop_window_events(), before a struct is freed
Kept(ws) == {w \in queue : ws[w].memory}

KnowsNot(w) == [knows EXCEPT !.windows = @ \ {w}, !.size[w] = 0]

\* river_wm_add_window()
AddWindow(w) ==
    /\ ~windows[w].memory
    /\ Referring(w) = {}
    /\ windows' = [windows EXCEPT ![w] = [NoWindow EXCEPT !.swc = TRUE, !.memory = TRUE]]
    /\ UNCHANGED <<outputs, shells, manager, seat, layerSeat, data, queue, place, knows>>

\* Fault: nobody is told.
CloseQuietly(w) ==
    LET closed == MaybeFree([windows[w] EXCEPT !.swc = FALSE, !.committed = 0, !.shown = 0])
    IN /\ windows[w].swc
       /\ Referring(w) \subseteq {windows[w].resource, windows[w].node}
       /\ windows' = [windows EXCEPT ![w] = IF closed.memory THEN closed ELSE NoWindow]
       /\ queue' = Kept(windows')
       /\ UNCHANGED <<outputs, shells, manager, seat, layerSeat, data, place, knows>>

\* handle_window_destroy(): closed is sent to the object that is tracked.  An
\* object that an earlier manager has kept is not, and must not exist.
CloseWindow(w) ==
    LET closed == MaybeFree([windows[w] EXCEPT !.swc = FALSE, !.committed = 0, !.shown = 0])
        r == windows[w].resource
    IN /\ windows[w].swc
       /\ Referring(w) \subseteq {r, windows[w].node}
       /\ windows' = [windows EXCEPT ![w] = IF closed.memory THEN closed ELSE NoWindow]
       /\ queue' = Kept(windows')
       /\ knows' = IF r = None THEN knows ELSE KnowsNot(w)
       /\ UNCHANGED <<outputs, shells, manager, seat, layerSeat, data, place>>

\* window_get_node(): only the newest node is tracked, the one before is cleared.
GetNode(c, w, n) ==
    LET r == Object("window", w, c)
        node == <<"node", w, c, n>>
        x == data[r]
    IN /\ r \in DOMAIN data /\ Room
       /\ node \notin DOMAIN data
       /\ windows' = IF x = None THEN windows ELSE [windows EXCEPT ![x].node = node]
       /\ data' = With(IF x = None THEN data ELSE Cleared(data, windows[x].node), node, x)
       /\ UNCHANGED <<outputs, shells, manager, seat, layerSeat, queue, place,
                      knows>>

\* A buffer of another size is committed, or the render hold lets it be seen.
CommitSize(w, s) ==
    /\ windows[w].swc
    /\ windows' = [windows EXCEPT ![w].committed = s]
    /\ UNCHANGED <<outputs, shells, manager, seat, layerSeat, data, queue, place, knows>>

ShowSize(w) ==
    /\ windows[w].swc
    /\ windows' = [windows EXCEPT ![w].shown = windows[w].committed]
    /\ UNCHANGED <<outputs, shells, manager, seat, layerSeat, data, queue, place, knows>>

-----------------------------------------------------------------------------
(* Outputs *)

\* layer_shell_get_output(); an output that has one already is a protocol error.
LayerGetOutput(c, o) ==
    LET r == Object("output", o, c)
        layer == Object("layer output", o, c)
    IN /\ Room
       /\ r \in DOMAIN data /\ layer \notin DOMAIN data
       /\ data[r] = None \/ outputs[o].layer = None
       /\ data' = With(data, layer, data[r])
       /\ outputs' = IF data[r] = None THEN outputs ELSE [outputs EXCEPT ![o].layer = layer]
       /\ UNCHANGED <<windows, shells, manager, seat, layerSeat, queue, place,
                      knows>>

\* layer_shell_get_seat(); a second one is a protocol error.
LayerGetSeat(c) ==
    LET layer == Object("layer seat", None, c)
    IN /\ Room
       /\ manager = c /\ layerSeat = None
       /\ layerSeat' = layer
       /\ data' = With(data, layer, None)
       /\ UNCHANGED <<windows, outputs, shells, manager, seat, queue, place, knows>>

-----------------------------------------------------------------------------
(* Shell surfaces *)

\* swc_shell_surface_create(), for a surface that has no view
WithView(r) == [view |-> TRUE, resource |-> r, node |-> None]

\* manager_get_shell_surface(); a wl_surface with a view is a protocol error.
GetShellSurface(c, s) ==
    LET r == Object("shell", s, c)
    IN /\ manager = c /\ Room
       /\ ~shells[s].view /\ r \notin DOMAIN data
       /\ shells' = [shells EXCEPT ![s] = WithView(r)]
       /\ data' = With(data, r, s)
       /\ UNCHANGED <<windows, outputs, manager, seat, layerSeat, queue, place,
                      knows>>

\* shell_surface_get_node(); a second one is a protocol error.
ShellGetNode(c, s) ==
    LET r == Object("shell", s, c)
        node == Object("shell node", s, c)
    IN /\ Room
       /\ r \in DOMAIN data /\ shells[s].node = None /\ node \notin DOMAIN data
       /\ shells' = [shells EXCEPT ![s].node = node]
       /\ data' = With(data, node, s)
       /\ UNCHANGED <<windows, outputs, manager, seat, layerSeat, queue, place,
                      knows>>

-----------------------------------------------------------------------------
(* Objects that go *)

\* layer_output_resource_destroy()
LoseLayer(x, gone) == [x EXCEPT !.layer = IF @ \in gone THEN None ELSE @]

\* Fault: the struct keeps thinking that it is advertised.
LoseNoOutput(x, gone) == x

\* output_resource_destroy()
LoseOutput(x, gone) == [x EXCEPT !.resource = IF @ \in gone THEN None ELSE @]

\* layer_seat_resource_destroy()
LoseLayerSeat(gone) == IF layerSeat \in gone THEN None ELSE layerSeat

\* shell_node_resource_destroy()
LoseShellNode(x, gone) == [x EXCEPT !.node = IF @ \in gone THEN None ELSE @]

\* swc_shell_surface_destroy()
WithoutView == NoShell

\* shell_surface_resource_destroy(): the view and the struct
LoseShell(x, gone) == IF x.resource \in gone THEN WithoutView ELSE x

\* What shell_surface_resource_destroy() does to the node that stays.
NodesCleared(gone) ==
    {shells[s].node : s \in {t \in Shells : shells[t].resource \in gone}}

\* The destructors of the objects in gone, over the windows ws and outputs os.
Destroyed(ws, os, gone) ==
    /\ windows' = [w \in Windows |->
         LET x == LoseNode(LoseResource(ws[w], gone), gone) IN IF x.memory THEN x ELSE NoWindow]
    /\ outputs' = [o \in Outputs |-> LoseLayer(LoseOutput(os[o], gone), gone)]
    /\ shells' = [s \in Shells |-> LoseShellNode(LoseShell(shells[s], gone), gone)]
    /\ data' = [r \in DOMAIN data \ gone |->
                  IF r \in NodesCleared(gone) THEN None ELSE data[r]]
    /\ queue' = Kept(windows')
    /\ layerSeat' = LoseLayerSeat(gone)

\* Any object but the manager itself, destroyed by its client; what it knew of
\* the object it forgets with it.
DestroyObject(r) ==
    /\ r \in DOMAIN data
    /\ Destroyed(windows, outputs, {r})
    /\ seat' = IF seat = r THEN None ELSE seat
    /\ knows' = IF r[3] # manager THEN knows
                ELSE CASE r[1] = "window" -> KnowsNot(r[2])
                       [] r[1] = "output" -> [knows EXCEPT !.outputs = @ \ {r[2]}]
                       [] r[1] = "seat" -> [knows EXCEPT !.place = FALSE]
                       [] OTHER -> knows
    /\ UNCHANGED <<manager, place>>

-----------------------------------------------------------------------------
(* The manager *)

\* bind_manager(), for a client that manages for the first time or has given up
\* what it had; anyone else is told that it is unavailable.
Bind(c) ==
    /\ manager = None
    /\ ObjectsOf(c) = {}
    /\ manager' = c
    /\ UNCHANGED <<windows, outputs, shells, seat, layerSeat, data, queue, place, knows>>

\* manager_resource_destroy(), what it does to a window: closed ones are not listed.
Forgotten(x) == IF x.swc THEN [x EXCEPT !.resource = None, !.node = None] ELSE x

ForgottenWindows == [w \in Windows |-> Forgotten(windows[w])]
ForgottenOutputs == [o \in Outputs |-> [outputs[o] EXCEPT !.resource = None]]

\* manager_destroy(): the other objects may stay, and the client with them.
DestroyManager ==
    /\ manager # None
    /\ Cardinality(ObjectsOf(manager)) <= MaxKept
    /\ manager' = None /\ seat' = None
    /\ windows' = ForgottenWindows /\ outputs' = ForgottenOutputs
    /\ knows' = Nothing
    /\ UNCHANGED <<shells, layerSeat, data, queue, place>>

\* The client disconnects, or is disconnected: its objects go, the manager first.
ClientDies(c) ==
    /\ manager = c \/ ObjectsOf(c) # {}
    /\ IF manager = c
       THEN Destroyed(ForgottenWindows, ForgottenOutputs, ObjectsOf(c)) /\ manager' = None
       ELSE Destroyed(windows, outputs, ObjectsOf(c)) /\ UNCHANGED manager
    /\ seat' = IF seat \in ObjectsOf(c) \/ manager = c THEN None ELSE seat
    /\ knows' = IF manager = c THEN Nothing ELSE knows
    /\ UNCHANGED place

\* advertise_window()
AdvertiseWindow(x, w) ==
    IF x.swc /\ x.resource = None
    THEN [x EXCEPT !.resource = Object("window", w, manager), !.sent = x.shown] ELSE x

\* advertise_output()
AdvertiseOutput(x, o) ==
    IF x.resource = None
    THEN [x EXCEPT !.resource = Object("output", o, manager)] ELSE x

\* advertise_seat(): whom it is advertised to for the first time
NewSeat == IF seat = None THEN {Object("seat", None, manager)} ELSE {}

\* send_pointer_position(): nothing if it has not changed since it was last sent
PlaceTold == IF place = "there" THEN knows.place ELSE TRUE

\* flush_binding_events(): each event is told or dropped.
Flushed == {}

\* begin_manage(): what is new is told, the queue is flushed, manage_start follows.
BeginManage ==
    LET newWindows == {w \in Windows : windows[w].swc /\ windows[w].resource = None}
        newOutputs == {o \in Outputs : outputs[o].resource = None}
        new == {Object("window", w, manager) : w \in newWindows}
                 \cup {Object("output", o, manager) : o \in newOutputs}
                 \cup NewSeat
    IN /\ manager # None
       /\ windows' = [w \in Windows |-> AdvertiseWindow(windows[w], w)]
       /\ outputs' = [o \in Outputs |-> AdvertiseOutput(outputs[o], o)]
       /\ seat' = Object("seat", None, manager)
       /\ data' = [r \in DOMAIN data \cup new |-> IF r \in new THEN r[2] ELSE data[r]]
       /\ queue' = Flushed
       /\ place' = "there"
       /\ knows' = [knows EXCEPT
            !.windows = @ \cup newWindows,
            !.size = [w \in Windows |-> IF w \in newWindows THEN windows[w].shown ELSE @[w]],
            !.outputs = @ \cup newOutputs,
            !.place = PlaceTold]
       /\ UNCHANGED <<shells, manager, layerSeat>>

\* begin_render(): sizes that differ from what was sent
BeginRender ==
    LET told == {w \in Windows : /\ windows[w].swc /\ windows[w].resource # None
                                 /\ windows[w].committed # windows[w].sent}
    IN /\ manager # None
       /\ windows' = [w \in Windows |->
            IF w \in told THEN [windows[w] EXCEPT !.sent = windows[w].committed] ELSE windows[w]]
       /\ knows' = [knows EXCEPT !.size =
            [w \in Windows |-> IF w \in told THEN windows[w].committed ELSE @[w]]]
       /\ UNCHANGED <<outputs, shells, manager, seat, layerSeat, data, queue, place>>

\* queue_window_interaction()
QueueInteraction(w) == queue' = queue \cup {w}

\* seat_observe_button(), for a press on w
Interact(w) ==
    /\ seat # None /\ windows[w].swc /\ windows[w].resource # None
    /\ QueueInteraction(w)
    /\ UNCHANGED <<windows, outputs, shells, manager, seat, layerSeat, data, place, knows>>

\* The pointer leaves the place that was sent last, or comes back.
MovePointer ==
    /\ place # "unsent"
    /\ place' = IF place = "there" THEN "away" ELSE "there"
    /\ UNCHANGED <<windows, outputs, shells, manager, seat, layerSeat, data, queue, knows>>

Next ==
    \/ \E w \in Windows : \/ AddWindow(w) \/ CloseWindow(w) \/ ShowSize(w) \/ Interact(w)
                          \/ \E s \in Sizes : CommitSize(w, s)
                          \/ \E c \in Clients, n \in {1, 2} : GetNode(c, w, n)
    \/ \E o \in Outputs, c \in Clients : LayerGetOutput(c, o)
    \/ \E s \in Shells, c \in Clients : GetShellSurface(c, s) \/ ShellGetNode(c, s)
    \/ \E c \in Clients : LayerGetSeat(c) \/ Bind(c) \/ ClientDies(c)
    \/ \E r \in DOMAIN data : DestroyObject(r)
    \/ DestroyManager \/ BeginManage \/ BeginRender
    \/ MovePointer

Spec == Init /\ [][Next]_vars

-----------------------------------------------------------------------------
(* Properties *)

\* User data point at a struct that exists, or nowhere; the objects the structs
\* send events to exist; and so do the windows of queued events.  A window that is
\* closed is freed as soon as no object refers to it, and the view of a shell
\* surface goes with its object (river_wm.c 293-306, 786-799, 2440-2464).
UserDataIsAlive ==
    /\ TypeOK
    /\ \A r \in DOMAIN data : CASE data[r] \in Windows -> windows[data[r]].memory
                               [] data[r] \in Shells -> shells[data[r]].view
                               [] OTHER -> TRUE
    /\ \A w \in Windows : {windows[w].resource, windows[w].node} \subseteq DOMAIN data \cup {None}
    /\ \A o \in Outputs : {outputs[o].resource, outputs[o].layer} \subseteq DOMAIN data \cup {None}
    /\ {seat, layerSeat} \subseteq DOMAIN data \cup {None}
    /\ \A w \in queue : windows[w].memory
    /\ \A w \in Windows : windows[w].memory /\ ~windows[w].swc => Referring(w) # {}
    /\ \A s \in Shells : shells[s].view => shells[s].resource \in Referring(s)

\* What the manager believes is what is true of the windows and outputs it was
\* told of: closed reaches it, and the size it was told last is the one
\* the struct remembers to have sent, whoever managed before
\* (river_wm.c 1945-1985, 2064-2112, 2279-2304, 2466-2482).
BeliefIsKept ==
    manager # None =>
      /\ knows.windows = {w \in Windows : windows[w].swc /\ windows[w].resource # None}
      /\ knows.outputs = {o \in Outputs : outputs[o].resource # None}
      /\ \A w \in knows.windows : knows.size[w] = windows[w].sent

\* "A new manager will be told about everything again" (river_wm.c 2289-2290):
\* after a manage sequence has begun, it knows every window and output there is.
EverythingIsTold ==
    [][BeginManage =>
         /\ knows'.windows = {w \in Windows : windows[w].swc}
         /\ knows'.outputs = Outputs]_vars

=============================================================================
