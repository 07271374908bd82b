------------------------------ MODULE Outputs ------------------------------
(***************************************************************************)
(* Where the screens lie and what is left of them: wlr-output-management   *)
(* moves screens (output_management.c, screen.c), which confines the       *)
(* pointer to their union (pointer.c) and tells everybody (output.c); and  *)
(* layer surfaces and panels (layer_shell.c, panel.c) take zones off the   *)
(* area for windows, of which the window manager is told (river_wm.c).     *)
(*                                                                         *)
(* Screens lie side by side: a position is a column, and a zone is so many *)
(* rows at the top or the bottom.  One call may run several functions, so  *)
(* each is an operator from a record of the state to another.  What a      *)
(* client sets before a commit or an apply, nobody reads before: it comes  *)
(* with that action.  Left out is what the code does not survive: a panel  *)
(* that is given a buffer before it docks or docks twice on one screen.    *)
(* The definitions every specification has are named for the layout here,  *)
(* since ScreenProofs extends this module beside another.                  *)
(***************************************************************************)
EXTENDS Integers, FiniteSets, SequencesExt

CONSTANTS
    Screens,
    FirstPosition,  \* where each screen begins: side by side, screen_new()
    Width, Height,  \* of every screen
    Positions,      \* columns a client moves a screen to
    Layers, Panels, \* wl_surfaces that may get such a role
    States,         \* states of a layer surface a client asks for
    Sizes,          \* heights of its buffers
    Struts,         \* rows a panel claims
    Configs,        \* configurations a client may have at a time
    None

Edges == {"top", "bottom"}
Anchors == Edges \cup {"none", "both"}
LayerStates == [anchor : Anchors, edge : Edges \cup {None}, zone : Nat \cup {-1}, margin : Nat,
                desired : 0 .. Height]

ASSUME OutputsAssumption ==
    /\ IsFiniteSet(Screens) /\ Screens # {} /\ IsFiniteSet(Layers) /\ IsFiniteSet(Panels)
    /\ Width \in Nat \ {0} /\ Height \in Nat \ {0}
    /\ Positions \subseteq Nat /\ IsFiniteSet(Positions)
    /\ FirstPosition \in [Screens -> Positions]
    /\ States \subseteq LayerStates
    /\ Sizes \subseteq 1 .. Height
    /\ Struts \subseteq Nat
    /\ None \notin Screens /\ None \notin Edges /\ None \notin Positions

VARIABLES
    pos,        \* geometry.x of each screen
    usable,     \* its usable_geometry
    heard,      \* position and area the window manager was told last
    seen,       \* position the wl_output resources were told last
    heads,      \* position a bound output manager was told last, or None
    pointer,    \* the column the pointer is in
    layers,     \* struct layer_surface of each wl_surface
    panels,     \* struct panel
    configs,    \* "none", or a configuration made with the "current" serial or an "old" one
    overdue,    \* history: screens a panel with a claim docked on and that were not updated since
    outdated    \* history: the configurations made of another layout than this

layoutVars ==
    <<pos, usable, heard, seen, heads, pointer, layers, panels, configs, overdue, outdated>>

NoLayer == [screen |-> None]
NoPanel == [screen |-> None, exists |-> FALSE]
NoArea == <<0, 0>>      \* an empty region; where it lies depends on the order of the list
Whole == <<0, Height>>

\* layer_surface_new()
NewLayer(s) ==
    [screen |-> s,
     state |-> [anchor |-> "none", edge |-> None, zone |-> 0, margin |-> 0, desired |-> 0],
     size |-> 0, mapped |-> FALSE, configured |-> FALSE, told |-> 0, acked |-> TRUE, row |-> 0]

\* panel_new()
NewPanel == [exists |-> TRUE, screen |-> None, edge |-> None, strut |-> 0]

\* The state as one record, and the step to another.
World == [pos |-> pos, usable |-> usable, heard |-> heard, seen |-> seen, heads |-> heads,
          pointer |-> pointer, layers |-> layers, panels |-> panels, configs |-> configs,
          overdue |-> overdue]

Becomes(w) ==
    /\ pos' = w.pos /\ usable' = w.usable /\ heard' = w.heard /\ seen' = w.seen
    /\ heads' = w.heads /\ pointer' = w.pointer /\ layers' = w.layers /\ panels' = w.panels
    /\ configs' = w.configs /\ overdue' = w.overdue
    /\ outdated' = {c \in Configs : w.configs[c] # "none" /\ (c \in outdated \/ w.pos # pos)}

-----------------------------------------------------------------------------
(* The area left for windows *)

\* exclusive_edge()
ExclusiveEdge(st) ==
    CASE st.edge # None -> st.edge
      [] st.edge = None /\ st.anchor \in Edges -> st.anchor
      [] OTHER -> None

\* exclusive_size(), for which -1 means the surface and its margin
ExclusiveSize(x) ==
    CASE x.state.zone # -1 -> x.state.zone
      [] x.state.zone = -1 /\ ExclusiveEdge(x.state) # None -> x.size + x.state.margin
      [] OTHER -> 0

Shrunk(edge, rows) ==
    CASE edge = "top" -> <<rows, Height>>
      [] edge = "bottom" -> <<0, Height - rows>>
      [] OTHER -> Whole

\* modify() of layer_shell.c
ModifyByLayer(x) ==
    IF ~x.mapped \/ ExclusiveSize(x) <= 0 THEN Whole ELSE Shrunk(ExclusiveEdge(x.state), ExclusiveSize(x))

\* modify() of panel.c
ModifyByPanel(x) == Shrunk(x.edge, x.strut)

\* screen->modifiers
Modified(w, s) ==
    {ModifyByLayer(w.layers[l]) : l \in {k \in Layers : w.layers[k].screen = s}}
      \cup {ModifyByPanel(w.panels[p]) : p \in {q \in Panels : w.panels[q].screen = s}}

\* The extents of what the modifiers leave of the screen.
Usable(w, s) ==
    LET areas == {Whole} \cup Modified(w, s)
        top == Max({area[1] : area \in areas})
        bottom == Min({area[2] : area \in areas})
    IN [column |-> w.pos[s], rows |-> IF top < bottom THEN <<top, bottom>> ELSE NoArea]

\* handle_screen_geometry() and send_output_geometry()
Hear(w, s) == [w EXCEPT !.heard[s] = [column |-> w.pos[s], usable |-> w.usable[s]]]

\* screen_update_usable_geometry()
UpdateUsable(w, s) ==
    LET area == Usable(w, s)
        done == [w EXCEPT !.overdue = @ \ {s}]
    IN IF area = w.usable[s] THEN done ELSE Hear([done EXCEPT !.usable[s] = area], s)

-----------------------------------------------------------------------------
(* Moving screens *)

\* The columns some screen covers: pointer->region.
Columns(w) == UNION {w.pos[s] .. w.pos[s] + Width - 1 : s \in Screens}

\* The rectangle of the region that holds a column: adjacent screens make one.
Box(w, x) == {y \in Columns(w) : (x .. y) \cup (y .. x) \subseteq Columns(w)}

\* Fault: the origin, as before screens could move.
RecoverAtOrigin(w) == 0

\* recover_position(): the middle of the first rectangle
RecoverPosition(w) ==
    LET first == Box(w, Min(Columns(w)))
    IN Min(first) + Cardinality(first) \div 2

\* clip_position()
ClipPosition(w, x) ==
    LET region == Columns(w)
        box == Box(w, w.pointer)
    IN CASE x \in region -> x
         [] x \notin region /\ w.pointer \in region -> Max({Min({x, Max(box)}), Min(box)})
         [] OTHER -> RecoverPosition(w)

\* screens_update_pointer_region() and pointer_set_region()
SetRegion(w) == [w EXCEPT !.pointer = ClipPosition(w, @)]

\* output_send_geometry()
SendGeometry(w, s) == [w EXCEPT !.seen[s] = w.pos[s]]

\* Fault: the serial counts only for those who listen.
UpdateListeners(w) ==
    IF w.heads = None THEN w
    ELSE [w EXCEPT !.heads = w.pos,
                   !.configs = [c \in Configs |-> IF @[c] = "current" THEN "old" ELSE @[c]]]

\* send_head(): of what it says of a screen only the position ever changes.
SendHead(w, s) == w.pos[s]

\* manager_send_all()
SendAll(w) == [w EXCEPT !.heads = [s \in Screens |-> SendHead(w, s)]]

\* output_management_update(): the serial moves on.
UpdateManagers(w) ==
    [(IF w.heads = None THEN w ELSE SendAll(w)) EXCEPT
        !.configs = [c \in Configs |-> IF @[c] = "current" THEN "old" ELSE @[c]]]

\* swc_screen_set_position()
SetPosition(w, s, x) ==
    IF w.pos[s] = x THEN w
    ELSE LET moved == UpdateUsable([w EXCEPT !.pos[s] = x], s)
         IN UpdateManagers(SetRegion(Hear(SendGeometry(moved, s), s)))

\* bind_output_manager()
BindManager ==
    /\ heads = None
    /\ Becomes(SendAll(World))

\* manager_stop() and manager_resource_destroy(): configurations stay.
StopManager ==
    /\ heads # None
    /\ Becomes([World EXCEPT !.heads = None])

\* manager_create_configuration(), with the serial of the last done event or of
\* an earlier one
CreateConfiguration(c, serial) ==
    /\ heads # None
    /\ configs[c] = "none"
    /\ configs' = [configs EXCEPT ![c] = serial]
    /\ outdated' = outdated \cup IF serial = "old" THEN {c} ELSE {}
    /\ UNCHANGED <<pos, usable, heard, seen, heads, pointer, layers, panels, overdue>>

\* config_enable_head() and config_disable_head(): the orders in which a
\* configuration may name every screen.
Orders == SetToSeqs(Screens)

\* config_head_set_position() and the other requests of a head: the column asked
\* for, or None for one that is to be disabled or to do what the code cannot.
Asked == [Screens -> Positions \cup {None}]

\* config_is_valid()
IsValid(named, column) == ToSet(named) = Screens /\ \A s \in Screens : column[s] # None

\* The loop of config_finish(): one screen after the other, in the order of the
\* list, to the column asked for, which may be its own.
Moved(named, column) ==
    LET after[n \in 0 .. Len(named)] ==
          IF n = 0 THEN World ELSE SetPosition(after[n - 1], named[n], column[named[n]])
    IN after[Len(named)]

\* config_apply() and config_finish().  The client then destroys the configuration,
\* for it may not use it again.
Apply(c, named, column) ==
    /\ configs[c] # "none"
    /\ Becomes([(IF configs[c] = "current" /\ IsValid(named, column)
                 THEN Moved(named, column) ELSE World) EXCEPT !.configs[c] = "none"])

\* config_destroy_request(); config_test() leads to no more.
DestroyConfiguration(c) ==
    /\ configs[c] # "none"
    /\ Becomes([World EXCEPT !.configs[c] = "none"])

\* pointer_handle_absolute_motion(), to any column near the screens
MovePointer(x) == Becomes([World EXCEPT !.pointer = ClipPosition(World, x)])

-----------------------------------------------------------------------------
(* Layer surfaces *)

\* update_position() of layer_shell.c, its row on the screen
RowOf(x) ==
    CASE x.state.anchor = "top" -> x.state.margin
      [] x.state.anchor = "bottom" -> Height - x.size - x.state.margin
      [] OTHER -> (Height - x.size) \div 2

UpdatePosition(w, l) == [w EXCEPT !.layers[l].row = RowOf(w.layers[l])]
UpdateLayer(w, l) == UpdateUsable(w, w.layers[l].screen)

\* handle_resize() of layer_shell.c, run by view_set_size()
HandleResize(w, l, size) ==
    IF w.layers[l].size = size THEN w
    ELSE UpdateLayer(UpdatePosition([w EXCEPT !.layers[l].size = size], l), l)

\* handle_attach() of layer_shell.c, run by view_attach(); no buffer has height 0.
HandleAttach(w, l) ==
    LET mapped == w.layers[l].size > 0
        placed == IF mapped THEN UpdatePosition(w, l) ELSE w
    IN UpdateLayer([placed EXCEPT !.layers[l].mapped = mapped], l)

\* configure_size(): the height it asked for, or what the margins leave of the screen.
ConfigureSize(st) ==
    CASE st.desired # 0 -> st.desired
      [] st.desired = 0 /\ st.anchor = "both" -> Max({Height - 2 * st.margin, 0})
      [] OTHER -> 0

\* send_configure()
SendConfigure(w, l) ==
    [w EXCEPT !.layers[l].told = ConfigureSize(w.layers[l].state),
              !.layers[l].acked = FALSE, !.layers[l].configured = TRUE]

\* state_equal(), of every member
StateChanged(w, l, st) == w.layers[l].state # st

\* What a commit does with the state that was set before it.
TakeState(w, l, st) ==
    IF StateChanged(w, l, st) THEN UpdateLayer([w EXCEPT !.layers[l].state = st], l) ELSE w

\* Fault: only the first commit is answered.
HandleCommitOnce(w, l, st) ==
    IF ~w.layers[l].configured THEN SendConfigure(TakeState(w, l, st), l) ELSE TakeState(w, l, st)

\* handle_surface_commit() of layer_shell.c
HandleCommit(w, l, st) ==
    IF ~w.layers[l].configured \/ StateChanged(w, l, st)
    THEN SendConfigure(TakeState(w, l, st), l) ELSE w

\* get_layer_surface()
GetLayerSurface(l, s) ==
    /\ layers[l] = NoLayer
    /\ Becomes([World EXCEPT !.layers[l] = NewLayer(s)])

\* A commit of the client: a new buffer, none or the same, and the state it has set.
\* The view is attached to before those who wait for the commit are told.
CommitLayer(l, st, size) ==
    /\ layers[l] # NoLayer
    /\ Becomes(HandleCommit(HandleAttach(HandleResize(World, l, size), l), l, st))

CommitState(l, st) ==
    /\ layers[l] # NoLayer
    /\ Becomes(HandleCommit(World, l, st))

\* ack_configure() of the last configure; an earlier one has no effect.
AckConfigure(l) ==
    /\ layers[l] # NoLayer
    /\ ~layers[l].acked
    /\ Becomes(UpdatePosition([World EXCEPT !.layers[l].acked = TRUE], l))

\* destroy_layer_surface(), also when its wl_surface or its client goes
DestroyLayer(l) ==
    /\ layers[l] # NoLayer
    /\ Becomes(UpdateUsable([World EXCEPT !.layers[l] = NoLayer], layers[l].screen))

-----------------------------------------------------------------------------
(* Panels; where they lie is left out, as every request puts them in place *)

\* create_panel()
CreatePanel(p) ==
    /\ panels[p] = NoPanel
    /\ Becomes([World EXCEPT !.panels[p] = NewPanel])

\* dock(): the screen it leaves is updated, the screen it comes to is not, whatever
\* the panel claims.
Dock(p, s, edge) ==
    LET from == panels[p].screen
        late == IF panels[p].strut # 0 THEN {s} ELSE {}
        docked == [World EXCEPT !.panels[p].screen = s, !.panels[p].edge = edge,
                                !.overdue = @ \cup late]
    IN /\ panels[p].exists
       /\ s # from
       /\ Becomes(IF from = None THEN docked ELSE UpdateUsable(docked, from))

\* set_strut(), before the panel docks or after
SetStrut(p, rows) ==
    LET claimed == [World EXCEPT !.panels[p].strut = rows]
    IN /\ panels[p].exists
       /\ Becomes(IF panels[p].screen = None THEN claimed
                  ELSE UpdateUsable(claimed, panels[p].screen))

\* destroy_panel()
DestroyPanel(p) ==
    LET gone == [World EXCEPT !.panels[p] = NoPanel]
    IN /\ panels[p].exists
       /\ Becomes(IF panels[p].screen = None THEN gone ELSE UpdateUsable(gone, panels[p].screen))

-----------------------------------------------------------------------------
\* screen_new(), for each screen, with output_new() and its first bind_output()
LayoutInit ==
    LET area(s) == [column |-> FirstPosition[s], rows |-> Whole]
    IN /\ pos = FirstPosition
       /\ usable = [s \in Screens |-> area(s)]
       /\ heard = [s \in Screens |-> [column |-> FirstPosition[s], usable |-> area(s)]]
       /\ seen = FirstPosition
       /\ heads = None
       /\ pointer \in {FirstPosition[s] : s \in Screens}
       /\ layers = [l \in Layers |-> NoLayer]
       /\ panels = [p \in Panels |-> NoPanel]
       /\ configs = [c \in Configs |-> "none"]
       /\ overdue = {}
       /\ outdated = {}

Near == -1 .. Max(Positions) + Width

LayoutNext ==
    \/ BindManager \/ StopManager
    \/ \E c \in Configs : \/ DestroyConfiguration(c)
                          \/ \E serial \in {"current", "old"} : CreateConfiguration(c, serial)
                          \/ \E named \in Orders, column \in Asked : Apply(c, named, column)
                          \/ Apply(c, <<>>, pos)
    \/ \E x \in Near : MovePointer(x)
    \/ \E l \in Layers : \/ AckConfigure(l) \/ DestroyLayer(l)
                         \/ \E s \in Screens : GetLayerSurface(l, s)
                         \/ \E st \in States : \/ CommitState(l, st)
                                               \/ \E size \in Sizes \cup {0} : CommitLayer(l, st, size)
    \/ \E p \in Panels : \/ CreatePanel(p) \/ DestroyPanel(p)
                         \/ \E s \in Screens, edge \in Edges : Dock(p, s, edge)
                         \/ \E rows \in Struts : SetStrut(p, rows)

LayoutSpec == LayoutInit /\ [][LayoutNext]_layoutVars

-----------------------------------------------------------------------------
(* Properties *)

Areas == [column : Nat, rows : (0 .. Height) \X (0 .. Height)]

LayoutTypeOK ==
    /\ pos \in [Screens -> Positions] /\ seen \in [Screens -> Positions]
    /\ heads \in [Screens -> Positions] \cup {None}
    /\ usable \in [Screens -> Areas]
    /\ heard \in [Screens -> [column : Positions, usable : Areas]]
    /\ pointer \in Nat
    /\ layers \in [Layers -> {NoLayer} \cup
         [screen : Screens, state : LayerStates, size : Sizes \cup {0}, mapped : BOOLEAN,
          told : 0 .. Height, configured : BOOLEAN, acked : BOOLEAN, row : Int]]
    /\ panels \in [Panels -> {NoPanel} \cup
         [exists : {TRUE}, screen : Screens \cup {None}, edge : Edges \cup {None}, strut : Nat]]
    /\ configs \in [Configs -> {"none", "current", "old"}]
    /\ overdue \subseteq Screens /\ outdated \subseteq Configs

\* Moved screens are where everybody was told they are, and the pointer is on one
\* of them, though they move one at a time (pointer.c 720-756, screen.c 237-281).
\* The area for windows is what the zones of today's surfaces and panels leave of
\* the screen where it is today, with the exception that a panel which has its claim
\* before it docks takes nothing off its new screen until that screen is updated for
\* another reason (panel.c 84-130): "It changes whenever a panel docks or undocks"
\* (river_wm.c 466-471) is true of the undocking.  Whatever is kept as the area, the
\* window manager has been told (swc.h 184-206).
LayoutIsAgreed ==
    /\ LayoutTypeOK
    /\ seen = pos
    /\ heads \in {None, pos}
    /\ pointer \in Columns(World)
    /\ \A s \in Screens : /\ s \notin overdue => usable[s] = Usable(World, s)
                          /\ heard[s] = [column |-> pos[s], usable |-> usable[s]]

\* The last configure asked a layer surface for the height its present state wants,
\* and once it has acked that one it lies where its state and size put it, in
\* whatever order states, buffers and acks came (layer_shell.c 66-80, 182-246,
\* 316-327, 370-433).
AnchoredOnceAcked ==
    \A l \in Layers : layers[l] # NoLayer =>
        LET x == layers[l]
        IN /\ x.configured => x.told = ConfigureSize(x.state)
           /\ x.mapped /\ x.acked => x.row = RowOf(x)

\* A configuration made of another layout than the present one moves nothing
\* (output_management.c 483-508).
StaleIsCancelled ==
    [][\A c \in outdated : configs'[c] = "none" => pos' = pos]_layoutVars
=============================================================================
