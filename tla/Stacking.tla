------------------------------ MODULE Stacking ------------------------------
(***************************************************************************)
(* The order of the views of libswc/compositor.c and which of them are     *)
(* shown: windows that the window manager shows, hides and restacks        *)
(* (window.c, and the nodes of wm/river_wm.c), popups and transient        *)
(* windows that follow their parents (xdg_shell.c, shell_surface.c), the   *)
(* manager's own bars (struct swc_shell_surface), layer surfaces           *)
(* (layer_shell.c) and panels (panel.c).                                   *)
(*                                                                         *)
(* Only the order, the visibility and the layers of views are kept:        *)
(* geometry, damage and clipping are left out, so the view under the       *)
(* pointer may be any visible one.  A view stands for the next one created *)
(* by the same object.  Showing a view is a walk over a list that it       *)
(* changes, so each function is an operator from a state record to a state *)
(* record, and an action is one call from outside.  The positioner of      *)
(* popups is a pure definition at the end.                                 *)
(***************************************************************************)
EXTENDS Integers, FiniteSets, SequencesExt

CONSTANTS
    Windows,        \* views of xdg toplevels and wl_shell surfaces
    Popups,         \* views of xdg popups
    Bars,           \* views of the window manager's shell surfaces
    LayerSurfaces,  \* views of layer surfaces
    Panels,         \* views of panels
    Parents,        \* who can become the parent of whom: pairs <<child, parent>>
    Chosen,         \* the layers that layer surfaces ask for
    Sizes, Offsets, \* what positioners are given
    None,           \* no view
    Gone            \* a view that has been destroyed and is still pointed to

Views == Windows \cup Popups \cup Bars \cup LayerSurfaces \cup Panels

ASSUME ViewAssumption ==
    /\ Parents \subseteq (Windows \cup Popups) \X Views
    /\ \A pair \in Parents : pair[1] # pair[2]
    /\ Chosen \subseteq {0, 1, 3, 4}
    /\ Windows \cap (Popups \cup Bars \cup LayerSurfaces \cup Panels) = {}
    /\ Popups \cap (Bars \cup LayerSurfaces \cup Panels) = {}
    /\ Bars \cap (LayerSurfaces \cup Panels) = {}
    /\ LayerSurfaces \cap Panels = {}
    /\ IsFiniteSet(Views)
    /\ {None, Gone} \cap Views = {}
    /\ None # Gone
    /\ Sizes \subseteq Nat /\ Offsets \subseteq Int

VARIABLES
    view,       \* [Views -> record]: struct compositor_view
    stack,      \* compositor.views, front first
    raised,     \* history: the window the last step showed or was pressed on
    overlooked  \* history: the popups that the show of their parent passed by, while it is seen

vars == <<view, stack, raised, overlooked>>

\* enum compositor_stack_layer
Background == 0
Bottom == 1
Normal == 2
Top == 3
Overlay == 4
Layers == Background..Overlay

NoView ==
    [alive |-> FALSE, visible |-> FALSE, alwaysTop |-> FALSE, layer |-> Normal, parent |-> None]

TypeOK ==
    /\ view \in [Views ->
         [alive : BOOLEAN, visible : BOOLEAN, alwaysTop : BOOLEAN, layer : Layers,
          parent : Views \cup {None, Gone}]]
    /\ stack \in Seq(Views)
    /\ IsInjective(stack)
    /\ ToSet(stack) = {v \in Views : view[v].alive}
    /\ \A v \in Views : ~view[v].alive => view[v] = NoView
    /\ raised \in Windows \cup {None}
    /\ overlooked \subseteq Popups

Init ==
    /\ view = [v \in Views |-> NoView]
    /\ stack = <<>>
    /\ raised = None
    /\ overlooked = {}

Now == [view |-> view, stack |-> stack, overlooked |-> overlooked]

\* The views whose parents are seen.
FollowsSeen(t) == {v \in Views : t.view[v].parent \in {p \in Views : t.view[p].visible}}

\* The state becomes t; the window w was raised by what the user did or the
\* manager shows.
Becomes(t, w) ==
    /\ view' = t.view
    /\ stack' = t.stack
    /\ overlooked' = t.overlooked \cap FollowsSeen(t)
    /\ raised' = w

IsWindow(v) == v \in Windows

\* A view is on the list once.
Position(list, v) == CHOOSE i \in DOMAIN list : list[i] = v
Without(list, v) == IF Contains(list, v) THEN RemoveAt(list, Position(list, v)) ELSE list
Place(t, v) == Position(t.stack, v)

\* wl_list_remove() and wl_list_insert(): v becomes the i-th of the list.
MoveTo(t, v, i) == [t EXCEPT !.stack = InsertAt(Without(t.stack, v), i, v)]

\* What can be reached from start over the links, start included: the least set with
\* start in it that no link leads out of.
Reach(start, links) ==
    LET targets == {e[2] : e \in {e \in links : e[1] \in Views}} \cap Views
        closed == {S \in {start \cup X : X \in SUBSET targets} : \A e \in links : e[1] \in S => e[2] \in S}
    IN IF start = {} THEN {} ELSE {y \in start \cup targets : \A S \in closed : y \in S}

-----------------------------------------------------------------------------
(* Layers *)

\* Fault: views that are in front of the layer are not passed.
RestackIgnoringLayers(t, v, raise) ==
    MoveTo(t, v, IF raise THEN 1 ELSE Len(t.stack))

\* restack_view_for_layer(): in front of the first view of the same layer or a
\* lower one; to lower it, behind the first view of the same layer, and behind
\* everything when the layer is empty and nothing is in a layer above.
RestackForLayer(t, v, raise) ==
    LET rest == Without(t.stack, v)
        within == {i \in DOMAIN rest : t.view[rest[i]].layer <= t.view[v].layer}
        first == Min(within \cup {Len(rest) + 1})
        same == first \in within /\ t.view[rest[first]].layer = t.view[v].layer
    IN MoveTo(t, v,
         IF raise \/ (~same /\ (first > 1 \/ t.stack[1] = v)) THEN first
         ELSE IF same THEN first + 1
         ELSE Len(rest) + 1)

\* compositor_view_set_stack_layer()
SetStackLayer(t, v, layer, raise) ==
    IF t.view[v].layer = layer /\ ~raise THEN t
    ELSE RestackForLayer([t EXCEPT !.view[v].layer = layer], v, raise)

\* From each view that is no window to its parent.
Upward(t) == {<<v, t.view[v].parent>> : v \in {v \in Views \ Windows : t.view[v].parent \in Views}}

\* window_view(): the window that a view is or belongs to.
WindowOf(t, v) ==
    LET found == Windows \cap Reach({v}, Upward(t))
    IN IF found = {} THEN None ELSE CHOOSE w \in found : TRUE

\* Fault: the search goes on behind the first window.
RaiseBehindWindows(t, w) ==
    LET rest == Without(t.stack, w)
        passed == {i \in DOMAIN rest : t.view[rest[i]].visible /\ t.view[rest[i]].layer >= Normal}
    IN MoveTo(t, w, 1 + Max(passed \cup {0}))

\* raise_window() on a visible window: behind the visible views of the layers
\* above, those that are always on top, and the popups in front of the first
\* visible window; hidden views count for nothing.
RaiseWindow(t, w) ==
    LET rest == Without(t.stack, w)
        seen == {i \in DOMAIN rest : t.view[rest[i]].visible}
        OnTop(i) == t.view[rest[i]].layer > Normal \/ t.view[rest[i]].alwaysTop
        stops == {i \in seen : ~OnTop(i) /\ (t.view[rest[i]].layer < Normal \/ IsWindow(rest[i]))}
        passed == {i \in seen : \A j \in stops : i < j}
    IN MoveTo(t, w, 1 + Max(passed \cup {0}))

-----------------------------------------------------------------------------
(* Views *)

\* A view appears: a window comes to the front.
Appear(t, v) ==
    LET seen == [t EXCEPT !.view[v].visible = TRUE]
    IN IF IsWindow(v) THEN RaiseWindow(seen, v) ELSE seen

\* The walks are nested: path has the views whose followers are looked for, and at is the
\* view that the innermost one has come to.
Walk(t, path, at) == [state |-> t, path |-> path, at |-> at]

\* The places of what that one will still find: hidden, and behind where it is.
Due(walk) ==
    LET t == walk.state
    IN {i \in DOMAIN t.stack :
          /\ ~t.view[t.stack[i]].visible
          /\ t.view[t.stack[i]].parent = Last(walk.path)
          /\ walk.at # None => Place(t, walk.at) < i}

\* The hidden popups beside c that lay behind it in t and lie in front of it in u.
PassedBy(t, u, c) ==
    {x \in Popups : /\ t.view[x].parent = t.view[c].parent /\ ~t.view[x].visible
                    /\ Place(t, c) < Place(t, x) /\ Place(u, x) < Place(u, c)}

\* The next view is shown, and the walk over its own followers begins; it goes on from
\* where the view lies then.
Step(walk) ==
    LET t == walk.state
        due == Due(walk)
        c == t.stack[Min(due)]
        shown == Appear(t, c)
    IN IF walk.path = <<>> THEN walk
       ELSE IF due = {} THEN Walk(t, Front(walk.path), Last(walk.path))
       ELSE Walk([shown EXCEPT !.overlooked = @ \cup PassedBy(t, shown, c)],
                 Append(walk.path, c), None)

\* compositor_view_show(): each view appears once, and each walk ends once.
Show(t, v) ==
    LET after[n \in 0..2 * Cardinality(Views)] ==
          IF n = 0 THEN Walk(Appear(t, v), <<v>>, None) ELSE Step(after[n - 1])
    IN IF t.view[v].visible THEN t ELSE after[2 * Cardinality(Views)].state

\* Fault: the views above it stay visible.
HideAlone(t, v) == [t EXCEPT !.view[v].visible = FALSE]

\* compositor_view_hide(): and the visible views that follow it, which do not move.
Hide(t, v) ==
    LET seen == {x \in Views : t.view[x].visible}
        hidden == Reach({v} \cap seen, {<<t.view[x].parent, x>> : x \in seen})
    IN [t EXCEPT !.view = [x \in Views |->
          IF x \in hidden THEN [t.view[x] EXCEPT !.visible = FALSE] ELSE t.view[x]]]

\* compositor_create_view(): hidden, in the layer of windows and in front of
\* every other view.
CreateView(t, v) ==
    [t EXCEPT !.view[v] = [NoView EXCEPT !.alive = TRUE], !.stack = <<v>> \o @]

\* compositor_view_destroy(): what pointed to the view still does.
DestroyView(t, v) ==
    LET hidden == Hide(t, v)
    IN [view |-> [c \in Views |->
                    IF c = v THEN NoView
                    ELSE IF hidden.view[c].parent = v THEN [hidden.view[c] EXCEPT !.parent = Gone]
                    ELSE hidden.view[c]],
        stack |-> Without(hidden.stack, v),
        overlooked |-> hidden.overlooked]

\* compositor_view_set_parent()
SetViewParent(t, v, p) ==
    LET named == [t EXCEPT !.view[v].parent = p]
    IN IF t.view[p].visible THEN Show(named, v) ELSE Hide(named, v)

-----------------------------------------------------------------------------
(* Windows and popups *)

\* window_initialize()
CreateWindow(w) ==
    /\ ~view[w].alive
    /\ Becomes(CreateView(Now, w), None)

\* window_finalize()
DestroyWindow(w) ==
    /\ view[w].alive
    /\ Becomes(DestroyView(Now, w), None)

\* river_window_v1.show: swc_window_show()
ShowWindow(w) ==
    /\ view[w].alive
    /\ Becomes(Show(Now, w), IF view[w].visible THEN None ELSE w)

\* river_window_v1.hide: swc_window_hide()
HideWindow(w) ==
    /\ view[w].alive
    /\ Becomes(Hide(Now, w), None)

\* window_set_parent(), with a window
SetWindowParent(t, w, p) == IF t.view[w].parent = p THEN t ELSE SetViewParent(t, w, p)

\* wl_shell_surface.set_transient and xdg_toplevel.set_parent
SetParent(w, p) ==
    /\ <<w, p>> \in Parents
    /\ view[w].alive /\ view[p].alive
    /\ Becomes(SetWindowParent(Now, w, p), None)

\* xdg_surface.get_popup: xdg_popup_new() on a surface that has a view
CreatePopup(v, p) ==
    /\ <<v, p>> \in Parents
    /\ ~view[v].alive /\ view[p].alive
    /\ Becomes(SetViewParent(CreateView(Now, v), v, p), None)

\* destroy_popup()
DestroyPopup(v) ==
    /\ view[v].alive
    /\ Becomes(DestroyView(Now, v), None)

\* river_node_v1.place_top and place_bottom: swc_window_raise() and
\* swc_window_lower()
PlaceTop(w) ==
    /\ view[w].alive
    /\ Becomes(RestackForLayer(Now, w, TRUE), None)

PlaceBottom(w) ==
    /\ view[w].alive
    /\ Becomes(RestackForLayer(Now, w, FALSE), None)

\* river_node_v1.place_above and place_below: compositor_view_restack()
Restack(w, sibling, above) ==
    /\ view[w].alive /\ view[sibling].alive
    /\ w # sibling
    /\ LET i == Position(Without(stack, w), sibling)
       IN Becomes(MoveTo(Now, w, IF above THEN i ELSE i + 1), None)

\* swc_window_stack(): past the next visible window in front or behind.
StackWindow(w, forward) ==
    LET others == {i \in DOMAIN stack : view[stack[i]].visible /\ IsWindow(stack[i])}
        here == Place(Now, w)
        past == IF forward THEN {i \in others : i < here} ELSE {i \in others : i > here}
    IN /\ view[w].visible
       /\ past # {}
       /\ Becomes(MoveTo(Now, w, IF forward THEN Max(past) ELSE Min(past)), None)

\* view_at(): where the views are is not modelled, so that any of those that
\* are shown may be the first under the pointer.
UnderPointer == {v \in Views : view[v].visible}

\* handle_button(): a press on the view under the pointer.
Press(v) ==
    /\ v \in UnderPointer
    /\ LET w == WindowOf(Now, v)
       IN IF w # None /\ view[w].visible
          THEN Becomes(RaiseWindow(Now, w), w)
          ELSE Becomes(Now, None)

-----------------------------------------------------------------------------
(* Bars, layer surfaces and panels *)

\* manager_get_shell_surface()
CreateBar(v) ==
    /\ ~view[v].alive
    /\ Becomes(Show(SetStackLayer(CreateView(Now, v), v, Top, TRUE), v), None)

\* shell_surface_resource_destroy()
DestroyBar(v) ==
    /\ view[v].alive
    /\ Becomes(DestroyView(Now, v), None)

\* place_top and place_bottom of a bar's node: swc_shell_surface_raise() and
\* swc_shell_surface_lower()
PlaceBarTop(v) ==
    /\ view[v].alive
    /\ Becomes(RestackForLayer(Now, v, TRUE), None)

PlaceBarBottom(v) ==
    /\ view[v].alive
    /\ Becomes(RestackForLayer(Now, v, FALSE), None)

\* restack_layer()
RestackLayer(t, v, layer) ==
    SetStackLayer([t EXCEPT !.view[v].alwaysTop = layer \in {Top, Overlay}], v, layer, TRUE)

\* layer_surface_new()
CreateLayerSurface(v, layer) ==
    /\ ~view[v].alive
    /\ Becomes(RestackLayer(CreateView(Now, v), v, layer), None)

\* handle_surface_commit() after zwlr_layer_surface_v1.set_layer
ChangeLayer(v, layer) ==
    /\ view[v].alive
    /\ layer # view[v].layer
    /\ Becomes(RestackLayer(Now, v, layer), None)

\* handle_attach() with a buffer
MapLayerSurface(v) ==
    /\ view[v].alive
    /\ Becomes(Show(RestackLayer(Now, v, view[v].layer), v), None)

\* handle_attach() without one
UnmapLayerSurface(v) ==
    /\ view[v].visible
    /\ Becomes(Hide(Now, v), None)

\* destroy_layer_surface()
DestroyLayerSurface(v) ==
    /\ view[v].alive
    /\ Becomes(DestroyView(Now, v), None)

\* panel_new()
CreatePanel(v) ==
    /\ ~view[v].alive
    /\ Becomes([CreateView(Now, v) EXCEPT !.view[v].alwaysTop = TRUE], None)

\* dock(): raise_window_top() whatever the layer was.
DockPanel(v) ==
    /\ view[v].alive
    /\ Becomes(RestackForLayer([Show(Now, v) EXCEPT !.view[v].layer = Overlay], v, TRUE), None)

\* destroy_panel()
DestroyPanel(v) ==
    /\ view[v].alive
    /\ Becomes(DestroyView(Now, v), None)

-----------------------------------------------------------------------------

NextWindow(w) ==
    \/ CreateWindow(w)
    \/ DestroyWindow(w)
    \/ ShowWindow(w)
    \/ HideWindow(w)
    \/ PlaceTop(w)
    \/ PlaceBottom(w)
    \/ \E p \in Windows : SetParent(w, p)
    \/ \E sibling \in Windows, above \in BOOLEAN : Restack(w, sibling, above)
    \/ \E forward \in BOOLEAN : StackWindow(w, forward)

NextPopup(v) ==
    \/ \E p \in Views : CreatePopup(v, p)
    \/ DestroyPopup(v)

NextBar(v) ==
    \/ CreateBar(v)
    \/ DestroyBar(v)
    \/ PlaceBarTop(v)
    \/ PlaceBarBottom(v)

NextLayerSurface(v) ==
    \/ \E layer \in Chosen : CreateLayerSurface(v, layer)
    \/ \E layer \in Chosen : ChangeLayer(v, layer)
    \/ MapLayerSurface(v)
    \/ UnmapLayerSurface(v)
    \/ DestroyLayerSurface(v)

NextPanel(v) ==
    \/ CreatePanel(v)
    \/ DockPanel(v)
    \/ DestroyPanel(v)

Next ==
    \/ \E w \in Windows : NextWindow(w)
    \/ \E v \in Popups : NextPopup(v)
    \/ \E v \in Bars : NextBar(v)
    \/ \E v \in LayerSurfaces : NextLayerSurface(v)
    \/ \E v \in Panels : NextPanel(v)
    \/ \E v \in Views : Press(v)

Spec == Init /\ [][Next]_vars

-----------------------------------------------------------------------------
(* The positioner of popups *)

\* Sides are 0 for left or top, 1 for the middle and 2 for right or bottom: the
\* nine anchors and gravities of xdg_positioner are pairs of them.
Sides == 0..2

\* set_size(), set_anchor_rect(), set_anchor(), set_gravity(), set_offset()
Positioners(sizes, offsets) ==
    [size : sizes, anchorAt : offsets, anchorSize : sizes, anchor : Sides, gravity : Sides,
     offset : offsets]

\* calculate_position() along one axis: the two axes are computed alike and
\* from different members.
CalculatePosition(p) ==
    p.offset + p.anchorAt
    + (CASE p.anchor = 2 -> p.anchorSize [] p.anchor = 1 -> p.anchorSize \div 2 [] OTHER -> 0)
    - (CASE p.gravity = 0 -> p.size [] p.gravity = 1 -> p.size \div 2 [] OTHER -> 0)

-----------------------------------------------------------------------------
(* Properties *)

Anchored(p) ==
    LET touched == 2 * CalculatePosition(p) + (2 - p.gravity) * p.size
        anchored == 2 * (p.offset + p.anchorAt) + p.anchor * p.anchorSize
    IN touched - anchored \in -1..1

AlwaysAnchored == \A p \in Positioners(Sizes, Offsets) : Anchored(p)

\* A popup is seen only while the view it belongs to is, through any order of
\* showing, hiding, transient windows and popups on popups; and as long as that is
\* seen, so is the popup, unless the walk that showed its parent passed it by: a
\* transient window that was shown on the way moved back behind the popup
\* (compositor_view_show() and compositor_view_hide(), libswc/compositor.c 1983-2043).
\* And wherever it was asked for, the side of it that its gravity points away from, or
\* its middle, lies on the anchored side or middle of the rectangle, moved by the
\* offset; odd sizes cost at most half a pixel together (calculate_position(),
\* libswc/xdg_shell.c 156-223).
PopupFollowsParent ==
    \A v \in Popups : view[v].alive =>
       /\ view[v].visible => v \in FollowsSeen(Now)
       /\ v \in FollowsSeen(Now) /\ v \notin overlooked => view[v].visible
       /\ AlwaysAnchored

\* A window, its transient windows, and theirs.
Followers(w) == Reach({w}, {<<view[v].parent, v>> : v \in Views})

\* The window that was just shown or pressed on is in front of every other
\* visible window but those that are transient for it, whatever hidden views,
\* bars and popups lie between (raise_window(), libswc/compositor.c 1488-1544).
RaisedIsInFront ==
    TypeOK /\ (raised # None =>
       \A w \in Windows \ Followers(raised) :
          view[w].visible => Place(Now, raised) < Place(Now, w))

\* These views lie in the order of their layers.
InOrder(t, views) ==
    \A i, j \in {k \in DOMAIN t.stack : t.stack[k] \in views} :
       i < j => t.view[t.stack[i]].layer >= t.view[t.stack[j]].layer

\* The visible views that are no popups.
Shown(t) == {v \in Views \ Popups : t.view[v].visible}

\* A known flaw of restack_view_for_layer(): the only view of its layer, with
\* none in a layer above, is lowered behind everything unless it was in front.
FallsBehind(v) ==
    /\ stack # <<>> /\ stack[1] # v
    /\ stack'[Len(stack')] = v
    /\ \A u \in ToSet(stack) \ {v} : view[u].layer < view[v].layer

\* The view that a step moved, or both of two views that changed places; no
\* other view but popups was shown or hidden by that step.
Moved ==
    {v \in ToSet(stack') :
       /\ \A u \in Views \ (Popups \cup {v}) : view'[u].visible = view[u].visible
       /\ Without(stack', v) = Without(stack, v)}

\* Moving a view keeps the layers: when all other views lie in the order of
\* their layers, so do the visible ones, the moved one included, after the step
\* (restack_view_for_layer(), raise_window(), compositor_view_restack() and
\* swc_window_stack(), libswc/compositor.c 1391-1436, 1488-1544, 1654-1681).
OrderIsKept ==
    [][/\ stack' # stack /\ Moved # {}
       /\ \A v \in Moved : InOrder(Now, Views \ {v}) /\ ~FallsBehind(v)
       => InOrder(Now', Shown(Now'))]_vars

=============================================================================
