---------------------------- MODULE Subsurfaces ----------------------------
(***************************************************************************)
(* Trees of surfaces: the double-buffered state of libswc/surface.c, the   *)
(* synchronised commits and the stacking requests of subsurface.c and      *)
(* subcompositor.c, and the views of compositor.c they are shown through.  *)
(*                                                                         *)
(* A commit may apply a whole subtree, and showing or hiding a view walks  *)
(* the views below it, so each function is an operator from a state record *)
(* to a state record, and an action is one request.  Of the state that is   *)
(* committed only the presence of a buffer and the order of the children   *)
(* are kept; damage, regions, frame callbacks and positions go the same    *)
(* way.  A surface that is destroyed stands for the next one created.      *)
(***************************************************************************)
EXTENDS Naturals, FiniteSets, SequencesExt

CONSTANTS
    Surfaces,       \* wl_surfaces
    Windows,        \* those that are given a window and not the subsurface role
    Drawn,          \* those whose buffers are looked at
    Unmapped,       \* those of them that are unmapped again
    Parents,        \* who can become the parent of whom: pairs <<child, parent>>
    Loose,          \* those that are made desynchronised
    Mortal,         \* those a client destroys, or takes the role from
    None,           \* no surface
    Gone            \* a view that has been destroyed and is still pointed to

ASSUME SurfaceAssumption ==
    /\ Windows \subseteq Surfaces
    /\ Mortal \subseteq Surfaces
    /\ Loose \subseteq Surfaces
    /\ Drawn \subseteq Surfaces
    /\ Unmapped \subseteq Drawn
    /\ Parents \subseteq Surfaces \X Surfaces
    /\ \A pair \in Parents : pair[1] \notin Windows
    /\ IsFiniteSet(Surfaces)
    /\ {None, Gone} \cap Surfaces = {}
    /\ None # Gone

VARIABLES
    surf,       \* [Surfaces -> record]: struct surface, subsurface and view
    order,      \* [Surfaces -> record]: the four lists of children of a surface
    stack       \* compositor.views, front first

vars == <<surf, order, stack>>

\* surface_new()
NewSurface ==
    [pending |-> "nothing", buffer |-> FALSE,
     view |-> FALSE, window |-> FALSE, visible |-> FALSE,
     above |-> None,
     role |-> FALSE, parent |-> None, sync |-> FALSE, cached |-> FALSE, added |-> FALSE]

NoChildren == [below |-> <<>>, above |-> <<>>, pendingBelow |-> <<>>, pendingAbove |-> <<>>]

TypeOK ==
    /\ surf \in [Surfaces ->
         [pending : {"nothing", "draw", "unmap"}, buffer : BOOLEAN,
          view : BOOLEAN, window : BOOLEAN, visible : BOOLEAN,
          above : Surfaces \cup {None, Gone},
          role : BOOLEAN, parent : Surfaces \cup {None}, sync : BOOLEAN,
          cached : BOOLEAN, added : BOOLEAN]]
    /\ order \in [Surfaces -> [{"below", "above", "pendingBelow", "pendingAbove"} -> Seq(Surfaces)]]
    /\ stack \in Seq(Surfaces)
    /\ ToSet(stack) = {s \in Surfaces : surf[s].view}
    /\ IsInjective(stack)
    /\ \A s \in Surfaces : surf[s].visible \/ surf[s].window => surf[s].view

Init ==
    /\ surf = [s \in Surfaces |-> NewSurface]
    /\ order = [s \in Surfaces |-> NoChildren]
    /\ stack = <<>>

Now == [surf |-> surf, order |-> order, stack |-> stack]

Becomes(t) ==
    /\ surf' = t.surf
    /\ order' = t.order
    /\ stack' = t.stack

\* list_remove_if_linked() and wl_list_insert() beside another link; a link is on a
\* list once.
Position(list, x) == CHOOSE i \in DOMAIN list : list[i] = x
Without(list, s) == IF Contains(list, s) THEN RemoveAt(list, Position(list, s)) ELSE list
PutBefore(list, s, x) ==
    LET rest == Without(list, s) IN InsertAt(rest, Position(rest, x), s)
PutAfter(list, s, x) ==
    LET rest == Without(list, s) IN InsertAt(rest, Position(rest, x) + 1, s)

\* What can be reached from start over the links, start included.
Reach(start, links) ==
    IF start = {} THEN {}
    ELSE LET closed == {S \in SUBSET Surfaces : /\ start \subseteq S
                                                /\ \A e \in links : e[1] \in S => e[2] \in S}
         IN {y \in Surfaces : \A S \in closed : y \in S}

\* From each subsurface to its parent.
Upward(t) ==
    {<<s, t.surf[s].parent>> : s \in {s \in Surfaces : t.surf[s].role /\ t.surf[s].parent # None}}

\* Fault: subsurface_is_synchronized() looks at the subsurface itself only.
SynchronizedAlone(t, s) == t.surf[s].role /\ t.surf[s].sync

\* subsurface_is_synchronized(): by itself, or through an ancestor.
Synchronized(t, s) ==
    \E x \in Reach({s}, Upward(t)) : t.surf[x].role /\ t.surf[x].sync

Children(t, p) == {s \in Surfaces : t.surf[s].parent = p}

-----------------------------------------------------------------------------
(* Views *)

\* raise_window(): in front of all windows, behind the views in front of these
\* that are no windows.
RaiseWindow(t, w) ==
    LET rest == Without(t.stack, w)
        seen == {i \in DOMAIN rest : t.surf[rest[i]].visible}
        passed == {i \in seen : \A j \in seen : j <= i => ~t.surf[rest[j]].window}
        after == IF passed = {} THEN 0 ELSE CHOOSE i \in passed : \A j \in passed : j <= i
    IN [t EXCEPT !.stack = InsertAt(rest, after + 1, w)]

\* From each view to those of these that lie above it: compositor_view->parent.
Over(t, views) == {<<t.surf[s].above, s>> : s \in views}

SetVisible(t, views, shown) ==
    [t EXCEPT !.surf = [x \in Surfaces |->
       IF x \in views THEN [t.surf[x] EXCEPT !.visible = shown] ELSE t.surf[x]]]

\* compositor_view_show() of each of these: a subsurface is shown once it was added
\* and has a buffer; views above it follow.  Those that follow are no windows.
Show(t, views) ==
    LET showable == {x \in Surfaces : /\ ~t.surf[x].visible
                                      /\ t.surf[x].role => t.surf[x].added /\ t.surf[x].buffer}
    IN SetVisible(t, Reach(views \cap showable, Over(t, showable)), TRUE)

\* Fault: compositor_view_hide() does not walk the views above.
HideAlone(t, views) == SetVisible(t, views, FALSE)

\* compositor_view_hide() of each of these
Hide(t, views) ==
    LET seen == {x \in Surfaces : t.surf[x].visible}
    IN SetVisible(t, Reach(views \cap seen, Over(t, seen)), FALSE)

\* surface_set_view(): nobody holds these surfaces, so the view shows the buffer.
SetView(t, s, viewed) == [t EXCEPT !.surf[s].view = viewed]

\* compositor_create_view() for a surface without one, at the front
CreateView(t, s) ==
    IF t.surf[s].view THEN t
    ELSE [SetView(t, s, TRUE) EXCEPT !.stack = <<s>> \o t.stack]

\* compositor_view_destroy(): the views above keep pointing to it.
DestroyView(t, s) ==
    LET hidden == SetView(Hide(t, {s}), s, FALSE)
    IN IF ~t.surf[s].view THEN t
       ELSE [hidden EXCEPT
               !.surf = [x \in Surfaces |->
                  LET r == hidden.surf[x]
                  IN IF x = s THEN [r EXCEPT !.window = FALSE, !.above = None]
                     ELSE IF r.above = s THEN [r EXCEPT !.above = Gone] ELSE r],
               !.stack = Without(t.stack, s)]

\* subsurface_update_visibility() of each of these: no parent is among them.
UpdateVisibility(t, subs) ==
    LET due == {s \in subs : LET p == t.surf[s].parent
                             IN t.surf[s].role /\ p # None /\ t.surf[s].view /\ t.surf[p].view}
        seen == {s \in due : /\ t.surf[s].added /\ t.surf[s].buffer
                             /\ t.surf[t.surf[s].parent].visible}
    IN Hide(Show(t, seen), due \ seen)

-----------------------------------------------------------------------------
(* Commits *)

\* Fault: the children in front are stacked from the topmost down.
RestackReversed(t, p, children, front) ==
    LET list == IF front THEN Reverse(children) ELSE children
        put(now, s) ==
          IF ~t.surf[s].view THEN now
          ELSE [stack |-> IF front THEN PutBefore(now.stack, s, now.beside)
                          ELSE PutAfter(now.stack, s, now.beside),
                beside |-> s]
        after[i \in 0..Len(list)] ==
          IF i = 0 THEN [stack |-> t.stack, beside |-> p] ELSE put(after[i - 1], list[i])
    IN [t EXCEPT !.stack = after[Len(list)].stack]

\* compositor_view_restack() for each child in turn, in front of the last one or
\* behind it.
Restack(t, p, children, front) ==
    LET put(now, s) ==
          IF ~t.surf[s].view THEN now
          ELSE [stack |-> IF front THEN PutBefore(now.stack, s, now.beside)
                          ELSE PutAfter(now.stack, s, now.beside),
                beside |-> s]
        after[i \in 0..Len(children)] ==
          IF i = 0 THEN [stack |-> t.stack, beside |-> p] ELSE put(after[i - 1], children[i])
    IN [t EXCEPT !.stack = after[Len(children)].stack]

\* subsurface_parent_commit(): the pending order becomes the current one, the
\* views are put in it, and new children are added.
ParentCommit(t, p) ==
    LET o == t.order[p]
        ordered == [t EXCEPT !.order[p].below = o.pendingBelow, !.order[p].above = o.pendingAbove]
        stacked == IF t.surf[p].view
                   THEN Restack(Restack(ordered, p, Reverse(o.pendingBelow), FALSE),
                                p, o.pendingAbove, TRUE)
                   ELSE ordered
        children == ToSet(o.pendingBelow) \cup ToSet(o.pendingAbove)
        added == [stacked EXCEPT !.surf = [x \in Surfaces |->
                    IF x \in children THEN [t.surf[x] EXCEPT !.added = TRUE] ELSE t.surf[x]]]
    IN UpdateVisibility(added, children)

\* surface_apply_pending(), without the children
ApplyOwn(t, s) ==
    LET r == t.surf[s]
        next == IF r.pending = "nothing" THEN r.buffer ELSE r.pending = "draw"
        u == [t EXCEPT !.surf[s].buffer = next,
                       !.surf[s].pending = "nothing",
                       !.surf[s].cached = FALSE]
    IN ParentCommit(UpdateVisibility(u, {s}), s)

\* surface_apply_pending(): and then, in any order of siblings, each child that has
\* committed and is still synchronised, to the end of each branch.
ApplyPending(t, s) ==
    LET due(now) == {c \in Surfaces \ now.done : /\ t.surf[c].parent \in now.done
                                                 /\ t.surf[c].cached /\ Synchronized(t, c)}
        flush(now) == IF due(now) = {} THEN now
                      ELSE LET c == CHOOSE c \in due(now) : TRUE
                           IN [state |-> ApplyOwn(now.state, c), done |-> now.done \cup {c}]
        after[n \in 0..Cardinality(Surfaces)] ==
          IF n = 0 THEN [state |-> ApplyOwn(t, s), done |-> {s}] ELSE flush(after[n - 1])
    IN after[Cardinality(Surfaces)].state

-----------------------------------------------------------------------------
(* Requests of the client *)

\* attach(), of a buffer or of none
Attach(s, what) ==
    /\ s \in Drawn
    /\ surf[s].pending = "nothing"
    /\ what = "unmap" => s \in Unmapped /\ surf[s].buffer
    /\ Becomes([Now EXCEPT !.surf[s].pending = what])

Commit(s) ==
    Becomes(IF surf[s].role /\ Synchronized(Now, s)
            THEN [Now EXCEPT !.surf[s].cached = TRUE]
            ELSE ApplyPending(Now, s))

\* subsurface_new(): the child is on top of its siblings when the parent commits,
\* and right in front of the parent until then.
NewSubsurface(t, s, p) ==
    LET viewed == CreateView(CreateView(t, s), p)
        linked == [viewed EXCEPT
                     !.surf[s] = [@ EXCEPT !.role = TRUE, !.parent = p, !.sync = TRUE,
                                           !.cached = FALSE, !.added = FALSE, !.above = p],
                     !.order[p].pendingAbove = Append(@, s),
                     !.stack = PutBefore(@, s, p)]
    IN UpdateVisibility(linked, {s})

\* is_descendant_of()
IsDescendantOf(ancestor, s) ==
    ancestor \in Reach({s}, Upward(Now)) \ {s}

GetSubsurface(s, p) ==
    /\ <<s, p>> \in Parents
    /\ s # p /\ ~IsDescendantOf(s, p)
    /\ ~surf[s].role
    /\ Becomes(NewSubsurface(Now, s, p))

Pending(p) == order[p].pendingBelow \o order[p].pendingAbove

\* place_above() and place_below(), beside a sibling or beside the parent
Place(s, x, above) ==
    LET p == surf[s].parent
        o == order[p]
        taken == [o EXCEPT !.pendingBelow = Without(@, s), !.pendingAbove = Without(@, s)]
        beside(list) == IF ~Contains(list, x) THEN list
                        ELSE IF above THEN PutAfter(list, s, x) ELSE PutBefore(list, s, x)
    IN /\ surf[s].role
       /\ p # None
       /\ x # s
       /\ x = p \/ Contains(Pending(p), x)
       /\ Becomes([Now EXCEPT !.order[p] =
            IF x # p THEN [taken EXCEPT !.pendingBelow = beside(@), !.pendingAbove = beside(@)]
            ELSE IF above THEN [taken EXCEPT !.pendingAbove = <<s>> \o @]
            ELSE [taken EXCEPT !.pendingBelow = Append(@, s)]])

SetSync(s) ==
    /\ surf[s].role
    /\ Becomes([Now EXCEPT !.surf[s].sync = TRUE])

\* set_desync(): what was committed is applied if nothing else holds it back.
SetDesync(s) ==
    LET loose == [Now EXCEPT !.surf[s].sync = FALSE]
    IN /\ s \in Loose
       /\ surf[s].role
       /\ Becomes(IF Synchronized(Now, s) /\ ~Synchronized(loose, s) /\ surf[s].cached
                  THEN ApplyPending(loose, s) ELSE loose)

\* unlink_from_parent()
Unlinked(o, s) == [list \in DOMAIN o |-> Without(o[list], s)]

\* subsurface_destroy()
LoseRole(t, s) ==
    LET p == t.surf[s].parent
        out == [t EXCEPT !.surf[s] = [@ EXCEPT !.role = FALSE, !.parent = None, !.sync = FALSE,
                                               !.cached = FALSE, !.added = FALSE],
                         !.order = [q \in Surfaces |-> IF q = p THEN Unlinked(t.order[q], s)
                                                       ELSE t.order[q]]]
    IN IF t.surf[s].role THEN DestroyView(out, s) ELSE t

DestroySubsurface(s) ==
    /\ s \in Mortal
    /\ surf[s].role
    /\ Becomes(LoseRole(Now, s))

SetParents(t, views, above, parent) ==
    [t EXCEPT !.surf = [x \in Surfaces |->
       IF x \in views THEN [t.surf[x] EXCEPT !.above = above, !.parent = parent] ELSE t.surf[x]]]

\* handle_parent_destroy(), for each child
Orphan(t, p) ==
    LET children == Children(t, p)
    IN SetParents(Hide(SetParents(t, children, None, p), children), children, None, None)

\* The destroy listeners of the wl_surface and surface_destroy(); a window is
\* closed before its surface.  A view made for a parent without a role has no
\* owner and is never shown again.
DestroySurface(s) ==
    /\ s \in Mortal
    /\ ~surf[s].window
    /\ LET free == DestroyView(Orphan(LoseRole(Now, s), s), s)
       IN Becomes([free EXCEPT !.surf[s] = NewSurface, !.order[s] = NoChildren])

-----------------------------------------------------------------------------
(* The window of a surface *)

\* window_initialize()
MapWindow(w) ==
    /\ w \in Windows
    /\ ~surf[w].window
    /\ Becomes([CreateView(Now, w) EXCEPT !.surf[w].window = TRUE])

\* swc_window_show() and swc_window_hide(): a window that is shown is raised, and
\* then the views above it follow.
ShowWindow(w) ==
    /\ surf[w].window
    /\ Becomes(IF surf[w].visible THEN Now ELSE Show(RaiseWindow(Now, w), {w}))
HideWindow(w) ==
    /\ surf[w].window
    /\ Becomes(Hide(Now, {w}))

\* window_finalize()
CloseWindow(w) ==
    /\ surf[w].window
    /\ Becomes(DestroyView(Now, w))

Next ==
    \/ \E s \in Surfaces : \/ Commit(s)
                           \/ SetSync(s) \/ SetDesync(s)
                           \/ DestroySubsurface(s) \/ DestroySurface(s)
    \/ \E s \in Surfaces, what \in {"draw", "unmap"} : Attach(s, what)
    \/ \E s, p \in Surfaces : GetSubsurface(s, p)
    \/ \E s, x \in Surfaces, above \in BOOLEAN : Place(s, x, above)
    \/ \E w \in Surfaces : \/ MapWindow(w) \/ ShowWindow(w) \/ HideWindow(w) \/ CloseWindow(w)

Spec == Init /\ [][Next]_vars

-----------------------------------------------------------------------------
(* Properties *)

\* The four lists of each surface agree with the links of its children, though
\* requests, commits and the destruction of either end move them one at a time:
\* every child has one place in the pending order, at most one in the current
\* order, and nobody else has any (subsurface.c 224, 239-290, 327-341, 441-447).
ListsMatch ==
    \A p \in Surfaces :
      LET o == order[p]
          pendingList == o.pendingBelow \o o.pendingAbove
          current == o.below \o o.above
      IN /\ ToSet(pendingList) = Children(Now, p)
         /\ IsInjective(pendingList)
         /\ ToSet(current) \subseteq Children(Now, p)
         /\ IsInjective(current)

\* The lists agree, and a subsurface is seen only with its parent, and only from
\* the parent's first commit on, whoever hides, closes, unmaps or destroys what
\* it is part of.  A view whose parent's view was destroyed under it is no longer
\* told and is excepted (compositor.c 1900-1911 and 1983-2043).
SeenWithParent ==
    /\ TypeOK /\ ListsMatch
    /\ \A s \in Surfaces :
         surf[s].role /\ surf[s].visible /\ surf[s].above # Gone
           => /\ surf[s].added
              /\ surf[s].above = surf[s].parent
              /\ surf[surf[s].parent].visible

\* A surface and those it hangs from; what a synchronised one among them holds
\* back is said here without the code's walk.
Line(s) ==
    Reach({s}, Upward(Now))
HeldBack(s) == \E x \in Line(s) : surf[x].role /\ surf[x].sync

\* The content of a synchronised subsurface, and of whatever hangs from one,
\* changes only when a surface above it that is held back by nothing commits,
\* or is let go by set_desync (surface.c 354-366, subsurface.c 300-313).
ContentComesWithTop ==
    [][\A s \in Surfaces :
         surf'[s].buffer # surf[s].buffer /\ surf'[s].role /\ HeldBack(s)
           => \E t \in Line(s) : (Commit(t) \/ SetDesync(t)) /\ ~HeldBack(t)']_vars

\* What is stacked: the children behind the surface, itself, those in front.
Ordered(p) ==
    LET wanted == order[p].below \o <<p>> \o order[p].above
    IN \A i, j \in DOMAIN wanted :
         i < j /\ surf[wanted[i]].view /\ surf[wanted[j]].view
           => Position(stack, wanted[i]) > Position(stack, wanted[j])

\* What was pending or cached for p was applied, or its children were given
\* another order without losing one.
Applied(p) ==
    \/ surf[p].pending # "nothing" /\ surf'[p].pending = "nothing" /\ surf'[p].view
    \/ surf[p].cached /\ ~surf'[p].cached /\ surf'[p].role
    \/ LET was == order[p].below \o order[p].above
           is == order'[p].below \o order'[p].above
       IN is # was /\ ToSet(was) \subseteq ToSet(is)

\* The order a client asked for takes effect when the parent's commit does, the
\* parent's own or one carried out for it by a surface above: the views then
\* lie in that order, wherever the window was raised to and whichever of them
\* were hidden, orphaned or created since (subsurface.c 315-377).
OrderComesWithCommit ==
    [][\A p \in Surfaces : Applied(p)
         => /\ order'[p].below = order[p].pendingBelow
            /\ order'[p].above = order[p].pendingAbove
            /\ surf'[p].view => Ordered(p)']_vars
=============================================================================
