----------------------------- MODULE MCPointer -----------------------------
(***************************************************************************)
(* Values for the run of Pointer: a window v of one client, a view u of    *)
(* another, two buttons, and a binding of each.                          *)
(***************************************************************************)
EXTENDS Pointer

CONSTANTS v, u, c1, c2, left, right, x, y     \* model values

MCViews == {v, u}
MCClients == {c1, c2}
MCOwner == [w \in MCViews |-> IF w = u THEN c2 ELSE c1]
MCWindows == {v}
MCWindowOf == [w \in MCViews |-> IF w = u THEN None ELSE v]
MCButtons == {left, right}
MCBinding == {x, y}
MCButtonOf == [b \in Bindings |-> IF b = x THEN left ELSE right]

\* What distinguishes two states: not which serial stands for which press, nor
\* what lies in the array behind its end where no press points.
MCView ==
    LET press(n) == {b.value : b \in {b \in buttons : b.serial = n}}
        kept(k) == k <= array.size \/ \E b \in buttons : b.slot = k
    IN <<views, stacked, focus, bound,
         {<<b.value, b.by, b.slot, b.to>> : b \in buttons}, grabs,
         [i \in Interactions |-> <<inter[i].original, press(inter[i].serial)>>], select,
         array.size, [k \in DOMAIN array.memory |-> IF kept(k) THEN array.memory[k] ELSE None],
         cursor, entered, down, heard, moved>>
=============================================================================
