----------------------------- MODULE MCStacking -----------------------------
(***************************************************************************)
(* Values for the run of Stacking: two windows, the second of which can be *)
(* transient for the first, a popup that can belong to either of them, a   *)
(* bar of the manager and a layer surface.                                 *)
(***************************************************************************)
EXTENDS Stacking

CONSTANTS w1, w2, p, b, l, d    \* model values

MCWindows == {w1, w2}
MCPopups == {p}
MCBars == {b}
MCLayerSurfaces == {l}
MCPanels == {d}
MCParents == {<<w2, w1>>, <<p, w1>>, <<p, w2>>}
MCChosen == {1, 3}
MCSizes == 1..4
MCOffsets == -1..1
=============================================================================
