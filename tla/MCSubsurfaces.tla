--------------------------- MODULE MCSubsurfaces ---------------------------
(***************************************************************************)
(* Values for the run of Subsurfaces: a window w, a surface a that can     *)
(* become its subsurface, and a surface b that can become a's sibling or   *)
(* its child.                                                              *)
(***************************************************************************)
EXTENDS Subsurfaces

CONSTANTS w, a, b       \* model values

MCSurfaces == {w, a, b}
MCWindows == {w}
MCUnmapped == {a}
MCLoose == {b}
MCDrawn == {a, b}
MCMortal == {a}
MCParents == {<<a, w>>, <<b, w>>, <<b, a>>}
=============================================================================
