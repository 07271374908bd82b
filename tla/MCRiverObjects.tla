--------------------------- MODULE MCRiverObjects ---------------------------
(***************************************************************************)
(* Values for the run of RiverObjects: one thing of each kind, two clients *)
(* that manage in turn, and two sizes.                                     *)
(***************************************************************************)
EXTENDS RiverObjects, TLC

CONSTANTS w, o, s, c, d     \* model values

MCWindows == {w}
MCOutputs == {o}
MCShells == {s}
MCClients == {c, d}
MCSizes == {1}
ClientSymmetry == Permutations(MCClients)
=============================================================================
