----------------------------- MODULE MCOutputs -----------------------------
(***************************************************************************)
(* Values for the run of Outputs: two screens that may touch, overlap or   *)
(* leave a gap, a layer surface, a panel and two configurations.           *)
(***************************************************************************)
EXTENDS Outputs, TLC

CONSTANTS s, t, l, p, a, b      \* model values

MCScreens == {s, t}
MCFirst == [x \in MCScreens |-> IF x = s THEN 0 ELSE 2]
MCPositions == {0, 2, 5}
MCStates ==
    {[anchor |-> "top", edge |-> None, zone |-> -1, margin |-> 1, desired |-> 1],
     [anchor |-> "bottom", edge |-> None, zone |-> 2, margin |-> 0, desired |-> 2],
     [anchor |-> "both", edge |-> "top", zone |-> 1, margin |-> 1, desired |-> 0]}
ConfigSymmetry == Permutations({a, b})
=============================================================================
