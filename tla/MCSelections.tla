---------------------------- MODULE MCSelections ----------------------------
(***************************************************************************)
(* Values for the run of Selections: an application c with a               *)
(* wl_data_source s1, and a clipboard manager m with a data control source *)
(* s2, which may also have a wl_data_device and the focus.                 *)
(***************************************************************************)
EXTENDS Selections, TLC

CONSTANTS c, m, s1, s2      \* model values

MCClients == {c, m}
MCManagers == {m}
MCDataSources == {s1}
MCControlSources == {s2}
MCOwner == (s1 :> c) @@ (s2 :> m)
=============================================================================
