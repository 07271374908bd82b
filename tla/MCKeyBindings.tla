---------------------------- MODULE MCKeyBindings ----------------------------
(***************************************************************************)
(* One modifier and two other keys.  Both keys produce the keysym of the   *)
(* first binding (as with an Escape remapped onto Caps Lock); the second   *)
(* binding wants the modifier on one of them, and swc's own binding wants  *)
(* it on the other, as a switch of virtual terminals does.                 *)
(***************************************************************************)
EXTENDS KeyBindings

CONSTANTS shift, a, esc, plain, shifted

MCKeys == {shift, a, esc}
MCModKeys == {shift}
MCSwcKeys == {esc}
MCBindings == {plain, shifted}
MCTriggers == [b \in MCBindings |-> IF b = plain THEN {a, esc} ELSE {a}]
MCWants == [b \in MCBindings |-> IF b = plain THEN {} ELSE {shift}]
MCConsumed == [k \in MCKeys |-> {}]
==============================================================================
