----------------------------- MODULE ManageLoop -----------------------------
(***************************************************************************)
(* What river-window-management-v1 promises one window manager: the main   *)
(* loop of the protocol, in the order "manage sequence, configure, render  *)
(* sequence", with at most one start event waiting for its answer, and     *)
(* every answer accepted.                                                  *)
(***************************************************************************)
EXTENDS Sequences

VARIABLES
    step,       \* "gone", "idle", "manage", "settle" or "render"
    owed        \* the start events the manager has not answered, oldest first

loopVars == <<step, owed>>

LoopInit == step = "gone" /\ owed = <<>>

Appear == step = "gone" /\ step' = "idle" /\ owed' = <<>>

Vanish == step # "gone" /\ step' = "gone" /\ owed' = <<>>

StartManage == step = "idle" /\ step' = "manage" /\ owed' = <<"manage_start">>

\* The manager has answered: the windows are asked, and there may be none.
FinishManage ==
    /\ step = "manage"
    /\ \/ step' = "settle" /\ owed' = <<>>
       \/ step' = "render" /\ owed' = <<"render_start">>

StartRender == step = "settle" /\ step' = "render" /\ owed' = <<"render_start">>

FinishRender == step = "render" /\ step' = "idle" /\ owed' = <<>>

LoopNext ==
    \/ Appear \/ Vanish
    \/ StartManage \/ FinishManage
    \/ StartRender \/ FinishRender

LoopSpec == LoopInit /\ [][LoopNext]_loopVars
==============================================================================
