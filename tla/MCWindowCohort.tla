--------------------------- MODULE MCWindowCohort ---------------------------
(***************************************************************************)
(* Two windows for the run of WindowCohort.  The windows begin alike, and  *)
(* the properties of the run are safety properties that treat them alike.  *)
(***************************************************************************)
EXTENDS WindowCohort

CONSTANTS w1, w2        \* model values

MCWindows == {w1, w2}

\* What the next steps and the properties can tell apart of a window.  Places are
\* compared with each other only, so of two it counts whether the window is to stay
\* or to go to the other one; serials too, with the current one; the size a client
\* was asked for counts while it is pending, and when it was enrolled while it is.
Look(r) ==
    [r EXCEPT !.x = 0,
        !.moveTo = IF @ = NoMove THEN NoMove ELSE IF @ = r.x THEN 0 ELSE 1,
        !.asked = IF r.pending THEN @ ELSE Unsized,
        !.joined = IF r.member = "enrolled" /\ @ = r.serial THEN 1 ELSE 0,
        !.inbox = [i \in DOMAIN @ |-> IF @[i] = r.serial THEN 1 ELSE 0]]

\* Two windows that trade places make no difference, nor does how the last cohort
\* was released.  nudged is written anew by each step and read by none.
MCView == <<{Look(win[w]) : w \in MCWindows}, txn, outcome = "none">>
=============================================================================
