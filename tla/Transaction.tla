----------------------------- MODULE Transaction -----------------------------
(***************************************************************************)
(* The barrier object of libswc/transaction.c: participants with the       *)
(* configure serial each one owes an answer for, the counters kept beside  *)
(* the list, the timer, and the completion handler.  One action per        *)
(* function of transaction.h; the pure queries are operators.              *)
(*                                                                         *)
(* finish() is the last thing every caller of it does, so a call that the  *)
(* handler makes on the transaction (an ack, a destroy) sees the state the *)
(* caller left: it is the next action here.                                *)
(***************************************************************************)
EXTENDS Naturals, FiniteSets

CONSTANTS
    Keys,       \* the opaque `void *key` values
    Serials     \* configure serials

ASSUME KeysFinite == IsFiniteSet(Keys)

VARIABLES
    alive,          \* the object is allocated
    participants,   \* SUBSET Keys: the wl_list of struct participant
    serial,         \* [Keys -> Serials]: participant->serial
    acked,          \* SUBSET participants: participant->acked
    size, pending,  \* the counters the code keeps beside the list
    committed, complete,
    timer,          \* "null", "armed", "due", "disarmed"
    completions,    \* history: calls of the handler for this object
    timedOut,       \* history: the argument of its last call
    heard           \* history: serials acked by each key since it was enrolled

vars == <<alive, participants, serial, acked, size, pending, committed,
          complete, timer, completions, timedOut, heard>>

history == <<completions, timedOut, heard>>

TypeOK ==
    /\ alive \in BOOLEAN
    /\ participants \subseteq Keys
    /\ serial \in [Keys -> Serials]
    /\ acked \subseteq participants
    /\ size \in Nat
    /\ pending \in Nat
    /\ committed \in BOOLEAN
    /\ complete \in BOOLEAN
    /\ timer \in {"null", "armed", "due", "disarmed"}
    /\ completions \in Nat
    /\ timedOut \in BOOLEAN
    /\ heard \in [Keys -> SUBSET Serials]

Init ==
    /\ alive = FALSE
    /\ participants = {}
    /\ serial \in [Keys -> Serials]
    /\ acked = {}
    /\ size = 0
    /\ pending = 0
    /\ committed = FALSE
    /\ complete = FALSE
    /\ timer = "null"
    /\ completions = 0
    /\ timedOut = FALSE
    /\ heard = [k \in Keys |-> {}]

Unacked == participants \ acked

-----------------------------------------------------------------------------
\* wl_event_source_timer_update(timer, 0): a timer the event loop has already
\* collected for dispatch stays due, only the deadline of an armed one is lost.
Disarm(t) == IF t = "armed" THEN "disarmed" ELSE t

\* Fault: finish() without its early return.
FinishAgain(expired, t) ==
    /\ complete' = TRUE
    /\ timer' = Disarm(t)
    /\ completions' = completions + 1
    /\ timedOut' = expired

\* The body of finish(), reached with the timer in state t.
Finish(expired, t) ==
    IF complete
    THEN /\ timer' = t
         /\ UNCHANGED <<complete, completions, timedOut>>
    ELSE /\ complete' = TRUE
         /\ timer' = Disarm(t)
         /\ completions' = completions + 1
         /\ timedOut' = expired

\* Fault: any answer after the commit releases the barrier.
FinishOnAnyAnswer ==
    IF committed
    THEN Finish(FALSE, timer)
    ELSE UNCHANGED <<complete, timer, completions, timedOut>>

\* The tail of transaction_remove and transaction_ack.
FinishIfSettled ==
    IF committed /\ pending' = 0
    THEN Finish(FALSE, timer)
    ELSE UNCHANGED <<complete, timer, completions, timedOut>>

Create ==
    /\ ~alive
    /\ alive' = TRUE
    /\ participants' = {}
    /\ acked' = {}
    /\ size' = 0
    /\ pending' = 0
    /\ committed' = FALSE
    /\ complete' = FALSE
    /\ timer' = "null"
    /\ completions' = 0
    /\ timedOut' = FALSE
    /\ heard' = [k \in Keys |-> {}]
    /\ UNCHANGED serial

\* Frees the participants and removes the timer source: a due timer that was
\* removed is not dispatched.
Destroy ==
    /\ alive
    /\ alive' = FALSE
    /\ participants' = {}
    /\ acked' = {}
    /\ timer' = "null"
    /\ UNCHANGED <<serial, size, pending, committed, complete, history>>

\* Refused after the commit and for a key that is already enrolled; a failed
\* allocation changes nothing.
Add(k, s) ==
    /\ alive
    /\ ~committed
    /\ k \notin participants
    /\ participants' = participants \cup {k}
    /\ serial' = [serial EXCEPT ![k] = s]
    /\ acked' = acked \ {k}
    /\ size' = size + 1
    /\ pending' = pending + 1
    /\ heard' = [heard EXCEPT ![k] = {}]
    /\ UNCHANGED <<alive, committed, complete, timer, completions, timedOut>>

Remove(k) ==
    /\ alive
    /\ k \in participants
    /\ participants' = participants \ {k}
    /\ acked' = acked \ {k}
    /\ size' = size - 1
    /\ pending' = IF k \in acked THEN pending ELSE pending - 1
    /\ FinishIfSettled
    /\ UNCHANGED <<alive, serial, committed, heard>>

\* Faults: any serial counts; a repeated ack counts again.
CountsAnySerial(k, s) == k \notin acked
\* Only the first ack of the exact serial the key was enrolled with counts.
Counts(k, s) == serial[k] = s /\ k \notin acked

Ack(k, s) ==
    /\ alive
    /\ k \in participants
    /\ heard' = [heard EXCEPT ![k] = @ \cup {s}]
    /\ IF Counts(k, s)
       THEN /\ acked' = acked \cup {k}
            /\ pending' = pending - 1
            /\ FinishIfSettled
       ELSE UNCHANGED <<acked, pending, complete, timer, completions, timedOut>>
    /\ UNCHANGED <<alive, participants, serial, size, committed>>

\* timerAdded is FALSE when wl_event_loop_add_timer fails.
Commit(timerAdded) ==
    /\ alive
    /\ ~committed
    /\ committed' = TRUE
    /\ IF pending = 0 THEN Finish(FALSE, "null")
       ELSE IF ~timerAdded THEN Finish(TRUE, "null")
       ELSE /\ timer' = "armed"
            /\ UNCHANGED <<complete, completions, timedOut>>
    /\ UNCHANGED <<alive, participants, serial, acked, size, pending, heard>>

\* The event loop finds the deadline passed and puts the timer on the list it
\* is about to dispatch.
Expire ==
    /\ timer = "armed"
    /\ timer' = "due"
    /\ UNCHANGED <<alive, participants, serial, acked, size, pending,
                   committed, complete, history>>

\* The loop disarms a timer when it collects it, so it fires once.
HandleTimeout ==
    /\ timer = "due"
    /\ Finish(TRUE, "disarmed")
    /\ UNCHANGED <<alive, participants, serial, acked, size, pending,
                   committed, heard>>

Next ==
    \/ Create \/ Destroy
    \/ \E k \in Keys, s \in Serials : Add(k, s)
    \/ \E k \in Keys : Remove(k)
    \/ \E k \in Keys, s \in Serials : Ack(k, s)
    \/ \E timerAdded \in BOOLEAN : Commit(timerAdded)
    \/ Expire \/ HandleTimeout

\* Only the event loop is fair: an armed timer expires and a due one is
\* dispatched.  Clients owe nothing.
Fairness == WF_vars(Expire) /\ WF_vars(HandleTimeout)

Spec == Init /\ [][Next]_vars /\ Fairness

-----------------------------------------------------------------------------
\* The counters agree with the list they summarise, through every order of
\* add, ack, duplicate ack, withdrawal and late withdrawal (transaction.c 161-163,
\* 177-181, 207-208).
CountersMatch ==
    alive => /\ size = Cardinality(participants)
             /\ pending = Cardinality(Unacked)

\* The completion handler runs at most once for one transaction, although acks,
\* withdrawals, the commit and a timer already collected for dispatch all reach
\* finish(), some of them after the handler ran (transaction.c 59-87).
CompletesOnce == completions = (IF complete THEN 1 ELSE 0)

\* A committed barrier that has not completed is waiting for somebody and has a
\* timer that will fire: nothing can leave it stalled (transaction.c 228-244).
NeverStalls ==
    alive /\ committed /\ ~complete
        => Unacked # {} /\ timer \in {"armed", "due"}

\* A participant counts as acked only if the client acked, since it was enrolled,
\* the very serial it was enrolled with (transaction.c 198-205).
AckIsExact == \A k \in acked : serial[k] \in heard[k]

\* The object implements the abstract barrier: it reports success only when
\* nobody is owed any more and a timeout only while somebody is, the cohort only
\* shrinks after the commit, and every wait ends, because the timer bounds it for
\* clients that never answer (transaction.c 150-152, 184-186, 210-212, 228-244).
TheBarrier == INSTANCE Barrier WITH
    phase   <- IF ~alive THEN "none"
               ELSE IF complete THEN "released"
               ELSE IF committed THEN "waiting" ELSE "open",
    awaited <- Unacked,
    outcome <- IF ~alive \/ ~complete THEN "none"
               ELSE IF timedOut THEN "expired" ELSE "answered"

ImplementsBarrier == TheBarrier!BarrierSpec
==============================================================================
