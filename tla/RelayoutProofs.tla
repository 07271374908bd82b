--------------------------- MODULE RelayoutProofs ---------------------------
(***************************************************************************)
(* The two ends of a relayout, for any keys, serials and windows.  First   *)
(* Transaction: its safety invariants, from one inductive invariant, and   *)
(* that every step is a step of the abstract Barrier or leaves it          *)
(* unchanged.  Then ManageSequence: its safety invariants, and that a      *)
(* manager which inherits no waiting cohort sees the loop of the protocol. *)
(***************************************************************************)
EXTENDS Transaction, ManageSequence, FiniteSetTheorems, SequenceTheorems, TLAPS

-----------------------------------------------------------------------------
(* The barrier.                                                            *)

\* What the listed invariants need to be inductive: a destroyed object holds
\* nothing, and only the commit creates a timer or allows completion.
Lifecycle ==
    /\ ~alive => participants = {} /\ timer = "null"
    /\ timer # "null" => committed
    /\ alive /\ complete => committed

IInv == /\ TypeOK
        /\ CountersMatch
        /\ CompletesOnce
        /\ NeverStalls
        /\ AckIsExact
        /\ Lifecycle

-----------------------------------------------------------------------------
\* Every set of participants is finite, and the pending counter is zero exactly
\* when nobody is owed: what the C code reads off the counter.
LEMMA PendingIsEmptiness ==
    ASSUME TypeOK, CountersMatch, alive
    PROVE  /\ IsFiniteSet(participants)
           /\ IsFiniteSet(Unacked)
           /\ pending = 0 <=> Unacked = {}
<1>1. IsFiniteSet(participants) /\ IsFiniteSet(Unacked)
  BY KeysFinite, FS_Subset DEF TypeOK, Unacked
<1> QED  BY <1>1, FS_EmptySet DEF CountersMatch

\* The same of the state after a step.
LEMMA PendingIsEmptinessNext ==
    ASSUME TypeOK', CountersMatch', alive'
    PROVE  pending' = 0 <=> Unacked' = {}
<1>1. IsFiniteSet(Unacked')
  BY KeysFinite, FS_Subset DEF TypeOK, Unacked
<1> QED  BY <1>1, FS_EmptySet DEF CountersMatch

\* The branches of finish() keep the types, the single completion and the timer.
LEMMA FinishEffect ==
    ASSUME TypeOK, CompletesOnce,
           NEW e \in BOOLEAN, NEW t \in {"null", "armed", "due", "disarmed"},
           Finish(e, t)
    PROVE  /\ complete' = TRUE
           /\ completions' = 1
           /\ completions' \in Nat
           /\ timedOut' \in BOOLEAN
           /\ timer' \in {"null", "armed", "due", "disarmed"}
           /\ t = "null" <=> timer' = "null"
           /\ IF complete THEN timedOut' = timedOut ELSE timedOut' = e
  BY DEF TypeOK, CompletesOnce, Finish, Disarm

\* The tail of an ack and of a withdrawal: either finish() ran, or nothing
\* about completion changed.
LEMMA SettledEffect ==
    ASSUME IInv, FinishIfSettled
    PROVE  \/ /\ committed /\ pending' = 0
              /\ Finish(FALSE, timer)
           \/ /\ ~(committed /\ pending' = 0)
              /\ UNCHANGED <<complete, timer, completions, timedOut>>
  BY DEF FinishIfSettled

\* The initial states satisfy the inductive invariant.
LEMMA InitIInv == Init => IInv
<1> SUFFICES ASSUME Init PROVE IInv
  OBVIOUS
<1>1. TypeOK
  BY DEF Init, TypeOK
<1> QED
  BY <1>1 DEF Init, IInv, CountersMatch, CompletesOnce, NeverStalls, AckIsExact, Lifecycle

\* Enrolling a key raises both counters by one.
LEMMA AddIInv ==
    ASSUME IInv, NEW k \in Keys, NEW s \in Serials, Add(k, s)
    PROVE  IInv'
<1> USE DEF IInv
<1>1. TypeOK'
  BY DEF TypeOK, Add
<1>2. CountersMatch'
  <2>1. IsFiniteSet(participants) /\ IsFiniteSet(Unacked)
    BY PendingIsEmptiness DEF Add
  <2>2. participants' = participants \cup {k} /\ Unacked' = Unacked \cup {k}
    BY DEF Add, Unacked, TypeOK
  <2>3. k \notin participants /\ k \notin Unacked
    BY DEF Add, Unacked
  <2> QED
    BY <2>1, <2>2, <2>3, FS_AddElement DEF Add, CountersMatch
<1>3. CompletesOnce' /\ NeverStalls' /\ Lifecycle'
  BY DEF Add, CompletesOnce, NeverStalls, Lifecycle
<1>4. AckIsExact'
  BY DEF Add, AckIsExact, TypeOK
<1> QED  BY <1>1, <1>2, <1>3, <1>4

\* A withdrawal lowers the counters by what the participant contributed.
LEMMA RemoveIInv ==
    ASSUME IInv, NEW k \in Keys, Remove(k)
    PROVE  IInv'
<1> USE DEF IInv
<1>1. IsFiniteSet(participants) /\ IsFiniteSet(Unacked)
  BY PendingIsEmptiness DEF Remove
<1>2. /\ participants' = participants \ {k}
      /\ Unacked' = Unacked \ {k}
      /\ k \in Unacked <=> k \notin acked
  BY DEF Remove, Unacked, TypeOK
<1>3. /\ size' = Cardinality(participants')
      /\ pending' = Cardinality(Unacked')
  BY <1>1, <1>2, FS_RemoveElement DEF Remove, CountersMatch
<1>4. size' \in Nat /\ pending' \in Nat
  <2>1. IsFiniteSet(participants') /\ IsFiniteSet(Unacked')
    BY <1>1, <1>2, FS_RemoveElement
  <2> QED  BY <1>3, <2>1, FS_CardinalityType
<1>5. pending' = 0 <=> Unacked' = {}
  BY <1>1, <1>2, <1>3, FS_RemoveElement, FS_EmptySet
<1>6. CASE committed /\ pending' = 0 /\ Finish(FALSE, timer)
  <2>1. FALSE \in BOOLEAN /\ timer \in {"null", "armed", "due", "disarmed"}
    BY DEF TypeOK
  <2>2. /\ complete' = TRUE
        /\ completions' = 1
        /\ timedOut' \in BOOLEAN
        /\ timer' \in {"null", "armed", "due", "disarmed"}
        /\ timer = "null" <=> timer' = "null"
    BY <1>6, <2>1, FinishEffect
  <2>3. TypeOK'
    BY <1>4, <2>2 DEF TypeOK, Remove
  <2> QED
    BY <1>3, <1>6, <2>2, <2>3
       DEF Remove, TypeOK, CountersMatch, CompletesOnce, NeverStalls, AckIsExact, Lifecycle
<1>7. CASE /\ ~(committed /\ pending' = 0)
           /\ UNCHANGED <<complete, timer, completions, timedOut>>
  <2>1. TypeOK'
    BY <1>4, <1>7 DEF TypeOK, Remove
  <2>2. NeverStalls'
    BY <1>5, <1>7 DEF Remove, NeverStalls
  <2> QED
    BY <1>3, <1>7, <2>1, <2>2
       DEF Remove, TypeOK, CountersMatch, CompletesOnce, AckIsExact, Lifecycle
<1> QED  BY <1>6, <1>7, SettledEffect DEF Remove

\* Only an ack that counts moves the pending counter, and by one.
LEMMA AckIInv ==
    ASSUME IInv, NEW k \in Keys, NEW s \in Serials, Ack(k, s)
    PROVE  IInv'
<1> USE DEF IInv
<1>1. CASE ~Counts(k, s)
  <2>1. UNCHANGED <<alive, participants, serial, acked, size, pending,
                    committed, complete, timer, completions, timedOut>>
    BY <1>1 DEF Ack
  <2>2. heard' = [heard EXCEPT ![k] = @ \cup {s}]
    BY DEF Ack
  <2>3. TypeOK' /\ AckIsExact'
    BY <2>1, <2>2 DEF TypeOK, AckIsExact
  <2> QED
    BY <2>1, <2>3 DEF CountersMatch, Unacked, CompletesOnce, NeverStalls, Lifecycle
<1>2. CASE Counts(k, s)
  <2>1. /\ IsFiniteSet(Unacked)
        /\ k \in Unacked
        /\ Unacked' = Unacked \ {k}
        /\ UNCHANGED <<alive, participants, serial, size, committed>>
        /\ acked' = acked \cup {k}
        /\ FinishIfSettled
    BY <1>2, PendingIsEmptiness DEF Ack, Counts, Unacked
  <2>2. /\ pending' = Cardinality(Unacked')
        /\ pending' \in Nat
        /\ pending' = 0 <=> Unacked' = {}
    <3>1. IsFiniteSet(Unacked')
      BY <2>1, FS_RemoveElement
    <3>2. pending' = Cardinality(Unacked')
      BY <1>2, <2>1, FS_RemoveElement DEF Ack, CountersMatch
    <3> QED  BY <3>1, <3>2, FS_CardinalityType, FS_EmptySet
  <2>3. AckIsExact'
    BY <1>2 DEF Ack, Counts, AckIsExact, TypeOK
  <2>4. CASE committed /\ pending' = 0 /\ Finish(FALSE, timer)
    <3>1. FALSE \in BOOLEAN /\ timer \in {"null", "armed", "due", "disarmed"}
      BY DEF TypeOK
    <3>2. /\ complete' = TRUE
          /\ completions' = 1
          /\ timedOut' \in BOOLEAN
          /\ timer' \in {"null", "armed", "due", "disarmed"}
          /\ timer = "null" <=> timer' = "null"
      BY <2>4, <3>1, FinishEffect
    <3>3. TypeOK'
      BY <2>1, <2>2, <3>2 DEF TypeOK, Ack
    <3> QED
      BY <2>1, <2>2, <2>3, <2>4, <3>2, <3>3
         DEF CountersMatch, CompletesOnce, NeverStalls, Lifecycle
  <2>5. CASE /\ ~(committed /\ pending' = 0)
             /\ UNCHANGED <<complete, timer, completions, timedOut>>
    <3>1. TypeOK'
      BY <2>1, <2>2, <2>5 DEF TypeOK, Ack
    <3>2. NeverStalls'
      BY <2>1, <2>2, <2>5 DEF NeverStalls
    <3> QED
      BY <2>1, <2>2, <2>3, <2>5, <3>1, <3>2
         DEF CountersMatch, CompletesOnce, Lifecycle
  <2> QED  BY <2>1, <2>4, <2>5, SettledEffect
<1> QED  BY <1>1, <1>2

\* The commit either completes at once or leaves a timer for the keys it owes.
LEMMA CommitIInv ==
    ASSUME IInv, NEW timerAdded \in BOOLEAN, Commit(timerAdded)
    PROVE  IInv'
<1> USE DEF IInv
<1>1. pending = 0 <=> Unacked = {}
  BY PendingIsEmptiness DEF Commit
<1>2. /\ UNCHANGED <<alive, participants, serial, acked, size, pending, heard>>
      /\ alive /\ committed' = TRUE
      /\ Unacked' = Unacked
  BY DEF Commit, Unacked
<1>3. CASE \E e \in BOOLEAN : Finish(e, "null")
  <2>1. PICK e \in BOOLEAN : Finish(e, "null")
    BY <1>3
  <2>2. /\ complete' = TRUE
        /\ completions' = 1
        /\ timedOut' \in BOOLEAN
        /\ timer' \in {"null", "armed", "due", "disarmed"}
    BY <2>1, FinishEffect
  <2>3. TypeOK'
    BY <1>2, <2>2 DEF TypeOK
  <2> QED
    BY <1>2, <2>2, <2>3
       DEF CountersMatch, CompletesOnce, NeverStalls, AckIsExact, Lifecycle
<1>4. CASE /\ pending # 0
           /\ timer' = "armed"
           /\ UNCHANGED <<complete, completions, timedOut>>
  <2>1. TypeOK'
    BY <1>2, <1>4 DEF TypeOK
  <2> QED
    BY <1>1, <1>2, <1>4, <2>1
       DEF CountersMatch, CompletesOnce, NeverStalls, AckIsExact, Lifecycle
<1> QED  BY <1>3, <1>4 DEF Commit

\* The timer, the life cycle and stuttering.
LEMMA TimerIInv ==
    ASSUME IInv, Create \/ Destroy \/ Expire \/ HandleTimeout \/ UNCHANGED vars
    PROVE  IInv'
<1> USE DEF IInv
<1>1. CASE Create
  <2>1. TypeOK'
    BY <1>1 DEF Create, TypeOK
  <2>2. CountersMatch'
    BY <1>1, FS_EmptySet DEF Create, CountersMatch, Unacked
  <2> QED
    BY <1>1, <2>1, <2>2
       DEF Create, CompletesOnce, NeverStalls, AckIsExact, Lifecycle
<1>2. CASE Destroy
  <2>1. TypeOK'
    BY <1>2 DEF Destroy, TypeOK, history
  <2> QED
    BY <1>2, <2>1
       DEF Destroy, history, CountersMatch, CompletesOnce, NeverStalls, AckIsExact, Lifecycle
<1>3. CASE Expire
  <2>1. TypeOK'
    BY <1>3 DEF Expire, TypeOK, history
  <2> QED
    BY <1>3, <2>1
       DEF Expire, history, CountersMatch, Unacked, CompletesOnce, NeverStalls,
           AckIsExact, Lifecycle
<1>4. CASE HandleTimeout
  <2>1. TRUE \in BOOLEAN /\ "disarmed" \in {"null", "armed", "due", "disarmed"}
    OBVIOUS
  <2>2. /\ complete' = TRUE
        /\ completions' = 1
        /\ timedOut' \in BOOLEAN
        /\ timer' \in {"null", "armed", "due", "disarmed"}
    BY <1>4, <2>1, FinishEffect DEF HandleTimeout
  <2>3. TypeOK'
    BY <1>4, <2>2 DEF HandleTimeout, TypeOK
  <2> QED
    BY <1>4, <2>2, <2>3
       DEF HandleTimeout, CountersMatch, Unacked, CompletesOnce, NeverStalls,
           AckIsExact, Lifecycle
<1>5. CASE UNCHANGED vars
  BY <1>5 DEF vars, TypeOK, CountersMatch, Unacked, CompletesOnce, NeverStalls,
              AckIsExact, Lifecycle
<1> QED  BY <1>1, <1>2, <1>3, <1>4, <1>5

\* Every step keeps the inductive invariant.
LEMMA NextIInv == IInv /\ [Next]_vars => IInv'
<1> SUFFICES ASSUME IInv, [Next]_vars PROVE IInv'
  OBVIOUS
<1>1. CASE \E k \in Keys, s \in Serials : Add(k, s)
  BY <1>1, AddIInv
<1>2. CASE \E k \in Keys : Remove(k)
  BY <1>2, RemoveIInv
<1>3. CASE \E k \in Keys, s \in Serials : Ack(k, s)
  BY <1>3, AckIInv
<1>4. CASE \E timerAdded \in BOOLEAN : Commit(timerAdded)
  BY <1>4, CommitIInv
<1>5. CASE Create \/ Destroy \/ Expire \/ HandleTimeout \/ UNCHANGED vars
  BY <1>5, TimerIInv
<1> QED  BY <1>1, <1>2, <1>3, <1>4, <1>5 DEF Next

\* The inductive invariant holds throughout.
THEOREM Invariance == Spec => []IInv
  BY InitIInv, NextIInv, PTL DEF Spec

\* Every variable keeps its type; in particular no counter ever goes below zero.
THEOREM TypeCorrect == Spec => []TypeOK
<1>1. IInv => TypeOK
  BY DEF IInv
<1> QED  BY <1>1, Invariance, PTL

\* The counters kept beside the list agree with it after any sequence of calls.
THEOREM CountersAgree == Spec => []CountersMatch
<1>1. IInv => CountersMatch
  BY DEF IInv
<1> QED  BY <1>1, Invariance, PTL

\* The completion handler runs at most once, whatever reaches finish() again.
THEOREM HandlerRunsOnce == Spec => []CompletesOnce
<1>1. IInv => CompletesOnce
  BY DEF IInv
<1> QED  BY <1>1, Invariance, PTL

\* A committed barrier is never left waiting without a timer or for nobody.
THEOREM BarrierNeverStalls == Spec => []NeverStalls
<1>1. IInv => NeverStalls
  BY DEF IInv
<1> QED  BY <1>1, Invariance, PTL

\* No superseded ack ever counts.
THEOREM OnlyExactAcksCount == Spec => []AckIsExact
<1>1. IInv => AckIsExact
  BY DEF IInv
<1> QED  BY <1>1, Invariance, PTL
-----------------------------------------------------------------------------
\* The initial states of the object are those of the abstract barrier.
LEMMA BarrierInitially == Init => TheBarrier!BarrierInit
  BY DEF Init, TheBarrier!BarrierInit, Unacked

\* A call of finish() by an object that has not completed is the release the
\* abstract barrier describes: answered when nobody is owed, else expired.
LEMMA FinishReleases ==
    ASSUME IInv, alive, alive', ~complete,
           NEW e \in BOOLEAN, NEW t, Finish(e, t),
           Unacked' \subseteq Unacked,
           e <=> Unacked' # {},
           e => Unacked' = Unacked,
           ~committed => Unacked' = Unacked
    PROVE  TheBarrier!Release
<1>1. /\ complete' = TRUE
      /\ timedOut' = e
  BY DEF Finish
<1> QED
  BY <1>1 DEF TheBarrier!Release, TheBarrier!ReleaseAnswered, TheBarrier!ReleaseExpired

\* The shape ack and withdrawal share: some keys leave the owed set, then finish()
\* runs if none is left.
SettlingStep ==
    /\ alive /\ alive'
    /\ committed' = committed
    /\ Unacked' \subseteq Unacked
    /\ pending' = 0 <=> Unacked' = {}
    /\ FinishIfSettled

\* Such a step is one of Collect, Shrink, ReleaseAnswered and Late.
LEMMA SettlingRefines ==
    ASSUME IInv, SettlingStep
    PROVE  [TheBarrier!BarrierNext]_(TheBarrier!barrierVars)
<1> USE DEF IInv, SettlingStep
<1>1. Unacked' \in SUBSET Keys
  BY DEF TypeOK, Unacked
<1>2. CASE /\ committed /\ pending' = 0 /\ ~complete
           /\ Finish(FALSE, timer)
  <2>1. TheBarrier!Release
    BY <1>2, FinishReleases
  <2> QED  BY <2>1 DEF TheBarrier!BarrierNext
<1>3. CASE complete /\ UNCHANGED <<complete, timedOut>>
  <2>1. TheBarrier!Late
    BY <1>3 DEF TheBarrier!Late
  <2> QED  BY <2>1 DEF TheBarrier!BarrierNext
<1>4. CASE /\ ~committed
           /\ UNCHANGED <<complete, timedOut>>
  <2>1. ~complete
    BY <1>4 DEF Lifecycle
  <2>2. TheBarrier!Collect
    BY <1>1, <1>4, <2>1 DEF TheBarrier!Collect
  <2> QED  BY <2>2 DEF TheBarrier!BarrierNext
<1>5. CASE /\ committed /\ pending' # 0 /\ ~complete
           /\ UNCHANGED <<complete, timedOut>>
  <2>1. TheBarrier!Shrink
    BY <1>5 DEF TheBarrier!Shrink
  <2> QED  BY <2>1 DEF TheBarrier!BarrierNext
<1> QED
  BY <1>2, <1>3, <1>4, <1>5, SettledEffect DEF Finish

\* Every step of the object is a step of the abstract barrier or leaves what the
\* barrier shows unchanged.
LEMMA BarrierStep == IInv /\ IInv' /\ [Next]_vars => [TheBarrier!BarrierNext]_(TheBarrier!barrierVars)
<1> SUFFICES ASSUME IInv, IInv', [Next]_vars
             PROVE  [TheBarrier!BarrierNext]_(TheBarrier!barrierVars)
  OBVIOUS
<1> USE DEF IInv
<1> DEFINE Shown == TheBarrier!barrierVars
<1>1. CASE Create
  <2>1. TheBarrier!Open
    BY <1>1 DEF Create, TheBarrier!Open, Unacked
  <2> QED  BY <2>1 DEF TheBarrier!BarrierNext
<1>2. CASE Destroy
  <2>1. TheBarrier!Discard
    BY <1>2 DEF Destroy, TheBarrier!Discard, Unacked
  <2> QED  BY <2>1 DEF TheBarrier!BarrierNext
<1>3. ASSUME NEW k \in Keys, NEW s \in Serials, Add(k, s)
      PROVE  TheBarrier!Collect
  <2>1. Unacked' \in SUBSET Keys
    BY DEF Unacked, TypeOK
  <2> QED
    BY <1>3, <2>1 DEF Add, TheBarrier!Collect, Lifecycle
<1>4. ASSUME NEW k \in Keys, Remove(k)
      PROVE  [TheBarrier!BarrierNext]_Shown
  <2>1. /\ alive /\ alive'
        /\ committed' = committed
        /\ Unacked' \subseteq Unacked
        /\ FinishIfSettled
    BY <1>4 DEF Remove, Unacked
  <2>2. SettlingStep
    BY <2>1, PendingIsEmptinessNext DEF SettlingStep
  <2> QED  BY <2>2, SettlingRefines
<1>5. ASSUME NEW k \in Keys, NEW s \in Serials, Ack(k, s)
      PROVE  [TheBarrier!BarrierNext]_Shown
  <2>1. CASE Counts(k, s)
    <3>1. /\ alive /\ alive'
          /\ committed' = committed
          /\ Unacked' \subseteq Unacked
          /\ FinishIfSettled
      BY <1>5, <2>1 DEF Ack, Unacked
    <3>2. SettlingStep
      BY <3>1, PendingIsEmptinessNext DEF SettlingStep
    <3> QED  BY <3>2, SettlingRefines
  <2>2. CASE ~Counts(k, s)
    BY <1>5, <2>2 DEF Ack, Unacked, TheBarrier!barrierVars
  <2> QED  BY <2>1, <2>2
<1>6. ASSUME NEW timerAdded \in BOOLEAN, Commit(timerAdded)
      PROVE  TheBarrier!BarrierNext
  <2>1. /\ alive /\ alive' /\ ~committed /\ ~complete
        /\ Unacked' = Unacked
        /\ pending = 0 <=> Unacked = {}
    BY <1>6, PendingIsEmptiness DEF Commit, Unacked, Lifecycle
  <2>2. CASE pending = 0
    <3>1. TheBarrier!Release
      BY <1>6, <2>1, <2>2, FinishReleases DEF Commit
    <3> QED  BY <3>1 DEF TheBarrier!BarrierNext
  <2>3. CASE pending # 0 /\ ~timerAdded
    <3>1. TheBarrier!Release
      BY <1>6, <2>1, <2>3, FinishReleases DEF Commit
    <3> QED  BY <3>1 DEF TheBarrier!BarrierNext
  <2>4. CASE pending # 0 /\ timerAdded
    <3>1. TheBarrier!StartWait
      BY <1>6, <2>1, <2>4 DEF Commit, TheBarrier!StartWait
    <3> QED  BY <3>1 DEF TheBarrier!BarrierNext
  <2> QED  BY <2>2, <2>3, <2>4
<1>7. CASE Expire
  BY <1>7 DEF Expire, history, Unacked, TheBarrier!barrierVars
<1>8. CASE HandleTimeout
  <2>1. alive /\ alive' /\ committed
    BY <1>8 DEF HandleTimeout, Lifecycle
  <2>2. CASE complete
    BY <1>8, <2>2 DEF HandleTimeout, Finish, Unacked, TheBarrier!barrierVars
  <2>3. CASE ~complete
    <3>1. TheBarrier!Release
      BY <1>8, <2>1, <2>3, FinishReleases DEF HandleTimeout, NeverStalls, Unacked
    <3> QED  BY <3>1 DEF TheBarrier!BarrierNext
  <2> QED  BY <2>2, <2>3
<1>9. CASE UNCHANGED vars
  BY <1>9 DEF vars, Unacked, TheBarrier!barrierVars
<1> QED
  BY <1>1, <1>2, <1>3, <1>4, <1>5, <1>6, <1>7, <1>8, <1>9
     DEF Next, TheBarrier!BarrierNext

\* The object implements the abstract barrier, for every set of keys and serials.
THEOREM RefinesBarrier == Spec => TheBarrier!BarrierSafety
  BY Invariance, BarrierInitially, BarrierStep, PTL DEF Spec, TheBarrier!BarrierSafety

-----------------------------------------------------------------------------
(* The manage and render loop.                                             *)

\* The start events a manager owes an answer for in each phase.
Expected ==
    CASE phase = "manage" -> <<"manage_start">>
      [] phase = "render" -> <<"render_start">>
      [] OTHER -> <<>>

\* Both start events can be owed only by a manager whose predecessor's cohort
\* completed while it was managing, or one for whom another client has answered.
OwesWhatItWasSent ==
    managed /\ ~meddled =>
               \/ unanswered = Expected
               \/ /\ inherited
                  /\ phase = "render"
                  /\ unanswered = <<"manage_start", "render_start">>

\* A cohort waits only while the loop settles, unless it was inherited or there is
\* nobody to tell; a rendering loop has none; and only a waiting one has members.
CohortIsOwned ==
    /\ managed /\ ~inherited /\ cohort = "waiting" => phase = "settle"
    /\ phase = "render" => cohort = "none"
    /\ cohort = "none" => members = {}

Events == {"manage_start", "render_start"}

SequenceInv == /\ SequenceTypeOK
        /\ NoLostWakeup
        /\ OwesWhatItWasSent
        /\ CohortIsOwned

-----------------------------------------------------------------------------
\* What Head, Tail and Append do to the queues of events that occur.
LEMMA Queues ==
    /\ Head(<<"manage_start">>) = "manage_start"
    /\ Head(<<"render_start">>) = "render_start"
    /\ Head(<<"manage_start", "render_start">>) = "manage_start"
    /\ Tail(<<"manage_start">>) = <<>>
    /\ Tail(<<"render_start">>) = <<>>
    /\ \A e \in Events : Append(<<>>, e) = <<e>>
    /\ Append(<<"manage_start">>, "render_start") = <<"manage_start", "render_start">>
<1>1. /\ Head(<<"manage_start">>) = "manage_start"
      /\ Head(<<"render_start">>) = "render_start"
      /\ Head(<<"manage_start", "render_start">>) = "manage_start"
  OBVIOUS
<1>2. Tail(<<"manage_start">>) = <<>> /\ Tail(<<"render_start">>) = <<>>
  OBVIOUS
<1>3. \A e \in Events : Append(<<>>, e) = <<e>>
  OBVIOUS
<1>4. Append(<<"manage_start">>, "render_start") = <<"manage_start", "render_start">>
  <2> DEFINE one == <<"manage_start">>
             two == <<"manage_start", "render_start">>
             both == Append(one, "render_start")
  <2>1. one \in Seq(Events) /\ two \in Seq(Events) /\ "render_start" \in Events
    BY DEF Events
  <2>2. /\ Len(one) = 1 /\ one[1] = "manage_start"
        /\ Len(two) = 2 /\ two[1] = "manage_start" /\ two[2] = "render_start"
    OBVIOUS
  <2> HIDE DEF one, two
  <2>3. /\ both \in Seq(Events)
        /\ Len(both) = 2
        /\ both[1] = "manage_start" /\ both[2] = "render_start"
    <3>1. /\ both \in Seq(Events)
          /\ Len(both) = Len(one) + 1
          /\ \A i \in 1..Len(one) : both[i] = one[i]
          /\ both[Len(one) + 1] = "render_start"
      BY <2>1, AppendProperties
    <3>2. 1 \in 1..Len(one) /\ Len(one) + 1 = 2
      BY <2>2
    <3> HIDE DEF both
    <3> QED  BY <2>2, <3>1, <3>2
  <2>4. both = two
    <3>1. \A i \in 1..Len(both) : both[i] = two[i]
      BY <2>2, <2>3
    <3> HIDE DEF both
    <3> QED  BY <2>1, <2>2, <2>3, <3>1, SeqEqual
  <2> QED  BY <2>4 DEF one, two
<1> QED  BY <1>1, <1>2, <1>3, <1>4

\* They are sequences of events.
LEMMA EventSeqs ==
    /\ <<>> \in Seq(Events)
    /\ <<"manage_start">> \in Seq(Events)
    /\ <<"render_start">> \in Seq(Events)
    /\ <<"manage_start", "render_start">> \in Seq(Events)
    /\ Seq(Events) = Seq({"manage_start", "render_start"})
  BY DEF Events

\* An answer is the one the phase expects, or the loop is rendering, unless another
\* client has moved the phase.
LEMMA AnswerExpected ==
    ASSUME SequenceInv, NEW event \in Events, Answers(event), ~meddled
    PROVE  /\ managed
           /\ event = "render_start" => phase = "render" /\ unanswered = <<"render_start">>
           /\ event = "manage_start" /\ phase = "manage" => unanswered = <<"manage_start">>
           /\ event = "manage_start" /\ phase # "manage" => inherited
<1>1. managed /\ unanswered # <<>> /\ Head(unanswered) = event
  BY DEF Answers
<1>2. CASE unanswered = Expected
  BY <1>1, <1>2, Queues DEF Expected, Events, SequenceInv, SequenceTypeOK, Phases
<1>3. CASE inherited /\ phase = "render" /\ unanswered = <<"manage_start", "render_start">>
  BY <1>1, <1>3, Queues DEF Events
<1> QED  BY <1>1, <1>2, <1>3 DEF SequenceInv, OwesWhatItWasSent

LEMMA SequenceInitially == SequenceInit => SequenceInv
<1> SUFFICES ASSUME SequenceInit PROVE SequenceInv
  OBVIOUS
<1>1. SequenceTypeOK
  BY EventSeqs DEF SequenceInit, SequenceTypeOK, Phases
<1> QED
  BY <1>1 DEF SequenceInit, SequenceInv, NoLostWakeup, OwesWhatItWasSent, CohortIsOwned, Expected

\* Whatever the manager answers, what it still owes is a sequence of events.
LEMMA LeftIsSeq ==
    ASSUME SequenceInv, NEW event, Answers(event)
    PROVE  managed /\ Tail(unanswered) \in Seq(Events)
<1>1. managed /\ unanswered # <<>> /\ unanswered \in Seq(Events)
  BY EventSeqs DEF Answers, SequenceInv, SequenceTypeOK
<1> QED  BY <1>1, HeadTailProperties

\* A manager that goes, of itself or for an answer out of order, leaves a resting loop.
LEMMA ForgetInv ==
    ASSUME SequenceInv, ForgetManager, UNCHANGED <<dirty, idle, windowVars>>
    PROVE  SequenceInv'
<1>1. SequenceTypeOK'
  BY EventSeqs DEF SequenceInv, SequenceTypeOK, ForgetManager, windowVars, managerPast, Phases
<1> QED
  BY <1>1 DEF SequenceInv, SequenceTypeOK, ForgetManager, windowVars, managerPast, NoLostWakeup, OwesWhatItWasSent,
              CohortIsOwned, Expected

\* A manager that comes is told of the state before any change.
LEMMA ConnectInv == ASSUME SequenceInv, Connect PROVE SequenceInv'
<1>1. SequenceTypeOK'
  BY DEF SequenceInv, SequenceTypeOK, Connect, ScheduleSequence, windowVars, managerPast, Phases
<1> QED
  BY <1>1 DEF SequenceInv, SequenceTypeOK, Connect, ScheduleSequence, windowVars, managerPast, NoLostWakeup,
              OwesWhatItWasSent, CohortIsOwned, Expected

\* Changes outside the windows, and new windows, schedule a sequence or wait for the
\* running one to end.
LEMMA ChangeInv ==
    ASSUME SequenceInv, StateChanges \/ \E w \in Windows : MapWindow(w)
    PROVE  SequenceInv'
<1>1. SequenceTypeOK'
  <2>1. /\ dirty' = TRUE /\ idle' = (idle \/ (managed /\ phase = "idle"))
        /\ open \subseteq open' /\ open' \subseteq Windows
        /\ UNCHANGED <<managed, phase, cohort, members, parked, held, stranded, unanswered, inherited, meddled>>
    BY DEF SequenceInv, SequenceTypeOK, StateChanges, MapWindow, ScheduleSequence, windowVars, managerPast
  <2> QED  BY <2>1 DEF SequenceInv, SequenceTypeOK
<1> QED
  BY <1>1 DEF SequenceInv, SequenceTypeOK, StateChanges, MapWindow, ScheduleSequence, windowVars, managerPast, NoLostWakeup,
              OwesWhatItWasSent, CohortIsOwned, Expected

\* The idle callback starts a sequence only from rest.
LEMMA HandleIdleInv == ASSUME SequenceInv, HandleIdle PROVE SequenceInv'
<1>1. CASE managed /\ phase = "idle"
  <2>0. unanswered' \in Seq(Events)
    <3>1. unanswered \in Seq(Events) /\ "manage_start" \in Events
      BY EventSeqs DEF SequenceInv, SequenceTypeOK, Events
    <3>2. Append(unanswered, "manage_start") \in Seq(Events)
      BY <3>1, AppendProperties
    <3> QED  BY <1>1, <3>2 DEF HandleIdle, BeginManage
  <2>1. ~meddled => unanswered = <<>> /\ unanswered' = <<"manage_start">>
    BY <1>1, Queues DEF SequenceInv, OwesWhatItWasSent, Expected, HandleIdle, BeginManage, Events
  <2>2. SequenceTypeOK'
    BY <1>1, <2>0, EventSeqs DEF SequenceInv, SequenceTypeOK, HandleIdle, BeginManage, windowVars, managerPast, Phases
  <2> QED
    BY <1>1, <2>1, <2>2 DEF SequenceInv, HandleIdle, BeginManage, windowVars, managerPast, NoLostWakeup, OwesWhatItWasSent,
                            CohortIsOwned, Expected
<1>2. CASE ~(managed /\ phase = "idle")
  <2>1. SequenceTypeOK'
    BY <1>2 DEF SequenceInv, SequenceTypeOK, HandleIdle, BeginManage, windowVars, managerPast
  <2> QED
    BY <1>2, <2>1 DEF SequenceInv, HandleIdle, BeginManage, windowVars, managerPast, NoLostWakeup, OwesWhatItWasSent,
                      CohortIsOwned, Expected
<1> QED  BY <1>1, <1>2

\* What the completion of a waiting cohort does to the loop, whatever phase it is in.
LEMMA CompletionEffect ==
    ASSUME SequenceInv, cohort = "waiting", UNCHANGED <<managed, managerPast>>,
           NEW these, CompleteCohort(these)
    PROVE  /\ OwesWhatItWasSent'
           /\ CohortIsOwned'
           /\ phase' = IF managed THEN "render" ELSE "idle"
           /\ unanswered' \in Seq(Events)
           /\ ~managed => unanswered' = <<>>
<1>1. CASE managed /\ ~meddled
  <2>1. /\ phase # "render"
        /\ phase = "manage" => inherited
        /\ unanswered = Expected
    BY <1>1 DEF SequenceInv, CohortIsOwned, OwesWhatItWasSent
  <2>2. \/ unanswered = <<>>
        \/ phase = "manage" /\ inherited /\ unanswered = <<"manage_start">>
    BY <2>1 DEF Expected
  <2>3. \/ unanswered' = <<"render_start">>
        \/ inherited /\ unanswered' = <<"manage_start", "render_start">>
    BY <1>1, <2>2, Queues DEF CompleteCohort, BeginRender, Events
  <2> QED
    BY <1>1, <2>3 DEF CompleteCohort, BeginRender, OwesWhatItWasSent, CohortIsOwned, Expected,
                      Events, managerPast
<1>2. CASE ~managed
  BY <1>2 DEF CompleteCohort, BeginRender, OwesWhatItWasSent, CohortIsOwned, Expected,
              SequenceInv, SequenceTypeOK, Events, managerPast
<1>3. CASE managed /\ meddled
  <2>1. unanswered \in Seq(Events) /\ "render_start" \in Events
    BY EventSeqs DEF SequenceInv, SequenceTypeOK, Events
  <2>2. Append(unanswered, "render_start") \in Seq(Events)
    BY <2>1, AppendProperties
  <2> QED
    BY <1>3, <2>2 DEF CompleteCohort, BeginRender, OwesWhatItWasSent, CohortIsOwned, managerPast
<1> QED  BY <1>1, <1>2, <1>3

\* The cohort's own completion.
LEMMA CompletesInv == ASSUME SequenceInv, CohortCompletes PROVE SequenceInv'
<1>1. /\ OwesWhatItWasSent'
      /\ CohortIsOwned'
      /\ phase' = IF managed THEN "render" ELSE "idle"
      /\ unanswered' \in Seq(Events)
      /\ ~managed => unanswered' = <<>>
  BY CompletionEffect DEF CohortCompletes
<1>2. SequenceTypeOK'
  BY <1>1 DEF SequenceInv, SequenceTypeOK, CohortCompletes, CompleteCohort, Phases, Events, managerPast
<1> QED
  BY <1>1, <1>2 DEF SequenceInv, CohortCompletes, CompleteCohort, NoLostWakeup

\* A window that closes, and the completion it may cause.
LEMMA CloseInv ==
    ASSUME SequenceInv, NEW w \in Windows, NEW lastOwed \in BOOLEAN, CloseWindow(w, lastOwed)
    PROVE  SequenceInv'
<1>1. /\ UNCHANGED <<managed, managerPast>>
      /\ open' = open \ {w}
      /\ held' \subseteq Windows /\ stranded' \subseteq Windows
      /\ dirty' = TRUE
      /\ idle' = (idle \/ (managed /\ phase' = "idle"))
  BY DEF CloseWindow, ScheduleSequence, SequenceInv, SequenceTypeOK
<1>2. NoLostWakeup'
  BY <1>1 DEF NoLostWakeup
<1>3. CASE w \in members /\ CompleteCohort(members \ {w}) /\ cohort = "waiting"
  <2>1. /\ OwesWhatItWasSent'
        /\ CohortIsOwned'
        /\ phase' = IF managed THEN "render" ELSE "idle"
        /\ unanswered' \in Seq(Events)
        /\ ~managed => unanswered' = <<>>
    BY <1>1, <1>3, CompletionEffect
  <2>2. SequenceTypeOK'
    BY <1>1, <1>3, <2>1 DEF SequenceInv, SequenceTypeOK, CompleteCohort, Phases, Events, managerPast
  <2> QED  BY <1>2, <2>1, <2>2 DEF SequenceInv
<1>4. CASE /\ members' = members \ {w}
           /\ parked' = parked \ {w}
           /\ UNCHANGED <<cohort, phase, unanswered>>
  <2>1. SequenceTypeOK'
    BY <1>1, <1>4 DEF SequenceInv, SequenceTypeOK, managerPast
  <2> QED
    BY <1>1, <1>2, <1>4, <2>1 DEF SequenceInv, OwesWhatItWasSent, CohortIsOwned, Expected, managerPast
<1> QED  BY <1>3, <1>4 DEF CloseWindow, SequenceInv, SequenceTypeOK, CohortIsOwned

\* The end of a manage sequence, whoever asks for it: one case per way its cohort
\* can go.
LEMMA SettleInv ==
    ASSUME SequenceInv, managed, phase = "manage",
           NEW allocated \in Allocations, NEW enrolled \in SUBSET Windows, enrolled \subseteq open,
           NEW awaited \in BOOLEAN, NEW left \in Seq(Events),
           SettleCohort(left, allocated, enrolled, awaited),
           UNCHANGED <<managed, dirty, idle, open, inherited>>,
           meddled' \in BOOLEAN, ~meddled' => left = <<>>
    PROVE  SequenceInv'
<1>1. "render_start" \in Events /\ Append(left, "render_start") \in Seq(Events)
  BY AppendProperties DEF Events
<1>2. \/ phase' = "settle" /\ unanswered' = left
      \/ /\ phase' = "render"
         /\ unanswered' = Append(left, "render_start")
         /\ cohort = "none" /\ cohort' = "none"
  BY DEF SettleCohort, SequenceInv, SequenceTypeOK
<1>3. /\ members' \subseteq open' /\ parked' \subseteq open'
      /\ held' \subseteq Windows /\ stranded' \subseteq Windows
      /\ cohort' \in {"none", "waiting"}
      /\ cohort' = "none" => members' = {}
  BY DEF SettleCohort, PresentAndHold, SequenceInv, SequenceTypeOK, CohortIsOwned
<1>4. SequenceTypeOK'
  BY <1>1, <1>2, <1>3, EventSeqs DEF SequenceInv, SequenceTypeOK, Phases
<1>5. OwesWhatItWasSent'
  <2>1. CASE ~meddled'
    <3>1. left = <<>> /\ Append(left, "render_start") = <<"render_start">>
      BY <1>1, <2>1, Queues
    <3> QED  BY <1>2, <3>1 DEF OwesWhatItWasSent, Expected
  <2>2. CASE meddled'
    BY <2>2 DEF OwesWhatItWasSent
  <2> QED  BY <2>1, <2>2
<1> QED
  BY <1>2, <1>3, <1>4, <1>5 DEF SequenceInv, NoLostWakeup, CohortIsOwned

\* manage_finish of the manager
LEMMA ManageFinishInv ==
    ASSUME SequenceInv, NEW allocated \in Allocations, NEW enrolled \in SUBSET Windows,
           NEW awaited \in BOOLEAN, ManageFinish(allocated, enrolled, awaited)
    PROVE  SequenceInv'
<1>0. Answers("manage_start") /\ "manage_start" \in Events /\ enrolled \subseteq open
  BY DEF ManageFinish, Events
<1>1. CASE phase # "manage"
  <2>1. Reject
    BY <1>1 DEF ManageFinish
  <2> QED  BY <2>1, ForgetInv DEF Reject
<1>2. CASE phase = "manage"
  <2>1. /\ SettleCohort(Tail(unanswered), allocated, enrolled, awaited)
        /\ UNCHANGED <<managed, dirty, idle, open, managerPast>>
    BY <1>2 DEF ManageFinish
  <2>2. managed /\ Tail(unanswered) \in Seq(Events)
    BY <1>0, LeftIsSeq
  <2>3. ~meddled => unanswered = <<"manage_start">> /\ Tail(unanswered) = <<>>
    BY <1>0, <1>2, AnswerExpected, Queues
  <2>4. UNCHANGED <<managed, dirty, idle, open, inherited, meddled>> /\ meddled' \in BOOLEAN
    BY <2>1 DEF managerPast, SequenceInv, SequenceTypeOK
  <2> QED
    BY <1>0, <1>2, <2>1, <2>2, <2>3, <2>4, SettleInv
<1> QED  BY <1>1, <1>2

\* The end of a render sequence, whoever asks for it: what became dirty meanwhile is
\* looked at.
LEMMA RestInv ==
    ASSUME SequenceInv, managed, phase = "render", NEW left \in Seq(Events), PresentAndRest(left),
           meddled' \in BOOLEAN, ~meddled' => left = <<>>
    PROVE  SequenceInv'
<1>1. /\ phase' = "idle"
      /\ parked' = {}
      /\ held' \subseteq Windows /\ stranded' \subseteq Windows
      /\ unanswered' = left
      /\ inherited' = FALSE
      /\ dirty' = dirty
      /\ idle' = (idle \/ dirty)
      /\ UNCHANGED <<managed, open, cohort, members>>
  BY DEF PresentAndRest, PresentAndHold, ScheduleSequence, SequenceInv, SequenceTypeOK
<1>2. SequenceTypeOK'
  BY <1>1, EventSeqs DEF SequenceInv, SequenceTypeOK, Phases
<1> QED
  BY <1>1, <1>2 DEF SequenceInv, NoLostWakeup, OwesWhatItWasSent, CohortIsOwned, Expected

\* render_finish of the manager: only a rendering loop is asked to.
LEMMA RenderFinishInv == ASSUME SequenceInv, RenderFinish PROVE SequenceInv'
<1>0. Answers("render_start") /\ "render_start" \in Events
  BY DEF RenderFinish, Events
<1>1. CASE phase # "render"
  <2>1. Reject
    BY <1>1 DEF RenderFinish
  <2> QED  BY <2>1, ForgetInv DEF Reject
<1>2. CASE phase = "render"
  <2>1. PresentAndRest(Tail(unanswered)) /\ UNCHANGED meddled
    BY <1>2 DEF RenderFinish
  <2>2. managed /\ Tail(unanswered) \in Seq(Events)
    BY <1>0, LeftIsSeq
  <2>3. ~meddled => Tail(unanswered) = <<>>
    BY <1>0, AnswerExpected, Queues
  <2>4. meddled \in BOOLEAN
    BY DEF SequenceInv, SequenceTypeOK
  <2> QED  BY <1>2, <2>1, <2>2, <2>3, <2>4, RestInv
<1> QED  BY <1>1, <1>2

\* Requests of a client that is not the manager leave every promise but those about
\* what the manager owes.
LEMMA MeddlingInv == ASSUME SequenceInv, Meddling PROVE SequenceInv'
<1>1. unanswered \in Seq(Events)
  BY EventSeqs DEF SequenceInv, SequenceTypeOK
<1>2. ASSUME NEW allocated \in Allocations, NEW enrolled \in SUBSET Windows, NEW awaited \in BOOLEAN,
             MeddleManage(allocated, enrolled, awaited)
      PROVE  SequenceInv'
  <2>1. /\ phase = "manage" /\ enrolled \subseteq open /\ meddled' = TRUE
        /\ SettleCohort(unanswered, allocated, enrolled, awaited)
        /\ UNCHANGED <<managed, dirty, idle, open, inherited>>
    BY <1>2 DEF MeddleManage
  <2>2. managed
    BY <2>1 DEF SequenceInv, SequenceTypeOK
  <2> QED  BY <1>1, <2>1, <2>2, SettleInv
<1>3. CASE MeddleRender
  <2>1. phase = "render" /\ PresentAndRest(unanswered) /\ meddled' = TRUE
    BY <1>3 DEF MeddleRender
  <2>2. managed
    BY <2>1 DEF SequenceInv, SequenceTypeOK
  <2> QED  BY <1>1, <2>1, <2>2, RestInv
<1> QED  BY <1>2, <1>3 DEF Meddling

LEMMA SequenceStep == SequenceInv /\ [SequenceNext]_sequenceVars => SequenceInv'
<1> SUFFICES ASSUME SequenceInv, [SequenceNext]_sequenceVars PROVE SequenceInv'
  OBVIOUS
<1>1. CASE Connect
  BY <1>1, ConnectInv
<1>2. CASE Disconnect
  BY <1>2, ForgetInv DEF Disconnect, SequenceInv, SequenceTypeOK
<1>3. CASE StateChanges \/ \E w \in Windows : MapWindow(w)
  BY <1>3, ChangeInv
<1>4. CASE HandleIdle
  BY <1>4, HandleIdleInv
<1>5. CASE \E w \in Windows, lastOwed \in BOOLEAN : CloseWindow(w, lastOwed)
  BY <1>5, CloseInv
<1>6. CASE Settling
  BY <1>6, ManageFinishInv DEF Settling
<1>7. CASE CohortCompletes
  BY <1>7, CompletesInv
<1>8. CASE RenderFinish
  BY <1>8, RenderFinishInv
<1>9. CASE UNCHANGED sequenceVars
  BY <1>9 DEF sequenceVars, windowVars, managerPast, SequenceInv, SequenceTypeOK, NoLostWakeup, OwesWhatItWasSent,
              CohortIsOwned, Expected
<1>10. CASE Meddling
  BY <1>10, MeddlingInv
<1> QED
  BY <1>1, <1>2, <1>3, <1>4, <1>5, <1>6, <1>7, <1>8, <1>9, <1>10 DEF SequenceNext

-----------------------------------------------------------------------------
\* The strengthened invariant, also when no transaction can be allocated.
THEOREM SequenceInvariance == SequenceSpec => []SequenceInv
  BY SequenceInitially, SequenceStep, PTL DEF SequenceSpec

\* Types, and a loop that rests while there is no manager.
THEOREM SequenceTypeCorrect == SequenceSpec => []SequenceTypeOK
<1>1. SequenceInv => SequenceTypeOK
  BY DEF SequenceInv
<1> QED  BY <1>1, SequenceInvariance, PTL

\* No change waits for another change to be told of (river_wm.c 2124-2137, 2192-2196).
THEOREM ChangesAreScheduled == SequenceSpec => []NoLostWakeup
<1>1. SequenceInv => NoLostWakeup
  BY DEF SequenceInv
<1> QED  BY <1>1, SequenceInvariance, PTL

\* Every step keeps a settling loop awaited, if transactions can be allocated.
LEMMA SettleStep ==
    ASSUME FALSE \notin Allocations, SequenceInv, SettleIsAwaited, [SequenceNext]_sequenceVars
    PROVE  SettleIsAwaited'
<1>1. CASE Connect \/ Disconnect \/ StateChanges \/ HandleIdle
  BY <1>1 DEF Connect, Disconnect, ForgetManager, StateChanges, HandleIdle, BeginManage, windowVars,
              SettleIsAwaited
<1>2. CASE \E w \in Windows : MapWindow(w)
  BY <1>2 DEF MapWindow, SettleIsAwaited
<1>3. CASE \E w \in Windows, lastOwed \in BOOLEAN : CloseWindow(w, lastOwed)
  BY <1>3 DEF CloseWindow, CompleteCohort, BeginRender, SettleIsAwaited
<1>4. CASE Settling
  BY <1>4, AllocationsAssumption
     DEF Settling, ManageFinish, SettleCohort, Reject, ForgetManager, SettleIsAwaited
<1>5. CASE CohortCompletes
  BY <1>5 DEF CohortCompletes, CompleteCohort, BeginRender, SettleIsAwaited
<1>6. CASE RenderFinish
  BY <1>6 DEF RenderFinish, PresentAndRest, Reject, ForgetManager, SettleIsAwaited
<1>7. CASE UNCHANGED sequenceVars
  BY <1>7 DEF sequenceVars, windowVars, SettleIsAwaited
<1>8. CASE Meddling
  BY <1>8, AllocationsAssumption
     DEF Meddling, MeddleManage, MeddleRender, SettleCohort, PresentAndRest, SettleIsAwaited
<1> QED
  BY <1>1, <1>2, <1>3, <1>4, <1>5, <1>6, <1>7, <1>8 DEF SequenceNext

\* A settling loop has a cohort that will call it back, as long as one could be
\* allocated (river_wm.c 2156-2175).
THEOREM SettlingIsAwaited ==
    ASSUME FALSE \notin Allocations
    PROVE  SequenceSpec => []SettleIsAwaited
<1>1. SequenceInit => SettleIsAwaited
  BY DEF SequenceInit, SettleIsAwaited
<1>2. SequenceInv /\ SettleIsAwaited /\ [SequenceNext]_sequenceVars => SettleIsAwaited'
  BY SettleStep
<1> QED  BY <1>1, <1>2, SequenceInvariance, PTL DEF SequenceSpec

-----------------------------------------------------------------------------
\* A manager the protocol's loop is promised to: one that inherited no cohort and for
\* whom nobody else has answered.
Served == managed /\ ~inherited /\ ~meddled

\* Each phase with what a served manager owes in it.
LEMMA ServedOwes == ASSUME SequenceInv, Served PROVE unanswered = Expected
  BY DEF SequenceInv, Served, OwesWhatItWasSent

\* The completion of a cohort is the start of the render sequence it was settled for,
\* or concerns no manager the loop is promised to.
LEMMA CompletionRefines ==
    ASSUME SequenceInv, cohort = "waiting", UNCHANGED <<managed, managerPast>>,
           NEW these, CompleteCohort(these)
    PROVE  [TheLoop!LoopNext]_(TheLoop!loopVars)
<1>1. CASE Served
  <2>1. phase = "settle" /\ unanswered = <<>>
    BY <1>1, ServedOwes DEF SequenceInv, CohortIsOwned, Served, Expected
  <2>2. phase' = "render" /\ unanswered' = <<"render_start">>
    BY <1>1, <2>1, Queues DEF CompleteCohort, BeginRender, Served, Events
  <2>3. TheLoop!StartRender
    BY <1>1, <2>1, <2>2 DEF TheLoop!StartRender, Served, managerPast
  <2> QED  BY <2>3 DEF TheLoop!LoopNext
<1>2. CASE ~Served
  BY <1>2 DEF TheLoop!loopVars, Served, managerPast
<1> QED  BY <1>1, <1>2

\* Every step is a step of the protocol's loop or one it does not show.
LEMMA LoopStep == SequenceInv /\ SequenceInv' /\ [SequenceNext]_sequenceVars => [TheLoop!LoopNext]_(TheLoop!loopVars)
<1> SUFFICES ASSUME SequenceInv, SequenceInv', [SequenceNext]_sequenceVars
             PROVE  [TheLoop!LoopNext]_(TheLoop!loopVars)
  OBVIOUS
<1> DEFINE Shown == TheLoop!loopVars
<1>1. CASE Connect
  BY <1>1 DEF Connect, SequenceInv, SequenceTypeOK, TheLoop!LoopNext, TheLoop!Appear, TheLoop!loopVars
<1>2. ASSUME ForgetManager, managed PROVE [TheLoop!LoopNext]_Shown
  BY <1>2 DEF ForgetManager, SequenceInv, SequenceTypeOK, Phases, TheLoop!LoopNext, TheLoop!Vanish,
              TheLoop!loopVars
<1>3. CASE StateChanges \/ \E w \in Windows : MapWindow(w)
  BY <1>3 DEF StateChanges, MapWindow, TheLoop!loopVars, managerPast
<1>4. CASE HandleIdle
  <2>1. CASE Served /\ phase = "idle"
    <3>1. unanswered = <<>> /\ unanswered' = <<"manage_start">> /\ phase' = "manage"
      BY <1>4, <2>1, ServedOwes, Queues DEF HandleIdle, BeginManage, Served, Expected, Events
    <3>2. TheLoop!StartManage
      BY <1>4, <2>1, <3>1 DEF HandleIdle, BeginManage, Served, TheLoop!StartManage, managerPast
    <3> QED  BY <3>2 DEF TheLoop!LoopNext
  <2>2. CASE ~(Served /\ phase = "idle")
    BY <1>4, <2>2 DEF HandleIdle, BeginManage, Served, TheLoop!loopVars, managerPast
  <2> QED  BY <2>1, <2>2
<1>5. ASSUME NEW w \in Windows, NEW lastOwed \in BOOLEAN, CloseWindow(w, lastOwed)
      PROVE  [TheLoop!LoopNext]_Shown
  <2>1. CASE w \in members /\ CompleteCohort(members \ {w})
    <3>1. cohort = "waiting"
      BY <2>1 DEF SequenceInv, SequenceTypeOK, CohortIsOwned
    <3> QED  BY <1>5, <2>1, <3>1, CompletionRefines DEF CloseWindow
  <2>2. CASE UNCHANGED <<managed, managerPast, phase, unanswered>>
    BY <2>2 DEF TheLoop!loopVars, managerPast
  <2> QED  BY <1>5, <2>1, <2>2 DEF CloseWindow
<1>6. ASSUME NEW allocated \in Allocations, NEW enrolled \in SUBSET Windows,
             NEW awaited \in BOOLEAN, ManageFinish(allocated, enrolled, awaited)
      PROVE  [TheLoop!LoopNext]_Shown
  <2>1. managed
    BY <1>6 DEF ManageFinish, Answers
  <2>2. CASE phase # "manage"
    BY <1>2, <1>6, <2>1, <2>2 DEF ManageFinish, Reject
  <2>3. CASE phase = "manage"
    <3>1. /\ UNCHANGED <<managed, managerPast>>
          /\ SettleCohort(Tail(unanswered), allocated, enrolled, awaited)
      BY <1>6, <2>3 DEF ManageFinish
    <3>2. CASE Served
      <4>1. unanswered = <<"manage_start">>
        BY <2>3, <3>2, ServedOwes DEF Expected
      <4>2. \/ phase' = "settle" /\ unanswered' = <<>>
            \/ phase' = "render" /\ unanswered' = <<"render_start">>
        BY <3>1, <4>1, Queues DEF SettleCohort, Events
      <4>3. TheLoop!FinishManage
        BY <2>3, <3>1, <3>2, <4>2 DEF Served, TheLoop!FinishManage, managerPast
      <4> QED  BY <4>3 DEF TheLoop!LoopNext
    <3>3. CASE ~Served
      BY <3>1, <3>3 DEF Served, TheLoop!loopVars, managerPast
    <3> QED  BY <3>2, <3>3
  <2> QED  BY <2>2, <2>3
<1>7. CASE CohortCompletes
  BY <1>7, CompletionRefines DEF CohortCompletes
<1>8. CASE RenderFinish
  <2>0. Answers("render_start") /\ "render_start" \in Events /\ managed
    BY <1>8 DEF RenderFinish, Answers, Events
  <2>1. CASE ~meddled
    <3>1. phase = "render" /\ unanswered = <<"render_start">>
      BY <2>0, <2>1, AnswerExpected
    <3>2. /\ phase' = "idle" /\ unanswered' = <<>>
          /\ managed' /\ inherited' = FALSE /\ ~meddled'
      BY <1>8, <2>0, <2>1, <3>1, Queues DEF RenderFinish, PresentAndRest
    <3>3. CASE Served
      <4>1. TheLoop!FinishRender
        BY <2>1, <3>1, <3>2, <3>3 DEF Served, TheLoop!FinishRender
      <4> QED  BY <4>1 DEF TheLoop!LoopNext
    <3>4. CASE ~Served
      <4>1. TheLoop!Appear
        BY <2>0, <2>1, <3>2, <3>4 DEF Served, TheLoop!Appear
      <4> QED  BY <4>1 DEF TheLoop!LoopNext
    <3> QED  BY <3>3, <3>4
  <2>2. CASE meddled /\ phase = "render"
    BY <1>8, <2>2 DEF RenderFinish, PresentAndRest, TheLoop!loopVars
  <2>3. CASE phase # "render"
    BY <1>2, <1>8, <2>0, <2>3 DEF RenderFinish, Reject
  <2> QED  BY <2>1, <2>2, <2>3
<1>9. CASE UNCHANGED sequenceVars
  BY <1>9 DEF sequenceVars, managerPast, TheLoop!loopVars
<1>10. CASE Disconnect
  BY <1>2, <1>10 DEF Disconnect
<1>11. CASE Meddling
  <2>1. meddled' /\ managed' = managed
    BY <1>11 DEF Meddling, MeddleManage, MeddleRender, PresentAndRest
  <2>2. managed
    BY <1>11 DEF Meddling, MeddleManage, MeddleRender, SequenceInv, SequenceTypeOK
  <2>3. CASE Served
    <3>1. phase \in Phases \ {"idle"}
      BY <1>11 DEF Meddling, MeddleManage, MeddleRender, Phases
    <3>2. TheLoop!Vanish
      BY <2>1, <2>2, <2>3, <3>1 DEF Served, TheLoop!Vanish, Phases
    <3> QED  BY <3>2 DEF TheLoop!LoopNext
  <2>4. CASE ~Served
    <3>1. inherited' \/ meddled'
      BY <2>1
    <3> QED  BY <2>1, <2>4 DEF Served, TheLoop!loopVars
  <2> QED  BY <2>3, <2>4
<1> QED
  BY <1>1, <1>3, <1>4, <1>5, <1>6, <1>7, <1>8, <1>9, <1>10, <1>11 DEF SequenceNext, Settling

\* A manager that inherits no waiting cohort sees the loop of the protocol, and each
\* of its answers is accepted, for any windows and even if allocations fail, until a
\* client that was told "unavailable" makes a request the phase allows.
THEOREM RefinesLoop == SequenceSpec => ImplementsLoop
<1>1. SequenceInit => TheLoop!LoopInit
  BY DEF SequenceInit, TheLoop!LoopInit
<1> QED
  BY <1>1, SequenceInvariance, LoopStep, PTL DEF SequenceSpec, ImplementsLoop, TheLoop!LoopSpec
=============================================================================
