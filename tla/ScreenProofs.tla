---------------------------- MODULE ScreenProofs ----------------------------
(***************************************************************************)
(* Two arguments about screens, for any number of them.                    *)
(*                                                                         *)
(* Repaint: no damage is forgotten and no repaint is missed, however VT    *)
(* switches, flips and requests interleave.  DamageIsKept and              *)
(* StaleIsScheduled need each other: damage on a screen that is not        *)
(* scheduled would be cleared with the rest.  A screen waits exactly while *)
(* a frame is on its way to it: a matter of counting callbacks in the      *)
(* queue of the event loop.                                                *)
(*                                                                         *)
(* Outputs: everybody is told the same layout, and the area for windows is *)
(* what today's zones leave.  Each call is followed from the record of the *)
(* state it finds to the one it leaves; the loop that moves one screen     *)
(* after the other, by a least round that goes wrong.                      *)
(***************************************************************************)
EXTENDS Repaint, Outputs, FiniteSetTheorems, WellFoundedInduction, TLAPS


\* The idle callbacks form a sequence, of whatever.
Queue(q) == q \in Seq(Range(q))

\* The parts of the type invariant the argument rests on.
Shapes ==
    /\ screens \in [View -> SUBSET Screen]
    /\ scheduled \subseteq Screen
    /\ surfDamage \subseteq View
    /\ stale \subseteq Cell
    /\ Queue(idles)

\* What a release will attach is still damaged, or known to be lost.
ReplayIsDamaged == replay \subseteq surfDamage \union eaten

IInv ==
    /\ Shapes
    /\ ReplayIsDamaged
    /\ DamageIsKept
    /\ active => StaleIsScheduled /\ FrameComes

\* What is scheduled while the session is inactive, was begun then.
Asleep ==
    /\ dormant \in {"no", "begun", "missed"}
    /\ ~active /\ scheduled # {} => dormant # "no"
QInv == Asleep /\ (dormant = "missed" \/ RepaintComes)

-----------------------------------------------------------------------------
(* Sequences.                                                              *)

LEMMA QueueIntro ==
    ASSUME NEW S, NEW q \in Seq(S) PROVE Queue(q)
  <1>1. q \in [1 .. Len(q) -> Range(q)] /\ Len(q) \in Nat
    BY DEF Range
  <1> QED BY <1>1 DEF Queue

LEMMA QueueTail ==
    ASSUME NEW q, Queue(q), q # <<>> PROVE Queue(Tail(q))
  <1>1. Tail(q) \in Seq(Range(q)) BY DEF Queue
  <1> QED BY <1>1, QueueIntro

LEMMA QueueAppend ==
    ASSUME NEW q, Queue(q), NEW x
    PROVE  Queue(Append(q, x)) /\ x \in Range(Append(q, x))
  <1> DEFINE S == Range(q) \union {x}
  <1>1. q \in Seq(S) BY DEF Queue
  <1>2. Append(q, x) \in Seq(S) BY <1>1
  <1>3. Queue(Append(q, x)) BY <1>2, QueueIntro
  <1>4. /\ Len(q) + 1 \in DOMAIN Append(q, x)
        /\ Append(q, x)[Len(q) + 1] = x
    BY <1>1
  <1> QED BY <1>3, <1>4 DEF Range

LEMMA QueueConcat ==
    ASSUME NEW q, Queue(q), NEW r, Queue(r) PROVE Queue(q \o r)
  <1> DEFINE S == Range(q) \union Range(r)
  <1>1. q \in Seq(S) /\ r \in Seq(S) BY DEF Queue
  <1>2. q \o r \in Seq(S) BY <1>1
  <1> QED BY <1>2, QueueIntro

LEMMA QueueInOrder ==
    ASSUME NEW ss \in SUBSET Screen PROVE Queue(InOrder(ss))
  <1>1. Cardinality(ss) \in Nat
    <2>1. IsFiniteSet(Screen) BY RepaintAssumption, FS_Interval DEF Screen
    <2>2. IsFiniteSet(ss) BY <2>1, FS_Subset
    <2> QED BY <2>2, FS_CardinalityType
  <1> DEFINE S == Range(InOrder(ss))
  <1>2. InOrder(ss) \in [1 .. Cardinality(ss) -> S]
    BY DEF InOrder, Range
  <1>3. InOrder(ss) \in Seq(S) BY <1>1, <1>2
  <1> QED BY <1>3, QueueIntro

-----------------------------------------------------------------------------
(* An update.                                                              *)

\* What the caller of perform_update owes: its frame leaves no client waiting
\* for a screen that is neither scheduled nor waiting for a flip.
Awaited(waiting) ==
    active => \A v \in (wants' \intersect Visible) \ replay :
                 screens[v] \intersect (scheduled \union waiting) # {}

\* The screens before the one refused are repainted, and the damage of no other
\* is forgotten, except with those that are passed by.
LEMMA RepaintedKeeps ==
    ASSUME IInv, active, NEW waiting, NEW flying, NEW queue, Queue(queue),
           NEW refused \in Refusals(Updates(waiting)),
           Repainted(Updates(waiting), refused, waiting, flying, queue),
           UNCHANGED <<screens, hold>>, Awaited(waiting)
    PROVE  IInv' /\ (active' => scheduled' \subseteq pending')
  <1> DEFINE updates == Updates(waiting)
             painted == surfDamage \intersect Visible
             damage  == compDamage \union UNION {Cells(v) : v \in painted}
             offered == Offered(damage, updates, refused)
             shown   == {s \in updates : s < refused}
             fresh   == {c \in offered : c[1] \in shown}
             passed  == {c \in (damage \intersect stale) \ backlog : c[1] > refused}
  <1>1. /\ surfDamage' = surfDamage \ painted
        /\ eaten' = eaten \union (painted \intersect replay)
        /\ compDamage' = {}
        /\ backlog' = offered \ fresh
        /\ stale' = stale \ fresh
        /\ dropped' = (dropped \ fresh) \union passed
        /\ pending' = waiting \union shown
        /\ SwapBuffers(shown, flying, queue)
        /\ active' = (refused > N)
        /\ scheduled' = IF refused > N THEN scheduled \ updates ELSE {}
    BY DEF Repainted
  <1>2. /\ updates = scheduled \ waiting
        /\ updates \subseteq Screen
        /\ shown \subseteq Screen
        /\ offered = backlog \union {c \in damage : c[1] \in scheduled /\ c[1] <= refused}
    BY DEF Updates, Offered, IInv, Shapes
  <1>3. refused \in Int /\ N \in Int /\ Screen \subseteq Int
    BY <1>2, RepaintAssumption DEF Refusals, Screen
  <1>4. Visible' = Visible /\ \A v \in View : Cells(v)' = Cells(v)
    BY DEF Visible, Cells
  <1>5. Shapes'
    <2>1. Queue(idles')
      <3>1. shown \intersect needModeset \in SUBSET Screen BY <1>2
      <3>2. idles' = queue \o InOrder(shown \intersect needModeset)
        BY <1>1 DEF SwapBuffers
      <3> QED BY <3>1, <3>2, QueueInOrder, QueueConcat
    <2>2. Queue(idles)' BY <2>1 DEF Queue
    <2> QED BY <1>1, <2>2 DEF IInv, Shapes
  <1>6. ReplayIsDamaged'
    BY <1>1 DEF IInv, ReplayIsDamaged, hold
  <1>7. ASSUME NEW c \in stale \ dropped
        PROVE  /\ c \in damage \union backlog
               /\ c[1] \in scheduled
               /\ c[1] \in Screen
    <2>1. c \in compDamage \union backlog \union UNION {Cells(v) : v \in surfDamage}
      BY DEF IInv, DamageIsKept, Kept, Recorded
    <2>2. ASSUME NEW v \in surfDamage, c \in Cells(v) PROVE c \in damage
      BY <2>2 DEF Cells, Visible, IInv, Shapes
    <2> QED BY <2>1, <2>2 DEF IInv, StaleIsScheduled, Shapes, Cell
  <1>8. DamageIsKept'
    <2> SUFFICES ASSUME NEW c \in stale' \ dropped' PROVE c \in backlog'
      BY DEF DamageIsKept, Kept, Recorded
    <2>1. c \in stale \ dropped BY <1>1
    <2>2. c[1] <= refused \/ c \in backlog
      <3>1. c \notin passed BY <1>1
      <3>2. c \in damage \union backlog /\ c[1] \in Int BY <2>1, <1>3, <1>7
      <3> QED BY <2>1, <3>1, <3>2, <1>3
    <2> QED BY <2>1, <2>2, <1>1, <1>2, <1>7
  <1>9. ASSUME refused > N PROVE StaleIsScheduled'
    <2> SUFFICES ASSUME NEW c \in stale' \ dropped' PROVE c[1] \notin updates
      BY <1>1, <1>7, <1>9 DEF StaleIsScheduled
    <2>1. c \in stale \ dropped BY <1>1
    <2>2. c[1] \in scheduled /\ c[1] <= refused /\ c[1] < refused
      BY <2>1, <1>7, <1>3, <1>9, RepaintAssumption DEF Screen
    <2>3. c \in offered BY <2>1, <2>2, <1>7, <1>2
    <2> QED BY <2>2, <2>3, <1>1
  <1>10. ASSUME refused > N
         PROVE  scheduled' \union pending' = scheduled \union waiting /\ scheduled' \subseteq waiting
    <2>1. shown = updates
      BY <1>2, <1>3, <1>10, RepaintAssumption DEF Screen
    <2> QED BY <2>1, <1>1, <1>2, <1>10
  <1>11. ASSUME refused > N PROVE FrameComes'
    BY <1>4, <1>10, <1>11 DEF FrameComes, Awaited, hold
  <1> QED BY <1>1, <1>5, <1>6, <1>8, <1>9, <1>10, <1>11 DEF IInv

\* If the repaint of what is scheduled was due, or is known to be missed, it still is.
Served == QInv => QInv'

LEMMA PerformUpdateKeeps ==
    ASSUME IInv, NEW waiting, NEW flying, NEW queue, Queue(queue),
           PerformUpdate(waiting, flying, queue),
           UNCHANGED <<screens, hold>>, Awaited(waiting)
    PROVE  IInv' /\ Served
  <1>1. CASE active /\ \E refused \in Refusals(Updates(waiting)) :
                Repainted(Updates(waiting), refused, waiting, flying, queue)
    <2>1. IInv' /\ (active' => scheduled' \subseteq pending')
      BY <1>1, RepaintedKeeps
    <2>2. Asleep' /\ (active' \/ scheduled' = {}) BY <1>1 DEF Repainted, Asleep
    <2>3. RepaintComes' BY <2>1, <2>2 DEF RepaintComes
    <2> QED BY <2>1, <2>2, <2>3 DEF Served, QInv
  <1>2. CASE /\ ~active \/ Updates(waiting) = {}
             /\ pending' = waiting
             /\ idles' = queue
             /\ dormant' = IF ~active /\ dormant = "begun" /\ waiting = {} THEN "missed"
                                                                          ELSE dormant
             /\ UNCHANGED <<active, surfDamage, compDamage, backlog,
                            scheduled, stale, eaten, dropped>>
    <2>1. Shapes' BY <1>2 DEF IInv, Shapes, Queue
    <2>2. ReplayIsDamaged' /\ DamageIsKept'
      BY <1>2 DEF IInv, ReplayIsDamaged, DamageIsKept, Kept, Recorded, Cells, hold
    <2>3. active => StaleIsScheduled' /\ FrameComes'
      BY <1>2 DEF IInv, StaleIsScheduled, FrameComes, Awaited, Visible, hold
    <2>4. active => scheduled' \subseteq pending'
      BY <1>2 DEF Updates
    <2>5. ASSUME QInv PROVE QInv'
      <3>1. Asleep' BY <1>2, <2>5 DEF QInv, Asleep
      <3>2. CASE active \/ scheduled = {} \/ waiting # {}
        BY <1>2, <2>4, <3>1, <3>2 DEF RepaintComes, QInv
      <3>3. CASE ~active /\ scheduled # {} /\ waiting = {}
        BY <1>2, <2>5, <3>1, <3>3 DEF QInv, Asleep
      <3> QED BY <3>2, <3>3
    <2> QED BY <1>2, <2>1, <2>2, <2>3, <2>5 DEF IInv, Served
  <1> QED BY <1>1, <1>2 DEF PerformUpdate

\* After a frame, the views that still wait are on other screens.
LEMMA ScreenFrameKeeps ==
    ASSUME IInv, NEW s, NEW flying, NEW queue, Queue(queue),
           ScreenFrame(s, flying, queue), UNCHANGED <<screens, hold>>
    PROVE  IInv' /\ Served
  <1>1. Awaited(pending \ {s})
    BY DEF ScreenFrame, TellFrame, Awaited, IInv, FrameComes, Visible, hold
  <1> QED BY <1>1, PerformUpdateKeeps DEF ScreenFrame

-----------------------------------------------------------------------------
(* Scheduling and requests.                                                *)

LEMMA ScheduleComes ==
    ASSUME Queue(idles), NEW ss, Schedule(ss), pending' = pending
    PROVE  Queue(idles)' /\ (RepaintComes => RepaintComes')
  <1>1. CASE scheduled = {}
    <2>1. idles' = Append(idles, Update) BY <1>1 DEF Schedule
    <2>2. Queue(idles') /\ Update \in Range(idles') BY <2>1, QueueAppend
    <2> QED BY <2>2 DEF RepaintComes, Queue
  <1>2. CASE scheduled # {}
    BY <1>2 DEF Schedule, RepaintComes, Queue
  <1> QED BY <1>1, <1>2

\* A request knows whether the session is inactive.
Noticed == dormant' = IF ~active /\ scheduled = {} /\ scheduled' # {} THEN "begun" ELSE dormant

LEMMA ScheduleKeeps ==
    ASSUME Queue(idles), NEW ss, Schedule(ss), Noticed, UNCHANGED <<active, pending>>
    PROVE  Queue(idles)' /\ (QInv => QInv')
  <1>1. Queue(idles)' /\ (RepaintComes => RepaintComes')
    BY ScheduleComes
  <1>2. scheduled = {} => RepaintComes  BY DEF RepaintComes
  <1> QED BY <1>1, <1>2 DEF QInv, Asleep, Noticed, Schedule

LEMMA UpdateViewComes ==
    ASSUME Queue(idles), NEW ss, UpdateView(ss), Noticed, UNCHANGED <<active, pending>>
    PROVE  /\ Queue(idles)'
           /\ scheduled \subseteq scheduled'
           /\ scheduled' \subseteq scheduled \union ss
           /\ active => ss \subseteq scheduled'
           /\ QInv => QInv'
  <1>1. CASE active /\ ss # {}
    BY <1>1, ScheduleKeeps DEF UpdateView, Schedule
  <1>2. CASE ~(active /\ ss # {})
    BY <1>2 DEF UpdateView, QInv, Asleep, RepaintComes, Queue, Noticed
  <1> QED BY <1>1, <1>2

\* A request that damages every cell it makes stale, and schedules the screens
\* of those cells and of every view that comes to lie elsewhere.
LEMMA DamagedRequestKeeps ==
    ASSUME IInv, NEW cells \in SUBSET Cell, NEW ss \in SUBSET Screen,
           Damage(cells), stale' \subseteq stale \union cells, stale \subseteq stale',
           screens' \in [View -> SUBSET Screen],
           \A v \in View : Cells(v) \subseteq Cells(v)' \union cells,
           \A v \in View : screens'[v] = screens[v] \/ screens'[v] \subseteq ss,
           Queue(idles)', scheduled \subseteq scheduled',
           scheduled' \subseteq scheduled \union ss,
           active => ss \subseteq scheduled' /\ \A c \in cells : c[1] \in ss,
           UNCHANGED <<active, surfDamage, wants, hold, eaten, backlog, pending>>
    PROVE  IInv'
  <1>1. Shapes'
    BY DEF IInv, Shapes
  <1>2. ReplayIsDamaged'
    BY DEF IInv, ReplayIsDamaged, hold
  <1>3. DamageIsKept'
    <2> SUFFICES ASSUME NEW c \in stale' \ dropped'
                 PROVE  c \in Kept'
      BY DEF DamageIsKept
    <2>1. CASE c \in cells BY <2>1 DEF Damage, Kept, Recorded
    <2>2. CASE c \notin cells
      <3>1. c \in stale \ dropped BY <2>2 DEF Damage
      <3>2. c \in Recorded \union UNION {Cells(v) : v \in surfDamage}
        BY <3>1 DEF IInv, DamageIsKept, Kept
      <3>3. CASE c \in Recorded BY <3>3 DEF Recorded, Kept, Damage
      <3>4. ASSUME NEW v \in surfDamage, c \in Cells(v) PROVE c \in Cells(v)'
        BY <2>2, <3>4 DEF IInv, Shapes
      <3> QED BY <3>2, <3>3, <3>4 DEF Kept
    <2> QED BY <2>1, <2>2
  <1>4. active => StaleIsScheduled'
    BY DEF IInv, StaleIsScheduled, Damage
  <1>5. active => FrameComes'
    <2> SUFFICES ASSUME active, NEW v \in (wants \intersect Visible') \ replay
                 PROVE  screens'[v] \intersect (scheduled' \union pending) # {}
      BY DEF FrameComes, hold
    <2>1. v \in View /\ screens'[v] # {} BY DEF Visible
    <2>2. CASE screens'[v] = screens[v]
      BY <2>1, <2>2 DEF IInv, FrameComes, Visible
    <2>3. CASE screens'[v] \subseteq ss BY <2>1, <2>3
    <2> QED BY <2>1, <2>2, <2>3
  <1> QED BY <1>1, <1>2, <1>3, <1>4, <1>5 DEF IInv

LEMMA CommitKeeps ==
    ASSUME IInv, NEW v \in View, Commit(v) PROVE IInv' /\ (QInv => QInv')
  <1>1. CASE v \in held
    <2>1. Shapes' BY <1>1 DEF Commit, Attach, IInv, Shapes, Queue
    <2>2. ReplayIsDamaged' /\ DamageIsKept'
      BY <1>1 DEF Commit, Attach, Requested, IInv, ReplayIsDamaged, DamageIsKept, Kept,
                  Recorded, Cells
    <2>3. active => StaleIsScheduled' /\ FrameComes'
      BY <1>1 DEF Commit, Attach, Requested, IInv, StaleIsScheduled, FrameComes, Visible
    <2> QED BY <1>1, <2>1, <2>2, <2>3
            DEF Commit, Requested, IInv, QInv, Asleep, RepaintComes
  <1>2. CASE v \notin held
    <2>1. /\ UpdateView(screens[v]) /\ Noticed
          /\ UNCHANGED <<active, pending, screens, backlog, compDamage, replay>>
          /\ screens[v] \subseteq Screen
      BY <1>2 DEF Commit, Attach, Requested, IInv, Shapes, Noticed
    <2>2. /\ Queue(idles)'
          /\ scheduled \subseteq scheduled'
          /\ scheduled' \subseteq Screen
          /\ active => screens[v] \subseteq scheduled'
          /\ QInv => QInv'
      BY <2>1, UpdateViewComes DEF IInv, Shapes
    <2>3. Cells(v) \subseteq Cell /\ \A w \in View : Cells(w)' = Cells(w)
      BY <2>1 DEF Cells, Cell
    <2>4. Shapes'
      BY <1>2, <2>1, <2>2, <2>3 DEF Commit, Attach, IInv, Shapes
    <2>5. ReplayIsDamaged' /\ DamageIsKept'
      BY <1>2, <2>1, <2>3
      DEF Commit, Attach, IInv, Shapes, ReplayIsDamaged, DamageIsKept, Kept, Recorded
    <2>6. active => StaleIsScheduled'
      BY <1>2, <2>2 DEF Commit, Attach, IInv, StaleIsScheduled, Cells
    <2>7. active => FrameComes'
      BY <1>2, <2>1, <2>2 DEF Commit, Attach, IInv, FrameComes, Visible
    <2> QED BY <2>1, <2>2, <2>4, <2>5, <2>6, <2>7 DEF IInv
  <1> QED BY <1>1, <1>2

LEMMA ReleaseKeeps ==
    ASSUME IInv, NEW v \in View, Release(v) PROVE IInv' /\ (QInv => QInv')
  <1>1. /\ UNCHANGED <<active, pending, screens, backlog, compDamage, surfDamage, wants>>
        /\ Noticed
    BY DEF Release, Attach, Requested, Noticed
  <1>2. CASE v \notin replay
    <2>1. replay' = replay /\ UNCHANGED <<scheduled, idles, stale, dropped>>
      BY <1>2 DEF Release, Attach
    <2>2. ReplayIsDamaged' /\ DamageIsKept'
      BY <1>1, <1>2, <2>1
      DEF Release, Attach, IInv, ReplayIsDamaged, DamageIsKept, Kept, Recorded, Cells
    <2>3. Shapes' /\ (active => StaleIsScheduled' /\ FrameComes')
      BY <1>1, <2>1 DEF IInv, Shapes, Queue, StaleIsScheduled, FrameComes, Visible
    <2> QED BY <1>1, <2>1, <2>2, <2>3 DEF IInv, QInv, Asleep, RepaintComes, Noticed
  <1>3. CASE v \in replay
    <2>1. /\ UpdateView(screens[v])
          /\ stale' = stale \union Cells(v)
          /\ dropped' = IF v \in eaten
                        THEN dropped \union (Cells(v) \ Recorded)
                        ELSE dropped \ Cells(v)
          /\ replay' = replay \ {v}
          /\ eaten' = eaten \ {v}
      BY <1>3 DEF Release, Attach
    <2>2. /\ Queue(idles)'
          /\ scheduled \subseteq scheduled'
          /\ scheduled' \subseteq Screen
          /\ active => screens[v] \subseteq scheduled'
          /\ QInv => QInv'
      BY <1>1, <2>1, UpdateViewComes DEF IInv, Shapes
    <2>3. Cells(v) \subseteq Cell /\ \A w \in View : Cells(w)' = Cells(w)
      BY <1>1 DEF Cells, Cell, IInv, Shapes
    <2>4. Shapes'
      BY <1>1, <2>1, <2>2, <2>3 DEF IInv, Shapes
    <2>5. ReplayIsDamaged'
      BY <1>1, <2>1 DEF IInv, ReplayIsDamaged
    <2>6. v \in eaten \/ v \in surfDamage
      BY <1>3 DEF IInv, ReplayIsDamaged
    <2>7. Kept' = Kept
      BY <1>1 DEF Kept, Recorded, Cells
    <2>8. DamageIsKept'
      BY <2>1, <2>6, <2>7 DEF IInv, DamageIsKept, Kept
    <2>9. active => StaleIsScheduled'
      BY <2>1, <2>2 DEF IInv, StaleIsScheduled, Cells
    <2>10. active => FrameComes'
      BY <1>1, <2>1, <2>2 DEF IInv, FrameComes, Visible
    <2> QED BY <1>1, <2>2, <2>4, <2>5, <2>8, <2>9, <2>10 DEF IInv
  <1> QED BY <1>2, <1>3

\* The requests that damage what they change.  Some schedule without asking for
\* the session.
LEMMA DamagingKeeps ==
    ASSUME IInv, NEW v \in View, NEW ss \in SUBSET Screen, ss # {},
           Raise(v) \/ Hide(v) \/ Show(v, ss) \/ Move(v, ss)
    PROVE  IInv' /\ (QInv => QInv')
  <1> USE DEF Requested
  <1>1. /\ screens \in [View -> SUBSET Screen]
        /\ scheduled \subseteq Screen
        /\ Queue(idles)
    BY DEF IInv, Shapes
  <1>2. Noticed
    BY DEF Raise, Hide, Show, Move, Noticed
  <1>3. CASE Raise(v)
    <2>1. Schedule(screens[v]) /\ UNCHANGED <<active, pending>>
      BY <1>3 DEF Raise
    <2>2. Queue(idles)' /\ (QInv => QInv')
      BY <1>1, <1>2, <2>1, ScheduleKeeps
    <2>3. Cells(v) \subseteq Cell /\ screens[v] \in SUBSET Screen
      BY <1>1 DEF Cells, Cell
    <2>4. \A w \in View : Cells(w)' = Cells(w) BY <1>3 DEF Raise, Cells
    <2>5. IInv'
      BY <1>1, <1>3, <2>2, <2>3, <2>4, DamagedRequestKeeps DEF Raise, Schedule, Cells
    <2> QED BY <2>2, <2>5
  <1>4. CASE Show(v, ss)
    <2>1. Queue(idles)' /\ (QInv => QInv')
      <3>1. Schedule(ss) /\ UNCHANGED <<active, pending>>  BY <1>4 DEF Show
      <3> QED BY <1>1, <1>2, <3>1, ScheduleKeeps
    <2>2. ss \X {v} \subseteq Cell BY DEF Cell
    <2>3. /\ screens' \in [View -> SUBSET Screen]
          /\ \A w \in View : screens'[w] = screens[w] \/ screens'[w] \subseteq ss
          /\ \A w \in View : Cells(w) \subseteq Cells(w)'
      BY <1>1, <1>4 DEF Show, Cells, Visible
    <2>4. IInv'
      BY <1>1, <1>4, <2>1, <2>2, <2>3, DamagedRequestKeeps DEF Show, Schedule
    <2> QED BY <2>1, <2>4
  <1>5. CASE Hide(v)
    <2>1. UpdateView(screens[v]) /\ UNCHANGED <<active, pending>>
      BY <1>5 DEF Hide
    <2>2. /\ Queue(idles)'
          /\ scheduled \subseteq scheduled'
          /\ scheduled' \subseteq scheduled \union screens[v]
          /\ active => screens[v] \subseteq scheduled'
          /\ QInv => QInv'
      BY <1>1, <1>2, <2>1, UpdateViewComes
    <2>3. Cells(v) \subseteq Cell /\ screens[v] \in SUBSET Screen
      BY <1>1 DEF Cells, Cell
    <2>4. /\ screens' \in [View -> SUBSET Screen]
          /\ \A w \in View : screens'[w] = screens[w] \/ screens'[w] \subseteq screens[v]
          /\ \A w \in View : Cells(w) \subseteq Cells(w)' \union Cells(v)
      BY <1>1, <1>5 DEF Hide, Cells
    <2>5. \A c \in Cells(v) : c[1] \in screens[v] BY DEF Cells
    <2>6. IInv'
      BY <1>5, <2>2, <2>3, <2>4, <2>5, DamagedRequestKeeps DEF Hide
    <2> QED BY <2>2, <2>6
  <1>6. CASE Move(v, ss)
    <2> DEFINE cells == Cells(v) \union (ss \X {v})
               both  == screens[v] \union ss
    <2>1. UpdateView(both) /\ UNCHANGED <<active, pending>>
      BY <1>6 DEF Move
    <2>2. /\ Queue(idles)'
          /\ scheduled \subseteq scheduled'
          /\ scheduled' \subseteq scheduled \union both
          /\ active => both \subseteq scheduled'
          /\ QInv => QInv'
      BY <1>1, <1>2, <2>1, UpdateViewComes
    <2>3. cells \in SUBSET Cell /\ both \in SUBSET Screen
      BY <1>1 DEF Cells, Cell
    <2>4. /\ screens' \in [View -> SUBSET Screen]
          /\ \A w \in View : screens'[w] = screens[w] \/ screens'[w] \subseteq both
          /\ \A w \in View : Cells(w) \subseteq Cells(w)' \union cells
      BY <1>1, <1>6 DEF Move, Cells
    <2>5. \A c \in cells : c[1] \in both BY DEF Cells
    <2>6. /\ Damage(cells)
          /\ stale' = stale \union cells
          /\ UNCHANGED <<active, surfDamage, wants, hold, eaten, backlog, pending>>
      BY <1>6 DEF Move
    <2> HIDE DEF cells, both
    <2>7. IInv'
      BY <2>2, <2>3, <2>4, <2>5, <2>6, DamagedRequestKeeps
    <2> QED BY <2>2, <2>7
  <1> QED BY <1>3, <1>4, <1>5, <1>6

LEMMA MoveScreenKeeps ==
    ASSUME IInv, NEW placed \in [View -> SUBSET Screen], MoveScreen(placed)
    PROVE  IInv' /\ (QInv => QInv')
  <1> USE DEF Requested
  <1>1. /\ screens \in [View -> SUBSET Screen]
        /\ scheduled \subseteq Screen /\ stale \subseteq Cell
        /\ Queue(idles)
    BY DEF IInv, Shapes
  <1>2. Schedule(Screen) /\ UNCHANGED <<active, pending>> /\ Noticed
    BY DEF MoveScreen, Noticed
  <1>3. Queue(idles)' /\ (QInv => QInv')
    BY <1>1, <1>2, ScheduleKeeps
  <1>4. /\ \A w \in View : Cells(w) \subseteq Cell
        /\ \A c \in Cell : c[1] \in Screen
    BY <1>1 DEF Cells, Cell
  <1>5. /\ Damage(Cell) /\ stale' = Cell /\ screens' = placed
        /\ UNCHANGED <<active, surfDamage, wants, hold, eaten, backlog, pending>>
    BY DEF MoveScreen
  <1>6. scheduled \subseteq scheduled' /\ scheduled' = Screen
    BY <1>1, <1>2 DEF Schedule
  <1>7. IInv'
    BY <1>1, <1>3, <1>4, <1>5, <1>6, DamagedRequestKeeps
  <1> QED BY <1>3, <1>7

-----------------------------------------------------------------------------
(* The event loop.                                                         *)

LEMMA RunIdleKeeps ==
    ASSUME IInv, RunIdle PROVE IInv' /\ (QInv => QInv')
  <1>1. Queue(Tail(idles)) BY QueueTail DEF RunIdle, IInv, Shapes
  <1>2. UNCHANGED <<screens, hold>> BY DEF RunIdle
  <1>3. CASE PerformUpdate(pending, flips, Tail(idles)) /\ UNCHANGED wants
    <2>1. Awaited(pending)
      BY <1>2, <1>3 DEF Awaited, IInv, FrameComes, Visible
    <2> QED BY <1>1, <1>2, <1>3, <2>1, PerformUpdateKeeps DEF Served
  <1>4. CASE ScreenFrame(Head(idles), flips, Tail(idles))
    BY <1>1, <1>2, <1>4, ScreenFrameKeeps DEF Served
  <1> QED BY <1>3, <1>4 DEF RunIdle

LEMMA PageFlipKeeps ==
    ASSUME IInv, NEW s \in Screen, PageFlip(s) PROVE IInv' /\ (QInv => QInv')
  <1>1. Queue(idles) /\ UNCHANGED <<screens, hold>>
    BY DEF PageFlip, IInv, Shapes
  <1>2. ScreenFrame(s, [flips EXCEPT ![s] = @ - 1], idles) BY DEF PageFlip
  <1> QED BY <1>1, <1>2, ScreenFrameKeeps DEF Served

LEMMA ReadNoticeKeeps ==
    ASSUME IInv, ReadNotice PROVE IInv' /\ (QInv => QInv')
  <1>1. UNCHANGED <<screens, surfDamage, compDamage, backlog, pending, wants,
                    hold, stale, eaten, dropped>>
    BY DEF ReadNotice
  <1>2. ReplayIsDamaged' /\ DamageIsKept'
    BY <1>1 DEF IInv, ReplayIsDamaged, DamageIsKept, Kept, Recorded, Cells, hold
  <1>3. CASE SwcActivate
    <2>1. Schedule(Screen) /\ active' /\ dormant' = dormant BY <1>3 DEF SwcActivate
    <2>2. /\ Queue(idles)'
          /\ RepaintComes => RepaintComes'
      BY <1>1, <2>1, ScheduleComes DEF IInv, Shapes
    <2>3. scheduled' = Screen BY <2>1 DEF Schedule, IInv, Shapes
    <2>4. Shapes' BY <1>1, <2>2, <2>3 DEF IInv, Shapes
    <2>5. StaleIsScheduled'
      BY <1>1, <2>3 DEF StaleIsScheduled, IInv, Shapes, Cell
    <2>6. FrameComes'
      BY <1>1, <2>3 DEF FrameComes, IInv, Shapes, Visible
    <2> QED BY <1>2, <2>1, <2>2, <2>4, <2>5, <2>6 DEF IInv, QInv, Asleep
  <1>4. CASE SwcDeactivate
    BY <1>1, <1>2, <1>4 DEF SwcDeactivate, IInv, Shapes, Queue, QInv, Asleep, RepaintComes
  <1> QED BY <1>3, <1>4 DEF ReadNotice

\* Holds, the launcher and stuttering touch nothing of it.
LEMMA OthersKeep ==
    ASSUME IInv,
           UNCHANGED <<active, screens, surfDamage, compDamage, backlog, scheduled,
                       pending, idles, wants, replay, stale, eaten, dropped, dormant>>
    PROVE  IInv' /\ (QInv => QInv')
  BY DEF IInv, Shapes, Queue, ReplayIsDamaged, DamageIsKept, Kept, Recorded, Cells,
         StaleIsScheduled, FrameComes, Visible, QInv, Asleep, RepaintComes

LEMMA NextKeeps ==
    ASSUME IInv, [Next]_vars
    PROVE  IInv' /\ (QInv => QInv')
  <1>1. CASE RunIdle BY <1>1, RunIdleKeeps
  <1>2. ASSUME NEW s \in Screen, PageFlip(s)
        PROVE  IInv' /\ (QInv => QInv')
    BY <1>2, PageFlipKeeps
  <1>3. CASE ReadNotice BY <1>3, ReadNoticeKeeps
  <1>4. ASSUME NEW v \in View,
               Commit(v) \/ Hold(v) \/ Release(v) \/ Raise(v) \/ Hide(v)
        PROVE  IInv' /\ (QInv => QInv')
    <2>1. CASE Commit(v) BY <2>1, CommitKeeps
    <2>2. CASE Hold(v) BY <2>2, OthersKeep DEF Hold, Requested
    <2>3. CASE Release(v) BY <2>3, ReleaseKeeps
    <2>4. CASE Raise(v) \/ Hide(v)
      <3>1. Screen \in SUBSET Screen /\ Screen # {}
        BY RepaintAssumption DEF Screen
      <3> QED BY <2>4, <3>1, DamagingKeeps
    <2> QED BY <1>4, <2>1, <2>2, <2>3, <2>4
  <1>5. ASSUME NEW v \in View, NEW ss \in (SUBSET Screen) \ {{}},
               Show(v, ss) \/ Move(v, ss)
        PROVE  IInv' /\ (QInv => QInv')
    BY <1>5, DamagingKeeps
  <1>6. ASSUME NEW placed \in [View -> SUBSET Screen], MoveScreen(placed)
        PROVE  IInv' /\ (QInv => QInv')
    BY <1>6, MoveScreenKeeps
  <1>7. CASE SendDeactivate \/ StopDevices \/ Activate
    BY <1>7, OthersKeep
    DEF SendDeactivate, StopDevices, Activate, launcherLeaves, loop, hold
  <1>8. CASE UNCHANGED vars
    BY <1>8, OthersKeep DEF vars, loop, hold
  <1> QED BY <1>1, <1>2, <1>3, <1>4, <1>5, <1>6, <1>7, <1>8 DEF Next, Request

LEMMA InitHolds == Init => IInv /\ QInv
  <1> SUFFICES ASSUME Init PROVE IInv /\ QInv
    OBVIOUS
  <1>1. <<>> \in Seq({}) BY DEF Queue
  <1>2. Queue(idles) BY <1>1, QueueIntro DEF Init
  <1> QED BY <1>2 DEF Init, IInv, Shapes, ReplayIsDamaged, DamageIsKept, QInv, Asleep, RepaintComes

\* For any screens and views, whatever is raised or moved while the session is
\* inactive: damage is cleared only when its screen is repainted, or as counted
\* in `dropped` (compositor.c:2338-2443).
THEOREM DamageNeverForgotten == Spec => []DamageIsKept
  <1>1. IInv /\ [Next]_vars => IInv' BY NextKeeps
  <1>2. IInv => DamageIsKept BY DEF IInv
  <1> QED BY <1>1, <1>2, InitHolds, PTL DEF Spec

\* While the session is active, whoever needs a repaint is scheduled for one, and it
\* comes unless it was missed while the session was inactive (compositor.c:884-914,
\* 2422-2443, 2503-2516).
THEOREM RepaintsAreDue == Spec => []UpdateIsDue
  <1>1. IInv /\ QInv /\ [Next]_vars => IInv' /\ QInv' BY NextKeeps
  <1>2. IInv /\ QInv => UpdateIsDue BY DEF IInv, QInv, UpdateIsDue
  <1> QED BY <1>1, <1>2, InitHolds, PTL DEF Spec

-----------------------------------------------------------------------------
(* Counting the callbacks in the queue.                                    *)

Places(q, x) == {i \in DOMAIN q : q[i] = x}
Count(q, x) == Cardinality(Places(q, x))

LEMMA CountType ==
    ASSUME NEW S, NEW q \in Seq(S), NEW x
    PROVE  IsFiniteSet(Places(q, x)) /\ Count(q, x) \in Nat
  <1>1. DOMAIN q = 1 .. Len(q) /\ Len(q) \in Nat OBVIOUS
  <1>2. IsFiniteSet(1 .. Len(q)) BY <1>1, FS_Interval
  <1>3. Places(q, x) \in SUBSET (1 .. Len(q)) BY <1>1 DEF Places
  <1>4. IsFiniteSet(Places(q, x)) BY <1>2, <1>3, FS_Subset
  <1> QED BY <1>4, FS_CardinalityType DEF Count

LEMMA CountEmpty == \A x : Count(<<>>, x) = 0
  <1>1. \A x : Places(<<>>, x) = {} BY DEF Places
  <1> QED BY <1>1, FS_EmptySet DEF Count

LEMMA CountAppend ==
    ASSUME NEW S, NEW q \in Seq(S), NEW y \in S, NEW x
    PROVE  Count(Append(q, y), x) = IF x = y THEN Count(q, x) + 1 ELSE Count(q, x)
  <1> DEFINE r == Append(q, y)
             n == Len(q) + 1
  <1>1. /\ DOMAIN r = (1 .. Len(q)) \union {n} /\ Len(q) \in Nat
        /\ r[n] = y
        /\ \A i \in 1 .. Len(q) : r[i] = q[i]
        /\ DOMAIN q = 1 .. Len(q)
    OBVIOUS
  <1>2. n \notin Places(q, x) BY <1>1 DEF Places
  <1>3. Places(r, x) = IF x = y THEN Places(q, x) \union {n} ELSE Places(q, x)
    BY <1>1 DEF Places
  <1>4. IsFiniteSet(Places(q, x)) BY CountType
  <1>5. Cardinality(Places(q, x) \union {n}) = Cardinality(Places(q, x)) + 1
    BY <1>2, <1>4, FS_AddElement
  <1> QED BY <1>3, <1>5 DEF Count

\* The places of one sequence, moved to where another holds the same.
LEMMA CountMoved ==
    ASSUME NEW A, IsFiniteSet(A), A \subseteq Int, NEW B, NEW k \in Int,
           B = {i + k : i \in A}
    PROVE  IsFiniteSet(B) /\ Cardinality(B) = Cardinality(A)
  <1> DEFINE f == [i \in A |-> i + k]
  <1>1. f \in Injection(A, B) BY DEF Injection, IsInjective
  <1>2. f \in Surjection(A, B) BY DEF Surjection
  <1>3. ExistsBijection(A, B) BY <1>1, <1>2 DEF ExistsBijection, Bijection
  <1> QED BY <1>3, FS_Bijection

LEMMA CountConcat ==
    ASSUME NEW S, NEW q \in Seq(S), NEW r \in Seq(S), NEW x
    PROVE  Count(q \o r, x) = Count(q, x) + Count(r, x)
  <1> DEFINE k == Len(q)
             B == {i + k : i \in Places(r, x)}
             t == q \o r
  <1>1. /\ k \in Nat /\ Len(r) \in Nat
        /\ DOMAIN q = 1 .. k /\ DOMAIN r = 1 .. Len(r)
        /\ DOMAIN t = 1 .. k + Len(r)
        /\ \A i \in 1 .. k : t[i] = q[i]
        /\ \A i \in 1 .. Len(r) : t[i + k] = r[i]
    OBVIOUS
  <1>2. /\ IsFiniteSet(Places(q, x)) /\ IsFiniteSet(Places(r, x))
        /\ Count(q, x) \in Nat /\ Count(r, x) \in Nat
    BY CountType
  <1>3. Places(r, x) \subseteq Int BY <1>1 DEF Places
  <1>4. IsFiniteSet(B) /\ Cardinality(B) = Count(r, x)
    <2>1. k \in Int /\ B = {i + k : i \in Places(r, x)} BY <1>1
    <2> HIDE DEF B, k
    <2> QED BY <1>2, <1>3, <2>1, CountMoved DEF Count
  <1>5. Places(t, x) = Places(q, x) \union B
    <2>1. ASSUME NEW i \in Places(t, x) PROVE i \in Places(q, x) \union B
      <3>1. CASE i <= k BY <1>1, <2>1, <3>1 DEF Places
      <3>2. CASE i > k
        <4>1. i - k \in 1 .. Len(r) /\ i = (i - k) + k
          BY <1>1, <2>1, <3>2 DEF Places
        <4>2. i - k \in Places(r, x) BY <1>1, <2>1, <4>1 DEF Places
        <4> QED BY <4>1, <4>2
      <3> QED BY <1>1, <2>1, <3>1, <3>2 DEF Places
    <2>2. ASSUME NEW i \in Places(q, x) PROVE i \in Places(t, x)
      BY <1>1, <2>2 DEF Places
    <2>3. ASSUME NEW i \in Places(r, x) PROVE i + k \in Places(t, x)
      BY <1>1, <2>3 DEF Places
    <2> QED BY <2>1, <2>2, <2>3
  <1>6. Places(q, x) \intersect B = {} BY <1>1 DEF Places
  <1>7. Cardinality(Places(q, x) \union B)
            = Count(q, x) + Count(r, x) - Cardinality({})
    BY <1>2, <1>4, <1>6, FS_Union DEF Count
  <1> QED BY <1>2, <1>5, <1>7, FS_EmptySet DEF Count

LEMMA CountTail ==
    ASSUME NEW S, NEW q \in Seq(S), q # <<>>, NEW x
    PROVE  Count(q, x) = IF x = Head(q) THEN Count(Tail(q), x) + 1
                                        ELSE Count(Tail(q), x)
  <1> DEFINE h == <<Head(q)>>
  <1>1. q = h \o Tail(q) /\ h \in Seq(S) /\ Tail(q) \in Seq(S)
    OBVIOUS
  <1>2. Count(q, x) = Count(h, x) + Count(Tail(q), x)
    BY <1>1, CountConcat, ZenonT(30)
  <1>3. Places(h, x) = IF x = Head(q) THEN {1} ELSE {} BY DEF Places
  <1>4. Count(h, x) = IF x = Head(q) THEN 1 ELSE 0
    BY <1>3, FS_EmptySet, FS_Singleton DEF Count
  <1>5. Count(Tail(q), x) \in Nat BY <1>1, CountType
  <1> QED BY <1>2, <1>4, <1>5

LEMMA SeqIntro ==
    ASSUME NEW S, NEW m \in Nat, NEW f \in [1 .. m -> S]
    PROVE  f \in Seq(S)
  OBVIOUS

\* Every rank below the size of a finite set of integers is held by one element.
LEMMA InOrderCounts ==
    ASSUME NEW ss \in SUBSET Screen
    PROVE  /\ InOrder(ss) \in Seq(0 .. N)
           /\ \A s \in Screen : Count(InOrder(ss), s) = IF s \in ss THEN 1 ELSE 0
           /\ Count(InOrder(ss), Update) = 0
  <1> DEFINE n == Cardinality(ss)
             Below(s) == {t \in ss : t < s}
             rank == [s \in ss |-> Cardinality(Below(s)) + 1]
  <1>1. IsFiniteSet(Screen) /\ Screen \subseteq Int /\ N \in Nat
    BY RepaintAssumption, FS_Interval DEF Screen
  <1>2. IsFiniteSet(ss) /\ n \in Nat
    BY <1>1, FS_Subset, FS_CardinalityType
  <1>3. ASSUME NEW s \in ss
        PROVE  /\ IsFiniteSet(Below(s)) /\ Cardinality(Below(s)) \in Nat
               /\ Cardinality(Below(s)) < n
    <2>1. Below(s) \in SUBSET ss OBVIOUS
    <2>2. s \notin Below(s) BY <1>1
    <2>3. Below(s) # ss BY <2>2
    <2>4. /\ IsFiniteSet(Below(s)) /\ Cardinality(Below(s)) <= n
          /\ n # Cardinality(Below(s))
      BY <1>2, <2>1, <2>3, FS_Subset
    <2> QED BY <1>2, <2>4, FS_CardinalityType
  <1>4. ASSUME NEW s \in ss, NEW t \in ss, s < t
        PROVE  Cardinality(Below(s)) < Cardinality(Below(t))
    <2>1. Below(s) \in SUBSET Below(t)
      <3>1. \A u \in ss : u \in Int BY <1>1
      <3> QED BY <1>4, <3>1
    <2>2. s \in Below(t) \ Below(s) BY <1>1, <1>4
    <2>3. Below(t) # Below(s) BY <2>2
    <2> HIDE DEF Below
    <2>4. /\ Cardinality(Below(s)) <= Cardinality(Below(t))
          /\ Cardinality(Below(s)) # Cardinality(Below(t))
      BY <1>3, <2>1, <2>3, FS_Subset
    <2> QED BY <1>3, <2>4
  <1>5. rank \in Surjection(ss, 1 .. n)
    <2> HIDE DEF Below
    <2>1. rank \in [ss -> 1 .. n] BY <1>2, <1>3
    <2>2. ASSUME NEW s \in ss, NEW t \in ss, rank[s] = rank[t] PROVE s = t
      <3>1. Cardinality(Below(s)) = Cardinality(Below(t)) BY <1>3, <2>2
      <3> QED BY <1>1, <1>3, <1>4, <3>1
    <2>3. rank \in Injection(ss, 1 .. n) BY <2>1, <2>2 DEF Injection, IsInjective
    <2>4. IsFiniteSet(1 .. n) /\ Cardinality(1 .. n) = n BY <1>2, FS_Interval
    <2> HIDE DEF rank
    <2> QED BY <2>3, <2>4, FS_Injection
  <1>6. ASSUME NEW i \in 1 .. n
        PROVE  /\ InOrder(ss)[i] \in ss
               /\ Cardinality(Below(InOrder(ss)[i])) = i - 1
    <2>1. PICK s \in ss : rank[s] = i BY <1>5 DEF Surjection
    <2>2. Cardinality(Below(s)) = i - 1 BY <1>3, <2>1
    <2>3. InOrder(ss)[i] = CHOOSE u \in ss : Cardinality(Below(u)) = i - 1
      BY DEF InOrder
    <2> HIDE DEF Below
    <2> QED BY <2>2, <2>3
  <1>7. InOrder(ss) \in [1 .. n -> ss]
    BY <1>6 DEF InOrder
  <1>8. InOrder(ss) \in Seq(0 .. N)
    <2>1. ss \subseteq 0 .. N BY <1>1 DEF Screen
    <2>2. InOrder(ss) \in [1 .. n -> 0 .. N] BY <1>7, <2>1
    <2> HIDE DEF n
    <2> QED BY <1>2, <2>2, SeqIntro
  <1>9. DOMAIN InOrder(ss) = 1 .. n BY <1>7
  <1>10. ASSUME NEW s \in ss PROVE Count(InOrder(ss), s) = 1
    <2> HIDE DEF Below, n
    <2>1. rank[s] \in 1 .. n /\ rank[s] = Cardinality(Below(s)) + 1
      BY <1>2, <1>3
    <2>2. InOrder(ss)[rank[s]] = s
      <3> DEFINE u == InOrder(ss)[rank[s]]
      <3>1. u \in ss /\ Cardinality(Below(u)) = Cardinality(Below(s))
        BY <1>3, <1>6, <2>1
      <3> HIDE DEF Below, u
      <3>2. ~(u < s) /\ ~(s < u) BY <1>3, <1>4, <3>1
      <3>3. u \in Int /\ s \in Int BY <1>1, <3>1
      <3>4. u = s BY <3>2, <3>3
      <3> QED BY <3>4 DEF u
    <2>3. ASSUME NEW i \in 1 .. n, InOrder(ss)[i] = s PROVE i = rank[s]
      BY <1>3, <1>6, <2>1, <2>3
    <2> HIDE DEF rank
    <2>4. Places(InOrder(ss), s) = {rank[s]}
      BY <1>9, <2>1, <2>2, <2>3 DEF Places
    <2> QED BY <2>4, FS_Singleton DEF Count
  <1>11. ASSUME NEW x, x \notin ss PROVE Count(InOrder(ss), x) = 0
    <2>1. Places(InOrder(ss), x) = {} BY <1>6, <1>9, <1>11 DEF Places
    <2> QED BY <2>1, FS_EmptySet DEF Count
  <1>12. Update \notin ss BY <1>1 DEF Update, Screen
  <1> QED BY <1>8, <1>10, <1>11, <1>12

LEMMA LengthBound ==
    ASSUME NEW q \in Seq(0 .. N), \A s \in Screen : Count(q, s) <= 1
    PROVE  Len(q) <= Count(q, Update) + N
  <1> DEFINE D == 1 .. Len(q)
             A == Places(q, Update)
             B == D \ A
             f == [i \in B |-> q[i]]
  <1>1. /\ N \in Nat /\ Len(q) \in Nat /\ D = DOMAIN q
        /\ IsFiniteSet(Screen) /\ Cardinality(Screen) = N
        /\ IsFiniteSet(D) /\ Cardinality(D) = Len(q)
    <2>1. N \in Nat /\ N >= 1 /\ Len(q) \in Nat /\ D = DOMAIN q
      BY RepaintAssumption
    <2>2. IsFiniteSet(Screen) /\ Cardinality(Screen) = N
      BY <2>1, FS_Interval DEF Screen
    <2>3. IsFiniteSet(D) /\ Cardinality(D) = Len(q)
      <3>1. \A n \in Nat : IsFiniteSet(1 .. n) /\ Cardinality(1 .. n) = n
        BY FS_Interval
      <3> QED BY <2>1, <3>1
    <2> QED BY <2>1, <2>2, <2>3
  <1>2. A \subseteq D /\ IsFiniteSet(A) /\ Cardinality(A) \in Nat
    <2>1. A \subseteq D BY DEF Places
    <2> QED BY <2>1, CountType DEF Count
  <1>3. f \in [B -> Screen]
    BY <1>1 DEF Places, Update, Screen
  <1>4. ASSUME NEW i \in B, NEW j \in B, q[i] = q[j] PROVE i = j
    <2> DEFINE P == Places(q, q[i])
    <2>1. q[i] \in Screen BY <1>3
    <2>2. IsFiniteSet(P) /\ Cardinality(P) \in Nat BY CountType DEF Count
    <2>3. Cardinality(P) <= 1 BY <2>1 DEF Count
    <2>4. i \in P /\ j \in P BY <1>1, <1>4 DEF Places
    <2> HIDE DEF P
    <2>5. P # {} BY <2>4
    <2>6. Cardinality(P) = 1 BY <2>2, <2>3, <2>5, FS_EmptySet
    <2> QED BY <2>2, <2>4, <2>6, FS_Singleton
  <1>5. f \in Injection(B, Screen)
    BY <1>3, <1>4 DEF Injection, IsInjective
  <1>6. IsFiniteSet(B) /\ Cardinality(B) <= N
    <2> HIDE DEF f, B
    <2> QED BY <1>1, <1>5, FS_Injection
  <1>7. Cardinality(B) = Len(q) - Cardinality(A)
    <2>1. D \intersect A = A BY <1>2
    <2> HIDE DEF A, D
    <2>2. Cardinality(B) = Cardinality(D) - Cardinality(D \intersect A)
      BY <1>1, FS_Difference
    <2> QED BY <1>1, <2>1, <2>2
  <1> HIDE DEF A, B
  <1> QED BY <1>1, <1>2, <1>6, <1>7 DEF A, Count

-----------------------------------------------------------------------------
(* One frame event for every screen that waits.  The length of the queue,  *)
(* which TypeOK bounds, follows from how many updates can be in it: each   *)
(* was added when the schedule was empty, and a descriptor is served only  *)
(* once before the queue is drained.                                       *)

Typed ==
    /\ active \in BOOLEAN /\ draining \in BOOLEAN
    /\ launcher \in {"on", "stopping", "off"}
    /\ notices \in Seq({"activate", "deactivate"})
    /\ screens \in [View -> SUBSET Screen]
    /\ \A views \in {surfDamage, wants, held, replay, eaten} : views \subseteq View
    /\ \A cells \in {compDamage, backlog, stale, dropped} : cells \subseteq Cell
    /\ \A ss \in {scheduled, pending, needModeset} : ss \subseteq Screen
    /\ flips \in [Screen -> Nat]
    /\ dispatched \subseteq 0 .. N
    /\ idles \in Seq(0 .. N)
    /\ dormant \in {"no", "begun", "missed"}

\* The frame events there are, for the screens that wait for one.
Match(waiting, flying, queue) ==
    \A s \in Screen : flying[s] + Count(queue, s) = IF s \in waiting THEN 1 ELSE 0

\* One more update can be added while the schedule is empty.
Room == IF scheduled = {} /\ ~draining THEN 1 ELSE 0
UpdatesAreFew == Count(idles, Update) + Room <= 1 + Cardinality(dispatched)

FInv == Typed /\ Match(pending, flips, idles) /\ UpdatesAreFew

LEMMA DispatchedFinite ==
    ASSUME NEW D \in SUBSET (0 .. N)
    PROVE  /\ IsFiniteSet(D) /\ Cardinality(D) \in Nat /\ Cardinality(D) <= N + 1
           /\ \A fd : fd \notin D => Cardinality(D \union {fd}) = Cardinality(D) + 1
  <1>1. IsFiniteSet(0 .. N) /\ Cardinality(0 .. N) = N + 1
    BY RepaintAssumption, FS_Interval
  <1>2. IsFiniteSet(D) /\ Cardinality(D) <= N + 1 BY <1>1, FS_Subset
  <1> QED BY <1>2, FS_CardinalityType, FS_AddElement

LEMMA FInvMatches == FInv => FramesMatch
  <1> SUFFICES ASSUME FInv PROVE FramesMatch
    OBVIOUS
  <1>1. /\ idles \in Seq(0 .. N) /\ flips \in [Screen -> Nat]
        /\ dispatched \in SUBSET (0 .. N) /\ N \in Nat
    BY RepaintAssumption DEF FInv, Typed
  <1>2. \A s : Count(idles, s) \in Nat BY <1>1, CountType
  <1>3. ASSUME NEW s \in Screen
        PROVE  /\ flips[s] + Count(idles, s) = IF s \in pending THEN 1 ELSE 0
               /\ Count(idles, s) <= 1
    <2>1. flips[s] + Count(idles, s) = IF s \in pending THEN 1 ELSE 0
      BY DEF FInv, Match
    <2>2. flips[s] \in Nat BY <1>1
    <2> QED BY <1>2, <2>1, <2>2
  <1>4. Len(idles) <= Count(idles, Update) + N BY <1>1, <1>3, LengthBound
  <1>5. Count(idles, Update) <= 1 + Cardinality(dispatched)
    <2>1. Room \in {0, 1} BY DEF Room
    <2> QED BY <1>1, <1>2, <2>1, DispatchedFinite DEF FInv, UpdatesAreFew
  <1>6. Cardinality(dispatched) \in Nat /\ Cardinality(dispatched) <= N + 1
    BY <1>1, DispatchedFinite
  <1>7. Len(idles) <= 2 * N + 2
    BY <1>1, <1>2, <1>4, <1>5, <1>6
  <1>8. TypeOK BY <1>7 DEF FInv, Typed, TypeOK
  <1> QED BY <1>3, <1>8 DEF FramesMatch, FramesQueued, Count, Places

\* A repaint asks for one frame of each screen it shows, none of which waited.
LEMMA RepaintedMatches ==
    ASSUME Typed, NEW waiting \in SUBSET Screen, NEW flying \in [Screen -> Nat],
           NEW queue \in Seq(0 .. N), Match(waiting, flying, queue),
           NEW refused, Repainted(Updates(waiting), refused, waiting, flying, queue)
    PROVE  /\ idles' \in Seq(0 .. N) /\ flips' \in [Screen -> Nat]
           /\ pending' \subseteq Screen /\ needModeset' \subseteq Screen
           /\ Match(pending', flips', idles')
           /\ Count(idles', Update) = Count(queue, Update)
  <1> DEFINE shown == {s \in Updates(waiting) : s < refused}
             sent  == shown \intersect needModeset
  <1>1. shown \subseteq Screen /\ shown \intersect waiting = {}
    BY DEF Updates, Typed
  <1>2. pending' = waiting \union shown /\ SwapBuffers(shown, flying, queue)
    BY DEF Repainted
  <1> HIDE DEF shown
  <1>3. /\ flips' = [s \in Screen |-> IF s \in shown \ needModeset
                                      THEN flying[s] + 1 ELSE flying[s]]
        /\ idles' = queue \o InOrder(sent)
        /\ needModeset' = needModeset \ shown
    BY <1>2 DEF SwapBuffers
  <1>4. sent \in SUBSET Screen BY <1>1
  <1> HIDE DEF sent
  <1>5. /\ InOrder(sent) \in Seq(0 .. N)
        /\ \A s \in Screen : Count(InOrder(sent), s) = IF s \in sent THEN 1 ELSE 0
        /\ Count(InOrder(sent), Update) = 0
    BY <1>4, InOrderCounts
  <1>6. idles' \in Seq(0 .. N) BY <1>3, <1>5
  <1>7. \A x : Count(idles', x) = Count(queue, x) + Count(InOrder(sent), x)
    BY <1>3, <1>5, CountConcat
  <1>8. \A x : Count(queue, x) \in Nat BY CountType
  <1>9. ASSUME NEW s \in Screen
        PROVE  flips'[s] + Count(idles', s) = IF s \in pending' THEN 1 ELSE 0
    <2>1. flying[s] + Count(queue, s) = IF s \in waiting THEN 1 ELSE 0
      BY DEF Match
    <2>2. flying[s] \in Nat /\ Count(queue, s) \in Nat BY <1>8
    <2>3. Count(idles', s) = Count(queue, s) + IF s \in sent THEN 1 ELSE 0
      BY <1>5, <1>7 DEF sent
    <2>4. flips'[s] = IF s \in shown \ needModeset THEN flying[s] + 1 ELSE flying[s]
      BY <1>3
    <2>5. CASE s \in shown
      BY <1>1, <1>2, <2>1, <2>2, <2>3, <2>4, <2>5 DEF sent
    <2>6. CASE s \notin shown
      BY <1>1, <1>2, <2>1, <2>2, <2>3, <2>4, <2>6 DEF sent
    <2> QED BY <2>5, <2>6
  <1>10. Count(idles', Update) = Count(queue, Update)
    BY <1>5, <1>7, <1>8
  <1>11. pending' \subseteq Screen /\ needModeset' \subseteq Screen
    BY <1>1, <1>2, <1>3 DEF Typed
  <1>12. flips' \in [Screen -> Nat] BY <1>3
  <1> QED BY <1>6, <1>9, <1>10, <1>11, <1>12 DEF Match

\* Everything but the loop and the screens keeps its type in an update.
LEMMA RepaintedTyped ==
    ASSUME Typed, NEW waiting, NEW flying, NEW queue,
           NEW refused, Repainted(Updates(waiting), refused, waiting, flying, queue)
    PROVE  /\ active' \in BOOLEAN /\ launcher' \in {"on", "stopping", "off"}
           /\ surfDamage' \subseteq View /\ eaten' \subseteq View
           /\ compDamage' \subseteq Cell /\ backlog' \subseteq Cell
           /\ stale' \subseteq Cell /\ dropped' \subseteq Cell
           /\ scheduled' \subseteq Screen /\ dormant' \in {"no", "begun", "missed"}
  <1> DEFINE updates == Updates(waiting)
             painted == surfDamage \intersect Visible
             damage  == compDamage \union UNION {Cells(v) : v \in painted}
             offered == Offered(damage, updates, refused)
             shown   == {s \in updates : s < refused}
             fresh   == {c \in offered : c[1] \in shown}
             passed  == {c \in (damage \intersect stale) \ backlog : c[1] > refused}
  <1>1. /\ surfDamage' = surfDamage \ painted
        /\ eaten' = eaten \union (painted \intersect replay)
        /\ compDamage' = {}
        /\ backlog' = offered \ fresh
        /\ stale' = stale \ fresh
        /\ dropped' = (dropped \ fresh) \union passed
        /\ active' = (refused > N)
        /\ scheduled' = IF refused > N THEN scheduled \ updates ELSE {}
        /\ launcher' = IF refused > N THEN launcher ELSE "off"
        /\ dormant' = "no"
    BY DEF Repainted
  <1>2. \A v \in View : Cells(v) \subseteq Cell BY DEF Typed, Cells, Cell
  <1>3. damage \subseteq Cell BY <1>2 DEF Visible, Typed
  <1>4. offered \subseteq Cell BY <1>3 DEF Offered, Typed
  <1>5. eaten' \subseteq View BY <1>1 DEF Typed
  <1>6. stale' \subseteq Cell /\ dropped' \subseteq Cell
    BY <1>1 DEF Typed
  <1> QED BY <1>1, <1>4, <1>5, <1>6 DEF Typed

LEMMA PerformUpdateMatches ==
    ASSUME Typed, NEW waiting \in SUBSET Screen, NEW flying \in [Screen -> Nat],
           NEW queue \in Seq(0 .. N), Match(waiting, flying, queue),
           PerformUpdate(waiting, flying, queue),
           UNCHANGED <<notices, screens, hold>>, wants' \subseteq View,
           draining' \in BOOLEAN, dispatched' \subseteq 0 .. N
    PROVE  Typed' /\ Match(pending', flips', idles')
                  /\ Count(idles', Update) = Count(queue, Update)
  <1>1. CASE \E refused \in Refusals(Updates(waiting)) :
                Repainted(Updates(waiting), refused, waiting, flying, queue)
    <2>1. PICK refused : Repainted(Updates(waiting), refused, waiting, flying, queue)
      BY <1>1
    <2>2. /\ idles' \in Seq(0 .. N) /\ flips' \in [Screen -> Nat]
          /\ pending' \subseteq Screen /\ needModeset' \subseteq Screen
          /\ Match(pending', flips', idles')
          /\ Count(idles', Update) = Count(queue, Update)
      BY <2>1, RepaintedMatches
    <2>3. /\ active' \in BOOLEAN /\ launcher' \in {"on", "stopping", "off"}
          /\ surfDamage' \subseteq View /\ eaten' \subseteq View
          /\ compDamage' \subseteq Cell /\ backlog' \subseteq Cell
          /\ stale' \subseteq Cell /\ dropped' \subseteq Cell
          /\ scheduled' \subseteq Screen /\ dormant' \in {"no", "begun", "missed"}
      BY <2>1, RepaintedTyped
    <2>4. Typed' BY <2>2, <2>3 DEF Typed, hold
    <2> QED BY <2>2, <2>4
  <1>2. CASE /\ pending' = waiting /\ flips' = flying /\ idles' = queue
             /\ dormant' \in {"missed", dormant}
             /\ UNCHANGED <<active, launcher, surfDamage, compDamage, backlog,
                            scheduled, needModeset, stale, eaten, dropped>>
    BY <1>2 DEF Typed, hold
  <1> QED BY <1>1, <1>2 DEF PerformUpdate

LEMMA RunIdleMatches ==
    ASSUME FInv, RunIdle PROVE FInv'
  <1> DEFINE queue == Tail(idles)
  <1>1. /\ idles \in Seq(0 .. N) /\ idles # <<>> /\ Head(idles) \in 0 .. N
        /\ queue \in Seq(0 .. N) /\ flips \in [Screen -> Nat]
        /\ pending \in SUBSET Screen /\ dispatched \in SUBSET (0 .. N)
    <2>1. /\ idles \in Seq(0 .. N) /\ flips \in [Screen -> Nat]
          /\ pending \in SUBSET Screen /\ dispatched \in SUBSET (0 .. N)
      BY DEF FInv, Typed
    <2>2. idles # <<>> BY DEF RunIdle
    <2>3. \A S : \A q \in Seq(S) : q # <<>> => Head(q) \in S /\ Tail(q) \in Seq(S)
      OBVIOUS
    <2> QED BY <2>1, <2>2, <2>3
  <1>2. /\ UNCHANGED <<notices, screens, hold>>
        /\ draining' = (idles' # <<>>)
        /\ dispatched' = IF idles' = <<>> THEN {} ELSE dispatched
    BY DEF RunIdle
  <1>3. \A x : /\ Count(queue, x) \in Nat
               /\ Count(idles, x) = IF x = Head(idles) THEN Count(queue, x) + 1
                                                       ELSE Count(queue, x)
    BY <1>1, CountType, CountTail
  <1>4. Typed' /\ Match(pending', flips', idles')
               /\ Count(idles', Update) = Count(queue, Update)
    <2>1. CASE Head(idles) = Update
      <3>1. PerformUpdate(pending, flips, queue) /\ UNCHANGED wants
        BY <2>1 DEF RunIdle
      <3>2. ASSUME NEW s \in Screen PROVE Count(queue, s) = Count(idles, s)
        <4>1. s # Update BY RepaintAssumption DEF Screen, Update
        <4> QED BY <1>3, <2>1, <4>1
      <3>3. Match(pending, flips, queue) BY <3>2 DEF FInv, Match
      <3>4. wants' \subseteq View BY <3>1 DEF FInv, Typed
      <3>5. Typed BY DEF FInv
      <3> HIDE DEF queue
      <3> QED BY <1>1, <1>2, <3>1, <3>3, <3>4, <3>5, PerformUpdateMatches
    <2>2. CASE Head(idles) # Update
      <3> DEFINE s == Head(idles)
                 waiting == pending \ {s}
      <3>1. TellFrame(s) /\ PerformUpdate(waiting, flips, queue)
        BY <2>2 DEF RunIdle, ScreenFrame
      <3>2. s \in Screen BY <1>1, <2>2, RepaintAssumption DEF Screen, Update
      <3>3. ASSUME NEW t \in Screen
            PROVE  flips[t] + Count(queue, t) = IF t \in waiting THEN 1 ELSE 0
        <4>1. flips[t] + Count(idles, t) = IF t \in pending THEN 1 ELSE 0
          BY DEF FInv, Match
        <4>2. flips[t] \in Nat BY <1>1
        <4> QED BY <1>3, <4>1, <4>2
      <3>4. Match(waiting, flips, queue) BY <3>3 DEF Match
      <3>5. wants' \subseteq View BY <3>1 DEF FInv, Typed, TellFrame
      <3>6. Typed /\ waiting \in SUBSET Screen BY <1>1 DEF FInv
      <3> HIDE DEF queue, waiting
      <3> QED BY <1>1, <1>2, <3>1, <3>4, <3>5, <3>6, PerformUpdateMatches
    <2> QED BY <2>1, <2>2
  <1>5. UpdatesAreFew'
    <2>1. CASE idles' = <<>>
      BY <1>2, <2>1, CountEmpty, FS_EmptySet DEF UpdatesAreFew, Room
    <2>2. CASE idles' # <<>>
      <3>1. Room' = 0 /\ dispatched' = dispatched BY <1>2, <2>2 DEF Room
      <3>2. Count(queue, Update) <= Count(idles, Update) BY <1>3
      <3>3. Room \in {0, 1} BY DEF Room
      <3>4. Cardinality(dispatched) \in Nat BY <1>1, DispatchedFinite
      <3>5. Count(idles, Update) + Room <= 1 + Cardinality(dispatched)
        BY DEF FInv, UpdatesAreFew
      <3>6. Count(idles, Update) \in Nat BY <1>1, CountType
      <3> HIDE DEF queue
      <3> QED BY <1>3, <1>4, <3>1, <3>2, <3>3, <3>4, <3>5, <3>6 DEF UpdatesAreFew
    <2> QED BY <2>1, <2>2
  <1> QED BY <1>4, <1>5 DEF FInv

\* A descriptor is served once, and adds one update at most.
LEMMA ServedOnce ==
    ASSUME FInv, NEW fd \in 0 .. N, Serve(fd), idles' \in Seq(0 .. N),
           Count(idles', Update) + Room' <= Count(idles, Update) + Room + 1
    PROVE  draining' \in BOOLEAN /\ dispatched' \subseteq 0 .. N /\ UpdatesAreFew'
  <1>1. /\ fd \notin dispatched /\ draining' = draining
        /\ dispatched' = IF idles' = <<>> THEN {} ELSE dispatched \union {fd}
    BY DEF Serve
  <1>2. /\ dispatched \in SUBSET (0 .. N) /\ idles \in Seq(0 .. N) /\ draining \in BOOLEAN
    BY DEF FInv, Typed
  <1>3. UpdatesAreFew'
    <2>1. CASE idles' = <<>>
      <3>1. Count(idles', Update) = 0 BY <2>1, CountEmpty
      <3>2. Cardinality(dispatched') = 0 BY <1>1, <2>1, FS_EmptySet
      <3> QED BY <3>1, <3>2 DEF UpdatesAreFew, Room
    <2>2. CASE idles' # <<>>
      <3>1. /\ Cardinality(dispatched') = Cardinality(dispatched) + 1
            /\ Cardinality(dispatched) \in Nat
        BY <1>1, <1>2, <2>2, DispatchedFinite
      <3>2. Count(idles, Update) + Room <= 1 + Cardinality(dispatched)
        BY DEF FInv, UpdatesAreFew
      <3>3. Count(idles, Update) \in Nat /\ Count(idles', Update) \in Nat
        BY <1>2, CountType
      <3>4. Room \in {0, 1} /\ Room' \in {0, 1} BY DEF Room
      <3> QED BY <3>1, <3>2, <3>3, <3>4 DEF UpdatesAreFew
    <2> QED BY <2>1, <2>2
  <1> QED BY <1>1, <1>2, <1>3

LEMMA PageFlipMatches ==
    ASSUME FInv, NEW s \in Screen, PageFlip(s) PROVE FInv'
  <1> DEFINE waiting == pending \ {s}
             flying == [flips EXCEPT ![s] = @ - 1]
  <1>1. /\ flips[s] > 0 /\ Serve(s) /\ TellFrame(s)
        /\ PerformUpdate(waiting, flying, idles)
        /\ UNCHANGED <<notices, screens, hold>>
    BY DEF PageFlip, ScreenFrame
  <1>2. /\ Typed /\ idles \in Seq(0 .. N) /\ flips \in [Screen -> Nat]
        /\ pending \in SUBSET Screen
    BY DEF FInv, Typed
  <1>3. \A x : Count(idles, x) \in Nat BY <1>2, CountType
  <1>4. flying \in [Screen -> Nat]
    BY <1>1, <1>2
  <1>5. ASSUME NEW t \in Screen
        PROVE  flying[t] + Count(idles, t) = IF t \in waiting THEN 1 ELSE 0
    <2>1. flips[t] + Count(idles, t) = IF t \in pending THEN 1 ELSE 0
      BY DEF FInv, Match
    <2>2. flips[t] \in Nat /\ flying[t] = IF t = s THEN flips[t] - 1 ELSE flips[t]
      BY <1>2
    <2> QED BY <1>1, <1>3, <2>1, <2>2
  <1>6. Match(waiting, flying, idles) BY <1>5 DEF Match
  <1>7. wants' \subseteq View BY <1>1, <1>2 DEF Typed, TellFrame
  <1>8. /\ s \in 0 .. N /\ draining' \in BOOLEAN /\ dispatched' \subseteq 0 .. N
    <2>1. s \in 0 .. N BY RepaintAssumption DEF Screen
    <2>2. draining' = draining /\ dispatched' \subseteq dispatched \union {s}
      BY <1>1 DEF Serve
    <2> QED BY <1>2, <2>1, <2>2 DEF Typed
  <1> HIDE DEF waiting, flying
  <1>9. waiting \in SUBSET Screen BY <1>2 DEF waiting
  <1>10. Typed' /\ Match(pending', flips', idles')
                /\ Count(idles', Update) = Count(idles, Update)
    BY <1>1, <1>2, <1>4, <1>6, <1>7, <1>8, <1>9, PerformUpdateMatches
  <1>11. Room \in {0, 1} /\ Room' \in {0, 1} BY DEF Room
  <1>12. idles' \in Seq(0 .. N) BY <1>10 DEF Typed
  <1>13. UpdatesAreFew'
    BY <1>1, <1>3, <1>8, <1>10, <1>11, <1>12, ServedOnce
  <1> QED BY <1>10, <1>13 DEF FInv

\* Scheduling uses up the room there was, if it adds an update.
LEMMA ScheduleMatches ==
    ASSUME FInv, NEW ss \in SUBSET Screen, Schedule(ss),
           ss # {} \/ (scheduled' # {}), UNCHANGED <<pending, flips, draining>>
    PROVE  /\ idles' \in Seq(0 .. N) /\ scheduled' \subseteq Screen
           /\ Match(pending', flips', idles')
           /\ Count(idles', Update) + Room' <= Count(idles, Update) + Room
                                               + (IF draining THEN 1 ELSE 0)
  <1>1. idles \in Seq(0 .. N) /\ scheduled \subseteq Screen /\ draining \in BOOLEAN
    BY DEF FInv, Typed
  <1>2. /\ scheduled' = scheduled \union ss /\ scheduled' # {}
        /\ idles' = IF scheduled = {} THEN Append(idles, Update) ELSE idles
    BY DEF Schedule
  <1>3. Update \in 0 .. N BY RepaintAssumption DEF Update
  <1>4. \A x : Count(idles, x) \in Nat BY <1>1, CountType
  <1>5. idles' \in Seq(0 .. N)
    <2>1. Append(idles, Update) \in Seq(0 .. N) BY <1>1, <1>3
    <2> QED BY <1>1, <1>2, <2>1
  <1>6. ASSUME NEW s \in Screen PROVE Count(idles', s) = Count(idles, s)
    <2>1. s # Update BY RepaintAssumption DEF Screen, Update
    <2>2. \A x : Count(Append(idles, Update), x) =
                   IF x = Update THEN Count(idles, x) + 1 ELSE Count(idles, x)
      BY <1>1, <1>3, CountAppend
    <2> QED BY <1>2, <2>1, <2>2
  <1>7. Match(pending', flips', idles') BY <1>6 DEF FInv, Match
  <1>8. Room' = 0 BY <1>2 DEF Room
  <1>9. CASE scheduled = {}
    <2>1. Count(idles', Update) = Count(idles, Update) + 1
      BY <1>1, <1>2, <1>3, <1>9, CountAppend
    <2>2. Room + (IF draining THEN 1 ELSE 0) = 1 BY <1>1, <1>9 DEF Room
    <2>3. Room \in {0, 1} BY DEF Room
    <2> QED BY <1>1, <1>2, <1>4, <1>5, <1>7, <1>8, <2>1, <2>2, <2>3
  <1>10. CASE scheduled # {}
    <2>1. Count(idles', Update) = Count(idles, Update) BY <1>2, <1>10
    <2>2. Room \in {0, 1} BY DEF Room
    <2> QED BY <1>1, <1>2, <1>4, <1>5, <1>7, <1>8, <2>1, <2>2
  <1> QED BY <1>9, <1>10

LEMMA ReadNoticeMatches ==
    ASSUME FInv, ReadNotice PROVE FInv'
  <1>1. /\ notices # <<>> /\ notices' = Tail(notices) /\ Serve(Launcher)
        /\ UNCHANGED <<launcher, screens, surfDamage, compDamage, backlog, pending,
                       flips, wants, hold, stale, eaten, dropped>>
    BY DEF ReadNotice
  <1>2. /\ Typed /\ idles \in Seq(0 .. N) /\ pending \in SUBSET Screen
        /\ ~draining /\ draining' = draining
    BY <1>1 DEF FInv, Typed, Serve
  <1>3. Room \in {0, 1} /\ Room' \in {0, 1} BY DEF Room
  <1>4. Count(idles, Update) \in Nat BY <1>2, CountType
  <1>5. /\ idles' \in Seq(0 .. N) /\ scheduled' \subseteq Screen
        /\ Match(pending', flips', idles')
        /\ active' \in BOOLEAN /\ needModeset' \subseteq Screen
        /\ dormant' \in {"no", "begun", "missed"}
        /\ Count(idles', Update) + Room' <= Count(idles, Update) + Room + 1
    <2>0. dormant' \in {"no", dormant}  BY DEF ReadNotice, SwcActivate, SwcDeactivate
    <2>4. dormant' \in {"no", "begun", "missed"}  BY <1>2, <2>0 DEF Typed
    <2>1. CASE SwcActivate
      <3>1. Schedule(Screen) /\ active' = TRUE /\ needModeset' = Screen
        BY <2>1 DEF SwcActivate
      <3>2. Screen # {} BY RepaintAssumption DEF Screen
      <3>3. /\ idles' \in Seq(0 .. N) /\ scheduled' \subseteq Screen
            /\ Match(pending', flips', idles')
            /\ Count(idles', Update) + Room' <= Count(idles, Update) + Room
                                                + (IF draining THEN 1 ELSE 0)
        BY <1>1, <1>2, <3>1, <3>2, ScheduleMatches
      <3>4. Count(idles', Update) \in Nat BY <3>3, CountType
      <3> QED BY <1>2, <1>3, <1>4, <2>4, <3>1, <3>3, <3>4
    <2>2. CASE SwcDeactivate
      <3>1. /\ idles' = idles /\ scheduled' = {} /\ active' = FALSE
            /\ needModeset' = needModeset
        BY <2>2 DEF SwcDeactivate
      <3>2. Match(pending', flips', idles') BY <1>1, <3>1 DEF FInv, Match
      <3>3. /\ idles' \in Seq(0 .. N) /\ scheduled' \subseteq Screen
            /\ active' \in BOOLEAN /\ needModeset' \subseteq Screen
        BY <1>2, <3>1 DEF Typed
      <3>4. Count(idles', Update) + Room' <= Count(idles, Update) + Room + 1
        BY <1>3, <1>4, <3>1
      <3> QED BY <2>4, <3>2, <3>3, <3>4
    <2> QED BY <2>1, <2>2 DEF ReadNotice
  <1>6. Launcher \in 0 .. N BY RepaintAssumption DEF Launcher
  <1>7. draining' \in BOOLEAN /\ dispatched' \subseteq 0 .. N /\ UpdatesAreFew'
    BY <1>1, <1>5, <1>6, ServedOnce
  <1>8. notices' \in Seq({"activate", "deactivate"})
    <2>1. notices \in Seq({"activate", "deactivate"}) BY <1>2 DEF Typed
    <2> QED BY <1>1, <2>1
  <1>9. Typed' BY <1>1, <1>2, <1>5, <1>7, <1>8 DEF Typed, hold
  <1> QED BY <1>5, <1>7, <1>9 DEF FInv

\* A request leaves the queue alone, or schedules screens.
LEMMA RequestMatches ==
    ASSUME FInv, Requested,
           \/ UNCHANGED <<scheduled, idles>>
           \/ \E ss \in (SUBSET Screen) \ {{}} : Schedule(ss)
    PROVE  /\ idles' \in Seq(0 .. N) /\ scheduled' \subseteq Screen
           /\ Match(pending', flips', idles') /\ UpdatesAreFew'
  <1>1. ~draining /\ UNCHANGED <<pending, flips, draining, dispatched>>
    BY DEF Requested
  <1>2. CASE UNCHANGED <<scheduled, idles>>
    BY <1>1, <1>2 DEF FInv, Typed, Match, UpdatesAreFew, Room
  <1>3. ASSUME NEW ss \in (SUBSET Screen) \ {{}}, Schedule(ss)
        PROVE  /\ idles' \in Seq(0 .. N) /\ scheduled' \subseteq Screen
               /\ Match(pending', flips', idles') /\ UpdatesAreFew'
    <2>1. /\ idles' \in Seq(0 .. N) /\ scheduled' \subseteq Screen
          /\ Match(pending', flips', idles')
          /\ Count(idles', Update) + Room' <= Count(idles, Update) + Room
                                              + (IF draining THEN 1 ELSE 0)
      BY <1>1, <1>3, ScheduleMatches
    <2>2. idles \in Seq(0 .. N) /\ dispatched \in SUBSET (0 .. N) BY DEF FInv, Typed
    <2>3. /\ Count(idles, Update) \in Nat /\ Count(idles', Update) \in Nat
          /\ Cardinality(dispatched) \in Nat
      BY <2>1, <2>2, CountType, DispatchedFinite
    <2>4. Room \in {0, 1} /\ Room' \in {0, 1} BY DEF Room
    <2>5. Count(idles, Update) + Room <= 1 + Cardinality(dispatched)
      BY DEF FInv, UpdatesAreFew
    <2>6. Count(idles', Update) + Room' <= 1 + Cardinality(dispatched')
      BY <1>1, <2>1, <2>3, <2>4, <2>5
    <2> QED BY <2>1, <2>6 DEF UpdatesAreFew
  <1> QED BY <1>2, <1>3

LEMMA ClientMatches ==
    ASSUME FInv, NEW v \in View,
           Commit(v) \/ Hold(v) \/ Release(v)
    PROVE  FInv'
  <1>1. Requested BY DEF Commit, Hold, Release
  <1>2. Typed BY DEF FInv
  <1>3. screens[v] \in SUBSET Screen /\ Cells(v) \subseteq Cell
    BY <1>2 DEF Typed, Cells, Cell
  <1>4. \/ UNCHANGED <<scheduled, idles>>
        \/ \E ss \in (SUBSET Screen) \ {{}} : Schedule(ss)
    BY <1>3 DEF Commit, Hold, Release, Attach, UpdateView
  <1>5. /\ idles' \in Seq(0 .. N) /\ scheduled' \subseteq Screen
        /\ Match(pending', flips', idles') /\ UpdatesAreFew'
    BY <1>1, <1>4, RequestMatches
  <1>6. UNCHANGED <<screens, compDamage>> BY DEF Commit, Hold, Release
  <1>7. /\ surfDamage' \subseteq View /\ wants' \subseteq View
        /\ held' \subseteq View /\ replay' \subseteq View /\ eaten' \subseteq View
    BY <1>2 DEF Typed, Commit, Hold, Release
  <1>8. stale' \subseteq Cell /\ dropped' \subseteq Cell
    BY <1>2, <1>3 DEF Typed, Commit, Hold, Release, Attach
  <1>9. Typed'
    BY <1>1, <1>2, <1>5, <1>6, <1>7, <1>8 DEF Typed, Requested, session
  <1> QED BY <1>5, <1>9 DEF FInv

LEMMA ManagerMatches ==
    ASSUME FInv,
           \/ \E v \in View : Raise(v) \/ Hide(v)
           \/ \E v \in View, ss \in (SUBSET Screen) \ {{}} : Show(v, ss) \/ Move(v, ss)
           \/ \E placed \in [View -> SUBSET Screen] : MoveScreen(placed)
    PROVE  FInv'
  <1>1. Requested BY DEF Raise, Hide, Show, Move, MoveScreen
  <1>2. Typed /\ screens \in [View -> SUBSET Screen] BY DEF FInv, Typed
  <1>3. Screen \in (SUBSET Screen) \ {{}} BY RepaintAssumption DEF Screen
  <1>4. \A v \in View : screens[v] \in SUBSET Screen /\ Cells(v) \subseteq Cell
    BY <1>2 DEF Cells, Cell
  <1>5. \/ UNCHANGED <<scheduled, idles>>
        \/ \E ss \in (SUBSET Screen) \ {{}} : Schedule(ss)
    <2>1. ASSUME NEW v \in View, Raise(v) \/ Hide(v)
          PROVE  \/ UNCHANGED <<scheduled, idles>>
                 \/ \E ss \in (SUBSET Screen) \ {{}} : Schedule(ss)
      BY <1>4, <2>1 DEF Raise, Hide, UpdateView, Visible
    <2>2. ASSUME NEW v \in View, NEW ss \in (SUBSET Screen) \ {{}},
                 Show(v, ss) \/ Move(v, ss)
          PROVE  \/ UNCHANGED <<scheduled, idles>>
                 \/ \E tt \in (SUBSET Screen) \ {{}} : Schedule(tt)
      BY <1>4, <2>2 DEF Show, Move, UpdateView
    <2> QED BY <1>3, <2>1, <2>2 DEF MoveScreen
  <1>6. /\ idles' \in Seq(0 .. N) /\ scheduled' \subseteq Screen
        /\ Match(pending', flips', idles') /\ UpdatesAreFew'
    BY <1>1, <1>5, RequestMatches
  <1>7. /\ screens' \in [View -> SUBSET Screen]
        /\ compDamage' \subseteq Cell /\ dropped' \subseteq Cell
        /\ stale' \subseteq Cell
        /\ UNCHANGED <<surfDamage, wants, hold, eaten>>
    <2>1. ASSUME NEW v \in View, Raise(v) \/ Hide(v) PROVE <1>7!:
      BY <1>2, <1>4, <2>1 DEF Raise, Hide, Damage, Typed
    <2>2. ASSUME NEW v \in View, NEW ss \in (SUBSET Screen) \ {{}},
                 Show(v, ss) \/ Move(v, ss)
          PROVE <1>7!:
      <3>1. ss \X {v} \subseteq Cell BY DEF Cell
      <3> QED BY <1>2, <1>4, <2>2, <3>1 DEF Show, Move, Damage, Typed
    <2>3. ASSUME NEW placed \in [View -> SUBSET Screen], MoveScreen(placed)
          PROVE <1>7!:
      BY <1>2, <2>3 DEF MoveScreen, Damage, Typed
    <2> QED BY <2>1, <2>2, <2>3
  <1>8. Typed'
    BY <1>1, <1>2, <1>6, <1>7 DEF Typed, Requested, session, hold
  <1> QED BY <1>6, <1>8 DEF FInv

LEMMA LauncherMatches ==
    ASSUME FInv, SendDeactivate \/ StopDevices \/ Activate PROVE FInv'
  <1>1. UNCHANGED launcherLeaves /\ launcher' \in {"on", "stopping", "off"}
    BY DEF SendDeactivate, StopDevices, Activate
  <1>2. notices' \in Seq({"activate", "deactivate"})
    <2>1. notices \in Seq({"activate", "deactivate"}) BY DEF FInv, Typed
    <2> QED BY <2>1 DEF SendDeactivate, StopDevices, Activate
  <1> QED BY <1>1, <1>2
    DEF FInv, Typed, Match, UpdatesAreFew, Room, launcherLeaves, loop, hold

LEMMA NextMatches == FInv /\ [Next]_vars => FInv'
  <1> SUFFICES ASSUME FInv, [Next]_vars PROVE FInv'
    OBVIOUS
  <1>1. CASE RunIdle BY <1>1, RunIdleMatches
  <1>2. CASE \E s \in Screen : PageFlip(s) BY <1>2, PageFlipMatches
  <1>3. CASE ReadNotice BY <1>3, ReadNoticeMatches
  <1>4. CASE Request BY <1>4, ClientMatches, ManagerMatches DEF Request
  <1>5. CASE SendDeactivate \/ StopDevices \/ Activate BY <1>5, LauncherMatches
  <1>6. CASE UNCHANGED vars
    BY <1>6 DEF vars, session, loop, hold, FInv, Typed, Match, UpdatesAreFew, Room
  <1> QED BY <1>1, <1>2, <1>3, <1>4, <1>5, <1>6 DEF Next

LEMMA InitMatches == Init => FInv
  <1> SUFFICES ASSUME Init PROVE FInv
    OBVIOUS
  <1>1. Typed
    <2>1. idles \in Seq(0 .. N) /\ notices \in Seq({"activate", "deactivate"})
      BY DEF Init
    <2>2. flips \in [Screen -> Nat] /\ screens \in [View -> SUBSET Screen]
      BY DEF Init
    <2> QED BY <2>1, <2>2 DEF Init, Typed
  <1>2. Match(pending, flips, idles) BY CountEmpty DEF Init, Match
  <1>3. UpdatesAreFew
    BY CountEmpty, FS_EmptySet DEF Init, UpdatesAreFew, Room
  <1> QED BY <1>1, <1>2, <1>3 DEF FInv

\* For any screens, and however flips, switches and requests interleave: a screen
\* waits exactly while one frame event is on its way to it, and the queue of the
\* event loop stays short (compositor.c:2410-2426, primary_plane.c:57-103).
THEOREM FramesAlwaysMatch == Spec => []FramesMatch
  <1> QED BY InitMatches, NextMatches, FInvMatches, PTL DEF Spec

-----------------------------------------------------------------------------
(* Ends of sets *)

\* Induction over the naturals, as a minimal counterexample.
LEMMA NatMin == ASSUME NEW T \in SUBSET Nat, T # {} PROVE \E x \in T : \A y \in T : x <= y
<1>1. PICK x \in T : \A y \in T : <<y, x>> \notin OpToRel(<, Nat)
  BY WFMin, NatLessThanWellFounded
<1>2. ASSUME NEW y \in T, ~(x <= y) PROVE FALSE
  <2>1. x \in Nat /\ y \in Nat  OBVIOUS
  <2>2. y < x  BY <2>1, <1>2
  <2>3. <<y, x>> \in OpToRel(<, Nat)
    BY <2>1, <2>2 DEF OpToRel
  <2> QED  BY <1>1, <2>3
<1> QED BY <1>1, <1>2

\* Induction over finite sets: one that a total order orders has an end.
LEMMA FiniteEnd ==
  ASSUME NEW S, IsFiniteSet(S), S # {}, NEW R,
         \A x, y \in S : <<x, y>> \in R \/ <<y, x>> \in R,
         \A x, y, z \in S : <<x, y>> \in R /\ <<y, z>> \in R => <<x, z>> \in R
  PROVE  \E x \in S : \A y \in S : <<x, y>> \in R
<1> DEFINE Ends(T) == \E x \in T : \A y \in T : <<x, y>> \in R
           Worst == {T \in FiniteSubsetsOf(S) : T # {} /\ ~Ends(T)}
<1>1. Worst = {}
  <2> SUFFICES ASSUME Worst # {} PROVE FALSE
    OBVIOUS
  <2>1. PICK T \in Worst : \A U \in Worst : <<U, T>> \notin StrictSubsetOrdering(S)
    <3>1. Worst \subseteq FiniteSubsetsOf(S)  OBVIOUS
    <3> HIDE DEF Worst
    <3> QED  BY <3>1, WFMin, FS_StrictSubsetOrderingWellFounded
  <2>2. T \subseteq S /\ IsFiniteSet(T) /\ T # {} /\ ~Ends(T)
    BY DEF FiniteSubsetsOf
  <2>3. PICK x \in T : TRUE  BY <2>2
  <2> DEFINE U == T \ {x}
  <2>4. U \in FiniteSubsetsOf(S)
    BY <2>2, FS_RemoveElement DEF FiniteSubsetsOf
  <2>5. <<U, T>> \in StrictSubsetOrdering(S)
    <3>1. U \subseteq T /\ U # T  BY <2>3
    <3>2. T \in FiniteSubsetsOf(S)  BY <2>2 DEF FiniteSubsetsOf
    <3> HIDE DEF U
    <3> QED  BY <3>1, <3>2, <2>4 DEF StrictSubsetOrdering, FiniteSubsetsOf
  <2>6. U \notin Worst  BY <2>1, <2>5
  <2>7. CASE U = {}
    <3>1. T = {x} /\ x \in S  BY <2>2, <2>3, <2>7
    <3>2. Ends(T)  BY <3>1
    <3> QED  BY <3>2, <2>2
  <2>8. CASE U # {}
    <3>1. Ends(U)  BY <2>4, <2>6, <2>8
    <3>2. PICK m \in U : \A y \in U : <<m, y>> \in R  BY <3>1
    <3>3. x \in S /\ m \in S /\ \A y \in T : y \in S /\ (y = x \/ y \in U)
      BY <2>2, <2>3
    <3>4. CASE <<x, m>> \in R
      <4>1. \A y \in T : <<x, y>> \in R  BY <3>2, <3>3, <3>4
      <4> QED  BY <4>1, <2>2, <2>3
    <3>5. CASE <<m, x>> \in R
      <4>1. \A y \in T : <<m, y>> \in R  BY <3>2, <3>3, <3>5
      <4> QED  BY <4>1, <2>2, <3>2
    <3> QED  BY <3>3, <3>4, <3>5
  <2> QED  BY <2>7, <2>8
<1>2. S \in FiniteSubsetsOf(S)  BY DEF FiniteSubsetsOf
<1> QED  BY <1>1, <1>2

LEMMA FiniteExtremes ==
  ASSUME NEW S \in SUBSET Int, IsFiniteSet(S), S # {}
  PROVE  /\ Max(S) \in S /\ \A y \in S : y <= Max(S)
         /\ Min(S) \in S /\ \A y \in S : Min(S) <= y
<1> DEFINE Above == {p \in S \X S : p[1] >= p[2]}
           Below == {p \in S \X S : p[1] <= p[2]}
<1>1. \A x, y \in S : /\ <<x, y>> \in Above <=> x >= y
                      /\ <<x, y>> \in Below <=> x <= y
  OBVIOUS
<1>2. \A x \in S : x \in Int  OBVIOUS
<1> HIDE DEF Above, Below
<1>3. \E x \in S : \A y \in S : <<x, y>> \in Above
  <2>1. ASSUME NEW x \in S, NEW y \in S PROVE <<x, y>> \in Above \/ <<y, x>> \in Above
    <3>1. x \in Int /\ y \in Int  BY <1>2
    <3> QED  BY <1>1, <3>1
  <2>2. \A x, y, z \in S : <<x, y>> \in Above /\ <<y, z>> \in Above => <<x, z>> \in Above
    BY <1>1, <1>2
  <2> QED  BY <2>1, <2>2, FiniteEnd
<1>4. \E x \in S : \A y \in S : <<x, y>> \in Below
  <2>1. ASSUME NEW x \in S, NEW y \in S PROVE <<x, y>> \in Below \/ <<y, x>> \in Below
    <3>1. x \in Int /\ y \in Int  BY <1>2
    <3> QED  BY <1>1, <3>1
  <2>2. \A x, y, z \in S : <<x, y>> \in Below /\ <<y, z>> \in Below => <<x, z>> \in Below
    BY <1>1, <1>2
  <2> QED  BY <2>1, <2>2, FiniteEnd
<1>5. \E x \in S : \A y \in S : x >= y  BY <1>1, <1>3
<1>6. \E x \in S : \A y \in S : x =< y  BY <1>1, <1>4
<1>7. Max(S) \in S /\ \A y \in S : Max(S) >= y  BY <1>5 DEF Max
<1>8. Min(S) \in S /\ \A y \in S : Min(S) =< y  BY <1>6 DEF Min
<1> QED  BY <1>2, <1>7, <1>8

\* What a function makes of a finite set is finite.
LEMMA FiniteImage ==
  ASSUME NEW S, IsFiniteSet(S), NEW f, f = [x \in S |-> f[x]]
  PROVE  IsFiniteSet({f[x] : x \in S})
<1> DEFINE T == {f[x] : x \in S}
<1>1. f \in Surjection(S, T)
  BY DEF Surjection
<1> HIDE DEF T
<1>2. IsFiniteSet(T)  BY <1>1, FS_Surjection
<1> QED  BY <1>2 DEF T

-----------------------------------------------------------------------------
LayerType ==
    [screen : Screens, state : LayerStates, size : Sizes \cup {0}, mapped : BOOLEAN,
     told : 0 .. Height, configured : BOOLEAN, acked : BOOLEAN, row : Int]

PanelType == [exists : {TRUE}, screen : Screens \cup {None}, edge : Edges \cup {None}, strut : Nat]

Worlds ==
    [pos : [Screens -> Positions], usable : [Screens -> Areas],
     heard : [Screens -> [column : Positions, usable : Areas]], seen : [Screens -> Positions],
     heads : [Screens -> Positions] \cup {None}, pointer : Nat,
     layers : [Layers -> {NoLayer} \cup LayerType], panels : [Panels -> {NoPanel} \cup PanelType],
     configs : [Configs -> {"none", "current", "old"}], overdue : SUBSET Screens]

\* The screens cover finitely many columns, some at least, none left of the origin.
LEMMA ColumnsFinite ==
  ASSUME NEW w, w.pos \in [Screens -> Positions]
  PROVE  Columns(w) \in SUBSET Nat /\ IsFiniteSet(Columns(w)) /\ Columns(w) # {}
<1> DEFINE f == [s \in Screens |-> w.pos[s] .. w.pos[s] + Width - 1]
<1>1. \A s \in Screens : w.pos[s] \in Nat
  BY OutputsAssumption
<1>2. \A s \in Screens : f[s] \subseteq Nat /\ w.pos[s] \in f[s] /\ IsFiniteSet(f[s])
  <2> SUFFICES ASSUME NEW s \in Screens
               PROVE  f[s] \subseteq Nat /\ w.pos[s] \in f[s] /\ IsFiniteSet(f[s])
    OBVIOUS
  <2>1. w.pos[s] \in Nat /\ Width \in Nat \ {0}  BY <1>1, OutputsAssumption
  <2>2. w.pos[s] \in Int /\ w.pos[s] + Width - 1 \in Int  BY <2>1
  <2>3. IsFiniteSet(w.pos[s] .. w.pos[s] + Width - 1)  BY <2>2, FS_Interval
  <2> QED  BY <2>1, <2>3
<1>3. Columns(w) = UNION {f[s] : s \in Screens}
  BY DEF Columns
<1>4. f = [s \in Screens |-> f[s]]  OBVIOUS
<1> HIDE DEF f
<1>5. IsFiniteSet({f[s] : s \in Screens})
  BY <1>4, OutputsAssumption, FiniteImage
<1>6. IsFiniteSet(UNION {f[s] : s \in Screens})
  <2>1. \A T \in {f[s] : s \in Screens} : IsFiniteSet(T)  BY <1>2
  <2> QED  BY <1>5, <2>1, FS_UNION
<1> QED  BY <1>2, <1>3, <1>6, OutputsAssumption

\* The rectangle around a column is an interval of columns.
LEMMA BoxFinite ==
  ASSUME NEW w, w.pos \in [Screens -> Positions], NEW x \in Columns(w)
  PROVE  /\ Box(w, x) \in SUBSET Columns(w) /\ IsFiniteSet(Box(w, x)) /\ x \in Box(w, x)
         /\ Min(Box(w, x)) \in Box(w, x) /\ Max(Box(w, x)) \in Box(w, x)
         /\ \A y \in Box(w, x) : Min(Box(w, x)) <= y /\ y <= Max(Box(w, x))
         /\ Min(Box(w, x)) .. Max(Box(w, x)) \subseteq Columns(w)
<1> DEFINE box == Box(w, x)
<1>1. box \in SUBSET Columns(w) /\ x \in Nat
  BY ColumnsFinite DEF Box
<1>2. IsFiniteSet(box)  BY <1>1, ColumnsFinite, FS_Subset
<1>3. x \in box
  BY <1>1 DEF Box
<1>4. box \in SUBSET Int  BY <1>1, ColumnsFinite
<1> HIDE DEF box
<1>5. /\ Min(box) \in box /\ Max(box) \in box
      /\ \A y \in box : Min(box) <= y /\ y <= Max(box)
  BY <1>2, <1>3, <1>4, FiniteExtremes
<1>6. \A y \in box : (x .. y) \cup (y .. x) \subseteq Columns(w)
  BY DEF box, Box
<1>7. Min(box) .. Max(box) \subseteq Columns(w)
  <2> SUFFICES ASSUME NEW y \in Min(box) .. Max(box) PROVE y \in Columns(w)
    OBVIOUS
  <2>1. y \in (x .. Max(box)) \cup (Min(box) .. x)
    BY <1>1, <1>4, <1>5
  <2> QED  BY <2>1, <1>5, <1>6
<1> QED  BY <1>1, <1>2, <1>3, <1>5, <1>7 DEF box

\* The middle of the first rectangle is on a screen.
LEMMA RecoveryFinds ==
  ASSUME NEW w, w.pos \in [Screens -> Positions]
  PROVE  RecoverPosition(w) \in Columns(w)
<1> DEFINE left == Min(Columns(w))
           first == Box(w, left)
<1>1. left \in Columns(w)
  <2>1. Columns(w) \in SUBSET Int  BY ColumnsFinite
  <2> QED  BY <2>1, ColumnsFinite, FiniteExtremes
<1> HIDE DEF left
<1>2. /\ first \subseteq Columns(w) /\ IsFiniteSet(first) /\ left \in first
      /\ Min(first) \in first /\ Max(first) \in first
      /\ \A y \in first : Min(first) <= y /\ y <= Max(first)
      /\ Min(first) .. Max(first) \subseteq Columns(w)
  BY <1>1, BoxFinite
<1> HIDE DEF first
<1>3. \A y \in first : y \in Nat  BY <1>2, ColumnsFinite
<1>4. first \subseteq Min(first) .. Max(first)  BY <1>2, <1>3
<1>5. Cardinality(first) \in Nat /\ Cardinality(first) # 0
      /\ Cardinality(first) <= Max(first) - Min(first) + 1
  <2>1. Min(first) \in Nat /\ Max(first) \in Nat /\ Min(first) <= Max(first)
    BY <1>2, <1>3
  <2>2. /\ IsFiniteSet(Min(first) .. Max(first))
        /\ Cardinality(Min(first) .. Max(first)) = Max(first) - Min(first) + 1
    BY <2>1, FS_Interval
  <2>3. Cardinality(first) <= Cardinality(Min(first) .. Max(first))
    BY <1>4, <2>2, FS_Subset
  <2>4. Cardinality(first) \in Nat  BY <1>2, FS_CardinalityType
  <2>5. Cardinality(first) # 0  BY <1>2, FS_EmptySet
  <2> QED  BY <2>2, <2>3, <2>4, <2>5
<1>6. \A n \in Nat : n # 0 => n \div 2 \in Nat /\ n \div 2 <= n - 1
  OBVIOUS
<1>7. Cardinality(first) \div 2 \in Nat /\ Cardinality(first) \div 2 <= Cardinality(first) - 1
  BY <1>5, <1>6
<1>8. Min(first) + Cardinality(first) \div 2 \in Min(first) .. Max(first)
  <2>1. Min(first) \in Nat /\ Max(first) \in Nat  BY <1>2, <1>3
  <2> QED  BY <2>1, <1>5, <1>7
<1>9. RecoverPosition(w) = Min(first) + Cardinality(first) \div 2
  BY DEF RecoverPosition, first, left
<1> QED  BY <1>2, <1>8, <1>9

\* Wherever the pointer was and is sent, it comes to lie on a screen.
LEMMA ClipStaysInside ==
  ASSUME NEW w, w.pos \in [Screens -> Positions], w.pointer \in Nat, NEW x \in Int
  PROVE  ClipPosition(w, x) \in Columns(w)
<1> DEFINE box == Box(w, w.pointer)
<1>1. CASE x \in Columns(w)
  BY <1>1 DEF ClipPosition
<1>2. CASE x \notin Columns(w) /\ w.pointer \in Columns(w)
  <2>1. /\ box \subseteq Columns(w) /\ Min(box) \in box /\ Max(box) \in box
        /\ \A y \in box : Min(box) <= y /\ y <= Max(box)
        /\ Min(box) .. Max(box) \subseteq Columns(w)
    BY <1>2, BoxFinite
  <2>2. ClipPosition(w, x) = Max({Min({x, Max(box)}), Min(box)})
    BY <1>2 DEF ClipPosition
  <2> HIDE DEF box
  <2>3. Min(box) \in Nat /\ Max(box) \in Nat /\ Min(box) <= Max(box)
    BY <2>1, ColumnsFinite
  <2>4. ~(Min(box) <= x /\ x <= Max(box))  BY <1>2, <2>1, <2>3
  <2>5. \A a, b \in Int : /\ Min({a, b}) = IF a <= b THEN a ELSE b
                          /\ Max({a, b}) = IF a >= b THEN a ELSE b
    <3> SUFFICES ASSUME NEW a \in Int, NEW b \in Int
                 PROVE  /\ Min({a, b}) = IF a <= b THEN a ELSE b
                        /\ Max({a, b}) = IF a >= b THEN a ELSE b
      OBVIOUS
    <3>1. {a, b} \in SUBSET Int /\ IsFiniteSet({a, b}) /\ {a, b} # {}
      <4>1. IsFiniteSet({a}) /\ IsFiniteSet({a} \cup {b})
        BY FS_Singleton, FS_AddElement
      <4>2. {a, b} = {a} \cup {b}  OBVIOUS
      <4> QED  BY <4>1, <4>2
    <3>2. /\ Max({a, b}) \in {a, b} /\ \A y \in {a, b} : y <= Max({a, b})
          /\ Min({a, b}) \in {a, b} /\ \A y \in {a, b} : Min({a, b}) <= y
      BY <3>1, FiniteExtremes
    <3> QED  BY <3>2
  <2>6. Max({Min({x, Max(box)}), Min(box)}) \in {Min(box), Max(box)}
    <3>1. Min({x, Max(box)}) = IF x <= Max(box) THEN x ELSE Max(box)  BY <2>3, <2>5
    <3>2. Min({x, Max(box)}) \in Int  BY <2>3, <3>1
    <3>3. Max({Min({x, Max(box)}), Min(box)}) =
            IF Min({x, Max(box)}) >= Min(box) THEN Min({x, Max(box)}) ELSE Min(box)
      <4> DEFINE m == Min({x, Max(box)})
      <4>1. m \in Int /\ Min(box) \in Int  BY <2>3, <3>2
      <4> HIDE DEF m
      <4>2. Max({m, Min(box)}) = IF m >= Min(box) THEN m ELSE Min(box)  BY <4>1, <2>5
      <4> QED  BY <4>2 DEF m
    <3> QED  BY <2>3, <2>4, <3>1, <3>3
  <2> QED  BY <2>1, <2>2, <2>6
<1>3. CASE x \notin Columns(w) /\ w.pointer \notin Columns(w)
  <2>1. ClipPosition(w, x) = RecoverPosition(w)
    BY <1>3 DEF ClipPosition
  <2> QED  BY <2>1, RecoveryFinds
<1> QED  BY <1>1, <1>2, <1>3

\* What a zone leaves of the screen: it begins on it or below and never ends below.
LEMMA ShrunkInside ==
  ASSUME NEW edge, NEW rows \in Nat
  PROVE  /\ Shrunk(edge, rows) \in Nat \X Int /\ Shrunk(edge, rows)[2] <= Height
         /\ Shrunk(edge, 0) = Whole
  BY OutputsAssumption DEF Shrunk, Whole

LEMMA LayerInside ==
  ASSUME NEW x \in LayerType
  PROVE  ModifyByLayer(x) \in Nat \X Int /\ ModifyByLayer(x)[2] <= Height
<1>1. CASE ~x.mapped \/ ExclusiveSize(x) <= 0
  BY <1>1, OutputsAssumption DEF ModifyByLayer, Whole
<1>2. CASE x.mapped /\ ~(ExclusiveSize(x) <= 0)
  <2>1. ExclusiveSize(x) \in Int
    BY OutputsAssumption DEF ExclusiveSize, LayerType, LayerStates
  <2>2. ExclusiveSize(x) \in Nat  BY <1>2, <2>1
  <2> QED  BY <1>2, <2>2, ShrunkInside DEF ModifyByLayer
<1> QED  BY <1>1, <1>2

LEMMA ModifiedInside ==
  ASSUME NEW w \in Worlds, NEW s \in Screens
  PROVE  /\ IsFiniteSet(Modified(w, s))
         /\ \A a \in Modified(w, s) : a \in Nat \X Int /\ a[2] <= Height
<1> DEFINE byLayer == [l \in {k \in Layers : w.layers[k].screen = s} |-> ModifyByLayer(w.layers[l])]
           byPanel == [p \in {q \in Panels : w.panels[q].screen = s} |-> ModifyByPanel(w.panels[p])]
<1>1. Modified(w, s) = {byLayer[l] : l \in {k \in Layers : w.layers[k].screen = s}}
                         \cup {byPanel[p] : p \in {q \in Panels : w.panels[q].screen = s}}
  BY DEF Modified
<1>2. \A l \in {k \in Layers : w.layers[k].screen = s} :
        byLayer[l] \in Nat \X Int /\ byLayer[l][2] <= Height
  <2> SUFFICES ASSUME NEW l \in Layers, w.layers[l].screen = s
               PROVE  ModifyByLayer(w.layers[l]) \in Nat \X Int /\ ModifyByLayer(w.layers[l])[2] <= Height
    OBVIOUS
  <2>1. w.layers[l] \in LayerType
    BY OutputsAssumption DEF Worlds, NoLayer
  <2> QED  BY <2>1, LayerInside
<1>3. \A p \in {q \in Panels : w.panels[q].screen = s} :
        byPanel[p] \in Nat \X Int /\ byPanel[p][2] <= Height
  <2> SUFFICES ASSUME NEW p \in Panels, w.panels[p].screen = s
               PROVE  ModifyByPanel(w.panels[p]) \in Nat \X Int /\ ModifyByPanel(w.panels[p])[2] <= Height
    OBVIOUS
  <2>1. w.panels[p] \in PanelType
    BY OutputsAssumption DEF Worlds, NoPanel
  <2>2. w.panels[p].strut \in Nat  BY <2>1 DEF PanelType
  <2> QED  BY <2>2, ShrunkInside DEF ModifyByPanel
<1>4. /\ IsFiniteSet({k \in Layers : w.layers[k].screen = s})
      /\ IsFiniteSet({q \in Panels : w.panels[q].screen = s})
  BY OutputsAssumption, FS_Subset
<1>5. /\ byLayer = [l \in {k \in Layers : w.layers[k].screen = s} |-> byLayer[l]]
      /\ byPanel = [p \in {q \in Panels : w.panels[q].screen = s} |-> byPanel[p]]
  OBVIOUS
<1> HIDE DEF byLayer, byPanel
<1>6. /\ IsFiniteSet({byLayer[l] : l \in {k \in Layers : w.layers[k].screen = s}})
      /\ IsFiniteSet({byPanel[p] : p \in {q \in Panels : w.panels[q].screen = s}})
  BY <1>4, <1>5, FiniteImage
<1>7. IsFiniteSet(Modified(w, s))
  BY <1>1, <1>6, FS_Union, ZenonT(30)
<1> QED  BY <1>1, <1>2, <1>3, <1>7

\* The area for windows is a part of the screen, however the zones overlap.
LEMMA UsableInside == ASSUME NEW w \in Worlds, NEW s \in Screens PROVE Usable(w, s) \in Areas
<1> DEFINE areas == {Whole} \cup Modified(w, s)
           firsts == [a \in areas |-> a[1]]
           lasts == [a \in areas |-> a[2]]
           tops == {a[1] : a \in areas}
           bottoms == {a[2] : a \in areas}
           top == Max(tops)
           bottom == Min(bottoms)
<1>1. \A a \in areas : a \in Nat \X Int /\ a[2] <= Height
  BY ModifiedInside, OutputsAssumption DEF Whole
<1>2. IsFiniteSet(areas)
  BY ModifiedInside, FS_Singleton, FS_Union
<1>3. /\ firsts = [a \in areas |-> firsts[a]] /\ lasts = [a \in areas |-> lasts[a]]
      /\ tops = {firsts[a] : a \in areas} /\ bottoms = {lasts[a] : a \in areas}
  OBVIOUS
<1>4. tops \in SUBSET Nat /\ bottoms \in SUBSET Int
  <2>1. \A a \in areas : a[1] \in Nat /\ a[2] \in Int  BY <1>1
  <2> HIDE DEF areas
  <2> QED  BY <2>1
<1>5. 0 \in tops /\ Height \in bottoms
  <2>1. Whole \in areas /\ Whole[1] = 0 /\ Whole[2] = Height  BY DEF Whole
  <2> HIDE DEF areas
  <2> QED  BY <2>1
<1>6. IsFiniteSet(tops) /\ IsFiniteSet(bottoms)
  <2> HIDE DEF areas, firsts, lasts, tops, bottoms
  <2>1. /\ IsFiniteSet({firsts[a] : a \in areas}) /\ IsFiniteSet({lasts[a] : a \in areas})
    BY <1>2, <1>3, FiniteImage
  <2> QED  BY <1>3, <2>1
<1>7. Usable(w, s) = [column |-> w.pos[s], rows |-> IF top < bottom THEN <<top, bottom>> ELSE NoArea]
  BY DEF Usable
<1> HIDE DEF areas, firsts, lasts, tops, bottoms
<1>8. top \in Nat
  <2>1. tops \in SUBSET Int  BY <1>4
  <2> QED  BY <1>4, <1>5, <1>6, <2>1, FiniteExtremes
<1>9. bottom \in Int /\ bottom <= Height
  BY <1>4, <1>5, <1>6, FiniteExtremes
<1> HIDE DEF top, bottom
<1>10. (IF top < bottom THEN <<top, bottom>> ELSE NoArea) \in (0 .. Height) \X (0 .. Height)
  BY <1>8, <1>9, OutputsAssumption DEF NoArea
<1>11. w.pos[s] \in Nat  BY OutputsAssumption DEF Worlds
<1> QED  BY <1>7, <1>10, <1>11 DEF Areas

\* The window manager has heard of the area of a screen as it is kept.
Told(w, s) == w.heard[s] = [column |-> w.pos[s], usable |-> w.usable[s]]

\* The area kept is what the zones leave, or no update came since a panel docked.
Current(w, s) == s \in w.overdue \/ w.usable[s] = Usable(w, s)

Agreed(w) ==
    /\ w.seen = w.pos /\ w.heads \in {None, w.pos}
    /\ w.pointer \in Columns(w)
    /\ \A s \in Screens : Current(w, s) /\ Told(w, s)

Anchored(x) ==
    /\ x.configured => x.told = ConfigureSize(x.state)
    /\ x.mapped /\ x.acked => x.row = RowOf(x)

Good(w) ==
    /\ w \in Worlds /\ Agreed(w)
    /\ \A l \in Layers : w.layers[l] # NoLayer => Anchored(w.layers[l])

\* What is nothing to the area for windows.
Beside(v, w) ==
    /\ v.pos = w.pos /\ v.seen = w.seen /\ v.heads = w.heads /\ v.pointer = w.pointer
    /\ v.configs = w.configs

\* The area is worked out of the position, the surfaces and the panels alone.
LEMMA UsableDepends ==
  ASSUME NEW v, NEW w, v.pos = w.pos, v.layers = w.layers, v.panels = w.panels, NEW s
  PROVE  Usable(v, s) = Usable(w, s)
<1>1. Modified(v, s) = Modified(w, s)  BY DEF Modified
<1> QED  BY <1>1 DEF Usable

LEMMA ColumnsDepend == ASSUME NEW v, NEW w, v.pos = w.pos PROVE Columns(v) = Columns(w)
  BY DEF Columns

\* The area is brought up to date, and the manager hears when it changes.
LEMMA UpdateHolds ==
  ASSUME NEW w \in Worlds, NEW s \in Screens, NEW v, v = UpdateUsable(w, s)
  PROVE  /\ v \in Worlds /\ Beside(v, w) /\ v.layers = w.layers /\ v.panels = w.panels
         /\ v.usable[s] = Usable(w, s) /\ v.overdue = w.overdue \ {s}
         /\ Told(w, s) => Told(v, s)
         /\ \A t \in Screens \ {s} : v.usable[t] = w.usable[t] /\ v.heard[t] = w.heard[t]
         /\ \A t \in Screens : Usable(v, t) = Usable(w, t)
<1> DEFINE area == Usable(w, s)
           done == [w EXCEPT !.overdue = @ \ {s}]
<1>1. area \in Areas  BY UsableInside
<1>4. /\ done \in Worlds /\ done.overdue = w.overdue \ {s} /\ done.usable = w.usable
      /\ done.pos = w.pos /\ done.seen = w.seen /\ done.heads = w.heads
      /\ done.pointer = w.pointer /\ done.configs = w.configs
      /\ done.layers = w.layers /\ done.panels = w.panels /\ done.heard = w.heard
  BY DEF Worlds
<1>5. v = IF area = w.usable[s] THEN done ELSE Hear([done EXCEPT !.usable[s] = area], s)
  BY DEF UpdateUsable
<1> HIDE DEF area, done
<1>2. CASE area = w.usable[s]
  <2>1. v = done  BY <1>2, <1>5
  <2>2. \A t \in Screens : Usable(v, t) = Usable(w, t)  BY <2>1, <1>4, UsableDepends
  <2>3. Told(w, s) => Told(v, s)  BY <2>1, <1>4 DEF Told
  <2> QED  BY <2>1, <2>2, <2>3, <1>2, <1>4 DEF Beside, area
<1>3. CASE area # w.usable[s]
  <2> DEFINE u == [done EXCEPT !.usable[s] = area]
  <2>1. /\ u \in Worlds /\ u.usable = [w.usable EXCEPT ![s] = area] /\ u.pos = w.pos
        /\ u.seen = w.seen /\ u.heads = w.heads /\ u.pointer = w.pointer /\ u.configs = w.configs
        /\ u.layers = w.layers /\ u.panels = w.panels /\ u.heard = w.heard
        /\ u.overdue = w.overdue \ {s}
    BY <1>1, <1>4 DEF Worlds
  <2>2. v = Hear(u, s)  BY <1>3, <1>5
  <2> HIDE DEF u
  <2>3. [column |-> u.pos[s], usable |-> u.usable[s]] \in [column : Positions, usable : Areas]
    BY <2>1, <1>1 DEF Worlds
  <2> DEFINE h == [column |-> u.pos[s], usable |-> u.usable[s]]
  <2>4. v = [u EXCEPT !.heard[s] = h]  BY <2>2 DEF Hear
  <2>5. h \in [column : Positions, usable : Areas]  BY <2>3
  <2> HIDE DEF h
  <2>6. /\ v \in Worlds /\ v.usable = u.usable /\ v.pos = u.pos /\ v.overdue = u.overdue
        /\ v.seen = u.seen /\ v.heads = u.heads /\ v.pointer = u.pointer /\ v.configs = u.configs
        /\ v.layers = u.layers /\ v.panels = u.panels /\ v.heard = [u.heard EXCEPT ![s] = h]
    <3>1. /\ v.usable = u.usable /\ v.pos = u.pos /\ v.overdue = u.overdue
          /\ v.seen = u.seen /\ v.heads = u.heads /\ v.pointer = u.pointer /\ v.configs = u.configs
          /\ v.layers = u.layers /\ v.panels = u.panels /\ v.heard = [u.heard EXCEPT ![s] = h]
      BY <2>1, <2>4 DEF Worlds
    <3>2. v.heard \in [Screens -> [column : Positions, usable : Areas]]
      BY <2>1, <2>5, <3>1 DEF Worlds
    <3>3. v \in Worlds
      BY <2>1, <2>4, <2>5, <3>1, <3>2 DEF Worlds
    <3> QED  BY <3>1, <3>3
  <2>7. v.usable[s] = area /\ v.heard[s] = h
    BY <2>1, <2>6, <2>5 DEF Worlds
  <2>8. Told(v, s)  BY <2>1, <2>6, <2>7 DEF Told, h
  <2>9. \A t \in Screens \ {s} : v.usable[t] = w.usable[t] /\ v.heard[t] = w.heard[t]
    BY <2>1, <2>6 DEF Worlds
  <2>10. \A t \in Screens : Usable(v, t) = Usable(w, t)
    BY <2>1, <2>6, UsableDepends
  <2> QED  BY <2>1, <2>6, <2>7, <2>8, <2>9, <2>10 DEF Beside, area
<1> QED  BY <1>2, <1>3

\* One screen moves and everybody is told; whoever knew the layout before it moved
\* has an old serial.
LEMMA SetPositionHolds ==
  ASSUME NEW w, Good(w), NEW s \in Screens, NEW x \in Positions, NEW v, v = SetPosition(w, s, x)
  PROVE  /\ Good(v) /\ v.layers = w.layers /\ v.panels = w.panels
         /\ v = w \/ \A c \in Configs : v.configs[c] = IF w.configs[c] = "current" THEN "old"
                                                      ELSE w.configs[c]
<1>0. w \in Worlds /\ Agreed(w)  BY DEF Good
<1>1. CASE w.pos[s] = x
  BY <1>1 DEF SetPosition
<1>2. CASE w.pos[s] # x
  <2> DEFINE a == [w EXCEPT !.pos[s] = x]
             b == UpdateUsable(a, s)
             c == SendGeometry(b, s)
             d == Hear(c, s)
             e == SetRegion(d)
  <2>1. v = UpdateManagers(e)
    BY <1>2 DEF SetPosition
  <2>2. /\ a \in Worlds /\ a.pos = [w.pos EXCEPT ![s] = x] /\ a.usable = w.usable
        /\ a.seen = w.seen /\ a.heads = w.heads /\ a.pointer = w.pointer /\ a.configs = w.configs
        /\ a.layers = w.layers /\ a.panels = w.panels /\ a.heard = w.heard
        /\ a.overdue = w.overdue
    BY <1>0 DEF Worlds
  <2> HIDE DEF a
  <2>3. /\ b \in Worlds /\ b.pos = a.pos /\ b.seen = a.seen /\ b.heads = a.heads
        /\ b.pointer = a.pointer /\ b.configs = a.configs
        /\ b.layers = a.layers /\ b.panels = a.panels
        /\ b.usable[s] = Usable(a, s) /\ b.overdue = a.overdue \ {s}
        /\ \A t \in Screens \ {s} : b.usable[t] = a.usable[t] /\ b.heard[t] = a.heard[t]
        /\ \A t \in Screens : Usable(b, t) = Usable(a, t)
    <3>1. b = UpdateUsable(a, s)  OBVIOUS
    <3> HIDE DEF b
    <3>2. /\ b \in Worlds /\ Beside(b, a) /\ b.layers = a.layers /\ b.panels = a.panels
          /\ b.usable[s] = Usable(a, s) /\ b.overdue = a.overdue \ {s}
          /\ \A t \in Screens \ {s} : b.usable[t] = a.usable[t] /\ b.heard[t] = a.heard[t]
          /\ \A t \in Screens : Usable(b, t) = Usable(a, t)
      BY <3>1, <2>2, UpdateHolds
    <3> QED  BY <3>2 DEF Beside
  <2> HIDE DEF b
  <2>4. /\ c \in Worlds /\ c.pos = b.pos /\ c.seen = [b.seen EXCEPT ![s] = b.pos[s]]
        /\ c.heads = b.heads /\ c.pointer = b.pointer /\ c.configs = b.configs
        /\ c.layers = b.layers /\ c.panels = b.panels /\ c.usable = b.usable /\ c.heard = b.heard
        /\ c.overdue = b.overdue
    BY <2>3 DEF Worlds, SendGeometry
  <2> HIDE DEF c
  <2> DEFINE h == [column |-> c.pos[s], usable |-> c.usable[s]]
  <2>5. h \in [column : Positions, usable : Areas]  BY <2>4 DEF Worlds
  <2>6. d = [c EXCEPT !.heard[s] = h]  BY DEF Hear
  <2> HIDE DEF h, d
  <2>7. /\ d \in Worlds /\ d.pos = c.pos /\ d.seen = c.seen /\ d.heads = c.heads
        /\ d.pointer = c.pointer /\ d.configs = c.configs /\ d.layers = c.layers
        /\ d.panels = c.panels /\ d.usable = c.usable /\ d.heard = [c.heard EXCEPT ![s] = h]
        /\ d.overdue = c.overdue
    BY <2>4, <2>5, <2>6 DEF Worlds
  <2> DEFINE p == ClipPosition(d, d.pointer)
  <2>8. p \in Columns(d) /\ p \in Nat
    <3>1. d.pos \in [Screens -> Positions] /\ d.pointer \in Nat /\ d.pointer \in Int
      BY <2>7 DEF Worlds
    <3> QED  BY <3>1, ClipStaysInside, ColumnsFinite
  <2>9. e = [d EXCEPT !.pointer = p]
    <3>1. d = [d EXCEPT !.pointer = d.pointer]  BY <2>7 DEF Worlds
    <3> QED  BY <3>1 DEF SetRegion
  <2> HIDE DEF p, e
  <2>10. /\ e \in Worlds /\ e.pos = d.pos /\ e.seen = d.seen /\ e.heads = d.heads
         /\ e.pointer = p /\ e.configs = d.configs /\ e.layers = d.layers
         /\ e.panels = d.panels /\ e.usable = d.usable /\ e.heard = d.heard
         /\ e.overdue = d.overdue
    BY <2>7, <2>8, <2>9 DEF Worlds
  <2> DEFINE f == IF e.heads = None THEN e ELSE SendAll(e)
             k == [n \in Configs |-> IF e.configs[n] = "current" THEN "old" ELSE e.configs[n]]
  <2>11. /\ f \in Worlds /\ f.pos = e.pos /\ f.seen = e.seen
         /\ f.heads \in {None, e.pos}
         /\ f.pointer = e.pointer /\ f.configs = e.configs /\ f.layers = e.layers
         /\ f.panels = e.panels /\ f.usable = e.usable /\ f.heard = e.heard
         /\ f.overdue = e.overdue
    BY <2>10 DEF Worlds, SendAll, SendHead
  <2>12. v = [f EXCEPT !.configs = k]
    <3>1. v = [f EXCEPT !.configs = [n \in Configs |-> IF @[n] = "current" THEN "old" ELSE @[n]]]
      BY <2>1 DEF UpdateManagers
    <3>2. f.configs = e.configs  BY <2>11
    <3> QED  BY <3>1, <3>2
  <2>13. k \in [Configs -> {"none", "current", "old"}]  BY <2>10 DEF Worlds
  <2> HIDE DEF f, k
  <2>14. /\ v \in Worlds /\ v.pos = f.pos /\ v.seen = f.seen /\ v.heads = f.heads
         /\ v.pointer = f.pointer /\ v.configs = k /\ v.layers = f.layers
         /\ v.panels = f.panels /\ v.usable = f.usable /\ v.heard = f.heard
         /\ v.overdue = f.overdue
    BY <2>11, <2>12, <2>13 DEF Worlds
  <2>15. /\ v.pos = a.pos /\ v.layers = w.layers /\ v.panels = w.panels /\ v.usable = b.usable
         /\ v.overdue = w.overdue \ {s}
    BY <2>2, <2>3, <2>4, <2>7, <2>10, <2>11, <2>14
  <2>16. v.seen = v.pos
    <3>1. v.seen = [w.seen EXCEPT ![s] = a.pos[s]]
      BY <2>2, <2>3, <2>4, <2>7, <2>10, <2>11, <2>14
    <3> QED  BY <3>1, <2>2, <2>15, <1>0 DEF Agreed, Worlds
  <2>17. v.heads \in {None, v.pos}  BY <2>11, <2>14
  <2>18. v.pointer \in Columns(v)
    <3>1. Columns(v) = Columns(d)  BY <2>10, <2>11, <2>14, ColumnsDepend
    <3> QED  BY <3>1, <2>8, <2>10, <2>11, <2>14
  <2>19. ASSUME NEW t \in Screens PROVE Current(v, t) /\ Told(v, t)
    <3>1. Usable(v, t) = Usable(a, t)
      BY <2>2, <2>15, UsableDepends
    <3>2. CASE t = s
      <4>1. v.usable[t] = Usable(a, t)  BY <2>3, <2>15, <3>2
      <4>2. v.heard[t] = h
        BY <2>4, <2>7, <2>10, <2>11, <2>14, <3>2 DEF Worlds
      <4>3. h = [column |-> v.pos[t], usable |-> v.usable[t]]
        BY <2>3, <2>4, <2>15, <3>2 DEF h
      <4> QED  BY <3>1, <4>1, <4>2, <4>3 DEF Told, Current
    <3>3. CASE t # s
      <4>1. v.usable[t] = w.usable[t] /\ v.pos[t] = w.pos[t]
        BY <2>2, <2>3, <2>15, <3>3 DEF Worlds
      <4>2. v.heard[t] = w.heard[t]
        <5>1. v.heard = [c.heard EXCEPT ![s] = h]  BY <2>7, <2>10, <2>11, <2>14
        <5>2. c.heard[t] = w.heard[t]  BY <2>2, <2>3, <2>4, <3>3
        <5> QED  BY <5>1, <5>2, <2>4, <3>3 DEF Worlds
      <4>3. Current(w, t) /\ Told(w, t)  BY <1>0 DEF Agreed
      <4>4. Usable(a, t) = Usable(w, t)
        <5>1. a.pos[t] = w.pos[t]  BY <2>15, <4>1
        <5>2. Modified(a, t) = Modified(w, t)  BY <2>2 DEF Modified
        <5> QED  BY <5>1, <5>2 DEF Usable
      <4> QED  BY <2>15, <3>1, <3>3, <4>1, <4>2, <4>3, <4>4 DEF Told, Current
    <3> QED  BY <3>2, <3>3
  <2>20. Agreed(v)  BY <2>16, <2>17, <2>18, <2>19 DEF Agreed
  <2>21. \A n \in Configs : v.configs[n] = IF w.configs[n] = "current" THEN "old" ELSE w.configs[n]
    BY <2>2, <2>3, <2>4, <2>7, <2>10, <2>14 DEF k
  <2> QED  BY <2>14, <2>15, <2>20, <2>21 DEF Good
<1> QED  BY <1>1, <1>2

Zones(w, s) == {Whole} \cup Modified(w, s)

LEMMA ZonesDecide ==
  ASSUME NEW v, NEW w, NEW s, v.pos[s] = w.pos[s], Zones(v, s) = Zones(w, s)
  PROVE  Usable(v, s) = Usable(w, s)
  BY DEF Zones, Usable

\* v is w with another record for the layer surface l.
Relayered(v, w, l, x) ==
    /\ v \in Worlds /\ Beside(v, w) /\ v.usable = w.usable /\ v.heard = w.heard
    /\ v.panels = w.panels /\ v.layers = [w.layers EXCEPT ![l] = x] /\ v.overdue = w.overdue

\* A surface takes its zone off its own screen alone,
LEMMA ZonesElsewhere ==
  ASSUME NEW v, NEW w \in Worlds, NEW l \in Layers, NEW x, Relayered(v, w, l, x), NEW s \in Screens,
         x.screen # s, w.layers[l].screen # s
  PROVE  Zones(v, s) = Zones(w, s)
<1>1. \A k \in Layers : k # l => v.layers[k] = w.layers[k]
  BY DEF Relayered, Worlds
<1>2. v.layers[l] = x  BY DEF Relayered, Worlds
<1>3. {k \in Layers : v.layers[k].screen = s} = {k \in Layers : w.layers[k].screen = s}
  BY <1>1, <1>2
<1>4. \A k \in {k \in Layers : w.layers[k].screen = s} : v.layers[k] = w.layers[k]
  BY <1>1
<1>5. {ModifyByLayer(v.layers[k]) : k \in {n \in Layers : v.layers[n].screen = s}}
        = {ModifyByLayer(w.layers[k]) : k \in {n \in Layers : w.layers[n].screen = s}}
  BY <1>3, <1>4
<1> QED  BY <1>5 DEF Relayered, Zones, Modified

\* and as long as it takes the same, or none before and after, the area stays.
LEMMA ZonesStay ==
  ASSUME NEW v, NEW w \in Worlds, NEW l \in Layers, NEW x, Relayered(v, w, l, x), NEW s \in Screens,
         \/ x.screen = w.layers[l].screen /\ ModifyByLayer(x) = ModifyByLayer(w.layers[l])
         \/ w.layers[l].screen # s /\ ModifyByLayer(x) = Whole
  PROVE  Zones(v, s) = Zones(w, s)
<1> DEFINE Of(y) == {ModifyByLayer(y.layers[k]) : k \in {n \in Layers : y.layers[n].screen = s}}
<1>1. \A k \in Layers : k # l => v.layers[k] = w.layers[k]
  BY DEF Relayered, Worlds
<1>2. v.layers[l] = x  BY DEF Relayered, Worlds
<1>3. ASSUME NEW m \in Of(v) PROVE m \in Of(w) \cup {Whole}
  <2>1. PICK k \in Layers : v.layers[k].screen = s /\ m = ModifyByLayer(v.layers[k])  OBVIOUS
  <2>2. CASE k = l
    BY <2>1, <2>2, <1>2
  <2>3. CASE k # l
    BY <2>1, <2>3, <1>1
  <2> QED  BY <2>2, <2>3
<1>4. ASSUME NEW m \in Of(w) PROVE m \in Of(v) \cup {Whole}
  <2>1. PICK k \in Layers : w.layers[k].screen = s /\ m = ModifyByLayer(w.layers[k])  OBVIOUS
  <2>2. CASE k = l
    BY <2>1, <2>2, <1>2
  <2>3. CASE k # l
    BY <2>1, <2>3, <1>1
  <2> QED  BY <2>2, <2>3
<1>5. {Whole} \cup Of(v) = {Whole} \cup Of(w)
  <2> HIDE DEF Of
  <2> QED  BY <1>3, <1>4
<1>6. /\ Modified(v, s) = Of(v) \cup {ModifyByPanel(v.panels[p]) : p \in {q \in Panels : v.panels[q].screen = s}}
      /\ Modified(w, s) = Of(w) \cup {ModifyByPanel(w.panels[p]) : p \in {q \in Panels : w.panels[q].screen = s}}
  BY DEF Modified
<1> HIDE DEF Of
<1> QED  BY <1>5, <1>6 DEF Relayered, Zones

\* What changes zones on one screen is seen everywhere once that screen is updated.
LEMMA UpdateAgrees ==
  ASSUME NEW w \in Worlds, Agreed(w), NEW u \in Worlds, Beside(u, w), u.usable = w.usable,
         u.heard = w.heard, w.overdue \subseteq u.overdue, NEW s \in Screens,
         \A t \in Screens \ {s} : t \in u.overdue \/ Zones(u, t) = Zones(w, t),
         NEW v, v = UpdateUsable(u, s)
  PROVE  /\ v \in Worlds /\ Agreed(v)
         /\ v.layers = u.layers /\ v.panels = u.panels /\ v.pos = u.pos /\ v.configs = u.configs
<1>1. /\ v \in Worlds /\ Beside(v, u) /\ v.layers = u.layers /\ v.panels = u.panels
      /\ v.usable[s] = Usable(u, s) /\ v.overdue = u.overdue \ {s}
      /\ Told(u, s) => Told(v, s)
      /\ \A t \in Screens \ {s} : v.usable[t] = u.usable[t] /\ v.heard[t] = u.heard[t]
      /\ \A t \in Screens : Usable(v, t) = Usable(u, t)
  BY UpdateHolds
<1>2. v.pos = w.pos /\ v.seen = w.seen /\ v.heads = w.heads /\ v.pointer = w.pointer
      /\ v.configs = w.configs /\ u.pos = w.pos /\ u.configs = w.configs
  BY <1>1 DEF Beside
<1>3. ASSUME NEW t \in Screens PROVE Current(v, t) /\ Told(v, t)
  <2>1. Current(w, t) /\ Told(w, t)  BY DEF Agreed
  <2>2. Told(u, t)  BY <2>1, <1>2 DEF Told
  <2>3. CASE t = s
    BY <1>1, <2>2, <2>3 DEF Current
  <2>4. CASE t # s
    <3>1. t \in u.overdue \/ Usable(u, t) = Usable(w, t)  BY <2>4, <1>2, ZonesDecide
    <3>2. Told(v, t)  BY <1>1, <1>2, <2>2, <2>4 DEF Told
    <3> QED  BY <1>1, <2>1, <2>4, <3>1, <3>2 DEF Current
  <2> QED  BY <2>3, <2>4
<1>4. Columns(v) = Columns(w)  BY <1>2, ColumnsDepend
<1> QED  BY <1>1, <1>2, <1>3, <1>4 DEF Agreed

\* What changes no zone leaves everybody right.
LEMMA NothingMoves ==
  ASSUME NEW w \in Worlds, Agreed(w), NEW u \in Worlds, Beside(u, w), u.usable = w.usable,
         u.heard = w.heard, w.overdue \subseteq u.overdue,
         \A t \in Screens : t \in u.overdue \/ Zones(u, t) = Zones(w, t)
  PROVE  Agreed(u)
<1>1. u.pos = w.pos /\ u.seen = w.seen /\ u.heads = w.heads /\ u.pointer = w.pointer
  BY DEF Beside
<1>2. ASSUME NEW t \in Screens PROVE Current(u, t) /\ Told(u, t)
  <2>1. t \in u.overdue \/ Usable(u, t) = Usable(w, t)  BY <1>1, ZonesDecide
  <2>2. Current(w, t) /\ Told(w, t)  BY DEF Agreed
  <2> QED  BY <1>1, <2>1, <2>2 DEF Told, Current
<1>3. Columns(u) = Columns(w)  BY <1>1, ColumnsDepend
<1> QED  BY <1>1, <1>2, <1>3 DEF Agreed

\* A surface is given another record and its screen is updated.
LEMMA LayerUpdated ==
  ASSUME NEW w \in Worlds, Agreed(w), NEW l \in Layers, NEW x, NEW u, Relayered(u, w, l, x),
         NEW s \in Screens, w.layers[l].screen = s, x.screen \in {s, None}, NEW v, v = UpdateUsable(u, s)
  PROVE  /\ v \in Worlds /\ Agreed(v) /\ v.layers = [w.layers EXCEPT ![l] = x]
         /\ v.pos = w.pos /\ v.configs = w.configs
<1>1. \A t \in Screens \ {s} : Zones(u, t) = Zones(w, t)
  <2> SUFFICES ASSUME NEW t \in Screens, t # s PROVE Zones(u, t) = Zones(w, t)
    OBVIOUS
  <2>1. x.screen # t /\ w.layers[l].screen # t  BY OutputsAssumption
  <2> QED  BY <2>1, ZonesElsewhere
<1>2. /\ u \in Worlds /\ Beside(u, w) /\ u.usable = w.usable /\ u.heard = w.heard
      /\ u.layers = [w.layers EXCEPT ![l] = x] /\ u.pos = w.pos /\ u.configs = w.configs
      /\ w.overdue \subseteq u.overdue
  BY DEF Relayered, Beside
<1> QED  BY <1>1, <1>2, UpdateAgrees

\* The heights and rows that are worked out for a surface.
LEMMA HeightsType ==
  ASSUME NEW x \in LayerType
  PROVE  RowOf(x) \in Int /\ ConfigureSize(x.state) \in 0 .. Height
<1>1. RowOf(x) \in Int
  BY OutputsAssumption DEF RowOf, LayerType, LayerStates
<1>2. x.state.margin \in Nat /\ x.state.desired \in 0 .. Height /\ Height \in Nat
  BY OutputsAssumption DEF LayerType, LayerStates
<1>3. Max({Height - 2 * x.state.margin, 0}) \in 0 .. Height
  <2> DEFINE rest == Height - 2 * x.state.margin
  <2>1. rest \in Int /\ rest <= Height  BY <1>2
  <2> HIDE DEF rest
  <2>2. {rest, 0} \in SUBSET Int /\ IsFiniteSet({rest, 0})
    <3>1. IsFiniteSet({rest}) /\ IsFiniteSet({rest} \cup {0})  BY FS_Singleton, FS_AddElement
    <3>2. {rest, 0} = {rest} \cup {0}  OBVIOUS
    <3> QED  BY <2>1, <3>1, <3>2
  <2>3. Max({rest, 0}) \in {rest, 0} /\ \A y \in {rest, 0} : y <= Max({rest, 0})
    BY <2>2, FiniteExtremes
  <2> QED  BY <1>2, <2>1, <2>3 DEF rest
<1> QED  BY <1>1, <1>2, <1>3 DEF ConfigureSize

LEMMA Rerecord ==
  ASSUME NEW w \in Worlds, NEW l \in Layers, NEW x \in {NoLayer} \cup LayerType
  PROVE  Relayered([w EXCEPT !.layers[l] = x], w, l, x)
  BY DEF Relayered, Worlds, Beside

LEMMA RerecordTwice ==
  ASSUME NEW w \in Worlds, NEW l \in Layers, NEW x, NEW y, NEW u, NEW v,
         Relayered(u, w, l, y), Relayered(v, u, l, x)
  PROVE  Relayered(v, w, l, x)
  BY DEF Relayered, Beside, Worlds

\* UpdatePosition() is another record for the surface, which has its row.
LEMMA PositionRerecords ==
  ASSUME NEW w \in Worlds, NEW l \in Layers, NEW y \in LayerType, NEW u, Relayered(u, w, l, y)
  PROVE  /\ Relayered(UpdatePosition(u, l), w, l, [y EXCEPT !.row = RowOf(y)])
         /\ [y EXCEPT !.row = RowOf(y)] \in LayerType
<1> DEFINE x == [y EXCEPT !.row = RowOf(y)]
<1>1. u \in Worlds /\ u.layers[l] = y  BY DEF Relayered, Worlds
<1>2. x \in LayerType  BY HeightsType DEF LayerType
<1>3. UpdatePosition(u, l) = [u EXCEPT !.layers[l] = x]
  BY <1>1 DEF UpdatePosition, Worlds
<1> HIDE DEF x
<1>4. Relayered([u EXCEPT !.layers[l] = x], u, l, x)  BY <1>1, <1>2, Rerecord
<1>5. Relayered(UpdatePosition(u, l), w, l, x)  BY <1>3, <1>4, RerecordTwice
<1> QED  BY <1>2, <1>5 DEF x

LEMMA RowStays ==
  ASSUME NEW y \in LayerType, NEW n \in Int
  PROVE  RowOf([y EXCEPT !.row = n]) = RowOf(y)
  BY DEF RowOf, LayerType

\* The layer surface l has a role, and the call left the layout and configurations.
Serves(v, w, l) ==
    /\ Good(v) /\ v.layers[l] \in LayerType /\ v.pos = w.pos /\ v.configs = w.configs

LEMMA LayerGood ==
  ASSUME NEW w, Good(w), NEW l \in Layers, NEW x, NEW v \in Worlds, Agreed(v),
         v.layers = [w.layers EXCEPT ![l] = x], x = NoLayer \/ Anchored(x)
  PROVE  Good(v)
<1>1. \A k \in Layers : v.layers[k] = IF k = l THEN x ELSE w.layers[k]
  BY DEF Good, Worlds
<1> QED  BY <1>1 DEF Good

\* view_set_size() of a layer surface
LEMMA ResizeHolds ==
  ASSUME NEW w, Good(w), NEW l \in Layers, w.layers[l] \in LayerType, NEW size \in Sizes \cup {0},
         NEW v, v = HandleResize(w, l, size)
  PROVE  Serves(v, w, l)
<1>1. CASE w.layers[l].size = size
  BY <1>1 DEF HandleResize, Serves
<1>2. CASE w.layers[l].size # size
  <2> DEFINE y == [w.layers[l] EXCEPT !.size = size]
             x == [y EXCEPT !.row = RowOf(y)]
             a == [w EXCEPT !.layers[l] = y]
             u == UpdatePosition(a, l)
  <2>1. w \in Worlds /\ Agreed(w)  BY DEF Good
  <2>2. y \in LayerType /\ y.screen = w.layers[l].screen /\ y.screen \in Screens
    BY DEF LayerType
  <2>3. a = [w EXCEPT !.layers[l].size = size]  BY DEF Worlds
  <2>4. v = UpdateLayer(u, l)  BY <1>2, <2>3 DEF HandleResize
  <2> HIDE DEF y
  <2>5. Relayered(a, w, l, y)  BY <2>1, <2>2, Rerecord
  <2> HIDE DEF a
  <2>6. Relayered(u, w, l, x) /\ x \in LayerType
    BY <2>1, <2>2, <2>5, PositionRerecords
  <2>7. x.row = RowOf(x) /\ x.screen = y.screen
    BY <2>2, RowStays, HeightsType DEF LayerType
  <2>8. /\ w.layers[l].configured => w.layers[l].told = ConfigureSize(w.layers[l].state)
    <3>1. w.layers[l] # NoLayer
      BY OutputsAssumption DEF NoLayer, LayerType
    <3> QED  BY <3>1 DEF Good, Anchored
  <2>9. Anchored(x)
    <3>1. x.configured = w.layers[l].configured /\ x.told = w.layers[l].told
          /\ x.state = w.layers[l].state
      BY <2>2 DEF LayerType, y
    <3> QED  BY <3>1, <2>7, <2>8 DEF Anchored
  <2> HIDE DEF x, u
  <2>10. u.layers[l] = x  BY <2>1, <2>6 DEF Relayered, Worlds
  <2>11. v = UpdateUsable(u, y.screen)  BY <2>4, <2>7, <2>10 DEF UpdateLayer
  <2>12. /\ v \in Worlds /\ Agreed(v) /\ v.layers = [w.layers EXCEPT ![l] = x]
         /\ v.pos = w.pos /\ v.configs = w.configs
    BY <2>1, <2>2, <2>6, <2>7, <2>11, LayerUpdated
  <2>13. v.layers[l] = x  BY <2>1, <2>12 DEF Worlds
  <2> QED  BY <2>6, <2>9, <2>12, <2>13, LayerGood DEF Serves
<1> QED  BY <1>1, <1>2

\* view_attach() of a layer surface
LEMMA AttachHolds ==
  ASSUME NEW w, Good(w), NEW l \in Layers, w.layers[l] \in LayerType,
         NEW v, v = HandleAttach(w, l)
  PROVE  Serves(v, w, l)
<1> DEFINE old == w.layers[l]
           mapped == old.size > 0
           y == IF mapped THEN [old EXCEPT !.row = RowOf(old)] ELSE old
           x == [y EXCEPT !.mapped = mapped]
           a == IF mapped THEN UpdatePosition(w, l) ELSE w
           u == [a EXCEPT !.layers[l].mapped = mapped]
<1>1. w \in Worlds /\ Agreed(w)  BY DEF Good
<1>2. v = UpdateLayer(u, l)  BY DEF HandleAttach
<1>3. Relayered(w, w, l, old)
  BY <1>1 DEF Relayered, Worlds, Beside
<1>4. Relayered(a, w, l, y) /\ y \in LayerType
  <2>1. CASE mapped
    <3>1. old \in LayerType  OBVIOUS
    <3> HIDE DEF old
    <3>2. Relayered(UpdatePosition(w, l), w, l, [old EXCEPT !.row = RowOf(old)])
          /\ [old EXCEPT !.row = RowOf(old)] \in LayerType
      BY <1>1, <1>3, <3>1, PositionRerecords
    <3> QED  BY <2>1, <3>2
  <2>2. CASE ~mapped
    BY <2>2, <1>3
  <2> QED  BY <2>1, <2>2
<1>5. /\ y.configured = old.configured /\ y.told = old.told /\ y.state = old.state
      /\ y.screen = old.screen /\ y.acked = old.acked /\ y.size = old.size
      /\ mapped => y.row = RowOf(old)
  <2>1. CASE mapped
    BY <2>1 DEF LayerType
  <2>2. CASE ~mapped
    BY <2>2
  <2> QED  BY <2>1, <2>2
<1>6. mapped \in BOOLEAN  OBVIOUS
<1>7. /\ old.configured => old.told = ConfigureSize(old.state)
  <2>1. w.layers[l] # NoLayer
    BY OutputsAssumption DEF NoLayer, LayerType
  <2> QED  BY <2>1 DEF Good, Anchored
<1> HIDE DEF mapped, y, a, old
<1>8. /\ x \in LayerType /\ x.configured = y.configured /\ x.told = y.told /\ x.state = y.state
      /\ x.screen = y.screen /\ x.acked = y.acked /\ x.row = y.row /\ x.mapped = mapped
      /\ x.size = y.size
  BY <1>4, <1>6 DEF LayerType
<1>9. RowOf(x) = RowOf(old)  BY <1>5, <1>8 DEF RowOf
<1>10. Anchored(x)  BY <1>5, <1>7, <1>8, <1>9 DEF Anchored
<1>11. a \in Worlds /\ a.layers[l] = y  BY <1>1, <1>4 DEF Relayered, Worlds
<1>12. u = [a EXCEPT !.layers[l] = x]  BY <1>11 DEF Worlds
<1> HIDE DEF x, u
<1>13. Relayered(u, w, l, x)
  <2>1. Relayered(u, a, l, x)  BY <1>8, <1>11, <1>12, Rerecord
  <2> QED  BY <1>1, <1>4, <2>1, RerecordTwice
<1>14. u.layers[l] = x  BY <1>1, <1>13 DEF Relayered, Worlds
<1>15. x.screen \in Screens /\ w.layers[l].screen = x.screen
  BY <1>5, <1>8 DEF LayerType, old
<1>16. v = UpdateUsable(u, x.screen)  BY <1>2, <1>14 DEF UpdateLayer
<1>17. /\ v \in Worlds /\ Agreed(v) /\ v.layers = [w.layers EXCEPT ![l] = x]
       /\ v.pos = w.pos /\ v.configs = w.configs
  BY <1>1, <1>13, <1>15, <1>16, LayerUpdated
<1>18. v.layers[l] = x  BY <1>1, <1>17 DEF Worlds
<1> QED  BY <1>8, <1>10, <1>17, <1>18, LayerGood DEF Serves

\* A commit of a layer surface: the configure asks for what the new state wants.
LEMMA CommitHolds ==
  ASSUME NEW w, Good(w), NEW l \in Layers, w.layers[l] \in LayerType, NEW st \in States,
         NEW v, v = HandleCommit(w, l, st)
  PROVE  Serves(v, w, l)
<1> DEFINE old == w.layers[l]
           y == [old EXCEPT !.state = st]
           a == TakeState(w, l, st)
           x == [y EXCEPT !.told = ConfigureSize(st), !.acked = FALSE, !.configured = TRUE]
<1>1. w \in Worlds /\ Agreed(w)  BY DEF Good
<1>2. CASE ~(~old.configured \/ StateChanged(w, l, st))
  BY <1>2 DEF HandleCommit, Serves
<1>3. CASE ~old.configured \/ StateChanged(w, l, st)
  <2>1. v = SendConfigure(a, l)  BY <1>3 DEF HandleCommit
  <2>2. /\ y \in LayerType /\ y.screen = old.screen /\ y.screen \in Screens /\ y.state = st
        /\ y.mapped = old.mapped
    BY OutputsAssumption DEF LayerType
  <2>3. ConfigureSize(st) \in 0 .. Height
    BY <2>2, HeightsType
  <2>4. /\ x \in LayerType /\ x.state = st /\ x.told = ConfigureSize(st) /\ x.acked = FALSE
        /\ x.screen = y.screen /\ x.mapped = y.mapped /\ x.size = y.size
    <3> HIDE DEF y
    <3> QED  BY <2>2, <2>3 DEF LayerType
  <2>5. Anchored(x)  BY <2>4 DEF Anchored
  <2>6. a \in Worlds /\ Agreed(a) /\ a.layers = [w.layers EXCEPT ![l] = y]
        /\ a.pos = w.pos /\ a.configs = w.configs
    <3>1. CASE StateChanged(w, l, st)
      <4> DEFINE u == [w EXCEPT !.layers[l] = y]
      <4>1. u = [w EXCEPT !.layers[l].state = st]  BY DEF Worlds
      <4>2. a = UpdateLayer(u, l)  BY <3>1, <4>1 DEF TakeState
      <4>3. w.layers[l].screen = y.screen  BY <2>2
      <4> HIDE DEF y
      <4>4. Relayered(u, w, l, y)  BY <1>1, <2>2, Rerecord
      <4> HIDE DEF u
      <4>5. u.layers[l] = y  BY <1>1, <4>4 DEF Relayered, Worlds
      <4> DEFINE s == y.screen
      <4>6. a = UpdateUsable(u, s)  BY <4>2, <4>5 DEF UpdateLayer
      <4>7. s \in Screens /\ w.layers[l].screen = s /\ y.screen \in {s, None}  BY <2>2, <4>3
      <4> HIDE DEF s, a, old
      <4> QED  BY <1>1, <4>4, <4>6, <4>7, LayerUpdated
    <3>2. CASE ~StateChanged(w, l, st)
      <4>1. a = w  BY <3>2 DEF TakeState
      <4>2. y = old  BY <3>2 DEF StateChanged, LayerType
      <4>3. w.layers = [w.layers EXCEPT ![l] = w.layers[l]]  BY <1>1 DEF Worlds
      <4> QED  BY <1>1, <4>1, <4>2, <4>3
    <3> QED  BY <3>1, <3>2
  <2> HIDE DEF y, a
  <2>7. a.layers[l] = y  BY <1>1, <2>6 DEF Worlds
  <2>8. v = [a EXCEPT !.layers[l] = x]
    <3> DEFINE c == ConfigureSize(st)
               a1 == [a EXCEPT !.layers[l].told = c]
               a2 == [a1 EXCEPT !.layers[l].acked = FALSE]
               a3 == [a2 EXCEPT !.layers[l].configured = TRUE]
               y1 == [y EXCEPT !.told = c]
               y2 == [y1 EXCEPT !.acked = FALSE]
               y3 == [y2 EXCEPT !.configured = TRUE]
    <3>1. v = a3  BY <2>1, <2>2, <2>7 DEF SendConfigure
    <3>2. y3 = x  OBVIOUS
    <3> HIDE DEF x, c
    <3>3. a1 = [a EXCEPT !.layers[l] = y1]  BY <2>6, <2>7 DEF Worlds
    <3>4. a2 = [a1 EXCEPT !.layers[l] = y2] /\ a1.layers[l] = y1
      BY <2>6, <3>3 DEF Worlds
    <3>5. a3 = [a2 EXCEPT !.layers[l] = y3] /\ a2.layers[l] = y2
      BY <2>6, <3>3, <3>4 DEF Worlds
    <3> HIDE DEF a1, a2, a3, y1, y2, y3
    <3>6. a3 = [a EXCEPT !.layers[l] = y3]
      BY <2>6, <3>3, <3>4, <3>5 DEF Worlds
    <3> QED  BY <3>1, <3>2, <3>6
  <2>9. ModifyByLayer(x) = ModifyByLayer(y)
    BY <2>2, <2>4 DEF ModifyByLayer, ExclusiveSize, ExclusiveEdge
  <2> HIDE DEF x
  <2>10. Relayered(v, a, l, x)  BY <2>4, <2>6, <2>8, Rerecord
  <2>11. \A t \in Screens : Zones(v, t) = Zones(a, t)
    <3> SUFFICES ASSUME NEW t \in Screens PROVE Zones(v, t) = Zones(a, t)
      OBVIOUS
    <3>1. x.screen = a.layers[l].screen /\ ModifyByLayer(x) = ModifyByLayer(a.layers[l])
      BY <2>4, <2>7, <2>9
    <3>2. \/ x.screen = a.layers[l].screen /\ ModifyByLayer(x) = ModifyByLayer(a.layers[l])
          \/ a.layers[l].screen # t /\ ModifyByLayer(x) = Whole
      BY <3>1
    <3>3. a \in Worlds  BY <2>6
    <3> QED  BY <2>10, <3>2, <3>3, ZonesStay
  <2>12. /\ v \in Worlds /\ Beside(v, a) /\ v.usable = a.usable /\ v.heard = a.heard
         /\ a.overdue \subseteq v.overdue
         /\ v.layers = [a.layers EXCEPT ![l] = x] /\ v.pos = w.pos /\ v.configs = w.configs
    BY <2>6, <2>10 DEF Relayered, Beside
  <2>13. Agreed(v)  BY <2>6, <2>11, <2>12, NothingMoves
  <2>14. v.layers = [w.layers EXCEPT ![l] = x] /\ v.layers[l] = x
    BY <1>1, <2>6, <2>12 DEF Worlds
  <2> QED  BY <2>4, <2>5, <2>12, <2>13, <2>14, LayerGood DEF Serves
<1> QED  BY <1>2, <1>3

\* A call left the layout alone, or whoever configures it has an old serial.
Forward(v) ==
    \/ v.pos = pos /\ v.configs = configs
    \/ \A c \in Configs : v.configs[c] = IF configs[c] = "current" THEN "old" ELSE configs[c]

\* The loop of config_finish() as the proof sees it: the layouts after each of its rounds.
Rounds(g, named, column, m) ==
    g = [n \in 0 .. m |-> IF n = 0 THEN World
                          ELSE SetPosition(g[n - 1], named[n], column[named[n]])]

LEMMA RoundsExist ==
  ASSUME NEW named, NEW column, NEW m \in Nat
  PROVE  \E g : Rounds(g, named, column, m)
<1> DEFINE T == {n \in Nat : ~\E g : Rounds(g, named, column, n)}
<1>1. T = {}
  <2> SUFFICES ASSUME T # {} PROVE FALSE
    OBVIOUS
  <2>1. T \in SUBSET Nat  OBVIOUS
  <2>2. PICK n \in T : \A k \in T : n <= k
    <3> HIDE DEF T
    <3> QED  BY <2>1, NatMin
  <2>3. n \in Nat /\ ~\E g : Rounds(g, named, column, n)  OBVIOUS
  <2>4. CASE n = 0
    <3> DEFINE g == [k \in 0 .. n |-> World]
    <3>1. Rounds(g, named, column, n)
      BY <2>4 DEF Rounds
    <3> QED  BY <3>1, <2>3
  <2>5. CASE n # 0
    <3>1. n - 1 \in Nat /\ n - 1 \notin T
      <4>1. n - 1 \in Nat /\ ~(n <= n - 1)  BY <2>3, <2>5
      <4> HIDE DEF T
      <4> QED  BY <4>1, <2>2
    <3>2. PICK g : Rounds(g, named, column, n - 1)  BY <3>1
    <3> DEFINE last == SetPosition(g[n - 1], named[n], column[named[n]])
               h == [k \in 0 .. n |-> IF k = n THEN last ELSE g[k]]
    <3>3. \A k \in 0 .. n - 1 : h[k] = g[k]  BY <2>3
    <3>4. \A k \in 0 .. n - 1 : g[k] = IF k = 0 THEN World
                                       ELSE SetPosition(g[k - 1], named[k], column[named[k]])
      BY <3>2 DEF Rounds
    <3>5. h[n] = last  BY <2>3
    <3>6. ASSUME NEW k \in 0 .. n
          PROVE  h[k] = IF k = 0 THEN World ELSE SetPosition(h[k - 1], named[k], column[named[k]])
      <4>1. CASE k = n
        <5>1. h[n - 1] = g[n - 1]  BY <2>3, <2>5, <3>3
        <5> HIDE DEF h
        <5> QED  BY <4>1, <2>5, <3>5, <5>1
      <4>2. CASE k # n
        <5>1. k \in 0 .. n - 1 /\ (k # 0 => k - 1 \in 0 .. n - 1)  BY <2>3, <4>2
        <5>2. h[k] = g[k] /\ (k # 0 => h[k - 1] = g[k - 1])  BY <5>1, <3>3
        <5>3. g[k] = IF k = 0 THEN World ELSE SetPosition(g[k - 1], named[k], column[named[k]])
          BY <3>4, <5>1
        <5> HIDE DEF h
        <5> QED  BY <5>2, <5>3
      <4> QED  BY <4>1, <4>2
    <3>7. h = [k \in 0 .. n |-> h[k]]  OBVIOUS
    <3> HIDE DEF h
    <3>8. h = [k \in 0 .. n |-> IF k = 0 THEN World
                                ELSE SetPosition(h[k - 1], named[k], column[named[k]])]
      BY <3>6, <3>7
    <3>9. Rounds(h, named, column, n)  BY <3>8 DEF Rounds
    <3> QED  BY <3>9, <2>3
  <2> QED  BY <2>4, <2>5
<1> QED  BY <1>1

LEMMA MovedIsLast ==
  ASSUME NEW named, NEW column, Len(named) \in Nat
  PROVE  \E g : Rounds(g, named, column, Len(named)) /\ Moved(named, column) = g[Len(named)]
<1> DEFINE g == CHOOSE g : Rounds(g, named, column, Len(named))
<1>1. Rounds(g, named, column, Len(named))  BY RoundsExist
<1>2. Moved(named, column) = g[Len(named)]
  BY DEF Moved, Rounds
<1> QED  BY <1>1, <1>2

\* The invariant: the world is as everybody was told, and who configures another
\* layout has an old serial.
LayoutInv ==
    /\ Good(World)
    /\ outdated \subseteq Configs
    /\ \A c \in outdated : configs[c] = "old"

\* What LayoutInv says of the variables.
LEMMA WorldIs ==
    /\ World.pos = pos /\ World.usable = usable /\ World.heard = heard /\ World.seen = seen
    /\ World.heads = heads /\ World.pointer = pointer /\ World.layers = layers
    /\ World.panels = panels /\ World.configs = configs /\ World.overdue = overdue
  BY DEF World

\* One screen after the other: each finds the layout the one before it left.
LEMMA MovedHolds ==
  ASSUME LayoutInv, NEW named \in Orders, NEW column \in Asked, IsValid(named, column)
  PROVE  Good(Moved(named, column)) /\ Forward(Moved(named, column))
<1>1. named \in [1 .. Cardinality(Screens) -> Screens] /\ Cardinality(Screens) \in Nat
  BY OutputsAssumption, FS_CardinalityType DEF Orders, SetToSeqs
<1>2. Len(named) = Cardinality(Screens)  BY <1>1
<1>3. \A n \in 1 .. Len(named) : named[n] \in Screens /\ column[named[n]] \in Positions
  BY <1>1, <1>2 DEF IsValid, Asked
<1>4. PICK g : Rounds(g, named, column, Len(named)) /\ Moved(named, column) = g[Len(named)]
  BY <1>1, <1>2, MovedIsLast
<1> DEFINE rounds == Len(named)
           T == {n \in 0 .. rounds : ~(Good(g[n]) /\ Forward(g[n]))}
<1>5. T = {}
  <2> SUFFICES ASSUME T # {} PROVE FALSE
    OBVIOUS
  <2>1. T \in SUBSET Nat  OBVIOUS
  <2>2. PICK n \in T : \A k \in T : n <= k
    <3> HIDE DEF T
    <3> QED  BY <2>1, NatMin
  <2>3. n \in 0 .. rounds /\ ~(Good(g[n]) /\ Forward(g[n]))  OBVIOUS
  <2>4. g[n] = IF n = 0 THEN World ELSE SetPosition(g[n - 1], named[n], column[named[n]])
    BY <1>4, <2>3 DEF Rounds
  <2>5. CASE n = 0
    <3>1. Forward(World)  BY WorldIs DEF Forward
    <3> QED  BY <3>1, <2>3, <2>4, <2>5 DEF LayoutInv
  <2>6. CASE n # 0
    <3>1. n - 1 \in 0 .. rounds /\ ~(n <= n - 1) /\ n \in 1 .. rounds  BY <1>1, <1>2, <2>3, <2>6
    <3>2. n - 1 \notin T
      <4> HIDE DEF T
      <4> QED  BY <2>2, <3>1
    <3>3. Good(g[n - 1]) /\ Forward(g[n - 1])  BY <3>1, <3>2
    <3> DEFINE w == g[n - 1]
               v == g[n]
               s == named[n]
               x == column[named[n]]
    <3>4. v = SetPosition(w, s, x) /\ s \in Screens /\ x \in Positions
      BY <2>4, <2>6, <3>1, <1>3
    <3>5. Good(w) /\ Forward(w)  BY <3>3
    <3>6. ~(Good(v) /\ Forward(v))  BY <2>3
    <3> HIDE DEF w, v, s, x
    <3>7. /\ Good(v)
          /\ v = w \/ \A c \in Configs : v.configs[c] = IF w.configs[c] = "current" THEN "old"
                                                        ELSE w.configs[c]
      BY <3>4, <3>5, SetPositionHolds
    <3>8. Forward(v)  BY <3>5, <3>7 DEF Forward
    <3> QED  BY <3>6, <3>7, <3>8
  <2> QED  BY <2>5, <2>6
<1>6. Len(named) \in 0 .. rounds  BY <1>1, <1>2
<1>7. Len(named) \notin T  BY <1>5
<1> QED  BY <1>4, <1>6, <1>7

\* The configurations after a step, and those of another layout among them.
LEMMA BecomesHolds ==
  ASSUME LayoutInv, NEW v, Good(v), Becomes(v),
         v.pos = pos \/ \A c \in Configs : v.configs[c] # "current",
         \A c \in outdated : v.configs[c] # "current"
  PROVE  LayoutInv'
<1>1. v \in Worlds  BY DEF Good
<1>2. World' = v
  BY <1>1 DEF World, Worlds, Becomes
<1>3. \A c \in Configs : v.configs[c] \in {"none", "current", "old"} /\ configs' = v.configs
  BY <1>1 DEF Worlds, Becomes
<1>4. outdated' = {c \in Configs : v.configs[c] # "none" /\ (c \in outdated \/ v.pos # pos)}
  BY DEF Becomes
<1> QED  BY <1>2, <1>3, <1>4 DEF LayoutInv

\* A step that leaves the layout and the configurations as they are.
LEMMA ServesHolds ==
  ASSUME LayoutInv, NEW v, Good(v), v.pos = pos, v.configs = configs, Becomes(v)
  PROVE  LayoutInv' /\ pos' = pos /\ configs' = configs
<1>1. \A c \in outdated : v.configs[c] # "current"  BY DEF LayoutInv
<1>2. pos' = pos /\ configs' = configs  BY DEF Becomes
<1> QED  BY <1>1, <1>2, BecomesHolds

-----------------------------------------------------------------------------
LEMMA LayoutInvInit == ASSUME LayoutInit PROVE LayoutInv
<1> DEFINE area(s) == [column |-> FirstPosition[s], rows |-> Whole]
<1>1. /\ pos = FirstPosition /\ usable = [s \in Screens |-> area(s)]
      /\ heard = [s \in Screens |-> [column |-> FirstPosition[s], usable |-> area(s)]]
      /\ seen = FirstPosition /\ heads = None
      /\ pointer \in {FirstPosition[s] : s \in Screens}
      /\ layers = [l \in Layers |-> NoLayer] /\ panels = [p \in Panels |-> NoPanel]
      /\ configs = [c \in Configs |-> "none"] /\ overdue = {} /\ outdated = {}
  BY DEF LayoutInit
<1>2. FirstPosition \in [Screens -> Positions] /\ \A s \in Screens : FirstPosition[s] \in Nat
  BY OutputsAssumption
<1>3. \A s \in Screens : area(s) \in Areas
  BY <1>2, OutputsAssumption DEF Areas, Whole
<1> HIDE DEF area
<1>4. pointer \in Nat  BY <1>1, <1>2
<1>5. World \in Worlds
  <2>1. usable \in [Screens -> Areas]  BY <1>1, <1>3
  <2>2. heard \in [Screens -> [column : Positions, usable : Areas]]
    BY <1>1, <1>2, <1>3
  <2>3. layers \in [Layers -> {NoLayer} \cup LayerType] /\ panels \in [Panels -> {NoPanel} \cup PanelType]
    BY <1>1
  <2>4. configs \in [Configs -> {"none", "current", "old"}]  BY <1>1
  <2> QED  BY <1>1, <1>2, <1>4, <2>1, <2>2, <2>3, <2>4 DEF World, Worlds
<1>6. pointer \in Columns(World)
  <2>1. PICK s \in Screens : pointer = FirstPosition[s]  BY <1>1
  <2>2. pointer \in World.pos[s] .. World.pos[s] + Width - 1
    BY <2>1, <1>1, <1>2, WorldIs, OutputsAssumption
  <2> QED  BY <2>2 DEF Columns
<1>7. ASSUME NEW s \in Screens PROVE Current(World, s) /\ Told(World, s)
  <2>1. Modified(World, s) = {}
    <3>1. {l \in Layers : World.layers[l].screen = s} = {}
      BY <1>1, WorldIs, OutputsAssumption DEF NoLayer
    <3>2. {p \in Panels : World.panels[p].screen = s} = {}
      BY <1>1, WorldIs, OutputsAssumption DEF NoPanel
    <3> QED  BY <3>1, <3>2 DEF Modified
  <2> DEFINE areas == {Whole} \cup Modified(World, s)
  <2>2. areas = {Whole}  BY <2>1
  <2>3. {a[1] : a \in areas} = {0} /\ {a[2] : a \in areas} = {Height}
    <3>1. Whole[1] = 0 /\ Whole[2] = Height  BY DEF Whole
    <3> HIDE DEF areas
    <3> QED  BY <2>2, <3>1
  <2>4. Max({0}) = 0 /\ Min({Height}) = Height
    <3>1. IsFiniteSet({0}) /\ IsFiniteSet({Height})  BY FS_Singleton
    <3>2. {0} \in SUBSET Int /\ {Height} \in SUBSET Int  BY OutputsAssumption
    <3>3. Max({0}) \in {0} /\ Min({Height}) \in {Height}
      BY <3>1, <3>2, FiniteExtremes
    <3> QED  BY <3>3
  <2>5. Usable(World, s) = [column |-> World.pos[s],
                            rows |-> IF Max({a[1] : a \in areas}) < Min({a[2] : a \in areas})
                                     THEN <<Max({a[1] : a \in areas}), Min({a[2] : a \in areas})>>
                                     ELSE NoArea]
    BY DEF Usable
  <2> HIDE DEF areas
  <2>6. Usable(World, s) = [column |-> World.pos[s], rows |-> <<0, Height>>]
    <3>1. 0 < Height  BY OutputsAssumption
    <3>2. Max({a[1] : a \in areas}) = 0 /\ Min({a[2] : a \in areas}) = Height  BY <2>3, <2>4
    <3> QED  BY <2>5, <3>1, <3>2
  <2>7. Usable(World, s) = area(s)  BY <2>6, <1>1, WorldIs DEF area, Whole
  <2>8. Told(World, s)  BY <1>1, WorldIs DEF Told
  <2> QED  BY <1>1, <2>7, <2>8, WorldIs DEF Current
<1>8. Agreed(World)  BY <1>1, <1>6, <1>7, WorldIs DEF Agreed
<1>9. Good(World)  BY <1>1, <1>5, <1>8, WorldIs DEF Good
<1> QED  BY <1>1, <1>9 DEF LayoutInv

\* bind_output_manager() and what a manager may do
LEMMA ManagersHold ==
  ASSUME LayoutInv, BindManager \/ StopManager
  PROVE  LayoutInv' /\ pos' = pos /\ configs' = configs
<1>1. World \in Worlds /\ Good(World) /\ Agreed(World)  BY DEF LayoutInv, Good
<1> DEFINE v == IF BindManager THEN SendAll(World) ELSE [World EXCEPT !.heads = None]
           h == IF BindManager THEN [s \in Screens |-> World.pos[s]] ELSE None
<1>2. Becomes(v)  BY DEF BindManager, StopManager
<1>3. v = [World EXCEPT !.heads = h]
  BY DEF SendAll, SendHead
<1>4. h \in {None, World.pos} /\ h \in [Screens -> Positions] \cup {None}
  BY <1>1 DEF Worlds
<1> HIDE DEF v, h
<1>5. /\ v \in Worlds /\ v.heads = h /\ v.pos = World.pos /\ v.usable = World.usable
      /\ v.heard = World.heard /\ v.seen = World.seen /\ v.pointer = World.pointer
      /\ v.layers = World.layers /\ v.panels = World.panels /\ v.configs = World.configs
      /\ v.overdue = World.overdue
  BY <1>1, <1>3, <1>4 DEF Worlds
<1>6. Columns(v) = Columns(World) /\ \A s \in Screens : Usable(v, s) = Usable(World, s)
  BY <1>5, ColumnsDepend, UsableDepends
<1>7. Agreed(v)  BY <1>1, <1>4, <1>5, <1>6 DEF Agreed, Told, Current
<1>8. Good(v)  BY <1>1, <1>5, <1>7 DEF Good
<1> QED  BY <1>2, <1>5, <1>8, WorldIs, ServesHolds

\* A world with other configurations or another place of the pointer on a screen.
LEMMA Reconfigured ==
  ASSUME NEW w, Good(w), NEW k \in [Configs -> {"none", "current", "old"}]
  PROVE  /\ Good([w EXCEPT !.configs = k])
         /\ [w EXCEPT !.configs = k].configs = k /\ [w EXCEPT !.configs = k].pos = w.pos
<1> DEFINE v == [w EXCEPT !.configs = k]
<1>1. w \in Worlds /\ Agreed(w)  BY DEF Good
<1>2. /\ v \in Worlds /\ v.heads = w.heads /\ v.pos = w.pos /\ v.usable = w.usable
      /\ v.heard = w.heard /\ v.seen = w.seen /\ v.pointer = w.pointer
      /\ v.layers = w.layers /\ v.panels = w.panels /\ v.configs = k /\ v.overdue = w.overdue
  BY <1>1 DEF Worlds
<1> HIDE DEF v
<1>3. Columns(v) = Columns(w) /\ \A s \in Screens : Usable(v, s) = Usable(w, s)
  BY <1>2, ColumnsDepend, UsableDepends
<1>4. Agreed(v)  BY <1>1, <1>2, <1>3 DEF Agreed, Told, Current
<1>5. Good(v)  BY <1>2, <1>4 DEF Good
<1> QED  BY <1>2, <1>5 DEF v

LEMMA CreateConfigurationHolds ==
  ASSUME LayoutInv, NEW c \in Configs, NEW serial \in {"current", "old"},
         CreateConfiguration(c, serial)
  PROVE  LayoutInv' /\ pos' = pos
<1> DEFINE k == [configs EXCEPT ![c] = serial]
<1>1. Good(World) /\ World \in Worlds /\ configs \in [Configs -> {"none", "current", "old"}]
  BY WorldIs DEF LayoutInv, Good, Worlds
<1>2. k \in [Configs -> {"none", "current", "old"}]  BY <1>1
<1>3. World' = [World EXCEPT !.configs = k]
  BY DEF CreateConfiguration, World
<1>4. Good(World')
  <2> HIDE DEF k
  <2> QED  BY <1>1, <1>2, <1>3, Reconfigured
<1>5. /\ configs[c] = "none" /\ configs' = k
      /\ outdated' = outdated \cup IF serial = "old" THEN {c} ELSE {}
      /\ pos' = pos
  BY DEF CreateConfiguration
<1>6. \A d \in outdated' : configs'[d] = "old"
  BY <1>1, <1>5 DEF LayoutInv
<1>7. outdated' \subseteq Configs  BY <1>5 DEF LayoutInv
<1> QED  BY <1>4, <1>5, <1>6, <1>7 DEF LayoutInv

\* A configuration that is outdated moves nothing, whatever it asks for.
LEMMA ApplyHolds ==
  ASSUME LayoutInv, NEW c \in Configs, NEW named, NEW column, Apply(c, named, column),
         (named \in Orders /\ column \in Asked) \/ named = <<>>
  PROVE  LayoutInv' /\ \A d \in outdated : configs'[d] = "none" => pos' = pos
<1> DEFINE w == IF configs[c] = "current" /\ IsValid(named, column)
                THEN Moved(named, column) ELSE World
           v == [w EXCEPT !.configs[c] = "none"]
           k == [w.configs EXCEPT ![c] = "none"]
<1>1. configs[c] # "none" /\ Becomes(v)  BY DEF Apply
<1>2. IsValid(named, column) => named \in Orders /\ column \in Asked
  <2>1. ToSet(<<>>) = {}  BY DEF ToSet
  <2> QED  BY <2>1, OutputsAssumption DEF IsValid
<1>3. Good(w) /\ Forward(w) /\ (configs[c] # "current" => w = World)
  <2>1. CASE configs[c] = "current" /\ IsValid(named, column)
    BY <1>2, <2>1, MovedHolds
  <2>2. CASE ~(configs[c] = "current" /\ IsValid(named, column))
    <3>1. Forward(World)  BY WorldIs DEF Forward
    <3> QED  BY <2>2, <3>1 DEF LayoutInv
  <2> QED  BY <2>1, <2>2
<1> HIDE DEF w
<1>4. w \in Worlds /\ w.configs \in [Configs -> {"none", "current", "old"}]
  BY <1>3 DEF Good, Worlds
<1>5. k \in [Configs -> {"none", "current", "old"}]  BY <1>4
<1>6. v = [w EXCEPT !.configs = k]  OBVIOUS
<1>7. \A d \in Configs : k[d] = IF d = c THEN "none" ELSE w.configs[d]
  BY <1>4
<1> HIDE DEF k, v
<1>8. Good(v) /\ v.configs = k /\ v.pos = w.pos  BY <1>3, <1>5, <1>6, Reconfigured
<1>9. v.pos = pos \/ \A d \in Configs : v.configs[d] # "current"
  BY <1>3, <1>7, <1>8 DEF Forward
<1>10. \A d \in outdated : v.configs[d] # "current"
  BY <1>3, <1>7, <1>8 DEF Forward, LayoutInv
<1>11. LayoutInv'  BY <1>1, <1>8, <1>9, <1>10, BecomesHolds
<1>12. ASSUME NEW d \in outdated, configs'[d] = "none" PROVE pos' = pos
  <2>1. configs[d] = "old" /\ d \in Configs  BY DEF LayoutInv
  <2>2. configs' = k /\ pos' = w.pos  BY <1>1, <1>8 DEF Becomes
  <2>3. CASE d = c
    BY <1>3, <2>1, <2>2, <2>3, WorldIs
  <2>4. CASE d # c
    <3>1. w.configs[d] = "none"  BY <2>1, <2>2, <2>4, <1>7, <1>12
    <3> QED  BY <3>1, <2>1, <2>2, <1>3 DEF Forward
  <2> QED  BY <2>3, <2>4
<1> QED  BY <1>11, <1>12

LEMMA DestroyConfigurationHolds ==
  ASSUME LayoutInv, NEW c \in Configs, DestroyConfiguration(c)
  PROVE  LayoutInv' /\ pos' = pos
<1> DEFINE k == [configs EXCEPT ![c] = "none"]
           v == [World EXCEPT !.configs[c] = "none"]
<1>1. Good(World) /\ World \in Worlds /\ configs \in [Configs -> {"none", "current", "old"}]
  BY WorldIs DEF LayoutInv, Good, Worlds
<1>2. k \in [Configs -> {"none", "current", "old"}]  BY <1>1
<1>3. v = [World EXCEPT !.configs = k]  BY WorldIs
<1>4. \A d \in Configs : k[d] = IF d = c THEN "none" ELSE configs[d]  BY <1>1
<1>5. Becomes(v)  BY DEF DestroyConfiguration
<1> HIDE DEF k, v
<1>6. Good(v) /\ v.configs = k /\ v.pos = pos  BY <1>1, <1>2, <1>3, WorldIs, Reconfigured
<1>7. \A d \in outdated : v.configs[d] # "current"  BY <1>4, <1>6 DEF LayoutInv
<1>8. pos' = pos  BY <1>5, <1>6 DEF Becomes
<1> QED  BY <1>5, <1>6, <1>7, <1>8, BecomesHolds

LEMMA MovePointerHolds ==
  ASSUME LayoutInv, NEW x \in Int, MovePointer(x)
  PROVE  LayoutInv' /\ pos' = pos /\ configs' = configs
<1> DEFINE p == ClipPosition(World, x)
           v == [World EXCEPT !.pointer = p]
<1>1. World \in Worlds /\ Good(World) /\ Agreed(World)  BY DEF LayoutInv, Good
<1>2. p \in Columns(World) /\ p \in Nat
  <2>1. World.pos \in [Screens -> Positions] /\ World.pointer \in Nat  BY <1>1 DEF Worlds
  <2> QED  BY <2>1, ClipStaysInside, ColumnsFinite
<1>3. Becomes(v)  BY DEF MovePointer
<1> HIDE DEF p
<1>4. /\ v \in Worlds /\ v.heads = World.heads /\ v.pos = World.pos /\ v.usable = World.usable
      /\ v.heard = World.heard /\ v.seen = World.seen /\ v.pointer = p
      /\ v.layers = World.layers /\ v.panels = World.panels /\ v.configs = World.configs
      /\ v.overdue = World.overdue
  BY <1>1, <1>2 DEF Worlds
<1> HIDE DEF v
<1>5. Columns(v) = Columns(World) /\ \A s \in Screens : Usable(v, s) = Usable(World, s)
  BY <1>4, ColumnsDepend, UsableDepends
<1>6. Agreed(v)  BY <1>1, <1>2, <1>4, <1>5 DEF Agreed, Told, Current
<1>7. Good(v)  BY <1>1, <1>4, <1>6 DEF Good
<1> QED  BY <1>3, <1>4, <1>7, WorldIs, ServesHolds

LEMMA LayerIs ==
  ASSUME LayoutInv, NEW l \in Layers
  PROVE  /\ Good(World) /\ World \in Worlds /\ Agreed(World) /\ World.layers[l] = layers[l]
         /\ layers[l] # NoLayer => layers[l] \in LayerType
  BY WorldIs DEF LayoutInv, Good, Worlds

LEMMA GetLayerSurfaceHolds ==
  ASSUME LayoutInv, NEW l \in Layers, NEW s \in Screens, GetLayerSurface(l, s)
  PROVE  LayoutInv' /\ pos' = pos /\ configs' = configs
<1> DEFINE x == NewLayer(s)
           v == [World EXCEPT !.layers[l] = x]
<1>1. Becomes(v) /\ layers[l] = NoLayer  BY DEF GetLayerSurface
<1>2. x \in LayerType /\ x.mapped = FALSE /\ x.configured = FALSE
  BY OutputsAssumption DEF NewLayer, LayerType, LayerStates, Anchors
<1>3. ModifyByLayer(x) = Whole /\ Anchored(x)  BY <1>2 DEF ModifyByLayer, Anchored
<1> HIDE DEF x
<1>4. Relayered(v, World, l, x)  BY <1>2, LayerIs, Rerecord
<1> HIDE DEF v
<1>5. \A t \in Screens : Zones(v, t) = Zones(World, t)
  <2> SUFFICES ASSUME NEW t \in Screens PROVE Zones(v, t) = Zones(World, t)
    OBVIOUS
  <2>1. World.layers[l].screen # t  BY <1>1, LayerIs, OutputsAssumption DEF NoLayer
  <2> QED  BY <1>3, <1>4, <2>1, LayerIs, ZonesStay
<1>6. /\ v \in Worlds /\ Beside(v, World) /\ v.usable = World.usable /\ v.heard = World.heard
      /\ World.overdue \subseteq v.overdue
      /\ v.layers = [World.layers EXCEPT ![l] = x] /\ v.pos = World.pos /\ v.configs = World.configs
  BY <1>4 DEF Relayered, Beside
<1>7. Agreed(v)  BY <1>5, <1>6, LayerIs, NothingMoves
<1>8. Good(v)  BY <1>3, <1>6, <1>7, LayerIs, LayerGood
<1> QED  BY <1>1, <1>6, <1>8, WorldIs, ServesHolds

LEMMA AckConfigureHolds ==
  ASSUME LayoutInv, NEW l \in Layers, AckConfigure(l)
  PROVE  LayoutInv' /\ pos' = pos /\ configs' = configs
<1> DEFINE y == [layers[l] EXCEPT !.acked = TRUE]
           x == [y EXCEPT !.row = RowOf(y)]
           a == [World EXCEPT !.layers[l] = y]
           v == UpdatePosition(a, l)
<1>1. layers[l] # NoLayer  BY DEF AckConfigure
<1>2. layers[l] \in LayerType /\ World \in Worlds /\ Agreed(World) /\ Good(World)
      /\ World.layers[l] = layers[l]
  BY <1>1, LayerIs
<1>3. a = [World EXCEPT !.layers[l].acked = TRUE]  BY <1>2 DEF Worlds
<1>4. Becomes(v)  BY <1>3 DEF AckConfigure
<1>5. /\ y \in LayerType /\ y.screen = layers[l].screen /\ y.configured = layers[l].configured
      /\ y.told = layers[l].told /\ y.state = layers[l].state
      /\ ModifyByLayer(y) = ModifyByLayer(layers[l])
  BY <1>2 DEF LayerType, ModifyByLayer, ExclusiveSize, ExclusiveEdge
<1> HIDE DEF y
<1>6. Relayered(a, World, l, y)  BY <1>2, <1>5, Rerecord
<1> HIDE DEF a
<1>7. Relayered(v, World, l, x) /\ x \in LayerType  BY <1>2, <1>5, <1>6, PositionRerecords
<1>8. x.row = RowOf(x) /\ RowOf(y) \in Int  BY <1>5, RowStays, HeightsType DEF LayerType
<1>9. /\ x.screen = layers[l].screen /\ x.configured = layers[l].configured
      /\ x.told = layers[l].told /\ x.state = layers[l].state
      /\ ModifyByLayer(x) = ModifyByLayer(y)
  BY <1>5, <1>8 DEF LayerType, ModifyByLayer, ExclusiveSize, ExclusiveEdge
<1>10. Anchored(x)
  <2>1. Anchored(layers[l])  BY <1>1, <1>2 DEF Good
  <2> QED  BY <1>8, <1>9, <2>1 DEF Anchored
<1> HIDE DEF x, v
<1>11. \A t \in Screens : Zones(v, t) = Zones(World, t)
  <2> SUFFICES ASSUME NEW t \in Screens PROVE Zones(v, t) = Zones(World, t)
    OBVIOUS
  <2>1. x.screen = World.layers[l].screen /\ ModifyByLayer(x) = ModifyByLayer(World.layers[l])
    BY <1>2, <1>5, <1>9
  <2> QED  BY <1>2, <1>7, <2>1, ZonesStay
<1>12. /\ v \in Worlds /\ Beside(v, World) /\ v.usable = World.usable /\ v.heard = World.heard
       /\ World.overdue \subseteq v.overdue
       /\ v.layers = [World.layers EXCEPT ![l] = x] /\ v.pos = World.pos /\ v.configs = World.configs
  BY <1>7 DEF Relayered, Beside
<1>13. Agreed(v)  BY <1>2, <1>11, <1>12, NothingMoves
<1>14. Good(v)  BY <1>2, <1>10, <1>12, <1>13, LayerGood
<1> QED  BY <1>4, <1>12, <1>14, WorldIs, ServesHolds

LEMMA DestroyLayerHolds ==
  ASSUME LayoutInv, NEW l \in Layers, DestroyLayer(l)
  PROVE  LayoutInv' /\ pos' = pos /\ configs' = configs
<1> DEFINE u == [World EXCEPT !.layers[l] = NoLayer]
           s == layers[l].screen
           v == UpdateUsable(u, s)
<1>1. layers[l] # NoLayer /\ Becomes(v)  BY DEF DestroyLayer
<1>2. layers[l] \in LayerType /\ World \in Worlds /\ Agreed(World) /\ Good(World)
      /\ World.layers[l] = layers[l]
  BY <1>1, LayerIs
<1>3. Relayered(u, World, l, NoLayer)  BY <1>2, Rerecord
<1>4. s \in Screens /\ World.layers[l].screen = s  BY <1>2 DEF LayerType
<1>5. NoLayer.screen \in {s, None}  BY DEF NoLayer
<1> HIDE DEF u, s
<1>6. /\ v \in Worlds /\ Agreed(v) /\ v.layers = [World.layers EXCEPT ![l] = NoLayer]
      /\ v.pos = World.pos /\ v.configs = World.configs
  BY <1>2, <1>3, <1>4, <1>5, LayerUpdated
<1> HIDE DEF v
<1>7. Good(v)  BY <1>2, <1>6, LayerGood
<1> QED  BY <1>1, <1>6, <1>7, WorldIs, ServesHolds

LEMMA CommitsHold ==
  ASSUME LayoutInv, NEW l \in Layers, NEW st \in States,
         CommitState(l, st) \/ \E size \in Sizes \cup {0} : CommitLayer(l, st, size)
  PROVE  LayoutInv' /\ pos' = pos /\ configs' = configs
<1>1. layers[l] # NoLayer  BY DEF CommitState, CommitLayer
<1>2. Good(World) /\ World.layers[l] \in LayerType  BY <1>1, LayerIs
<1>3. CASE CommitState(l, st)
  <2> DEFINE v == HandleCommit(World, l, st)
  <2>1. Serves(v, World, l)  BY <1>2, CommitHolds
  <2>2. Becomes(v)  BY <1>3 DEF CommitState
  <2> HIDE DEF v
  <2> QED  BY <2>1, <2>2, WorldIs, ServesHolds DEF Serves
<1>4. ASSUME NEW size \in Sizes \cup {0}, CommitLayer(l, st, size)
      PROVE  LayoutInv' /\ pos' = pos /\ configs' = configs
  <2> DEFINE a == HandleResize(World, l, size)
             b == HandleAttach(a, l)
             v == HandleCommit(b, l, st)
  <2>1. Becomes(v)  BY <1>4 DEF CommitLayer
  <2>2. Serves(a, World, l)  BY <1>2, ResizeHolds
  <2> HIDE DEF a
  <2>3. Serves(b, a, l)  BY <2>2, AttachHolds DEF Serves
  <2> HIDE DEF b
  <2>4. Serves(v, b, l)  BY <2>3, CommitHolds DEF Serves
  <2> HIDE DEF v
  <2>5. Good(v) /\ v.pos = World.pos /\ v.configs = World.configs
    BY <2>2, <2>3, <2>4 DEF Serves
  <2> QED  BY <2>1, <2>5, WorldIs, ServesHolds
<1> QED  BY <1>3, <1>4

-----------------------------------------------------------------------------
\* v is w with another record for the panel p, which may leave a screen to be updated.
Repanelled(v, w, p, x) ==
    /\ w.overdue \subseteq v.overdue
    /\ v \in Worlds /\ Beside(v, w) /\ v.usable = w.usable /\ v.heard = w.heard
    /\ v.layers = w.layers /\ v.panels = [w.panels EXCEPT ![p] = x]

\* A panel that comes without a claim takes nothing, and nothing elsewhere.
LEMMA PanelZones ==
  ASSUME NEW v, NEW w \in Worlds, NEW p \in Panels, NEW x, Repanelled(v, w, p, x), NEW s \in Screens,
         w.panels[p].screen # s, x.screen # s \/ ModifyByPanel(x) = Whole
  PROVE  Zones(v, s) = Zones(w, s)
<1> DEFINE Of(y) == {ModifyByPanel(y.panels[k]) : k \in {n \in Panels : y.panels[n].screen = s}}
<1>1. \A k \in Panels : k # p => v.panels[k] = w.panels[k]
  BY DEF Repanelled, Worlds
<1>2. v.panels[p] = x  BY DEF Repanelled, Worlds
<1>3. ASSUME NEW m \in Of(v) PROVE m \in Of(w) \cup {Whole}
  <2>1. PICK k \in Panels : v.panels[k].screen = s /\ m = ModifyByPanel(v.panels[k])  OBVIOUS
  <2>2. CASE k = p
    BY <2>1, <2>2, <1>2
  <2>3. CASE k # p
    BY <2>1, <2>3, <1>1
  <2> QED  BY <2>2, <2>3
<1>4. ASSUME NEW m \in Of(w) PROVE m \in Of(v)
  <2>1. PICK k \in Panels : w.panels[k].screen = s /\ m = ModifyByPanel(w.panels[k])  OBVIOUS
  <2>2. k # p  BY <2>1
  <2> QED  BY <2>1, <2>2, <1>1
<1>5. {Whole} \cup Of(v) = {Whole} \cup Of(w)
  <2> HIDE DEF Of
  <2> QED  BY <1>3, <1>4
<1>6. /\ Modified(v, s) = {ModifyByLayer(v.layers[k]) : k \in {n \in Layers : v.layers[n].screen = s}} \cup Of(v)
      /\ Modified(w, s) = {ModifyByLayer(w.layers[k]) : k \in {n \in Layers : w.layers[n].screen = s}} \cup Of(w)
  BY DEF Modified
<1> HIDE DEF Of
<1> QED  BY <1>5, <1>6 DEF Repanelled, Zones

\* A panel takes something off no screen but s, or one that is to be updated.
Claims(x, s, due) ==
    \A t \in Screens : t = s \/ x.screen # t \/ ModifyByPanel(x) = Whole \/ t \in due

\* A panel is given another record, and the screen it was on, if any, is updated.
LEMMA PanelUpdated ==
  ASSUME NEW w \in Worlds, Agreed(w), NEW p \in Panels, NEW x, NEW u, Repanelled(u, w, p, x),
         NEW s \in Screens \cup {None}, w.panels[p].screen = s,
         NEW due, u.overdue = due, Claims(x, s, due),
         NEW v, v = IF s = None THEN u ELSE UpdateUsable(u, s)
  PROVE  v \in Worlds /\ Agreed(v) /\ v.layers = w.layers /\ v.pos = w.pos /\ v.configs = w.configs
<1>1. \A t \in Screens \ {s} : t \in u.overdue \/ Zones(u, t) = Zones(w, t)
  <2> SUFFICES ASSUME NEW t \in Screens, t # s, t \notin u.overdue PROVE Zones(u, t) = Zones(w, t)
    OBVIOUS
  <2>1. w.panels[p].screen # t /\ (x.screen # t \/ ModifyByPanel(x) = Whole)  BY DEF Claims
  <2> QED  BY <2>1, PanelZones
<1>2. /\ u \in Worlds /\ Beside(u, w) /\ u.usable = w.usable /\ u.heard = w.heard
      /\ u.layers = w.layers /\ u.pos = w.pos /\ u.configs = w.configs
      /\ w.overdue \subseteq u.overdue
  BY DEF Repanelled, Beside
<1>3. CASE s = None
  <2>1. \A t \in Screens : t \in u.overdue \/ Zones(u, t) = Zones(w, t)
    BY <1>1, <1>3, OutputsAssumption
  <2> QED  BY <1>2, <1>3, <2>1, NothingMoves
<1>4. CASE s # None
  <2>1. s \in Screens /\ v = UpdateUsable(u, s)  BY <1>4
  <2>2. v \in Worlds /\ Agreed(v) /\ v.layers = u.layers /\ v.pos = u.pos /\ v.configs = u.configs
    BY <1>1, <1>2, <2>1, UpdateAgrees
  <2> QED  BY <2>2, <1>2
<1> QED  BY <1>3, <1>4

Given(u, p, x, late) == u = [World EXCEPT !.panels[p] = x, !.overdue = overdue \cup late]

LEMMA PanelStep ==
  ASSUME LayoutInv, NEW p \in Panels, NEW x \in {NoPanel} \cup PanelType,
         NEW late \in SUBSET Screens,
         NEW u, Given(u, p, x, late),
         panels[p].screen \in Screens \cup {None},
         Claims(x, panels[p].screen, late),
         Becomes(IF panels[p].screen = None THEN u ELSE UpdateUsable(u, panels[p].screen))
  PROVE  LayoutInv' /\ pos' = pos /\ configs' = configs
<1> DEFINE s == panels[p].screen
           v == IF s = None THEN u ELSE UpdateUsable(u, s)
           due == overdue \cup late
<1>1. World \in Worlds /\ Good(World) /\ Agreed(World)  BY DEF LayoutInv, Good
<1>2. Repanelled(u, World, p, x) /\ u.overdue = due
  BY <1>1, WorldIs DEF Repanelled, Worlds, Beside, Given
<1>3. /\ s \in Screens \cup {None} /\ World.panels[p].screen = s /\ Becomes(v)
      /\ Claims(x, s, due)
      /\ v = IF s = None THEN u ELSE UpdateUsable(u, s)
  BY WorldIs DEF Claims
<1> HIDE DEF s, v, due
<1>4. v \in Worlds /\ Agreed(v) /\ v.layers = World.layers /\ v.pos = World.pos
      /\ v.configs = World.configs
  BY <1>1, <1>2, <1>3, PanelUpdated
<1>5. Good(v)  BY <1>1, <1>4 DEF Good
<1> QED  BY <1>3, <1>4, <1>5, WorldIs, ServesHolds

LEMMA PanelIs ==
  ASSUME LayoutInv, NEW p \in Panels
  PROVE  /\ panels[p] \in {NoPanel} \cup PanelType /\ panels[p].screen \in Screens \cup {None}
         /\ panels[p].exists => panels[p] \in PanelType
         /\ panels[p].screen # None => panels[p] \in PanelType
         /\ panels[p].exists = FALSE => panels[p].screen = None
<1>1. World \in Worlds  BY DEF LayoutInv, Good
<1>2. panels[p] \in {NoPanel} \cup PanelType  BY <1>1, WorldIs DEF Worlds
<1>3. CASE panels[p] = NoPanel
  BY <1>3 DEF NoPanel
<1>4. CASE panels[p] \in PanelType
  BY <1>4 DEF PanelType
<1> QED  BY <1>2, <1>3, <1>4

LEMMA PanelsHold ==
  ASSUME LayoutInv, NEW p \in Panels,
         \/ CreatePanel(p) \/ DestroyPanel(p)
         \/ \E s \in Screens, edge \in Edges : Dock(p, s, edge)
         \/ \E rows \in Struts : SetStrut(p, rows)
  PROVE  LayoutInv' /\ pos' = pos /\ configs' = configs
<1>0. World \in Worlds  BY DEF LayoutInv, Good
<1>1. CASE CreatePanel(p)
  <2>1. NewPanel \in PanelType /\ NewPanel.screen = None  BY DEF NewPanel, PanelType
  <2>2. panels[p].screen = None  BY <1>1 DEF CreatePanel, NoPanel
  <2>3. Claims(NewPanel, panels[p].screen, {})  BY <2>1, OutputsAssumption DEF Claims
  <2> DEFINE u == [World EXCEPT !.panels[p] = NewPanel]
  <2>4. Becomes(u)  BY <1>1 DEF CreatePanel
  <2>5. Given(u, p, NewPanel, {})
    BY <1>0, WorldIs DEF Worlds, Given
  <2> HIDE DEF u
  <2> QED  BY <2>1, <2>2, <2>3, <2>4, <2>5, PanelStep
<1>2. CASE DestroyPanel(p)
  <2> DEFINE u == [World EXCEPT !.panels[p] = NoPanel]
  <2>1. Becomes(IF panels[p].screen = None THEN u ELSE UpdateUsable(u, panels[p].screen))
    BY <1>2 DEF DestroyPanel
  <2>2. Claims(NoPanel, panels[p].screen, {})  BY OutputsAssumption DEF NoPanel, Claims
  <2>3. Given(u, p, NoPanel, {})
    BY <1>0, WorldIs DEF Worlds, Given
  <2> HIDE DEF u
  <2>4. panels[p].screen \in Screens \cup {None} /\ NoPanel \in {NoPanel} \cup PanelType
    BY PanelIs
  <2> QED  BY <2>1, <2>2, <2>3, <2>4, PanelStep
<1>3. ASSUME NEW s \in Screens, NEW edge \in Edges, Dock(p, s, edge)
      PROVE  LayoutInv' /\ pos' = pos /\ configs' = configs
  <2> DEFINE x == [panels[p] EXCEPT !.screen = s, !.edge = edge]
             late == IF panels[p].strut # 0 THEN {s} ELSE {}
             u == [World EXCEPT !.panels[p] = x, !.overdue = overdue \cup late]
  <2>1. panels[p] \in PanelType  BY <1>3, PanelIs DEF Dock
  <2>2. x \in PanelType /\ x.screen = s /\ x.strut = panels[p].strut  BY <2>1 DEF PanelType
  <2>3. Claims(x, panels[p].screen, late)
    <3>1. x.strut = 0 => ModifyByPanel(x) = Whole  BY ShrunkInside DEF ModifyByPanel
    <3> QED  BY <2>2, <3>1 DEF Claims
  <2>4. u = [World EXCEPT !.panels[p].screen = s, !.panels[p].edge = edge, !.overdue = @ \cup late]
    BY <1>0, WorldIs DEF Worlds
  <2>5. Becomes(IF panels[p].screen = None THEN u ELSE UpdateUsable(u, panels[p].screen))
    BY <1>3, <2>4 DEF Dock
  <2>6. Given(u, p, x, late) /\ late \in SUBSET Screens
    BY DEF Given
  <2> HIDE DEF x, u, late
  <2> QED  BY <2>2, <2>3, <2>5, <2>6, PanelIs, PanelStep
<1>4. ASSUME NEW rows \in Struts, SetStrut(p, rows)
      PROVE  LayoutInv' /\ pos' = pos /\ configs' = configs
  <2> DEFINE x == [panels[p] EXCEPT !.strut = rows]
             u == [World EXCEPT !.panels[p] = x]
  <2>1. panels[p] \in PanelType  BY <1>4, PanelIs DEF SetStrut
  <2>2. x \in PanelType /\ x.screen = panels[p].screen
    BY <2>1, OutputsAssumption DEF PanelType
  <2>3. u = [World EXCEPT !.panels[p].strut = rows]
    BY <1>0, WorldIs DEF Worlds
  <2>4. Becomes(IF panels[p].screen = None THEN u ELSE UpdateUsable(u, panels[p].screen))
    BY <1>4, <2>3 DEF SetStrut
  <2>5. Given(u, p, x, {})
    BY <1>0, WorldIs DEF Worlds, Given
  <2>6. Claims(x, panels[p].screen, {})  BY <2>2 DEF Claims
  <2> HIDE DEF x, u
  <2> QED  BY <2>2, <2>4, <2>5, <2>6, PanelIs, PanelStep
<1> QED  BY <1>1, <1>2, <1>3, <1>4

-----------------------------------------------------------------------------
\* Each step keeps the invariant, and cancels what is outdated.
LEMMA LayoutInvNext ==
  ASSUME LayoutInv, [LayoutNext]_layoutVars
  PROVE  LayoutInv' /\ \A c \in outdated : configs'[c] = "none" => pos' = pos
<1>0. \A c \in outdated : configs[c] # "none"  BY DEF LayoutInv
<1>1. CASE BindManager \/ StopManager
  BY <1>0, <1>1, ManagersHold
<1>2. CASE \E c \in Configs : DestroyConfiguration(c)
  BY <1>2, DestroyConfigurationHolds
<1>3. CASE \E c \in Configs, serial \in {"current", "old"} : CreateConfiguration(c, serial)
  BY <1>3, CreateConfigurationHolds
<1>4. CASE \E c \in Configs : \/ \E named \in Orders, column \in Asked : Apply(c, named, column)
                              \/ Apply(c, <<>>, pos)
  BY <1>4, ApplyHolds
<1>5. CASE \E x \in Near : MovePointer(x)
  <2>1. PICK x \in Near : MovePointer(x)  BY <1>5
  <2>2. x \in Int  BY DEF Near
  <2> QED  BY <1>0, <2>1, <2>2, MovePointerHolds
<1>6. CASE \E l \in Layers : \/ AckConfigure(l) \/ DestroyLayer(l)
                             \/ \E s \in Screens : GetLayerSurface(l, s)
  BY <1>0, <1>6, AckConfigureHolds, DestroyLayerHolds, GetLayerSurfaceHolds
<1>7. CASE \E l \in Layers, st \in States :
             CommitState(l, st) \/ \E size \in Sizes \cup {0} : CommitLayer(l, st, size)
  BY <1>0, <1>7, CommitsHold
<1>8. CASE \E p \in Panels : \/ CreatePanel(p) \/ DestroyPanel(p)
                             \/ \E s \in Screens, edge \in Edges : Dock(p, s, edge)
                             \/ \E rows \in Struts : SetStrut(p, rows)
  BY <1>0, <1>8, PanelsHold
<1>9. CASE UNCHANGED layoutVars
  <2>1. World' = World  BY <1>9 DEF World, layoutVars
  <2>2. configs' = configs /\ outdated' = outdated /\ pos' = pos  BY <1>9 DEF layoutVars
  <2> QED  BY <2>1, <2>2 DEF LayoutInv
<1> QED  BY <1>1, <1>2, <1>3, <1>4, <1>5, <1>6, <1>7, <1>8, <1>9 DEF LayoutNext

LEMMA LayoutInvImplies == ASSUME LayoutInv PROVE LayoutIsAgreed /\ AnchoredOnceAcked
<1>1. World \in Worlds /\ Agreed(World) /\ Good(World)  BY DEF LayoutInv, Good
<1>2. LayoutTypeOK
  BY <1>1, WorldIs DEF LayoutInv, LayoutTypeOK, Worlds, LayerType, PanelType
<1>3. LayoutIsAgreed
  BY <1>1, <1>2, WorldIs DEF LayoutIsAgreed, Agreed, Told, Current
<1>4. AnchoredOnceAcked
  BY <1>1, WorldIs DEF AnchoredOnceAcked, Good, Anchored
<1> QED  BY <1>3, <1>4

THEOREM LayoutInvariance == LayoutSpec => []LayoutInv
<1>1. LayoutInv /\ [LayoutNext]_layoutVars => LayoutInv'  BY LayoutInvNext
<1> QED  BY <1>1, LayoutInvInit, PTL DEF LayoutSpec

\* Moved screens are where everybody was told, and the area for windows is what the
\* zones leave, but for a screen that was not updated since a panel docked there.
THEOREM LayoutAgreement == LayoutSpec => []LayoutIsAgreed
  BY LayoutInvariance, LayoutInvImplies, PTL

THEOREM LayersAreAnchored == LayoutSpec => []AnchoredOnceAcked
  BY LayoutInvariance, LayoutInvImplies, PTL

THEOREM StaleMovesNothing == LayoutSpec => StaleIsCancelled
<1>1. LayoutInv /\ [LayoutNext]_layoutVars
        => [\A c \in outdated : configs'[c] = "none" => pos' = pos]_layoutVars
  BY LayoutInvNext
<1> QED  BY <1>1, LayoutInvariance, PTL DEF LayoutSpec, StaleIsCancelled
=============================================================================
