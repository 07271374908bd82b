-------------------------- MODULE WindowCohortProofs --------------------------
(***************************************************************************)
(* Proofs about WindowCohort, for any windows, sizes and positions and any *)
(* number of configures: who is enrolled, who is parked, and that both are *)
(* held and alive.                                                         *)
(***************************************************************************)
EXTENDS WindowCohort, TLAPS

-----------------------------------------------------------------------------
(* One window *)

\* Members of a cohort are alive and held.
Sound(r) == r \in WindowType /\ (r.member # "none" => r.live /\ r.held)

\* q is r with other contents, another place or other configures.
SameMember(r, q) ==
    /\ q \in WindowType
    /\ q.live = r.live /\ q.held = r.held
    /\ q.member = r.member /\ q.answered = r.answered

\* q shows the same content as r, and is a member if r is, which answered no more.
Stays(r, q) ==
    /\ q.size = r.size
    /\ r.member # "none" => q.member # "none" /\ q.answered = r.answered

Keeps(r, q) == Stays(r, q) /\ q.x = r.x

LEMMA NoWindowSound == NoWindow \in WindowType /\ NoWindow.member = "none"
  BY CohortAssumption DEF NoWindow, WindowType, Unsized

LEMMA FlushSame ==
  ASSUME NEW r \in WindowType
  PROVE  SameMember(r, Flush(r))
  <1>1. CASE r.moveTo = NoMove
    BY <1>1 DEF Flush, SameMember
  <1>2. CASE r.moveTo # NoMove
    <2>1. r.moveTo \in Positions
      BY <1>2 DEF WindowType
    <2>2. Flush(r) = [r EXCEPT !.x = r.moveTo, !.moveTo = NoMove]
      BY <1>2 DEF Flush
    <2> QED BY <2>1, <2>2 DEF SameMember, WindowType
  <1> QED BY <1>1, <1>2

LEMMA AttachSame ==
  ASSUME NEW r \in WindowType, NEW at \in Positions
  PROVE  SameMember(r, Attach(r, at))
  <1> DEFINE place == IF r.buf = r.size THEN r.x ELSE at
             shown == [r EXCEPT !.size = r.buf, !.x = place]
  <1>1. SameMember(r, shown)
    BY DEF SameMember, WindowType
  <1>2. SameMember(shown, Flush(shown))
    <2>1. shown \in WindowType
      BY <1>1 DEF SameMember
    <2> HIDE DEF shown
    <2> QED BY <2>1, FlushSame
  <1>3. ASSUME NEW q, SameMember(r, q) PROVE SameMember(r, [q EXCEPT !.pending = FALSE])
    BY <1>3 DEF SameMember, WindowType
  <1>4. Attach(r, at) \in {shown, [shown EXCEPT !.pending = FALSE], [Flush(shown) EXCEPT !.pending = FALSE]}
    BY DEF Attach
  <1> HIDE DEF shown
  <1> QED BY <1>1, <1>2, <1>3, <1>4 DEF SameMember

LEMMA UnlinkLeaves ==
  ASSUME NEW r \in WindowType
  PROVE  Unlink(r) \in WindowType /\ Unlink(r).member = "none"
  BY DEF Unlink, WindowType

LEMMA ReleaseRenderLeaves ==
  ASSUME NEW r \in WindowType, r.member = "none", NEW at \in Positions
  PROVE  ReleaseRender(r, at) \in WindowType /\ ReleaseRender(r, at).member = "none"
  <1> DEFINE free == [r EXCEPT !.held = FALSE, !.replay = FALSE]
  <1>1. free \in WindowType /\ free.member = "none"
    BY DEF WindowType
  <1>2. ReleaseRender(r, at) \in {free, Attach(free, at)}
    BY DEF ReleaseRender
  <1> HIDE DEF free
  <1> QED BY <1>1, <1>2, AttachSame DEF SameMember

LEMMA SendConfigureSame ==
  ASSUME NEW r \in WindowType, NEW serial \in Nat
  PROVE  SameMember(r, SendConfigure(r, serial))
  <1>1. Append(r.inbox, serial) \in Seq(Nat)
    BY DEF WindowType
  <1> QED BY <1>1 DEF SendConfigure, SameMember, WindowType

LEMMA ConfigureSame ==
  ASSUME NEW r \in WindowType
  PROVE  SameMember(r, Configure(r))
  <1>1. r.serial + 1 \in Nat
    BY DEF WindowType
  <1>2. SameMember(r, SendConfigure(r, r.serial + 1))
    BY <1>1, SendConfigureSame
  <1> QED BY <1>1, <1>2, ZenonT(30) DEF Configure, SameMember, WindowType

LEMMA SetModeSame ==
  ASSUME NEW r \in WindowType, NEW mode \in {"stacked", "tiled"}
  PROVE  SameMember(r, SetMode(r, mode))
  <1>1. SameMember(r, SendConfigure(r, Unrecorded))
    BY SendConfigureSame DEF Unrecorded
  <1> QED BY <1>1 DEF SetMode, SameMember, WindowType

-----------------------------------------------------------------------------
(* The cohort *)

\* Windows are enrolled only while a transaction is open or committed, and parked
\* only while there is none.
InStep(txn1, r) == r.member \in {"none", IF txn1 = "none" THEN "parked" ELSE "enrolled"}

Shape(s) ==
    /\ s = [win |-> s.win, txn |-> s.txn, outcome |-> s.outcome]
    /\ s.win \in [Windows -> WindowType]
    /\ s.txn \in {"none", "open", "committed"}
    /\ s.outcome \in {"none", "answered", "expired"}
    /\ \A w \in Windows : Sound(s.win[w]) /\ InStep(s.txn, s.win[w])

\* A window may change in any way that leaves the cohort or keeps its place there.
LEMMA ChangeShape ==
  ASSUME NEW s, Shape(s), NEW w \in Windows, NEW q, Sound(q), InStep(s.txn, q)
  PROVE  /\ Shape([s EXCEPT !.win[w] = q])
         /\ [s EXCEPT !.win[w] = q] = [s EXCEPT !.win = [s.win EXCEPT ![w] = q]]
         /\ [s EXCEPT !.win[w] = q].win[w] = q
         /\ [s EXCEPT !.win[w] = q].txn = s.txn
  BY DEF Shape, Sound

LEMMA SameShape ==
  ASSUME NEW s, Shape(s), NEW w \in Windows, NEW q, SameMember(s.win[w], q)
  PROVE  /\ Shape([s EXCEPT !.win[w] = q])
         /\ [s EXCEPT !.win[w] = q].win[w] = q
         /\ [s EXCEPT !.win[w] = q].txn = s.txn
  <1>1. Sound(q) /\ InStep(s.txn, q)
    BY DEF Shape, Sound, InStep, SameMember
  <1> QED BY <1>1, ChangeShape

LEMMA TransactionDoneShape ==
  ASSUME NEW s, Shape(s), s.txn # "none", NEW how \in {"answered", "expired"}
  PROVE  Shape(TransactionDone(s, how))
  <1> DEFINE t == TransactionDone(s, how)
  <1>1. /\ t = [win |-> t.win, txn |-> t.txn, outcome |-> t.outcome]
        /\ t.txn = "none" /\ t.outcome = how
        /\ t.win = [w \in Windows |-> IF s.win[w].member = "enrolled"
                                      THEN [s.win[w] EXCEPT !.member = "parked"] ELSE s.win[w]]
    BY DEF TransactionDone, Shape
  <1>2. ASSUME NEW w \in Windows
        PROVE  t.win[w] \in WindowType /\ Sound(t.win[w]) /\ InStep("none", t.win[w])
    <2>1. Sound(s.win[w]) /\ s.win[w].member \in {"none", "enrolled"}
      BY DEF Shape, InStep
    <2>2. CASE s.win[w].member = "enrolled"
      <3>1. t.win[w] = [s.win[w] EXCEPT !.member = "parked"]
        BY <1>1, <2>2
      <3> HIDE DEF t
      <3> QED BY <2>1, <2>2, <3>1 DEF Sound, InStep, WindowType
    <2>3. CASE s.win[w].member = "none"
      BY <1>1, <2>1, <2>3 DEF Sound, InStep
    <2> QED BY <2>1, <2>2, <2>3
  <1> HIDE DEF t
  <1>3. t.win \in [Windows -> WindowType]
    BY <1>1, <1>2
  <1> QED BY <1>1, <1>2, <1>3 DEF Shape, t

LEMMA SettleShape ==
  ASSUME NEW s, Shape(s)
  PROVE  Shape(Settle(s))
  BY TransactionDoneShape DEF Settle

LEMMA JoinTransactionShape ==
  ASSUME NEW s, Shape(s), NEW w \in Windows, s.win[w].live, NEW awaitingAck \in BOOLEAN
  PROVE  Shape(JoinTransaction(s, w, awaitingAck)) /\ JoinTransaction(s, w, awaitingAck).win[w].live
  <1> DEFINE q == [s.win[w] EXCEPT !.member = "enrolled", !.joined = s.win[w].serial,
                                   !.answered = ~awaitingAck, !.held = TRUE]
  <1>1. CASE s.txn # "open" \/ s.win[w].member = "enrolled"
    BY <1>1 DEF JoinTransaction
  <1>2. CASE s.txn = "open" /\ s.win[w].member # "enrolled"
    <2>1. s.win[w] \in WindowType
      BY DEF Shape
    <2>2. Sound(q) /\ InStep(s.txn, q) /\ q.live
      BY <1>2, <2>1 DEF Sound, InStep, WindowType
    <2>3. JoinTransaction(s, w, awaitingAck) = [s EXCEPT !.win[w] = q]
      BY <1>2 DEF JoinTransaction
    <2> HIDE DEF q
    <2> QED BY <2>2, <2>3, ChangeShape
  <1> QED BY <1>1, <1>2

LEMMA LeaveTransactionShape ==
  ASSUME NEW s, Shape(s), NEW w \in Windows
  PROVE  /\ Shape(LeaveTransaction(s, w))
  <1> DEFINE u == Unlink(s.win[w])
             free == ReleaseRender(u, s.win[w].x)
  <1>1. u \in WindowType /\ u.member = "none" /\ s.win[w].x \in Positions
    <2>1. s.win[w] \in WindowType
      BY DEF Shape
    <2>2. s.win[w].x \in Positions
      BY <2>1 DEF WindowType
    <2> QED BY <2>1, <2>2, UnlinkLeaves
  <1> HIDE DEF u
  <1>2. free \in WindowType /\ free.member = "none"
    BY <1>1, ReleaseRenderLeaves
  <1> HIDE DEF free
  <1>3. Shape([s EXCEPT !.win[w] = u]) /\ Shape([s EXCEPT !.win[w] = free])
    BY <1>1, <1>2, ChangeShape DEF Sound, InStep
  <1>4. LeaveTransaction(s, w) \in {Settle([s EXCEPT !.win[w] = free]),
                                    [s EXCEPT !.win[w] = u]}
    BY DEF LeaveTransaction, free, u, Shape
  <1> QED BY <1>3, <1>4, SettleShape

\* Every parked window has a place to be shown at.
Places(s, at) == \A w \in Windows : s.win[w].member = "parked" => at[w] \in Positions

LEMMA PresentCohortShape ==
  ASSUME NEW s, Shape(s), NEW at, Places(s, at)
  PROVE  /\ Shape(PresentCohort(s, at)) /\ PresentCohort(s, at).txn = s.txn
         /\ s.txn = "none" => \A w \in Windows : PresentCohort(s, at).win[w].member = "none"
  <1> DEFINE moved(r) == IF r.answered THEN [Flush(r) EXCEPT !.pending = FALSE] ELSE r
             shown(r, x) == IF r.member = "parked" THEN ReleaseRender(Unlink(moved(r)), x) ELSE r
             t == PresentCohort(s, at)
  <1>1. /\ t = [win |-> t.win, txn |-> t.txn, outcome |-> t.outcome]
        /\ t.txn = s.txn /\ t.outcome = s.outcome
        /\ t.win = [w \in Windows |-> shown(s.win[w], at[w])]
    <2>1. DOMAIN s.win = Windows
      BY DEF Shape
    <2>2. t = [s EXCEPT !.win = [w \in Windows |-> shown(s.win[w], at[w])]]
      BY <2>1 DEF PresentCohort
    <2> HIDE DEF t, shown
    <2> QED BY <2>2 DEF Shape
  <1>2. ASSUME NEW r \in WindowType PROVE moved(r) \in WindowType
    <2>1. Flush(r) \in WindowType
      BY FlushSame DEF SameMember
    <2> QED BY <2>1, ZenonT(30) DEF WindowType
  <1>3. ASSUME NEW r \in WindowType, r.member = "parked", NEW x \in Positions
        PROVE  shown(r, x) \in WindowType /\ shown(r, x).member = "none"
    BY <1>2, <1>3, UnlinkLeaves, ReleaseRenderLeaves
  <1> HIDE DEF moved, t
  <1>4. ASSUME NEW w \in Windows
        PROVE  /\ t.win[w] \in WindowType /\ Sound(t.win[w]) /\ InStep(s.txn, t.win[w])
               /\ s.txn = "none" => t.win[w].member = "none"
    <2>1. s.win[w] \in WindowType /\ Sound(s.win[w]) /\ InStep(s.txn, s.win[w])
      BY DEF Shape
    <2>2. CASE s.win[w].member = "parked"
      BY <1>1, <1>3, <2>1, <2>2 DEF Sound, InStep, Places
    <2>3. CASE s.win[w].member # "parked"
      BY <1>1, <2>1, <2>3 DEF Sound, InStep
    <2> QED BY <2>2, <2>3
  <1> HIDE DEF shown
  <1>5. t.win \in [Windows -> WindowType]
    BY <1>1, <1>4
  <1>6. Shape(t)
    BY <1>1, <1>4, <1>5 DEF Shape
  <1> QED BY <1>1, <1>4, <1>6 DEF t

LEMMA AckWindowShape ==
  ASSUME NEW s, Shape(s), NEW w \in Windows
  PROVE  Shape(AckWindow(s, w))
  <1> DEFINE r == s.win[w]
             counts == r.member = "enrolled" /\ r.joined = r.serial
             q == [r EXCEPT !.acknowledged = TRUE, !.answered = @ \/ counts]
  <1>1. r \in WindowType
    BY DEF Shape
  <1>2. Sound(q) /\ InStep(s.txn, q)
    <2>1. q \in WindowType /\ q.live = r.live /\ q.held = r.held /\ q.member = r.member
      BY <1>1 DEF WindowType
    <2> HIDE DEF q
    <2> QED BY <2>1 DEF Shape, Sound, InStep
  <1>3. AckWindow(s, w) = Settle([s EXCEPT !.win[w] = q])
    BY <1>1 DEF AckWindow, Shape, WindowType
  <1> HIDE DEF q
  <1> QED BY <1>2, <1>3, ChangeShape, SettleShape

LEMMA SetSizeShape ==
  ASSUME NEW s, Shape(s), NEW w \in Windows, s.win[w].live, NEW size \in Sizes
  PROVE  Shape(SetSize(s, w, size)) /\ SetSize(s, w, size).win[w].live
  <1> DEFINE r == s.win[w]
             q == [Configure(r) EXCEPT !.asked = IF r.mode = "tiled" THEN size ELSE @,
                                       !.pending = r.mode = "tiled" \/ @]
             t == [s EXCEPT !.win[w] = q]
  <1>1. r \in WindowType
    BY DEF Shape
  <1>2. SameMember(r, Configure(r))
    BY <1>1, ConfigureSame
  <1> HIDE DEF r
  <1>3. SameMember(r, q)
    BY <1>2, ZenonT(30) DEF SameMember, WindowType
  <1> HIDE DEF q
  <1>4. Shape(t) /\ t.win[w].live
    <2>1. SameMember(s.win[w], q)
      BY <1>3 DEF r
    <2>2. Shape(t) /\ t.win[w] = q
      BY <2>1, SameShape
    <2> HIDE DEF t
    <2> QED BY <2>1, <2>2 DEF SameMember
  <1>5. SetSize(s, w, size) \in {s, JoinTransaction(t, w, TRUE)}
    BY DEF SetSize, q, r
  <1> HIDE DEF t
  <1> QED BY <1>4, <1>5, JoinTransactionShape

LEMMA SetPositionShape ==
  ASSUME NEW s, Shape(s), NEW w \in Windows, s.win[w].live, NEW x \in Positions
  PROVE  Shape(SetPosition(s, w, x))
  <1> DEFINE r == s.win[w]
             wait == r.pending /\ ~r.acknowledged
             moving == [r EXCEPT !.moveTo = x]
             still == [r EXCEPT !.moveTo = NoMove]
             t == [s EXCEPT !.win[w] = moving]
  <1>1. r \in WindowType /\ wait \in BOOLEAN
    BY DEF Shape, WindowType
  <1>2. SameMember(r, moving) /\ SameMember(r, still)
    BY <1>1 DEF SameMember, WindowType
  <1>3. SameMember(r, Flush(moving))
    BY <1>2, FlushSame DEF SameMember
  <1>4. SetPosition(s, w, x) \in
          {[s EXCEPT !.win[w] = still], JoinTransaction(t, w, wait), t, [t EXCEPT !.win[w] = Flush(@)]}
    BY DEF SetPosition
  <1> HIDE DEF moving, still, wait
  <1>5. Shape(t) /\ t.win[w] = moving /\ moving.live
    BY <1>2, SameShape, ZenonT(30) DEF SameMember
  <1>6. Shape([s EXCEPT !.win[w] = still])
    BY <1>2, SameShape
  <1>7. SameMember(t.win[w], Flush(t.win[w]))
    BY <1>5, FlushSame DEF Shape
  <1>8. Shape([t EXCEPT !.win[w] = Flush(@)])
    <2>1. Shape([t EXCEPT !.win[w] = Flush(t.win[w])])
      BY <1>5, <1>7, SameShape
    <2> HIDE DEF t
    <2> QED BY <2>1
  <1>9. Shape(JoinTransaction(t, w, wait))
    BY <1>1, <1>5, JoinTransactionShape
  <1> HIDE DEF t
  <1> QED BY <1>4, <1>5, <1>6, <1>8, <1>9

-----------------------------------------------------------------------------
(* The initial state and the steps *)

IInv == Shape(Now) /\ nudged \subseteq Windows

LEMMA IInvSuffices == IInv => CohortShape
  BY DEF IInv, Shape, Now, CohortShape, TypeOK, Sound, InStep

LEMMA InitIInv == Init => IInv
  BY NoWindowSound DEF Init, IInv, Shape, Now, Sound, InStep

LEMMA PlacesGiven ==
  ASSUME IInv, NEW at \in [Parked(Now) -> Positions]
  PROVE  Places(Now, at)
  BY DEF Places, Parked, IInv, Shape, Now

LEMMA BecomesIInv ==
  ASSUME NEW t, Shape(t), Becomes(t)
  PROVE  IInv'
  BY DEF IInv, Shape, Now, Becomes

LEMMA MapWindowIInv ==
  ASSUME IInv, NEW w \in Windows, MapWindow(w)
  PROVE  IInv'
  <1> DEFINE fresh == [NoWindow EXCEPT !.live = TRUE, !.buf = win[w].buf,
                                       !.held = win[w].held, !.replay = win[w].held]
             mapped == IF fresh.held THEN fresh ELSE Attach(fresh, fresh.x)
             q == SetMode(mapped, "tiled")
  <1>1. Shape(Now) /\ win[w] \in WindowType
    BY DEF IInv, Shape, Now
  <1>2. fresh \in WindowType /\ fresh.member = "none"
    BY <1>1, NoWindowSound DEF WindowType
  <1>3. Becomes([Now EXCEPT !.win[w] = q])
    BY DEF MapWindow
  <1> HIDE DEF fresh
  <1>4. SameMember(fresh, mapped)
    <2>1. fresh.x \in Positions
      BY <1>2 DEF WindowType
    <2> QED BY <1>2, <2>1, AttachSame DEF SameMember
  <1> HIDE DEF mapped
  <1>5. SameMember(mapped, q)
    BY <1>4, SetModeSame DEF SameMember
  <1> HIDE DEF q
  <1>6. Sound(q) /\ InStep(Now.txn, q)
    BY <1>2, <1>4, <1>5 DEF SameMember, Sound, InStep
  <1>7. Shape([Now EXCEPT !.win[w] = q])
    BY <1>1, <1>6, ChangeShape
  <1> QED BY <1>3, <1>7, BecomesIInv

LEMMA DestroyWindowIInv ==
  ASSUME IInv, NEW w \in Windows, DestroyWindow(w)
  PROVE  IInv'
  <1> DEFINE gone == LeaveTransaction(Now, w)
             q == [NoWindow EXCEPT !.buf = gone.win[w].buf, !.held = gone.win[w].held,
                                   !.replay = gone.win[w].replay]
  <1>1. Shape(gone)
    BY LeaveTransactionShape DEF IInv
  <1>2. Becomes([gone EXCEPT !.win[w] = q])
    BY DEF DestroyWindow
  <1> HIDE DEF gone
  <1>3. gone.win[w] \in WindowType
    BY <1>1 DEF Shape
  <1>4. q \in WindowType /\ q.member = "none"
    BY <1>3, NoWindowSound DEF WindowType
  <1> HIDE DEF q
  <1>5. Shape([gone EXCEPT !.win[w] = q])
    BY <1>1, <1>4, ChangeShape DEF Sound, InStep
  <1> QED BY <1>2, <1>5, BecomesIInv

LEMMA BeginIInv ==
  ASSUME IInv, NEW allocated \in BOOLEAN, NEW at \in [Parked(Now) -> Positions], Begin(allocated, at)
  PROVE  IInv'
  <1> DEFINE s == PresentCohort(Now, at)
  <1>1. /\ Shape(s) /\ s.txn = "none"
        /\ \A w \in Windows : s.win[w].member = "none"
    BY PresentCohortShape, PlacesGiven DEF IInv, Begin, Now
  <1> DEFINE t == [win |-> s.win, txn |-> "open", outcome |-> "none"]
  <1>2. Becomes(t) \/ Becomes(s)
    BY DEF Begin
  <1> HIDE DEF s
  <1>3. Shape(t)
    <2>1. \A w \in Windows : Sound(s.win[w]) /\ InStep("open", s.win[w])
      BY <1>1 DEF Shape, InStep
    <2>2. s.win \in [Windows -> WindowType]
      BY <1>1 DEF Shape
    <2> QED BY <2>1, <2>2 DEF Shape
  <1> QED BY <1>1, <1>2, <1>3, BecomesIInv

LEMMA CommitIInv ==
  ASSUME IInv, NEW timerAdded \in BOOLEAN, Commit(timerAdded)
  PROVE  IInv'
  <1> DEFINE t == [Now EXCEPT !.txn = "committed"]
             s == Settle(t)
  <1>1. Shape(t)
    BY DEF IInv, Shape, Now, InStep, Commit
  <1>2. \/ s.txn = "committed" /\ Becomes(TransactionDone(s, "expired"))
        \/ Becomes(s)
    BY DEF Commit
  <1> HIDE DEF t
  <1>3. Shape(s)
    BY <1>1, SettleShape
  <1> HIDE DEF s
  <1> QED BY <1>2, <1>3, TransactionDoneShape, BecomesIInv

LEMMA SetStackedIInv ==
  ASSUME IInv, NEW w \in Windows, SetStacked(w)
  PROVE  IInv'
  <1> DEFINE r == IF win[w].member = "enrolled" THEN win[w] ELSE Flush(win[w])
             p == [r EXCEPT !.pending = FALSE, !.asked = Unsized]
             q == SetMode(p, "stacked")
  <1>1. Shape(Now) /\ win[w] \in WindowType /\ Now.win[w] = win[w]
    BY DEF IInv, Shape, Now
  <1>2. Becomes([Now EXCEPT !.win[w] = q])
    BY DEF SetStacked
  <1>3. SameMember(win[w], r)
    BY <1>1, FlushSame DEF SameMember
  <1> HIDE DEF r
  <1>4. SameMember(win[w], p)
    BY <1>3 DEF SameMember, WindowType
  <1> HIDE DEF p
  <1>5. SameMember(win[w], q)
    BY <1>4, SetModeSame DEF SameMember
  <1> HIDE DEF q
  <1>6. Shape([Now EXCEPT !.win[w] = q])
    BY <1>1, <1>5, SameShape
  <1> QED BY <1>2, <1>6, BecomesIInv

LEMMA FocusChangeIInv ==
  ASSUME IInv, NEW w \in Windows, FocusChange(w)
  PROVE  IInv'
  <1> DEFINE q == SendConfigure(win[w], Unrecorded)
  <1>1. Shape(Now) /\ win[w] \in WindowType /\ Now.win[w] = win[w]
    BY DEF IInv, Shape, Now
  <1>2. Becomes([Now EXCEPT !.win[w] = q])
    BY <1>1 DEF FocusChange
  <1>3. SameMember(win[w], q)
    BY <1>1, SendConfigureSame DEF Unrecorded
  <1> HIDE DEF q
  <1>4. Shape([Now EXCEPT !.win[w] = q])
    BY <1>1, <1>3, SameShape
  <1> QED BY <1>2, <1>4, BecomesIInv

LEMMA CommitBufferIInv ==
  ASSUME IInv, NEW w \in Windows, NEW size \in Sizes, NEW at \in Positions, CommitBuffer(w, size, at)
  PROVE  IInv'
  <1> DEFINE drawn == [win[w] EXCEPT !.buf = size]
             q == IF drawn.held THEN [drawn EXCEPT !.replay = TRUE] ELSE Attach(drawn, at)
  <1>1. Shape(Now) /\ win[w] \in WindowType /\ Now.win[w] = win[w]
    BY DEF IInv, Shape, Now
  <1>2. Becomes([Now EXCEPT !.win[w] = q])
    BY DEF CommitBuffer
  <1>3. SameMember(win[w], drawn)
    BY <1>1 DEF SameMember, WindowType
  <1> HIDE DEF drawn
  <1>4. SameMember(drawn, [drawn EXCEPT !.replay = TRUE]) /\ SameMember(drawn, Attach(drawn, at))
    BY <1>3, AttachSame DEF SameMember, WindowType
  <1>5. SameMember(win[w], q)
    BY <1>3, <1>4 DEF SameMember
  <1> HIDE DEF q
  <1>6. Shape([Now EXCEPT !.win[w] = q])
    BY <1>1, <1>5, SameShape
  <1> QED BY <1>2, <1>6, BecomesIInv

LEMMA ResizeMotionSame ==
  ASSUME IInv, NEW w \in Windows, ResizeMotion(w)
  PROVE  \E q : SameMember(win[w], q) /\ Keeps(win[w], q) /\ Becomes([Now EXCEPT !.win[w] = q])
  <1> DEFINE r == win[w]
             outdated == [i \in DOMAIN r.inbox |->
                            IF r.inbox[i] = r.serial THEN Unrecorded ELSE r.inbox[i]]
             q == [r EXCEPT !.inbox = Append(outdated, r.serial)]
  <1>1. Shape(Now) /\ r \in WindowType /\ Now.win = win
    BY DEF IInv, Shape, Now
  <1>2. outdated \in Seq(Nat) /\ r.serial \in Nat
    <2>1. r.inbox \in Seq(Nat) /\ r.serial \in Nat
      BY <1>1 DEF WindowType
    <2> QED BY <2>1 DEF Unrecorded
  <1>3. Becomes([Now EXCEPT !.win[w] = q])
    BY <1>1 DEF ResizeMotion, Now, Shape
  <1> HIDE DEF outdated
  <1>4. Append(outdated, r.serial) \in Seq(Nat)
    BY <1>2
  <1>5. SameMember(r, q) /\ Keeps(r, q)
    BY <1>1, <1>4 DEF SameMember, WindowType, Keeps, Stays
  <1> HIDE DEF q, r
  <1> QED BY <1>3, <1>5 DEF r

LEMMA ResizeMotionIInv ==
  ASSUME IInv, NEW w \in Windows, ResizeMotion(w)
  PROVE  IInv'
  <1>1. PICK q : SameMember(win[w], q) /\ Becomes([Now EXCEPT !.win[w] = q])
    BY ResizeMotionSame
  <1>2. Shape(Now) /\ Now.win = win
    BY DEF IInv, Now
  <1>3. Shape([Now EXCEPT !.win[w] = q])
    BY <1>1, <1>2, SameShape
  <1> QED BY <1>1, <1>3, BecomesIInv

\* A window moved by its client or the pointer keeps its place in the cohort.
LEMMA NudgeIInv ==
  ASSUME IInv, NEW w \in Windows, NEW x \in Positions, Nudge(w, x)
  PROVE  IInv'
  <1> DEFINE q == [win[w] EXCEPT !.x = x]
             t == [Now EXCEPT !.win[w] = q]
  <1>1. Shape(Now) /\ Now.win = win /\ win[w] \in WindowType
    BY DEF IInv, Shape, Now
  <1>2. SameMember(win[w], q)
    BY <1>1 DEF SameMember, WindowType
  <1>3. win' = [win EXCEPT ![w] = q] /\ txn' = txn /\ outcome' = outcome /\ nudged' = {w}
    BY <1>1 DEF Nudge
  <1> HIDE DEF q
  <1>4. Shape(t)
    BY <1>1, <1>2, SameShape
  <1>5. Now' = t
    BY <1>3 DEF Now
  <1> HIDE DEF t
  <1> QED BY <1>3, <1>4, <1>5 DEF IInv, Shape

LEMMA AckConfigureIInv ==
  ASSUME IInv, NEW w \in Windows, NEW n \in 1..Len(win[w].inbox), AckConfigure(w, n)
  PROVE  IInv'
  <1> DEFINE q == [win[w] EXCEPT !.inbox = SubSeq(@, n + 1, Len(@))]
             read == [Now EXCEPT !.win[w] = q]
  <1>1. Shape(Now) /\ win[w] \in WindowType /\ Now.win[w] = win[w]
    BY DEF IInv, Shape, Now
  <1>2. [Now EXCEPT !.win[w].inbox = SubSeq(@, n + 1, Len(@))] = read
    BY <1>1 DEF Now, Shape
  <1>3. Becomes(AckWindow(read, w)) \/ Becomes(read)
    BY <1>2 DEF AckConfigure
  <1>4. SubSeq(win[w].inbox, n + 1, Len(win[w].inbox)) \in Seq(Nat)
    BY <1>1 DEF WindowType
  <1>5. SameMember(win[w], q)
    BY <1>1, <1>4 DEF SameMember, WindowType
  <1> HIDE DEF q
  <1>6. Shape(read)
    BY <1>1, <1>5, SameShape
  <1> HIDE DEF read
  <1> QED BY <1>3, <1>6, AckWindowShape, BecomesIInv

\* Whatever the manager asks of a window
LEMMA AskIInv ==
  ASSUME IInv, NEW w \in Windows,
         \/ \E size \in Sizes : Resize(w, size)
         \/ \E x \in Positions : Move(w, x)
         \/ \E x \in Positions, size \in Sizes : Relayout(w, x, size)
  PROVE  IInv'
  <1>1. Shape(Now) /\ Now.win[w] = win[w]
    BY DEF IInv, Now
  <1>2. ASSUME NEW size \in Sizes, Resize(w, size) PROVE IInv'
    BY <1>1, <1>2, SetSizeShape, BecomesIInv DEF Resize, CanConfigure, CanSend
  <1>3. ASSUME NEW x \in Positions, Move(w, x) PROVE IInv'
    BY <1>1, <1>3, SetPositionShape, BecomesIInv DEF Move
  <1>4. ASSUME NEW x \in Positions, NEW size \in Sizes, Relayout(w, x, size) PROVE IInv'
    <2>1. Now.win[w].live /\ Becomes(SetPosition(SetSize(Now, w, size), w, x))
      BY <1>1, <1>4 DEF Relayout, CanConfigure, CanSend, SetGeometry
    <2> QED BY <1>1, <2>1, SetSizeShape, SetPositionShape, BecomesIInv
  <1> QED BY <1>2, <1>3, <1>4

LEMMA NextIInv == IInv /\ [Next]_vars => IInv'
  <1> SUFFICES ASSUME IInv, [Next]_vars PROVE IInv'
    OBVIOUS
  <1>1. ASSUME NEW w \in Windows,
               \/ MapWindow(w) \/ DestroyWindow(w) \/ FocusChange(w) \/ SetStacked(w)
               \/ ResizeMotion(w)
               \/ \E x \in Positions : SetWindowGeometry(w, x) \/ MoveMotion(w, x)
               \/ \E size \in Sizes, at \in Positions : CommitBuffer(w, size, at)
               \/ \E n \in 1..Len(win[w].inbox) : AckConfigure(w, n)
        PROVE  IInv'
    BY <1>1, MapWindowIInv, DestroyWindowIInv, FocusChangeIInv, SetStackedIInv, CommitBufferIInv,
       AckConfigureIInv, ResizeMotionIInv, NudgeIInv DEF SetWindowGeometry, MoveMotion
  <1>2. CASE \E ok \in BOOLEAN : Commit(ok)
    BY <1>2, CommitIInv
  <1>3. ASSUME NEW at \in [Parked(Now) -> Positions],
               Present(at) \/ \E ok \in BOOLEAN : Begin(ok, at)
        PROVE  IInv'
    BY <1>3, BeginIInv, PresentCohortShape, PlacesGiven, BecomesIInv DEF Present, IInv
  <1>4. CASE Timeout
    <2>1. Shape(Now) /\ Now.txn # "none" /\ Becomes(TransactionDone(Now, "expired"))
      BY <1>4 DEF Timeout, IInv, Now
    <2> QED BY <2>1, TransactionDoneShape, BecomesIInv
  <1>5. CASE UNCHANGED vars
    BY <1>5 DEF vars, IInv, Shape, Now
  <1> QED
    BY <1>1, <1>2, <1>3, <1>4, <1>5, AskIInv DEF Next

\* Whatever the order of calls, acks, commits, closing windows and the timer, a
\* window is enrolled only while a transaction is under way and parked only
\* after one, and the members of a cohort are alive and held
\* (libswc/window.c 217-236, 274-350, 364-382).
THEOREM MembersAreHeld == Spec => []CohortShape
  <1>1. IInv /\ [Next]_vars => IInv'
    BY NextIInv
  <1>2. IInv => CohortShape
    BY IInvSuffices
  <1> QED
    BY InitIInv, <1>1, <1>2, PTL DEF Spec

-----------------------------------------------------------------------------
(* What a member shows, and what it has answered *)

AllKeep(s, t) == \A v \in Windows : Keeps(s.win[v], t.win[v])

\* What the action properties say of one window, which its client or the pointer
\* may have moved by hand
AllowedBut(r, q, byHand) ==
    /\ r.member # "none" /\ q.member # "none" =>
         q.size = r.size /\ (r.member = "enrolled" /\ ~byHand => q.x = r.x)
    /\ r.member = "parked" /\ ~r.answered /\ q.member = "none" /\ q.live =>
         \/ q.moveTo = r.moveTo /\ (q.x = r.x \/ (r.replay /\ q.size # r.size))
         \/ r.acknowledged /\ r.replay
    /\ r.member = "enrolled" /\ ~r.answered /\ q.member # "none" /\ q.answered =>
         q.acknowledged /\ q.serial = r.joined

Allowed(r, q) == AllowedBut(r, q, FALSE)

LEMMA AllKeepTrans ==
  ASSUME NEW s, NEW t, NEW u, AllKeep(s, t), AllKeep(t, u)
  PROVE  AllKeep(s, u)
  BY DEF AllKeep, Keeps, Stays

LEMMA KeepsAllowed ==
  ASSUME NEW r, NEW q, Keeps(r, q)
  PROVE  Allowed(r, q)
  BY DEF Keeps, Stays, Allowed, AllowedBut

\* An edit of one window leaves the others.
LEMMA Others ==
  ASSUME NEW s, Shape(s), NEW w \in Windows, NEW q
  PROVE  /\ [s EXCEPT !.win[w] = q].win[w] = q
         /\ \A v \in Windows \ {w} : [s EXCEPT !.win[w] = q].win[v] = s.win[v]
         /\ [s EXCEPT !.win[w] = q].txn = s.txn
         /\ [s EXCEPT !.win[w] = q].outcome = s.outcome
  BY DEF Shape

LEMMA ChangeKeeps ==
  ASSUME NEW s, Shape(s), NEW w \in Windows, NEW q, Keeps(s.win[w], q)
  PROVE  AllKeep(s, [s EXCEPT !.win[w] = q])
  BY Others DEF AllKeep, Keeps, Stays

\* Completing parks the members and changes nothing else of them.
LEMMA TransactionDoneKeeps ==
  ASSUME NEW s, Shape(s), NEW how
  PROVE  /\ AllKeep(s, TransactionDone(s, how))
         /\ \A v \in Windows :
              /\ TransactionDone(s, how).win[v].acknowledged = s.win[v].acknowledged
              /\ TransactionDone(s, how).win[v].answered = s.win[v].answered
              /\ TransactionDone(s, how).win[v].serial = s.win[v].serial
              /\ TransactionDone(s, how).win[v].live = s.win[v].live
              /\ TransactionDone(s, how).win[v].member = "none" <=> s.win[v].member = "none"
  <1> DEFINE t == TransactionDone(s, how)
  <1>1. t.win = [w \in Windows |-> IF s.win[w].member = "enrolled"
                                   THEN [s.win[w] EXCEPT !.member = "parked"] ELSE s.win[w]]
    BY DEF TransactionDone, Shape
  <1> HIDE DEF t
  <1>2. ASSUME NEW v \in Windows
        PROVE  /\ Keeps(s.win[v], t.win[v])
               /\ t.win[v].acknowledged = s.win[v].acknowledged
               /\ t.win[v].answered = s.win[v].answered
               /\ t.win[v].serial = s.win[v].serial
               /\ t.win[v].live = s.win[v].live
               /\ t.win[v].member = "none" <=> s.win[v].member = "none"
    <2>1. s.win[v] \in WindowType
      BY DEF Shape
    <2>2. t.win[v] \in {s.win[v], [s.win[v] EXCEPT !.member = "parked"]}
          /\ (t.win[v] # s.win[v] => s.win[v].member = "enrolled")
      BY <1>1
    <2> QED BY <2>1, <2>2 DEF Keeps, Stays, WindowType
  <1> QED BY <1>2 DEF AllKeep, t

LEMMA SettleKeeps ==
  ASSUME NEW s, Shape(s)
  PROVE  /\ AllKeep(s, Settle(s))
         /\ \A v \in Windows :
              /\ Settle(s).win[v].acknowledged = s.win[v].acknowledged
              /\ Settle(s).win[v].answered = s.win[v].answered
              /\ Settle(s).win[v].serial = s.win[v].serial
              /\ Settle(s).win[v].live = s.win[v].live
              /\ Settle(s).win[v].member = "none" <=> s.win[v].member = "none"
  BY TransactionDoneKeeps DEF Settle, AllKeep, Keeps, Stays

LEMMA JoinTransactionKeeps ==
  ASSUME NEW s, Shape(s), NEW w \in Windows, NEW awaitingAck
  PROVE  AllKeep(s, JoinTransaction(s, w, awaitingAck))
  <1> DEFINE q == [s.win[w] EXCEPT !.member = "enrolled", !.joined = s.win[w].serial,
                                   !.answered = ~awaitingAck, !.held = TRUE]
  <1>1. CASE s.txn # "open" \/ s.win[w].member = "enrolled"
    BY <1>1 DEF JoinTransaction, AllKeep, Keeps, Stays
  <1>2. CASE s.txn = "open" /\ s.win[w].member # "enrolled"
    <2>1. s.win[w] \in WindowType /\ s.win[w].member = "none"
      BY <1>2 DEF Shape, InStep
    <2>2. Keeps(s.win[w], q)
      BY <2>1 DEF Keeps, Stays, WindowType
    <2>3. JoinTransaction(s, w, awaitingAck) = [s EXCEPT !.win[w] = q]
      BY <1>2 DEF JoinTransaction
    <2> HIDE DEF q
    <2> QED BY <2>2, <2>3, ChangeKeeps
  <1> QED BY <1>1, <1>2

LEMMA SendConfigureKeeps ==
  ASSUME NEW r \in WindowType, NEW serial
  PROVE  Keeps(r, SendConfigure(r, serial)) /\ Keeps(r, Configure(r))
  BY DEF SendConfigure, Configure, Keeps, Stays, WindowType

LEMMA SetSizeKeeps ==
  ASSUME NEW s, Shape(s), NEW w \in Windows, s.win[w].live, NEW size \in Sizes
  PROVE  AllKeep(s, SetSize(s, w, size))
  <1> DEFINE r == s.win[w]
             q == [Configure(r) EXCEPT !.asked = IF r.mode = "tiled" THEN size ELSE @,
                                       !.pending = r.mode = "tiled" \/ @]
             t == [s EXCEPT !.win[w] = q]
  <1>1. r \in WindowType
    BY DEF Shape
  <1>2. SameMember(r, Configure(r)) /\ Keeps(r, Configure(r))
    BY <1>1, ConfigureSame, SendConfigureKeeps
  <1> HIDE DEF r
  <1>3. SameMember(r, q) /\ Keeps(r, q)
    BY <1>2, ZenonT(30) DEF SameMember, WindowType, Keeps, Stays
  <1> HIDE DEF q
  <1>4. Shape(t) /\ AllKeep(s, t)
    <2>1. SameMember(s.win[w], q) /\ Keeps(s.win[w], q)
      BY <1>3 DEF r
    <2> QED BY <2>1, SameShape, ChangeKeeps
  <1>5. SetSize(s, w, size) \in {s, JoinTransaction(t, w, TRUE)}
    BY DEF SetSize, q, r
  <1> HIDE DEF t
  <1>6. AllKeep(s, JoinTransaction(t, w, TRUE))
    BY <1>4, JoinTransactionKeeps, AllKeepTrans
  <1> QED BY <1>5, <1>6 DEF AllKeep, Keeps, Stays

\* Only while there is no transaction does set_position move a window there and then.
LEMMA SetPositionKeeps ==
  ASSUME NEW s, Shape(s), NEW w \in Windows, s.win[w].live, NEW x \in Positions
  PROVE  /\ \A v \in Windows : Stays(s.win[v], SetPosition(s, w, x).win[v])
         /\ s.txn # "none" => AllKeep(s, SetPosition(s, w, x))
  <1> DEFINE r == s.win[w]
             wait == r.pending /\ ~r.acknowledged
             moving == [r EXCEPT !.moveTo = x]
             still == [r EXCEPT !.moveTo = NoMove]
             t == [s EXCEPT !.win[w] = moving]
             now == [t EXCEPT !.win[w] = Flush(t.win[w])]
  <1>1. r \in WindowType
    BY DEF Shape
  <1>2. /\ SameMember(r, moving) /\ Keeps(r, moving)
        /\ Keeps(r, still)
    BY <1>1 DEF SameMember, WindowType, Keeps, Stays
  <1>3. Stays(moving, Flush(moving))
    BY <1>2 DEF SameMember, WindowType, Flush, Stays
  <1>4. /\ SetPosition(s, w, x) \in
             {[s EXCEPT !.win[w] = still], JoinTransaction(t, w, wait), t, now}
        /\ s.txn # "none" => SetPosition(s, w, x) \in
             {[s EXCEPT !.win[w] = still], JoinTransaction(t, w, wait), t}
    BY DEF SetPosition
  <1> HIDE DEF moving, still, wait
  <1>5. Shape(t) /\ AllKeep(s, t) /\ t.win[w] = moving
    BY <1>2, SameShape, ChangeKeeps
  <1>6. AllKeep(s, [s EXCEPT !.win[w] = still])
    BY <1>2, ChangeKeeps
  <1>7. AllKeep(s, JoinTransaction(t, w, wait))
    <2> HIDE DEF t
    <2> QED BY <1>5, JoinTransactionKeeps, AllKeepTrans
  <1>8. \A v \in Windows : Stays(t.win[v], now.win[v])
    <2> HIDE DEF t
    <2>1. now.win[w] = Flush(moving)
      BY <1>5, Others
    <2>2. \A v \in Windows \ {w} : now.win[v] = t.win[v]
      BY <1>5, Others
    <2> HIDE DEF now
    <2> QED BY <1>3, <1>5, <2>1, <2>2 DEF Stays
  <1> HIDE DEF t, now
  <1>9. \A v \in Windows : Stays(s.win[v], now.win[v])
    BY <1>5, <1>8 DEF AllKeep, Keeps, Stays
  <1> QED BY <1>4, <1>5, <1>6, <1>7, <1>9 DEF AllKeep, Keeps

-----------------------------------------------------------------------------
(* What a step may do to a window *)

AllAllowed == \A v \in Windows : AllowedBut(win[v], win'[v], v \in nudged')

\* By hand more is allowed.
LEMMA AllowedAnyway ==
  ASSUME \A v \in Windows : Allowed(win[v], win'[v])
  PROVE  AllAllowed
  BY DEF AllAllowed, Allowed, AllowedBut

LEMMA BecomesAllowed ==
  ASSUME NEW t, AllKeep(Now, t), Becomes(t)
  PROVE  AllAllowed
  BY KeepsAllowed, AllowedAnyway DEF AllKeep, Now, Becomes

\* A step that changes one window, in a way that is allowed
LEMMA ChangeAllowed ==
  ASSUME IInv, NEW w \in Windows, NEW q, Allowed(win[w], q), Becomes([Now EXCEPT !.win[w] = q])
  PROVE  AllAllowed
  <1>1. win' = [Now EXCEPT !.win[w] = q].win
    BY DEF Becomes
  <1>2. win'[w] = q /\ \A v \in Windows \ {w} : win'[v] = Now.win[v]
    BY <1>1, Others DEF IInv
  <1>3. ASSUME NEW r PROVE Allowed(r, r)
    BY KeepsAllowed DEF Keeps, Stays
  <1> QED BY <1>2, <1>3, AllowedAnyway DEF Now

LEMMA NowIsShaped ==
  ASSUME IInv, NEW w \in Windows
  PROVE  /\ Shape(Now) /\ Now.win = win /\ Now.txn = txn /\ Now.outcome = outcome
         /\ win[w] \in WindowType /\ Sound(win[w]) /\ InStep(txn, win[w])
  BY DEF IInv, Shape, Now

LEMMA MapWindowAllowed ==
  ASSUME IInv, NEW w \in Windows, MapWindow(w)
  PROVE  AllAllowed
  <1>1. PICK q : Becomes([Now EXCEPT !.win[w] = q])
    BY DEF MapWindow
  <1>2. win[w].member = "none"
    BY NowIsShaped DEF MapWindow, Sound
  <1> QED BY <1>1, <1>2, ChangeAllowed DEF Allowed, AllowedBut

LEMMA DestroyWindowAllowed ==
  ASSUME IInv, NEW w \in Windows, DestroyWindow(w)
  PROVE  AllAllowed
  <1> DEFINE u == Unlink(win[w])
             free == ReleaseRender(u, win[w].x)
             s == [Now EXCEPT !.win[w] = free]
             gone == LeaveTransaction(Now, w)
             q == [NoWindow EXCEPT !.buf = gone.win[w].buf, !.held = gone.win[w].held,
                                   !.replay = gone.win[w].replay]
  <1>1. Becomes([gone EXCEPT !.win[w] = q]) /\ Shape(gone)
    BY LeaveTransactionShape DEF DestroyWindow, IInv
  <1>2. q.live = FALSE /\ q.member = "none"
    BY DEF NoWindow
  <1>3. ASSUME NEW v \in Windows \ {w} PROVE Keeps(win[v], gone.win[v])
    <2>1. u \in WindowType /\ u.member = "none" /\ win[w].x \in Positions
      <3>1. win[w] \in WindowType
        BY NowIsShaped
      <3>2. win[w].x \in Positions
        BY <3>1 DEF WindowType
      <3> QED BY <3>1, <3>2, UnlinkLeaves
    <2> HIDE DEF u
    <2>2. free \in WindowType /\ free.member = "none"
      BY <2>1, ReleaseRenderLeaves
    <2> HIDE DEF free
    <2>3. Shape(s) /\ s.win[v] = win[v] /\ [Now EXCEPT !.win[w] = u].win[v] = win[v]
      <3>1. Shape(s)
        BY <2>2, NowIsShaped, ChangeShape DEF Sound, InStep
      <3>2. s.win[v] = Now.win[v] /\ [Now EXCEPT !.win[w] = u].win[v] = Now.win[v]
        BY NowIsShaped, Others
      <3> QED BY <3>1, <3>2 DEF Now
    <2>4. gone \in {Settle(s), [Now EXCEPT !.win[w] = u]}
      BY NowIsShaped DEF LeaveTransaction, free, u
    <2> HIDE DEF s
    <2>5. Keeps(s.win[v], Settle(s).win[v])
      BY <2>3, SettleKeeps DEF AllKeep
    <2> QED BY <2>3, <2>4, <2>5 DEF Keeps, Stays
  <1> HIDE DEF gone, q
  <1>4. win' = [gone EXCEPT !.win[w] = q].win
    BY <1>1 DEF Becomes
  <1>5. win'[w] = q /\ \A v \in Windows \ {w} : win'[v] = gone.win[v]
    BY <1>1, <1>4, Others
  <1>6. Allowed(win[w], q)
    BY <1>2 DEF Allowed, AllowedBut
  <1> QED BY <1>3, <1>5, <1>6, KeepsAllowed, AllowedAnyway

\* Presenting moves those who answered, and the others only through a buffer whose
\* configure they have acknowledged since.
LEMMA PresentCohortAllowed ==
  ASSUME NEW s, Shape(s), NEW at, Places(s, at), NEW v \in Windows
  PROVE  Allowed(s.win[v], PresentCohort(s, at).win[v])
  <1> DEFINE r == s.win[v]
             free == [Unlink(r) EXCEPT !.held = FALSE, !.replay = FALSE]
             t == PresentCohort(s, at)
  <1> SUFFICES Allowed(r, t.win[v])
    OBVIOUS
  <1>1. /\ r.member = "parked" /\ ~r.answered => t.win[v] = ReleaseRender(Unlink(r), at[v])
        /\ r.member = "parked" /\ r.answered =>
             t.win[v] = ReleaseRender(Unlink([Flush(r) EXCEPT !.pending = FALSE]), at[v])
        /\ r.member # "parked" => t.win[v] = r
        /\ r.member = "parked" => at[v] \in Positions
    BY DEF PresentCohort, Shape, Places
  <1>2. r \in WindowType /\ SameMember(r, Flush(r))
    BY FlushSame DEF Shape
  <1> HIDE DEF t, r
  <1>3. CASE r.member # "parked"
    BY <1>1, <1>3, KeepsAllowed DEF Keeps, Stays
  <1>4. CASE r.member = "parked" /\ r.answered
    <2>1. [Flush(r) EXCEPT !.pending = FALSE] \in WindowType
      BY <1>2 DEF SameMember, WindowType
    <2>2. t.win[v].member = "none"
      BY <1>1, <1>4, <2>1, UnlinkLeaves, ReleaseRenderLeaves
    <2> QED BY <1>4, <2>2 DEF Allowed, AllowedBut
  <1>5. CASE r.member = "parked" /\ ~r.answered
    <2>1. /\ Unlink(r) \in WindowType /\ Unlink(r).member = "none" /\ Unlink(r).replay = r.replay
          /\ free \in WindowType /\ free.member = "none" /\ free.x = r.x /\ free.moveTo = r.moveTo
          /\ free.acknowledged = r.acknowledged /\ free.size = r.size
      BY <1>2 DEF Unlink, WindowType
    <2>2. t.win[v] = free \/ (r.replay /\ t.win[v] = Attach(free, at[v]))
      BY <1>1, <1>5, <2>1 DEF ReleaseRender
    <2>3. ~free.acknowledged =>
            /\ Attach(free, at[v]).moveTo = free.moveTo
            /\ Attach(free, at[v]).x = free.x \/ Attach(free, at[v]).size # free.size
      <3> HIDE DEF free
      <3> QED BY <2>1 DEF Attach, WindowType
    <2>4. t.win[v].member = "none"
      <3> HIDE DEF free
      <3> QED BY <1>1, <1>5, <2>1, <2>2, AttachSame DEF SameMember
    <2> HIDE DEF free
    <2> QED BY <1>5, <2>1, <2>2, <2>3, <2>4 DEF Allowed, AllowedBut
  <1> QED BY <1>3, <1>4, <1>5

LEMMA SetStackedAllowed ==
  ASSUME IInv, NEW w \in Windows, SetStacked(w)
  PROVE  AllAllowed
  <1> DEFINE r == IF win[w].member = "enrolled" THEN win[w] ELSE Flush(win[w])
             p == [r EXCEPT !.pending = FALSE, !.asked = Unsized]
             q == SetMode(p, "stacked")
  <1>1. Becomes([Now EXCEPT !.win[w] = q])
    BY DEF SetStacked
  <1>2. /\ r \in WindowType /\ r.size = win[w].size /\ r.member = win[w].member
        /\ r.answered = win[w].answered /\ (r.member = "enrolled" => r.x = win[w].x)
    <2>1. win[w] \in WindowType
      BY NowIsShaped
    <2>2. Flush(win[w]) \in WindowType /\ Flush(win[w]).member = win[w].member
      BY <2>1, FlushSame DEF SameMember
    <2>3. Flush(win[w]).size = win[w].size /\ Flush(win[w]).answered = win[w].answered
      BY <2>1 DEF Flush, WindowType
    <2> QED BY <2>1, <2>2, <2>3
  <1> HIDE DEF r
  <1>3. /\ p \in WindowType /\ p.size = r.size /\ p.member = r.member
        /\ p.answered = r.answered /\ p.x = r.x
    BY <1>2 DEF WindowType
  <1> HIDE DEF p
  <1>4. q.size = p.size /\ q.member = p.member /\ q.answered = p.answered /\ q.x = p.x
    BY <1>3 DEF SetMode, SendConfigure, WindowType
  <1> HIDE DEF q
  <1>5. Allowed(win[w], q)
    BY <1>2, <1>3, <1>4 DEF Allowed, AllowedBut
  <1> QED BY <1>1, <1>5, ChangeAllowed

LEMMA FocusChangeAllowed ==
  ASSUME IInv, NEW w \in Windows, FocusChange(w)
  PROVE  AllAllowed
  <1>1. Becomes([Now EXCEPT !.win[w] = SendConfigure(win[w], Unrecorded)])
    BY NowIsShaped DEF FocusChange
  <1>2. Allowed(win[w], SendConfigure(win[w], Unrecorded))
    BY NowIsShaped, SendConfigureKeeps, KeepsAllowed
  <1> QED BY <1>1, <1>2, ChangeAllowed

\* A member is held, so its client's buffer waits.
LEMMA CommitBufferAllowed ==
  ASSUME IInv, NEW w \in Windows, NEW size \in Sizes, NEW at \in Positions, CommitBuffer(w, size, at)
  PROVE  AllAllowed
  <1> DEFINE drawn == [win[w] EXCEPT !.buf = size]
             q == IF drawn.held THEN [drawn EXCEPT !.replay = TRUE] ELSE Attach(drawn, at)
  <1>1. Becomes([Now EXCEPT !.win[w] = q])
    BY DEF CommitBuffer
  <1>2. win[w] \in WindowType /\ Sound(win[w])
    BY NowIsShaped
  <1>3. CASE win[w].member = "none"
    BY <1>1, <1>3, ChangeAllowed DEF Allowed, AllowedBut
  <1>4. CASE win[w].member # "none"
    <2>1. q = [drawn EXCEPT !.replay = TRUE]
      BY <1>2, <1>4 DEF Sound, WindowType
    <2>2. Keeps(win[w], [drawn EXCEPT !.replay = TRUE])
      BY <1>2 DEF Keeps, Stays, WindowType
    <2> HIDE DEF q, drawn
    <2> QED BY <1>1, <2>1, <2>2, KeepsAllowed, ChangeAllowed
  <1> QED BY <1>3, <1>4

\* Only the serial a window was enrolled with answers.
LEMMA AckConfigureAllowed ==
  ASSUME IInv, NEW w \in Windows, NEW n \in 1..Len(win[w].inbox), AckConfigure(w, n)
  PROVE  AllAllowed
  <1> DEFINE r == [win[w] EXCEPT !.inbox = SubSeq(@, n + 1, Len(@))]
             read == [Now EXCEPT !.win[w] = r]
             counts == r.member = "enrolled" /\ r.joined = r.serial
             q == [r EXCEPT !.acknowledged = TRUE, !.answered = @ \/ counts]
             s == [read EXCEPT !.win[w] = q]
  <1>1. Shape(Now) /\ win[w] \in WindowType /\ Now.win = win
    BY NowIsShaped
  <1>2. SubSeq(win[w].inbox, n + 1, Len(win[w].inbox)) \in Seq(Nat)
    BY <1>1 DEF WindowType
  <1>3. /\ SameMember(win[w], r) /\ Keeps(win[w], r)
        /\ r.joined = win[w].joined /\ r.serial = win[w].serial /\ r.answered = win[w].answered
    BY <1>1, <1>2 DEF SameMember, WindowType, Keeps, Stays
  <1>4. [Now EXCEPT !.win[w].inbox = SubSeq(@, n + 1, Len(@))] = read
    BY <1>1 DEF Now, Shape
  <1>5. Becomes(AckWindow(read, w)) \/ Becomes(read)
    BY <1>4 DEF AckConfigure
  <1> HIDE DEF r
  <1>6. /\ Shape(read) /\ AllKeep(Now, read) /\ read.win[w] = r
        /\ \A v \in Windows \ {w} : read.win[v] = win[v]
    <2>1. SameMember(Now.win[w], r) /\ Keeps(Now.win[w], r)
      BY <1>1, <1>3
    <2>2. Shape(read) /\ AllKeep(Now, read)
      BY <1>1, <2>1, SameShape, ChangeKeeps
    <2>3. read.win[w] = r /\ \A v \in Windows \ {w} : read.win[v] = Now.win[v]
      BY <1>1, Others
    <2> HIDE DEF read
    <2> QED BY <1>1, <2>2, <2>3
  <1> HIDE DEF read
  <1>7. CASE Becomes(read)
    BY <1>6, <1>7, BecomesAllowed
  <1>8. CASE Becomes(AckWindow(read, w))
    <2>1. AckWindow(read, w) = Settle(s)
      BY <1>6 DEF AckWindow, Shape, WindowType
    <2>2. /\ q \in WindowType /\ q.live = r.live /\ q.held = r.held /\ q.member = r.member
          /\ q.x = r.x /\ q.size = r.size /\ q.acknowledged /\ q.serial = r.serial
          /\ q.answered => r.answered \/ (r.member = "enrolled" /\ r.joined = r.serial)
      BY <1>3 DEF SameMember, WindowType
    <2> HIDE DEF q
    <2>3. /\ Shape(s) /\ s.win[w] = q
          /\ \A v \in Windows \ {w} : s.win[v] = win[v]
      <3>1. Sound(q) /\ InStep(read.txn, q)
        BY <1>6, <2>2 DEF Shape, Sound, InStep
      <3>2. Shape(s)
        BY <1>6, <3>1, ChangeShape
      <3>3. s.win[w] = q /\ \A v \in Windows \ {w} : s.win[v] = read.win[v]
        <4>1. Shape(read)
          BY <1>6
        <4> QED BY <4>1, Others
      <3> HIDE DEF s
      <3> QED BY <1>6, <3>2, <3>3
    <2> HIDE DEF s
    <2>4. win' = Settle(s).win
      BY <1>8, <2>1 DEF Becomes
    <2>5. ASSUME NEW v \in Windows \ {w} PROVE Allowed(win[v], win'[v])
      BY <2>3, <2>4, SettleKeeps, KeepsAllowed DEF AllKeep
    <2>6. Allowed(win[w], win'[w])
      <3>1. /\ win'[w].x = q.x /\ win'[w].size = q.size /\ win'[w].answered = q.answered
            /\ win'[w].acknowledged = q.acknowledged /\ win'[w].serial = q.serial
            /\ win'[w].member = "none" <=> q.member = "none"
        BY <2>3, <2>4, SettleKeeps DEF AllKeep, Keeps, Stays
      <3> QED BY <1>3, <2>2, <3>1 DEF Allowed, AllowedBut, SameMember, Keeps, Stays
    <2> QED BY <2>5, <2>6, AllowedAnyway
  <1> QED BY <1>5, <1>7, <1>8

LEMMA ResizeMotionAllowed ==
  ASSUME IInv, NEW w \in Windows, ResizeMotion(w)
  PROVE  AllAllowed
  <1>1. PICK q : Keeps(win[w], q) /\ Becomes([Now EXCEPT !.win[w] = q])
    BY ResizeMotionSame
  <1> QED BY <1>1, KeepsAllowed, ChangeAllowed

LEMMA NudgeAllowed ==
  ASSUME IInv, NEW w \in Windows, NEW x \in Positions, Nudge(w, x)
  PROVE  AllAllowed
  <1> DEFINE q == [win[w] EXCEPT !.x = x]
  <1>1. win' = [win EXCEPT ![w] = q] /\ nudged' = {w} /\ win[w] \in WindowType
        /\ win \in [Windows -> WindowType]
    BY NowIsShaped DEF Nudge, Shape
  <1>2. /\ q.size = win[w].size /\ q.member = win[w].member /\ q.answered = win[w].answered
    BY <1>1 DEF WindowType
  <1> HIDE DEF q
  <1>3. win'[w] = q /\ \A v \in Windows \ {w} : win'[v] = win[v]
    BY <1>1
  <1>5. ASSUME NEW v \in Windows PROVE AllowedBut(win[v], win'[v], v \in nudged')
    <2>1. CASE v = w
      BY <1>1, <1>2, <1>3, <2>1 DEF AllowedBut
    <2>2. CASE v # w
      <3>1. win'[v] = win[v]
        BY <1>3, <2>2
      <3> QED BY <3>1 DEF AllowedBut
    <2> QED BY <2>1, <2>2
  <1> QED BY <1>5 DEF AllAllowed

LEMMA AskAllowed ==
  ASSUME IInv, NEW w \in Windows,
         \/ \E size \in Sizes : Resize(w, size)
         \/ \E x \in Positions : Move(w, x)
         \/ \E x \in Positions, size \in Sizes : Relayout(w, x, size)
  PROVE  AllAllowed
  <1>1. Shape(Now) /\ Now.win = win /\ Now.txn = txn
    BY NowIsShaped
  \* A member that is enrolled has a transaction, so that set_position only joins it.
  <1>2. ASSUME NEW s, Shape(s), AllKeep(Now, s), s.win[w].live, NEW x \in Positions,
               s.txn = txn, Becomes(SetPosition(s, w, x))
        PROVE  AllAllowed
    <2>1. win' = SetPosition(s, w, x).win
      BY <1>2 DEF Becomes
    <2>2. ASSUME NEW v \in Windows PROVE Allowed(win[v], win'[v])
      <3>1. Stays(win[v], s.win[v]) /\ Stays(s.win[v], win'[v]) /\ s.win[v].x = win[v].x
        BY <1>1, <1>2, <2>1, SetPositionKeeps DEF AllKeep, Keeps
      <3>2. win[v].member = "enrolled" => txn # "none"
        BY NowIsShaped DEF InStep
      <3>3. txn # "none" => win'[v].x = s.win[v].x
        BY <1>2, <2>1, SetPositionKeeps DEF AllKeep, Keeps
      <3> QED BY <3>1, <3>2, <3>3 DEF Stays, Allowed, AllowedBut
    <2> QED BY <2>2, AllowedAnyway
  <1>3. ASSUME NEW s PROVE AllKeep(s, s)
    BY DEF AllKeep, Keeps, Stays
  <1>4. ASSUME NEW size \in Sizes, Resize(w, size) PROVE AllAllowed
    BY <1>1, <1>4, SetSizeKeeps, BecomesAllowed DEF Resize, CanConfigure, CanSend
  <1>5. ASSUME NEW x \in Positions, Move(w, x) PROVE AllAllowed
    BY <1>1, <1>2, <1>3, <1>5 DEF Move
  <1>6. ASSUME NEW x \in Positions, NEW size \in Sizes, Relayout(w, x, size) PROVE AllAllowed
    <2>1. Now.win[w].live /\ Becomes(SetPosition(SetSize(Now, w, size), w, x))
      BY <1>1, <1>6 DEF Relayout, CanConfigure, CanSend, SetGeometry
    <2>2. SetSize(Now, w, size).txn = txn
      BY <1>1 DEF SetSize, JoinTransaction, Shape
    <2> QED BY <1>1, <1>2, <2>1, <2>2, SetSizeShape, SetSizeKeeps
  <1> QED BY <1>4, <1>5, <1>6

LEMMA NextAllowed ==
  ASSUME IInv, [Next]_vars
  PROVE  AllAllowed
  <1>1. ASSUME NEW w \in Windows,
               \/ MapWindow(w) \/ DestroyWindow(w) \/ FocusChange(w) \/ SetStacked(w)
               \/ ResizeMotion(w)
               \/ \E x \in Positions : SetWindowGeometry(w, x) \/ MoveMotion(w, x)
               \/ \E size \in Sizes, at \in Positions : CommitBuffer(w, size, at)
               \/ \E n \in 1..Len(win[w].inbox) : AckConfigure(w, n)
        PROVE  AllAllowed
    BY <1>1, MapWindowAllowed, DestroyWindowAllowed, FocusChangeAllowed, SetStackedAllowed,
       CommitBufferAllowed, AckConfigureAllowed, ResizeMotionAllowed, NudgeAllowed
       DEF SetWindowGeometry, MoveMotion
  <1>2. ASSUME NEW at \in [Parked(Now) -> Positions],
               NEW t, Becomes(t), t.win = PresentCohort(Now, at).win
        PROVE  AllAllowed
    BY <1>2, PresentCohortAllowed, PlacesGiven, AllowedAnyway DEF Becomes, IInv, Now
  <1>3. ASSUME NEW at \in [Parked(Now) -> Positions], NEW ok \in BOOLEAN, Begin(ok, at)
        PROVE  AllAllowed
    BY <1>2, <1>3 DEF Begin
  <1>4. ASSUME NEW ok \in BOOLEAN, Commit(ok) PROVE AllAllowed
    <2> DEFINE t == [Now EXCEPT !.txn = "committed"]
               s == Settle(t)
    <2>1. Shape(t) /\ t.win = win
      BY <1>4 DEF IInv, Shape, Now, InStep, Commit
    <2>2. \/ Becomes(TransactionDone(s, "expired"))
          \/ Becomes(s)
      BY <1>4 DEF Commit
    <2> HIDE DEF t
    <2>3. Shape(s) /\ AllKeep(Now, s)
      BY <2>1, SettleShape, SettleKeeps DEF AllKeep, Now
    <2> HIDE DEF s
    <2> QED BY <2>2, <2>3, TransactionDoneKeeps, AllKeepTrans, BecomesAllowed
  <1>5. ASSUME NEW at \in [Parked(Now) -> Positions], Present(at) PROVE AllAllowed
    BY <1>2, <1>5 DEF Present
  <1>6. CASE Timeout
    BY <1>6, TransactionDoneKeeps, BecomesAllowed DEF Timeout, IInv
  <1>7. CASE UNCHANGED vars
    BY <1>7, KeepsAllowed, AllowedAnyway DEF vars, Keeps, Stays
  <1> QED
    BY <1>1, <1>3, <1>4, <1>5, <1>6, <1>7, AskAllowed DEF Next

\* Whatever a client commits and the manager asks for, what a member of a cohort
\* shows does not change until the cohort is presented, but for its place when its
\* client announces its geometry or the pointer drags it (libswc/window.c 261-267,
\* 769, 826-833; surface.c 308-325; xdg_shell.c 711-716).
THEOREM MembersAreFrozen == Spec => FrozenUntilPresented
  <1>1. IInv /\ [Next]_vars =>
          [\A w \in Windows : win[w].member # "none" /\ win'[w].member # "none" =>
             /\ win'[w].size = win[w].size
             /\ (win[w].member = "enrolled" /\ w \notin nudged') => win'[w].x = win[w].x]_vars
    BY NextAllowed DEF AllAllowed, AllowedBut
  <1> QED
    BY InitIInv, NextIInv, <1>1, PTL DEF Spec, FrozenUntilPresented

\* Presenting a cohort neither moves a window that did not answer nor forgets where
\* it was to go, but for one that has answered since and drawn; one that has drawn
\* only follows the edge it is being resized by (libswc/window.c 331-348, 835-859).
THEOREM StragglersKeepTheirMove == Spec => StragglerKeepsMove
  <1>1. IInv /\ [Next]_vars =>
          [\A w \in Windows :
             win[w].member = "parked" /\ ~win[w].answered
               /\ win'[w].member = "none" /\ win'[w].live
             => \/ /\ win'[w].moveTo = win[w].moveTo
                   /\ win'[w].x = win[w].x \/ (win[w].replay /\ win'[w].size # win[w].size)
                \/ win[w].acknowledged /\ win[w].replay]_vars
    BY NextAllowed DEF AllAllowed, AllowedBut
  <1> QED
    BY InitIInv, NextIInv, <1>1, PTL DEF Spec, StragglerKeepsMove

\* However often a window is configured again, a cohort takes only the ack of the
\* configure the window was enrolled with, or of one an interactive resize has put in
\* its place (libswc/window.c 436-443, 801; transaction.c 198-205).
THEOREM OnlyTheirAckAnswers == Spec => AnswerIsForThisCohort
  <1>1. IInv /\ [Next]_vars =>
          [\A w \in Windows :
             /\ win[w].member = "enrolled" /\ ~win[w].answered
             /\ win'[w].member # "none" /\ win'[w].answered
             => win'[w].acknowledged /\ win'[w].serial = win[w].joined]_vars
    BY NextAllowed DEF AllAllowed, AllowedBut
  <1> QED
    BY InitIInv, NextIInv, <1>1, PTL DEF Spec, AnswerIsForThisCohort

-----------------------------------------------------------------------------
(* The cohort is a barrier *)

\* Members whose answer is still owed
Owed(s) == {v \in Windows : s.win[v].member # "none" /\ ~s.win[v].answered}

\* A committed cohort waits for somebody; how the last one completed is forgotten when
\* the next begins, and before the first there are no members.
Waits(s) ==
    /\ s.txn = "committed" => Owed(s) # {}
    /\ s.txn # "none" => s.outcome = "none"
    /\ s.txn = "none" /\ s.outcome = "none" => \A v \in Windows : s.win[v].member = "none"

Same(r, q) == q.member = r.member /\ (r.member # "none" => q.answered = r.answered)

\* Windows join only while the transaction is open.
AllSame(s, t) ==
    /\ t.txn = s.txn /\ t.outcome = s.outcome
    /\ s.txn # "open" => \A v \in Windows : Same(s.win[v], t.win[v])

\* Members answer or leave, and while the transaction is open join.
Shrinks(s, t) ==
    /\ t.txn = s.txn /\ t.outcome = s.outcome
    /\ s.txn # "open" => \A v \in Windows : t.win[v].member # "none" =>
         s.win[v].member # "none" /\ (s.win[v].answered => t.win[v].answered)

Shown == TheBarrier!barrierVars
Step == [TheBarrier!BarrierNext]_Shown

\* What the barrier shows in a state with this txn, this outcome and these owing
Phase(s) ==
    CASE s.txn = "open" -> "open"
      [] s.txn = "committed" -> "waiting"
      [] s.txn = "none" -> IF s.outcome = "none" THEN "none" ELSE "released"

\* A step between two states, in the barrier's terms
Transition(s, t) ==
    \/ Phase(t) = Phase(s) /\ Owed(t) = Owed(s) /\ t.outcome = s.outcome
    \/ /\ Phase(s) \in {"none", "released"} /\ Phase(t) = "open"
       /\ Owed(t) = {} /\ t.outcome = "none"
    \/ Phase(s) = "open" /\ Phase(t) = "open" /\ t.outcome = s.outcome
    \/ /\ Phase(s) = "open" /\ Phase(t) = "waiting" /\ t.outcome = s.outcome
       /\ Owed(t) = Owed(s) /\ Owed(s) # {}
    \/ /\ Phase(s) = "waiting" /\ Phase(t) = "waiting" /\ t.outcome = s.outcome
       /\ Owed(t) # {} /\ Owed(t) \subseteq Owed(s)
    \/ /\ Phase(s) \in {"open", "waiting"} /\ Phase(t) = "released" /\ t.outcome = "answered"
       /\ Owed(t) = {} /\ (Phase(s) = "open" => Owed(s) = {})
    \/ /\ Phase(s) \in {"open", "waiting"} /\ Phase(t) = "released" /\ t.outcome = "expired"
       /\ Owed(t) = Owed(s) /\ Owed(s) # {}
    \/ /\ Phase(s) = "released" /\ Phase(t) = "released" /\ t.outcome = s.outcome
       /\ Owed(t) \subseteq Owed(s)

BarrierPhase ==
    CASE txn = "open" -> "open"
      [] txn = "committed" -> "waiting"
      [] txn = "none" -> IF outcome = "none" THEN "none" ELSE "released"

Awaited == {w \in Windows : win[w].member # "none" /\ ~win[w].answered}

LEMMA TransitionIsAStep ==
  ASSUME NEW t, Becomes(t), Transition(Now, t)
  PROVE  Step
  <1>1. /\ BarrierPhase = Phase(Now) /\ Awaited = Owed(Now) /\ outcome = Now.outcome
        /\ BarrierPhase' = Phase(t) /\ Awaited' = Owed(t) /\ outcome' = t.outcome
    BY DEF BarrierPhase, Phase, Awaited, Owed, Now, Becomes
  <1>2. Owed(t) \in SUBSET Windows
    BY DEF Owed
  <1>3. CASE BarrierPhase' = BarrierPhase /\ Awaited' = Awaited /\ outcome' = outcome
    BY <1>3 DEF Step, Shown, TheBarrier!barrierVars, BarrierPhase, Awaited
  <1>4. CASE /\ BarrierPhase \in {"none", "released"} /\ BarrierPhase' = "open"
             /\ Awaited' = {} /\ outcome' = "none"
    <2>1. TheBarrier!Open
      BY <1>4 DEF TheBarrier!Open, BarrierPhase, Awaited
    <2> QED BY <2>1 DEF Step, TheBarrier!BarrierNext
  <1>5. CASE BarrierPhase = "open" /\ BarrierPhase' = "open" /\ outcome' = outcome
    <2>1. TheBarrier!Collect
      BY <1>1, <1>2, <1>5 DEF TheBarrier!Collect, BarrierPhase, Awaited
    <2> QED BY <2>1 DEF Step, TheBarrier!BarrierNext
  <1>6. CASE /\ BarrierPhase = "open" /\ BarrierPhase' = "waiting" /\ outcome' = outcome
             /\ Awaited' = Awaited /\ Awaited # {}
    <2>1. TheBarrier!StartWait
      BY <1>6 DEF TheBarrier!StartWait, BarrierPhase, Awaited
    <2> QED BY <2>1 DEF Step, TheBarrier!BarrierNext
  <1>7. CASE /\ BarrierPhase = "waiting" /\ BarrierPhase' = "waiting" /\ outcome' = outcome
             /\ Awaited' # {} /\ Awaited' \subseteq Awaited
    <2>1. TheBarrier!Shrink
      BY <1>7 DEF TheBarrier!Shrink, BarrierPhase, Awaited
    <2> QED BY <2>1 DEF Step, TheBarrier!BarrierNext
  <1>8. CASE /\ BarrierPhase \in {"open", "waiting"} /\ BarrierPhase' = "released" /\ outcome' = "answered"
             /\ Awaited' = {} /\ (BarrierPhase = "open" => Awaited = {})
    <2>1. TheBarrier!ReleaseAnswered
      BY <1>8 DEF TheBarrier!ReleaseAnswered, BarrierPhase, Awaited
    <2> QED BY <2>1 DEF Step, TheBarrier!BarrierNext, TheBarrier!Release
  <1>9. CASE /\ BarrierPhase \in {"open", "waiting"} /\ BarrierPhase' = "released" /\ outcome' = "expired"
             /\ Awaited' = Awaited /\ Awaited # {}
    <2>1. TheBarrier!ReleaseExpired
      BY <1>9 DEF TheBarrier!ReleaseExpired, BarrierPhase, Awaited
    <2> QED BY <2>1 DEF Step, TheBarrier!BarrierNext, TheBarrier!Release
  <1>10. CASE /\ BarrierPhase = "released" /\ BarrierPhase' = "released" /\ outcome' = outcome
              /\ Awaited' \subseteq Awaited
    <2>1. TheBarrier!Late
      BY <1>10 DEF TheBarrier!Late, BarrierPhase, Awaited
    <2> QED BY <2>1 DEF Step, TheBarrier!BarrierNext
  <1> HIDE DEF BarrierPhase, Awaited
  <1> QED BY <1>1, <1>3, <1>4, <1>5, <1>6, <1>7, <1>8, <1>9, <1>10 DEF Transition

-----------------------------------------------------------------------------
(* Completing *)

LEMMA SettleNothing ==
  ASSUME NEW s, Shape(s), s.txn # "committed" \/ Owed(s) # {}
  PROVE  Settle(s) = s
  <1>1. CASE s.txn # "committed"
    BY <1>1 DEF Settle
  <1>2. CASE s.txn = "committed" /\ Owed(s) # {}
    <2>1. PICK v \in Windows : s.win[v].member # "none" /\ ~s.win[v].answered
      BY <1>2 DEF Owed
    <2>2. v \in Enrolled(s)
      BY <1>2, <2>1 DEF Shape, InStep, Enrolled
    <2> QED BY <2>1, <2>2 DEF Settle
  <1> QED BY <1>1, <1>2

LEMMA SettleAll ==
  ASSUME NEW s, Shape(s), s.txn = "committed", Owed(s) = {}
  PROVE  Settle(s) = TransactionDone(s, "answered")
  <1>1. \A v \in Enrolled(s) : s.win[v].answered
    BY DEF Owed, Enrolled, Shape
  <1> QED BY <1>1 DEF Settle

LEMMA TransactionDoneOwes ==
  ASSUME NEW s, Shape(s), NEW how
  PROVE  /\ Owed(TransactionDone(s, how)) = Owed(s)
         /\ TransactionDone(s, how).txn = "none" /\ TransactionDone(s, how).outcome = how
  <1>1. Owed(TransactionDone(s, how)) = Owed(s)
    BY TransactionDoneKeeps DEF Owed
  <1>2. TransactionDone(s, how).txn = "none" /\ TransactionDone(s, how).outcome = how
    BY DEF TransactionDone
  <1> QED BY <1>1, <1>2

LEMMA SameOwes ==
  ASSUME NEW s, NEW t, \A v \in Windows : Same(s.win[v], t.win[v])
  PROVE  Owed(t) = Owed(s)
  BY DEF Same, Owed

\* Members answer or leave, and then the cohort completes if nobody owes an answer.
LEMMA ShrinkSteps ==
  ASSUME NEW s, Shape(s), Waits(s), NEW m, Shape(m), Shrinks(s, m),
         NEW t, t.txn = Settle(m).txn, t.outcome = Settle(m).outcome,
         \A v \in Windows : Same(Settle(m).win[v], t.win[v])
  PROVE  Transition(s, t) /\ Waits(t)
  <1>1. Owed(t) = Owed(Settle(m))
    BY SameOwes
  <1>2. s.txn # "open" => Owed(m) \subseteq Owed(s)
    BY DEF Shrinks, Owed
  <1>3. CASE s.txn = "open"
    <2>1. Settle(m) = m
      BY <1>3, SettleNothing DEF Shrinks
    <2> QED BY <1>3, <2>1 DEF Transition, Phase, Waits, Shrinks
  <1>4. CASE s.txn = "committed" /\ Owed(m) = {}
    <2>1. Owed(t) = {} /\ t.txn = "none" /\ t.outcome = "answered"
      BY <1>1, <1>4, SettleAll, TransactionDoneOwes DEF Shrinks
    <2> QED BY <1>4, <2>1 DEF Transition, Phase, Waits
  <1>5. CASE s.txn = "committed" /\ Owed(m) # {}
    <2>1. Settle(m) = m
      BY <1>5, SettleNothing
    <2> QED BY <1>1, <1>2, <1>5, <2>1 DEF Transition, Phase, Waits, Shrinks
  <1>6. CASE s.txn = "none" /\ s.outcome # "none"
    <2>1. Settle(m) = m
      BY <1>6, SettleNothing DEF Shrinks
    <2> QED BY <1>1, <1>2, <1>6, <2>1 DEF Transition, Phase, Waits, Shrinks
  <1>7. CASE s.txn = "none" /\ s.outcome = "none"
    <2>1. Settle(m) = m
      BY <1>7, SettleNothing DEF Shrinks
    <2>2. \A v \in Windows : s.win[v].member = "none" /\ m.win[v].member = "none" /\ t.win[v].member = "none"
      BY <1>7, <2>1 DEF Waits, Shrinks, Same
    <2>3. Owed(s) = {} /\ Owed(t) = {}
      BY <2>2 DEF Owed
    <2> QED BY <1>7, <2>1, <2>2, <2>3 DEF Transition, Phase, Waits, Shrinks
  <1> QED BY <1>3, <1>4, <1>5, <1>6, <1>7 DEF Shape

LEMMA SameSteps ==
  ASSUME NEW s, Shape(s), Waits(s), NEW t, Shape(t), AllSame(s, t)
  PROVE  Transition(s, t) /\ Waits(t)
  <1>1. Shrinks(s, t)
    BY DEF Shrinks, AllSame, Same
  <1>2. s.txn # "open" => Owed(t) = Owed(s)
    BY SameOwes DEF AllSame
  <1>3. Settle(t) = t
    BY <1>2, SettleNothing DEF AllSame, Waits
  <1>4. \A v \in Windows : Same(t.win[v], t.win[v])
    BY DEF Same
  <1> QED BY <1>1, <1>3, <1>4, ShrinkSteps

-----------------------------------------------------------------------------
(* The steps in the barrier's terms *)

BInv == IInv /\ Waits(Now)

LEMMA BecomesWaits ==
  ASSUME NEW t, Becomes(t), Waits(t)
  PROVE  Waits(Now)'
  BY DEF Becomes, Waits, Now, Owed

\* A step to t that changes nothing the barrier shows but who joins an open one
LEMMA SameStep ==
  ASSUME BInv, NEW t, Shape(t), AllSame(Now, t), Becomes(t)
  PROVE  Step /\ Waits(Now)'
  <1>1. Transition(Now, t) /\ Waits(t)
    BY SameSteps DEF BInv, IInv
  <1> QED BY <1>1, TransitionIsAStep, BecomesWaits

LEMMA ChangeSame ==
  ASSUME NEW s, Shape(s), NEW w \in Windows, NEW q, Same(s.win[w], q)
  PROVE  AllSame(s, [s EXCEPT !.win[w] = q])
  BY Others DEF AllSame, Same

LEMMA AllSameTrans ==
  ASSUME NEW s, NEW t, NEW u, AllSame(s, t), AllSame(t, u)
  PROVE  AllSame(s, u)
  BY DEF AllSame, Same

\* A step that changes one window, in a way that leaves its place in the cohort
LEMMA ChangeStep ==
  ASSUME BInv, NEW w \in Windows, NEW q, SameMember(win[w], q), Becomes([Now EXCEPT !.win[w] = q])
  PROVE  Step /\ Waits(Now)'
  <1>1. Shape(Now) /\ SameMember(Now.win[w], q) /\ Same(Now.win[w], q)
    BY DEF BInv, IInv, Now, SameMember, Same
  <1>2. Shape([Now EXCEPT !.win[w] = q]) /\ AllSame(Now, [Now EXCEPT !.win[w] = q])
    BY <1>1, SameShape, ChangeSame
  <1> QED BY <1>2, SameStep

LEMMA JoinTransactionSame ==
  ASSUME NEW s, Shape(s), NEW w \in Windows, NEW awaitingAck
  PROVE  AllSame(s, JoinTransaction(s, w, awaitingAck))
  <1> DEFINE q == [s.win[w] EXCEPT !.member = "enrolled", !.joined = s.win[w].serial,
                                   !.answered = ~awaitingAck, !.held = TRUE]
  <1>1. CASE s.txn # "open" \/ s.win[w].member = "enrolled"
    BY <1>1 DEF JoinTransaction, AllSame, Same
  <1>2. CASE s.txn = "open" /\ s.win[w].member # "enrolled"
    <2>1. JoinTransaction(s, w, awaitingAck) = [s EXCEPT !.win[w] = q]
      BY <1>2 DEF JoinTransaction
    <2> HIDE DEF q
    <2> QED BY <1>2, <2>1, Others DEF AllSame
  <1> QED BY <1>1, <1>2

LEMMA SetSizeSame ==
  ASSUME NEW s, Shape(s), NEW w \in Windows, s.win[w].live, NEW size \in Sizes
  PROVE  AllSame(s, SetSize(s, w, size))
  <1> DEFINE r == s.win[w]
             q == [Configure(r) EXCEPT !.asked = IF r.mode = "tiled" THEN size ELSE @,
                                       !.pending = r.mode = "tiled" \/ @]
             t == [s EXCEPT !.win[w] = q]
  <1>1. r \in WindowType
    BY DEF Shape
  <1>2. SameMember(r, Configure(r))
    BY <1>1, ConfigureSame
  <1> HIDE DEF r
  <1>3. SameMember(r, q) /\ Same(r, q)
    BY <1>2, ZenonT(30) DEF SameMember, WindowType, Same
  <1> HIDE DEF q
  <1>4. Shape(t) /\ AllSame(s, t)
    <2>1. SameMember(s.win[w], q) /\ Same(s.win[w], q)
      BY <1>3 DEF r
    <2> QED BY <2>1, SameShape, ChangeSame
  <1>5. SetSize(s, w, size) \in {s, JoinTransaction(t, w, TRUE)}
    BY DEF SetSize, q, r
  <1> HIDE DEF t
  <1>6. AllSame(s, JoinTransaction(t, w, TRUE))
    BY <1>4, JoinTransactionSame, AllSameTrans
  <1> QED BY <1>5, <1>6 DEF AllSame, Same

LEMMA SetPositionSame ==
  ASSUME NEW s, Shape(s), NEW w \in Windows, s.win[w].live, NEW x \in Positions
  PROVE  AllSame(s, SetPosition(s, w, x))
  <1> DEFINE r == s.win[w]
             wait == r.pending /\ ~r.acknowledged
             moving == [r EXCEPT !.moveTo = x]
             still == [r EXCEPT !.moveTo = NoMove]
             t == [s EXCEPT !.win[w] = moving]
             now == [t EXCEPT !.win[w] = Flush(t.win[w])]
  <1>1. r \in WindowType
    BY DEF Shape
  <1>2. SameMember(r, moving) /\ Same(r, moving) /\ Same(r, still)
    BY <1>1 DEF SameMember, WindowType, Same
  <1>3. SetPosition(s, w, x) \in
          {[s EXCEPT !.win[w] = still], JoinTransaction(t, w, wait), t, now}
    BY DEF SetPosition
  <1> HIDE DEF moving, still, wait
  <1>4. Shape(t) /\ AllSame(s, t) /\ t.win[w] = moving
    BY <1>2, SameShape, ChangeSame
  <1>5. AllSame(s, [s EXCEPT !.win[w] = still])
    BY <1>2, ChangeSame
  <1> HIDE DEF t
  <1>6. AllSame(s, JoinTransaction(t, w, wait))
    BY <1>4, JoinTransactionSame, AllSameTrans
  <1>7. AllSame(s, now)
    <2>1. Same(t.win[w], Flush(t.win[w]))
      BY <1>2, <1>4, FlushSame DEF SameMember, Same
    <2>2. AllSame(t, now)
      BY <1>4, <2>1, ChangeSame
    <2> HIDE DEF now
    <2> QED BY <1>4, <2>2, AllSameTrans
  <1> HIDE DEF now
  <1> QED BY <1>3, <1>4, <1>5, <1>6, <1>7

LEMMA AskStep ==
  ASSUME BInv, NEW w \in Windows,
         \/ \E size \in Sizes : Resize(w, size)
         \/ \E x \in Positions : Move(w, x)
         \/ \E x \in Positions, size \in Sizes : Relayout(w, x, size)
  PROVE  Step /\ Waits(Now)'
  <1>1. Shape(Now) /\ Now.win = win
    BY DEF BInv, IInv, Now
  <1>2. ASSUME NEW size \in Sizes, Resize(w, size) PROVE Step /\ Waits(Now)'
    <2>1. Now.win[w].live /\ Becomes(SetSize(Now, w, size))
      BY <1>1, <1>2 DEF Resize, CanConfigure, CanSend
    <2> QED BY <1>1, <2>1, SetSizeShape, SetSizeSame, SameStep
  <1>3. ASSUME NEW x \in Positions, Move(w, x) PROVE Step /\ Waits(Now)'
    <2>1. Now.win[w].live /\ Becomes(SetPosition(Now, w, x))
      BY <1>1, <1>3 DEF Move
    <2> QED BY <1>1, <2>1, SetPositionShape, SetPositionSame, SameStep
  <1>4. ASSUME NEW x \in Positions, NEW size \in Sizes, Relayout(w, x, size) PROVE Step /\ Waits(Now)'
    <2> DEFINE s == SetSize(Now, w, size)
    <2>1. Now.win[w].live /\ Becomes(SetPosition(s, w, x))
      BY <1>1, <1>4 DEF Relayout, CanConfigure, CanSend, SetGeometry
    <2>2. Shape(s) /\ s.win[w].live /\ AllSame(Now, s)
      BY <1>1, <2>1, SetSizeShape, SetSizeSame
    <2> HIDE DEF s
    <2>3. Shape(SetPosition(s, w, x)) /\ AllSame(Now, SetPosition(s, w, x))
      BY <2>2, SetPositionShape, SetPositionSame, AllSameTrans
    <2> QED BY <2>1, <2>3, SameStep
  <1> QED BY <1>2, <1>3, <1>4

LEMMA MapWindowStep ==
  ASSUME BInv, NEW w \in Windows, MapWindow(w)
  PROVE  Step /\ Waits(Now)'
  <1> DEFINE fresh == [NoWindow EXCEPT !.live = TRUE, !.buf = win[w].buf,
                                       !.held = win[w].held, !.replay = win[w].held]
             mapped == IF fresh.held THEN fresh ELSE Attach(fresh, fresh.x)
             q == SetMode(mapped, "tiled")
  <1>1. IInv /\ Shape(Now) /\ win[w] \in WindowType /\ Sound(win[w]) /\ Now.win = win
    BY NowIsShaped DEF BInv
  <1>2. fresh \in WindowType /\ fresh.member = "none"
    BY <1>1, NoWindowSound, ZenonT(30) DEF WindowType
  <1>3. Becomes([Now EXCEPT !.win[w] = q]) /\ win[w].member = "none"
    BY <1>1 DEF MapWindow, Sound
  <1> HIDE DEF fresh
  <1>4. SameMember(fresh, mapped)
    <2>1. fresh.x \in Positions
      BY <1>2 DEF WindowType
    <2> QED BY <1>2, <2>1, AttachSame DEF SameMember
  <1> HIDE DEF mapped
  <1>5. SameMember(mapped, q)
    BY <1>4, SetModeSame DEF SameMember
  <1> HIDE DEF q
  <1>6. Sound(q) /\ InStep(Now.txn, q) /\ Same(win[w], q)
    BY <1>2, <1>3, <1>4, <1>5 DEF SameMember, Sound, InStep, Same
  <1>7. Shape([Now EXCEPT !.win[w] = q]) /\ AllSame(Now, [Now EXCEPT !.win[w] = q])
    BY <1>1, <1>6, ChangeShape, ChangeSame
  <1> QED BY <1>3, <1>7, SameStep

LEMMA SetStackedStep ==
  ASSUME BInv, NEW w \in Windows, SetStacked(w)
  PROVE  Step /\ Waits(Now)'
  <1> DEFINE r == IF win[w].member = "enrolled" THEN win[w] ELSE Flush(win[w])
             p == [r EXCEPT !.pending = FALSE, !.asked = Unsized]
             q == SetMode(p, "stacked")
  <1>1. win[w] \in WindowType
    BY NowIsShaped DEF BInv
  <1>2. Becomes([Now EXCEPT !.win[w] = q])
    BY DEF SetStacked
  <1>3. SameMember(win[w], r)
    BY <1>1, FlushSame DEF SameMember
  <1> HIDE DEF r
  <1>4. SameMember(win[w], p)
    BY <1>3 DEF SameMember, WindowType
  <1> HIDE DEF p
  <1>5. SameMember(win[w], q)
    BY <1>4, SetModeSame DEF SameMember
  <1> HIDE DEF q
  <1> QED BY <1>2, <1>5, ChangeStep

LEMMA FocusChangeStep ==
  ASSUME BInv, NEW w \in Windows, FocusChange(w)
  PROVE  Step /\ Waits(Now)'
  <1>1. win[w] \in WindowType /\ Now.win = win
    BY NowIsShaped DEF BInv
  <1>2. Becomes([Now EXCEPT !.win[w] = SendConfigure(win[w], Unrecorded)])
    BY <1>1 DEF FocusChange
  <1>3. SameMember(win[w], SendConfigure(win[w], Unrecorded))
    BY <1>1, SendConfigureSame DEF Unrecorded
  <1> QED BY <1>2, <1>3, ChangeStep

LEMMA CommitBufferStep ==
  ASSUME BInv, NEW w \in Windows, NEW size \in Sizes, NEW at \in Positions, CommitBuffer(w, size, at)
  PROVE  Step /\ Waits(Now)'
  <1> DEFINE drawn == [win[w] EXCEPT !.buf = size]
             q == IF drawn.held THEN [drawn EXCEPT !.replay = TRUE] ELSE Attach(drawn, at)
  <1>1. win[w] \in WindowType
    BY NowIsShaped DEF BInv
  <1>2. Becomes([Now EXCEPT !.win[w] = q])
    BY DEF CommitBuffer
  <1>3. SameMember(win[w], drawn)
    BY <1>1 DEF SameMember, WindowType
  <1> HIDE DEF drawn
  <1>4. SameMember(drawn, [drawn EXCEPT !.replay = TRUE]) /\ SameMember(drawn, Attach(drawn, at))
    BY <1>3, AttachSame DEF SameMember, WindowType
  <1>5. SameMember(win[w], q)
    BY <1>3, <1>4 DEF SameMember
  <1> HIDE DEF q
  <1> QED BY <1>2, <1>5, ChangeStep

LEMMA ResizeMotionStep ==
  ASSUME BInv, NEW w \in Windows, ResizeMotion(w)
  PROVE  Step /\ Waits(Now)'
  <1>1. PICK q : SameMember(win[w], q) /\ Becomes([Now EXCEPT !.win[w] = q])
    BY ResizeMotionSame DEF BInv
  <1> QED BY <1>1, ChangeStep

LEMMA NudgeStep ==
  ASSUME BInv, NEW w \in Windows, NEW x \in Positions, Nudge(w, x)
  PROVE  Step /\ Waits(Now)'
  <1>1. win \in [Windows -> WindowType] /\ win' = [win EXCEPT ![w].x = x]
    BY DEF BInv, IInv, Shape, Now, Nudge
  <1>2. \A v \in Windows : win'[v].member = win[v].member /\ win'[v].answered = win[v].answered
    BY <1>1 DEF WindowType
  <1>3. txn' = txn /\ outcome' = outcome
    BY DEF Nudge
  <1>4. Awaited' = Awaited /\ BarrierPhase' = BarrierPhase
    BY <1>2, <1>3 DEF Awaited, BarrierPhase
  <1>5. Step
    BY <1>3, <1>4 DEF Step, Shown, TheBarrier!barrierVars, Awaited, BarrierPhase
  <1>6. Waits(Now)'
    BY <1>2, <1>3 DEF BInv, Waits, Now, Owed
  <1> QED BY <1>5, <1>6

LEMMA AckConfigureStep ==
  ASSUME BInv, NEW w \in Windows, NEW n \in 1..Len(win[w].inbox), AckConfigure(w, n)
  PROVE  Step /\ Waits(Now)'
  <1> DEFINE r == [win[w] EXCEPT !.inbox = SubSeq(@, n + 1, Len(@))]
             read == [Now EXCEPT !.win[w] = r]
             counts == r.member = "enrolled" /\ r.joined = r.serial
             q == [r EXCEPT !.acknowledged = TRUE, !.answered = @ \/ counts]
             s == [read EXCEPT !.win[w] = q]
  <1>1. Shape(Now) /\ win[w] \in WindowType /\ Now.win = win
    BY NowIsShaped DEF BInv
  <1>2. SubSeq(win[w].inbox, n + 1, Len(win[w].inbox)) \in Seq(Nat)
    BY <1>1 DEF WindowType
  <1>3. SameMember(win[w], r)
    BY <1>1, <1>2 DEF SameMember, WindowType
  <1>4. [Now EXCEPT !.win[w].inbox = SubSeq(@, n + 1, Len(@))] = read
    BY <1>1 DEF Now, Shape
  <1>5. Becomes(AckWindow(read, w)) \/ Becomes(read)
    BY <1>4 DEF AckConfigure
  <1> HIDE DEF r
  <1>6. CASE Becomes(read)
    BY <1>3, <1>6, ChangeStep
  <1>7. CASE Becomes(AckWindow(read, w))
    <2>1. Shape(read) /\ read.win[w] = r
      <3>1. SameMember(Now.win[w], r)
        BY <1>1, <1>3
      <3>2. Shape(read)
        BY <1>1, <3>1, SameShape
      <3>3. read.win[w] = r
        BY <1>1 DEF Shape
      <3> QED BY <3>2, <3>3
    <2>2. /\ \A v \in Windows \ {w} : read.win[v] = Now.win[v]
          /\ read.txn = Now.txn /\ read.outcome = Now.outcome
      BY <1>1, Others
    <2> HIDE DEF read
    <2>3. AckWindow(read, w) = Settle(s)
      BY <2>1 DEF AckWindow, Shape, WindowType
    <2>4. /\ q \in WindowType /\ q.live = r.live /\ q.held = r.held /\ q.member = r.member
          /\ r.answered => q.answered
      BY <1>3 DEF SameMember, WindowType
    <2> HIDE DEF q
    <2>5. Shape(s)
      <3>1. Sound(q) /\ InStep(read.txn, q)
        BY <2>1, <2>4 DEF Shape, Sound, InStep
      <3> QED BY <2>1, <3>1, ChangeShape
    <2>6. /\ s.win[w] = q /\ \A v \in Windows \ {w} : s.win[v] = read.win[v]
          /\ s.txn = read.txn /\ s.outcome = read.outcome
      <3>1. Shape(read)
        BY <2>1
      <3>2. s.win[w] = q /\ \A v \in Windows \ {w} : s.win[v] = read.win[v]
        BY <3>1 DEF Shape
      <3>3. s.txn = read.txn /\ s.outcome = read.outcome
        BY <3>1 DEF Shape
      <3> QED BY <3>2, <3>3
    <2> HIDE DEF s
    <2>7. Shrinks(Now, s)
      BY <1>1, <1>3, <2>2, <2>4, <2>6 DEF Shrinks, SameMember
    <2>8. \A v \in Windows : Same(Settle(s).win[v], Settle(s).win[v])
      BY DEF Same
    <2>9. Transition(Now, Settle(s)) /\ Waits(Settle(s))
      BY <1>1, <2>5, <2>7, <2>8, ShrinkSteps DEF BInv
    <2> QED BY <1>7, <2>3, <2>9, TransitionIsAStep, BecomesWaits
  <1> QED BY <1>5, <1>6, <1>7

\* A member that closes is no longer awaited, and the cohort completes if it was
\* the last.
LEMMA DestroyWindowStep ==
  ASSUME BInv, NEW w \in Windows, DestroyWindow(w)
  PROVE  Step /\ Waits(Now)'
  <1> DEFINE u == Unlink(win[w])
             p == IF win[w].member = "enrolled" THEN ReleaseRender(u, win[w].x) ELSE u
             m == [Now EXCEPT !.win[w] = p]
             gone == LeaveTransaction(Now, w)
             q == [NoWindow EXCEPT !.buf = gone.win[w].buf, !.held = gone.win[w].held,
                                   !.replay = gone.win[w].replay]
             t == [gone EXCEPT !.win[w] = q]
  <1>1. /\ Shape(Now) /\ win[w] \in WindowType /\ Now.win = win /\ Now.txn = txn
        /\ InStep(txn, win[w]) /\ Waits(Now)
    BY NowIsShaped DEF BInv
  <1>2. Becomes(t) /\ Shape(gone) /\ q.member = "none"
    BY <1>1, LeaveTransactionShape DEF DestroyWindow, NoWindow
  <1>3. p \in WindowType /\ p.member = "none"
    <2>1. win[w].x \in Positions
      BY <1>1 DEF WindowType
    <2> QED BY <1>1, <2>1, UnlinkLeaves, ReleaseRenderLeaves
  <1>4. gone = IF win[w].member = "enrolled" THEN Settle(m) ELSE m
    BY <1>1 DEF LeaveTransaction
  <1> HIDE DEF q, gone, p
  <1>5. /\ Shape(m) /\ m.win[w] = p /\ m.txn = txn /\ m.outcome = Now.outcome
        /\ \A v \in Windows \ {w} : m.win[v] = win[v]
    <2>1. Sound(p) /\ InStep(Now.txn, p)
      BY <1>3 DEF Sound, InStep
    <2>2. Shape(m)
      BY <1>1, <2>1, ChangeShape
    <2>3. /\ m.win[w] = p /\ m.txn = Now.txn /\ m.outcome = Now.outcome
          /\ \A v \in Windows \ {w} : m.win[v] = Now.win[v]
      BY <1>1, Others
    <2> HIDE DEF m
    <2> QED BY <1>1, <2>2, <2>3
  <1> HIDE DEF m
  <1>6. Shrinks(Now, m)
    BY <1>1, <1>3, <1>5 DEF Shrinks
  \* Whoever is not enrolled is not awaited.
  <1>7. gone = Settle(m)
    <2>1. CASE win[w].member = "enrolled"
      BY <1>4, <2>1
    <2>2. CASE win[w].member # "enrolled" /\ txn # "committed"
      BY <1>4, <1>5, <2>2, SettleNothing
    <2>3. CASE win[w].member # "enrolled" /\ txn = "committed"
      <3>1. win[w].member = "none" /\ Owed(Now) # {}
        BY <1>1, <2>3 DEF InStep, Waits
      <3>2. Owed(m) = Owed(Now)
        BY <1>1, <1>3, <1>5, <3>1 DEF Owed
      <3> QED BY <1>4, <1>5, <2>3, <3>1, <3>2, SettleNothing
    <2> QED BY <2>1, <2>2, <2>3
  <1>8. /\ t.win[w] = q /\ t.txn = gone.txn /\ t.outcome = gone.outcome
        /\ \A v \in Windows \ {w} : t.win[v] = gone.win[v]
    BY <1>2, Others
  <1>9. gone.win[w].member = "none"
    BY <1>3, <1>5, <1>7, SettleKeeps
  <1> HIDE DEF t
  <1>10. \A v \in Windows : Same(Settle(m).win[v], t.win[v])
    BY <1>2, <1>7, <1>8, <1>9 DEF Same
  <1>11. Transition(Now, t) /\ Waits(t)
    BY <1>1, <1>5, <1>6, <1>7, <1>8, <1>10, ShrinkSteps
  <1> QED BY <1>2, <1>11, TransitionIsAStep, BecomesWaits

\* What was parked is presented: nobody is awaited any more.
LEMMA PresentStep ==
  ASSUME BInv, NEW t, Shape(t), Becomes(t), \A v \in Windows : t.win[v].member = "none",
         \/ txn = "none" /\ t.txn = "open" /\ t.outcome = "none"
         \/ t.txn = txn /\ t.outcome = outcome /\ txn = "none"
  PROVE  Step /\ Waits(Now)'
  <1>1. Owed(t) = {} /\ Now.txn = txn /\ Now.outcome = outcome /\ Now.win = win /\ Waits(Now)
    BY DEF Owed, Now, BInv
  <1>2. txn = "none" /\ outcome = "none" => Owed(Now) = {}
    BY <1>1 DEF Waits, Owed
  <1>3. Transition(Now, t)
    BY <1>1, <1>2 DEF Transition, Phase
  <1>4. Waits(t)
    BY <1>1 DEF Waits
  <1> QED BY <1>3, <1>4, TransitionIsAStep, BecomesWaits

LEMMA BeginStep ==
  ASSUME BInv, NEW allocated \in BOOLEAN, NEW at \in [Parked(Now) -> Positions], Begin(allocated, at)
  PROVE  Step /\ Waits(Now)'
  <1> DEFINE s == PresentCohort(Now, at)
             t == [win |-> s.win, txn |-> "open", outcome |-> "none"]
  <1>1. /\ Shape(s) /\ s.txn = "none" /\ txn = "none"
        /\ \A v \in Windows : s.win[v].member = "none"
    BY PresentCohortShape, PlacesGiven DEF BInv, IInv, Begin, Now
  <1>2. Becomes(t) \/ Becomes(s)
    BY DEF Begin
  <1>3. s.outcome = outcome
    BY DEF PresentCohort, Now
  <1> HIDE DEF s
  <1>4. Shape(t)
    <2>1. \A v \in Windows : Sound(s.win[v]) /\ InStep("open", s.win[v])
      BY <1>1 DEF Shape, InStep
    <2>2. s.win \in [Windows -> WindowType]
      BY <1>1 DEF Shape
    <2> QED BY <2>1, <2>2 DEF Shape
  <1>5. CASE Becomes(t)
    BY <1>1, <1>4, <1>5, PresentStep
  <1>6. CASE Becomes(s)
    BY <1>1, <1>3, <1>6, PresentStep
  <1> QED BY <1>2, <1>5, <1>6

LEMMA PresentParkedStep ==
  ASSUME BInv, NEW at \in [Parked(Now) -> Positions], Present(at)
  PROVE  Step /\ Waits(Now)'
  <1>1. Shape(Now) /\ Now.txn = txn /\ Becomes(PresentCohort(Now, at))
    BY DEF BInv, IInv, Now, Present
  <1>2. txn = "none"
    BY <1>1 DEF Present, Parked, Shape, InStep
  <1>3. /\ Shape(PresentCohort(Now, at)) /\ PresentCohort(Now, at).txn = txn
        /\ \A v \in Windows : PresentCohort(Now, at).win[v].member = "none"
    BY <1>1, <1>2, PresentCohortShape, PlacesGiven DEF BInv
  <1>4. PresentCohort(Now, at).outcome = outcome
    BY DEF PresentCohort, Now
  <1> QED BY <1>1, <1>2, <1>3, <1>4, PresentStep

\* Time runs out, or there is no timer, and somebody still owes an answer.
LEMMA ExpireStep ==
  ASSUME IInv, NEW s, Shape(s), Waits(Now), txn # "none", Owed(Now) = Owed(s), Owed(s) # {},
         Becomes(TransactionDone(s, "expired"))
  PROVE  Step /\ Waits(Now)'
  <1> DEFINE t == TransactionDone(s, "expired")
  <1>1. Owed(t) = Owed(s) /\ t.txn = "none" /\ t.outcome = "expired"
    BY TransactionDoneOwes
  <1>2. Now.txn \in {"open", "committed"}
    BY DEF IInv, Shape, Now
  <1> HIDE DEF t
  <1>3. Transition(Now, t) /\ Waits(t)
    BY <1>1, <1>2 DEF Transition, Phase, Waits
  <1> QED BY <1>3, TransitionIsAStep, BecomesWaits DEF t

LEMMA CommitStep ==
  ASSUME BInv, NEW timerAdded \in BOOLEAN, Commit(timerAdded)
  PROVE  Step /\ Waits(Now)'
  <1> DEFINE t == [Now EXCEPT !.txn = "committed"]
             s == Settle(t)
  <1>1. /\ Shape(t) /\ t.win = win /\ t.txn = "committed" /\ t.outcome = outcome /\ txn = "open"
        /\ IInv /\ Waits(Now) /\ Now.txn = txn /\ Now.outcome = outcome
    BY DEF BInv, IInv, Shape, Now, InStep, Commit
  <1>2. Owed(t) = Owed(Now)
    BY <1>1 DEF Owed, Now
  <1>3. Becomes(IF s.txn = "committed" /\ ~timerAdded THEN TransactionDone(s, "expired") ELSE s)
    BY DEF Commit
  <1> HIDE DEF t
  <1>4. CASE Owed(t) = {}
    <2>1. Owed(s) = {} /\ s.txn = "none" /\ s.outcome = "answered"
      BY <1>1, <1>4, SettleAll, TransactionDoneOwes
    <2>2. Becomes(s)
      BY <1>3, <2>1
    <2> HIDE DEF s
    <2>3. Transition(Now, s) /\ Waits(s)
      BY <1>1, <1>2, <1>4, <2>1 DEF Transition, Phase, Waits
    <2> QED BY <2>2, <2>3, TransitionIsAStep, BecomesWaits
  <1>5. CASE Owed(t) # {} /\ timerAdded
    <2>1. Becomes(t)
      BY <1>1, <1>3, <1>5, SettleNothing
    <2>2. Transition(Now, t) /\ Waits(t)
      BY <1>1, <1>2, <1>5 DEF Transition, Phase, Waits
    <2> QED BY <2>1, <2>2, TransitionIsAStep, BecomesWaits
  <1>6. CASE Owed(t) # {} /\ ~timerAdded
    <2>1. Becomes(TransactionDone(t, "expired"))
      BY <1>1, <1>3, <1>6, SettleNothing
    <2> QED BY <1>1, <1>2, <1>6, <2>1, ExpireStep
  <1> QED BY <1>4, <1>5, <1>6

LEMMA TimeoutStep ==
  ASSUME BInv, Timeout
  PROVE  Step /\ Waits(Now)'
  <1>1. /\ IInv /\ Shape(Now) /\ Waits(Now) /\ txn = "committed" /\ Now.txn = txn
        /\ Becomes(TransactionDone(Now, "expired"))
    BY DEF BInv, IInv, Timeout, Now
  <1>2. Owed(Now) # {}
    BY <1>1 DEF Waits
  <1> QED BY <1>1, <1>2, ExpireStep

LEMMA InitWaits == Init => Waits(Now) /\ TheBarrier!BarrierInit
  BY DEF Init, Waits, Now, Owed, NoWindow, TheBarrier!BarrierInit

LEMMA NextStep == BInv /\ [Next]_vars => Step /\ Waits(Now)'
  <1> SUFFICES ASSUME BInv, [Next]_vars PROVE Step /\ Waits(Now)'
    OBVIOUS
  <1>1. ASSUME NEW w \in Windows,
               \/ MapWindow(w) \/ DestroyWindow(w) \/ FocusChange(w) \/ SetStacked(w)
               \/ ResizeMotion(w)
               \/ \E x \in Positions : SetWindowGeometry(w, x) \/ MoveMotion(w, x)
               \/ \E size \in Sizes, at \in Positions : CommitBuffer(w, size, at)
               \/ \E n \in 1..Len(win[w].inbox) : AckConfigure(w, n)
        PROVE  Step /\ Waits(Now)'
    BY <1>1, MapWindowStep, DestroyWindowStep, FocusChangeStep, SetStackedStep, CommitBufferStep,
       AckConfigureStep, ResizeMotionStep, NudgeStep DEF SetWindowGeometry, MoveMotion
  <1>2. ASSUME NEW at \in [Parked(Now) -> Positions],
               Present(at) \/ \E ok \in BOOLEAN : Begin(ok, at)
        PROVE  Step /\ Waits(Now)'
    BY <1>2, BeginStep, PresentParkedStep
  <1>3. CASE Timeout \/ \E ok \in BOOLEAN : Commit(ok)
    BY <1>3, CommitStep, TimeoutStep
  <1>4. CASE UNCHANGED vars
    BY <1>4 DEF vars, BInv, Waits, Owed, Now, Step, Shown, TheBarrier!barrierVars
  <1> QED
    BY <1>1, <1>2, <1>3, <1>4, AskStep DEF Next

\* Windows that open, close, acknowledge, draw and are configured again use the
\* transaction as the abstract barrier: the cohort completes exactly when the last
\* of those it awaits answers or leaves, or when time runs out
\* (libswc/window.c 217-313, 417-444).
THEOREM CohortIsABarrier == Spec => ImplementsBarrier
  <1>1. Init => BInv /\ TheBarrier!BarrierInit
    BY InitIInv, InitWaits DEF BInv
  <1>2. BInv /\ [Next]_vars => BInv' /\ [TheBarrier!BarrierNext]_(TheBarrier!barrierVars)
    BY NextIInv, NextStep DEF BInv, Step, Shown
  <1> QED
    BY <1>1, <1>2, PTL DEF Spec, ImplementsBarrier, TheBarrier!BarrierSafety

=============================================================================
