----------------------------- MODULE PointerProofs -----------------------------
(***************************************************************************)
(* Proofs about Pointer, for any views, clients, buttons and bindings.     *)
(*                                                                         *)
(* First, the clients are told of the focus as it is.  Which chain of      *)
(* interactions a release runs through does not matter for that: whatever  *)
(* it ends, it moves neither the focus nor what the clients were told.     *)
(*                                                                         *)
(* Then, the releases are heard and the interactions end, which is all     *)
(* about the chains.  They are paths through the interactions that are in  *)
(* front: a rank descends along them, so that they end before they are as  *)
(* long as there are interactions; one press or one other interaction      *)
(* calls each, so that a release changes no other button's chain; and what *)
(* an interaction replaced is on the chain of the press it names.          *)
(***************************************************************************)
EXTENDS Pointer, FiniteSetTheorems, WellFoundedInduction, TLAPS

-----------------------------------------------------------------------------
(* The parts of the inductive invariant, over a record like Now *)

Fields == {"focus", "buttons", "grabs", "inter", "select", "cursor", "entered", "down", "heard"}

Typed(t) ==
    /\ t = [x \in Fields |-> t[x]]
    /\ t.focus \in Views \cup {None}
    /\ t.entered \in [Clients -> Views \cup {None}]
    /\ t.cursor \in [client : Clients \cup {None}, surface : BOOLEAN]

\* Enter and leave agree with the focus.
Entered(t) ==
    \A c \in Clients : t.entered[c] = IF t.focus # None /\ Active(t.focus) = c THEN t.focus ELSE None

\* Nobody is shown another client's cursor.
OwnCursor(t) == Active(t.focus) # None => t.cursor.client \in {None, Active(t.focus)}

Told(t) == Typed(t) /\ Entered(t) /\ OwnCursor(t)

IInv == views \subseteq Views /\ bound \subseteq Clients /\ Told(Now)

LEMMA IInvSuffices == IInv => FocusIsTold
  BY DEF IInv, Told, Entered, OwnCursor, FocusIsTold, Now

LEMMA NowIsARecord ==
  ASSUME focus \in Views \cup {None}, entered \in [Clients -> Views \cup {None}],
         cursor \in [client : Clients \cup {None}, surface : BOOLEAN]
  PROVE  Typed(Now)
  BY DEF Typed, Now, Fields

LEMMA ActiveIsAClient ==
  ASSUME bound \subseteq Clients, NEW v \in Views \cup {None}
  PROVE  /\ Active(v) \in Clients \cup {None}
         /\ Active(v) # None => v # None /\ v \in Views /\ Owner[v] = Active(v)
  BY PointerAssumption DEF Active

LEMMA DefaultIsACursor == DefaultCursor \in [client : Clients \cup {None}, surface : BOOLEAN]
  BY DEF DefaultCursor

-----------------------------------------------------------------------------
(* What leaves the focus alone *)

\* t and u agree on the focus and on what was told of it; u may be back to the
\* compositor's cursor.
SameFocus(t, u) ==
    /\ u = [x \in Fields |-> u[x]]
    /\ u.focus = t.focus /\ u.entered = t.entered
    /\ u.cursor \in {t.cursor, DefaultCursor}

LEMMA SameFocusTold ==
  ASSUME NEW t, NEW u, Told(t), SameFocus(t, u)
  PROVE  Told(u)
<1>1. Typed(u)
  <2>1. /\ t.focus \in Views \cup {None} /\ t.entered \in [Clients -> Views \cup {None}]
        /\ t.cursor \in [client : Clients \cup {None}, surface : BOOLEAN]
    BY DEF Told, Typed
  <2> QED BY <2>1, DefaultIsACursor DEF SameFocus, Typed
<1>2. Entered(u)
  BY DEF Told, Entered, SameFocus
<1>3. OwnCursor(u)
  BY DEF Told, OwnCursor, SameFocus, DefaultCursor
<1> QED BY <1>1, <1>2, <1>3 DEF Told

LEMMA ForceCursorSame ==
  ASSUME NEW t, Typed(t)
  PROVE  SameFocus(t, ForceCursor(t))
  BY DEF Typed, SameFocus, ForceCursor, Fields, DefaultCursor

LEMMA ReleaseSame ==
  ASSUME NEW t, Typed(t), NEW h, NEW b
  PROVE  SameFocus(t, Release(t, h, b))
<1> DEFINE over == {i \in ToSet(Chain(t, h)) : PassesOn(t, i)}
           ended == [t EXCEPT !.grabs = @ \ over,
                              !.inter = [i \in Interactions |-> IF i \in over THEN Idle ELSE @[i]]]
           c == Active(t.focus)
<1>1. Release(t, h, b) \in {[ended EXCEPT !.down[c] = @ \ {b.value}],
                            [ended EXCEPT !.heard = @ \ {Pressed(b)}],
                            ForceCursor([ended EXCEPT !.select = "off", !.grabs = @ \ {Selection}]),
                            ended}
  BY DEF Release
<1>2. Typed(ended) /\ SameFocus(t, ended)
  BY DEF Typed, SameFocus, Fields
<1>3. SameFocus(ended, [ended EXCEPT !.down[c] = @ \ {b.value}])
  <2> HIDE DEF ended, c
  <2> QED BY <1>2 DEF Typed, SameFocus, Fields
<1>4. SameFocus(ended, [ended EXCEPT !.heard = @ \ {Pressed(b)}])
  <2> HIDE DEF ended, c
  <2> QED BY <1>2 DEF Typed, SameFocus, Fields
<1>5. SameFocus(ended, ForceCursor([ended EXCEPT !.select = "off", !.grabs = @ \ {Selection}]))
  <2> HIDE DEF ended, c
  <2> QED BY <1>2 DEF Typed, SameFocus, Fields, ForceCursor
<1>6. ASSUME NEW u, SameFocus(ended, u) PROVE SameFocus(t, u)
  <2> HIDE DEF ended, c
  <2> QED BY <1>2, <1>6 DEF SameFocus
<1> HIDE DEF ended, c
<1> QED BY <1>1, <1>2, <1>3, <1>4, <1>5, <1>6

LEMMA EndSame ==
  ASSUME NEW t, Typed(t), NEW i
  PROVE  SameFocus(t, End(t, i))
<1> DEFINE held == {b \in t.buttons : b.serial = t.inter[i].serial}
           told == IF t.inter[i].original = Nobody \/ held = {} THEN t
                   ELSE Release(t, t.inter[i].original, CHOOSE b \in held : TRUE)
<1>1. SameFocus(t, t)
  BY DEF Typed, SameFocus
<1>2. SameFocus(t, told)
  BY <1>1, ReleaseSame
<1>3. End(t, i) = IF ~IsActive(t, i) THEN t ELSE [told EXCEPT !.grabs = @ \ {i}, !.inter[i] = Idle]
  BY DEF End
<1> HIDE DEF told, held
<1>4. SameFocus(t, [told EXCEPT !.grabs = @ \ {i}, !.inter[i] = Idle])
  BY <1>2 DEF SameFocus, Fields
<1> QED BY <1>1, <1>3, <1>4

-----------------------------------------------------------------------------
(* What moves the focus *)

\* The view that lost the focus is told, and only its client had it.
LEMMA LeaveTold ==
  ASSUME NEW t, Told(t), bound \subseteq Clients
  PROVE  Told(Leave(t)) /\ Leave(t).focus = None
<1> DEFINE c == Active(t.focus)
<1>1. c \in Clients \cup {None} /\ Active(None) = None
  BY ActiveIsAClient DEF Told, Typed, Active
<1>2. CASE c = None
  <2>1. Leave(t) = [t EXCEPT !.focus = None]
    BY <1>2 DEF Leave
  <2>2. Typed(Leave(t)) /\ Leave(t).focus = None /\ Leave(t).entered = t.entered
    BY <2>1 DEF Told, Typed, Fields
  <2>3. \A d \in Clients : t.entered[d] = None
    BY <1>2, PointerAssumption DEF Told, Entered
  <2> HIDE DEF c
  <2> QED BY <1>1, <2>2, <2>3 DEF Told, Entered, OwnCursor
<1>3. CASE c # None
  <2>1. Leave(t) = [t EXCEPT !.focus = None, !.entered[c] = None, !.down[c] = {}]
    BY <1>3 DEF Leave
  <2>2. \A d \in Clients : [t.entered EXCEPT ![c] = None][d] = None
    BY <1>1, <1>3 DEF Told, Typed, Entered
  <2>3. [t.entered EXCEPT ![c] = None] \in [Clients -> Views \cup {None}]
    BY <1>1 DEF Told, Typed
  <2> HIDE DEF c
  <2> QED BY <1>1, <2>1, <2>2, <2>3 DEF Told, Typed, Entered, OwnCursor, Fields
<1> QED BY <1>2, <1>3

\* Nobody has the pointer before it enters a view.
LEMMA EnterTold ==
  ASSUME NEW t, Told(t), t.focus = None, bound \subseteq Clients, NEW v \in Views \cup {None}
  PROVE  Told(Enter(t, v))
<1> DEFINE c == Active(v)
<1>1. c \in Clients \cup {None} /\ (c # None => v # None /\ v \in Views)
  BY ActiveIsAClient
<1>2. \A d \in Clients : t.entered[d] = None
  BY DEF Told, Entered
<1>3. CASE c = None
  <2>1. Enter(t, v) = [t EXCEPT !.focus = v, !.cursor = DefaultCursor]
    BY <1>3 DEF Enter
  <2>2. v # None => \A d \in Clients : Active(v) # d
    BY <1>3, PointerAssumption
  <2>3. Typed(Enter(t, v)) /\ Enter(t, v).focus = v /\ Enter(t, v).entered = t.entered
    <3>1. /\ Enter(t, v) = [x \in Fields |-> Enter(t, v)[x]]
          /\ Enter(t, v).focus = v /\ Enter(t, v).cursor = DefaultCursor
          /\ Enter(t, v).entered = t.entered
      BY <2>1 DEF Told, Typed, Fields
    <3>2. t.entered \in [Clients -> Views \cup {None}]
      BY DEF Told, Typed
    <3> QED BY <3>1, <3>2, DefaultIsACursor DEF Typed
  <2> QED BY <1>2, <1>3, <2>2, <2>3 DEF Told, Entered, OwnCursor
<1>4. CASE c # None
  <2> DEFINE k == IF t.cursor.client \in {None, c} THEN t.cursor ELSE DefaultCursor
  <2>1. Enter(t, v) = [t EXCEPT !.focus = v, !.entered[c] = v, !.cursor = k]
    BY <1>4 DEF Enter, Told, Typed, Fields
  <2>2. \A d \in Clients : [t.entered EXCEPT ![c] = v][d] = IF c = d THEN v ELSE None
    BY <1>1, <1>2, <1>4 DEF Told, Typed
  <2>3. [t.entered EXCEPT ![c] = v] \in [Clients -> Views \cup {None}]
    BY <1>1 DEF Told, Typed
  <2>4. k \in [client : Clients \cup {None}, surface : BOOLEAN] /\ k.client \in {None, c}
    BY DEF Told, Typed, DefaultCursor
  <2>5. /\ Enter(t, v) = [x \in Fields |-> Enter(t, v)[x]]
        /\ Enter(t, v).focus = v /\ Enter(t, v).cursor = k
        /\ Enter(t, v).entered = [t.entered EXCEPT ![c] = v]
    <3> HIDE DEF k, c
    <3> QED BY <2>1 DEF Told, Typed, Fields
  <2> HIDE DEF k
  <2>6. Typed(Enter(t, v))
    BY <2>3, <2>4, <2>5 DEF Typed
  <2>7. Entered(Enter(t, v))
    BY <1>1, <1>4, <2>2, <2>5 DEF Entered
  <2>8. OwnCursor(Enter(t, v))
    BY <2>4, <2>5 DEF OwnCursor
  <2> QED BY <2>6, <2>7, <2>8 DEF Told
<1> QED BY <1>3, <1>4

LEMMA SetFocusTold ==
  ASSUME NEW t, Told(t), bound \subseteq Clients, NEW v \in Views \cup {None}
  PROVE  Told(SetFocus(t, v))
  BY LeaveTold, EnterTold DEF SetFocus

LEMMA AddResourceTold ==
  ASSUME IInv, NEW c \in Clients, c \notin bound, bound' = bound \cup {c},
         Becomes(AddResource(Now, c)), views' = views
  PROVE  IInv'
<1>1. /\ focus \in Views \cup {None} /\ bound' \subseteq Clients /\ views' \subseteq Views
      /\ entered \in [Clients -> Views \cup {None}]
      /\ cursor \in [client : Clients \cup {None}, surface : BOOLEAN]
      /\ \A d \in Clients : entered[d] = IF focus # None /\ Active(focus) = d THEN focus ELSE None
      /\ Active(focus) # None => cursor.client \in {None, Active(focus)}
  BY DEF IInv, Told, Typed, Entered, OwnCursor, Now
<1>2. CASE focus # None /\ Owner[focus] = c
  <2> DEFINE k == IF cursor.client \in {None, c} THEN cursor ELSE DefaultCursor
  <2>1. focus' = focus /\ entered' = [entered EXCEPT ![c] = focus] /\ cursor' = k
    BY <1>2 DEF Becomes, AddResource, Now
  <2>2. Active(focus)' = c
    BY <1>1, <1>2, <2>1, PointerAssumption DEF Active
  <2>3. cursor' \in [client : Clients \cup {None}, surface : BOOLEAN] /\ cursor'.client \in {None, c}
    BY <1>1, <2>1, DefaultIsACursor DEF DefaultCursor
  <2>4. Typed(Now)'
    <3>1. entered' \in [Clients -> Views \cup {None}]
      BY <1>1, <2>1
    <3> QED BY <1>1, <2>1, <2>3, <3>1 DEF Typed, Now, Fields
  <2>5. Entered(Now)' /\ OwnCursor(Now)'
    <3>1. Active(focus) = None
      BY <1>2 DEF Active
    <3>2. \A d \in Clients : entered'[d] = IF c = d THEN focus ELSE None
      BY <1>1, <2>1, <3>1, PointerAssumption
    <3>3. Entered(Now)'
      BY <1>2, <2>1, <2>2, <3>2 DEF Entered, Now
    <3>4. OwnCursor(Now)'
      BY <2>2, <2>3 DEF OwnCursor, Now
    <3> QED BY <3>3, <3>4
  <2> QED BY <1>1, <2>4, <2>5 DEF IInv, Told
<1>3. CASE ~(focus # None /\ Owner[focus] = c)
  <2>1. UNCHANGED <<focus, entered, cursor>>
    BY <1>3 DEF Becomes, AddResource, Now
  <2>2. Active(focus)' = Active(focus)
    BY <1>3, <2>1 DEF Active
  <2>3. Typed(Now)'
    BY <1>1, <2>1 DEF Typed, Now, Fields
  <2>4. Entered(Now)' /\ OwnCursor(Now)'
    BY <1>1, <2>1, <2>2 DEF Entered, OwnCursor, Now
  <2> QED BY <1>1, <2>3, <2>4 DEF IInv, Told
<1> QED BY <1>2, <1>3

-----------------------------------------------------------------------------
(* The initial state and the steps *)

LEMMA InitIInv == Init => IInv
<1> SUFFICES ASSUME Init PROVE IInv
  OBVIOUS
<1>1. Typed(Now)
  BY DefaultIsACursor, NowIsARecord DEF Init
<1>2. Entered(Now) /\ OwnCursor(Now)
  BY DEF Init, Entered, OwnCursor, Now, Active
<1> QED BY <1>1, <1>2 DEF Init, IInv, Told

LEMMA BecomesIInv ==
  ASSUME NEW t, Told(t), Becomes(t), bound \subseteq Clients, bound' = bound, views' \subseteq Views
  PROVE  IInv'
<1>1. focus' = t.focus /\ entered' = t.entered /\ cursor' = t.cursor
  BY DEF Becomes
<1>2. Typed(Now)'
  <2>1. /\ t.focus \in Views \cup {None} /\ t.entered \in [Clients -> Views \cup {None}]
        /\ t.cursor \in [client : Clients \cup {None}, surface : BOOLEAN]
    BY DEF Told, Typed
  <2> QED BY <1>1, <2>1 DEF Typed, Now, Fields
<1>3. Entered(Now)' /\ OwnCursor(Now)'
  BY <1>1 DEF Told, Entered, OwnCursor, Now, Active
<1> QED BY <1>2, <1>3 DEF IInv, Told

\* A step that moves nothing the invariant speaks of
LEMMA UnchangedIInv ==
  ASSUME IInv, UNCHANGED <<focus, bound, cursor, entered>>, views' \subseteq Views
  PROVE  IInv'
<1>1. Typed(Now)'
  <2>1. /\ focus \in Views \cup {None} /\ entered \in [Clients -> Views \cup {None}]
        /\ cursor \in [client : Clients \cup {None}, surface : BOOLEAN]
    BY DEF IInv, Told, Typed, Now
  <2> QED BY <2>1 DEF Typed, Now, Fields
<1>2. Entered(Now)' /\ OwnCursor(Now)'
  BY DEF IInv, Told, Entered, OwnCursor, Now, Active
<1> QED BY <1>1, <1>2 DEF IInv, Told

\* A step whose outcome differs from a record that is told in other fields only
LEMMA SameFocusIInv ==
  ASSUME NEW t, NEW u, Told(t), SameFocus(t, u), Becomes(u),
         bound \subseteq Clients, bound' = bound, views' \subseteq Views
  PROVE  IInv'
  BY SameFocusTold, BecomesIInv

LEMMA PressButtonIInv ==
  ASSUME IInv, NEW value \in Buttons, NEW u \in Views \cup {None}, NEW m \in BOOLEAN,
         PressButton(value, u, m)
  PROVE  IInv'
<1> DEFINE over == SetFocus(Now, u)
           c == Active(u)
           fresh == [value |-> value, serial |-> NextSerial, by |-> Nobody, slot |-> 0, to |-> None]
<1>1. Told(Now) /\ Told(over) /\ bound \subseteq Clients /\ views \subseteq Views
  BY SetFocusTold DEF IInv
<1>2. views' = views /\ bound' = bound
  BY DEF PressButton
<1>3. ASSUME NEW r, Told(r), NEW x, SameFocus(r, x), NEW b,
             Becomes([x EXCEPT !.buttons = @ \cup {b}])
      PROVE  IInv'
  <2>1. SameFocus(r, [x EXCEPT !.buttons = @ \cup {b}])
    BY <1>3 DEF SameFocus, Fields
  <2> QED BY <1>1, <1>2, <1>3, <2>1, SameFocusIInv
<1>4. CASE select = "press"
  <2> DEFINE x == [Now EXCEPT !.select = "release"]
  <2>1. Becomes([x EXCEPT !.buttons = @ \cup {[fresh EXCEPT !.by = Selection]}])
    BY <1>4 DEF PressButton
  <2>2. SameFocus(Now, x)
    BY <1>1 DEF Told, Typed, SameFocus, Fields
  <2> HIDE DEF x, fresh
  <2> QED BY <1>1, <1>3, <2>1, <2>2
<1>5. CASE select # "press" /\ m
  <2> DEFINE x == [over EXCEPT !.heard = @ \cup {array.memory[Slot(value)]}]
  <2>1. Becomes([x EXCEPT !.buttons = @ \cup {[fresh EXCEPT !.by = Bound, !.slot = Slot(value)]}])
    BY <1>5 DEF PressButton
  <2> HIDE DEF fresh, over
  <2>2. SameFocus(over, x)
    BY <1>1 DEF Told, Typed, SameFocus, Fields
  <2> HIDE DEF x
  <2> QED BY <1>1, <1>3, <2>1, <2>2
<1>6. CASE select # "press" /\ ~m /\ c # None
  <2> DEFINE x == [over EXCEPT !.down[c] = @ \cup {value}]
  <2>1. Becomes([x EXCEPT !.buttons = @ \cup {[fresh EXCEPT !.by = Client, !.to = c]}])
    BY <1>6 DEF PressButton
  <2> HIDE DEF fresh, over, c
  <2>2. SameFocus(over, x)
    BY <1>1 DEF Told, Typed, SameFocus, Fields
  <2> HIDE DEF x
  <2> QED BY <1>1, <1>3, <2>1, <2>2
<1>7. CASE select # "press" /\ ~m /\ c = None
  <2>1. Becomes([over EXCEPT !.buttons = @ \cup {fresh}])
    BY <1>7 DEF PressButton
  <2> HIDE DEF fresh, over
  <2>2. SameFocus(over, over)
    BY <1>1 DEF Told, Typed, SameFocus
  <2> QED BY <1>1, <1>3, <2>1, <2>2
<1> QED BY <1>4, <1>5, <1>6, <1>7

LEMMA ReleaseButtonIInv ==
  ASSUME IInv, NEW b \in buttons, ReleaseButton(b)
  PROVE  IInv'
<1> DEFINE t == Release(Now, b.by, b)
           u == [t EXCEPT !.buttons = @ \ {b}]
           w == [u EXCEPT !.heard = @ \ moved]
<1>1. SameFocus(Now, t)
  BY ReleaseSame DEF IInv, Told
<1>2. (Becomes(u) \/ Becomes(w)) /\ views' = views /\ bound' = bound
  BY DEF ReleaseButton
<1> HIDE DEF t
<1>3. SameFocus(Now, u)
  BY <1>1 DEF SameFocus, Fields
<1> HIDE DEF u
<1>4. SameFocus(Now, w)
  BY <1>3 DEF SameFocus, Fields
<1> HIDE DEF w
<1> QED BY <1>2, <1>3, <1>4, SameFocusIInv DEF IInv

LEMMA InteractionIInv ==
  ASSUME IInv, NEW i \in Interactions,
         \/ \E b \in buttons : RequestInteraction(i, b)
         \/ BeginInteraction(i) \/ EndInteraction(i)
  PROVE  IInv'
<1>1. CASE (\E b \in buttons : RequestInteraction(i, b)) \/ BeginInteraction(i)
  <2>1. UNCHANGED <<views, focus, bound, cursor, entered>>
    BY <1>1 DEF RequestInteraction, BeginInteraction, Becomes, Now
  <2> QED BY <2>1, UnchangedIInv DEF IInv
<1>2. CASE EndInteraction(i)
  <2>1. SameFocus(Now, End(Now, i))
    BY EndSame DEF IInv, Told
  <2>2. Becomes(End(Now, i)) /\ views' = views /\ bound' = bound
    BY <1>2 DEF EndInteraction
  <2> QED BY <2>1, <2>2, SameFocusIInv DEF IInv
<1> QED BY <1>1, <1>2

LEMMA ModeIInv ==
  ASSUME IInv, NEW w \in Windows, SetTiled(w) \/ SetStacked(w)
  PROVE  IInv'
<1>1. CASE SetTiled(w)
  <2> DEFINE t == End(Now, <<"move", w>>)
             u == End(t, <<"resize", w>>)
  <2>1. Told(t)
    BY EndSame, SameFocusTold DEF IInv, Told
  <2>2. SameFocus(t, u)
    BY <2>1, EndSame DEF Told
  <2>3. Becomes(u) /\ views' = views /\ bound' = bound
    BY <1>1 DEF SetTiled
  <2> HIDE DEF t, u
  <2> QED BY <2>1, <2>2, <2>3, SameFocusIInv DEF IInv
<1>2. CASE SetStacked(w)
  BY <1>2, UnchangedIInv DEF SetStacked, IInv
<1> QED BY <1>1, <1>2

LEMMA GrabIInv ==
  ASSUME IInv, Grab
  PROVE  IInv'
<1> DEFINE t == [Now EXCEPT !.select = "press", !.grabs = @ \cup {Selection}]
<1>1. Typed(t) /\ SameFocus(Now, t)
  BY DEF IInv, Told, Typed, SameFocus, Fields
<1>2. Becomes(ForceCursor(t)) /\ views' = views /\ bound' = bound
  BY DEF Grab
<1> HIDE DEF t
<1>3. Told(t) /\ SameFocus(t, ForceCursor(t))
  BY <1>1, SameFocusTold, ForceCursorSame DEF IInv
<1> QED BY <1>2, <1>3, SameFocusIInv DEF IInv

LEMMA MotionIInv ==
  ASSUME IInv, NEW u \in Views \cup {None}, Motion(u)
  PROVE  IInv'
  BY SetFocusTold, BecomesIInv DEF Motion, IInv

LEMMA ViewIInv ==
  ASSUME IInv, NEW v \in Views, OpenView(v) \/ CloseView(v)
  PROVE  IInv'
<1>1. CASE OpenView(v)
  BY <1>1, UnchangedIInv DEF OpenView, IInv
<1>2. CASE CloseView(v)
  <2>1. views' \subseteq Views /\ bound' = bound /\ (Becomes(Leave(Now)) \/ Becomes(Now))
    BY <1>2 DEF CloseView, IInv
  <2> QED BY <2>1, LeaveTold, BecomesIInv DEF IInv
<1> QED BY <1>1, <1>2

\* A client that gives up its pointer has been told nothing any more, and the view
\* that has the focus may be one of its own.
LEMMA UnbindIInv ==
  ASSUME IInv, NEW c \in Clients, Unbind(c)
  PROVE  IInv'
<1>1. /\ focus \in Views \cup {None} /\ views' \subseteq Views
      /\ entered \in [Clients -> Views \cup {None}]
      /\ cursor \in [client : Clients \cup {None}, surface : BOOLEAN]
      /\ \A d \in Clients : entered[d] = IF focus # None /\ Active(focus) = d THEN focus ELSE None
      /\ Active(focus) # None => cursor.client \in {None, Active(focus)}
  BY DEF IInv, Told, Typed, Entered, OwnCursor, Now, Unbind
<1>2. /\ focus' = focus /\ cursor' = cursor /\ entered' = [entered EXCEPT ![c] = None]
      /\ bound' = bound \ {c} /\ bound' \subseteq Clients
  BY DEF Unbind, IInv
<1>3. Active(focus)' = IF Active(focus) = c THEN None ELSE Active(focus)
  BY <1>2, PointerAssumption DEF Active
<1>4. entered' \in [Clients -> Views \cup {None}]
  BY <1>1, <1>2
<1>5. Typed(Now)'
  BY <1>1, <1>2, <1>4 DEF Typed, Now, Fields
<1>6. \A d \in Clients : entered'[d] = IF focus # None /\ Active(focus) = d /\ d # c
                                       THEN focus ELSE None
  BY <1>1, <1>2
<1>7. Entered(Now)'
  BY <1>2, <1>3, <1>6, PointerAssumption DEF Entered, Now
<1>8. OwnCursor(Now)'
  BY <1>1, <1>2, <1>3 DEF OwnCursor, Now
<1> QED BY <1>1, <1>2, <1>5, <1>7, <1>8 DEF IInv, Told

\* Only the client under the pointer sets a cursor, and it is its own.
LEMMA CursorIInv ==
  ASSUME IInv, (\E c \in Clients, s \in BOOLEAN : SetCursor(c, s)) \/ CursorSurfaceDestroy
  PROVE  IInv'
<1>1. /\ UNCHANGED <<views, focus, bound, entered>>
      /\ cursor' \in [client : Clients \cup {None}, surface : BOOLEAN]
      /\ Active(focus) # None => cursor'.client \in {None, Active(focus)}
  <2>1. CASE CursorSurfaceDestroy
    BY <2>1, DefaultIsACursor DEF CursorSurfaceDestroy, DefaultCursor
  <2>2. ASSUME NEW c \in Clients, NEW s \in BOOLEAN, SetCursor(c, s) PROVE <1>1!:
    <3>1. cursor' = [client |-> c, surface |-> s] /\ Active(focus) = c
      BY <2>2 DEF SetCursor, Active
    <3> QED BY <2>2, <3>1 DEF SetCursor
  <2> QED BY <2>1, <2>2
<1>2. /\ focus \in Views \cup {None} /\ entered \in [Clients -> Views \cup {None}]
      /\ Entered(Now)
  BY DEF IInv, Told, Typed, Now
<1>3. Typed(Now)'
  BY <1>1, <1>2 DEF Typed, Now, Fields
<1>4. Entered(Now)'
  BY <1>1, <1>2 DEF Entered, Now, Active
<1>5. OwnCursor(Now)'
  BY <1>1 DEF OwnCursor, Now, Active
<1> QED BY <1>1, <1>3, <1>4, <1>5 DEF IInv, Told

LEMMA NextIInv == IInv /\ [Next]_vars => IInv'
<1> SUFFICES ASSUME IInv, [Next]_vars PROVE IInv'
  OBVIOUS
<1>1. CASE \E v \in Buttons, u \in Views \cup {None}, m \in BOOLEAN : PressButton(v, u, m)
  BY <1>1, PressButtonIInv
<1>2. CASE \E b \in buttons : ReleaseButton(b)
  BY <1>2, ReleaseButtonIInv
<1>3. CASE \E u \in Views \cup {None} : Motion(u)
  BY <1>3, MotionIInv
<1>4. CASE \E i \in Interactions : \/ \E b \in buttons : RequestInteraction(i, b)
                                   \/ BeginInteraction(i) \/ EndInteraction(i)
  BY <1>4, InteractionIInv
<1>5. CASE \E w \in Windows : SetTiled(w) \/ SetStacked(w)
  BY <1>5, ModeIInv
<1>6. CASE Grab
  BY <1>6, GrabIInv
<1>7. CASE \E b \in Bindings : AddBinding(b) \/ RemoveBinding(b)
  BY <1>7, UnchangedIInv DEF AddBinding, RemoveBinding, IInv
<1>8. CASE \E v \in Views : OpenView(v) \/ CloseView(v)
  BY <1>8, ViewIInv
<1>9. CASE \E c \in Clients : Bind(c) \/ Unbind(c)
  BY <1>9, AddResourceTold, UnbindIInv DEF Bind
<1>10. CASE (\E c \in Clients, s \in BOOLEAN : SetCursor(c, s)) \/ CursorSurfaceDestroy
  BY <1>10, CursorIInv
<1>11. CASE UNCHANGED vars
  BY <1>11, UnchangedIInv DEF vars, IInv
<1> QED
  BY <1>1, <1>2, <1>3, <1>4, <1>5, <1>6, <1>7, <1>8, <1>9, <1>10, <1>11 DEF Next

\* Whatever views, clients, interactions and cursors come and go, and in whatever
\* order buttons are pressed and let go, the client that was told it has the
\* pointer is the owner of the view that has the focus, and is not shown
\* under the cursor of another (libswc/input.c 30-151, pointer.c 130-170).
THEOREM FocusAlwaysTold == Spec => []FocusIsTold
<1>1. IInv /\ [Next]_vars => IInv'
  BY NextIInv
<1>2. IInv => FocusIsTold
  BY IInvSuffices
<1> QED
  BY InitIInv, <1>1, <1>2, PTL DEF Spec

-----------------------------------------------------------------------------
(* Induction up to a bound *)

\* A set with zero in it and with each number its successor holds all of them:
\* there would be a least number that is left out.
LEMMA UpTo ==
  ASSUME NEW n \in Nat, NEW T, 0 \in T, \A m \in 0..n : m \in T /\ m < n => m + 1 \in T
  PROVE  0..n \subseteq T
<1> DEFINE U == {m \in 0..n : m \notin T}
<1> SUFFICES ASSUME U # {} PROVE FALSE
  OBVIOUS
<1>1. U \in SUBSET Nat
  OBVIOUS
<1>2. PICK m \in U : \A k \in U : <<k, m>> \notin OpToRel(<, Nat)
  <2> HIDE DEF U
  <2> QED BY <1>1, WFMin, NatLessThanWellFounded
<1>3. m \in Nat /\ m \in 0..n /\ m \notin T /\ m # 0
  OBVIOUS
<1>4. m - 1 \in 0..n /\ m - 1 < n /\ (m - 1) + 1 = m
  BY <1>3
<1>5. m - 1 \notin T
  BY <1>3, <1>4
<1>6. m - 1 \in U /\ m - 1 \in Nat /\ m - 1 < m
  BY <1>4, <1>5
<1>7. <<m - 1, m>> \in OpToRel(<, Nat)
  BY <1>3, <1>6 DEF OpToRel
<1> QED BY <1>2, <1>6, <1>7

-----------------------------------------------------------------------------
(* Chains: who is called in turn when a button is released *)

\* There are so many interactions, and no chain is longer.
LEMMA InteractionsFinite == IsFiniteSet(Interactions) /\ Cardinality(Interactions) \in Nat
<1>1. IsFiniteSet({"move", "resize"})
  <2>1. {"move", "resize"} = {"move"} \cup {"resize"}
    OBVIOUS
  <2>2. IsFiniteSet({"move"}) /\ IsFiniteSet({"resize"})
    BY FS_Singleton
  <2>3. IsFiniteSet({"move"} \cup {"resize"})
    BY <2>2, FS_Union
  <2> QED BY <2>1, <2>3
<1>2. IsFiniteSet(Interactions)
  BY <1>1, PointerAssumption, FS_Product DEF Interactions
<1> QED BY <1>2, FS_CardinalityType

Most == Cardinality(Interactions)

LEMMA MostIsNat == Most \in Nat
  BY InteractionsFinite DEF Most

\* Who an interaction that has ended calls; nobody else calls anybody.
Passed(t, h) == IF PassesOn(t, h) THEN t.inter[h].original ELSE h

\* The chain as the proofs see it: who is last after each of its steps.
Longer(t, s) == IF PassesOn(t, Last(s)) THEN Append(s, t.inter[Last(s)].original) ELSE s

Called(c, t, h, n) == c = [m \in 0..n |-> IF m = 0 THEN <<h>> ELSE Longer(t, c[m - 1])]

LEMMA CalledExists ==
  ASSUME NEW t, NEW h, NEW n \in Nat
  PROVE  \E c : Called(c, t, h, n)
<1> DEFINE T == {m \in 0..n : \E c : Called(c, t, h, m)}
<1>1. 0 \in T
  <2> DEFINE c == [k \in 0..0 |-> <<h>>]
  <2>1. Called(c, t, h, 0)
    BY DEF Called
  <2> QED BY <2>1
<1>2. ASSUME NEW m \in 0..n, m \in T, m < n PROVE m + 1 \in T
  <2>1. PICK c : Called(c, t, h, m)
    BY <1>2
  <2> DEFINE d == [k \in 0..m + 1 |-> IF k = m + 1 THEN Longer(t, c[m]) ELSE c[k]]
  <2>2. \A k \in 0..m : c[k] = IF k = 0 THEN <<h>> ELSE Longer(t, c[k - 1])
    BY <2>1 DEF Called
  <2>3. d[m + 1] = Longer(t, c[m]) /\ (\A k \in 0..m : d[k] = c[k]) /\ d = [k \in 0..m + 1 |-> d[k]]
    BY <1>2
  <2> HIDE DEF d
  <2>4. ASSUME NEW k \in 0..m + 1
        PROVE  d[k] = IF k = 0 THEN <<h>> ELSE Longer(t, d[k - 1])
    <3>1. CASE k = m + 1
      <4>1. k # 0 /\ k - 1 = m /\ m \in 0..m
        BY <1>2, <3>1
      <4> QED BY <2>3, <3>1, <4>1
    <3>2. CASE k # m + 1
      <4>1. k \in 0..m /\ (k # 0 => k - 1 \in 0..m)
        BY <1>2, <3>2
      <4> QED BY <2>2, <2>3, <4>1
    <3> QED BY <3>1, <3>2
  <2>5. d = [k \in 0..m + 1 |-> IF k = 0 THEN <<h>> ELSE Longer(t, d[k - 1])]
    BY <2>3, <2>4
  <2> QED BY <1>2, <2>5 DEF Called
<1> HIDE DEF T
<1>3. n \in T
  BY <1>1, <1>2, UpTo
<1> QED BY <1>3 DEF T

LEMMA ChainIsCalled ==
  ASSUME NEW t, NEW h
  PROVE  \E c : Called(c, t, h, Most) /\ Chain(t, h) = c[Most]
<1> DEFINE c == CHOOSE c : Called(c, t, h, Most)
<1>1. Called(c, t, h, Most)
  BY CalledExists, MostIsNat
<1>2. Chain(t, h) = c[Most]
  BY DEF Chain, Called, Most, Longer
<1> QED BY <1>1, <1>2

\* What the proofs need of a record: whom interactions replaced.
Linked(t) ==
    /\ t.inter \in [Interactions -> [original : Handlers, serial : Serials \cup {0}]]
    /\ t.grabs \subseteq Interactions \cup {Selection}

LEMMA PassedIsHandler ==
  ASSUME NEW t, Linked(t), NEW h \in Handlers
  PROVE  Passed(t, h) \in Handlers
<1>1. CASE PassesOn(t, h)
  <2>1. h \in Interactions
    BY <1>1 DEF PassesOn
  <2> QED BY <1>1, <2>1 DEF Linked, Passed
<1>2. CASE ~PassesOn(t, h)
  BY <1>2 DEF Passed
<1> QED BY <1>1, <1>2

\* The steps of a chain
Path(e, t, h) ==
    /\ e \in [0..Most -> Handlers] /\ e[0] = h
    /\ \A m \in 0..Most : m < Most => e[m + 1] = Passed(t, e[m])

LEMMA ChainPath ==
  ASSUME NEW t, Linked(t), NEW h \in Handlers
  PROVE  \E e : /\ Path(e, t, h)
                /\ ToSet(Chain(t, h)) = {e[m] : m \in 0..Most}
                /\ Last(Chain(t, h)) = e[Most]
<1>1. PICK c : Called(c, t, h, Most) /\ Chain(t, h) = c[Most]
  BY ChainIsCalled
<1> DEFINE e == [m \in 0..Most |-> Last(c[m])]
           S(m) == {e[k] : k \in 0..m}
           T == {m \in 0..Most : c[m] \in Seq(Handlers) /\ c[m] # <<>> /\ ToSet(c[m]) = S(m)}
<1>2. c[0] = <<h>> /\ \A m \in 0..Most : m < Most => c[m + 1] = Longer(t, c[m])
  <2>1. \A k \in 0..Most : c[k] = IF k = 0 THEN <<h>> ELSE Longer(t, c[k - 1])
    BY <1>1 DEF Called
  <2>2. ASSUME NEW m \in 0..Most, m < Most PROVE c[m + 1] = Longer(t, c[m])
    <3>1. m + 1 \in 0..Most /\ m + 1 # 0 /\ (m + 1) - 1 = m
      BY <2>2, MostIsNat
    <3> QED BY <2>1, <3>1
  <2> QED BY <2>1, <2>2, MostIsNat
<1>3. \A m \in 0..Most : e[m] = Last(c[m])
  OBVIOUS
<1> HIDE DEF e
<1>0. e[0] = h /\ 0 \in 0..Most
  <2>1. 0 \in 0..Most
    BY MostIsNat
  <2>2. Last(<<h>>) = h
    BY DEF Last
  <2> QED BY <1>2, <1>3, <2>1, <2>2
<1>4. 0 \in T
  <2>2. S(0) = {h}
    BY <1>0
  <2>3. ToSet(<<h>>) = {h}
    BY DEF ToSet
  <2>4. <<h>> \in Seq(Handlers) /\ <<h>> # <<>>
    OBVIOUS
  <2> HIDE DEF S
  <2> QED BY <1>2, <1>0, <2>2, <2>3, <2>4
<1>5. ASSUME NEW m \in 0..Most, m \in T, m < Most PROVE m + 1 \in T /\ e[m + 1] = Passed(t, e[m]) /\ e[m] \in Handlers
  <2>1. /\ m + 1 \in 0..Most /\ m \in Nat
        /\ c[m] \in Seq(Handlers) /\ c[m] # <<>> /\ ToSet(c[m]) = S(m)
        /\ c[m + 1] = Longer(t, c[m]) /\ e[m] = Last(c[m]) /\ e[m + 1] = Last(c[m + 1])
    BY <1>2, <1>3, <1>5, MostIsNat
  <2>2. e[m] \in Handlers
    BY <2>1 DEF Last
  <2>3. S(m + 1) = S(m) \cup {e[m + 1]}
    <3>1. 0..(m + 1) = (0..m) \cup {m + 1}
      BY <2>1
    <3> QED BY <3>1
  <2>4. e[m] \in S(m)
    BY <2>1
  <2>5. CASE PassesOn(t, e[m])
    <3> DEFINE o == t.inter[e[m]].original
    <3>1. o \in Handlers /\ Passed(t, e[m]) = o
      BY <2>2, <2>5, PassedIsHandler DEF Passed
    <3>2. c[m + 1] = Append(c[m], o)
      BY <2>1, <2>5 DEF Longer
    <3> HIDE DEF o
    <3>3. c[m + 1] \in Seq(Handlers) /\ c[m + 1] # <<>> /\ Last(c[m + 1]) = o
      BY <2>1, <3>1, <3>2 DEF Last
    <3>4. ToSet(c[m + 1]) = ToSet(c[m]) \cup {o}
      <4>1. DOMAIN c[m + 1] = DOMAIN c[m] \cup {Len(c[m]) + 1} /\ c[m + 1][Len(c[m]) + 1] = o
            /\ \A j \in DOMAIN c[m] : c[m + 1][j] = c[m][j]
        BY <2>1, <3>1, <3>2
      <4> QED BY <4>1 DEF ToSet
    <3> HIDE DEF S
    <3> QED BY <2>1, <2>2, <2>3, <3>1, <3>3, <3>4
  <2>6. CASE ~PassesOn(t, e[m])
    <3>1. c[m + 1] = c[m] /\ e[m + 1] = e[m] /\ Passed(t, e[m]) = e[m]
      BY <2>1, <2>6 DEF Longer, Passed
    <3> HIDE DEF S
    <3>2. S(m + 1) = S(m)
      BY <2>3, <2>4, <3>1
    <3> QED BY <2>1, <2>2, <3>1, <3>2
  <2> QED BY <2>5, <2>6
<1>6. 0..Most \subseteq T
  <2> HIDE DEF T
  <2> QED BY <1>4, <1>5, MostIsNat, UpTo
<1>7. Path(e, t, h)
  <2>2. \A m \in 0..Most : e[m] \in Handlers
    BY <1>3, <1>6 DEF Last
  <2>3. e = [m \in 0..Most |-> e[m]]
    BY DEF e
  <2>4. e \in [0..Most -> Handlers]
    BY <2>2, <2>3
  <2> HIDE DEF T
  <2> QED BY <1>5, <1>6, <1>0, <2>4 DEF Path
<1>8. Most \in T /\ Most \in 0..Most
  <2> HIDE DEF T
  <2> QED BY <1>6, MostIsNat
<1> QED BY <1>1, <1>3, <1>7, <1>8

\* The chains go downwards.
Descends(t, r) ==
    \A i \in Interactions : t.inter[i].original \in Interactions => r[t.inter[i].original] < r[i]

Ranked(t) == Linked(t) /\ \E r \in [Interactions -> Nat] : Descends(t, r)

\* Who is called when the handler h of a button is released
On(t, h) == ToSet(Chain(t, h))

\* A set of handlers that call only each other
Closed(t, S) == \A j \in S : PassesOn(t, j) => t.inter[j].original \in S

\* Once nobody is called any more, nobody is.
LEMMA PathStops ==
  ASSUME NEW t, NEW h, NEW e, Path(e, t, h), NEW m \in 0..Most, ~PassesOn(t, e[m])
  PROVE  e[Most] = e[m]
<1> DEFINE T == {k \in 0..Most : m + k <= Most => e[m + k] = e[m]}
<1>1. 0 \in T
  BY MostIsNat
<1>2. ASSUME NEW k \in 0..Most, k \in T, k < Most PROVE k + 1 \in T
  <2> SUFFICES ASSUME m + (k + 1) <= Most PROVE e[m + (k + 1)] = e[m]
    BY <1>2, MostIsNat
  <2>1. m + k \in 0..Most /\ m + k < Most /\ (m + k) + 1 = m + (k + 1) /\ e[m + k] = e[m]
    BY <1>2, MostIsNat
  <2>2. e[(m + k) + 1] = Passed(t, e[m + k])
    BY <2>1 DEF Path
  <2> QED BY <2>1, <2>2 DEF Passed
<1>3. Most - m \in 0..Most /\ m + (Most - m) = Most
  BY MostIsNat
<1>4. Most - m \in T
  <2> HIDE DEF T
  <2> QED BY <1>1, <1>2, <1>3, MostIsNat, UpTo
<1> QED BY <1>3, <1>4

\* There are not enough interactions for a chain that never ends.
LEMMA PathEnds ==
  ASSUME NEW t, Ranked(t), NEW h \in Handlers, NEW e, Path(e, t, h)
  PROVE  ~PassesOn(t, e[Most])
<1> SUFFICES ASSUME PassesOn(t, e[Most]) PROVE FALSE
  OBVIOUS
<1>1. PICK r \in [Interactions -> Nat] : Descends(t, r)
  BY DEF Ranked
<1>2. \A m \in 0..Most : PassesOn(t, e[m])
  BY PathStops
<1>3. \A m \in 0..Most : e[m] \in Interactions
  BY <1>2 DEF PassesOn
<1>4. \A m \in 0..Most : m < Most => r[e[m + 1]] < r[e[m]]
  <2> TAKE m \in 0..Most
  <2> HAVE m < Most
  <2>1. e[m + 1] = t.inter[e[m]].original /\ m + 1 \in 0..Most
    BY <1>2, MostIsNat DEF Path, Passed
  <2> QED BY <1>1, <1>3, <2>1 DEF Descends
<1>5. ASSUME NEW m \in 0..Most, NEW n \in 0..Most, m < n PROVE r[e[n]] < r[e[m]]
  <2> DEFINE T == {k \in 0..Most : m + (k + 1) <= Most => r[e[m + (k + 1)]] < r[e[m]]}
  <2>1. 0 \in T
    BY <1>4, MostIsNat
  <2>2. ASSUME NEW k \in 0..Most, k \in T, k < Most PROVE k + 1 \in T
    <3> SUFFICES ASSUME m + ((k + 1) + 1) <= Most PROVE r[e[m + ((k + 1) + 1)]] < r[e[m]]
      BY <2>2, MostIsNat
    <3> DEFINE l == m + (k + 1)
    <3>1. l \in 0..Most /\ l < Most /\ l + 1 = m + ((k + 1) + 1) /\ l + 1 \in 0..Most
      BY <2>2, MostIsNat
    <3>2. r[e[l]] < r[e[m]]
      BY <2>2, <3>1, MostIsNat
    <3>3. r[e[l + 1]] < r[e[l]]
      BY <1>4, <3>1
    <3>4. r[e[l]] \in Nat /\ r[e[m]] \in Nat /\ r[e[l + 1]] \in Nat
      BY <1>1, <1>3, <3>1
    <3> HIDE DEF l
    <3> QED BY <3>1, <3>2, <3>3, <3>4
  <2>3. n - m - 1 \in 0..Most /\ m + ((n - m - 1) + 1) = n
    BY <1>5, MostIsNat
  <2>4. n - m - 1 \in T
    <3> HIDE DEF T
    <3> QED BY <2>1, <2>2, <2>3, MostIsNat, UpTo
  <2> QED BY <2>3, <2>4
<1>6. e \in Injection(0..Most, Interactions)
  <2>1. e \in [0..Most -> Interactions]
    BY <1>3 DEF Path
  <2>2. ASSUME NEW m \in 0..Most, NEW n \in 0..Most, e[m] = e[n] PROVE m = n
    <3>1. m < n \/ n < m \/ m = n
      BY MostIsNat
    <3>2. r[e[n]] \in Nat
      BY <1>1, <1>3
    <3> QED BY <1>5, <2>2, <3>1, <3>2
  <2> QED BY <2>1, <2>2 DEF Injection, IsInjective
<1>7. Cardinality(0..Most) <= Most
  BY <1>6, InteractionsFinite, FS_Injection DEF Most
<1>8. Cardinality(0..Most) = Most + 1
  BY MostIsNat, FS_Interval
<1> QED BY <1>7, <1>8, MostIsNat

\* What a chain is: who it starts with, whom they call, and nobody else; it ends
\* with the one that calls nobody.
LEMMA ChainIs ==
  ASSUME NEW t, Ranked(t), NEW h \in Handlers
  PROVE  /\ On(t, h) \subseteq Handlers /\ h \in On(t, h) /\ Closed(t, On(t, h))
         /\ Last(Chain(t, h)) \in On(t, h) /\ ~PassesOn(t, Last(Chain(t, h)))
         /\ \A j \in On(t, h) : PassesOn(t, j) \/ j = Last(Chain(t, h))
         /\ \A j \in On(t, h) : j = h \/ \E i \in On(t, h) : PassesOn(t, i) /\ t.inter[i].original = j
<1>1. PICK e : /\ Path(e, t, h) /\ On(t, h) = {e[m] : m \in 0..Most} /\ Last(Chain(t, h)) = e[Most]
  BY ChainPath DEF Ranked, On
<1>2. ~PassesOn(t, e[Most])
  BY <1>1, PathEnds
<1>3. e \in [0..Most -> Handlers] /\ e[0] = h /\ 0 \in 0..Most /\ Most \in 0..Most
      /\ \A m \in 0..Most : m < Most => e[m + 1] = Passed(t, e[m]) /\ m + 1 \in 0..Most
  BY <1>1, MostIsNat DEF Path
<1>4. Closed(t, On(t, h))
  <2> SUFFICES ASSUME NEW m \in 0..Most, PassesOn(t, e[m]) PROVE t.inter[e[m]].original \in On(t, h)
    BY <1>1 DEF Closed
  <2>1. m < Most
    BY <1>2, MostIsNat
  <2>2. e[m + 1] = t.inter[e[m]].original /\ m + 1 \in 0..Most
    BY <1>3, <2>1 DEF Passed
  <2> QED BY <1>1, <2>2
<1>5. \A j \in On(t, h) : PassesOn(t, j) \/ j = Last(Chain(t, h))
  BY <1>1, PathStops
<1>6. ASSUME NEW j \in On(t, h), j # h, ~\E i \in On(t, h) : PassesOn(t, i) /\ t.inter[i].original = j
      PROVE  FALSE
  <2> DEFINE T == {m \in 0..Most : e[m] # j}
  <2>1. 0 \in T
    BY <1>3, <1>6
  <2>2. ASSUME NEW m \in 0..Most, m \in T, m < Most PROVE m + 1 \in T
    <3>1. e[m] \in On(t, h) /\ e[m + 1] = Passed(t, e[m]) /\ m + 1 \in 0..Most /\ e[m] # j
      BY <1>1, <1>3, <2>2
    <3>2. e[m + 1] # j
      BY <1>6, <3>1 DEF Passed
    <3> QED BY <3>1, <3>2
  <2>3. 0..Most \subseteq T
    <3> HIDE DEF T
    <3> QED BY <2>1, <2>2, MostIsNat, UpTo
  <2> QED BY <1>1, <2>3
<1>7. On(t, h) \subseteq Handlers /\ h \in On(t, h) /\ Last(Chain(t, h)) \in On(t, h)
  BY <1>1, <1>3
<1> QED BY <1>1, <1>2, <1>4, <1>5, <1>6, <1>7

\* A chain does not leave a set whose members call only each other.
LEMMA ChainStays ==
  ASSUME NEW t, Ranked(t), NEW S, NEW h \in Handlers, h \in S, Closed(t, S)
  PROVE  On(t, h) \subseteq S
<1>1. PICK e : Path(e, t, h) /\ On(t, h) = {e[m] : m \in 0..Most}
  BY ChainPath DEF Ranked, On
<1> DEFINE T == {m \in 0..Most : e[m] \in S}
<1>2. 0 \in T
  BY <1>1, MostIsNat DEF Path
<1>3. ASSUME NEW m \in 0..Most, m \in T, m < Most PROVE m + 1 \in T
  <2>1. e[m + 1] = Passed(t, e[m]) /\ e[m] \in S /\ m + 1 \in 0..Most
    BY <1>1, <1>3, MostIsNat DEF Path
  <2>2. e[m + 1] \in S
    BY <2>1 DEF Passed, Closed
  <2> QED BY <2>1, <2>2
<1>4. 0..Most \subseteq T
  <2> HIDE DEF T
  <2> QED BY <1>2, <1>3, MostIsNat, UpTo
<1> QED BY <1>1, <1>4

\* A chain is the same in two states that agree on a set it does not leave.
Agree(t, u, S) ==
    \A j \in S : /\ PassesOn(t, j) <=> PassesOn(u, j)
                 /\ PassesOn(t, j) => u.inter[j].original = t.inter[j].original

LEMMA ChainSame ==
  ASSUME NEW t, Ranked(t), NEW u, Ranked(u), NEW S, NEW h \in Handlers, h \in S,
         Closed(t, S), Agree(t, u, S)
  PROVE  On(u, h) = On(t, h) /\ Last(Chain(u, h)) = Last(Chain(t, h))
<1>1. On(t, h) \subseteq S
  BY ChainStays
<1>2. h \in On(t, h) /\ Closed(t, On(t, h)) /\ h \in On(u, h) /\ Closed(u, On(u, h))
  BY ChainIs
<1>3. On(u, h) \subseteq On(t, h)
  <2>1. Closed(u, On(t, h))
    BY <1>1, <1>2 DEF Closed, Agree
  <2> QED BY <1>2, <2>1, ChainStays
<1>4. On(t, h) \subseteq On(u, h)
  <2>1. Closed(t, On(u, h))
    BY <1>1, <1>2, <1>3 DEF Closed, Agree
  <2> QED BY <1>2, <2>1, ChainStays
<1>5. Last(Chain(u, h)) \in On(t, h) /\ ~PassesOn(t, Last(Chain(u, h)))
  <2>1. Last(Chain(u, h)) \in On(u, h) /\ ~PassesOn(u, Last(Chain(u, h)))
    BY ChainIs
  <2> QED BY <1>1, <1>3, <2>1 DEF Agree
<1>6. Last(Chain(u, h)) = Last(Chain(t, h))
  BY <1>5, ChainIs
<1> QED BY <1>3, <1>4, <1>6

-----------------------------------------------------------------------------
(* Presses and interactions, over a record like Now *)

Press == [value : Buttons, serial : Serials, by : Handlers,
          slot : 0..Cardinality(Bindings), to : Clients \cup {None}]

Shape(t) ==
    /\ t = [x \in Fields |-> t[x]]
    /\ t.buttons \subseteq Press
    /\ t.grabs \subseteq Interactions \cup {Selection}
    /\ t.inter \in [Interactions -> [original : Handlers, serial : Serials \cup {0}]]
    /\ t.select \in {"off", "press", "release"}
    /\ t.down \in [Clients -> SUBSET Buttons]
    /\ t.heard \subseteq Bindings

\* Who may have taken a press, and whom an interaction may have replaced.
ButtonTakers(t) ==
    \A b \in t.buttons :
      /\ b.to = None => b.by \in {Bound, Selection, Nobody}
      /\ b.to # None => b.by \in Interactions \cup {Client}
      /\ b.by = Bound <=> b.slot # 0

Replaced(t) ==
    \A i \in Interactions :
      /\ t.inter[i].original \in Interactions \cup {Client, Nobody}
      /\ ~IsActive(t, i) => t.inter[i] = Idle

\* A button is pressed once, and so is what its serial names.
Distinct(t) ==
    \A b, c \in t.buttons : b.value = c.value \/ b.serial = c.serial => b = c

\* An interaction is called by one button or by one other interaction.
OneCaller(t) ==
    /\ \A b, c \in t.buttons : b.by \in Interactions /\ b.by = c.by => b = c
    /\ \A i, j \in Interactions :
         t.inter[i].original \in Interactions /\ t.inter[i].original = t.inter[j].original => i = j
    /\ \A b \in t.buttons, j \in Interactions : b.by \in Interactions => b.by # t.inter[j].original

Fronted(t) == Selection \in t.grabs <=> t.select # "off"

\* What an interaction replaced will be told, by the button it named.
Owed(t) ==
    \A i \in Interactions : t.inter[i].original # Nobody =>
      \E b \in t.buttons : b.serial = t.inter[i].serial /\ i \in On(t, b.by)

\* A client hears of what it was told.
DownHeard(t) ==
    \A c \in Clients : \A v \in t.down[c] :
      /\ c = Active(t.focus)
      /\ \E b \in t.buttons : b.value = v /\ Last(Chain(t, b.by)) = Client

Wired(t) ==
    /\ Shape(t) /\ ButtonTakers(t) /\ Replaced(t) /\ Distinct(t) /\ OneCaller(t)
    /\ Ranked(t) /\ Fronted(t) /\ Owed(t)

LEMMA HandlersApart ==
  /\ Client \notin Interactions /\ Bound \notin Interactions
  /\ Selection \notin Interactions /\ Nobody \notin Interactions
  /\ Client # Bound /\ Client # Selection /\ Client # Nobody
  /\ Bound # Selection /\ Bound # Nobody /\ Selection # Nobody
<1>1. /\ Len(Client) = 1 /\ Client[1] = "client" /\ Len(Bound) = 1 /\ Bound[1] = "bindings"
      /\ Len(Selection) = 1 /\ Selection[1] = "select" /\ Len(Nobody) = 1 /\ Nobody[1] = "nobody"
  BY DEF Client, Bound, Selection, Nobody
<1>2. \A h \in Interactions : Len(h) = 2
  BY DEF Interactions
<1>3. Client # Bound /\ Client # Selection /\ Client # Nobody
  BY <1>1
<1>4. Bound # Selection /\ Bound # Nobody /\ Selection # Nobody
  BY <1>1
<1> QED BY <1>1, <1>2, <1>3, <1>4

LEMMA ShapeLinks ==
  ASSUME NEW t, Shape(t)
  PROVE  /\ Linked(t) /\ \A b \in t.buttons : b.by \in Handlers /\ b.value \in Buttons /\ b.serial \in Serials
         /\ \A i \in Interactions : i \in Handlers /\ t.inter[i].original \in Handlers
  BY DEF Shape, Linked, Press, Handlers

LEMMA PassesIs ==
  ASSUME NEW t, Shape(t), Replaced(t), NEW h
  PROVE  PassesOn(t, h) <=> h \in Interactions /\ t.inter[h].original # Nobody
  BY DEF Replaced, PassesOn, Idle

\* The passing part of a chain is called from nowhere else.
LEMMA OthersApart ==
  ASSUME NEW t, Shape(t), Replaced(t), OneCaller(t), Ranked(t),
         NEW b \in t.buttons, NEW S, S = Handlers \ {j \in On(t, b.by) : PassesOn(t, j)}
  PROVE  Closed(t, S) /\ \A c \in t.buttons : c # b => c.by \in S
<1>1. b.by \in Handlers
  BY ShapeLinks
<1>2. \A j \in On(t, b.by) : j = b.by \/ \E i \in On(t, b.by) : PassesOn(t, i) /\ t.inter[i].original = j
  BY <1>1, ChainIs
<1>3. ASSUME NEW j \in S, PassesOn(t, j) PROVE t.inter[j].original \in S
  <2> DEFINE o == t.inter[j].original
  <2>1. o \in Handlers /\ j \in Interactions
    BY <1>3, ShapeLinks DEF PassesOn
  <2> SUFFICES ASSUME o \in On(t, b.by), PassesOn(t, o) PROVE FALSE
    BY <2>1
  <2>2. o \in Interactions
    BY DEF PassesOn
  <2>3. CASE o = b.by
    BY <2>1, <2>2, <2>3 DEF OneCaller
  <2>4. CASE \E i \in On(t, b.by) : PassesOn(t, i) /\ t.inter[i].original = o
    <3>1. PICK i \in On(t, b.by) : PassesOn(t, i) /\ t.inter[i].original = o
      BY <2>4
    <3>2. i \in Interactions /\ i # j
      BY <3>1 DEF PassesOn
    <3> QED BY <2>1, <2>2, <3>1, <3>2 DEF OneCaller
  <2> QED BY <1>2, <2>3, <2>4
<1>4. ASSUME NEW c \in t.buttons, c # b PROVE c.by \in S
  <2>1. c.by \in Handlers
    BY ShapeLinks
  <2> SUFFICES ASSUME c.by \in On(t, b.by), PassesOn(t, c.by) PROVE FALSE
    BY <2>1
  <2>2. c.by \in Interactions
    BY DEF PassesOn
  <2>3. CASE c.by = b.by
    BY <1>4, <2>2, <2>3 DEF OneCaller
  <2>4. CASE \E i \in On(t, b.by) : PassesOn(t, i) /\ t.inter[i].original = c.by
    <3>1. PICK i \in On(t, b.by) : PassesOn(t, i) /\ t.inter[i].original = c.by
      BY <2>4
    <3>2. i \in Interactions
      BY <3>1 DEF PassesOn
    <3> QED BY <2>2, <3>1, <3>2 DEF OneCaller
  <2> QED BY <1>2, <2>3, <2>4
<1> QED BY <1>3, <1>4 DEF Closed

\* The interactions of over end.
Ends(t, over, u) ==
    /\ u.inter = [i \in Interactions |-> IF i \in over THEN Idle ELSE t.inter[i]]
    /\ \A i \in Interactions : i \in u.grabs <=> i \in t.grabs /\ i \notin over

LEMMA EndsPasses ==
  ASSUME NEW t, NEW u, NEW over, Shape(t), Replaced(t), Shape(u), Ends(t, over, u)
  PROVE  /\ Replaced(u)
         /\ \A h : PassesOn(u, h) <=> PassesOn(t, h) /\ h \notin over
         /\ \A h : PassesOn(u, h) => u.inter[h].original = t.inter[h].original
<1>1. \A i \in Interactions : u.inter[i] = IF i \in over THEN Idle ELSE t.inter[i]
  BY DEF Ends
<1>2. Idle.original = Nobody
  BY DEF Idle
<1>3. Replaced(u)
  BY <1>1, <1>2 DEF Replaced, Ends, IsActive
<1>4. ASSUME NEW h PROVE PassesOn(u, h) <=> PassesOn(t, h) /\ h \notin over
  BY <1>1, <1>2, <1>3, PassesIs
<1>5. ASSUME NEW h, PassesOn(u, h) PROVE u.inter[h].original = t.inter[h].original
  <2>1. h \in Interactions /\ h \notin over
    BY <1>4, <1>5 DEF PassesOn
  <2> QED BY <1>1, <2>1
<1> QED BY <1>3, <1>4, <1>5

LEMMA EndsRanked ==
  ASSUME NEW t, NEW u, NEW over, Shape(t), Shape(u), Ranked(t), Ends(t, over, u)
  PROVE  Ranked(u)
<1>1. PICK r \in [Interactions -> Nat] : Descends(t, r)
  BY DEF Ranked
<1>2. \A i \in Interactions : u.inter[i] = IF i \in over THEN Idle ELSE t.inter[i]
  BY DEF Ends
<1>3. Idle.original \notin Interactions
  BY HandlersApart DEF Idle
<1>4. Descends(u, r)
  BY <1>1, <1>2, <1>3 DEF Descends
<1> QED BY <1>4, ShapeLinks DEF Ranked

\* Interactions of one chain end, and with each those it would call: the chains of
\* other buttons are as before, and on this one are those that have not ended.
LEMMA CutShort ==
  ASSUME NEW t, Wired(t), NEW u, Shape(u), NEW b \in t.buttons,
         NEW over, over \subseteq {j \in On(t, b.by) : PassesOn(t, j)},
         \A j \in over : PassesOn(t, t.inter[j].original) => t.inter[j].original \in over,
         Ends(t, over, u)
  PROVE  /\ Ranked(u) /\ Replaced(u)
         /\ \A c \in t.buttons : c # b =>
              On(u, c.by) = On(t, c.by) /\ Last(Chain(u, c.by)) = Last(Chain(t, c.by))
         /\ \A j \in On(t, b.by) : PassesOn(t, j) /\ j \notin over => j \in On(u, b.by)
<1>1. Shape(t) /\ Replaced(t) /\ OneCaller(t) /\ Ranked(t)
  BY DEF Wired
<1>2. Ranked(u) /\ Replaced(u)
  BY <1>1, EndsRanked, EndsPasses
<1>3. /\ \A h : PassesOn(u, h) <=> PassesOn(t, h) /\ h \notin over
      /\ \A h : PassesOn(u, h) => u.inter[h].original = t.inter[h].original
  BY <1>1, EndsPasses
<1>4. ASSUME NEW c \in t.buttons, c # b
      PROVE  On(u, c.by) = On(t, c.by) /\ Last(Chain(u, c.by)) = Last(Chain(t, c.by))
  <2> DEFINE S == Handlers \ {j \in On(t, b.by) : PassesOn(t, j)}
  <2>1. Closed(t, S) /\ c.by \in S /\ c.by \in Handlers
    BY <1>1, <1>4, OthersApart, ShapeLinks
  <2>2. Agree(t, u, S)
    BY <1>3 DEF Agree
  <2> HIDE DEF S
  <2> QED BY <1>1, <1>2, <2>1, <2>2, ChainSame
<1>5. ASSUME NEW j \in On(t, b.by), PassesOn(t, j), j \notin over PROVE j \in On(u, b.by)
  <2> DEFINE z == Last(Chain(t, b.by))
             S == (On(u, b.by) \cup over \cup {z}) \cap On(t, b.by)
  <2>1. /\ b.by \in Handlers /\ b.by \in On(t, b.by) /\ Closed(t, On(t, b.by)) /\ ~PassesOn(t, z)
        /\ \A k \in On(t, b.by) : PassesOn(t, k) \/ k = z
        /\ b.by \in On(u, b.by) /\ Closed(u, On(u, b.by))
    BY <1>1, <1>2, ChainIs, ShapeLinks
  <2>2. Closed(t, S)
    <3> SUFFICES ASSUME NEW k \in S, PassesOn(t, k) PROVE t.inter[k].original \in S
      BY DEF Closed
    <3>1. t.inter[k].original \in On(t, b.by)
      BY <2>1 DEF Closed
    <3>2. CASE k \in over
      BY <2>1, <3>1, <3>2
    <3>3. CASE k \notin over
      BY <1>3, <2>1, <3>1, <3>3 DEF Closed
    <3> QED BY <3>2, <3>3
  <2>3. On(t, b.by) \subseteq S
    <3>1. b.by \in S
      BY <2>1
    <3> HIDE DEF S
    <3> QED BY <1>1, <2>1, <2>2, <3>1, ChainStays
  <2> QED BY <1>5, <2>1, <2>3
<1> QED BY <1>2, <1>4, <1>5

-----------------------------------------------------------------------------
(* A release *)

\* The passing part of a chain
Over(t, h) == {i \in ToSet(Chain(t, h)) : PassesOn(t, i)}

\* What the end z of a chain does on a release.
Outcome(t, u, z, b) ==
    /\ u.down = IF z = Client /\ Active(t.focus) # None
                THEN [t.down EXCEPT ![Active(t.focus)] = @ \ {b.value}] ELSE t.down
    /\ u.heard = IF z = Bound THEN t.heard \ {Pressed(b)} ELSE t.heard
    /\ u.select = IF z = Selection /\ t.select = "release" THEN "off" ELSE t.select
    /\ Selection \in u.grabs <=> Selection \in t.grabs /\ u.select = t.select

Released(t, u, over, z, b) ==
    /\ u = [x \in Fields |-> u[x]]
    /\ u.focus = t.focus /\ u.buttons = t.buttons
    /\ Ends(t, over, u) /\ u.grabs \subseteq t.grabs
    /\ Outcome(t, u, z, b)

LEMMA ReleaseReleases ==
  ASSUME NEW t, Shape(t), NEW h, NEW b, NEW over, over = Over(t, h), NEW z, z = Last(Chain(t, h))
  PROVE  Released(t, Release(t, h, b), over, z, b)
<1> DEFINE ended == [t EXCEPT !.grabs = @ \ over,
                              !.inter = [i \in Interactions |-> IF i \in over THEN Idle ELSE @[i]]]
           c == Active(t.focus)
           u == Release(t, h, b)
<1>0. t = [x \in Fields |-> t[x]]
  BY DEF Shape
<1>1. /\ ended = [x \in Fields |-> ended[x]]
      /\ ended.focus = t.focus /\ ended.buttons = t.buttons /\ ended.select = t.select
      /\ ended.down = t.down /\ ended.heard = t.heard /\ ended.grabs = t.grabs \ over
      /\ ended.inter = [i \in Interactions |-> IF i \in over THEN Idle ELSE t.inter[i]]
  BY <1>0 DEF Fields
<1>2. \A i \in over : i \in Interactions
  BY DEF Over, PassesOn
<1>3. u = CASE z = Client /\ c # None -> [ended EXCEPT !.down[c] = @ \ {b.value}]
            [] z = Bound -> [ended EXCEPT !.heard = @ \ {Pressed(b)}]
            [] z = Selection /\ t.select = "release" ->
                 ForceCursor([ended EXCEPT !.select = "off", !.grabs = @ \ {Selection}])
            [] OTHER -> ended
  BY DEF Release, Over
<1> SUFFICES Released(t, u, over, z, b)
  OBVIOUS
<1> HIDE DEF ended, u
<1>4. CASE z = Client /\ c # None
  <2>1. u = [ended EXCEPT !.down[c] = @ \ {b.value}]
    BY <1>3, <1>4, HandlersApart
  <2>2. /\ u = [x \in Fields |-> u[x]]
        /\ u.focus = t.focus /\ u.buttons = t.buttons /\ u.select = t.select
        /\ u.down = [t.down EXCEPT ![c] = @ \ {b.value}] /\ u.heard = t.heard /\ u.grabs = t.grabs \ over
        /\ u.inter = [i \in Interactions |-> IF i \in over THEN Idle ELSE t.inter[i]]
    BY <1>1, <2>1 DEF Fields
  <2>3. Ends(t, over, u) /\ u.grabs \subseteq t.grabs
    BY <1>2, <2>2, HandlersApart DEF Ends
  <2>4. Outcome(t, u, z, b)
    BY <1>2, <1>4, <2>2, HandlersApart DEF Outcome
  <2> QED BY <2>2, <2>3, <2>4 DEF Released
<1>5. CASE z = Bound
  <2>1. u = [ended EXCEPT !.heard = @ \ {Pressed(b)}]
    BY <1>3, <1>5, HandlersApart
  <2>2. /\ u = [x \in Fields |-> u[x]]
        /\ u.focus = t.focus /\ u.buttons = t.buttons /\ u.select = t.select
        /\ u.down = t.down /\ u.heard = t.heard \ {Pressed(b)} /\ u.grabs = t.grabs \ over
        /\ u.inter = [i \in Interactions |-> IF i \in over THEN Idle ELSE t.inter[i]]
    BY <1>1, <2>1 DEF Fields
  <2>3. Ends(t, over, u) /\ u.grabs \subseteq t.grabs
    BY <1>2, <2>2, HandlersApart DEF Ends
  <2>4. Outcome(t, u, z, b)
    BY <1>2, <1>5, <2>2, HandlersApart DEF Outcome
  <2> QED BY <2>2, <2>3, <2>4 DEF Released
<1>6. CASE z = Selection /\ t.select = "release"
  <2>1. u = ForceCursor([ended EXCEPT !.select = "off", !.grabs = @ \ {Selection}])
    BY <1>3, <1>6, HandlersApart
  <2>2. /\ u = [x \in Fields |-> u[x]]
        /\ u.focus = t.focus /\ u.buttons = t.buttons /\ u.select = "off"
        /\ u.down = t.down /\ u.heard = t.heard /\ u.grabs = (t.grabs \ over) \ {Selection}
        /\ u.inter = [i \in Interactions |-> IF i \in over THEN Idle ELSE t.inter[i]]
    BY <1>1, <2>1 DEF Fields, ForceCursor
  <2>3. Ends(t, over, u) /\ u.grabs \subseteq t.grabs
    BY <1>2, <2>2, HandlersApart DEF Ends
  <2>4. Outcome(t, u, z, b)
    BY <1>2, <1>6, <2>2, HandlersApart DEF Outcome
  <2> QED BY <2>2, <2>3, <2>4 DEF Released
<1>7. CASE ~(z = Client /\ c # None) /\ z # Bound /\ ~(z = Selection /\ t.select = "release")
  <2>1. u = ended
    BY <1>3, <1>7
  <2>3. Ends(t, over, u) /\ u.grabs \subseteq t.grabs
    BY <1>1, <1>2, <2>1, HandlersApart DEF Ends
  <2>4. Outcome(t, u, z, b)
    BY <1>1, <1>2, <1>7, <2>1, HandlersApart DEF Outcome
  <2> QED BY <1>1, <2>1, <2>3, <2>4 DEF Released
<1> QED BY <1>4, <1>5, <1>6, <1>7

LEMMA ReleasedShape ==
  ASSUME NEW t, Shape(t), NEW u, NEW over, NEW z, NEW b, Released(t, u, over, z, b)
  PROVE  Shape(u)
<1>1. Idle \in [original : Handlers, serial : Serials \cup {0}]
  BY DEF Idle, Handlers
<1>2. u.inter \in [Interactions -> [original : Handlers, serial : Serials \cup {0}]]
  BY <1>1, ZenonT(30) DEF Shape, Released, Ends
<1>3. u.down \in [Clients -> SUBSET Buttons]
  <2>1. CASE z = Client /\ Active(t.focus) # None
    BY <2>1 DEF Shape, Released, Outcome
  <2>2. CASE ~(z = Client /\ Active(t.focus) # None)
    BY <2>2 DEF Shape, Released, Outcome
  <2> QED BY <2>1, <2>2
<1>4. u.heard \subseteq Bindings /\ u.select \in {"off", "press", "release"}
  BY DEF Shape, Released, Outcome
<1> QED BY <1>2, <1>3, <1>4 DEF Shape, Released

\* An end of over runs through the chain of b.
Cuts(t, b, over) ==
    /\ over \subseteq {j \in On(t, b.by) : PassesOn(t, j)}
    /\ \A j \in over : PassesOn(t, t.inter[j].original) => t.inter[j].original \in over

\* What remains after a release; if the button is let go the rest must not depend
\* on it.
LEMMA ReleasedWired ==
  ASSUME NEW t, Wired(t), NEW u, NEW b \in t.buttons, NEW over, NEW z, z = Last(Chain(t, b.by)),
         Cuts(t, b, over), Released(t, u, over, z, b)
  PROVE  /\ Wired(u)
         /\ \A c \in t.buttons : c # b =>
              On(u, c.by) = On(t, c.by) /\ Last(Chain(u, c.by)) = Last(Chain(t, c.by))
<1>0. /\ Shape(t) /\ ButtonTakers(t) /\ Replaced(t) /\ Distinct(t) /\ OneCaller(t)
      /\ Ranked(t) /\ Fronted(t) /\ Owed(t)
  BY DEF Wired
<1>1. Shape(u)
  BY <1>0, ReleasedShape
<1>2. /\ over \subseteq {j \in On(t, b.by) : PassesOn(t, j)}
      /\ \A j \in over : PassesOn(t, t.inter[j].original) => t.inter[j].original \in over
      /\ Ends(t, over, u)
  BY DEF Cuts, Released
<1>3. /\ Ranked(u) /\ Replaced(u)
      /\ \A c \in t.buttons : c # b =>
           On(u, c.by) = On(t, c.by) /\ Last(Chain(u, c.by)) = Last(Chain(t, c.by))
      /\ \A j \in On(t, b.by) : PassesOn(t, j) /\ j \notin over => j \in On(u, b.by)
  BY <1>1, <1>2, CutShort
<1>4. u.buttons = t.buttons /\ \A i \in Interactions : u.inter[i] = IF i \in over THEN Idle ELSE t.inter[i]
  BY <1>2 DEF Released, Ends
<1>5. ButtonTakers(u) /\ Distinct(u)
  BY <1>0, <1>4 DEF ButtonTakers, Distinct
<1>6. OneCaller(u)
  <2>1. Idle.original \notin Interactions
    BY HandlersApart DEF Idle
  <2>2. \A i \in Interactions : u.inter[i].original \in Interactions => u.inter[i].original = t.inter[i].original
    BY <1>4, <2>1
  <2>3. \A i, j \in Interactions :
          u.inter[i].original \in Interactions /\ u.inter[i].original = u.inter[j].original => i = j
    BY <1>0, <2>2 DEF OneCaller
  <2>4. \A c \in u.buttons, j \in Interactions : c.by \in Interactions => c.by # u.inter[j].original
    BY <1>0, <1>4, <2>2 DEF OneCaller
  <2> QED BY <1>0, <1>4, <2>3, <2>4 DEF OneCaller
<1>7. Fronted(u)
  BY <1>0 DEF Fronted, Released, Outcome
<1>8. Owed(u)
  <2> SUFFICES ASSUME NEW i \in Interactions, u.inter[i].original # Nobody
               PROVE  \E c \in u.buttons : c.serial = u.inter[i].serial /\ i \in On(u, c.by)
    BY DEF Owed
  <2>1. i \notin over /\ u.inter[i] = t.inter[i]
    BY <1>4 DEF Idle
  <2>2. PICK c \in t.buttons : c.serial = t.inter[i].serial /\ i \in On(t, c.by)
    BY <1>0, <2>1 DEF Owed
  <2>3. PassesOn(t, i)
    BY <1>0, <2>1, PassesIs
  <2>4. i \in On(u, c.by)
    BY <1>3, <2>1, <2>2, <2>3
  <2> QED BY <1>4, <2>1, <2>2, <2>4
<1> QED BY <1>1, <1>3, <1>5, <1>6, <1>7, <1>8 DEF Wired

LEMMA ChainSameLinks ==
  ASSUME NEW t, NEW u, Ranked(t), u.inter = t.inter, u.grabs = t.grabs
  PROVE  /\ Ranked(u)
         /\ \A h \in Handlers : On(u, h) = On(t, h) /\ Last(Chain(u, h)) = Last(Chain(t, h))
<1>1. Ranked(u)
  BY DEF Ranked, Linked, Descends
<1>2. Closed(t, Handlers)
  BY DEF Ranked, Linked, Closed, PassesOn
<1>3. Agree(t, u, Handlers)
  BY DEF Agree, PassesOn, IsActive
<1> QED BY <1>1, <1>2, <1>3, ChainSame

\* The button of a chain that has ended is let go.
LEMMA LetGoWired ==
  ASSUME NEW t, Wired(t), NEW b \in t.buttons, NEW z, z = Last(Chain(t, b.by)),
         NEW u, Released(t, u, Over(t, b.by), z, b),
         NEW w, Shape(w), w.buttons = u.buttons \ {b}, w.inter = u.inter, w.grabs = u.grabs,
         w.select = u.select
  PROVE  /\ Wired(w)
         /\ \A c \in t.buttons : c # b => Last(Chain(w, c.by)) = Last(Chain(t, c.by))
<1>0. /\ Shape(t) /\ ButtonTakers(t) /\ Replaced(t) /\ Distinct(t) /\ OneCaller(t)
      /\ Ranked(t) /\ Fronted(t) /\ Owed(t)
  BY DEF Wired
<1>1. Cuts(t, b, Over(t, b.by))
  <2>1. Closed(t, On(t, b.by))
    BY <1>0, ChainIs, ShapeLinks
  <2> QED BY <2>1 DEF Cuts, Over, On, Closed
<1>2. /\ Wired(u)
      /\ \A c \in t.buttons : c # b =>
           On(u, c.by) = On(t, c.by) /\ Last(Chain(u, c.by)) = Last(Chain(t, c.by))
  BY <1>1, ReleasedWired
<1>3. /\ Ranked(w)
      /\ \A h \in Handlers : On(w, h) = On(u, h) /\ Last(Chain(w, h)) = Last(Chain(u, h))
  BY <1>2, ChainSameLinks DEF Wired
<1>4. \A c \in t.buttons : c.by \in Handlers
  BY <1>0, ShapeLinks
<1>5. ButtonTakers(w) /\ Distinct(w) /\ OneCaller(w) /\ Replaced(w) /\ Fronted(w)
  BY <1>2 DEF Wired, ButtonTakers, Distinct, OneCaller, Replaced, Fronted, IsActive
<1>6. Owed(w)
  <2> SUFFICES ASSUME NEW i \in Interactions, w.inter[i].original # Nobody
               PROVE  \E c \in w.buttons : c.serial = w.inter[i].serial /\ i \in On(w, c.by)
    BY DEF Owed
  <2>1. i \notin Over(t, b.by) /\ u.inter[i] = t.inter[i] /\ w.inter[i] = t.inter[i]
    BY DEF Idle, Released, Ends
  <2>2. PICK c \in t.buttons : c.serial = t.inter[i].serial /\ i \in On(t, c.by)
    BY <1>0, <2>1 DEF Owed
  <2>3. PassesOn(t, i)
    BY <1>0, <2>1, PassesIs
  <2>4. c # b
    BY <2>1, <2>2, <2>3 DEF On, Over
  <2>5. c \in w.buttons /\ i \in On(w, c.by)
    BY <1>2, <1>3, <1>4, <2>2, <2>4 DEF Released
  <2> QED BY <2>1, <2>2, <2>5
<1> QED BY <1>2, <1>3, <1>4, <1>5, <1>6 DEF Wired

\* Whatever a client still believes is pressed is another button than b.
HeardElse(t, u, b) ==
    \A c \in Clients : \A v \in u.down[c] :
      /\ c = Active(u.focus)
      /\ \E d \in t.buttons : d # b /\ d.value = v /\ Last(Chain(t, d.by)) = Client

LEMMA ReleasedDown ==
  ASSUME NEW t, Shape(t), DownHeard(t), NEW u, NEW over, NEW b \in t.buttons,
         Released(t, u, over, Last(Chain(t, b.by)), b), bound \subseteq Clients,
         t.focus \in Views \cup {None}
  PROVE  HeardElse(t, u, b)
<1> SUFFICES ASSUME NEW c \in Clients, NEW v \in u.down[c]
             PROVE  /\ c = Active(u.focus)
                    /\ \E d \in t.buttons : d # b /\ d.value = v /\ Last(Chain(t, d.by)) = Client
  BY DEF HeardElse
<1> DEFINE z == Last(Chain(t, b.by))
<1>1. Active(t.focus) \in Clients \cup {None} /\ t.down \in [Clients -> SUBSET Buttons] /\ None \notin Clients
  BY ActiveIsAClient, PointerAssumption DEF Shape
<1>2. u.down = IF z = Client /\ Active(t.focus) # None
               THEN [t.down EXCEPT ![Active(t.focus)] = @ \ {b.value}] ELSE t.down
  BY DEF Released, Outcome
<1> HIDE DEF z
<1>3. v \in t.down[c] /\ (z = Client /\ Active(t.focus) = c => v # b.value)
  BY <1>1, <1>2
<1>4. PICK d \in t.buttons : d.value = v /\ Last(Chain(t, d.by)) = Client
  BY <1>3 DEF DownHeard
<1>5. c = Active(t.focus) /\ u.focus = t.focus
  BY <1>3 DEF DownHeard, Released
<1>6. d # b
  BY <1>3, <1>4, <1>5 DEF z
<1> QED BY <1>4, <1>5, <1>6

-----------------------------------------------------------------------------
(* The end of an interaction *)

\* The calls that an interaction makes when it ends without a button
LEMMA EndOutcome ==
  ASSUME NEW t, Wired(t), DownHeard(t), NEW i \in Interactions, bound \subseteq Clients,
         t.focus \in Views \cup {None}
  PROVE  /\ Wired(End(t, i)) /\ DownHeard(End(t, i))
         /\ End(t, i).focus = t.focus /\ End(t, i).buttons = t.buttons
         /\ End(t, i).heard = t.heard
<1> DEFINE o == t.inter[i].original
           held == {b \in t.buttons : b.serial = t.inter[i].serial}
           told == IF o = Nobody \/ held = {} THEN t ELSE Release(t, o, CHOOSE b \in held : TRUE)
           u == End(t, i)
<1>0. /\ Shape(t) /\ ButtonTakers(t) /\ Replaced(t) /\ Distinct(t) /\ OneCaller(t)
      /\ Ranked(t) /\ Fronted(t) /\ Owed(t) /\ t = [x \in Fields |-> t[x]]
  BY DEF Wired, Shape
<1>1. u = IF ~IsActive(t, i) THEN t ELSE [told EXCEPT !.grabs = @ \ {i}, !.inter[i] = Idle]
  BY DEF End
<1>2. CASE ~IsActive(t, i)
  BY <1>1, <1>2
<1>3. CASE IsActive(t, i) /\ o = Nobody
  <2>1. told = t
    BY <1>3
  <2> HIDE DEF told, u
  <2>2. /\ u = [x \in Fields |-> u[x]]
        /\ u.focus = t.focus /\ u.buttons = t.buttons /\ u.select = t.select
        /\ u.down = t.down /\ u.heard = t.heard /\ u.grabs = t.grabs \ {i}
        /\ u.inter = [t.inter EXCEPT ![i] = Idle]
    BY <1>0, <1>1, <1>3, <2>1 DEF Fields
  <2>3. Ends(t, {i}, u)
    BY <1>0, <2>2 DEF Ends, Shape
  <2>4. Shape(u)
    <3>1. Idle \in [original : Handlers, serial : Serials \cup {0}]
      BY DEF Idle, Handlers
    <3>2. u.inter \in [Interactions -> [original : Handlers, serial : Serials \cup {0}]]
      BY <1>0, <2>2, <3>1 DEF Shape
    <3> QED BY <1>0, <2>2, <3>2 DEF Shape
  <2>5. /\ Replaced(u) /\ Ranked(u)
        /\ \A h : PassesOn(u, h) <=> PassesOn(t, h) /\ h \notin {i}
        /\ \A h : PassesOn(u, h) => u.inter[h].original = t.inter[h].original
    BY <1>0, <2>3, <2>4, EndsPasses, EndsRanked
  <2>6. ~PassesOn(t, i)
    BY <1>3 DEF PassesOn
  <2>7. \A h \in Handlers : On(u, h) = On(t, h) /\ Last(Chain(u, h)) = Last(Chain(t, h))
    <3>1. Agree(t, u, Handlers)
      BY <2>5, <2>6 DEF Agree
    <3>2. Closed(t, Handlers)
      BY <1>0, ShapeLinks DEF Closed, PassesOn
    <3> QED BY <1>0, <2>5, <3>1, <3>2, ChainSame
  <2>8. \A b \in t.buttons : b.by \in Handlers
    BY <1>0, ShapeLinks
  <2>9. \A j \in Interactions : u.inter[j].original = t.inter[j].original
                                /\ (u.inter[j].original # Nobody => u.inter[j] = t.inter[j])
    <3>1. \A j \in Interactions : u.inter[j] = IF j = i THEN Idle ELSE t.inter[j]
      BY <1>0, <2>2 DEF Shape
    <3>2. Idle.original = Nobody
      BY DEF Idle
    <3> QED BY <1>3, <3>1, <3>2
  <2>10. ButtonTakers(u) /\ Distinct(u)
    BY <1>0, <2>2 DEF ButtonTakers, Distinct
  <2>11. OneCaller(u)
    <3>1. \A c, d \in u.buttons : c.by \in Interactions /\ c.by = d.by => c = d
      BY <1>0, <2>2 DEF OneCaller
    <3>2. \A j, k \in Interactions :
            u.inter[j].original \in Interactions /\ u.inter[j].original = u.inter[k].original => j = k
      BY <1>0, <2>9 DEF OneCaller
    <3>3. \A c \in u.buttons, j \in Interactions : c.by \in Interactions => c.by # u.inter[j].original
      BY <1>0, <2>2, <2>9 DEF OneCaller
    <3> QED BY <3>1, <3>2, <3>3 DEF OneCaller
  <2>12. Fronted(u)
    BY <1>0, <2>2, HandlersApart DEF Fronted
  <2>13. Owed(u)
    BY <1>0, <2>2, <2>7, <2>8, <2>9 DEF Owed
  <2>14. DownHeard(u)
    BY <2>2, <2>7, <2>8 DEF DownHeard
  <2> QED BY <2>2, <2>4, <2>5, <2>10, <2>11, <2>12, <2>13, <2>14 DEF Wired, u
<1>4. CASE IsActive(t, i) /\ o # Nobody
  <2> DEFINE b == CHOOSE b \in held : TRUE
             over == Over(t, o) \cup {i}
             z == Last(Chain(t, b.by))
  <2>1. b \in t.buttons /\ b.serial = t.inter[i].serial /\ i \in On(t, b.by) /\ held # {}
    <3>1. PICK d \in t.buttons : d.serial = t.inter[i].serial /\ i \in On(t, d.by)
      BY <1>0, <1>4 DEF Owed
    <3>2. held # {} /\ \A e \in held : e = d
      BY <1>0, <3>1 DEF Distinct
    <3> QED BY <3>1, <3>2
  <2>2. told = Release(t, o, b)
    BY <1>4, <2>1
  <2> HIDE DEF b, told, held
  <2>3. PassesOn(t, i) /\ o \in Handlers /\ b.by \in Handlers
    BY <1>0, <1>4, <2>1, PassesIs, ShapeLinks
  <2>4. /\ Closed(t, On(t, b.by)) /\ ~PassesOn(t, z)
        /\ \A j \in On(t, b.by) : PassesOn(t, j) \/ j = z
        /\ Closed(t, On(t, o)) /\ o \in On(t, o)
        /\ Last(Chain(t, o)) \in On(t, o) /\ ~PassesOn(t, Last(Chain(t, o)))
    BY <1>0, <2>3, ChainIs
  <2>5. On(t, o) \subseteq On(t, b.by)
    <3>1. o \in On(t, b.by)
      BY <2>1, <2>3, <2>4 DEF Closed
    <3> QED BY <1>0, <2>3, <2>4, <3>1, ChainStays
  <2>6. z = Last(Chain(t, o))
    BY <2>4, <2>5
  <2>7. Cuts(t, b, over)
    <3>1. over \subseteq {j \in On(t, b.by) : PassesOn(t, j)}
      BY <2>1, <2>3, <2>5 DEF Over, On
    <3>2. ASSUME NEW j \in over, PassesOn(t, t.inter[j].original) PROVE t.inter[j].original \in over
      <4>1. t.inter[j].original \in On(t, o)
        BY <2>4 DEF Over, On, Closed
      <4> QED BY <3>2, <4>1 DEF Over, On
    <3> QED BY <3>1, <3>2 DEF Cuts
  <2>8. Released(t, told, Over(t, o), z, b)
    BY <1>0, <2>2, <2>6, ReleaseReleases
  <2>9. u = [told EXCEPT !.grabs = @ \ {i}, !.inter[i] = Idle]
    BY <1>1, <1>4
  <2> HIDE DEF u, z, over
  <2>10. z \notin {Bound, Selection}
    <3> DEFINE S == Interactions \cup {Client, Nobody}
    <3>1. o \in S /\ Closed(t, S)
      BY <1>0 DEF Replaced, Closed, PassesOn
    <3>2. On(t, o) \subseteq S
      <4> HIDE DEF S, o
      <4> QED BY <1>0, <2>3, <3>1, ChainStays
    <3> QED BY <2>4, <2>6, <3>2, HandlersApart
  <2>11. /\ told = [x \in Fields |-> told[x]] /\ told.focus = t.focus /\ told.buttons = t.buttons
         /\ told.inter = [j \in Interactions |-> IF j \in Over(t, o) THEN Idle ELSE t.inter[j]]
         /\ \A j \in Interactions : j \in told.grabs <=> j \in t.grabs /\ j \notin Over(t, o)
         /\ told.grabs \subseteq t.grabs /\ Outcome(t, told, z, b)
    BY <2>8 DEF Released, Ends
  <2>12. /\ u = [x \in Fields |-> u[x]]
         /\ u.focus = t.focus /\ u.buttons = t.buttons /\ u.select = told.select
         /\ u.down = told.down /\ u.heard = told.heard /\ u.grabs = told.grabs \ {i}
         /\ u.inter = [told.inter EXCEPT ![i] = Idle]
    BY <2>9, <2>11 DEF Fields
  <2>13. Released(t, u, over, z, b)
    <3>1. u.inter = [j \in Interactions |-> IF j \in over THEN Idle ELSE t.inter[j]]
      BY <2>11, <2>12 DEF over
    <3>2. \A j \in Interactions : j \in u.grabs <=> j \in t.grabs /\ j \notin over
      BY <2>11, <2>12 DEF over
    <3>3. Outcome(t, u, z, b)
      BY <2>11, <2>12, HandlersApart DEF Outcome
    <3> QED BY <2>11, <2>12, <3>1, <3>2, <3>3 DEF Released, Ends
  <2>14. /\ Wired(u)
         /\ \A c \in t.buttons : c # b =>
              On(u, c.by) = On(t, c.by) /\ Last(Chain(u, c.by)) = Last(Chain(t, c.by))
    BY <2>1, <2>7, <2>13, ReleasedWired DEF z
  <2>15. u.heard = t.heard
    BY <2>10, <2>13 DEF Released, Outcome
  <2>16. DownHeard(u)
    <3> SUFFICES ASSUME NEW c \in Clients, NEW v \in u.down[c]
                 PROVE  c = Active(u.focus) /\ \E d \in u.buttons : d.value = v /\ Last(Chain(u, d.by)) = Client
      BY DEF DownHeard
    <3>0. Released(t, u, over, Last(Chain(t, b.by)), b)
      BY <2>13 DEF z
    <3>1. HeardElse(t, u, b)
      <4>1. Shape(t)
        BY <1>0
      <4> QED BY <2>1, <3>0, <4>1, ReleasedDown
    <3> QED BY <2>12, <2>14, <3>1 DEF HeardElse
  <2> QED BY <2>12, <2>14, <2>15, <2>16 DEF u
<1> QED BY <1>2, <1>3, <1>4

-----------------------------------------------------------------------------
(* What begins: presses and interactions *)

\* Somebody who does not pass on is alone on its chain.
LEMMA Alone ==
  ASSUME NEW t, Ranked(t), NEW h \in Handlers, ~PassesOn(t, h)
  PROVE  On(t, h) = {h} /\ Last(Chain(t, h)) = h
<1>1. Closed(t, {h})
  BY DEF Closed
<1>2. On(t, h) \subseteq {h} /\ h \in On(t, h) /\ Last(Chain(t, h)) \in On(t, h)
  BY <1>1, ChainStays, ChainIs
<1> QED BY <1>2

\* No interaction leads to a binding or to a grab.
LEMMA EndOfChain ==
  ASSUME NEW t, Shape(t), Replaced(t), Ranked(t), NEW h \in Handlers
  PROVE  /\ h \notin Interactions => Last(Chain(t, h)) = h
         /\ h \in Interactions => Last(Chain(t, h)) \in Interactions \cup {Client, Nobody}
<1>1. CASE h \notin Interactions
  BY <1>1, Alone DEF PassesOn
<1>2. CASE h \in Interactions
  <2> DEFINE S == Interactions \cup {Client, Nobody}
  <2>1. h \in S /\ Closed(t, S)
    BY <1>2 DEF Replaced, Closed, PassesOn
  <2> HIDE DEF S
  <2>2. Last(Chain(t, h)) \in S
    BY <2>1, ChainStays, ChainIs
  <2> QED BY <1>2, <2>2 DEF S
<1> QED BY <1>1, <1>2

\* Where the interactions are the same, so are the chains.
SameHands(t, u) ==
    u.buttons = t.buttons /\ u.grabs = t.grabs /\ u.inter = t.inter /\ u.select = t.select

LEMMA SameHandsWired ==
  ASSUME NEW t, NEW u, Wired(t), Shape(u), SameHands(t, u)
  PROVE  /\ Wired(u)
         /\ \A b \in t.buttons : Last(Chain(u, b.by)) = Last(Chain(t, b.by))
<1>1. /\ Ranked(u)
      /\ \A h \in Handlers : On(u, h) = On(t, h) /\ Last(Chain(u, h)) = Last(Chain(t, h))
  BY ChainSameLinks DEF Wired, SameHands
<1>2. \A b \in t.buttons : b.by \in Handlers
  BY ShapeLinks DEF Wired
<1>3. ButtonTakers(u) /\ Distinct(u) /\ OneCaller(u) /\ Replaced(u) /\ Fronted(u)
  BY DEF Wired, SameHands, ButtonTakers, Distinct, OneCaller, Replaced, Fronted, IsActive
<1>4. Owed(u)
  BY <1>1, <1>2 DEF Wired, SameHands, Owed
<1> QED BY <1>1, <1>2, <1>3, <1>4 DEF Wired

\* Another button goes down and an earlier press is nobody's business.
LEMMA PressWired ==
  ASSUME NEW t, NEW u, Wired(t), Shape(u), NEW b \in Press,
         \A c \in t.buttons : c.value # b.value /\ c.serial # b.serial,
         b.to = None => b.by \in {Bound, Selection, Nobody},
         b.to # None => b.by = Client,
         b.by = Bound <=> b.slot # 0,
         u.buttons = t.buttons \cup {b}, u.grabs = t.grabs, u.inter = t.inter,
         u.select # "off" <=> t.select # "off"
  PROVE  /\ Wired(u)
         /\ Last(Chain(u, b.by)) = b.by
         /\ \A c \in t.buttons : Last(Chain(u, c.by)) = Last(Chain(t, c.by))
<1>0. /\ Shape(t) /\ ButtonTakers(t) /\ Replaced(t) /\ Distinct(t) /\ OneCaller(t)
      /\ Ranked(t) /\ Fronted(t) /\ Owed(t)
  BY DEF Wired
<1>1. /\ Ranked(u)
      /\ \A h \in Handlers : On(u, h) = On(t, h) /\ Last(Chain(u, h)) = Last(Chain(t, h))
  BY <1>0, ChainSameLinks
<1>2. b.by \notin Interactions /\ b.by \in Handlers /\ \A c \in t.buttons : c.by \in Handlers
  BY <1>0, HandlersApart, ShapeLinks DEF Press
<1>3. ButtonTakers(u)
  BY <1>0 DEF ButtonTakers
<1>4. Distinct(u)
  BY <1>0 DEF Distinct
<1>5. OneCaller(u) /\ Replaced(u) /\ Fronted(u)
  BY <1>0, <1>2 DEF OneCaller, Replaced, Fronted, IsActive
<1>6. Owed(u)
  BY <1>0, <1>1, <1>2 DEF Owed
<1>7. Last(Chain(u, b.by)) = b.by
  BY <1>1, <1>2, Alone DEF PassesOn
<1> QED BY <1>1, <1>2, <1>3, <1>4, <1>5, <1>6, <1>7 DEF Wired

\* Handlers join the list and none of them calls anybody.
LEMMA JoinWired ==
  ASSUME NEW t, NEW u, Wired(t), Shape(u), NEW g \in Interactions \cup {Selection},
         u.buttons = t.buttons, u.inter = t.inter, u.grabs = t.grabs \cup {g},
         g \in Interactions => t.inter[g] = Idle /\ u.select = t.select,
         g = Selection => u.select = "press"
  PROVE  /\ Wired(u)
         /\ \A b \in t.buttons : Last(Chain(u, b.by)) = Last(Chain(t, b.by))
<1>0. /\ Shape(t) /\ ButtonTakers(t) /\ Replaced(t) /\ Distinct(t) /\ OneCaller(t)
      /\ Ranked(t) /\ Fronted(t) /\ Owed(t)
  BY DEF Wired
<1>1. Replaced(u)
  BY <1>0 DEF Replaced, IsActive
<1>2. Ranked(u)
  BY <1>0, ShapeLinks DEF Ranked, Descends
<1>3. \A h : PassesOn(u, h) <=> PassesOn(t, h)
  BY <1>0, <1>1, PassesIs
<1>4. \A h \in Handlers : On(u, h) = On(t, h) /\ Last(Chain(u, h)) = Last(Chain(t, h))
  <2>1. Agree(t, u, Handlers)
    BY <1>3 DEF Agree
  <2>2. Closed(t, Handlers)
    BY <1>0, ShapeLinks DEF Closed, PassesOn
  <2> QED BY <1>0, <1>2, <2>1, <2>2, ChainSame
<1>5. \A b \in t.buttons : b.by \in Handlers
  BY <1>0, ShapeLinks
<1>6. ButtonTakers(u) /\ Distinct(u) /\ OneCaller(u)
  BY <1>0 DEF ButtonTakers, Distinct, OneCaller
<1>7. Fronted(u)
  BY <1>0, HandlersApart DEF Fronted
<1>8. Owed(u)
  BY <1>0, <1>4, <1>5 DEF Owed
<1> QED BY <1>1, <1>2, <1>4, <1>5, <1>6, <1>7, <1>8 DEF Wired

\* An interaction that nobody calls any more takes a press over.
TakesOver(t, u, i, b, d) ==
    /\ d = [b EXCEPT !.by = i]
    /\ u.buttons = (t.buttons \ {b}) \cup {d}
    /\ u.inter = [t.inter EXCEPT ![i] = [original |-> b.by, serial |-> b.serial]]
    /\ u.grabs = t.grabs \cup {i}
    /\ u.select = t.select

LEMMA RequestWired ==
  ASSUME NEW t, NEW u, Wired(t), Shape(u), NEW i \in Interactions, NEW b \in t.buttons, b.to # None,
         ~IsActive(t, i),
         \A c \in t.buttons : c.by # i, \A j \in Interactions : t.inter[j].original # i,
         NEW d, TakesOver(t, u, i, b, d)
  PROVE  /\ Wired(u)
         /\ Last(Chain(u, d.by)) = Last(Chain(t, b.by))
         /\ \A c \in t.buttons : Last(Chain(u, c.by)) = Last(Chain(t, c.by))
<1>0. /\ Shape(t) /\ ButtonTakers(t) /\ Replaced(t) /\ Distinct(t) /\ OneCaller(t)
      /\ Ranked(t) /\ Fronted(t) /\ Owed(t)
  BY DEF Wired
<1>1. /\ b.by \in Interactions \cup {Client} /\ b.by # i /\ b.by \in Handlers /\ i \in Handlers
      /\ b.by # Nobody /\ i # Bound
      /\ d.by = i /\ d.value = b.value /\ d.serial = b.serial /\ d.to = b.to /\ d.slot = b.slot
  <2>1. b \in Press
    BY <1>0 DEF Shape
  <2> QED BY <1>0, <2>1, HandlersApart, ShapeLinks DEF ButtonTakers, TakesOver, Press
<1>2. /\ \A j \in Interactions : j # i => u.inter[j] = t.inter[j]
      /\ u.inter[i].original = b.by /\ u.inter[i].serial = b.serial
      /\ u.buttons = (t.buttons \ {b}) \cup {d}
      /\ u.grabs = t.grabs \cup {i} /\ u.select = t.select
  <2>1. t.inter \in [Interactions -> [original : Handlers, serial : Serials \cup {0}]]
    BY <1>0 DEF Shape
  <2>2. \A j \in Interactions : u.inter[j] = IF j = i THEN [original |-> b.by, serial |-> b.serial] ELSE t.inter[j]
    BY <2>1 DEF TakesOver
  <2>3. u.inter[i] = [original |-> b.by, serial |-> b.serial]
    BY <2>2
  <2> QED BY <2>2, <2>3 DEF TakesOver
<1>3. t.inter[i] = Idle
  BY <1>0 DEF Replaced
<1>4. Replaced(u)
  BY <1>0, <1>1, <1>2 DEF Replaced, IsActive
<1>5. Ranked(u)
  <2>1. PICK r \in [Interactions -> Nat] : Descends(t, r)
    BY <1>0 DEF Ranked
  <2> DEFINE q == [r EXCEPT ![i] = IF b.by \in Interactions THEN r[b.by] + 1 ELSE 0]
  <2>2. q \in [Interactions -> Nat] /\ (b.by \in Interactions => q[b.by] < q[i])
        /\ \A j \in Interactions : j # i => q[j] = r[j]
    BY <1>1, <2>1
  <2> HIDE DEF q
  <2>3. Descends(u, q)
    <3> SUFFICES ASSUME NEW j \in Interactions, u.inter[j].original \in Interactions
                 PROVE  q[u.inter[j].original] < q[j]
      BY DEF Descends
    <3>1. CASE j = i
      BY <1>2, <2>2, <3>1
    <3>2. CASE j # i
      BY <1>2, <2>1, <2>2, <3>2 DEF Descends
    <3> QED BY <3>1, <3>2
  <2> QED BY <2>2, <2>3, ShapeLinks DEF Ranked
<1>6. \A h : h # i => (PassesOn(u, h) <=> PassesOn(t, h))
  BY <1>0, <1>2, <1>4, PassesIs
<1>7. PassesOn(u, i)
  BY <1>1, <1>2, <1>4, PassesIs
<1>8. \A h \in Handlers \ {i} : On(u, h) = On(t, h) /\ Last(Chain(u, h)) = Last(Chain(t, h))
  <2> DEFINE S == Handlers \ {i}
  <2>1. Closed(t, S)
    BY <1>0, ShapeLinks DEF Closed, PassesOn
  <2>2. Agree(t, u, S)
    BY <1>2, <1>6 DEF Agree, PassesOn
  <2> QED BY <1>0, <1>5, <2>1, <2>2, ChainSame
<1>9. On(t, b.by) \subseteq On(u, i) /\ i \in On(u, i) /\ Last(Chain(u, i)) = Last(Chain(t, b.by))
  <2>1. /\ i \in On(u, i) /\ Closed(u, On(u, i))
        /\ \A j \in On(u, i) : PassesOn(u, j) \/ j = Last(Chain(u, i))
        /\ Last(Chain(u, b.by)) \in On(u, b.by) /\ ~PassesOn(u, Last(Chain(u, b.by)))
    BY <1>1, <1>5, ChainIs
  <2>2. b.by \in On(u, i)
    BY <1>2, <1>7, <2>1 DEF Closed
  <2>3. On(u, b.by) \subseteq On(u, i)
    BY <1>1, <1>5, <2>1, <2>2, ChainStays
  <2>4. On(u, b.by) = On(t, b.by) /\ Last(Chain(u, b.by)) = Last(Chain(t, b.by))
    BY <1>1, <1>8
  <2> QED BY <2>1, <2>3, <2>4
<1>10. \A c \in t.buttons : c.by \in Handlers \ {i}
  BY <1>0, ShapeLinks
<1>11. ButtonTakers(u)
  BY <1>0, <1>1, <1>2, HandlersApart DEF ButtonTakers
<1>12. Distinct(u)
  BY <1>0, <1>1, <1>2 DEF Distinct
<1>13. OneCaller(u)
  <2>1. \A c, e \in u.buttons : c.by \in Interactions /\ c.by = e.by => c = e
    BY <1>0, <1>1, <1>2 DEF OneCaller
  <2>2. \A j, k \in Interactions :
          u.inter[j].original \in Interactions /\ u.inter[j].original = u.inter[k].original => j = k
    BY <1>0, <1>2 DEF OneCaller
  <2>3. \A c \in u.buttons, j \in Interactions : c.by \in Interactions => c.by # u.inter[j].original
    BY <1>0, <1>1, <1>2 DEF OneCaller
  <2> QED BY <2>1, <2>2, <2>3 DEF OneCaller
<1>14. Fronted(u)
  BY <1>0, <1>2, HandlersApart DEF Fronted
<1>15. Owed(u)
  <2> SUFFICES ASSUME NEW j \in Interactions, u.inter[j].original # Nobody
               PROVE  \E c \in u.buttons : c.serial = u.inter[j].serial /\ j \in On(u, c.by)
    BY DEF Owed
  <2>1. CASE j = i
    BY <1>1, <1>2, <1>9, <2>1
  <2>2. CASE j # i
    <3>1. PICK c \in t.buttons : c.serial = u.inter[j].serial /\ j \in On(t, c.by)
      BY <1>0, <1>2, <2>2 DEF Owed
    <3>2. CASE c = b
      BY <1>1, <1>2, <1>9, <3>1, <3>2
    <3>3. CASE c # b
      BY <1>2, <1>8, <1>10, <3>1, <3>3
    <3> QED BY <3>2, <3>3
  <2> QED BY <2>1, <2>2
<1> QED BY <1>1, <1>4, <1>5, <1>8, <1>9, <1>10, <1>11, <1>12, <1>13, <1>14, <1>15 DEF Wired

-----------------------------------------------------------------------------
(* Bindings *)

\* The array a of bindings: each is in it once, and there is room for all.
Places(a) ==
    /\ a \in [memory : Seq(Bindings), size : Nat]
    /\ a.size <= Len(a.memory) /\ Len(a.memory) <= Cardinality(Bindings)
    /\ \A j, k \in 1..a.size : a.memory[j] = a.memory[k] => j = k

Placed(t, a) == \A b \in t.buttons : b.by = Bound => b.slot \in DOMAIN a.memory

\* But for the bindings s, each that heard of a press is where the press points.
BindingsHear(t, a, s) ==
    \A x \in Bindings \ s :
      /\ x \in t.heard <=> \E b \in t.buttons : b.by = Bound /\ a.memory[b.slot] = x
      /\ \A b \in t.buttons : b.by = Bound /\ a.memory[b.slot] = x => b.value = ButtonOf[x]

\* The same presses belong to bindings.
SameBound(t, u) ==
    /\ u.heard = t.heard
    /\ \A b : b \in u.buttons /\ b.by = Bound <=> b \in t.buttons /\ b.by = Bound

LEMMA SameBoundHear ==
  ASSUME NEW t, NEW u, SameBound(t, u), NEW a, NEW s, Placed(t, a), BindingsHear(t, a, s)
  PROVE  Placed(u, a) /\ BindingsHear(u, a, s)
  BY DEF SameBound, Placed, BindingsHear

LEMMA BindingsFinite == Cardinality(Bindings) \in Nat
  BY PointerAssumption, FS_CardinalityType

\* Each binding is in the array once, so there is room.
LEMMA PlacesFit ==
  ASSUME NEW a, Places(a), NEW b \in Bindings, \A k \in 1..a.size : a.memory[k] # b
  PROVE  a.size + 1 <= Cardinality(Bindings)
<1> DEFINE f == [k \in 1..a.size |-> a.memory[k]]
<1>1. a.size \in Nat /\ \A k \in 1..a.size : a.memory[k] \in Bindings \ {b}
  BY DEF Places
<1>2. f \in Injection(1..a.size, Bindings \ {b})
  BY <1>1 DEF Places, Injection, IsInjective
<1>3. IsFiniteSet(Bindings \ {b}) /\ Cardinality(Bindings \ {b}) = Cardinality(Bindings) - 1
  BY PointerAssumption, FS_RemoveElement
<1>4. Cardinality(1..a.size) <= Cardinality(Bindings) - 1
  <2> HIDE DEF f
  <2> QED BY <1>2, <1>3, FS_Injection
<1>5. Cardinality(1..a.size) = a.size
  BY <1>1, FS_Interval
<1> QED BY <1>1, <1>4, <1>5, BindingsFinite

\* What is written to place k by a call that does not touch the presses.
Writes(t, a, c, k, x) ==
    /\ c.memory \in Seq(Bindings) /\ Len(c.memory) >= Len(a.memory)
    /\ \A j \in 1..Len(a.memory) : c.memory[j] = IF j = k THEN x ELSE a.memory[j]

LEMMA WritesHear ==
  ASSUME NEW t, NEW a, NEW c, NEW k, NEW x \in Bindings, NEW s, NEW r,
         a.memory \in Seq(Bindings), Placed(t, a), BindingsHear(t, a, s), Writes(t, a, c, k, x),
         s \subseteq r,
         (\E b \in t.buttons : b.by = Bound /\ b.slot = k) /\ a.memory[k] # x
           => a.memory[k] \in r /\ x \in r
  PROVE  Placed(t, c) /\ BindingsHear(t, c, r)
<1>1. \A b \in t.buttons : b.by = Bound => b.slot \in 1..Len(a.memory) /\ b.slot \in DOMAIN c.memory
  BY DEF Placed, Writes
<1>2. \A y \in Bindings \ r : \A b \in t.buttons :
        b.by = Bound => (c.memory[b.slot] = y <=> a.memory[b.slot] = y)
  BY <1>1 DEF Writes
<1>3. BindingsHear(t, c, r)
  BY <1>2 DEF BindingsHear
<1> QED BY <1>1, <1>3 DEF Placed

-----------------------------------------------------------------------------
(* Serials *)

LEMMA NextSerialIs ==
  ASSUME Shape(Now), Distinct(Now), NEW value \in Buttons, \A b \in buttons : b.value # value
  PROVE  /\ NextSerial \in Serials
         /\ \A b \in buttons : b.serial # NextSerial
<1> DEFINE Taken == {b.serial : b \in buttons}
           Meant == {inter[i].serial : i \in Interactions}
           f == [b \in buttons |-> b.value]
           g == [b \in buttons |-> b.serial]
           h == [i \in Interactions |-> inter[i].serial]
           n == Cardinality(Buttons)
<1>1. /\ \A b \in buttons : b.value \in Buttons \ {value}
      /\ \A b, c \in buttons : b.value = c.value => b = c
  BY DEF Shape, Distinct, Now, Press
<1>2. IsFiniteSet(Buttons \ {value}) /\ Cardinality(Buttons \ {value}) = n - 1 /\ n \in Nat
  BY PointerAssumption, FS_RemoveElement, FS_CardinalityType
<1>3. IsFiniteSet(buttons) /\ Cardinality(buttons) <= n - 1
  <2>1. f \in Injection(buttons, Buttons \ {value})
    BY <1>1 DEF Injection, IsInjective
  <2> HIDE DEF f
  <2> QED BY <1>2, <2>1, FS_Injection
<1>4. IsFiniteSet(Taken) /\ Cardinality(Taken) <= n - 1
  <2>1. g \in Surjection(buttons, Taken)
    BY DEF Surjection
  <2>2. IsFiniteSet(Taken) /\ Cardinality(Taken) <= Cardinality(buttons)
    <3> HIDE DEF g, Taken
    <3> QED BY <1>3, <2>1, FS_Surjection
  <2> QED BY <1>2, <1>3, <2>2, FS_CardinalityType
<1>5. IsFiniteSet(Meant) /\ Cardinality(Meant) <= Most
  <2>1. h \in Surjection(Interactions, Meant)
    BY DEF Surjection
  <2> HIDE DEF h, Meant
  <2> QED BY <2>1, InteractionsFinite, FS_Surjection DEF Most
<1> HIDE DEF Taken, Meant, n
<1>6. IsFiniteSet(Taken \cup Meant) /\ Cardinality(Taken \cup Meant) < n + Most
  <2>1. Cardinality(Taken) \in Nat /\ Cardinality(Meant) \in Nat /\ Cardinality(Taken \cap Meant) \in Nat
    BY <1>4, <1>5, FS_Intersection, FS_CardinalityType
  <2>2. /\ IsFiniteSet(Taken \cup Meant)
        /\ Cardinality(Taken \cup Meant) = Cardinality(Taken) + Cardinality(Meant) - Cardinality(Taken \cap Meant)
    BY <1>4, <1>5, FS_Union
  <2> QED BY <1>2, <1>4, <1>5, <2>1, <2>2, MostIsNat
<1>7. Serials = 1..n + Most
  BY DEF Serials, n, Most
<1>8. Cardinality(Serials) = n + Most
  BY <1>2, <1>7, MostIsNat, FS_Interval
<1>9. PICK m \in Serials : m \notin Taken \cup Meant
  <2> SUFFICES ASSUME Serials \subseteq Taken \cup Meant PROVE FALSE
    OBVIOUS
  <2>1. Cardinality(Serials) <= Cardinality(Taken \cup Meant)
    BY <1>6, FS_Subset
  <2>2. Cardinality(Taken \cup Meant) \in Nat
    BY <1>6, FS_CardinalityType
  <2> QED BY <1>2, <1>6, <1>8, <2>1, <2>2, MostIsNat
<1>10. /\ \A b \in buttons : m # b.serial
       /\ \A i \in Interactions : m # inter[i].serial
  BY <1>9 DEF Taken, Meant
<1> QED BY <1>10 DEF NextSerial

-----------------------------------------------------------------------------
(* The invariant of presses, interactions and bindings *)

Sound ==
    /\ stacked \subseteq Windows /\ focus \in views \cup {None} /\ moved \subseteq Bindings
    /\ Places(array)
    /\ Wired(Now) /\ DownHeard(Now) /\ Placed(Now, array) /\ BindingsHear(Now, array, moved)

LEMMA SoundSuffices == IInv /\ Sound => ReleasesAreHeard /\ GrabsEnd
<1> SUFFICES ASSUME IInv, Sound PROVE ReleasesAreHeard /\ GrabsEnd
  OBVIOUS
<1>1. /\ Shape(Now) /\ Replaced(Now) /\ Fronted(Now) /\ Owed(Now)
      /\ Places(array) /\ DownHeard(Now) /\ BindingsHear(Now, array, moved)
  BY DEF Sound, Wired
<1>2. ReleasesAreHeard
  <2>1. \A c \in Clients : \A v \in down[c] :
          \E b \in buttons : b.value = v /\ Last(Chain(Now, b.by)) = Client
    BY <1>1 DEF DownHeard, Now
  <2>2. \A x \in Bindings \ moved :
          x \in heard <=> \E b \in buttons : b.by = Bound /\ array.memory[b.slot] = x
    BY <1>1 DEF BindingsHear, Now
  <2> QED BY <2>1, <2>2 DEF ReleasesAreHeard
<1>3. TypeOK
  <2>1. /\ views \subseteq Views /\ bound \subseteq Clients
        /\ cursor \in [client : Clients \cup {None}, surface : BOOLEAN]
        /\ entered \in [Clients -> Views \cup {None}]
    BY DEF IInv, Told, Typed, Now
  <2>2. stacked \subseteq Windows /\ focus \in views \cup {None} /\ moved \subseteq Bindings
    BY DEF Sound
  <2>3. /\ buttons \subseteq Press /\ grabs \subseteq Interactions \cup {Selection}
        /\ inter \in [Interactions -> [original : Handlers, serial : Serials \cup {0}]]
        /\ select \in {"off", "press", "release"}
        /\ down \in [Clients -> SUBSET Buttons] /\ heard \subseteq Bindings
    BY <1>1 DEF Shape, Now
  <2>4. /\ array \in [memory : Seq(Bindings), size : 0..Cardinality(Bindings)]
        /\ array.size <= Len(array.memory)
    BY <1>1, BindingsFinite DEF Places
  <2> QED BY <2>1, <2>2, <2>3, <2>4 DEF TypeOK, Press
<1>4. Selection \in grabs <=> select # "off"
  BY <1>1 DEF Fronted, Now
<1>5. \A i \in Interactions : inter[i].original # Nobody =>
         /\ i \in grabs
         /\ \E b \in buttons : b.serial = inter[i].serial /\ i \in ToSet(Chain(Now, b.by))
  BY <1>1 DEF Replaced, Owed, On, IsActive, Idle, Now
<1> QED BY <1>2, <1>3, <1>4, <1>5 DEF GrabsEnd

LEMMA NowBecomes ==
  ASSUME NEW t, t = [x \in Fields |-> t[x]], Becomes(t)
  PROVE  Now' = t
  BY DEF Becomes, Now, Fields

\* A step that leaves the array of bindings alone
LEMMA SoundBecomes ==
  ASSUME Sound, NEW t, Becomes(t), Wired(t), DownHeard(t),
         Placed(t, array), BindingsHear(t, array, moved'),
         array' = array, bound' = bound, moved' \subseteq Bindings,
         stacked' \subseteq Windows, t.focus \in views' \cup {None}
  PROVE  Sound'
<1>1. Now' = t
  BY NowBecomes DEF Wired, Shape
<1>2. Wired(Now)'
  BY <1>1
<1>3. DownHeard(Now)'
  BY <1>1 DEF DownHeard, Active
<1>4. Placed(Now, array)' /\ BindingsHear(Now, array, moved)'
  BY <1>1
<1>5. Places(array)'
  BY DEF Sound
<1>6. focus' \in views' \cup {None}
  BY DEF Becomes
<1> QED BY <1>2, <1>3, <1>4, <1>5, <1>6 DEF Sound

\* A step that changes no press and no interaction
LEMMA SoundSame ==
  ASSUME Sound, NEW t, Becomes(t), Shape(t), SameHands(Now, t), t.heard = heard, DownHeard(t),
         array' = array, bound' = bound, moved' = moved,
         stacked' \subseteq Windows, t.focus \in views' \cup {None}
  PROVE  Sound'
<1>1. Wired(t)
  BY SameHandsWired DEF Sound
<1>2. SameBound(Now, t)
  BY DEF SameHands, SameBound, Now
<1>3. Placed(t, array) /\ BindingsHear(t, array, moved')
  BY <1>2, SameBoundHear DEF Sound
<1>4. moved' \subseteq Bindings
  BY DEF Sound
<1> QED BY <1>1, <1>3, <1>4, SoundBecomes

-----------------------------------------------------------------------------
(* Focus *)

LEMMA LeaveHands ==
  ASSUME NEW t, Shape(t), DownHeard(t), bound \subseteq Clients, t.focus \in Views \cup {None}
  PROVE  /\ Shape(Leave(t)) /\ SameHands(t, Leave(t))
         /\ Leave(t).heard = t.heard /\ Leave(t).focus = None
         /\ \A d \in Clients : Leave(t).down[d] = {}
<1> DEFINE c == Active(t.focus)
           u == Leave(t)
<1>0. /\ t = [x \in Fields |-> t[x]] /\ t.down \in [Clients -> SUBSET Buttons]
      /\ c \in Clients \cup {None} /\ None \notin Clients
  BY ActiveIsAClient, PointerAssumption DEF Shape
<1>1. \A d \in Clients : d # c => t.down[d] = {}
  BY DEF DownHeard
<1>2. u = IF c = None THEN [t EXCEPT !.focus = None]
          ELSE [t EXCEPT !.focus = None, !.entered[c] = None, !.down[c] = {}]
  BY DEF Leave
<1> SUFFICES /\ Shape(u) /\ SameHands(t, u) /\ u.heard = t.heard /\ u.focus = None
             /\ \A d \in Clients : u.down[d] = {}
  OBVIOUS
<1> HIDE DEF c, u
<1>3. /\ u = [x \in Fields |-> u[x]] /\ u.focus = None /\ u.heard = t.heard
      /\ u.buttons = t.buttons /\ u.grabs = t.grabs /\ u.inter = t.inter /\ u.select = t.select
      /\ u.down = IF c = None THEN t.down ELSE [t.down EXCEPT ![c] = {}]
  <2>1. CASE c = None
    BY <1>0, <1>2, <2>1 DEF Fields
  <2>2. CASE c # None
    BY <1>0, <1>2, <2>2 DEF Fields
  <2> QED BY <2>1, <2>2
<1>4. \A d \in Clients : u.down[d] = {}
  BY <1>0, <1>1, <1>3
<1>5. u.down \in [Clients -> SUBSET Buttons]
  BY <1>0, <1>3
<1>6. Shape(u)
  BY <1>3, <1>5 DEF Shape
<1> QED BY <1>3, <1>4, <1>6 DEF SameHands

LEMMA EnterHands ==
  ASSUME NEW t, Shape(t), NEW v
  PROVE  /\ Shape(Enter(t, v)) /\ SameHands(t, Enter(t, v))
         /\ Enter(t, v).heard = t.heard /\ Enter(t, v).focus = v /\ Enter(t, v).down = t.down
<1> DEFINE c == Active(v)
           u == Enter(t, v)
<1>0. t = [x \in Fields |-> t[x]]
  BY DEF Shape
<1>1. u = IF c = None THEN [t EXCEPT !.focus = v, !.cursor = DefaultCursor]
          ELSE [t EXCEPT !.focus = v, !.entered[c] = v,
                         !.cursor = IF @.client \in {None, c} THEN @ ELSE DefaultCursor]
  BY DEF Enter
<1> SUFFICES Shape(u) /\ SameHands(t, u) /\ u.heard = t.heard /\ u.focus = v /\ u.down = t.down
  OBVIOUS
<1> HIDE DEF c, u
<1>2. /\ u = [x \in Fields |-> u[x]] /\ u.focus = v /\ u.heard = t.heard /\ u.down = t.down
      /\ u.buttons = t.buttons /\ u.grabs = t.grabs /\ u.inter = t.inter /\ u.select = t.select
  <2>1. CASE c = None
    BY <1>0, <1>1, <2>1 DEF Fields
  <2>2. CASE c # None
    BY <1>0, <1>1, <2>2 DEF Fields
  <2> QED BY <2>1, <2>2
<1> QED BY <1>2 DEF Shape, SameHands

\* Where the focus goes nobody has been told of a button.
LEMMA SetFocusHands ==
  ASSUME NEW t, Wired(t), DownHeard(t), bound \subseteq Clients, t.focus \in Views \cup {None}, NEW v
  PROVE  /\ Shape(SetFocus(t, v)) /\ SameHands(t, SetFocus(t, v)) /\ DownHeard(SetFocus(t, v))
         /\ SetFocus(t, v).heard = t.heard /\ SetFocus(t, v).focus = v
<1>1. CASE v = t.focus
  BY <1>1 DEF SetFocus, SameHands, Wired
<1>2. CASE v # t.focus
  <2>1. SetFocus(t, v) = Enter(Leave(t), v)
    BY <1>2 DEF SetFocus
  <2>2. /\ Shape(Leave(t)) /\ SameHands(t, Leave(t)) /\ Leave(t).heard = t.heard
        /\ \A d \in Clients : Leave(t).down[d] = {}
    BY LeaveHands DEF Wired
  <2>3. /\ Shape(Enter(Leave(t), v)) /\ SameHands(Leave(t), Enter(Leave(t), v))
        /\ Enter(Leave(t), v).heard = Leave(t).heard /\ Enter(Leave(t), v).focus = v
        /\ Enter(Leave(t), v).down = Leave(t).down
    BY <2>2, EnterHands
  <2>4. \A d \in Clients : SetFocus(t, v).down[d] = {}
    BY <2>1, <2>2, <2>3
  <2> QED BY <2>1, <2>2, <2>3, <2>4 DEF SameHands, DownHeard
<1> QED BY <1>1, <1>2

LEMMA AddResourceHands ==
  ASSUME NEW t, Shape(t), NEW c
  PROVE  /\ Shape(AddResource(t, c)) /\ SameHands(t, AddResource(t, c))
         /\ AddResource(t, c).heard = t.heard /\ AddResource(t, c).focus = t.focus
         /\ AddResource(t, c).down = t.down
<1> DEFINE u == AddResource(t, c)
           k == IF t.cursor.client \in {None, c} THEN t.cursor ELSE DefaultCursor
<1>0. t = [x \in Fields |-> t[x]]
  BY DEF Shape
<1>1. u = IF t.focus # None /\ Owner[t.focus] = c
          THEN [t EXCEPT !.entered[c] = t.focus, !.cursor = k] ELSE t
  BY <1>0 DEF AddResource, Fields
<1> SUFFICES Shape(u) /\ SameHands(t, u) /\ u.heard = t.heard /\ u.focus = t.focus /\ u.down = t.down
  OBVIOUS
<1> HIDE DEF u, k
<1>2. /\ u = [x \in Fields |-> u[x]] /\ u.focus = t.focus /\ u.heard = t.heard /\ u.down = t.down
      /\ u.buttons = t.buttons /\ u.grabs = t.grabs /\ u.inter = t.inter /\ u.select = t.select
  BY <1>0, <1>1 DEF Fields
<1> QED BY <1>2 DEF Shape, SameHands

-----------------------------------------------------------------------------
(* The initial state and the steps *)

LEMMA InitSound == Init => Sound
<1> SUFFICES ASSUME Init PROVE Sound
  OBVIOUS
<1>1. /\ buttons = {} /\ grabs = {} /\ inter = [i \in Interactions |-> Idle] /\ select = "off"
      /\ down = [c \in Clients |-> {}] /\ heard = {} /\ moved = {} /\ focus = None
      /\ stacked = Windows /\ array = [memory |-> <<>>, size |-> 0]
  BY DEF Init
<1>2. Idle \in [original : Handlers, serial : Serials \cup {0}] /\ Idle.original = Nobody
  BY DEF Idle, Handlers
<1>3. Shape(Now)
  BY <1>1, <1>2 DEF Shape, Now, Fields
<1>4. Replaced(Now) /\ Fronted(Now)
  BY <1>1, <1>2 DEF Replaced, Fronted, Now
<1>5. ButtonTakers(Now) /\ Distinct(Now)
  BY <1>1 DEF ButtonTakers, Distinct, Now
<1>6. OneCaller(Now) /\ Owed(Now)
  BY <1>1, <1>2, HandlersApart DEF OneCaller, Owed, Now
<1>7. Ranked(Now)
  <2>1. [i \in Interactions |-> 0] \in [Interactions -> Nat]
    OBVIOUS
  <2>2. Descends(Now, [i \in Interactions |-> 0])
    BY <1>1, <1>2, HandlersApart DEF Descends, Now
  <2> QED BY <1>3, <2>1, <2>2, ShapeLinks DEF Ranked
<1>8. DownHeard(Now) /\ Placed(Now, array) /\ BindingsHear(Now, array, moved)
  BY <1>1 DEF DownHeard, Placed, BindingsHear, Now
<1>9. Places(array)
  BY <1>1, BindingsFinite DEF Places
<1> QED BY <1>1, <1>3, <1>4, <1>5, <1>6, <1>7, <1>8, <1>9 DEF Sound, Wired

LEMMA SlotIs ==
  ASSUME NEW value, Slot(value) # 0
  PROVE  Slot(value) \in 1..array.size /\ ButtonOf[array.memory[Slot(value)]] = value
BY DEF Slot

\* Whoever takes the press b, who was told of it will hear of its release.
PressTold(t, u, b) ==
    /\ u.focus = t.focus
    /\ \A c \in Clients : \A v \in u.down[c] :
         v \in t.down[c] \/ (v = b.value /\ b.by = Client /\ c = Active(t.focus))
    /\ u.heard = IF b.by = Bound THEN t.heard \cup {array.memory[b.slot]} ELSE t.heard
    /\ b.by = Bound => b.slot \in 1..array.size /\ ButtonOf[array.memory[b.slot]] = b.value

LEMMA PressSound ==
  ASSUME Sound, NEW t, Wired(t), DownHeard(t), SameHands(Now, t), t.heard = heard,
         NEW u, Becomes(u), Shape(u), NEW b \in Press, PressTold(t, u, b),
         \A c \in buttons : c.value # b.value, b.serial = NextSerial,
         b.to = None => b.by \in {Bound, Selection, Nobody},
         b.to # None => b.by = Client,
         b.by = Bound <=> b.slot # 0,
         u.buttons = t.buttons \cup {b}, u.grabs = t.grabs, u.inter = t.inter,
         u.select # "off" <=> t.select # "off",
         array' = array, bound' = bound, moved' = moved, stacked' = stacked,
         u.focus \in views' \cup {None}
  PROVE  Sound'
<1>1. t.buttons = buttons /\ Now.buttons = buttons
  BY DEF SameHands, Now
<1>2. \A c \in t.buttons : c.value # b.value /\ c.serial # b.serial
  <2>1. b.value \in Buttons /\ Shape(Now) /\ Distinct(Now)
    BY DEF Press, Sound, Wired
  <2> QED BY <1>1, <2>1, NextSerialIs
<1>3. /\ Wired(u) /\ Last(Chain(u, b.by)) = b.by
      /\ \A c \in t.buttons : Last(Chain(u, c.by)) = Last(Chain(t, c.by))
  BY <1>2, PressWired
<1>4. DownHeard(u)
  <2> SUFFICES ASSUME NEW c \in Clients, NEW v \in u.down[c]
               PROVE  /\ c = Active(u.focus)
                      /\ \E d \in u.buttons : d.value = v /\ Last(Chain(u, d.by)) = Client
    BY DEF DownHeard
  <2>1. u.focus = t.focus
    BY DEF PressTold
  <2>2. CASE v \in t.down[c]
    BY <1>3, <2>1, <2>2 DEF DownHeard
  <2>3. CASE v = b.value /\ b.by = Client /\ c = Active(t.focus)
    BY <1>3, <2>1, <2>3
  <2> QED BY <2>2, <2>3 DEF PressTold
<1>5. Placed(Now, array) /\ BindingsHear(Now, array, moved) /\ Places(array)
  BY DEF Sound
<1>6. Placed(u, array)
  BY <1>1, <1>5 DEF Placed, PressTold, Places
<1>7. BindingsHear(u, array, moved)
  <2>1. \A x \in Bindings \ moved :
          /\ x \in t.heard <=> \E d \in t.buttons : d.by = Bound /\ array.memory[d.slot] = x
          /\ \A d \in t.buttons : d.by = Bound /\ array.memory[d.slot] = x => d.value = ButtonOf[x]
    BY <1>1, <1>5 DEF BindingsHear, Now
  <2>2. CASE b.by = Bound
    BY <2>1, <2>2 DEF BindingsHear, PressTold
  <2>3. CASE b.by # Bound
    BY <2>1, <2>3 DEF BindingsHear, PressTold
  <2> QED BY <2>2, <2>3
<1>8. moved' \subseteq Bindings /\ stacked' \subseteq Windows
  BY DEF Sound
<1> QED BY <1>3, <1>4, <1>6, <1>7, <1>8, SoundBecomes

LEMMA PressIs ==
  ASSUME NEW value, NEW n, NEW k, NEW c, NEW r,
         r = [value |-> value, serial |-> n, by |-> Nobody, slot |-> 0, to |-> None]
  PROVE  /\ [r EXCEPT !.by = Bound, !.slot = k]
            = [value |-> value, serial |-> n, by |-> Bound, slot |-> k, to |-> None]
         /\ [r EXCEPT !.by = Client, !.to = c]
            = [value |-> value, serial |-> n, by |-> Client, slot |-> 0, to |-> c]
<1>1. ASSUME NEW b, b = [r EXCEPT !.by = Bound, !.slot = k]
      PROVE  b = [value |-> value, serial |-> n, by |-> Bound, slot |-> k, to |-> None]
  BY <1>1
<1>2. ASSUME NEW b, b = [r EXCEPT !.by = Client, !.to = c]
      PROVE  b = [value |-> value, serial |-> n, by |-> Client, slot |-> 0, to |-> c]
  BY <1>2
<1> QED BY <1>1, <1>2

LEMMA PressButtonSound ==
  ASSUME IInv, Sound, NEW value \in Buttons, NEW u \in Views \cup {None}, NEW m \in BOOLEAN,
         PressButton(value, u, m)
  PROVE  Sound'
<1> DEFINE over == SetFocus(Now, u)
           c == Active(u)
           fresh == [value |-> value, serial |-> NextSerial, by |-> Nobody, slot |-> 0, to |-> None]
<1>0. /\ \A b \in buttons : b.value # value
      /\ u \in views \cup {None} /\ focus \in views \cup {None}
      /\ array' = array /\ bound' = bound /\ moved' = moved /\ stacked' = stacked /\ views' = views
  BY DEF PressButton, Sound
<1>1. /\ Wired(Now) /\ DownHeard(Now) /\ Shape(Now) /\ Distinct(Now) /\ SameHands(Now, Now)
      /\ bound \subseteq Clients /\ Now.focus \in Views \cup {None}
      /\ Now = [x \in Fields |-> Now[x]] /\ Now.heard = heard /\ Now.focus = focus
  BY DEF Sound, Wired, SameHands, IInv, Told, Typed, Now
<1>2. NextSerial \in Serials
  BY <1>0, <1>1, NextSerialIs
<1>3. /\ Shape(over) /\ SameHands(Now, over) /\ DownHeard(over)
      /\ over.heard = heard /\ over.focus = u
  BY <1>1, SetFocusHands
<1>4. Wired(over)
  BY <1>1, <1>3, SameHandsWired
<1>5. c \in Clients \cup {None} /\ None \notin Clients
  BY <1>1, ActiveIsAClient, PointerAssumption
<1>6. 0 \in 0..Cardinality(Bindings)
  BY BindingsFinite
<1>7. CASE select = "press"
  <2> DEFINE b == [fresh EXCEPT !.by = Selection]
             w == [[Now EXCEPT !.select = "release"] EXCEPT !.buttons = @ \cup {b}]
  <2>1. Becomes(w)
    BY <1>7 DEF PressButton
  <2>2. b = [value |-> value, serial |-> NextSerial, by |-> Selection, slot |-> 0, to |-> None]
    OBVIOUS
  <2> HIDE DEF b
  <2>3. b \in Press
    BY <1>2, <1>6, <2>2 DEF Press, Handlers
  <2>4. /\ w = [x \in Fields |-> w[x]] /\ w.focus = focus /\ w.heard = heard /\ w.down = Now.down
        /\ w.buttons = Now.buttons \cup {b} /\ w.grabs = Now.grabs /\ w.inter = Now.inter
        /\ w.select = "release"
    BY <1>1 DEF Fields
  <2> HIDE DEF w
  <2>5. Shape(w)
    BY <1>1, <2>3, <2>4 DEF Shape
  <2>6. PressTold(Now, w, b)
    BY <1>1, <2>2, <2>4, HandlersApart DEF PressTold
  <2>7. Now.select = "press"
    BY <1>7 DEF Now
  <2> QED BY <1>0, <1>1, <2>1, <2>2, <2>3, <2>4, <2>5, <2>6, <2>7, HandlersApart, PressSound
<1>8. CASE select # "press" /\ m
  <2> DEFINE b == [fresh EXCEPT !.by = Bound, !.slot = Slot(value)]
             x == array.memory[Slot(value)]
             w == [[over EXCEPT !.heard = @ \cup {x}] EXCEPT !.buttons = @ \cup {b}]
  <2>1. Becomes(w) /\ Slot(value) # 0
    BY <1>8 DEF PressButton
  <2>2. b = [value |-> value, serial |-> NextSerial, by |-> Bound, slot |-> Slot(value), to |-> None]
    BY PressIs, ZenonT(30)
  <2> HIDE DEF b
  <2>3. /\ Slot(value) \in 1..array.size /\ ButtonOf[x] = value /\ x \in Bindings
        /\ Slot(value) \in 0..Cardinality(Bindings)
    <3>1. Slot(value) \in 1..array.size /\ ButtonOf[x] = value
      BY <2>1, SlotIs
    <3> QED BY <3>1, BindingsFinite DEF Sound, Places
  <2>4. b \in Press
    BY <1>2, <2>2, <2>3 DEF Press, Handlers
  <2> HIDE DEF over, x
  <2>5. /\ w = [y \in Fields |-> w[y]] /\ w.focus = u /\ w.heard = heard \cup {x} /\ w.down = over.down
        /\ w.buttons = over.buttons \cup {b} /\ w.grabs = over.grabs /\ w.inter = over.inter
        /\ w.select = over.select
    BY <1>3 DEF Fields, Shape
  <2> HIDE DEF w
  <2>6. Shape(w)
    <3>1. heard \subseteq Bindings
      BY <1>3 DEF Shape
    <3> QED BY <1>3, <2>3, <2>4, <2>5, <3>1 DEF Shape
  <2>7. PressTold(over, w, b)
    BY <1>3, <2>2, <2>3, <2>5, HandlersApart DEF PressTold, x
  <2> QED BY <1>0, <1>3, <1>4, <2>1, <2>2, <2>4, <2>5, <2>6, <2>7, HandlersApart, PressSound
<1>9. CASE select # "press" /\ ~m /\ c # None
  <2> DEFINE b == [fresh EXCEPT !.by = Client, !.to = c]
             w == [[over EXCEPT !.down[c] = @ \cup {value}] EXCEPT !.buttons = @ \cup {b}]
  <2>1. Becomes(w)
    BY <1>9 DEF PressButton
  <2>2. b = [value |-> value, serial |-> NextSerial, by |-> Client, slot |-> 0, to |-> c]
    BY PressIs
  <2> HIDE DEF b
  <2>3. b \in Press
    BY <1>2, <1>5, <1>6, <2>2 DEF Press, Handlers
  <2> HIDE DEF over
  <2>4. /\ w = [y \in Fields |-> w[y]] /\ w.focus = u /\ w.heard = heard
        /\ w.down = [over.down EXCEPT ![c] = @ \cup {value}]
        /\ w.buttons = over.buttons \cup {b} /\ w.grabs = over.grabs /\ w.inter = over.inter
        /\ w.select = over.select
    <3> HIDE DEF c
    <3> QED BY <1>3 DEF Fields, Shape
  <2> HIDE DEF w
  <2>5. over.down \in [Clients -> SUBSET Buttons] /\ w.down \in [Clients -> SUBSET Buttons]
    <3> HIDE DEF c
    <3> QED BY <1>3, <1>5, <1>9, <2>4, SMTT(30) DEF Shape
  <2>6. Shape(w)
    BY <1>3, <2>3, <2>4, <2>5 DEF Shape
  <2>7. PressTold(over, w, b)
    <3>1. \A d \in Clients : \A v \in w.down[d] : v \in over.down[d] \/ (v = value /\ d = c)
      <4> HIDE DEF c
      <4> QED BY <2>4, <2>5
    <3> QED BY <1>3, <2>2, <2>4, <3>1, HandlersApart DEF PressTold
  <2>8. /\ b.to = None => b.by \in {Bound, Selection, Nobody}
        /\ b.to # None => b.by = Client
        /\ b.by = Bound <=> b.slot # 0
        /\ b.value = value /\ b.serial = NextSerial
    <3> HIDE DEF c
    <3> QED BY <1>9, <2>2, HandlersApart
  <2> QED BY <1>0, <1>3, <1>4, <2>1, <2>3, <2>4, <2>6, <2>7, <2>8, PressSound
<1>10. CASE select # "press" /\ ~m /\ c = None
  <2> DEFINE w == [over EXCEPT !.buttons = @ \cup {fresh}]
  <2>1. Becomes(w)
    BY <1>10 DEF PressButton
  <2>2. fresh \in Press
    BY <1>2, <1>6 DEF Press, Handlers
  <2>3. /\ fresh.value = value /\ fresh.serial = NextSerial /\ fresh.by = Nobody /\ fresh.slot = 0
        /\ fresh.to = None
    OBVIOUS
  <2> HIDE DEF over, fresh
  <2>4. /\ w = [y \in Fields |-> w[y]] /\ w.focus = u /\ w.heard = heard /\ w.down = over.down
        /\ w.buttons = over.buttons \cup {fresh} /\ w.grabs = over.grabs /\ w.inter = over.inter
        /\ w.select = over.select
    BY <1>3 DEF Fields, Shape
  <2> HIDE DEF w
  <2>5. Shape(w)
    BY <1>3, <2>2, <2>4 DEF Shape
  <2>6. PressTold(over, w, fresh)
    BY <1>3, <2>3, <2>4, HandlersApart DEF PressTold
  <2> QED BY <1>0, <1>3, <1>4, <2>1, <2>2, <2>3, <2>4, <2>5, <2>6, HandlersApart, PressSound
<1> QED BY <1>7, <1>8, <1>9, <1>10

\* The release ends the presses of b and, when no press of a binding is left,
\* forgets which bindings changed places under one.
LEMMA ReleaseButtonSound ==
  ASSUME IInv, Sound, NEW b \in buttons, ReleaseButton(b)
  PROVE  Sound'
<1> DEFINE z == Last(Chain(Now, b.by))
           t == Release(Now, b.by, b)
           u == [t EXCEPT !.buttons = @ \ {b}]
           w == [u EXCEPT !.heard = @ \ moved]
<1>0. /\ array' = array /\ bound' = bound /\ stacked' = stacked /\ views' = views
      /\ IF InUse(u) THEN Becomes(u) /\ moved' = moved ELSE Becomes(w) /\ moved' = {}
  BY DEF ReleaseButton
<1>1. /\ Wired(Now) /\ Shape(Now) /\ Replaced(Now) /\ Ranked(Now) /\ Distinct(Now) /\ ButtonTakers(Now)
      /\ DownHeard(Now) /\ Placed(Now, array) /\ BindingsHear(Now, array, moved)
      /\ bound \subseteq Clients /\ Now.focus \in Views \cup {None}
      /\ Now.heard = heard /\ Now.focus = focus /\ Now.buttons = buttons /\ Now.down = down
  BY DEF Sound, Wired, IInv, Told, Typed, Now
<1>2. Released(Now, t, Over(Now, b.by), z, b)
  BY <1>1, ReleaseReleases
<1>3. HeardElse(Now, t, b)
  BY <1>1, <1>2, ReleasedDown
<1>4. Shape(t)
  BY <1>1, <1>2, ReleasedShape
<1>5. b.by \in Handlers /\ (z = Bound <=> b.by = Bound)
  BY <1>1, ShapeLinks, EndOfChain, HandlersApart
<1> HIDE DEF t, z
<1>6. /\ u = [x \in Fields |-> u[x]] /\ u.buttons = buttons \ {b} /\ u.focus = focus
      /\ u.inter = t.inter /\ u.grabs = t.grabs /\ u.select = t.select /\ u.down = t.down
      /\ u.heard = IF b.by = Bound THEN heard \ {Pressed(b)} ELSE heard
  BY <1>1, <1>2, <1>4, <1>5 DEF Shape, Released, Outcome, Fields
<1> HIDE DEF u
<1>7. /\ w = [x \in Fields |-> w[x]] /\ w.buttons = u.buttons /\ w.focus = focus
      /\ w.inter = t.inter /\ w.grabs = t.grabs /\ w.select = t.select /\ w.down = t.down
      /\ w.heard = u.heard \ moved
  BY <1>6 DEF Fields
<1> HIDE DEF w
<1>8. Shape(u) /\ Shape(w)
  <2>1. buttons \ {b} \subseteq Press /\ u.heard \subseteq Bindings
    BY <1>1, <1>6 DEF Shape
  <2>2. Shape(u)
    BY <1>4, <1>6, <2>1 DEF Shape
  <2>3. Shape(w)
    BY <1>4, <1>6, <1>7, <2>1 DEF Shape
  <2> QED BY <2>2, <2>3
<1>9. t.buttons = buttons
  BY <1>1, <1>2 DEF Released
<1>10. ASSUME NEW v, v \in {u, w} PROVE Wired(v) /\ DownHeard(v) /\ Placed(v, array)
  <2>1. /\ Shape(v) /\ v.buttons = t.buttons \ {b} /\ v.inter = t.inter /\ v.grabs = t.grabs
        /\ v.select = t.select /\ v.down = t.down /\ v.focus = focus
    BY <1>6, <1>7, <1>8, <1>9, <1>10
  <2>2. /\ Wired(v)
        /\ \A c \in buttons : c # b => Last(Chain(v, c.by)) = Last(Chain(Now, c.by))
    BY <1>1, <1>2, <2>1, LetGoWired DEF z
  <2>3. DownHeard(v)
    <3>1. t.focus = focus
      BY <1>1, <1>2 DEF Released
    <3> QED BY <1>1, <1>3, <1>9, <2>1, <2>2, <3>1 DEF HeardElse, DownHeard
  <2>4. Placed(v, array)
    BY <1>1, <1>9, <2>1 DEF Placed
  <2> QED BY <2>2, <2>3, <2>4
<1>11. BindingsHear(u, array, moved)
  <2> SUFFICES ASSUME NEW x \in Bindings \ moved
               PROVE  /\ x \in u.heard <=> \E d \in u.buttons : d.by = Bound /\ array.memory[d.slot] = x
                      /\ \A d \in u.buttons : d.by = Bound /\ array.memory[d.slot] = x => d.value = ButtonOf[x]
    BY DEF BindingsHear
  <2>1. /\ x \in heard <=> \E d \in buttons : d.by = Bound /\ array.memory[d.slot] = x
        /\ \A d \in buttons : d.by = Bound /\ array.memory[d.slot] = x => d.value = ButtonOf[x]
    BY <1>1 DEF BindingsHear
  <2>2. CASE b.by # Bound \/ array.memory[b.slot] # x
    BY <1>6, <2>1, <2>2 DEF Pressed
  <2>3. CASE b.by = Bound /\ array.memory[b.slot] = x
    <3>1. \A d \in buttons : d.by = Bound /\ array.memory[d.slot] = x => d = b
      BY <1>1, <2>1, <2>3 DEF Distinct
    <3> QED BY <1>6, <2>1, <2>3, <3>1 DEF Pressed
  <2> QED BY <2>2, <2>3
<1>12. ~InUse(u) => BindingsHear(w, array, {})
  <2> SUFFICES ASSUME ~InUse(u) PROVE BindingsHear(w, array, {})
    OBVIOUS
  <2>1. \A d \in u.buttons : d.by # Bound
    BY <1>1, <1>6 DEF InUse, ButtonTakers
  <2>2. \A x \in Bindings : x \notin w.heard
    BY <1>7, <1>11, <2>1 DEF BindingsHear
  <2> QED BY <1>7, <2>1, <2>2 DEF BindingsHear
<1>13. /\ focus \in views' \cup {None} /\ stacked' \subseteq Windows
       /\ moved' \subseteq Bindings
  BY <1>0 DEF Sound
<1>14. CASE InUse(u)
  BY <1>0, <1>6, <1>10, <1>11, <1>13, <1>14, SoundBecomes
<1>15. CASE ~InUse(u)
  BY <1>0, <1>7, <1>10, <1>12, <1>13, <1>15, SoundBecomes
<1> QED BY <1>14, <1>15

LEMMA MotionSound ==
  ASSUME IInv, Sound, NEW u \in Views \cup {None}, Motion(u)
  PROVE  Sound'
<1>1. /\ Becomes(SetFocus(Now, u)) /\ u \in views' \cup {None}
      /\ array' = array /\ bound' = bound /\ moved' = moved /\ stacked' = stacked
  BY DEF Motion
<1>2. /\ Wired(Now) /\ DownHeard(Now) /\ bound \subseteq Clients /\ Now.focus \in Views \cup {None}
      /\ Now.heard = heard /\ stacked \subseteq Windows
  BY DEF Sound, IInv, Told, Typed, Now
<1>3. /\ Shape(SetFocus(Now, u)) /\ SameHands(Now, SetFocus(Now, u)) /\ DownHeard(SetFocus(Now, u))
      /\ SetFocus(Now, u).heard = Now.heard /\ SetFocus(Now, u).focus = u
  BY <1>2, SetFocusHands
<1> QED BY <1>1, <1>2, <1>3, SoundSame

-----------------------------------------------------------------------------
(* Interactions *)

\* The only place that asks for Again = FALSE: a second interaction of a kind that
\* takes a press over while the first is still to be called would call itself.
LEMMA RequestSound ==
  ASSUME Again = FALSE, IInv, Sound, NEW i \in Interactions, NEW b \in buttons, RequestInteraction(i, b)
  PROVE  Sound'
<1> DEFINE d == [b EXCEPT !.by = i]
           t == [Now EXCEPT !.inter[i] = [original |-> b.by, serial |-> b.serial],
                            !.buttons = (@ \ {b}) \cup {d},
                            !.grabs = @ \cup {i}]
<1>0. /\ Becomes(t) /\ i[2] \in Windows /\ b.to = Owner[i[2]] /\ ~IsActive(Now, i) /\ Forgotten(i)
      /\ array' = array /\ bound' = bound /\ moved' = moved /\ stacked' = stacked /\ views' = views
  BY DEF RequestInteraction, Interactions
<1>1. /\ Wired(Now) /\ Shape(Now) /\ ButtonTakers(Now)
      /\ DownHeard(Now) /\ Placed(Now, array) /\ BindingsHear(Now, array, moved)
      /\ Now = [x \in Fields |-> Now[x]] /\ b \in Now.buttons
      /\ Now.heard = heard /\ Now.focus = focus /\ Now.buttons = buttons /\ Now.down = down
      /\ Now.inter = inter
  BY DEF Sound, Wired, Shape, Now
<1>2. b.to # None
  BY <1>0, PointerAssumption
<1>3. b \in Press /\ b.by \in Interactions \cup {Client} /\ i \in Handlers
  BY <1>1, <1>2 DEF Shape, ButtonTakers, Handlers
<1>4. d \in Press /\ d.value = b.value /\ d.by = i
  BY <1>3 DEF Press
<1> HIDE DEF d
<1>5. /\ t = [x \in Fields |-> t[x]] /\ t.focus = focus /\ t.down = down /\ t.heard = heard
      /\ t.buttons = (Now.buttons \ {b}) \cup {d}
      /\ t.inter = [Now.inter EXCEPT ![i] = [original |-> b.by, serial |-> b.serial]]
      /\ t.grabs = Now.grabs \cup {i} /\ t.select = Now.select
  BY <1>1 DEF Fields
<1> HIDE DEF t
<1>6. Shape(t)
  <2>1. [original |-> b.by, serial |-> b.serial] \in [original : Handlers, serial : Serials \cup {0}]
    BY <1>3 DEF Press
  <2>2. t.inter \in [Interactions -> [original : Handlers, serial : Serials \cup {0}]]
    BY <1>1, <1>5, <2>1 DEF Shape
  <2> QED BY <1>1, <1>4, <1>5, <2>2 DEF Shape
<1>7. /\ Wired(t) /\ Last(Chain(t, d.by)) = Last(Chain(Now, b.by))
      /\ \A c \in Now.buttons : Last(Chain(t, c.by)) = Last(Chain(Now, c.by))
  <2>1. TakesOver(Now, t, i, b, d)
    BY <1>5 DEF TakesOver, d
  <2>2. /\ \A c \in Now.buttons : c.by # i
        /\ \A j \in Interactions : Now.inter[j].original # i
    BY <1>0, <1>1 DEF Forgotten
  <2> QED BY <1>0, <1>1, <1>2, <1>6, <2>1, <2>2, RequestWired
<1>8. DownHeard(t)
  <2> SUFFICES ASSUME NEW c \in Clients, NEW v \in t.down[c]
               PROVE  /\ c = Active(t.focus)
                      /\ \E e \in t.buttons : e.value = v /\ Last(Chain(t, e.by)) = Client
    BY DEF DownHeard
  <2>1. PICK e \in Now.buttons : e.value = v /\ Last(Chain(Now, e.by)) = Client
    BY <1>1, <1>5 DEF DownHeard
  <2>2. c = Active(t.focus)
    BY <1>1, <1>5 DEF DownHeard
  <2>3. CASE e = b
    BY <1>4, <1>5, <1>7, <2>1, <2>2, <2>3
  <2>4. CASE e # b
    BY <1>5, <1>7, <2>1, <2>2, <2>4
  <2> QED BY <2>3, <2>4
<1>9. SameBound(Now, t)
  <2>1. b.by # Bound /\ d.by # Bound
    BY <1>3, <1>4, HandlersApart
  <2> QED BY <1>1, <1>5, <2>1 DEF SameBound
<1>10. Placed(t, array) /\ BindingsHear(t, array, moved')
  BY <1>0, <1>1, <1>9, SameBoundHear
<1>11. t.focus \in views' \cup {None} /\ stacked' \subseteq Windows /\ moved' \subseteq Bindings
  BY <1>0, <1>5 DEF Sound
<1> QED BY <1>0, <1>7, <1>8, <1>10, <1>11, SoundBecomes

\* A handler that joins the others calls nobody.
LEMMA JoinSound ==
  ASSUME Sound, NEW t, Becomes(t), Shape(t), NEW g \in Interactions \cup {Selection},
         t.buttons = buttons, t.inter = inter, t.grabs = grabs \cup {g},
         g \in Interactions => inter[g] = Idle /\ t.select = select,
         g = Selection => t.select = "press",
         t.focus = focus, t.down = down, t.heard = heard,
         array' = array, bound' = bound, moved' = moved, stacked' = stacked, views' = views
  PROVE  Sound'
<1>1. /\ Wired(Now) /\ DownHeard(Now) /\ Placed(Now, array) /\ BindingsHear(Now, array, moved)
      /\ Now.buttons = buttons /\ Now.inter = inter /\ Now.grabs = grabs /\ Now.select = select
      /\ Now.heard = heard /\ Now.down = down /\ Now.focus = focus
  BY DEF Sound, Now
<1>2. Wired(t) /\ \A b \in t.buttons : Last(Chain(t, b.by)) = Last(Chain(Now, b.by))
  BY <1>1, JoinWired
<1>3. DownHeard(t)
  BY <1>1, <1>2 DEF DownHeard
<1>4. Placed(t, array) /\ BindingsHear(t, array, moved)
  BY <1>1, SameBoundHear DEF SameBound
<1>5. t.focus \in views' \cup {None} /\ stacked' \subseteq Windows /\ moved' \subseteq Bindings
  BY DEF Sound
<1> QED BY <1>2, <1>3, <1>4, <1>5, SoundBecomes

LEMMA BeginSound ==
  ASSUME Sound, NEW i \in Interactions, BeginInteraction(i)
  PROVE  Sound'
<1> DEFINE t == [Now EXCEPT !.inter[i] = Idle, !.grabs = @ \cup {i}]
<1>0. /\ Becomes(t) /\ ~IsActive(Now, i)
      /\ array' = array /\ bound' = bound /\ moved' = moved /\ stacked' = stacked /\ views' = views
  BY DEF BeginInteraction
<1>1. Shape(Now) /\ inter \in [Interactions -> [original : Handlers, serial : Serials \cup {0}]]
  BY DEF Sound, Wired, Shape, Now
<1>2. inter[i] = Idle
  BY <1>0 DEF Sound, Wired, Replaced, Now
<1>3. [inter EXCEPT ![i] = Idle] = inter
  BY <1>1, <1>2
<1>4. /\ t = [x \in Fields |-> t[x]] /\ t.focus = focus /\ t.down = down /\ t.heard = heard
      /\ t.buttons = buttons /\ t.inter = [inter EXCEPT ![i] = Idle]
      /\ t.grabs = grabs \cup {i} /\ t.select = select
  BY DEF Now, Fields
<1> HIDE DEF t
<1>5. Shape(t)
  BY <1>1, <1>3, <1>4 DEF Shape, Now
<1> QED BY <1>0, <1>2, <1>3, <1>4, <1>5, HandlersApart, JoinSound

LEMMA GrabSound ==
  ASSUME Sound, Grab
  PROVE  Sound'
<1> DEFINE s == [Now EXCEPT !.select = "press", !.grabs = @ \cup {Selection}]
           t == ForceCursor(s)
<1>0. /\ Becomes(t)
      /\ array' = array /\ bound' = bound /\ moved' = moved /\ stacked' = stacked /\ views' = views
  BY DEF Grab
<1>1. /\ s = [x \in Fields |-> s[x]] /\ s.focus = focus /\ s.down = down /\ s.heard = heard
      /\ s.buttons = buttons /\ s.inter = inter /\ s.grabs = grabs \cup {Selection} /\ s.select = "press"
  BY DEF Now, Fields
<1> HIDE DEF s
<1>2. /\ t = [x \in Fields |-> t[x]] /\ t.focus = focus /\ t.down = down /\ t.heard = heard
      /\ t.buttons = buttons /\ t.inter = inter /\ t.grabs = grabs \cup {Selection} /\ t.select = "press"
  BY <1>1 DEF ForceCursor, Fields
<1> HIDE DEF t
<1>3. Shape(t)
  BY <1>2 DEF Sound, Wired, Shape, Now
<1> QED BY <1>0, <1>2, <1>3, HandlersApart, JoinSound

\* The end of an interaction leaves the buttons as they are.
LEMMA EndsSound ==
  ASSUME Sound, NEW t, Wired(t), DownHeard(t), t.focus = focus, t.buttons = buttons, t.heard = heard,
         Becomes(t), array' = array, bound' = bound, moved' = moved, stacked' \subseteq stacked, views' = views
  PROVE  Sound'
<1>1. SameBound(Now, t)
  BY DEF SameBound, Now
<1>2. Placed(t, array) /\ BindingsHear(t, array, moved')
  BY <1>1, SameBoundHear DEF Sound
<1>3. t.focus \in views' \cup {None} /\ stacked' \subseteq Windows /\ moved' \subseteq Bindings
  BY DEF Sound
<1> QED BY <1>2, <1>3, SoundBecomes

LEMMA EndSound ==
  ASSUME IInv, Sound, (\E i \in Interactions : EndInteraction(i)) \/ (\E w \in Windows : SetTiled(w))
  PROVE  Sound'
<1>1. /\ Wired(Now) /\ DownHeard(Now) /\ bound \subseteq Clients /\ Now.focus \in Views \cup {None}
      /\ Now.focus = focus /\ Now.buttons = buttons /\ Now.heard = heard
  BY DEF Sound, IInv, Told, Typed, Now
<1>2. ASSUME NEW i \in Interactions, EndInteraction(i) PROVE Sound'
  <2>1. /\ Becomes(End(Now, i))
        /\ array' = array /\ bound' = bound /\ moved' = moved /\ stacked' = stacked /\ views' = views
    BY <1>2 DEF EndInteraction
  <2>2. /\ Wired(End(Now, i)) /\ DownHeard(End(Now, i)) /\ End(Now, i).focus = focus
        /\ End(Now, i).buttons = buttons /\ End(Now, i).heard = heard
    BY <1>1, EndOutcome
  <2> QED BY <2>1, <2>2, EndsSound
<1>3. ASSUME NEW w \in Windows, SetTiled(w) PROVE Sound'
  <2> DEFINE i == <<"move", w>>
             j == <<"resize", w>>
             t == End(Now, i)
             u == End(t, j)
  <2>1. /\ Becomes(u) /\ i \in Interactions /\ j \in Interactions /\ stacked' \subseteq stacked
        /\ array' = array /\ bound' = bound /\ moved' = moved /\ views' = views
    BY <1>3 DEF SetTiled, Interactions
  <2> HIDE DEF i, j
  <2>2. /\ Wired(t) /\ DownHeard(t) /\ t.focus = focus /\ t.buttons = buttons /\ t.heard = heard
    BY <1>1, <2>1, EndOutcome
  <2> HIDE DEF t
  <2>3. /\ Wired(u) /\ DownHeard(u) /\ u.focus = focus /\ u.buttons = buttons /\ u.heard = heard
    BY <1>1, <2>1, <2>2, EndOutcome
  <2> HIDE DEF u
  <2> QED BY <2>1, <2>3, EndsSound
<1> QED BY <1>2, <1>3

-----------------------------------------------------------------------------
(* Bindings that come and go *)

LEMMA ArraySound ==
  ASSUME Sound, UNCHANGED <<views, stacked, focus, bound, buttons, grabs, inter, select, cursor,
                            entered, down, heard>>,
         Places(array'), Placed(Now, array'), BindingsHear(Now, array', moved'), moved' \subseteq Bindings
  PROVE  Sound'
<1>1. Now' = Now
  BY DEF Now
<1>2. Wired(Now)'
  BY <1>1 DEF Sound
<1>3. DownHeard(Now)'
  BY <1>1 DEF Sound, DownHeard, Active
<1>4. Placed(Now, array)' /\ BindingsHear(Now, array, moved)'
  BY <1>1
<1> QED BY <1>2, <1>3, <1>4 DEF Sound

LEMMA AddBindingSound ==
  ASSUME Sound, NEW b \in Bindings, AddBinding(b)
  PROVE  Sound'
<1> DEFINE n == array.size + 1
           grows == n > Len(array.memory)
<1>0. /\ \A k \in 1..array.size : array.memory[k] # b
      /\ array' = [memory |-> IF grows THEN Append(array.memory, b)
                              ELSE [array.memory EXCEPT ![n] = b],
                   size |-> n]
      /\ moved' = moved \cup (IF grows THEN {} ELSE Moved(n, b))
      /\ UNCHANGED <<views, stacked, focus, bound, buttons, grabs, inter, select, cursor,
                     entered, down, heard>>
  BY DEF AddBinding
<1>1. /\ Places(array) /\ Placed(Now, array) /\ BindingsHear(Now, array, moved)
      /\ moved \subseteq Bindings /\ Wired(Now)
      /\ array.size \in Nat /\ array.memory \in Seq(Bindings) /\ array.size <= Len(array.memory)
      /\ Len(array.memory) \in Nat
  BY DEF Sound, Places
<1>2. n <= Cardinality(Bindings) /\ Cardinality(Bindings) \in Nat
  BY <1>0, <1>1, PlacesFit, BindingsFinite
<1>3. \A p \in buttons : p.slot # 0 <=> p.by = Bound
  BY <1>1 DEF Wired, ButtonTakers, Now
<1>4. CASE grows
  <2> DEFINE mem == Append(array.memory, b)
  <2>1. array' = [memory |-> mem, size |-> n] /\ moved' = moved /\ Len(array.memory) = array.size
    BY <1>0, <1>1, <1>4
  <2>2. /\ mem \in Seq(Bindings) /\ Len(mem) = n
        /\ \A k \in 1..array.size : mem[k] = array.memory[k]
        /\ mem[n] = b
    BY <1>1, <2>1
  <2> HIDE DEF mem
  <2>3. Places(array')
    <3>1. \A j, k \in 1..n : mem[j] = mem[k] => j = k
      BY <1>0, <1>1, <2>2 DEF Places
    <3> QED BY <1>1, <1>2, <2>1, <2>2, <3>1 DEF Places
  <2>4. Writes(Now, array, array', n, b)
    BY <1>1, <2>1, <2>2 DEF Writes
  <2>5. \A p \in Now.buttons : p.by = Bound => p.slot # n
    <3>1. n \notin DOMAIN array.memory
      BY <1>1, <1>4
    <3> QED BY <1>1, <3>1 DEF Placed
  <2>6. Placed(Now, array') /\ BindingsHear(Now, array', moved')
    <3>1. moved \subseteq moved'
      BY <2>1
    <3>2. ~ \E p \in Now.buttons : p.by = Bound /\ p.slot = n
      BY <2>5
    <3> QED BY <1>1, <2>4, <3>1, <3>2, WritesHear
  <2>7. moved' \subseteq Bindings
    BY <1>1, <2>1
  <2> QED BY <1>0, <2>3, <2>6, <2>7, ArraySound
<1>5. CASE ~grows
  <2> DEFINE mem == [array.memory EXCEPT ![n] = b]
  <2>1. array' = [memory |-> mem, size |-> n] /\ moved' = moved \cup Moved(n, b)
        /\ n \in 1..Len(array.memory)
    BY <1>0, <1>1, <1>5
  <2>2. /\ mem \in Seq(Bindings) /\ Len(mem) = Len(array.memory)
        /\ \A k \in 1..Len(array.memory) : mem[k] = IF k = n THEN b ELSE array.memory[k]
    BY <1>1, <2>1
  <2> HIDE DEF mem
  <2>3. Places(array')
    <3>1. \A j, k \in 1..n : mem[j] = mem[k] => j = k
      BY <1>0, <1>1, <2>1, <2>2 DEF Places
    <3> QED BY <1>1, <1>2, <2>1, <2>2, <3>1 DEF Places
  <2>4. Writes(Now, array, array', n, b)
    BY <1>1, <2>1, <2>2 DEF Writes
  <2>5. (\E p \in Now.buttons : p.by = Bound /\ p.slot = n) /\ array.memory[n] # b
          => array.memory[n] \in moved' /\ b \in moved'
    BY <2>1 DEF Moved, Now
  <2>6. Placed(Now, array') /\ BindingsHear(Now, array', moved')
    <3>1. moved \subseteq moved'
      BY <2>1
    <3> HIDE DEF n
    <3> QED BY <1>1, <2>4, <2>5, <3>1, WritesHear
  <2>7. moved' \subseteq Bindings
    BY <1>1, <2>1 DEF Moved
  <2> QED BY <1>0, <2>3, <2>6, <2>7, ArraySound
<1> QED BY <1>4, <1>5

LEMMA RemoveBindingSound ==
  ASSUME Sound, NEW b \in Bindings, RemoveBinding(b)
  PROVE  Sound'
<1> DEFINE k == Slot(ButtonOf[b])
           last == array.memory[array.size]
           mem == [array.memory EXCEPT ![k] = last]
<1>0. /\ \E j \in 1..array.size : array.memory[j] = b
      /\ array' = [memory |-> mem, size |-> array.size - 1]
      /\ moved' = moved \cup Moved(k, last)
      /\ UNCHANGED <<views, stacked, focus, bound, buttons, grabs, inter, select, cursor,
                     entered, down, heard>>
  BY DEF RemoveBinding
<1>1. /\ Places(array) /\ Placed(Now, array) /\ BindingsHear(Now, array, moved)
      /\ moved \subseteq Bindings
      /\ array.size \in Nat /\ array.memory \in Seq(Bindings) /\ array.size <= Len(array.memory)
      /\ Len(array.memory) \in Nat
  BY DEF Sound, Places
<1>2. k \in 1..array.size
  BY <1>0, <1>1 DEF Slot
<1> HIDE DEF k
<1>3. array.size \in 1..Len(array.memory) /\ last \in Bindings
  BY <1>1, <1>2
<1>4. /\ mem \in Seq(Bindings) /\ Len(mem) = Len(array.memory)
      /\ \A j \in 1..Len(array.memory) : mem[j] = IF j = k THEN last ELSE array.memory[j]
  BY <1>1, <1>2, <1>3
<1> HIDE DEF mem
<1>5. Places(array')
  <2>1. \A i, j \in 1..array.size - 1 : mem[i] = mem[j] => i = j
    BY <1>1, <1>3, <1>4 DEF Places
  <2>2. array.size - 1 \in Nat /\ array.size - 1 <= Len(mem) /\ Len(mem) <= Cardinality(Bindings)
    BY <1>1, <1>3, <1>4 DEF Places
  <2> QED BY <1>0, <1>4, <2>1, <2>2 DEF Places
<1>6. Writes(Now, array, array', k, last)
  BY <1>0, <1>1, <1>4 DEF Writes
<1>7. (\E p \in Now.buttons : p.by = Bound /\ p.slot = k) /\ array.memory[k] # last
        => array.memory[k] \in moved' /\ last \in moved'
  BY <1>0 DEF Moved, Now
<1>8. Placed(Now, array') /\ BindingsHear(Now, array', moved')
  <2>1. moved \subseteq moved'
    BY <1>0
  <2> HIDE DEF last
  <2> QED BY <1>1, <1>3, <1>6, <1>7, <2>1, WritesHear
<1>9. moved' \subseteq Bindings
  BY <1>0, <1>1, <1>2, <1>3 DEF Moved
<1> QED BY <1>0, <1>5, <1>8, <1>9, ArraySound

-----------------------------------------------------------------------------
(* Views and clients that come and go *)

LEMMA ViewSound ==
  ASSUME IInv, Sound, \/ \E v \in Views : OpenView(v) \/ CloseView(v)
                      \/ \E w \in Windows : SetStacked(w)
  PROVE  Sound'
<1>1. /\ Wired(Now) /\ Shape(Now) /\ DownHeard(Now) /\ SameHands(Now, Now)
      /\ bound \subseteq Clients /\ Now.focus \in Views \cup {None}
      /\ Now.focus = focus /\ Now.heard = heard
      /\ stacked \subseteq Windows /\ focus \in views \cup {None}
  BY DEF Sound, Wired, SameHands, IInv, Told, Typed, Now
<1>2. CASE (\E v \in Views : OpenView(v)) \/ (\E w \in Windows : SetStacked(w))
  <2>1. /\ UNCHANGED <<focus, bound, buttons, grabs, inter, select, array, cursor, entered, down,
                       heard, moved>>
        /\ views \subseteq views' /\ stacked' \subseteq Windows
    BY <1>1, <1>2 DEF OpenView, SetStacked
  <2>2. Becomes(Now)
    BY <2>1 DEF Becomes, Now
  <2> QED BY <1>1, <2>1, <2>2, SoundSame
<1>3. ASSUME NEW v \in Views, CloseView(v) PROVE Sound'
  <2>1. /\ views' = views \ {v} /\ Becomes(IF focus = v THEN Leave(Now) ELSE Now)
        /\ array' = array /\ bound' = bound /\ moved' = moved /\ stacked' = stacked
    BY <1>3 DEF CloseView
  <2>2. CASE focus = v
    <3>1. /\ Shape(Leave(Now)) /\ SameHands(Now, Leave(Now)) /\ Leave(Now).heard = heard
          /\ Leave(Now).focus = None /\ \A d \in Clients : Leave(Now).down[d] = {}
      BY <1>1, LeaveHands
    <3>2. DownHeard(Leave(Now))
      BY <3>1 DEF DownHeard
    <3> QED BY <1>1, <2>1, <2>2, <3>1, <3>2, SoundSame
  <2>3. CASE focus # v
    BY <1>1, <2>1, <2>3, SoundSame
  <2> QED BY <2>2, <2>3
<1> QED BY <1>2, <1>3

\* The clients that have the pointer are others.
LEMMA BoundSound ==
  ASSUME Sound, NEW t, Becomes(t), Shape(t), SameHands(Now, t), t.heard = heard, t.focus = focus,
         array' = array, moved' = moved, stacked' = stacked, views' = views,
         \A c \in Clients : \A v \in t.down[c] : v \in down[c] /\ (Active(focus) = c => Active(focus)' = c)
  PROVE  Sound'
<1>1. Wired(Now) /\ DownHeard(Now) /\ Now.down = down /\ Now.buttons = buttons /\ Now.focus = focus
  BY DEF Sound, Now
<1>2. Wired(t) /\ \A b \in buttons : Last(Chain(t, b.by)) = Last(Chain(Now, b.by))
  BY <1>1, SameHandsWired
<1>3. SameBound(Now, t) /\ t.buttons = buttons
  BY DEF SameHands, SameBound, Now
<1>4. Placed(t, array) /\ BindingsHear(t, array, moved)
  BY <1>3, SameBoundHear DEF Sound
<1>5. Now' = t
  BY NowBecomes DEF Shape
<1>6. \A c \in Clients : \A v \in t.down[c] :
        /\ c = Active(focus)'
        /\ \E b \in buttons : b.value = v /\ Last(Chain(t, b.by)) = Client
  BY <1>1, <1>2 DEF DownHeard
<1>7. Wired(Now)' /\ Placed(Now, array)' /\ BindingsHear(Now, array, moved)'
  BY <1>2, <1>4, <1>5
<1>8. DownHeard(Now)'
  <2>1. t.down = down' /\ buttons' = buttons /\ focus' = focus
    BY <1>3 DEF Becomes
  <2> QED BY <1>5, <1>6, <2>1 DEF DownHeard, Now
<1>9. focus' = focus
  BY DEF Becomes
<1> QED BY <1>7, <1>8, <1>9 DEF Sound

LEMMA BindSound ==
  ASSUME Sound, NEW c \in Clients, Bind(c)
  PROVE  Sound'
<1> DEFINE t == AddResource(Now, c)
<1>1. /\ Becomes(t) /\ bound' = bound \cup {c}
      /\ array' = array /\ moved' = moved /\ stacked' = stacked /\ views' = views
  BY DEF Bind
<1>2. Shape(t) /\ SameHands(Now, t) /\ t.heard = heard /\ t.focus = focus /\ t.down = down
  <2>1. Shape(Now) /\ Now.heard = heard /\ Now.focus = focus /\ Now.down = down
    BY DEF Sound, Wired, Now
  <2> QED BY <2>1, AddResourceHands
<1> HIDE DEF t
<1>3. focus' = focus
  BY <1>1, <1>2 DEF Becomes
<1>4. \A d \in Clients : Active(focus) = d => Active(focus)' = d
  BY <1>1, <1>3, PointerAssumption DEF Active
<1> QED BY <1>1, <1>2, <1>4, BoundSound

LEMMA UnbindSound ==
  ASSUME Sound, NEW c \in Clients, Unbind(c)
  PROVE  Sound'
<1> DEFINE t == [Now EXCEPT !.entered = [entered EXCEPT ![c] = None],
                            !.down = [down EXCEPT ![c] = {}]]
<1>1. /\ bound' = bound \ {c}
      /\ entered' = [entered EXCEPT ![c] = None] /\ down' = [down EXCEPT ![c] = {}]
      /\ UNCHANGED <<views, stacked, focus, buttons, grabs, inter, select, array, cursor, heard, moved>>
  BY DEF Unbind
<1>2. Shape(Now) /\ down \in [Clients -> SUBSET Buttons]
  BY DEF Sound, Wired, Shape, Now
<1>3. /\ t = [x \in Fields |-> t[x]] /\ t.focus = focus /\ t.heard = heard /\ t.cursor = cursor
      /\ t.buttons = buttons /\ t.inter = inter /\ t.grabs = grabs /\ t.select = select
      /\ t.down = [down EXCEPT ![c] = {}] /\ t.entered = [entered EXCEPT ![c] = None]
  BY DEF Now, Fields
<1> HIDE DEF t
<1>4. Becomes(t) /\ SameHands(Now, t)
  BY <1>1, <1>3 DEF Becomes, SameHands, Now
<1>5. t.down \in [Clients -> SUBSET Buttons]
  BY <1>2, <1>3
<1>6. Shape(t)
  BY <1>2, <1>3, <1>5 DEF Shape, Now
<1>7. \A d \in Clients : \A v \in t.down[d] : v \in down[d] /\ d # c
  BY <1>2, <1>3
<1>8. \A d \in Clients : d # c /\ Active(focus) = d => Active(focus)' = d
  BY <1>1, PointerAssumption DEF Active
<1> QED BY <1>1, <1>3, <1>4, <1>6, <1>7, <1>8, BoundSound

LEMMA CursorSound ==
  ASSUME Sound, NEW k, cursor' = k,
         UNCHANGED <<views, stacked, focus, bound, buttons, grabs, inter, select, array,
                     entered, down, heard, moved>>
  PROVE  Sound'
<1> DEFINE t == [Now EXCEPT !.cursor = k]
<1>1. /\ t = [x \in Fields |-> t[x]] /\ t.focus = focus /\ t.heard = heard /\ t.cursor = k
      /\ t.buttons = buttons /\ t.inter = inter /\ t.grabs = grabs /\ t.select = select
      /\ t.down = down /\ t.entered = entered
  BY DEF Now, Fields
<1> HIDE DEF t
<1>2. Becomes(t) /\ SameHands(Now, t)
  BY <1>1 DEF Becomes, SameHands, Now
<1>3. Shape(t)
  BY <1>1 DEF Sound, Wired, Shape, Now
<1>4. Active(focus)' = Active(focus)
  BY DEF Active
<1> QED BY <1>1, <1>2, <1>3, <1>4, BoundSound

LEMMA NextSound ==
  ASSUME Again = FALSE
  PROVE  IInv /\ Sound /\ [Next]_vars => Sound'
<1> SUFFICES ASSUME IInv, Sound, [Next]_vars PROVE Sound'
  OBVIOUS
<1>1. CASE \E v \in Buttons, u \in Views \cup {None}, m \in BOOLEAN : PressButton(v, u, m)
  BY <1>1, PressButtonSound
<1>2. CASE \E b \in buttons : ReleaseButton(b)
  BY <1>2, ReleaseButtonSound
<1>3. CASE \E u \in Views \cup {None} : Motion(u)
  BY <1>3, MotionSound
<1>4. CASE \E i \in Interactions : \/ \E b \in buttons : RequestInteraction(i, b)
                                   \/ BeginInteraction(i) \/ EndInteraction(i)
  BY <1>4, RequestSound, BeginSound, EndSound
<1>5. CASE \E w \in Windows : SetTiled(w) \/ SetStacked(w)
  BY <1>5, EndSound, ViewSound
<1>6. CASE Grab
  BY <1>6, GrabSound
<1>7. CASE \E b \in Bindings : AddBinding(b) \/ RemoveBinding(b)
  BY <1>7, AddBindingSound, RemoveBindingSound
<1>8. CASE \E v \in Views : OpenView(v) \/ CloseView(v)
  BY <1>8, ViewSound
<1>9. CASE \E c \in Clients : Bind(c) \/ Unbind(c)
  BY <1>9, BindSound, UnbindSound
<1>10. CASE (\E c \in Clients, s \in BOOLEAN : SetCursor(c, s)) \/ CursorSurfaceDestroy
  BY <1>10, CursorSound DEF SetCursor, CursorSurfaceDestroy
<1>11. CASE UNCHANGED vars
  BY <1>11, CursorSound DEF vars
<1> QED
  BY <1>1, <1>2, <1>3, <1>4, <1>5, <1>6, <1>7, <1>8, <1>9, <1>10, <1>11 DEF Next

\* Whatever interactions take a pressed button over, and however they end, a client
\* that was told of the press is told of the release or loses the pointer; and a
\* binding that was told of a press is told of the release while the array of
\* bindings changes, unless its own place in it changed under the press
\* (pointer.c 877-925, window.c 152-196, 805-819; bindings.c 142-165, 233-290).
THEOREM ReleasesReach == ASSUME Again = FALSE PROVE Spec => []ReleasesAreHeard
<1>1. IInv /\ Sound /\ [Next]_vars => IInv' /\ Sound'
  BY NextIInv, NextSound
<1>2. Init => IInv /\ Sound
  BY InitIInv, InitSound
<1>3. IInv /\ Sound => ReleasesAreHeard
  BY SoundSuffices
<1> QED BY <1>1, <1>2, <1>3, PTL DEF Spec

\* An interaction that took a press over is in front as long as the button is held,
\* and the release of that button runs through it: none is left behind when the
\* buttons are up (window.c 152-196, select.c 57-75).
THEOREM GrabsDoEnd == ASSUME Again = FALSE PROVE Spec => []GrabsEnd
<1>1. IInv /\ Sound /\ [Next]_vars => IInv' /\ Sound'
  BY NextIInv, NextSound
<1>2. Init => IInv /\ Sound
  BY InitIInv, InitSound
<1>3. IInv /\ Sound => GrabsEnd
  BY SoundSuffices
<1> QED BY <1>1, <1>2, <1>3, PTL DEF Spec

=============================================================================
