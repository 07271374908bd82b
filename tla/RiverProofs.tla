---------------------------- MODULE RiverProofs ----------------------------
(***************************************************************************)
(* What the window manager protocol keeps (wm/river_wm.c), for any keys,   *)
(* windows, clients and surfaces.  First the keys: releases find who took  *)
(* the press, the client is told of every release of a key it was given,   *)
(* no binding is left held by a key that is up, and the manager hears what *)
(* is held.  Then the objects: no user data dangle, and the manager        *)
(* believes what is true.                                                  *)
(***************************************************************************)
EXTENDS KeyBindings, RiverObjects, WellFoundedInduction, TLAPS

-----------------------------------------------------------------------------
(* Keys and key bindings.                                                  *)

\* The parts of the type invariant the argument rests on.
Routing ==
    /\ handler \in [Keys -> Takers \cup {"up"}]
    /\ held \in [Bindings -> Keys \cup {NoKey}]

KeysInv == Routing /\ ClientKeysMatch /\ HeldIsPressed

-----------------------------------------------------------------------------
\* A press is always taken: by the client if by nobody else.
LEMMA SomebodyTakes == ASSUME NEW k \in Keys PROVE Taker(k) \in Takers
  BY DEF Taker, Takers

\* A step that leaves the keys, their handlers and the held bindings alone.
LEMMA Untouched ==
    ASSUME KeysInv, UNCHANGED <<handler, clientKeys, held, modifiers, clientVars>>
    PROVE  KeysInv'
  BY DEF KeysInv, Routing, ClientKeysMatch, HeldIsPressed, Taken, clientVars

\* A step that lets go of bindings, and leaves the keys and their handlers alone.
LEMMA Dropped ==
    ASSUME KeysInv, NEW bindings, UNCHANGED <<handler, clientKeys, modifiers, clientVars>>,
           held' = [b \in Bindings |-> IF b \in bindings THEN NoKey ELSE held[b]]
    PROVE  KeysInv'
  BY DEF KeysInv, Routing, ClientKeysMatch, HeldIsPressed, Taken, clientVars

\* A client with the focus hears of each change of the modifiers.
LEMMA ModifiersAreTold ==
    ASSUME focused => heardMods = modifiers \/ modifiers = {},
           focused' = focused, NEW mods, NEW events, UpdateModifiers(mods, events)
    PROVE  focused' => heardMods' = modifiers' \/ modifiers' = {}
  BY DEF UpdateModifiers, TellModifiers

\* A press: the key was up, so it held nothing and the client did not have it.
LEMMA PressRoutes == ASSUME KeysInv, NEW k \in Keys, Press(k) PROVE KeysInv'
<1> DEFINE taker == Taker(k)
           match == IF installed /\ taker # "swc" THEN Match(k) ELSE NoBinding
           given == IF taker = "client" THEN {k} ELSE {}
<1>1. /\ handler[k] = "up"
      /\ handler' = [handler EXCEPT ![k] = taker]
      /\ clientKeys' = clientKeys \cup given
      /\ heardKeys' = IF focused THEN heardKeys \cup given ELSE heardKeys
      /\ focused' = focused
      /\ held' = IF match = NoBinding THEN held ELSE [held EXCEPT ![match] = k]
  BY DEF Press
<1>2. taker \in Takers  BY SomebodyTakes
<1>3. match # NoBinding => taker = "observer"
  BY DEF Taker
<1>8. focused' => heardMods' = modifiers' \/ modifiers' = {}
  BY <1>1, ModifiersAreTold DEF Press, KeysInv, ClientKeysMatch
<1> HIDE DEF taker, match
<1>4. Routing'  BY <1>1, <1>2 DEF KeysInv, Routing, Takers
<1>5. ClientKeysMatch'
  <2>1. clientKeys' = Taken("client")'
    BY <1>1, <1>2 DEF KeysInv, Routing, ClientKeysMatch, Taken, Takers
  <2> QED  BY <2>1, <1>1, <1>8 DEF KeysInv, ClientKeysMatch
<1>6. \A b \in Bindings : held[b] # k
  BY <1>1, KeysAssumption DEF KeysInv, Routing, HeldIsPressed
<1>7. HeldIsPressed'
  <2> SUFFICES ASSUME NEW b \in Bindings, held'[b] # NoKey
               PROVE  /\ handler'[held'[b]] = "observer"
                      /\ \A c \in Bindings \ {b} : held'[c] # held'[b]
    BY DEF HeldIsPressed
  <2>1. CASE match = NoBinding
    BY <2>1, <1>1, <1>6 DEF KeysInv, Routing, HeldIsPressed
  <2>2. CASE match # NoBinding
    BY <2>2, <1>1, <1>3, <1>6 DEF KeysInv, Routing, HeldIsPressed
  <2> QED  BY <2>1, <2>2
<1> QED  BY <1>4, <1>5, <1>7 DEF KeysInv

\* What the handlers let go of: the keys that are up now are neither the client's
\* nor hold a binding.
LEMMA LetGoRoutes ==
    ASSUME KeysInv, NEW up \in SUBSET Keys,
           handler' = [k \in Keys |-> IF k \in up THEN "up" ELSE handler[k]],
           LetGo(up \cap Taken("observer"), up \cap Taken("client")),
           focused' = focused, focused' => heardMods' = modifiers' \/ modifiers' = {}
    PROVE  KeysInv'
<1> USE DEF LetGo, ObserverLetsGo, ClientLetsGo
<1>1. Routing'  BY DEF KeysInv, Routing
<1>2. ClientKeysMatch'
  BY DEF KeysInv, Routing, ClientKeysMatch, Taken
<1>3. HeldIsPressed'
  <2> SUFFICES ASSUME NEW b \in Bindings, held'[b] # NoKey
               PROVE  /\ handler'[held'[b]] = "observer"
                      /\ \A c \in Bindings \ {b} : held'[c] # held'[b]
    BY DEF HeldIsPressed
  <2>1. held'[b] = held[b] /\ held[b] \notin up \cap Taken("observer")
    OBVIOUS
  <2>2. held[b] \in Keys /\ handler[held[b]] = "observer"
    BY <2>1 DEF KeysInv, Routing, HeldIsPressed
  <2>3. held[b] \notin up
    BY <2>1, <2>2 DEF Taken
  <2>4. \A c \in Bindings : held'[c] \in {NoKey, held[c]}
    OBVIOUS
  <2> QED  BY <2>1, <2>2, <2>3, <2>4 DEF KeysInv, HeldIsPressed
<1> QED  BY <1>1, <1>2, <1>3 DEF KeysInv

LEMMA ReleaseRoutes == ASSUME KeysInv, NEW k \in Keys, Release(k) PROVE KeysInv'
<1>1. handler' = [j \in Keys |-> IF j \in {k} THEN "up" ELSE handler[j]]
  BY DEF Release, KeysInv, Routing
<1>2. LetGo({k} \cap Taken("observer"), {k} \cap Taken("client"))
  BY DEF Release
<1>3. focused' = focused /\ (focused' => heardMods' = modifiers' \/ modifiers' = {})
  BY ModifiersAreTold DEF Release, KeysInv, ClientKeysMatch
<1> QED  BY <1>1, <1>2, <1>3, LetGoRoutes

LEMMA ResetRoutes == ASSUME KeysInv, Reset PROVE KeysInv'
<1>1. handler' = [j \in Keys |-> IF j \in Keys THEN "up" ELSE handler[j]]
  BY DEF Reset
<1>2. LetGo(Keys \cap Taken("observer"), Keys \cap Taken("client"))
  <2>1. Keys \cap Taken("observer") = Taken("observer")  BY DEF Taken
  <2>2. Keys \cap Taken("client") = Taken("client")  BY DEF Taken
  <2> QED  BY <2>1, <2>2 DEF Reset
<1>3. focused' = focused /\ modifiers' = {}  BY DEF Reset
<1> QED  BY <1>1, <1>2, <1>3, LetGoRoutes

\* A client that gets the focus is told the keys of the clients, and one that loses
\* it believes nothing.
LEMMA FocusRoutes == ASSUME KeysInv, Enter \/ Leave PROVE KeysInv'
  BY DEF KeysInv, Routing, ClientKeysMatch, HeldIsPressed, Taken, Enter, Leave, bindingVars

-----------------------------------------------------------------------------
\* Nothing is pressed and nothing held at first.
LEMMA InitRoutes == KeysInit => KeysInv
  BY KeysAssumption
  DEF KeysInit, KeysInv, Routing, ClientKeysMatch, HeldIsPressed, Taken, Takers

\* Every step of the keyboard and of the window manager keeps the routing.
LEMMA NextRoutes == KeysInv /\ [KeysNext]_keysVars => KeysInv'
<1> SUFFICES ASSUME KeysInv, [KeysNext]_keysVars PROVE KeysInv'
  OBVIOUS
<1>1. ASSUME NEW k \in Keys, Press(k) PROVE KeysInv'  BY <1>1, PressRoutes
<1>2. ASSUME NEW k \in Keys, Release(k) PROVE KeysInv'  BY <1>2, ReleaseRoutes
<1>3. CASE Reset  BY <1>3, ResetRoutes
<1>4. CASE Connect  BY <1>4, Untouched DEF Connect, keyboardVars, bindingVars
<1>5. CASE Disconnect
  BY <1>5, Dropped DEF Disconnect, DestroyBindings, keyboardVars
<1>6. CASE Flush  BY <1>6, Untouched DEF Flush, keyboardVars, bindingVars
<1>7. ASSUME NEW b \in Bindings, GetXkbBinding(b) PROVE KeysInv'
  BY <1>7, Untouched DEF GetXkbBinding, keyboardVars
<1>8. ASSUME NEW b \in Bindings, Enable(b) PROVE KeysInv'
  BY <1>8, Untouched DEF Enable, keyboardVars
<1>9. ASSUME NEW b \in Bindings, Disable(b) PROVE KeysInv'
  BY <1>9, Untouched DEF Disable, keyboardVars
<1>10. ASSUME NEW b \in Bindings, DestroyBinding(b) PROVE KeysInv'
  BY <1>10, Dropped DEF DestroyBinding, DestroyBindings, keyboardVars
<1>11. CASE GetSeat  BY <1>11, Untouched DEF GetSeat, keyboardVars, bindingVars
<1>12. CASE DestroySeat  BY <1>12, Untouched DEF DestroySeat, keyboardVars, bindingVars
<1>13. ASSUME NEW eat \in BOOLEAN, EnsureNextKeyEaten(eat) PROVE KeysInv'
  BY <1>13, Untouched DEF EnsureNextKeyEaten, keyboardVars, bindingVars
<1>14. ASSUME NEW mods \in SUBSET ModKeys, ModifiersWatch(mods) PROVE KeysInv'
  BY <1>14, Untouched DEF ModifiersWatch, keyboardVars, bindingVars
<1>15. CASE UNCHANGED keysVars
  BY <1>15, Untouched DEF keysVars, keyboardVars, bindingVars
<1>16. CASE Enter \/ Leave  BY <1>16, FocusRoutes
<1> QED
  BY <1>1, <1>2, <1>3, <1>4, <1>5, <1>6, <1>7, <1>8, <1>9, <1>10, <1>11, <1>12,
     <1>13, <1>14, <1>15, <1>16 DEF KeysNext

\* The inductive invariant (keyboard.c 562-598, 652-696; river_wm.c 899-957).
THEOREM KeysInvariance == KeysSpec => []KeysInv
<1> QED  BY InitRoutes, NextRoutes, PTL DEF KeysSpec

\* The client is told of every release of a key it was given: the keys it has are
\* those whose press it took, and one that has the focus believes these down, for
\* any keys and bindings (keyboard.c 53-89, 337-388).
THEOREM ClientHearsReleases == KeysSpec => []ClientKeysMatch
<1>1. KeysInv => ClientKeysMatch  BY DEF KeysInv
<1> QED  BY <1>1, KeysInvariance, PTL

\* No binding is held by a key that is up or that somebody else took, and no two by
\* one key, so that every release ends what its press began (river_wm.c 899-957).
THEOREM ReleasesFindTheirBinding == KeysSpec => []HeldIsPressed
<1>1. KeysInv => HeldIsPressed  BY DEF KeysInv
<1> QED  BY <1>1, KeysInvariance, PTL

-----------------------------------------------------------------------------
(* Lists: what one pass over a list finds, and what stands at its end.     *)

\* What holds of 0 and passes from each number to the next holds up to any bound.
LEMMA UpTo ==
  ASSUME NEW n \in Nat, NEW T, 0 \in T, \A m \in 0..n : m \in T /\ m < n => m + 1 \in T
  PROVE  0..n \subseteq T
<1> DEFINE U == {m \in 0..n : m \notin T}
<1> SUFFICES ASSUME U # {} PROVE FALSE
  OBVIOUS
<1>1. U \in SUBSET Nat
  OBVIOUS
<1>2. PICK m \in U : \A k \in U : <<k, m>> \notin OpToRel(<, Nat)
  <2> HIDE DEF U
  <2> QED BY <1>1, WFMin, NatLessThanWellFounded
<1>3. m \in Nat /\ m \in 0..n /\ m \notin T /\ m # 0
  OBVIOUS
<1>4. m - 1 \in 0..n /\ m - 1 < n /\ (m - 1) + 1 = m
  BY <1>3
<1>5. m - 1 \notin T
  BY <1>3, <1>4
<1>6. m - 1 \in U /\ m - 1 \in Nat /\ m - 1 < m
  BY <1>4, <1>5
<1>7. <<m - 1, m>> \in OpToRel(<, Nat)
  BY <1>3, <1>6 DEF OpToRel
<1> QED BY <1>2, <1>6, <1>7

\* One more entry met.
Met(s, S, q, n) == IF s[n] \in S THEN Append(q, s[n]) ELSE q

\* The passes over the first 0, 1, ... n entries.
Passed(met, s, S, n) == met = [m \in 0..n |-> IF m = 0 THEN <<>> ELSE Met(s, S, met[m - 1], m)]

\* The passes over longer and longer parts of a list, as a function of the length.
LEMMA PassExists ==
  ASSUME NEW s, NEW S, NEW n \in Nat
  PROVE  \E met : Passed(met, s, S, n)
<1> DEFINE T == {m \in 0..n : \E met : Passed(met, s, S, m)}
<1>1. 0 \in T
  <2> DEFINE c == [k \in 0..0 |-> <<>>]
  <2>1. Passed(c, s, S, 0)
    BY DEF Passed
  <2> QED BY <2>1
<1>2. ASSUME NEW m \in 0..n, m \in T, m < n PROVE m + 1 \in T
  <2>1. PICK c : Passed(c, s, S, m)
    BY <1>2
  <2> DEFINE d == [k \in 0..m + 1 |-> IF k = m + 1 THEN Met(s, S, c[m], m + 1) ELSE c[k]]
  <2>2. \A k \in 0..m : c[k] = IF k = 0 THEN <<>> ELSE Met(s, S, c[k - 1], k)
    BY <2>1 DEF Passed
  <2>3. d[m + 1] = Met(s, S, c[m], m + 1) /\ (\A k \in 0..m : d[k] = c[k])
        /\ d = [k \in 0..m + 1 |-> d[k]]
    BY <1>2
  <2> HIDE DEF d
  <2>4. ASSUME NEW k \in 0..m + 1
        PROVE  d[k] = IF k = 0 THEN <<>> ELSE Met(s, S, d[k - 1], k)
    <3>1. CASE k = m + 1
      <4>1. k # 0 /\ k - 1 = m /\ m \in 0..m
        BY <1>2, <3>1
      <4> QED BY <2>3, <3>1, <4>1
    <3>2. CASE k # m + 1
      <4>1. k \in 0..m /\ (k # 0 => k - 1 \in 0..m)
        BY <1>2, <3>2
      <4> QED BY <2>2, <2>3, <4>1
    <3> QED BY <3>1, <3>2
  <2>5. d = [k \in 0..m + 1 |-> IF k = 0 THEN <<>> ELSE Met(s, S, d[k - 1], k)]
    BY <2>3, <2>4
  <2>6. Passed(d, s, S, m + 1) /\ m + 1 \in 0..n
    BY <1>2, <2>5 DEF Passed
  <2> QED BY <2>6
<1> HIDE DEF T
<1>3. n \in T
  BY <1>1, <1>2, UpTo
<1> QED BY <1>3 DEF T

\* Among is where the last of them ends.
LEMMA AmongIsPassed ==
  ASSUME NEW s, NEW S, Len(s) \in Nat
  PROVE  \E met : Passed(met, s, S, Len(s)) /\ Among(s, S) = met[Len(s)]
<1> DEFINE met == CHOOSE met : Passed(met, s, S, Len(s))
<1>1. Passed(met, s, S, Len(s))
  BY PassExists
<1>2. Among(s, S) = met[Len(s)]
  BY DEF Among, Passed, Met
<1> QED BY <1>1, <1>2

\* What is in a list.
Listed(s) == {s[i] : i \in 1..Len(s)}

NoTwice(s) == \A i, j \in 1..Len(s) : i # j => s[i] # s[j]

\* One of p is in the list and no r after it.
Stands(s, n, p, r) == \E i \in 1..n : s[i] = p /\ \A j \in i + 1..n : s[j] # r

\* One more at the end.
LEMMA StandsAppended ==
  ASSUME NEW A, NEW s \in Seq(A), NEW e \in A, NEW p, NEW r
  PROVE  Stands(Append(s, e), Len(s) + 1, p, r)
         <=> e = p \/ (e # r /\ Stands(s, Len(s), p, r))
<1> DEFINE t == Append(s, e)
<1>1. Len(s) \in Nat /\ t[Len(s) + 1] = e /\ \A i \in 1..Len(s) : t[i] = s[i]
  OBVIOUS
<1> HIDE DEF t
<1>2. ASSUME Stands(t, Len(s) + 1, p, r) PROVE e = p \/ (e # r /\ Stands(s, Len(s), p, r))
  <2>1. PICK i \in 1..Len(s) + 1 : t[i] = p /\ \A j \in i + 1..Len(s) + 1 : t[j] # r
    BY <1>2 DEF Stands
  <2> QED BY <2>1, <1>1 DEF Stands
<1>3. ASSUME e = p PROVE Stands(t, Len(s) + 1, p, r)
  BY <1>1, <1>3 DEF Stands
<1>4. ASSUME e # r, Stands(s, Len(s), p, r) PROVE Stands(t, Len(s) + 1, p, r)
  <2>1. PICK i \in 1..Len(s) : s[i] = p /\ \A j \in i + 1..Len(s) : s[j] # r
    BY <1>4 DEF Stands
  <2> QED BY <2>1, <1>1, <1>4 DEF Stands
<1> QED BY <1>2, <1>3, <1>4 DEF t

\* One further in the same list.
LEMMA StandsFurther ==
  ASSUME NEW s, NEW n \in Nat, NEW p, NEW r
  PROVE  Stands(s, n + 1, p, r) <=> s[n + 1] = p \/ (s[n + 1] # r /\ Stands(s, n, p, r))
<1>2. ASSUME Stands(s, n + 1, p, r) PROVE s[n + 1] = p \/ (s[n + 1] # r /\ Stands(s, n, p, r))
  BY <1>2 DEF Stands
<1>3. ASSUME s[n + 1] = p PROVE Stands(s, n + 1, p, r)
  BY <1>3 DEF Stands
<1>4. ASSUME s[n + 1] # r, Stands(s, n, p, r) PROVE Stands(s, n + 1, p, r)
  BY <1>4 DEF Stands
<1> QED BY <1>2, <1>3, <1>4

\* What a pass over a list has found after n of its entries.
Found(q, s, S, A, n) ==
    /\ q \in Seq(A)
    /\ Listed(q) = {s[i] : i \in 1..n} \cap S
    /\ NoTwice(s) => NoTwice(q)
    /\ \A p, r \in S : Stands(q, Len(q), p, r) <=> Stands(s, n, p, r)

\* The next entry is kept or passed over.
LEMMA FoundMore ==
  ASSUME NEW A, NEW s \in Seq(A), NEW S, NEW n \in Nat, n < Len(s), NEW q, Found(q, s, S, A, n)
  PROVE  Found(Met(s, S, q, n + 1), s, S, A, n + 1)
<1>1. n + 1 \in 1..Len(s) /\ s[n + 1] \in A /\ Len(s) \in Nat
  OBVIOUS
<1>2. {s[i] : i \in 1..n + 1} = {s[i] : i \in 1..n} \cup {s[n + 1]}
  OBVIOUS
<1>3. CASE s[n + 1] \notin S
  <2>1. Met(s, S, q, n + 1) = q
    BY <1>3 DEF Met
  <2>2. \A p, r \in S : Stands(s, n + 1, p, r) <=> Stands(s, n, p, r)
    BY <1>3, StandsFurther
  <2> QED BY <1>2, <1>3, <2>1, <2>2 DEF Found
<1>4. CASE s[n + 1] \in S
  <2> DEFINE e == s[n + 1]
             t == Append(q, e)
  <2>1. Met(s, S, q, n + 1) = t /\ q \in Seq(A) /\ e \in A
    BY <1>1, <1>4 DEF Met, Found
  <2>2. /\ t \in Seq(A) /\ Len(q) \in Nat /\ Len(t) = Len(q) + 1 /\ t[Len(q) + 1] = e
        /\ \A i \in 1..Len(q) : t[i] = q[i]
    BY <2>1
  <2>6. \A p, r : Stands(t, Len(q) + 1, p, r) <=> e = p \/ (e # r /\ Stands(q, Len(q), p, r))
    BY <2>1, StandsAppended
  <2> HIDE DEF t
  <2>3. Listed(t) = Listed(q) \cup {e}
    BY <2>2, SMTT(30) DEF Listed
  <2>4. ASSUME NoTwice(s) PROVE NoTwice(t)
    <3>1. e \notin {s[i] : i \in 1..n}
      BY <1>1, <2>4 DEF NoTwice
    <3>2. \A i \in 1..Len(q) : q[i] # e
      BY <3>1 DEF Found, Listed
    <3>3. NoTwice(q)
      BY <2>4 DEF Found
    <3> QED BY <2>2, <3>2, <3>3 DEF NoTwice
  <2>5. ASSUME NEW p \in S, NEW r \in S
        PROVE  Stands(t, Len(t), p, r) <=> Stands(s, n + 1, p, r)
    BY <2>2, <2>6, StandsFurther DEF Found
  <2> QED BY <1>2, <1>4, <2>1, <2>2, <2>3, <2>4, <2>5 DEF Found
<1> QED BY <1>3, <1>4

\* What Among finds: the entries that are in S, none twice if none was, and of two
\* that are in S the later is still the later.
LEMMA AmongIs ==
  ASSUME NEW A, NEW s \in Seq(A), NEW S
  PROVE  Found(Among(s, S), s, S, A, Len(s))
<1>0. Len(s) \in Nat
  OBVIOUS
<1>1. PICK met : Passed(met, s, S, Len(s)) /\ Among(s, S) = met[Len(s)]
  BY <1>0, AmongIsPassed
<1>2. \A m \in 0..Len(s) : met[m] = IF m = 0 THEN <<>> ELSE Met(s, S, met[m - 1], m)
  BY <1>1 DEF Passed
<1> DEFINE T == {m \in 0..Len(s) : Found(met[m], s, S, A, m)}
<1>3. 0 \in T
  <2>1. met[0] = <<>>
    BY <1>0, <1>2
  <2>2. <<>> \in Seq(A) /\ Len(<<>>) = 0 /\ 1..0 = {}
    OBVIOUS
  <2> HIDE DEF T
  <2>3. Found(<<>>, s, S, A, 0)
    BY <2>2 DEF Found, Listed, NoTwice, Stands
  <2> QED BY <1>0, <2>1, <2>3 DEF T
<1>4. ASSUME NEW m \in 0..Len(s), m \in T, m < Len(s) PROVE m + 1 \in T
  <2>1. m \in Nat /\ m + 1 \in 0..Len(s) /\ m + 1 # 0 /\ (m + 1) - 1 = m
    BY <1>0, <1>4
  <2>2. met[m + 1] = Met(s, S, met[m], m + 1)
    BY <1>2, <2>1
  <2>3. Found(met[m], s, S, A, m)
    BY <1>4
  <2>4. Found(Met(s, S, met[m], m + 1), s, S, A, m + 1)
    BY <1>4, <2>1, <2>3, FoundMore
  <2> QED BY <2>1, <2>2, <2>4
<1> HIDE DEF T
<1>5. 0..Len(s) \subseteq T
  BY <1>0, <1>3, <1>4, UpTo
<1>6. Len(s) \in T
  BY <1>0, <1>5
<1> QED BY <1>1, <1>6 DEF T

-----------------------------------------------------------------------------
(* The events queued for the manager, and what they leave it believing.    *)

\* The two events that say whether a binding is pressed.
PressOf(b) == [kind |-> "pressed", binding |-> b]
ReleaseOf(b) == [kind |-> "released", binding |-> b]

\* A binding was said to be pressed in the list, or before it.
LEMMA SaidPressedIs ==
  ASSUME NEW A, NEW s \in Seq(A), NEW B, NEW b
  PROVE  SaidPressed(B, s, b)
         <=> \/ Stands(s, Len(s), PressOf(b), ReleaseOf(b))
             \/ b \in B /\ ReleaseOf(b) \notin Listed(s)
<1>1. Len(s) \in Nat
  OBVIOUS
<1>2. ASSUME SaidPressed(B, s, b), ~Stands(s, Len(s), PressOf(b), ReleaseOf(b))
      PROVE  b \in B /\ ReleaseOf(b) \notin Listed(s)
  <2>1. PICK i \in 0..Len(s) :
          /\ IF i = 0 THEN b \in B ELSE s[i] = PressOf(b)
          /\ \A j \in i + 1..Len(s) : s[j] # ReleaseOf(b)
    BY <1>2 DEF SaidPressed, PressOf, ReleaseOf
  <2>2. i = 0
    BY <1>1, <1>2, <2>1 DEF Stands
  <2> QED BY <1>1, <2>1, <2>2 DEF Listed
<1>3. ASSUME Stands(s, Len(s), PressOf(b), ReleaseOf(b)) PROVE SaidPressed(B, s, b)
  <2>1. PICK i \in 1..Len(s) : s[i] = PressOf(b) /\ \A j \in i + 1..Len(s) : s[j] # ReleaseOf(b)
    BY <1>3 DEF Stands
  <2>2. i \in 0..Len(s) /\ i # 0
    BY <1>1, <2>1
  <2> QED BY <2>1, <2>2 DEF SaidPressed, PressOf, ReleaseOf
<1>4. ASSUME b \in B, ReleaseOf(b) \notin Listed(s) PROVE SaidPressed(B, s, b)
  <2>1. 0 \in 0..Len(s) /\ 0 + 1..Len(s) = 1..Len(s)
    BY <1>1
  <2>2. \A j \in 0 + 1..Len(s) : s[j] # ReleaseOf(b)
    BY <1>4, <2>1 DEF Listed
  <2> QED BY <1>4, <2>1, <2>2 DEF SaidPressed, ReleaseOf
<1> QED BY <1>2, <1>3, <1>4

\* Two lists, one after the other: what the second says counts.
LEMMA Joined ==
  ASSUME NEW A, NEW s \in Seq(A), NEW e \in Seq(A)
  PROVE  /\ s \o e \in Seq(A)
         /\ Listed(s \o e) = Listed(s) \cup Listed(e)
         /\ \A p, r : p # r /\ r \notin Listed(e) =>
              (Stands(s \o e, Len(s \o e), p, r)
               <=> p \in Listed(e) \/ Stands(s, Len(s), p, r))
         /\ \A p, r : p # r /\ r \in Listed(e) /\ p \notin Listed(e) =>
              ~Stands(s \o e, Len(s \o e), p, r)
<1> DEFINE t == s \o e
           n == Len(s)
           k == Len(e)
<1>1. /\ n \in Nat /\ k \in Nat /\ t \in Seq(A) /\ Len(t) = n + k
      /\ \A i \in 1..n : t[i] = s[i]
      /\ \A i \in 1..k : t[n + i] = e[i]
  OBVIOUS
<1> HIDE DEF t
<1>2. \A i \in 1..n + k : i \in 1..n \/ (i - n \in 1..k /\ t[i] = e[i - n])
  <2> SUFFICES ASSUME NEW i \in 1..n + k, i \notin 1..n
               PROVE i - n \in 1..k /\ t[i] = e[i - n]
    OBVIOUS
  <2>1. i - n \in 1..k /\ n + (i - n) = i
    BY <1>1
  <2>2. t[n + (i - n)] = e[i - n]
    BY <1>1, <2>1
  <2> QED BY <2>1, <2>2
<1>3. \A i \in 1..k : n + i \in 1..n + k
  BY <1>1
<1>0. 1..n \subseteq 1..n + k
  BY <1>1
<1>4. Listed(t) = Listed(s) \cup Listed(e)
  <2>1. Listed(t) \subseteq Listed(s) \cup Listed(e)
    BY <1>1, <1>2 DEF Listed
  <2>2. Listed(s) \subseteq Listed(t)
    BY <1>0, <1>1 DEF Listed
  <2>3. Listed(e) \subseteq Listed(t)
    BY <1>1, <1>3 DEF Listed
  <2> QED BY <2>1, <2>2, <2>3
<1>5. ASSUME NEW p, NEW r, p # r, r \notin Listed(e), Stands(t, Len(t), p, r), p \notin Listed(e)
      PROVE  Stands(s, n, p, r)
  <2>1. PICK i \in 1..n + k : t[i] = p /\ \A j \in i + 1..n + k : t[j] # r
    BY <1>1, <1>5 DEF Stands
  <2>2. i \in 1..n
    BY <1>2, <1>5, <2>1 DEF Listed
  <2>3. \A j \in i + 1..n : j \in i + 1..n + k /\ j \in 1..n
    BY <1>1, <2>2
  <2> QED BY <1>1, <2>1, <2>2, <2>3 DEF Stands
<1>6. ASSUME NEW p, NEW r, r \notin Listed(e), Stands(s, n, p, r)
      PROVE  Stands(t, Len(t), p, r)
  <2>1. PICK i \in 1..n : s[i] = p /\ \A j \in i + 1..n : s[j] # r
    BY <1>6 DEF Stands
  <2>2. ASSUME NEW j \in i + 1..n + k PROVE t[j] # r
    <3>1. j \in 1..n + k /\ (j \in 1..n => j \in i + 1..n)
      BY <1>1, <2>1, <2>2
    <3> QED BY <1>1, <1>2, <1>6, <2>1, <3>1 DEF Listed
  <2>3. i \in 1..n + k
    BY <1>0
  <2> QED BY <1>1, <2>1, <2>2, <2>3 DEF Stands
<1>7. ASSUME NEW p, NEW r, r \notin Listed(e), p \in Listed(e)
      PROVE  Stands(t, Len(t), p, r)
  <2>1. PICK i \in 1..k : e[i] = p
    BY <1>7 DEF Listed
  <2>2. ASSUME NEW j \in (n + i) + 1..n + k PROVE t[j] # r
    <3>1. j \in 1..n + k /\ j \notin 1..n
      BY <1>1, <2>1, <2>2
    <3> QED BY <1>2, <1>7, <3>1 DEF Listed
  <2> QED BY <1>1, <1>3, <2>1, <2>2 DEF Stands
<1>8. ASSUME NEW p, NEW r, p # r, r \in Listed(e), p \notin Listed(e), Stands(t, Len(t), p, r)
      PROVE  FALSE
  <2>1. PICK i \in 1..n + k : t[i] = p /\ \A j \in i + 1..n + k : t[j] # r
    BY <1>1, <1>8 DEF Stands
  <2>2. PICK l \in 1..k : e[l] = r
    BY <1>8 DEF Listed
  <2>3. i \in 1..n
    BY <1>2, <1>8, <2>1 DEF Listed
  <2>4. n + l \in i + 1..n + k
    BY <1>1, <2>2, <2>3
  <2> QED BY <1>1, <2>1, <2>2, <2>4
<1>9. \A p, r : p # r /\ r \notin Listed(e) =>
              (Stands(t, Len(t), p, r) <=> p \in Listed(e) \/ Stands(s, n, p, r))
  BY <1>5, <1>6, <1>7
<1>10. \A p, r : p # r /\ r \in Listed(e) /\ p \notin Listed(e) => ~Stands(t, Len(t), p, r)
  BY <1>8
<1> QED BY <1>1, <1>4, <1>9, <1>10 DEF t

\* What is queued last counts.
LEMMA SaidLast ==
  ASSUME NEW A, NEW s \in Seq(A), NEW e \in Seq(A), NEW B, NEW b
  PROVE  /\ ReleaseOf(b) \notin Listed(e) /\ PressOf(b) \notin Listed(e) =>
              (SaidPressed(B, s \o e, b) <=> SaidPressed(B, s, b))
         /\ ReleaseOf(b) \notin Listed(e) /\ PressOf(b) \in Listed(e) =>
              SaidPressed(B, s \o e, b)
         /\ ReleaseOf(b) \in Listed(e) /\ PressOf(b) \notin Listed(e) =>
              ~SaidPressed(B, s \o e, b)
<1>1. PressOf(b) # ReleaseOf(b)
  BY DEF PressOf, ReleaseOf
<1>2. s \o e \in Seq(A)
  BY Joined
<1>3. SaidPressed(B, s \o e, b)
         <=> \/ Stands(s \o e, Len(s \o e), PressOf(b), ReleaseOf(b))
             \/ b \in B /\ ReleaseOf(b) \notin Listed(s \o e)
  BY <1>2, SaidPressedIs
<1>4. SaidPressed(B, s, b)
         <=> \/ Stands(s, Len(s), PressOf(b), ReleaseOf(b))
             \/ b \in B /\ ReleaseOf(b) \notin Listed(s)
  BY SaidPressedIs
<1>5. Listed(s \o e) = Listed(s) \cup Listed(e)
  BY Joined
<1>6. /\ ReleaseOf(b) \notin Listed(e) =>
              (Stands(s \o e, Len(s \o e), PressOf(b), ReleaseOf(b))
               <=> PressOf(b) \in Listed(e) \/ Stands(s, Len(s), PressOf(b), ReleaseOf(b)))
      /\ ReleaseOf(b) \in Listed(e) /\ PressOf(b) \notin Listed(e) =>
              ~Stands(s \o e, Len(s \o e), PressOf(b), ReleaseOf(b))
  BY <1>1, Joined
<1> QED BY <1>3, <1>4, <1>5, <1>6

\* Whatever may be queued.
AllEvents == BindingEvents \cup SeatEvents

\* What one call after another of queue_binding_event() adds.
LEMMA EventsAre ==
  ASSUME NEW kind, NEW S, NEW bs \in Seq(S), NEW A,
         \A b \in S : [kind |-> kind, binding |-> b] \in A
  PROVE  /\ Events(kind, bs) \in Seq(A)
         /\ Listed(Events(kind, bs)) = {[kind |-> kind, binding |-> b] : b \in Listed(bs)}
<1>1. Len(bs) \in Nat /\ DOMAIN bs = 1..Len(bs) /\ \A i \in 1..Len(bs) : bs[i] \in S
  OBVIOUS
<1>2. Events(kind, bs) = [i \in 1..Len(bs) |-> [kind |-> kind, binding |-> bs[i]]]
  BY <1>1 DEF Events
<1> DEFINE t == Events(kind, bs)
<1>3. t \in [1..Len(bs) -> A]
  BY <1>1, <1>2
<1> HIDE DEF t
<1>4. t \in Seq(A) /\ Len(t) = Len(bs)
  BY <1>1, <1>3
<1>5. \A i \in 1..Len(bs) : t[i] = [kind |-> kind, binding |-> bs[i]]
  BY <1>2 DEF t
<1>6. Listed(t) = {[kind |-> kind, binding |-> b] : b \in Listed(bs)}
  BY <1>4, <1>5 DEF Listed
<1> QED BY <1>4, <1>6 DEF t

\* One event of the seat.
LEMMA SeatEventIs ==
  ASSUME NEW kind \in {"ate_unbound_key", "modifiers_update"}
  PROVE  /\ Events(kind, <<NoBinding>>) \in Seq(AllEvents)
         /\ Listed(Events(kind, <<NoBinding>>)) = {[kind |-> kind, binding |-> NoBinding]}
<1>1. <<NoBinding>> \in Seq({NoBinding}) /\ Listed(<<NoBinding>>) = {NoBinding}
  BY DEF Listed
<1>2. \A b \in {NoBinding} : [kind |-> kind, binding |-> b] \in AllEvents
  BY DEF AllEvents, SeatEvents
<1>3. /\ Events(kind, <<NoBinding>>) \in Seq(AllEvents)
      /\ Listed(Events(kind, <<NoBinding>>))
           = {[kind |-> kind, binding |-> b] : b \in Listed(<<NoBinding>>)}
  BY <1>1, <1>2, EventsAre
<1>4. {[kind |-> kind, binding |-> b] : b \in {NoBinding}} = {[kind |-> kind, binding |-> NoBinding]}
  OBVIOUS
<1> QED BY <1>1, <1>3, <1>4

\* Events of bindings.
LEMMA BindingEventsAre ==
  ASSUME NEW kind \in {"pressed", "released", "stop_repeat"}, NEW bs \in Seq(Bindings)
  PROVE  /\ Events(kind, bs) \in Seq(AllEvents)
         /\ Listed(Events(kind, bs)) = {[kind |-> kind, binding |-> b] : b \in Listed(bs)}
<1>1. \A b \in Bindings : [kind |-> kind, binding |-> b] \in AllEvents
  BY DEF AllEvents, BindingEvents
<1> QED BY <1>1, EventsAre

\* What the handlers of the modifiers add says nothing of a binding.
LEMMA WatchedIs ==
  ASSUME NEW mods
  PROVE  LET w == IF Observed(mods) THEN WatchedUpdate(mods) ELSE <<>>
         IN  w \in Seq(AllEvents) /\ \A e \in Listed(w) : e.kind = "modifiers_update" /\ e.binding = NoBinding
<1> DEFINE u == Events("modifiers_update", <<NoBinding>>)
           w == IF Observed(mods) THEN WatchedUpdate(mods) ELSE <<>>
<1>1. w \in {u, <<>>}
  BY DEF WatchedUpdate
<1>2. u \in Seq(AllEvents) /\ Listed(u) = {[kind |-> "modifiers_update", binding |-> NoBinding]}
  BY SeatEventIs
<1>3. <<>> \in Seq(AllEvents) /\ Listed(<<>>) = {}
  BY DEF Listed
<1> HIDE DEF w, u
<1>4. w \in Seq(AllEvents)
  BY <1>1, <1>2, <1>3
<1>5. Listed(w) \subseteq {[kind |-> "modifiers_update", binding |-> NoBinding]}
  BY <1>1, <1>2, <1>3
<1>6. \A e \in Listed(w) : e.kind = "modifiers_update" /\ e.binding = NoBinding
  BY <1>5
<1> QED BY <1>4, <1>6 DEF w

InUseOf(bs) == {bs[i] : i \in DOMAIN bs}

LEMMA InUseIs == ASSUME NEW bs \in Seq(Bindings) PROVE InUseOf(bs) = Listed(bs)
  BY DEF InUseOf, Listed

\* What a list of the bindings in use holds.
LEMMA AmongBindings ==
  ASSUME KeysTypeOK, NEW S
  PROVE  Among(keyBindings, S) \in Seq(Bindings) /\ Listed(Among(keyBindings, S)) = InUse \cap S
<1>1. keyBindings \in Seq(Bindings)
  BY DEF KeysTypeOK
<1>2. InUse = Listed(keyBindings)
  BY <1>1, InUseIs DEF InUse, InUseOf
<1>3. Found(Among(keyBindings, S), keyBindings, S, Bindings, Len(keyBindings))
  BY <1>1, AmongIs
<1> QED BY <1>2, <1>3 DEF Found, Listed

\* Events queued change what the manager will believe as they change what is held.
Agree(events, b) ==
    /\ ~(PressOf(b) \in Listed(events) /\ ReleaseOf(b) \in Listed(events))
    /\ PressOf(b) \in Listed(events) => held'[b] # NoKey
    /\ ReleaseOf(b) \in Listed(events) => held'[b] = NoKey
    /\ PressOf(b) \notin Listed(events) /\ ReleaseOf(b) \notin Listed(events) =>
         (held'[b] = NoKey <=> held[b] = NoKey)

\* The queue: what it leaves the manager believing is what is held.
Told ==
    /\ pending \in Seq(AllEvents)
    /\ \A b \in Bindings : b \in InUse => (LastSaid(b) <=> held[b] # NoKey)
    /\ \A e \in Listed(pending) : e.binding \in InUse \cup {NoBinding}

LEMMA ToldIs == LastEventTellsHeld <=> KeysTypeOK /\ Told
<1>1. ASSUME pending \in Seq(AllEvents) PROVE DOMAIN pending = 1..Len(pending)
  BY <1>1
<1>2. KeysTypeOK => pending \in Seq(AllEvents)
  BY DEF KeysTypeOK, AllEvents
<1> QED BY <1>1, <1>2 DEF LastEventTellsHeld, Told, Listed

LEMMA Queued ==
  ASSUME Told, NEW events \in Seq(AllEvents), pending' = pending \o events,
         keyBindings' = keyBindings, told' = told,
         \A e \in Listed(events) : e.binding \in InUse \cup {NoBinding},
         \A b \in InUse : Agree(events, b)
  PROVE  Told'
<1>1. pending' \in Seq(AllEvents) /\ Listed(pending') = Listed(pending) \cup Listed(events)
  BY Joined DEF Told
<1>2. InUse' = InUse
  BY DEF InUse
<1>3. ASSUME NEW b \in Bindings, b \in InUse PROVE LastSaid(b)' <=> held'[b] # NoKey
  <2>1. LastSaid(b)' <=> SaidPressed(told, pending \o events, b)
    BY DEF LastSaid
  <2>2. LastSaid(b) <=> SaidPressed(told, pending, b)
    BY DEF LastSaid
  <2>3. LastSaid(b) <=> held[b] # NoKey
    BY <1>3 DEF Told
  <2>4. pending \in Seq(AllEvents)
    BY DEF Told
  <2>5. Agree(events, b)
    BY <1>3
  <2>6. /\ ReleaseOf(b) \notin Listed(events) /\ PressOf(b) \notin Listed(events) =>
              (SaidPressed(told, pending \o events, b) <=> SaidPressed(told, pending, b))
        /\ ReleaseOf(b) \notin Listed(events) /\ PressOf(b) \in Listed(events) =>
              SaidPressed(told, pending \o events, b)
        /\ ReleaseOf(b) \in Listed(events) /\ PressOf(b) \notin Listed(events) =>
              ~SaidPressed(told, pending \o events, b)
    BY <2>4, SaidLast
  <2> QED BY <2>1, <2>2, <2>3, <2>5, <2>6 DEF Agree
<1>4. \A e \in Listed(pending') : e.binding \in InUse \cup {NoBinding}
  BY <1>1 DEF Told
<1>5. \A b \in Bindings : b \in InUse' => (LastSaid(b)' <=> held'[b] # NoKey)
  BY <1>2, <1>3
<1>6. \A e \in Listed(pending') : e.binding \in InUse' \cup {NoBinding}
  BY <1>2, <1>4
<1> QED BY <1>1, <1>5, <1>6 DEF Told

\* A step that says nothing and holds nothing else.
LEMMA NothingTold ==
  ASSUME Told, UNCHANGED <<keyBindings, held, pending, told>>
  PROVE  Told'
  BY DEF Told, InUse, LastSaid

\* A press matches a binding in use, or none.
LEMMA MatchIs == ASSUME KeysTypeOK, NEW k PROVE Match(k) \in InUse \cup {NoBinding}
<1>1. Matching(k) \in Seq(Bindings) /\ Listed(Matching(k)) \subseteq InUse
  BY AmongBindings DEF Matching
<1>2. CASE Matching(k) = <<>>
  BY <1>2 DEF Match
<1>3. CASE Matching(k) # <<>>
  <2>1. Len(Matching(k)) \in Nat \ {0} /\ Head(Matching(k)) = Matching(k)[1]
    BY <1>1, <1>3
  <2>2. Head(Matching(k)) \in Listed(Matching(k))
    BY <2>1 DEF Listed
  <2> QED BY <1>1, <1>3, <2>2 DEF Match
<1> QED BY <1>2, <1>3

\* What a press says: no release, and a press of the match.
LEMMA PressSays ==
  ASSUME KeysTypeOK, NEW match \in InUse \cup {NoBinding}, NEW taker
  PROVE  /\ PressEvents(match, taker) \in Seq(AllEvents)
         /\ \A e \in Listed(PressEvents(match, taker)) : e.binding \in InUse \cup {NoBinding}
         /\ \A b \in InUse : ReleaseOf(b) \notin Listed(PressEvents(match, taker))
         /\ \A b \in InUse : PressOf(b) \in Listed(PressEvents(match, taker)) <=> b = match
<1> DEFINE s == Events("stop_repeat", HeldBut(match))
           p == Events("pressed", <<match>>)
           u == Events("ate_unbound_key", <<NoBinding>>)
           t == CASE match # NoBinding -> p
                  [] match = NoBinding /\ taker = "observer" -> u
                  [] OTHER -> <<>>
<1>0. InUse \subseteq Bindings
  BY InUseIs DEF KeysTypeOK, InUse
<1>1. PressEvents(match, taker) = s \o t
  BY DEF PressEvents
<1>2. s \in Seq(AllEvents) /\ Listed(s) \subseteq {[kind |-> "stop_repeat", binding |-> b] : b \in InUse}
  <2>1. HeldBut(match) \in Seq(Bindings) /\ Listed(HeldBut(match)) \subseteq InUse
    BY AmongBindings DEF HeldBut
  <2> QED BY <2>1, BindingEventsAre
<1>3. ASSUME match # NoBinding PROVE p \in Seq(AllEvents) /\ Listed(p) = {PressOf(match)}
  <2>1. <<match>> \in Seq(Bindings) /\ Listed(<<match>>) = {match}
    BY <1>0, <1>3 DEF Listed
  <2>2. p \in Seq(AllEvents) /\ Listed(p) = {[kind |-> "pressed", binding |-> b] : b \in Listed(<<match>>)}
    BY <2>1, BindingEventsAre
  <2>3. {[kind |-> "pressed", binding |-> b] : b \in {match}} = {PressOf(match)}
    BY DEF PressOf
  <2> QED BY <2>1, <2>2, <2>3
<1>4. u \in Seq(AllEvents) /\ Listed(u) = {[kind |-> "ate_unbound_key", binding |-> NoBinding]}
  BY SeatEventIs
<1>5. <<>> \in Seq(AllEvents) /\ Listed(<<>>) = {}
  BY DEF Listed
<1>6. /\ match # NoBinding => t = p
      /\ match = NoBinding => t \in {u, <<>>}
  OBVIOUS
<1> HIDE DEF s, p, u, t
<1>7. t \in Seq(AllEvents)
  BY <1>3, <1>4, <1>5, <1>6
<1>8. Listed(t) \subseteq {PressOf(match), [kind |-> "ate_unbound_key", binding |-> NoBinding]}
  BY <1>3, <1>4, <1>5, <1>6
<1>9. match # NoBinding => PressOf(match) \in Listed(t)
  BY <1>3, <1>6
<1>10. match = NoBinding => Listed(t) \subseteq {[kind |-> "ate_unbound_key", binding |-> NoBinding]}
  BY <1>4, <1>5, <1>6
<1>11. s \o t \in Seq(AllEvents) /\ Listed(s \o t) = Listed(s) \cup Listed(t)
  BY <1>2, <1>7, Joined
<1>12. \A e \in Listed(s) : e.binding \in InUse /\ e.kind = "stop_repeat"
  BY <1>2
<1>13. \A e \in Listed(t) : e.binding \in {match, NoBinding} /\ e.kind \in {"pressed", "ate_unbound_key"}
  BY <1>8 DEF PressOf
<1>14. ASSUME NEW b \in InUse PROVE ReleaseOf(b) \notin Listed(s \o t)
  <2>1. ReleaseOf(b).kind = "released"
    BY DEF ReleaseOf
  <2> QED BY <1>11, <1>12, <1>13, <2>1
<1>15. ASSUME NEW b \in InUse PROVE PressOf(b) \in Listed(s \o t) <=> b = match
  <2>1. PressOf(b).kind = "pressed" /\ PressOf(b).binding = b /\ b # NoBinding
    BY <1>0, KeysAssumption DEF PressOf
  <2>2. PressOf(b) \in Listed(s \o t) => PressOf(b) \in Listed(t)
    BY <1>11, <1>12, <2>1
  <2>3. PressOf(b) \in Listed(t) => b = match
    BY <1>13, <2>1
  <2>4. b = match => PressOf(b) \in Listed(t)
    BY <1>9, <2>1
  <2> QED BY <1>11, <2>2, <2>3, <2>4
<1>16. \A e \in Listed(s \o t) : e.binding \in InUse \cup {NoBinding}
  BY <1>11, <1>12, <1>13
<1> QED BY <1>1, <1>11, <1>14, <1>15, <1>16

\* What the keyboard queues, and after it what the handlers of the modifiers do.
LEMMA UpdateSays ==
  ASSUME KeysTypeOK, Told, NEW mods, NEW events \in Seq(AllEvents), UpdateModifiers(mods, events),
         keyBindings' = keyBindings, told' = told,
         \A e \in Listed(events) : e.binding \in InUse \cup {NoBinding},
         \A b \in InUse : Agree(events, b)
  PROVE  Told'
<1> DEFINE w == IF Observed(mods) THEN WatchedUpdate(mods) ELSE <<>>
<1>1. pending' = pending \o (events \o w)
  BY DEF UpdateModifiers, Queue
<1>2. w \in Seq(AllEvents) /\ \A e \in Listed(w) : e.kind = "modifiers_update" /\ e.binding = NoBinding
  BY WatchedIs
<1> HIDE DEF w
<1>3. events \o w \in Seq(AllEvents) /\ Listed(events \o w) = Listed(events) \cup Listed(w)
  BY <1>2, Joined
<1>4. \A e \in Listed(events \o w) : e.binding \in InUse \cup {NoBinding}
  BY <1>2, <1>3
<1>5. ASSUME NEW b \in InUse PROVE Agree(events \o w, b)
  <2>1. PressOf(b).kind = "pressed" /\ ReleaseOf(b).kind = "released"
    BY DEF PressOf, ReleaseOf
  <2>2. PressOf(b) \notin Listed(w) /\ ReleaseOf(b) \notin Listed(w)
    BY <1>2, <2>1
  <2>3. Agree(events, b)
    BY <1>5
  <2> QED BY <1>3, <2>2, <2>3 DEF Agree
<1> QED BY <1>1, <1>3, <1>4, <1>5, Queued

\* A press says of its match, and of nothing else, that it is held.
LEMMA PressTells == ASSUME KeysTypeOK, Told, NEW k \in Keys, Press(k) PROVE Told'
<1> DEFINE taker == Taker(k)
           observed == installed /\ taker # "swc"
           match == IF observed THEN Match(k) ELSE NoBinding
           events == IF observed THEN PressEvents(match, taker) ELSE <<>>
           mods == modifiers \cup ({k} \cap ModKeys)
<1>1. /\ held' = IF match = NoBinding THEN held ELSE [held EXCEPT ![match] = k]
      /\ UpdateModifiers(mods, events)
      /\ keyBindings' = keyBindings /\ told' = told
  BY DEF Press
<1>2. match \in InUse \cup {NoBinding}
  BY MatchIs
<1>3. /\ events \in Seq(AllEvents)
      /\ \A e \in Listed(events) : e.binding \in InUse \cup {NoBinding}
      /\ \A b \in InUse : ReleaseOf(b) \notin Listed(events)
      /\ \A b \in InUse : PressOf(b) \in Listed(events) <=> b = match
  <2>1. CASE observed
    <3> HIDE DEF match
    <3> QED BY <1>2, <2>1, PressSays
  <2>2. CASE ~observed
    <3>1. events = <<>> /\ Listed(<<>>) = {} /\ match = NoBinding
      BY <2>2 DEF Listed
    <3>2. NoBinding \notin InUse
      BY InUseIs, KeysAssumption DEF KeysTypeOK, InUse
    <3>3. <<>> \in Seq(AllEvents)
      OBVIOUS
    <3> HIDE DEF events, match
    <3>4. \A b \in InUse : b # match
      BY <3>1, <3>2
    <3> QED BY <3>1, <3>3, <3>4
  <2> QED BY <2>1, <2>2
<1> HIDE DEF match, events, mods
<1>4. ASSUME NEW b \in InUse PROVE Agree(events, b)
  <2>1. b \in Bindings /\ b # NoBinding /\ k # NoKey
    BY InUseIs, KeysAssumption DEF KeysTypeOK, InUse
  <2>2. held'[b] = IF b = match THEN k ELSE held[b]
    BY <1>1, <2>1 DEF KeysTypeOK
  <2> QED BY <1>3, <2>1, <2>2 DEF Agree
<1> QED BY <1>1, <1>3, <1>4, UpdateSays

\* What the release of keys says: a release of each binding they held.
LEMMA ReleaseSays ==
  ASSUME KeysTypeOK, NEW keys, NoKey \notin keys, ObserverLetsGo(keys)
  PROVE  LET events == Events("released", HeldBy(keys))
         IN  /\ events \in Seq(AllEvents)
             /\ \A e \in Listed(events) : e.binding \in InUse \cup {NoBinding}
             /\ \A b \in InUse : Agree(events, b)
<1> DEFINE events == Events("released", HeldBy(keys))
<1>1. HeldBy(keys) \in Seq(Bindings) /\ Listed(HeldBy(keys)) = {b \in InUse : held[b] \in keys}
  BY AmongBindings DEF HeldBy
<1>2. /\ events \in Seq(AllEvents)
      /\ Listed(events) = {[kind |-> "released", binding |-> b] : b \in {c \in InUse : held[c] \in keys}}
  BY <1>1, BindingEventsAre
<1> HIDE DEF events
<1>3. \A e \in Listed(events) : e.kind = "released" /\ e.binding \in InUse /\ held[e.binding] \in keys
  BY <1>2
<1>4. ASSUME NEW b \in InUse PROVE Agree(events, b)
  <2>1. b \in Bindings
    BY InUseIs DEF KeysTypeOK, InUse
  <2>2. held'[b] = IF held[b] \in keys THEN NoKey ELSE held[b]
    BY <2>1 DEF ObserverLetsGo
  <2>3. PressOf(b).kind = "pressed" /\ ReleaseOf(b).binding = b
    BY DEF PressOf, ReleaseOf
  <2>4. PressOf(b) \notin Listed(events)
    BY <1>3, <2>3
  <2>5. ReleaseOf(b) \in Listed(events) <=> held[b] \in keys
    BY <1>2, <1>3, <2>3 DEF ReleaseOf
  <2> QED BY <2>2, <2>4, <2>5 DEF Agree
<1>5. \A e \in Listed(events) : e.binding \in InUse \cup {NoBinding}
  BY <1>3
<1> QED BY <1>2, <1>4, <1>5 DEF events

LEMMA TakenKeys == ASSUME NEW by PROVE Taken(by) \subseteq Keys /\ NoKey \notin Taken(by)
  BY KeysAssumption DEF Taken

\* A release, and the releases a reset makes up, say what they let go of.
LEMMA ReleaseTells == ASSUME KeysTypeOK, Told, NEW k \in Keys, Release(k) PROVE Told'
<1> DEFINE keys == {k} \cap Taken("observer")
           events == Events("released", HeldBy(keys))
<1>1. /\ ObserverLetsGo(keys) /\ UpdateModifiers(modifiers \ {k}, events)
      /\ keyBindings' = keyBindings /\ told' = told
  BY DEF Release, LetGo
<1>2. NoKey \notin keys
  BY TakenKeys
<1> HIDE DEF keys
<1>3. /\ events \in Seq(AllEvents)
      /\ \A e \in Listed(events) : e.binding \in InUse \cup {NoBinding}
      /\ \A b \in InUse : Agree(events, b)
  BY <1>1, <1>2, ReleaseSays
<1> HIDE DEF events
<1> QED BY <1>1, <1>3, UpdateSays

LEMMA ResetTells == ASSUME KeysTypeOK, Told, Reset PROVE Told'
<1> DEFINE keys == Taken("observer")
           events == Events("released", HeldBy(keys))
<1>1. /\ ObserverLetsGo(keys) /\ pending' = pending \o events
      /\ keyBindings' = keyBindings /\ told' = told
  BY DEF Reset, LetGo, Queue
<1>2. NoKey \notin keys
  BY TakenKeys
<1> HIDE DEF keys
<1>3. /\ events \in Seq(AllEvents)
      /\ \A e \in Listed(events) : e.binding \in InUse \cup {NoBinding}
      /\ \A b \in InUse : Agree(events, b)
  BY <1>1, <1>2, ReleaseSays
<1> HIDE DEF events
<1> QED BY <1>1, <1>3, Queued

\* Destroyed bindings take their events with them, and leave those of the others.
LEMMA DestroyTells ==
  ASSUME KeysTypeOK, Told, NEW bindings \in SUBSET Bindings, DestroyBindings(bindings)
  PROVE  /\ Told' /\ keyBindings' \in Seq(Bindings) /\ InUse' = InUse \ bindings
         /\ \A i, j \in DOMAIN keyBindings' : i # j => keyBindings'[i] # keyBindings'[j]
<1> DEFINE S == {e \in AllEvents : e.binding \notin bindings}
           q == Among(pending, S)
           list == Among(keyBindings, Bindings \ bindings)
<1>1. /\ keyBindings' = list /\ pending' = q /\ told' = told \ bindings
      /\ held' = [b \in Bindings |-> IF b \in bindings THEN NoKey ELSE held[b]]
  BY DEF DestroyBindings, DropEvents, AllEvents
<1>2. pending \in Seq(AllEvents) /\ keyBindings \in Seq(Bindings) /\ NoTwice(keyBindings)
  BY DEF Told, KeysTypeOK, NoTwice
<1>3. Found(q, pending, S, AllEvents, Len(pending))
  BY <1>2, AmongIs
<1>4. Found(list, keyBindings, Bindings \ bindings, Bindings, Len(keyBindings))
  BY <1>2, AmongIs
<1> HIDE DEF q, list
<1>5. InUse' = InUse \ bindings /\ InUse \subseteq Bindings
  <2>1. list \in Seq(Bindings) /\ Listed(list) = Listed(keyBindings) \cap (Bindings \ bindings)
    BY <1>4 DEF Found, Listed
  <2>2. InUse = Listed(keyBindings)
    BY <1>2, InUseIs DEF InUse, InUseOf
  <2>3. InUse' = InUseOf(list)
    BY <1>1 DEF InUse, InUseOf
  <2>4. InUse \subseteq Bindings
    BY <1>2, <2>2 DEF Listed
  <2> QED BY <2>1, <2>2, <2>3, <2>4, InUseIs
<1>6. keyBindings' \in Seq(Bindings)
      /\ \A i, j \in DOMAIN keyBindings' : i # j => keyBindings'[i] # keyBindings'[j]
  <2>1. list \in Seq(Bindings) /\ NoTwice(list)
    BY <1>2, <1>4 DEF Found
  <2>2. DOMAIN list = 1..Len(list)
    BY <2>1
  <2> QED BY <1>1, <2>1, <2>2 DEF NoTwice
<1>7. q \in Seq(AllEvents) /\ Listed(q) = Listed(pending) \cap S
      /\ \A p, r \in S : Stands(q, Len(q), p, r) <=> Stands(pending, Len(pending), p, r)
  BY <1>3 DEF Found, Listed
<1>8. ASSUME NEW b \in Bindings, b \in InUse' PROVE LastSaid(b)' <=> held'[b] # NoKey
  <2>1. b \in InUse /\ b \notin bindings
    BY <1>5, <1>8
  <2>2. PressOf(b) \in S /\ ReleaseOf(b) \in S
    BY <2>1 DEF PressOf, ReleaseOf, AllEvents, BindingEvents
  <2> HIDE DEF S
  <2>3. SaidPressed(told \ bindings, q, b)
         <=> \/ Stands(q, Len(q), PressOf(b), ReleaseOf(b))
             \/ b \in told \ bindings /\ ReleaseOf(b) \notin Listed(q)
    BY <1>7, SaidPressedIs
  <2>4. SaidPressed(told, pending, b)
         <=> \/ Stands(pending, Len(pending), PressOf(b), ReleaseOf(b))
             \/ b \in told /\ ReleaseOf(b) \notin Listed(pending)
    BY <1>2, SaidPressedIs
  <2>5. SaidPressed(told \ bindings, q, b) <=> SaidPressed(told, pending, b)
    BY <1>7, <2>1, <2>2, <2>3, <2>4
  <2>6. LastSaid(b)' <=> SaidPressed(told \ bindings, q, b)
    BY <1>1 DEF LastSaid
  <2>7. LastSaid(b) <=> held[b] # NoKey
    BY <2>1 DEF Told
  <2>8. held'[b] = held[b]
    BY <1>1, <2>1
  <2> QED BY <2>5, <2>6, <2>7, <2>8 DEF LastSaid
<1>9. \A e \in Listed(pending') : e.binding \in InUse' \cup {NoBinding}
  BY <1>1, <1>5, <1>7 DEF Told
<1>10. pending' \in Seq(AllEvents)
  BY <1>1, <1>7
<1> QED BY <1>5, <1>6, <1>8, <1>9, <1>10 DEF Told

\* What is flushed is what was to be said.
LEMMA FlushTells == ASSUME KeysTypeOK, Told, Flush PROVE Told'
<1>1. /\ told' = {b \in InUse : LastSaid(b)} /\ pending' = <<>>
      /\ keyBindings' = keyBindings /\ held' = held
  BY DEF Flush, bindingVars
<1>2. InUse' = InUse
  BY <1>1 DEF InUse
<1>3. <<>> \in Seq(AllEvents) /\ Listed(<<>>) = {}
  BY DEF Listed
<1>4. ASSUME NEW b \in Bindings, b \in InUse PROVE LastSaid(b)' <=> held'[b] # NoKey
  <2>1. LastSaid(b)' <=> SaidPressed({c \in InUse : LastSaid(c)}, <<>>, b)
    BY <1>1 DEF LastSaid
  <2>2. ~Stands(<<>>, Len(<<>>), PressOf(b), ReleaseOf(b))
    BY DEF Stands
  <2> DEFINE B == {c \in InUse : LastSaid(c)}
  <2>3. b \in B <=> LastSaid(b)
    BY <1>4
  <2> HIDE DEF B
  <2>4. SaidPressed(B, <<>>, b) <=> b \in B
    BY <1>3, <2>2, SaidPressedIs
  <2>5. LastSaid(b) <=> held[b] # NoKey
    BY <1>4 DEF Told
  <2> QED BY <1>1, <2>1, <2>3, <2>4, <2>5 DEF B
<1> QED BY <1>1, <1>2, <1>3, <1>4 DEF Told

\* A new binding: nothing was said of it, and no key holds it.
LEMMA GetXkbBindingTells ==
  ASSUME KeysTypeOK, Told, NEW b \in Bindings, GetXkbBinding(b)
  PROVE  /\ Told' /\ keyBindings' \in Seq(Bindings) /\ InUse' = InUse \cup {b}
         /\ \A i, j \in DOMAIN keyBindings' : i # j => keyBindings'[i] # keyBindings'[j]
<1> DEFINE list == Append(keyBindings, b)
<1>1. /\ keyBindings' = list /\ b \notin InUse
      /\ held' = held /\ pending' = pending /\ told' = told
  BY DEF GetXkbBinding
<1>2. keyBindings \in Seq(Bindings) /\ Len(keyBindings) \in Nat
  BY DEF KeysTypeOK
<1>3. /\ list \in Seq(Bindings) /\ Len(list) = Len(keyBindings) + 1
      /\ DOMAIN list = 1..Len(keyBindings) + 1 /\ DOMAIN keyBindings = 1..Len(keyBindings)
      /\ \A i \in 1..Len(keyBindings) : list[i] = keyBindings[i]
      /\ list[Len(keyBindings) + 1] = b
  BY <1>2
<1> HIDE DEF list
<1>4. InUse' = InUse \cup {b}
  BY <1>1, <1>2, <1>3 DEF InUse
<1>5. ASSUME NEW i \in DOMAIN list, NEW j \in DOMAIN list, i # j PROVE list[i] # list[j]
  BY <1>1, <1>2, <1>3, <1>5 DEF KeysTypeOK, InUse
<1>6. ASSUME NEW c \in Bindings, c \in InUse' PROVE LastSaid(c)' <=> held'[c] # NoKey
  <2>1. LastSaid(c)' <=> LastSaid(c)
    BY <1>1 DEF LastSaid
  <2>2. CASE c \in InUse
    BY <1>1, <2>1, <2>2 DEF Told
  <2>3. CASE c = b
    <3>1. held[b] = NoKey /\ b \notin told /\ b # NoBinding
      BY <1>1, KeysAssumption DEF KeysTypeOK
    <3>2. PressOf(b) \notin Listed(pending)
      <4>1. PressOf(b).binding = b
        BY DEF PressOf
      <4> QED BY <1>1, <3>1, <4>1 DEF Told
    <3>3. ~Stands(pending, Len(pending), PressOf(b), ReleaseOf(b))
      BY <3>2 DEF Stands, Listed
    <3>4. ~SaidPressed(told, pending, b)
      BY <3>1, <3>3, SaidPressedIs DEF Told
    <3> QED BY <1>1, <2>1, <2>3, <3>1, <3>4 DEF LastSaid
  <2> QED BY <1>4, <1>6, <2>2, <2>3
<1>7. \A e \in Listed(pending') : e.binding \in InUse' \cup {NoBinding}
  BY <1>1, <1>4 DEF Told
<1> QED BY <1>1, <1>3, <1>4, <1>5, <1>6, <1>7 DEF Told

\* What the types say of the list of bindings and of what is held.
Listing ==
    /\ keyBindings \in Seq(Bindings)
    /\ \A i, j \in DOMAIN keyBindings : i # j => keyBindings[i] # keyBindings[j]
    /\ enabled \subseteq InUse /\ told \subseteq InUse
    /\ held \in [Bindings -> Keys \cup {NoKey}]
    /\ \A b \in Bindings \ InUse : held[b] = NoKey

\* The rest.
Plain ==
    /\ handler \in [Keys -> Takers \cup {"up"}]
    /\ clientKeys \subseteq Keys
    /\ modifiers \subseteq ModKeys /\ lastModifiers \subseteq ModKeys
    /\ focused \in BOOLEAN /\ heardKeys \subseteq Keys /\ heardMods \subseteq ModKeys
    /\ installed \in BOOLEAN /\ managed \in BOOLEAN
    /\ xkbSeat \in BOOLEAN /\ eatNext \in BOOLEAN
    /\ watched \subseteq ModKeys
    /\ ~managed => keyBindings = <<>> /\ ~xkbSeat
    /\ ~xkbSeat => ~eatNext /\ watched = {}

\* The inductive invariant.
Fits == Listing /\ Plain /\ Told

LEMMA TypesAre == KeysTypeOK /\ Told <=> Listing /\ Plain /\ Told
  BY DEF KeysTypeOK, Listing, Plain, Told, AllEvents

LEMMA InUseBindings == ASSUME KeysTypeOK PROVE InUse \subseteq Bindings
  BY InUseIs DEF KeysTypeOK, InUse

\* What the handlers of the modifiers leave of the types.
LEMMA UpdateTyped ==
  ASSUME KeysTypeOK, NEW mods \in SUBSET ModKeys, NEW events, UpdateModifiers(mods, events)
  PROVE  modifiers' \subseteq ModKeys /\ lastModifiers' \subseteq ModKeys /\ heardMods' \subseteq ModKeys
  BY DEF KeysTypeOK, UpdateModifiers, TellModifiers

\* The types, action by action.
LEMMA PressTyped == ASSUME KeysTypeOK, NEW k \in Keys, Press(k) PROVE Listing' /\ Plain'
<1> DEFINE taker == Taker(k)
           match == IF installed /\ taker # "swc" THEN Match(k) ELSE NoBinding
           given == IF taker = "client" THEN {k} ELSE {}
           mods == modifiers \cup ({k} \cap ModKeys)
<1>1. /\ handler' = [handler EXCEPT ![k] = taker]
      /\ clientKeys' = clientKeys \cup given
      /\ heardKeys' = IF focused THEN heardKeys \cup given ELSE heardKeys
      /\ held' = IF match = NoBinding THEN held ELSE [held EXCEPT ![match] = k]
      /\ eatNext' = (eatNext /\ taker # "observer")
      /\ UNCHANGED <<focused, installed, managed, keyBindings, enabled, xkbSeat, watched, told>>
  BY DEF Press
<1>2. \E events : UpdateModifiers(mods, events)
  BY DEF Press
<1>3. mods \in SUBSET ModKeys
  BY DEF KeysTypeOK
<1>4. taker \in Takers /\ given \subseteq Keys
  BY DEF Taker, Takers
<1>5. match \in InUse \cup {NoBinding}
  BY MatchIs
<1> HIDE DEF taker, match, given, mods
<1>6. modifiers' \subseteq ModKeys /\ lastModifiers' \subseteq ModKeys /\ heardMods' \subseteq ModKeys
  BY <1>2, <1>3, UpdateTyped
<1>7. InUse' = InUse /\ InUse \subseteq Bindings
  BY <1>1, InUseBindings DEF InUse
<1>8. Plain'
  BY <1>1, <1>4, <1>6 DEF KeysTypeOK, Plain
<1>9. Listing'
  <2>1. held' \in [Bindings -> Keys \cup {NoKey}]
    BY <1>1, <1>5, <1>7 DEF KeysTypeOK
  <2>2. \A b \in Bindings \ InUse : held'[b] = NoKey
    BY <1>1, <1>5, <1>7 DEF KeysTypeOK
  <2> QED BY <1>1, <1>7, <2>1, <2>2 DEF KeysTypeOK, Listing
<1> QED BY <1>8, <1>9

\* Keys that are let go of leave nothing held that was not.
LEMMA LetGoTyped ==
  ASSUME KeysTypeOK, NEW keys, ObserverLetsGo(keys), UNCHANGED <<keyBindings, enabled, told>>
  PROVE  Listing'
<1>1. InUse' = InUse
  BY DEF InUse
<1>2. held' \in [Bindings -> Keys \cup {NoKey}] /\ \A b \in Bindings \ InUse : held'[b] = NoKey
  BY DEF KeysTypeOK, ObserverLetsGo
<1> QED BY <1>1, <1>2 DEF KeysTypeOK, Listing

LEMMA ReleaseTyped == ASSUME KeysTypeOK, NEW k \in Keys, Release(k) PROVE Listing' /\ Plain'
<1>1. /\ ObserverLetsGo({k} \cap Taken("observer")) /\ ClientLetsGo({k} \cap Taken("client"))
      /\ handler' = [handler EXCEPT ![k] = "up"]
      /\ UNCHANGED <<focused, installed, managed, keyBindings, enabled, xkbSeat, eatNext, watched, told>>
  BY DEF Release, LetGo, seatVars
<1>2. \E events : UpdateModifiers(modifiers \ {k}, events)
  BY DEF Release
<1>3. modifiers \ {k} \in SUBSET ModKeys
  BY DEF KeysTypeOK
<1>4. modifiers' \subseteq ModKeys /\ lastModifiers' \subseteq ModKeys /\ heardMods' \subseteq ModKeys
  BY <1>2, <1>3, UpdateTyped
<1>5. Listing'
  BY <1>1, LetGoTyped
<1>6. Plain'
  BY <1>1, <1>4 DEF KeysTypeOK, Plain, ClientLetsGo
<1> QED BY <1>5, <1>6

LEMMA ResetTyped == ASSUME KeysTypeOK, Reset PROVE Listing' /\ Plain'
<1>1. /\ ObserverLetsGo(Taken("observer")) /\ ClientLetsGo(Taken("client"))
      /\ handler' = [k \in Keys |-> "up"] /\ modifiers' = {}
      /\ UNCHANGED <<lastModifiers, focused, heardMods, installed, managed, keyBindings, enabled,
                     xkbSeat, eatNext, watched, told>>
  BY DEF Reset, LetGo, seatVars
<1>2. Listing'
  BY <1>1, LetGoTyped
<1>3. Plain'
  BY <1>1 DEF KeysTypeOK, Plain, ClientLetsGo
<1> QED BY <1>2, <1>3

\* Bindings destroyed: nothing is enabled, told or held of them.
LEMMA DestroyTyped ==
  ASSUME KeysTypeOK, Told, NEW bindings \in SUBSET Bindings, DestroyBindings(bindings)
  PROVE  Listing'
<1>1. /\ keyBindings' \in Seq(Bindings) /\ InUse' = InUse \ bindings
      /\ \A i, j \in DOMAIN keyBindings' : i # j => keyBindings'[i] # keyBindings'[j]
  BY DestroyTells
<1>2. /\ enabled' = enabled \ bindings /\ told' = told \ bindings
      /\ held' = [b \in Bindings |-> IF b \in bindings THEN NoKey ELSE held[b]]
  BY DEF DestroyBindings
<1>3. held' \in [Bindings -> Keys \cup {NoKey}] /\ \A b \in Bindings \ InUse' : held'[b] = NoKey
  BY <1>1, <1>2 DEF KeysTypeOK
<1> QED BY <1>1, <1>2, <1>3 DEF KeysTypeOK, Listing

\* Steps that leave the bindings alone.
LEMMA Aside ==
  ASSUME KeysTypeOK, Told, UNCHANGED <<keyBindings, enabled, held, told, pending>>
  PROVE  Listing' /\ Told'
<1>1. Told'
  BY NothingTold
<1>2. Listing'
  BY DEF KeysTypeOK, Listing, InUse
<1> QED BY <1>1, <1>2

\* Nothing is held and nothing said at first.
LEMMA InitTells == KeysInit => Fits
<1> SUFFICES ASSUME KeysInit PROVE Fits
  OBVIOUS
<1>1. <<>> \in Seq(AllEvents) /\ <<>> \in Seq(Bindings) /\ Listed(<<>>) = {} /\ DOMAIN <<>> = {}
  BY DEF Listed
<1>2. InUse = {} /\ Told
  BY <1>1 DEF KeysInit, InUse, Told
<1>3. Listing /\ Plain
  BY <1>1, <1>2 DEF KeysInit, Listing, Plain
<1> QED BY <1>2, <1>3 DEF Fits

\* Every step keeps the queue true to what is held.
LEMMA NextTells == Fits /\ [KeysNext]_keysVars => Fits'
<1> SUFFICES ASSUME KeysTypeOK, Told, [KeysNext]_keysVars PROVE Listing' /\ Plain' /\ Told'
  BY TypesAre DEF Fits
<1> USE DEF Listing
<1>1. ASSUME NEW k \in Keys, Press(k) PROVE Listing' /\ Plain' /\ Told'
  BY <1>1, PressTyped, PressTells
<1>2. ASSUME NEW k \in Keys, Release(k) PROVE Listing' /\ Plain' /\ Told'
  BY <1>2, ReleaseTyped, ReleaseTells
<1>3. CASE Reset
  BY <1>3, ResetTyped, ResetTells
<1>4. CASE Enter \/ Leave \/ Connect \/ GetSeat \/ DestroySeat
  <2>1. UNCHANGED <<keyBindings, enabled, held, told, pending>>
    BY <1>4 DEF Enter, Leave, Connect, GetSeat, DestroySeat, bindingVars
  <2>2. Plain'
    <3>1. CASE Enter
      BY <3>1 DEF Enter, KeysTypeOK, Plain, bindingVars, seatVars
    <3>2. CASE Leave
      BY <3>2 DEF Leave, KeysTypeOK, Plain, bindingVars, seatVars
    <3>3. CASE Connect
      BY <3>3 DEF Connect, KeysTypeOK, Plain, keyboardVars, clientVars, bindingVars, seatVars
    <3>4. CASE GetSeat
      BY <3>4 DEF GetSeat, KeysTypeOK, Plain, keyboardVars, clientVars, bindingVars
    <3>5. CASE DestroySeat
      BY <3>5 DEF DestroySeat, ForgetSeat, KeysTypeOK, Plain, keyboardVars, clientVars, bindingVars
    <3> QED BY <1>4, <3>1, <3>2, <3>3, <3>4, <3>5
  <2> QED BY <2>1, <2>2, Aside
<1>5. CASE Disconnect
  <2>1. DestroyBindings(InUse) /\ InUse \in SUBSET Bindings
    BY <1>5, InUseBindings DEF Disconnect
  <2>2. Told' /\ Listing' /\ InUse' = InUse \ InUse
    BY <2>1, DestroyTells, DestroyTyped
  <2>3. keyBindings' = <<>>
    BY <2>2 DEF InUse
  <2>4. Plain'
    BY <1>5, <2>3 DEF Disconnect, ForgetSeat, KeysTypeOK, Plain, keyboardVars, clientVars
  <2> QED BY <2>2, <2>4
<1>6. CASE Flush
  <2>1. Told'
    BY <1>6, FlushTells
  <2>2. /\ told' \subseteq InUse
        /\ UNCHANGED <<keyboardVars, installed, managed, keyBindings, enabled, held, seatVars>>
    BY <1>6 DEF Flush, bindingVars
  <2>3. Listing'
    BY <2>2 DEF KeysTypeOK, InUse
  <2>4. Plain'
    BY <2>2 DEF KeysTypeOK, Plain, keyboardVars, clientVars, seatVars
  <2> QED BY <2>1, <2>3, <2>4
<1>7. ASSUME NEW b \in Bindings, GetXkbBinding(b) PROVE Listing' /\ Plain' /\ Told'
  <2>1. /\ Told' /\ keyBindings' \in Seq(Bindings) /\ InUse' = InUse \cup {b}
        /\ \A i, j \in DOMAIN keyBindings' : i # j => keyBindings'[i] # keyBindings'[j]
    BY <1>7, GetXkbBindingTells
  <2>2. managed /\ UNCHANGED <<keyboardVars, installed, managed, enabled, held, seatVars, pending, told>>
    BY <1>7 DEF GetXkbBinding
  <2>3. Listing'
    BY <2>1, <2>2 DEF KeysTypeOK
  <2>4. Plain'
    BY <2>2 DEF KeysTypeOK, Plain, keyboardVars, clientVars, seatVars
  <2> QED BY <2>1, <2>3, <2>4
<1>8. ASSUME NEW b \in Bindings, Enable(b) PROVE Listing' /\ Plain' /\ Told'
  <2>1. Told'
    BY <1>8, NothingTold DEF Enable
  <2>2. Listing'
    BY <1>8 DEF Enable, KeysTypeOK, InUse
  <2>3. Plain'
    BY <1>8 DEF Enable, EnsureKeyboardObserver, KeysTypeOK, Plain, clientVars, seatVars
  <2> QED BY <2>1, <2>2, <2>3
<1>9. ASSUME NEW b \in Bindings, Disable(b) PROVE Listing' /\ Plain' /\ Told'
  <2>1. Told'
    BY <1>9, NothingTold DEF Disable
  <2>2. Listing'
    BY <1>9 DEF Disable, KeysTypeOK, InUse
  <2>3. Plain'
    BY <1>9 DEF Disable, KeysTypeOK, Plain, keyboardVars, clientVars, seatVars
  <2> QED BY <2>1, <2>2, <2>3
<1>10. ASSUME NEW b \in Bindings, DestroyBinding(b) PROVE Listing' /\ Plain' /\ Told'
  <2>1. DestroyBindings({b}) /\ {b} \in SUBSET Bindings
    BY <1>10 DEF DestroyBinding
  <2>2. Told' /\ Listing' /\ InUse' = InUse \ {b}
    BY <2>1, DestroyTells, DestroyTyped
  <2>3. managed
    BY <1>10 DEF DestroyBinding, KeysTypeOK, InUse
  <2>4. Plain'
    BY <1>10, <2>3 DEF DestroyBinding, KeysTypeOK, Plain, keyboardVars, clientVars, seatVars
  <2> QED BY <2>2, <2>4
<1>11. ASSUME NEW eat \in BOOLEAN, EnsureNextKeyEaten(eat) PROVE Listing' /\ Plain' /\ Told'
  <2>1. UNCHANGED <<keyBindings, enabled, held, told, pending>>
    BY <1>11 DEF EnsureNextKeyEaten, bindingVars
  <2>2. Plain'
    BY <1>11 DEF EnsureNextKeyEaten, KeysTypeOK, Plain, keyboardVars, clientVars, bindingVars
  <2> QED BY <2>1, <2>2, Aside
<1>12. ASSUME NEW mods \in SUBSET ModKeys, ModifiersWatch(mods) PROVE Listing' /\ Plain' /\ Told'
  <2>1. UNCHANGED <<keyBindings, enabled, held, told, pending>>
    BY <1>12 DEF ModifiersWatch, bindingVars
  <2>2. Plain'
    BY <1>12 DEF ModifiersWatch, KeysTypeOK, Plain, keyboardVars, clientVars, bindingVars
  <2> QED BY <2>1, <2>2, Aside
<1>13. CASE UNCHANGED keysVars
  <2>1. UNCHANGED <<keyBindings, enabled, held, told, pending>>
    BY <1>13 DEF keysVars, bindingVars
  <2>2. Plain'
    BY <1>13 DEF keysVars, KeysTypeOK, Plain, keyboardVars, clientVars, bindingVars, seatVars
  <2> QED BY <2>1, <2>2, Aside
<1> QED
  BY <1>1, <1>2, <1>3, <1>4, <1>5, <1>6, <1>7, <1>8, <1>9, <1>10, <1>11, <1>12, <1>13
  DEF KeysNext

\* Once its queue is flushed the manager believes a binding pressed exactly when a
\* key holds it, and the queue names only bindings that exist, however many events
\* wait and whatever was destroyed meanwhile (river_wm.c 654-671, 711-784, 899-957).
THEOREM ManagerHearsBindings == KeysSpec => []LastEventTellsHeld
<1>1. Fits => LastEventTellsHeld
  BY TypesAre, ToldIs DEF Fits
<1> QED  BY <1>1, InitTells, NextTells, PTL DEF KeysSpec

-----------------------------------------------------------------------------
(* The objects of a window manager.                                        *)

\* An object is of a kind, has a subject that fits, and points at it or nowhere.
WellMade(r, x) ==
    /\ r \in Objects
    /\ r[1] \in {"window", "node"} => r[2] \in Windows
    /\ r[1] \in {"output", "layer output"} => r[2] \in Outputs
    /\ r[1] \in {"seat", "layer seat"} => r[2] = None
    /\ r[1] \in {"shell", "shell node"} => r[2] \in Shells
    /\ r[1] # "node" => r[4] = 1
    /\ x \in {None, r[2]}
    /\ r[1] = "shell" => x = r[2]

\* The window w, whose struct is x, while the user data are d and m manages: the
\* objects it tracks point back at it, its struct is there as long as anything
\* refers to it, and what points at a closed window is tracked.
Tracked(w, x, d, m) ==
    /\ x.resource # None =>
         x.resource \in DOMAIN d /\ d[x.resource] = w /\ x.resource[1] = "window"
    /\ x.node # None => x.node \in DOMAIN d /\ d[x.node] = w /\ x.node[1] = "node"
    /\ x.memory = (x.swc \/ x.resource # None \/ x.node # None)
    /\ x.swc /\ x.resource # None => m # None /\ x.resource = Object("window", w, m)
    /\ ~x.swc => \A r \in DOMAIN d : d[r] = w => r \in {x.resource, x.node}

\* An output is advertised to the manager, if to anybody.
OutputHeld(o, x, d, m) ==
    /\ x.resource # None =>
         m # None /\ x.resource = Object("output", o, m) /\ x.resource \in DOMAIN d
    /\ x.layer # None => x.layer \in DOMAIN d

\* The objects of a shell surface are all tracked, and go with its view.
ShellHeld(s, x, d) ==
    /\ x.view => x.resource \in DOMAIN d /\ x.resource[1] = "shell" /\ d[x.resource] = s
    /\ ~x.view => x = NoShell
    /\ x.node # None => x.node \in DOMAIN d /\ x.node[1] = "shell node" /\ x.node[2] = s
    /\ \A r \in DOMAIN d : d[r] = s => r \in {x.resource, x.node}

SeatsHeld ==
    /\ seat # None =>
         manager # None /\ seat = Object("seat", None, manager) /\ seat \in DOMAIN data
    /\ layerSeat # None => layerSeat \in DOMAIN data

ObjectsHeld ==
    /\ \A r \in DOMAIN data : WellMade(r, data[r])
    /\ \A w \in Windows : Tracked(w, windows[w], data, manager)
    /\ \A o \in Outputs : OutputHeld(o, outputs[o], data, manager)
    /\ \A s \in Shells : ShellHeld(s, shells[s], data)
    /\ SeatsHeld
    /\ \A w \in queue : windows[w].memory

\* Nobody who does not manage believes anything.
Ignorant == manager = None => knows = Nothing

RInv == TypeOK /\ ObjectsHeld /\ BeliefIsKept /\ Ignorant

WindowType ==
    [swc : BOOLEAN, memory : BOOLEAN, resource : Objects \cup {None},
     node : Objects \cup {None}, sent : Sizes \cup {0}, committed : Sizes \cup {0},
     shown : Sizes \cup {0}]

-----------------------------------------------------------------------------
\* What the name of an object tells.
LEMMA NewObject ==
    ASSUME NEW k \in Kinds, NEW c \in Clients,
           NEW x \in Windows \cup Outputs \cup Shells \cup {None}
    PROVE  Object(k, x, c) \in Objects
  BY DEF Object, Objects

LEMMA NewKinds ==
    {"window", "output", "layer output", "seat", "layer seat", "shell", "shell node"} \subseteq Kinds
  BY DEF Kinds

\* What becomes of a window when others than its own objects come, go or lose
\* their user data.
LEMMA TrackedMore ==
    ASSUME NEW w, NEW x, NEW d, NEW m, Tracked(w, x, d, m), NEW e,
           \A r \in DOMAIN d : r \in DOMAIN e /\ (d[r] = w => e[r] = w),
           ~x.swc => \A r \in DOMAIN e : e[r] = w => r \in DOMAIN d /\ d[r] = w
    PROVE  Tracked(w, x, e, m)
  BY DEF Tracked

LEMMA ShellMore ==
    ASSUME NEW s, NEW x, NEW d, ShellHeld(s, x, d), NEW e,
           \A r \in DOMAIN d : r \in DOMAIN e /\ (d[r] = s => e[r] = s),
           \A r \in DOMAIN e : e[r] = s => r \in DOMAIN d /\ d[r] = s
    PROVE  ShellHeld(s, x, e)
  BY DEF ShellHeld

LEMMA OutputMore ==
    ASSUME NEW o, NEW x, NEW d, NEW m, OutputHeld(o, x, d, m), NEW e,
           DOMAIN d \subseteq DOMAIN e
    PROVE  OutputHeld(o, x, e, m)
  BY DEF OutputHeld

\* The windows and shell surfaces when the objects in gone are destroyed.
WindowAfter(x, gone) ==
    LET y == LoseNode(LoseResource(x, gone), gone) IN IF y.memory THEN y ELSE NoWindow
ShellAfter(x, gone) == LoseShellNode(LoseShell(x, gone), gone)

\* The user data e are what remains of d when the objects in gone go and those in
\* cleared, shell nodes, lose theirs; nothing that did not do so points at x.
Remains(x, d, gone, cleared, e) ==
    /\ None \notin gone
    /\ DOMAIN e = DOMAIN d \ gone
    /\ \A r \in DOMAIN e : r[1] # "shell node" => e[r] = d[r]
    /\ \A r \in DOMAIN e : e[r] = x => d[r] = x /\ r \notin cleared

\* A window of which objects are destroyed forgets these, and is freed with the last.
LEMMA WindowLoses ==
    ASSUME NEW w \in Windows, NEW x \in WindowType, NEW d, NEW m, Tracked(w, x, d, m),
           NEW gone, NEW cleared, NEW e, Remains(w, d, gone, cleared, e)
    PROVE  LET z == WindowAfter(x, gone)
           IN /\ z \in WindowType /\ Tracked(w, z, e, m)
              /\ z.swc = x.swc /\ (x.swc => z.sent = x.sent)
              /\ z.resource = IF x.resource \in gone THEN None ELSE x.resource
<1> DEFINE z == WindowAfter(x, gone)
           a == LoseResource(x, gone)
           y == LoseNode(a, gone)
           resource == IF x.resource \in gone THEN None ELSE x.resource
           node == IF x.node \in gone THEN None ELSE x.node
<1>1. /\ a \in WindowType /\ a.swc = x.swc /\ a.sent = x.sent
      /\ a.resource = resource /\ a.node = x.node
      /\ a.memory = (x.swc \/ resource # None \/ x.node # None)
  <2>1. CASE x.resource \in gone
    BY <2>1 DEF LoseResource, MaybeFree, WindowType
  <2>2. CASE x.resource \notin gone
    BY <2>2 DEF LoseResource, Tracked
  <2> QED  BY <2>1, <2>2
<1>0. z = IF y.memory THEN y ELSE NoWindow
  BY DEF WindowAfter
<1> HIDE DEF a, resource, z
<1>2. /\ y \in WindowType /\ y.swc = x.swc /\ y.sent = x.sent
      /\ y.resource = resource /\ y.node = node
      /\ y.memory = (x.swc \/ resource # None \/ node # None)
  <2>1. CASE x.node \in gone
    BY <1>1, <2>1, ZenonT(30) DEF LoseNode, MaybeFree, WindowType
  <2>2. CASE x.node \notin gone
    BY <1>1, <2>2 DEF LoseNode
  <2> QED  BY <2>1, <2>2
<1> HIDE DEF y, node
<1>3. /\ z \in WindowType /\ z.swc = x.swc /\ (x.swc => z.sent = x.sent)
      /\ z.resource = resource /\ z.node = node
      /\ z.memory = (x.swc \/ resource # None \/ node # None)
  <2>1. CASE y.memory
    <3>1. z = y  BY <1>0, <2>1
    <3> QED  BY <1>2, <2>1, <3>1
  <2>2. CASE ~y.memory
    <3>1. z = NoWindow  BY <1>0, <2>2
    <3>2. x.swc = FALSE /\ resource = None /\ node = None
      BY <1>2, <2>2 DEF WindowType
    <3>3. NoWindow \in WindowType  BY DEF NoWindow, WindowType
    <3>4. /\ ~NoWindow.swc /\ ~NoWindow.memory /\ NoWindow.swc = FALSE /\ NoWindow.memory = FALSE
          /\ NoWindow.resource = None /\ NoWindow.node = None
      BY DEF NoWindow
    <3>5. z \in WindowType  BY <3>1, <3>3
    <3>6. z.swc = x.swc   BY <3>1, <3>2, <3>4
    <3>7. (x.swc => z.sent = x.sent)  BY <3>2
    <3>8. z.resource = resource /\ z.node = node  BY <3>1, <3>2, <3>4
    <3>9. z.memory = (x.swc \/ resource # None \/ node # None)  BY <3>1, <3>2, <3>4
    <3> QED  BY <3>5, <3>6, <3>7, <3>8, <3>9
  <2> QED  BY <2>1, <2>2
<1>4. Tracked(w, z, e, m)
  BY <1>3 DEF Tracked, Remains, resource, node
<1> QED  BY <1>3, <1>4 DEF resource, z

OutputType == [resource : Objects \cup {None}, layer : Objects \cup {None}]
ShellType == [view : BOOLEAN, resource : Objects \cup {None}, node : Objects \cup {None}]

\* A shell surface whose object is destroyed is as if it had never been; one whose
\* node is destroyed forgets it.
LEMMA ShellLoses ==
    ASSUME NEW s \in Shells, NEW x \in ShellType, NEW d, ShellHeld(s, x, d),
           NEW gone, NEW cleared, NEW e, Remains(s, d, gone, cleared, e),
           x.resource \in gone => x.node \in cleared
    PROVE  ShellAfter(x, gone) \in ShellType /\ ShellHeld(s, ShellAfter(x, gone), e)
<1> DEFINE z == ShellAfter(x, gone)
<1>0. z = LoseShellNode(LoseShell(x, gone), gone) /\ None \notin gone
  BY DEF ShellAfter, Remains
<1> HIDE DEF z
<1>1. CASE x.resource \in gone
  <2>1. z = NoShell
    BY <1>0, <1>1 DEF LoseShell, WithoutView, LoseShellNode, NoShell
  <2>2. \A r \in DOMAIN e : e[r] # s
    BY <1>1 DEF ShellHeld, Remains
  <2>3. NoShell \in ShellType /\ ~NoShell.view /\ NoShell.node = None
    BY DEF NoShell, ShellType
  <2>4. ShellHeld(s, NoShell, e)  BY <2>2, <2>3 DEF ShellHeld
  <2>5. ShellHeld(s, z, e)  BY <2>1, <2>4
  <2>6. z \in ShellType  BY <2>1, <2>3
  <2> QED  BY <2>5, <2>6 DEF z
<1>2. CASE x.resource \notin gone
  <2> DEFINE node == IF x.node \in gone THEN None ELSE x.node
  <2>1. z = [x EXCEPT !.node = node]
    BY <1>0, <1>2 DEF LoseShell, LoseShellNode
  <2>2. /\ z \in ShellType /\ z.view = x.view /\ z.resource = x.resource /\ z.node = node
        /\ x.node = None => z = x
    BY <2>1 DEF ShellType
  <2>3. ~x.view => x.node = None /\ x = NoShell
    <3>1. NoShell.node = None  BY DEF NoShell
    <3> QED  BY <3>1 DEF ShellHeld
  <2>4. x.view => x.resource \in DOMAIN e /\ e[x.resource] = s /\ x.resource[1] = "shell"
    BY <1>2 DEF ShellHeld, Remains
  <2>5. \A r \in DOMAIN e : e[r] = s => r \in {x.resource, node}
    BY DEF ShellHeld, Remains
  <2>6. node # None => node \in DOMAIN e /\ node[1] = "shell node" /\ node[2] = s
    BY DEF ShellHeld, Remains
  <2> HIDE DEF node
  <2>7. ~z.view => z = NoShell  BY <2>2, <2>3
  <2>8. z.view => z.resource \in DOMAIN e /\ e[z.resource] = s /\ z.resource[1] = "shell"
    BY <2>2, <2>4
  <2>9. ShellHeld(s, z, e)  BY <2>2, <2>5, <2>6, <2>7, <2>8 DEF ShellHeld
  <2> QED  BY <2>2, <2>9 DEF z
<1> QED  BY <1>1, <1>2 DEF z

\* The objects in gone are destroyed, over windows and outputs that are as they
\* should be while m manages: nothing that stays points at what is freed.
LEMMA DestroyedHolds ==
    ASSUME TypeOK, ObjectsHeld, NEW m, NEW gone \in SUBSET DOMAIN data,
           NEW ws \in [Windows -> WindowType], NEW os \in [Outputs -> OutputType],
           \A w \in Windows : Tracked(w, ws[w], data, m),
           \A o \in Outputs : OutputHeld(o, os[o], data, m),
           Destroyed(ws, os, gone)
    PROVE  /\ windows' \in [Windows -> WindowType]
           /\ \A w \in Windows :
                /\ Tracked(w, windows'[w], data', m)
                /\ windows'[w].swc = ws[w].swc
                /\ ws[w].swc => windows'[w].sent = ws[w].sent
                /\ windows'[w].resource = IF ws[w].resource \in gone THEN None ELSE ws[w].resource
           /\ outputs' \in [Outputs -> OutputType]
           /\ \A o \in Outputs :
                /\ OutputHeld(o, outputs'[o], data', m)
                /\ outputs'[o].resource = IF os[o].resource \in gone THEN None ELSE os[o].resource
           /\ shells' \in [Shells -> ShellType]
           /\ \A s \in Shells : ShellHeld(s, shells'[s], data')
           /\ DOMAIN data' = DOMAIN data \ gone
           /\ \A r \in DOMAIN data' : WellMade(r, data'[r])
           /\ layerSeat' \in Objects \cup {None}
           /\ layerSeat' # None => layerSeat' \in DOMAIN data'
           /\ queue' \subseteq Windows /\ \A w \in queue' : windows'[w].memory
<1>1. /\ DOMAIN data \subseteq Objects /\ None \notin gone /\ None \notin DOMAIN data
      /\ shells \in [Shells -> ShellType]
  BY RiverObjectsAssumption DEF TypeOK, ShellType
<1>2. /\ windows' = [w \in Windows |->
           LET x == LoseNode(LoseResource(ws[w], gone), gone) IN IF x.memory THEN x ELSE NoWindow]
      /\ outputs' = [o \in Outputs |-> LoseLayer(LoseOutput(os[o], gone), gone)]
      /\ shells' = [s \in Shells |-> LoseShellNode(LoseShell(shells[s], gone), gone)]
      /\ data' = [r \in DOMAIN data \ gone |->
                    IF r \in NodesCleared(gone) THEN None ELSE data[r]]
      /\ queue' = Kept(windows')
      /\ layerSeat' = LoseLayerSeat(gone)
  BY DEF Destroyed
<1>3. /\ \A s \in Shells : ShellHeld(s, shells[s], data)
      /\ \A r \in DOMAIN data : WellMade(r, data[r])
      /\ SeatsHeld
  BY DEF ObjectsHeld
<1>4. \A r \in NodesCleared(gone) : r = None \/ r[1] = "shell node"
  <2>1. \A s \in Shells : shells[s].node = None \/ shells[s].node[1] = "shell node"
    BY <1>3 DEF ShellHeld
  <2> QED  BY <2>1 DEF NodesCleared
<1>5. /\ DOMAIN data' = DOMAIN data \ gone
      /\ \A r \in DOMAIN data' :
           /\ data'[r] = IF r \in NodesCleared(gone) THEN None ELSE data[r]
           /\ r[1] # "shell node" => data'[r] = data[r]
  BY <1>1, <1>2, <1>4
<1>6. ASSUME NEW w \in Windows
      PROVE  /\ windows'[w] \in WindowType
             /\ Tracked(w, windows'[w], data', m)
             /\ windows'[w].swc = ws[w].swc
             /\ ws[w].swc => windows'[w].sent = ws[w].sent
             /\ windows'[w].resource = IF ws[w].resource \in gone THEN None ELSE ws[w].resource
  <2>1. Remains(w, data, gone, NodesCleared(gone), data')
    BY <1>1, <1>5, RiverObjectsAssumption DEF Remains
  <2>2. ws[w] \in WindowType /\ Tracked(w, ws[w], data, m)
    OBVIOUS
  <2>3. windows'[w] = WindowAfter(ws[w], gone)
    BY <1>2 DEF WindowAfter
  <2> QED  BY <2>1, <2>2, <2>3, WindowLoses
<1>7. ASSUME NEW o \in Outputs
      PROVE  /\ outputs'[o] \in OutputType
             /\ OutputHeld(o, outputs'[o], data', m)
             /\ outputs'[o].resource = IF os[o].resource \in gone THEN None ELSE os[o].resource
  <2>1. os[o] \in OutputType /\ OutputHeld(o, os[o], data, m)
    OBVIOUS
  <2>2. outputs'[o] = LoseLayer(LoseOutput(os[o], gone), gone)
    BY <1>2
  <2>3. /\ outputs'[o] \in OutputType
        /\ outputs'[o].resource = IF os[o].resource \in gone THEN None ELSE os[o].resource
        /\ outputs'[o].layer = IF os[o].layer \in gone THEN None ELSE os[o].layer
    BY <2>1, <2>2 DEF LoseLayer, LoseOutput, OutputType
  <2> QED  BY <1>5, <2>1, <2>3 DEF OutputHeld
<1>8. ASSUME NEW s \in Shells
      PROVE  shells'[s] \in ShellType /\ ShellHeld(s, shells'[s], data')
  <2>1. shells[s] \in ShellType /\ ShellHeld(s, shells[s], data)
    BY <1>1, <1>3
  <2>2. shells'[s] = ShellAfter(shells[s], gone)
    BY <1>2 DEF ShellAfter
  <2>3. shells[s].resource \in gone => shells[s].node \in NodesCleared(gone)
    BY DEF NodesCleared
  <2>4. Remains(s, data, gone, NodesCleared(gone), data')
    BY <1>1, <1>5, RiverObjectsAssumption DEF Remains
  <2> QED  BY <2>1, <2>2, <2>3, <2>4, ShellLoses
<1>9. ASSUME NEW r \in DOMAIN data' PROVE WellMade(r, data'[r])
  BY <1>3, <1>5 DEF WellMade
<1>10. /\ layerSeat' \in Objects \cup {None}
       /\ layerSeat' # None => layerSeat' \in DOMAIN data'
  BY <1>2, <1>3, <1>5 DEF LoseLayerSeat, SeatsHeld, TypeOK
<1>11. queue' \subseteq Windows /\ \A w \in queue' : windows'[w].memory
  BY <1>2 DEF Kept, TypeOK
<1>12. /\ windows' \in [Windows -> WindowType]
       /\ outputs' \in [Outputs -> OutputType]
       /\ shells' \in [Shells -> ShellType]
  BY <1>2, <1>6, <1>7, <1>8
<1> QED  BY <1>5, <1>6, <1>7, <1>8, <1>9, <1>10, <1>11, <1>12

KnowsType == [windows : SUBSET Windows, size : [Windows -> Sizes \cup {0}],
              outputs : SUBSET Outputs, place : BOOLEAN]

\* What the invariant says of each variable, and what is enough for it to hold.
LEMMA Facts ==
    ASSUME RInv
    PROVE  /\ windows \in [Windows -> WindowType] /\ outputs \in [Outputs -> OutputType]
           /\ shells \in [Shells -> ShellType] /\ manager \in Clients \cup {None}
           /\ seat \in Objects \cup {None} /\ layerSeat \in Objects \cup {None}
           /\ DOMAIN data \subseteq Objects /\ None \notin DOMAIN data
           /\ \A r \in DOMAIN data : WellMade(r, data[r])
           /\ \A w \in Windows : Tracked(w, windows[w], data, manager)
           /\ \A o \in Outputs : OutputHeld(o, outputs[o], data, manager)
           /\ \A s \in Shells : ShellHeld(s, shells[s], data)
           /\ SeatsHeld
           /\ queue \subseteq Windows /\ \A w \in queue : windows[w].memory
           /\ place \in {"unsent", "there", "away"} /\ knows \in KnowsType
  BY RiverObjectsAssumption
  DEF RInv, TypeOK, ObjectsHeld, WindowType, OutputType, ShellType, KnowsType

LEMMA Assembled ==
    ASSUME windows' \in [Windows -> WindowType], outputs' \in [Outputs -> OutputType],
           shells' \in [Shells -> ShellType], manager' \in Clients \cup {None},
           seat' \in Objects \cup {None}, layerSeat' \in Objects \cup {None},
           \A r \in DOMAIN data' : WellMade(r, data'[r]),
           \A w \in Windows : Tracked(w, windows'[w], data', manager'),
           \A o \in Outputs : OutputHeld(o, outputs'[o], data', manager'),
           \A s \in Shells : ShellHeld(s, shells'[s], data'), SeatsHeld',
           queue' \subseteq Windows, \A w \in queue' : windows'[w].memory,
           place' \in {"unsent", "there", "away"}, knows' \in KnowsType
    PROVE  TypeOK' /\ ObjectsHeld'
<1>1. ASSUME NEW r \in DOMAIN data'
      PROVE  r \in Objects /\ data'[r] \in Windows \cup Outputs \cup Shells \cup {None}
  <2>1. WellMade(r, data'[r])  OBVIOUS
  <2>2. r \in Objects /\ data'[r] \in {None, r[2]}  BY <2>1 DEF WellMade
  <2> QED  BY <2>2 DEF Objects
<1>2. TypeOK'  BY <1>1 DEF TypeOK, WindowType, OutputType, ShellType, KnowsType
<1>3. ObjectsHeld'  BY DEF ObjectsHeld
<1> QED  BY <1>2, <1>3

\* One window changes and its objects do not.
LEMMA OneWindow ==
    ASSUME RInv, NEW w \in Windows, NEW z \in WindowType, Tracked(w, z, data, manager),
           windows' = [windows EXCEPT ![w] = z],
           UNCHANGED <<outputs, shells, manager, seat, layerSeat, data, place>>,
           queue' \subseteq Windows, \A q \in queue' : windows'[q].memory,
           knows' \in KnowsType
    PROVE  TypeOK' /\ ObjectsHeld'
<1>1. windows' \in [Windows -> WindowType]  BY Facts
<1>2. \A v \in Windows : Tracked(v, windows'[v], data', manager')  BY Facts
<1>3. SeatsHeld'  BY Facts DEF SeatsHeld
<1> QED  BY <1>1, <1>2, <1>3, Facts, Assembled

\* The manager is told nothing where there is nothing to tell.
LEMMA OneBelief ==
    ASSUME RInv, NEW w \in Windows, NEW z \in WindowType,
           windows' = [windows EXCEPT ![w] = z], UNCHANGED <<outputs, manager, knows>>,
           z.swc /\ z.resource # None <=> windows[w].swc /\ windows[w].resource # None,
           z.swc => z.sent = windows[w].sent \/ z.resource = None
    PROVE  BeliefIsKept' /\ Ignorant'
<1>1. \A v \in Windows : v # w => windows'[v] = windows[v]  BY Facts
<1>2. windows'[w] = z  BY Facts
<1>3. BeliefIsKept  BY DEF RInv
<1>4. BeliefIsKept'  BY <1>1, <1>2, <1>3 DEF BeliefIsKept
<1> QED  BY <1>4 DEF RInv, Ignorant

-----------------------------------------------------------------------------
(* One lemma for each action.                                              *)

\* river_wm_add_window(): nothing refers to the struct yet.
LEMMA AddWindowHolds == ASSUME RInv, NEW w \in Windows, AddWindow(w) PROVE RInv'
<1> DEFINE z == [NoWindow EXCEPT !.swc = TRUE, !.memory = TRUE]
<1>1. z \in WindowType /\ z.swc /\ z.resource = None
  BY DEF NoWindow, WindowType
<1>2. Tracked(w, z, data, manager)
  BY DEF NoWindow, Tracked
<1>3. ~windows[w].swc  BY Facts DEF AddWindow, Tracked
<1>4. windows' = [windows EXCEPT ![w] = z]  BY DEF AddWindow
<1> HIDE DEF z
<1>5. \A q \in queue : windows'[q].memory  BY <1>4, Facts DEF AddWindow
<1>6. TypeOK' /\ ObjectsHeld'
  BY <1>1, <1>2, <1>4, <1>5, Facts, OneWindow DEF AddWindow
<1>7. BeliefIsKept' /\ Ignorant'
  BY <1>1, <1>3, <1>4, OneBelief DEF AddWindow
<1> QED  BY <1>6, <1>7 DEF RInv

\* handle_window_destroy(): what points at the window is tracked from here on, and
\* the manager that has it is told.
LEMMA CloseWindowHolds == ASSUME RInv, NEW w \in Windows, CloseWindow(w) PROVE RInv'
<1> DEFINE x == windows[w]
           a == [x EXCEPT !.swc = FALSE, !.committed = 0, !.shown = 0]
           y == MaybeFree(a)
           z == IF y.memory THEN y ELSE NoWindow
<1>1. x \in WindowType /\ Tracked(w, x, data, manager) /\ x.swc  BY Facts DEF CloseWindow
<1>2. windows' = [windows EXCEPT ![w] = z]  BY DEF CloseWindow
<1>3. \A r \in DOMAIN data : data[r] = w => r \in {x.resource, x.node}
  BY DEF CloseWindow, Referring
<1>4. knows' = IF x.resource = None THEN knows ELSE KnowsNot(w)  BY DEF CloseWindow
<1> HIDE DEF x
<1>5. /\ a \in WindowType /\ ~a.swc /\ a.swc = FALSE
      /\ a.resource = x.resource /\ a.node = x.node
  BY <1>1 DEF WindowType
<1> HIDE DEF a
<1>6. /\ y \in WindowType /\ ~y.swc /\ y.resource = x.resource /\ y.node = x.node
      /\ y.memory = (x.resource # None \/ x.node # None)
  BY <1>5 DEF MaybeFree, WindowType
<1> HIDE DEF y
<1>7. /\ z \in WindowType /\ ~z.swc /\ z.swc = FALSE
      /\ z.resource = x.resource /\ z.node = x.node
      /\ z.memory = (x.resource # None \/ x.node # None)
  <2>1. CASE y.memory
    BY <1>6, <2>1 DEF WindowType
  <2>2. CASE ~y.memory
    <3>1. z = NoWindow  BY <2>2
    <3>2. x.resource = None /\ x.node = None  BY <1>6, <2>2
    <3>3. NoWindow \in WindowType  BY DEF NoWindow, WindowType
    <3>4. /\ ~NoWindow.swc /\ ~NoWindow.memory /\ NoWindow.swc = FALSE
          /\ NoWindow.memory = FALSE /\ NoWindow.resource = None /\ NoWindow.node = None
      BY DEF NoWindow
    <3> HIDE DEF z
    <3>5. z.memory = (x.resource # None \/ x.node # None)  BY <3>1, <3>2, <3>4
    <3> QED  BY <3>1, <3>2, <3>3, <3>4, <3>5
  <2> QED  BY <2>1, <2>2
<1> HIDE DEF z
<1>8. Tracked(w, z, data, manager)
  BY <1>1, <1>3, <1>7 DEF Tracked
<1>9. queue' \subseteq Windows /\ \A q \in queue' : windows'[q].memory
  BY Facts DEF CloseWindow, Kept
<1>10. knows' \in KnowsType
  BY <1>4, Facts DEF KnowsType, KnowsNot
<1>11. TypeOK' /\ ObjectsHeld'
  BY <1>2, <1>7, <1>8, <1>9, <1>10, OneWindow DEF CloseWindow
<1>12. CASE x.resource = None
  <2>1. UNCHANGED <<outputs, manager, knows>>  BY <1>4, <1>12 DEF CloseWindow
  <2>2. BeliefIsKept' /\ Ignorant'
    BY <1>2, <1>7, <1>12, <2>1, OneBelief DEF x
  <2> QED  BY <1>11, <2>2 DEF RInv
<1>13. CASE x.resource # None
  <2>1. knows' = [knows EXCEPT !.windows = @ \ {w}, !.size[w] = 0]
    BY <1>4, <1>13 DEF KnowsNot
  <2>2. manager' = manager /\ outputs' = outputs /\ manager # None
    BY <1>1, <1>13 DEF CloseWindow, Tracked
  <2>3. /\ \A v \in Windows : v # w => windows'[v] = windows[v]
        /\ windows'[w] = z
    BY <1>2, Facts
  <2>4. /\ knows'.windows = knows.windows \ {w} /\ knows'.outputs = knows.outputs
        /\ \A v \in Windows : v # w => knows'.size[v] = knows.size[v]
    BY <2>1, Facts DEF KnowsType
  <2>5. BeliefIsKept'
    BY <1>7, <2>2, <2>3, <2>4 DEF RInv, BeliefIsKept
  <2>6. Ignorant'  BY <2>2 DEF Ignorant
  <2> QED  BY <1>11, <2>5, <2>6 DEF RInv
<1> QED  BY <1>12, <1>13

\* A size is committed or shown: that of the struct, not the one that was sent.
LEMMA SizeHolds ==
    ASSUME RInv, NEW w \in Windows,
           ShowSize(w) \/ \E s \in Sizes : CommitSize(w, s)
    PROVE  RInv'
<1>1. PICK z \in WindowType :
        /\ windows' = [windows EXCEPT ![w] = z]
        /\ z.swc = windows[w].swc /\ z.memory = windows[w].memory /\ z.sent = windows[w].sent
        /\ z.resource = windows[w].resource /\ z.node = windows[w].node
  <2>1. windows[w] \in WindowType  BY Facts
  <2>2. CASE ShowSize(w)
    <3>1. [windows[w] EXCEPT !.shown = windows[w].committed] \in WindowType
      BY <2>1 DEF WindowType
    <3> QED  BY <2>1, <2>2, <3>1 DEF ShowSize, WindowType
  <2>3. ASSUME NEW s \in Sizes, CommitSize(w, s)
        PROVE  \E z \in WindowType :
                 /\ windows' = [windows EXCEPT ![w] = z]
                 /\ z.swc = windows[w].swc /\ z.memory = windows[w].memory
                 /\ z.sent = windows[w].sent
                 /\ z.resource = windows[w].resource /\ z.node = windows[w].node
    <3>1. [windows[w] EXCEPT !.committed = s] \in WindowType
      BY <2>1 DEF WindowType
    <3> QED  BY <2>1, <2>3, <3>1 DEF CommitSize, WindowType
  <2> QED  BY <2>2, <2>3
<1>2. UNCHANGED <<outputs, shells, manager, seat, layerSeat, data, queue, place, knows>>
  BY DEF ShowSize, CommitSize
<1>3. Tracked(w, windows[w], data, manager)  BY Facts
<1>4. Tracked(w, z, data, manager)  BY <1>1, <1>3 DEF Tracked
<1>5. \A q \in queue : windows'[q].memory  BY <1>1, Facts
<1>6. TypeOK' /\ ObjectsHeld'
  BY <1>1, <1>2, <1>4, <1>5, Facts, OneWindow
<1>7. BeliefIsKept' /\ Ignorant'
  BY <1>1, <1>2, OneBelief
<1> QED  BY <1>6, <1>7 DEF RInv

\* An object that comes, points at x and may take the place of another one that
\* pointed there: nothing changes for the windows and surfaces other than x.
LEMMA Arrives ==
    ASSUME RInv, NEW r, r \notin DOMAIN data, NEW x, WellMade(r, x), NEW old,
           old \in DOMAIN data => old[1] = "node" /\ data[old] = x,
           data' = With(Cleared(data, old), r, x)
    PROVE  /\ DOMAIN data' = DOMAIN data \cup {r}
           /\ \A q \in DOMAIN data :
                data'[q] = IF q = old THEN None ELSE data[q]
           /\ data'[r] = x
           /\ \A q \in DOMAIN data' : WellMade(q, data'[q])
           /\ \A w \in Windows : x # w => Tracked(w, windows[w], data', manager)
           /\ \A o \in Outputs : OutputHeld(o, outputs[o], data', manager)
           /\ \A s \in Shells : x # s => ShellHeld(s, shells[s], data')
<1>1. /\ DOMAIN data' = DOMAIN data \cup {r}
      /\ \A q \in DOMAIN data : data'[q] = IF q = old THEN None ELSE data[q]
      /\ data'[r] = x
  BY DEF With, Cleared
<1>2. ASSUME NEW q \in DOMAIN data' PROVE WellMade(q, data'[q])
  <2>1. CASE q = r  BY <1>1, <2>1
  <2>2. CASE q # r /\ q = old
    <3>1. WellMade(q, data[q]) /\ q[1] = "node"  BY <1>1, <2>2, Facts
    <3>2. data'[q] = None  BY <1>1, <2>2
    <3> QED  BY <3>1, <3>2 DEF WellMade
  <2>3. CASE q # r /\ q # old
    BY <1>1, <2>3, Facts
  <2> QED  BY <2>1, <2>2, <2>3
<1>3. ASSUME NEW w \in Windows, x # w PROVE Tracked(w, windows[w], data', manager)
  <2>1. Tracked(w, windows[w], data, manager)  BY Facts
  <2>2. \A q \in DOMAIN data : q \in DOMAIN data' /\ (data[q] = w => data'[q] = w)
    BY <1>1, <1>3
  <2>3. \A q \in DOMAIN data' : data'[q] = w => q \in DOMAIN data /\ data[q] = w
    BY <1>1, <1>3, RiverObjectsAssumption
  <2> QED  BY <2>1, <2>2, <2>3, TrackedMore
<1>4. ASSUME NEW o \in Outputs PROVE OutputHeld(o, outputs[o], data', manager)
  BY <1>1, Facts, OutputMore
<1>5. ASSUME NEW s \in Shells, x # s PROVE ShellHeld(s, shells[s], data')
  <2>1. ShellHeld(s, shells[s], data)  BY Facts
  <2>2. \A q \in DOMAIN data : q \in DOMAIN data' /\ (data[q] = s => data'[q] = s)
    BY <1>1, <1>5
  <2>3. \A q \in DOMAIN data' : data'[q] = s => q \in DOMAIN data /\ data[q] = s
    BY <1>1, <1>5, RiverObjectsAssumption
  <2> QED  BY <2>1, <2>2, <2>3, ShellMore
<1> QED  BY <1>1, <1>2, <1>3, <1>4, <1>5

LEMMA NothingCleared == ASSUME RInv PROVE Cleared(data, None) = data
  BY Facts DEF Cleared

\* window_get_node(): the node before loses its user data with its place.
LEMMA GetNodeHolds ==
    ASSUME RInv, NEW c \in Clients, NEW w \in Windows, NEW n \in {1, 2}, GetNode(c, w, n)
    PROVE  RInv'
<1> DEFINE r == Object("window", w, c)
           node == <<"node", w, c, n>>
           x == data[r]
           old == IF x = None THEN None ELSE windows[x].node
<1>1. /\ r \in DOMAIN data /\ node \notin DOMAIN data
      /\ windows' = IF x = None THEN windows ELSE [windows EXCEPT ![x].node = node]
      /\ data' = With(Cleared(data, old), node, x)
      /\ UNCHANGED <<outputs, shells, manager, seat, layerSeat, queue, place, knows>>
  BY NothingCleared DEF GetNode
<1>2. r[1] = "window" /\ r[2] = w  BY DEF Object
<1>3. x \in {None, w}  BY <1>1, <1>2, Facts DEF WellMade
<1>4. node \in Objects /\ node # None /\ node[1] = "node" /\ node[2] = w
  <2>1. node \in Objects  BY DEF Objects, Kinds
  <2>2. node # None  BY <2>1, RiverObjectsAssumption
  <2> QED  BY <2>1, <2>2
<1>5. WellMade(node, x)  BY <1>3, <1>4 DEF WellMade
<1>6. Tracked(w, windows[w], data, manager) /\ windows[w] \in WindowType  BY Facts
<1>7. old \in DOMAIN data => old[1] = "node" /\ data[old] = x
  BY <1>3, <1>6, Facts DEF Tracked
<1>8. x \notin Shells  BY <1>3, RiverObjectsAssumption
<1> HIDE DEF node, r, x, old
<1>9. /\ DOMAIN data' = DOMAIN data \cup {node}
      /\ \A q \in DOMAIN data : data'[q] = IF q = old THEN None ELSE data[q]
      /\ data'[node] = x
      /\ \A q \in DOMAIN data' : WellMade(q, data'[q])
      /\ \A v \in Windows : x # v => Tracked(v, windows[v], data', manager)
      /\ \A o \in Outputs : OutputHeld(o, outputs[o], data', manager)
      /\ \A s \in Shells : x # s => ShellHeld(s, shells[s], data')
  BY <1>1, <1>5, <1>7, Arrives
<1>10. /\ \A o \in Outputs : OutputHeld(o, outputs'[o], data', manager')
       /\ \A s \in Shells : ShellHeld(s, shells'[s], data')
       /\ SeatsHeld'
  BY <1>1, <1>8, <1>9, Facts DEF SeatsHeld
<1>11. CASE x = None
  <2>1. \A v \in Windows : Tracked(v, windows'[v], data', manager')
    BY <1>1, <1>9, <1>11, RiverObjectsAssumption
  <2>2. TypeOK' /\ ObjectsHeld'
    BY <1>1, <1>9, <1>10, <1>11, <2>1, Facts, Assembled
  <2>3. BeliefIsKept' /\ Ignorant'
    BY <1>1, <1>11 DEF RInv, BeliefIsKept, Ignorant
  <2> QED  BY <2>2, <2>3 DEF RInv
<1>12. CASE x = w
  <2> DEFINE y == windows[w]
             z == [y EXCEPT !.node = node]
  <2>1. windows' = [windows EXCEPT ![w] = z] /\ x # None /\ old = y.node
    BY <1>1, <1>12, RiverObjectsAssumption DEF old
  <2>2. y \in WindowType /\ Tracked(w, y, data, manager)  BY <1>6
  <2>3. x = data[r]  BY DEF x
  <2>4. /\ \A v \in Windows : v # w => windows'[v] = windows[v]
        /\ windows'[w] = z
    BY <2>1, Facts
  <2> HIDE DEF y
  <2>5. /\ z \in WindowType /\ z.swc = y.swc /\ z.memory = y.memory
        /\ z.resource = y.resource /\ z.node = node /\ z.sent = y.sent
    BY <1>4, <2>2 DEF WindowType
  <2> HIDE DEF z
  <2>6. y.swc \/ y.resource # None
    <3>1. ASSUME ~y.swc PROVE y.resource # None
      <4>1. r \in {y.resource, y.node}
        BY <1>1, <1>12, <2>2, <2>3, <3>1 DEF Tracked
      <4>2. r # y.node
        BY <1>1, <1>2, <2>2, <2>3, Facts DEF Tracked
      <4> QED  BY <1>1, <4>1, <4>2, Facts
    <3> QED  BY <3>1
  <2>7. y.memory = TRUE
    BY <2>2, <2>6 DEF Tracked
  <2>8. y.resource # None =>
          y.resource \in DOMAIN data' /\ data'[y.resource] = w /\ y.resource[1] = "window"
    <3>1. ASSUME y.resource # None PROVE y.resource # old
      BY <2>1, <2>2, <3>1 DEF Tracked
    <3> QED  BY <1>9, <2>2, <3>1 DEF Tracked
  <2>9. ~y.swc => \A q \in DOMAIN data' : data'[q] = w => q \in {y.resource, node}
    BY <1>9, <2>1, <2>2, RiverObjectsAssumption DEF Tracked
  <2>10. Tracked(w, z, data', manager)
    <3>1. z.memory = (z.swc \/ z.resource # None \/ z.node # None)
      BY <2>5, <2>6, <2>7
    <3>2. z.node # None => z.node \in DOMAIN data' /\ data'[z.node] = w /\ z.node[1] = "node"
      BY <1>4, <1>9, <1>12, <2>5
    <3>3. z.swc /\ z.resource # None =>
            manager # None /\ z.resource = Object("window", w, manager)
      BY <2>2, <2>5 DEF Tracked
    <3> QED  BY <2>5, <2>8, <2>9, <3>1, <3>2, <3>3 DEF Tracked
  <2>11. \A v \in Windows : Tracked(v, windows'[v], data', manager')
    BY <1>1, <1>9, <1>12, <2>4, <2>10
  <2>12. \A q \in queue' : windows'[q].memory
    BY <1>1, <2>4, <2>5, <2>7, Facts DEF y
  <2>13. windows' \in [Windows -> WindowType]
    BY <2>1, <2>5, Facts
  <2>14. TypeOK' /\ ObjectsHeld'
    BY <1>1, <1>9, <1>10, <2>11, <2>12, <2>13, Facts, Assembled
  <2>15. BeliefIsKept' /\ Ignorant'
    BY <1>1, <2>1, <2>5, OneBelief DEF y
  <2> QED  BY <2>14, <2>15 DEF RInv
<1> QED  BY <1>3, <1>11, <1>12

\* layer_shell_get_output(): the area points where the output does.
LEMMA LayerGetOutputHolds ==
    ASSUME RInv, NEW c \in Clients, NEW o \in Outputs, LayerGetOutput(c, o) PROVE RInv'
<1> DEFINE r == Object("output", o, c)
           layer == Object("layer output", o, c)
           x == data[r]
<1>1. /\ r \in DOMAIN data /\ layer \notin DOMAIN data
      /\ data' = With(Cleared(data, None), layer, x)
      /\ outputs' = IF x = None THEN outputs ELSE [outputs EXCEPT ![o].layer = layer]
      /\ UNCHANGED <<windows, shells, manager, seat, layerSeat, queue, place, knows>>
  BY NothingCleared DEF LayerGetOutput
<1>2. /\ layer \in Objects /\ layer # None /\ layer[1] = "layer output"
      /\ layer[2] = o /\ layer[4] = 1
  <2>1. layer \in Objects
    BY NewKinds, NewObject
  <2>2. layer # None  BY <2>1, RiverObjectsAssumption
  <2> QED  BY <2>1, <2>2 DEF Object
<1>3. r[1] = "output" /\ r[2] = o  BY DEF Object
<1>4. x \in {None, o}  BY <1>1, <1>3, Facts DEF WellMade
<1>5. WellMade(layer, x)  BY <1>2, <1>4 DEF WellMade
<1>6. x \notin Windows /\ x \notin Shells /\ None \notin DOMAIN data
  BY <1>4, Facts, RiverObjectsAssumption
<1> HIDE DEF layer, r, x
<1>7. /\ DOMAIN data' = DOMAIN data \cup {layer}
      /\ \A q \in DOMAIN data' : WellMade(q, data'[q])
      /\ \A w \in Windows : x # w => Tracked(w, windows[w], data', manager)
      /\ \A p \in Outputs : OutputHeld(p, outputs[p], data', manager)
      /\ \A s \in Shells : x # s => ShellHeld(s, shells[s], data')
  BY <1>1, <1>5, <1>6, Arrives
<1>8. /\ outputs' \in [Outputs -> OutputType]
      /\ \A p \in Outputs : /\ outputs'[p].resource = outputs[p].resource
                            /\ OutputHeld(p, outputs'[p], data', manager)
  <2>1. CASE x = None  BY <1>1, <1>7, <2>1, Facts
  <2>2. CASE x # None
    <3> DEFINE z == [outputs[o] EXCEPT !.layer = layer]
    <3>1. outputs' = [outputs EXCEPT ![o] = z]  BY <1>1, <2>2
    <3>2. outputs[o] \in OutputType /\ OutputHeld(o, outputs[o], data', manager)
      BY <1>7, Facts
    <3>3. z \in OutputType /\ z.resource = outputs[o].resource /\ z.layer = layer
      BY <1>2, <3>2 DEF OutputType
    <3> HIDE DEF z
    <3>4. OutputHeld(o, z, data', manager)  BY <1>7, <3>2, <3>3 DEF OutputHeld
    <3> QED  BY <1>7, <3>1, <3>3, <3>4, Facts
  <2> QED  BY <2>1, <2>2
<1>9. /\ \A w \in Windows : Tracked(w, windows'[w], data', manager')
      /\ \A s \in Shells : ShellHeld(s, shells'[s], data')
      /\ SeatsHeld'
  BY <1>1, <1>6, <1>7, Facts DEF SeatsHeld
<1>10. TypeOK' /\ ObjectsHeld'
  BY <1>1, <1>7, <1>8, <1>9, Facts, Assembled
<1>11. BeliefIsKept' /\ Ignorant'
  BY <1>1, <1>8 DEF RInv, BeliefIsKept, Ignorant
<1> QED  BY <1>10, <1>11 DEF RInv

\* layer_shell_get_seat()
LEMMA LayerGetSeatHolds ==
    ASSUME RInv, NEW c \in Clients, LayerGetSeat(c) PROVE RInv'
<1> DEFINE layer == Object("layer seat", None, c)
<1>1. /\ data' = With(data, layer, None) /\ layerSeat' = layer
      /\ UNCHANGED <<windows, outputs, shells, manager, seat, queue, place, knows>>
  BY DEF LayerGetSeat
<1>2. /\ layer \in Objects /\ layer # None /\ layer[1] = "layer seat"
      /\ layer[2] = None /\ layer[4] = 1
  <2>1. layer \in Objects
    BY NewKinds, NewObject
  <2>2. layer # None  BY <2>1, RiverObjectsAssumption
  <2> QED  BY <2>1, <2>2 DEF Object
<1>3. WellMade(layer, None)  BY <1>2 DEF WellMade
<1> HIDE DEF layer
<1>4. CASE layer \notin DOMAIN data
  <2>1. data' = With(Cleared(data, None), layer, None)  BY <1>1, NothingCleared
  <2>2. None \notin Windows /\ None \notin Shells /\ None \notin DOMAIN data
    BY Facts, RiverObjectsAssumption
  <2>3. /\ DOMAIN data' = DOMAIN data \cup {layer}
        /\ \A q \in DOMAIN data' : WellMade(q, data'[q])
        /\ \A w \in Windows : None # w => Tracked(w, windows[w], data', manager)
        /\ \A o \in Outputs : OutputHeld(o, outputs[o], data', manager)
        /\ \A s \in Shells : None # s => ShellHeld(s, shells[s], data')
    BY <1>3, <1>4, <2>1, <2>2, Arrives
  <2>4. SeatsHeld'  BY <1>1, <2>3, Facts DEF SeatsHeld
  <2>5. TypeOK' /\ ObjectsHeld'
    BY <1>1, <1>2, <2>2, <2>3, <2>4, Facts, Assembled
  <2> QED  BY <1>1, <2>5 DEF RInv, BeliefIsKept, Ignorant
<1>5. CASE layer \in DOMAIN data
  <2>1. data[layer] = None  BY <1>2, <1>5, Facts DEF WellMade
  <2>2. DOMAIN data' = DOMAIN data /\ \A q \in DOMAIN data : data'[q] = data[q]
    BY <1>1, <1>5, <2>1 DEF With
  <2>3. \A w \in Windows : Tracked(w, windows[w], data', manager)
    BY <2>2, Facts DEF Tracked
  <2>4. \A s \in Shells : ShellHeld(s, shells[s], data')
    BY <2>2, Facts, ShellMore
  <2>5. \A o \in Outputs : OutputHeld(o, outputs[o], data', manager)
    BY <2>2, Facts DEF OutputHeld
  <2>6. \A q \in DOMAIN data' : WellMade(q, data'[q])  BY <2>2, Facts
  <2>7. SeatsHeld'  BY <1>1, <1>5, <2>2, Facts DEF SeatsHeld
  <2>8. TypeOK' /\ ObjectsHeld'
    BY <1>1, <1>2, <2>3, <2>4, <2>5, <2>6, <2>7, Facts, Assembled
  <2> QED  BY <1>1, <2>8 DEF RInv, BeliefIsKept, Ignorant
<1> QED  BY <1>4, <1>5

\* A shell surface gets an object that points at it: all its objects are tracked.
LEMMA ShellArrives ==
    ASSUME RInv, NEW s \in Shells, NEW r, r \notin DOMAIN data, WellMade(r, s),
           data' = With(data, r, s), NEW z \in ShellType,
           shells' = [shells EXCEPT ![s] = z], ShellHeld(s, z, data'),
           UNCHANGED <<windows, outputs, manager, seat, layerSeat, queue, place, knows>>
    PROVE  RInv'
<1>1. data' = With(Cleared(data, None), r, s)  BY NothingCleared
<1>2. s \notin Windows /\ s # None /\ None \notin DOMAIN data
  BY Facts, RiverObjectsAssumption
<1>3. /\ DOMAIN data' = DOMAIN data \cup {r}
      /\ \A q \in DOMAIN data' : WellMade(q, data'[q])
      /\ \A w \in Windows : s # w => Tracked(w, windows[w], data', manager)
      /\ \A o \in Outputs : OutputHeld(o, outputs[o], data', manager)
      /\ \A t \in Shells : s # t => ShellHeld(t, shells[t], data')
  BY <1>1, <1>2, Arrives, SMTT(30)
<1>4. /\ shells' \in [Shells -> ShellType]
      /\ \A t \in Shells : ShellHeld(t, shells'[t], data')
  BY <1>3, Facts
<1>5. /\ \A w \in Windows : Tracked(w, windows'[w], data', manager')
      /\ \A o \in Outputs : OutputHeld(o, outputs'[o], data', manager')
      /\ SeatsHeld'
  BY <1>2, <1>3, Facts DEF SeatsHeld
<1>6. TypeOK' /\ ObjectsHeld'  BY <1>3, <1>4, <1>5, Facts, Assembled
<1> QED  BY <1>6 DEF RInv, BeliefIsKept, Ignorant

\* manager_get_shell_surface(): nothing is left that points at the surface.
LEMMA GetShellSurfaceHolds ==
    ASSUME RInv, NEW c \in Clients, NEW s \in Shells, GetShellSurface(c, s) PROVE RInv'
<1> DEFINE r == Object("shell", s, c)
<1>1. /\ r \in Objects /\ r # None /\ r[1] = "shell" /\ r[2] = s /\ r[4] = 1
  <2>1. r \in Objects
    BY NewKinds, NewObject
  <2>2. r # None  BY <2>1, RiverObjectsAssumption
  <2> QED  BY <2>1, <2>2 DEF Object
<1>2. /\ r \notin DOMAIN data /\ data' = With(data, r, s)
      /\ shells' = [shells EXCEPT ![s] = WithView(r)] /\ ~shells[s].view
      /\ UNCHANGED <<windows, outputs, manager, seat, layerSeat, queue, place, knows>>
  BY DEF GetShellSurface
<1> HIDE DEF r
<1>3. WellMade(r, s)  BY <1>1 DEF WellMade
<1>4. \A q \in DOMAIN data : data[q] # s
  <2>1. ShellHeld(s, shells[s], data) /\ None \notin DOMAIN data  BY Facts
  <2>2. shells[s] = NoShell  BY <1>2, <2>1 DEF ShellHeld
  <2>3. shells[s].resource = None /\ shells[s].node = None  BY <2>2 DEF NoShell
  <2> QED  BY <2>1, <2>3 DEF ShellHeld
<1>5. /\ WithView(r) \in ShellType /\ WithView(r).view /\ WithView(r).resource = r
      /\ WithView(r).node = None
  BY <1>1 DEF WithView, ShellType
<1>6. /\ r \in DOMAIN data' /\ data'[r] = s
      /\ \A q \in DOMAIN data' : data'[q] = s => q = r
  BY <1>2, <1>4 DEF With
<1>7. ShellHeld(s, WithView(r), data')
  BY <1>1, <1>5, <1>6 DEF ShellHeld
<1> QED  BY <1>2, <1>3, <1>5, <1>7, ShellArrives

\* shell_surface_get_node(): the surface still has its view.
LEMMA ShellGetNodeHolds ==
    ASSUME RInv, NEW c \in Clients, NEW s \in Shells, ShellGetNode(c, s) PROVE RInv'
<1> DEFINE r == Object("shell", s, c)
           node == Object("shell node", s, c)
           y == shells[s]
           z == [y EXCEPT !.node = node]
<1>1. /\ node \in Objects /\ node # None /\ node[1] = "shell node"
      /\ node[2] = s /\ node[4] = 1
  <2>1. node \in Objects
    BY NewKinds, NewObject
  <2>2. node # None  BY <2>1, RiverObjectsAssumption
  <2> QED  BY <2>1, <2>2 DEF Object
<1>2. r[1] = "shell" /\ r[2] = s  BY DEF Object
<1>3. /\ r \in DOMAIN data /\ node \notin DOMAIN data /\ y.node = None
      /\ data' = With(data, node, s) /\ shells' = [shells EXCEPT ![s] = z]
      /\ UNCHANGED <<windows, outputs, manager, seat, layerSeat, queue, place, knows>>
  BY DEF ShellGetNode
<1>4. y \in ShellType /\ ShellHeld(s, y, data)  BY Facts
<1> HIDE DEF r, node, y
<1>5. data[r] = s  BY <1>2, <1>3, Facts DEF WellMade
<1>6. r = y.resource  BY <1>3, <1>4, <1>5, Facts, ZenonT(30) DEF ShellHeld
<1>7. y.view
  <2>1. NoShell.resource = None  BY DEF NoShell
  <2>2. None \notin DOMAIN data  BY Facts
  <2>3. ~y.view => y = NoShell  BY <1>4 DEF ShellHeld
  <2> QED  BY <1>3, <1>6, <2>1, <2>2, <2>3
<1>8. /\ z \in ShellType /\ z.view = y.view /\ z.resource = r /\ z.node = node
  BY <1>1, <1>4, <1>6 DEF ShellType
<1> HIDE DEF z
<1>9. WellMade(node, s)  BY <1>1 DEF WellMade
<1>10. /\ DOMAIN data' = DOMAIN data \cup {node} /\ data'[node] = s
       /\ \A q \in DOMAIN data : data'[q] = data[q]
  BY <1>3 DEF With
<1>11. \A q \in DOMAIN data' : data'[q] = s => q \in {r, node}
  <2>1. None \notin DOMAIN data  BY Facts
  <2>2. \A q \in DOMAIN data : data[q] = s => q \in {y.resource, y.node}
    BY <1>4 DEF ShellHeld
  <2> QED  BY <1>3, <1>6, <1>10, <2>1, <2>2
<1>12. ShellHeld(s, z, data')
  BY <1>1, <1>2, <1>3, <1>5, <1>7, <1>8, <1>10, <1>11 DEF ShellHeld
<1> QED  BY <1>3, <1>8, <1>9, <1>12, ShellArrives

\* Nothing but the queue and the pointer's place changes.
LEMMA QueueHolds ==
    ASSUME RInv, UNCHANGED <<windows, outputs, shells, manager, seat, layerSeat, data, knows>>,
           queue' \subseteq Windows, \A w \in queue' : windows[w].memory,
           place' \in {"unsent", "there", "away"}
    PROVE  RInv'
<1>1. SeatsHeld'  BY Facts DEF SeatsHeld
<1>2. TypeOK' /\ ObjectsHeld'  BY <1>1, Facts, Assembled
<1> QED  BY <1>2 DEF RInv, BeliefIsKept, Ignorant

\* seat_observe_button(): a window that has an object is there.
LEMMA InteractHolds == ASSUME RInv, NEW w \in Windows, Interact(w) PROVE RInv'
<1>1. windows[w].memory
  <2>1. Tracked(w, windows[w], data, manager)  BY Facts
  <2>2. windows[w].swc  BY DEF Interact
  <2> QED  BY <2>1, <2>2 DEF Tracked
<1>2. queue' = queue \cup {w}  BY DEF Interact, QueueInteraction
<1>3. place' = place
      /\ UNCHANGED <<windows, outputs, shells, manager, seat, layerSeat, data, knows>>
  BY DEF Interact
<1> QED  BY <1>1, <1>2, <1>3, Facts, QueueHolds

LEMMA MovePointerHolds == ASSUME RInv, MovePointer PROVE RInv'
<1>1. place' \in {"unsent", "there", "away"} /\ queue' = queue
      /\ UNCHANGED <<windows, outputs, shells, manager, seat, layerSeat, data, knows>>
  BY DEF MovePointer
<1> QED  BY <1>1, Facts, QueueHolds

\* bind_manager(): nothing is advertised while nobody manages.
LEMMA BindHolds == ASSUME RInv, NEW c \in Clients, Bind(c) PROVE RInv'
<1>1. /\ manager = None /\ manager' = c
      /\ UNCHANGED <<windows, outputs, shells, seat, layerSeat, data, queue, place, knows>>
  BY DEF Bind
<1>2. ASSUME NEW w \in Windows
      PROVE  /\ ~(windows[w].swc /\ windows[w].resource # None)
             /\ Tracked(w, windows[w], data, c)
  <2>1. Tracked(w, windows[w], data, manager)  BY Facts
  <2> QED  BY <1>1, <2>1 DEF Tracked
<1>3. ASSUME NEW o \in Outputs
      PROVE  outputs[o].resource = None /\ OutputHeld(o, outputs[o], data, c)
  <2>1. OutputHeld(o, outputs[o], data, manager)  BY Facts
  <2> QED  BY <1>1, <2>1 DEF OutputHeld
<1>4. SeatsHeld'  BY <1>1, Facts DEF SeatsHeld
<1>5. TypeOK' /\ ObjectsHeld'
  BY <1>1, <1>2, <1>3, <1>4, Facts, Assembled
<1>6. knows' = Nothing  BY <1>1 DEF RInv, Ignorant
<1>7. BeliefIsKept'
  BY <1>1, <1>2, <1>3, <1>6 DEF BeliefIsKept, Nothing
<1>8. Ignorant'  BY <1>1, RiverObjectsAssumption DEF Ignorant
<1> QED  BY <1>5, <1>7, <1>8 DEF RInv

\* manager_resource_destroy(): what stays open forgets its objects, what is closed
\* keeps them until they go.
LEMMA ForgottenHolds ==
    ASSUME RInv
    PROVE  /\ ForgottenWindows \in [Windows -> WindowType]
           /\ \A w \in Windows :
                /\ Tracked(w, ForgottenWindows[w], data, None)
                /\ ForgottenWindows[w].memory = windows[w].memory
           /\ ForgottenOutputs \in [Outputs -> OutputType]
           /\ \A o \in Outputs : OutputHeld(o, ForgottenOutputs[o], data, None)
<1>1. ASSUME NEW w \in Windows
      PROVE  /\ ForgottenWindows[w] \in WindowType
             /\ Tracked(w, ForgottenWindows[w], data, None)
             /\ ForgottenWindows[w].memory = windows[w].memory
  <2> DEFINE y == windows[w]
             z == ForgottenWindows[w]
  <2>1. y \in WindowType /\ Tracked(w, y, data, manager)  BY Facts
  <2>2. z = IF y.swc THEN [y EXCEPT !.resource = None, !.node = None] ELSE y
    BY DEF ForgottenWindows, Forgotten
  <2> HIDE DEF y, z
  <2>3. CASE y.swc
    <3>1. /\ z \in WindowType /\ z.swc = y.swc /\ z.resource = None /\ z.node = None
          /\ z.memory = y.memory
      BY <2>1, <2>2, <2>3 DEF WindowType
    <3>2. Tracked(w, z, data, None)  BY <2>1, <2>3, <3>1 DEF Tracked
    <3> QED  BY <3>1, <3>2 DEF y, z
  <2>4. CASE ~y.swc
    <3>1. z = y  BY <2>2, <2>4
    <3>2. Tracked(w, y, data, None)  BY <2>1, <2>4 DEF Tracked
    <3>3. z \in WindowType /\ Tracked(w, z, data, None) /\ z.memory = y.memory
      BY <2>1, <3>1, <3>2
    <3> QED  BY <3>3 DEF y, z
  <2> QED  BY <2>3, <2>4
<1>2. ASSUME NEW o \in Outputs
      PROVE  /\ ForgottenOutputs[o] \in OutputType
             /\ OutputHeld(o, ForgottenOutputs[o], data, None)
  <2>1. outputs[o] \in OutputType /\ OutputHeld(o, outputs[o], data, manager)  BY Facts
  <2>2. ForgottenOutputs[o] = [outputs[o] EXCEPT !.resource = None]
    BY DEF ForgottenOutputs
  <2>3. /\ ForgottenOutputs[o] \in OutputType /\ ForgottenOutputs[o].resource = None
        /\ ForgottenOutputs[o].layer = outputs[o].layer
    BY <2>1, <2>2 DEF OutputType
  <2> QED  BY <2>1, <2>3 DEF OutputHeld
<1>3. /\ ForgottenWindows \in [Windows -> WindowType]
      /\ ForgottenOutputs \in [Outputs -> OutputType]
  BY <1>1, <1>2 DEF ForgottenWindows, ForgottenOutputs
<1> QED  BY <1>1, <1>2, <1>3

\* Nobody knows anything, which is what there is to know when nobody manages.
LEMMA NothingType == Nothing \in KnowsType
  BY DEF Nothing, KnowsType

LEMMA DestroyManagerHolds == ASSUME RInv, DestroyManager PROVE RInv'
<1>1. /\ manager' = None /\ seat' = None /\ windows' = ForgottenWindows
      /\ outputs' = ForgottenOutputs /\ knows' = Nothing
      /\ UNCHANGED <<shells, layerSeat, data, queue, place>>
  BY DEF DestroyManager
<1>2. SeatsHeld'  BY <1>1, Facts DEF SeatsHeld
<1>3. \A w \in queue' : windows'[w].memory  BY <1>1, Facts, ForgottenHolds
<1>4. TypeOK' /\ ObjectsHeld'
  BY <1>1, <1>2, <1>3, Facts, ForgottenHolds, NothingType, Assembled
<1> QED  BY <1>1, <1>4 DEF RInv, BeliefIsKept, Ignorant

\* begin_render(): the sizes that are sent are those the structs remember.
LEMMA BeginRenderHolds == ASSUME RInv, BeginRender PROVE RInv'
<1> DEFINE resized == {w \in Windows : /\ windows[w].swc /\ windows[w].resource # None
                                       /\ windows[w].committed # windows[w].sent}
<1>1. /\ manager # None
      /\ windows' = [w \in Windows |->
           IF w \in resized THEN [windows[w] EXCEPT !.sent = windows[w].committed] ELSE windows[w]]
      /\ knows' = [knows EXCEPT !.size =
           [w \in Windows |-> IF w \in resized THEN windows[w].committed ELSE knows.size[w]]]
      /\ UNCHANGED <<outputs, shells, manager, seat, layerSeat, data, queue, place>>
  BY DEF BeginRender
<1> HIDE DEF resized
<1>2. ASSUME NEW w \in Windows
      PROVE  /\ windows'[w] \in WindowType
             /\ windows'[w].swc = windows[w].swc
             /\ windows'[w].memory = windows[w].memory
             /\ windows'[w].resource = windows[w].resource
             /\ windows'[w].node = windows[w].node
             /\ windows'[w].sent = IF w \in resized THEN windows[w].committed ELSE windows[w].sent
  <2>1. windows[w] \in WindowType  BY Facts
  <2>2. windows'[w] = IF w \in resized THEN [windows[w] EXCEPT !.sent = windows[w].committed]
                      ELSE windows[w]
    BY <1>1
  <2>3. CASE w \in resized
    BY <2>1, <2>2, <2>3 DEF WindowType
  <2>4. CASE w \notin resized
    BY <2>1, <2>2, <2>4
  <2> QED  BY <2>3, <2>4
<1>3. ASSUME NEW w \in Windows PROVE Tracked(w, windows'[w], data, manager)
  <2>1. Tracked(w, windows[w], data, manager)  BY Facts
  <2> QED  BY <1>2, <2>1 DEF Tracked
<1>4. windows' \in [Windows -> WindowType]  BY <1>1, <1>2
<1>5. SeatsHeld'  BY <1>1, Facts DEF SeatsHeld
<1>6. /\ knows' \in KnowsType /\ knows'.windows = knows.windows
      /\ knows'.outputs = knows.outputs
      /\ \A w \in Windows :
           knows'.size[w] = IF w \in resized THEN windows[w].committed ELSE knows.size[w]
  <2>1. [w \in Windows |-> IF w \in resized THEN windows[w].committed ELSE knows.size[w]]
          \in [Windows -> Sizes \cup {0}]
    BY Facts DEF WindowType, KnowsType
  <2> QED  BY <1>1, <2>1, Facts DEF KnowsType
<1>7. \A w \in queue' : windows'[w].memory  BY <1>1, <1>2, Facts
<1>8. TypeOK' /\ ObjectsHeld'
  BY <1>1, <1>3, <1>4, <1>5, <1>6, <1>7, Facts, Assembled
<1>9. BeliefIsKept'
  BY <1>1, <1>2, <1>6, Facts DEF RInv, BeliefIsKept, KnowsType
<1> QED  BY <1>1, <1>8, <1>9 DEF RInv, Ignorant

\* A window or output that the manager has an object of, and which object it is.
LEMMA TheirObject ==
    ASSUME RInv
    PROVE  /\ \A w \in Windows : windows[w].swc /\ windows[w].resource # None =>
                manager # None /\ windows[w].resource = Object("window", w, manager)
           /\ \A o \in Outputs : outputs[o].resource # None =>
                manager # None /\ outputs[o].resource = Object("output", o, manager)
  BY Facts DEF Tracked, OutputHeld

\* The destructor of one object: whatever the struct tracks forgets it, and the
\* manager forgets what it was told with the object it was told it through.
LEMMA DestroyObjectHolds ==
    ASSUME RInv, NEW r \in DOMAIN data, DestroyObject(r) PROVE RInv'
<1>1. /\ Destroyed(windows, outputs, {r})
      /\ seat' = IF seat = r THEN None ELSE seat
      /\ manager' = manager /\ place' = place
  BY DEF DestroyObject
<1>2. TypeOK /\ ObjectsHeld /\ BeliefIsKept /\ Ignorant  BY DEF RInv
<1>3. /\ windows' \in [Windows -> WindowType]
      /\ \A w \in Windows :
           /\ Tracked(w, windows'[w], data', manager)
           /\ windows'[w].swc = windows[w].swc
           /\ windows[w].swc => windows'[w].sent = windows[w].sent
           /\ windows'[w].resource =
                IF windows[w].resource \in {r} THEN None ELSE windows[w].resource
      /\ outputs' \in [Outputs -> OutputType]
      /\ \A o \in Outputs :
           /\ OutputHeld(o, outputs'[o], data', manager)
           /\ outputs'[o].resource =
                IF outputs[o].resource \in {r} THEN None ELSE outputs[o].resource
      /\ shells' \in [Shells -> ShellType]
      /\ \A s \in Shells : ShellHeld(s, shells'[s], data')
      /\ DOMAIN data' = DOMAIN data \ {r}
      /\ \A q \in DOMAIN data' : WellMade(q, data'[q])
      /\ layerSeat' \in Objects \cup {None}
      /\ layerSeat' # None => layerSeat' \in DOMAIN data'
      /\ queue' \subseteq Windows /\ \A w \in queue' : windows'[w].memory
  <2>1. {r} \in SUBSET DOMAIN data  OBVIOUS
  <2>2. /\ windows \in [Windows -> WindowType] /\ outputs \in [Outputs -> OutputType]
        /\ \A w \in Windows : Tracked(w, windows[w], data, manager)
        /\ \A o \in Outputs : OutputHeld(o, outputs[o], data, manager)
    BY Facts
  <2> QED  BY <1>1, <1>2, <2>1, <2>2, DestroyedHolds
<1>4. WellMade(r, data[r]) /\ r \in Objects /\ r # None  BY Facts
<1>5. manager # r[3] => knows' = knows
  BY DEF DestroyObject
<1>6. manager = r[3] =>
        /\ r[1] = "window" => knows' = KnowsNot(r[2])
        /\ r[1] = "output" => knows' = [knows EXCEPT !.outputs = @ \ {r[2]}]
        /\ r[1] = "seat" => knows' = [knows EXCEPT !.place = FALSE]
        /\ r[1] \notin {"window", "output", "seat"} => knows' = knows
  BY DEF DestroyObject
<1>7. /\ r[1] = "window" /\ r[3] = manager =>
           r[2] \in Windows /\ r = Object("window", r[2], manager)
      /\ r[1] = "output" /\ r[3] = manager =>
           r[2] \in Outputs /\ r = Object("output", r[2], manager)
  <2>1. PICK k \in Kinds, x \in Windows \cup Outputs \cup Shells \cup {None},
             c \in Clients, n \in {1, 2} : r = <<k, x, c, n>>
    BY <1>4 DEF Objects
  <2>2. r[1] = k /\ r[2] = x /\ r[3] = c /\ r[4] = n  BY <2>1
  <2>3. k \in {"window", "output"} => n = 1  BY <1>4, <2>2 DEF WellMade
  <2>4. k = "window" => x \in Windows  BY <1>4, <2>2 DEF WellMade
  <2>5. k = "output" => x \in Outputs  BY <1>4, <2>2 DEF WellMade
  <2> QED  BY <2>1, <2>2, <2>3, <2>4, <2>5 DEF Object
<1>8. /\ knows' \in KnowsType
      /\ knows'.windows = IF r[1] = "window" /\ r[3] = manager
                          THEN knows.windows \ {r[2]} ELSE knows.windows
      /\ knows'.outputs = IF r[1] = "output" /\ r[3] = manager
                          THEN knows.outputs \ {r[2]} ELSE knows.outputs
      /\ \A w \in knows'.windows : knows'.size[w] = knows.size[w]
  <2>1. knows \in KnowsType  BY Facts
  <2>2. CASE r[3] # manager  BY <1>5, <2>1, <2>2
  <2>3. CASE r[3] = manager /\ r[1] = "window"
    <3>1. knows' = [knows EXCEPT !.windows = @ \ {r[2]}, !.size[r[2]] = 0]
      BY <1>6, <2>3 DEF KnowsNot
    <3> QED  BY <1>7, <2>1, <2>3, <3>1 DEF KnowsType
  <2>4. CASE r[3] = manager /\ r[1] = "output"
    <3>1. knows' = [knows EXCEPT !.outputs = @ \ {r[2]}]  BY <1>6, <2>4
    <3> QED  BY <2>1, <2>4, <3>1 DEF KnowsType
  <2>5. CASE r[3] = manager /\ r[1] = "seat"
    <3>1. knows' = [knows EXCEPT !.place = FALSE]  BY <1>6, <2>5
    <3> QED  BY <2>1, <2>5, <3>1 DEF KnowsType
  <2>6. CASE r[3] = manager /\ r[1] \notin {"window", "output", "seat"}
    <3>1. knows' = knows  BY <1>6, <2>6
    <3> QED  BY <2>1, <2>6, <3>1
  <2> QED  BY <2>2, <2>3, <2>4, <2>5, <2>6
<1>9. SeatsHeld' /\ seat' \in Objects \cup {None}
  BY <1>1, <1>3, Facts DEF SeatsHeld
<1>10. TypeOK' /\ ObjectsHeld'
  <2>1. /\ \A w \in Windows : Tracked(w, windows'[w], data', manager')
        /\ \A o \in Outputs : OutputHeld(o, outputs'[o], data', manager')
    BY <1>1, <1>3
  <2> QED  BY <1>1, <1>3, <1>8, <1>9, <2>1, Facts, Assembled
<1>11. ASSUME manager # None PROVE BeliefIsKept'
  <2>1. /\ knows.windows = {w \in Windows : windows[w].swc /\ windows[w].resource # None}
        /\ knows.outputs = {o \in Outputs : outputs[o].resource # None}
        /\ \A w \in knows.windows : knows.size[w] = windows[w].sent
    BY <1>2, <1>11 DEF BeliefIsKept
  <2>2. ASSUME NEW w \in Windows
        PROVE  windows'[w].swc /\ windows'[w].resource # None <=> w \in knows'.windows
    <3>1. CASE windows[w].resource = r /\ windows[w].swc
      <4>1. r = Object("window", w, manager)  BY <1>4, <3>1, TheirObject
      <4>2. r[1] = "window" /\ r[2] = w /\ r[3] = manager  BY <4>1 DEF Object
      <4> QED  BY <1>3, <1>8, <3>1, <4>2
    <3>2. CASE windows[w].resource # r \/ ~windows[w].swc
      <4>1. windows'[w].swc /\ windows'[w].resource # None <=> w \in knows.windows
        BY <1>3, <2>1, <3>2
      <4>2. ASSUME w \in knows.windows, r[1] = "window", r[3] = manager PROVE w # r[2]
        BY <1>7, <2>1, <3>2, <4>2, TheirObject
      <4> QED  BY <1>8, <4>1, <4>2
    <3> QED  BY <3>1, <3>2
  <2>3. ASSUME NEW o \in Outputs
        PROVE  outputs'[o].resource # None <=> o \in knows'.outputs
    <3>1. CASE outputs[o].resource = r
      <4>1. r = Object("output", o, manager)  BY <1>4, <3>1, TheirObject
      <4>2. r[1] = "output" /\ r[2] = o /\ r[3] = manager  BY <4>1 DEF Object
      <4> QED  BY <1>3, <1>8, <3>1, <4>2
    <3>2. CASE outputs[o].resource # r
      <4>1. outputs'[o].resource # None <=> o \in knows.outputs
        BY <1>3, <2>1, <3>2
      <4>2. ASSUME o \in knows.outputs, r[1] = "output", r[3] = manager PROVE o # r[2]
        BY <1>7, <2>1, <3>2, <4>2, TheirObject
      <4> QED  BY <1>8, <4>1, <4>2
    <3> QED  BY <3>1, <3>2
  <2>4. knows'.windows \subseteq knows.windows /\ knows'.outputs \subseteq knows.outputs
    BY <1>8
  <2>5. knows'.windows = {w \in Windows : windows'[w].swc /\ windows'[w].resource # None}
    BY <2>1, <2>2, <2>4
  <2>6. knows'.outputs = {o \in Outputs : outputs'[o].resource # None}
    BY <2>1, <2>3, <2>4
  <2>7. \A w \in knows'.windows : knows'.size[w] = windows'[w].sent
    BY <1>3, <1>8, <2>1, <2>4
  <2> QED  BY <2>5, <2>6, <2>7 DEF BeliefIsKept
<1>12. Ignorant'
  <2>1. r[3] # None  BY <1>4, RiverObjectsAssumption DEF Objects
  <2> QED  BY <1>1, <1>2, <1>5, <2>1 DEF Ignorant
<1>13. manager = None => BeliefIsKept'  BY <1>1 DEF BeliefIsKept
<1> QED  BY <1>10, <1>11, <1>12, <1>13 DEF RInv

\* The client of a manager or of what is left of one goes: the structs are told by
\* the destructors of its objects, and those of another client stay.
LEMMA ClientDiesHolds == ASSUME RInv, NEW c \in Clients, ClientDies(c) PROVE RInv'
<1> DEFINE gone == ObjectsOf(c)
           ws == IF manager = c THEN ForgottenWindows ELSE windows
           os == IF manager = c THEN ForgottenOutputs ELSE outputs
           m == IF manager = c THEN None ELSE manager
<1>1. /\ Destroyed(ws, os, gone) /\ manager' = m /\ place' = place
      /\ seat' = IF seat \in gone \/ manager = c THEN None ELSE seat
      /\ knows' = IF manager = c THEN Nothing ELSE knows
  BY DEF ClientDies
<1>2. TypeOK /\ ObjectsHeld /\ BeliefIsKept /\ Ignorant  BY DEF RInv
<1>3. /\ ws \in [Windows -> WindowType] /\ os \in [Outputs -> OutputType]
      /\ \A w \in Windows : Tracked(w, ws[w], data, m)
      /\ \A o \in Outputs : OutputHeld(o, os[o], data, m)
  <2>1. CASE manager = c  BY <2>1, ForgottenHolds
  <2>2. CASE manager # c  BY <2>2, Facts
  <2> QED  BY <2>1, <2>2
<1>4. gone \in SUBSET DOMAIN data /\ \A r \in gone : r[3] = c
  BY DEF ObjectsOf
<1>5. c # None /\ m \in Clients \cup {None}
  BY Facts, RiverObjectsAssumption
<1>6. manager # c => ws = windows /\ os = outputs
  OBVIOUS
<1>7. manager = c => m = None
  OBVIOUS
<1> HIDE DEF gone, ws, os, m
<1>8. /\ windows' \in [Windows -> WindowType]
      /\ \A w \in Windows :
           /\ Tracked(w, windows'[w], data', m)
           /\ windows'[w].swc = ws[w].swc
           /\ ws[w].swc => windows'[w].sent = ws[w].sent
           /\ windows'[w].resource = IF ws[w].resource \in gone THEN None ELSE ws[w].resource
      /\ outputs' \in [Outputs -> OutputType]
      /\ \A o \in Outputs :
           /\ OutputHeld(o, outputs'[o], data', m)
           /\ outputs'[o].resource = IF os[o].resource \in gone THEN None ELSE os[o].resource
      /\ shells' \in [Shells -> ShellType]
      /\ \A s \in Shells : ShellHeld(s, shells'[s], data')
      /\ DOMAIN data' = DOMAIN data \ gone
      /\ \A q \in DOMAIN data' : WellMade(q, data'[q])
      /\ layerSeat' \in Objects \cup {None}
      /\ layerSeat' # None => layerSeat' \in DOMAIN data'
      /\ queue' \subseteq Windows /\ \A w \in queue' : windows'[w].memory
  BY <1>1, <1>2, <1>3, <1>4, DestroyedHolds
<1>9. SeatsHeld' /\ seat' \in Objects \cup {None}
  <2>1. /\ seat \in Objects \cup {None}
        /\ seat # None =>
             manager # None /\ seat = Object("seat", None, manager) /\ seat \in DOMAIN data
    BY Facts DEF SeatsHeld
  <2>2. CASE seat' = None  BY <1>8, <2>2 DEF SeatsHeld
  <2>3. CASE seat' # None
    <3>1. seat' = seat /\ manager # c /\ seat \notin gone  BY <1>1, <2>3
    <3>2. manager' = manager  BY <1>1, <3>1 DEF m
    <3> QED  BY <1>8, <2>1, <2>3, <3>1, <3>2 DEF SeatsHeld
  <2> QED  BY <2>2, <2>3
<1>10. knows' \in KnowsType  BY <1>1, Facts, NothingType
<1>11. TypeOK' /\ ObjectsHeld'
  <2>1. /\ \A w \in Windows : Tracked(w, windows'[w], data', manager')
        /\ \A o \in Outputs : OutputHeld(o, outputs'[o], data', manager')
        /\ manager' \in Clients \cup {None} /\ place' \in {"unsent", "there", "away"}
    BY <1>1, <1>5, <1>8, Facts
  <2> QED  BY <1>8, <1>9, <1>10, <2>1, Assembled
<1>12. CASE manager = c
  <2>1. manager' = None /\ knows' = Nothing  BY <1>1, <1>7, <1>12
  <2> QED  BY <1>11, <2>1 DEF RInv, BeliefIsKept, Ignorant
<1>13. CASE manager # c
  <2>1. manager' = manager /\ knows' = knows  BY <1>1, <1>13 DEF m
  <2>2. ASSUME NEW w \in Windows
        PROVE  /\ windows'[w].swc = windows[w].swc
               /\ windows[w].swc => windows'[w].sent = windows[w].sent
               /\ windows'[w].swc /\ windows'[w].resource # None
                    <=> windows[w].swc /\ windows[w].resource # None
    <3>1. windows[w].swc /\ windows[w].resource # None => windows[w].resource \notin gone
      <4>1. ASSUME windows[w].swc, windows[w].resource # None, windows[w].resource \in gone
            PROVE FALSE
        <5>1. windows[w].resource = Object("window", w, manager)  BY <4>1, TheirObject
        <5>2. windows[w].resource[3] = manager  BY <5>1 DEF Object
        <5> QED  BY <1>4, <1>13, <4>1, <5>2
      <4> QED  BY <4>1
    <3>2. ws = windows  BY <1>6, <1>13
    <3> QED  BY <1>8, <3>1, <3>2
  <2>3. ASSUME NEW o \in Outputs
        PROVE  outputs'[o].resource # None <=> outputs[o].resource # None
    <3>1. outputs[o].resource # None => outputs[o].resource \notin gone
      <4>1. ASSUME outputs[o].resource # None, outputs[o].resource \in gone PROVE FALSE
        <5>1. outputs[o].resource = Object("output", o, manager)  BY <4>1, TheirObject
        <5>2. outputs[o].resource[3] = manager  BY <5>1 DEF Object
        <5> QED  BY <1>4, <1>13, <4>1, <5>2
      <4> QED  BY <4>1
    <3>2. os = outputs  BY <1>6, <1>13
    <3> QED  BY <1>8, <3>1, <3>2
  <2>4. BeliefIsKept'
    <3>1. ASSUME manager # None
          PROVE  /\ knows.windows = {w \in Windows : windows[w].swc /\ windows[w].resource # None}
                 /\ knows.outputs = {o \in Outputs : outputs[o].resource # None}
                 /\ \A w \in knows.windows : knows.size[w] = windows[w].sent
      BY <1>2, <3>1 DEF BeliefIsKept
    <3>2. {w \in Windows : windows'[w].swc /\ windows'[w].resource # None}
            = {w \in Windows : windows[w].swc /\ windows[w].resource # None}
      BY <2>2
    <3>3. {o \in Outputs : outputs'[o].resource # None}
            = {o \in Outputs : outputs[o].resource # None}
      BY <2>3
    <3> QED  BY <2>1, <2>2, <3>1, <3>2, <3>3 DEF BeliefIsKept
  <2>5. Ignorant'  BY <1>2, <2>1 DEF Ignorant
  <2> QED  BY <1>11, <2>4, <2>5 DEF RInv
<1> QED  BY <1>12, <1>13

\* begin_manage(): whatever has no object gets one of the manager's, and the manager
\* is told; the objects that were there keep their user data.
LEMMA BeginManageTells ==
    ASSUME RInv, BeginManage
    PROVE  RInv' /\ knows'.windows = {w \in Windows : windows[w].swc} /\ knows'.outputs = Outputs
<1> DEFINE newWindows == {w \in Windows : windows[w].swc /\ windows[w].resource = None}
           newOutputs == {o \in Outputs : outputs[o].resource = None}
           new == {Object("window", w, manager) : w \in newWindows}
                    \cup {Object("output", o, manager) : o \in newOutputs}
                    \cup NewSeat
           size == [w \in Windows |->
                      IF w \in newWindows THEN windows[w].shown ELSE knows.size[w]]
<1>1. /\ manager # None
      /\ windows' = [w \in Windows |-> AdvertiseWindow(windows[w], w)]
      /\ outputs' = [o \in Outputs |-> AdvertiseOutput(outputs[o], o)]
      /\ seat' = Object("seat", None, manager)
      /\ data' = [r \in DOMAIN data \cup new |-> IF r \in new THEN r[2] ELSE data[r]]
      /\ queue' = {} /\ place' = "there"
      /\ UNCHANGED <<shells, manager, layerSeat>>
  BY DEF BeginManage, Flushed
<1>2. knows' = [knows EXCEPT !.windows = knows.windows \cup newWindows, !.size = size,
                             !.outputs = knows.outputs \cup newOutputs, !.place = PlaceTold]
  BY DEF BeginManage
<1>3. manager \in Clients  BY <1>1, Facts
<1>4. /\ \A w \in newWindows : Object("window", w, manager) \in new
      /\ \A o \in newOutputs : Object("output", o, manager) \in new
      /\ \A r \in new : \/ \E w \in newWindows : r = Object("window", w, manager)
                        \/ \E o \in newOutputs : r = Object("output", o, manager)
                        \/ r = Object("seat", None, manager)
      /\ seat = None => Object("seat", None, manager) \in new
  BY DEF NewSeat
<1>5. /\ \A w \in Windows : w \in newWindows <=> windows[w].swc /\ windows[w].resource = None
      /\ \A o \in Outputs : o \in newOutputs <=> outputs[o].resource = None
      /\ newWindows \subseteq Windows /\ newOutputs \subseteq Outputs
  OBVIOUS
<1>6. /\ size \in [Windows -> Sizes \cup {0}]
      /\ \A w \in Windows :
           size[w] = IF w \in newWindows THEN windows[w].shown ELSE knows.size[w]
  BY Facts DEF WindowType, KnowsType
<1> HIDE DEF newWindows, newOutputs, new, size
<1>7. ASSUME NEW k \in {"window", "output", "seat"},
             NEW x \in Windows \cup Outputs \cup Shells \cup {None}
      PROVE  /\ Object(k, x, manager) \in Objects /\ Object(k, x, manager) # None
             /\ Object(k, x, manager)[1] = k /\ Object(k, x, manager)[2] = x
             /\ Object(k, x, manager)[3] = manager /\ Object(k, x, manager)[4] = 1
  <2>1. Object(k, x, manager) \in Objects
    BY <1>3, NewKinds, NewObject
  <2>2. Object(k, x, manager) # None  BY <2>1, RiverObjectsAssumption
  <2> QED  BY <2>1, <2>2 DEF Object
<1>8. ASSUME NEW r \in new
      PROVE  /\ WellMade(r, r[2]) /\ r[2] \notin Shells
             /\ r[1] \in {"window", "output", "seat"}
             /\ \A w \in Windows : r[2] = w => w \in newWindows
             /\ r[1] = "window" => r[2] \in newWindows
  <2>1. CASE \E w \in newWindows : r = Object("window", w, manager)
    <3>1. PICK w \in newWindows : r = Object("window", w, manager)  BY <2>1
    <3>2. w \in Windows  BY <1>5
    <3>3. r \in Objects /\ r[1] = "window" /\ r[2] = w /\ r[4] = 1  BY <1>7, <3>1, <3>2
    <3> QED  BY <3>2, <3>3, RiverObjectsAssumption DEF WellMade
  <2>2. CASE \E o \in newOutputs : r = Object("output", o, manager)
    <3>1. PICK o \in newOutputs : r = Object("output", o, manager)  BY <2>2
    <3>2. o \in Outputs  BY <1>5
    <3>3. r \in Objects /\ r[1] = "output" /\ r[2] = o /\ r[4] = 1  BY <1>7, <3>1, <3>2
    <3> QED  BY <3>2, <3>3, RiverObjectsAssumption DEF WellMade
  <2>3. CASE r = Object("seat", None, manager)
    <3>1. r \in Objects /\ r[1] = "seat" /\ r[2] = None /\ r[4] = 1  BY <1>7, <2>3
    <3> QED  BY <3>1, RiverObjectsAssumption DEF WellMade
  <2> QED  BY <1>4, <2>1, <2>2, <2>3
<1>9. /\ DOMAIN data' = DOMAIN data \cup new
      /\ \A r \in new : data'[r] = r[2]
      /\ \A r \in DOMAIN data : r \notin new => data'[r] = data[r]
  BY <1>1
<1>10. ASSUME NEW r \in DOMAIN data' PROVE WellMade(r, data'[r])
  BY <1>8, <1>9, Facts
<1>11. ASSUME NEW w \in Windows
       PROVE  LET x == windows[w]
                  z == windows'[w]
              IN /\ z \in WindowType
                 /\ z.swc = x.swc /\ z.node = x.node /\ z.memory = x.memory
                 /\ z.resource = IF w \in newWindows THEN Object("window", w, manager)
                                 ELSE x.resource
                 /\ z.sent = IF w \in newWindows THEN x.shown ELSE x.sent
  <2> DEFINE y == windows[w]
             r == Object("window", w, manager)
  <2>1. y \in WindowType  BY Facts
  <2>2. windows'[w] = IF w \in newWindows THEN [y EXCEPT !.resource = r, !.sent = y.shown]
                      ELSE y
    BY <1>1, <1>5 DEF AdvertiseWindow
  <2>3. r \in Objects  BY <1>7
  <2> HIDE DEF y, r
  <2>4. CASE w \in newWindows
    <3>1. windows'[w] = [y EXCEPT !.resource = r, !.sent = y.shown]  BY <2>2, <2>4
    <3>2. /\ windows'[w] \in WindowType /\ windows'[w].swc = y.swc
          /\ windows'[w].node = y.node /\ windows'[w].memory = y.memory
          /\ windows'[w].resource = r /\ windows'[w].sent = y.shown
      BY <2>1, <2>3, <3>1 DEF WindowType
    <3> QED  BY <2>4, <3>2 DEF y, r
  <2>5. CASE w \notin newWindows
    <3>1. windows'[w] = y  BY <2>2, <2>5
    <3> QED  BY <2>1, <2>5, <3>1 DEF y
  <2> QED  BY <2>4, <2>5
<1>12. ASSUME NEW w \in Windows PROVE Tracked(w, windows'[w], data', manager)
  <2> DEFINE y == windows[w]
             z == windows'[w]
  <2>1. Tracked(w, y, data, manager)  BY Facts
  <2>2. /\ z.swc = y.swc /\ z.node = y.node /\ z.memory = y.memory
        /\ z.resource = IF w \in newWindows THEN Object("window", w, manager) ELSE y.resource
    BY <1>11
  <2>3. w \in newWindows <=> y.swc /\ y.resource = None  BY <1>5
  <2> HIDE DEF y, z
  <2>4. ASSUME z.resource # None
        PROVE  /\ z.resource \in DOMAIN data' /\ data'[z.resource] = w
               /\ z.resource[1] = "window"
               /\ z.swc => z.resource = Object("window", w, manager)
    <3>1. CASE w \in newWindows
      <4>1. z.resource = Object("window", w, manager) /\ z.resource \in new
        BY <1>4, <2>2, <3>1
      <4> QED  BY <1>7, <1>9, <4>1
    <3>2. CASE w \notin newWindows
      <4>1. z.resource = y.resource  BY <2>2, <3>2
      <4>2. /\ z.resource \in DOMAIN data /\ data[z.resource] = w /\ z.resource[1] = "window"
            /\ y.swc => z.resource = Object("window", w, manager)
        BY <2>1, <2>4, <4>1 DEF Tracked
      <4>3. WellMade(z.resource, data[z.resource])  BY <4>2, Facts
      <4>4. z.resource[2] = w  BY <4>2, <4>3, RiverObjectsAssumption DEF WellMade
      <4>5. z.resource \notin new  BY <1>8, <3>2, <4>2, <4>4
      <4> QED  BY <1>9, <2>2, <4>2, <4>5
    <3> QED  BY <3>1, <3>2
  <2>5. z.node # None => z.node \in DOMAIN data' /\ data'[z.node] = w /\ z.node[1] = "node"
    <3>1. z.node # None =>
            z.node \in DOMAIN data /\ data[z.node] = w /\ z.node[1] = "node"
      BY <2>1, <2>2 DEF Tracked
    <3>2. z.node # None => z.node \notin new  BY <1>8, <3>1
    <3> QED  BY <1>9, <3>1, <3>2
  <2>6. z.memory = (z.swc \/ z.resource # None \/ z.node # None)
    <3>1. CASE w \in newWindows
      BY <2>1, <2>2, <2>3, <3>1 DEF Tracked
    <3>2. CASE w \notin newWindows
      BY <2>1, <2>2, <3>2 DEF Tracked
    <3> QED  BY <3>1, <3>2
  <2>7. ~z.swc => \A r \in DOMAIN data' : data'[r] = w => r \in {z.resource, z.node}
    <3>1. ASSUME ~z.swc, NEW r \in DOMAIN data', data'[r] = w
          PROVE  r \in {z.resource, z.node}
      <4>1. w \notin newWindows  BY <2>2, <2>3, <3>1
      <4>2. r \notin new  BY <1>8, <1>9, <3>1, <4>1
      <4>3. r \in DOMAIN data /\ data[r] = w  BY <1>9, <3>1, <4>2
      <4> QED  BY <2>1, <2>2, <3>1, <4>1, <4>3 DEF Tracked
    <3> QED  BY <3>1
  <2>8. Tracked(w, z, data', manager)
    BY <1>1, <2>4, <2>5, <2>6, <2>7 DEF Tracked
  <2> QED  BY <2>8 DEF z
<1>13. ASSUME NEW o \in Outputs
       PROVE  /\ outputs'[o] \in OutputType /\ outputs'[o].resource # None
              /\ OutputHeld(o, outputs'[o], data', manager)
  <2> DEFINE r == Object("output", o, manager)
  <2>1. outputs[o] \in OutputType /\ OutputHeld(o, outputs[o], data, manager)  BY Facts
  <2>2. r \in Objects /\ r # None  BY <1>7
  <2>3. outputs'[o] = IF o \in newOutputs THEN [outputs[o] EXCEPT !.resource = r]
                      ELSE outputs[o]
    BY <1>1, <1>5 DEF AdvertiseOutput
  <2>4. o \in newOutputs => r \in DOMAIN data'  BY <1>4, <1>9
  <2>5. outputs'[o] \in OutputType /\ outputs'[o].layer = outputs[o].layer
        /\ outputs'[o].resource = IF o \in newOutputs THEN r ELSE outputs[o].resource
    BY <2>1, <2>2, <2>3 DEF OutputType
  <2>6. o \notin newOutputs => outputs[o].resource # None  BY <1>5
  <2> HIDE DEF r
  <2>7. outputs'[o].resource # None  BY <2>2, <2>5, <2>6
  <2>8. outputs'[o].resource = Object("output", o, manager)
    BY <2>1, <2>5, <2>6 DEF OutputHeld, r
  <2>9. outputs'[o].resource \in DOMAIN data'
    BY <1>9, <2>1, <2>4, <2>5, <2>6 DEF OutputHeld
  <2>10. OutputHeld(o, outputs'[o], data', manager)
    BY <1>1, <1>9, <2>1, <2>5, <2>8, <2>9 DEF OutputHeld
  <2> QED  BY <2>5, <2>7, <2>10
<1>14. ASSUME NEW s \in Shells PROVE ShellHeld(s, shells'[s], data')
  <2> DEFINE y == shells[s]
  <2>1. ShellHeld(s, y, data)  BY Facts
  <2>2. \A r \in DOMAIN data : data[r] = s => r \notin new
    <3>1. ASSUME NEW r \in DOMAIN data, data[r] = s, r \in new PROVE FALSE
      <4>1. WellMade(r, data[r])  BY Facts
      <4>2. data[r] = r[2]  BY <3>1, <4>1, RiverObjectsAssumption DEF WellMade
      <4> QED  BY <1>8, <3>1, <4>2
    <3> QED  BY <3>1
  <2>3. \A r \in DOMAIN data : r \in DOMAIN data' /\ (data[r] = s => data'[r] = s)
    BY <1>9, <2>2
  <2>4. \A r \in DOMAIN data' : data'[r] = s => r \in DOMAIN data /\ data[r] = s
    BY <1>8, <1>9
  <2>5. shells' = shells  BY <1>1
  <2> QED  BY <2>1, <2>3, <2>4, <2>5, ShellMore
<1>15. SeatsHeld' /\ seat' \in Objects \cup {None}
  <2>1. seat' = Object("seat", None, manager)  BY <1>1
  <2>2. seat # None => seat = Object("seat", None, manager) /\ seat \in DOMAIN data
    BY Facts DEF SeatsHeld
  <2>3. seat' \in DOMAIN data'  BY <1>4, <1>9, <2>1, <2>2
  <2>4. layerSeat' # None => layerSeat' \in DOMAIN data'
    BY <1>1, <1>9, Facts DEF SeatsHeld
  <2>5. seat' \in Objects  BY <1>7, <2>1
  <2> QED  BY <1>1, <2>1, <2>3, <2>4, <2>5 DEF SeatsHeld
<1>16. /\ knows' \in KnowsType
       /\ knows'.windows = knows.windows \cup newWindows
       /\ knows'.outputs = knows.outputs \cup newOutputs
       /\ knows'.size = size
  <2>1. knows \in KnowsType  BY Facts
  <2>2. PlaceTold \in BOOLEAN  BY <2>1 DEF PlaceTold, KnowsType
  <2> QED  BY <1>2, <1>5, <1>6, <2>1, <2>2 DEF KnowsType
<1>17. /\ windows' \in [Windows -> WindowType] /\ outputs' \in [Outputs -> OutputType]
  BY <1>1, <1>11, <1>13
<1>18. TypeOK' /\ ObjectsHeld'
  <2>1. /\ \A w \in Windows : Tracked(w, windows'[w], data', manager')
        /\ \A o \in Outputs : OutputHeld(o, outputs'[o], data', manager')
        /\ place' \in {"unsent", "there", "away"} /\ queue' \subseteq Windows
        /\ \A w \in queue' : windows'[w].memory
    BY <1>1, <1>12, <1>13
  <2> QED  BY <1>1, <1>10, <1>14, <1>15, <1>16, <1>17, <2>1, Facts, Assembled
<1>19. /\ knows.windows = {w \in Windows : windows[w].swc /\ windows[w].resource # None}
       /\ knows.outputs = {o \in Outputs : outputs[o].resource # None}
       /\ \A w \in knows.windows : knows.size[w] = windows[w].sent
  BY <1>1 DEF RInv, BeliefIsKept
<1>20. knows'.windows = {w \in Windows : windows[w].swc}
  BY <1>5, <1>16, <1>19
<1>21. knows'.outputs = Outputs
  BY <1>5, <1>16, <1>19
<1>22. BeliefIsKept'
  <2>1. ASSUME NEW w \in Windows
        PROVE  windows'[w].swc /\ windows'[w].resource # None <=> windows[w].swc
    <3>1. Object("window", w, manager) # None  BY <1>7
    <3> QED  BY <1>5, <1>11, <3>1
  <2>2. knows'.windows = {w \in Windows : windows'[w].swc /\ windows'[w].resource # None}
    BY <1>20, <2>1
  <2>3. knows'.outputs = {o \in Outputs : outputs'[o].resource # None}
    BY <1>13, <1>21
  <2>4. ASSUME NEW w \in knows'.windows PROVE knows'.size[w] = windows'[w].sent
    <3>1. w \in Windows /\ windows[w].swc  BY <1>20
    <3>2. w \notin newWindows => w \in knows.windows  BY <1>5, <1>19, <3>1
    <3>3. windows'[w].sent = IF w \in newWindows THEN windows[w].shown ELSE windows[w].sent
      BY <1>11, <3>1
    <3>4. knows'.size[w] = IF w \in newWindows THEN windows[w].shown ELSE knows.size[w]
      BY <1>6, <1>16, <3>1
    <3> QED  BY <1>19, <3>2, <3>3, <3>4
  <2> QED  BY <2>2, <2>3, <2>4 DEF BeliefIsKept
<1>23. Ignorant'  BY <1>1 DEF Ignorant
<1> QED  BY <1>18, <1>20, <1>21, <1>22, <1>23 DEF RInv

-----------------------------------------------------------------------------
\* There are no objects at first.
LEMMA InitHolds == Init => RInv
<1> SUFFICES ASSUME Init PROVE RInv
  OBVIOUS
<1>1. /\ windows = [w \in Windows |-> NoWindow] /\ outputs = [o \in Outputs |-> AddScreen]
      /\ shells = [s \in Shells |-> NoShell]
      /\ manager = None /\ seat = None /\ layerSeat = None
      /\ DOMAIN data = {} /\ queue = {} /\ place = "unsent" /\ knows = Nothing
  BY DEF Init
<1>2. TypeOK
  <2>1. /\ windows \in [Windows -> WindowType] /\ outputs \in [Outputs -> OutputType]
        /\ shells \in [Shells -> ShellType]
    BY <1>1 DEF NoWindow, AddScreen, NoShell, WindowType, OutputType, ShellType
  <2> QED  BY <1>1, <2>1, NothingType DEF TypeOK, WindowType, OutputType, ShellType, KnowsType
<1>3. ObjectsHeld
  <2>1. \A w \in Windows : Tracked(w, windows[w], data, manager)
    BY <1>1 DEF Tracked, NoWindow
  <2>2. \A o \in Outputs : OutputHeld(o, outputs[o], data, manager)
    BY <1>1 DEF OutputHeld, AddScreen
  <2>3. \A s \in Shells : ShellHeld(s, shells[s], data)
    <3>1. ~NoShell.view /\ NoShell.node = None  BY DEF NoShell
    <3> QED  BY <1>1, <3>1 DEF ShellHeld
  <2> QED  BY <1>1, <2>1, <2>2, <2>3 DEF ObjectsHeld, SeatsHeld
<1> QED  BY <1>1, <1>2, <1>3 DEF RInv, BeliefIsKept, Ignorant

\* Every step keeps the invariant.
LEMMA NextHolds == RInv /\ [Next]_vars => RInv'
<1> SUFFICES ASSUME RInv, [Next]_vars PROVE RInv'
  OBVIOUS
<1>1. ASSUME NEW w \in Windows, AddWindow(w) PROVE RInv'  BY <1>1, AddWindowHolds
<1>2. ASSUME NEW w \in Windows, CloseWindow(w) PROVE RInv'  BY <1>2, CloseWindowHolds
<1>3. ASSUME NEW w \in Windows, ShowSize(w) \/ \E s \in Sizes : CommitSize(w, s) PROVE RInv'
  BY <1>3, SizeHolds
<1>4. ASSUME NEW w \in Windows, Interact(w) PROVE RInv'  BY <1>4, InteractHolds
<1>5. ASSUME NEW w \in Windows, NEW c \in Clients, NEW n \in {1, 2}, GetNode(c, w, n)
      PROVE  RInv'
  BY <1>5, GetNodeHolds
<1>6. ASSUME NEW o \in Outputs, NEW c \in Clients, LayerGetOutput(c, o) PROVE RInv'
  BY <1>6, LayerGetOutputHolds
<1>7. ASSUME NEW s \in Shells, NEW c \in Clients, GetShellSurface(c, s) PROVE RInv'
  BY <1>7, GetShellSurfaceHolds
<1>8. ASSUME NEW s \in Shells, NEW c \in Clients, ShellGetNode(c, s) PROVE RInv'
  BY <1>8, ShellGetNodeHolds
<1>9. ASSUME NEW c \in Clients, LayerGetSeat(c) PROVE RInv'  BY <1>9, LayerGetSeatHolds
<1>10. ASSUME NEW c \in Clients, Bind(c) PROVE RInv'  BY <1>10, BindHolds
<1>11. ASSUME NEW c \in Clients, ClientDies(c) PROVE RInv'  BY <1>11, ClientDiesHolds
<1>12. ASSUME NEW r \in DOMAIN data, DestroyObject(r) PROVE RInv'
  BY <1>12, DestroyObjectHolds
<1>13. CASE DestroyManager  BY <1>13, DestroyManagerHolds
<1>14. CASE BeginManage  BY <1>14, BeginManageTells
<1>15. CASE BeginRender  BY <1>15, BeginRenderHolds
<1>16. CASE MovePointer  BY <1>16, MovePointerHolds
<1>17. CASE UNCHANGED vars
  BY <1>17, Facts, QueueHolds DEF vars
<1> QED
  BY <1>1, <1>2, <1>3, <1>4, <1>5, <1>6, <1>7, <1>8, <1>9, <1>10, <1>11, <1>12,
     <1>13, <1>14, <1>15, <1>16, <1>17 DEF Next

\* The inductive invariant (river_wm.c 293-306, 786-799, 1945-2112, 2279-2304, 2440-2482).
THEOREM ObjectsInvariance == Spec => []RInv
<1> QED  BY InitHolds, NextHolds, PTL DEF Spec

\* User data never point at a struct that was freed, nor a struct at an object that is
\* gone, and a closed window stays exactly as long as anything refers to it: for any
\* windows, outputs, surfaces and clients, and any number of objects
\* (river_wm.c 293-306, 786-799, 2440-2464).
THEOREM ObjectsAreAlive == Spec => []UserDataIsAlive
<1>1. ASSUME RInv PROVE UserDataIsAlive
  <2>1. ASSUME NEW w \in Windows
        PROVE  /\ \A r \in DOMAIN data : data[r] = w => windows[w].memory
               /\ {windows[w].resource, windows[w].node} \subseteq DOMAIN data \cup {None}
               /\ windows[w].memory /\ ~windows[w].swc => Referring(w) # {}
    <3> DEFINE y == windows[w]
    <3>1. Tracked(w, y, data, manager) /\ None \notin DOMAIN data  BY <1>1, Facts
    <3> HIDE DEF y
    <3>2. \A r \in DOMAIN data : data[r] = w => y.memory
      <4>1. ASSUME NEW r \in DOMAIN data, data[r] = w PROVE y.swc \/ y.resource # None \/ y.node # None
        BY <3>1, <4>1 DEF Tracked
      <4> QED  BY <3>1, <4>1 DEF Tracked
    <3>3. {y.resource, y.node} \subseteq DOMAIN data \cup {None}
      BY <3>1 DEF Tracked
    <3>4. y.memory /\ ~y.swc => Referring(w) # {}
      BY <3>1 DEF Tracked, Referring
    <3> QED  BY <3>2, <3>3, <3>4 DEF y
  <2>2. ASSUME NEW s \in Shells
        PROVE  /\ \A r \in DOMAIN data : data[r] = s => shells[s].view
               /\ shells[s].view => shells[s].resource \in Referring(s)
    <3> DEFINE y == shells[s]
    <3>1. ShellHeld(s, y, data) /\ None \notin DOMAIN data  BY <1>1, Facts
    <3>2. NoShell.resource = None /\ NoShell.node = None  BY DEF NoShell
    <3> HIDE DEF y
    <3>3. \A r \in DOMAIN data : data[r] = s => y.view
      BY <3>1, <3>2 DEF ShellHeld
    <3>4. y.view => y.resource \in Referring(s)
      BY <3>1 DEF ShellHeld, Referring
    <3> QED  BY <3>3, <3>4 DEF y
  <2>3. \A o \in Outputs :
          {outputs[o].resource, outputs[o].layer} \subseteq DOMAIN data \cup {None}
    BY <1>1, Facts DEF OutputHeld
  <2>4. {seat, layerSeat} \subseteq DOMAIN data \cup {None}
    BY <1>1, Facts DEF SeatsHeld
  <2>5. \A w \in queue : windows[w].memory  BY <1>1, Facts
  <2>6. TypeOK  BY <1>1 DEF RInv
  <2>7. ASSUME NEW r \in DOMAIN data
        PROVE  /\ data[r] \in Windows => windows[data[r]].memory
               /\ data[r] \in Shells => shells[data[r]].view
    BY <2>1, <2>2
  <2>8. \A r \in DOMAIN data : CASE data[r] \in Windows -> windows[data[r]].memory
                                 [] data[r] \in Shells -> shells[data[r]].view
                                 [] OTHER -> TRUE
    BY <2>7, RiverObjectsAssumption
  <2> QED  BY <2>1, <2>2, <2>3, <2>4, <2>5, <2>6, <2>8 DEF UserDataIsAlive
<1> QED  BY <1>1, ObjectsInvariance, PTL

\* What a manager was told is what is there for it, through windows that close,
\* objects that go and managers that follow one another, for any number of them
\* (river_wm.c 1945-1985, 2064-2112, 2279-2304, 2466-2482).
THEOREM BeliefHolds == Spec => []BeliefIsKept
<1>1. RInv => BeliefIsKept  BY DEF RInv
<1> QED  BY <1>1, ObjectsInvariance, PTL

\* A manage sequence leaves nothing untold, whatever an earlier manager knew and
\* whatever objects it kept (river_wm.c 2064-2112, 2289-2290).
THEOREM ManagerIsToldEverything == Spec => EverythingIsTold
<1>1. RInv /\ [Next]_vars =>
        [BeginManage => /\ knows'.windows = {w \in Windows : windows[w].swc}
                        /\ knows'.outputs = Outputs]_vars
  BY BeginManageTells
<1> QED  BY <1>1, ObjectsInvariance, PTL DEF Spec, EverythingIsTold
==============================================================================
