---------------------------- MODULE StackingProofs ----------------------------
(***************************************************************************)
(* Proofs about Stacking, for any finite set of views and any parents: the *)
(* order of the list, what is shown with what, and the layers.             *)
(*                                                                         *)
(* Each function of the model takes a state record to a state record, and  *)
(* so do the lemmas: first what the list is after one view was moved, then *)
(* where the scans of the list put a view, then what the nested walks of a *)
(* show leave behind (the invariant of the walk is Walking), and at last   *)
(* every action.                                                           *)
(***************************************************************************)
EXTENDS Stacking, SequenceTheorems, FiniteSetTheorems, WellFoundedInduction, TLAPS

\* Induction over the naturals, as a minimal counterexample.
LEMMA NatMin == ASSUME NEW T \in SUBSET Nat, T # {} PROVE \E x \in T : \A y \in T : x <= y
<1>1. PICK x \in T : \A y \in T : <<y, x>> \notin OpToRel(<, Nat)
  BY WFMin, NatLessThanWellFounded
<1>2. ASSUME NEW y \in T, ~(x <= y) PROVE FALSE
  <2>1. x \in Nat /\ y \in Nat  OBVIOUS
  <2>2. y < x  BY <2>1, <1>2
  <2>3. <<y, x>> \in OpToRel(<, Nat)
    BY <2>1, <2>2 DEF OpToRel
  <2> QED  BY <1>1, <2>3
<1> QED BY <1>1, <1>2

-----------------------------------------------------------------------------
(* Lists.                                                                  *)

\* x comes before y.
Ahead(list, x, y) ==
    \E i, j \in 1 .. Len(list) : i < j /\ list[i] = x /\ list[j] = y

LEMMA RemovedAt ==
  ASSUME NEW S, NEW list \in Seq(S), NEW i \in 1 .. Len(list)
  PROVE  /\ RemoveAt(list, i) \in Seq(S)
         /\ Len(RemoveAt(list, i)) = Len(list) - 1
         /\ \A j \in 1 .. Len(list) - 1 :
              RemoveAt(list, i)[j] = IF j < i THEN list[j] ELSE list[j + 1]
<1>1. Len(list) \in Nat /\ \A j \in 1 .. Len(list) : list[j] \in S
  BY LenProperties, ElementOfSeq
<1> DEFINE front == SubSeq(list, 1, i - 1)
           back == SubSeq(list, i + 1, Len(list))
<1>2. /\ front \in Seq(S) /\ Len(front) = i - 1
      /\ \A j \in 1 .. i - 1 : front[j] = list[j]
  <2>1. \A j \in 1 .. i - 1 : list[j] \in S  BY <1>1
  <2> QED  BY <1>1, <2>1, SubSeqProperties
<1>3. /\ back \in Seq(S) /\ Len(back) = Len(list) - i
      /\ \A j \in 1 .. Len(list) - i : back[j] = list[j + i]
  <2>1. \A j \in i + 1 .. Len(list) : list[j] \in S  BY <1>1
  <2> QED  BY <1>1, <2>1, SubSeqProperties
<1>4. RemoveAt(list, i) = front \o back  BY DEF RemoveAt
<1> HIDE DEF front, back
<1>5. front \in Seq(S) /\ back \in Seq(S)  BY <1>2, <1>3
<1>6. /\ front \o back \in Seq(S)
      /\ Len(front \o back) = Len(list) - 1
      /\ \A j \in 1 .. Len(list) - 1 :
           (front \o back)[j] = IF j <= i - 1 THEN front[j] ELSE back[j - (i - 1)]
  BY <1>1, <1>2, <1>3, <1>5, ConcatProperties
<1> QED  BY <1>1, <1>2, <1>3, <1>4, <1>6

LEMMA InsertedAt ==
  ASSUME NEW S, NEW list \in Seq(S), NEW i \in 1 .. Len(list) + 1, NEW e \in S
  PROVE  /\ InsertAt(list, i, e) \in Seq(S)
         /\ Len(InsertAt(list, i, e)) = Len(list) + 1
         /\ \A j \in 1 .. Len(list) + 1 :
              InsertAt(list, i, e)[j] = IF j < i THEN list[j] ELSE IF j = i THEN e ELSE list[j - 1]
<1>1. Len(list) \in Nat /\ \A j \in 1 .. Len(list) : list[j] \in S
  BY LenProperties, ElementOfSeq
<1> DEFINE front == SubSeq(list, 1, i - 1)
           one == <<e>>
           back == SubSeq(list, i, Len(list))
<1>2. /\ front \in Seq(S) /\ Len(front) = i - 1
      /\ \A j \in 1 .. i - 1 : front[j] = list[j]
  <2>1. \A j \in 1 .. i - 1 : list[j] \in S  BY <1>1
  <2> QED  BY <1>1, <2>1, SubSeqProperties
<1>3. /\ back \in Seq(S) /\ Len(back) = Len(list) - i + 1
      /\ \A j \in 1 .. Len(list) - i + 1 : back[j] = list[j + i - 1]
  <2>1. \A j \in i .. Len(list) : list[j] \in S  BY <1>1
  <2> QED  BY <1>1, <2>1, SubSeqProperties
<1>4. one \in Seq(S) /\ Len(one) = 1 /\ one[1] = e  OBVIOUS
<1>5. InsertAt(list, i, e) = front \o one \o back  BY DEF InsertAt
<1> HIDE DEF front, back, one
<1>6. front \in Seq(S) /\ back \in Seq(S) /\ one \in Seq(S)  BY <1>2, <1>3, <1>4
<1>7. /\ front \o one \in Seq(S)
      /\ Len(front \o one) = i
      /\ \A j \in 1 .. i : (front \o one)[j] = IF j <= i - 1 THEN front[j] ELSE one[j - (i - 1)]
  <2>1. /\ front \o one \in Seq(S)
        /\ Len(front \o one) = Len(front) + Len(one)
        /\ \A j \in 1 .. Len(front) + Len(one) :
             (front \o one)[j] = IF j <= Len(front) THEN front[j] ELSE one[j - Len(front)]
    BY <1>6, ConcatProperties
  <2>2. i \in Nat /\ Len(front) = i - 1 /\ Len(one) = 1  BY <1>1, <1>2, <1>4
  <2> QED  BY <2>1, <2>2
<1>8. front \o one \in Seq(S)  BY <1>7
<1>9. /\ (front \o one) \o back \in Seq(S)
      /\ Len((front \o one) \o back) = Len(list) + 1
      /\ \A j \in 1 .. Len(list) + 1 :
           ((front \o one) \o back)[j] = IF j <= i THEN (front \o one)[j] ELSE back[j - i]
  BY <1>1, <1>7, <1>8, <1>3, <1>6, ConcatProperties
<1> QED  BY <1>1, <1>2, <1>3, <1>4, <1>5, <1>7, <1>9

\* The list has each of these once and nothing else.
ListOf(list, set) ==
    /\ list \in Seq(Views)
    /\ ToSet(list) = set
    /\ IsInjective(list)

\* ListOf without the operators of the library.
LEMMA ListIs ==
  ASSUME NEW list \in Seq(Views), NEW set
  PROVE  ListOf(list, set) <=>
         /\ \A i \in 1 .. Len(list) : list[i] \in set
         /\ \A x \in set : \E i \in 1 .. Len(list) : list[i] = x
         /\ \A i, j \in 1 .. Len(list) : list[i] = list[j] => i = j
<1>1. DOMAIN list = 1 .. Len(list)  BY LenProperties
<1>2. IsInjective(list) <=> \A i, j \in 1 .. Len(list) : list[i] = list[j] => i = j
  BY <1>1 DEF IsInjective
<1>3. ToSet(list) = {list[i] : i \in 1 .. Len(list)}  BY <1>1 DEF ToSet
<1> QED  BY <1>2, <1>3 DEF ListOf

LEMMA PositionIs ==
  ASSUME NEW list, NEW set, ListOf(list, set), NEW x \in set
  PROVE  Position(list, x) \in 1 .. Len(list) /\ list[Position(list, x)] = x
<1>1. list \in Seq(Views)  BY DEF ListOf
<1>2. DOMAIN list = 1 .. Len(list)  BY <1>1, LenProperties
<1>3. \E i \in 1 .. Len(list) : list[i] = x  BY <1>1, ListIs
<1> QED  BY <1>2, <1>3 DEF Position

\* Taking a link from a list leaves the others as they lie.
LEMMA WithoutIs ==
  ASSUME NEW list, NEW set, ListOf(list, set), NEW s
  PROVE  /\ ListOf(Without(list, s), set \ {s})
         /\ \A x, y : Ahead(Without(list, s), x, y) <=> Ahead(list, x, y) /\ x # s /\ y # s
<1>1. list \in Seq(Views) /\ Len(list) \in Nat  BY LenProperties DEF ListOf
<1>2. /\ \A i \in 1 .. Len(list) : list[i] \in set
      /\ \A x \in set : \E i \in 1 .. Len(list) : list[i] = x
      /\ \A i, j \in 1 .. Len(list) : list[i] = list[j] => i = j
  BY <1>1, ListIs
<1>3. CASE ~Contains(list, s)
  <2>1. Without(list, s) = list  BY <1>3 DEF Without
  <2>2. \A i \in 1 .. Len(list) : list[i] # s  BY <1>3 DEF Contains
  <2>3. set \ {s} = set  BY <1>2, <2>2
  <2> QED  BY <2>1, <2>2, <2>3 DEF Ahead
<1>4. CASE Contains(list, s)
  <2> DEFINE k == Position(list, s)
             r == RemoveAt(list, k)
  <2>1. s \in set  BY <1>4, <1>2 DEF Contains
  <2>2. k \in 1 .. Len(list) /\ list[k] = s  BY <2>1, PositionIs
  <2>3. Without(list, s) = r  BY <1>4 DEF Without
  <2> HIDE DEF k
  <2>4. /\ r \in Seq(Views) /\ Len(r) = Len(list) - 1
        /\ \A j \in 1 .. Len(list) - 1 : r[j] = IF j < k THEN list[j] ELSE list[j + 1]
    BY <1>1, <2>2, RemovedAt
  <2> HIDE DEF r
  <2>5. r \in Seq(Views)  BY <2>4
  <2>6. ASSUME NEW j \in 1 .. Len(r) PROVE r[j] \in set \ {s}
    <3>1. CASE j < k
      <4>1. r[j] = list[j] /\ j \in 1 .. Len(list) /\ j # k  BY <1>1, <2>2, <2>4, <3>1
      <4> QED  BY <4>1, <1>2, <2>2
    <3>2. CASE ~(j < k)
      <4>1. r[j] = list[j + 1] /\ j + 1 \in 1 .. Len(list) /\ j + 1 # k  BY <1>1, <2>2, <2>4, <3>2
      <4> QED  BY <4>1, <1>2, <2>2
    <3> QED  BY <3>1, <3>2
  <2>7. ASSUME NEW x \in set \ {s} PROVE \E j \in 1 .. Len(r) : r[j] = x
    <3>1. PICK i \in 1 .. Len(list) : list[i] = x  BY <1>2
    <3>2. i # k  BY <3>1, <2>2
    <3>3. CASE i < k
      BY <1>1, <2>2, <2>4, <3>1, <3>3
    <3>4. CASE i > k
      <4>1. i - 1 \in 1 .. Len(r) /\ r[i - 1] = list[i]  BY <1>1, <2>2, <2>4, <3>4
      <4> QED  BY <4>1, <3>1
    <3> QED  BY <3>2, <3>3, <3>4, <2>2
  <2>8. ASSUME NEW i \in 1 .. Len(r), NEW j \in 1 .. Len(r), r[i] = r[j] PROVE i = j
    <3> DEFINE m == IF i < k THEN i ELSE i + 1
               n == IF j < k THEN j ELSE j + 1
    <3>1. /\ m \in 1 .. Len(list) /\ r[i] = list[m]
          /\ n \in 1 .. Len(list) /\ r[j] = list[n]
      BY <1>1, <2>2, <2>4
    <3>2. m = n  BY <3>1, <2>8, <1>2
    <3> QED  BY <3>2, <1>1, <2>2, <2>4
  <2>9. ListOf(r, set \ {s})  BY <2>5, <2>6, <2>7, <2>8, ListIs
  <2>10. ASSUME NEW x, NEW y, Ahead(r, x, y) PROVE Ahead(list, x, y) /\ x # s /\ y # s
    <3>1. PICK i, j \in 1 .. Len(r) : i < j /\ r[i] = x /\ r[j] = y  BY <2>10 DEF Ahead
    <3>2. x # s /\ y # s  BY <3>1, <2>6
    <3> DEFINE m == IF i < k THEN i ELSE i + 1
               n == IF j < k THEN j ELSE j + 1
    <3>3. m \in 1 .. Len(list) /\ n \in 1 .. Len(list) /\ m < n /\ list[m] = x /\ list[n] = y
      BY <1>1, <2>2, <2>4, <3>1
    <3> QED  BY <3>2, <3>3 DEF Ahead
  <2>11. ASSUME NEW x, NEW y, Ahead(list, x, y), x # s, y # s PROVE Ahead(r, x, y)
    <3>1. PICK i, j \in 1 .. Len(list) : i < j /\ list[i] = x /\ list[j] = y  BY <2>11 DEF Ahead
    <3>2. i # k /\ j # k  BY <2>11, <3>1, <2>2
    <3> DEFINE m == IF i < k THEN i ELSE i - 1
               n == IF j < k THEN j ELSE j - 1
    <3>3. m \in 1 .. Len(r) /\ n \in 1 .. Len(r) /\ m < n /\ r[m] = x /\ r[n] = y
      BY <1>1, <2>2, <2>4, <3>1, <3>2
    <3> QED  BY <3>3 DEF Ahead
  <2> QED  BY <2>3, <2>9, <2>10, <2>11
<1> QED  BY <1>3, <1>4

\* Putting a new link on a list, at the i-th place, likewise.
LEMMA InsertIs ==
  ASSUME NEW list, NEW set, ListOf(list, set), NEW s \in Views, s \notin set,
         NEW i \in 1 .. Len(list) + 1
  PROVE  /\ ListOf(InsertAt(list, i, s), set \cup {s})
         /\ \A x, y : x # s /\ y # s => (Ahead(InsertAt(list, i, s), x, y) <=> Ahead(list, x, y))
         /\ \A j \in 1 .. Len(list) : IF j < i THEN Ahead(InsertAt(list, i, s), list[j], s)
                                      ELSE Ahead(InsertAt(list, i, s), s, list[j])
<1>1. list \in Seq(Views) /\ Len(list) \in Nat  BY LenProperties DEF ListOf
<1>2. /\ \A k \in 1 .. Len(list) : list[k] \in set
      /\ \A x \in set : \E k \in 1 .. Len(list) : list[k] = x
      /\ \A k, l \in 1 .. Len(list) : list[k] = list[l] => k = l
  BY <1>1, ListIs
<1> DEFINE r == InsertAt(list, i, s)
<1>3. /\ r \in Seq(Views) /\ Len(r) = Len(list) + 1
      /\ \A j \in 1 .. Len(list) + 1 :
           r[j] = IF j < i THEN list[j] ELSE IF j = i THEN s ELSE list[j - 1]
  <2> HIDE DEF r
  <2> PICK S : S = Views  OBVIOUS
  <2>1. list \in Seq(S) /\ s \in S  BY <1>1
  <2>2. /\ InsertAt(list, i, s) \in Seq(S)
        /\ Len(InsertAt(list, i, s)) = Len(list) + 1
        /\ \A j \in 1 .. Len(list) + 1 :
             InsertAt(list, i, s)[j] = IF j < i THEN list[j] ELSE IF j = i THEN s ELSE list[j - 1]
    BY ONLY <2>1, i \in 1 .. Len(list) + 1, InsertedAt
  <2> QED  BY <2>2 DEF r
<1> HIDE DEF r
<1>4. r \in Seq(Views)  BY <1>3
<1>5. ASSUME NEW j \in 1 .. Len(r) PROVE r[j] \in set \cup {s}
  <2>1. CASE j < i  BY <2>1, <1>1, <1>2, <1>3
  <2>2. CASE j = i  BY <2>2, <1>1, <1>3
  <2>3. CASE j > i
    <3>1. j - 1 \in 1 .. Len(list) /\ r[j] = list[j - 1]  BY <2>3, <1>1, <1>3
    <3> QED  BY <3>1, <1>2
  <2> QED  BY <2>1, <2>2, <2>3, <1>1, <1>3
<1>6. \A j \in 1 .. Len(list) :
        LET k == IF j < i THEN j ELSE j + 1 IN k \in 1 .. Len(r) /\ r[k] = list[j]
  BY <1>1, <1>3
<1>7. i \in 1 .. Len(r) /\ r[i] = s  BY <1>1, <1>3
<1>8. ASSUME NEW x \in set \cup {s} PROVE \E j \in 1 .. Len(r) : r[j] = x
  <2>1. CASE x = s  BY <2>1, <1>7
  <2>2. CASE x # s
    <3>1. PICK j \in 1 .. Len(list) : list[j] = x  BY <1>2, <2>2
    <3> QED  BY <3>1, <1>6
  <2> QED  BY <2>1, <2>2
<1>9. ASSUME NEW j \in 1 .. Len(r), NEW k \in 1 .. Len(r), r[j] = r[k] PROVE j = k
  <2> DEFINE m == IF j < i THEN j ELSE j - 1
             n == IF k < i THEN k ELSE k - 1
  <2>1. j # i => m \in 1 .. Len(list) /\ r[j] = list[m]  BY <1>1, <1>3
  <2>2. k # i => n \in 1 .. Len(list) /\ r[k] = list[n]  BY <1>1, <1>3
  <2>3. CASE j # i /\ k # i
    <3>1. m = n  BY <2>1, <2>2, <2>3, <1>9, <1>2
    <3> QED  BY <3>1, <2>3, <1>1, <1>3
  <2>4. CASE j = i /\ k # i  BY <2>2, <2>4, <1>2, <1>7, <1>9
  <2>5. CASE j # i /\ k = i  BY <2>1, <2>5, <1>2, <1>7, <1>9
  <2> QED  BY <2>3, <2>4, <2>5
<1>10. ListOf(r, set \cup {s})  BY <1>4, <1>5, <1>8, <1>9, ListIs
<1>11. ASSUME NEW x, NEW y, x # s, y # s, Ahead(r, x, y) PROVE Ahead(list, x, y)
  <2>1. PICK j, k \in 1 .. Len(r) : j < k /\ r[j] = x /\ r[k] = y  BY <1>11 DEF Ahead
  <2>2. j # i /\ k # i  BY <1>7, <1>11, <2>1
  <2> DEFINE m == IF j < i THEN j ELSE j - 1
             n == IF k < i THEN k ELSE k - 1
  <2>3. m \in 1 .. Len(list) /\ n \in 1 .. Len(list) /\ m < n /\ list[m] = x /\ list[n] = y
    BY <1>1, <1>3, <2>1, <2>2
  <2> QED  BY <2>3 DEF Ahead
<1>12. ASSUME NEW x, NEW y, Ahead(list, x, y) PROVE Ahead(r, x, y)
  <2>1. PICK j, k \in 1 .. Len(list) : j < k /\ list[j] = x /\ list[k] = y  BY <1>12 DEF Ahead
  <2> DEFINE m == IF j < i THEN j ELSE j + 1
             n == IF k < i THEN k ELSE k + 1
  <2>2. m \in 1 .. Len(r) /\ n \in 1 .. Len(r) /\ m < n  BY <1>1, <1>3, <2>1
  <2>3. r[m] = x /\ r[n] = y  BY <1>6, <2>1
  <2> QED  BY <2>2, <2>3 DEF Ahead
<1>13. ASSUME NEW j \in 1 .. Len(list)
       PROVE  IF j < i THEN Ahead(r, list[j], s) ELSE Ahead(r, s, list[j])
  <2> DEFINE m == IF j < i THEN j ELSE j + 1
  <2>1. m \in 1 .. Len(r) /\ r[m] = list[j]  BY <1>6
  <2>2. IF j < i THEN m < i ELSE i < m  BY <1>1
  <2> QED  BY <1>7, <2>1, <2>2 DEF Ahead
<1> QED  BY <1>10, <1>11, <1>12, <1>13 DEF r

\* In one list, whatever is before something before y is before y.
LEMMA AheadIsTransitive ==
  ASSUME NEW list, NEW set, ListOf(list, set), NEW x, NEW y, NEW z,
         Ahead(list, x, y), Ahead(list, y, z)
  PROVE  Ahead(list, x, z)
<1>1. list \in Seq(Views) /\ Len(list) \in Nat  BY LenProperties DEF ListOf
<1>2. \A i, j \in 1 .. Len(list) : list[i] = list[j] => i = j  BY <1>1, ListIs
<1>3. PICK i, j \in 1 .. Len(list) : i < j /\ list[i] = x /\ list[j] = y  BY DEF Ahead
<1>4. PICK k, l \in 1 .. Len(list) : k < l /\ list[k] = y /\ list[l] = z  BY DEF Ahead
<1>5. j = k  BY <1>2, <1>3, <1>4
<1>6. i < l  BY <1>1, <1>3, <1>4, <1>5
<1> QED  BY <1>3, <1>4, <1>6 DEF Ahead

-----------------------------------------------------------------------------
(* Reaching.                                                               *)

LEMMA ReachIs ==
  ASSUME NEW start \in SUBSET Views, NEW links
  PROVE  /\ Reach(start, links) \subseteq Views
         /\ start \subseteq Reach(start, links)
         /\ \A e \in links : e[1] \in Reach(start, links) /\ e[2] \in Views
              => e[2] \in Reach(start, links)
         /\ \A S \in SUBSET Views :
              start \subseteq S /\ (\A e \in links : e[1] \in S => e[2] \in S)
                => Reach(start, links) \subseteq S
<1>1. CASE start = {}
  <2>1. Reach(start, links) = {}  BY <1>1 DEF Reach
  <2> QED  BY <1>1, <2>1
<1>2. CASE start # {}
  <2> DEFINE targets == {e[2] : e \in {e \in links : e[1] \in Views}} \cap Views
             closed == {S \in {start \cup X : X \in SUBSET targets} :
                          \A e \in links : e[1] \in S => e[2] \in S}
             R == {y \in start \cup targets : \A S \in closed : y \in S}
  <2>1. Reach(start, links) = R  BY <1>2 DEF Reach
  <2>2. start \cup targets \subseteq Views  OBVIOUS
  <2>3. \A S \in closed : start \subseteq S /\ \A e \in links : e[1] \in S => e[2] \in S  OBVIOUS
  <2>4. ASSUME NEW e \in links, e[1] \in Views, e[2] \in Views PROVE e[2] \in targets
    BY <2>4
  <2>5. ASSUME NEW S \in SUBSET Views, start \subseteq S, \A e \in links : e[1] \in S => e[2] \in S
        PROVE  start \cup (S \cap targets) \in closed
    <3> DEFINE X == S \cap targets
    <3>1. X \in SUBSET targets  OBVIOUS
    <3>2. start \cup X \subseteq S  BY <2>5
    <3>3. ASSUME NEW e \in links, e[1] \in start \cup X PROVE e[2] \in start \cup X
      <4>1. e[1] \in Views /\ e[2] \in S  BY <2>5, <3>2, <3>3
      <4>2. e[2] \in targets  BY <4>1, <2>4
      <4> QED  BY <4>1, <4>2
    <3> HIDE DEF X, targets
    <3>4. start \cup X \in {start \cup Y : Y \in SUBSET targets}  BY <3>1
    <3> QED  BY <3>3, <3>4 DEF X
  <2> HIDE DEF targets, closed
  <2>6. R \subseteq Views /\ start \subseteq R  BY <2>2, <2>3
  <2>7. ASSUME NEW e \in links, e[1] \in R, e[2] \in Views PROVE e[2] \in R
    <3>1. \A S \in closed : e[2] \in S  BY <2>3, <2>7
    <3>2. e[2] \in targets  BY <2>4, <2>6, <2>7
    <3> QED  BY <3>1, <3>2
  <2>8. ASSUME NEW S \in SUBSET Views, start \subseteq S, \A e \in links : e[1] \in S => e[2] \in S
        PROVE  R \subseteq S
    <3>1. start \cup (S \cap targets) \in closed  BY <2>5, <2>8
    <3>2. \A y \in R : y \in start \cup (S \cap targets)  BY <3>1
    <3> QED  BY <3>2, <2>8
  <2> QED  BY <2>1, <2>6, <2>7, <2>8
<1> QED  BY <1>1, <1>2

\* And not the other way round.
LEMMA AheadIsStrict ==
  ASSUME NEW list, NEW set, ListOf(list, set)
  PROVE  /\ \A x, y : Ahead(list, x, y) => x \in set /\ y \in set /\ x # y /\ ~Ahead(list, y, x)
         /\ \A x, y \in set : x # y => Ahead(list, x, y) \/ Ahead(list, y, x)
<1>1. list \in Seq(Views) /\ Len(list) \in Nat  BY LenProperties DEF ListOf
<1>2. /\ \A i \in 1 .. Len(list) : list[i] \in set
      /\ \A x \in set : \E i \in 1 .. Len(list) : list[i] = x
      /\ \A i, j \in 1 .. Len(list) : list[i] = list[j] => i = j
  BY <1>1, ListIs
<1>3. ASSUME NEW x, NEW y, Ahead(list, x, y)
      PROVE  x \in set /\ y \in set /\ x # y /\ ~Ahead(list, y, x)
  <2>1. PICK i, j \in 1 .. Len(list) : i < j /\ list[i] = x /\ list[j] = y  BY <1>3 DEF Ahead
  <2>2. x # y  BY <1>1, <1>2, <2>1
  <2>3. ASSUME Ahead(list, y, x) PROVE FALSE
    <3>1. PICK k, l \in 1 .. Len(list) : k < l /\ list[k] = y /\ list[l] = x  BY <2>3 DEF Ahead
    <3>2. k = j /\ l = i  BY <1>2, <2>1, <3>1
    <3> QED  BY <1>1, <2>1, <3>1, <3>2
  <2> QED  BY <1>2, <2>1, <2>2, <2>3
<1>4. ASSUME NEW x \in set, NEW y \in set, x # y PROVE Ahead(list, x, y) \/ Ahead(list, y, x)
  <2>1. PICK i \in 1 .. Len(list) : list[i] = x  BY <1>2
  <2>2. PICK j \in 1 .. Len(list) : list[j] = y  BY <1>2
  <2>3. i < j \/ j < i  BY <1>1, <1>4, <2>1, <2>2
  <2> QED  BY <2>1, <2>2, <2>3 DEF Ahead
<1> QED  BY <1>3, <1>4

LEMMA PositionsTell ==
  ASSUME NEW list, NEW set, ListOf(list, set), NEW x \in set, NEW y \in set
  PROVE  Position(list, x) < Position(list, y) <=> Ahead(list, x, y)
<1>1. list \in Seq(Views) /\ Len(list) \in Nat  BY LenProperties DEF ListOf
<1>2. \A i, j \in 1 .. Len(list) : list[i] = list[j] => i = j  BY <1>1, ListIs
<1> DEFINE k == Position(list, x)
           l == Position(list, y)
<1>3. k \in 1 .. Len(list) /\ list[k] = x  BY PositionIs
<1>4. l \in 1 .. Len(list) /\ list[l] = y  BY PositionIs
<1> HIDE DEF k, l
<1>5. k < l <=> Ahead(list, x, y)  BY <1>2, <1>3, <1>4 DEF Ahead
<1> QED  BY <1>5 DEF k, l

\* The largest and the smallest of some numbers.
LEMMA MaxIs ==
  ASSUME NEW n \in Nat, NEW S \in SUBSET (0 .. n), S # {}
  PROVE  Max(S) \in S /\ \A y \in S : y <= Max(S)
<1> DEFINE T == {n - x : x \in S}
<1>1. T \in SUBSET Nat /\ T # {}
  <2>1. \A x \in S : n - x \in Nat  OBVIOUS
  <2>2. PICK x \in S : TRUE  OBVIOUS
  <2>3. n - x \in T  BY <2>2
  <2> QED  BY <2>1, <2>3
<1>2. PICK m \in T : \A y \in T : m <= y
  <2> HIDE DEF T
  <2> QED  BY <1>1, NatMin
<1>3. PICK x \in S : m = n - x  BY <1>2
<1>4. \A y \in S : x >= y
  <2> TAKE y \in S
  <2>1. n - y \in T  OBVIOUS
  <2>2. m <= n - y  BY <1>2, <2>1
  <2> QED  BY <1>3, <2>2
<1>5. \E z \in S : \A y \in S : z >= y  BY <1>4
<1>6. Max(S) \in S /\ \A y \in S : Max(S) >= y  BY <1>5 DEF Max
<1>7. \A z \in S : z \in Int  OBVIOUS
<1> QED  BY <1>6, <1>7

LEMMA MinIs ==
  ASSUME NEW S \in SUBSET Nat, S # {}
  PROVE  Min(S) \in S /\ \A y \in S : Min(S) <= y
<1>1. \E x \in S : \A y \in S : x <= y  BY NatMin
<1> QED  BY <1>1 DEF Min

-----------------------------------------------------------------------------
(* Moving one view.                                                        *)

\* The lists differ at most in the place of v.
MovedOnly(list, new, v) ==
    /\ Without(new, v) = Without(list, v)
    /\ \A x, y : x # v /\ y # v => (Ahead(new, x, y) <=> Ahead(list, x, y))

LEMMA WithoutInserted ==
  ASSUME NEW list, NEW set, ListOf(list, set), NEW v \in Views, v \notin set,
         NEW i \in 1 .. Len(list) + 1
  PROVE  Without(InsertAt(list, i, v), v) = list
<1>1. list \in Seq(Views) /\ Len(list) \in Nat  BY LenProperties DEF ListOf
<1> DEFINE r == InsertAt(list, i, v)
<1>2. /\ r \in Seq(Views) /\ Len(r) = Len(list) + 1
      /\ \A j \in 1 .. Len(list) + 1 :
           r[j] = IF j < i THEN list[j] ELSE IF j = i THEN v ELSE list[j - 1]
  <2> HIDE DEF r
  <2> PICK S : S = Views  OBVIOUS
  <2>1. list \in Seq(S) /\ v \in S  BY <1>1
  <2>2. /\ InsertAt(list, i, v) \in Seq(S)
        /\ Len(InsertAt(list, i, v)) = Len(list) + 1
        /\ \A j \in 1 .. Len(list) + 1 :
             InsertAt(list, i, v)[j] = IF j < i THEN list[j] ELSE IF j = i THEN v ELSE list[j - 1]
    BY ONLY <2>1, i \in 1 .. Len(list) + 1, InsertedAt
  <2> QED  BY <2>2 DEF r
<1>3. ListOf(r, set \cup {v})  BY InsertIs
<1> HIDE DEF r
<1>4. i \in 1 .. Len(r) /\ r[i] = v  BY <1>1, <1>2
<1>5. \A j, k \in 1 .. Len(r) : r[j] = r[k] => j = k
  <2>1. r \in Seq(Views)  BY <1>2
  <2> QED  BY <2>1, <1>3, ListIs
<1>6. Position(r, v) = i
  <2>1. Position(r, v) \in 1 .. Len(r) /\ r[Position(r, v)] = v  BY <1>3, PositionIs
  <2> QED  BY <2>1, <1>4, <1>5
<1>7. Without(r, v) = RemoveAt(r, i)  BY <1>4, <1>6 DEF Without, Contains
<1> DEFINE q == RemoveAt(r, i)
<1>8. /\ q \in Seq(Views) /\ Len(q) = Len(r) - 1
      /\ \A j \in 1 .. Len(r) - 1 : q[j] = IF j < i THEN r[j] ELSE r[j + 1]
  <2>1. r \in Seq(Views)  BY <1>2
  <2> QED  BY <2>1, <1>4, RemovedAt
<1> HIDE DEF q
<1>9. Len(q) = Len(list)  BY <1>1, <1>2, <1>8
<1>10. ASSUME NEW j \in 1 .. Len(list) PROVE q[j] = list[j]
  <2>1. q[j] = IF j < i THEN r[j] ELSE r[j + 1]  BY <1>1, <1>2, <1>8
  <2>2. CASE j < i  BY <2>1, <2>2, <1>1, <1>2
  <2>3. CASE ~(j < i)
    <3>1. j + 1 \in 1 .. Len(list) + 1 /\ ~(j + 1 < i) /\ j + 1 # i /\ (j + 1) - 1 = j  BY <1>1, <2>3
    <3>2. r[j + 1] = list[j]  BY <3>1, <1>2
    <3> QED  BY <2>1, <2>3, <3>2
  <2> QED  BY <2>2, <2>3
<1>11. q = list
  <2>1. q \in [1 .. Len(q) -> Views]
    <3>1. q \in Seq(Views)  BY <1>8
    <3> QED  BY <3>1, LenProperties
  <2>2. list \in [1 .. Len(list) -> Views]
    <3>1. list \in Seq(Views)  BY <1>1
    <3> QED  BY <3>1, LenProperties
  <2> QED  BY <2>1, <2>2, <1>9, <1>10
<1> QED  BY <1>7, <1>11 DEF q, r

Moving(list, v, i) == InsertAt(Without(list, v), i, v)

LEMMA MovingIs ==
  ASSUME NEW list, NEW set, ListOf(list, set), NEW v \in Views,
         NEW i \in 1 .. Len(Without(list, v)) + 1
  PROVE  /\ ListOf(Moving(list, v, i), set \cup {v})
         /\ MovedOnly(list, Moving(list, v, i), v)
         /\ \A j \in 1 .. Len(Without(list, v)) :
              IF j < i THEN Ahead(Moving(list, v, i), Without(list, v)[j], v)
              ELSE Ahead(Moving(list, v, i), v, Without(list, v)[j])
<1> DEFINE rest == Without(list, v)
           new == InsertAt(rest, i, v)
<1>1. /\ ListOf(rest, set \ {v})
      /\ \A x, y : Ahead(rest, x, y) <=> Ahead(list, x, y) /\ x # v /\ y # v
  BY WithoutIs
<1>2. i \in 1 .. Len(rest) + 1  OBVIOUS
<1>3. Moving(list, v, i) = new  BY DEF Moving
<1> HIDE DEF rest
<1>4. ListOf(rest, set \ {v}) /\ v \notin set \ {v}  BY <1>1
<1>5. /\ ListOf(new, (set \ {v}) \cup {v})
      /\ \A x, y : x # v /\ y # v => (Ahead(new, x, y) <=> Ahead(rest, x, y))
      /\ \A j \in 1 .. Len(rest) : IF j < i THEN Ahead(new, rest[j], v) ELSE Ahead(new, v, rest[j])
  BY <1>2, <1>4, InsertIs
<1>6. Without(new, v) = rest  BY <1>2, <1>4, WithoutInserted
<1> HIDE DEF new
<1>7. (set \ {v}) \cup {v} = set \cup {v}  OBVIOUS
<1>8. MovedOnly(list, new, v)  BY <1>1, <1>5, <1>6 DEF MovedOnly, rest
<1> QED  BY <1>3, <1>5, <1>7, <1>8 DEF rest

\* The places of the others.
LEMMA PlacesOfOthers ==
  ASSUME NEW list, NEW set, ListOf(list, set), NEW v
  PROVE  /\ Without(list, v) \in Seq(Views) /\ Len(Without(list, v)) \in Nat
         /\ DOMAIN Without(list, v) = 1 .. Len(Without(list, v))
         /\ \A j \in 1 .. Len(Without(list, v)) : Without(list, v)[j] \in set \ {v}
         /\ \A x \in set \ {v} : \E j \in 1 .. Len(Without(list, v)) : Without(list, v)[j] = x
         /\ \A j, k \in 1 .. Len(Without(list, v)) :
              j < k => Ahead(list, Without(list, v)[j], Without(list, v)[k])
<1> DEFINE rest == Without(list, v)
<1>1. /\ ListOf(rest, set \ {v})
      /\ \A x, y : Ahead(rest, x, y) <=> Ahead(list, x, y) /\ x # v /\ y # v
  BY WithoutIs
<1> HIDE DEF rest
<1>2. rest \in Seq(Views)  BY <1>1 DEF ListOf
<1>3. Len(rest) \in Nat /\ DOMAIN rest = 1 .. Len(rest)  BY <1>2, LenProperties
<1>4. /\ \A j \in 1 .. Len(rest) : rest[j] \in set \ {v}
      /\ \A x \in set \ {v} : \E j \in 1 .. Len(rest) : rest[j] = x
  BY <1>1, <1>2, ListIs
<1>5. ASSUME NEW j \in 1 .. Len(rest), NEW k \in 1 .. Len(rest), j < k
      PROVE  Ahead(list, rest[j], rest[k])
  <2>1. Ahead(rest, rest[j], rest[k])  BY <1>5 DEF Ahead
  <2> QED  BY <2>1, <1>1
<1> QED  BY <1>2, <1>3, <1>4, <1>5 DEF rest

-----------------------------------------------------------------------------
(* States.                                                                 *)

ViewStates ==
    [alive : BOOLEAN, visible : BOOLEAN, alwaysTop : BOOLEAN, layer : Layers,
     parent : Views \cup {None, Gone}]

States == [view : [Views -> ViewStates], stack : Seq(Views), overlooked : SUBSET Popups]

Alive(t) == {v \in Views : t.view[v].alive}

\* Windows keep to their layer.
SoundView(t, v) ==
    /\ ~t.view[v].alive => t.view[v] = NoView
    /\ v \in Windows => t.view[v].layer = Normal /\ ~t.view[v].alwaysTop

\* What is always on top is above the windows once it is seen.
TopIsAbove(t) ==
    \A v \in Views : t.view[v].visible /\ t.view[v].alwaysTop => t.view[v].layer > Normal

\* The list has each view that exists once.
Sound(t) ==
    /\ t \in States
    /\ ListOf(t.stack, Alive(t))
    /\ \A v \in Views : SoundView(t, v)

LEMMA ViewStateIs ==
  ASSUME NEW t \in States, NEW v \in Views
  PROVE  /\ t.view[v] \in ViewStates
         /\ t.view[v].alive \in BOOLEAN /\ t.view[v].visible \in BOOLEAN
         /\ t.view[v].alwaysTop \in BOOLEAN /\ t.view[v].layer \in Layers
         /\ t.view[v].parent \in Views \cup {None, Gone}
<1>1. t.view \in [Views -> ViewStates]  BY DEF States
<1>2. t.view[v] \in ViewStates  BY <1>1
<1> QED  BY <1>2 DEF ViewStates

LEMMA Disjoint ==
  ASSUME NEW x \in Popups
  PROVE  x \notin Windows /\ x \notin Bars /\ x \notin LayerSurfaces /\ x \notin Panels
BY ViewAssumption

LEMMA Numbers ==
  /\ Background = 0 /\ Bottom = 1 /\ Normal = 2 /\ Top = 3 /\ Overlay = 4
  /\ Layers = 0 .. 4
BY DEF Background, Bottom, Normal, Top, Overlay, Layers

\* What the order of the list says.
LEMMA InOrderIs ==
  ASSUME NEW t, NEW set, ListOf(t.stack, set), NEW views
  PROVE  InOrder(t, views) <=>
         \A x, y \in views : Ahead(t.stack, x, y) => t.view[x].layer >= t.view[y].layer
<1> DEFINE list == t.stack
<1>1. list \in Seq(Views)  BY DEF ListOf
<1>2. DOMAIN list = 1 .. Len(list)  BY <1>1, LenProperties
<1>3. ASSUME InOrder(t, views), NEW x \in views, NEW y \in views, Ahead(list, x, y)
      PROVE  t.view[x].layer >= t.view[y].layer
  <2>1. PICK i, j \in 1 .. Len(list) : i < j /\ list[i] = x /\ list[j] = y  BY <1>3 DEF Ahead
  <2> QED  BY <2>1, <1>2, <1>3 DEF InOrder
<1>4. ASSUME \A x, y \in views : Ahead(list, x, y) => t.view[x].layer >= t.view[y].layer
      PROVE  InOrder(t, views)
  <2> SUFFICES ASSUME NEW i \in {k \in DOMAIN list : list[k] \in views},
                      NEW j \in {k \in DOMAIN list : list[k] \in views}, i < j
               PROVE  t.view[list[i]].layer >= t.view[list[j]].layer
    BY DEF InOrder
  <2>1. Ahead(list, list[i], list[j])  BY <1>2 DEF Ahead
  <2> QED  BY <2>1, <1>4
<1> QED  BY <1>3, <1>4

\* Where v lies, the layers of the visible views that are no popups are in order.
Fits(u, v) ==
    \A x \in Shown(u) \ {v} :
       /\ Ahead(u.stack, x, v) => u.view[x].layer >= u.view[v].layer
       /\ Ahead(u.stack, v, x) => u.view[v].layer >= u.view[x].layer

\* u is t with v moved on the list.
Relisted(t, u, v) ==
    /\ u = [t EXCEPT !.stack = u.stack]
    /\ u \in States
    /\ u.view = t.view /\ u.overlooked = t.overlooked
    /\ ListOf(u.stack, Alive(t))
    /\ MovedOnly(t.stack, u.stack, v)

LEMMA MoveToIs ==
  ASSUME NEW t \in States, ListOf(t.stack, Alive(t)), NEW v \in Alive(t),
         NEW i \in 1 .. Len(Without(t.stack, v)) + 1
  PROVE  /\ Relisted(t, MoveTo(t, v, i), v)
         /\ MoveTo(t, v, i).stack = Moving(t.stack, v, i)
         /\ \A j \in 1 .. Len(Without(t.stack, v)) :
              IF j < i THEN Ahead(MoveTo(t, v, i).stack, Without(t.stack, v)[j], v)
              ELSE Ahead(MoveTo(t, v, i).stack, v, Without(t.stack, v)[j])
<1> DEFINE new == Moving(t.stack, v, i)
           u == MoveTo(t, v, i)
<1>1. v \in Views /\ Alive(t) \cup {v} = Alive(t)  BY DEF Alive
<1>2. /\ ListOf(new, Alive(t) \cup {v})
      /\ MovedOnly(t.stack, new, v)
      /\ \A j \in 1 .. Len(Without(t.stack, v)) :
           IF j < i THEN Ahead(new, Without(t.stack, v)[j], v)
           ELSE Ahead(new, v, Without(t.stack, v)[j])
  BY <1>1, MovingIs
<1>3. u = [t EXCEPT !.stack = new]  BY DEF MoveTo, Moving
<1> HIDE DEF new, u
<1>4. new \in Seq(Views)  BY <1>2 DEF ListOf
<1>5. u \in States /\ u.view = t.view /\ u.overlooked = t.overlooked /\ u.stack = new
  BY <1>3, <1>4 DEF States
<1>6. u = [t EXCEPT !.stack = u.stack]  BY <1>3, <1>5
<1>7. ListOf(u.stack, Alive(t)) /\ MovedOnly(t.stack, u.stack, v)  BY <1>1, <1>2, <1>5
<1>8. Relisted(t, u, v)  BY <1>5, <1>6, <1>7 DEF Relisted
<1> QED  BY <1>2, <1>5, <1>8 DEF u, new

\* A window that is raised.
LEMMA RaiseWindowIs ==
  ASSUME NEW t, Sound(t), NEW w \in Windows, w \in Alive(t)
  PROVE  /\ Relisted(t, RaiseWindow(t, w), w)
         /\ \A x \in Windows \ {w} : t.view[x].visible => Ahead(RaiseWindow(t, w).stack, w, x)
         /\ TopIsAbove(t) /\ InOrder(t, Views \ {w}) => Fits(RaiseWindow(t, w), w)
<1> DEFINE rest == Without(t.stack, w)
           seen == {i \in DOMAIN rest : t.view[rest[i]].visible}
           OnTop(i) == t.view[rest[i]].layer > Normal \/ t.view[rest[i]].alwaysTop
           stops == {i \in seen : ~OnTop(i) /\ (t.view[rest[i]].layer < Normal \/ IsWindow(rest[i]))}
           passed == {i \in seen : \A j \in stops : i < j}
           m == Max(passed \cup {0})
           u == MoveTo(t, w, 1 + m)
<1>1. t \in States /\ ListOf(t.stack, Alive(t)) /\ \A v \in Views : SoundView(t, v)  BY DEF Sound
<1>2. RaiseWindow(t, w) = u  BY DEF RaiseWindow
<1>3. /\ rest \in Seq(Views) /\ Len(rest) \in Nat /\ DOMAIN rest = 1 .. Len(rest)
      /\ \A j \in 1 .. Len(rest) : rest[j] \in Alive(t) \ {w}
      /\ \A x \in Alive(t) \ {w} : \E j \in 1 .. Len(rest) : rest[j] = x
      /\ \A j, k \in 1 .. Len(rest) : j < k => Ahead(t.stack, rest[j], rest[k])
  BY <1>1, PlacesOfOthers
<1>4. Len(rest) = Len(Without(t.stack, w))  OBVIOUS
<1> HIDE DEF rest
<1>5. seen \in SUBSET (1 .. Len(rest)) /\ stops \in SUBSET seen /\ passed \in SUBSET seen  BY <1>3
<1>6. \A i \in seen : i \in passed <=> \A j \in stops : i < j  OBVIOUS
<1>7. \A i \in 1 .. Len(rest) : i \in seen <=> t.view[rest[i]].visible  BY <1>3
<1>8. \A i \in seen : i \in stops <=>
        /\ ~(t.view[rest[i]].layer > Normal \/ t.view[rest[i]].alwaysTop)
        /\ t.view[rest[i]].layer < Normal \/ rest[i] \in Windows
  BY DEF IsWindow
<1> HIDE DEF seen, stops, passed
<1>9. m \in 0 .. Len(rest) /\ (m = 0 \/ m \in passed) /\ \A y \in passed : y <= m
  <2>1. passed \cup {0} \in SUBSET (0 .. Len(rest)) /\ passed \cup {0} # {}  BY <1>3, <1>5
  <2>2. m \in passed \cup {0} /\ \A y \in passed \cup {0} : y <= m
    <3> HIDE DEF m
    <3> PICK S : S = passed \cup {0}  OBVIOUS
    <3>1. S \in SUBSET (0 .. Len(rest)) /\ S # {}  BY <2>1
    <3>2. Max(S) \in S /\ \A y \in S : y <= Max(S)
      BY ONLY <3>1, Len(rest) \in Nat, MaxIs, <1>3
    <3> QED  BY <3>2 DEF m
  <2> QED  BY <2>1, <2>2
<1> HIDE DEF m
<1>10. 1 + m \in 1 .. Len(Without(t.stack, w)) + 1  BY <1>3, <1>4, <1>9
<1>11. /\ Relisted(t, u, w)
       /\ \A j \in 1 .. Len(rest) : IF j < 1 + m THEN Ahead(u.stack, rest[j], w)
                                    ELSE Ahead(u.stack, w, rest[j])
  <2>1. w \in Alive(t) /\ t \in States /\ ListOf(t.stack, Alive(t))  BY <1>1
  <2> HIDE DEF u
  <2> QED  BY <2>1, <1>10, MoveToIs DEF u, rest
<1> HIDE DEF u
<1>12. \A i \in stops : i > m
  <2> TAKE i \in stops
  <2>1. i \in 1 .. Len(rest)  BY <1>5
  <2>2. m = 0 \/ m < i  BY <1>5, <1>6, <1>9
  <2> QED  BY <2>1, <2>2, <1>9
<1>13. ASSUME NEW x \in Windows \ {w}, t.view[x].visible PROVE Ahead(u.stack, w, x)
  <2>1. x \in Views /\ SoundView(t, x)  BY <1>1, <1>13 DEF Views
  <2>2. x \in Alive(t) \ {w}  BY <2>1, <1>13 DEF SoundView, NoView, Alive
  <2>3. PICK j \in 1 .. Len(rest) : rest[j] = x  BY <2>2, <1>3
  <2>4. j \in seen  BY <2>3, <1>7, <1>13
  <2>5. t.view[x].layer = Normal /\ ~t.view[x].alwaysTop  BY <2>1, <1>13 DEF SoundView
  <2>6. j \in stops  BY <2>3, <2>4, <2>5, <1>8, <1>13, Numbers
  <2>7. ~(j < 1 + m)  BY <2>6, <1>12, <1>9
  <2> QED  BY <2>3, <2>7, <1>11
<1>14. ASSUME TopIsAbove(t), InOrder(t, Views \ {w}) PROVE Fits(u, w)
  <2>1. \A x, y \in Views \ {w} : Ahead(t.stack, x, y) => t.view[x].layer >= t.view[y].layer
    BY <1>1, <1>14, InOrderIs
  <2>2. u.view = t.view /\ ListOf(u.stack, Alive(t))  BY <1>11 DEF Relisted
  <2> SUFFICES ASSUME NEW x \in Shown(u) \ {w}
               PROVE  /\ Ahead(u.stack, x, w) => u.view[x].layer >= u.view[w].layer
                      /\ Ahead(u.stack, w, x) => u.view[w].layer >= u.view[x].layer
    BY DEF Fits
  <2>3. x \in Views \ {w} /\ x \notin Popups /\ t.view[x].visible  BY <2>2 DEF Shown
  <2>4. SoundView(t, x) /\ t.view[x].layer \in Layers  BY <2>3, <1>1, ViewStateIs
  <2>5. x \in Alive(t) \ {w}  BY <2>3, <2>4 DEF SoundView, NoView, Alive
  <2>6. PICK j \in 1 .. Len(rest) : rest[j] = x  BY <2>5, <1>3
  <2>7. j \in seen  BY <2>3, <2>6, <1>7
  <2>8. w \in Views /\ t.view[w].layer = Normal  BY <1>1 DEF SoundView, Views
  <2>9. ASSUME Ahead(u.stack, x, w) PROVE t.view[x].layer >= Normal
    <3>1. j < 1 + m  BY <2>2, <2>6, <2>9, <1>11, AheadIsStrict
    <3>2. j \notin stops  BY <3>1, <1>9, <1>12
    <3>3. \/ t.view[x].layer > Normal \/ t.view[x].alwaysTop
          \/ ~(t.view[x].layer < Normal)
      BY <3>2, <2>6, <2>7, <1>8
    <3>4. t.view[x].alwaysTop => t.view[x].layer > Normal  BY <2>3, <1>14 DEF TopIsAbove
    <3> QED  BY <3>3, <3>4, <2>4, Numbers
  <2>10. ASSUME Ahead(u.stack, w, x) PROVE Normal >= t.view[x].layer
    <3>1. ~(j < 1 + m)  BY <2>2, <2>6, <2>10, <1>11, AheadIsStrict
    <3>2. j \notin passed  BY <3>1, <1>9
    <3>3. PICK k \in stops : ~(j < k)  BY <3>2, <2>7, <1>6
    <3>4. k \in 1 .. Len(rest) /\ k \in seen  BY <1>5
    <3> DEFINE y == rest[k]
    <3>5. y \in Views \ {w}  BY <3>4, <1>3 DEF Alive
    <3>6. t.view[y].layer \in Layers  BY <3>5, <1>1, ViewStateIs
    <3>7. ~(t.view[y].layer > Normal)  BY <3>4, <1>8
    <3>8. t.view[y].layer <= Normal  BY <3>6, <3>7, Numbers
    <3> HIDE DEF y
    <3>9. CASE j = k  BY <3>9, <3>8, <3>6, <2>6, Numbers DEF y
    <3>10. CASE k < j
      <4>1. Ahead(t.stack, y, x)  BY <3>10, <3>4, <2>6, <1>3 DEF y
      <4>2. t.view[y].layer >= t.view[x].layer  BY <4>1, <3>5, <2>3, <2>1
      <4> QED  BY <4>2, <3>8, <3>6, <2>4, Numbers
    <3> QED  BY <3>3, <3>4, <3>9, <3>10
  <2> QED  BY <2>2, <2>8, <2>9, <2>10
<1> QED  BY <1>2, <1>11, <1>13, <1>14

\* The case that RestackForLayer gets wrong.
FallsBehindAll(t, u, v) ==
    /\ t.stack # <<>> /\ t.stack[1] # v
    /\ u.stack[Len(u.stack)] = v
    /\ \A x \in ToSet(t.stack) \ {v} : t.view[x].layer < t.view[v].layer

\* Any view that is put where its layer is.
LEMMA RestackForLayerIs ==
  ASSUME NEW t \in States, ListOf(t.stack, Alive(t)), NEW v \in Alive(t), NEW raise \in BOOLEAN
  PROVE  /\ Relisted(t, RestackForLayer(t, v, raise), v)
         /\ InOrder(t, Views \ {v}) /\ (raise \/ ~FallsBehindAll(t, RestackForLayer(t, v, raise), v))
              => Fits(RestackForLayer(t, v, raise), v)
<1> DEFINE rest == Without(t.stack, v)
           within == {i \in DOMAIN rest : t.view[rest[i]].layer <= t.view[v].layer}
           first == Min(within \cup {Len(rest) + 1})
           same == first \in within /\ t.view[rest[first]].layer = t.view[v].layer
           front == raise \/ (~same /\ (first > 1 \/ t.stack[1] = v))
           i == IF front THEN first ELSE IF same THEN first + 1 ELSE Len(rest) + 1
           u == MoveTo(t, v, i)
<1>1. RestackForLayer(t, v, raise) = u
  BY DEF RestackForLayer
<1>2. v \in Views  BY DEF Alive
<1>3. /\ rest \in Seq(Views) /\ Len(rest) \in Nat /\ DOMAIN rest = 1 .. Len(rest)
      /\ \A j \in 1 .. Len(rest) : rest[j] \in Alive(t) \ {v}
      /\ \A x \in Alive(t) \ {v} : \E j \in 1 .. Len(rest) : rest[j] = x
      /\ \A j, k \in 1 .. Len(rest) : j < k => Ahead(t.stack, rest[j], rest[k])
  BY PlacesOfOthers
<1> HIDE DEF rest
<1>4. within \in SUBSET (1 .. Len(rest))  BY <1>3
<1>5. \A j \in 1 .. Len(rest) : j \in within <=> t.view[rest[j]].layer <= t.view[v].layer  BY <1>3
<1> HIDE DEF within
<1>6. /\ first \in 1 .. Len(rest) + 1
      /\ first \in within \/ first = Len(rest) + 1
      /\ \A j \in within : first <= j
  <2>1. within \cup {Len(rest) + 1} \in SUBSET Nat /\ within \cup {Len(rest) + 1} # {}
    <3>1. Len(rest) + 1 \in Nat /\ 1 .. Len(rest) \subseteq Nat  BY <1>3
    <3> QED  BY <3>1, <1>4
  <2>2. first \in within \cup {Len(rest) + 1} /\ \A j \in within \cup {Len(rest) + 1} : first <= j
    <3> HIDE DEF first
    <3> PICK S : S = within \cup {Len(rest) + 1}  OBVIOUS
    <3>1. S \in SUBSET Nat /\ S # {}  BY <2>1
    <3>2. Min(S) \in S /\ \A y \in S : Min(S) <= y  BY ONLY <3>1, MinIs
    <3> QED  BY <3>2 DEF first
  <2> HIDE DEF first
  <2> QED  BY <2>2, <1>3, <1>4
<1> HIDE DEF first
<1>7. same => first \in 1 .. Len(rest) /\ t.view[rest[first]].layer = t.view[v].layer
  BY <1>4
<1>8. \A j \in 1 .. Len(rest) : ~(t.view[rest[j]].layer <= t.view[v].layer) \/ first <= j
  BY <1>5, <1>6
<1>9. first \in 1 .. Len(rest) => t.view[rest[first]].layer <= t.view[v].layer
  <2> HAVE first \in 1 .. Len(rest)
  <2>1. first \in within  BY <1>3, <1>6
  <2> QED  BY <2>1, <1>5
<1>10. ~same /\ first \in 1 .. Len(rest) => t.view[rest[first]].layer # t.view[v].layer
  <2> HAVE ~same /\ first \in 1 .. Len(rest)
  <2>1. first \in within  BY <1>3, <1>6
  <2> QED  BY <2>1
<1>11. front <=> (raise \/ (~same /\ (first > 1 \/ t.stack[1] = v)))  OBVIOUS
<1> HIDE DEF same, front
<1>12. i \in 1 .. Len(rest) + 1  BY <1>3, <1>6, <1>7
<1>13. /\ Relisted(t, u, v)
       /\ u.stack = Moving(t.stack, v, i)
       /\ \A j \in 1 .. Len(rest) : IF j < i THEN Ahead(u.stack, rest[j], v)
                                    ELSE Ahead(u.stack, v, rest[j])
  <2>1. i \in 1 .. Len(Without(t.stack, v)) + 1  BY <1>12 DEF rest
  <2> HIDE DEF i, u
  <2> QED  BY <2>1, MoveToIs DEF u, rest
<1>14. CASE front \/ same
  <2>1. front => i = first  OBVIOUS
  <2>2. ~front => same /\ i = first + 1  BY <1>14
  <2> HIDE DEF i, u
  <2> SUFFICES ASSUME InOrder(t, Views \ {v}) PROVE Fits(u, v)
    BY <1>1, <1>13
  <2>3. \A x, y \in Views \ {v} : Ahead(t.stack, x, y) => t.view[x].layer >= t.view[y].layer
    BY InOrderIs
  <2>4. u.view = t.view /\ ListOf(u.stack, Alive(t))  BY <1>13 DEF Relisted
  <2> SUFFICES ASSUME NEW x \in Shown(u) \ {v}
               PROVE  /\ Ahead(u.stack, x, v) => u.view[x].layer >= u.view[v].layer
                      /\ Ahead(u.stack, v, x) => u.view[v].layer >= u.view[x].layer
    BY DEF Fits
  <2>5. x \in Views \ {v} /\ u.view = t.view  BY <2>4 DEF Shown
  <2>6. t.view[x].layer \in 0 .. 4 /\ t.view[v].layer \in 0 .. 4  BY <2>5, <1>2, ViewStateIs, Numbers
  <2>7. CASE x \notin Alive(t)
    BY <2>7, <2>4, AheadIsStrict
  <2>8. CASE x \in Alive(t)
    <3>1. PICK j \in 1 .. Len(rest) : rest[j] = x  BY <2>8, <2>5, <1>3
    <3>2. ASSUME Ahead(u.stack, x, v) PROVE t.view[x].layer >= t.view[v].layer
      <4>1. j < i  BY <3>1, <3>2, <2>4, <1>13, AheadIsStrict
      <4>2. CASE j < first
        <5>1. ~(t.view[x].layer <= t.view[v].layer)  BY <4>2, <3>1, <1>8, <1>6
        <5> QED  BY <5>1, <2>6
      <4>3. CASE ~(j < first)
        <5>1. j = first /\ same  BY <4>1, <4>3, <2>1, <2>2, <1>6
        <5> QED  BY <5>1, <3>1, <1>7, <2>6
      <4> QED  BY <4>2, <4>3
    <3>3. ASSUME Ahead(u.stack, v, x) PROVE t.view[v].layer >= t.view[x].layer
      <4>1. ~(j < i)  BY <3>1, <3>3, <2>4, <1>13, AheadIsStrict
      <4>2. first <= j /\ first \in 1 .. Len(rest)  BY <4>1, <2>1, <2>2, <1>6, <1>3
      <4> DEFINE y == rest[first]
      <4>3. y \in Views \ {v} /\ t.view[y].layer <= t.view[v].layer
        BY <4>2, <1>3, <1>9 DEF Alive
      <4>4. t.view[y].layer \in 0 .. 4  BY <4>3, ViewStateIs, Numbers
      <4>5. CASE j = first  BY <4>5, <4>3, <3>1, <2>6
      <4>6. CASE first < j
        <5>1. Ahead(t.stack, y, x)  BY <4>2, <4>6, <3>1, <1>3
        <5> HIDE DEF y
        <5>2. t.view[y].layer >= t.view[x].layer  BY <5>1, <4>3, <2>5, <2>3
        <5> QED  BY <5>2, <4>3, <4>4, <2>6
      <4> QED  BY <4>2, <4>5, <4>6
    <3> QED  BY <3>2, <3>3, <2>5
  <2> QED  BY <2>7, <2>8
<1>15. CASE ~front /\ ~same
  <2>1. ~raise /\ first = 1 /\ t.stack[1] # v /\ i = Len(rest) + 1
    BY <1>15, <1>11, <1>6
  <2>2. u.view = t.view /\ ListOf(u.stack, Alive(t))  BY <1>13 DEF Relisted
  <2>3. t.stack # <<>>
    <3>1. \E k \in 1 .. Len(t.stack) : t.stack[k] = v
      <4>1. t.stack \in Seq(Views)  BY DEF ListOf
      <4> QED  BY <4>1, ListIs
    <3> QED  BY <3>1
  <2>4. u.stack[Len(u.stack)] = v
    <3> PICK S : S = Views  OBVIOUS
    <3>1. rest \in Seq(S) /\ v \in S /\ i \in 1 .. Len(rest) + 1  BY <1>2, <1>3, <1>12
    <3> DEFINE r == InsertAt(rest, i, v)
    <3>2. /\ Len(r) = Len(rest) + 1
          /\ \A j \in 1 .. Len(rest) + 1 :
               r[j] = IF j < i THEN rest[j] ELSE IF j = i THEN v ELSE rest[j - 1]
      BY ONLY <3>1, InsertedAt
    <3> HIDE DEF r
    <3>3. r[Len(r)] = v  BY <3>2, <2>1, <1>3
    <3>4. u.stack = r  BY <1>13 DEF Moving, r, rest
    <3> QED  BY <3>3, <3>4
  <2> HIDE DEF i, u
  <2>5. ASSUME InOrder(t, Views \ {v}) PROVE FallsBehindAll(t, u, v)
    <3>1. \A x, y \in Views \ {v} : Ahead(t.stack, x, y) => t.view[x].layer >= t.view[y].layer
      BY <2>5, InOrderIs
    <3>2. ASSUME NEW x \in Alive(t) \ {v} PROVE t.view[x].layer < t.view[v].layer
      <4>1. PICK j \in 1 .. Len(rest) : rest[j] = x  BY <1>3
      <4>2. first \in 1 .. Len(rest) /\ first <= j  BY <4>1, <2>1, <1>3
      <4> DEFINE y == rest[first]
      <4>3. y \in Views \ {v} /\ t.view[y].layer <= t.view[v].layer
        BY <4>2, <1>3, <1>9 DEF Alive
      <4>4. t.view[y].layer # t.view[v].layer  BY <4>2, <1>10, <1>15
      <4>5. t.view[y].layer \in 0 .. 4 /\ t.view[v].layer \in 0 .. 4 /\ t.view[x].layer \in 0 .. 4
        <5>1. x \in Views  BY DEF Alive
        <5> QED  BY <4>3, <5>1, <1>2, ViewStateIs, Numbers
      <4>6. t.view[y].layer >= t.view[x].layer
        <5>1. CASE j = first  BY <5>1, <4>1, <4>5
        <5>2. CASE first < j
          <6>1. Ahead(t.stack, y, x)  BY <4>1, <4>2, <5>2, <1>3
          <6> QED  BY <6>1, <4>3, <3>1 DEF Alive
        <5> QED  BY <4>2, <5>1, <5>2
      <4> HIDE DEF y
      <4> QED  BY <4>3, <4>4, <4>5, <4>6
    <3>3. ToSet(t.stack) = Alive(t)  BY DEF ListOf
    <3> QED  BY <2>1, <2>3, <2>4, <3>2, <3>3 DEF FallsBehindAll
  <2> QED  BY <1>1, <1>13, <2>1, <2>5
<1> QED  BY <1>14, <1>15

\* A view that is put right beside another of its layer.
LEMMA BesideIs ==
  ASSUME NEW t \in States, ListOf(t.stack, Alive(t)), NEW v \in Alive(t), NEW s \in Alive(t) \ {v},
         t.view[v].layer = t.view[s].layer,
         NEW k \in 1 .. Len(Without(t.stack, v)), Without(t.stack, v)[k] = s,
         NEW i \in {k, k + 1}
  PROVE  /\ Relisted(t, MoveTo(t, v, i), v)
         /\ InOrder(t, Views \ {v}) => Fits(MoveTo(t, v, i), v)
<1> DEFINE rest == Without(t.stack, v)
           u == MoveTo(t, v, i)
<1>1. v \in Views /\ s \in Views \ {v}  BY DEF Alive
<1>2. /\ rest \in Seq(Views) /\ Len(rest) \in Nat /\ DOMAIN rest = 1 .. Len(rest)
      /\ \A j \in 1 .. Len(rest) : rest[j] \in Alive(t) \ {v}
      /\ \A x \in Alive(t) \ {v} : \E j \in 1 .. Len(rest) : rest[j] = x
      /\ \A j, l \in 1 .. Len(rest) : j < l => Ahead(t.stack, rest[j], rest[l])
  BY PlacesOfOthers
<1>3. i \in 1 .. Len(rest) + 1  BY <1>2
<1>4. /\ Relisted(t, u, v)
      /\ \A j \in 1 .. Len(rest) : IF j < i THEN Ahead(u.stack, rest[j], v)
                                   ELSE Ahead(u.stack, v, rest[j])
  <2> HIDE DEF u
  <2> QED  BY <1>3, MoveToIs DEF u
<1>5. k \in 1 .. Len(rest) /\ rest[k] = s  OBVIOUS
<1> HIDE DEF rest, u
<1>6. ASSUME InOrder(t, Views \ {v}) PROVE Fits(u, v)
  <2>1. \A x, y \in Views \ {v} : Ahead(t.stack, x, y) => t.view[x].layer >= t.view[y].layer
    BY <1>6, InOrderIs
  <2>2. u.view = t.view /\ ListOf(u.stack, Alive(t))  BY <1>4 DEF Relisted
  <2> SUFFICES ASSUME NEW x \in Shown(u) \ {v}
               PROVE  /\ Ahead(u.stack, x, v) => u.view[x].layer >= u.view[v].layer
                      /\ Ahead(u.stack, v, x) => u.view[v].layer >= u.view[x].layer
    BY DEF Fits
  <2>3. x \in Views \ {v} /\ u.view = t.view  BY <2>2 DEF Shown
  <2>4. t.view[x].layer \in 0 .. 4 /\ t.view[v].layer \in 0 .. 4
    BY <2>3, <1>1, ViewStateIs, Numbers
  <2>5. CASE x \notin Alive(t)
    BY <2>5, <2>2, AheadIsStrict
  <2>6. CASE x \in Alive(t)
    <3>1. PICK j \in 1 .. Len(rest) : rest[j] = x  BY <2>6, <2>3, <1>2
    <3>2. ASSUME Ahead(u.stack, x, v) PROVE t.view[x].layer >= t.view[v].layer
      <4>1. j < i  BY <3>1, <3>2, <2>2, <1>4, AheadIsStrict
      <4>2. j <= k  BY <4>1, <1>2, <1>5
      <4>3. CASE j = k  BY <4>3, <3>1, <1>5, <2>4
      <4>4. CASE j < k
        <5>1. Ahead(t.stack, x, s)  BY <4>4, <3>1, <1>2, <1>5
        <5> QED  BY <5>1, <2>1, <2>3, <1>1
      <4> QED  BY <4>2, <4>3, <4>4
    <3>3. ASSUME Ahead(u.stack, v, x) PROVE t.view[v].layer >= t.view[x].layer
      <4>1. ~(j < i)  BY <3>1, <3>3, <2>2, <1>4, AheadIsStrict
      <4>2. k <= j  BY <4>1, <1>2, <1>5
      <4>3. CASE j = k  BY <4>3, <3>1, <1>5, <2>4
      <4>4. CASE k < j
        <5>1. Ahead(t.stack, s, x)  BY <4>4, <3>1, <1>2, <1>5
        <5> QED  BY <5>1, <2>1, <2>3, <1>1
      <4> QED  BY <4>2, <4>3, <4>4
    <3> QED  BY <3>2, <3>3, <2>3
  <2> QED  BY <2>5, <2>6
<1> QED  BY <1>4, <1>6 DEF u

-----------------------------------------------------------------------------
(* Showing: one view.                                                      *)

\* In u, x is as in t but for being seen.
Like(t, u, x) == u.view[x] = [t.view[x] EXCEPT !.visible = u.view[x].visible]

LEMMA LikeIs ==
  ASSUME NEW t \in States, NEW u \in States, NEW x \in Views, Like(t, u, x)
  PROVE  /\ u.view[x].alive = t.view[x].alive /\ u.view[x].alwaysTop = t.view[x].alwaysTop
         /\ u.view[x].layer = t.view[x].layer /\ u.view[x].parent = t.view[x].parent
         /\ u.view[x].visible = t.view[x].visible => u.view[x] = t.view[x]
<1>1. t.view[x] \in ViewStates  BY ViewStateIs
<1> QED  BY <1>1 DEF Like, ViewStates

LEMMA AppearIs ==
  ASSUME NEW t, Sound(t), NEW c \in Alive(t)
  PROVE  LET u == Appear(t, c)
         IN /\ u \in States
            /\ \A x \in Views : /\ Like(t, u, x)
                                /\ x # c => u.view[x] = t.view[x]
            /\ u.view[c].visible
            /\ u.overlooked = t.overlooked
            /\ ListOf(u.stack, Alive(t))
            /\ MovedOnly(t.stack, u.stack, c)
            /\ c \notin Windows => u.stack = t.stack
            /\ c \in Windows =>
                 /\ \A x \in Windows \ {c} : t.view[x].visible => Ahead(u.stack, c, x)
                 /\ TopIsAbove(t) /\ InOrder(t, Views \ {c}) => Fits(u, c)
<1> DEFINE seen == [t EXCEPT !.view[c].visible = TRUE]
           u == Appear(t, c)
<1>1. t \in States /\ ListOf(t.stack, Alive(t)) /\ \A v \in Views : SoundView(t, v)  BY DEF Sound
<1>2. c \in Views /\ t.view[c].alive  BY DEF Alive
<1>3. t.view \in [Views -> ViewStates]  BY <1>1 DEF States
<1>4. /\ seen.view = [t.view EXCEPT ![c].visible = TRUE]
      /\ seen.stack = t.stack /\ seen.overlooked = t.overlooked
  BY <1>1, <1>2 DEF States
<1>5. t.view[c] \in ViewStates /\ [t.view[c] EXCEPT !.visible = TRUE] \in ViewStates
  BY <1>1, <1>2, ViewStateIs DEF ViewStates
<1>6. seen.view \in [Views -> ViewStates] /\ seen.view[c] = [t.view[c] EXCEPT !.visible = TRUE]
      /\ \A x \in Views \ {c} : seen.view[x] = t.view[x]
  BY <1>2, <1>3, <1>4, <1>5
<1>7. seen \in States
  BY <1>1, <1>4, <1>6 DEF States
<1>8. /\ seen.view[c].visible /\ seen.view[c].alive
      /\ seen.view[c].layer = t.view[c].layer /\ seen.view[c].alwaysTop = t.view[c].alwaysTop
  BY <1>2, <1>5, <1>6 DEF ViewStates
<1> HIDE DEF seen
<1>9. Alive(seen) = Alive(t)  BY <1>2, <1>6, <1>8 DEF Alive
<1>10. ASSUME NEW x \in Views PROVE Like(t, seen, x)
  <2>1. t.view[x] \in ViewStates  BY <1>1, ViewStateIs
  <2>2. CASE x = c  BY <2>2, <1>6, <1>8 DEF Like
  <2>3. CASE x # c  BY <2>1, <2>3, <1>6 DEF Like, ViewStates
  <2> QED  BY <2>2, <2>3
<1>11. \A x \in Views : SoundView(seen, x)
  <2> TAKE x \in Views
  <2>1. SoundView(t, x)  BY <1>1
  <2>2. CASE x = c  BY <2>1, <2>2, <1>8 DEF SoundView
  <2>3. CASE x # c  BY <2>1, <2>3, <1>6 DEF SoundView
  <2> QED  BY <2>2, <2>3
<1>12. Sound(seen)  BY <1>1, <1>4, <1>7, <1>9, <1>11 DEF Sound
<1>13. CASE c \notin Windows
  <2>1. u = seen  BY <1>13 DEF Appear, seen, IsWindow
  <2>2. MovedOnly(t.stack, seen.stack, c)  BY <1>4 DEF MovedOnly
  <2> HIDE DEF u
  <2> QED  BY <2>1, <2>2, <1>1, <1>4, <1>6, <1>7, <1>8, <1>10, <1>13 DEF u
<1>14. CASE c \in Windows
  <2>1. u = RaiseWindow(seen, c)  BY <1>14 DEF Appear, seen, IsWindow
  <2>2. c \in Alive(seen)  BY <1>9
  <2>3. /\ Relisted(seen, u, c)
        /\ \A x \in Windows \ {c} : seen.view[x].visible => Ahead(u.stack, c, x)
        /\ TopIsAbove(seen) /\ InOrder(seen, Views \ {c}) => Fits(u, c)
    <3> HIDE DEF u
    <3> QED  BY <2>1, <2>2, <1>12, <1>14, RaiseWindowIs
  <2> HIDE DEF u
  <2>4. /\ u \in States /\ u.view = seen.view /\ u.overlooked = seen.overlooked
        /\ ListOf(u.stack, Alive(seen)) /\ MovedOnly(seen.stack, u.stack, c)
    BY <2>3 DEF Relisted
  <2>5. \A x \in Views : Like(t, u, x)  BY <2>4, <1>10 DEF Like
  <2>6. \A x \in Windows \ {c} : t.view[x].visible => Ahead(u.stack, c, x)
    <3>1. \A x \in Windows \ {c} : x \in Views  BY DEF Views
    <3> QED  BY <3>1, <2>3, <1>6
  <2>7. ASSUME TopIsAbove(t), InOrder(t, Views \ {c}) PROVE Fits(u, c)
    <3>1. TopIsAbove(seen)
      <4> SUFFICES ASSUME NEW x \in Views, seen.view[x].visible, seen.view[x].alwaysTop
                   PROVE  seen.view[x].layer > Normal
        BY DEF TopIsAbove
      <4>1. x # c  BY <1>1, <1>2, <1>8, <1>14 DEF SoundView
      <4> QED  BY <4>1, <1>6, <2>7 DEF TopIsAbove
    <3>2. InOrder(seen, Views \ {c})
      <4>1. \A x, y \in Views \ {c} : Ahead(t.stack, x, y) => t.view[x].layer >= t.view[y].layer
        BY <1>1, <2>7, InOrderIs
      <4>2. \A x, y \in Views \ {c} : Ahead(seen.stack, x, y) => seen.view[x].layer >= seen.view[y].layer
        BY <4>1, <1>4, <1>6
      <4>3. ListOf(seen.stack, Alive(t))  BY <1>1, <1>4
      <4> QED  BY <4>2, <4>3, InOrderIs
    <3> QED  BY <3>1, <3>2, <2>3
  <2> QED  BY <2>4, <2>5, <2>6, <2>7, <1>4, <1>6, <1>8, <1>9, <1>14 DEF u
<1> QED  BY <1>13, <1>14

-----------------------------------------------------------------------------
(* Showing: the walk.                                                      *)

Under(t) == {<<t.view[x].parent, x>> : x \in Views}
Below(t, v) == Reach({v}, Under(t))

LEMMA BelowIs ==
  ASSUME NEW t, NEW v \in Views
  PROVE  /\ Below(t, v) \subseteq Views /\ v \in Below(t, v)
         /\ \A x \in Views : t.view[x].parent \in Below(t, v) => x \in Below(t, v)
<1>1. {v} \in SUBSET Views  OBVIOUS
<1>2. /\ Below(t, v) \subseteq Views
      /\ {v} \subseteq Below(t, v)
      /\ \A e \in Under(t) : e[1] \in Below(t, v) /\ e[2] \in Views => e[2] \in Below(t, v)
  BY <1>1, ReachIs DEF Below
<1>3. ASSUME NEW x \in Views, t.view[x].parent \in Below(t, v) PROVE x \in Below(t, v)
  <2> DEFINE e == <<t.view[x].parent, x>>
  <2>1. e \in Under(t) /\ e[1] = t.view[x].parent /\ e[2] = x  BY DEF Under
  <2> HIDE DEF e
  <2> QED  BY <2>1, <1>2, <1>3
<1> QED  BY <1>2, <1>3

\* The show of v has led from t to u: those that appeared lie above v; if v is a window
\* it is in front of all others but these; and if nothing but v and popups appeared,
\* nothing but v has moved.
Shows(t, u, v) ==
    /\ u \in States
    /\ \A x \in Views : Like(t, u, x) /\ (t.view[x].visible => u.view[x].visible)
    /\ u.view[v].visible
    /\ ListOf(u.stack, Alive(t))
    /\ \A x \in Views : u.view[x].visible /\ ~t.view[x].visible => x \in Below(t, v) /\ x \in Alive(t)
    /\ v \in Windows => \A x \in Windows \ Below(t, v) : u.view[x].visible => Ahead(u.stack, v, x)
    /\ \/ u.stack = Appear(t, v).stack
       \/ \E c \in Views \ (Popups \cup {v}) : u.view[c].visible /\ ~t.view[c].visible

\* Popups, all but one, are seen with their parents or were overlooked.
Together(t, but) ==
    \A x \in Popups \ {but} :
       /\ t.view[x].visible => x \in FollowsSeen(t)
       /\ x \in FollowsSeen(t) /\ x \notin t.overlooked => t.view[x].visible

LEMMA FollowsSeenIs ==
  ASSUME NEW t, NEW x \in Views
  PROVE  x \in FollowsSeen(t) <=> t.view[x].parent \in Views /\ t.view[t.view[x].parent].visible
BY DEF FollowsSeen

LEMMA SoundAfter ==
  ASSUME NEW t, Sound(t), NEW v, NEW u, Shows(t, u, v)
  PROVE  Sound(u) /\ Alive(u) = Alive(t)
<1>1. t \in States /\ u \in States  BY DEF Sound, Shows
<1>2. \A x \in Views : u.view[x].alive = t.view[x].alive  BY <1>1, LikeIs DEF Shows
<1>3. Alive(u) = Alive(t)  BY <1>2 DEF Alive
<1>4. ASSUME NEW x \in Views PROVE SoundView(u, x)
  <2>1. /\ u.view[x].alive = t.view[x].alive /\ u.view[x].alwaysTop = t.view[x].alwaysTop
        /\ u.view[x].layer = t.view[x].layer
        /\ u.view[x].visible = t.view[x].visible => u.view[x] = t.view[x]
    BY <1>1, LikeIs DEF Shows
  <2>2. SoundView(t, x)  BY DEF Sound
  <2>3. ASSUME ~t.view[x].alive PROVE u.view[x].visible = t.view[x].visible
    <3>1. x \notin Alive(t)  BY <2>3 DEF Alive
    <3>2. u.view[x].visible => t.view[x].visible  BY <3>1 DEF Shows
    <3>3. t.view[x].visible => u.view[x].visible  BY DEF Shows
    <3>4. u.view[x].visible \in BOOLEAN /\ t.view[x].visible \in BOOLEAN  BY <1>1, ViewStateIs
    <3> QED  BY <3>2, <3>3, <3>4
  <2> QED  BY <2>1, <2>2, <2>3 DEF SoundView
<1> QED  BY <1>1, <1>3, <1>4 DEF Sound, Shows

\* Where the i-th of the nested walks has come to.
Cursor(k, i) == IF i = Len(k.path) THEN k.at ELSE k.path[i + 1]

Hidden(t) == {x \in Views : ~t.view[x].visible}

\* What a hidden popup has yet to expect of the walk.
Expects(k, x) ==
    x \in FollowsSeen(k.state) =>
       \E i \in 1 .. Len(k.path) : k.path[i] = k.state.view[x].parent

\* And what the i-th of the nested walks has not come to yet.
Expected(k, i, x) ==
    k.state.view[x].parent = k.path[i]
      => Cursor(k, i) = None \/ Ahead(k.state.stack, Cursor(k, i), x)

Waits(k, v, x) ==
    x \in Popups \ {v} /\ ~k.state.view[x].visible /\ x \notin k.state.overlooked

\* The invariant of the walk, n steps after it began.
Walking(t, v, k, n) ==
    /\ k = Walk(k.state, k.path, k.at)
    /\ Shows(t, k.state, v)
    /\ k.path \in Seq(Views)
    /\ \A i \in 1 .. Len(k.path) : k.state.view[k.path[i]].visible /\ k.path[i] \in Below(t, v)
    /\ k.at \in Views \cup {None}
    /\ k.at # None => k.state.view[k.at].visible
    /\ \A x \in Popups \ {v} : k.state.view[x].visible => x \in FollowsSeen(k.state)
    /\ \A x : Waits(k, v, x) => Expects(k, x)
    /\ \A x : Waits(k, v, x) => \A i \in 1 .. Len(k.path) : Expected(k, i, x)
    /\ Len(k.path) = 0 \/ 2 * Cardinality(Hidden(k.state)) + Len(k.path) + n <= 2 * Cardinality(Views)

LEMMA HiddenIs ==
  ASSUME NEW t
  PROVE  /\ IsFiniteSet(Hidden(t)) /\ Cardinality(Hidden(t)) \in Nat /\ Cardinality(Views) \in Nat
         /\ Cardinality(Hidden(t)) <= Cardinality(Views)
<1>1. IsFiniteSet(Views) /\ Hidden(t) \in SUBSET Views  BY ViewAssumption DEF Hidden
<1>2. IsFiniteSet(Hidden(t)) /\ Cardinality(Hidden(t)) <= Cardinality(Views)  BY <1>1, FS_Subset
<1> QED  BY <1>1, <1>2, FS_CardinalityType

LEMMA OneLessHidden ==
  ASSUME NEW t, NEW u, NEW c, c \in Hidden(t), Hidden(u) = Hidden(t) \ {c}
  PROVE  Cardinality(Hidden(u)) = Cardinality(Hidden(t)) - 1
<1>1. IsFiniteSet(Hidden(t))  BY HiddenIs
<1> QED  BY <1>1, FS_RemoveElement

LEMMA WalkBegins ==
  ASSUME NEW t, Sound(t), NEW v \in Alive(t), ~t.view[v].visible, Together(t, v)
  PROVE  Walking(t, v, Walk(Appear(t, v), <<v>>, None), 0)
<1> DEFINE u == Appear(t, v)
           k == Walk(u, <<v>>, None)
<1>1. v \in Views /\ t \in States  BY DEF Alive, Sound
<1>2. /\ u \in States
      /\ \A x \in Views : /\ Like(t, u, x)
                          /\ x # v => u.view[x] = t.view[x]
      /\ u.view[v].visible
      /\ u.overlooked = t.overlooked
      /\ ListOf(u.stack, Alive(t))
      /\ v \in Windows => \A x \in Windows \ {v} : t.view[x].visible => Ahead(u.stack, v, x)
  <2> HIDE DEF u
  <2> QED  BY AppearIs DEF u
<1>3. v \in Below(t, v)  BY <1>1, BelowIs
<1>4. k.state = u /\ k.path = <<v>> /\ k.at = None /\ k = Walk(u, <<v>>, None)  BY DEF Walk
<1>5. <<v>> \in Seq(Views) /\ Len(<<v>>) = 1 /\ <<v>>[1] = v  BY <1>1
<1> HIDE DEF u, k
<1>6. Shows(t, u, v)
  <2>1. \A x \in Views : t.view[x].visible => u.view[x].visible  BY <1>2
  <2>2. \A x \in Views : u.view[x].visible /\ ~t.view[x].visible => x = v  BY <1>2
  <2>3. ASSUME v \in Windows, NEW x \in Windows \ Below(t, v), u.view[x].visible
        PROVE  Ahead(u.stack, v, x)
    <3>1. x # v /\ x \in Views  BY <2>3, <1>3 DEF Views
    <3> QED  BY <3>1, <2>3, <1>2
  <2>4. u.stack = Appear(t, v).stack  BY DEF u
  <2> QED  BY <1>2, <1>3, <2>1, <2>2, <2>3, <2>4 DEF Shows
<1>7. \A x \in Views : u.view[x].parent = t.view[x].parent
  BY <1>1, <1>2, LikeIs
<1>8. ASSUME NEW x \in Popups \ {v}, u.view[x].visible PROVE x \in FollowsSeen(u)
  <2>1. x \in Views /\ x # v  BY DEF Views
  <2>2. x \in FollowsSeen(t)  BY <2>1, <1>2, <1>8 DEF Together
  <2> QED  BY <2>1, <2>2, <1>6, <1>7, FollowsSeenIs DEF Shows
<1>9. ASSUME NEW x, Waits(k, v, x) PROVE Expects(k, x)
  <2>1. x \in Popups \ {v} /\ x \in Views /\ ~u.view[x].visible /\ x \notin u.overlooked
    BY <1>4, <1>9 DEF Waits, Views
  <2>2. ~t.view[x].visible /\ x \notin t.overlooked  BY <2>1, <1>2
  <2>3. x \notin FollowsSeen(t)  BY <2>1, <2>2 DEF Together
  <2>4. ASSUME x \in FollowsSeen(u) PROVE u.view[x].parent = v
    <3>1. u.view[x].parent \in Views /\ u.view[u.view[x].parent].visible  BY <2>4, <2>1, FollowsSeenIs
    <3>2. u.view[x].parent = t.view[x].parent  BY <2>1, <1>7
    <3>3. ~t.view[t.view[x].parent].visible  BY <3>1, <3>2, <2>1, <2>3, FollowsSeenIs
    <3> QED  BY <3>1, <3>2, <3>3, <1>2
  <2>5. 1 \in 1 .. Len(k.path) /\ k.path[1] = v  BY <1>4, <1>5
  <2> QED  BY <2>4, <2>5, <1>4 DEF Expects
<1>10. ASSUME NEW x, NEW i \in 1 .. Len(k.path) PROVE Expected(k, i, x)
  <2>1. i = Len(k.path)  BY <1>4, <1>5
  <2> QED  BY <2>1, <1>4 DEF Expected, Cursor
<1>11. 2 * Cardinality(Hidden(u)) + 1 + 0 <= 2 * Cardinality(Views)
  <2>1. Hidden(u) = Hidden(t) \ {v} /\ v \in Hidden(t)
    BY <1>1, <1>2 DEF Hidden
  <2>2. Cardinality(Hidden(u)) = Cardinality(Hidden(t)) - 1  BY <2>1, OneLessHidden
  <2>3. /\ Cardinality(Hidden(t)) \in Nat /\ Cardinality(Views) \in Nat
        /\ Cardinality(Hidden(t)) <= Cardinality(Views)
    BY HiddenIs
  <2> QED  BY <2>2, <2>3
<1>12. \A i \in 1 .. Len(k.path) : u.view[k.path[i]].visible /\ k.path[i] \in Below(t, v)
  BY <1>2, <1>3, <1>4, <1>5
<1>13. Walking(t, v, k, 0)
  BY <1>4, <1>5, <1>6, <1>8, <1>9, <1>10, <1>11, <1>12 DEF Walking
<1> QED  BY <1>13 DEF k, u

LEMMA DueIs ==
  ASSUME NEW t, NEW set, ListOf(t.stack, set), NEW path, NEW at, at # None => at \in set
  PROVE  LET k == Walk(t, path, at)
         IN /\ Due(k) \in SUBSET (1 .. Len(t.stack))
            /\ \A j \in Due(k) : /\ ~t.view[t.stack[j]].visible
                                 /\ t.view[t.stack[j]].parent = Last(path)
            /\ \A x \in set : /\ ~t.view[x].visible
                              /\ t.view[x].parent = Last(path)
                              /\ at = None \/ Ahead(t.stack, at, x)
                 => Position(t.stack, x) \in Due(k)
<1> DEFINE k == Walk(t, path, at)
<1>1. k.state = t /\ k.path = path /\ k.at = at  BY DEF Walk
<1> HIDE DEF k
<1>2. t.stack \in Seq(Views)  BY DEF ListOf
<1>3. DOMAIN t.stack = 1 .. Len(t.stack)  BY <1>2, LenProperties
<1>4. Due(k) = {i \in 1 .. Len(t.stack) :
                  /\ ~t.view[t.stack[i]].visible
                  /\ t.view[t.stack[i]].parent = Last(path)
                  /\ at # None => Position(t.stack, at) < i}
  BY <1>1, <1>3 DEF Due, Place
<1>5. ASSUME NEW x \in set, ~t.view[x].visible, t.view[x].parent = Last(path),
             at = None \/ Ahead(t.stack, at, x)
      PROVE  Position(t.stack, x) \in Due(k)
  <2>1. Position(t.stack, x) \in 1 .. Len(t.stack) /\ t.stack[Position(t.stack, x)] = x
    BY PositionIs
  <2>2. at # None => Position(t.stack, at) < Position(t.stack, x)  BY <1>5, PositionsTell
  <2> QED  BY <2>1, <2>2, <1>4, <1>5
<1> QED  BY <1>4, <1>5 DEF k

\* The innermost walk ends.
LEMMA WalkReturns ==
  ASSUME NEW t, Sound(t), NEW v \in Alive(t), NEW k, NEW n \in Nat, Walking(t, v, k, n),
         k.path # <<>>, Due(k) = {}
  PROVE  Walking(t, v, Step(k), n + 1)
<1> DEFINE u == k.state
           path == k.path
           at == k.at
           len == Len(path)
<1>1. /\ k = Walk(u, path, at)
      /\ Shows(t, u, v)
      /\ path \in Seq(Views)
      /\ \A i \in 1 .. len : u.view[path[i]].visible /\ path[i] \in Below(t, v)
      /\ at \in Views \cup {None}
      /\ at # None => u.view[at].visible
      /\ \A x \in Popups \ {v} : u.view[x].visible => x \in FollowsSeen(u)
      /\ \A x : Waits(k, v, x) => Expects(k, x)
      /\ \A x : Waits(k, v, x) => \A i \in 1 .. len : Expected(k, i, x)
      /\ len = 0 \/ 2 * Cardinality(Hidden(u)) + len + n <= 2 * Cardinality(Views)
  BY DEF Walking
<1>2. path \in Seq(Views)  BY <1>1
<1>3. len \in Nat /\ len # 0  BY <1>2, EmptySeq, LenProperties
<1> DEFINE next == Walk(u, Front(path), Last(path))
           front == Front(path)
<1>4. Step(k) = next  BY DEF Step
<1>5. /\ front \in Seq(Views) /\ Len(front) = len - 1
      /\ \A i \in 1 .. len - 1 : front[i] = path[i]
  <2>1. front = SubSeq(path, 1, len - 1)  BY DEF Front
  <2>2. \A i \in 1 .. len - 1 : path[i] \in Views
    <3>1. \A i \in 1 .. len : path[i] \in Views  BY <1>2, ElementOfSeq
    <3> QED  BY <3>1, <1>3
  <2>3. 1 \in Int /\ len - 1 \in Int  BY <1>3
  <2> HIDE DEF path, len, front
  <2>4. /\ SubSeq(path, 1, len - 1) \in Seq(Views)
        /\ Len(SubSeq(path, 1, len - 1)) = IF 1 <= len - 1 THEN (len - 1) - 1 + 1 ELSE 0
        /\ \A i \in 1 .. (len - 1) - 1 + 1 : SubSeq(path, 1, len - 1)[i] = path[1 + i - 1]
    BY <2>2, <2>3, SubSeqProperties
  <2> QED  BY <2>1, <2>4, <1>3
<1>6. Last(path) = path[len] /\ len \in 1 .. len  BY <1>3 DEF Last
<1>7. next.state = u /\ next.path = front /\ next.at = Last(path)
      /\ next = Walk(next.state, next.path, next.at)
  BY DEF Walk
<1>8. Last(path) \in Views /\ u.view[Last(path)].visible
  <2>1. path[len] \in Views  BY <1>2, <1>6, ElementOfSeq
  <2> QED  BY <2>1, <1>1, <1>6
<1>9. Sound(u) /\ Alive(u) = Alive(t)  BY <1>1, SoundAfter
<1>10. at # None => at \in Alive(u)
  <2>1. u \in States /\ \A x \in Views : SoundView(u, x)  BY <1>9 DEF Sound
  <2> QED  BY <2>1, <1>1 DEF SoundView, NoView, Alive
<1> HIDE DEF next, front
<1>11. ASSUME NEW x, Waits(next, v, x) PROVE Waits(k, v, x)
  BY <1>7, <1>11 DEF Waits
<1>12. ASSUME NEW x, Waits(k, v, x) PROVE u.view[x].parent # Last(path)
  <2> SUFFICES ASSUME u.view[x].parent = Last(path) PROVE FALSE
    OBVIOUS
  <2>1. x \in Popups \ {v} /\ ~u.view[x].visible /\ x \in Views  BY <1>12 DEF Waits, Views
  <2>2. x \in Alive(u)
    <3>1. SoundView(u, x)  BY <1>9, <2>1 DEF Sound
    <3>2. u.view[x].parent # None  BY <1>8, ViewAssumption
    <3> QED  BY <3>1, <3>2, <2>1 DEF SoundView, NoView, Alive
  <2>3. at = None \/ Ahead(u.stack, at, x)
    <3>1. Expected(k, len, x)  BY <1>1, <1>6, <1>12
    <3> QED  BY <3>1, <1>6 DEF Expected, Cursor
  <2>4. ListOf(u.stack, Alive(u))  BY <1>9 DEF Sound
  <2>5. Position(u.stack, x) \in Due(Walk(u, path, at))
    <3> HIDE DEF u, path, at
    <3> QED  BY <1>10, <2>1, <2>2, <2>3, <2>4, DueIs
  <2> QED  BY <2>5, <1>1
<1>13. ASSUME NEW x, Waits(next, v, x) PROVE Expects(next, x)
  <2>1. Waits(k, v, x)  BY <1>11, <1>13
  <2>2. Expects(k, x) /\ u.view[x].parent # path[len]  BY <2>1, <1>1, <1>6, <1>12
  <2> SUFFICES ASSUME x \in FollowsSeen(u)
               PROVE  \E i \in 1 .. Len(front) : front[i] = u.view[x].parent
    BY <1>7 DEF Expects
  <2>3. PICK i \in 1 .. len : path[i] = u.view[x].parent  BY <2>2 DEF Expects
  <2>4. i \in 1 .. Len(front) /\ front[i] = path[i]  BY <2>2, <2>3, <1>3, <1>5
  <2> QED  BY <2>3, <2>4
<1>14. ASSUME NEW x, Waits(next, v, x), NEW i \in 1 .. Len(next.path) PROVE Expected(next, i, x)
  <2>1. Waits(k, v, x)  BY <1>11, <1>14
  <2>2. i \in 1 .. len /\ i # len /\ i + 1 \in 1 .. len /\ front[i] = path[i]
        /\ (i # Len(front) => front[i + 1] = path[i + 1])
        /\ (i = Len(front) => i + 1 = len)
    <3>1. Len(front) = len - 1 /\ i \in 1 .. len - 1  BY <1>5, <1>7, <1>14
    <3> HIDE DEF len
    <3>2. i \in 1 .. len /\ i # len /\ i + 1 \in 1 .. len /\ (i = Len(front) => i + 1 = len)
      BY <3>1, <1>3
    <3>3. i # Len(front) => i + 1 \in 1 .. len - 1  BY <3>1, <1>3
    <3> QED  BY <3>1, <3>2, <3>3, <1>5
  <2>3. Cursor(next, i) = Cursor(k, i)  BY <2>2, <1>6, <1>7 DEF Cursor
  <2>4. Expected(k, i, x)  BY <2>1, <2>2, <1>1
  <2> QED  BY <2>2, <2>3, <2>4, <1>7 DEF Expected
<1>15. Len(front) = 0 \/ 2 * Cardinality(Hidden(u)) + Len(front) + (n + 1) <= 2 * Cardinality(Views)
  <2> DEFINE hidden == Cardinality(Hidden(u))
             most == Cardinality(Views)
  <2>1. hidden \in Nat /\ most \in Nat  BY HiddenIs
  <2>2. 2 * hidden + len + n <= 2 * most  BY <1>1, <1>3
  <2>3. Len(front) = len - 1 /\ len \in Nat  BY <1>3, <1>5
  <2> SUFFICES 2 * hidden + Len(front) + (n + 1) <= 2 * most
    OBVIOUS
  <2> HIDE DEF hidden, most, len
  <2> QED  BY <2>1, <2>2, <2>3
<1>16. \A i \in 1 .. Len(front) : u.view[front[i]].visible /\ front[i] \in Below(t, v)
  <2> TAKE i \in 1 .. Len(front)
  <2> HIDE DEF path, len
  <2>1. i \in 1 .. len - 1 /\ i \in 1 .. len  BY <1>3, <1>5
  <2>2. front[i] = path[i]  BY <2>1, <1>5
  <2> QED  BY <2>1, <2>2, <1>1
<1>17. Walking(t, v, next, n + 1)
  BY <1>1, <1>5, <1>7, <1>8, <1>13, <1>14, <1>15, <1>16 DEF Walking
<1> QED  BY <1>4, <1>17

\* It finds the next view, and another walk begins over what follows that.
LEMMA WalkGoesOn ==
  ASSUME NEW t, Sound(t), NEW v \in Alive(t), NEW k, NEW n \in Nat, Walking(t, v, k, n),
         k.path # <<>>, Due(k) # {}
  PROVE  Walking(t, v, Step(k), n + 1)
<1> DEFINE u == k.state
           path == k.path
           at == k.at
           len == Len(path)
           c == u.stack[Min(Due(k))]
           a == Appear(u, c)
           w == [a EXCEPT !.overlooked = @ \cup PassedBy(u, a, c)]
           longer == Append(path, c)
           next == Walk(w, longer, None)
<1>1. /\ k = Walk(u, path, at)
      /\ Shows(t, u, v)
      /\ path \in Seq(Views)
      /\ \A i \in 1 .. len : u.view[path[i]].visible /\ path[i] \in Below(t, v)
      /\ at \in Views \cup {None}
      /\ at # None => u.view[at].visible
      /\ \A x \in Popups \ {v} : u.view[x].visible => x \in FollowsSeen(u)
      /\ \A x : Waits(k, v, x) => Expects(k, x)
      /\ \A x : Waits(k, v, x) => \A i \in 1 .. len : Expected(k, i, x)
      /\ len = 0 \/ 2 * Cardinality(Hidden(u)) + len + n <= 2 * Cardinality(Views)
  BY DEF Walking
<1>2. path \in Seq(Views)  BY <1>1
<1>3. len \in Nat /\ len # 0  BY <1>2, EmptySeq, LenProperties
<1>4. Step(k) = next  BY DEF Step
<1>5. Sound(u) /\ Alive(u) = Alive(t)  BY <1>1, SoundAfter
<1>6. u \in States /\ ListOf(u.stack, Alive(u)) /\ \A x \in Views : SoundView(u, x)
  BY <1>5 DEF Sound
<1>7. at # None => at \in Alive(u)
  BY <1>1, <1>6 DEF SoundView, NoView, Alive
<1>8. Last(path) = path[len] /\ len \in 1 .. len  BY <1>3 DEF Last
<1>9. Last(path) \in Views /\ u.view[Last(path)].visible /\ Last(path) \in Below(t, v)
  <2>1. path[len] \in Views  BY <1>2, <1>8, ElementOfSeq
  <2> QED  BY <2>1, <1>1, <1>8
<1>10. /\ Due(k) \in SUBSET (1 .. Len(u.stack))
       /\ \A j \in Due(k) : /\ ~u.view[u.stack[j]].visible
                            /\ u.view[u.stack[j]].parent = Last(path)
       /\ \A x \in Alive(u) : /\ ~u.view[x].visible
                              /\ u.view[x].parent = Last(path)
                              /\ at = None \/ Ahead(u.stack, at, x)
            => Position(u.stack, x) \in Due(k)
  <2> DEFINE q == Walk(u, path, at)
  <2>1. /\ Due(q) \in SUBSET (1 .. Len(u.stack))
        /\ \A j \in Due(q) : /\ ~u.view[u.stack[j]].visible
                             /\ u.view[u.stack[j]].parent = Last(path)
        /\ \A x \in Alive(u) : /\ ~u.view[x].visible
                               /\ u.view[x].parent = Last(path)
                               /\ at = None \/ Ahead(u.stack, at, x)
             => Position(u.stack, x) \in Due(q)
    <3> HIDE DEF u, path, at
    <3> QED  BY <1>6, <1>7, DueIs
  <2> QED  BY <2>1, <1>1
<1>11. u.stack \in Seq(Views) /\ Len(u.stack) \in Nat  BY <1>6, LenProperties DEF ListOf
<1>12. Min(Due(k)) \in Due(k) /\ \A j \in Due(k) : Min(Due(k)) <= j
  <2>1. Due(k) \in SUBSET Nat  BY <1>10, <1>11
  <2> QED  BY <2>1, MinIs
<1>13. c \in Alive(u) /\ ~u.view[c].visible /\ u.view[c].parent = Last(path)
  <2>1. \A j \in 1 .. Len(u.stack) : u.stack[j] \in Alive(u)  BY <1>6, <1>11, ListIs
  <2> QED  BY <2>1, <1>10, <1>12
<1>14. ASSUME NEW x \in Alive(u), x # c, ~u.view[x].visible, u.view[x].parent = Last(path),
              at = None \/ Ahead(u.stack, at, x)
       PROVE  Ahead(u.stack, c, x)
  <2>1. Position(u.stack, x) \in Due(k)  BY <1>10, <1>14
  <2>2. Min(Due(k)) <= Position(u.stack, x)  BY <2>1, <1>12
  <2>3. Position(u.stack, x) \in 1 .. Len(u.stack) /\ u.stack[Position(u.stack, x)] = x
    BY <1>6, PositionIs
  <2>4. Min(Due(k)) \in 1 .. Len(u.stack)  BY <1>10, <1>12
  <2>5. Min(Due(k)) # Position(u.stack, x)  BY <1>14, <2>3
  <2> DEFINE m == Min(Due(k))
             p == Position(u.stack, x)
  <2>6. m \in 1 .. Len(u.stack) /\ p \in 1 .. Len(u.stack) /\ m <= p /\ m # p
        /\ u.stack[m] = c /\ u.stack[p] = x
    BY <2>2, <2>3, <2>4, <2>5
  <2> HIDE DEF m, p, c
  <2>7. m < p  BY <2>6, <1>11
  <2> QED  BY <2>6, <2>7 DEF Ahead
<1> HIDE DEF c
<1>15. c \in Views /\ c # v /\ (\A i \in 1 .. len : path[i] # c) /\ c \in Below(t, v) /\ Last(path) # c
  <2>1. c \in Views  BY <1>13 DEF Alive
  <2>2. u.view[v].visible  BY <1>1 DEF Shows
  <2>3. t.view[c].parent = u.view[c].parent
    <3>1. t \in States /\ Like(t, u, c)  BY <1>1, <2>1 DEF Shows, Sound
    <3> QED  BY <3>1, <1>6, <2>1, LikeIs
  <2>4. c \in Below(t, v)
    <3>1. v \in Views  BY DEF Alive
    <3> QED  BY <3>1, <2>1, <2>3, <1>9, <1>13, BelowIs
  <2> QED  BY <2>1, <2>2, <2>4, <1>1, <1>9, <1>13
<1>16. /\ a \in States
       /\ \A x \in Views : Like(u, a, x) /\ (x # c => a.view[x] = u.view[x])
       /\ a.view[c].visible
       /\ a.overlooked = u.overlooked
       /\ ListOf(a.stack, Alive(u))
       /\ MovedOnly(u.stack, a.stack, c)
       /\ c \notin Windows => a.stack = u.stack
  <2> HIDE DEF u, a
  <2> QED  BY <1>5, <1>13, AppearIs DEF a
<1> HIDE DEF a
<1>17. /\ w \in States /\ w.view = a.view /\ w.stack = a.stack
       /\ w.overlooked = u.overlooked \cup PassedBy(u, a, c)
  BY <1>16 DEF States, PassedBy
<1> HIDE DEF w
<1>18. next.state = w /\ next.path = longer /\ next.at = None
       /\ next = Walk(next.state, next.path, next.at)
  BY DEF Walk
<1>19. /\ longer \in Seq(Views) /\ Len(longer) = len + 1
       /\ \A i \in 1 .. len : longer[i] = path[i]
       /\ longer[len + 1] = c
  BY <1>2, <1>15, AppendProperties
<1> HIDE DEF next, longer
<1>20. /\ \A x \in Views \ {c} : w.view[x] = u.view[x]
       /\ \A x \in Views : w.view[x].parent = u.view[x].parent
       /\ \A x \in Views : u.view[x].visible => w.view[x].visible
       /\ w.view[c].visible
  <2>1. \A x \in Views : a.view[x].parent = u.view[x].parent  BY <1>6, <1>16, LikeIs
  <2> QED  BY <2>1, <1>13, <1>16, <1>17
<1>21. Shows(t, w, v)
  <2>1. \A x \in Views : Like(t, w, x)
    <3> TAKE x \in Views
    <3>1. Like(t, u, x) /\ Like(u, w, x)
      BY <1>1, <1>16, <1>17 DEF Shows, Like
    <3>2. t.view[x] \in ViewStates
      <4>1. t \in States  BY DEF Sound
      <4> QED  BY <4>1, ViewStateIs
    <3> QED  BY <3>1, <3>2 DEF Like, ViewStates
  <2>2. \A x \in Views : t.view[x].visible => w.view[x].visible  BY <1>1, <1>20 DEF Shows
  <2>3. w.view[v].visible
    <3>1. v \in Views  BY DEF Alive
    <3> QED  BY <3>1, <1>1, <1>20 DEF Shows
  <2>4. ListOf(w.stack, Alive(t))  BY <1>5, <1>16, <1>17
  <2>5. ASSUME NEW x \in Views, w.view[x].visible, ~t.view[x].visible
        PROVE  x \in Below(t, v) /\ x \in Alive(t)
    <3>1. CASE x = c  BY <3>1, <1>5, <1>13, <1>15
    <3>2. CASE x # c
      <4>1. u.view[x].visible  BY <3>2, <2>5, <1>20
      <4> QED  BY <4>1, <2>5, <1>1 DEF Shows
    <3> QED  BY <3>1, <3>2
  <2>6. ASSUME v \in Windows, NEW x \in Windows \ Below(t, v), w.view[x].visible
        PROVE  Ahead(w.stack, v, x)
    <3>1. x # c /\ x \in Views  BY <2>6, <1>15 DEF Views
    <3>2. u.view[x].visible  BY <3>1, <2>6, <1>20
    <3>3. Ahead(u.stack, v, x)  BY <3>2, <2>6, <1>1 DEF Shows
    <3> QED  BY <3>1, <3>3, <1>15, <1>16, <1>17 DEF MovedOnly
  <2>7. \/ w.stack = Appear(t, v).stack
        \/ \E d \in Views \ (Popups \cup {v}) : w.view[d].visible /\ ~t.view[d].visible
    <3>1. CASE c \in Popups
      <4>1. c \notin Windows  BY <3>1, ViewAssumption, Disjoint
      <4>2. w.stack = u.stack  BY <4>1, <1>16, <1>17
      <4>3. CASE u.stack = Appear(t, v).stack  BY <4>2, <4>3
      <4>4. CASE \E d \in Views \ (Popups \cup {v}) : u.view[d].visible /\ ~t.view[d].visible
        BY <4>4, <1>20
      <4> QED  BY <4>3, <4>4, <1>1 DEF Shows
    <3>2. CASE c \notin Popups
      <4>1. ~t.view[c].visible  BY <1>1, <1>13, <1>15 DEF Shows
      <4> QED  BY <4>1, <3>2, <1>15, <1>20
    <3> QED  BY <3>1, <3>2
  <2> QED  BY <1>17, <2>1, <2>2, <2>3, <2>4, <2>5, <2>6, <2>7 DEF Shows
<1>22. \A i \in 1 .. Len(longer) : w.view[longer[i]].visible /\ longer[i] \in Below(t, v)
  <2> TAKE i \in 1 .. Len(longer)
  <2>1. CASE i = len + 1  BY <2>1, <1>15, <1>19, <1>20
  <2>2. CASE i # len + 1
    <3>1. i \in 1 .. len  BY <2>2, <1>3, <1>19
    <3>2. path[i] \in Views  BY <3>1, <1>2, ElementOfSeq
    <3> QED  BY <3>1, <3>2, <1>1, <1>19, <1>20
  <2> QED  BY <2>1, <2>2
<1>23. ASSUME NEW x \in Popups \ {v}, w.view[x].visible PROVE x \in FollowsSeen(w)
  <2>1. x \in Views  BY DEF Views
  <2>2. CASE x = c
    BY <2>1, <2>2, <1>9, <1>13, <1>20, FollowsSeenIs
  <2>3. CASE x # c
    <3>1. x \in FollowsSeen(u)  BY <2>1, <2>3, <1>1, <1>20, <1>23
    <3> QED  BY <2>1, <3>1, <1>20, FollowsSeenIs
  <2> QED  BY <2>2, <2>3
<1>24. ASSUME NEW x, Waits(next, v, x)
       PROVE  x \in Views /\ x # c /\ ~u.view[x].visible /\ Waits(k, v, x) /\ x \notin PassedBy(u, a, c)
  <2>1. x \in Popups \ {v} /\ ~w.view[x].visible /\ x \notin w.overlooked
    BY <1>18, <1>24 DEF Waits
  <2>2. x \in Views /\ x # c  BY <2>1, <1>20 DEF Views
  <2>3. ~u.view[x].visible  BY <2>1, <2>2, <1>20
  <2> QED  BY <2>1, <2>2, <2>3, <1>17 DEF Waits
<1>25. ASSUME NEW x, Waits(next, v, x) PROVE Expects(next, x)
  <2>1. x \in Views /\ x # c /\ Waits(k, v, x)  BY <1>24, <1>25
  <2> SUFFICES ASSUME x \in FollowsSeen(w)
               PROVE  \E i \in 1 .. Len(longer) : longer[i] = w.view[x].parent
    BY <1>18 DEF Expects
  <2>2. w.view[x].parent \in Views /\ w.view[w.view[x].parent].visible  BY <2>1, FollowsSeenIs
  <2>3. CASE w.view[x].parent = c
    <3>1. len + 1 \in 1 .. Len(longer)  BY <1>3, <1>19
    <3> QED  BY <3>1, <2>3, <1>19
  <2>4. CASE w.view[x].parent # c
    <3>1. x \in FollowsSeen(u)  BY <2>1, <2>2, <2>4, <1>20, FollowsSeenIs
    <3>2. PICK i \in 1 .. len : path[i] = u.view[x].parent  BY <2>1, <3>1, <1>1 DEF Expects
    <3>3. i \in 1 .. Len(longer) /\ longer[i] = path[i]  BY <1>3, <1>19
    <3> QED  BY <3>2, <3>3, <2>1, <1>20
  <2> QED  BY <2>3, <2>4
<1>26. ASSUME NEW x, Waits(next, v, x), NEW i \in 1 .. Len(next.path) PROVE Expected(next, i, x)
  <2>1. x \in Views /\ x # c /\ ~u.view[x].visible /\ Waits(k, v, x) /\ x \notin PassedBy(u, a, c)
    BY <1>24, <1>26
  <2> SUFFICES ASSUME w.view[x].parent = longer[i]
               PROVE  Cursor(next, i) = None \/ Ahead(w.stack, Cursor(next, i), x)
    BY <1>18 DEF Expected
  <2>2. i \in 1 .. len + 1  BY <1>18, <1>19
  <2>3. CASE i = len + 1  BY <2>3, <1>18, <1>19 DEF Cursor
  <2>4. CASE i # len + 1
    <3>1. i \in 1 .. len /\ i + 1 \in 1 .. len + 1  BY <2>2, <2>4, <1>3
    <3>2. Cursor(next, i) = longer[i + 1]  BY <2>4, <1>18, <1>19 DEF Cursor
    <3>3. u.view[x].parent = path[i]  BY <3>1, <2>1, <1>19, <1>20
    <3>4. Cursor(k, i) = None \/ Ahead(u.stack, Cursor(k, i), x)
      BY <3>1, <3>3, <2>1, <1>1 DEF Expected
    <3>5. CASE i = len
      <4>1. Cursor(k, i) = at /\ longer[i + 1] = c /\ u.view[x].parent = Last(path)
        BY <3>3, <3>5, <1>8, <1>19 DEF Cursor
      <4>2. x \in Alive(u)
        <5>1. SoundView(u, x) /\ None \notin Views  BY <2>1, <1>6, ViewAssumption
        <5> QED  BY <5>1, <4>1, <2>1, <1>9 DEF SoundView, NoView, Alive
      <4>3. Ahead(u.stack, c, x)  BY <4>1, <4>2, <3>4, <2>1, <1>14
      <4>4. ~Ahead(a.stack, x, c)
        <5>1. x \in Popups /\ u.view[x].parent = u.view[c].parent  BY <4>1, <2>1, <1>13 DEF Waits
        <5>2. Position(u.stack, c) < Position(u.stack, x)
          BY <4>2, <4>3, <1>6, <1>13, PositionsTell
        <5>3. ~(Position(a.stack, x) < Position(a.stack, c))
          BY <5>1, <5>2, <2>1 DEF PassedBy, Place
        <5> QED  BY <5>3, <4>2, <1>13, <1>16, PositionsTell
      <4>5. Ahead(a.stack, c, x)  BY <4>2, <4>4, <2>1, <1>13, <1>16, AheadIsStrict
      <4> QED  BY <4>1, <4>5, <3>2, <1>17
    <3>6. CASE i # len
      <4>1. i + 1 \in 1 .. len  BY <3>1, <3>6, <1>3
      <4>2. path[i + 1] \in Views /\ longer[i + 1] = path[i + 1]  BY <4>1, <1>2, <1>19, ElementOfSeq
      <4>3. Cursor(k, i) = path[i + 1]  BY <3>6 DEF Cursor
      <4>4. Ahead(u.stack, path[i + 1], x)  BY <4>2, <4>3, <3>4, ViewAssumption
      <4>5. Ahead(a.stack, path[i + 1], x)  BY <4>1, <4>4, <2>1, <1>15, <1>16 DEF MovedOnly
      <4> QED  BY <4>2, <4>5, <3>2, <1>17
    <3> QED  BY <3>5, <3>6
  <2> QED  BY <2>3, <2>4
<1>27. Len(longer) = 0 \/ 2 * Cardinality(Hidden(w)) + Len(longer) + (n + 1) <= 2 * Cardinality(Views)
  <2>1. Hidden(w) = Hidden(u) \ {c} /\ c \in Hidden(u)
    BY <1>13, <1>15, <1>20 DEF Hidden
  <2>2. Cardinality(Hidden(w)) = Cardinality(Hidden(u)) - 1  BY <2>1, OneLessHidden
  <2>3. Cardinality(Hidden(u)) \in Nat /\ Cardinality(Views) \in Nat  BY HiddenIs
  <2>4. 2 * Cardinality(Hidden(u)) + len + n <= 2 * Cardinality(Views)  BY <1>1, <1>3
  <2>5. Len(longer) = len + 1 /\ len \in Nat  BY <1>3, <1>19
  <2> HIDE DEF u, len
  <2> QED  BY <2>2, <2>3, <2>4, <2>5
<1>28. Walking(t, v, next, n + 1)
  BY <1>18, <1>19, <1>21, <1>22, <1>23, <1>25, <1>26, <1>27 DEF Walking
<1> QED  BY <1>4, <1>28

LEMMA WalkIsOver ==
  ASSUME NEW t, NEW v, NEW k, NEW n \in Nat, Walking(t, v, k, n), k.path = <<>>
  PROVE  Walking(t, v, Step(k), n + 1)
<1>1. Step(k) = k  BY DEF Step
<1>2. Len(k.path) = 0  OBVIOUS
<1> QED  BY <1>1, <1>2 DEF Walking

\* The steps of the walk as the proof sees them.
WalkRun(g, t, v, m) ==
    g = [n \in 0 .. m |-> IF n = 0 THEN Walk(Appear(t, v), <<v>>, None) ELSE Step(g[n - 1])]

LEMMA WalkRunExists ==
  ASSUME NEW t, NEW v, NEW m \in Nat
  PROVE  \E g : WalkRun(g, t, v, m)
<1> DEFINE T == {n \in Nat : ~\E g : WalkRun(g, t, v, n)}
           first == Walk(Appear(t, v), <<v>>, None)
<1> HIDE DEF first
<1>0. \A g, n : WalkRun(g, t, v, n) <=> g = [k \in 0 .. n |-> IF k = 0 THEN first ELSE Step(g[k - 1])]
  BY DEF WalkRun, first
<1>1. T = {}
  <2> SUFFICES ASSUME T # {} PROVE FALSE
    OBVIOUS
  <2>1. T \in SUBSET Nat  OBVIOUS
  <2>2. PICK n \in T : \A k \in T : n <= k
    <3> HIDE DEF T
    <3> QED  BY <2>1, NatMin
  <2>3. n \in Nat /\ ~\E g : WalkRun(g, t, v, n)  OBVIOUS
  <2>4. CASE n = 0
    <3> DEFINE g == [k \in 0 .. n |-> first]
    <3>1. g = [k \in 0 .. n |-> IF k = 0 THEN first ELSE Step(g[k - 1])]  BY <2>4
    <3> HIDE DEF g
    <3> QED  BY <3>1, <1>0, <2>3
  <2>5. CASE n # 0
    <3>1. n - 1 \in Nat /\ n - 1 \notin T
      <4>1. n - 1 \in Nat /\ ~(n <= n - 1)  BY <2>3, <2>5
      <4> HIDE DEF T
      <4> QED  BY <4>1, <2>2
    <3>2. PICK g : WalkRun(g, t, v, n - 1)  BY <3>1
    <3> DEFINE last == Step(g[n - 1])
               h == [k \in 0 .. n |-> IF k = n THEN last ELSE g[k]]
    <3>3. \A k \in 0 .. n - 1 : h[k] = g[k]  BY <2>3
    <3>4. \A k \in 0 .. n - 1 : g[k] = IF k = 0 THEN first ELSE Step(g[k - 1])
      BY <3>2, <1>0
    <3>5. h[n] = last  BY <2>3
    <3>6. ASSUME NEW k \in 0 .. n
          PROVE  h[k] = IF k = 0 THEN first ELSE Step(h[k - 1])
      <4>1. CASE k = n
        <5>1. h[n - 1] = g[n - 1]  BY <2>3, <2>5, <3>3
        <5> HIDE DEF h
        <5> QED  BY <4>1, <2>5, <3>5, <5>1
      <4>2. CASE k # n
        <5>1. k \in 0 .. n - 1 /\ (k # 0 => k - 1 \in 0 .. n - 1)  BY <2>3, <4>2
        <5>2. h[k] = g[k] /\ (k # 0 => h[k - 1] = g[k - 1])  BY <5>1, <3>3
        <5>3. g[k] = IF k = 0 THEN first ELSE Step(g[k - 1])  BY <3>4, <5>1
        <5> HIDE DEF h
        <5> QED  BY <5>2, <5>3
      <4> QED  BY <4>1, <4>2
    <3>7. h = [k \in 0 .. n |-> h[k]]  OBVIOUS
    <3> HIDE DEF h
    <3>8. h = [k \in 0 .. n |-> IF k = 0 THEN first ELSE Step(h[k - 1])]  BY <3>6, <3>7
    <3>9. WalkRun(h, t, v, n)  BY <3>8, <1>0
    <3> QED  BY <3>9, <2>3
  <2> QED  BY <2>4, <2>5
<1> QED  BY <1>1

LEMMA WalkHolds ==
  ASSUME NEW t, Sound(t), NEW v \in Alive(t), ~t.view[v].visible, Together(t, v),
         NEW m \in Nat, NEW g, WalkRun(g, t, v, m)
  PROVE  \A n \in 0 .. m : Walking(t, v, g[n], n)
<1> DEFINE T == {n \in 0 .. m : ~Walking(t, v, g[n], n)}
<1>1. \A n \in 0 .. m : g[n] = IF n = 0 THEN Walk(Appear(t, v), <<v>>, None) ELSE Step(g[n - 1])
  BY DEF WalkRun
<1> SUFFICES ASSUME T # {} PROVE FALSE
  OBVIOUS
<1>2. T \in SUBSET Nat  OBVIOUS
<1>3. PICK n \in T : \A k \in T : n <= k
  <2> HIDE DEF T
  <2> QED  BY <1>2, NatMin
<1>4. n \in 0 .. m /\ ~Walking(t, v, g[n], n)  OBVIOUS
<1>5. CASE n = 0
  <2>1. g[0] = Walk(Appear(t, v), <<v>>, None)  BY <1>1
  <2>2. Walking(t, v, g[0], 0)  BY <2>1, WalkBegins
  <2> QED  BY <2>2, <1>4, <1>5
<1>6. CASE n # 0
  <2> DEFINE p == n - 1
             k == g[p]
  <2>1. p \in Nat /\ p \in 0 .. m /\ p + 1 = n /\ p \notin T
    <3>1. p \in Nat /\ p \in 0 .. m /\ p + 1 = n /\ ~(n <= p)  BY <1>4, <1>6
    <3> HIDE DEF T, p
    <3> QED  BY <3>1, <1>3
  <2>2. Walking(t, v, k, p)  BY <2>1
  <2>3. g[n] = Step(k)  BY <1>1, <1>4, <1>6
  <2> HIDE DEF p, k
  <2>4. Walking(t, v, Step(k), p + 1)
    BY <2>1, <2>2, WalkIsOver, WalkReturns, WalkGoesOn
  <2> QED  BY <2>1, <2>3, <2>4, <1>4
<1> QED  BY <1>5, <1>6

LEMMA ShowIs ==
  ASSUME NEW t, Sound(t), NEW v \in Alive(t), ~t.view[v].visible, Together(t, v)
  PROVE  Shows(t, Show(t, v), v) /\ Together(Show(t, v), v)
<1> DEFINE m == 2 * Cardinality(Views)
           g == CHOOSE g : WalkRun(g, t, v, m)
           k == g[m]
           u == k.state
<1>1. m \in Nat  BY HiddenIs
<1>2. WalkRun(g, t, v, m)
  <2> HIDE DEF m
  <2> QED  BY <1>1, WalkRunExists
<1>3. Show(t, v) = u
  BY DEF Show, WalkRun
<1> HIDE DEF g
<1>4. Walking(t, v, k, m)
  <2>1. m \in 0 .. m  BY <1>1
  <2> HIDE DEF m
  <2> QED  BY <1>1, <1>2, <2>1, WalkHolds
<1>5. k.path \in Seq(Views) /\ Len(k.path) = 0
  <2>1. /\ k.path \in Seq(Views)
        /\ Len(k.path) = 0 \/ 2 * Cardinality(Hidden(u)) + Len(k.path) + m <= 2 * Cardinality(Views)
    BY <1>4 DEF Walking
  <2>2. Cardinality(Hidden(u)) \in Nat /\ Cardinality(Views) \in Nat  BY HiddenIs
  <2>3. Len(k.path) \in Nat
    <3>1. k.path \in Seq(Views)  BY <2>1
    <3> QED  BY <3>1, LenProperties
  <2> HIDE DEF u, k
  <2> QED  BY <2>1, <2>2, <2>3
<1> HIDE DEF k, m
<1>6. Shows(t, u, v)  BY <1>4 DEF Walking
<1>7. Together(u, v)
  <2> SUFFICES ASSUME NEW x \in Popups \ {v}
               PROVE  /\ u.view[x].visible => x \in FollowsSeen(u)
                      /\ x \in FollowsSeen(u) /\ x \notin u.overlooked => u.view[x].visible
    BY DEF Together
  <2>1. u.view[x].visible => x \in FollowsSeen(u)  BY <1>4 DEF Walking
  <2>2. ASSUME x \in FollowsSeen(u), x \notin u.overlooked, ~u.view[x].visible PROVE FALSE
    <3>1. Waits(k, v, x)  BY <2>2 DEF Waits
    <3>2. Expects(k, x)  BY <3>1, <1>4 DEF Walking
    <3>3. PICK i \in 1 .. Len(k.path) : k.path[i] = u.view[x].parent
      BY <3>2, <2>2 DEF Expects
    <3> QED  BY <3>3, <1>5
  <2> QED  BY <2>1, <2>2
<1> QED  BY <1>3, <1>6, <1>7

-----------------------------------------------------------------------------
(* What every call keeps.                                                  *)

\* The views that have parents, and what those are.
Rooted(t) ==
    \A x \in Views :
       /\ t.view[x].parent \in Views => x \in Windows \cup Popups /\ t.view[x].parent \in Alive(t)
       /\ x \in Popups => ~t.view[x].alwaysTop

Good(t) == Sound(t) /\ TopIsAbove(t) /\ Together(t, None) /\ Rooted(t)

\* Only the visibility of v, and that of popups, differs.
OthersAsSeen(t, u, v) == \A x \in Views \ (Popups \cup {v}) : u.view[x].visible = t.view[x].visible

MovedBy(t, u) == {v \in ToSet(u.stack) : OthersAsSeen(t, u, v) /\ Without(u.stack, v) = Without(t.stack, v)}

\* The step of OrderIsKept, between states.
KeepsOrder(t, u) ==
    /\ u.stack # t.stack
    /\ MovedBy(t, u) # {}
    /\ \A v \in MovedBy(t, u) : InOrder(t, Views \ {v}) /\ ~FallsBehindAll(t, u, v)
    => InOrder(u, Shown(u))

\* The rest is in order and v fits in.
LEMMA OrderIsMade ==
  ASSUME NEW t, NEW set, ListOf(t.stack, set), NEW u, NEW alive, ListOf(u.stack, alive), NEW v,
         MovedOnly(t.stack, u.stack, v),
         \A x \in Views \ {v} : u.view[x].layer = t.view[x].layer,
         InOrder(t, Views \ {v}),
         v \in Shown(u) => Fits(u, v)
  PROVE  InOrder(u, Shown(u))
<1>1. \A x, y \in Views \ {v} : Ahead(t.stack, x, y) => t.view[x].layer >= t.view[y].layer
  BY InOrderIs
<1>2. ASSUME NEW x \in Shown(u), NEW y \in Shown(u), Ahead(u.stack, x, y)
      PROVE  u.view[x].layer >= u.view[y].layer
  <2>1. x \in Views /\ y \in Views /\ x # y  BY <1>2, AheadIsStrict DEF Shown
  <2>2. CASE x = v  BY <2>1, <2>2, <1>2 DEF Fits
  <2>3. CASE y = v  BY <2>1, <2>3, <1>2 DEF Fits
  <2>4. CASE x # v /\ y # v
    <3>1. Ahead(t.stack, x, y)  BY <2>4, <1>2 DEF MovedOnly
    <3> QED  BY <3>1, <2>1, <2>4, <1>1
  <2> QED  BY <2>2, <2>3, <2>4
<1> QED  BY <1>2, InOrderIs

\* One view was moved, and it alone of those that are no popups was shown or hidden.
LEMMA MoveKeepsOrder ==
  ASSUME NEW t, NEW set, ListOf(t.stack, set), NEW u, NEW alive, ListOf(u.stack, alive),
         NEW v \in alive,
         MovedOnly(t.stack, u.stack, v),
         \A x \in Views \ {v} : u.view[x].layer = t.view[x].layer,
         OthersAsSeen(t, u, v),
         InOrder(t, Views \ {v}) /\ ~FallsBehindAll(t, u, v) /\ v \in Shown(u) => Fits(u, v)
  PROVE  KeepsOrder(t, u)
<1>1. v \in ToSet(u.stack)  BY DEF ListOf
<1>2. v \in MovedBy(t, u)  BY <1>1 DEF MovedBy, MovedOnly
<1>3. ASSUME InOrder(t, Views \ {v}), ~FallsBehindAll(t, u, v) PROVE InOrder(u, Shown(u))
  BY <1>3, OrderIsMade
<1> QED  BY <1>2, <1>3 DEF KeepsOrder

\* Two views that are no popups were shown or hidden.
LEMMA TwoKeepOrder ==
  ASSUME NEW t, NEW u, NEW x \in Views \ Popups, NEW y \in Views \ Popups, x # y,
         u.view[x].visible # t.view[x].visible, u.view[y].visible # t.view[y].visible
  PROVE  KeepsOrder(t, u)
<1>1. \A v : ~OthersAsSeen(t, u, v)  BY DEF OthersAsSeen
<1>2. MovedBy(t, u) = {}  BY <1>1 DEF MovedBy
<1> QED  BY <1>2 DEF KeepsOrder

LEMMA SameKeepsOrder ==
  ASSUME NEW t, NEW u, u.stack = t.stack
  PROVE  KeepsOrder(t, u)
BY DEF KeepsOrder

\* A view is gone.
LEMMA LessKeepsOrder ==
  ASSUME NEW t, NEW set, ListOf(t.stack, set), NEW u, NEW alive, ListOf(u.stack, alive),
         NEW v \in set \ alive
  PROVE  KeepsOrder(t, u)
<1>1. ASSUME NEW x \in MovedBy(t, u) PROVE FALSE
  <2>1. x \in alive  BY DEF MovedBy, ListOf
  <2>2. ListOf(Without(t.stack, x), set \ {x}) /\ ListOf(Without(u.stack, x), alive \ {x})
    BY WithoutIs
  <2>3. Without(u.stack, x) = Without(t.stack, x)  BY DEF MovedBy
  <2>4. set \ {x} = alive \ {x}  BY <2>2, <2>3 DEF ListOf
  <2> QED  BY <2>1, <2>4
<1>2. MovedBy(t, u) = {}  BY <1>1
<1> QED  BY <1>2 DEF KeepsOrder

-----------------------------------------------------------------------------
(* Hiding.                                                                 *)

\* The hide of v has led from t to u.
Hides(t, u, v) ==
    /\ u \in States
    /\ u.stack = t.stack /\ u.overlooked = t.overlooked
    /\ \A x \in Views : Like(t, u, x) /\ (u.view[x].visible => t.view[x].visible)
    /\ ~u.view[v].visible

LEMMA HideIs ==
  ASSUME NEW t, Sound(t), NEW v \in Views
  PROVE  /\ Hides(t, Hide(t, v), v)
         /\ Together(t, v) => Together(Hide(t, v), v)
<1> DEFINE seen == {x \in Views : t.view[x].visible}
           links == {<<t.view[x].parent, x>> : x \in seen}
           hidden == Reach({v} \cap seen, links)
           u == Hide(t, v)
<1>1. t \in States  BY DEF Sound
<1>2. u = [t EXCEPT !.view = [x \in Views |->
             IF x \in hidden THEN [t.view[x] EXCEPT !.visible = FALSE] ELSE t.view[x]]]
  BY DEF Hide
<1>3. /\ hidden \subseteq Views /\ {v} \cap seen \subseteq hidden
      /\ \A e \in links : e[1] \in hidden /\ e[2] \in Views => e[2] \in hidden
      /\ \A S \in SUBSET Views :
           {v} \cap seen \subseteq S /\ (\A e \in links : e[1] \in S => e[2] \in S) => hidden \subseteq S
  <2>1. {v} \cap seen \in SUBSET Views  OBVIOUS
  <2> HIDE DEF seen, links
  <2> QED  BY <2>1, ReachIs
<1>4. ASSUME NEW x \in seen, t.view[x].parent \in hidden PROVE x \in hidden
  <2> DEFINE e == <<t.view[x].parent, x>>
  <2>1. e \in links /\ e[1] = t.view[x].parent /\ e[2] = x /\ x \in Views  OBVIOUS
  <2> HIDE DEF e, links, hidden
  <2> QED  BY <2>1, <1>3, <1>4
<1>5. \A x \in hidden : x # v => x \in seen /\ t.view[x].parent \in hidden
  <2> DEFINE S == {x \in hidden : x = v \/ (x \in seen /\ t.view[x].parent \in hidden)}
  <2>1. S \in SUBSET Views  BY <1>3
  <2>2. {v} \cap seen \subseteq S  BY <1>3
  <2>3. ASSUME NEW e \in links, e[1] \in S PROVE e[2] \in S
    <3>1. PICK x \in seen : e = <<t.view[x].parent, x>>  OBVIOUS
    <3>2. t.view[x].parent \in hidden  BY <3>1, <2>3
    <3>3. x \in hidden  BY <3>2, <1>4
    <3> QED  BY <3>1, <3>2, <3>3
  <2>4. hidden \subseteq S
    <3> HIDE DEF S, hidden, seen, links
    <3> QED  BY <2>1, <2>2, <2>3, <1>3
  <2> QED  BY <2>4
<1> HIDE DEF hidden, u
<1>6. \A x \in Views : t.view[x] \in ViewStates  BY <1>1, ViewStateIs
<1>7. [x \in Views |-> IF x \in hidden THEN [t.view[x] EXCEPT !.visible = FALSE] ELSE t.view[x]]
        \in [Views -> ViewStates]
  BY <1>6 DEF ViewStates
<1>8. /\ u \in States /\ u.stack = t.stack /\ u.overlooked = t.overlooked
      /\ u.view = [x \in Views |-> IF x \in hidden THEN [t.view[x] EXCEPT !.visible = FALSE] ELSE t.view[x]]
  BY <1>1, <1>2, <1>7 DEF States
<1>9. ASSUME NEW x \in Views
      PROVE  /\ Like(t, u, x)
             /\ u.view[x].visible <=> t.view[x].visible /\ x \notin hidden
  <2>1. u.view[x] = IF x \in hidden THEN [t.view[x] EXCEPT !.visible = FALSE] ELSE t.view[x]  BY <1>8
  <2>2. t.view[x] \in ViewStates  BY <1>6
  <2>3. CASE x \in hidden
    <3>1. u.view[x] = [t.view[x] EXCEPT !.visible = FALSE]  BY <2>1, <2>3
    <3> QED  BY <2>2, <2>3, <3>1 DEF Like, ViewStates
  <2>4. CASE x \notin hidden
    <3>1. u.view[x] = t.view[x]  BY <2>1, <2>4
    <3> QED  BY <2>2, <2>4, <3>1 DEF Like, ViewStates
  <2> QED  BY <2>3, <2>4
<1>10. ~u.view[v].visible  BY <1>3, <1>9
<1>11. Hides(t, u, v)  BY <1>8, <1>9, <1>10 DEF Hides
<1>12. ASSUME Together(t, v) PROVE Together(u, v)
  <2> SUFFICES ASSUME NEW x \in Popups \ {v}
               PROVE  /\ u.view[x].visible => x \in FollowsSeen(u)
                      /\ x \in FollowsSeen(u) /\ x \notin u.overlooked => u.view[x].visible
    BY DEF Together
  <2>1. x \in Views  BY DEF Views
  <2>2. u.view[x].parent = t.view[x].parent  BY <2>1, <1>1, <1>8, <1>9, LikeIs
  <2>3. /\ t.view[x].visible => x \in FollowsSeen(t)
        /\ x \in FollowsSeen(t) /\ x \notin t.overlooked => t.view[x].visible
    BY <1>12 DEF Together
  <2>4. ASSUME u.view[x].visible PROVE x \in FollowsSeen(u)
    <3>1. x \in seen /\ x \notin hidden  BY <2>1, <2>4, <1>9
    <3>2. t.view[x].parent \in Views /\ t.view[t.view[x].parent].visible
      BY <3>1, <2>1, <2>3, FollowsSeenIs
    <3>3. t.view[x].parent \notin hidden  BY <3>1, <1>4
    <3> QED  BY <3>2, <3>3, <2>1, <2>2, <1>9, FollowsSeenIs
  <2>5. ASSUME x \in FollowsSeen(u), x \notin u.overlooked PROVE u.view[x].visible
    <3>1. t.view[x].parent \in Views /\ u.view[t.view[x].parent].visible
      BY <2>1, <2>2, <2>5, FollowsSeenIs
    <3>2. t.view[t.view[x].parent].visible /\ t.view[x].parent \notin hidden  BY <3>1, <1>9
    <3>3. x \notin hidden  BY <3>2, <1>5
    <3>4. x \in FollowsSeen(t)  BY <3>1, <3>2, <2>1, FollowsSeenIs
    <3> QED  BY <3>3, <3>4, <2>1, <2>3, <2>5, <1>8, <1>9
  <2> QED  BY <2>4, <2>5
<1> QED  BY <1>11, <1>12 DEF u

\* Everything but perhaps v is seen as it should be.
Nearly(t, v) == Sound(t) /\ TopIsAbove(t) /\ Together(t, v) /\ Rooted(t)

LEMMA GoodIsNearly == ASSUME NEW t, Good(t), NEW v PROVE Nearly(t, v)
<1>1. \A x \in Popups \ {v} : x \in Popups \ {None}  BY ViewAssumption DEF Views
<1> QED  BY <1>1 DEF Good, Nearly, Together

LEMMA NearlyIsGood ==
  ASSUME NEW t, NEW v, Nearly(t, v),
         v \in Popups => /\ t.view[v].visible => v \in FollowsSeen(t)
                         /\ v \in FollowsSeen(t) => t.view[v].visible
  PROVE  Good(t)
<1> SUFFICES ASSUME NEW x \in Popups
             PROVE  /\ t.view[x].visible => x \in FollowsSeen(t)
                    /\ x \in FollowsSeen(t) /\ x \notin t.overlooked => t.view[x].visible
  BY DEF Good, Nearly, Together
<1>1. CASE x = v  BY <1>1
<1>2. CASE x # v  BY <1>2 DEF Nearly, Together
<1> QED  BY <1>1, <1>2

\* What is shown and hidden keeps its layer and its parent.
LEMMA LikeKeeps ==
  ASSUME NEW t \in States, NEW u \in States, \A x \in Views : Like(t, u, x), Rooted(t)
  PROVE  /\ Alive(u) = Alive(t) /\ Rooted(u)
         /\ \A x \in Views : /\ u.view[x].alwaysTop = t.view[x].alwaysTop
                             /\ u.view[x].layer = t.view[x].layer
                             /\ u.view[x].parent = t.view[x].parent
<1>1. \A x \in Views : /\ u.view[x].alive = t.view[x].alive
                       /\ u.view[x].alwaysTop = t.view[x].alwaysTop
                       /\ u.view[x].layer = t.view[x].layer
                       /\ u.view[x].parent = t.view[x].parent
  BY LikeIs
<1>2. Alive(u) = Alive(t)  BY <1>1 DEF Alive
<1>3. Rooted(u)  BY <1>1, <1>2 DEF Rooted
<1> QED  BY <1>1, <1>2, <1>3

LEMMA BelowHasParents ==
  ASSUME NEW t, NEW v \in Views, NEW x \in Below(t, v), x # v
  PROVE  x \in Views /\ t.view[x].parent \in Below(t, v) /\ t.view[x].parent \in Views
<1>1. /\ Below(t, v) \subseteq Views /\ v \in Below(t, v)
      /\ \A y \in Views : t.view[y].parent \in Below(t, v) => y \in Below(t, v)
  BY BelowIs
<1> DEFINE S == {y \in Below(t, v) : y = v \/ t.view[y].parent \in Below(t, v)}
<1>2. S \in SUBSET Views /\ {v} \subseteq S  BY <1>1
<1>3. ASSUME NEW e \in Under(t), e[1] \in S PROVE e[2] \in S
  <2>1. PICK y \in Views : e = <<t.view[y].parent, y>>  BY DEF Under
  <2>2. t.view[y].parent \in Below(t, v)  BY <2>1, <1>3
  <2> QED  BY <2>1, <2>2, <1>1
<1>4. Below(t, v) \subseteq S
  <2>1. {v} \in SUBSET Views  OBVIOUS
  <2> HIDE DEF S
  <2> QED  BY <2>1, <1>2, <1>3, ReachIs DEF Below
<1> QED  BY <1>1, <1>4

LEMMA ShowKeeps ==
  ASSUME NEW t, NEW v \in Alive(t), Nearly(t, v), NEW u, Shows(t, u, v)
  PROVE  /\ Sound(u) /\ Alive(u) = Alive(t) /\ Rooted(u)
         /\ \A x \in Views \ {v} : u.view[x].visible /\ u.view[x].alwaysTop => u.view[x].layer > Normal
<1>1. t \in States /\ u \in States /\ Sound(t)  BY DEF Nearly, Sound, Shows
<1>2. Sound(u) /\ Alive(u) = Alive(t)  BY <1>1, SoundAfter
<1>3. /\ Rooted(u)
      /\ \A x \in Views : u.view[x].alwaysTop = t.view[x].alwaysTop /\ u.view[x].layer = t.view[x].layer
  BY <1>1, LikeKeeps DEF Shows, Nearly
<1>4. v \in Views  BY DEF Alive
<1>5. ASSUME NEW x \in Views \ {v}, u.view[x].visible, u.view[x].alwaysTop
      PROVE  u.view[x].layer > Normal
  <2>1. CASE t.view[x].visible  BY <2>1, <1>3, <1>5 DEF Nearly, TopIsAbove
  <2>2. CASE ~t.view[x].visible
    <3>1. x \in Below(t, v)  BY <2>2, <1>5 DEF Shows
    <3>2. t.view[x].parent \in Views  BY <3>1, <1>4, BelowHasParents
    <3>3. x \in Windows \cup Popups  BY <3>2 DEF Nearly, Rooted
    <3>4. ~t.view[x].alwaysTop  BY <3>3, <1>1 DEF Nearly, Rooted, Sound, SoundView
    <3> QED  BY <3>4, <1>3, <1>5
  <2> QED  BY <2>1, <2>2
<1> QED  BY <1>2, <1>3, <1>5

LEMMA ShowIsNearly ==
  ASSUME NEW t, NEW v \in Alive(t), ~t.view[v].visible, Nearly(t, v),
         t.view[v].alwaysTop => t.view[v].layer > Normal
  PROVE  Nearly(Show(t, v), v)
<1> DEFINE u == Show(t, v)
<1>1. Shows(t, u, v) /\ Together(u, v)  BY ShowIs DEF Nearly
<1> HIDE DEF u
<1>2. t \in States /\ u \in States  BY <1>1 DEF Nearly, Sound, Shows
<1>3. /\ Sound(u) /\ Rooted(u)
      /\ \A x \in Views \ {v} : u.view[x].visible /\ u.view[x].alwaysTop => u.view[x].layer > Normal
  BY <1>1, ShowKeeps
<1>4. \A x \in Views : u.view[x].alwaysTop = t.view[x].alwaysTop /\ u.view[x].layer = t.view[x].layer
  BY <1>1, <1>2, LikeIs DEF Shows
<1>5. TopIsAbove(u)  BY <1>3, <1>4 DEF TopIsAbove
<1> QED  BY <1>1, <1>3, <1>5 DEF Nearly, u

LEMMA HideIsNearly ==
  ASSUME NEW t, NEW v \in Views, Nearly(t, v)
  PROVE  Nearly(Hide(t, v), v) /\ Hides(t, Hide(t, v), v) /\ Alive(Hide(t, v)) = Alive(t)
<1> DEFINE u == Hide(t, v)
<1>1. Hides(t, u, v) /\ Together(u, v) /\ Sound(t)  BY HideIs DEF Nearly
<1> HIDE DEF u
<1>2. t \in States /\ u \in States  BY <1>1 DEF Sound, Hides
<1>3. /\ Alive(u) = Alive(t) /\ Rooted(u)
      /\ \A x \in Views : u.view[x].alwaysTop = t.view[x].alwaysTop /\ u.view[x].layer = t.view[x].layer
  BY <1>1, <1>2, LikeKeeps DEF Hides, Nearly
<1>4. TopIsAbove(u)  BY <1>1, <1>3 DEF TopIsAbove, Nearly, Hides
<1>5. \A x \in Views : SoundView(u, x)
  <2> TAKE x \in Views
  <2>1. /\ u.view[x].alive = t.view[x].alive /\ u.view[x].alwaysTop = t.view[x].alwaysTop
        /\ u.view[x].layer = t.view[x].layer
        /\ u.view[x].visible = t.view[x].visible => u.view[x] = t.view[x]
    BY <1>1, <1>2, LikeIs DEF Hides
  <2>2. SoundView(t, x)  BY <1>1 DEF Sound
  <2>3. ASSUME ~t.view[x].alive PROVE u.view[x].visible = t.view[x].visible
    <3>1. ~t.view[x].visible  BY <2>2, <2>3 DEF SoundView, NoView
    <3>2. ~u.view[x].visible  BY <3>1, <1>1 DEF Hides
    <3>3. u.view[x].visible \in BOOLEAN /\ t.view[x].visible \in BOOLEAN  BY <1>2, ViewStateIs
    <3> QED  BY <3>1, <3>2, <3>3
  <2> QED  BY <2>1, <2>2, <2>3 DEF SoundView
<1>6. Sound(u)  BY <1>1, <1>2, <1>3, <1>5 DEF Sound, Hides
<1> QED  BY <1>1, <1>3, <1>4, <1>6 DEF Nearly, u

\* The show of v, begun in t, where v may have been moved since s.
LEMMA ShowKeepsOrder ==
  ASSUME NEW s, NEW set, ListOf(s.stack, set), NEW t, Sound(t), TopIsAbove(t), NEW v \in Alive(t),
         NEW u, Shows(t, u, v), ~s.view[v].visible, ~t.view[v].visible,
         MovedOnly(s.stack, t.stack, v),
         \A x \in Views \ {v} :
            t.view[x].layer = s.view[x].layer /\ t.view[x].visible = s.view[x].visible,
         v \in Popups => Below(t, v) = {v},
         InOrder(s, Views \ {v}) /\ v \notin Windows \cup Popups => Fits(t, v)
  PROVE  KeepsOrder(s, u)
<1>1. t \in States /\ u \in States /\ ListOf(t.stack, Alive(t)) /\ ListOf(u.stack, Alive(t)) /\ v \in Views
  BY DEF Sound, Shows, Alive
<1>2. CASE \E c \in Views \ (Popups \cup {v}) : u.view[c].visible /\ ~t.view[c].visible
  <2>1. PICK c \in Views \ (Popups \cup {v}) : u.view[c].visible /\ ~t.view[c].visible
    BY <1>2
  <2>2. c \in Below(t, v)  BY <2>1 DEF Shows
  <2>3. v \in Views \ Popups  BY <2>2, <2>1, <1>1
  <2>4. u.view[v].visible # s.view[v].visible /\ u.view[c].visible # s.view[c].visible
    BY <2>1 DEF Shows
  <2>5. c \in Views \ Popups /\ c # v  BY <2>1
  <2> QED  BY <2>3, <2>4, <2>5, TwoKeepOrder
<1>3. CASE ~\E c \in Views \ (Popups \cup {v}) : u.view[c].visible /\ ~t.view[c].visible
  <2> DEFINE a == Appear(t, v)
  <2>1. u.stack = a.stack  BY <1>3 DEF Shows
  <2>2. /\ \A x \in Views : x # v => a.view[x] = t.view[x]
        /\ MovedOnly(t.stack, a.stack, v)
        /\ v \notin Windows => a.stack = t.stack
        /\ v \in Windows => (TopIsAbove(t) /\ InOrder(t, Views \ {v}) => Fits(a, v))
        /\ a \in States /\ \A x \in Views : Like(t, a, x)
    BY AppearIs
  <2> HIDE DEF a
  <2>3. \A x \in Views : u.view[x].layer = t.view[x].layer /\ a.view[x].layer = t.view[x].layer
    BY <1>1, <2>2, LikeIs DEF Shows
  <2>4. ASSUME NEW x \in Views \ (Popups \cup {v})
        PROVE  u.view[x].visible = t.view[x].visible /\ u.view[x].visible = s.view[x].visible
    <3>1. u.view[x].visible <=> t.view[x].visible  BY <2>4, <1>3 DEF Shows
    <3>2. u.view[x].visible \in BOOLEAN /\ t.view[x].visible \in BOOLEAN  BY <1>1, ViewStateIs
    <3> QED  BY <3>1, <3>2
  <2>5. OthersAsSeen(s, u, v)  BY <2>4 DEF OthersAsSeen
  <2>6. MovedOnly(s.stack, u.stack, v)  BY <2>1, <2>2 DEF MovedOnly
  <2>7. ASSUME InOrder(s, Views \ {v}), v \in Shown(u) PROVE Fits(u, v)
    <3>1. v \notin Popups  BY <2>7 DEF Shown
    <3>2. InOrder(t, Views \ {v})
      <4>1. \A x, y \in Views \ {v} : Ahead(s.stack, x, y) => s.view[x].layer >= s.view[y].layer
        BY <2>7, InOrderIs
      <4>2. \A x, y \in Views \ {v} : Ahead(t.stack, x, y) => t.view[x].layer >= t.view[y].layer
        BY <4>1 DEF MovedOnly
      <4> QED  BY <4>2, <1>1, InOrderIs
    <3>3. \A x \in Shown(u) \ {v} : x \in Views /\ x \in Shown(t) \ {v} /\ x \in Shown(a) \ {v}
      BY <2>2, <2>4 DEF Shown
    <3>4. CASE v \in Windows
      <4>1. Fits(a, v)  BY <2>2, <3>2, <3>4
      <4> QED  BY <4>1, <2>1, <2>3, <3>3, <1>1 DEF Fits
    <3>5. CASE v \notin Windows
      <4>1. Fits(t, v) /\ u.stack = t.stack  BY <2>1, <2>2, <2>7, <3>1, <3>5
      <4> QED  BY <4>1, <2>3, <3>3, <1>1 DEF Fits
    <3> QED  BY <3>4, <3>5
  <2>8. \A x \in Views \ {v} : u.view[x].layer = s.view[x].layer  BY <2>3
  <2> QED  BY <2>5, <2>6, <2>7, <2>8, <1>1, MoveKeepsOrder
<1> QED  BY <1>2, <1>3

-----------------------------------------------------------------------------
(* Creating and destroying.                                                *)

\* v has been created, from t to u.
Creates(t, u, v) ==
    /\ u.view = [t.view EXCEPT ![v] = [NoView EXCEPT !.alive = TRUE]]
    /\ u.overlooked = t.overlooked
    /\ ListOf(u.stack, Alive(t) \cup {v})
    /\ MovedOnly(t.stack, u.stack, v)
    /\ Alive(u) = Alive(t) \cup {v}
    /\ ~u.view[v].visible /\ ~t.view[v].visible
    /\ u.view[v].layer = Normal /\ ~u.view[v].alwaysTop
    /\ u.view[v].parent = None
    /\ \A x \in Views : u.view[x].parent # v

LEMMA CreateViewIs ==
  ASSUME NEW t, Good(t), NEW v \in Views, v \notin Alive(t)
  PROVE  /\ Good(CreateView(t, v))
         /\ Creates(t, CreateView(t, v), v)
<1> DEFINE new == [NoView EXCEPT !.alive = TRUE]
           u == CreateView(t, v)
<1>1. /\ Sound(t) /\ t \in States /\ ListOf(t.stack, Alive(t))
      /\ t.stack \in Seq(Views) /\ t.view \in [Views -> ViewStates]
  BY DEF Good, Sound, States, ListOf
<1>2. /\ new \in ViewStates /\ new.alive /\ ~new.visible /\ ~new.alwaysTop /\ new.layer = Normal
      /\ new.parent = None
  <2>1. Normal \in Layers  BY Numbers
  <2> QED  BY <2>1 DEF NoView, ViewStates
<1>3. t.view[v] = NoView /\ ~t.view[v].visible
  <2>1. SoundView(t, v) /\ ~t.view[v].alive  BY <1>1 DEF Alive, Sound
  <2> QED  BY <2>1 DEF SoundView, NoView
<1> HIDE DEF new
<1>4. u.view = [t.view EXCEPT ![v] = new] /\ u.stack = <<v>> \o t.stack /\ u.overlooked = t.overlooked
      /\ u = [view |-> [t.view EXCEPT ![v] = new], stack |-> <<v>> \o t.stack, overlooked |-> t.overlooked]
  <2>1. t = [view |-> t.view, stack |-> t.stack, overlooked |-> t.overlooked]  BY <1>1 DEF States
  <2>2. u = [[t EXCEPT !.view[v] = new] EXCEPT !.stack = <<v>> \o @]  BY DEF CreateView, new
  <2> QED  BY <2>1, <2>2
<1> HIDE DEF u
<1>5. <<v>> \o t.stack \in Seq(Views)
  BY <1>1
<1>6. u \in States
  <2>1. [t.view EXCEPT ![v] = new] \in [Views -> ViewStates]  BY <1>1, <1>2
  <2>2. t.overlooked \in SUBSET Popups  BY <1>1 DEF States
  <2> QED  BY <1>4, <1>5, <2>1, <2>2 DEF States
<1>7. u.view[v] = new /\ \A x \in Views \ {v} : u.view[x] = t.view[x]
  BY <1>1, <1>4
<1>8. Alive(u) = Alive(t) \cup {v}  BY <1>2, <1>7 DEF Alive
<1>9. Without(t.stack, v) = t.stack
  <2>1. v \notin ToSet(t.stack)  BY <1>1 DEF ListOf
  <2> QED  BY <2>1 DEF Without, Contains, ToSet
<1>10. Moving(t.stack, v, 1) = u.stack
  <2>1. InsertAt(t.stack, 1, v) = SubSeq(t.stack, 1, 0) \o <<v>> \o SubSeq(t.stack, 1, Len(t.stack))
    BY DEF InsertAt
  <2>2. SubSeq(t.stack, 1, 0) = <<>> /\ SubSeq(t.stack, 1, Len(t.stack)) = t.stack
    BY <1>1
  <2>3. <<>> \o <<v>> = <<v>>  OBVIOUS
  <2> QED  BY <2>1, <2>2, <2>3, <1>4, <1>9 DEF Moving
<1>11. ListOf(u.stack, Alive(t) \cup {v}) /\ MovedOnly(t.stack, u.stack, v)
  <2>1. 1 \in 1 .. Len(Without(t.stack, v)) + 1
    BY <1>1, <1>9, LenProperties
  <2>2. Moving(t.stack, v, 1) = u.stack  BY <1>10
  <2>3. ListOf(t.stack, Alive(t))  BY <1>1
  <2>4. /\ ListOf(Moving(t.stack, v, 1), Alive(t) \cup {v})
        /\ MovedOnly(t.stack, Moving(t.stack, v, 1), v)
    <3> HIDE DEF new
    <3> QED  BY <2>1, <2>3, MovingIs
  <2> QED  BY <2>2, <2>4
<1>12. ASSUME NEW x \in Views PROVE u.view[x].parent # v
  <2>1. CASE x = v  BY <2>1, <1>2, <1>7, ViewAssumption
  <2>2. CASE x # v
    <3>1. u.view[x] = t.view[x]  BY <2>2, <1>7
    <3>2. t.view[x].parent \in Views => t.view[x].parent \in Alive(t)  BY DEF Good, Rooted
    <3> QED  BY <3>1, <3>2
  <2> QED  BY <2>1, <2>2
<1>13. Creates(t, u, v)
  BY <1>2, <1>3, <1>4, <1>7, <1>8, <1>11, <1>12 DEF Creates, new
<1>14. Sound(u)
  <2>1. ASSUME NEW x \in Views PROVE SoundView(u, x)
    <3>1. CASE x = v  BY <3>1, <1>2, <1>7 DEF SoundView
    <3>2. CASE x # v  BY <3>2, <1>1, <1>7 DEF SoundView, Sound
    <3> QED  BY <3>1, <3>2
  <2> QED  BY <2>1, <1>6, <1>8, <1>11 DEF Sound
<1>15. TopIsAbove(u)  BY <1>2, <1>7 DEF TopIsAbove, Good
<1>16. Rooted(u)
  <2> SUFFICES ASSUME NEW x \in Views
               PROVE  /\ u.view[x].parent \in Views => x \in Windows \cup Popups /\ u.view[x].parent \in Alive(u)
                      /\ x \in Popups => ~u.view[x].alwaysTop
    BY DEF Rooted
  <2>1. CASE x = v  BY <2>1, <1>2, <1>7, ViewAssumption
  <2>2. CASE x # v  BY <2>2, <1>7, <1>8 DEF Good, Rooted
  <2> QED  BY <2>1, <2>2
<1>17. Together(u, None)
  <2> SUFFICES ASSUME NEW x \in Popups \ {None}
               PROVE  /\ u.view[x].visible => x \in FollowsSeen(u)
                      /\ x \in FollowsSeen(u) /\ x \notin u.overlooked => u.view[x].visible
    BY DEF Together
  <2>0. x \in Views  BY DEF Views
  <2>1. CASE x = v
    <3>1. x \notin FollowsSeen(u)  BY <2>0, <2>1, <1>2, <1>7, FollowsSeenIs, ViewAssumption
    <3> QED  BY <3>1, <2>1, <1>2, <1>7
  <2>2. CASE x # v
    <3>1. u.view[x] = t.view[x] /\ u.view[x].parent # v  BY <2>0, <2>2, <1>7, <1>12
    <3>2. x \in FollowsSeen(u) <=> x \in FollowsSeen(t)  BY <2>0, <3>1, <1>7, FollowsSeenIs
    <3> QED  BY <3>1, <3>2, <1>4 DEF Good, Together
  <2> QED  BY <2>1, <2>2
<1> QED  BY <1>13, <1>14, <1>15, <1>16, <1>17 DEF Good, u

LEMMA DestroyViewIs ==
  ASSUME NEW t, Good(t), NEW v \in Alive(t)
  PROVE  Good(DestroyView(t, v)) /\ KeepsOrder(t, DestroyView(t, v))
<1> DEFINE h == Hide(t, v)
           after == [c \in Views |-> IF c = v THEN NoView
                                     ELSE IF h.view[c].parent = v THEN [h.view[c] EXCEPT !.parent = Gone]
                                     ELSE h.view[c]]
           u == DestroyView(t, v)
<1>1. v \in Views /\ Nearly(t, v)  BY GoodIsNearly DEF Alive
<1>2. Nearly(h, v) /\ Hides(t, h, v) /\ Alive(h) = Alive(t)  BY <1>1, HideIsNearly
<1>3. u = [view |-> after, stack |-> Without(h.stack, v), overlooked |-> h.overlooked]
  BY DEF DestroyView
<1> HIDE DEF h, u
<1>4. h \in States /\ ListOf(h.stack, Alive(t)) /\ \A x \in Views : h.view[x] \in ViewStates /\ SoundView(h, x)
  BY <1>2, ViewStateIs DEF Nearly, Sound
<1>5. NoView \in ViewStates /\ ~NoView.alive /\ ~NoView.visible /\ ~NoView.alwaysTop /\ NoView.layer = Normal
      /\ NoView.parent = None
  <2>1. Normal \in Layers  BY Numbers
  <2> QED  BY <2>1 DEF NoView, ViewStates
<1>6. /\ u.view[v] = NoView
      /\ \A x \in Views \ {v} :
           /\ u.view[x].alive = h.view[x].alive /\ u.view[x].visible = h.view[x].visible
           /\ u.view[x].alwaysTop = h.view[x].alwaysTop /\ u.view[x].layer = h.view[x].layer
           /\ h.view[x].parent = v => u.view[x].parent = Gone
           /\ h.view[x].parent # v => u.view[x] = h.view[x]
      /\ u.view \in [Views -> ViewStates]
  <2>1. ASSUME NEW x \in Views \ {v}
        PROVE  /\ after[x].alive = h.view[x].alive /\ after[x].visible = h.view[x].visible
               /\ after[x].alwaysTop = h.view[x].alwaysTop /\ after[x].layer = h.view[x].layer
               /\ h.view[x].parent = v => after[x].parent = Gone
               /\ h.view[x].parent # v => after[x] = h.view[x]
               /\ after[x] \in ViewStates
    <3>1. h.view[x] \in ViewStates  BY <1>4
    <3>2. after[x] = IF h.view[x].parent = v THEN [h.view[x] EXCEPT !.parent = Gone] ELSE h.view[x]
      OBVIOUS
    <3> HIDE DEF after
    <3> QED  BY <3>1, <3>2 DEF ViewStates
  <2>2. after[v] = NoView  BY <1>1
  <2>3. after \in [Views -> ViewStates]
    <3>1. \A x \in Views : after[x] \in ViewStates  BY <2>1, <2>2, <1>5
    <3>2. after = [x \in Views |-> after[x]]  OBVIOUS
    <3> HIDE DEF after
    <3> QED  BY <3>1, <3>2
  <2>4. u.view = after  BY <1>3
  <2> HIDE DEF after
  <2> QED  BY <2>1, <2>2, <2>3, <2>4
<1>7. u.stack = Without(t.stack, v) /\ u.overlooked = t.overlooked /\ h.stack = t.stack
  BY <1>2, <1>3 DEF Hides
<1>8. ListOf(u.stack, Alive(t) \ {v})
  <2>1. ListOf(t.stack, Alive(t))  BY <1>4, <1>7
  <2> QED  BY <2>1, <1>7, WithoutIs
<1>9. u \in States
  <2>1. u.stack \in Seq(Views) /\ u.overlooked \in SUBSET Popups
    BY <1>8, <1>7, <1>1 DEF ListOf, Nearly, Sound, States
  <2>2. u = [view |-> u.view, stack |-> u.stack, overlooked |-> u.overlooked]  BY <1>3
  <2> QED  BY <2>1, <2>2, <1>6 DEF States
<1>10. Alive(u) = Alive(t) \ {v}
  <2>1. \A x \in Views : x \in Alive(u) <=> x \in Alive(h) /\ x # v  BY <1>5, <1>6 DEF Alive
  <2>2. Alive(u) \subseteq Views /\ Alive(h) \subseteq Views  BY DEF Alive
  <2> QED  BY <2>1, <2>2, <1>2
<1>11. Sound(u)
  <2>1. ASSUME NEW x \in Views PROVE SoundView(u, x)
    <3>1. CASE x = v  BY <3>1, <1>5, <1>6 DEF SoundView
    <3>2. CASE x # v
      <4>1. SoundView(h, x)  BY <1>4
      <4>2. ASSUME ~h.view[x].alive PROVE u.view[x] = NoView
        <5>1. h.view[x] = NoView  BY <4>1, <4>2 DEF SoundView
        <5>2. h.view[x].parent # v  BY <5>1, <1>1, <1>5, ViewAssumption
        <5> QED  BY <3>2, <5>1, <5>2, <1>6
      <4> QED  BY <3>2, <4>1, <4>2, <1>6 DEF SoundView
    <3> QED  BY <3>1, <3>2
  <2> QED  BY <2>1, <1>8, <1>9, <1>10 DEF Sound
<1>12. TopIsAbove(u)
  <2> SUFFICES ASSUME NEW x \in Views, u.view[x].visible, u.view[x].alwaysTop PROVE u.view[x].layer > Normal
    BY DEF TopIsAbove
  <2>1. x # v  BY <1>5, <1>6
  <2> QED  BY <2>1, <1>2, <1>6 DEF Nearly, TopIsAbove
<1>13. Rooted(u)
  <2> SUFFICES ASSUME NEW x \in Views
               PROVE  /\ u.view[x].parent \in Views => x \in Windows \cup Popups /\ u.view[x].parent \in Alive(u)
                      /\ x \in Popups => ~u.view[x].alwaysTop
    BY DEF Rooted
  <2>1. CASE x = v  BY <2>1, <1>5, <1>6, ViewAssumption
  <2>2. CASE x # v /\ h.view[x].parent = v
    BY <2>2, <1>2, <1>6, ViewAssumption DEF Nearly, Rooted
  <2>3. CASE x # v /\ h.view[x].parent # v
    BY <2>3, <1>2, <1>6, <1>10 DEF Nearly, Rooted
  <2> QED  BY <2>1, <2>2, <2>3
<1>14. Together(u, None)
  <2> SUFFICES ASSUME NEW x \in Popups \ {None}
               PROVE  /\ u.view[x].visible => x \in FollowsSeen(u)
                      /\ x \in FollowsSeen(u) /\ x \notin u.overlooked => u.view[x].visible
    BY DEF Together
  <2>0. x \in Views  BY DEF Views
  <2>1. CASE x = v
    <3>1. x \notin FollowsSeen(u)  BY <2>0, <2>1, <1>5, <1>6, FollowsSeenIs, ViewAssumption
    <3> QED  BY <3>1, <2>1, <1>5, <1>6
  <2>2. CASE x # v
    <3>1. ~h.view[v].visible  BY <1>2 DEF Hides
    <3>2. x \in FollowsSeen(u) <=> x \in FollowsSeen(h)
      <4>1. CASE h.view[x].parent = v
        <5>1. u.view[x].parent \notin Views  BY <4>1, <2>0, <2>2, <1>6, ViewAssumption
        <5> QED  BY <4>1, <5>1, <3>1, <2>0, FollowsSeenIs
      <4>2. CASE h.view[x].parent # v
        <5>1. u.view[x].parent = h.view[x].parent  BY <4>2, <2>0, <2>2, <1>6
        <5> QED  BY <4>2, <5>1, <2>0, <1>6, FollowsSeenIs
      <4> QED  BY <4>1, <4>2
    <3>3. u.view[x].visible = h.view[x].visible /\ u.overlooked = h.overlooked
      BY <2>0, <2>2, <1>3, <1>6
    <3> QED  BY <2>2, <3>2, <3>3, <1>2 DEF Nearly, Together
  <2> QED  BY <2>1, <2>2
<1>15. KeepsOrder(t, u)
  <2>1. ListOf(t.stack, Alive(t)) /\ v \in Alive(t) \ (Alive(t) \ {v})  BY <1>4, <1>7
  <2> QED  BY <2>1, <1>8, LessKeepsOrder
<1> QED  BY <1>11, <1>12, <1>13, <1>14, <1>15 DEF Good, u

-----------------------------------------------------------------------------
(* Parents.                                                                *)

LEMMA HideHidden ==
  ASSUME NEW t \in States, NEW v \in Views, ~t.view[v].visible
  PROVE  Hide(t, v) = t
<1> DEFINE seen == {x \in Views : t.view[x].visible}
<1>1. {v} \cap seen = {}  OBVIOUS
<1>2. \A links : Reach({v} \cap seen, links) = {}  BY <1>1 DEF Reach
<1>3. Hide(t, v) = [t EXCEPT !.view = [x \in Views |-> t.view[x]]]  BY <1>2 DEF Hide
<1>4. t.view = [x \in Views |-> t.view[x]]  BY DEF States
<1> QED  BY <1>3, <1>4 DEF States

\* v has been given the parent p, from t to u.
Names(t, u, v, p) ==
    /\ u.stack = t.stack /\ u.overlooked = t.overlooked
    /\ \A x \in Views \ {v} : u.view[x] = t.view[x]
    /\ u.view[v].visible = t.view[v].visible /\ u.view[v].alwaysTop = t.view[v].alwaysTop
    /\ u.view[v].layer = t.view[v].layer
    /\ u.view[v].parent = p
    /\ Alive(u) = Alive(t)
    /\ Nearly(u, v)

LEMMA NamedIs ==
  ASSUME NEW t, Good(t), NEW v \in Alive(t), v \in Windows \cup Popups, NEW p \in Alive(t)
  PROVE  Names(t, [t EXCEPT !.view[v].parent = p], v, p)
<1> DEFINE u == [t EXCEPT !.view[v].parent = p]
           new == [t.view[v] EXCEPT !.parent = p]
<1>1. v \in Views /\ p \in Views /\ t.view[v].alive  BY DEF Alive
<1>2. t \in States /\ t.view \in [Views -> ViewStates] /\ ListOf(t.stack, Alive(t))
      /\ t.view[v] \in ViewStates
  BY <1>1 DEF Good, Sound, States
<1>3. /\ new \in ViewStates /\ new.alive = t.view[v].alive /\ new.visible = t.view[v].visible
      /\ new.alwaysTop = t.view[v].alwaysTop /\ new.layer = t.view[v].layer /\ new.parent = p
  BY <1>1, <1>2 DEF ViewStates
<1>4. u = [t EXCEPT !.view = [t.view EXCEPT ![v] = new]]  BY <1>1, <1>2 DEF States
<1> HIDE DEF new, u
<1>5. [t.view EXCEPT ![v] = new] \in [Views -> ViewStates]  BY <1>2, <1>3
<1>6. u \in States /\ u.stack = t.stack /\ u.overlooked = t.overlooked
      /\ u.view = [t.view EXCEPT ![v] = new]
  BY <1>2, <1>4, <1>5 DEF States
<1>7. u.view[v] = new /\ \A x \in Views \ {v} : u.view[x] = t.view[x]  BY <1>1, <1>2, <1>6
<1>8. Alive(u) = Alive(t)  BY <1>3, <1>7 DEF Alive
<1>9. Sound(u)
  <2>1. ASSUME NEW x \in Views PROVE SoundView(u, x)
    <3>1. SoundView(t, x)  BY DEF Good, Sound
    <3>2. CASE x = v  BY <3>1, <3>2, <1>1, <1>3, <1>7 DEF SoundView
    <3>3. CASE x # v  BY <3>1, <3>3, <1>7 DEF SoundView
    <3> QED  BY <3>2, <3>3
  <2> QED  BY <2>1, <1>2, <1>6, <1>8 DEF Sound
<1>10. TopIsAbove(u)  BY <1>3, <1>7 DEF TopIsAbove, Good
<1>11. Rooted(u)
  <2> SUFFICES ASSUME NEW x \in Views
               PROVE  /\ u.view[x].parent \in Views => x \in Windows \cup Popups /\ u.view[x].parent \in Alive(u)
                      /\ x \in Popups => ~u.view[x].alwaysTop
    BY DEF Rooted
  <2>1. CASE x = v  BY <2>1, <1>3, <1>7, <1>8 DEF Good, Rooted
  <2>2. CASE x # v  BY <2>2, <1>7, <1>8 DEF Good, Rooted
  <2> QED  BY <2>1, <2>2
<1>12. Together(u, v)
  <2> SUFFICES ASSUME NEW x \in Popups \ {v}
               PROVE  /\ u.view[x].visible => x \in FollowsSeen(u)
                      /\ x \in FollowsSeen(u) /\ x \notin u.overlooked => u.view[x].visible
    BY DEF Together
  <2>1. x \in Views /\ u.view[x] = t.view[x]  BY <1>7 DEF Views
  <2>2. \A y \in Views : u.view[y].visible = t.view[y].visible  BY <1>3, <1>7
  <2>3. x \in FollowsSeen(u) <=> x \in FollowsSeen(t)  BY <2>1, <2>2, FollowsSeenIs
  <2>4. x \in Popups \ {None}  BY <2>1, ViewAssumption
  <2> QED  BY <2>1, <2>3, <2>4, <1>6 DEF Good, Together
<1>13. Nearly(u, v)  BY <1>9, <1>10, <1>11, <1>12 DEF Nearly
<1> QED  BY <1>3, <1>6, <1>7, <1>8, <1>13 DEF Names, u

LEMMA SameMovedOnly == ASSUME NEW list, NEW new, new = list, NEW v PROVE MovedOnly(list, new, v)
BY DEF MovedOnly

LEMMA VisibleIsAlive == ASSUME NEW t, Sound(t), NEW v \in Views, t.view[v].visible PROVE v \in Alive(t)
<1>1. SoundView(t, v)  BY DEF Sound
<1> QED  BY <1>1 DEF SoundView, NoView, Alive

LEMMA SetWindowParentIs ==
  ASSUME NEW t, Good(t), NEW w \in Windows, w \in Alive(t), NEW p \in Alive(t)
  PROVE  Good(SetWindowParent(t, w, p)) /\ KeepsOrder(t, SetWindowParent(t, w, p))
<1> DEFINE named == [t EXCEPT !.view[w].parent = p]
           u == SetWindowParent(t, w, p)
<1>0. w \in Views /\ p \in Views /\ w \notin Popups  BY ViewAssumption DEF Alive
<1>1. Names(t, named, w, p)  BY NamedIs
<1>2. w \in Alive(t) /\ Sound(t) /\ TopIsAbove(t)  BY DEF Good
<1> SUFFICES Good(u) /\ KeepsOrder(t, u)  OBVIOUS
<1>3. \/ u = t
      \/ t.view[p].visible /\ u = Show(named, w)
      \/ ~t.view[p].visible /\ u = Hide(named, w)
  BY DEF SetWindowParent, SetViewParent
<1> HIDE DEF named, u
<1>4. CASE u = t  BY <1>4, SameKeepsOrder
<1>5. CASE u = Show(named, w) /\ ~named.view[w].visible
  <2>1. w \in Alive(named) /\ Nearly(named, w)  BY <1>1 DEF Names
  <2>2. ~named.view[w].alwaysTop  BY <1>0, <2>1 DEF Nearly, Sound, SoundView
  <2>3. Nearly(u, w)  BY <2>1, <2>2, <1>5, ShowIsNearly
  <2>4. Good(u)  BY <2>3, <1>0, NearlyIsGood
  <2>5. Shows(named, u, w)  BY <2>1, <1>5, ShowIs DEF Nearly
  <2>6. /\ ListOf(t.stack, Alive(t)) /\ Sound(named) /\ TopIsAbove(named) /\ ~t.view[w].visible
        /\ MovedOnly(t.stack, named.stack, w)
        /\ \A x \in Views \ {w} :
              named.view[x].layer = t.view[x].layer /\ named.view[x].visible = t.view[x].visible
    BY <2>1, <1>1, <1>5, SameMovedOnly DEF Names, Nearly, Good, Sound
  <2>7. KeepsOrder(t, u)  BY <2>1, <2>5, <2>6, <1>0, <1>5, ShowKeepsOrder
  <2> QED  BY <2>4, <2>7
<1>6. CASE u = Show(named, w) /\ named.view[w].visible
  <2>1. u = named  BY <1>6 DEF Show
  <2>2. Good(u)  BY <2>1, <1>0, <1>1, NearlyIsGood DEF Names
  <2> QED  BY <2>1, <2>2, <1>1, SameKeepsOrder DEF Names
<1>7. CASE u = Hide(named, w)
  <2>1. Nearly(u, w) /\ Hides(named, u, w)  BY <1>0, <1>1, <1>7, HideIsNearly DEF Names
  <2>2. Good(u)  BY <2>1, <1>0, NearlyIsGood
  <2>3. u.stack = t.stack  BY <2>1, <1>1 DEF Hides, Names
  <2> QED  BY <2>2, <2>3, SameKeepsOrder
<1> QED  BY <1>3, <1>4, <1>5, <1>6, <1>7

\* The steps of xdg_popup_new().
LEMMA NewPopupIs ==
  ASSUME NEW t, Good(t), NEW v \in Popups, v \notin Alive(t), NEW p \in Alive(t)
  PROVE  LET u == SetViewParent(CreateView(t, v), v, p)
         IN Good(u) /\ KeepsOrder(t, u)
<1> DEFINE new == CreateView(t, v)
           named == [new EXCEPT !.view[v].parent = p]
           u == SetViewParent(new, v, p)
<1>0. v \in Views /\ p \in Views /\ p # v /\ v \notin Windows  BY Disjoint DEF Views, Alive
<1>1. Good(new) /\ Creates(t, new, v)  BY <1>0, CreateViewIs
<1>2. v \in Alive(new) /\ p \in Alive(new)  BY <1>1 DEF Creates
<1>3. Names(new, named, v, p)
  <2> HIDE DEF new
  <2> QED  BY <1>1, <1>2, NamedIs
<1>4. \/ new.view[p].visible /\ u = Show(named, v)
      \/ ~new.view[p].visible /\ u = Hide(named, v)
  BY DEF SetViewParent
<1> SUFFICES Good(u) /\ KeepsOrder(t, u)  OBVIOUS
<1> HIDE DEF new, named, u
<1>5. v \in Alive(named) /\ Nearly(named, v) /\ ~named.view[v].visible /\ ~named.view[v].alwaysTop
      /\ Sound(named) /\ named \in States
  BY <1>1, <1>2, <1>3 DEF Names, Creates, Nearly, Sound
<1>6. \A x \in Views \ {v} : /\ named.view[x] = new.view[x] /\ named.view[x] = t.view[x]
                             /\ named.view[x].parent # v
  <2>1. t.view \in [Views -> ViewStates]  BY DEF Good, Sound, States
  <2> QED  BY <2>1, <1>1, <1>3 DEF Names, Creates
<1>7. /\ ListOf(t.stack, Alive(t)) /\ MovedOnly(t.stack, named.stack, v)
      /\ ListOf(named.stack, Alive(named))
  BY <1>1, <1>3, <1>5 DEF Good, Sound, Names, Creates
<1>8. CASE new.view[p].visible /\ u = Show(named, v)
  <2>1. Shows(named, u, v)  BY <1>5, <1>8, ShowIs DEF Nearly
  <2>2. Nearly(u, v)  BY <1>5, <1>8, ShowIsNearly
  <2>3. v \in FollowsSeen(u) /\ u.view[v].visible
    <3>1. u.view[v].parent = p
      BY <2>1, <1>0, <1>3, <1>5, LikeIs DEF Shows, Names
    <3>2. u.view[p].visible  BY <2>1, <1>0, <1>6, <1>8 DEF Shows
    <3> QED  BY <2>1, <3>1, <3>2, <1>0, FollowsSeenIs DEF Shows
  <2>4. Good(u)  BY <2>2, <2>3, NearlyIsGood
  <2>5. Below(named, v) = {v}
    <3>1. {v} \in SUBSET Views  BY <1>0
    <3>2. ASSUME NEW e \in Under(named), e[1] \in {v} PROVE e[2] \in {v}
      <4>1. PICK x \in Views : e = <<named.view[x].parent, x>>  BY DEF Under
      <4>2. named.view[x].parent = v  BY <4>1, <3>2
      <4>3. x = v  BY <4>2, <1>6
      <4> QED  BY <4>1, <4>3
    <3>3. Below(named, v) \subseteq {v}  BY <3>1, <3>2, ReachIs DEF Below
    <3> QED  BY <3>1, <3>3, <1>0, BelowIs
  <2>6. KeepsOrder(t, u)
    <3>1. ~t.view[v].visible  BY <1>1 DEF Creates
    <3>2. TopIsAbove(named)  BY <1>5 DEF Nearly
    <3> QED  BY <2>1, <2>5, <3>1, <3>2, <1>5, <1>6, <1>7, ShowKeepsOrder
  <2> QED  BY <2>4, <2>6
<1>9. CASE ~new.view[p].visible /\ u = Hide(named, v)
  <2>1. u = named  BY <1>0, <1>5, <1>9, HideHidden
  <2>2. v \notin FollowsSeen(u)
    <3>1. u.view[v].parent = p /\ ~u.view[p].visible  BY <2>1, <1>0, <1>3, <1>6, <1>9 DEF Names
    <3> QED  BY <3>1, <1>0, FollowsSeenIs
  <2>3. Good(u)  BY <2>1, <2>2, <1>5, NearlyIsGood
  <2>4. OthersAsSeen(t, u, v) /\ v \notin Shown(u)  BY <2>1, <1>6 DEF OthersAsSeen, Shown
  <2>5. KeepsOrder(t, u)  BY <2>1, <2>4, <1>5, <1>6, <1>7, MoveKeepsOrder
  <2> QED  BY <2>3, <2>5
<1> QED  BY <1>4, <1>8, <1>9

-----------------------------------------------------------------------------
(* The calls that move one view.                                           *)

LEMMA RelistedIsGood ==
  ASSUME NEW t, Good(t), NEW v, NEW u, Relisted(t, u, v)
  PROVE  Good(u) /\ Alive(u) = Alive(t)
<1>1. u.view = t.view /\ u.overlooked = t.overlooked /\ u \in States /\ ListOf(u.stack, Alive(t))
  BY DEF Relisted
<1>2. Alive(u) = Alive(t) /\ FollowsSeen(u) = FollowsSeen(t)  BY <1>1 DEF Alive, FollowsSeen
<1>3. Sound(u)  BY <1>1, <1>2 DEF Good, Sound, SoundView
<1>4. TopIsAbove(u) /\ Rooted(u)  BY <1>1, <1>2 DEF Good, TopIsAbove, Rooted
<1>5. Together(u, None)  BY <1>1, <1>2 DEF Good, Together
<1> QED  BY <1>2, <1>3, <1>4, <1>5 DEF Good

\* As far as the order goes.
LEMMA RelistedKeepsOrder ==
  ASSUME NEW t, NEW v \in Alive(t), ListOf(t.stack, Alive(t)), NEW u, Relisted(t, u, v),
         InOrder(t, Views \ {v}) /\ ~FallsBehindAll(t, u, v) => Fits(u, v)
  PROVE  KeepsOrder(t, u)
<1>1. u.view = t.view /\ ListOf(u.stack, Alive(t)) /\ MovedOnly(t.stack, u.stack, v)  BY DEF Relisted
<1>2. OthersAsSeen(t, u, v) /\ \A x \in Views \ {v} : u.view[x].layer = t.view[x].layer
  BY <1>1 DEF OthersAsSeen
<1> QED  BY <1>1, <1>2, MoveKeepsOrder

LEMMA RestackForLayerKeeps ==
  ASSUME NEW t, Good(t), NEW v \in Alive(t), NEW raise \in BOOLEAN
  PROVE  Good(RestackForLayer(t, v, raise)) /\ KeepsOrder(t, RestackForLayer(t, v, raise))
<1> DEFINE u == RestackForLayer(t, v, raise)
<1>1. t \in States /\ ListOf(t.stack, Alive(t))  BY DEF Good, Sound
<1>2. /\ Relisted(t, u, v)
      /\ InOrder(t, Views \ {v}) /\ (raise \/ ~FallsBehindAll(t, u, v)) => Fits(u, v)
  BY <1>1, RestackForLayerIs
<1> HIDE DEF u
<1> QED  BY <1>1, <1>2, RelistedIsGood, RelistedKeepsOrder DEF u

LEMMA RaiseWindowKeeps ==
  ASSUME NEW t, Good(t), NEW w \in Windows, w \in Alive(t)
  PROVE  /\ Good(RaiseWindow(t, w)) /\ KeepsOrder(t, RaiseWindow(t, w))
         /\ Alive(RaiseWindow(t, w)) = Alive(t)
         /\ \A x \in Windows \ {w} :
              RaiseWindow(t, w).view[x].visible => Ahead(RaiseWindow(t, w).stack, w, x)
<1> DEFINE u == RaiseWindow(t, w)
<1>1. t \in States /\ ListOf(t.stack, Alive(t)) /\ Sound(t) /\ TopIsAbove(t)  BY DEF Good, Sound
<1>2. /\ Relisted(t, u, w)
      /\ \A x \in Windows \ {w} : t.view[x].visible => Ahead(u.stack, w, x)
      /\ TopIsAbove(t) /\ InOrder(t, Views \ {w}) => Fits(u, w)
  BY <1>1, RaiseWindowIs
<1>3. u.view = t.view  BY <1>2 DEF Relisted
<1> HIDE DEF u
<1>4. Good(u) /\ Alive(u) = Alive(t)  BY <1>2, RelistedIsGood
<1>5. KeepsOrder(t, u)  BY <1>1, <1>2, RelistedKeepsOrder
<1> QED  BY <1>2, <1>3, <1>4, <1>5 DEF u

LEMMA BesideKeeps ==
  ASSUME NEW t, Good(t), NEW v \in Windows, v \in Alive(t), NEW s \in Windows \ {v}, s \in Alive(t),
         NEW k \in 1 .. Len(Without(t.stack, v)), Without(t.stack, v)[k] = s,
         NEW i \in {k, k + 1}
  PROVE  Good(MoveTo(t, v, i)) /\ KeepsOrder(t, MoveTo(t, v, i))
<1> DEFINE u == MoveTo(t, v, i)
<1>1. t \in States /\ ListOf(t.stack, Alive(t))  BY DEF Good, Sound
<1>2. t.view[v].layer = t.view[s].layer  BY DEF Good, Sound, SoundView, Views
<1>3. s \in Alive(t) \ {v}  OBVIOUS
<1>4. Relisted(t, u, v) /\ (InOrder(t, Views \ {v}) => Fits(u, v))
  BY <1>1, <1>2, <1>3, BesideIs
<1> HIDE DEF u
<1> QED  BY <1>1, <1>4, RelistedIsGood, RelistedKeepsOrder DEF u

LEMMA OrderOfOthers ==
  ASSUME NEW s, NEW set, ListOf(s.stack, set), NEW t, NEW alive, ListOf(t.stack, alive), NEW v,
         MovedOnly(s.stack, t.stack, v),
         \A x \in Views \ {v} : t.view[x].layer = s.view[x].layer,
         InOrder(s, Views \ {v})
  PROVE  InOrder(t, Views \ {v})
<1>1. \A x, y \in Views \ {v} : Ahead(s.stack, x, y) => s.view[x].layer >= s.view[y].layer
  BY InOrderIs
<1>2. \A x, y \in Views \ {v} : Ahead(t.stack, x, y) => t.view[x].layer >= t.view[y].layer
  BY <1>1 DEF MovedOnly
<1> QED  BY <1>2, InOrderIs

LEMMA MovedOnlyTwice ==
  ASSUME NEW a, NEW b, NEW c, NEW v, MovedOnly(a, b, v), MovedOnly(b, c, v)
  PROVE  MovedOnly(a, c, v)
BY DEF MovedOnly

-----------------------------------------------------------------------------
(* Showing and hiding windows.                                             *)

LEMMA BelowIsKept ==
  ASSUME NEW t \in States, NEW u \in States, \A x \in Views : Like(t, u, x), NEW v
  PROVE  Below(u, v) = Below(t, v)
<1>1. \A x \in Views : u.view[x].parent = t.view[x].parent  BY LikeIs
<1>2. Under(u) = Under(t)  BY <1>1 DEF Under
<1> QED  BY <1>2 DEF Below

LEMMA ShowWindowKeeps ==
  ASSUME NEW t, Good(t), NEW w \in Windows, w \in Alive(t)
  PROVE  /\ Good(Show(t, w)) /\ KeepsOrder(t, Show(t, w))
         /\ Alive(Show(t, w)) = Alive(t)
         /\ ~t.view[w].visible =>
              \A x \in Windows \ Below(Show(t, w), w) :
                 Show(t, w).view[x].visible => Ahead(Show(t, w).stack, w, x)
<1> DEFINE u == Show(t, w)
<1>0. w \in Views /\ w \notin Popups  BY ViewAssumption DEF Alive
<1>1. Nearly(t, w) /\ t \in States /\ ListOf(t.stack, Alive(t)) /\ Sound(t) /\ TopIsAbove(t)
  BY GoodIsNearly DEF Good, Sound
<1>2. CASE t.view[w].visible
  <2>1. u = t  BY <1>2 DEF Show
  <2> HIDE DEF u
  <2> QED  BY <2>1, <1>2, SameKeepsOrder DEF u
<1>3. CASE ~t.view[w].visible
  <2>1. ~t.view[w].alwaysTop  BY <1>0, <1>1 DEF Sound, SoundView
  <2>2. Shows(t, u, w) /\ Nearly(u, w)  BY <2>1, <1>1, <1>3, ShowIs, ShowIsNearly DEF Nearly
  <2> HIDE DEF u
  <2>3. Good(u)  BY <2>2, <1>0, NearlyIsGood
  <2>4. KeepsOrder(t, u)
    <3>1. MovedOnly(t.stack, t.stack, w)  BY SameMovedOnly
    <3> QED  BY <3>1, <2>2, <1>0, <1>1, <1>3, ShowKeepsOrder
  <2>5. Alive(u) = Alive(t) /\ u \in States  BY <2>2, <1>1, SoundAfter DEF Shows
  <2>6. Below(u, w) = Below(t, w)  BY <2>2, <2>5, <1>1, BelowIsKept DEF Shows
  <2>7. \A x \in Windows \ Below(u, w) : u.view[x].visible => Ahead(u.stack, w, x)
    BY <2>2, <2>6 DEF Shows
  <2> QED  BY <2>3, <2>4, <2>5, <2>7 DEF u
<1> QED  BY <1>2, <1>3

LEMMA HideKeeps ==
  ASSUME NEW t, Good(t), NEW v \in Views \ Popups
  PROVE  Good(Hide(t, v)) /\ KeepsOrder(t, Hide(t, v))
<1> DEFINE u == Hide(t, v)
<1>1. Nearly(t, v)  BY GoodIsNearly
<1>2. Nearly(u, v) /\ Hides(t, u, v)  BY <1>1, HideIsNearly
<1> HIDE DEF u
<1>3. Good(u)  BY <1>2, NearlyIsGood
<1>4. u.stack = t.stack  BY <1>2 DEF Hides
<1> QED  BY <1>3, <1>4, SameKeepsOrder DEF u

LEMMA CreateViewKeeps ==
  ASSUME NEW t, Good(t), NEW v \in Views, v \notin Alive(t), NEW u, Good(u),
         u.stack = CreateView(t, v).stack,
         \A x \in Views \ {v} : u.view[x] = CreateView(t, v).view[x],
         ~u.view[v].visible
  PROVE  KeepsOrder(t, u)
<1> DEFINE new == CreateView(t, v)
<1>1. Creates(t, new, v)  BY CreateViewIs
<1>2. \A x \in Views \ {v} : new.view[x] = t.view[x]
  <2>1. t.view \in [Views -> ViewStates]  BY DEF Good, Sound, States
  <2> HIDE DEF new
  <2> QED  BY <2>1, <1>1 DEF Creates
<1> HIDE DEF new
<1>3. /\ ListOf(t.stack, Alive(t)) /\ ListOf(u.stack, Alive(t) \cup {v})
      /\ MovedOnly(t.stack, u.stack, v)
  BY <1>1 DEF new, Creates, Good, Sound
<1>4. OthersAsSeen(t, u, v) /\ \A x \in Views \ {v} : u.view[x].layer = t.view[x].layer
  BY <1>2 DEF OthersAsSeen, new
<1>5. v \in Alive(t) \cup {v} /\ v \notin Shown(u)  BY DEF Shown
<1> QED  BY <1>3, <1>4, <1>5, MoveKeepsOrder

-----------------------------------------------------------------------------
(* Layers of bars, layer surfaces and panels.                              *)

\* v, which is no window, has another layer or is always on top, from t to r.
Relayers(t, r, v) ==
    /\ r.stack = t.stack /\ r.overlooked = t.overlooked
    /\ r \in States
    /\ \A x \in Views \ {v} : r.view[x] = t.view[x]
    /\ r.view[v].alive /\ r.view[v].visible = t.view[v].visible /\ r.view[v].parent = t.view[v].parent
    /\ r.view[v].visible /\ r.view[v].alwaysTop => r.view[v].layer > Normal

\* t with the layer of v, and whether v is always on top.
On(t, v, top, layer) ==
    LET new == [t.view[v] EXCEPT !.alwaysTop = top, !.layer = layer]
    IN [t EXCEPT !.view = [t.view EXCEPT ![v] = new]]

LEMMA RelayersIs ==
  ASSUME NEW t \in States, NEW v \in Alive(t), NEW top \in BOOLEAN, NEW layer \in Layers,
         t.view[v].visible /\ top => layer > Normal
  PROVE  /\ Relayers(t, On(t, v, top, layer), v)
         /\ On(t, v, top, layer).view[v].layer = layer
         /\ On(t, v, top, layer).view[v].alwaysTop = top
<1> DEFINE new == [t.view[v] EXCEPT !.alwaysTop = top, !.layer = layer]
           r == [t EXCEPT !.view = [t.view EXCEPT ![v] = new]]
<1>1. v \in Views /\ t.view[v].alive  BY DEF Alive
<1>2. t.view \in [Views -> ViewStates] /\ t.view[v] \in ViewStates  BY <1>1 DEF States
<1>3. /\ new \in ViewStates /\ new.alive = t.view[v].alive /\ new.visible = t.view[v].visible
      /\ new.alwaysTop = top /\ new.layer = layer /\ new.parent = t.view[v].parent
  BY <1>2 DEF ViewStates
<1> HIDE DEF new
<1>4. [t.view EXCEPT ![v] = new] \in [Views -> ViewStates]  BY <1>2, <1>3
<1>5. r \in States /\ r.view = [t.view EXCEPT ![v] = new] /\ r.stack = t.stack /\ r.overlooked = t.overlooked
  BY <1>4 DEF States
<1>6. r.view[v] = new /\ \A x \in Views \ {v} : r.view[x] = t.view[x]  BY <1>1, <1>2, <1>5
<1> HIDE DEF r
<1>7. Relayers(t, r, v)  BY <1>1, <1>3, <1>5, <1>6 DEF Relayers
<1> QED  BY <1>3, <1>6, <1>7 DEF r, new, On

LEMMA RelayersIsGood ==
  ASSUME NEW t, Sound(t), Together(t, None), Rooted(t), NEW v \in Alive(t), v \notin Windows \cup Popups,
         \A x \in Views \ {v} : t.view[x].visible /\ t.view[x].alwaysTop => t.view[x].layer > Normal,
         NEW r, Relayers(t, r, v)
  PROVE  Good(r) /\ Alive(r) = Alive(t)
<1>0. v \in Views /\ t.view[v].alive  BY DEF Alive
<1>1. Alive(r) = Alive(t)  BY <1>0 DEF Alive, Relayers
<1>2. Sound(r)
  <2>1. ASSUME NEW x \in Views PROVE SoundView(r, x)
    <3>1. CASE x = v  BY <3>1 DEF SoundView, Relayers
    <3>2. CASE x # v  BY <3>2 DEF SoundView, Relayers, Sound
    <3> QED  BY <3>1, <3>2
  <2> QED  BY <2>1, <1>1 DEF Sound, Relayers
<1>3. TopIsAbove(r)
  <2> SUFFICES ASSUME NEW x \in Views, r.view[x].visible, r.view[x].alwaysTop PROVE r.view[x].layer > Normal
    BY DEF TopIsAbove
  <2>1. CASE x = v  BY <2>1 DEF Relayers
  <2>2. CASE x # v  BY <2>2 DEF Relayers
  <2> QED  BY <2>1, <2>2
<1>4. Rooted(r)
  <2> SUFFICES ASSUME NEW x \in Views
               PROVE  /\ r.view[x].parent \in Views => x \in Windows \cup Popups /\ r.view[x].parent \in Alive(r)
                      /\ x \in Popups => ~r.view[x].alwaysTop
    BY DEF Rooted
  <2>1. r.view[x].parent = t.view[x].parent  BY DEF Relayers
  <2>2. x \in Popups => r.view[x] = t.view[x]  BY DEF Relayers
  <2> QED  BY <2>1, <2>2, <1>1 DEF Rooted
<1>5. Together(r, None)
  <2>1. \A x \in Views : r.view[x].parent = t.view[x].parent /\ r.view[x].visible = t.view[x].visible
    BY DEF Relayers
  <2>2. FollowsSeen(r) = FollowsSeen(t)  BY <2>1 DEF FollowsSeen
  <2>3. \A x \in Popups : x \in Views  BY DEF Views
  <2>4. r.overlooked = t.overlooked  BY DEF Relayers
  <2> QED  BY <2>1, <2>2, <2>3, <2>4 DEF Together
<1> QED  BY <1>1, <1>2, <1>3, <1>4, <1>5 DEF Good

\* And is then put where its layer is; nothing else has been moved since s.
Relayered(s, r, u, v) ==
    /\ Good(u) /\ Alive(u) = Alive(r) /\ u.view = r.view
    /\ MovedOnly(s.stack, u.stack, v)
    /\ InOrder(s, Views \ {v}) => Fits(u, v)
    /\ OthersAsSeen(s, r, v) => KeepsOrder(s, u)

LEMMA RelayeredKeeps ==
  ASSUME NEW s, NEW set, ListOf(s.stack, set), NEW r, Good(r), NEW v \in Alive(r),
         MovedOnly(s.stack, r.stack, v),
         \A x \in Views \ {v} : r.view[x].layer = s.view[x].layer
  PROVE  Relayered(s, r, RestackForLayer(r, v, TRUE), v)
<1> DEFINE u == RestackForLayer(r, v, TRUE)
<1>1. r \in States /\ ListOf(r.stack, Alive(r))  BY DEF Good, Sound
<1>2. Relisted(r, u, v) /\ (InOrder(r, Views \ {v}) => Fits(u, v))
  <2>1. TRUE \in BOOLEAN  OBVIOUS
  <2> QED  BY <2>1, <1>1, RestackForLayerIs
<1> HIDE DEF u
<1>3. Good(u) /\ Alive(u) = Alive(r) /\ u.view = r.view /\ ListOf(u.stack, Alive(r))
  BY <1>2, RelistedIsGood DEF Relisted
<1>4. MovedOnly(s.stack, u.stack, v)  BY <1>2, MovedOnlyTwice DEF Relisted
<1>5. InOrder(s, Views \ {v}) => Fits(u, v)  BY <1>1, <1>2, OrderOfOthers
<1>6. ASSUME OthersAsSeen(s, r, v) PROVE KeepsOrder(s, u)
  <2>1. OthersAsSeen(s, u, v)  BY <1>3, <1>6 DEF OthersAsSeen
  <2>2. \A x \in Views \ {v} : u.view[x].layer = s.view[x].layer  BY <1>3
  <2> QED  BY <2>1, <2>2, <1>3, <1>4, <1>5, MoveKeepsOrder
<1> QED  BY <1>3, <1>4, <1>5, <1>6 DEF u, Relayered

\* restack_layer() is the two.
LEMMA RestackLayerIs ==
  ASSUME NEW t \in States, NEW v \in Alive(t), NEW layer \in Layers
  PROVE  LET r == On(t, v, layer \in {Top, Overlay}, layer)
         IN RestackLayer(t, v, layer) = RestackForLayer(r, v, TRUE) /\ Relayers(t, r, v)
<1> DEFINE top == layer \in {Top, Overlay}
           half == [t.view[v] EXCEPT !.alwaysTop = top]
           new == [t.view[v] EXCEPT !.alwaysTop = top, !.layer = layer]
           a == [t EXCEPT !.view[v].alwaysTop = top]
           b == [a EXCEPT !.view[v].layer = layer]
           r == [t EXCEPT !.view = [t.view EXCEPT ![v] = new]]
<1>1. v \in Views  BY DEF Alive
<1>2. t.view \in [Views -> ViewStates] /\ t.view[v] \in ViewStates  BY <1>1 DEF States
<1>3. top \in BOOLEAN /\ (top => layer > Normal)  BY Numbers
<1>4. RestackLayer(t, v, layer) = RestackForLayer(b, v, TRUE)
  BY DEF RestackLayer, SetStackLayer
<1>5. a = [t EXCEPT !.view = [t.view EXCEPT ![v] = half]]  BY <1>1, <1>2 DEF States
<1>6. [half EXCEPT !.layer = layer] = new
  <2> HIDE DEF top
  <2> QED  BY <1>2 DEF ViewStates
<1> HIDE DEF half, new, top
<1>7. a.view = [t.view EXCEPT ![v] = half]  BY <1>5 DEF States
<1>8. b = [a EXCEPT !.view = [a.view EXCEPT ![v] = [a.view[v] EXCEPT !.layer = layer]]]
  BY <1>1, <1>2, <1>5, <1>7 DEF States
<1>9. a.view[v] = half  BY <1>1, <1>2, <1>7
<1>10. [a.view EXCEPT ![v] = new] = [t.view EXCEPT ![v] = new]  BY <1>1, <1>2, <1>7
<1>11. b = r
  <2>1. b = [a EXCEPT !.view = [t.view EXCEPT ![v] = new]]  BY <1>6, <1>8, <1>9, <1>10
  <2> HIDE DEF b
  <2> QED  BY <1>5, <2>1 DEF States
<1>12. r = On(t, v, top, layer)  BY DEF On, new
<1>13. Relayers(t, r, v)
  <2> HIDE DEF r
  <2> QED  BY <1>3, <1>12, RelayersIs
<1> HIDE DEF r
<1> QED  BY <1>4, <1>11, <1>12, <1>13 DEF top

\* What restack_layer_surface() makes of t, whose stack differs from that of s by v alone.
Layered(s, t, u, v) ==
  /\ Good(u) /\ Alive(u) = Alive(t)
  /\ MovedOnly(s.stack, u.stack, v)
  /\ \A x \in Views \ {v} : u.view[x] = s.view[x]
  /\ u.view[v].visible = t.view[v].visible
  /\ InOrder(s, Views \ {v}) => Fits(u, v)
  /\ KeepsOrder(s, u)

\* A layer surface that exists.
LEMMA RestackLayerKeeps ==
  ASSUME NEW s, NEW set, ListOf(s.stack, set), NEW t, Good(t), NEW v \in LayerSurfaces, v \in Alive(t),
         NEW layer \in Layers,
         MovedOnly(s.stack, t.stack, v),
         \A x \in Views \ {v} : t.view[x] = s.view[x]
  PROVE  Layered(s, t, RestackLayer(t, v, layer), v)
<1> DEFINE r == On(t, v, layer \in {Top, Overlay}, layer)
           u == RestackLayer(t, v, layer)
<1>0. v \in Views /\ v \notin Windows \cup Popups  BY ViewAssumption DEF Alive
<1>1. t \in States /\ Sound(t) /\ TopIsAbove(t) /\ Together(t, None) /\ Rooted(t)  BY DEF Good, Sound
<1>2. u = RestackForLayer(r, v, TRUE) /\ Relayers(t, r, v)  BY <1>1, RestackLayerIs
<1> HIDE DEF r, u
<1>3. Good(r) /\ Alive(r) = Alive(t)  BY <1>0, <1>1, <1>2, RelayersIsGood DEF TopIsAbove
<1>4. /\ MovedOnly(s.stack, r.stack, v) /\ OthersAsSeen(s, r, v)
      /\ \A x \in Views \ {v} : r.view[x] = s.view[x]
      /\ r.view[v].visible = t.view[v].visible
  BY <1>2 DEF Relayers, OthersAsSeen
<1>5. /\ Good(u) /\ Alive(u) = Alive(r) /\ u.view = r.view
      /\ MovedOnly(s.stack, u.stack, v)
      /\ InOrder(s, Views \ {v}) => Fits(u, v)
      /\ KeepsOrder(s, u)
  <2>1. \A x \in Views \ {v} : r.view[x].layer = s.view[x].layer  BY <1>4
  <2>2. v \in Alive(r)  BY <1>3
  <2>3. Relayered(s, r, RestackForLayer(r, v, TRUE), v)
    BY <2>1, <2>2, <1>3, <1>4, RelayeredKeeps
  <2> QED  BY <2>3, <1>2, <1>4 DEF Relayered
<1> QED  BY <1>3, <1>4, <1>5 DEF u, Layered

\* layer_surface_new()
LEMMA NewLayerSurfaceIs ==
  ASSUME NEW t, Good(t), NEW v \in LayerSurfaces, v \notin Alive(t), NEW layer \in Chosen
  PROVE  LET u == RestackLayer(CreateView(t, v), v, layer)
         IN Good(u) /\ KeepsOrder(t, u)
<1> DEFINE n == CreateView(t, v)
<1>0. v \in Views /\ layer \in Layers  BY ViewAssumption, Numbers DEF Views
<1>1. Good(n) /\ Creates(t, n, v)  BY <1>0, CreateViewIs
<1> HIDE DEF n
<1>2. t.view \in [Views -> ViewStates] /\ ListOf(t.stack, Alive(t))  BY DEF Good, Sound, States
<1>3. MovedOnly(t.stack, n.stack, v) /\ v \in Alive(n) /\ \A x \in Views \ {v} : n.view[x] = t.view[x]
  BY <1>0, <1>1, <1>2 DEF Creates
<1>4. v \in Alive(n) /\ Good(n) /\ layer \in Layers  BY <1>0, <1>1, <1>3
<1>5. Layered(t, n, RestackLayer(n, v, layer), v)  BY <1>2, <1>3, <1>4, RestackLayerKeeps
<1> QED  BY <1>5 DEF n, Layered

\* handle_attach(), with a buffer
LEMMA MapLayerSurfaceIs ==
  ASSUME NEW t, Good(t), NEW v \in LayerSurfaces, v \in Alive(t)
  PROVE  LET u == Show(RestackLayer(t, v, t.view[v].layer), v)
         IN Good(u) /\ KeepsOrder(t, u)
<1> DEFINE q == RestackLayer(t, v, t.view[v].layer)
           u == Show(q, v)
<1>0. v \in Views /\ v \notin Windows /\ v \notin Popups  BY ViewAssumption DEF Alive
<1>1. ListOf(t.stack, Alive(t)) /\ t \in States  BY DEF Good, Sound
<1>2. t.view[v].layer \in Layers  BY <1>0, <1>1, ViewStateIs
<1>3. MovedOnly(t.stack, t.stack, v)  BY SameMovedOnly
<1>4. /\ Good(q) /\ Alive(q) = Alive(t)
      /\ MovedOnly(t.stack, q.stack, v)
      /\ \A x \in Views \ {v} : q.view[x] = t.view[x]
      /\ q.view[v].visible = t.view[v].visible
      /\ InOrder(t, Views \ {v}) => Fits(q, v)
      /\ KeepsOrder(t, q)
  <2>1. Layered(t, t, q, v)  BY <1>1, <1>2, <1>3, RestackLayerKeeps
  <2> HIDE DEF q
  <2> QED  BY <2>1 DEF Layered
<1>5. q.view[v].alwaysTop => q.view[v].layer > Normal
  <2> DEFINE layer == t.view[v].layer
             new == [t.view[v] EXCEPT !.alwaysTop = layer \in {Top, Overlay}, !.layer = layer]
             r == On(t, v, layer \in {Top, Overlay}, layer)
  <2>1. q = RestackForLayer(r, v, TRUE) /\ Relayers(t, r, v)  BY <1>1, <1>2, RestackLayerIs
  <2>2. r.view = [t.view EXCEPT ![v] = new] /\ t.view \in [Views -> ViewStates]  BY <1>1 DEF States, On
  <2>3. r.view[v] = new  BY <1>0, <2>2
  <2>4. new.alwaysTop = (layer \in {Top, Overlay}) /\ new.layer = layer
    <3>1. t.view[v] \in ViewStates  BY <1>0, <1>1, ViewStateIs
    <3> QED  BY <3>1 DEF ViewStates
  <2>5. q.view = r.view
    <3>1. r \in States /\ r.stack = t.stack  BY <2>1 DEF Relayers
    <3>2. Alive(r) = Alive(t)  BY <2>1, <1>0 DEF Relayers, Alive
    <3>3. TRUE \in BOOLEAN  OBVIOUS
    <3> HIDE DEF r, q
    <3>4. ListOf(r.stack, Alive(r)) /\ v \in Alive(r)  BY <3>1, <3>2, <1>1
    <3>5. Relisted(r, RestackForLayer(r, v, TRUE), v)  BY <3>1, <3>3, <3>4, RestackForLayerIs
    <3> QED  BY <3>5, <2>1 DEF Relisted
  <2>6. (q.view[v].alwaysTop <=> (layer \in {Top, Overlay})) /\ q.view[v].layer = layer
    <3> HIDE DEF new, r, q
    <3> QED  BY <2>3, <2>4, <2>5
  <2> HIDE DEF new, r, q
  <2> QED  BY <2>6, Numbers
<1> SUFFICES Good(u) /\ KeepsOrder(t, u)  OBVIOUS
<1> HIDE DEF q
<1>6. CASE q.view[v].visible
  <2>1. u = q  BY <1>6 DEF Show
  <2> HIDE DEF u
  <2> QED  BY <2>1, <1>4
<1>7. CASE ~q.view[v].visible
  <2>1. Nearly(q, v) /\ v \in Alive(q) /\ Sound(q) /\ TopIsAbove(q)  BY <1>4, GoodIsNearly DEF Good
  <2>2. Shows(q, u, v) /\ Nearly(u, v)  BY <2>1, <1>5, <1>7, ShowIs, ShowIsNearly DEF Nearly
  <2> HIDE DEF u
  <2>3. Good(u)  BY <2>2, <1>0, NearlyIsGood
  <2>4. /\ ~t.view[v].visible
        /\ \A x \in Views \ {v} :
             q.view[x].layer = t.view[x].layer /\ q.view[x].visible = t.view[x].visible
        /\ InOrder(t, Views \ {v}) /\ v \notin Windows \cup Popups => Fits(q, v)
    BY <1>4, <1>7
  <2>5. KeepsOrder(t, u)  BY <2>1, <2>2, <2>4, <1>0, <1>1, <1>4, <1>7, ShowKeepsOrder
  <2> QED  BY <2>3, <2>5
<1> QED  BY <1>6, <1>7

LEMMA LayerSet ==
  ASSUME NEW t \in States, NEW v \in Alive(t), NEW layer \in Layers,
         t.view[v].visible /\ t.view[v].alwaysTop => layer > Normal
  PROVE  LET r == [t EXCEPT !.view[v].layer = layer]
         IN Relayers(t, r, v) /\ r.view[v].layer = layer
<1> DEFINE top == t.view[v].alwaysTop
           new == [t.view[v] EXCEPT !.alwaysTop = top, !.layer = layer]
           r == [t EXCEPT !.view = [t.view EXCEPT ![v] = new]]
<1>1. v \in Views  BY DEF Alive
<1>2. t.view \in [Views -> ViewStates] /\ t.view[v] \in ViewStates /\ top \in BOOLEAN
  BY <1>1, ViewStateIs DEF States
<1>3. new = [t.view[v] EXCEPT !.layer = layer]  BY <1>2 DEF ViewStates
<1>4. r = [t EXCEPT !.view[v].layer = layer]
  <2> HIDE DEF new
  <2> QED  BY <1>1, <1>2, <1>3 DEF States
<1>5. Relayers(t, On(t, v, top, layer), v) /\ On(t, v, top, layer).view[v].layer = layer
  <2> HIDE DEF new, r
  <2> QED  BY <1>2, RelayersIs
<1>6. On(t, v, top, layer) = r  BY DEF On
<1> HIDE DEF r
<1> QED  BY <1>4, <1>5, <1>6

LEMMA TopSet ==
  ASSUME NEW t \in States, NEW v \in Alive(t), ~t.view[v].visible
  PROVE  LET r == [t EXCEPT !.view[v].alwaysTop = TRUE] IN Relayers(t, r, v)
<1> DEFINE layer == t.view[v].layer
           new == [t.view[v] EXCEPT !.alwaysTop = TRUE, !.layer = layer]
           r == [t EXCEPT !.view = [t.view EXCEPT ![v] = new]]
<1>1. v \in Views /\ TRUE \in BOOLEAN  BY DEF Alive
<1>2. t.view \in [Views -> ViewStates] /\ t.view[v] \in ViewStates /\ layer \in Layers
  BY <1>1, ViewStateIs DEF States
<1>3. new = [t.view[v] EXCEPT !.alwaysTop = TRUE]  BY <1>2 DEF ViewStates
<1>4. r = [t EXCEPT !.view[v].alwaysTop = TRUE]
  <2> HIDE DEF new
  <2> QED  BY <1>1, <1>2, <1>3 DEF States
<1>5. Relayers(t, On(t, v, TRUE, layer), v)
  <2> HIDE DEF new, r
  <2> QED  BY <1>1, <1>2, RelayersIs
<1>6. On(t, v, TRUE, layer) = r  BY DEF On
<1> HIDE DEF r
<1> QED  BY <1>4, <1>5, <1>6

\* manager_get_shell_surface()
LEMMA NewBarIs ==
  ASSUME NEW t, Good(t), NEW v \in Bars, v \notin Alive(t)
  PROVE  LET u == Show(SetStackLayer(CreateView(t, v), v, Top, TRUE), v)
         IN Good(u) /\ KeepsOrder(t, u)
<1> DEFINE n == CreateView(t, v)
           r == [n EXCEPT !.view[v].layer = Top]
           q == SetStackLayer(n, v, Top, TRUE)
           u == Show(q, v)
<1>0. v \in Views /\ v \notin Windows /\ v \notin Popups /\ Top \in Layers /\ Top > Normal
  BY ViewAssumption, Numbers DEF Views
<1>1. Good(n) /\ Creates(t, n, v)  BY <1>0, CreateViewIs
<1>2. q = RestackForLayer(r, v, TRUE)  BY DEF SetStackLayer
<1> SUFFICES Good(u) /\ KeepsOrder(t, u)  OBVIOUS
<1> HIDE DEF n, q
<1>3. n \in States /\ v \in Alive(n) /\ Sound(n) /\ TopIsAbove(n) /\ Together(n, None) /\ Rooted(n)
  BY <1>1 DEF Good, Sound, Creates
<1>4. Relayers(n, r, v) /\ r.view[v].layer = Top  BY <1>0, <1>3, LayerSet
<1> HIDE DEF r
<1>5. Good(r) /\ Alive(r) = Alive(n)  BY <1>0, <1>3, <1>4, RelayersIsGood DEF TopIsAbove
<1>6. \A x \in Views \ {v} : r.view[x] = t.view[x]
  <2>1. t.view \in [Views -> ViewStates]  BY DEF Good, Sound, States
  <2> QED  BY <2>1, <1>1, <1>4 DEF Creates, Relayers
<1>7. ListOf(t.stack, Alive(t)) /\ MovedOnly(t.stack, r.stack, v)
  BY <1>1, <1>4 DEF Good, Sound, Creates, Relayers
<1>8. Relayered(t, r, q, v)
  <2>1. v \in Alive(r) /\ \A x \in Views \ {v} : r.view[x].layer = t.view[x].layer  BY <1>3, <1>5, <1>6
  <2> QED  BY <2>1, <1>2, <1>5, <1>7, RelayeredKeeps
<1>9. ~q.view[v].visible /\ ~t.view[v].visible /\ q.view[v].layer = Top
  BY <1>1, <1>4, <1>8 DEF Creates, Relayers, Relayered
<1>10. Nearly(q, v) /\ v \in Alive(q) /\ Sound(q) /\ TopIsAbove(q)
  BY <1>3, <1>5, <1>8, GoodIsNearly DEF Good, Relayered
<1>11. Shows(q, u, v) /\ Nearly(u, v)  BY <1>0, <1>9, <1>10, ShowIs, ShowIsNearly DEF Nearly
<1> HIDE DEF u
<1>12. Good(u)  BY <1>0, <1>11, NearlyIsGood
<1>13. KeepsOrder(t, u)
  <2>1. /\ MovedOnly(t.stack, q.stack, v)
        /\ \A x \in Views \ {v} :
              q.view[x].layer = t.view[x].layer /\ q.view[x].visible = t.view[x].visible
        /\ InOrder(t, Views \ {v}) /\ v \notin Windows \cup Popups => Fits(q, v)
    BY <1>6, <1>8 DEF Relayered
  <2> QED  BY <2>1, <1>0, <1>7, <1>9, <1>10, <1>11, ShowKeepsOrder
<1> QED  BY <1>12, <1>13

\* panel_new()
LEMMA NewPanelIs ==
  ASSUME NEW t, Good(t), NEW v \in Panels, v \notin Alive(t)
  PROVE  LET u == [CreateView(t, v) EXCEPT !.view[v].alwaysTop = TRUE]
         IN Good(u) /\ KeepsOrder(t, u)
<1> DEFINE n == CreateView(t, v)
           u == [n EXCEPT !.view[v].alwaysTop = TRUE]
<1>0. v \in Views /\ v \notin Windows \cup Popups  BY ViewAssumption DEF Views
<1>1. Good(n) /\ Creates(t, n, v)  BY <1>0, CreateViewIs
<1> SUFFICES Good(u) /\ KeepsOrder(t, u)  OBVIOUS
<1> HIDE DEF n
<1>2. n \in States /\ v \in Alive(n) /\ Sound(n) /\ TopIsAbove(n) /\ Together(n, None) /\ Rooted(n)
      /\ ~n.view[v].visible
  BY <1>1 DEF Good, Sound, Creates
<1>3. Relayers(n, u, v)  BY <1>2, TopSet
<1> HIDE DEF u
<1>4. Good(u)  BY <1>0, <1>2, <1>3, RelayersIsGood DEF TopIsAbove
<1>5. u.stack = n.stack /\ (\A x \in Views \ {v} : u.view[x] = n.view[x]) /\ ~u.view[v].visible
  BY <1>2, <1>3 DEF Relayers
<1>6. KeepsOrder(t, u)  BY <1>0, <1>4, <1>5, CreateViewKeeps DEF n
<1> QED  BY <1>4, <1>6

\* dock()
LEMMA DockPanelIs ==
  ASSUME NEW t, Good(t), NEW v \in Panels, v \in Alive(t)
  PROVE  LET u == RestackForLayer([Show(t, v) EXCEPT !.view[v].layer = Overlay], v, TRUE)
         IN Good(u) /\ KeepsOrder(t, u)
<1> DEFINE n == Show(t, v)
           r == [n EXCEPT !.view[v].layer = Overlay]
           u == RestackForLayer(r, v, TRUE)
<1>0. v \in Views /\ v \notin Windows /\ v \notin Popups /\ Overlay \in Layers /\ Overlay > Normal
  BY ViewAssumption, Numbers DEF Views
<1>1. Nearly(t, v) /\ Sound(t) /\ ListOf(t.stack, Alive(t)) /\ t \in States /\ TopIsAbove(t)
  BY GoodIsNearly DEF Good, Sound
<1>2. /\ Sound(n) /\ Rooted(n) /\ Together(n, None) /\ Alive(n) = Alive(t)
      /\ \A x \in Views \ {v} : n.view[x].visible /\ n.view[x].alwaysTop => n.view[x].layer > Normal
      /\ n = t \/ (Shows(t, n, v) /\ ~t.view[v].visible)
  <2>1. CASE t.view[v].visible
    <3>1. n = t  BY <2>1 DEF Show
    <3> HIDE DEF n
    <3> QED  BY <3>1 DEF Good, TopIsAbove
  <2>2. CASE ~t.view[v].visible
    <3>1. Shows(t, n, v) /\ Together(n, v)  BY <2>2, <1>1, ShowIs DEF Nearly
    <3> HIDE DEF n
    <3>2. /\ Sound(n) /\ Alive(n) = Alive(t) /\ Rooted(n)
          /\ \A x \in Views \ {v} : n.view[x].visible /\ n.view[x].alwaysTop => n.view[x].layer > Normal
      BY <3>1, <1>1, ShowKeeps
    <3>3. Together(n, None)  BY <3>1, <1>0 DEF Together
    <3> QED  BY <2>2, <3>1, <3>2, <3>3
  <2> QED  BY <2>1, <2>2
<1> SUFFICES Good(u) /\ KeepsOrder(t, u)  OBVIOUS
<1> HIDE DEF n
<1>3. n \in States /\ v \in Alive(n) /\ ListOf(n.stack, Alive(n))  BY <1>2 DEF Sound
<1>4. Relayers(n, r, v)  BY <1>0, <1>3, LayerSet
<1> HIDE DEF r
<1>5. Good(r) /\ Alive(r) = Alive(n)  BY <1>0, <1>2, <1>3, <1>4, RelayersIsGood
<1>6. v \in Alive(r) /\ MovedOnly(n.stack, r.stack, v)
      /\ \A x \in Views \ {v} : r.view[x].layer = n.view[x].layer
  BY <1>3, <1>4, <1>5, SameMovedOnly DEF Relayers
<1>7. Relayered(n, r, u, v)  BY <1>3, <1>5, <1>6, RelayeredKeeps
<1> HIDE DEF u
<1>8. Good(u)  BY <1>7 DEF Relayered
<1>9. \A x \in Views \ {v} : u.view[x] = n.view[x]  BY <1>4, <1>7 DEF Relayered, Relayers
<1>10. u.view[v].visible = n.view[v].visible  BY <1>4, <1>7 DEF Relayered, Relayers
<1>11. CASE n = t
  <2>1. OthersAsSeen(n, r, v)  BY <1>4 DEF OthersAsSeen, Relayers
  <2> QED  BY <2>1, <1>7, <1>8, <1>11 DEF Relayered
<1>12. CASE Shows(t, n, v) /\ ~t.view[v].visible
  <2>1. CASE \E c \in Views \ (Popups \cup {v}) : n.view[c].visible /\ ~t.view[c].visible
    <3>1. PICK c \in Views \ (Popups \cup {v}) : n.view[c].visible /\ ~t.view[c].visible
      BY <2>1
    <3>2. u.view[v].visible # t.view[v].visible /\ u.view[c].visible # t.view[c].visible
      BY <3>1, <1>9, <1>10, <1>12 DEF Shows
    <3>3. c \in Views \ Popups /\ v \in Views \ Popups /\ c # v  BY <3>1, <1>0
    <3>4. KeepsOrder(t, u)  BY <3>2, <3>3, TwoKeepOrder
    <3> QED  BY <3>4, <1>8
  <2>2. CASE ~\E c \in Views \ (Popups \cup {v}) : n.view[c].visible /\ ~t.view[c].visible
    <3>1. n.stack = t.stack
      <4>1. n.stack = Appear(t, v).stack  BY <2>2, <1>12 DEF Shows
      <4>2. Appear(t, v).stack = t.stack  BY <1>0, <1>1, AppearIs
      <4> QED  BY <4>1, <4>2
    <3>2. OthersAsSeen(t, u, v)
      <4> SUFFICES ASSUME NEW x \in Views \ (Popups \cup {v}) PROVE u.view[x].visible = t.view[x].visible
        BY DEF OthersAsSeen
      <4>1. n.view[x].visible <=> t.view[x].visible  BY <2>2, <1>12 DEF Shows
      <4>2. n.view[x].visible \in BOOLEAN /\ t.view[x].visible \in BOOLEAN  BY <1>1, <1>3, ViewStateIs
      <4> QED  BY <4>1, <4>2, <1>9
    <3>3. \A x \in Views \ {v} : u.view[x].layer = t.view[x].layer
      <4>1. \A x \in Views : n.view[x].layer = t.view[x].layer  BY <1>1, <1>3, <1>12, LikeIs DEF Shows
      <4> QED  BY <4>1, <1>9
    <3>4. ASSUME InOrder(t, Views \ {v}) PROVE Fits(u, v)
      <4>1. MovedOnly(t.stack, n.stack, v)  BY <3>1, SameMovedOnly
      <4>2. \A x \in Views \ {v} : n.view[x].layer = t.view[x].layer  BY <3>3, <1>9
      <4>3. InOrder(n, Views \ {v})  BY <3>4, <4>1, <4>2, <1>1, <1>3, OrderOfOthers
      <4> QED  BY <4>3, <1>7 DEF Relayered
    <3>5. MovedOnly(t.stack, u.stack, v) /\ ListOf(u.stack, Alive(u)) /\ v \in Alive(u)
      BY <3>1, <1>3, <1>5, <1>7 DEF Relayered, Good, Sound
    <3>6. KeepsOrder(t, u)  BY <3>2, <3>3, <3>4, <3>5, <1>1, MoveKeepsOrder
    <3> QED  BY <3>6, <1>8
  <2> QED  BY <2>1, <2>2
<1> QED  BY <1>2, <1>11, <1>12

-----------------------------------------------------------------------------
(* Restacking windows beside each other.                                   *)

LEMMA StackWindowIs ==
  ASSUME NEW t, Good(t), NEW w \in Windows, t.view[w].visible, NEW forward \in BOOLEAN
  PROVE  LET others == {i \in DOMAIN t.stack : t.view[t.stack[i]].visible /\ IsWindow(t.stack[i])}
             here == Place(t, w)
             past == IF forward THEN {i \in others : i < here} ELSE {i \in others : i > here}
             u == MoveTo(t, w, IF forward THEN Max(past) ELSE Min(past))
         IN past # {} => Good(u) /\ KeepsOrder(t, u)
<1> DEFINE others == {i \in DOMAIN t.stack : t.view[t.stack[i]].visible /\ IsWindow(t.stack[i])}
           here == Place(t, w)
           past == IF forward THEN {i \in others : i < here} ELSE {i \in others : i > here}
           m == IF forward THEN Max(past) ELSE Min(past)
           u == MoveTo(t, w, m)
           list == t.stack
           rest == Without(list, w)
           k == IF forward THEN m ELSE m - 1
<1> SUFFICES ASSUME past # {} PROVE Good(u) /\ KeepsOrder(t, u)  OBVIOUS
<1>0. w \in Views /\ Sound(t) /\ ListOf(t.stack, Alive(t))  BY DEF Views, Good, Sound
<1>1. w \in Alive(t)  BY <1>0, VisibleIsAlive
<1>2. list \in Seq(Views) /\ Len(list) \in Nat /\ DOMAIN list = 1 .. Len(list)
  <2>1. list \in Seq(Views)  BY <1>0 DEF ListOf
  <2> QED  BY <2>1, LenProperties
<1>3. here \in 1 .. Len(list) /\ list[here] = w  BY <1>0, <1>1, PositionIs DEF Place
<1>4. rest = RemoveAt(list, here)
  <2>1. Contains(list, w)  BY <1>2, <1>3 DEF Contains
  <2> QED  BY <2>1 DEF Without, Place
<1>5. /\ Len(rest) = Len(list) - 1
      /\ \A j \in 1 .. Len(list) - 1 : rest[j] = IF j < here THEN list[j] ELSE list[j + 1]
  <2>1. list \in Seq(Views)  BY <1>2
  <2> HIDE DEF list, here, rest
  <2> QED  BY <2>1, <1>3, <1>4, RemovedAt
<1>6. past \in SUBSET (1 .. Len(list)) /\ \A i \in past : i # here /\ (forward <=> i < here)
  BY <1>2, <1>3
<1>7. m \in past
  <2>1. past \in SUBSET (0 .. Len(list)) /\ past \in SUBSET Nat  BY <1>2, <1>6
  <2> HIDE DEF past
  <2>2. Max(past) \in past  BY <2>1, <1>2, MaxIs
  <2>3. Min(past) \in past  BY <2>1, MinIs
  <2> QED  BY <2>2, <2>3
<1>8. list[m] \in Windows /\ t.view[list[m]].visible  BY <1>7 DEF IsWindow
<1>9. m \in 1 .. Len(list) /\ m # here /\ (forward <=> m < here)  BY <1>6, <1>7
<1> HIDE DEF others, here, past, m, list, rest
<1>10. list[m] # w
  <2>1. \A i, j \in 1 .. Len(t.stack) : t.stack[i] = t.stack[j] => i = j
    <3>1. t.stack \in Seq(Views)  BY <1>2 DEF list
    <3> QED  BY <3>1, <1>0, ListIs
  <2> QED  BY <2>1, <1>3, <1>9 DEF list
<1>11. list[m] \in Alive(t)
  <2>1. list[m] \in Views  BY <1>8 DEF Views
  <2> QED  BY <2>1, <1>0, <1>8, VisibleIsAlive
<1>12. k \in 1 .. Len(rest) /\ rest[k] = list[m] /\ m \in {k, k + 1}
  BY <1>2, <1>3, <1>5, <1>9
<1> HIDE DEF k
<1>13. list[m] \in Windows \ {w}  BY <1>8, <1>10
<1>14. Good(MoveTo(t, w, m)) /\ KeepsOrder(t, MoveTo(t, w, m))
  BY <1>1, <1>11, <1>12, <1>13, BesideKeeps DEF rest, list
<1> QED  BY <1>14

LEMMA RestackIs ==
  ASSUME NEW t, Good(t), NEW w \in Windows, w \in Alive(t), NEW s \in Windows \ {w}, s \in Alive(t),
         NEW above \in BOOLEAN
  PROVE  LET i == Position(Without(t.stack, w), s)
             u == MoveTo(t, w, IF above THEN i ELSE i + 1)
         IN Good(u) /\ KeepsOrder(t, u)
<1> DEFINE i == Position(Without(t.stack, w), s)
           k == IF above THEN i ELSE i + 1
<1>1. ListOf(Without(t.stack, w), Alive(t) \ {w})  BY WithoutIs DEF Good, Sound
<1>2. i \in 1 .. Len(Without(t.stack, w)) /\ Without(t.stack, w)[i] = s
  <2>1. s \in Alive(t) \ {w}  OBVIOUS
  <2> QED  BY <2>1, <1>1, PositionIs
<1>3. k \in {i, i + 1}  OBVIOUS
<1> HIDE DEF i, k
<1>4. Good(MoveTo(t, w, k)) /\ KeepsOrder(t, MoveTo(t, w, k))  BY <1>2, <1>3, BesideKeeps
<1> QED  BY <1>4 DEF k, i

-----------------------------------------------------------------------------
(* The invariant.                                                          *)

\* w, if it is not None, was raised.
Raised(t, w) ==
    w # None =>
      /\ w \in Alive(t)
      /\ \A x \in Windows \ Below(t, w) : t.view[x].visible => Ahead(t.stack, w, x)

GoodWith(t, w) == Good(t) /\ w \in Windows \cup {None} /\ Raised(t, w)

IInv == GoodWith(Now, raised)

\* What a step keeps.
Kept == IInv' /\ KeepsOrder(Now, Now')

LEMMA NowIs ==
  /\ Now.view = view /\ Now.stack = stack /\ Now.overlooked = overlooked
  /\ Now'.view = view' /\ Now'.stack = stack' /\ Now'.overlooked = overlooked'
BY DEF Now

LEMMA BecomesIs ==
  ASSUME NEW u, NEW w, GoodWith(u, w), KeepsOrder(Now, u), Becomes(u, w)
  PROVE  Kept
<1> DEFINE n == Now'
<1>1. n.view = u.view /\ n.stack = u.stack /\ n.overlooked = u.overlooked \cap FollowsSeen(u)
      /\ n = [view |-> u.view, stack |-> u.stack, overlooked |-> u.overlooked \cap FollowsSeen(u)]
      /\ raised' = w
  BY DEF Becomes, Now
<1> HIDE DEF n
<1>2. Alive(n) = Alive(u) /\ FollowsSeen(n) = FollowsSeen(u) /\ Shown(n) = Shown(u)
  BY <1>1 DEF Alive, FollowsSeen, Shown
<1>3. Sound(n)
  <2>1. u \in States /\ ListOf(u.stack, Alive(u)) /\ \A x \in Views : SoundView(u, x)
    BY DEF GoodWith, Good, Sound
  <2>2. n \in States  BY <2>1, <1>1 DEF States
  <2>3. \A x \in Views : SoundView(n, x)  BY <2>1, <1>1 DEF SoundView
  <2> QED  BY <2>1, <2>2, <2>3, <1>1, <1>2 DEF Sound
<1>4. TopIsAbove(n) /\ Rooted(n)  BY <1>1, <1>2 DEF GoodWith, Good, TopIsAbove, Rooted
<1>5. Together(n, None)  BY <1>1, <1>2 DEF GoodWith, Good, Together
<1>6. Raised(n, w)
  <2>1. Below(n, w) = Below(u, w)  BY <1>1 DEF Below, Under
  <2> QED  BY <2>1, <1>1, <1>2 DEF GoodWith, Raised
<1>7. GoodWith(n, w)  BY <1>3, <1>4, <1>5, <1>6 DEF GoodWith, Good
<1>8. IInv'  BY <1>1, <1>7 DEF IInv, n
<1>9. KeepsOrder(Now, n)
  <2>1. MovedBy(Now, n) = MovedBy(Now, u)  BY <1>1 DEF MovedBy, OthersAsSeen
  <2>2. \A v : FallsBehindAll(Now, n, v) <=> FallsBehindAll(Now, u, v)  BY <1>1 DEF FallsBehindAll
  <2>3. InOrder(n, Shown(n)) <=> InOrder(u, Shown(u))  BY <1>1, <1>2 DEF InOrder
  <2> QED  BY <2>1, <2>2, <2>3, <1>1 DEF KeepsOrder
<1> QED  BY <1>8, <1>9 DEF Kept, n

LEMMA BecomesPlain ==
  ASSUME NEW u, Good(u) /\ KeepsOrder(Now, u), Becomes(u, None)
  PROVE  Kept
<1>1. GoodWith(u, None)  BY DEF GoodWith, Raised
<1> QED  BY <1>1, BecomesIs

LEMMA NowIsGood ==
  ASSUME IInv
  PROVE  Good(Now) /\ \A v \in Views : v \in Alive(Now) <=> view[v].alive
<1>1. Good(Now)  BY DEF IInv, GoodWith
<1> QED  BY <1>1, NowIs DEF Alive

-----------------------------------------------------------------------------
(* The steps.                                                              *)

LEMMA WindowSteps ==
  ASSUME IInv, NEW w \in Windows, NextWindow(w)
  PROVE  Kept
<1>0. w \in Views /\ w \in Views \ Popups /\ w # None  BY ViewAssumption DEF Views
<1>1. Good(Now) /\ \A v \in Views : v \in Alive(Now) <=> view[v].alive  BY NowIsGood
<1>2. CASE CreateWindow(w)
  <2>1. w \notin Alive(Now) /\ Becomes(CreateView(Now, w), None)  BY <1>0, <1>1, <1>2 DEF CreateWindow
  <2>2. Good(CreateView(Now, w)) /\ Creates(Now, CreateView(Now, w), w)  BY <2>1, <1>0, <1>1, CreateViewIs
  <2>3. ~CreateView(Now, w).view[w].visible  BY <2>2 DEF Creates
  <2>4. KeepsOrder(Now, CreateView(Now, w))  BY <2>1, <2>2, <2>3, <1>0, <1>1, CreateViewKeeps
  <2> QED  BY <2>1, <2>2, <2>4, BecomesPlain
<1>3. CASE DestroyWindow(w)
  <2>1. w \in Alive(Now) /\ Becomes(DestroyView(Now, w), None)  BY <1>0, <1>1, <1>3 DEF DestroyWindow
  <2>2. Good(DestroyView(Now, w)) /\ KeepsOrder(Now, DestroyView(Now, w))  BY <2>1, <1>1, DestroyViewIs
  <2> QED  BY <2>1, <2>2, BecomesPlain
<1>4. CASE ShowWindow(w)
  <2> DEFINE u == Show(Now, w)
  <2>1. w \in Alive(Now) /\ Becomes(u, IF view[w].visible THEN None ELSE w)
    BY <1>0, <1>1, <1>4 DEF ShowWindow
  <2> HIDE DEF u
  <2>2. /\ Good(u) /\ KeepsOrder(Now, u) /\ Alive(u) = Alive(Now)
        /\ ~Now.view[w].visible =>
             \A x \in Windows \ Below(u, w) : u.view[x].visible => Ahead(u.stack, w, x)
    BY <2>1, <1>1, ShowWindowKeeps DEF u
  <2>3. CASE view[w].visible
    <3>1. Becomes(u, None)  BY <2>1, <2>3
    <3> QED  BY <2>2, <3>1, BecomesPlain
  <2>4. CASE ~view[w].visible
    <3>1. Becomes(u, w)  BY <2>1, <2>4
    <3>2. ~Now.view[w].visible  BY <2>4, NowIs
    <3>3. Raised(u, w)  BY <2>1, <2>2, <3>2 DEF Raised
    <3>4. GoodWith(u, w)  BY <2>2, <3>3 DEF GoodWith
    <3> QED  BY <2>2, <3>1, <3>4, BecomesIs
  <2> QED  BY <2>3, <2>4
<1>5. CASE HideWindow(w)
  <2>1. Becomes(Hide(Now, w), None)  BY <1>5 DEF HideWindow
  <2>2. Good(Hide(Now, w)) /\ KeepsOrder(Now, Hide(Now, w))  BY <1>0, <1>1, HideKeeps
  <2> QED  BY <2>1, <2>2, BecomesPlain
<1>6. CASE PlaceTop(w)
  <2>1. w \in Alive(Now) /\ Becomes(RestackForLayer(Now, w, TRUE), None) /\ TRUE \in BOOLEAN
    BY <1>0, <1>1, <1>6 DEF PlaceTop
  <2>2. Good(RestackForLayer(Now, w, TRUE)) /\ KeepsOrder(Now, RestackForLayer(Now, w, TRUE))
    BY <2>1, <1>1, RestackForLayerKeeps
  <2> QED  BY <2>1, <2>2, BecomesPlain
<1>7. CASE PlaceBottom(w)
  <2>1. w \in Alive(Now) /\ Becomes(RestackForLayer(Now, w, FALSE), None) /\ FALSE \in BOOLEAN
    BY <1>0, <1>1, <1>7 DEF PlaceBottom
  <2>2. Good(RestackForLayer(Now, w, FALSE)) /\ KeepsOrder(Now, RestackForLayer(Now, w, FALSE))
    BY <2>1, <1>1, RestackForLayerKeeps
  <2> QED  BY <2>1, <2>2, BecomesPlain
<1>8. ASSUME NEW p \in Windows, SetParent(w, p) PROVE Kept
  <2>1. w \in Alive(Now) /\ p \in Alive(Now) /\ Becomes(SetWindowParent(Now, w, p), None)
    BY <1>0, <1>1, <1>8 DEF SetParent, Views
  <2>2. Good(SetWindowParent(Now, w, p)) /\ KeepsOrder(Now, SetWindowParent(Now, w, p))
    BY <2>1, <1>1, SetWindowParentIs
  <2> QED  BY <2>1, <2>2, BecomesPlain
<1>9. ASSUME NEW sibling \in Windows, NEW above \in BOOLEAN, Restack(w, sibling, above) PROVE Kept
  <2> DEFINE i == Position(Without(stack, w), sibling)
             u == MoveTo(Now, w, IF above THEN i ELSE i + 1)
  <2>1. w \in Alive(Now) /\ sibling \in Alive(Now) /\ sibling \in Windows \ {w} /\ Becomes(u, None)
    BY <1>0, <1>1, <1>9 DEF Restack, Views
  <2>2. Good(u) /\ KeepsOrder(Now, u)  BY <2>1, <1>1, RestackIs, NowIs
  <2> HIDE DEF u
  <2> QED  BY <2>1, <2>2, BecomesPlain
<1>10. ASSUME NEW forward \in BOOLEAN, StackWindow(w, forward) PROVE Kept
  <2> DEFINE others == {i \in DOMAIN stack : view[stack[i]].visible /\ IsWindow(stack[i])}
             here == Place(Now, w)
             past == IF forward THEN {i \in others : i < here} ELSE {i \in others : i > here}
             u == MoveTo(Now, w, IF forward THEN Max(past) ELSE Min(past))
  <2>1. view[w].visible /\ past # {} /\ Becomes(u, None)  BY <1>10 DEF StackWindow
  <2>2. Good(u) /\ KeepsOrder(Now, u)
    <3>1. Now.view[w].visible  BY <2>1, NowIs
    <3> QED  BY <2>1, <3>1, <1>1, StackWindowIs, NowIs
  <2> HIDE DEF u
  <2> QED  BY <2>1, <2>2, BecomesPlain
<1> QED  BY <1>2, <1>3, <1>4, <1>5, <1>6, <1>7, <1>8, <1>9, <1>10 DEF NextWindow

LEMMA PopupSteps ==
  ASSUME IInv, NEW v \in Popups, NextPopup(v)
  PROVE  Kept
<1>0. v \in Views  BY DEF Views
<1>1. Good(Now) /\ \A x \in Views : x \in Alive(Now) <=> view[x].alive  BY NowIsGood
<1>2. ASSUME NEW p \in Views, CreatePopup(v, p) PROVE Kept
  <2> DEFINE u == SetViewParent(CreateView(Now, v), v, p)
  <2>1. v \notin Alive(Now) /\ p \in Alive(Now) /\ Becomes(u, None)
    BY <1>0, <1>1, <1>2 DEF CreatePopup
  <2>2. Good(u) /\ KeepsOrder(Now, u)  BY <2>1, <1>1, NewPopupIs
  <2> HIDE DEF u
  <2> QED  BY <2>1, <2>2, BecomesPlain
<1>3. CASE DestroyPopup(v)
  <2>1. v \in Alive(Now) /\ Becomes(DestroyView(Now, v), None)  BY <1>0, <1>1, <1>3 DEF DestroyPopup
  <2>2. Good(DestroyView(Now, v)) /\ KeepsOrder(Now, DestroyView(Now, v))  BY <2>1, <1>1, DestroyViewIs
  <2> QED  BY <2>1, <2>2, BecomesPlain
<1> QED  BY <1>2, <1>3 DEF NextPopup

LEMMA BarSteps ==
  ASSUME IInv, NEW v \in Bars, NextBar(v)
  PROVE  Kept
<1>0. v \in Views /\ TRUE \in BOOLEAN /\ FALSE \in BOOLEAN  BY DEF Views
<1>1. Good(Now) /\ \A x \in Views : x \in Alive(Now) <=> view[x].alive  BY NowIsGood
<1>2. CASE CreateBar(v)
  <2> DEFINE u == Show(SetStackLayer(CreateView(Now, v), v, Top, TRUE), v)
  <2>1. v \notin Alive(Now) /\ Becomes(u, None)  BY <1>0, <1>1, <1>2 DEF CreateBar
  <2>2. Good(u) /\ KeepsOrder(Now, u)  BY <2>1, <1>1, NewBarIs
  <2> HIDE DEF u
  <2> QED  BY <2>1, <2>2, BecomesPlain
<1>3. CASE DestroyBar(v)
  <2>1. v \in Alive(Now) /\ Becomes(DestroyView(Now, v), None)  BY <1>0, <1>1, <1>3 DEF DestroyBar
  <2>2. Good(DestroyView(Now, v)) /\ KeepsOrder(Now, DestroyView(Now, v))  BY <2>1, <1>1, DestroyViewIs
  <2> QED  BY <2>1, <2>2, BecomesPlain
<1>4. CASE PlaceBarTop(v)
  <2>1. v \in Alive(Now) /\ Becomes(RestackForLayer(Now, v, TRUE), None)
    BY <1>0, <1>1, <1>4 DEF PlaceBarTop
  <2>2. Good(RestackForLayer(Now, v, TRUE)) /\ KeepsOrder(Now, RestackForLayer(Now, v, TRUE))
    BY <2>1, <1>0, <1>1, RestackForLayerKeeps
  <2> QED  BY <2>1, <2>2, BecomesPlain
<1>5. CASE PlaceBarBottom(v)
  <2>1. v \in Alive(Now) /\ Becomes(RestackForLayer(Now, v, FALSE), None)
    BY <1>0, <1>1, <1>5 DEF PlaceBarBottom
  <2>2. Good(RestackForLayer(Now, v, FALSE)) /\ KeepsOrder(Now, RestackForLayer(Now, v, FALSE))
    BY <2>1, <1>0, <1>1, RestackForLayerKeeps
  <2> QED  BY <2>1, <2>2, BecomesPlain
<1> QED  BY <1>2, <1>3, <1>4, <1>5 DEF NextBar

LEMMA LayerSurfaceSteps ==
  ASSUME IInv, NEW v \in LayerSurfaces, NextLayerSurface(v)
  PROVE  Kept
<1>0. v \in Views /\ v \in Views \ Popups  BY ViewAssumption DEF Views
<1>1. Good(Now) /\ \A x \in Views : x \in Alive(Now) <=> view[x].alive  BY NowIsGood
<1>2. ASSUME NEW layer \in Chosen, CreateLayerSurface(v, layer) PROVE Kept
  <2> DEFINE u == RestackLayer(CreateView(Now, v), v, layer)
  <2>1. v \notin Alive(Now) /\ Becomes(u, None)  BY <1>0, <1>1, <1>2 DEF CreateLayerSurface
  <2>2. Good(u) /\ KeepsOrder(Now, u)  BY <2>1, <1>1, NewLayerSurfaceIs
  <2> HIDE DEF u
  <2> QED  BY <2>1, <2>2, BecomesPlain
<1>3. ASSUME NEW layer \in Chosen, ChangeLayer(v, layer) PROVE Kept
  <2> DEFINE u == RestackLayer(Now, v, layer)
  <2>1. v \in Alive(Now) /\ Becomes(u, None)  BY <1>0, <1>1, <1>3 DEF ChangeLayer
  <2>2. layer \in Layers  BY ViewAssumption, Numbers
  <2>3. ListOf(Now.stack, Alive(Now)) /\ MovedOnly(Now.stack, Now.stack, v)
    BY <1>1, SameMovedOnly DEF Good, Sound
  <2>4. Layered(Now, Now, u, v)  BY <2>1, <2>2, <2>3, <1>1, RestackLayerKeeps
  <2> HIDE DEF u
  <2>5. Good(u) /\ KeepsOrder(Now, u)  BY <2>4 DEF Layered
  <2> QED  BY <2>1, <2>5, BecomesPlain
<1>4. CASE MapLayerSurface(v)
  <2> DEFINE u == Show(RestackLayer(Now, v, view[v].layer), v)
  <2>1. v \in Alive(Now) /\ Becomes(u, None)  BY <1>0, <1>1, <1>4 DEF MapLayerSurface
  <2>2. Good(u) /\ KeepsOrder(Now, u)  BY <2>1, <1>1, MapLayerSurfaceIs, NowIs
  <2> HIDE DEF u
  <2> QED  BY <2>1, <2>2, BecomesPlain
<1>5. CASE UnmapLayerSurface(v)
  <2>1. Becomes(Hide(Now, v), None)  BY <1>5 DEF UnmapLayerSurface
  <2>2. Good(Hide(Now, v)) /\ KeepsOrder(Now, Hide(Now, v))  BY <1>0, <1>1, HideKeeps
  <2> QED  BY <2>1, <2>2, BecomesPlain
<1>6. CASE DestroyLayerSurface(v)
  <2>1. v \in Alive(Now) /\ Becomes(DestroyView(Now, v), None)
    BY <1>0, <1>1, <1>6 DEF DestroyLayerSurface
  <2>2. Good(DestroyView(Now, v)) /\ KeepsOrder(Now, DestroyView(Now, v))  BY <2>1, <1>1, DestroyViewIs
  <2> QED  BY <2>1, <2>2, BecomesPlain
<1> QED  BY <1>2, <1>3, <1>4, <1>5, <1>6 DEF NextLayerSurface

LEMMA PanelSteps ==
  ASSUME IInv, NEW v \in Panels, NextPanel(v)
  PROVE  Kept
<1>0. v \in Views  BY DEF Views
<1>1. Good(Now) /\ \A x \in Views : x \in Alive(Now) <=> view[x].alive  BY NowIsGood
<1>2. CASE CreatePanel(v)
  <2> DEFINE u == [CreateView(Now, v) EXCEPT !.view[v].alwaysTop = TRUE]
  <2>1. v \notin Alive(Now) /\ Becomes(u, None)  BY <1>0, <1>1, <1>2 DEF CreatePanel
  <2>2. Good(u) /\ KeepsOrder(Now, u)  BY <2>1, <1>1, NewPanelIs
  <2> HIDE DEF u
  <2> QED  BY <2>1, <2>2, BecomesPlain
<1>3. CASE DockPanel(v)
  <2> DEFINE u == RestackForLayer([Show(Now, v) EXCEPT !.view[v].layer = Overlay], v, TRUE)
  <2>1. v \in Alive(Now) /\ Becomes(u, None)  BY <1>0, <1>1, <1>3 DEF DockPanel
  <2>2. Good(u) /\ KeepsOrder(Now, u)  BY <2>1, <1>1, DockPanelIs
  <2> HIDE DEF u
  <2> QED  BY <2>1, <2>2, BecomesPlain
<1>4. CASE DestroyPanel(v)
  <2>1. v \in Alive(Now) /\ Becomes(DestroyView(Now, v), None)  BY <1>0, <1>1, <1>4 DEF DestroyPanel
  <2>2. Good(DestroyView(Now, v)) /\ KeepsOrder(Now, DestroyView(Now, v))  BY <2>1, <1>1, DestroyViewIs
  <2> QED  BY <2>1, <2>2, BecomesPlain
<1> QED  BY <1>2, <1>3, <1>4 DEF NextPanel

LEMMA PressStep ==
  ASSUME IInv, NEW v \in Views, Press(v)
  PROVE  Kept
<1> DEFINE w == WindowOf(Now, v)
<1>1. Good(Now) /\ \A x \in Views : x \in Alive(Now) <=> view[x].alive  BY NowIsGood
<1>2. w \in Windows \cup {None}
  <2> DEFINE found == Windows \cap Reach({v}, Upward(Now))
  <2>1. w = IF found = {} THEN None ELSE CHOOSE y \in found : TRUE  BY DEF WindowOf
  <2> HIDE DEF found, w
  <2>2. found # {} => (CHOOSE y \in found : TRUE) \in found  OBVIOUS
  <2>3. found \subseteq Windows  BY DEF found
  <2> QED  BY <2>1, <2>2, <2>3
<1>3. IF w # None /\ view[w].visible THEN Becomes(RaiseWindow(Now, w), w) ELSE Becomes(Now, None)
  BY DEF Press
<1> HIDE DEF w
<1>4. CASE w # None /\ view[w].visible
  <2> DEFINE u == RaiseWindow(Now, w)
  <2>1. w \in Windows /\ w \in Views /\ Now.view[w].visible /\ Sound(Now)
    BY <1>1, <1>2, <1>4, NowIs DEF Views, Good
  <2>2. w \in Alive(Now)  BY <2>1, VisibleIsAlive
  <2>3. /\ Good(u) /\ KeepsOrder(Now, u) /\ Alive(u) = Alive(Now)
        /\ \A x \in Windows \ {w} : u.view[x].visible => Ahead(u.stack, w, x)
    BY <2>1, <2>2, <1>1, RaiseWindowKeeps
  <2> HIDE DEF u
  <2>4. w \in Below(u, w)  BY <2>1, BelowIs
  <2>5. GoodWith(u, w)  BY <2>1, <2>2, <2>3, <2>4 DEF GoodWith, Raised
  <2>6. Becomes(u, w)  BY <1>3, <1>4 DEF u
  <2> QED  BY <2>3, <2>5, <2>6, BecomesIs
<1>5. CASE ~(w # None /\ view[w].visible)
  <2>1. Becomes(Now, None)  BY <1>3, <1>5
  <2>2. KeepsOrder(Now, Now)  BY SameKeepsOrder
  <2> QED  BY <2>1, <2>2, <1>1, BecomesPlain
<1> QED  BY <1>4, <1>5

LEMMA NextIInv == ASSUME IInv, [Next]_vars PROVE Kept
<1>1. CASE Next
  <2>1. ASSUME NEW w \in Windows, NextWindow(w) PROVE Kept  BY <2>1, WindowSteps
  <2>2. ASSUME NEW v \in Popups, NextPopup(v) PROVE Kept  BY <2>2, PopupSteps
  <2>3. ASSUME NEW v \in Bars, NextBar(v) PROVE Kept  BY <2>3, BarSteps
  <2>4. ASSUME NEW v \in LayerSurfaces, NextLayerSurface(v) PROVE Kept  BY <2>4, LayerSurfaceSteps
  <2>5. ASSUME NEW v \in Panels, NextPanel(v) PROVE Kept  BY <2>5, PanelSteps
  <2>6. ASSUME NEW v \in Views, Press(v) PROVE Kept  BY <2>6, PressStep
  <2> QED  BY <1>1, <2>1, <2>2, <2>3, <2>4, <2>5, <2>6 DEF Next
<1>2. CASE UNCHANGED vars
  <2>1. Now' = Now /\ raised' = raised /\ stack' = stack  BY <1>2 DEF vars, Now
  <2>2. IInv'  BY <2>1 DEF IInv
  <2>3. KeepsOrder(Now, Now')  BY <2>1, SameKeepsOrder
  <2> QED  BY <2>2, <2>3 DEF Kept
<1> QED  BY <1>1, <1>2

LEMMA InitIInv == Init => IInv
<1> SUFFICES ASSUME Init PROVE IInv  OBVIOUS
<1>1. view = [v \in Views |-> NoView] /\ stack = <<>> /\ raised = None /\ overlooked = {}  BY DEF Init
<1>2. NoView \in ViewStates /\ ~NoView.alive /\ ~NoView.visible /\ ~NoView.alwaysTop /\ NoView.layer = Normal
      /\ NoView.parent = None
  <2>1. Normal \in Layers  BY Numbers
  <2> QED  BY <2>1 DEF NoView, ViewStates
<1>3. \A v \in Views : Now.view[v] = NoView  BY <1>1, NowIs
<1>4. Alive(Now) = {}  BY <1>2, <1>3 DEF Alive
<1>5. Now \in States
  <2>1. view \in [Views -> ViewStates] /\ stack \in Seq(Views) /\ overlooked \in SUBSET Popups
    BY <1>1, <1>2
  <2> QED  BY <2>1 DEF Now, States
<1>6. ListOf(Now.stack, {})
  <2>1. Now.stack = <<>>  BY <1>1, NowIs
  <2>2. Now.stack \in Seq(Views) /\ Len(Now.stack) = 0  BY <2>1
  <2>3. PICK list \in Seq(Views) : list = Now.stack  BY <2>2
  <2>4. 1 .. Len(list) = {}  BY <2>2, <2>3
  <2>5. ListOf(list, {})  BY <2>4, ListIs
  <2> QED  BY <2>3, <2>5
<1>7. Sound(Now)  BY <1>2, <1>3, <1>4, <1>5, <1>6 DEF Sound, SoundView
<1>8. TopIsAbove(Now)  BY <1>2, <1>3 DEF TopIsAbove
<1>9. Rooted(Now)  BY <1>2, <1>3, ViewAssumption DEF Rooted
<1>10. Together(Now, None)
  <2>1. \A x \in Popups : x \in Views  BY DEF Views
  <2>2. \A x \in Views : x \notin FollowsSeen(Now)  BY <1>2, <1>3, FollowsSeenIs, ViewAssumption
  <2> QED  BY <2>1, <2>2, <1>2, <1>3 DEF Together
<1> QED  BY <1>1, <1>7, <1>8, <1>9, <1>10 DEF IInv, GoodWith, Good, Raised

\* The list has each view that exists once, windows keep to their layer, what is always
\* on top is above them, only popups and windows have parents and none of these has been
\* destroyed, popups are seen with their parents or were overlooked, and the window that
\* was raised is in front.
THEOREM Invariance == Spec => []IInv
<1>1. IInv /\ [Next]_vars => IInv'  BY NextIInv DEF Kept
<1> QED  BY InitIInv, <1>1, PTL DEF Spec

-----------------------------------------------------------------------------
(* Positioners.                                                            *)

LEMMA PositionIsAnchored == AlwaysAnchored
<1> SUFFICES ASSUME NEW p \in Positioners(Sizes, Offsets) PROVE Anchored(p)
  BY DEF AlwaysAnchored
<1> DEFINE base == p.offset + p.anchorAt
           anchor == CASE p.anchor = 2 -> p.anchorSize [] p.anchor = 1 -> p.anchorSize \div 2 [] OTHER -> 0
           back == CASE p.gravity = 0 -> p.size [] p.gravity = 1 -> p.size \div 2 [] OTHER -> 0
<1>1. /\ p.size \in Nat /\ p.anchorSize \in Nat /\ p.anchorAt \in Int /\ p.offset \in Int
      /\ p.anchor \in 0 .. 2 /\ p.gravity \in 0 .. 2
  BY ViewAssumption DEF Positioners, Sides
<1>2. anchor \in Int /\ 2 * anchor - p.anchor * p.anchorSize \in -1 .. 0
  <2>1. CASE p.anchor = 0  BY <2>1, <1>1
  <2>2. CASE p.anchor = 1  BY <2>2, <1>1
  <2>3. CASE p.anchor = 2  BY <2>3, <1>1
  <2> QED  BY <2>1, <2>2, <2>3, <1>1
<1>3. back \in Int /\ (2 - p.gravity) * p.size - 2 * back \in 0 .. 1
  <2>1. CASE p.gravity = 0  BY <2>1, <1>1
  <2>2. CASE p.gravity = 1
    <3>1. (2 - p.gravity) * p.size = p.size /\ back = p.size \div 2  BY <2>2, <1>1
    <3> HIDE DEF back
    <3> QED  BY <3>1, <1>1
  <2>3. CASE p.gravity = 2  BY <2>3, <1>1
  <2> QED  BY <2>1, <2>2, <2>3, <1>1
<1>4. base \in Int /\ p.anchor * p.anchorSize \in Int /\ (2 - p.gravity) * p.size \in Int  BY <1>1
<1>5. CalculatePosition(p) = base + anchor - back  BY DEF CalculatePosition
<1> HIDE DEF base, anchor, back
<1>6. CalculatePosition(p) \in Int  BY <1>2, <1>3, <1>4, <1>5
<1>7. Anchored(p) <=>
        (2 * CalculatePosition(p) + (2 - p.gravity) * p.size) - (2 * base + p.anchor * p.anchorSize) \in -1 .. 1
  BY DEF Anchored, base
<1> QED  BY <1>2, <1>3, <1>4, <1>5, <1>6, <1>7

-----------------------------------------------------------------------------

\* A popup is seen only while its parent is, and for as long as that is unless the walk
\* that showed the parent passed it by; and it lies where it was asked for
\* (compositor_view_show(), compositor_view_hide() and calculate_position()).
THEOREM PopupsFollow == Spec => []PopupFollowsParent
<1>1. ASSUME IInv PROVE PopupFollowsParent
  <2> SUFFICES ASSUME NEW v \in Popups
               PROVE  /\ view[v].visible => v \in FollowsSeen(Now)
                      /\ v \in FollowsSeen(Now) /\ v \notin overlooked => view[v].visible
    BY PositionIsAnchored DEF PopupFollowsParent
  <2>1. v \in Popups \ {None}  BY ViewAssumption DEF Views
  <2>2. Together(Now, None)  BY <1>1 DEF IInv, GoodWith, Good
  <2> QED  BY <2>1, <2>2, NowIs DEF Together
<1> QED  BY <1>1, Invariance, PTL

\* The list has every view once; and the window that was shown or pressed on is in front
\* of every other visible window but those that follow it (raise_window()).
THEOREM RaisedInFront == Spec => []RaisedIsInFront
<1>1. ASSUME IInv PROVE RaisedIsInFront
  <2>1. /\ Now \in States /\ ListOf(Now.stack, Alive(Now)) /\ \A v \in Views : SoundView(Now, v)
        /\ raised \in Windows \cup {None} /\ Raised(Now, raised)
    BY <1>1 DEF IInv, GoodWith, Good, Sound
  <2>2. Alive(Now) = {v \in Views : view[v].alive}  BY NowIs DEF Alive
  <2>3. TypeOK
    <3>1. view \in [Views -> ViewStates] /\ overlooked \in SUBSET Popups  BY <2>1, NowIs DEF States
    <3>2. stack \in Seq(Views) /\ ToSet(stack) = {v \in Views : view[v].alive} /\ IsInjective(stack)
      BY <2>1, <2>2, NowIs DEF ListOf
    <3>3. \A v \in Views : ~view[v].alive => view[v] = NoView  BY <2>1, NowIs DEF SoundView
    <3> QED  BY <2>1, <3>1, <3>2, <3>3 DEF TypeOK, ViewStates
  <2>4. ASSUME raised # None, NEW w \in Windows \ Followers(raised), view[w].visible
        PROVE  Place(Now, raised) < Place(Now, w)
    <3>1. Followers(raised) = Below(Now, raised)  BY NowIs DEF Followers, Below, Under
    <3>2. Ahead(Now.stack, raised, w)  BY <2>1, <2>4, <3>1, NowIs DEF Raised
    <3>3. raised \in Alive(Now) /\ w \in Alive(Now)  BY <3>2, <2>1, AheadIsStrict
    <3> QED  BY <3>2, <3>3, <2>1, PositionsTell DEF Place
  <2> QED  BY <2>3, <2>4 DEF RaisedIsInFront
<1> QED  BY <1>1, Invariance, PTL

\* Moving a view keeps the layers of what is seen in order, but for the flaw of
\* FallsBehind (restack_view_for_layer(), raise_window(), compositor_view_restack() and
\* swc_window_stack()).
THEOREM LayersStayInOrder == Spec => OrderIsKept
<1> DEFINE OrderStep == stack' # stack /\ Moved # {}
                    /\ (\A v \in Moved : InOrder(Now, Views \ {v}) /\ ~FallsBehind(v))
                    => InOrder(Now', Shown(Now'))
<1>1. ASSUME IInv, [Next]_vars PROVE OrderStep
  <2>1. KeepsOrder(Now, Now')  BY <1>1, NextIInv DEF Kept
  <2>2. Moved = MovedBy(Now, Now')  BY NowIs DEF Moved, MovedBy, OthersAsSeen
  <2>3. \A v : FallsBehind(v) <=> FallsBehindAll(Now, Now', v)  BY NowIs DEF FallsBehind, FallsBehindAll
  <2> QED  BY <2>1, <2>2, <2>3, NowIs DEF KeepsOrder
<1> QED  BY <1>1, Invariance, PTL DEF Spec, OrderIsKept
=============================================================================
