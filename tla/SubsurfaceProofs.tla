--------------------------- MODULE SubsurfaceProofs ---------------------------
(***************************************************************************)
(* Proofs about Subsurfaces, for any finite set of surfaces, any windows   *)
(* among them and any tree of parents: what is seen, what a commit applies *)
(* and to whom, and the order in which it leaves the views.                *)
(*                                                                         *)
(* Each function of the model takes a state record to a state record, and  *)
(* so do the lemmas: first what the lists, the links and the walks of the  *)
(* views are, then that each function keeps a state Good (the lists agree  *)
(* with the links, the stack has each view once, and what is seen is seen  *)
(* with its parent) and what it leaves alone; then every request, as a     *)
(* step that applies nothing (Quietly) or one that applies the commits of  *)
(* one surface and of what hangs from it (Applies).                        *)
(***************************************************************************)
EXTENDS Subsurfaces, SequenceTheorems, FiniteSetTheorems, WellFoundedInduction, TLAPS

\* Induction over the naturals, as a minimal counterexample.
LEMMA NatMin == ASSUME NEW T \in SUBSET Nat, T # {} PROVE \E x \in T : \A y \in T : x <= y
<1>1. PICK x \in T : \A y \in T : <<y, x>> \notin OpToRel(<, Nat)
  BY WFMin, NatLessThanWellFounded
<1>2. ASSUME NEW y \in T, ~(x <= y) PROVE FALSE
  <2>1. x \in Nat /\ y \in Nat  OBVIOUS
  <2>2. y < x  BY <2>1, <1>2
  <2>3. <<y, x>> \in OpToRel(<, Nat)
    BY <2>1, <2>2 DEF OpToRel
  <2> QED  BY <1>1, <2>3
<1> QED BY <1>1, <1>2

-----------------------------------------------------------------------------
(* Lists.                                                                  *)

\* x comes before y.
Ahead(list, x, y) ==
    \E i, j \in 1 .. Len(list) : i < j /\ list[i] = x /\ list[j] = y

LEMMA RemovedAt ==
  ASSUME NEW S, NEW list \in Seq(S), NEW i \in 1 .. Len(list)
  PROVE  /\ RemoveAt(list, i) \in Seq(S)
         /\ Len(RemoveAt(list, i)) = Len(list) - 1
         /\ \A j \in 1 .. Len(list) - 1 :
              RemoveAt(list, i)[j] = IF j < i THEN list[j] ELSE list[j + 1]
<1>1. Len(list) \in Nat /\ \A j \in 1 .. Len(list) : list[j] \in S
  BY LenProperties, ElementOfSeq
<1> DEFINE front == SubSeq(list, 1, i - 1)
           back == SubSeq(list, i + 1, Len(list))
<1>2. /\ front \in Seq(S) /\ Len(front) = i - 1
      /\ \A j \in 1 .. i - 1 : front[j] = list[j]
  <2>1. \A j \in 1 .. i - 1 : list[j] \in S  BY <1>1
  <2> QED  BY <1>1, <2>1, SubSeqProperties
<1>3. /\ back \in Seq(S) /\ Len(back) = Len(list) - i
      /\ \A j \in 1 .. Len(list) - i : back[j] = list[j + i]
  <2>1. \A j \in i + 1 .. Len(list) : list[j] \in S  BY <1>1
  <2> QED  BY <1>1, <2>1, SubSeqProperties
<1>4. RemoveAt(list, i) = front \o back  BY DEF RemoveAt
<1> HIDE DEF front, back
<1>5. front \in Seq(S) /\ back \in Seq(S)  BY <1>2, <1>3
<1>6. /\ front \o back \in Seq(S)
      /\ Len(front \o back) = Len(list) - 1
      /\ \A j \in 1 .. Len(list) - 1 :
           (front \o back)[j] = IF j <= i - 1 THEN front[j] ELSE back[j - (i - 1)]
  BY <1>1, <1>2, <1>3, <1>5, ConcatProperties
<1> QED  BY <1>1, <1>2, <1>3, <1>4, <1>6

LEMMA InsertedAt ==
  ASSUME NEW S, NEW list \in Seq(S), NEW i \in 1 .. Len(list) + 1, NEW e \in S
  PROVE  /\ InsertAt(list, i, e) \in Seq(S)
         /\ Len(InsertAt(list, i, e)) = Len(list) + 1
         /\ \A j \in 1 .. Len(list) + 1 :
              InsertAt(list, i, e)[j] = IF j < i THEN list[j] ELSE IF j = i THEN e ELSE list[j - 1]
<1>1. Len(list) \in Nat /\ \A j \in 1 .. Len(list) : list[j] \in S
  BY LenProperties, ElementOfSeq
<1> DEFINE front == SubSeq(list, 1, i - 1)
           one == <<e>>
           back == SubSeq(list, i, Len(list))
<1>2. /\ front \in Seq(S) /\ Len(front) = i - 1
      /\ \A j \in 1 .. i - 1 : front[j] = list[j]
  <2>1. \A j \in 1 .. i - 1 : list[j] \in S  BY <1>1
  <2> QED  BY <1>1, <2>1, SubSeqProperties
<1>3. /\ back \in Seq(S) /\ Len(back) = Len(list) - i + 1
      /\ \A j \in 1 .. Len(list) - i + 1 : back[j] = list[j + i - 1]
  <2>1. \A j \in i .. Len(list) : list[j] \in S  BY <1>1
  <2> QED  BY <1>1, <2>1, SubSeqProperties
<1>4. one \in Seq(S) /\ Len(one) = 1 /\ one[1] = e  OBVIOUS
<1>5. InsertAt(list, i, e) = front \o one \o back  BY DEF InsertAt
<1> HIDE DEF front, back, one
<1>6. front \in Seq(S) /\ back \in Seq(S) /\ one \in Seq(S)  BY <1>2, <1>3, <1>4
<1>7. /\ front \o one \in Seq(S)
      /\ Len(front \o one) = i
      /\ \A j \in 1 .. i : (front \o one)[j] = IF j <= i - 1 THEN front[j] ELSE one[j - (i - 1)]
  <2>1. /\ front \o one \in Seq(S)
        /\ Len(front \o one) = Len(front) + Len(one)
        /\ \A j \in 1 .. Len(front) + Len(one) :
             (front \o one)[j] = IF j <= Len(front) THEN front[j] ELSE one[j - Len(front)]
    BY <1>6, ConcatProperties
  <2>2. i \in Nat /\ Len(front) = i - 1 /\ Len(one) = 1  BY <1>1, <1>2, <1>4
  <2> QED  BY <2>1, <2>2
<1>8. front \o one \in Seq(S)  BY <1>7
<1>9. /\ (front \o one) \o back \in Seq(S)
      /\ Len((front \o one) \o back) = Len(list) + 1
      /\ \A j \in 1 .. Len(list) + 1 :
           ((front \o one) \o back)[j] = IF j <= i THEN (front \o one)[j] ELSE back[j - i]
  BY <1>1, <1>7, <1>8, <1>3, <1>6, ConcatProperties
<1> QED  BY <1>1, <1>2, <1>3, <1>4, <1>5, <1>7, <1>9

\* The list has each of these once and nothing else.
ListOf(list, set) ==
    /\ list \in Seq(Surfaces)
    /\ ToSet(list) = set
    /\ IsInjective(list)

\* ListOf without the operators of the library.
LEMMA ListIs ==
  ASSUME NEW list \in Seq(Surfaces), NEW set
  PROVE  ListOf(list, set) <=>
         /\ \A i \in 1 .. Len(list) : list[i] \in set
         /\ \A x \in set : \E i \in 1 .. Len(list) : list[i] = x
         /\ \A i, j \in 1 .. Len(list) : list[i] = list[j] => i = j
<1>1. DOMAIN list = 1 .. Len(list)  BY LenProperties
<1>2. IsInjective(list) <=> \A i, j \in 1 .. Len(list) : list[i] = list[j] => i = j
  BY <1>1 DEF IsInjective
<1>3. ToSet(list) = {list[i] : i \in 1 .. Len(list)}  BY <1>1 DEF ToSet
<1> QED  BY <1>2, <1>3 DEF ListOf

LEMMA PositionIs ==
  ASSUME NEW list, NEW set, ListOf(list, set), NEW x \in set
  PROVE  Position(list, x) \in 1 .. Len(list) /\ list[Position(list, x)] = x
<1>1. list \in Seq(Surfaces)  BY DEF ListOf
<1>2. DOMAIN list = 1 .. Len(list)  BY <1>1, LenProperties
<1>3. \E i \in 1 .. Len(list) : list[i] = x  BY <1>1, ListIs
<1> QED  BY <1>2, <1>3 DEF Position

\* Taking a link from a list leaves the others as they lie.
LEMMA WithoutIs ==
  ASSUME NEW list, NEW set, ListOf(list, set), NEW s
  PROVE  /\ ListOf(Without(list, s), set \ {s})
         /\ \A x, y : Ahead(Without(list, s), x, y) <=> Ahead(list, x, y) /\ x # s /\ y # s
<1>1. list \in Seq(Surfaces) /\ Len(list) \in Nat  BY LenProperties DEF ListOf
<1>2. /\ \A i \in 1 .. Len(list) : list[i] \in set
      /\ \A x \in set : \E i \in 1 .. Len(list) : list[i] = x
      /\ \A i, j \in 1 .. Len(list) : list[i] = list[j] => i = j
  BY <1>1, ListIs
<1>3. CASE ~Contains(list, s)
  <2>1. Without(list, s) = list  BY <1>3 DEF Without
  <2>2. \A i \in 1 .. Len(list) : list[i] # s  BY <1>3 DEF Contains
  <2>3. set \ {s} = set  BY <1>2, <2>2
  <2> QED  BY <2>1, <2>2, <2>3 DEF Ahead
<1>4. CASE Contains(list, s)
  <2> DEFINE k == Position(list, s)
             r == RemoveAt(list, k)
  <2>1. s \in set  BY <1>4, <1>2 DEF Contains
  <2>2. k \in 1 .. Len(list) /\ list[k] = s  BY <2>1, PositionIs
  <2>3. Without(list, s) = r  BY <1>4 DEF Without
  <2> HIDE DEF k
  <2>4. /\ r \in Seq(Surfaces) /\ Len(r) = Len(list) - 1
        /\ \A j \in 1 .. Len(list) - 1 : r[j] = IF j < k THEN list[j] ELSE list[j + 1]
    BY <1>1, <2>2, RemovedAt
  <2> HIDE DEF r
  <2>5. r \in Seq(Surfaces)  BY <2>4
  <2>6. \A j \in 1 .. Len(r) : r[j] \in set \ {s}
    BY <1>1, <1>2, <2>2, <2>4
  <2>7. ASSUME NEW x \in set \ {s} PROVE \E j \in 1 .. Len(r) : r[j] = x
    <3>1. PICK i \in 1 .. Len(list) : list[i] = x  BY <1>2
    <3>2. i # k  BY <3>1, <2>2
    <3>3. CASE i < k
      BY <1>1, <2>2, <2>4, <3>1, <3>3
    <3>4. CASE i > k
      <4>1. i - 1 \in 1 .. Len(r) /\ r[i - 1] = list[i]  BY <1>1, <2>2, <2>4, <3>4
      <4> QED  BY <4>1, <3>1
    <3> QED  BY <3>2, <3>3, <3>4, <2>2
  <2>8. ASSUME NEW i \in 1 .. Len(r), NEW j \in 1 .. Len(r), r[i] = r[j] PROVE i = j
    <3> DEFINE m == IF i < k THEN i ELSE i + 1
               n == IF j < k THEN j ELSE j + 1
    <3>1. /\ m \in 1 .. Len(list) /\ r[i] = list[m]
          /\ n \in 1 .. Len(list) /\ r[j] = list[n]
      BY <1>1, <2>2, <2>4
    <3>2. m = n  BY <3>1, <2>8, <1>2
    <3> QED  BY <3>2, <1>1, <2>2, <2>4
  <2>9. ListOf(r, set \ {s})  BY <2>5, <2>6, <2>7, <2>8, ListIs
  <2>10. ASSUME NEW x, NEW y, Ahead(r, x, y) PROVE Ahead(list, x, y) /\ x # s /\ y # s
    <3>1. PICK i, j \in 1 .. Len(r) : i < j /\ r[i] = x /\ r[j] = y  BY <2>10 DEF Ahead
    <3>2. x # s /\ y # s  BY <3>1, <2>6
    <3> DEFINE m == IF i < k THEN i ELSE i + 1
               n == IF j < k THEN j ELSE j + 1
    <3>3. m \in 1 .. Len(list) /\ n \in 1 .. Len(list) /\ m < n /\ list[m] = x /\ list[n] = y
      BY <1>1, <2>2, <2>4, <3>1
    <3> QED  BY <3>2, <3>3 DEF Ahead
  <2>11. ASSUME NEW x, NEW y, Ahead(list, x, y), x # s, y # s PROVE Ahead(r, x, y)
    <3>1. PICK i, j \in 1 .. Len(list) : i < j /\ list[i] = x /\ list[j] = y  BY <2>11 DEF Ahead
    <3>2. i # k /\ j # k  BY <2>11, <3>1, <2>2
    <3> DEFINE m == IF i < k THEN i ELSE i - 1
               n == IF j < k THEN j ELSE j - 1
    <3>3. m \in 1 .. Len(r) /\ n \in 1 .. Len(r) /\ m < n /\ r[m] = x /\ r[n] = y
      BY <1>1, <2>2, <2>4, <3>1, <3>2
    <3> QED  BY <3>3 DEF Ahead
  <2> QED  BY <2>3, <2>9, <2>10, <2>11
<1> QED  BY <1>3, <1>4

\* Putting a new link on a list, at the i-th place, likewise.
LEMMA InsertIs ==
  ASSUME NEW list, NEW set, ListOf(list, set), NEW s \in Surfaces, s \notin set,
         NEW i \in 1 .. Len(list) + 1
  PROVE  /\ ListOf(InsertAt(list, i, s), set \cup {s})
         /\ \A x, y : x # s /\ y # s => (Ahead(InsertAt(list, i, s), x, y) <=> Ahead(list, x, y))
         /\ \A j \in 1 .. Len(list) : IF j < i THEN Ahead(InsertAt(list, i, s), list[j], s)
                                      ELSE Ahead(InsertAt(list, i, s), s, list[j])
<1>1. list \in Seq(Surfaces) /\ Len(list) \in Nat  BY LenProperties DEF ListOf
<1>2. /\ \A k \in 1 .. Len(list) : list[k] \in set
      /\ \A x \in set : \E k \in 1 .. Len(list) : list[k] = x
      /\ \A k, l \in 1 .. Len(list) : list[k] = list[l] => k = l
  BY <1>1, ListIs
<1> DEFINE r == InsertAt(list, i, s)
<1>3. /\ r \in Seq(Surfaces) /\ Len(r) = Len(list) + 1
      /\ \A j \in 1 .. Len(list) + 1 :
           r[j] = IF j < i THEN list[j] ELSE IF j = i THEN s ELSE list[j - 1]
  <2>1. list \in Seq(Surfaces)  BY <1>1
  <2>2. /\ InsertAt(list, i, s) \in Seq(Surfaces)
        /\ Len(InsertAt(list, i, s)) = Len(list) + 1
        /\ \A j \in 1 .. Len(list) + 1 :
             InsertAt(list, i, s)[j] = IF j < i THEN list[j] ELSE IF j = i THEN s ELSE list[j - 1]
    <3> HIDE DEF r
    <3> QED  BY ONLY <2>1, s \in Surfaces, i \in 1 .. Len(list) + 1, InsertedAt
  <2> QED  BY <2>2
<1> HIDE DEF r
<1>4. r \in Seq(Surfaces)  BY <1>3
<1>5. ASSUME NEW j \in 1 .. Len(r) PROVE r[j] \in set \cup {s}
  <2>1. CASE j < i  BY <2>1, <1>1, <1>2, <1>3
  <2>2. CASE j = i  BY <2>2, <1>1, <1>3
  <2>3. CASE j > i
    <3>1. j - 1 \in 1 .. Len(list) /\ r[j] = list[j - 1]  BY <2>3, <1>1, <1>3
    <3> QED  BY <3>1, <1>2
  <2> QED  BY <2>1, <2>2, <2>3, <1>1, <1>3
<1>6. \A j \in 1 .. Len(list) :
        LET k == IF j < i THEN j ELSE j + 1 IN k \in 1 .. Len(r) /\ r[k] = list[j]
  BY <1>1, <1>3
<1>7. i \in 1 .. Len(r) /\ r[i] = s  BY <1>1, <1>3
<1>8. ASSUME NEW x \in set \cup {s} PROVE \E j \in 1 .. Len(r) : r[j] = x
  <2>1. CASE x = s  BY <2>1, <1>7
  <2>2. CASE x # s
    <3>1. PICK j \in 1 .. Len(list) : list[j] = x  BY <1>2, <2>2
    <3> QED  BY <3>1, <1>6
  <2> QED  BY <2>1, <2>2
<1>9. ASSUME NEW j \in 1 .. Len(r), NEW k \in 1 .. Len(r), r[j] = r[k] PROVE j = k
  <2> DEFINE m == IF j < i THEN j ELSE j - 1
             n == IF k < i THEN k ELSE k - 1
  <2>1. j # i => m \in 1 .. Len(list) /\ r[j] = list[m]  BY <1>1, <1>3
  <2>2. k # i => n \in 1 .. Len(list) /\ r[k] = list[n]  BY <1>1, <1>3
  <2>3. CASE j # i /\ k # i
    <3>1. m = n  BY <2>1, <2>2, <2>3, <1>9, <1>2
    <3> QED  BY <3>1, <2>3, <1>1, <1>3
  <2>4. CASE j = i /\ k # i  BY <2>2, <2>4, <1>2, <1>7, <1>9
  <2>5. CASE j # i /\ k = i  BY <2>1, <2>5, <1>2, <1>7, <1>9
  <2> QED  BY <2>3, <2>4, <2>5
<1>10. ListOf(r, set \cup {s})  BY <1>4, <1>5, <1>8, <1>9, ListIs
<1>11. ASSUME NEW x, NEW y, x # s, y # s, Ahead(r, x, y) PROVE Ahead(list, x, y)
  <2>1. PICK j, k \in 1 .. Len(r) : j < k /\ r[j] = x /\ r[k] = y  BY <1>11 DEF Ahead
  <2>2. j # i /\ k # i  BY <1>7, <1>11, <2>1
  <2> DEFINE m == IF j < i THEN j ELSE j - 1
             n == IF k < i THEN k ELSE k - 1
  <2>3. m \in 1 .. Len(list) /\ n \in 1 .. Len(list) /\ m < n /\ list[m] = x /\ list[n] = y
    BY <1>1, <1>3, <2>1, <2>2
  <2> QED  BY <2>3 DEF Ahead
<1>12. ASSUME NEW x, NEW y, Ahead(list, x, y) PROVE Ahead(r, x, y)
  <2>1. PICK j, k \in 1 .. Len(list) : j < k /\ list[j] = x /\ list[k] = y  BY <1>12 DEF Ahead
  <2> DEFINE m == IF j < i THEN j ELSE j + 1
             n == IF k < i THEN k ELSE k + 1
  <2>2. m \in 1 .. Len(r) /\ n \in 1 .. Len(r) /\ m < n  BY <1>1, <1>3, <2>1
  <2>3. r[m] = x /\ r[n] = y  BY <1>6, <2>1
  <2> QED  BY <2>2, <2>3 DEF Ahead
<1>13. ASSUME NEW j \in 1 .. Len(list)
       PROVE  IF j < i THEN Ahead(r, list[j], s) ELSE Ahead(r, s, list[j])
  <2> DEFINE m == IF j < i THEN j ELSE j + 1
  <2>1. m \in 1 .. Len(r) /\ r[m] = list[j]  BY <1>6
  <2>2. IF j < i THEN m < i ELSE i < m  BY <1>1
  <2> QED  BY <1>7, <2>1, <2>2 DEF Ahead
<1> QED  BY <1>10, <1>11, <1>12, <1>13 DEF r

\* In one list, whatever is before something before y is before y.
LEMMA AheadIsTransitive ==
  ASSUME NEW list, NEW set, ListOf(list, set), NEW x, NEW y, NEW z,
         Ahead(list, x, y), Ahead(list, y, z)
  PROVE  Ahead(list, x, z)
<1>1. list \in Seq(Surfaces) /\ Len(list) \in Nat  BY LenProperties DEF ListOf
<1>2. \A i, j \in 1 .. Len(list) : list[i] = list[j] => i = j  BY <1>1, ListIs
<1>3. PICK i, j \in 1 .. Len(list) : i < j /\ list[i] = x /\ list[j] = y  BY DEF Ahead
<1>4. PICK k, l \in 1 .. Len(list) : k < l /\ list[k] = y /\ list[l] = z  BY DEF Ahead
<1>5. j = k  BY <1>2, <1>3, <1>4
<1>6. i < l  BY <1>1, <1>3, <1>4, <1>5
<1> QED  BY <1>3, <1>4, <1>6 DEF Ahead

\* x is farther than y from the front of the list, or, if front, nearer to it.
Outside(front, list, x, y) == IF front THEN Ahead(list, x, y) ELSE Ahead(list, y, x)

PutBeside(front, list, s, x) == IF front THEN PutBefore(list, s, x) ELSE PutAfter(list, s, x)

LEMMA PutIs ==
  ASSUME NEW list, NEW set, ListOf(list, set), NEW front \in BOOLEAN,
         NEW s \in Surfaces, NEW x \in set, x # s
  PROVE  /\ ListOf(PutBeside(front, list, s, x), set \cup {s})
         /\ \A y, z : y # s /\ z # s
              => (Ahead(PutBeside(front, list, s, x), y, z) <=> Ahead(list, y, z))
         /\ Outside(front, PutBeside(front, list, s, x), s, x)
         /\ \A y : y # s /\ Outside(front, list, x, y)
              => Outside(front, PutBeside(front, list, s, x), s, y)
<1> DEFINE rest == Without(list, s)
           at == Position(rest, x)
           i == IF front THEN at ELSE at + 1
           r == InsertAt(rest, i, s)
<1>1. /\ ListOf(rest, set \ {s})
      /\ \A y, z : Ahead(rest, y, z) <=> Ahead(list, y, z) /\ y # s /\ z # s
  BY WithoutIs
<1>2. PutBeside(front, list, s, x) = r  BY DEF PutBeside, PutBefore, PutAfter
<1> HIDE DEF rest
<1>3. at \in 1 .. Len(rest) /\ rest[at] = x  BY <1>1, PositionIs
<1> HIDE DEF at
<1>4. rest \in Seq(Surfaces) /\ Len(rest) \in Nat  BY <1>1, LenProperties DEF ListOf
<1>5. i \in 1 .. Len(rest) + 1  BY <1>3, <1>4
<1>6. IF front THEN i = at ELSE i = at + 1  OBVIOUS
<1> HIDE DEF i
<1>7. ListOf(rest, set \ {s}) /\ s \notin set \ {s}  BY <1>1
<1>8. /\ ListOf(r, (set \ {s}) \cup {s})
      /\ \A y, z : y # s /\ z # s => (Ahead(r, y, z) <=> Ahead(rest, y, z))
      /\ \A j \in 1 .. Len(rest) : IF j < i THEN Ahead(r, rest[j], s) ELSE Ahead(r, s, rest[j])
  BY <1>5, <1>7, InsertIs
<1> HIDE DEF r
<1>9. ListOf(r, set \cup {s})
  <2>1. (set \ {s}) \cup {s} = set \cup {s}  OBVIOUS
  <2> QED  BY <2>1, <1>8
<1>10. \A y, z : y # s /\ z # s => (Ahead(r, y, z) <=> Ahead(list, y, z))  BY <1>1, <1>8
<1>11. Outside(front, r, s, x)
  <2>1. front => ~(at < i)  BY <1>3, <1>4, <1>6
  <2>2. ~front => at < i  BY <1>3, <1>4, <1>6
  <2> QED  BY <1>3, <1>8, <2>1, <2>2 DEF Outside
<1>12. ASSUME NEW y, y # s, Outside(front, list, x, y) PROVE Outside(front, r, s, y)
  <2>1. Outside(front, r, x, y)  BY <1>10, <1>12 DEF Outside
  <2>2. CASE front
    <3>1. Ahead(r, s, x) /\ Ahead(r, x, y)  BY <1>11, <2>1, <2>2 DEF Outside
    <3>2. Ahead(r, s, y)  BY <3>1, <1>9, AheadIsTransitive
    <3> QED  BY <3>2, <2>2 DEF Outside
  <2>3. CASE ~front
    <3>1. Ahead(r, y, x) /\ Ahead(r, x, s)  BY <1>11, <2>1, <2>3 DEF Outside
    <3>2. Ahead(r, y, s)  BY <3>1, <1>9, AheadIsTransitive
    <3> QED  BY <3>2, <2>3 DEF Outside
  <2> QED  BY <2>2, <2>3
<1> QED  BY <1>2, <1>9, <1>10, <1>11, <1>12

\* Two lists of different things, joined.
LEMMA JoinIs ==
  ASSUME NEW a, NEW A, NEW b, NEW B, ListOf(a, A), ListOf(b, B), A \cap B = {}
  PROVE  /\ ListOf(a \o b, A \cup B)
         /\ \A x \in A, y \in B : Ahead(a \o b, x, y)
<1>1. a \in Seq(Surfaces) /\ Len(a) \in Nat  BY LenProperties DEF ListOf
<1>2. b \in Seq(Surfaces) /\ Len(b) \in Nat  BY LenProperties DEF ListOf
<1>3. a \in Seq(Surfaces) /\ b \in Seq(Surfaces)  BY <1>1, <1>2
<1>4. /\ a \o b \in Seq(Surfaces)
      /\ Len(a \o b) = Len(a) + Len(b)
      /\ \A i \in 1 .. Len(a) + Len(b) : (a \o b)[i] = IF i <= Len(a) THEN a[i] ELSE b[i - Len(a)]
  BY <1>3, ConcatProperties
<1>5. /\ \A i \in 1 .. Len(a) : a[i] \in A
      /\ \A x \in A : \E i \in 1 .. Len(a) : a[i] = x
      /\ \A i, j \in 1 .. Len(a) : a[i] = a[j] => i = j
  BY <1>1, ListIs
<1>6. /\ \A i \in 1 .. Len(b) : b[i] \in B
      /\ \A x \in B : \E i \in 1 .. Len(b) : b[i] = x
      /\ \A i, j \in 1 .. Len(b) : b[i] = b[j] => i = j
  BY <1>2, ListIs
<1> DEFINE r == a \o b
<1>7. /\ r \in Seq(Surfaces) /\ Len(r) = Len(a) + Len(b)
      /\ \A i \in 1 .. Len(a) : i \in 1 .. Len(r) /\ r[i] = a[i]
      /\ \A i \in 1 .. Len(b) : i + Len(a) \in 1 .. Len(r) /\ r[i + Len(a)] = b[i]
      /\ \A i \in 1 .. Len(r) : i \in 1 .. Len(a) \/ (i - Len(a) \in 1 .. Len(b) /\ r[i] = b[i - Len(a)])
  <2> PICK m : m = Len(a)  OBVIOUS
  <2> PICK n : n = Len(b)  OBVIOUS
  <2>1. m \in Nat /\ n \in Nat  BY <1>1, <1>2
  <2>2. /\ Len(r) = m + n
        /\ \A i \in 1 .. m + n : r[i] = IF i <= m THEN a[i] ELSE b[i - m]
    BY <1>4
  <2>3. \A i \in 1 .. m : i \in 1 .. Len(r) /\ r[i] = a[i]  BY <2>1, <2>2
  <2>4. ASSUME NEW i \in 1 .. n PROVE i + m \in 1 .. Len(r) /\ r[i + m] = b[i]
    <3>1. i + m \in 1 .. m + n /\ ~(i + m <= m) /\ (i + m) - m = i  BY <2>1
    <3> QED  BY <3>1, <2>2
  <2>5. ASSUME NEW i \in 1 .. Len(r), i \notin 1 .. m PROVE i - m \in 1 .. n /\ r[i] = b[i - m]
    <3>1. i - m \in 1 .. n /\ ~(i <= m)  BY <2>1, <2>2, <2>5
    <3> QED  BY <3>1, <2>2
  <2> QED  BY <1>4, <2>2, <2>3, <2>4, <2>5
<1> HIDE DEF r
<1>8. r \in Seq(Surfaces)  BY <1>7
<1>9. \A i \in 1 .. Len(r) : r[i] \in A \cup B  BY <1>5, <1>6, <1>7
<1>10. \A x \in A \cup B : \E i \in 1 .. Len(r) : r[i] = x  BY <1>5, <1>6, <1>7, SMTT(30)
<1>11. ASSUME NEW i \in 1 .. Len(r), NEW j \in 1 .. Len(r), r[i] = r[j] PROVE i = j
  <2>1. CASE i \in 1 .. Len(a) /\ j \in 1 .. Len(a)  BY <2>1, <1>5, <1>7, <1>11
  <2>2. CASE i \notin 1 .. Len(a) /\ j \notin 1 .. Len(a)
    <3> DEFINE m == i - Len(a)
               n == j - Len(a)
    <3>1. m \in 1 .. Len(b) /\ n \in 1 .. Len(b) /\ b[m] = b[n]  BY <2>2, <1>7, <1>11
    <3> HIDE DEF m, n
    <3>2. m = n  BY <3>1, <1>6
    <3>3. i - Len(a) = j - Len(a)  BY <3>2 DEF m, n
    <3> QED  BY <3>3, <1>1, <1>2, <1>7
  <2>3. CASE i \in 1 .. Len(a) /\ j \notin 1 .. Len(a)
    <3>1. r[i] \in A /\ r[j] \in B  BY <2>3, <1>5, <1>6, <1>7, ZenonT(30)
    <3> QED  BY <3>1, <1>11
  <2>4. CASE i \notin 1 .. Len(a) /\ j \in 1 .. Len(a)
    <3>1. r[i] \in B /\ r[j] \in A  BY <2>4, <1>5, <1>6, <1>7
    <3> QED  BY <3>1, <1>11
  <2> QED  BY <2>1, <2>2, <2>3, <2>4
<1>12. ListOf(r, A \cup B)  BY <1>8, <1>9, <1>10, <1>11, ListIs
<1>13. ASSUME NEW x \in A, NEW y \in B PROVE Ahead(r, x, y)
  <2>1. PICK i \in 1 .. Len(a) : a[i] = x  BY <1>5
  <2>2. PICK j \in 1 .. Len(b) : b[j] = y  BY <1>6
  <2>3. /\ i \in 1 .. Len(r) /\ r[i] = x
        /\ j + Len(a) \in 1 .. Len(r) /\ r[j + Len(a)] = y
    BY <2>1, <2>2, <1>7
  <2>4. i < j + Len(a)  BY <1>1, <1>2
  <2> QED  BY <2>3, <2>4 DEF Ahead
<1> QED  BY <1>12, <1>13 DEF r

-----------------------------------------------------------------------------
(* Reaching.                                                               *)

LEMMA ReachIs ==
  ASSUME NEW start \in SUBSET Surfaces, NEW links
  PROVE  /\ Reach(start, links) \subseteq Surfaces
         /\ start \subseteq Reach(start, links)
         /\ \A e \in links : e[1] \in Reach(start, links) /\ e[2] \in Surfaces
              => e[2] \in Reach(start, links)
         /\ \A S \in SUBSET Surfaces :
              start \subseteq S /\ (\A e \in links : e[1] \in S => e[2] \in S)
                => Reach(start, links) \subseteq S
<1>1. CASE start = {}
  <2>1. Reach(start, links) = {}  BY <1>1 DEF Reach
  <2> QED  BY <1>1, <2>1
<1>2. CASE start # {}
  <2> DEFINE closed == {S \in SUBSET Surfaces : /\ start \subseteq S
                                                /\ \A e \in links : e[1] \in S => e[2] \in S}
             R == {y \in Surfaces : \A S \in closed : y \in S}
  <2>1. Reach(start, links) = R  BY <1>2 DEF Reach
  <2>2. R \subseteq Surfaces /\ start \subseteq R  OBVIOUS
  <2>3. ASSUME NEW e \in links, e[1] \in R, e[2] \in Surfaces PROVE e[2] \in R
    <3>1. \A S \in closed : e[2] \in S  BY <2>3
    <3> QED  BY <2>3, <3>1
  <2>4. ASSUME NEW S \in SUBSET Surfaces, start \subseteq S, \A e \in links : e[1] \in S => e[2] \in S
        PROVE  R \subseteq S
    <3>1. S \in closed  BY <2>4
    <3> QED  BY <3>1
  <2> QED  BY <2>1, <2>2, <2>3, <2>4
<1> QED  BY <1>1, <1>2

-----------------------------------------------------------------------------
(* Restacking.                                                             *)

Viewed(t) == {s \in Surfaces : t.surf[s].view}

RestackOne(t, front, now, s) ==
    IF ~t.surf[s].view THEN now
    ELSE [stack |-> PutBeside(front, now.stack, s, now.beside), beside |-> s]

\* The loop of Restack as the proof sees it: the stacks after each child.
RestackRun(g, t, p, list, front, m) ==
    g = [i \in 0 .. m |-> IF i = 0 THEN [stack |-> t.stack, beside |-> p]
                          ELSE RestackOne(t, front, g[i - 1], list[i])]

LEMMA RestackRunExists ==
  ASSUME NEW t, NEW p, NEW list, NEW front, NEW m \in Nat
  PROVE  \E g : RestackRun(g, t, p, list, front, m)
<1> DEFINE T == {n \in Nat : ~\E g : RestackRun(g, t, p, list, front, n)}
           first == [stack |-> t.stack, beside |-> p]
<1>1. T = {}
  <2> SUFFICES ASSUME T # {} PROVE FALSE
    OBVIOUS
  <2>1. T \in SUBSET Nat  OBVIOUS
  <2>2. PICK n \in T : \A k \in T : n <= k
    <3> HIDE DEF T
    <3> QED  BY <2>1, NatMin
  <2>3. n \in Nat /\ ~\E g : RestackRun(g, t, p, list, front, n)  OBVIOUS
  <2>4. CASE n = 0
    <3> DEFINE g == [k \in 0 .. n |-> first]
    <3>1. RestackRun(g, t, p, list, front, n)
      BY <2>4 DEF RestackRun
    <3> QED  BY <3>1, <2>3
  <2>5. CASE n # 0
    <3>1. n - 1 \in Nat /\ n - 1 \notin T
      <4>1. n - 1 \in Nat /\ ~(n <= n - 1)  BY <2>3, <2>5
      <4> HIDE DEF T
      <4> QED  BY <4>1, <2>2
    <3>2. PICK g : RestackRun(g, t, p, list, front, n - 1)  BY <3>1
    <3> DEFINE last == RestackOne(t, front, g[n - 1], list[n])
               h == [k \in 0 .. n |-> IF k = n THEN last ELSE g[k]]
    <3>3. \A k \in 0 .. n - 1 : h[k] = g[k]  BY <2>3
    <3>4. \A k \in 0 .. n - 1 : g[k] = IF k = 0 THEN first ELSE RestackOne(t, front, g[k - 1], list[k])
      BY <3>2 DEF RestackRun
    <3>5. h[n] = last  BY <2>3
    <3>6. ASSUME NEW k \in 0 .. n
          PROVE  h[k] = IF k = 0 THEN first ELSE RestackOne(t, front, h[k - 1], list[k])
      <4>1. CASE k = n
        <5>1. h[n - 1] = g[n - 1]  BY <2>3, <2>5, <3>3
        <5> HIDE DEF h
        <5> QED  BY <4>1, <2>5, <3>5, <5>1
      <4>2. CASE k # n
        <5>1. k \in 0 .. n - 1 /\ (k # 0 => k - 1 \in 0 .. n - 1)  BY <2>3, <4>2
        <5>2. h[k] = g[k] /\ (k # 0 => h[k - 1] = g[k - 1])  BY <5>1, <3>3
        <5>3. g[k] = IF k = 0 THEN first ELSE RestackOne(t, front, g[k - 1], list[k])
          BY <3>4, <5>1
        <5> HIDE DEF h
        <5> QED  BY <5>2, <5>3
      <4> QED  BY <4>1, <4>2
    <3>7. h = [k \in 0 .. n |-> h[k]]  OBVIOUS
    <3> HIDE DEF h
    <3>8. h = [k \in 0 .. n |-> IF k = 0 THEN first ELSE RestackOne(t, front, h[k - 1], list[k])]
      BY <3>6, <3>7
    <3>9. RestackRun(h, t, p, list, front, n)  BY <3>8 DEF RestackRun
    <3> QED  BY <3>9, <2>3
  <2> QED  BY <2>4, <2>5
<1> QED  BY <1>1

LEMMA RestackIsLast ==
  ASSUME NEW t, NEW p, NEW list, NEW front, Len(list) \in Nat
  PROVE  \E g : /\ RestackRun(g, t, p, list, front, Len(list))
                /\ Restack(t, p, list, front) = [t EXCEPT !.stack = g[Len(list)].stack]
<1> DEFINE g == CHOOSE g : RestackRun(g, t, p, list, front, Len(list))
<1>1. RestackRun(g, t, p, list, front, Len(list))  BY RestackRunExists
<1>2. Restack(t, p, list, front) = [t EXCEPT !.stack = g[Len(list)].stack]
  BY DEF Restack, RestackRun, RestackOne, PutBeside
<1> QED  BY <1>1, <1>2

\* What holds when the first i children have been put beside p.
PutSoFar(t, p, list, front, i, now) ==
    /\ ListOf(now.stack, Viewed(t))
    /\ now.beside \in Viewed(t)
    /\ now.beside = p \/ \E j \in 1 .. i : now.beside = list[j]
    /\ now.beside = p \/ Outside(front, now.stack, now.beside, p)
    /\ \A y, z : y \notin ToSet(list) /\ z \notin ToSet(list)
                   => (Ahead(now.stack, y, z) <=> Ahead(t.stack, y, z))
    /\ \A j \in 1 .. i : t.surf[list[j]].view =>
         /\ now.beside = list[j] \/ Outside(front, now.stack, now.beside, list[j])
         /\ Outside(front, now.stack, list[j], p)
         /\ \A k \in 1 .. j - 1 : t.surf[list[k]].view
              => Outside(front, now.stack, list[j], list[k])

LEMMA PutOneMore ==
  ASSUME NEW t, NEW p \in Viewed(t), NEW list, NEW set \in SUBSET Surfaces, ListOf(list, set),
         p \notin set, NEW front \in BOOLEAN, NEW i \in 1 .. Len(list), NEW now,
         PutSoFar(t, p, list, front, i - 1, now)
  PROVE  PutSoFar(t, p, list, front, i, RestackOne(t, front, now, list[i]))
<1> DEFINE s == list[i]
           r == PutBeside(front, now.stack, s, now.beside)
           V == Viewed(t)
<1>1. list \in Seq(Surfaces) /\ Len(list) \in Nat /\ DOMAIN list = 1 .. Len(list)
  BY LenProperties DEF ListOf
<1>2. /\ \A j \in 1 .. Len(list) : list[j] \in set
      /\ \A j, k \in 1 .. Len(list) : list[j] = list[k] => j = k
  BY <1>1, ListIs
<1>3. s \in set /\ s \in Surfaces /\ s # p /\ set = ToSet(list)
  BY <1>2 DEF ListOf
<1>4. CASE ~t.surf[s].view
  <2>1. RestackOne(t, front, now, s) = now  BY <1>4 DEF RestackOne
  <2>2. \A j \in 1 .. i : j \in 1 .. i - 1 \/ j = i  BY <1>1
  <2>3. \A j \in 1 .. i - 1 : j \in 1 .. i  BY <1>1
  <2> QED  BY <1>4, <2>1, <2>2, <2>3 DEF PutSoFar
<1>5. CASE t.surf[s].view
  <2>1. RestackOne(t, front, now, s) = [stack |-> r, beside |-> s]  BY <1>5 DEF RestackOne
  <2>2. s \in V /\ V \cup {s} = V /\ V \subseteq Surfaces  BY <1>3, <1>5 DEF Viewed
  <2>3. ListOf(now.stack, V) /\ now.beside \in V  BY DEF PutSoFar
  <2>4. now.beside # s
    <3>1. CASE now.beside = p  BY <3>1, <1>3
    <3>2. CASE now.beside # p
      <4>1. PICK j \in 1 .. i - 1 : now.beside = list[j]  BY <3>2 DEF PutSoFar
      <4>2. j \in 1 .. Len(list) /\ j # i  BY <1>1
      <4> QED  BY <4>1, <4>2, <1>2
    <3> QED  BY <3>1, <3>2
  <2> HIDE DEF V
  <2>5. /\ ListOf(r, V \cup {s})
        /\ \A y, z : y # s /\ z # s => (Ahead(r, y, z) <=> Ahead(now.stack, y, z))
        /\ Outside(front, r, s, now.beside)
        /\ \A y : y # s /\ Outside(front, now.stack, now.beside, y) => Outside(front, r, s, y)
    BY <1>3, <2>3, <2>4, PutIs
  <2> HIDE DEF r, s
  <2>6. \A y, z : y # s /\ z # s => (Outside(front, r, y, z) <=> Outside(front, now.stack, y, z))
    BY <2>5 DEF Outside
  <2>7. Outside(front, r, s, p)  BY <1>3, <2>5 DEF PutSoFar
  <2>8. \A y, z : y \notin ToSet(list) /\ z \notin ToSet(list)
                    => (Ahead(r, y, z) <=> Ahead(t.stack, y, z))
    BY <1>3, <2>5 DEF PutSoFar
  <2>9. \A j \in 1 .. i - 1 : list[j] # s
    <3>1. \A j \in 1 .. i - 1 : j \in 1 .. Len(list) /\ j # i  BY <1>1
    <3> QED  BY <3>1, <1>2 DEF s
  <2>10. ASSUME NEW j \in 1 .. i - 1, t.surf[list[j]].view
         PROVE  /\ Outside(front, r, s, list[j])
                /\ Outside(front, r, list[j], p)
                /\ \A k \in 1 .. j - 1 : t.surf[list[k]].view => Outside(front, r, list[j], list[k])
    <3>1. /\ now.beside = list[j] \/ Outside(front, now.stack, now.beside, list[j])
          /\ Outside(front, now.stack, list[j], p)
          /\ \A k \in 1 .. j - 1 : t.surf[list[k]].view
               => Outside(front, now.stack, list[j], list[k])
      BY <2>10 DEF PutSoFar
    <3>2. list[j] # s /\ p # s  BY <2>9, <1>3
    <3>3. \A k \in 1 .. j - 1 : k \in 1 .. i - 1  BY <1>1
    <3>4. \A k \in 1 .. j - 1 : list[k] # s  BY <2>9, <3>3
    <3> QED  BY <2>5, <2>6, <3>1, <3>2, <3>4
  <2> DEFINE new == [stack |-> r, beside |-> s]
  <2>11. new.stack = r /\ new.beside = s  OBVIOUS
  <2> HIDE DEF new
  <2>12. i \in 1 .. i /\ \A j \in 1 .. i : j = i \/ j \in 1 .. i - 1  BY <1>1
  <2>13. \A j \in 1 .. i : t.surf[list[j]].view =>
           /\ new.beside = list[j] \/ Outside(front, new.stack, new.beside, list[j])
           /\ Outside(front, new.stack, list[j], p)
           /\ \A k \in 1 .. j - 1 : t.surf[list[k]].view
                => Outside(front, new.stack, list[j], list[k])
    <3> SUFFICES ASSUME NEW j \in 1 .. i, t.surf[list[j]].view
                 PROVE  /\ s = list[j] \/ Outside(front, r, s, list[j])
                        /\ Outside(front, r, list[j], p)
                        /\ \A k \in 1 .. j - 1 : t.surf[list[k]].view
                             => Outside(front, r, list[j], list[k])
      BY <2>11
    <3>1. CASE j = i
      <4>1. list[j] = s  BY <3>1 DEF s
      <4> QED  BY <3>1, <4>1, <2>7, <2>10
    <3>2. CASE j # i
      BY <3>2, <2>10, <2>12
    <3> QED  BY <3>1, <3>2
  <2>14. new.beside = p \/ \E j \in 1 .. i : new.beside = list[j]
    BY <2>11, <2>12 DEF s
  <2>15. PutSoFar(t, p, list, front, i, new)
    BY <2>2, <2>5, <2>7, <2>8, <2>11, <2>13, <2>14 DEF PutSoFar, V
  <2> QED  BY <2>1, <2>15 DEF new, s
<1> QED  BY <1>4, <1>5

\* The views of the children in the list end on one side of p, the later the farther,
\* and no other two views change places.
LEMMA RestackIs ==
  ASSUME NEW t, NEW p \in Viewed(t), ListOf(t.stack, Viewed(t)),
         NEW list, NEW set \in SUBSET Surfaces, ListOf(list, set),
         p \notin set, NEW front \in BOOLEAN
  PROVE  \E r : /\ Restack(t, p, list, front) = [t EXCEPT !.stack = r]
                /\ ListOf(r, Viewed(t))
                /\ \A y, z : y \notin set /\ z \notin set
                               => (Ahead(r, y, z) <=> Ahead(t.stack, y, z))
                /\ \A j \in 1 .. Len(list) : t.surf[list[j]].view =>
                     /\ Outside(front, r, list[j], p)
                     /\ \A k \in 1 .. j - 1 : t.surf[list[k]].view => Outside(front, r, list[j], list[k])
<1>1. Len(list) \in Nat /\ ToSet(list) = set  BY LenProperties DEF ListOf
<1>2. PICK g : /\ RestackRun(g, t, p, list, front, Len(list))
               /\ Restack(t, p, list, front) = [t EXCEPT !.stack = g[Len(list)].stack]
  BY <1>1, RestackIsLast
<1> DEFINE T == {n \in 0 .. Len(list) : ~PutSoFar(t, p, list, front, n, g[n])}
<1>3. T = {}
  <2> SUFFICES ASSUME T # {} PROVE FALSE
    OBVIOUS
  <2>1. T \in SUBSET Nat  BY <1>1
  <2>2. PICK n \in T : \A k \in T : n <= k
    <3> HIDE DEF T
    <3> QED  BY <2>1, NatMin
  <2>3. n \in 0 .. Len(list) /\ ~PutSoFar(t, p, list, front, n, g[n])  OBVIOUS
  <2>4. g[n] = IF n = 0 THEN [stack |-> t.stack, beside |-> p]
               ELSE RestackOne(t, front, g[n - 1], list[n])
    BY <1>2, <2>3 DEF RestackRun
  <2>5. CASE n = 0
    <3>1. g[n].stack = t.stack /\ g[n].beside = p  BY <2>4, <2>5
    <3>2. PutSoFar(t, p, list, front, n, g[n])  BY <2>5, <3>1 DEF PutSoFar
    <3> QED  BY <3>2, <2>3
  <2>6. CASE n # 0
    <3>1. n - 1 \in 0 .. Len(list) /\ ~(n <= n - 1) /\ n \in 1 .. Len(list)  BY <1>1, <2>3, <2>6
    <3>2. n - 1 \notin T
      <4> HIDE DEF T
      <4> QED  BY <2>2, <3>1
    <3>3. PutSoFar(t, p, list, front, n - 1, g[n - 1])  BY <3>1, <3>2
    <3>4. n \in 1 .. Len(list)  BY <3>1
    <3>5. PutSoFar(t, p, list, front, n, RestackOne(t, front, g[n - 1], list[n]))
      BY <3>3, <3>4, PutOneMore
    <3> QED  BY <2>3, <2>4, <2>6, <3>5
  <2> QED  BY <2>5, <2>6
<1>4. Len(list) \in 0 .. Len(list)  BY <1>1
<1>5. PutSoFar(t, p, list, front, Len(list), g[Len(list)])  BY <1>3, <1>4
<1> QED  BY <1>1, <1>2, <1>5 DEF PutSoFar

-----------------------------------------------------------------------------
(* The invariant, of a record of the state.                                *)

SurfaceStates ==
    [pending : {"nothing", "draw", "unmap"}, buffer : BOOLEAN,
     view : BOOLEAN, window : BOOLEAN, visible : BOOLEAN,
     above : Surfaces \cup {None, Gone},
     role : BOOLEAN, parent : Surfaces \cup {None}, sync : BOOLEAN,
     cached : BOOLEAN, added : BOOLEAN]

ChildLists == [{"below", "above", "pendingBelow", "pendingAbove"} -> Seq(Surfaces)]

States == [surf : [Surfaces -> SurfaceStates], order : [Surfaces -> ChildLists],
           stack : Seq(Surfaces)]

Stacked(t) == ListOf(t.stack, Viewed(t))

\* The four lists of a surface with these children.
Orderly(o, children) ==
    /\ \A list \in {"below", "above", "pendingBelow", "pendingAbove"} :
         ListOf(o[list], ToSet(o[list]))
    /\ ToSet(o.pendingBelow) \cap ToSet(o.pendingAbove) = {}
    /\ ToSet(o.pendingBelow) \cup ToSet(o.pendingAbove) = children
    /\ ToSet(o.below) \cap ToSet(o.above) = {}
    /\ ToSet(o.below) \cup ToSet(o.above) \subseteq children

Listed(t) == \A p \in Surfaces : Orderly(t.order[p], Children(t, p))

\* A subsurface has a view, above its parent's unless that is gone, and no window; what
\* is no subsurface hangs from nothing.
LinkedAt(t, s) ==
    LET r == t.surf[s]
    IN /\ r.role => /\ r.view /\ s \notin Windows
                    /\ r.above \in {r.parent, Gone}
                    /\ r.parent = None => r.above = None
       /\ ~r.role => r.above = None /\ r.parent = None
       /\ r.window => s \in Windows
       /\ r.parent # s

Linked(t) == \A s \in Surfaces : LinkedAt(t, s)

Sane(t) == t \in States /\ Stacked(t) /\ Listed(t) /\ Linked(t)

\* What SeenWithParent says of one surface.
TogetherAt(t, s) ==
    LET r == t.surf[s]
    IN /\ r.visible \/ r.window => r.view
       /\ r.visible => r.role \/ r.window
       /\ r.role /\ r.visible /\ r.above # Gone
            => /\ r.added
               /\ r.above = r.parent
               /\ r.parent \in Surfaces
               /\ t.surf[r.parent].visible

Together(t) == \A s \in Surfaces : TogetherAt(t, s)

Good(t) == Sane(t) /\ Together(t)

\* What a step can leave alone.
SameLinks(t, u) ==
    \A x \in Surfaces :
      /\ u.surf[x].view = t.surf[x].view /\ u.surf[x].window = t.surf[x].window
      /\ u.surf[x].role = t.surf[x].role /\ u.surf[x].parent = t.surf[x].parent
      /\ u.surf[x].above = t.surf[x].above
SameSight(t, u) == \A x \in Surfaces : u.surf[x].visible = t.surf[x].visible
SameContent(t, u, but) ==
    \A x \in Surfaces \ but :
      /\ u.surf[x].buffer = t.surf[x].buffer /\ u.surf[x].pending = t.surf[x].pending
      /\ u.surf[x].cached = t.surf[x].cached
SameModes(t, u) == \A x \in Surfaces : u.surf[x].sync = t.surf[x].sync
Adding(t, u) == \A x \in Surfaces : t.surf[x].added => u.surf[x].added

\* What is committed of a surface.
Content(r) == <<r.pending, r.buffer, r.cached>>

OnlyVisible(t, u) ==
    /\ u \in States
    /\ u.order = t.order /\ u.stack = t.stack
    /\ SameLinks(t, u) /\ SameContent(t, u, {}) /\ SameModes(t, u)
    /\ \A x \in Surfaces : u.surf[x].added = t.surf[x].added

LEMMA SaneStays ==
  ASSUME NEW t, NEW u \in States, Sane(t), SameLinks(t, u), u.order = t.order, u.stack = t.stack
  PROVE  Sane(u)
<1>1. Viewed(u) = Viewed(t)  BY DEF Viewed, SameLinks
<1>2. \A p \in Surfaces : Children(u, p) = Children(t, p)  BY DEF Children, SameLinks
<1>3. Linked(u)  BY DEF Sane, Linked, LinkedAt, SameLinks
<1> QED  BY <1>1, <1>2, <1>3 DEF Sane, Stacked, Listed

LEMMA TogetherStays ==
  ASSUME NEW t, NEW u, Together(t), SameLinks(t, u), SameSight(t, u), Adding(t, u)
  PROVE  Together(u)
  BY DEF Together, TogetherAt, SameLinks, SameSight, Adding

-----------------------------------------------------------------------------
(* Showing and hiding.                                                     *)

LEMMA SetVisibleIs ==
  ASSUME NEW t \in States, NEW views, NEW shown \in BOOLEAN
  PROVE  /\ OnlyVisible(t, SetVisible(t, views, shown))
         /\ \A x \in Surfaces : SetVisible(t, views, shown).surf[x].visible
              = IF x \in views THEN shown ELSE t.surf[x].visible
<1> DEFINE u == SetVisible(t, views, shown)
           new(x) == IF x \in views THEN [t.surf[x] EXCEPT !.visible = shown] ELSE t.surf[x]
<1>1. \A x \in Surfaces : t.surf[x] \in SurfaceStates  BY DEF States
<1>2. ASSUME NEW x \in Surfaces
      PROVE  /\ new(x) \in SurfaceStates
             /\ new(x).view = t.surf[x].view /\ new(x).window = t.surf[x].window
             /\ new(x).role = t.surf[x].role /\ new(x).parent = t.surf[x].parent
             /\ new(x).above = t.surf[x].above
             /\ new(x).buffer = t.surf[x].buffer /\ new(x).pending = t.surf[x].pending
             /\ new(x).cached = t.surf[x].cached /\ new(x).sync = t.surf[x].sync
             /\ new(x).added = t.surf[x].added
             /\ new(x).visible = IF x \in views THEN shown ELSE t.surf[x].visible
  <2>1. t.surf[x] \in SurfaceStates  BY <1>1
  <2> QED  BY <2>1 DEF SurfaceStates
<1>3. u.surf = [x \in Surfaces |-> new(x)] /\ u.order = t.order /\ u.stack = t.stack /\ u \in States
  <2>1. u = [t EXCEPT !.surf = [x \in Surfaces |-> new(x)]]  BY DEF SetVisible
  <2>2. [x \in Surfaces |-> new(x)] \in [Surfaces -> SurfaceStates]  BY <1>2
  <2> HIDE DEF new, u
  <2> QED  BY <2>1, <2>2 DEF States
<1>4. \A x \in Surfaces : u.surf[x] = new(x)  BY <1>3
<1> HIDE DEF u, new
<1>5. OnlyVisible(t, u)
  BY <1>2, <1>3, <1>4 DEF OnlyVisible, SameLinks, SameContent, SameModes
<1> QED  BY <1>2, <1>4, <1>5 DEF u

LEMMA ShowIs ==
  ASSUME NEW t \in States, NEW views \in SUBSET Surfaces
  PROVE  /\ OnlyVisible(t, Show(t, views))
         /\ \A x \in Surfaces : t.surf[x].visible => Show(t, views).surf[x].visible
         /\ \A x \in Surfaces : Show(t, views).surf[x].visible /\ ~t.surf[x].visible
              => /\ t.surf[x].role => t.surf[x].added
                 /\ \/ x \in views
                    \/ t.surf[x].above \in Surfaces /\ Show(t, views).surf[t.surf[x].above].visible
<1> DEFINE showable == {x \in Surfaces : /\ ~t.surf[x].visible
                                         /\ t.surf[x].role => t.surf[x].added /\ t.surf[x].buffer}
           R == Reach(views \cap showable, Over(t, showable))
           u == Show(t, views)
           S == {x \in R : x \in showable /\ (x \in views \/ t.surf[x].above \in R)}
<1>1. u = SetVisible(t, R, TRUE)  BY DEF Show
<1>2. OnlyVisible(t, u) /\ \A x \in Surfaces : u.surf[x].visible = IF x \in R THEN TRUE ELSE t.surf[x].visible
  <2> HIDE DEF u, R
  <2>1. PICK b \in BOOLEAN : b = TRUE  OBVIOUS
  <2>2. /\ OnlyVisible(t, SetVisible(t, R, b))
        /\ \A x \in Surfaces : SetVisible(t, R, b).surf[x].visible
             = IF x \in R THEN b ELSE t.surf[x].visible
    BY SetVisibleIs
  <2>3. u = SetVisible(t, R, b)  BY <1>1, <2>1
  <2> QED  BY <2>1, <2>2, <2>3
<1>3. views \cap showable \in SUBSET Surfaces  OBVIOUS
<1>4. /\ R \subseteq Surfaces /\ views \cap showable \subseteq R
      /\ \A e \in Over(t, showable) : e[1] \in R /\ e[2] \in Surfaces => e[2] \in R
      /\ \A X \in SUBSET Surfaces :
              views \cap showable \subseteq X /\ (\A e \in Over(t, showable) : e[1] \in X => e[2] \in X)
                => R \subseteq X
  BY <1>3, ReachIs, ZenonT(30)
<1>5. \A e \in Over(t, showable) : \E x \in showable : e = <<t.surf[x].above, x>>
  BY DEF Over
<1> HIDE DEF R, u
<1>6. S \in SUBSET Surfaces /\ views \cap showable \subseteq S  BY <1>4
<1>7. ASSUME NEW e \in Over(t, showable), e[1] \in S PROVE e[2] \in S
  <2>1. PICK x \in showable : e = <<t.surf[x].above, x>>  BY <1>5
  <2>2. e[1] \in R /\ e[2] \in Surfaces  BY <1>7, <2>1
  <2>3. e[2] \in R  BY <1>4, <2>2
  <2> QED  BY <2>1, <2>2, <2>3
<1>8. R \subseteq S
  <2> HIDE DEF S
  <2> QED  BY <1>4, <1>6, <1>7
<1>9. \A x \in R : /\ t.surf[x].role => t.surf[x].added
                   /\ x \in views \/ t.surf[x].above \in R
  BY <1>8
<1>10. \A x \in R : x \in Surfaces /\ u.surf[x].visible  BY <1>2, <1>4
<1> QED  BY <1>2, <1>9, <1>10 DEF u

LEMMA HideIs ==
  ASSUME NEW t \in States, NEW views \in SUBSET Surfaces
  PROVE  /\ OnlyVisible(t, Hide(t, views))
         /\ \A x \in Surfaces : Hide(t, views).surf[x].visible => t.surf[x].visible
         /\ \A x \in views : ~Hide(t, views).surf[x].visible
         /\ \A x \in Surfaces : LET a == t.surf[x].above
              IN Hide(t, views).surf[x].visible /\ a \in Surfaces /\ t.surf[a].visible
                   => Hide(t, views).surf[a].visible
<1> DEFINE seen == {x \in Surfaces : t.surf[x].visible}
           R == Reach(views \cap seen, Over(t, seen))
           u == Hide(t, views)
<1>1. u = SetVisible(t, R, FALSE)  BY DEF Hide
<1>2. OnlyVisible(t, u) /\ \A x \in Surfaces : u.surf[x].visible = IF x \in R THEN FALSE ELSE t.surf[x].visible
  <2> HIDE DEF u, R
  <2>1. PICK b \in BOOLEAN : b = FALSE  OBVIOUS
  <2>2. /\ OnlyVisible(t, SetVisible(t, R, b))
        /\ \A x \in Surfaces : SetVisible(t, R, b).surf[x].visible
             = IF x \in R THEN b ELSE t.surf[x].visible
    BY SetVisibleIs
  <2>3. u = SetVisible(t, R, b)  BY <1>1, <2>1
  <2> QED  BY <2>1, <2>2, <2>3
<1>3. views \cap seen \in SUBSET Surfaces  OBVIOUS
<1>4. /\ views \cap seen \subseteq R
      /\ \A e \in Over(t, seen) : e[1] \in R /\ e[2] \in Surfaces => e[2] \in R
  BY <1>3, ReachIs
<1> HIDE DEF R, u
<1>5. \A x \in Surfaces : u.surf[x].visible => t.surf[x].visible  BY <1>2
<1>6. \A x \in views : ~u.surf[x].visible  BY <1>2, <1>4
<1>7. ASSUME NEW x \in Surfaces, u.surf[x].visible, t.surf[x].above \in Surfaces,
             t.surf[t.surf[x].above].visible, ~u.surf[t.surf[x].above].visible
      PROVE  FALSE
  <2> DEFINE e == <<t.surf[x].above, x>>
  <2>1. x \in seen  BY <1>5, <1>7
  <2>2. e \in Over(t, seen)  BY <2>1 DEF Over
  <2>3. e[1] \in R  BY <1>2, <1>7
  <2>4. x \in R  BY <1>4, <2>2, <2>3
  <2> QED  BY <1>2, <1>7, <2>4
<1> QED  BY <1>2, <1>5, <1>6, <1>7 DEF u

\* Showing what may be shown, and hiding anything, leaves what is seen together.
LEMMA ShowHolds ==
  ASSUME NEW t, Good(t), NEW views \in SUBSET Surfaces,
         \A x \in views : /\ t.surf[x].view /\ (t.surf[x].role \/ t.surf[x].window)
                          /\ t.surf[x].role /\ t.surf[x].above # Gone
                               => t.surf[x].parent \in Surfaces /\ t.surf[t.surf[x].parent].visible
  PROVE  OnlyVisible(t, Show(t, views)) /\ Together(Show(t, views))
<1> DEFINE u == Show(t, views)
<1>1. t \in States /\ Linked(t) /\ Together(t)  BY DEF Good, Sane
<1>2. t \in States  BY <1>1
<1>3. /\ OnlyVisible(t, u)
      /\ \A x \in Surfaces : t.surf[x].visible => u.surf[x].visible
      /\ \A x \in Surfaces : u.surf[x].visible /\ ~t.surf[x].visible
           => /\ t.surf[x].role => t.surf[x].added
              /\ \/ x \in views
                 \/ t.surf[x].above \in Surfaces /\ u.surf[t.surf[x].above].visible
  BY <1>2, ShowIs
<1> HIDE DEF u
<1>4. ASSUME NEW x \in Surfaces PROVE TogetherAt(u, x)
  <2>1. /\ u.surf[x].view = t.surf[x].view /\ u.surf[x].window = t.surf[x].window
        /\ u.surf[x].role = t.surf[x].role /\ u.surf[x].parent = t.surf[x].parent
        /\ u.surf[x].above = t.surf[x].above /\ u.surf[x].added = t.surf[x].added
    BY <1>3 DEF OnlyVisible, SameLinks
  <2>2. TogetherAt(t, x) /\ LinkedAt(t, x)  BY <1>1 DEF Together, Linked
  <2>3. None \notin Surfaces /\ Gone \notin Surfaces  BY SurfaceAssumption
  <2>4. CASE t.surf[x].visible \/ ~u.surf[x].visible
    BY <2>1, <2>2, <2>4, <1>3 DEF TogetherAt
  <2>5. CASE ~t.surf[x].visible /\ u.surf[x].visible
    <3>1. CASE x \in views
      BY <3>1, <2>1, <2>2, <2>5, <1>3 DEF TogetherAt, LinkedAt
    <3>2. CASE t.surf[x].above \in Surfaces /\ u.surf[t.surf[x].above].visible
      BY <3>2, <2>1, <2>2, <2>3, <2>5, <1>3 DEF TogetherAt, LinkedAt
    <3> QED  BY <3>1, <3>2, <2>5, <1>3
  <2> QED  BY <2>4, <2>5
<1> QED  BY <1>3, <1>4 DEF Together, u

LEMMA HideHolds ==
  ASSUME NEW t, Good(t), NEW views \in SUBSET Surfaces
  PROVE  OnlyVisible(t, Hide(t, views)) /\ Together(Hide(t, views))
<1> DEFINE u == Hide(t, views)
<1>1. t \in States /\ Linked(t) /\ Together(t)  BY DEF Good, Sane
<1>2. t \in States  BY <1>1
<1>3. /\ OnlyVisible(t, u)
      /\ \A x \in Surfaces : u.surf[x].visible => t.surf[x].visible
      /\ \A x \in Surfaces : LET a == t.surf[x].above
           IN u.surf[x].visible /\ a \in Surfaces /\ t.surf[a].visible => u.surf[a].visible
  BY <1>2, HideIs
<1> HIDE DEF u
<1>4. ASSUME NEW x \in Surfaces PROVE TogetherAt(u, x)
  <2>1. /\ u.surf[x].view = t.surf[x].view /\ u.surf[x].window = t.surf[x].window
        /\ u.surf[x].role = t.surf[x].role /\ u.surf[x].parent = t.surf[x].parent
        /\ u.surf[x].above = t.surf[x].above /\ u.surf[x].added = t.surf[x].added
    BY <1>3 DEF OnlyVisible, SameLinks
  <2>2. TogetherAt(t, x)  BY <1>1 DEF Together
  <2> QED  BY <2>1, <2>2, <1>3 DEF TogetherAt
<1> QED  BY <1>3, <1>4 DEF Together, u

LEMMA OnlyVisibleTwice ==
  ASSUME NEW t, NEW u, NEW v, OnlyVisible(t, u), OnlyVisible(u, v)
  PROVE  OnlyVisible(t, v)
  BY DEF OnlyVisible, SameLinks, SameContent, SameModes

LEMMA OnlyVisibleGood ==
  ASSUME NEW t, NEW u, Good(t), OnlyVisible(t, u), Together(u)
  PROVE  Good(u)
<1>1. u \in States /\ SameLinks(t, u) /\ u.order = t.order /\ u.stack = t.stack  BY DEF OnlyVisible
<1>2. Sane(u)  BY <1>1, SaneStays DEF Good
<1> QED  BY <1>2 DEF Good

LEMMA UpdateVisibilityHolds ==
  ASSUME NEW t, Good(t), NEW subs \in SUBSET Surfaces
  PROVE  OnlyVisible(t, UpdateVisibility(t, subs)) /\ Good(UpdateVisibility(t, subs))
<1> DEFINE due == {s \in subs : LET p == t.surf[s].parent
                                IN t.surf[s].role /\ p # None /\ t.surf[s].view /\ t.surf[p].view}
           seen == {s \in due : /\ t.surf[s].added /\ t.surf[s].buffer
                                /\ t.surf[t.surf[s].parent].visible}
           u == Show(t, seen)
           v == Hide(u, due \ seen)
<1>1. v = UpdateVisibility(t, subs)  BY DEF UpdateVisibility
<1>2. seen \in SUBSET Surfaces /\ due \ seen \in SUBSET Surfaces  OBVIOUS
<1>3. ASSUME NEW x \in seen
      PROVE  /\ t.surf[x].view /\ (t.surf[x].role \/ t.surf[x].window)
             /\ t.surf[x].role /\ t.surf[x].above # Gone
                  => t.surf[x].parent \in Surfaces /\ t.surf[t.surf[x].parent].visible
  <2>1. /\ x \in Surfaces /\ t.surf[x].view /\ t.surf[x].role /\ t.surf[x].parent # None
        /\ t.surf[t.surf[x].parent].visible
    BY <1>3
  <2>2. t.surf[x] \in SurfaceStates  BY <2>1 DEF Good, Sane, States
  <2>3. t.surf[x].parent \in Surfaces  BY <2>1, <2>2 DEF SurfaceStates
  <2> QED  BY <2>1, <2>3
<1>4. OnlyVisible(t, u) /\ Together(u)
  <2> HIDE DEF seen
  <2> QED  BY <1>2, <1>3, ShowHolds
<1> HIDE DEF u, due
<1>5. Good(u)  BY <1>4, OnlyVisibleGood
<1>6. OnlyVisible(u, v) /\ Together(v)
  <2> HIDE DEF seen
  <2> QED  BY <1>2, <1>5, HideHolds
<1> HIDE DEF v
<1>7. Good(v) /\ OnlyVisible(t, v)  BY <1>4, <1>5, <1>6, OnlyVisibleGood, OnlyVisibleTwice
<1> QED  BY <1>1, <1>7

-----------------------------------------------------------------------------
(* Views that come, go and rise.                                           *)

LEMMA RaiseWindowHolds ==
  ASSUME NEW t, Good(t), NEW w \in Surfaces, t.surf[w].view
  PROVE  /\ Good(RaiseWindow(t, w))
         /\ RaiseWindow(t, w).surf = t.surf /\ RaiseWindow(t, w).order = t.order
<1> DEFINE rest == Without(t.stack, w)
           seen == {i \in DOMAIN rest : t.surf[rest[i]].visible}
           passed == {i \in seen : \A j \in seen : j <= i => ~t.surf[rest[j]].window}
           after == IF passed = {} THEN 0 ELSE CHOOSE i \in passed : \A j \in passed : j <= i
           r == InsertAt(rest, after + 1, w)
           u == [t EXCEPT !.stack = r]
           V == Viewed(t)
<1>1. RaiseWindow(t, w) = u  BY DEF RaiseWindow
<1>2. t \in States /\ ListOf(t.stack, V)  BY DEF Good, Sane, Stacked
<1>3. w \in V /\ V \subseteq Surfaces  BY DEF Viewed
<1> HIDE DEF V
<1>4. ListOf(rest, V \ {w})  BY <1>2, WithoutIs
<1> HIDE DEF rest
<1>5. rest \in Seq(Surfaces) /\ Len(rest) \in Nat /\ DOMAIN rest = 1 .. Len(rest)
  BY <1>4, LenProperties DEF ListOf
<1>6. after \in 0 .. Len(rest)
  <2>1. CASE passed = {}  BY <2>1, <1>5
  <2>2. CASE passed # {}
    <3> DEFINE P == passed
    <3>1. P \subseteq 1 .. Len(rest) /\ P # {}  BY <2>2, <1>5
    <3>2. after = CHOOSE i \in P : \A j \in P : j <= i  BY <2>2
    <3> HIDE DEF P, after
    <3>3. \E i \in P : \A j \in P : j <= i
      <4> DEFINE T == {Len(rest) - i : i \in P}
      <4>0. \A i \in P : Len(rest) - i \in Nat
        <5>1. \A i \in P : i \in 1 .. Len(rest)  BY <3>1
        <5> QED  BY <5>1, <1>5
      <4>1. T \in SUBSET Nat /\ T # {}
        <5>1. T \in SUBSET Nat  BY <4>0
        <5>2. PICK i \in P : TRUE  BY <3>1
        <5>3. Len(rest) - i \in T  OBVIOUS
        <5> QED  BY <5>1, <5>3
      <4>2. PICK n \in T : \A k \in T : n <= k
        <5> HIDE DEF T
        <5> QED  BY <4>1, NatMin
      <4>3. PICK i \in P : n = Len(rest) - i  OBVIOUS
      <4>4. ASSUME NEW j \in P PROVE j <= i
        <5>1. Len(rest) - j \in T  OBVIOUS
        <5>2. n <= Len(rest) - j  BY <5>1, <4>2
        <5>3. i \in 1 .. Len(rest) /\ j \in 1 .. Len(rest)  BY <3>1
        <5> QED  BY <4>3, <5>2, <5>3, <1>5
      <4> QED  BY <4>4
    <3>4. after \in P  BY <3>2, <3>3
    <3> QED  BY <3>1, <3>4, <1>5
  <2> QED  BY <2>1, <2>2
<1> HIDE DEF after
<1>7. after + 1 \in 1 .. Len(rest) + 1 /\ w \in Surfaces /\ w \notin V \ {w}  BY <1>5, <1>6
<1>8. ListOf(r, V)
  <2>1. ListOf(r, (V \ {w}) \cup {w})  BY <1>4, <1>7, InsertIs
  <2>2. (V \ {w}) \cup {w} = V  BY <1>3
  <2> QED  BY <2>1, <2>2
<1> HIDE DEF r
<1>9. u \in States /\ u.surf = t.surf /\ u.order = t.order /\ u.stack = r
  BY <1>2, <1>8 DEF States, ListOf
<1> HIDE DEF u
<1>10. Good(u)
  <2>1. Stacked(u) /\ Listed(u)
    BY <1>8, <1>9 DEF Good, Sane, Stacked, Listed, Viewed, Children, V
  <2>2. Linked(u)  BY <1>9 DEF Good, Sane, Linked, LinkedAt
  <2>3. Together(u)  BY <1>9 DEF Good, Together, TogetherAt
  <2> QED  BY <1>9, <2>1, <2>2, <2>3 DEF Good, Sane
<1> QED  BY <1>1, <1>9, <1>10

LEMMA OneIs == ASSUME NEW s \in Surfaces PROVE ListOf(<<s>>, {s})
<1> DEFINE one == <<s>>
<1>1. one \in Seq(Surfaces) /\ Len(one) = 1 /\ one[1] = s  OBVIOUS
<1> HIDE DEF one
<1>2. one \in Seq(Surfaces)  BY <1>1
<1>3. ListOf(one, {s})  BY <1>1, <1>2, ListIs
<1> QED  BY <1>3 DEF one

LEMMA CreateViewHolds ==
  ASSUME NEW t, Good(t), NEW s \in Surfaces
  PROVE  /\ Good(CreateView(t, s))
         /\ CreateView(t, s).order = t.order
         /\ CreateView(t, s).surf[s].view
         /\ \A x \in Surfaces : t.surf[x].view => CreateView(t, s).surf[x].view
         /\ \A x \in Surfaces : CreateView(t, s).surf[x]
                                  = [t.surf[x] EXCEPT !.view = CreateView(t, s).surf[x].view]
<1>1. \A x \in Surfaces : t.surf[x] \in SurfaceStates  BY DEF Good, Sane, States
<1>2. CASE t.surf[s].view
  <2>1. CreateView(t, s) = t  BY <1>2 DEF CreateView
  <2>2. \A x \in Surfaces : t.surf[x] = [t.surf[x] EXCEPT !.view = t.surf[x].view]
    BY <1>1 DEF SurfaceStates
  <2> QED  BY <1>2, <2>1, <2>2
<1>3. CASE ~t.surf[s].view
  <2> DEFINE V == Viewed(t)
             r == <<s>> \o t.stack
             u == CreateView(t, s)
  <2>1. t \in States /\ ListOf(t.stack, V)  BY DEF Good, Sane, Stacked
  <2>2. u = [[t EXCEPT !.surf[s].view = TRUE] EXCEPT !.stack = r]  BY <1>3 DEF CreateView, SetView
  <2>3. ListOf(r, {s} \cup V)
    <3>1. ListOf(<<s>>, {s})  BY OneIs
    <3>2. {s} \cap V = {}  BY <1>3 DEF Viewed
    <3> HIDE DEF V
    <3> QED  BY <2>1, <3>1, <3>2, JoinIs
  <2>4. r \in Seq(Surfaces)  BY <2>3 DEF ListOf
  <2> HIDE DEF r, u
  <2> DEFINE new == [t.surf[s] EXCEPT !.view = TRUE]
  <2>5. /\ u.surf = [t.surf EXCEPT ![s] = new] /\ u.order = t.order /\ u.stack = r
        /\ u \in States
    <3>1. new \in SurfaceStates
      <4>1. t.surf[s] \in SurfaceStates  BY <1>1
      <4> QED  BY <4>1 DEF SurfaceStates
    <3>2. /\ u.surf = [t.surf EXCEPT ![s] = new]
          /\ u.order = t.order /\ u.stack = r
          /\ u = [surf |-> u.surf, order |-> t.order, stack |-> r]
      BY <2>1, <2>2 DEF States
    <3>3. u.surf \in [Surfaces -> SurfaceStates]
      <4> HIDE DEF new
      <4> QED  BY <2>1, <3>1, <3>2 DEF States
    <3> QED  BY <2>1, <2>4, <3>2, <3>3 DEF States
  <2>6. \A x \in Surfaces : u.surf[x] = IF x = s THEN new ELSE t.surf[x]
    <3> HIDE DEF new
    <3> QED  BY <2>1, <2>5 DEF States
  <2>7. \A x \in Surfaces :
          /\ u.surf[x].view <=> (x = s \/ t.surf[x].view)
          /\ u.surf[x].window = t.surf[x].window /\ u.surf[x].visible = t.surf[x].visible
          /\ u.surf[x].role = t.surf[x].role /\ u.surf[x].parent = t.surf[x].parent
          /\ u.surf[x].above = t.surf[x].above /\ u.surf[x].added = t.surf[x].added
    BY <1>1, <2>6 DEF SurfaceStates
  <2>8. \A x \in Surfaces : u.surf[x] = [t.surf[x] EXCEPT !.view = u.surf[x].view]
    BY <1>1, <2>6 DEF SurfaceStates
  <2> HIDE DEF new
  <2>9. Stacked(u)
    <3>1. Viewed(u) = {s} \cup V  BY <2>7 DEF Viewed
    <3> QED  BY <2>3, <2>5, <3>1 DEF Stacked
  <2>10. Listed(u)
    <3>1. \A p \in Surfaces : Children(u, p) = Children(t, p)  BY <2>7 DEF Children
    <3> QED  BY <2>5, <3>1 DEF Good, Sane, Listed
  <2>11. Linked(u)  BY <2>7 DEF Good, Sane, Linked, LinkedAt
  <2>12. Together(u)  BY <2>7 DEF Good, Together, TogetherAt
  <2>13. Good(u)  BY <2>5, <2>9, <2>10, <2>11, <2>12 DEF Good, Sane
  <2>14. u.order = t.order  BY <2>5
  <2>15. u.surf[s].view /\ \A x \in Surfaces : t.surf[x].view => u.surf[x].view  BY <2>7
  <2> QED  BY <2>8, <2>13, <2>14, <2>15 DEF u
<1> QED  BY <1>2, <1>3

\* The view of a surface that is no subsurface (any more) goes.
LEMMA DestroyViewIs ==
  ASSUME NEW t \in States, Stacked(t), NEW s \in Surfaces,
         \A x \in Surfaces : x # s => LinkedAt(t, x) /\ TogetherAt(t, x),
         ~t.surf[s].role, t.surf[s].parent = None,
         t.surf[s].visible \/ t.surf[s].window => t.surf[s].view,
         ~t.surf[s].view => t.surf[s].above = None
  PROVE  /\ DestroyView(t, s) \in States
         /\ Stacked(DestroyView(t, s)) /\ Linked(DestroyView(t, s)) /\ Together(DestroyView(t, s))
         /\ DestroyView(t, s).order = t.order
         /\ ~DestroyView(t, s).surf[s].view
         /\ \A x \in Surfaces : /\ DestroyView(t, s).surf[x].role = t.surf[x].role
                                /\ DestroyView(t, s).surf[x].parent = t.surf[x].parent
                                /\ Content(DestroyView(t, s).surf[x]) = Content(t.surf[x])
<1>0. None \notin Surfaces /\ Gone \notin Surfaces /\ None # Gone  BY SurfaceAssumption
<1>1. CASE ~t.surf[s].view
  <2>1. DestroyView(t, s) = t  BY <1>1 DEF DestroyView
  <2>2. TogetherAt(t, s)  BY <1>1 DEF TogetherAt
  <2>3. LinkedAt(t, s)  BY <1>0, <1>1, <2>2 DEF LinkedAt, TogetherAt
  <2>4. Linked(t) /\ Together(t)  BY <2>2, <2>3 DEF Linked, Together
  <2> QED  BY <1>1, <2>1, <2>4
<1>2. CASE t.surf[s].view
  <2> DEFINE h == Hide(t, {s})
             rest == Without(t.stack, s)
             new(x) == LET r == [h EXCEPT !.surf[s].view = FALSE].surf[x]
                       IN IF x = s THEN [r EXCEPT !.window = FALSE, !.above = None]
                          ELSE IF r.above = s THEN [r EXCEPT !.above = Gone] ELSE r
             u == DestroyView(t, s)
  <2>1. u = [[h EXCEPT !.surf[s].view = FALSE] EXCEPT
               !.surf = [x \in Surfaces |-> new(x)], !.stack = rest]
    BY <1>2 DEF DestroyView, SetView
  <2>2. {s} \in SUBSET Surfaces  OBVIOUS
  <2>3. /\ OnlyVisible(t, h)
        /\ \A x \in Surfaces : h.surf[x].visible => t.surf[x].visible
        /\ ~h.surf[s].visible
        /\ \A x \in Surfaces : LET a == t.surf[x].above
             IN h.surf[x].visible /\ a \in Surfaces /\ t.surf[a].visible => h.surf[a].visible
    BY <2>2, HideIs
  <2> HIDE DEF h
  <2>4. h \in States /\ h.order = t.order /\ \A x \in Surfaces : h.surf[x] \in SurfaceStates
    BY <2>3 DEF OnlyVisible, States
  <2>5. \A x \in Surfaces :
          /\ h.surf[x].view = t.surf[x].view /\ h.surf[x].window = t.surf[x].window
          /\ h.surf[x].role = t.surf[x].role /\ h.surf[x].parent = t.surf[x].parent
          /\ h.surf[x].above = t.surf[x].above /\ h.surf[x].added = t.surf[x].added
    BY <2>3 DEF OnlyVisible, SameLinks
  <2>6. \A x \in Surfaces : Content(h.surf[x]) = Content(t.surf[x])
    BY <2>3 DEF OnlyVisible, SameContent, Content
  <2>7. ASSUME NEW x \in Surfaces
        PROVE  /\ new(x) \in SurfaceStates
               /\ new(x).view <=> x # s /\ t.surf[x].view
               /\ new(x).window <=> x # s /\ t.surf[x].window
               /\ new(x).role = t.surf[x].role /\ new(x).parent = t.surf[x].parent
               /\ new(x).above = (IF x = s THEN None ELSE IF t.surf[x].above = s THEN Gone
                                  ELSE t.surf[x].above)
               /\ new(x).visible = h.surf[x].visible /\ new(x).added = t.surf[x].added
               /\ Content(new(x)) = Content(t.surf[x])
    <3> DEFINE r == [h EXCEPT !.surf[s].view = FALSE].surf[x]
    <3>1. r = IF x = s THEN [h.surf[s] EXCEPT !.view = FALSE] ELSE h.surf[x]
      BY <2>4 DEF States
    <3>2. new(x) = IF x = s THEN [r EXCEPT !.window = FALSE, !.above = None]
                   ELSE IF r.above = s THEN [r EXCEPT !.above = Gone] ELSE r
      OBVIOUS
    <3> HIDE DEF new, r
    <3>3. h.surf[x] \in SurfaceStates  BY <2>4
    <3>4. CASE x = s
      <4>1. new(x) = [h.surf[x] EXCEPT !.view = FALSE, !.window = FALSE, !.above = None]
        BY <3>1, <3>2, <3>3, <3>4 DEF SurfaceStates
      <4> QED  BY <4>1, <3>3, <3>4, <2>5, <2>6, ZenonT(30) DEF SurfaceStates, Content
    <3>5. CASE x # s
      <4>1. new(x) = IF h.surf[x].above = s THEN [h.surf[x] EXCEPT !.above = Gone] ELSE h.surf[x]
        BY <3>1, <3>2, <3>5
      <4> QED  BY <4>1, <3>3, <3>5, <2>5, <2>6 DEF SurfaceStates, Content
    <3> QED  BY <3>4, <3>5
  <2>8. ListOf(rest, Viewed(t) \ {s})
    <3>1. ListOf(t.stack, Viewed(t))  BY DEF Stacked
    <3> QED  BY <3>1, WithoutIs
  <2>9. rest \in Seq(Surfaces)  BY <2>8 DEF ListOf
  <2> HIDE DEF rest, new, u
  <2>10. /\ u.surf = [x \in Surfaces |-> new(x)] /\ u.order = t.order /\ u.stack = rest
        /\ u \in States
    <3>1. [x \in Surfaces |-> new(x)] \in [Surfaces -> SurfaceStates]  BY <2>7
    <3> QED  BY <2>1, <2>4, <2>9, <3>1 DEF States
  <2>11. \A x \in Surfaces :
          /\ u.surf[x].view <=> x # s /\ t.surf[x].view
          /\ u.surf[x].window <=> x # s /\ t.surf[x].window
          /\ u.surf[x].role = t.surf[x].role /\ u.surf[x].parent = t.surf[x].parent
          /\ u.surf[x].above = (IF x = s THEN None ELSE IF t.surf[x].above = s THEN Gone
                                ELSE t.surf[x].above)
          /\ u.surf[x].visible = h.surf[x].visible /\ u.surf[x].added = t.surf[x].added
          /\ Content(u.surf[x]) = Content(t.surf[x])
    BY <2>7, <2>10
  <2>12. Stacked(u)
    <3>1. Viewed(u) = Viewed(t) \ {s}  BY <2>11 DEF Viewed
    <3> QED  BY <2>8, <2>10, <3>1 DEF Stacked
  <2>13. ASSUME NEW x \in Surfaces PROVE LinkedAt(u, x)
    <3>1. CASE x = s  BY <1>0, <2>11, <3>1 DEF LinkedAt
    <3>2. CASE x # s
      <4>1. LinkedAt(t, x)  BY <3>2
      <4> QED  BY <1>0, <2>11, <3>2, <4>1 DEF LinkedAt
    <3> QED  BY <3>1, <3>2
  <2>14. ASSUME NEW x \in Surfaces PROVE TogetherAt(u, x)
    <3>1. CASE x = s  BY <2>3, <2>11, <3>1 DEF TogetherAt
    <3>2. CASE x # s
      <4>1. TogetherAt(t, x)  BY <3>2
      <4> QED  BY <2>3, <2>11, <3>2, <4>1 DEF TogetherAt
    <3> QED  BY <3>1, <3>2
  <2>15. u \in States /\ Stacked(u) /\ Linked(u) /\ Together(u)
    BY <2>10, <2>12, <2>13, <2>14 DEF Linked, Together
  <2>16. u.order = t.order  BY <2>10
  <2>17. ~u.surf[s].view  BY <2>11
  <2>18. \A x \in Surfaces : /\ u.surf[x].role = t.surf[x].role /\ u.surf[x].parent = t.surf[x].parent
                             /\ Content(u.surf[x]) = Content(t.surf[x])
    BY <2>11
  <2> QED  BY <2>15, <2>16, <2>17, <2>18 DEF u
<1> QED  BY <1>1, <1>2

-----------------------------------------------------------------------------
(* Commits.                                                                *)

LEMMA ReverseIs ==
  ASSUME NEW list, NEW set, ListOf(list, set)
  PROVE  /\ ListOf(Reverse(list), set)
         /\ Len(Reverse(list)) = Len(list)
         /\ \A i \in 1 .. Len(list) : Reverse(list)[i] = list[(Len(list) - i) + 1]
<1>1. list \in Seq(Surfaces) /\ Len(list) \in Nat  BY LenProperties DEF ListOf
<1>2. /\ \A i \in 1 .. Len(list) : list[i] \in set
      /\ \A x \in set : \E i \in 1 .. Len(list) : list[i] = x
      /\ \A i, j \in 1 .. Len(list) : list[i] = list[j] => i = j
  BY <1>1, ListIs
<1> DEFINE n == Len(list)
           r == Reverse(list)
<1>3. r = [i \in 1 .. n |-> list[(n - i) + 1]]  BY DEF Reverse
<1> HIDE DEF r
<1>4. \A i \in 1 .. n : (n - i) + 1 \in 1 .. n  BY <1>1
<1>5. list \in [1 .. n -> Surfaces]
  <2>1. list \in Seq(Surfaces)  BY <1>1
  <2> QED  BY <2>1, LenProperties
<1>6. r \in [1 .. n -> Surfaces]  BY <1>3, <1>4, <1>5
<1>7. r \in Seq(Surfaces) /\ Len(r) = n
  BY <1>1, <1>6, SeqDef
<1>8. r \in Seq(Surfaces)  BY <1>7
<1>9. \A i \in 1 .. n : r[i] = list[(n - i) + 1]  BY <1>3
<1>10. \A i \in 1 .. Len(r) : r[i] \in set  BY <1>2, <1>4, <1>7, <1>9
<1>11. ASSUME NEW x \in set PROVE \E i \in 1 .. Len(r) : r[i] = x
  <2>1. PICK i \in 1 .. n : list[i] = x  BY <1>2
  <2> DEFINE k == (n - i) + 1
  <2>2. k \in 1 .. n /\ (n - k) + 1 = i  BY <1>1
  <2>3. r[k] = x  BY <1>9, <2>1, <2>2
  <2> QED  BY <1>7, <2>2, <2>3
<1>12. ASSUME NEW i \in 1 .. Len(r), NEW j \in 1 .. Len(r), r[i] = r[j] PROVE i = j
  <2> DEFINE k == (n - i) + 1
             l == (n - j) + 1
  <2>1. k \in 1 .. n /\ l \in 1 .. n /\ list[k] = list[l]  BY <1>4, <1>7, <1>9, <1>12
  <2> HIDE DEF k, l
  <2>2. k = l  BY <1>2, <2>1
  <2>3. (n - i) + 1 = (n - j) + 1  BY <2>2 DEF k, l
  <2> QED  BY <1>1, <1>7, <2>3
<1>13. ListOf(r, set)  BY <1>8, <1>10, <1>11, <1>12, ListIs
<1> QED  BY <1>7, <1>9, <1>13 DEF r

\* The views of these children lie behind and in front of p, the later the nearer to
\* the front.
Around(views, t, p, below, above) ==
    /\ \A j \in 1 .. Len(below) : t.surf[below[j]].view =>
         /\ Ahead(views, p, below[j])
         /\ \A i \in 1 .. j - 1 : t.surf[below[i]].view => Ahead(views, below[j], below[i])
    /\ \A j \in 1 .. Len(above) : t.surf[above[j]].view =>
         /\ Ahead(views, above[j], p)
         /\ \A i \in 1 .. j - 1 : t.surf[above[i]].view => Ahead(views, above[j], above[i])

\* The views of a surface and its children lie in its current order.
InOrder(t, p) == Around(t.stack, t, p, t.order[p].below, t.order[p].above)

\* The pending order of p has become the current one, and nothing else of the order
\* and the links was touched.
Reordered(t, u, p) ==
    /\ SameLinks(t, u) /\ SameModes(t, u)
    /\ u.order = [t.order EXCEPT ![p] = [@ EXCEPT !.below = t.order[p].pendingBelow,
                                                  !.above = t.order[p].pendingAbove]]
    /\ \A y, z : y \notin Children(t, p) /\ z \notin Children(t, p)
                   => (Ahead(u.stack, y, z) <=> Ahead(t.stack, y, z))
    /\ t.surf[p].view => InOrder(u, p)

\* Both sides of p at once.
LEMMA BothSides ==
  ASSUME NEW t \in States, Stacked(t), NEW p \in Viewed(t),
         NEW below, NEW B \in SUBSET Surfaces, ListOf(below, B), p \notin B,
         NEW above, NEW A \in SUBSET Surfaces, ListOf(above, A), p \notin A, A \cap B = {}
  PROVE  \E r : /\ Restack(Restack(t, p, Reverse(below), FALSE), p, above, TRUE)
                     = [t EXCEPT !.stack = r]
                /\ ListOf(r, Viewed(t))
                /\ \A y, z : y \notin A \cup B /\ z \notin A \cup B
                               => (Ahead(r, y, z) <=> Ahead(t.stack, y, z))
                /\ Around(r, t, p, below, above)
<1>1. ListOf(t.stack, Viewed(t))  BY DEF Stacked
<1> DEFINE rev == Reverse(below)
           n == Len(below)
<1>2. /\ ListOf(rev, B) /\ Len(rev) = n
      /\ \A i \in 1 .. n : rev[i] = below[(n - i) + 1]
  BY ReverseIs
<1>3. n \in Nat  BY LenProperties DEF ListOf
<1> HIDE DEF rev
<1>4. PICK behind \in BOOLEAN : behind = FALSE  OBVIOUS
<1>5. ListOf(rev, B)  BY <1>2
<1>6. PICK q : /\ Restack(t, p, rev, behind) = [t EXCEPT !.stack = q]
               /\ ListOf(q, Viewed(t))
               /\ \A y, z : y \notin B /\ z \notin B => (Ahead(q, y, z) <=> Ahead(t.stack, y, z))
               /\ \A j \in 1 .. Len(rev) : t.surf[rev[j]].view =>
                    /\ Outside(behind, q, rev[j], p)
                    /\ \A k \in 1 .. j - 1 : t.surf[rev[k]].view => Outside(behind, q, rev[j], rev[k])
  BY <1>1, <1>5, RestackIs
<1> DEFINE v == [t EXCEPT !.stack = q]
<1>7. q \in Seq(Surfaces)  BY <1>6 DEF ListOf
<1>8. v.surf = t.surf /\ v.stack = q /\ v \in States /\ \A r : [v EXCEPT !.stack = r] = [t EXCEPT !.stack = r]
  BY <1>7 DEF States
<1>9. Restack(t, p, rev, FALSE) = v  BY <1>4, <1>6
<1> HIDE DEF v
<1>10. Viewed(v) = Viewed(t)  BY <1>8 DEF Viewed
<1>11. PICK ahead \in BOOLEAN : ahead = TRUE  OBVIOUS
<1>12. p \in Viewed(v) /\ ListOf(v.stack, Viewed(v))  BY <1>6, <1>8, <1>10
<1>13. PICK r : /\ Restack(v, p, above, ahead) = [v EXCEPT !.stack = r]
                /\ ListOf(r, Viewed(v))
                /\ \A y, z : y \notin A /\ z \notin A => (Ahead(r, y, z) <=> Ahead(v.stack, y, z))
                /\ \A j \in 1 .. Len(above) : v.surf[above[j]].view =>
                     /\ Outside(ahead, r, above[j], p)
                     /\ \A k \in 1 .. j - 1 : v.surf[above[k]].view => Outside(ahead, r, above[j], above[k])
  BY <1>12, RestackIs
<1>14. Restack(Restack(t, p, rev, FALSE), p, above, TRUE) = [t EXCEPT !.stack = r]
  BY <1>8, <1>9, <1>11, <1>13
<1>15. \A j \in 1 .. Len(above) : t.surf[above[j]].view =>
         /\ Ahead(r, above[j], p)
         /\ \A i \in 1 .. j - 1 : t.surf[above[i]].view => Ahead(r, above[j], above[i])
  BY <1>8, <1>11, <1>13 DEF Outside
<1>16. below \in Seq(Surfaces)  BY DEF ListOf
<1>17. \A j \in 1 .. n : below[j] \in B /\ below[j] \notin A  BY <1>16, ListIs
<1>18. \A y, z : y \notin A /\ z \notin A /\ Ahead(q, y, z) => Ahead(r, y, z)  BY <1>8, <1>13
<1>19. ASSUME NEW j \in 1 .. n, t.surf[below[j]].view
       PROVE  /\ Ahead(r, p, below[j])
              /\ \A i \in 1 .. j - 1 : t.surf[below[i]].view => Ahead(r, below[j], below[i])
  <2> DEFINE k == (n - j) + 1
  <2>1. k \in 1 .. n /\ (n - k) + 1 = j  BY <1>3
  <2>2. rev[k] = below[j]  BY <1>2, <2>1
  <2>3. Ahead(q, p, below[j])
    <3> HIDE DEF k
    <3> QED  BY <1>2, <1>4, <1>6, <1>19, <2>1, <2>2 DEF Outside
  <2>4. Ahead(r, p, below[j])  BY <1>17, <1>18, <2>3
  <2>5. ASSUME NEW i \in 1 .. j - 1, t.surf[below[i]].view PROVE Ahead(r, below[j], below[i])
    <3> DEFINE l == (n - i) + 1
    <3>1. l \in 1 .. n /\ (n - l) + 1 = i /\ k \in 1 .. l - 1 /\ i \in 1 .. n  BY <1>3
    <3>2. rev[l] = below[i]  BY <1>2, <3>1
    <3>3. Outside(behind, q, rev[l], rev[k])
      <4> HIDE DEF k, l
      <4> QED  BY <1>2, <1>6, <1>19, <2>2, <2>5, <3>1, <3>2
    <3>4. Ahead(q, below[j], below[i])  BY <1>4, <2>2, <3>2, <3>3 DEF Outside
    <3> QED  BY <1>17, <1>18, <3>1, <3>4
  <2> QED  BY <2>4, <2>5
<1>20. \A y, z : y \notin A \cup B /\ z \notin A \cup B
                   => (Ahead(r, y, z) <=> Ahead(t.stack, y, z))
  BY <1>6, <1>8, <1>13
<1> QED  BY <1>10, <1>13, <1>14, <1>15, <1>19, <1>20 DEF rev, Around

LEMMA AroundStays ==
  ASSUME NEW r, NEW t, NEW u, SameLinks(t, u), NEW p,
         NEW below \in Seq(Surfaces), NEW above \in Seq(Surfaces), Around(r, t, p, below, above)
  PROVE  Around(r, u, p, below, above)
<1>1. Len(below) \in Nat /\ Len(above) \in Nat  BY LenProperties
<1>2. \A j \in 1 .. Len(below) : below[j] \in Surfaces  BY ElementOfSeq
<1>3. \A j \in 1 .. Len(above) : above[j] \in Surfaces  BY ElementOfSeq
<1>6. \A j \in 1 .. Len(below) : u.surf[below[j]].view = t.surf[below[j]].view  BY <1>2 DEF SameLinks
<1>7. \A j \in 1 .. Len(above) : u.surf[above[j]].view = t.surf[above[j]].view  BY <1>3 DEF SameLinks
<1>8. ASSUME NEW j \in 1 .. Len(below), u.surf[below[j]].view
      PROVE  /\ Ahead(r, p, below[j])
             /\ \A i \in 1 .. j - 1 : u.surf[below[i]].view => Ahead(r, below[j], below[i])
  <2>1. \A i \in 1 .. j - 1 : i \in 1 .. Len(below)  BY <1>1
  <2> QED  BY <1>6, <1>8, <2>1 DEF Around
<1>9. ASSUME NEW j \in 1 .. Len(above), u.surf[above[j]].view
      PROVE  /\ Ahead(r, above[j], p)
             /\ \A i \in 1 .. j - 1 : u.surf[above[i]].view => Ahead(r, above[j], above[i])
  <2>1. \A i \in 1 .. j - 1 : i \in 1 .. Len(above)  BY <1>1
  <2> QED  BY <1>7, <1>9, <2>1 DEF Around
<1> QED  BY <1>8, <1>9 DEF Around

LEMMA ParentCommitHolds ==
  ASSUME NEW t, Good(t), NEW p \in Surfaces
  PROVE  /\ Good(ParentCommit(t, p))
         /\ Reordered(t, ParentCommit(t, p), p)
         /\ SameContent(t, ParentCommit(t, p), {})
         /\ Adding(t, ParentCommit(t, p))
<1> DEFINE o == t.order[p]
           below == o.pendingBelow
           above == o.pendingAbove
           new == [o EXCEPT !.below = below, !.above = above]
           orders == [t.order EXCEPT ![p] = new]
           ordered == [t EXCEPT !.order[p].below = below, !.order[p].above = above]
           stacked == IF t.surf[p].view
                      THEN Restack(Restack(ordered, p, Reverse(below), FALSE), p, above, TRUE)
                      ELSE ordered
           B == ToSet(below)
           A == ToSet(above)
           children == B \cup A
           surfs == [x \in Surfaces |->
                       IF x \in children THEN [t.surf[x] EXCEPT !.added = TRUE] ELSE t.surf[x]]
           added == [stacked EXCEPT !.surf = surfs]
           u == UpdateVisibility(added, children)
<1>1. ParentCommit(t, p) = u  BY DEF ParentCommit
<1>2. /\ t \in States /\ Stacked(t) /\ Listed(t) /\ Linked(t) /\ Together(t)
      /\ \A x \in Surfaces : t.surf[x] \in SurfaceStates
  BY DEF Good, Sane, States
<1>3. /\ ListOf(below, B) /\ ListOf(above, A) /\ A \cap B = {}
      /\ children = Children(t, p)
  BY <1>2 DEF Listed, Orderly
<1>4. B \in SUBSET Surfaces /\ A \in SUBSET Surfaces /\ children \in SUBSET Surfaces
  BY <1>3 DEF Children
<1>5. p \notin A /\ p \notin B
  <2>1. t.surf[p].parent # p  BY <1>2 DEF Linked, LinkedAt
  <2> QED  BY <1>3, <2>1 DEF Children
<1>6. t.order \in [Surfaces -> ChildLists] /\ o \in ChildLists /\ new \in ChildLists
  BY <1>2 DEF States, ChildLists
<1>7. /\ new.below = below /\ new.above = above
      /\ new.pendingBelow = below /\ new.pendingAbove = above
  BY <1>6 DEF ChildLists
<1>8. ordered = [t EXCEPT !.order = orders]
  BY <1>2, <1>6 DEF States, ChildLists
<1>9. orders \in [Surfaces -> ChildLists]
  <2> HIDE DEF new
  <2> QED  BY <1>6
<1> HIDE DEF orders, ordered, surfs
<1>10. /\ ordered \in States /\ ordered.surf = t.surf /\ ordered.order = orders
       /\ ordered.stack = t.stack
  BY <1>2, <1>8, <1>9 DEF States
<1>11. Stacked(ordered) /\ Viewed(ordered) = Viewed(t)
  BY <1>2, <1>10 DEF Stacked, Viewed
<1> HIDE DEF B, A
<1>12. \E r : /\ stacked = [ordered EXCEPT !.stack = r]
              /\ ListOf(r, Viewed(t))
              /\ \A y, z : y \notin children /\ z \notin children
                             => (Ahead(r, y, z) <=> Ahead(t.stack, y, z))
              /\ t.surf[p].view => Around(r, t, p, below, above)
  <2>1. CASE ~t.surf[p].view
    <3>1. stacked = [ordered EXCEPT !.stack = t.stack]
      BY <2>1, <1>10 DEF States
    <3>2. ListOf(t.stack, Viewed(t))  BY <1>2 DEF Stacked
    <3> QED  BY <2>1, <3>1, <3>2
  <2>2. CASE t.surf[p].view
    <3>1. p \in Viewed(ordered)  BY <2>2, <1>10 DEF Viewed
    <3> HIDE DEF below, above
    <3>2. \E r : /\ Restack(Restack(ordered, p, Reverse(below), FALSE), p, above, TRUE)
                      = [ordered EXCEPT !.stack = r]
                 /\ ListOf(r, Viewed(ordered))
                 /\ \A y, z : y \notin A \cup B /\ z \notin A \cup B
                                => (Ahead(r, y, z) <=> Ahead(ordered.stack, y, z))
                 /\ Around(r, ordered, p, below, above)
      <4>1. /\ ListOf(below, B) /\ ListOf(above, A) /\ A \cap B = {} /\ p \notin A /\ p \notin B
            /\ B \in SUBSET Surfaces /\ A \in SUBSET Surfaces /\ ordered \in States /\ Stacked(ordered)
        BY <1>3, <1>4, <1>5, <1>10, <1>11
      <4> HIDE DEF children
      <4> QED  BY <3>1, <4>1, BothSides
    <3>3. A \cup B = children  OBVIOUS
    <3> HIDE DEF children
    <3> QED  BY <2>2, <3>2, <3>3, <1>10, <1>11 DEF Around
  <2> QED  BY <2>1, <2>2
<1>13. PICK r : /\ stacked = [ordered EXCEPT !.stack = r]
                /\ ListOf(r, Viewed(t))
                /\ \A y, z : y \notin children /\ z \notin children
                               => (Ahead(r, y, z) <=> Ahead(t.stack, y, z))
                /\ t.surf[p].view => Around(r, t, p, below, above)
  BY <1>12
<1>14. r \in Seq(Surfaces)  BY <1>13 DEF ListOf
<1> HIDE DEF stacked, children
<1>15. surfs \in [Surfaces -> SurfaceStates]
       /\ \A x \in Surfaces : surfs[x] = [t.surf[x] EXCEPT !.added = (x \in children \/ t.surf[x].added)]
  <2>1. ASSUME NEW x \in Surfaces
        PROVE  /\ (IF x \in children THEN [t.surf[x] EXCEPT !.added = TRUE] ELSE t.surf[x])
                   = [t.surf[x] EXCEPT !.added = (x \in children \/ t.surf[x].added)]
               /\ [t.surf[x] EXCEPT !.added = (x \in children \/ t.surf[x].added)] \in SurfaceStates
    <3>1. t.surf[x] \in SurfaceStates  BY <1>2
    <3> QED  BY <3>1 DEF SurfaceStates
  <2> QED  BY <2>1 DEF surfs
<1>16. added \in States /\ added.surf = surfs /\ added.order = orders /\ added.stack = r
  BY <1>10, <1>13, <1>14, <1>15 DEF States
<1> HIDE DEF added
<1>17. \A x \in Surfaces : 
         /\ added.surf[x].view = t.surf[x].view /\ added.surf[x].window = t.surf[x].window
         /\ added.surf[x].role = t.surf[x].role /\ added.surf[x].parent = t.surf[x].parent
         /\ added.surf[x].above = t.surf[x].above /\ added.surf[x].visible = t.surf[x].visible
         /\ added.surf[x].sync = t.surf[x].sync /\ added.surf[x].buffer = t.surf[x].buffer
         /\ added.surf[x].pending = t.surf[x].pending /\ added.surf[x].cached = t.surf[x].cached
         /\ t.surf[x].added => added.surf[x].added
  <2> SUFFICES ASSUME NEW x \in Surfaces
               PROVE LET r1 == added.surf[x] IN
         /\ r1.view = t.surf[x].view /\ r1.window = t.surf[x].window
         /\ r1.role = t.surf[x].role /\ r1.parent = t.surf[x].parent
         /\ r1.above = t.surf[x].above /\ r1.visible = t.surf[x].visible
         /\ r1.sync = t.surf[x].sync /\ r1.buffer = t.surf[x].buffer
         /\ r1.pending = t.surf[x].pending /\ r1.cached = t.surf[x].cached
         /\ t.surf[x].added => r1.added
    OBVIOUS
  <2>1. t.surf[x] \in SurfaceStates /\ added.surf[x] = [t.surf[x] EXCEPT !.added = (x \in children \/ t.surf[x].added)]
    BY <1>2, <1>15, <1>16
  <2> QED  BY <2>1 DEF SurfaceStates
<1>18. /\ SameLinks(t, added) /\ SameModes(t, added) /\ SameSight(t, added)
       /\ SameContent(t, added, {}) /\ Adding(t, added)
  BY <1>17 DEF SameLinks, SameModes, SameSight, SameContent, Adding
<1>19. Viewed(added) = Viewed(t) /\ \A q \in Surfaces : Children(added, q) = Children(t, q)
  BY <1>17 DEF Viewed, Children
<1>20. \A q \in Surfaces : added.order[q] = IF q = p THEN new ELSE t.order[q]
  <2> HIDE DEF new
  <2> QED  BY <1>6, <1>16 DEF orders
<1>21. Listed(added)
  <2>1. ASSUME NEW q \in Surfaces PROVE Orderly(added.order[q], Children(t, q))
    <3>1. CASE q = p
      <4>1. added.order[q] = new  BY <1>20, <3>1
      <4> QED  BY <4>1, <1>3, <1>7, <3>1 DEF Orderly, children, A, B
    <3>2. CASE q # p  BY <3>2, <1>2, <1>20 DEF Listed
    <3> QED  BY <3>1, <3>2
  <2> QED  BY <1>19, <2>1 DEF Listed
<1>22. Good(added)
  <2>1. Linked(added)  BY <1>2, <1>18 DEF Linked, LinkedAt, SameLinks
  <2>2. Together(added)  BY <1>2, <1>18, TogetherStays
  <2>3. Stacked(added)  BY <1>13, <1>16, <1>19 DEF Stacked
  <2> QED  BY <1>16, <1>21, <2>1, <2>2, <2>3 DEF Good, Sane
<1>23. OnlyVisible(added, u) /\ Good(u)  BY <1>4, <1>22, UpdateVisibilityHolds
<1> HIDE DEF u
<1>24. /\ SameLinks(t, u) /\ SameModes(t, u) /\ SameContent(t, u, {}) /\ Adding(t, u)
       /\ u.order = orders /\ u.stack = r
  BY <1>16, <1>18, <1>23 DEF OnlyVisible, SameLinks, SameModes, SameContent, Adding
<1>25. u.order[p] = new  BY <1>16, <1>20, <1>24
<1>26. t.surf[p].view => InOrder(u, p)
  <2> SUFFICES ASSUME t.surf[p].view PROVE InOrder(u, p)  OBVIOUS
  <2>1. u.order[p].below = below /\ u.order[p].above = above  BY <1>7, <1>25
  <2>2. Around(r, t, p, below, above)  BY <1>13
  <2> HIDE DEF below, above
  <2>3. below \in Seq(Surfaces) /\ above \in Seq(Surfaces)  BY <1>3 DEF ListOf
  <2>4. Around(r, u, p, below, above)  BY <1>24, <2>2, <2>3, AroundStays
  <2> QED  BY <1>24, <2>1, <2>4 DEF InOrder
<1>27. Reordered(t, u, p)
  <2>1. \A y, z : y \notin Children(t, p) /\ z \notin Children(t, p)
                     => (Ahead(u.stack, y, z) <=> Ahead(t.stack, y, z))
    BY <1>13, <1>24, <1>3
  <2>2. u.order = [t.order EXCEPT ![p] = [@ EXCEPT !.below = t.order[p].pendingBelow,
                                                   !.above = t.order[p].pendingAbove]]
    BY <1>24 DEF orders
  <2> QED  BY <1>24, <1>26, <2>1, <2>2 DEF Reordered
<1> QED  BY <1>1, <1>23, <1>24, <1>27

\* One surface is changed.
LEMMA OneChanged ==
  ASSUME NEW t \in States, NEW s \in Surfaces, NEW r \in SurfaceStates
  PROVE  /\ [t EXCEPT !.surf[s] = r] \in States
         /\ [t EXCEPT !.surf[s] = r].order = t.order
         /\ [t EXCEPT !.surf[s] = r].stack = t.stack
         /\ \A x \in Surfaces : [t EXCEPT !.surf[s] = r].surf[x] = IF x = s THEN r ELSE t.surf[x]
<1> DEFINE u == [t EXCEPT !.surf[s] = r]
<1>1. u = [t EXCEPT !.surf = [t.surf EXCEPT ![s] = r]]  OBVIOUS
<1>2. [t.surf EXCEPT ![s] = r] \in [Surfaces -> SurfaceStates]  BY DEF States
<1> HIDE DEF u
<1>3. /\ u.surf = [t.surf EXCEPT ![s] = r] /\ u.order = t.order /\ u.stack = t.stack
      /\ u \in States
  BY <1>1, <1>2 DEF States
<1>4. \A x \in Surfaces : u.surf[x] = IF x = s THEN r ELSE t.surf[x]
  BY <1>3 DEF States
<1> QED  BY <1>3, <1>4 DEF u

\* Neither a link, nor what is seen, nor the order.
Quiet(t, u) ==
    /\ u \in States
    /\ u.order = t.order /\ u.stack = t.stack
    /\ SameLinks(t, u) /\ SameSight(t, u) /\ Adding(t, u)

LEMMA QuietIsGood == ASSUME NEW t, Good(t), NEW u, Quiet(t, u) PROVE Good(u)
<1>1. u \in States /\ SameLinks(t, u) /\ SameSight(t, u) /\ Adding(t, u)
      /\ u.order = t.order /\ u.stack = t.stack
  BY DEF Quiet
<1>2. Sane(u)  BY <1>1, SaneStays DEF Good
<1>3. Together(u)  BY <1>1, TogetherStays DEF Good
<1> QED  BY <1>2, <1>3 DEF Good

\* The content and the mode of one surface.
Filled(t, s, pending, buffer, cached, sync) ==
    [t EXCEPT !.surf[s] = [t.surf[s] EXCEPT !.pending = pending, !.buffer = buffer,
                                            !.cached = cached, !.sync = sync]]

OnlyContent(t, u, s, pending, buffer, cached, sync) ==
    /\ Quiet(t, u) /\ SameContent(t, u, {s})
    /\ \A x \in Surfaces : x # s => u.surf[x] = t.surf[x]
    /\ u.surf[s].pending = pending /\ u.surf[s].buffer = buffer
    /\ u.surf[s].cached = cached /\ u.surf[s].sync = sync

LEMMA ContentIsQuiet ==
  ASSUME NEW t \in States, NEW s \in Surfaces, NEW pending \in {"nothing", "draw", "unmap"},
         NEW buffer \in BOOLEAN, NEW cached \in BOOLEAN, NEW sync \in BOOLEAN
  PROVE  OnlyContent(t, Filled(t, s, pending, buffer, cached, sync), s, pending, buffer, cached, sync)
<1> DEFINE r == [t.surf[s] EXCEPT !.pending = pending, !.buffer = buffer,
                                  !.cached = cached, !.sync = sync]
           u == [t EXCEPT !.surf[s] = r]
<1>1. t.surf[s] \in SurfaceStates  BY DEF States
<1>2. /\ r \in SurfaceStates
      /\ r.pending = pending /\ r.buffer = buffer /\ r.cached = cached /\ r.sync = sync
      /\ r.view = t.surf[s].view /\ r.window = t.surf[s].window
      /\ r.visible = t.surf[s].visible /\ r.above = t.surf[s].above
      /\ r.role = t.surf[s].role /\ r.parent = t.surf[s].parent
      /\ r.added = t.surf[s].added
  BY <1>1, ZenonT(30) DEF SurfaceStates
<1> HIDE DEF r
<1>3. /\ u \in States /\ u.order = t.order /\ u.stack = t.stack
      /\ \A x \in Surfaces : u.surf[x] = IF x = s THEN r ELSE t.surf[x]
  BY <1>2, OneChanged
<1> HIDE DEF u
<1>4. Quiet(t, u) /\ SameContent(t, u, {s})
  BY <1>2, <1>3 DEF Quiet, SameLinks, SameSight, Adding, SameContent
<1> QED  BY <1>2, <1>3, <1>4 DEF u, r, OnlyContent, Filled

LEMMA ReorderedAfterQuiet ==
  ASSUME NEW t, NEW u, NEW v, NEW p, SameLinks(t, u), SameModes(t, u),
         u.order = t.order, u.stack = t.stack, Reordered(u, v, p), p \in Surfaces
  PROVE  Reordered(t, v, p)
<1>1. Children(u, p) = Children(t, p)  BY DEF Children, SameLinks
<1>2. SameLinks(t, v) /\ SameModes(t, v)  BY DEF Reordered, SameLinks, SameModes
<1>3. u.surf[p].view = t.surf[p].view  BY DEF SameLinks
<1> QED  BY <1>1, <1>2, <1>3 DEF Reordered

LEMMA ApplyOwnHolds ==
  ASSUME NEW t, Good(t), NEW s \in Surfaces
  PROVE  /\ Good(ApplyOwn(t, s))
         /\ Reordered(t, ApplyOwn(t, s), s)
         /\ SameContent(t, ApplyOwn(t, s), {s})
         /\ Adding(t, ApplyOwn(t, s))
         /\ ApplyOwn(t, s).surf[s].pending = "nothing" /\ ~ApplyOwn(t, s).surf[s].cached
<1> DEFINE next == IF t.surf[s].pending = "nothing" THEN t.surf[s].buffer
                   ELSE t.surf[s].pending = "draw"
           sync == t.surf[s].sync
           u == Filled(t, s, "nothing", next, FALSE, sync)
           v == UpdateVisibility(u, {s})
           w == ParentCommit(v, s)
<1>1. t \in States /\ t.surf[s] \in SurfaceStates  BY DEF Good, Sane, States
<1>2. ApplyOwn(t, s) = w
  <2> DEFINE r == [t.surf[s] EXCEPT !.buffer = next, !.pending = "nothing", !.cached = FALSE]
  <2>1. [t EXCEPT !.surf[s].buffer = next, !.surf[s].pending = "nothing",
                  !.surf[s].cached = FALSE] = [t EXCEPT !.surf[s] = r]
    BY <1>1 DEF States
  <2>2. [t EXCEPT !.surf[s] = r] = u
    <3>1. r = [t.surf[s] EXCEPT !.pending = "nothing", !.buffer = next,
                                !.cached = FALSE, !.sync = sync]
      <4> HIDE DEF next
      <4> QED  BY <1>1 DEF SurfaceStates
    <3> HIDE DEF r
    <3> QED  BY <3>1 DEF Filled
  <2> QED  BY <2>1, <2>2 DEF ApplyOwn
<1>3. next \in BOOLEAN /\ sync \in BOOLEAN  BY <1>1 DEF SurfaceStates
<1>4. PICK no \in BOOLEAN : no = FALSE  OBVIOUS
<1>5. PICK nothing \in {"nothing", "draw", "unmap"} : nothing = "nothing"  OBVIOUS
<1> HIDE DEF next
<1>6. OnlyContent(t, u, s, "nothing", next, FALSE, sync)
  <2>1. OnlyContent(t, Filled(t, s, nothing, next, no, sync), s, nothing, next, no, sync)
    <3> HIDE DEF sync
    <3> QED  BY <1>1, <1>3, ContentIsQuiet
  <2> QED  BY <1>4, <1>5, <2>1
<1> HIDE DEF u, sync
<1>7. Good(u)  BY <1>6, QuietIsGood DEF OnlyContent
<1>8. SameModes(t, u)  BY <1>6 DEF SameModes, OnlyContent, sync
<1>9. OnlyVisible(u, v) /\ Good(v)
  <2>1. {s} \in SUBSET Surfaces  OBVIOUS
  <2> QED  BY <1>7, <2>1, UpdateVisibilityHolds
<1> HIDE DEF v
<1>10. Good(w) /\ Reordered(v, w, s) /\ SameContent(v, w, {}) /\ Adding(v, w)
  BY <1>9, ParentCommitHolds
<1> HIDE DEF w
<1>11. /\ SameLinks(t, v) /\ SameModes(t, v) /\ v.order = t.order /\ v.stack = t.stack
       /\ SameContent(t, v, {s}) /\ Adding(t, v)
  BY <1>6, <1>8, <1>9 DEF OnlyVisible, OnlyContent, Quiet, SameLinks, SameModes, SameContent, Adding
<1>12. Reordered(t, w, s)  BY <1>10, <1>11, ReorderedAfterQuiet
<1>13. SameContent(t, w, {s}) /\ Adding(t, w)  BY <1>10, <1>11 DEF SameContent, Adding
<1>14. w.surf[s].pending = "nothing" /\ ~w.surf[s].cached
  BY <1>6, <1>9, <1>10 DEF OnlyVisible, OnlyContent, SameContent
<1> QED  BY <1>2, <1>10, <1>12, <1>13, <1>14

\* What surface_apply_pending() goes on to, and its loop as the proof sees it.
FlushDue(t, now) ==
    {c \in Surfaces \ now.done : /\ t.surf[c].parent \in now.done
                                 /\ t.surf[c].cached /\ Synchronized(t, c)}
Flush(t, now) ==
    IF FlushDue(t, now) = {} THEN now
    ELSE LET c == CHOOSE c \in FlushDue(t, now) : TRUE
         IN [state |-> ApplyOwn(now.state, c), done |-> now.done \cup {c}]

FlushRun(g, t, s, m) ==
    g = [i \in 0 .. m |-> IF i = 0 THEN [state |-> ApplyOwn(t, s), done |-> {s}]
                          ELSE Flush(t, g[i - 1])]

LEMMA FlushRunExists ==
  ASSUME NEW t, NEW s, NEW m \in Nat
  PROVE  \E g : FlushRun(g, t, s, m)
<1> DEFINE T == {n \in Nat : ~\E g : FlushRun(g, t, s, n)}
           first == [state |-> ApplyOwn(t, s), done |-> {s}]
<1>1. T = {}
  <2> SUFFICES ASSUME T # {} PROVE FALSE
    OBVIOUS
  <2>1. T \in SUBSET Nat  OBVIOUS
  <2>2. PICK n \in T : \A k \in T : n <= k
    <3> HIDE DEF T
    <3> QED  BY <2>1, NatMin
  <2>3. n \in Nat /\ ~\E g : FlushRun(g, t, s, n)  OBVIOUS
  <2> HIDE DEF first
  <2>4. CASE n = 0
    <3> DEFINE g == [k \in 0 .. n |-> first]
    <3>1. FlushRun(g, t, s, n)
      BY <2>4 DEF FlushRun, first
    <3> QED  BY <3>1, <2>3
  <2>5. CASE n # 0
    <3>1. n - 1 \in Nat /\ n - 1 \notin T
      <4>1. n - 1 \in Nat /\ ~(n <= n - 1)  BY <2>3, <2>5
      <4> HIDE DEF T
      <4> QED  BY <4>1, <2>2
    <3>2. PICK g : FlushRun(g, t, s, n - 1)  BY <3>1
    <3> DEFINE last == Flush(t, g[n - 1])
               h == [k \in 0 .. n |-> IF k = n THEN last ELSE g[k]]
    <3>3. \A k \in 0 .. n - 1 : h[k] = g[k]  BY <2>3
    <3>4. \A k \in 0 .. n - 1 : g[k] = IF k = 0 THEN first ELSE Flush(t, g[k - 1])
      BY <3>2 DEF FlushRun, first
    <3>5. h[n] = last  BY <2>3
    <3>6. ASSUME NEW k \in 0 .. n
          PROVE  h[k] = IF k = 0 THEN first ELSE Flush(t, h[k - 1])
      <4>1. CASE k = n
        <5>1. h[n - 1] = g[n - 1]  BY <2>3, <2>5, <3>3
        <5> HIDE DEF h
        <5> QED  BY <4>1, <2>5, <3>5, <5>1
      <4>2. CASE k # n
        <5>1. k \in 0 .. n - 1 /\ (k # 0 => k - 1 \in 0 .. n - 1)  BY <2>3, <4>2
        <5>2. h[k] = g[k] /\ (k # 0 => h[k - 1] = g[k - 1])  BY <5>1, <3>3
        <5>3. g[k] = IF k = 0 THEN first ELSE Flush(t, g[k - 1])
          BY <3>4, <5>1
        <5> HIDE DEF h
        <5> QED  BY <5>2, <5>3
      <4> QED  BY <4>1, <4>2
    <3>7. h = [k \in 0 .. n |-> h[k]]  OBVIOUS
    <3> HIDE DEF h
    <3>8. h = [k \in 0 .. n |-> IF k = 0 THEN first ELSE Flush(t, h[k - 1])]
      BY <3>6, <3>7
    <3>9. FlushRun(h, t, s, n)  BY <3>8 DEF FlushRun, first
    <3> QED  BY <3>9, <2>3
  <2> QED  BY <2>4, <2>5
<1> QED  BY <1>1

LEMMA ApplyPendingIsLast ==
  ASSUME NEW t, NEW s
  PROVE  \E g, n : n \in Nat /\ FlushRun(g, t, s, n) /\ ApplyPending(t, s) = g[n].state
<1> DEFINE n == Cardinality(Surfaces)
           g == CHOOSE g : FlushRun(g, t, s, n)
<1>1. n \in Nat  BY SurfaceAssumption, FS_CardinalityType
<1>2. \E h : FlushRun(h, t, s, n)
  <2> HIDE DEF n
  <2> QED  BY <1>1, FlushRunExists
<1>3. FlushRun(g, t, s, n)
  <2> HIDE DEF n
  <2> QED  BY <1>2
<1>4. ApplyPending(t, s) = g[n].state
  BY DEF ApplyPending, FlushRun, Flush, FlushDue
<1> QED  BY <1>1, <1>3, <1>4

\* The links from a subsurface to its parent lead to surfaces.
LEMMA UpwardIs ==
  ASSUME NEW t \in States
  PROVE  /\ \A e \in Upward(t) : /\ e[1] \in Surfaces /\ e[2] \in Surfaces
                                 /\ t.surf[e[1]].role /\ e[2] = t.surf[e[1]].parent
         /\ \A x \in Surfaces : t.surf[x].role /\ t.surf[x].parent # None
              => <<x, t.surf[x].parent>> \in Upward(t)
<1>1. \A x \in Surfaces : t.surf[x] \in SurfaceStates  BY DEF States
<1>2. \A x \in Surfaces : t.surf[x].parent \in Surfaces \cup {None}  BY <1>1 DEF SurfaceStates
<1>3. ASSUME NEW e \in Upward(t)
      PROVE  /\ e[1] \in Surfaces /\ e[2] \in Surfaces
             /\ t.surf[e[1]].role /\ e[2] = t.surf[e[1]].parent
  <2>1. PICK x \in Surfaces : /\ t.surf[x].role /\ t.surf[x].parent # None
                              /\ e = <<x, t.surf[x].parent>>
    BY DEF Upward
  <2> QED  BY <1>2, <2>1
<1>4. \A x \in Surfaces : t.surf[x].role /\ t.surf[x].parent # None
              => <<x, t.surf[x].parent>> \in Upward(t)
  BY DEF Upward
<1> QED  BY <1>3, <1>4

LEMMA UpwardStays ==
  ASSUME NEW t, NEW u, SameLinks(t, u)
  PROVE  Upward(u) = Upward(t)
  BY DEF Upward, SameLinks

\* The line of a surface: what it hangs from, itself included.
LineIn(t, s) == Reach({s}, Upward(t))

LEMMA LineIs ==
  ASSUME NEW t \in States, NEW x \in Surfaces
  PROVE  /\ x \in LineIn(t, x)
         /\ LineIn(t, x) \subseteq Surfaces
         /\ \A y \in LineIn(t, x) : LineIn(t, y) \subseteq LineIn(t, x)
         /\ t.surf[x].role /\ t.surf[x].parent # None => t.surf[x].parent \in LineIn(t, x)
         /\ ~t.surf[x].role => LineIn(t, x) = {x}
<1>1. \A y \in Surfaces : {y} \in SUBSET Surfaces  OBVIOUS
<1>2. \A y \in Surfaces : /\ LineIn(t, y) \subseteq Surfaces
                          /\ y \in LineIn(t, y)
                          /\ \A e \in Upward(t) : e[1] \in LineIn(t, y) => e[2] \in LineIn(t, y)
                          /\ \A S \in SUBSET Surfaces :
                               y \in S /\ (\A e \in Upward(t) : e[1] \in S => e[2] \in S)
                                 => LineIn(t, y) \subseteq S
  <2> SUFFICES ASSUME NEW y \in Surfaces
               PROVE  /\ LineIn(t, y) \subseteq Surfaces
                      /\ y \in LineIn(t, y)
                      /\ \A e \in Upward(t) : e[1] \in LineIn(t, y) => e[2] \in LineIn(t, y)
                      /\ \A S \in SUBSET Surfaces :
                           y \in S /\ (\A e \in Upward(t) : e[1] \in S => e[2] \in S)
                             => LineIn(t, y) \subseteq S
    OBVIOUS
  <2> DEFINE start == {y}
  <2>1. start \in SUBSET Surfaces  OBVIOUS
  <2>2. \A S : y \in S => start \subseteq S  OBVIOUS
  <2>3. y \in start  OBVIOUS
  <2>4. LineIn(t, y) = Reach(start, Upward(t))  BY DEF LineIn
  <2> HIDE DEF start
  <2>5. /\ Reach(start, Upward(t)) \subseteq Surfaces
        /\ start \subseteq Reach(start, Upward(t))
        /\ \A e \in Upward(t) : e[1] \in Reach(start, Upward(t)) /\ e[2] \in Surfaces
             => e[2] \in Reach(start, Upward(t))
        /\ \A S \in SUBSET Surfaces :
             start \subseteq S /\ (\A e \in Upward(t) : e[1] \in S => e[2] \in S)
               => Reach(start, Upward(t)) \subseteq S
    BY <2>1, ReachIs
  <2> QED  BY <2>2, <2>3, <2>4, <2>5, UpwardIs
<1>3. ASSUME NEW y \in LineIn(t, x) PROVE LineIn(t, y) \subseteq LineIn(t, x)
  BY <1>2
<1>4. t.surf[x].role /\ t.surf[x].parent # None => t.surf[x].parent \in LineIn(t, x)
  <2> SUFFICES ASSUME t.surf[x].role, t.surf[x].parent # None PROVE t.surf[x].parent \in LineIn(t, x)
    OBVIOUS
  <2> DEFINE e == <<x, t.surf[x].parent>>
  <2>1. e \in Upward(t) /\ e[1] = x /\ e[2] = t.surf[x].parent  BY UpwardIs
  <2> HIDE DEF e
  <2> QED  BY <1>2, <2>1
<1>5. ASSUME ~t.surf[x].role PROVE LineIn(t, x) = {x}
  <2>1. {x} \in SUBSET Surfaces  OBVIOUS
  <2>2. \A e \in Upward(t) : e[1] \in {x} => e[2] \in {x}  BY <1>5, UpwardIs
  <2> QED  BY <1>2, <2>1, <2>2
<1> QED  BY <1>2, <1>3, <1>4, <1>5

\* Nobody hangs from itself.
Acyclic(t) == \A x \in Surfaces : t.surf[x].parent # None => x \notin LineIn(t, t.surf[x].parent)

LEMMA AcyclicStays ==
  ASSUME NEW t, NEW u, SameLinks(t, u), Acyclic(t)
  PROVE  Acyclic(u)
<1>1. Upward(u) = Upward(t)  BY UpwardStays
<1> QED  BY <1>1 DEF Acyclic, LineIn, SameLinks

Committed(o) == [o EXCEPT !.below = o.pendingBelow, !.above = o.pendingAbove]

LEMMA ReorderedIs ==
  ASSUME NEW t \in States, NEW u, NEW p \in Surfaces, Reordered(t, u, p)
  PROVE  \A q \in Surfaces : u.order[q] = IF q = p THEN Committed(t.order[p]) ELSE t.order[q]
<1>1. t.order \in [Surfaces -> ChildLists]  BY DEF States
<1>2. u.order = [t.order EXCEPT ![p] = [@ EXCEPT !.below = t.order[p].pendingBelow,
                                                 !.above = t.order[p].pendingAbove]]
  BY DEF Reordered
<1>3. u.order = [t.order EXCEPT ![p] = Committed(t.order[p])]  BY <1>2 DEF Committed
<1> QED  BY <1>1, <1>3

\* The children of another surface move; those of p and p itself are none of these.
LEMMA InOrderStays ==
  ASSUME NEW t, Good(t), NEW u, NEW c \in Surfaces, Reordered(t, u, c),
         NEW p \in Surfaces, p # c, t.surf[p].parent # c, InOrder(t, p)
  PROVE  InOrder(u, p)
<1> DEFINE below == t.order[p].below
           above == t.order[p].above
<1>1. t \in States /\ Listed(t) /\ SameLinks(t, u)  BY DEF Good, Sane, Reordered
<1>2. u.order[p] = t.order[p]
  <2>1. t \in States  BY <1>1
  <2> QED  BY <2>1, ReorderedIs
<1>3. below \in Seq(Surfaces) /\ above \in Seq(Surfaces)
  BY <1>1 DEF Listed, Orderly, ListOf
<1>4. ToSet(below) \subseteq Children(t, p) /\ ToSet(above) \subseteq Children(t, p)
  BY <1>1 DEF Listed, Orderly
<1>5. \A x \in Children(t, p) : x \notin Children(t, c)  BY DEF Children
<1>6. p \notin Children(t, c)  BY DEF Children
<1>7. /\ \A j \in 1 .. Len(below) : below[j] \notin Children(t, c)
      /\ \A j \in 1 .. Len(above) : above[j] \notin Children(t, c)
  <2> HIDE DEF below, above
  <2>1. DOMAIN below = 1 .. Len(below) /\ DOMAIN above = 1 .. Len(above)  BY <1>3, LenProperties
  <2>2. \A j \in 1 .. Len(below) : below[j] \in ToSet(below)  BY <2>1 DEF ToSet
  <2>3. \A j \in 1 .. Len(above) : above[j] \in ToSet(above)  BY <2>1 DEF ToSet
  <2> QED  BY <1>4, <1>5, <2>2, <2>3
<1>8. Around(t.stack, t, p, below, above)  BY DEF InOrder
<1> HIDE DEF below, above
<1>9. \A y, z : y \notin Children(t, c) /\ z \notin Children(t, c)
                  => (Ahead(u.stack, y, z) <=> Ahead(t.stack, y, z))
  BY DEF Reordered
<1>10. Len(below) \in Nat /\ Len(above) \in Nat  BY <1>3, LenProperties
<1>11. ASSUME NEW j \in 1 .. Len(below), t.surf[below[j]].view
       PROVE  /\ Ahead(u.stack, p, below[j])
              /\ \A i \in 1 .. j - 1 : t.surf[below[i]].view => Ahead(u.stack, below[j], below[i])
  <2>1. \A i \in 1 .. j - 1 : i \in 1 .. Len(below)  BY <1>10
  <2>2. /\ Ahead(t.stack, p, below[j])
        /\ \A i \in 1 .. j - 1 : t.surf[below[i]].view => Ahead(t.stack, below[j], below[i])
    BY <1>8, <1>11 DEF Around
  <2> QED  BY <1>6, <1>7, <1>9, <2>1, <2>2
<1>12. ASSUME NEW j \in 1 .. Len(above), t.surf[above[j]].view
       PROVE  /\ Ahead(u.stack, above[j], p)
              /\ \A i \in 1 .. j - 1 : t.surf[above[i]].view => Ahead(u.stack, above[j], above[i])
  <2>1. \A i \in 1 .. j - 1 : i \in 1 .. Len(above)  BY <1>10
  <2>2. /\ Ahead(t.stack, above[j], p)
        /\ \A i \in 1 .. j - 1 : t.surf[above[i]].view => Ahead(t.stack, above[j], above[i])
    BY <1>8, <1>12 DEF Around
  <2> QED  BY <1>6, <1>7, <1>9, <2>1, <2>2
<1>13. Around(u.stack, t, p, below, above)  BY <1>11, <1>12 DEF Around
<1>14. Around(u.stack, u, p, below, above)  BY <1>1, <1>3, <1>13, AroundStays
<1> QED  BY <1>2, <1>14 DEF InOrder, below, above

\* What holds while a commit of s is applied to it and what hangs from it.
Flushed(t, s, u, done) ==
    /\ Good(u)
    /\ done \in SUBSET Surfaces /\ s \in done
    /\ SameLinks(t, u) /\ SameModes(t, u) /\ SameContent(t, u, done)
    /\ \A c \in done : ~u.surf[c].cached
    /\ \A c \in done : s \in LineIn(t, c) /\ (c = s \/ t.surf[c].parent \in done)
    /\ \A q \in Surfaces : u.order[q] = IF q \in done THEN Committed(t.order[q]) ELSE t.order[q]
    /\ Acyclic(t) => \A q \in done : t.surf[q].view => InOrder(u, q)

LEMMA FlushHolds ==
  ASSUME NEW t, Good(t), NEW s \in Surfaces, NEW now, Flushed(t, s, now.state, now.done)
  PROVE  Flushed(t, s, Flush(t, now).state, Flush(t, now).done)
<1> DEFINE due == FlushDue(t, now)
           c == CHOOSE c \in due : TRUE
           u == now.state
           v == ApplyOwn(u, c)
           done == now.done
<1>1. CASE due = {}  BY <1>1 DEF Flush
<1>2. CASE due # {}
  <2>1. Flush(t, now) = [state |-> v, done |-> done \cup {c}]  BY <1>2 DEF Flush
  <2>2. c \in due  BY <1>2
  <2>3. c \in Surfaces /\ c \notin done /\ t.surf[c].parent \in done  BY <2>2 DEF FlushDue
  <2>4. /\ Good(u) /\ done \in SUBSET Surfaces /\ s \in done
        /\ SameLinks(t, u) /\ SameModes(t, u) /\ SameContent(t, u, done)
        /\ \A x \in done : ~u.surf[x].cached
        /\ \A x \in done : s \in LineIn(t, x) /\ (x = s \/ t.surf[x].parent \in done)
        /\ \A q \in Surfaces : u.order[q] = IF q \in done THEN Committed(t.order[q]) ELSE t.order[q]
        /\ Acyclic(t) => \A q \in done : t.surf[q].view => InOrder(u, q)
    BY DEF Flushed
  <2> HIDE DEF c, u, done, due
  <2>5. /\ Good(v) /\ Reordered(u, v, c) /\ SameContent(u, v, {c}) /\ ~v.surf[c].cached
    BY <2>3, <2>4, ApplyOwnHolds
  <2> HIDE DEF v
  <2>6. SameLinks(u, v) /\ SameModes(u, v)  BY <2>5 DEF Reordered
  <2>7. /\ SameLinks(t, v) /\ SameModes(t, v) /\ SameContent(t, v, done \cup {c})
    BY <2>4, <2>5, <2>6 DEF SameLinks, SameModes, SameContent
  <2>8. t \in States /\ Linked(t) /\ u \in States  BY <2>4 DEF Good, Sane
  <2>9. s \in LineIn(t, c)
    <3> DEFINE p == t.surf[c].parent
    <3>1. p \in Surfaces /\ p # None  BY <2>3, <2>4, SurfaceAssumption
    <3>2. t.surf[c].role  BY <2>3, <2>8, <3>1 DEF Linked, LinkedAt
    <3>3. t \in States  BY <2>8
    <3>4. p \in LineIn(t, c)  BY <2>3, <3>1, <3>2, <3>3, LineIs
    <3>5. LineIn(t, p) \subseteq LineIn(t, c)
      <4> HIDE DEF p
      <4> QED  BY <2>3, <3>3, <3>4, LineIs
    <3> QED  BY <2>3, <2>4, <3>5
  <2>10. ASSUME NEW q \in Surfaces
         PROVE  v.order[q] = IF q \in done \cup {c} THEN Committed(t.order[q]) ELSE t.order[q]
    <3>1. v.order[q] = IF q = c THEN Committed(u.order[c]) ELSE u.order[q]
      <4>1. u \in States  BY <2>8
      <4> QED  BY <2>3, <2>5, <4>1, ReorderedIs
    <3>2. u.order[c] = t.order[c]  BY <2>3, <2>4
    <3> QED  BY <2>4, <3>1, <3>2
  <2>11. ASSUME Acyclic(t), NEW q \in done \cup {c}, t.surf[q].view PROVE InOrder(v, q)
    <3>1. CASE q = c
      <4>1. u.surf[c].view  BY <2>3, <2>4, <2>11, <3>1 DEF SameLinks
      <4> QED  BY <2>5, <3>1, <4>1 DEF Reordered
    <3>2. CASE q # c
      <4>1. q \in done /\ q \in Surfaces  BY <2>4, <2>11, <3>2
      <4>2. InOrder(u, q)  BY <2>4, <2>11, <4>1
      <4>3. t.surf[q].parent # c
        <5>1. CASE q # s  BY <5>1, <2>3, <2>4, <4>1
        <5>2. CASE q = s
          <6> SUFFICES ASSUME t.surf[s].parent = c PROVE FALSE  BY <5>2
          <6>1. c # None  BY <2>3, SurfaceAssumption
          <6> QED  BY <2>9, <2>11, <6>1 DEF Acyclic
        <5> QED  BY <5>1, <5>2
      <4>4. u.surf[q].parent # c  BY <2>4, <4>1, <4>3 DEF SameLinks
      <4> QED  BY <2>3, <2>4, <2>5, <3>2, <4>1, <4>2, <4>4, InOrderStays
    <3> QED  BY <3>1, <3>2
  <2>12. ASSUME NEW x \in done \cup {c}
         PROVE  s \in LineIn(t, x) /\ (x = s \/ t.surf[x].parent \in done \cup {c})
    BY <2>3, <2>4, <2>9
  <2>13. \A x \in done \cup {c} : ~v.surf[x].cached  BY <2>3, <2>4, <2>5 DEF SameContent
  <2>14. Flushed(t, s, v, done \cup {c})
    BY <2>3, <2>4, <2>5, <2>7, <2>10, <2>11, <2>12, <2>13 DEF Flushed
  <2>15. Flush(t, now).state = v /\ Flush(t, now).done = done \cup {c}  BY <2>1
  <2> QED  BY <2>14, <2>15
<1> QED  BY <1>1, <1>2

\* A commit that is applied.
LEMMA ApplyPendingHolds ==
  ASSUME NEW t, Good(t), NEW s \in Surfaces
  PROVE  \E done : Flushed(t, s, ApplyPending(t, s), done)
<1>1. PICK g, m : m \in Nat /\ FlushRun(g, t, s, m) /\ ApplyPending(t, s) = g[m].state
  BY ApplyPendingIsLast
<1> DEFINE T == {n \in 0 .. m : ~Flushed(t, s, g[n].state, g[n].done)}
<1>2. T = {}
  <2> SUFFICES ASSUME T # {} PROVE FALSE
    OBVIOUS
  <2>1. T \in SUBSET Nat  BY <1>1
  <2>2. PICK n \in T : \A k \in T : n <= k
    <3> HIDE DEF T
    <3> QED  BY <2>1, NatMin
  <2>3. n \in 0 .. m /\ ~Flushed(t, s, g[n].state, g[n].done)  OBVIOUS
  <2>4. g[n] = IF n = 0 THEN [state |-> ApplyOwn(t, s), done |-> {s}] ELSE Flush(t, g[n - 1])
    BY <1>1, <2>3 DEF FlushRun
  <2>5. CASE n = 0
    <3> DEFINE v == ApplyOwn(t, s)
    <3>1. /\ Good(v) /\ Reordered(t, v, s) /\ SameContent(t, v, {s}) /\ ~v.surf[s].cached
      BY ApplyOwnHolds
    <3> HIDE DEF v
    <3>2. t \in States  BY DEF Good, Sane
    <3>3. \A q \in Surfaces : v.order[q] = IF q \in {s} THEN Committed(t.order[q]) ELSE t.order[q]
      <4>1. \A q \in Surfaces : v.order[q] = IF q = s THEN Committed(t.order[s]) ELSE t.order[q]
        BY <3>1, <3>2, ReorderedIs
      <4> QED  BY <4>1
    <3>4. s \in LineIn(t, s)  BY <3>2, LineIs
    <3>5. t.surf[s].view => InOrder(v, s)  BY <3>1 DEF Reordered
    <3>6. Flushed(t, s, v, {s})
      BY <3>1, <3>3, <3>4, <3>5 DEF Flushed, Reordered
    <3>7. g[n].state = v /\ g[n].done = {s}  BY <2>4, <2>5 DEF v
    <3> QED  BY <2>3, <3>6, <3>7
  <2>6. CASE n # 0
    <3>1. n - 1 \in 0 .. m /\ ~(n <= n - 1)  BY <1>1, <2>3, <2>6
    <3>2. n - 1 \notin T
      <4> HIDE DEF T
      <4> QED  BY <2>2, <3>1
    <3> DEFINE now == g[n - 1]
    <3>3. Flushed(t, s, now.state, now.done)  BY <3>1, <3>2
    <3>4. g[n] = Flush(t, now)  BY <2>4, <2>6
    <3> HIDE DEF now
    <3>5. Flushed(t, s, Flush(t, now).state, Flush(t, now).done)  BY <3>3, FlushHolds
    <3> QED  BY <2>3, <3>4, <3>5
  <2> QED  BY <2>5, <2>6
<1>3. m \in 0 .. m  BY <1>1
<1>4. Flushed(t, s, g[m].state, g[m].done)  BY <1>2, <1>3
<1> QED  BY <1>1, <1>4

-----------------------------------------------------------------------------
(* Links that are made and broken.                                         *)

\* Every link upward was there before.
FewerLinks(t, u) ==
    \A x \in Surfaces : /\ u.surf[x].role => t.surf[x].role
                        /\ u.surf[x].parent \in {None, t.surf[x].parent}

LEMMA AcyclicShrinks ==
  ASSUME NEW t \in States, NEW u \in States, FewerLinks(t, u), Acyclic(t)
  PROVE  Acyclic(u)
<1>1. Upward(u) \subseteq Upward(t)  BY DEF Upward, FewerLinks
<1>2. ASSUME NEW y \in Surfaces PROVE LineIn(u, y) \subseteq LineIn(t, y)
  <2>1. {y} \in SUBSET Surfaces  OBVIOUS
  <2>2. LineIn(t, y) \subseteq Surfaces /\ y \in LineIn(t, y)  BY LineIs
  <2>3. \A e \in Upward(t) : e[2] \in Surfaces  BY UpwardIs
  <2>4. \A e \in Upward(t) : e[1] \in LineIn(t, y) => e[2] \in LineIn(t, y)
    BY <2>1, <2>3, ReachIs DEF LineIn
  <2>5. \A e \in Upward(u) : e[1] \in LineIn(t, y) => e[2] \in LineIn(t, y)  BY <1>1, <2>4
  <2>6. {y} \subseteq LineIn(t, y)  BY <2>2
  <2> DEFINE S == LineIn(t, y)
  <2>7. S \in SUBSET Surfaces /\ {y} \subseteq S /\ \A e \in Upward(u) : e[1] \in S => e[2] \in S
    BY <2>2, <2>5, <2>6
  <2> HIDE DEF S
  <2>8. Reach({y}, Upward(u)) \subseteq S  BY <2>1, <2>7, ReachIs
  <2> QED  BY <2>8 DEF LineIn, S
<1>3. ASSUME NEW x \in Surfaces, u.surf[x].parent # None PROVE x \notin LineIn(u, u.surf[x].parent)
  <2>1. u.surf[x].parent = t.surf[x].parent  BY <1>3 DEF FewerLinks
  <2>2. u.surf[x] \in SurfaceStates  BY DEF States
  <2>3. u.surf[x].parent \in Surfaces  BY <1>3, <2>2 DEF SurfaceStates
  <2> QED  BY <1>2, <1>3, <2>1, <2>3 DEF Acyclic
<1> QED  BY <1>3 DEF Acyclic

\* A link to somebody who does not hang from the linked makes no circle.
LEMMA AcyclicGrows ==
  ASSUME NEW t \in States, NEW u \in States, Acyclic(t),
         \A x \in Surfaces : ~t.surf[x].role => t.surf[x].parent = None,
         NEW s \in Surfaces, NEW p \in Surfaces, s # p, s \notin LineIn(t, p), ~t.surf[s].role,
         \A x \in Surfaces : x # s => /\ u.surf[x].role = t.surf[x].role
                                      /\ u.surf[x].parent = t.surf[x].parent,
         u.surf[s].role, u.surf[s].parent = p
  PROVE  Acyclic(u)
<1>1. \A e \in Upward(u) : e \in Upward(t) \/ e = <<s, p>>  BY DEF Upward
<1>2. \A y \in Surfaces : /\ LineIn(t, y) \subseteq Surfaces /\ y \in LineIn(t, y)
                          /\ \A z \in LineIn(t, y) : LineIn(t, z) \subseteq LineIn(t, y)
  BY LineIs
<1>3. \A e \in Upward(t) : e[2] \in Surfaces  BY UpwardIs
<1>4. ASSUME NEW y \in Surfaces, NEW e \in Upward(t), e[1] \in LineIn(t, y) PROVE e[2] \in LineIn(t, y)
  <2>1. {y} \in SUBSET Surfaces  OBVIOUS
  <2> QED  BY <1>3, <1>4, <2>1, ReachIs DEF LineIn
<1>5. ASSUME NEW y \in Surfaces
      PROVE  LineIn(u, y) \subseteq IF s \in LineIn(t, y) THEN LineIn(t, y) \cup LineIn(t, p)
                                    ELSE LineIn(t, y)
  <2> DEFINE S == IF s \in LineIn(t, y) THEN LineIn(t, y) \cup LineIn(t, p) ELSE LineIn(t, y)
  <2>1. S \in SUBSET Surfaces /\ {y} \subseteq S  BY <1>2
  <2>2. ASSUME NEW e \in Upward(u), e[1] \in S PROVE e[2] \in S
    <3>1. CASE e \in Upward(t)  BY <1>4, <2>2, <3>1
    <3>2. CASE e = <<s, p>>  BY <1>2, <2>2, <3>2
    <3> QED  BY <1>1, <3>1, <3>2
  <2>3. {y} \in SUBSET Surfaces  OBVIOUS
  <2> HIDE DEF S
  <2>4. Reach({y}, Upward(u)) \subseteq S  BY <2>1, <2>2, <2>3, ReachIs
  <2> QED  BY <2>4 DEF LineIn, S
<1>6. ASSUME NEW x \in Surfaces, u.surf[x].parent # None PROVE x \notin LineIn(u, u.surf[x].parent)
  <2>1. CASE x = s  BY <1>5, <2>1
  <2>2. CASE x # s
    <3> DEFINE y == t.surf[x].parent
    <3>1. u.surf[x].parent = y /\ y # None /\ t.surf[x].role  BY <1>6, <2>2
    <3>2. t.surf[x] \in SurfaceStates  BY DEF States
    <3>3. y \in Surfaces  BY <3>1, <3>2 DEF SurfaceStates
    <3>4. x \notin LineIn(t, y)  BY <3>1 DEF Acyclic
    <3>5. y \in LineIn(t, x) 
      BY <3>1, LineIs
    <3>6. x \in LineIn(t, p) => s \notin LineIn(t, y)
      <4> HIDE DEF y
      <4> SUFFICES ASSUME x \in LineIn(t, p), s \in LineIn(t, y) PROVE FALSE
        OBVIOUS
      <4>1. LineIn(t, x) \subseteq LineIn(t, p)  BY <1>2
      <4>2. LineIn(t, y) \subseteq LineIn(t, p)  BY <1>2, <3>5, <4>1
      <4> QED  BY <4>2
    <3> HIDE DEF y
    <3> QED  BY <1>5, <3>1, <3>3, <3>4, <3>6
  <2> QED  BY <2>1, <2>2
<1> QED  BY <1>6 DEF Acyclic

\* Somebody with this link at the end.
LEMMA AppendIs ==
  ASSUME NEW list, NEW set, ListOf(list, set), NEW s \in Surfaces, s \notin set
  PROVE  ListOf(Append(list, s), set \cup {s})
<1>1. list \in Seq(Surfaces)  BY DEF ListOf
<1>2. Append(list, s) = list \o <<s>>  BY <1>1
<1>3. ListOf(<<s>>, {s}) /\ set \cap {s} = {}  BY OneIs
<1> QED  BY <1>2, <1>3, JoinIs

\* Losing the subsurface role.
LEMMA LoseRoleHolds ==
  ASSUME NEW t, Good(t), NEW s \in Surfaces
  PROVE  /\ Good(LoseRole(t, s))
         /\ ~LoseRole(t, s).surf[s].role
         /\ FewerLinks(t, LoseRole(t, s))
         /\ t.surf[s].role => ~LoseRole(t, s).surf[s].view /\ ~LoseRole(t, s).surf[s].cached
         /\ \A x \in Surfaces : x # s => LoseRole(t, s).surf[x].role = t.surf[x].role
         /\ \A q \in Surfaces : LoseRole(t, s).order[q]
              = IF t.surf[s].role /\ q = t.surf[s].parent THEN Unlinked(t.order[q], s) ELSE t.order[q]
         /\ \A x \in Surfaces : x # s => Content(LoseRole(t, s).surf[x]) = Content(t.surf[x])
<1>0. None \notin Surfaces /\ Gone \notin Surfaces /\ None # Gone  BY SurfaceAssumption
<1>1. CASE ~t.surf[s].role
  <2>1. LoseRole(t, s) = t  BY <1>1 DEF LoseRole
  <2> QED  BY <1>1, <2>1 DEF FewerLinks
<1>2. CASE t.surf[s].role
  <2> DEFINE p == t.surf[s].parent
             new == [t.surf[s] EXCEPT !.role = FALSE, !.parent = None, !.sync = FALSE,
                                      !.cached = FALSE, !.added = FALSE]
             orders == [q \in Surfaces |-> IF q = p THEN Unlinked(t.order[q], s) ELSE t.order[q]]
             out == [t EXCEPT !.surf[s] = [@ EXCEPT !.role = FALSE, !.parent = None, !.sync = FALSE,
                                                    !.cached = FALSE, !.added = FALSE],
                              !.order = orders]
             v == DestroyView(out, s)
  <2>1. LoseRole(t, s) = v  BY <1>2 DEF LoseRole
  <2>2. /\ t \in States /\ Stacked(t) /\ Listed(t) /\ Linked(t) /\ Together(t)
        /\ \A x \in Surfaces : t.surf[x] \in SurfaceStates
        /\ \A x \in Surfaces : t.order[x] \in ChildLists
    BY DEF Good, Sane, States
  <2>3. /\ new \in SurfaceStates /\ ~new.role /\ new.parent = None
        /\ new.view = t.surf[s].view /\ new.window = t.surf[s].window
        /\ new.visible = t.surf[s].visible /\ new.above = t.surf[s].above
    BY <2>2 DEF SurfaceStates
  <2>4. ASSUME NEW q \in Surfaces, NEW list \in {"below", "above", "pendingBelow", "pendingAbove"}
        PROVE  /\ ListOf(Without(t.order[q][list], s), ToSet(t.order[q][list]) \ {s})
               /\ Unlinked(t.order[q], s)[list] = Without(t.order[q][list], s)
    <3>1. ListOf(t.order[q][list], ToSet(t.order[q][list]))  BY <2>2 DEF Listed, Orderly
    <3>2. DOMAIN t.order[q] = {"below", "above", "pendingBelow", "pendingAbove"}
      BY <2>2 DEF ChildLists
    <3> QED  BY <3>1, <3>2, WithoutIs DEF Unlinked
  <2>5. ASSUME NEW q \in Surfaces PROVE Unlinked(t.order[q], s) \in ChildLists
    <3>1. DOMAIN t.order[q] = {"below", "above", "pendingBelow", "pendingAbove"}
      BY <2>2 DEF ChildLists
    <3>2. \A list \in {"below", "above", "pendingBelow", "pendingAbove"} :
             Without(t.order[q][list], s) \in Seq(Surfaces)
      BY <2>4 DEF ListOf
    <3> QED  BY <3>1, <3>2 DEF Unlinked, ChildLists
  <2>6. orders \in [Surfaces -> ChildLists] /\
        \A q \in Surfaces : orders[q] = IF q = p THEN Unlinked(t.order[q], s) ELSE t.order[q]
    BY <2>2, <2>5
  <2>7. out = [t EXCEPT !.surf = [t.surf EXCEPT ![s] = new], !.order = orders]
    <3> HIDE DEF orders
    <3> QED  BY <2>2 DEF States
  <2> HIDE DEF new, orders, out, v
  <2>8. /\ out \in States /\ out.order = orders /\ out.stack = t.stack
        /\ \A x \in Surfaces : out.surf[x] = IF x = s THEN new ELSE t.surf[x]
    <3>1. [t.surf EXCEPT ![s] = new] \in [Surfaces -> SurfaceStates]  BY <2>2, <2>3 DEF States
    <3>2. \A x \in Surfaces : [t.surf EXCEPT ![s] = new][x] = IF x = s THEN new ELSE t.surf[x]
      BY <2>2 DEF States
    <3> DEFINE surfs == [t.surf EXCEPT ![s] = new]
    <3> HIDE DEF surfs
    <3>3. out = [t EXCEPT !.surf = surfs, !.order = orders]  BY <2>7 DEF surfs
    <3>4. out \in States /\ out.order = orders /\ out.stack = t.stack /\ out.surf = surfs
      BY <2>2, <2>6, <3>1, <3>3 DEF States, surfs
    <3> QED  BY <3>2, <3>4 DEF surfs
  <2>9. Stacked(out)
    <3>1. Viewed(out) = Viewed(t)  BY <2>3, <2>8 DEF Viewed
    <3> QED  BY <2>2, <2>8, <3>1 DEF Stacked
  <2>10. Listed(out)
    <3> SUFFICES ASSUME NEW q \in Surfaces PROVE Orderly(out.order[q], Children(out, q))
      BY DEF Listed
    <3>1. Orderly(t.order[q], Children(t, q))  BY <2>2 DEF Listed
    <3>2. CASE q = p
      <4>1. Children(out, q) = Children(t, q) \ {s}
        BY <1>0, <2>3, <2>8, <3>2 DEF Children
      <4>2. out.order[q] = Unlinked(t.order[q], s)  BY <2>6, <2>8, <3>2
      <4>3. \A list \in {"below", "above", "pendingBelow", "pendingAbove"} :
               /\ ToSet(out.order[q][list]) = ToSet(t.order[q][list]) \ {s}
               /\ ListOf(out.order[q][list], ToSet(out.order[q][list]))
        BY <2>4, <4>2, ZenonT(30) DEF ListOf
      <4> QED  BY <3>1, <4>1, <4>3 DEF Orderly
    <3>3. CASE q # p
      <4>1. Children(out, q) = Children(t, q)
        BY <1>0, <2>3, <2>8, <3>3 DEF Children
      <4>2. out.order[q] = t.order[q]  BY <2>6, <2>8, <3>3
      <4> QED  BY <3>1, <4>1, <4>2
    <3> QED  BY <3>2, <3>3
  <2>11. ASSUME NEW x \in Surfaces, x # s PROVE LinkedAt(out, x) /\ TogetherAt(out, x)
    <3>1. out.surf[x] = t.surf[x]  BY <2>8, <2>11
    <3>2. \A y \in Surfaces : out.surf[y].visible = t.surf[y].visible  BY <2>3, <2>8
    <3>3. LinkedAt(t, x) /\ TogetherAt(t, x)  BY <2>2 DEF Linked, Together
    <3> QED  BY <3>1, <3>2, <3>3 DEF LinkedAt, TogetherAt
  <2>12. out.surf[s] = new  BY <2>8
  <2>13. t.surf[s].view  BY <1>2, <2>2 DEF Linked, LinkedAt
  <2>14. /\ v \in States
         /\ Stacked(v) /\ Linked(v) /\ Together(v)
         /\ v.order = out.order
         /\ ~v.surf[s].view
         /\ \A x \in Surfaces : /\ v.surf[x].role = out.surf[x].role
                                /\ v.surf[x].parent = out.surf[x].parent
                                /\ Content(v.surf[x]) = Content(out.surf[x])
    <3>1. out \in States  BY <2>8
    <3>2. ~out.surf[s].role /\ out.surf[s].parent = None /\ out.surf[s].view  BY <2>3, <2>12, <2>13
    <3> QED  BY <2>9, <2>11, <3>1, <3>2, DestroyViewIs DEF v
  <2>15. Listed(v)
    <3>1. \A q \in Surfaces : Children(v, q) = Children(out, q)  BY <2>14 DEF Children
    <3> QED  BY <2>10, <2>14, <3>1 DEF Listed
  <2>16. Good(v)  BY <2>14, <2>15 DEF Good, Sane
  <2>17. FewerLinks(t, v)  BY <2>3, <2>8, <2>14 DEF FewerLinks
  <2>18. ~v.surf[s].role  BY <2>3, <2>12, <2>14
  <2>19. \A x \in Surfaces : x # s => Content(v.surf[x]) = Content(t.surf[x])  BY <2>8, <2>14
  <2>20. \A q \in Surfaces : v.order[q] = IF q = p THEN Unlinked(t.order[q], s) ELSE t.order[q]
    BY <2>6, <2>8, <2>14
  <2>21. \A x \in Surfaces : x # s => v.surf[x].role = t.surf[x].role  BY <2>8, <2>14
  <2>22. ~v.surf[s].cached
    <3>1. Content(v.surf[s]) = Content(new)  BY <2>12, <2>14
    <3>2. new.cached = FALSE  BY <2>2 DEF SurfaceStates, new
    <3>3. v.surf[s].cached = new.cached  BY <3>1 DEF Content
    <3> QED  BY <3>2, <3>3
  <2> QED  BY <1>2, <2>1, <2>14, <2>16, <2>17, <2>18, <2>19, <2>20, <2>21, <2>22
<1> QED  BY <1>1, <1>2

\* Only these links differ.
OtherParents(t, u, views, above, parent) ==
    /\ u \in States /\ u.order = t.order /\ u.stack = t.stack
    /\ \A x \in Surfaces :
         /\ u.surf[x].view = t.surf[x].view /\ u.surf[x].window = t.surf[x].window
         /\ u.surf[x].visible = t.surf[x].visible /\ u.surf[x].role = t.surf[x].role
         /\ u.surf[x].added = t.surf[x].added /\ Content(u.surf[x]) = Content(t.surf[x])
         /\ u.surf[x].above = (IF x \in views THEN above ELSE t.surf[x].above)
         /\ u.surf[x].parent = (IF x \in views THEN parent ELSE t.surf[x].parent)

LEMMA SetParentsIs ==
  ASSUME NEW t \in States, NEW views, NEW above \in Surfaces \cup {None, Gone},
         NEW parent \in Surfaces \cup {None}
  PROVE  OtherParents(t, SetParents(t, views, above, parent), views, above, parent)
<1> DEFINE u == SetParents(t, views, above, parent)
           new(x) == IF x \in views THEN [t.surf[x] EXCEPT !.above = above, !.parent = parent]
                     ELSE t.surf[x]
<1>1. u = [t EXCEPT !.surf = [x \in Surfaces |-> new(x)]]  BY DEF SetParents
<1>2. ASSUME NEW x \in Surfaces
      PROVE  /\ new(x) \in SurfaceStates
             /\ new(x).view = t.surf[x].view /\ new(x).window = t.surf[x].window
             /\ new(x).visible = t.surf[x].visible /\ new(x).role = t.surf[x].role
             /\ new(x).added = t.surf[x].added /\ Content(new(x)) = Content(t.surf[x])
             /\ new(x).above = (IF x \in views THEN above ELSE t.surf[x].above)
             /\ new(x).parent = (IF x \in views THEN parent ELSE t.surf[x].parent)
  <2>1. t.surf[x] \in SurfaceStates  BY DEF States
  <2>2. CASE x \in views
    <3>1. new(x) = [t.surf[x] EXCEPT !.above = above, !.parent = parent]  BY <2>2
    <3> HIDE DEF new
    <3> QED  BY <2>1, <2>2, <3>1, ZenonT(30) DEF SurfaceStates, Content
  <2>3. CASE x \notin views  BY <2>1, <2>3
  <2> QED  BY <2>2, <2>3
<1>3. [x \in Surfaces |-> new(x)] \in [Surfaces -> SurfaceStates]  BY <1>2
<1> HIDE DEF u, new
<1>4. /\ u.surf = [x \in Surfaces |-> new(x)] /\ u.order = t.order /\ u.stack = t.stack
      /\ u \in States
  BY <1>1, <1>3 DEF States
<1>5. \A x \in Surfaces : u.surf[x] = new(x)  BY <1>4
<1> QED  BY <1>2, <1>4, <1>5 DEF u, OtherParents

\* A parent goes: only the lists of p still name its children.
LEMMA OrphanHolds ==
  ASSUME NEW t, Good(t), NEW p \in Surfaces
  PROVE  LET u == Orphan(t, p)
         IN /\ u \in States /\ Stacked(u) /\ Linked(u) /\ Together(u)
            /\ \A q \in Surfaces : q # p => Orderly(u.order[q], Children(u, q))
            /\ FewerLinks(t, u) /\ Children(u, p) = {}
            /\ \A x \in Surfaces : /\ u.surf[x].role = t.surf[x].role
                                   /\ Content(u.surf[x]) = Content(t.surf[x])
                                   /\ x = p => u.surf[x].parent = t.surf[x].parent
            /\ u.order = t.order
<1> DEFINE children == Children(t, p)
           v == SetParents(t, children, None, p)
           h == Hide(v, children)
           u == SetParents(h, children, None, None)
<1>0. None \notin Surfaces /\ Gone \notin Surfaces /\ None # Gone  BY SurfaceAssumption
<1>1. Orphan(t, p) = u  BY DEF Orphan
<1>2. /\ t \in States /\ Stacked(t) /\ Listed(t) /\ Linked(t) /\ Together(t)  BY DEF Good, Sane
<1>3. t \in States  BY <1>2
<1>4. children \in SUBSET Surfaces /\ p \notin children
  BY <1>2 DEF Children, Linked, LinkedAt
<1>5. \A x \in Surfaces : x \in children <=> t.surf[x].parent = p  BY DEF Children
<1> HIDE DEF children
<1>6. None \in Surfaces \cup {None, Gone} /\ p \in Surfaces \cup {None} /\ None \in Surfaces \cup {None}
  OBVIOUS
<1>7. /\ v \in States /\ v.order = t.order /\ v.stack = t.stack
      /\ \A x \in Surfaces :
           /\ v.surf[x].view = t.surf[x].view /\ v.surf[x].window = t.surf[x].window
           /\ v.surf[x].visible = t.surf[x].visible /\ v.surf[x].role = t.surf[x].role
           /\ v.surf[x].added = t.surf[x].added /\ Content(v.surf[x]) = Content(t.surf[x])
           /\ v.surf[x].above = (IF x \in children THEN None ELSE t.surf[x].above)
           /\ v.surf[x].parent = (IF x \in children THEN p ELSE t.surf[x].parent)
  <2>1. OtherParents(t, v, children, None, p)  BY <1>3, <1>6, SetParentsIs
  <2> HIDE DEF v
  <2> QED  BY <2>1 DEF OtherParents
<1> HIDE DEF v
<1>8. v \in States  BY <1>7
<1>9. /\ OnlyVisible(v, h)
      /\ \A x \in Surfaces : h.surf[x].visible => v.surf[x].visible
      /\ \A x \in children : ~h.surf[x].visible
      /\ \A x \in Surfaces : LET a == v.surf[x].above
           IN h.surf[x].visible /\ a \in Surfaces /\ v.surf[a].visible => h.surf[a].visible
  BY <1>4, <1>8, HideIs
<1> HIDE DEF h
<1>10. h \in States /\ h.order = t.order /\ h.stack = t.stack  BY <1>7, <1>9 DEF OnlyVisible
<1>11. h \in States  BY <1>10
<1>12. /\ u \in States /\ u.order = h.order /\ u.stack = h.stack
       /\ \A x \in Surfaces :
            /\ u.surf[x].view = h.surf[x].view /\ u.surf[x].window = h.surf[x].window
            /\ u.surf[x].visible = h.surf[x].visible /\ u.surf[x].role = h.surf[x].role
            /\ u.surf[x].added = h.surf[x].added /\ Content(u.surf[x]) = Content(h.surf[x])
            /\ u.surf[x].above = (IF x \in children THEN None ELSE h.surf[x].above)
            /\ u.surf[x].parent = (IF x \in children THEN None ELSE h.surf[x].parent)
  BY <1>6, <1>11, SetParentsIs DEF OtherParents
<1> HIDE DEF u
<1>13. \A x \in Surfaces :
         /\ h.surf[x].view = v.surf[x].view /\ h.surf[x].window = v.surf[x].window
         /\ h.surf[x].role = v.surf[x].role /\ h.surf[x].parent = v.surf[x].parent
         /\ h.surf[x].above = v.surf[x].above /\ h.surf[x].added = v.surf[x].added
         /\ Content(h.surf[x]) = Content(v.surf[x])
  BY <1>9 DEF OnlyVisible, SameLinks, SameContent, Content
<1>14. \A x \in Surfaces :
         /\ u.surf[x].view = t.surf[x].view /\ u.surf[x].window = t.surf[x].window
         /\ u.surf[x].role = t.surf[x].role /\ u.surf[x].added = t.surf[x].added
         /\ u.surf[x].visible => t.surf[x].visible /\ x \notin children
         /\ u.surf[x].above = (IF x \in children THEN None ELSE t.surf[x].above)
         /\ u.surf[x].parent = (IF x \in children THEN None ELSE t.surf[x].parent)
         /\ Content(u.surf[x]) = Content(t.surf[x])
  BY <1>7, <1>9, <1>12, <1>13
<1>15. \A x \in Surfaces : LET a == t.surf[x].above
         IN u.surf[x].visible /\ a \in Surfaces /\ t.surf[a].visible => u.surf[a].visible
  BY <1>7, <1>9, <1>12
<1>16. Stacked(u)
  <2>1. Viewed(u) = Viewed(t)  BY <1>14 DEF Viewed
  <2> QED  BY <1>2, <1>10, <1>12, <2>1 DEF Stacked
<1>17. ASSUME NEW x \in Surfaces PROVE LinkedAt(u, x)
  <2>1. LinkedAt(t, x)  BY <1>2 DEF Linked
  <2> QED  BY <1>0, <1>14, <2>1 DEF LinkedAt
<1>18. ASSUME NEW x \in Surfaces PROVE TogetherAt(u, x)
  <2>1. TogetherAt(t, x)  BY <1>2 DEF Together
  <2>2. CASE ~u.surf[x].visible  BY <1>14, <2>1, <2>2 DEF TogetherAt
  <2>3. CASE u.surf[x].visible  BY <1>14, <1>15, <2>1, <2>3 DEF TogetherAt
  <2> QED  BY <2>2, <2>3
<1>19. ASSUME NEW q \in Surfaces, q # p PROVE Orderly(u.order[q], Children(u, q))
  <2>1. Children(u, q) = Children(t, q)
    BY <1>0, <1>5, <1>14, <1>19 DEF Children
  <2>2. u.order[q] = t.order[q]  BY <1>10, <1>12
  <2> QED  BY <1>2, <2>1, <2>2 DEF Listed
<1>20. FewerLinks(t, u) /\ Children(u, p) = {}
  BY <1>0, <1>5, <1>14 DEF FewerLinks, Children
<1> QED  BY <1>1, <1>4, <1>10, <1>12, <1>14, <1>16, <1>17, <1>18, <1>19, <1>20 DEF Linked, Together

\* What DestroySurface makes of the state.
Forgotten(t, s) ==
    [DestroyView(Orphan(LoseRole(t, s), s), s)
       EXCEPT !.surf[s] = NewSurface, !.order[s] = NoChildren]

LEMMA NewSurfaceIs ==
  /\ NewSurface \in SurfaceStates /\ NoChildren \in ChildLists
  /\ ~NewSurface.role /\ ~NewSurface.view /\ ~NewSurface.window /\ ~NewSurface.visible
  /\ NewSurface.above = None /\ NewSurface.parent = None
  /\ Orderly(NoChildren, {})
<1>1. <<>> \in Seq(Surfaces) /\ ToSet(<<>>) = {} /\ IsInjective(<<>>)
  BY DEF ToSet, IsInjective
<1>2. NewSurface \in SurfaceStates  BY DEF NewSurface, SurfaceStates
<1>3. NoChildren \in ChildLists
  <2> DEFINE none == <<>>
             lists == [list \in {"below", "above", "pendingBelow", "pendingAbove"} |-> none]
  <2>1. none \in Seq(Surfaces)  OBVIOUS
  <2>2. NoChildren = [below |-> none, above |-> none, pendingBelow |-> none, pendingAbove |-> none]
    BY DEF NoChildren
  <2> HIDE DEF none
  <2>3. NoChildren = lists  BY <2>2
  <2> QED  BY <2>1, <2>3 DEF ChildLists
<1>4. Orderly(NoChildren, {})  BY <1>1 DEF NoChildren, Orderly, ListOf
<1> QED  BY <1>2, <1>3, <1>4 DEF NewSurface

LEMMA ForgottenHolds ==
  ASSUME NEW t, Good(t), NEW s \in Surfaces
  PROVE  /\ Good(Forgotten(t, s))
         /\ FewerLinks(t, Forgotten(t, s))
         /\ ~Forgotten(t, s).surf[s].view /\ ~Forgotten(t, s).surf[s].cached
         /\ \A x \in Surfaces : x # s => Forgotten(t, s).surf[x].role = t.surf[x].role
         /\ \A q \in Surfaces : Forgotten(t, s).order[q]
              = IF q = s THEN NoChildren ELSE LoseRole(t, s).order[q]
         /\ ~Forgotten(t, s).surf[s].role
         /\ \A x \in Surfaces : x # s => Content(Forgotten(t, s).surf[x]) = Content(t.surf[x])
<1> DEFINE a == LoseRole(t, s)
           b == Orphan(a, s)
           c == DestroyView(b, s)
           u == [c EXCEPT !.surf[s] = NewSurface, !.order[s] = NoChildren]
<1>0. None \notin Surfaces /\ Gone \notin Surfaces /\ None # Gone  BY SurfaceAssumption
<1>1. Forgotten(t, s) = u  BY DEF Forgotten
<1>2. /\ Good(a) /\ ~a.surf[s].role /\ FewerLinks(t, a)
      /\ \A x \in Surfaces : x # s => /\ Content(a.surf[x]) = Content(t.surf[x])
                                      /\ a.surf[x].role = t.surf[x].role
  BY LoseRoleHolds
<1>3. a.surf[s].parent = None  BY <1>2 DEF Good, Sane, Linked, LinkedAt
<1> HIDE DEF a
<1>4. /\ b \in States /\ Stacked(b) /\ Linked(b) /\ Together(b)
      /\ \A q \in Surfaces : q # s => Orderly(b.order[q], Children(b, q))
      /\ FewerLinks(a, b) /\ Children(b, s) = {}
      /\ \A x \in Surfaces : /\ b.surf[x].role = a.surf[x].role
                             /\ Content(b.surf[x]) = Content(a.surf[x])
                             /\ x = s => b.surf[x].parent = a.surf[x].parent
      /\ b.order = a.order
  BY <1>2, OrphanHolds
<1> HIDE DEF b
<1>5. ~b.surf[s].role /\ b.surf[s].parent = None  BY <1>2, <1>3, <1>4
<1>6. /\ b.surf[s].visible \/ b.surf[s].window => b.surf[s].view
      /\ b.surf[s].above = None
  BY <1>4, <1>5 DEF Together, TogetherAt, Linked, LinkedAt
<1>7. \A x \in Surfaces : LinkedAt(b, x) /\ TogetherAt(b, x)  BY <1>4 DEF Linked, Together
<1>8. /\ c \in States
      /\ Stacked(c) /\ Linked(c) /\ Together(c)
      /\ c.order = b.order
      /\ ~c.surf[s].view
      /\ \A x \in Surfaces : /\ c.surf[x].role = b.surf[x].role
                             /\ c.surf[x].parent = b.surf[x].parent
                             /\ Content(c.surf[x]) = Content(b.surf[x])
  <2>1. b \in States  BY <1>4
  <2> QED  BY <1>4, <1>5, <1>6, <1>7, <2>1, DestroyViewIs
<1> HIDE DEF c
<1>9. \A q \in Surfaces : Children(c, q) = Children(b, q)  BY <1>8 DEF Children
<1>10. /\ u \in States /\ u.stack = c.stack
       /\ \A x \in Surfaces : /\ u.surf[x] = IF x = s THEN NewSurface ELSE c.surf[x]
                              /\ u.order[x] = IF x = s THEN NoChildren ELSE c.order[x]
  <2> DEFINE surfs == [c.surf EXCEPT ![s] = NewSurface]
             orders == [c.order EXCEPT ![s] = NoChildren]
  <2>1. /\ surfs \in [Surfaces -> SurfaceStates]
        /\ \A x \in Surfaces : surfs[x] = IF x = s THEN NewSurface ELSE c.surf[x]
    <3>1. NewSurface \in SurfaceStates  BY NewSurfaceIs
    <3> QED  BY <1>8, <3>1 DEF States
  <2>2. /\ orders \in [Surfaces -> ChildLists]
        /\ \A x \in Surfaces : orders[x] = IF x = s THEN NoChildren ELSE c.order[x]
    <3>1. NoChildren \in ChildLists  BY NewSurfaceIs
    <3> QED  BY <1>8, <3>1 DEF States
  <2>3. u = [c EXCEPT !.surf = surfs, !.order = orders]  OBVIOUS
  <2> HIDE DEF surfs, orders, u
  <2>4. u \in States /\ u.stack = c.stack /\ u.surf = surfs /\ u.order = orders
    BY <1>8, <2>1, <2>2, <2>3 DEF States
  <2> QED  BY <2>1, <2>2, <2>4
<1> HIDE DEF u
<1>11. Stacked(u)
  <2>1. Viewed(u) = Viewed(c)  BY <1>8, <1>10, NewSurfaceIs DEF Viewed
  <2> QED  BY <1>8, <1>10, <2>1 DEF Stacked
<1>12. \A x \in Surfaces : c.surf[x].parent # s  BY <1>4, <1>9 DEF Children
<1>13. ASSUME NEW q \in Surfaces PROVE Children(u, q) = Children(c, q)
  BY <1>0, <1>5, <1>8, <1>10, <1>13, NewSurfaceIs DEF Children
<1>14. Listed(u)
  <2> SUFFICES ASSUME NEW q \in Surfaces PROVE Orderly(u.order[q], Children(u, q))
    BY DEF Listed
  <2>1. CASE q = s
    <3>1. Children(u, q) = {}  BY <1>4, <1>9, <1>13, <2>1
    <3> QED  BY <1>10, <2>1, <3>1, NewSurfaceIs
  <2>2. CASE q # s
    <3>1. Children(u, q) = Children(b, q) /\ u.order[q] = b.order[q]
      BY <1>8, <1>9, <1>10, <1>13, <2>2
    <3> QED  BY <1>4, <2>2, <3>1
  <2> QED  BY <2>1, <2>2
<1>15. ASSUME NEW x \in Surfaces PROVE LinkedAt(u, x) /\ TogetherAt(u, x)
  <2>1. CASE x = s
    <3>1. u.surf[x] = NewSurface  BY <1>10, <2>1
    <3> QED  BY <1>0, <2>1, <3>1, NewSurfaceIs DEF LinkedAt, TogetherAt
  <2>2. CASE x # s
    <3>1. u.surf[x] = c.surf[x]  BY <1>10, <2>2
    <3>2. LinkedAt(c, x) /\ TogetherAt(c, x)  BY <1>8 DEF Linked, Together
    <3>3. LinkedAt(u, x)  BY <3>1, <3>2 DEF LinkedAt
    <3>4. c.surf[x].parent \in Surfaces => u.surf[c.surf[x].parent] = c.surf[c.surf[x].parent]
      BY <1>10, <1>12
    <3>5. TogetherAt(u, x)  BY <3>1, <3>2, <3>4 DEF TogetherAt
    <3> QED  BY <3>3, <3>5
  <2> QED  BY <2>1, <2>2
<1>16. Good(u)  BY <1>10, <1>11, <1>14, <1>15 DEF Good, Sane, Linked, Together
<1>17. FewerLinks(t, u)
  <2> SUFFICES ASSUME NEW x \in Surfaces
               PROVE  /\ u.surf[x].role => t.surf[x].role
                      /\ u.surf[x].parent \in {None, t.surf[x].parent}
    BY DEF FewerLinks
  <2>1. CASE x = s  BY <1>10, <2>1, NewSurfaceIs
  <2>2. CASE x # s
    <3>1. u.surf[x] = c.surf[x]  BY <1>10, <2>2
    <3> QED  BY <1>2, <1>4, <1>8, <3>1 DEF FewerLinks
  <2> QED  BY <2>1, <2>2
<1>18. ~u.surf[s].role  BY <1>10, NewSurfaceIs
<1>19. \A x \in Surfaces : x # s => Content(u.surf[x]) = Content(t.surf[x])
  BY <1>2, <1>4, <1>8, <1>10
<1>20. ~u.surf[s].view /\ ~u.surf[s].cached  BY <1>10, NewSurfaceIs DEF NewSurface
<1>21. \A q \in Surfaces : u.order[q] = IF q = s THEN NoChildren ELSE a.order[q]
  BY <1>4, <1>8, <1>10
<1>22. \A x \in Surfaces : x # s => u.surf[x].role = t.surf[x].role
  BY <1>2, <1>4, <1>8, <1>10
<1> QED  BY <1>1, <1>16, <1>17, <1>18, <1>19, <1>20, <1>21, <1>22 DEF a

\* The links but that of s.
OtherLinks(t, u, s) ==
    \A x \in Surfaces : x # s => /\ u.surf[x].role = t.surf[x].role
                                 /\ u.surf[x].parent = t.surf[x].parent

LEMMA NewSubsurfaceHolds ==
  ASSUME NEW t, Good(t), NEW s \in Surfaces, NEW p \in Surfaces, s # p,
         ~t.surf[s].role, s \notin Windows
  PROVE  /\ Good(NewSubsurface(t, s, p))
         /\ SameContent(t, NewSubsurface(t, s, p), {s}) /\ OtherLinks(t, NewSubsurface(t, s, p), s)
         /\ NewSubsurface(t, s, p).surf[s].role /\ NewSubsurface(t, s, p).surf[s].parent = p
         /\ NewSubsurface(t, s, p).surf[s].pending = t.surf[s].pending
         /\ NewSubsurface(t, s, p).surf[s].buffer = t.surf[s].buffer
         /\ \A q \in Surfaces : /\ NewSubsurface(t, s, p).order[q].below = t.order[q].below
                                /\ NewSubsurface(t, s, p).order[q].above = t.order[q].above
<1> DEFINE a == CreateView(t, s)
           b == CreateView(a, p)
           r == [b.surf[s] EXCEPT !.role = TRUE, !.parent = p, !.sync = TRUE,
                                  !.cached = FALSE, !.added = FALSE, !.above = p]
           o == [b.order[p] EXCEPT !.pendingAbove = Append(b.order[p].pendingAbove, s)]
           q == PutBefore(b.stack, s, p)
           c == [b EXCEPT !.surf[s] = [@ EXCEPT !.role = TRUE, !.parent = p, !.sync = TRUE,
                                                !.cached = FALSE, !.added = FALSE, !.above = p],
                          !.order[p].pendingAbove = Append(@, s),
                          !.stack = PutBefore(@, s, p)]
           u == UpdateVisibility(c, {s})
<1>0. None \notin Surfaces /\ Gone \notin Surfaces /\ None # Gone  BY SurfaceAssumption
<1>1. NewSubsurface(t, s, p) = u  BY DEF NewSubsurface
<1>2. /\ Good(a) /\ a.order = t.order /\ a.surf[s].view
      /\ \A x \in Surfaces : a.surf[x] = [t.surf[x] EXCEPT !.view = a.surf[x].view]
  BY CreateViewHolds
<1> HIDE DEF a
<1>3. /\ Good(b) /\ b.order = a.order /\ b.surf[p].view
      /\ \A x \in Surfaces : a.surf[x].view => b.surf[x].view
      /\ \A x \in Surfaces : b.surf[x] = [a.surf[x] EXCEPT !.view = b.surf[x].view]
  BY <1>2, CreateViewHolds
<1> HIDE DEF b
<1>4. \A x \in Surfaces : t.surf[x] \in SurfaceStates /\ a.surf[x] \in SurfaceStates
  BY <1>2 DEF Good, Sane, States
<1>5. \A x \in Surfaces :
        /\ b.surf[x].role = t.surf[x].role /\ b.surf[x].parent = t.surf[x].parent
        /\ b.surf[x].buffer = t.surf[x].buffer /\ b.surf[x].pending = t.surf[x].pending
        /\ b.surf[x].cached = t.surf[x].cached
  <2> SUFFICES ASSUME NEW x \in Surfaces
               PROVE  /\ b.surf[x].role = t.surf[x].role /\ b.surf[x].parent = t.surf[x].parent
                      /\ b.surf[x].buffer = t.surf[x].buffer /\ b.surf[x].pending = t.surf[x].pending
                      /\ b.surf[x].cached = t.surf[x].cached
    OBVIOUS
  <2>1. /\ a.surf[x].role = t.surf[x].role /\ a.surf[x].parent = t.surf[x].parent
        /\ a.surf[x].buffer = t.surf[x].buffer /\ a.surf[x].pending = t.surf[x].pending
        /\ a.surf[x].cached = t.surf[x].cached
    <3>1. a.surf[x] = [t.surf[x] EXCEPT !.view = a.surf[x].view] /\ t.surf[x] \in SurfaceStates
      BY <1>2, <1>4
    <3> PICK v : v = a.surf[x].view  OBVIOUS
    <3>2. a.surf[x] = [t.surf[x] EXCEPT !.view = v]  BY <3>1
    <3> QED  BY <3>1, <3>2 DEF SurfaceStates
  <2>2. /\ b.surf[x].role = a.surf[x].role /\ b.surf[x].parent = a.surf[x].parent
        /\ b.surf[x].buffer = a.surf[x].buffer /\ b.surf[x].pending = a.surf[x].pending
        /\ b.surf[x].cached = a.surf[x].cached
    <3>1. b.surf[x] = [a.surf[x] EXCEPT !.view = b.surf[x].view] /\ a.surf[x] \in SurfaceStates
      BY <1>3, <1>4
    <3> PICK v : v = b.surf[x].view  OBVIOUS
    <3>2. b.surf[x] = [a.surf[x] EXCEPT !.view = v]  BY <3>1
    <3> QED  BY <3>1, <3>2 DEF SurfaceStates
  <2> QED  BY <2>1, <2>2
<1>6. /\ b \in States /\ Stacked(b) /\ Listed(b) /\ Linked(b) /\ Together(b)
      /\ b.surf[s] \in SurfaceStates /\ b.order[p] \in ChildLists
      /\ b.surf \in [Surfaces -> SurfaceStates] /\ b.order \in [Surfaces -> ChildLists]
  BY <1>3 DEF Good, Sane, States
<1>7. b.surf[s].view /\ ~b.surf[s].role /\ ~b.surf[s].visible /\ ~b.surf[s].window
      /\ b.surf[s].parent = None
  <2>1. LinkedAt(b, s) /\ TogetherAt(b, s)  BY <1>6 DEF Linked, Together
  <2>2. b.surf[s].view /\ ~b.surf[s].role  BY <1>2, <1>3, <1>5
  <2> QED  BY <2>1, <2>2 DEF LinkedAt, TogetherAt
<1>8. /\ r \in SurfaceStates /\ r.view = TRUE /\ r.window = FALSE /\ r.visible = FALSE
      /\ r.role = TRUE /\ r.parent = p /\ r.above = p /\ r.added = FALSE
      /\ r.buffer = b.surf[s].buffer /\ r.pending = b.surf[s].pending
  BY <1>6, <1>7 DEF SurfaceStates
<1>9. s \notin Children(b, p)  BY <1>0, <1>7 DEF Children
<1>10. Orderly(b.order[p], Children(b, p))  BY <1>6 DEF Listed
<1>11. /\ ListOf(Append(b.order[p].pendingAbove, s), ToSet(b.order[p].pendingAbove) \cup {s})
  <2>1. ListOf(b.order[p].pendingAbove, ToSet(b.order[p].pendingAbove))  BY <1>10 DEF Orderly
  <2>2. s \notin ToSet(b.order[p].pendingAbove)  BY <1>9, <1>10 DEF Orderly
  <2> QED  BY <2>1, <2>2, AppendIs
<1>12. /\ o \in ChildLists
       /\ o.below = b.order[p].below /\ o.above = b.order[p].above
       /\ o.pendingBelow = b.order[p].pendingBelow
       /\ o.pendingAbove = Append(b.order[p].pendingAbove, s)
  <2>1. Append(b.order[p].pendingAbove, s) \in Seq(Surfaces)  BY <1>11 DEF ListOf
  <2> QED  BY <1>6, <2>1 DEF ChildLists
<1>13. Orderly(o, Children(b, p) \cup {s})
  <2>1. ToSet(o.pendingAbove) = ToSet(b.order[p].pendingAbove) \cup {s}
    BY <1>11, <1>12 DEF ListOf
  <2> QED  BY <1>9, <1>10, <1>11, <1>12, <2>1 DEF Orderly
<1>14. ListOf(q, Viewed(b))
  <2>1. ListOf(b.stack, Viewed(b)) /\ p \in Viewed(b) /\ s \in Viewed(b)
    BY <1>3, <1>6, <1>7 DEF Stacked, Viewed
  <2>2. PICK front \in BOOLEAN : front = TRUE  OBVIOUS
  <2>3. ListOf(PutBeside(front, b.stack, s, p), Viewed(b) \cup {s})  BY <2>1, PutIs
  <2>4. PutBeside(front, b.stack, s, p) = q  BY <2>2 DEF PutBeside
  <2>5. Viewed(b) \cup {s} = Viewed(b)  BY <2>1
  <2> QED  BY <2>3, <2>4, <2>5
<1>15. q \in Seq(Surfaces)  BY <1>14 DEF ListOf
<1> DEFINE surfs == [b.surf EXCEPT ![s] = r]
           orders == [b.order EXCEPT ![p] = o]
<1>16. c = [b EXCEPT !.surf = surfs, !.order = orders, !.stack = q]
  BY <1>6 DEF States
<1>17. /\ surfs \in [Surfaces -> SurfaceStates]
       /\ \A x \in Surfaces : surfs[x] = IF x = s THEN r ELSE b.surf[x]
  <2> HIDE DEF r
  <2> QED  BY <1>6, <1>8
<1>18. /\ orders \in [Surfaces -> ChildLists]
       /\ \A x \in Surfaces : orders[x] = IF x = p THEN o ELSE b.order[x]
  <2> HIDE DEF o
  <2> QED  BY <1>6, <1>12
<1> HIDE DEF q, surfs, orders, c, r, o
<1>19. c \in States /\ c.surf = surfs /\ c.order = orders /\ c.stack = q
  BY <1>6, <1>15, <1>16, <1>17, <1>18 DEF States
<1>20. \A x \in Surfaces : /\ c.surf[x] = IF x = s THEN r ELSE b.surf[x]
                           /\ c.order[x] = IF x = p THEN o ELSE b.order[x]
  BY <1>17, <1>18, <1>19
<1>21. Stacked(c)
  <2>1. Viewed(c) = Viewed(b)  BY <1>7, <1>8, <1>20 DEF Viewed
  <2> QED  BY <1>14, <1>19, <2>1 DEF Stacked
<1>22. Listed(c)
  <2> SUFFICES ASSUME NEW x \in Surfaces PROVE Orderly(c.order[x], Children(c, x))
    BY DEF Listed
  <2>1. CASE x = p
    <3>1. Children(c, x) = Children(b, p) \cup {s}  BY <1>8, <1>20, <2>1 DEF Children
    <3>2. c.order[x] = o  BY <1>20, <2>1
    <3> QED  BY <1>13, <3>1, <3>2
  <2>2. CASE x # p
    <3>1. Children(c, x) = Children(b, x)
      BY <1>0, <1>7, <1>8, <1>20, <2>2 DEF Children
    <3>2. c.order[x] = b.order[x]  BY <1>20, <2>2
    <3> QED  BY <1>6, <3>1, <3>2 DEF Listed
  <2> QED  BY <2>1, <2>2
<1>23. ASSUME NEW x \in Surfaces PROVE LinkedAt(c, x) /\ TogetherAt(c, x)
  <2>1. CASE x = s
    <3>1. c.surf[x] = r  BY <1>20, <2>1
    <3> QED  BY <1>0, <1>8, <2>1, <3>1 DEF LinkedAt, TogetherAt
  <2>2. CASE x # s
    <3>1. c.surf[x] = b.surf[x]  BY <1>20, <2>2
    <3>2. LinkedAt(b, x) /\ TogetherAt(b, x)  BY <1>6 DEF Linked, Together
    <3>3. \A y \in Surfaces : c.surf[y].visible = b.surf[y].visible
      <4>1. b.surf[s].visible = FALSE
        <5>1. b.surf[s].visible \in BOOLEAN  BY <1>6 DEF SurfaceStates
        <5> QED  BY <1>7, <5>1
      <4> QED  BY <4>1, <1>8, <1>20
    <3>4. LinkedAt(c, x)  BY <3>1, <3>2 DEF LinkedAt
    <3>5. TogetherAt(c, x)  BY <3>1, <3>2, <3>3 DEF TogetherAt
    <3> QED  BY <3>4, <3>5
  <2> QED  BY <2>1, <2>2
<1>24. Good(c)  BY <1>19, <1>21, <1>22, <1>23 DEF Good, Sane, Linked, Together
<1>25. OnlyVisible(c, u) /\ Good(u)
  <2>1. {s} \in SUBSET Surfaces  OBVIOUS
  <2> QED  BY <1>24, <2>1, UpdateVisibilityHolds
<1> HIDE DEF u
<1>26. \A x \in Surfaces : /\ u.surf[x].role = c.surf[x].role /\ u.surf[x].parent = c.surf[x].parent
                           /\ u.surf[x].buffer = c.surf[x].buffer
                           /\ u.surf[x].pending = c.surf[x].pending
                           /\ u.surf[x].cached = c.surf[x].cached
  BY <1>25 DEF OnlyVisible, SameLinks, SameContent
<1>27. SameContent(t, u, {s})  BY <1>5, <1>20, <1>26 DEF SameContent
<1>28. OtherLinks(t, u, s)  BY <1>5, <1>20, <1>26 DEF OtherLinks
<1>29. u.surf[s].role /\ u.surf[s].parent = p  BY <1>8, <1>20, <1>26
<1>30. u.surf[s].pending = t.surf[s].pending /\ u.surf[s].buffer = t.surf[s].buffer
  BY <1>5, <1>8, <1>20, <1>26
<1>31. \A x \in Surfaces : u.order[x].below = t.order[x].below /\ u.order[x].above = t.order[x].above
  <2>1. u.order = c.order  BY <1>25 DEF OnlyVisible
  <2>2. b.order = t.order  BY <1>2, <1>3
  <2> QED  BY <1>12, <1>20, <2>1, <2>2
<1> QED  BY <1>1, <1>25, <1>27, <1>28, <1>29, <1>30, <1>31

\* What Place makes of the lists of the parent.
PlacedIn(o, s, x, p, above) ==
    LET taken == [o EXCEPT !.pendingBelow = Without(@, s), !.pendingAbove = Without(@, s)]
        beside(list) == IF ~Contains(list, x) THEN list
                        ELSE IF above THEN PutAfter(list, s, x) ELSE PutBefore(list, s, x)
    IN IF x # p THEN [taken EXCEPT !.pendingBelow = beside(@), !.pendingAbove = beside(@)]
       ELSE IF above THEN [taken EXCEPT !.pendingAbove = <<s>> \o @]
       ELSE [taken EXCEPT !.pendingBelow = Append(@, s)]

LEMMA PlacedIsOrderly ==
  ASSUME NEW o \in ChildLists, NEW children, Orderly(o, children), NEW s \in children, s \in Surfaces,
         NEW x, x # s, NEW p, x # p => x \in children, NEW above \in BOOLEAN
  PROVE  LET n == PlacedIn(o, s, x, p, above)
         IN /\ n \in ChildLists /\ Orderly(n, children)
            /\ n.below = o.below /\ n.above = o.above
<1> DEFINE behind == o.pendingBelow
           front == o.pendingAbove
           B == ToSet(behind)
           A == ToSet(front)
           b == Without(behind, s)
           a == Without(front, s)
           beside(list) == IF ~Contains(list, x) THEN list
                           ELSE IF above THEN PutAfter(list, s, x) ELSE PutBefore(list, s, x)
<1>1. ListOf(behind, B) /\ ListOf(front, A) /\ A \cap B = {} /\ B \cup A = children
  BY DEF Orderly
<1> HIDE DEF B, A
<1>2. ListOf(b, B \ {s}) /\ ListOf(a, A \ {s})  BY <1>1, WithoutIs
<1> HIDE DEF b, a
<1> DEFINE put(i, j) == [o EXCEPT !.pendingBelow = i, !.pendingAbove = j]
<1>3. ASSUME NEW i, NEW j, NEW I, NEW J, ListOf(i, I), ListOf(j, J), I \cap J = {}, I \cup J = children
      PROVE  /\ put(i, j) \in ChildLists /\ Orderly(put(i, j), children)
             /\ put(i, j).below = o.below /\ put(i, j).above = o.above
  <2>1. i \in Seq(Surfaces) /\ j \in Seq(Surfaces)  BY <1>3 DEF ListOf
  <2>2. /\ put(i, j) \in ChildLists
        /\ put(i, j).below = o.below /\ put(i, j).above = o.above
        /\ put(i, j).pendingBelow = i /\ put(i, j).pendingAbove = j
    BY <2>1 DEF ChildLists
  <2> HIDE DEF put
  <2>3. ToSet(i) = I /\ ToSet(j) = J  BY <1>3 DEF ListOf
  <2>4. Orderly(put(i, j), children)
    BY <1>3, <2>2, <2>3 DEF Orderly
  <2> QED  BY <2>2, <2>4
<1>4. CASE x # p
  <2>1. PlacedIn(o, s, x, p, above) = put(beside(b), beside(a))
    <3>1. [o EXCEPT !.pendingBelow = b, !.pendingAbove = a]
            = [[o EXCEPT !.pendingBelow = Without(@, s)] EXCEPT !.pendingAbove = Without(@, s)]
      BY DEF ChildLists, b, a
    <3> DEFINE taken == [o EXCEPT !.pendingBelow = b, !.pendingAbove = a]
    <3>2. taken.pendingBelow = b /\ taken.pendingAbove = a  BY DEF ChildLists
    <3>3. \A i, j : [taken EXCEPT !.pendingBelow = i, !.pendingAbove = j] = put(i, j)
      BY DEF ChildLists
    <3>4. taken = [o EXCEPT !.pendingBelow = Without(@, s), !.pendingAbove = Without(@, s)]
      BY <3>1
    <3>5. PlacedIn(o, s, x, p, above)
            = [taken EXCEPT !.pendingBelow = beside(taken.pendingBelow),
                            !.pendingAbove = beside(taken.pendingAbove)]
      BY <1>4, <3>2, <3>4 DEF PlacedIn
    <3> HIDE DEF taken, put, beside
    <3> QED  BY <3>2, <3>3, <3>5
  <2>2. ASSUME NEW list, NEW set, ListOf(list, set)
        PROVE  /\ x \notin set => beside(list) = list
               /\ x \in set => ListOf(beside(list), set \cup {s})
    <3>1. Contains(list, x) <=> x \in set
      <4>1. list \in Seq(Surfaces)  BY <2>2 DEF ListOf
      <4>2. DOMAIN list = 1 .. Len(list)  BY <4>1, LenProperties
      <4> QED  BY <4>1, <4>2, <2>2 DEF Contains, ListOf, ToSet
    <3>2. ASSUME x \in set PROVE ListOf(beside(list), set \cup {s})
      <4>1. PICK before \in BOOLEAN : before = ~above  OBVIOUS
      <4>2. ListOf(PutBeside(before, list, s, x), set \cup {s})
        BY <2>2, <3>2, PutIs
      <4>3. beside(list) = PutBeside(before, list, s, x)
        BY <3>1, <3>2, <4>1 DEF PutBeside
      <4> QED  BY <4>2, <4>3
    <3> QED  BY <3>1, <3>2
  <2>3. x \in (B \ {s}) \cup (A \ {s})  BY <1>1, <1>4
  <2> HIDE DEF beside, put
  <2>4. CASE x \in B \ {s}
    <3>1. x \notin A \ {s}  BY <1>1, <2>4
    <3>2. ListOf(beside(b), (B \ {s}) \cup {s}) /\ beside(a) = a  BY <1>2, <2>2, <2>4, <3>1
    <3>3. ((B \ {s}) \cup {s}) \cap (A \ {s}) = {} /\ ((B \ {s}) \cup {s}) \cup (A \ {s}) = children
      BY <1>1
    <3> QED  BY <1>2, <1>3, <2>1, <3>2, <3>3
  <2>5. CASE x \in A \ {s}
    <3>1. x \notin B \ {s}  BY <1>1, <2>5
    <3>2. ListOf(beside(a), (A \ {s}) \cup {s}) /\ beside(b) = b  BY <1>2, <2>2, <2>5, <3>1
    <3>3. (B \ {s}) \cap ((A \ {s}) \cup {s}) = {} /\ (B \ {s}) \cup ((A \ {s}) \cup {s}) = children
      BY <1>1
    <3> QED  BY <1>2, <1>3, <2>1, <3>2, <3>3
  <2> QED  BY <2>3, <2>4, <2>5
<1>5. CASE x = p /\ above
  <2>1. PlacedIn(o, s, x, p, above) = put(b, <<s>> \o a)
    BY <1>5 DEF PlacedIn, ChildLists, b, a
  <2>2. ListOf(<<s>> \o a, {s} \cup (A \ {s}))
    <3>1. ListOf(<<s>>, {s}) /\ {s} \cap (A \ {s}) = {}  BY OneIs
    <3> QED  BY <1>2, <3>1, JoinIs
  <2>3. (B \ {s}) \cap ({s} \cup (A \ {s})) = {} /\ (B \ {s}) \cup ({s} \cup (A \ {s})) = children
    BY <1>1
  <2> HIDE DEF put
  <2> QED  BY <1>2, <1>3, <2>1, <2>2, <2>3
<1>6. CASE x = p /\ ~above
  <2>1. PlacedIn(o, s, x, p, above) = put(Append(b, s), a)
    BY <1>6 DEF PlacedIn, ChildLists, b, a
  <2>2. ListOf(Append(b, s), (B \ {s}) \cup {s})
    <3>1. s \notin B \ {s}  OBVIOUS
    <3> QED  BY <1>2, <3>1, AppendIs
  <2>3. ((B \ {s}) \cup {s}) \cap (A \ {s}) = {} /\ ((B \ {s}) \cup {s}) \cup (A \ {s}) = children
    BY <1>1
  <2> HIDE DEF put
  <2> QED  BY <1>2, <1>3, <2>1, <2>2, <2>3
<1> QED  BY <1>4, <1>5, <1>6

-----------------------------------------------------------------------------
(* Requests.                                                               *)

\* Only a subsurface can be waiting for its parent.
Waiting(t) == \A x \in Surfaces : t.surf[x].cached => t.surf[x].role

Kept(t) == Good(t) /\ Acyclic(t) /\ Waiting(t)

\* The current children are as before, or one of them is lost.
SameOrFewer(o, n) ==
    LET was == o.below \o o.above
        is == n.below \o n.above
    IN is = was \/ ~(ToSet(was) \subseteq ToSet(is))

\* Nothing pending or cached is applied.
Idle(t, u) ==
    \A x \in Surfaces :
      /\ u.surf[x].role => u.surf[x].buffer = t.surf[x].buffer
      /\ t.surf[x].pending # "nothing" /\ u.surf[x].view => u.surf[x].pending # "nothing"
      /\ t.surf[x].cached /\ u.surf[x].role => u.surf[x].cached
      /\ SameOrFewer(t.order[x], u.order[x])

LEMMA NoneLost == ASSUME NEW o, NEW n, n.below = o.below, n.above = o.above PROVE SameOrFewer(o, n)
  BY DEF SameOrFewer

LEMMA UnlinkedLoses ==
  ASSUME NEW o \in ChildLists, NEW children, Orderly(o, children), NEW s
  PROVE  SameOrFewer(o, Unlinked(o, s))
<1> DEFINE a == o.below
           b == o.above
<1>1. DOMAIN o = {"below", "above", "pendingBelow", "pendingAbove"}  BY DEF ChildLists
<1>2. Unlinked(o, s).below = Without(a, s) /\ Unlinked(o, s).above = Without(b, s)
  BY <1>1 DEF Unlinked
<1>3. ListOf(a, ToSet(a)) /\ ListOf(b, ToSet(b)) /\ ToSet(a) \cap ToSet(b) = {}  BY DEF Orderly
<1> HIDE DEF a, b
<1>4. /\ ListOf(Without(a, s), ToSet(a) \ {s})
      /\ ListOf(Without(b, s), ToSet(b) \ {s})
  BY <1>3, WithoutIs
<1>5. /\ ToSet(a \o b) = ToSet(a) \cup ToSet(b)
      /\ ToSet(Without(a, s) \o Without(b, s)) = (ToSet(a) \ {s}) \cup (ToSet(b) \ {s})
  <2>1. ListOf(a \o b, ToSet(a) \cup ToSet(b))  BY <1>3, JoinIs
  <2>2. (ToSet(a) \ {s}) \cap (ToSet(b) \ {s}) = {}  BY <1>3
  <2>3. ListOf(Without(a, s) \o Without(b, s), (ToSet(a) \ {s}) \cup (ToSet(b) \ {s}))
    BY <1>4, <2>2, JoinIs
  <2> QED  BY <2>1, <2>3 DEF ListOf
<1>6. ASSUME s \notin ToSet(a) \cup ToSet(b)
      PROVE  Without(a, s) = a /\ Without(b, s) = b
  <2>1. a \in Seq(Surfaces) /\ b \in Seq(Surfaces)  BY <1>3 DEF ListOf
  <2>2. DOMAIN a = 1 .. Len(a) /\ DOMAIN b = 1 .. Len(b)  BY <2>1, LenProperties
  <2>3. ~Contains(a, s) /\ ~Contains(b, s)  BY <1>6, <2>2 DEF Contains, ToSet
  <2> QED  BY <2>3 DEF Without
<1> QED  BY <1>2, <1>5, <1>6 DEF SameOrFewer, a, b

LEMMA NoChildrenLoses ==
  ASSUME NEW o \in ChildLists, NEW children, Orderly(o, children)
  PROVE  SameOrFewer(o, NoChildren)
<1> DEFINE a == o.below
           b == o.above
           none == <<>>
<1>1. ListOf(a, ToSet(a)) /\ ListOf(b, ToSet(b)) /\ ToSet(a) \cap ToSet(b) = {}  BY DEF Orderly
<1>2. none \in Seq(Surfaces) /\ Len(none) = 0 /\ NoChildren.below = none /\ NoChildren.above = none
  BY DEF NoChildren
<1>3. none \o none = none /\ ToSet(none) = {}  BY DEF ToSet
<1> HIDE DEF a, b, none
<1>4. ListOf(a \o b, ToSet(a \o b))
  <2>1. ListOf(a \o b, ToSet(a) \cup ToSet(b))  BY <1>1, JoinIs
  <2> QED  BY <2>1 DEF ListOf
<1>5. ASSUME ToSet(a \o b) \subseteq {} PROVE a \o b = none
  <2>1. a \o b \in Seq(Surfaces)  BY <1>4 DEF ListOf
  <2>2. Len(a \o b) \in Nat /\ DOMAIN (a \o b) = 1 .. Len(a \o b)  BY <2>1, LenProperties
  <2>3. \A i \in 1 .. Len(a \o b) : (a \o b)[i] \in ToSet(a \o b)  BY <2>2 DEF ToSet
  <2>4. Len(a \o b) = 0
    <3> SUFFICES ASSUME Len(a \o b) # 0 PROVE FALSE  OBVIOUS
    <3>1. 1 \in 1 .. Len(a \o b)  BY <2>2
    <3> QED  BY <1>5, <2>3, <3>1
  <2>5. a \o b = <<>>  BY <2>1, <2>4, EmptySeq
  <2> QED  BY <2>5 DEF none
<1> QED  BY <1>2, <1>3, <1>5 DEF SameOrFewer, a, b

\* An attach, a commit that is held back, a change of mode.
LEMMA OnlyContentKept ==
  ASSUME NEW t, Kept(t), NEW u, NEW s \in Surfaces, NEW pending, NEW cached, NEW sync,
         OnlyContent(t, u, s, pending, t.surf[s].buffer, cached, sync),
         pending = t.surf[s].pending \/ pending # "nothing",
         cached => t.surf[s].role, t.surf[s].cached => cached
  PROVE  Kept(u) /\ Idle(t, u)
<1>1. Good(t) /\ Acyclic(t) /\ Waiting(t)  BY DEF Kept
<1>2. /\ Quiet(t, u) /\ SameContent(t, u, {s})
      /\ u.surf[s].pending = pending /\ u.surf[s].buffer = t.surf[s].buffer
      /\ u.surf[s].cached = cached
  BY DEF OnlyContent
<1>3. Good(u)  BY <1>1, <1>2, QuietIsGood
<1>4. SameLinks(t, u) /\ u.order = t.order  BY <1>2 DEF Quiet
<1>5. Acyclic(u)  BY <1>1, <1>4, AcyclicStays
<1>6. Waiting(u)  BY <1>1, <1>2, <1>4 DEF Waiting, SameLinks, SameContent
<1>7. \A x \in Surfaces : SameOrFewer(t.order[x], u.order[x])  BY <1>4 DEF SameOrFewer
<1>8. ASSUME NEW x \in Surfaces
      PROVE  /\ u.surf[x].buffer = t.surf[x].buffer
             /\ t.surf[x].pending # "nothing" => u.surf[x].pending # "nothing"
             /\ t.surf[x].cached => u.surf[x].cached
  BY <1>2 DEF SameContent
<1>9. Idle(t, u)  BY <1>7, <1>8 DEF Idle
<1> QED  BY <1>3, <1>5, <1>6, <1>9 DEF Kept

\* Showing, hiding, raising and making views.
LEMMA SameContentKept ==
  ASSUME NEW t, Kept(t), NEW u, Good(u), u.order = t.order,
         \A x \in Surfaces : /\ Content(u.surf[x]) = Content(t.surf[x])
                             /\ u.surf[x].role = t.surf[x].role
                             /\ u.surf[x].parent = t.surf[x].parent
  PROVE  Kept(u) /\ Idle(t, u)
<1>1. Good(t) /\ Acyclic(t) /\ Waiting(t)  BY DEF Kept
<1>2. FewerLinks(t, u)  BY DEF FewerLinks
<1>3. t \in States /\ u \in States  BY <1>1 DEF Good, Sane
<1>4. Acyclic(u)
  <2>1. t \in States  BY <1>3
  <2>2. u \in States  BY <1>3
  <2> QED  BY <1>1, <1>2, <2>1, <2>2, AcyclicShrinks
<1>5. \A x \in Surfaces : /\ u.surf[x].buffer = t.surf[x].buffer
                          /\ u.surf[x].pending = t.surf[x].pending
                          /\ u.surf[x].cached = t.surf[x].cached
  BY DEF Content
<1>6. Waiting(u)  BY <1>1, <1>5 DEF Waiting
<1>7. \A x \in Surfaces : SameOrFewer(t.order[x], u.order[x])  BY DEF SameOrFewer
<1>8. Idle(t, u)  BY <1>5, <1>7 DEF Idle
<1> QED  BY <1>4, <1>6, <1>8 DEF Kept

LEMMA OnlyVisibleKept ==
  ASSUME NEW t, Kept(t), NEW u, OnlyVisible(t, u), Together(u)
  PROVE  Kept(u) /\ Idle(t, u)
<1>1. Good(u)  BY OnlyVisibleGood DEF Kept
<1>2. /\ u.order = t.order
      /\ \A x \in Surfaces : /\ Content(u.surf[x]) = Content(t.surf[x])
                             /\ u.surf[x].role = t.surf[x].role
                             /\ u.surf[x].parent = t.surf[x].parent
  BY DEF OnlyVisible, SameLinks, SameContent, Content
<1> QED  BY <1>1, <1>2, SameContentKept

\* get_subsurface.
LEMMA NewSubsurfaceKept ==
  ASSUME NEW t, Kept(t), NEW s \in Surfaces, NEW p \in Surfaces, s # p,
         ~t.surf[s].role, s \notin Windows, s \notin LineIn(t, p)
  PROVE  Kept(NewSubsurface(t, s, p)) /\ Idle(t, NewSubsurface(t, s, p))
<1> DEFINE u == NewSubsurface(t, s, p)
<1>1. Good(t) /\ Acyclic(t) /\ Waiting(t)  BY DEF Kept
<1>2. /\ Good(u)
      /\ SameContent(t, u, {s}) /\ OtherLinks(t, u, s)
      /\ u.surf[s].role /\ u.surf[s].parent = p
      /\ u.surf[s].pending = t.surf[s].pending
      /\ u.surf[s].buffer = t.surf[s].buffer
      /\ \A q \in Surfaces : /\ u.order[q].below = t.order[q].below
                             /\ u.order[q].above = t.order[q].above
  BY <1>1, NewSubsurfaceHolds
<1> HIDE DEF u
<1>3. t \in States /\ u \in States /\ Linked(t)  BY <1>1, <1>2 DEF Good, Sane
<1>4. Acyclic(u)
  <2>1. t \in States  BY <1>3
  <2>2. u \in States  BY <1>3
  <2>3. \A x \in Surfaces : ~t.surf[x].role => t.surf[x].parent = None  BY <1>3 DEF Linked, LinkedAt
  <2>4. \A x \in Surfaces : x # s => /\ u.surf[x].role = t.surf[x].role
                                     /\ u.surf[x].parent = t.surf[x].parent
    BY <1>2 DEF OtherLinks
  <2> QED  BY <1>1, <1>2, <2>1, <2>2, <2>3, <2>4, AcyclicGrows
<1>5. Waiting(u)  BY <1>1, <1>2 DEF Waiting, SameContent, OtherLinks
<1>6. \A q \in Surfaces : SameOrFewer(t.order[q], u.order[q])  BY <1>2, NoneLost
<1>7. ASSUME NEW x \in Surfaces
      PROVE  /\ u.surf[x].buffer = t.surf[x].buffer /\ u.surf[x].pending = t.surf[x].pending
             /\ t.surf[x].cached => u.surf[x].cached
  BY <1>1, <1>2 DEF SameContent, Waiting
<1>8. Idle(t, u)  BY <1>6, <1>7 DEF Idle
<1> QED  BY <1>2, <1>4, <1>5, <1>8 DEF Kept, u

LEMMA LoseRoleKept ==
  ASSUME NEW t, Kept(t), NEW s \in Surfaces
  PROVE  Kept(LoseRole(t, s)) /\ (t.surf[s].role => Idle(t, LoseRole(t, s)))
<1> DEFINE u == LoseRole(t, s)
<1>1. Good(t) /\ Acyclic(t) /\ Waiting(t)  BY DEF Kept
<1>2. /\ Good(u) /\ ~u.surf[s].role /\ FewerLinks(t, u)
      /\ t.surf[s].role => ~u.surf[s].view /\ ~u.surf[s].cached
      /\ \A x \in Surfaces : x # s => u.surf[x].role = t.surf[x].role
      /\ \A q \in Surfaces : u.order[q]
              = IF t.surf[s].role /\ q = t.surf[s].parent THEN Unlinked(t.order[q], s) ELSE t.order[q]
      /\ \A x \in Surfaces : x # s => Content(u.surf[x]) = Content(t.surf[x])
  BY <1>1, LoseRoleHolds
<1>3. CASE ~t.surf[s].role
  <2>1. u = t  BY <1>3 DEF LoseRole
  <2> QED  BY <1>3, <2>1
<1>4. CASE t.surf[s].role
  <2> HIDE DEF u
  <2>1. t \in States /\ u \in States  BY <1>1, <1>2 DEF Good, Sane
  <2>2. Acyclic(u)
    <3>1. t \in States  BY <2>1
    <3>2. u \in States  BY <2>1
    <3> QED  BY <1>1, <1>2, <3>1, <3>2, AcyclicShrinks
  <2>3. \A x \in Surfaces : x # s => /\ u.surf[x].buffer = t.surf[x].buffer
                                     /\ u.surf[x].pending = t.surf[x].pending
                                     /\ u.surf[x].cached = t.surf[x].cached
    BY <1>2 DEF Content
  <2>4. \A q \in Surfaces : SameOrFewer(t.order[q], u.order[q])
    <3>1. \A q \in Surfaces : SameOrFewer(t.order[q], t.order[q])  BY DEF SameOrFewer
    <3>2. ASSUME NEW q \in Surfaces PROVE SameOrFewer(t.order[q], Unlinked(t.order[q], s))
      <4>1. t.order[q] \in ChildLists  BY <2>1 DEF States
      <4>2. Orderly(t.order[q], Children(t, q))  BY <1>1 DEF Good, Sane, Listed
      <4> QED  BY <4>1, <4>2, UnlinkedLoses
    <3> QED  BY <1>2, <3>1, <3>2
  <2>5. Idle(t, u)  BY <1>2, <1>4, <2>3, <2>4 DEF Idle
  <2>6. Waiting(u)  BY <1>1, <1>2, <1>4, <2>3 DEF Waiting
  <2> QED  BY <1>2, <2>2, <2>5, <2>6 DEF Kept, u
<1> QED  BY <1>3, <1>4

LEMMA ForgottenKept ==
  ASSUME NEW t, Kept(t), NEW s \in Surfaces
  PROVE  Kept(Forgotten(t, s)) /\ Idle(t, Forgotten(t, s))
<1> DEFINE u == Forgotten(t, s)
           a == LoseRole(t, s)
<1>1. Good(t) /\ Acyclic(t) /\ Waiting(t)  BY DEF Kept
<1>2. /\ Good(u) /\ FewerLinks(t, u) /\ ~u.surf[s].role
      /\ ~u.surf[s].view /\ ~u.surf[s].cached
      /\ \A x \in Surfaces : x # s => u.surf[x].role = t.surf[x].role
      /\ \A q \in Surfaces : u.order[q] = IF q = s THEN NoChildren ELSE a.order[q]
      /\ \A x \in Surfaces : x # s => Content(u.surf[x]) = Content(t.surf[x])
  BY <1>1, ForgottenHolds
<1>3. t.surf[s].role => Idle(t, a)  BY LoseRoleKept
<1>4. ~t.surf[s].role => a = t  BY DEF LoseRole
<1> HIDE DEF u, a
<1>5. t \in States /\ u \in States  BY <1>1, <1>2 DEF Good, Sane
<1>6. Acyclic(u)
  <2>1. t \in States  BY <1>5
  <2>2. u \in States  BY <1>5
  <2> QED  BY <1>1, <1>2, <2>1, <2>2, AcyclicShrinks
<1>7. \A x \in Surfaces : x # s => /\ u.surf[x].buffer = t.surf[x].buffer
                                   /\ u.surf[x].pending = t.surf[x].pending
                                   /\ u.surf[x].cached = t.surf[x].cached
  BY <1>2 DEF Content
<1>8. Waiting(u)  BY <1>1, <1>2, <1>7 DEF Waiting
<1>9. ASSUME NEW q \in Surfaces PROVE SameOrFewer(t.order[q], u.order[q])
  <2>1. CASE q = s
    <3>1. t.order[q] \in ChildLists  BY <1>5 DEF States
    <3>2. Orderly(t.order[q], Children(t, q))  BY <1>1 DEF Good, Sane, Listed
    <3>3. u.order[q] = NoChildren  BY <1>2, <2>1
    <3> QED  BY <3>1, <3>2, <3>3, NoChildrenLoses
  <2>2. CASE q # s
    <3>1. u.order[q] = a.order[q]  BY <1>2, <2>2
    <3>2. SameOrFewer(t.order[q], t.order[q])  BY DEF SameOrFewer
    <3>3. SameOrFewer(t.order[q], a.order[q])  BY <1>3, <1>4, <3>2 DEF Idle
    <3> QED  BY <3>1, <3>3
  <2> QED  BY <2>1, <2>2
<1>10. Idle(t, u)  BY <1>2, <1>7, <1>9 DEF Idle
<1> QED  BY <1>2, <1>6, <1>8, <1>10 DEF Kept, u

\* place_above and place_below.
LEMMA PlacedKept ==
  ASSUME NEW t, Kept(t), NEW s \in Surfaces, NEW p \in Surfaces, t.surf[s].parent = p,
         NEW x, x # s, x # p => x \in Children(t, p), NEW above \in BOOLEAN
  PROVE  LET u == [t EXCEPT !.order[p] = PlacedIn(t.order[p], s, x, p, above)]
         IN u \in States /\ Kept(u) /\ Idle(t, u)
<1> DEFINE n == PlacedIn(t.order[p], s, x, p, above)
           u == [t EXCEPT !.order[p] = n]
<1>1. Good(t) /\ Acyclic(t) /\ Waiting(t)  BY DEF Kept
<1>2. /\ t \in States /\ Stacked(t) /\ Listed(t) /\ Linked(t) /\ Together(t)
      /\ t.order[p] \in ChildLists
  BY <1>1 DEF Good, Sane, States
<1>3. Orderly(t.order[p], Children(t, p)) /\ s \in Children(t, p)  BY <1>2 DEF Listed, Children
<1>4. /\ n \in ChildLists /\ Orderly(n, Children(t, p))
      /\ n.below = t.order[p].below /\ n.above = t.order[p].above
  <2>1. t.order[p] \in ChildLists  BY <1>2
  <2> QED  BY <1>3, <2>1, PlacedIsOrderly
<1> HIDE DEF n
<1>5. [t.order EXCEPT ![p] = n] \in [Surfaces -> ChildLists]  BY <1>2, <1>4 DEF States
<1>6. u = [t EXCEPT !.order = [t.order EXCEPT ![p] = n]]  OBVIOUS
<1> HIDE DEF u
<1>7. u \in States /\ u.surf = t.surf /\ u.stack = t.stack /\ u.order = [t.order EXCEPT ![p] = n]
  BY <1>2, <1>5, <1>6 DEF States
<1>8. \A q \in Surfaces : u.order[q] = IF q = p THEN n ELSE t.order[q]
  BY <1>2, <1>7 DEF States
<1>9. \A q : Children(u, q) = Children(t, q)  BY <1>7 DEF Children
<1>10. Listed(u)
  <2> SUFFICES ASSUME NEW q \in Surfaces PROVE Orderly(u.order[q], Children(u, q))
    BY DEF Listed
  <2> QED  BY <1>2, <1>4, <1>8, <1>9 DEF Listed
<1>11. Good(u)
  <2>1. Stacked(u)  BY <1>2, <1>7 DEF Stacked, Viewed
  <2>2. Linked(u)  BY <1>2, <1>7 DEF Linked, LinkedAt
  <2>3. Together(u)  BY <1>2, <1>7 DEF Together, TogetherAt
  <2> QED  BY <1>7, <1>10, <2>1, <2>2, <2>3 DEF Good, Sane
<1>12. Acyclic(u)  BY <1>1, <1>7 DEF Acyclic, LineIn, Upward
<1>13. Waiting(u)  BY <1>1, <1>7 DEF Waiting
<1>14. ASSUME NEW q \in Surfaces PROVE SameOrFewer(t.order[q], u.order[q])
  <2>1. u.order[q].below = t.order[q].below /\ u.order[q].above = t.order[q].above
    BY <1>4, <1>8
  <2> QED  BY <2>1, NoneLost
<1>15. Idle(t, u)  BY <1>7, <1>14 DEF Idle
<1> QED  BY <1>7, <1>11, <1>12, <1>13, <1>15 DEF Kept, u, n

\* The commit of a surface is applied.
LEMMA AppliedKept ==
  ASSUME NEW t, Kept(t), NEW s \in Surfaces
  PROVE  Kept(ApplyPending(t, s))
<1> DEFINE u == ApplyPending(t, s)
<1>1. Good(t) /\ Acyclic(t) /\ Waiting(t)  BY DEF Kept
<1>2. PICK done : Flushed(t, s, u, done)  BY <1>1, ApplyPendingHolds
<1> HIDE DEF u
<1>3. /\ Good(u) /\ SameLinks(t, u) /\ SameContent(t, u, done)
      /\ \A c \in done : ~u.surf[c].cached
  BY <1>2 DEF Flushed
<1>4. Acyclic(u)  BY <1>1, <1>3, AcyclicStays
<1>5. Waiting(u)  BY <1>1, <1>3 DEF Waiting, SameLinks, SameContent
<1> QED  BY <1>3, <1>4, <1>5 DEF Kept, u

-----------------------------------------------------------------------------
(* Windows.                                                                *)

LEMMA MapWindowKept ==
  ASSUME NEW t, Kept(t), NEW w \in Windows
  PROVE  LET u == [CreateView(t, w) EXCEPT !.surf[w].window = TRUE]
         IN u \in States /\ Kept(u) /\ Idle(t, u)
<1> DEFINE v == CreateView(t, w)
           r == [v.surf[w] EXCEPT !.window = TRUE]
           u == [v EXCEPT !.surf[w].window = TRUE]
<1>0. w \in Surfaces  BY SurfaceAssumption
<1>1. Good(t)  BY DEF Kept
<1>2. /\ Good(v) /\ v.order = t.order /\ v.surf[w].view
      /\ \A x \in Surfaces : v.surf[x] = [t.surf[x] EXCEPT !.view = v.surf[x].view]
  BY <1>0, <1>1, CreateViewHolds
<1>3. \A x \in Surfaces : t.surf[x] \in SurfaceStates  BY <1>1 DEF Good, Sane, States
<1> HIDE DEF v
<1>4. ASSUME NEW x \in Surfaces
      PROVE  /\ Content(v.surf[x]) = Content(t.surf[x])
             /\ v.surf[x].role = t.surf[x].role /\ v.surf[x].parent = t.surf[x].parent
  <2> PICK is : is = v.surf[x].view  OBVIOUS
  <2>1. v.surf[x] = [t.surf[x] EXCEPT !.view = is] /\ t.surf[x] \in SurfaceStates  BY <1>2, <1>3
  <2> QED  BY <2>1 DEF SurfaceStates, Content
<1>5. /\ v \in States /\ Stacked(v) /\ Listed(v) /\ Linked(v) /\ Together(v)
      /\ v.surf[w] \in SurfaceStates
  BY <1>0, <1>2 DEF Good, Sane, States
<1>6. /\ r \in SurfaceStates /\ Content(r) = Content(v.surf[w]) /\ r.window
      /\ r.view = v.surf[w].view /\ r.visible = v.surf[w].visible
      /\ r.role = v.surf[w].role /\ r.parent = v.surf[w].parent
      /\ r.above = v.surf[w].above /\ r.added = v.surf[w].added
  BY <1>5 DEF SurfaceStates, Content
<1>7. u = [v EXCEPT !.surf[w] = r]  BY <1>0, <1>5 DEF States
<1> HIDE DEF r, u
<1>8. /\ u \in States /\ u.order = v.order /\ u.stack = v.stack
      /\ \A x \in Surfaces : u.surf[x] = IF x = w THEN r ELSE v.surf[x]
  <2>1. v \in States  BY <1>5
  <2> QED  BY <1>0, <1>6, <1>7, <2>1, OneChanged
<1>9. \A x \in Surfaces : /\ u.surf[x].view = v.surf[x].view /\ u.surf[x].visible = v.surf[x].visible
                          /\ u.surf[x].role = v.surf[x].role /\ u.surf[x].parent = v.surf[x].parent
                          /\ u.surf[x].above = v.surf[x].above /\ u.surf[x].added = v.surf[x].added
                          /\ Content(u.surf[x]) = Content(v.surf[x])
                          /\ x # w => u.surf[x].window = v.surf[x].window
  BY <1>6, <1>8
<1>10. Stacked(u)
  <2>1. Viewed(u) = Viewed(v)  BY <1>9 DEF Viewed
  <2> QED  BY <1>5, <1>8, <2>1 DEF Stacked
<1>11. Listed(u)
  <2>1. \A q \in Surfaces : Children(u, q) = Children(v, q)  BY <1>9 DEF Children
  <2> QED  BY <1>5, <1>8, <2>1 DEF Listed
<1>12. ASSUME NEW x \in Surfaces PROVE LinkedAt(u, x) /\ TogetherAt(u, x)
  <2>1. LinkedAt(v, x) /\ TogetherAt(v, x)  BY <1>5 DEF Linked, Together
  <2>2. LinkedAt(u, x)  BY <1>9, <2>1 DEF LinkedAt
  <2>3. TogetherAt(u, x)
    <3>1. CASE x = w  BY <1>2, <1>6, <1>8, <1>9, <2>1, <3>1 DEF TogetherAt
    <3>2. CASE x # w  BY <1>9, <2>1, <3>2 DEF TogetherAt
    <3> QED  BY <3>1, <3>2
  <2> QED  BY <2>2, <2>3
<1>13. Good(u)  BY <1>8, <1>10, <1>11, <1>12 DEF Good, Sane, Linked, Together
<1>14. /\ u.order = t.order
       /\ \A x \in Surfaces : /\ Content(u.surf[x]) = Content(t.surf[x])
                              /\ u.surf[x].role = t.surf[x].role
                              /\ u.surf[x].parent = t.surf[x].parent
  BY <1>2, <1>4, <1>8, <1>9
<1>15. Kept(u) /\ Idle(t, u)  BY <1>13, <1>14, SameContentKept
<1> QED  BY <1>8, <1>15 DEF u, v

LEMMA ShowWindowKept ==
  ASSUME NEW t, Kept(t), NEW w \in Surfaces, t.surf[w].window
  PROVE  Kept(Show(RaiseWindow(t, w), {w})) /\ Idle(t, Show(RaiseWindow(t, w), {w}))
<1> DEFINE v == RaiseWindow(t, w)
           u == Show(v, {w})
<1>1. Good(t)  BY DEF Kept
<1>2. LinkedAt(t, w) /\ TogetherAt(t, w)  BY <1>1 DEF Good, Sane, Linked, Together
<1>3. t.surf[w].view /\ ~t.surf[w].role  BY <1>2 DEF LinkedAt, TogetherAt
<1>4. Good(v) /\ v.surf = t.surf /\ v.order = t.order  BY <1>1, <1>3, RaiseWindowHolds
<1> HIDE DEF v
<1>5. OnlyVisible(v, u) /\ Together(u)
  <2>1. {w} \in SUBSET Surfaces  OBVIOUS
  <2>2. \A x \in {w} : /\ v.surf[x].view /\ (v.surf[x].role \/ v.surf[x].window)
                       /\ v.surf[x].role /\ v.surf[x].above # Gone
                            => v.surf[x].parent \in Surfaces /\ v.surf[v.surf[x].parent].visible
    BY <1>3, <1>4
  <2> QED  BY <1>4, <2>1, <2>2, ShowHolds
<1> HIDE DEF u
<1>6. Good(u)  BY <1>4, <1>5, OnlyVisibleGood
<1>7. /\ u.order = t.order
      /\ \A x \in Surfaces : /\ Content(u.surf[x]) = Content(t.surf[x])
                             /\ u.surf[x].role = t.surf[x].role
                             /\ u.surf[x].parent = t.surf[x].parent
  BY <1>4, <1>5 DEF OnlyVisible, SameLinks, SameContent, Content
<1>8. Kept(u) /\ Idle(t, u)  BY <1>6, <1>7, SameContentKept
<1> QED  BY <1>8 DEF u, v

LEMMA HideWindowKept ==
  ASSUME NEW t, Kept(t), NEW w \in Surfaces
  PROVE  Kept(Hide(t, {w})) /\ Idle(t, Hide(t, {w}))
<1>1. {w} \in SUBSET Surfaces /\ Good(t)  BY DEF Kept
<1>2. OnlyVisible(t, Hide(t, {w})) /\ Together(Hide(t, {w}))  BY <1>1, HideHolds
<1> QED  BY <1>2, OnlyVisibleKept

LEMMA CloseWindowKept ==
  ASSUME NEW t, Kept(t), NEW w \in Surfaces, t.surf[w].window
  PROVE  Kept(DestroyView(t, w)) /\ Idle(t, DestroyView(t, w))
<1> DEFINE u == DestroyView(t, w)
<1>1. /\ Good(t) /\ t \in States /\ Stacked(t) /\ Listed(t)
      /\ \A x \in Surfaces : LinkedAt(t, x) /\ TogetherAt(t, x)
  BY DEF Kept, Good, Sane, Linked, Together
<1>2. t.surf[w].view /\ ~t.surf[w].role /\ t.surf[w].parent = None
  BY <1>1 DEF LinkedAt, TogetherAt
<1>3. /\ u \in States
      /\ Stacked(u) /\ Linked(u) /\ Together(u)
      /\ u.order = t.order
      /\ \A x \in Surfaces : /\ u.surf[x].role = t.surf[x].role
                             /\ u.surf[x].parent = t.surf[x].parent
                             /\ Content(u.surf[x]) = Content(t.surf[x])
  <2>1. t \in States  BY <1>1
  <2> QED  BY <1>1, <1>2, <2>1, DestroyViewIs
<1> HIDE DEF u
<1>4. \A q \in Surfaces : Children(u, q) = Children(t, q)  BY <1>3 DEF Children
<1>5. Good(u)  BY <1>1, <1>3, <1>4 DEF Good, Sane, Listed
<1>6. Kept(u) /\ Idle(t, u)  BY <1>3, <1>5, SameContentKept
<1> QED  BY <1>6 DEF u

-----------------------------------------------------------------------------
(* Every step.                                                             *)

\* The inductive invariant.
IInv == Kept(Now)

LEMMA NowIs == ASSUME IInv PROVE Now \in States /\ Now.surf = surf /\ Now.order = order /\ Now.stack = stack
  BY DEF IInv, Kept, Good, Sane, Now

LEMMA BecomesIs ==
  ASSUME NEW STATE u, u \in States, Becomes(u)
  PROVE  Now' = u
<1>1. Now' = [surf |-> surf', order |-> order', stack |-> stack']  BY DEF Now
<1>2. surf' = u.surf /\ order' = u.order /\ stack' = u.stack  BY DEF Becomes
<1> QED  BY <1>1, <1>2 DEF States

\* A step at which nothing is applied, and one at which the commits of c and what hangs
\* from it are, from t on.
Quietly == Kept(Now') /\ Idle(Now, Now')
Applies(c, t) == Kept(t) /\ Now' = ApplyPending(t, c) /\ ~(t.surf[c].role /\ Synchronized(t, c))

Loosened(s) == [Now EXCEPT !.surf[s].sync = FALSE]

LEMMA FilledIs ==
  ASSUME NEW t \in States, NEW s \in Surfaces
  PROVE  LET r == t.surf[s]
         IN /\ \A x : [t EXCEPT !.surf[s].pending = x] = Filled(t, s, x, r.buffer, r.cached, r.sync)
            /\ \A x : [t EXCEPT !.surf[s].cached = x] = Filled(t, s, r.pending, r.buffer, x, r.sync)
            /\ \A x : [t EXCEPT !.surf[s].sync = x] = Filled(t, s, r.pending, r.buffer, r.cached, x)
<1> DEFINE r == t.surf[s]
<1>1. r \in SurfaceStates  BY DEF States
<1> HIDE DEF r
<1>2. ASSUME NEW x
      PROVE  /\ [r EXCEPT !.pending = x]
                  = [r EXCEPT !.pending = x, !.buffer = r.buffer, !.cached = r.cached, !.sync = r.sync]
             /\ [r EXCEPT !.cached = x]
                  = [r EXCEPT !.pending = r.pending, !.buffer = r.buffer, !.cached = x, !.sync = r.sync]
             /\ [r EXCEPT !.sync = x]
                  = [r EXCEPT !.pending = r.pending, !.buffer = r.buffer, !.cached = r.cached, !.sync = x]
  BY <1>1 DEF SurfaceStates
<1>3. ASSUME NEW x
      PROVE  /\ [t EXCEPT !.surf[s].pending = x] = [t EXCEPT !.surf[s] = [r EXCEPT !.pending = x]]
             /\ [t EXCEPT !.surf[s].cached = x] = [t EXCEPT !.surf[s] = [r EXCEPT !.cached = x]]
             /\ [t EXCEPT !.surf[s].sync = x] = [t EXCEPT !.surf[s] = [r EXCEPT !.sync = x]]
  BY DEF r, States
<1> QED  BY <1>2, <1>3 DEF Filled, r

LEMMA AttachStep ==
  ASSUME IInv, NEW s \in Surfaces, NEW what \in {"draw", "unmap"}, Attach(s, what)
  PROVE  Quietly
<1> DEFINE t == Now
           r == t.surf[s]
           u == Filled(t, s, what, r.buffer, r.cached, r.sync)
<1>1. t \in States /\ Kept(t) /\ r \in SurfaceStates  BY NowIs DEF IInv, States
<1>2. Becomes([t EXCEPT !.surf[s].pending = what])  BY DEF Attach
<1>3. r.buffer \in BOOLEAN /\ r.cached \in BOOLEAN /\ r.sync \in BOOLEAN
      /\ what \in {"nothing", "draw", "unmap"} /\ what # "nothing"
  BY <1>1 DEF SurfaceStates
<1> HIDE DEF t
<1>4. u = [t EXCEPT !.surf[s].pending = what]  BY <1>1, FilledIs
<1>5. OnlyContent(t, u, s, what, r.buffer, r.cached, r.sync)  BY <1>1, <1>3, ContentIsQuiet
<1> HIDE DEF u
<1>6. u \in States  BY <1>5 DEF OnlyContent, Quiet
<1>7. Now' = u  BY <1>2, <1>4, <1>6, BecomesIs DEF t
<1>8. r.cached => r.role  BY <1>1 DEF Kept, Waiting
<1>9. Kept(u) /\ Idle(t, u)  BY <1>1, <1>3, <1>5, <1>8, OnlyContentKept
<1> QED  BY <1>7, <1>9 DEF Quietly, t

\* The mode of a subsurface.
LEMMA ModeKept ==
  ASSUME NEW t, Kept(t), NEW s \in Surfaces, NEW sync \in BOOLEAN
  PROVE  LET u == [t EXCEPT !.surf[s].sync = sync]
         IN /\ u \in States /\ Kept(u) /\ Idle(t, u)
            /\ SameLinks(t, u) /\ SameContent(t, u, {}) /\ u.order = t.order
<1> DEFINE r == t.surf[s]
           u == [t EXCEPT !.surf[s].sync = sync]
<1>1. t \in States /\ r \in SurfaceStates  BY DEF Kept, Good, Sane, States
<1>2. /\ r.pending \in {"nothing", "draw", "unmap"} /\ r.buffer \in BOOLEAN /\ r.cached \in BOOLEAN
  BY <1>1 DEF SurfaceStates
<1>3. u = Filled(t, s, r.pending, r.buffer, r.cached, sync)  BY <1>1, FilledIs
<1>4. OnlyContent(t, u, s, r.pending, r.buffer, r.cached, sync)  BY <1>1, <1>2, <1>3, ContentIsQuiet
<1> HIDE DEF u
<1>5. r.cached => r.role  BY DEF Kept, Waiting
<1>6. Kept(u) /\ Idle(t, u)  BY <1>4, <1>5, OnlyContentKept
<1>7. u \in States /\ SameLinks(t, u) /\ u.order = t.order  BY <1>4 DEF OnlyContent, Quiet
<1>8. SameContent(t, u, {})  BY <1>4 DEF OnlyContent, SameContent
<1> QED  BY <1>6, <1>7, <1>8 DEF u

LEMMA CommitStep ==
  ASSUME IInv, NEW s \in Surfaces, Commit(s)
  PROVE  Quietly \/ Applies(s, Now)
<1> DEFINE t == Now
           r == t.surf[s]
           u == [t EXCEPT !.surf[s].cached = TRUE]
           v == ApplyPending(t, s)
<1>1. t \in States /\ Kept(t) /\ r \in SurfaceStates /\ r = surf[s]  BY NowIs DEF IInv, States
<1>2. Becomes(IF r.role /\ Synchronized(t, s) THEN u ELSE v)  BY <1>1 DEF Commit
<1> HIDE DEF t
<1>3. CASE r.role /\ Synchronized(t, s)
  <2>1. Becomes(u)  BY <1>2, <1>3
  <2>2. /\ r.pending \in {"nothing", "draw", "unmap"} /\ r.buffer \in BOOLEAN /\ r.sync \in BOOLEAN
    BY <1>1 DEF SurfaceStates
  <2>3. u = Filled(t, s, r.pending, r.buffer, TRUE, r.sync)  BY <1>1, FilledIs, ZenonT(30)
  <2>4. PICK yes \in BOOLEAN : yes = TRUE  OBVIOUS
  <2>5. OnlyContent(t, Filled(t, s, r.pending, r.buffer, yes, r.sync),
                    s, r.pending, r.buffer, yes, r.sync)
    <3> HIDE DEF r
    <3> QED  BY <1>1, <2>2, ContentIsQuiet DEF r
  <2>6. OnlyContent(t, u, s, r.pending, r.buffer, TRUE, r.sync)  BY <2>3, <2>4, <2>5
  <2> HIDE DEF u
  <2>7. u \in States  BY <2>6 DEF OnlyContent, Quiet
  <2>8. Now' = u  BY <2>1, <2>7, BecomesIs DEF t
  <2>9. Kept(u) /\ Idle(t, u)
    <3>1. OnlyContent(t, u, s, r.pending, r.buffer, yes, r.sync)  BY <2>4, <2>6
    <3>2. yes => r.role  BY <1>3
    <3>3. r.cached => yes  BY <2>4
    <3> QED  BY <1>1, <3>1, <3>2, <3>3, OnlyContentKept
  <2> QED  BY <2>8, <2>9 DEF Quietly, t
<1>4. CASE ~(r.role /\ Synchronized(t, s))
  <2>1. Becomes(v)  BY <1>2, <1>4
  <2>2. Kept(v)  BY <1>1, AppliedKept
  <2> HIDE DEF v
  <2>3. v \in States  BY <2>2 DEF Kept, Good, Sane
  <2>4. Now' = v  BY <2>1, <2>3, BecomesIs DEF t, v
  <2> QED  BY <1>1, <1>4, <2>4 DEF Applies, t, v
<1> QED  BY <1>3, <1>4

LEMMA SetSyncStep ==
  ASSUME IInv, NEW s \in Surfaces, SetSync(s)
  PROVE  Quietly
<1> DEFINE t == Now
           u == [t EXCEPT !.surf[s].sync = TRUE]
<1>1. Kept(t)  BY DEF IInv
<1>2. Becomes(u)  BY DEF SetSync
<1> HIDE DEF t
<1>3. PICK yes \in BOOLEAN : yes = TRUE  OBVIOUS
<1>4. u = [t EXCEPT !.surf[s].sync = yes]  BY <1>3
<1>5. u \in States /\ Kept(u) /\ Idle(t, u)  BY <1>1, <1>4, ModeKept
<1> HIDE DEF u
<1>6. Now' = u  BY <1>2, <1>5, BecomesIs DEF t, u
<1> QED  BY <1>5, <1>6 DEF Quietly, t

LEMMA SetDesyncStep ==
  ASSUME IInv, NEW s \in Surfaces, SetDesync(s)
  PROVE  Quietly \/ Applies(s, Loosened(s))
<1> DEFINE t == Now
           u == [t EXCEPT !.surf[s].sync = FALSE]
           v == ApplyPending(u, s)
<1>1. Kept(t)  BY DEF IInv
<1>2. u = Loosened(s)  BY DEF Loosened
<1>3. \/ Becomes(u)
      \/ Becomes(v) /\ ~Synchronized(u, s)
  BY <1>2 DEF SetDesync, Loosened
<1> HIDE DEF t
<1>4. PICK no \in BOOLEAN : no = FALSE  OBVIOUS
<1>5. u = [t EXCEPT !.surf[s].sync = no]  BY <1>4
<1>6. u \in States /\ Kept(u) /\ Idle(t, u)  BY <1>1, <1>5, ModeKept
<1> HIDE DEF u
<1>7. CASE Becomes(u)
  <2>1. Now' = u  BY <1>6, <1>7, BecomesIs DEF t, u
  <2> QED  BY <1>6, <2>1 DEF Quietly, t
<1>8. CASE Becomes(v) /\ ~Synchronized(u, s)
  <2>1. Kept(v)  BY <1>6, AppliedKept
  <2> HIDE DEF v
  <2>2. v \in States  BY <2>1 DEF Kept, Good, Sane
  <2>3. Now' = v  BY <1>8, <2>2, BecomesIs DEF t, u, v
  <2> QED  BY <1>2, <1>6, <1>8, <2>3 DEF Applies, v
<1> QED  BY <1>3, <1>7, <1>8

LEMMA QuietlyBecomes ==
  ASSUME NEW STATE u, Kept(u), Idle(Now, u), Becomes(u)
  PROVE  Quietly
<1>1. u \in States  BY DEF Kept, Good, Sane
<1>2. Now' = u  BY <1>1, BecomesIs
<1> QED  BY <1>2 DEF Quietly

LEMMA GetSubsurfaceStep ==
  ASSUME IInv, NEW s \in Surfaces, NEW p \in Surfaces, GetSubsurface(s, p)
  PROVE  Quietly
<1> DEFINE t == Now
           u == NewSubsurface(t, s, p)
<1>1. t \in States /\ Kept(t) /\ t.surf = surf  BY NowIs DEF IInv
<1>2. /\ <<s, p>> \in Parents /\ s # p /\ ~t.surf[s].role /\ Becomes(u)
  BY <1>1 DEF GetSubsurface
<1>3. s \notin LineIn(t, p)
  BY <1>2 DEF GetSubsurface, IsDescendantOf, LineIn
<1>4. s \notin Windows
  <2>1. <<s, p>>[1] \notin Windows  BY <1>2, SurfaceAssumption
  <2> QED  BY <2>1
<1> HIDE DEF t
<1>5. Kept(u) /\ Idle(t, u)  BY <1>1, <1>2, <1>3, <1>4, NewSubsurfaceKept
<1> HIDE DEF u
<1> QED  BY <1>2, <1>5, QuietlyBecomes DEF t, u

LEMMA PlaceStep ==
  ASSUME IInv, NEW s \in Surfaces, NEW x \in Surfaces, NEW above \in BOOLEAN, Place(s, x, above)
  PROVE  Quietly
<1> DEFINE t == Now
           p == surf[s].parent
           o == t.order[p]
           u == [t EXCEPT !.order[p] = PlacedIn(o, s, x, p, above)]
<1>1. /\ t \in States /\ Kept(t) /\ t.surf = surf /\ t.order = order
      /\ surf[s] \in SurfaceStates
  BY NowIs DEF IInv, States
<1>2. p \in Surfaces  BY <1>1 DEF Place, SurfaceStates
<1>3. x # s /\ (x = p \/ Contains(Pending(p), x))  BY DEF Place
<1>4. Becomes(u)  BY <1>1 DEF Place, PlacedIn
<1>5. x # p => x \in Children(t, p)
  <2> SUFFICES ASSUME x # p PROVE x \in Children(t, p)  OBVIOUS
  <2>1. Orderly(o, Children(t, p))  BY <1>1, <1>2 DEF Kept, Good, Sane, Listed
  <2>2. ListOf(o.pendingBelow, ToSet(o.pendingBelow)) /\ ListOf(o.pendingAbove, ToSet(o.pendingAbove))
    BY <2>1 DEF Orderly
  <2>3. ListOf(Pending(p), ToSet(o.pendingBelow) \cup ToSet(o.pendingAbove))
    BY <1>1, <2>1, <2>2, JoinIs DEF Orderly, Pending
  <2>4. x \in ToSet(Pending(p))  BY <1>3 DEF Contains, ToSet
  <2> QED  BY <2>1, <2>3, <2>4 DEF ListOf, Orderly
<1>6. t.surf[s].parent = p  BY <1>1
<1> HIDE DEF t, p
<1>7. Kept(u) /\ Idle(t, u)  BY <1>1, <1>2, <1>3, <1>5, <1>6, PlacedKept
<1> HIDE DEF u
<1> QED  BY <1>4, <1>7, QuietlyBecomes DEF t, u

LEMMA DestroySubsurfaceStep ==
  ASSUME IInv, NEW s \in Surfaces, DestroySubsurface(s)
  PROVE  Quietly
<1> DEFINE t == Now
           u == LoseRole(t, s)
<1>1. Kept(t) /\ t.surf[s].role /\ Becomes(u)  BY NowIs DEF IInv, DestroySubsurface
<1> HIDE DEF t
<1>2. Kept(u) /\ Idle(t, u)  BY <1>1, LoseRoleKept
<1> HIDE DEF u
<1> QED  BY <1>1, <1>2, QuietlyBecomes DEF t, u

LEMMA DestroySurfaceStep ==
  ASSUME IInv, NEW s \in Surfaces, DestroySurface(s)
  PROVE  Quietly
<1> DEFINE t == Now
           u == Forgotten(t, s)
<1>1. Kept(t) /\ Becomes(u)  BY DEF IInv, DestroySurface, Forgotten
<1> HIDE DEF t
<1>2. Kept(u) /\ Idle(t, u)  BY <1>1, ForgottenKept
<1> HIDE DEF u
<1> QED  BY <1>1, <1>2, QuietlyBecomes DEF t, u

LEMMA MapWindowStep ==
  ASSUME IInv, NEW w \in Surfaces, MapWindow(w)
  PROVE  Quietly
<1> DEFINE t == Now
           u == [CreateView(t, w) EXCEPT !.surf[w].window = TRUE]
<1>1. Kept(t) /\ w \in Windows /\ Becomes(u)  BY DEF IInv, MapWindow
<1> HIDE DEF t
<1>2. Kept(u) /\ Idle(t, u)  BY <1>1, MapWindowKept
<1> HIDE DEF u
<1> QED  BY <1>1, <1>2, QuietlyBecomes DEF t, u

LEMMA NothingKept == ASSUME NEW t, Kept(t) PROVE Idle(t, t)
<1>1. Good(t) /\ \A x \in Surfaces : /\ Content(t.surf[x]) = Content(t.surf[x])
                          /\ t.surf[x].role = t.surf[x].role
                          /\ t.surf[x].parent = t.surf[x].parent
  BY DEF Kept
<1> QED  BY <1>1, SameContentKept

LEMMA ShowWindowStep ==
  ASSUME IInv, NEW w \in Surfaces, ShowWindow(w)
  PROVE  Quietly
<1> DEFINE t == Now
           u == Show(RaiseWindow(t, w), {w})
<1>1. Kept(t) /\ t.surf[w].window  BY NowIs DEF IInv, ShowWindow
<1>2. Becomes(t) \/ Becomes(u)  BY DEF ShowWindow
<1> HIDE DEF t
<1>3. Kept(u) /\ Idle(t, u)  BY <1>1, ShowWindowKept
<1>4. Idle(t, t)  BY <1>1, NothingKept
<1> HIDE DEF u
<1>5. CASE Becomes(t)  BY <1>1, <1>4, <1>5, QuietlyBecomes DEF t
<1>6. CASE Becomes(u)  BY <1>3, <1>6, QuietlyBecomes DEF t, u
<1> QED  BY <1>2, <1>5, <1>6

LEMMA HideWindowStep ==
  ASSUME IInv, NEW w \in Surfaces, HideWindow(w)
  PROVE  Quietly
<1> DEFINE t == Now
           u == Hide(t, {w})
<1>1. Kept(t) /\ Becomes(u)  BY DEF IInv, HideWindow
<1> HIDE DEF t
<1>2. Kept(u) /\ Idle(t, u)  BY <1>1, HideWindowKept
<1> HIDE DEF u
<1> QED  BY <1>1, <1>2, QuietlyBecomes DEF t, u

LEMMA CloseWindowStep ==
  ASSUME IInv, NEW w \in Surfaces, CloseWindow(w)
  PROVE  Quietly
<1> DEFINE t == Now
           u == DestroyView(t, w)
<1>1. Kept(t) /\ t.surf[w].window /\ Becomes(u)  BY NowIs DEF IInv, CloseWindow
<1> HIDE DEF t
<1>2. Kept(u) /\ Idle(t, u)  BY <1>1, CloseWindowKept
<1> HIDE DEF u
<1> QED  BY <1>1, <1>2, QuietlyBecomes DEF t, u

\* The commits that are applied: of c, from the state t on.
Applying(c, t) ==
    \/ Commit(c) /\ t = Now
    \/ SetDesync(c) /\ t = Loosened(c)

\* Every step applies the commits of one surface and what hangs from it, or none.
LEMMA StepIs ==
  ASSUME IInv, Next
  PROVE  Quietly \/ \E c \in Surfaces, t \in {Now} \cup {Loosened(x) : x \in Surfaces} :
                      Applying(c, t) /\ Applies(c, t)
<1>1. ASSUME NEW s \in Surfaces, Commit(s) PROVE Quietly \/ (Applying(s, Now) /\ Applies(s, Now))
  <2>1. Quietly \/ Applies(s, Now)  BY <1>1, CommitStep
  <2>2. Applying(s, Now)  BY <1>1 DEF Applying
  <2> QED  BY <2>1, <2>2
<1>2. ASSUME NEW s \in Surfaces, SetDesync(s)
      PROVE  Quietly \/ (Applying(s, Loosened(s)) /\ Applies(s, Loosened(s)))
  <2>1. Quietly \/ Applies(s, Loosened(s))  BY <1>2, SetDesyncStep
  <2>2. Applying(s, Loosened(s))  BY <1>2 DEF Applying
  <2> QED  BY <2>1, <2>2
<1>3. ASSUME NEW s \in Surfaces, SetSync(s) \/ DestroySubsurface(s) \/ DestroySurface(s) PROVE Quietly
  BY <1>3, SetSyncStep, DestroySubsurfaceStep, DestroySurfaceStep
<1>4. ASSUME NEW s \in Surfaces, NEW what \in {"draw", "unmap"}, Attach(s, what) PROVE Quietly
  BY <1>4, AttachStep
<1>5. ASSUME NEW s \in Surfaces, NEW p \in Surfaces, GetSubsurface(s, p) PROVE Quietly
  BY <1>5, GetSubsurfaceStep
<1>6. ASSUME NEW s \in Surfaces, NEW x \in Surfaces, NEW above \in BOOLEAN, Place(s, x, above)
      PROVE  Quietly
  BY <1>6, PlaceStep
<1>7. ASSUME NEW w \in Surfaces, MapWindow(w) \/ ShowWindow(w) \/ HideWindow(w) \/ CloseWindow(w)
      PROVE  Quietly
  BY <1>7, MapWindowStep, ShowWindowStep, HideWindowStep, CloseWindowStep
<1> QED  BY <1>1, <1>2, <1>3, <1>4, <1>5, <1>6, <1>7 DEF Next

LEMMA InitKept == ASSUME Init PROVE IInv
<1> DEFINE t == Now
<1>1. /\ t = [surf |-> [s \in Surfaces |-> NewSurface], order |-> [s \in Surfaces |-> NoChildren],
              stack |-> <<>>]
      /\ t.surf = [s \in Surfaces |-> NewSurface] /\ t.order = [s \in Surfaces |-> NoChildren]
      /\ t.stack = <<>>
  BY DEF Init, Now
<1>2. NewSurface \in SurfaceStates /\ NoChildren \in ChildLists /\ <<>> \in Seq(Surfaces)
  BY NewSurfaceIs
<1>3. t \in States  BY <1>1, <1>2 DEF States
<1> HIDE DEF t
<1>4. \A x \in Surfaces : t.surf[x] = NewSurface /\ t.order[x] = NoChildren  BY <1>1
<1>5. \A p \in Surfaces : Children(t, p) = {}
  BY <1>4, NewSurfaceIs, SurfaceAssumption DEF Children
<1>6. Viewed(t) = {}  BY <1>4, NewSurfaceIs DEF Viewed
<1>7. Stacked(t)  BY <1>1, <1>6 DEF Stacked, ListOf, ToSet, IsInjective
<1>8. Listed(t)
  <2> SUFFICES ASSUME NEW p \in Surfaces PROVE Orderly(t.order[p], Children(t, p))  BY DEF Listed
  <2>1. t.order[p] = NoChildren /\ Children(t, p) = {}  BY <1>4, <1>5
  <2> QED  BY <2>1, NewSurfaceIs
<1>9. Linked(t)
  <2> SUFFICES ASSUME NEW s \in Surfaces PROVE LinkedAt(t, s)  BY DEF Linked
  <2>1. t.surf[s] = NewSurface /\ None # s  BY <1>4, SurfaceAssumption
  <2> QED  BY <2>1, NewSurfaceIs DEF LinkedAt
<1>10. Together(t)
  <2> SUFFICES ASSUME NEW s \in Surfaces PROVE TogetherAt(t, s)  BY DEF Together
  <2>1. t.surf[s] = NewSurface  BY <1>4
  <2> QED  BY <2>1, NewSurfaceIs DEF TogetherAt
<1>11. Acyclic(t)
  <2> SUFFICES ASSUME NEW x \in Surfaces, t.surf[x].parent # None PROVE FALSE  BY DEF Acyclic
  <2>1. t.surf[x] = NewSurface  BY <1>4
  <2> QED  BY <2>1, NewSurfaceIs
<1>12. Waiting(t)
  <2> SUFFICES ASSUME NEW x \in Surfaces, t.surf[x].cached PROVE FALSE  BY DEF Waiting
  <2>1. t.surf[x] = NewSurface  BY <1>4
  <2> QED  BY <2>1 DEF NewSurface
<1> QED  BY <1>3, <1>7, <1>8, <1>9, <1>10, <1>11, <1>12 DEF IInv, Kept, Good, Sane, t

LEMMA NextKept == ASSUME IInv, [Next]_vars PROVE IInv'
<1>1. CASE Next
  <2>1. CASE Quietly  BY <2>1 DEF Quietly, IInv
  <2>2. ASSUME NEW c \in Surfaces, NEW t \in {Now} \cup {Loosened(x) : x \in Surfaces}, Applies(c, t)
        PROVE  IInv'
    <3>1. Kept(t) /\ Now' = ApplyPending(t, c)  BY <2>2 DEF Applies
    <3>2. Kept(ApplyPending(t, c))  BY <3>1, AppliedKept
    <3> QED  BY <3>1, <3>2 DEF IInv
  <2> QED  BY <1>1, <2>1, <2>2, StepIs
<1>2. CASE UNCHANGED vars
  <2>1. Now' = Now  BY <1>2 DEF vars, Now
  <2> QED  BY <2>1 DEF IInv
<1> QED  BY <1>1, <1>2

\* Whatever clients ask of their surfaces and the user of the windows, in any order, the
\* links, the lists and the stack of views agree and nobody hangs from itself.
THEOREM Invariance == Spec => []IInv
<1>1. Init => IInv  BY InitKept
<1>2. IInv /\ [Next]_vars => IInv'  BY NextKept
<1> QED  BY <1>1, <1>2, PTL DEF Spec

-----------------------------------------------------------------------------
(* What is seen.                                                           *)

LEMMA KeptIsSeen == ASSUME IInv PROVE SeenWithParent
<1> DEFINE t == Now
<1>1. /\ t \in States /\ Stacked(t) /\ Listed(t) /\ Together(t)
      /\ t.surf = surf /\ t.order = order /\ t.stack = stack
  BY NowIs DEF IInv, Kept, Good, Sane
<1> HIDE DEF t
<1>2. TypeOK
  <2>1. surf \in [Surfaces -> SurfaceStates] /\ order \in [Surfaces -> ChildLists] /\ stack \in Seq(Surfaces)
    BY <1>1 DEF States
  <2>2. ToSet(stack) = {s \in Surfaces : surf[s].view} /\ IsInjective(stack)
    BY <1>1 DEF Stacked, ListOf, Viewed
  <2>3. \A s \in Surfaces : surf[s].visible \/ surf[s].window => surf[s].view
    BY <1>1 DEF Together, TogetherAt
  <2> QED  BY <2>1, <2>2, <2>3 DEF TypeOK, SurfaceStates, ChildLists
<1>3. ListsMatch
  <2> SUFFICES ASSUME NEW p \in Surfaces
               PROVE  LET o == order[p]
                          pendingList == o.pendingBelow \o o.pendingAbove
                          current == o.below \o o.above
                      IN /\ ToSet(pendingList) = Children(t, p)
                         /\ IsInjective(pendingList)
                         /\ ToSet(current) \subseteq Children(t, p)
                         /\ IsInjective(current)
    BY DEF ListsMatch, t
  <2> DEFINE o == order[p]
             pendingSet == ToSet(o.pendingBelow) \cup ToSet(o.pendingAbove)
             currentSet == ToSet(o.below) \cup ToSet(o.above)
  <2>1. Orderly(o, Children(t, p))  BY <1>1 DEF Listed
  <2>2. /\ ListOf(o.pendingBelow, ToSet(o.pendingBelow)) /\ ListOf(o.pendingAbove, ToSet(o.pendingAbove))
        /\ ListOf(o.below, ToSet(o.below)) /\ ListOf(o.above, ToSet(o.above))
    BY <2>1 DEF Orderly
  <2>3. ListOf(o.pendingBelow \o o.pendingAbove, pendingSet)
    BY <2>1, <2>2, JoinIs DEF Orderly
  <2>4. ListOf(o.below \o o.above, currentSet)
    BY <2>1, <2>2, JoinIs DEF Orderly
  <2> QED  BY <2>1, <2>3, <2>4 DEF Orderly, ListOf
<1>4. \A s \in Surfaces :
         surf[s].role /\ surf[s].visible /\ surf[s].above # Gone
           => /\ surf[s].added
              /\ surf[s].above = surf[s].parent
              /\ surf[surf[s].parent].visible
  BY <1>1 DEF Together, TogetherAt
<1> QED  BY <1>2, <1>3, <1>4 DEF SeenWithParent

\* The four lists of every surface agree with the links of its children, and a subsurface
\* is seen only with its parent and from the parent's first commit on (subsurface.c
\* 239-377, compositor.c 1900-1911 and 1983-2043), for any surfaces and any tree of them.
THEOREM SeenTogether == Spec => []SeenWithParent
<1>1. IInv => SeenWithParent  BY KeptIsSeen
<1> QED  BY <1>1, Invariance, PTL

-----------------------------------------------------------------------------
(* What is committed.                                                      *)

\* The commits of c are applied to done, from a state with the links, the content and the
\* lists of the present one.
LEMMA AppliesIs ==
  ASSUME IInv, NEW c \in Surfaces, NEW t \in {Now} \cup {Loosened(x) : x \in Surfaces},
         Applies(c, t)
  PROVE  /\ t \in States /\ Kept(t)
         /\ SameLinks(Now, t) /\ SameContent(Now, t, {}) /\ t.order = order
         /\ \E done : Flushed(t, c, Now', done)
<1>1. Kept(t) /\ Now' = ApplyPending(t, c) /\ Good(t)  BY DEF Applies, Kept
<1>2. Kept(Now) /\ Now \in States /\ Now.order = order  BY NowIs DEF IInv
<1>3. \E done : Flushed(t, c, Now', done)  BY <1>1, ApplyPendingHolds
<1>4. CASE t = Now
  <2>1. SameLinks(Now, t) /\ SameContent(Now, t, {})  BY <1>4 DEF SameLinks, SameContent
  <2> QED  BY <1>1, <1>2, <1>3, <1>4, <2>1
<1>5. ASSUME NEW x \in Surfaces, t = Loosened(x)
      PROVE  t \in States /\ SameLinks(Now, t) /\ SameContent(Now, t, {}) /\ t.order = order
  <2> DEFINE n == Now
  <2>1. Kept(n) /\ n.order = order /\ t = [n EXCEPT !.surf[x].sync = FALSE]  BY <1>2, <1>5 DEF Loosened
  <2> HIDE DEF n
  <2>2. PICK no \in BOOLEAN : no = FALSE  OBVIOUS
  <2>3. t = [n EXCEPT !.surf[x].sync = no]  BY <2>1, <2>2
  <2> DEFINE u == [n EXCEPT !.surf[x].sync = no]
  <2>4. u \in States /\ SameLinks(n, u) /\ SameContent(n, u, {}) /\ u.order = n.order
    <3>1. Kept(n)  BY <2>1
    <3> QED  BY <3>1, ModeKept
  <2>5. t = u  BY <2>3
  <2> HIDE DEF u
  <2> QED  BY <2>1, <2>4, <2>5 DEF n
<1> QED  BY <1>1, <1>3, <1>4, <1>5

\* What is not held back stays so while it is applied.
LEMMA StaysLoose ==
  ASSUME NEW t \in States, NEW u \in States, SameLinks(t, u), SameModes(t, u), NEW c \in Surfaces,
         ~(t.surf[c].role /\ Synchronized(t, c))
  PROVE  ~Synchronized(u, c)
<1>1. Upward(u) = Upward(t)  BY UpwardStays
<1>2. LineIn(t, c) \subseteq Surfaces /\ (~t.surf[c].role => LineIn(t, c) = {c})  BY LineIs
<1>3. \A x \in Surfaces : u.surf[x].role = t.surf[x].role /\ u.surf[x].sync = t.surf[x].sync
  BY DEF SameLinks, SameModes
<1> SUFFICES ASSUME Synchronized(u, c) PROVE FALSE  OBVIOUS
<1>4. PICK x \in LineIn(t, c) : u.surf[x].role /\ u.surf[x].sync
  BY <1>1 DEF Synchronized, LineIn
<1>5. t.surf[x].role /\ t.surf[x].sync  BY <1>2, <1>3, <1>4
<1>6. Synchronized(t, c)  BY <1>4, <1>5 DEF Synchronized, LineIn
<1>7. t.surf[c].role  BY <1>2, <1>4, <1>5
<1> QED  BY <1>6, <1>7

LEMMA NowPrimed == Now'.surf = surf' /\ Now'.order = order' /\ Now'.stack = stack'
  BY DEF Now

LEMMA ContentStep ==
  ASSUME IInv, Next, NEW s \in Surfaces, surf'[s].buffer # surf[s].buffer, surf'[s].role
  PROVE  \E c \in Line(s) : (Commit(c) \/ SetDesync(c)) /\ ~HeldBack(c)'
<1>1. Now.surf = surf /\ Now'.surf = surf'  BY NowIs, NowPrimed
<1>2. ~Quietly  BY <1>1 DEF Quietly, Idle
<1>3. PICK c \in Surfaces, t \in {Now} \cup {Loosened(x) : x \in Surfaces} :
        Applying(c, t) /\ Applies(c, t)
  BY <1>2, StepIs
<1>4. /\ t \in States /\ Kept(t)
      /\ SameLinks(Now, t) /\ SameContent(Now, t, {}) /\ t.order = order
      /\ \E done : Flushed(t, c, Now', done)
  BY <1>3, AppliesIs
<1>5. PICK done : Flushed(t, c, Now', done)  BY <1>4
<1>6. /\ SameLinks(t, Now') /\ SameModes(t, Now') /\ SameContent(t, Now', done)
      /\ \A x \in done : c \in LineIn(t, x)
      /\ Now' \in States
  BY <1>5 DEF Flushed, Good, Sane
<1>7. s \in done
  <2> SUFFICES ASSUME s \notin done PROVE FALSE  OBVIOUS
  <2>1. Now'.surf[s].buffer = t.surf[s].buffer  BY <1>6 DEF SameContent
  <2>2. t.surf[s].buffer = Now.surf[s].buffer  BY <1>4 DEF SameContent
  <2> QED  BY <1>1, <2>1, <2>2
<1>8. c \in Line(s)
  <2>1. Upward(t) = Upward(Now)  BY <1>4, UpwardStays
  <2> QED  BY <1>6, <1>7, <2>1 DEF Line, LineIn
<1>9. ~HeldBack(c)'
  <2>1. ~(t.surf[c].role /\ Synchronized(t, c))  BY <1>3 DEF Applies
  <2> DEFINE u == Now'
  <2>2. u \in States /\ SameLinks(t, u) /\ SameModes(t, u)  BY <1>6
  <2> HIDE DEF u
  <2>3. ~Synchronized(u, c)  BY <1>4, <2>1, <2>2, StaysLoose
  <2> QED  BY <1>1, <2>3 DEF HeldBack, Line, Synchronized, u
<1> QED  BY <1>3, <1>8, <1>9 DEF Applying

\* The content of a synchronised subsurface, and of whatever hangs from one, changes only
\* when a surface above it that is held back by nothing commits or is let go (surface.c
\* 354-366, subsurface.c 300-313).
THEOREM ContentWithTop == Spec => ContentComesWithTop
<1>1. IInv /\ [Next]_vars
        => [\A s \in Surfaces :
              surf'[s].buffer # surf[s].buffer /\ surf'[s].role /\ HeldBack(s)
                => \E t \in Line(s) : (Commit(t) \/ SetDesync(t)) /\ ~HeldBack(t)']_vars
  BY ContentStep
<1> QED  BY <1>1, Invariance, PTL DEF Spec, ContentComesWithTop

-----------------------------------------------------------------------------
(* The order the views are put in.                                         *)

LEMMA AheadIsNearer ==
  ASSUME NEW list, NEW set, ListOf(list, set), NEW x, NEW y, Ahead(list, x, y)
  PROVE  Position(list, x) < Position(list, y)
<1>1. list \in Seq(Surfaces)  BY DEF ListOf
<1>2. /\ \A i \in 1 .. Len(list) : list[i] \in set
      /\ \A i, j \in 1 .. Len(list) : list[i] = list[j] => i = j
  BY <1>1, ListIs
<1>3. PICK i \in 1 .. Len(list), j \in 1 .. Len(list) : i < j /\ list[i] = x /\ list[j] = y
  BY DEF Ahead
<1>4. x \in set /\ y \in set  BY <1>2, <1>3
<1>5. Position(list, x) \in 1 .. Len(list) /\ list[Position(list, x)] = x  BY <1>4, PositionIs
<1>6. Position(list, y) \in 1 .. Len(list) /\ list[Position(list, y)] = y  BY <1>4, PositionIs
<1>7. Position(list, x) = i /\ Position(list, y) = j  BY <1>2, <1>3, <1>5, <1>6
<1> QED  BY <1>3, <1>7

\* The children behind, the surface, the children in front, by their places.
LEMMA WantedIs ==
  ASSUME NEW a \in Seq(Surfaces), NEW p \in Surfaces, NEW b \in Seq(Surfaces)
  PROVE  LET w == a \o <<p>> \o b
         IN /\ DOMAIN w = 1 .. Len(a) + 1 + Len(b)
            /\ \A i \in 1 .. Len(a) + 1 + Len(b) :
                 w[i] = IF i <= Len(a) THEN a[i] ELSE IF i = Len(a) + 1 THEN p ELSE b[i - (Len(a) + 1)]
<1> DEFINE one == <<p>>
           left == a \o one
           w == left \o b
<1> PICK m : m = Len(a)  OBVIOUS
<1> PICK n : n = Len(b)  OBVIOUS
<1>1. one \in Seq(Surfaces) /\ Len(one) = 1 /\ one[1] = p  OBVIOUS
<1>2. m \in Nat /\ n \in Nat  BY LenProperties
<1> HIDE DEF one
<1>3. /\ left \in Seq(Surfaces) /\ Len(left) = m + 1
      /\ \A i \in 1 .. m + 1 : left[i] = IF i <= m THEN a[i] ELSE one[i - m]
  <2>1. one \in Seq(Surfaces)  BY <1>1
  <2>2. /\ left \in Seq(Surfaces) /\ Len(left) = Len(a) + Len(one)
        /\ \A i \in 1 .. Len(a) + Len(one) :
             left[i] = IF i <= Len(a) THEN a[i] ELSE one[i - Len(a)]
    BY <2>1, ConcatProperties DEF left
  <2> QED  BY <1>1, <2>2
<1> HIDE DEF left
<1>4. /\ w \in Seq(Surfaces) /\ Len(w) = m + 1 + n
      /\ \A i \in 1 .. m + 1 + n : w[i] = IF i <= m + 1 THEN left[i] ELSE b[i - (m + 1)]
  <2>1. left \in Seq(Surfaces)  BY <1>3
  <2>2. /\ w \in Seq(Surfaces) /\ Len(w) = Len(left) + Len(b)
        /\ \A i \in 1 .. Len(left) + Len(b) :
             w[i] = IF i <= Len(left) THEN left[i] ELSE b[i - Len(left)]
    BY <2>1, ConcatProperties
  <2> QED  BY <1>3, <2>2
<1>5. DOMAIN w = 1 .. m + 1 + n  BY <1>4, LenProperties
<1> HIDE DEF w
<1>6. ASSUME NEW i \in 1 .. m + 1 + n
      PROVE  w[i] = IF i <= m THEN a[i] ELSE IF i = m + 1 THEN p ELSE b[i - (m + 1)]
  <2>1. CASE i <= m
    <3>1. i \in 1 .. m + 1 /\ i <= m + 1  BY <1>2, <2>1
    <3> QED  BY <1>3, <1>4, <2>1, <3>1
  <2>2. CASE i = m + 1
    <3>1. i \in 1 .. m + 1 /\ ~(i <= m) /\ i - m = 1  BY <1>2, <2>2
    <3>2. left[i] = one[i - m]  BY <1>3, <3>1
    <3>3. left[i] = p  BY <1>1, <3>1, <3>2
    <3>4. w[i] = left[i]  BY <1>4, <2>2
    <3> QED  BY <2>2, <3>1, <3>3, <3>4
  <2>3. CASE ~(i <= m) /\ i # m + 1
    <3>1. ~(i <= m + 1)  BY <1>2, <2>3
    <3> QED  BY <1>4, <2>3, <3>1
  <2> QED  BY <2>1, <2>2, <2>3
<1> QED  BY <1>5, <1>6 DEF w, left, one

LEMMA InOrderIsOrdered ==
  ASSUME NEW t \in States, Stacked(t), NEW p \in Surfaces, t.surf[p].view, InOrder(t, p)
  PROVE  LET wanted == t.order[p].below \o <<p>> \o t.order[p].above
         IN \A i, j \in DOMAIN wanted :
              i < j /\ t.surf[wanted[i]].view /\ t.surf[wanted[j]].view
                => Position(t.stack, wanted[i]) > Position(t.stack, wanted[j])
<1> DEFINE a == t.order[p].below
           b == t.order[p].above
           w == a \o <<p>> \o b
           views == t.stack
<1> PICK m : m = Len(a)  OBVIOUS
<1> PICK n : n = Len(b)  OBVIOUS
<1>1. a \in Seq(Surfaces) /\ b \in Seq(Surfaces)  BY DEF States, ChildLists
<1>2. ListOf(views, Viewed(t))  BY DEF Stacked
<1>3. m \in Nat /\ n \in Nat  BY <1>1, LenProperties
<1>4. /\ \A j \in 1 .. m : t.surf[a[j]].view =>
           /\ Ahead(views, p, a[j])
           /\ \A i \in 1 .. j - 1 : t.surf[a[i]].view => Ahead(views, a[j], a[i])
      /\ \A j \in 1 .. n : t.surf[b[j]].view =>
           /\ Ahead(views, b[j], p)
           /\ \A i \in 1 .. j - 1 : t.surf[b[i]].view => Ahead(views, b[j], b[i])
  BY DEF InOrder, Around
<1> HIDE DEF a, b
<1>5. /\ DOMAIN w = 1 .. m + 1 + n
      /\ \A i \in 1 .. m + 1 + n :
           w[i] = IF i <= m THEN a[i] ELSE IF i = m + 1 THEN p ELSE b[i - (m + 1)]
  BY <1>1, WantedIs
<1> HIDE DEF w, views
<1>6. ASSUME NEW i \in 1 .. m + 1 + n, NEW j \in 1 .. m + 1 + n,
             i < j, t.surf[w[i]].view, t.surf[w[j]].view
      PROVE  Ahead(views, w[j], w[i])
  <2>1. CASE j <= m
    <3>1. i <= m /\ j \in 1 .. m /\ i \in 1 .. j - 1  BY <1>3, <1>6, <2>1
    <3>2. w[i] = a[i] /\ w[j] = a[j]  BY <1>5, <2>1, <3>1
    <3> QED  BY <1>4, <1>6, <3>1, <3>2
  <2>2. CASE j = m + 1
    <3>1. i <= m /\ i \in 1 .. m /\ ~(j <= m)  BY <1>3, <1>6, <2>2
    <3>2. w[i] = a[i] /\ w[j] = p  BY <1>5, <2>2, <3>1
    <3> QED  BY <1>4, <1>6, <3>1, <3>2
  <2>3. CASE j > m + 1
    <3> DEFINE k == j - (m + 1)
    <3>1. k \in 1 .. n /\ ~(j <= m) /\ j # m + 1  BY <1>3, <2>3
    <3>2. w[j] = b[k]  BY <1>5, <3>1
    <3>3. Ahead(views, b[k], p)  BY <1>4, <1>6, <3>1, <3>2
    <3>4. CASE i <= m
      <4>1. i \in 1 .. m /\ w[i] = a[i]  BY <1>3, <1>5, <3>4
      <4>2. Ahead(views, p, a[i])  BY <1>4, <1>6, <4>1
      <4> HIDE DEF k
      <4> QED  BY <1>2, <3>2, <3>3, <4>1, <4>2, AheadIsTransitive
    <3>5. CASE i = m + 1
      <4>1. w[i] = p  BY <1>3, <1>5, <3>5
      <4> QED  BY <3>2, <3>3, <4>1
    <3>6. CASE i > m + 1
      <4> DEFINE l == i - (m + 1)
      <4>1. l \in 1 .. k - 1 /\ ~(i <= m) /\ i # m + 1  BY <1>3, <1>6, <3>1, <3>6
      <4>2. w[i] = b[l]  BY <1>5, <4>1
      <4> HIDE DEF k, l
      <4> QED  BY <1>4, <1>6, <3>1, <3>2, <4>1, <4>2
    <3> QED  BY <1>3, <3>4, <3>5, <3>6
  <2> QED  BY <1>3, <2>1, <2>2, <2>3
<1>7. ASSUME NEW i \in 1 .. m + 1 + n, NEW j \in 1 .. m + 1 + n,
             i < j, t.surf[w[i]].view, t.surf[w[j]].view
      PROVE  Position(views, w[i]) > Position(views, w[j])
  <2>1. Ahead(views, w[j], w[i])  BY <1>6, <1>7
  <2>2. Position(views, w[j]) < Position(views, w[i])  BY <1>2, <2>1, AheadIsNearer
  <2>3. w[i] \in Surfaces /\ w[j] \in Surfaces
    <3>1. \A x, y : Ahead(views, x, y) => x \in Viewed(t) /\ y \in Viewed(t)
      BY <1>2, ListIs DEF Ahead, ListOf
    <3> QED  BY <2>1, <3>1 DEF Viewed
  <2>4. w[i] \in Viewed(t) /\ w[j] \in Viewed(t)  BY <1>7, <2>3 DEF Viewed
  <2>5. Position(views, w[i]) \in 1 .. Len(views)  BY <1>2, <2>4, PositionIs
  <2>6. Position(views, w[j]) \in 1 .. Len(views)  BY <1>2, <2>4, PositionIs
  <2> QED  BY <2>2, <2>5, <2>6
<1> QED  BY <1>5, <1>7 DEF w, a, b, views

LEMMA OrderStep ==
  ASSUME IInv, Next, NEW p \in Surfaces, Applied(p)
  PROVE  /\ order'[p].below = order[p].pendingBelow
         /\ order'[p].above = order[p].pendingAbove
         /\ surf'[p].view => Ordered(p)'
<1>1. /\ Now.surf = surf /\ Now.order = order
      /\ Now'.surf = surf' /\ Now'.order = order' /\ Now'.stack = stack'
  BY NowIs, NowPrimed
<1>2. ~Quietly
  <2> SUFFICES ASSUME Idle(Now, Now') PROVE FALSE  BY DEF Quietly
  <2> QED  BY <1>1 DEF Idle, Applied, SameOrFewer
<1>3. PICK c \in Surfaces, t \in {Now} \cup {Loosened(x) : x \in Surfaces} :
        Applying(c, t) /\ Applies(c, t)
  BY <1>2, StepIs
<1>4. /\ t \in States /\ Kept(t) /\ Acyclic(t)
      /\ SameLinks(Now, t) /\ SameContent(Now, t, {}) /\ t.order = order
      /\ \E done : Flushed(t, c, Now', done)
  BY <1>3, AppliesIs DEF Kept
<1>5. PICK done : Flushed(t, c, Now', done)  BY <1>4
<1>6. /\ Now' \in States /\ Stacked(Now')
      /\ SameLinks(t, Now') /\ SameContent(t, Now', done)
      /\ \A q \in Surfaces : order'[q] = IF q \in done THEN Committed(order[q]) ELSE order[q]
      /\ \A q \in done : t.surf[q].view => InOrder(Now', q)
  BY <1>1, <1>4, <1>5 DEF Flushed, Good, Sane
<1>7. p \in done
  <2> SUFFICES ASSUME p \notin done PROVE FALSE  OBVIOUS
  <2>1. /\ Now'.surf[p].pending = t.surf[p].pending /\ t.surf[p].pending = Now.surf[p].pending
        /\ Now'.surf[p].cached = t.surf[p].cached /\ t.surf[p].cached = Now.surf[p].cached
        /\ order'[p] = order[p]
    BY <1>4, <1>6 DEF SameContent
  <2> QED  BY <1>1, <2>1 DEF Applied
<1>8. order[p] \in ChildLists  BY <1>1, <1>4 DEF States
<1>9. order'[p] = Committed(order[p])  BY <1>6, <1>7
<1>10. order'[p].below = order[p].pendingBelow /\ order'[p].above = order[p].pendingAbove
  BY <1>8, <1>9 DEF Committed, ChildLists
<1>11. ASSUME surf'[p].view PROVE Ordered(p)'
  <2> DEFINE u == Now'
  <2>1. u.surf[p].view /\ t.surf[p].view  BY <1>1, <1>6, <1>11 DEF SameLinks
  <2>2. u \in States /\ Stacked(u) /\ InOrder(u, p)  BY <1>6, <1>7, <2>1
  <2> HIDE DEF u
  <2>3. LET wanted == u.order[p].below \o <<p>> \o u.order[p].above
        IN \A i, j \in DOMAIN wanted :
             i < j /\ u.surf[wanted[i]].view /\ u.surf[wanted[j]].view
               => Position(u.stack, wanted[i]) > Position(u.stack, wanted[j])
    BY <2>1, <2>2, InOrderIsOrdered
  <2>4. u.surf = surf' /\ u.order = order' /\ u.stack = stack'  BY <1>1 DEF u
  <2> QED  BY <2>3, <2>4 DEF Ordered
<1> QED  BY <1>10, <1>11

\* The order a client asked for takes effect when the parent's commit does, the parent's
\* own or one carried out for it by a surface above: the views then lie in that order
\* (subsurface.c 315-377).
THEOREM OrderWithCommit == Spec => OrderComesWithCommit
<1>1. IInv /\ [Next]_vars
        => [\A p \in Surfaces : Applied(p)
              => /\ order'[p].below = order[p].pendingBelow
                 /\ order'[p].above = order[p].pendingAbove
                 /\ surf'[p].view => Ordered(p)']_vars
  BY OrderStep
<1> QED  BY <1>1, Invariance, PTL DEF Spec, OrderComesWithCommit
=============================================================================
