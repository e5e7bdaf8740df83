----------------------------- MODULE ListProofs -----------------------------
(***************************************************************************)
(* Lemmas about what the other modules are built from: the least of a set  *)
(* of numbers, the places SortedBy gives to the elements of a list, and    *)
(* what a sorted list lists.                                               *)
(***************************************************************************)
EXTENDS Sorting, SequencesExt, FiniteSetTheorems, WellFoundedInduction, TLAPS

(* A set of natural numbers has a least member.                            *)
LEMMA NatMin ==
  ASSUME NEW T, T \subseteq Nat, T # {}
  PROVE  \E x \in T : \A y \in T : x <= y
<1>1. \E x \in T : \A y \in T : ~ (<<y, x>> \in OpToRel(<, Nat))
  BY NatLessThanWellFounded, WFMin
<1>2. \A x, y \in Nat : y < x => <<y, x>> \in OpToRel(<, Nat)
  BY DEF OpToRel
<1>3. PICK x \in T : \A y \in T : <<y, x>> \notin OpToRel(<, Nat)
  BY <1>1
<1>4. \A y \in T : x \in Nat /\ y \in Nat /\ ~(y < x)
  BY <1>2, <1>3
<1>5. \A y \in T : x <= y
  BY <1>4
<1> QED BY <1>5

(* R orders the numbers from 1 to n one after the other. *)
OrdersAll(R, n) ==
  /\ \A i, j \in 1 .. n : i # j => <<i, j>> \in R \/ <<j, i>> \in R
  /\ \A i \in 1 .. n : <<i, i>> \notin R
  /\ \A i, j, k \in 1 .. n : <<i, j>> \in R /\ <<j, k>> \in R => <<i, k>> \in R

Below(R, n, i) == {j \in 1 .. n : <<j, i>> \in R}
Place(R, n) == [i \in 1 .. n |-> 1 + Cardinality(Below(R, n, i))]

(* The places are those from 1 to n, in R's order.                         *)
LEMMA PlacesAreDistinct ==
  ASSUME NEW R, NEW n \in Nat, OrdersAll(R, n)
  PROVE  /\ Place(R, n) \in [1 .. n -> 1 .. n]
         /\ \A i, j \in 1 .. n : <<i, j>> \in R <=> Place(R, n)[i] < Place(R, n)[j]
         /\ \A k \in 1 .. n : \E i \in 1 .. n : Place(R, n)[i] = k
<1>0. IsFiniteSet(1 .. n) /\ Cardinality(1 .. n) = n
  BY FS_Interval
<1>1. ASSUME NEW i \in 1 .. n
      PROVE  /\ Below(R, n, i) \in SUBSET (1 .. n) /\ i \notin Below(R, n, i)
             /\ IsFiniteSet(Below(R, n, i)) /\ Cardinality(Below(R, n, i)) \in 0 .. n - 1
  <2>1. Below(R, n, i) \in SUBSET (1 .. n) /\ i \notin Below(R, n, i)
    BY DEF Below, OrdersAll
  <2>2. /\ IsFiniteSet(Below(R, n, i)) /\ Cardinality(Below(R, n, i)) \in Nat
        /\ Cardinality(Below(R, n, i)) <= n /\ Cardinality(Below(R, n, i)) # n
    BY <1>0, <2>1, FS_Subset, FS_CardinalityType
  <2> QED BY <2>1, <2>2
<1>2. ASSUME NEW i \in 1 .. n, NEW j \in 1 .. n, <<i, j>> \in R
      PROVE  Place(R, n)[i] < Place(R, n)[j]
  <2>1. /\ Below(R, n, i) \in SUBSET Below(R, n, j)
        /\ i \in Below(R, n, j) /\ i \notin Below(R, n, i)
    BY <1>1, <1>2 DEF Below, OrdersAll
  <2>2. /\ Cardinality(Below(R, n, i)) <= Cardinality(Below(R, n, j))
        /\ Cardinality(Below(R, n, i)) # Cardinality(Below(R, n, j))
    BY <1>1, <2>1, FS_Subset
  <2> QED BY <1>1, <2>2 DEF Place
<1>3. Place(R, n) \in [1 .. n -> 1 .. n]
  BY <1>1 DEF Place
<1>4. ASSUME NEW i \in 1 .. n, NEW j \in 1 .. n, Place(R, n)[i] < Place(R, n)[j]
      PROVE  <<i, j>> \in R
  <2>1. i # j /\ ~(Place(R, n)[j] < Place(R, n)[i])
    BY <1>3, <1>4
  <2> QED BY <2>1, <1>2 DEF OrdersAll
<1>5. Place(R, n) \in Injection(1 .. n, 1 .. n)
  <2> SUFFICES ASSUME NEW i \in 1 .. n, NEW j \in 1 .. n, i # j
               PROVE  Place(R, n)[i] # Place(R, n)[j]
    BY <1>3 DEF Injection, IsInjective
  <2>1. Place(R, n)[i] < Place(R, n)[j] \/ Place(R, n)[j] < Place(R, n)[i]
    BY <1>2 DEF OrdersAll
  <2> QED BY <1>3, <2>1
<1>6. Place(R, n) \in Surjection(1 .. n, 1 .. n)
  BY <1>0, <1>5, FS_Injection
<1>7. \A k \in 1 .. n : \E i \in 1 .. n : Place(R, n)[i] = k
  BY <1>6 DEF Surjection
<1> QED BY <1>2, <1>3, <1>4, <1>7

-----------------------------------------------------------------------------

(* B is the strict part of an order in which different members of S may    *)
(* tie.                                                                    *)
WeakOrder(B, S) ==
  /\ \A a \in S : <<a, a>> \notin B
  /\ \A a, b, c \in S : <<a, b>> \in B /\ <<b, c>> \in B => <<a, c>> \in B
  /\ \A a, b, c \in S : <<a, b>> \notin B /\ <<b, c>> \notin B => <<a, c>> \notin B

(* What SortedBy does, for an order that is a set of pairs.                *)
PlaceOf(s, B) ==
  [i \in DOMAIN s |->
     1 + Cardinality({j \in DOMAIN s :
           <<s[j], s[i]>> \in B \/ (j < i /\ <<s[i], s[j]>> \notin B)})]
SortedAs(s, B) == [k \in DOMAIN s |-> s[CHOOSE i \in DOMAIN s : PlaceOf(s, B)[i] = k]]

(* A sorted list has the members of the list, in an order that B allows,   *)
(* and those that tie in the order they had.                               *)
LEMMA Sorts ==
  ASSUME NEW S, NEW B, WeakOrder(B, S), NEW s \in Seq(S)
  PROVE  /\ SortedAs(s, B) \in Seq(S)
         /\ Len(SortedAs(s, B)) = Len(s)
         /\ \E p \in [1 .. Len(s) -> 1 .. Len(s)] :
              /\ \A i \in 1 .. Len(s) : \E k \in 1 .. Len(s) : p[k] = i
              /\ \A k \in 1 .. Len(s) : SortedAs(s, B)[k] = s[p[k]]
              /\ \A k, l \in 1 .. Len(s) : k < l =>
                   \/ <<s[p[k]], s[p[l]]>> \in B
                   \/ p[k] < p[l] /\ <<s[p[l]], s[p[k]]>> \notin B
<1> DEFINE n == Len(s)
           R == {x \in (1 .. n) \X (1 .. n) :
                   <<s[x[1]], s[x[2]]>> \in B
                     \/ (x[1] < x[2] /\ <<s[x[2]], s[x[1]]>> \notin B)}
<1>1. n \in Nat /\ DOMAIN s = 1 .. n /\ \A i \in 1 .. n : s[i] \in S
  OBVIOUS
<1>2. ASSUME NEW i \in 1 .. n, NEW j \in 1 .. n
      PROVE  (<<i, j>> \in R)
               <=> (<<s[i], s[j]>> \in B \/ (i < j /\ <<s[j], s[i]>> \notin B))
  OBVIOUS
<1> HIDE DEF R
<1>3. OrdersAll(R, n)
  <2>1. ASSUME NEW i \in 1 .. n, NEW j \in 1 .. n, i # j
        PROVE  <<i, j>> \in R \/ <<j, i>> \in R
    <3>1. i < j \/ j < i
      BY <1>1, <2>1
    <3> QED BY <3>1, <1>2
  <2>2. ASSUME NEW i \in 1 .. n PROVE <<i, i>> \notin R
    <3>1. ~(i < i) /\ s[i] \in S
      BY <1>1
    <3> QED BY <3>1, <1>2 DEF WeakOrder
  <2>3. ASSUME NEW i \in 1 .. n, NEW j \in 1 .. n, NEW k \in 1 .. n,
               <<i, j>> \in R, <<j, k>> \in R
        PROVE  <<i, k>> \in R
    <3>1. s[i] \in S /\ s[j] \in S /\ s[k] \in S
      BY <1>1
    <3>2. CASE i < j /\ <<s[j], s[i]>> \notin B /\ j < k /\ <<s[k], s[j]>> \notin B
      <4>1. i < k /\ <<s[k], s[i]>> \notin B
        BY <1>1, <3>1, <3>2 DEF WeakOrder
      <4> QED BY <4>1, <1>2
    <3>3. CASE <<s[i], s[j]>> \in B
      <4>1. <<s[k], s[j]>> \notin B
        BY <2>3, <1>2, <3>1 DEF WeakOrder
      <4>2. <<s[i], s[k]>> \in B
        BY <3>1, <3>3, <4>1 DEF WeakOrder
      <4> QED BY <4>2, <1>2
    <3>4. CASE <<s[j], s[k]>> \in B
      <4>1. <<s[j], s[i]>> \notin B
        BY <2>3, <1>2, <3>1 DEF WeakOrder
      <4>2. <<s[i], s[k]>> \in B
        BY <3>1, <3>4, <4>1 DEF WeakOrder
      <4> QED BY <4>2, <1>2
    <3> QED BY <2>3, <1>2, <3>2, <3>3, <3>4
  <2> QED BY <2>1, <2>2, <2>3 DEF OrdersAll
<1>4. PlaceOf(s, B) = Place(R, n)
  <2>1. ASSUME NEW i \in 1 .. n
        PROVE  Below(R, n, i) = 
                   {j \in DOMAIN s : <<s[j], s[i]>> \in B
                                      \/ (j < i /\ <<s[i], s[j]>> \notin B)}
    BY <1>1, <1>2 DEF Below
  <2> QED BY <1>1, <2>1 DEF PlaceOf, Place
<1>11. /\ Place(R, n) \in [1 .. n -> 1 .. n]
       /\ \A i, j \in 1 .. n : <<i, j>> \in R <=> Place(R, n)[i] < Place(R, n)[j]
       /\ \A k \in 1 .. n : \E i \in 1 .. n : Place(R, n)[i] = k
  BY <1>1, <1>3, PlacesAreDistinct
<1> DEFINE p == [m \in 1 .. n |-> CHOOSE x \in 1 .. n : Place(R, n)[x] = m]
<1>5. ASSUME NEW k \in 1 .. n PROVE p[k] \in 1 .. n /\ Place(R, n)[p[k]] = k
  <2>1. p[k] = CHOOSE x \in 1 .. n : Place(R, n)[x] = k
    OBVIOUS
  <2>2. \E x \in 1 .. n : Place(R, n)[x] = k
    BY <1>11
  <2> QED BY <2>1, <2>2
<1> HIDE DEF p
<1>6. ASSUME NEW i \in 1 .. n PROVE \E k \in 1 .. n : p[k] = i
  <2>1. Place(R, n)[i] \in 1 .. n
    BY <1>11
  <2> DEFINE k == Place(R, n)[i]
  <2>2. Place(R, n)[p[k]] = Place(R, n)[i] /\ p[k] \in 1 .. n
    BY <2>1, <1>5
  <2>3. <<p[k], i>> \notin R /\ <<i, p[k]>> \notin R
    <3>1. ~(k < k)
      BY <2>1
    <3> QED BY <1>11, <2>2, <3>1
  <2>4. p[k] = i
    BY <1>3, <2>2, <2>3 DEF OrdersAll
  <2> QED BY <2>1, <2>4
<1>7. ASSUME NEW k \in 1 .. n, NEW l \in 1 .. n, k < l
      PROVE  \/ <<s[p[k]], s[p[l]]>> \in B
             \/ p[k] < p[l] /\ <<s[p[l]], s[p[k]]>> \notin B
  <2>1. <<p[k], p[l]>> \in R
    BY <1>11, <1>5, <1>7
  <2> QED BY <2>1, <1>2, <1>5
<1>8. \A k \in 1 .. n : SortedAs(s, B)[k] = s[p[k]]
  BY <1>1, <1>4 DEF SortedAs, p
<1>9. SortedAs(s, B) \in Seq(S) /\ Len(SortedAs(s, B)) = n
  <2>1. SortedAs(s, B) \in [1 .. n -> S]
    BY <1>1, <1>5, <1>8 DEF SortedAs
  <2> QED BY <1>1, <2>1
<1>10. p \in [1 .. n -> 1 .. n]
  BY <1>5 DEF p
<1> QED BY <1>6, <1>7, <1>8, <1>9, <1>10

(* B is the strict part of an order without ties.                          *)
TotalOrder(B, S) ==
  /\ \A a \in S : <<a, a>> \notin B
  /\ \A a, b \in S : a # b => <<a, b>> \in B \/ <<b, a>> \in B
  /\ \A a, b, c \in S : <<a, b>> \in B /\ <<b, c>> \in B => <<a, c>> \in B

(* Sorted by an order without ties, a list without duplicates ascends.     *)
LEMMA SortsStrictly ==
  ASSUME NEW S, NEW B, TotalOrder(B, S), NEW s \in Seq(S), IsInjective(s)
  PROVE  /\ SortedAs(s, B) \in Seq(S)
         /\ ToSet(SortedAs(s, B)) = ToSet(s)
         /\ \A k, l \in DOMAIN SortedAs(s, B) :
              k < l => <<SortedAs(s, B)[k], SortedAs(s, B)[l]>> \in B
<1> DEFINE t == SortedAs(s, B)
           n == Len(s)
<1>1. WeakOrder(B, S)
  <2>1. ASSUME NEW a \in S, NEW b \in S, NEW c \in S,
               <<a, b>> \notin B, <<b, c>> \notin B, <<a, c>> \in B
        PROVE  FALSE
    <3>1. CASE a = b
      BY <2>1, <3>1
    <3>2. CASE a # b
      <4>1. <<b, a>> \in B
        BY <2>1, <3>2 DEF TotalOrder
      <4> QED BY <2>1, <4>1 DEF TotalOrder
    <3> QED BY <3>1, <3>2
  <2> QED BY <2>1 DEF TotalOrder, WeakOrder
<1>2. t \in Seq(S) /\ Len(t) = n
  BY <1>1, Sorts
<1>3. PICK p \in [1 .. n -> 1 .. n] :
              /\ \A i \in 1 .. n : \E k \in 1 .. n : p[k] = i
              /\ \A k \in 1 .. n : t[k] = s[p[k]]
              /\ \A k, l \in 1 .. n : k < l =>
                   \/ <<s[p[k]], s[p[l]]>> \in B
                   \/ p[k] < p[l] /\ <<s[p[l]], s[p[k]]>> \notin B
  BY <1>1, Sorts
<1>4. n \in Nat /\ DOMAIN s = 1 .. n /\ \A i \in 1 .. n : s[i] \in S
  OBVIOUS
<1> HIDE DEF t, n
<1>5. DOMAIN t = 1 .. n
  BY <1>2
<1>6. ToSet(t) = ToSet(s)
  <2>1. ASSUME NEW k \in 1 .. n PROVE \E i \in 1 .. n : t[k] = s[i]
    BY <1>3
  <2>2. ASSUME NEW i \in 1 .. n PROVE \E k \in 1 .. n : s[i] = t[k]
    <3>1. PICK k \in 1 .. n : p[k] = i
      BY <1>3
    <3> QED BY <1>3, <3>1
  <2>3. ToSet(t) \subseteq ToSet(s)
    BY <1>4, <1>5, <2>1 DEF ToSet
  <2>4. ToSet(s) \subseteq ToSet(t)
    BY <1>4, <1>5, <2>2 DEF ToSet
  <2> QED BY <2>3, <2>4
<1>7. ASSUME NEW k \in 1 .. n, NEW l \in 1 .. n, k < l
      PROVE  <<t[k], t[l]>> \in B
  <2>1. CASE p[k] < p[l] /\ <<s[p[l]], s[p[k]]>> \notin B
    <3>1. p[k] # p[l]
      BY <2>1
    <3>2. s[p[k]] # s[p[l]]
      BY <3>1, <1>4 DEF IsInjective
    <3> QED BY <2>1, <3>2, <1>3, <1>4 DEF TotalOrder
  <2> QED BY <2>1, <1>3, <1>7
<1> QED BY <1>2, <1>5, <1>6, <1>7 DEF t

(* SetToSeq lists a finite set. *)
LEMMA Listed ==
  ASSUME NEW S, IsFiniteSet(S)
  PROVE  /\ SetToSeq(S) \in Seq(S)
         /\ Len(SetToSeq(S)) = Cardinality(S)
         /\ ToSet(SetToSeq(S)) = S
         /\ IsInjective(SetToSeq(S))
<1> DEFINE n == Cardinality(S)
<1>1. n \in Nat /\ ExistsBijection(1 .. n, S)
  BY FS_CardinalityType
<1>2. \E f \in [1 .. n -> S] : IsInjective(f)
  BY <1>1 DEF ExistsBijection, Bijection, Injection
<1>3. SetToSeq(S) \in [1 .. n -> S] /\ IsInjective(SetToSeq(S))
  BY <1>2 DEF SetToSeq
<1>4. IsFiniteSet(1 .. n) /\ Cardinality(1 .. n) = n
  BY <1>1, FS_Interval
<1> HIDE DEF n
<1>5. SetToSeq(S) \in Surjection(1 .. n, S)
  <2>1. SetToSeq(S) \in Injection(1 .. n, S)
    BY <1>3 DEF Injection
  <2> QED BY <2>1, <1>4, FS_Injection DEF n
<1>6. ToSet(SetToSeq(S)) = S
  BY <1>3, <1>5 DEF ToSet, Surjection
<1> QED BY <1>1, <1>3, <1>6 DEF n

-----------------------------------------------------------------------------

(* seq lists each member of S once. *)
ListsOnce(seq, S) == IsInjective(seq) /\ ToSet(seq) = S

LEMMA NothingListed == ListsOnce(<<>>, {})
BY DEF ListsOnce, IsInjective, ToSet

LEMMA EmptyList ==
  /\ ToSet(<<>>) = {}
  /\ \A S : \A s \in Seq(S) : ToSet(s) = {} => s = <<>>
<1>1. ToSet(<<>>) = {}
  BY NothingListed DEF ListsOnce
<1>2. ASSUME NEW S, NEW s \in Seq(S), ToSet(s) = {} PROVE s = <<>>
  <2>1. ASSUME Len(s) # 0 PROVE FALSE
    <3>1. 1 \in DOMAIN s
      BY <2>1
    <3>2. s[1] \in ToSet(s)
      BY <3>1 DEF ToSet
    <3> QED BY <1>2, <3>2
  <2> QED BY <2>1
<1> QED BY <1>1, <1>2

(* Two lists one after the other, of sets that are apart.                  *)
LEMMA ListedWith ==
  ASSUME NEW S, NEW s \in Seq(S), NEW t \in Seq(S), NEW A, NEW B,
         ListsOnce(s, A), ListsOnce(t, B), A \cap B = {}
  PROVE  s \o t \in Seq(S) /\ ListsOnce(s \o t, A \cup B)
<1> DEFINE u == s \o t
<1>1. /\ Len(s) \in Nat /\ Len(t) \in Nat
      /\ DOMAIN s = 1 .. Len(s) /\ DOMAIN t = 1 .. Len(t)
      /\ u \in Seq(S) /\ DOMAIN u = 1 .. Len(s) + Len(t)
      /\ \A i \in 1 .. Len(s) : u[i] = s[i]
      /\ \A i \in Len(s) + 1 .. Len(s) + Len(t) : u[i] = t[i - Len(s)]
  OBVIOUS
<1> HIDE DEF u
<1>2. \A i \in 1 .. Len(s) : u[i] \in A
  BY <1>1 DEF ListsOnce, ToSet
<1>3. \A i \in Len(s) + 1 .. Len(s) + Len(t) :
        i - Len(s) \in 1 .. Len(t) /\ u[i] = t[i - Len(s)] /\ u[i] \in B
  BY <1>1 DEF ListsOnce, ToSet
<1>4. ASSUME NEW i \in DOMAIN u, NEW j \in DOMAIN u, u[i] = u[j] PROVE i = j
  <2>1. CASE i <= Len(s) /\ j <= Len(s)
    <3>1. i \in DOMAIN s /\ j \in DOMAIN s /\ s[i] = s[j]
      BY <1>1, <1>4, <2>1
    <3> QED BY <3>1 DEF ListsOnce, IsInjective
  <2>2. CASE ~(i <= Len(s)) /\ ~(j <= Len(s))
    <3>1. i - Len(s) \in DOMAIN t /\ j - Len(s) \in DOMAIN t
          /\ t[i - Len(s)] = t[j - Len(s)]
      BY <1>1, <1>3, <1>4, <2>2
    <3>2. i - Len(s) = j - Len(s)
      BY <3>1 DEF ListsOnce, IsInjective
    <3> QED BY <1>1, <3>2
  <2>3. CASE i <= Len(s) /\ ~(j <= Len(s))
    BY <1>1, <1>2, <1>3, <1>4, <2>3
  <2>4. CASE ~(i <= Len(s)) /\ j <= Len(s)
    BY <1>1, <1>2, <1>3, <1>4, <2>4
  <2> QED BY <2>1, <2>2, <2>3, <2>4
<1>5. ToSet(u) = A \cup B
  <2>1. ASSUME NEW x \in A PROVE \E i \in DOMAIN u : u[i] = x
    <3>1. PICK i \in DOMAIN s : s[i] = x
      BY DEF ListsOnce, ToSet
    <3> QED BY <1>1, <3>1
  <2>2. ASSUME NEW x \in B PROVE \E i \in DOMAIN u : u[i] = x
    <3>1. PICK i \in DOMAIN t : t[i] = x
      BY DEF ListsOnce, ToSet
    <3>2. /\ Len(s) + i \in Len(s) + 1 .. Len(s) + Len(t)
          /\ Len(s) + i \in DOMAIN u /\ (Len(s) + i) - Len(s) = i
      BY <1>1, <3>1
    <3> QED BY <1>1, <3>1, <3>2
  <2>3. \A i \in DOMAIN u : u[i] \in A \cup B
    BY <1>1, <1>2, <1>3
  <2> QED BY <2>1, <2>2, <2>3 DEF ToSet
<1>6. IsInjective(u)
  BY <1>4 DEF IsInjective
<1> QED BY <1>1, <1>5, <1>6 DEF ListsOnce, u

(* A list with a new member at its end.                                    *)
LEMMA ListedOneMore ==
  ASSUME NEW S, NEW s \in Seq(S), NEW x \in S, NEW A, ListsOnce(s, A), x \notin A
  PROVE  Append(s, x) \in Seq(S) /\ ListsOnce(Append(s, x), A \cup {x})
<1> DEFINE t == <<x>>
<1>1. t \in Seq(S) /\ Append(s, x) = s \o t
  OBVIOUS
<1>2. ListsOnce(t, {x})
  BY DEF ListsOnce, IsInjective, ToSet
<1>3. A \cap {x} = {}
  OBVIOUS
<1> HIDE DEF t
<1>4. s \o t \in Seq(S) /\ ListsOnce(s \o t, A \cup {x})
  BY <1>1, <1>2, <1>3, ListedWith
<1> QED BY <1>1, <1>4

-----------------------------------------------------------------------------

(* Induction, for a set: no operator has to be given.                      *)
LEMMA SetInduction ==
  ASSUME NEW T, 0 \in T, \A k \in Nat : k \in T => k + 1 \in T
  PROVE  Nat \subseteq T
<1> SUFFICES ASSUME Nat \ T # {} PROVE FALSE
  OBVIOUS
<1>1. PICK x \in Nat \ T : \A y \in Nat \ T : x <= y
  BY NatMin
<1>2. x # 0 /\ x - 1 \in Nat /\ x - 1 \notin Nat \ T
  BY <1>1
<1>3. (x - 1) + 1 \in T
  BY <1>2
<1> QED BY <1>3

(* A function that is defined by its value before.                         *)
Follows(f, base, step, m) ==
  f[0] = base /\ \A n \in 1 .. m : f[n] = step[<<n, f[n - 1]>>]

LEMMA Unrolled ==
  ASSUME NEW X, NEW base \in X, NEW N \in Nat, NEW step \in [(1 .. N) \X X -> X]
  PROVE  \E f \in [0 .. N -> X] : Follows(f, base, step, N)
<1> DEFINE Good(f, m) == Follows(f, base, step, m)
           T == {m \in Nat : m <= N => \E f \in [0 .. m -> X] : Good(f, m)}
<1>1. 0 \in T
  <2>1. [i \in 0 .. 0 |-> base] \in [0 .. 0 -> X] /\ Good([i \in 0 .. 0 |-> base], 0)
    BY DEF Follows
  <2> QED BY <2>1
<1>2. ASSUME NEW k \in Nat, k \in T PROVE k + 1 \in T
  <2> SUFFICES ASSUME k + 1 <= N PROVE \E f \in [0 .. k + 1 -> X] : Good(f, k + 1)
    OBVIOUS
  <2>1. PICK f \in [0 .. k -> X] : Good(f, k)
    BY <1>2
  <2> DEFINE g == [i \in 0 .. k + 1 |-> IF i = k + 1 THEN step[<<k + 1, f[k]>>] ELSE f[i]]
  <2>2. k \in 0 .. k /\ k + 1 \in 1 .. N /\ f[k] \in X
    OBVIOUS
  <2>3. <<k + 1, f[k]>> \in (1 .. N) \X X
    BY <2>2
  <2>4. step[<<k + 1, f[k]>>] \in X
    BY <2>3
  <2>5. g \in [0 .. k + 1 -> X]
    BY <2>4
  <2>6. \A i \in 0 .. k : i \in 0 .. k + 1 /\ i # k + 1 /\ g[i] = f[i]
    OBVIOUS
  <2>7. g[k + 1] = step[<<k + 1, f[k]>>]
    OBVIOUS
  <2> HIDE DEF g
  <2>8. g[0] = base
    BY <2>1, <2>6 DEF Follows
  <2>9. ASSUME NEW n \in 1 .. k + 1 PROVE g[n] = step[<<n, g[n - 1]>>]
    <3>1. CASE n = k + 1
      <4>1. n - 1 = k
        BY <3>1
      <4> QED BY <2>2, <2>6, <2>7, <3>1, <4>1
    <3>2. CASE n # k + 1
      <4>1. n \in 1 .. k /\ n \in 0 .. k /\ n - 1 \in 0 .. k
        BY <3>2
      <4> QED BY <2>1, <2>6, <4>1 DEF Follows
    <3> QED BY <3>1, <3>2
  <2>10. Good(g, k + 1)
    BY <2>8, <2>9 DEF Follows
  <2> QED BY <2>5, <2>10
<1> HIDE DEF T
<1>3. N \in T
  BY <1>1, <1>2, SetInduction
<1> QED BY <1>3 DEF T

Unrolls(f, seqs) ==
  f = [i \in 1 .. Len(seqs) |-> IF i = 1 THEN seqs[i] ELSE f[i - 1] \o seqs[i]]

(* FlattenSeq is what its recursive definition says.                       *)
LEMMA FlattenUnrolls ==
  ASSUME NEW S, NEW seqs \in Seq(Seq(S)), Len(seqs) # 0
  PROVE  \E f \in [1 .. Len(seqs) -> Seq(S)] :
           /\ f[1] = seqs[1]
           /\ \A i \in 2 .. Len(seqs) : f[i] = f[i - 1] \o seqs[i]
           /\ FlattenSeq(seqs) = f[Len(seqs)]
<1> DEFINE N == Len(seqs)
           X == Seq(S)
           step == [x \in (1 .. N) \X X |-> IF x[1] = 1 THEN seqs[1] ELSE x[2] \o seqs[x[1]]]
<1>1. N \in Nat /\ N >= 1 /\ \A i \in 1 .. N : seqs[i] \in X
  OBVIOUS
<1>2. step \in [(1 .. N) \X X -> X] /\ <<>> \in X
  BY <1>1
<1>3. \A n \in 1 .. N, x \in X :
        step[<<n, x>>] = IF n = 1 THEN seqs[1] ELSE x \o seqs[n]
  OBVIOUS
<1> HIDE DEF N, X, step
<1>4. PICK g \in [0 .. N -> X] : Follows(g, <<>>, step, N)
  BY <1>1, <1>2, Unrolled
<1> DEFINE h == [i \in 1 .. N |-> g[i]]
<1>5. ASSUME NEW i \in 1 .. N
      PROVE  /\ i # 1 => i - 1 \in 1 .. N
             /\ h[i] \in X /\ h[i] = IF i = 1 THEN seqs[i] ELSE h[i - 1] \o seqs[i]
  <2>1. /\ i \in 0 .. N /\ i - 1 \in 0 .. N /\ g[i] \in X /\ g[i - 1] \in X
        /\ g[i] = step[<<i, g[i - 1]>>]
        /\ i # 1 => i - 1 \in 1 .. N
    BY <1>1, <1>4 DEF Follows
  <2> QED BY <1>3, <2>1
<1>6. h = [i \in 1 .. N |-> IF i = 1 THEN seqs[i] ELSE h[i - 1] \o seqs[i]]
  BY <1>5
<1> DEFINE f == CHOOSE x : Unrolls(x, seqs)
<1>7. Unrolls(f, seqs)
  <2>1. Unrolls(h, seqs)
    BY <1>6 DEF Unrolls, N
  <2> QED BY <2>1
<1>8. FlattenSeq(seqs) = f[N]
  BY DEF FlattenSeq, Unrolls, N
<1> HIDE DEF f, h
<1>9. f = [i \in 1 .. N |-> IF i = 1 THEN seqs[i] ELSE f[i - 1] \o seqs[i]]
  BY <1>7 DEF Unrolls, N
<1>10. f[1] = seqs[1] /\ \A i \in 2 .. N : i \in 1 .. N /\ f[i] = f[i - 1] \o seqs[i]
  <2>1. ASSUME NEW i \in 1 .. N
        PROVE  f[i] = IF i = 1 THEN seqs[i] ELSE f[i - 1] \o seqs[i]
    BY <1>9
  <2>2. 1 \in 1 .. N /\ \A i \in 2 .. N : i \in 1 .. N /\ i # 1
    BY <1>1
  <2> QED BY <2>1, <2>2
<1>11. ASSUME NEW i \in 1 .. N PROVE f[i] \in X
  <2> DEFINE T == {k \in Nat : k + 1 \in 1 .. N => f[k + 1] \in X}
  <2>1. 0 \in T
    BY <1>1, <1>10
  <2>2. ASSUME NEW k \in Nat, k \in T PROVE k + 1 \in T
    <3> SUFFICES ASSUME k + 2 \in 1 .. N PROVE f[k + 2] \in X
      OBVIOUS
    <3>1. k + 1 \in 1 .. N /\ k + 2 \in 2 .. N /\ (k + 2) - 1 = k + 1 /\ f[k + 1] \in X
      BY <1>1, <2>2
    <3>2. f[k + 2] = f[k + 1] \o seqs[k + 2] /\ seqs[k + 2] \in X
      BY <1>1, <1>10, <3>1
    <3> QED BY <3>1, <3>2 DEF X
  <2> HIDE DEF T
  <2>4. Nat \subseteq T
    BY <2>1, <2>2, SetInduction
  <2>3. i - 1 \in Nat /\ i - 1 \in T /\ (i - 1) + 1 = i
    BY <1>1, <2>4
  <2> QED BY <2>3 DEF T
<1>12. f \in [1 .. N -> X]
  BY <1>9, <1>11
<1> QED BY <1>8, <1>10, <1>12 DEF N, X

Together(sets, I) == UNION {sets[i] : i \in I}

(* Lists one after another, of sets that are apart.                        *)
LEMMA FlattenedOnce ==
  ASSUME NEW S, NEW seqs \in Seq(Seq(S)), NEW sets,
         \A i \in DOMAIN seqs : ListsOnce(seqs[i], sets[i]),
         \A i, j \in DOMAIN seqs : i # j => sets[i] \cap sets[j] = {}
  PROVE  /\ FlattenSeq(seqs) \in Seq(S)
         /\ ListsOnce(FlattenSeq(seqs), Together(sets, DOMAIN seqs))
<1> DEFINE N == Len(seqs)
           Upto(m) == Together(sets, 1 .. m)
<1>1. N \in Nat /\ DOMAIN seqs = 1 .. N /\ \A i \in 1 .. N : seqs[i] \in Seq(S)
  OBVIOUS
<1>2. CASE N = 0
  <2>1. seqs = <<>> /\ DOMAIN seqs = {}
    BY <1>2
  <2>2. FlattenSeq(seqs) = <<>>
    BY <1>2, <2>1 DEF FlattenSeq
  <2>3. Together(sets, DOMAIN seqs) = {}
    BY <2>1 DEF Together
  <2>4. ListsOnce(<<>>, Together(sets, DOMAIN seqs))
    BY <2>3, NothingListed
  <2>5. <<>> \in Seq(S)
    OBVIOUS
  <2> QED BY <2>2, <2>4, <2>5
<1>3. CASE N # 0
  <2>1. PICK f \in [1 .. N -> Seq(S)] :
           /\ f[1] = seqs[1]
           /\ \A i \in 2 .. N : f[i] = f[i - 1] \o seqs[i]
           /\ FlattenSeq(seqs) = f[N]
    BY <1>3, FlattenUnrolls
  <2> HIDE DEF N
  <2> DEFINE T == {k \in Nat : k + 1 \in 1 .. N => ListsOnce(f[k + 1], Upto(k + 1))}
  <2>2. 0 \in T
    <3>1. 1 \in 1 .. N /\ 1 \in DOMAIN seqs /\ 1 .. 1 = {1}
      BY <1>1, <1>3
    <3>2. Upto(1) = sets[1]
      BY <3>1 DEF Together
    <3> HIDE DEF Upto
    <3>3. ListsOnce(f[1], Upto(1)) /\ 0 + 1 = 1
      BY <2>1, <3>1, <3>2
    <3> QED BY <3>3
  <2>3. ASSUME NEW k \in Nat, k \in T PROVE k + 1 \in T
    <3> SUFFICES ASSUME k + 2 \in 1 .. N PROVE ListsOnce(f[k + 2], Upto(k + 2))
      OBVIOUS
    <3>1. /\ k + 1 \in 1 .. N /\ k + 2 \in 2 .. N /\ (k + 2) - 1 = k + 1
          /\ f[k + 2] = f[k + 1] \o seqs[k + 2]
          /\ f[k + 1] \in Seq(S) /\ seqs[k + 2] \in Seq(S)
          /\ k + 2 \in DOMAIN seqs
      <4>1. k + 1 \in 1 .. N /\ k + 2 \in 2 .. N /\ (k + 2) - 1 = k + 1
        BY <1>1
      <4>2. f[k + 2] = f[(k + 2) - 1] \o seqs[k + 2]
        BY <2>1, <4>1
      <4> QED BY <1>1, <2>1, <4>1, <4>2
    <3>6. ListsOnce(f[k + 1], Upto(k + 1)) /\ ListsOnce(seqs[k + 2], sets[k + 2])
      BY <2>3, <3>1
    <3>2. \A i \in 1 .. k + 1 : i \in DOMAIN seqs /\ i # k + 2
      BY <1>1, <3>1
    <3>3. Upto(k + 1) \cap sets[k + 2] = {}
      BY <1>1, <3>2 DEF Together
    <3>4. \A i \in 1 .. k + 2 : i \in 1 .. k + 1 \/ i = k + 2
      OBVIOUS
    <3>5. Upto(k + 2) = Upto(k + 1) \cup sets[k + 2]
      BY <3>4 DEF Together
    <3> HIDE DEF Upto
    <3>7. ListsOnce(f[k + 1] \o seqs[k + 2], Upto(k + 1) \cup sets[k + 2])
      BY <3>1, <3>3, <3>6, ListedWith
    <3>8. (k + 1) + 1 = k + 2
      OBVIOUS
    <3> QED BY <3>1, <3>5, <3>7, <3>8
  <2> HIDE DEF T
  <2>6. Nat \subseteq T
    BY <2>2, <2>3, SetInduction
  <2>4. N - 1 \in Nat /\ N - 1 \in T /\ (N - 1) + 1 = N /\ N \in 1 .. N
    BY <1>1, <1>3, <2>6
  <2>5. ListsOnce(f[N], Upto(N))
    BY <2>4 DEF T
  <2> QED BY <1>1, <2>1, <2>4, <2>5
<1> QED BY <1>2, <1>3

-----------------------------------------------------------------------------

(* What a function maps I to, one to one.                                  *)
LEMMA ImageCounts ==
  ASSUME NEW I, IsFiniteSet(I), NEW s, \A k, l \in I : s[k] = s[l] => k = l
  PROVE  IsFiniteSet({s[k] : k \in I}) /\ Cardinality({s[k] : k \in I}) = Cardinality(I)
<1> DEFINE image == {s[k] : k \in I}
           h == [k \in I |-> s[k]]
<1>1. h \in [I -> image] /\ DOMAIN h = I
  OBVIOUS
<1>2. \A k, l \in I : h[k] = h[l] => k = l
  OBVIOUS
<1>3. \A i \in image : \E k \in I : h[k] = i
  OBVIOUS
<1> HIDE DEF h, image
<1>4. IsInjective(h)
  BY <1>1, <1>2 DEF IsInjective
<1>5. ExistsBijection(I, image)
  BY <1>1, <1>3, <1>4 DEF ExistsBijection, Bijection, Injection, Surjection
<1> QED BY <1>5, FS_Bijection DEF image

(* The first n places of s, if they differ. *)
FirstOf(s, n) == {s[k] : k \in 1 .. n}

LEMMA FirstOfCounts ==
  ASSUME NEW s, NEW n \in Nat, \A k, l \in 1 .. n : s[k] = s[l] => k = l
  PROVE  IsFiniteSet(FirstOf(s, n)) /\ Cardinality(FirstOf(s, n)) = n
<1>1. IsFiniteSet(1 .. n) /\ Cardinality(1 .. n) = n
  BY FS_Interval
<1> QED BY <1>1, ImageCounts DEF FirstOf

LEMMA ListCounts ==
  ASSUME NEW S, NEW s \in Seq(S), NEW A, ListsOnce(s, A)
  PROVE  IsFiniteSet(A) /\ Cardinality(A) = Len(s) /\ A \subseteq S
<1> DEFINE n == Len(s)
<1>1. /\ n \in Nat /\ DOMAIN s = 1 .. n /\ \A k \in 1 .. n : s[k] \in S
      /\ \A k, l \in 1 .. n : s[k] = s[l] => k = l
      /\ A = FirstOf(s, n)
  BY DEF ListsOnce, IsInjective, ToSet, FirstOf
<1> HIDE DEF n
<1>2. IsFiniteSet(A) /\ Cardinality(A) = n
  BY <1>1, FirstOfCounts
<1>3. A \subseteq S
  BY <1>1 DEF FirstOf
<1> QED BY <1>2, <1>3 DEF n

Before(B, A, x) == {y \in A : <<y, x>> \in B}
Ascending(s, B) == \A k, l \in DOMAIN s : k < l => <<s[k], s[l]>> \in B

(* In an ascending list nothing comes twice, and a member's place is the   *)
(* number of those before it.                                              *)
LEMMA AscendingPlaces ==
  ASSUME NEW S, NEW B, TotalOrder(B, S), NEW s \in Seq(S), Ascending(s, B)
  PROVE  /\ IsInjective(s)
         /\ \A k \in DOMAIN s : Cardinality(Before(B, ToSet(s), s[k])) = k - 1
<1> DEFINE n == Len(s)
<1>1. n \in Nat /\ DOMAIN s = 1 .. n /\ \A k \in 1 .. n : s[k] \in S
  OBVIOUS
<1> HIDE DEF n
<1>2. ASSUME NEW k \in 1 .. n, NEW l \in 1 .. n
      PROVE  <<s[k], s[l]>> \in B <=> k < l
  <2>1. k < l => <<s[k], s[l]>> \in B
    BY <1>1 DEF Ascending
  <2>2. l < k => <<s[l], s[k]>> \in B
    BY <1>1 DEF Ascending
  <2>3. <<s[l], s[k]>> \in B => <<s[k], s[l]>> \notin B
    BY <1>1 DEF TotalOrder
  <2>4. <<s[k], s[k]>> \notin B
    BY <1>1 DEF TotalOrder
  <2>5. k < l \/ l < k \/ k = l
    BY <1>1
  <2>6. k < l => k # l
    BY <1>1
  <2> QED BY <2>1, <2>2, <2>3, <2>4, <2>5, <2>6
<1>3. ASSUME NEW k \in 1 .. n, NEW l \in 1 .. n, s[k] = s[l] PROVE k = l
  <2>2. <<s[l], s[l]>> \notin B
    BY <1>1 DEF TotalOrder
  <2>1. ~(k < l) /\ ~(l < k)
    BY <1>2, <1>3, <2>2
  <2> QED BY <1>1, <2>1
<1>4. IsInjective(s)
  BY <1>1, <1>3 DEF IsInjective
<1>5. ASSUME NEW k \in 1 .. n
      PROVE  Cardinality(Before(B, ToSet(s), s[k])) = k - 1
  <2> DEFINE before == Before(B, ToSet(s), s[k])
             first == FirstOf(s, k - 1)
  <2>1. k - 1 \in Nat /\ \A j \in 1 .. k - 1 : j \in 1 .. n /\ j < k
    BY <1>1
  <2>2. \A x \in before : \E j \in 1 .. k - 1 : x = s[j]
    <3> SUFFICES ASSUME NEW x \in before PROVE \E j \in 1 .. k - 1 : x = s[j]
      OBVIOUS
    <3>1. PICK j \in 1 .. n : x = s[j]
      BY <1>1 DEF ToSet, Before
    <3>2. j < k
      BY <1>2, <3>1 DEF Before
    <3> QED BY <1>1, <3>1, <3>2
  <2>3. \A j \in 1 .. k - 1 : s[j] \in before
    BY <1>1, <1>2, <2>1 DEF ToSet, Before
  <2>4. before = first
    BY <2>2, <2>3 DEF FirstOf
  <2>6. \A i, j \in 1 .. k - 1 : s[i] = s[j] => i = j
    BY <1>3, <2>1
  <2>5. Cardinality(first) = k - 1
    BY <2>1, <2>6, FirstOfCounts
  <2> QED BY <2>4, <2>5
<1> QED BY <1>1, <1>4, <1>5

(* There is one way to list a set in ascending order.                      *)
LEMMA SortedAlike ==
  ASSUME NEW S, NEW B, TotalOrder(B, S), NEW s \in Seq(S), NEW t \in Seq(S),
         Ascending(s, B), Ascending(t, B), ToSet(s) = ToSet(t)
  PROVE  s = t
<1>1. /\ Len(s) \in Nat /\ DOMAIN s = 1 .. Len(s)
      /\ Len(t) \in Nat /\ DOMAIN t = 1 .. Len(t)
  OBVIOUS
<1>2. ASSUME NEW a \in Seq(S), NEW b \in Seq(S), Ascending(a, B), Ascending(b, B),
             ToSet(a) = ToSet(b), NEW k \in DOMAIN a
      PROVE  k \in DOMAIN b /\ b[k] = a[k]
  <2>1. a[k] \in ToSet(b)
    BY <1>2 DEF ToSet
  <2>2. PICK l \in DOMAIN b : b[l] = a[k]
    BY <2>1 DEF ToSet
  <2>3. Cardinality(Before(B, ToSet(a), a[k])) = k - 1
    BY <1>2, AscendingPlaces
  <2>4. Cardinality(Before(B, ToSet(b), b[l])) = l - 1
    BY <1>2, AscendingPlaces
  <2>5. k - 1 = l - 1 /\ k \in Nat /\ l \in Nat
    BY <1>2, <2>2, <2>3, <2>4
  <2>6. k = l
    BY <2>5
  <2> QED BY <2>2, <2>6
<1>3. DOMAIN s = DOMAIN t
  BY <1>2
<1>4. Len(s) = Len(t)
  <2>1. ASSUME NEW m \in Nat, NEW n \in Nat, 1 .. m = 1 .. n PROVE m = n
    <3>1. m # 0 => m \in 1 .. n
      BY <2>1
    <3>2. n # 0 => n \in 1 .. m
      BY <2>1
    <3> QED BY <3>1, <3>2
  <2>2. 1 .. Len(s) = 1 .. Len(t)
    BY <1>1, <1>3
  <2> QED BY <1>1, <2>1, <2>2
<1>5. \A k \in 1 .. Len(s) : s[k] = t[k]
  BY <1>1, <1>2
<1> QED BY <1>4, <1>5

=============================================================================
