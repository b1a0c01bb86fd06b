-------------------------- MODULE ListPlacesProofs --------------------------
(***************************************************************************)
(* Lemmas about lists, the places that are picked of them and their sums:  *)
(* what a filter keeps and in which order, what changes when an element is *)
(* added behind, and what a sum of a list is.  Induction is over the least *)
(* number for which a claim would fail.                                    *)
(***************************************************************************)
EXTENDS ListPlaces, TLAPS, SequenceTheorems, FiniteSetTheorems, WellFoundedInduction

-----------------------------------------------------------------------------
(* Least numbers.                                                          *)

\* A set of numbers has a least one.
LEMMA LeastNumber ==
  ASSUME NEW T \in SUBSET Nat, T # {}
  PROVE  \E m \in T : \A k \in T : m <= k
<1>1. PICK m \in T : \A k \in T : ~(<<k, m>> \in OpToRel(<, Nat))
  BY WFMin, NatLessThanWellFounded
<1>2. \A k \in T : ~(k < m)
  BY <1>1 DEF OpToRel
<1> QED
  BY <1>2

\* The first number of a set.
LEMMA FirstNumber ==
  ASSUME NEW a \in Nat, NEW b \in Int, NEW B \in SUBSET (a..b), B # {}
  PROVE  \E o \in a..b : o \in B /\ \A j \in a..o - 1 : j \notin B
<1>1. B \in SUBSET Nat
  OBVIOUS
<1>2. PICK o \in B : \A j \in B : o <= j
  BY <1>1, LeastNumber
<1>3. o \in a..b
  OBVIOUS
<1>4. \A j \in a..o - 1 : ~(o <= j)
  BY ONLY <1>3, a \in Nat, b \in Int
<1> QED BY <1>2, <1>3, <1>4

-----------------------------------------------------------------------------
(* Places, counted from the first.                                         *)

\* How many places there are up to a place numbers the places from 1 on.
LEMMA PlacesNumbered ==
  ASSUME NEW S \in SUBSET Int, IsFiniteSet(S)
  PROVE  /\ \A p \in S : CountUpTo(S, p) \in 1..Cardinality(S)
         /\ \A p, q \in S : CountUpTo(S, p) = CountUpTo(S, q) => p = q
         /\ \A n \in 1..Cardinality(S) : \E p \in S : CountUpTo(S, p) = n
<1> DEFINE Below(p) == {q \in S : q <= p}
           number == [p \in S |-> CountUpTo(S, p)]
<1>1. \A p \in S : IsFiniteSet(Below(p)) /\ CountUpTo(S, p) = Cardinality(Below(p))
  BY FS_Subset DEF CountUpTo
<1>2. \A p \in S : CountUpTo(S, p) \in 1..Cardinality(S)
  <2> SUFFICES ASSUME NEW p \in S PROVE CountUpTo(S, p) \in 1..Cardinality(S)
    OBVIOUS
  <2>1. Cardinality(Below(p)) <= Cardinality(S)
    <3>1. Below(p) \in SUBSET S
      OBVIOUS
    <3> QED BY <3>1, FS_Subset
  <2>2. Cardinality(Below(p)) \in Nat /\ Cardinality(S) \in Nat
    BY <1>1, FS_CardinalityType
  <2>3. Below(p) # {}
    <3>1. p \in Below(p)
      OBVIOUS
    <3> QED BY <3>1
  <2>4. Cardinality(Below(p)) # 0
    BY <1>1, <2>3, FS_EmptySet
  <2> QED BY <1>1, <2>1, <2>2, <2>4
<1>3. \A p, q \in S : p < q => CountUpTo(S, p) < CountUpTo(S, q)
  <2> SUFFICES ASSUME NEW p \in S, NEW q \in S, p < q PROVE CountUpTo(S, p) < CountUpTo(S, q)
    OBVIOUS
  <2>1. Below(p) \in SUBSET Below(q)
    <3>1. \A r \in S : r <= p => r <= q
      OBVIOUS
    <3> QED BY <3>1
  <2>2. q \in Below(q) /\ q \notin Below(p)
    OBVIOUS
  <2>3. Below(p) # Below(q)
    BY <2>2
  <2>4. /\ Cardinality(Below(p)) <= Cardinality(Below(q))
        /\ Cardinality(Below(p)) # Cardinality(Below(q))
    BY <1>1, <2>1, <2>3, FS_Subset
  <2>5. Cardinality(Below(p)) \in Nat /\ Cardinality(Below(q)) \in Nat
    BY <1>1, FS_CardinalityType
  <2> HIDE DEF Below
  <2> QED BY <1>1, <2>4, <2>5
<1>4. \A p, q \in S : CountUpTo(S, p) = CountUpTo(S, q) => p = q
  <2> SUFFICES ASSUME NEW p \in S, NEW q \in S, p # q PROVE CountUpTo(S, p) # CountUpTo(S, q)
    OBVIOUS
  <2>1. p < q \/ q < p
    OBVIOUS
  <2>2. CountUpTo(S, p) \in Int /\ CountUpTo(S, q) \in Int
    BY <1>2
  <2> QED BY <1>3, <2>1, <2>2
<1>5. \A n \in 1..Cardinality(S) : \E p \in S : CountUpTo(S, p) = n
  <2>1. Cardinality(S) \in Nat
    BY FS_CardinalityType
  <2>2. IsFiniteSet(1..Cardinality(S)) /\ Cardinality(1..Cardinality(S)) = Cardinality(S)
    BY <2>1, FS_Interval
  <2>3. number \in Injection(S, 1..Cardinality(S))
    BY <1>2, <1>4 DEF Injection, IsInjective
  <2>4. number \in Surjection(S, 1..Cardinality(S))
    BY <2>2, <2>3, FS_Injection
  <2> QED BY <2>4 DEF Surjection
<1> QED BY <1>2, <1>4, <1>5

\* The nth place is a place, and its number is n.
LEMMA NthPlace ==
  ASSUME NEW S \in SUBSET Int, IsFiniteSet(S)
  PROVE  /\ \A n \in 1..Cardinality(S) : Nth(S, n) \in S /\ CountUpTo(S, Nth(S, n)) = n
         /\ \A p \in S : Nth(S, CountUpTo(S, p)) = p
BY PlacesNumbered DEF Nth

\* Of all the places up to n the nth is n.
LEMMA AllPlaces ==
  ASSUME NEW n \in Nat
  PROVE  Cardinality(1..n) = n /\ \A i \in 1..n : Nth(1..n, i) = i
<1>1. IsFiniteSet(1..n) /\ Cardinality(1..n) = n /\ 1..n \in SUBSET Int
  BY FS_Interval
<1>2. \A i \in 1..n : CountUpTo(1..n, i) = i
  <2> SUFFICES ASSUME NEW i \in 1..n PROVE CountUpTo(1..n, i) = i
    OBVIOUS
  <2>1. {q \in 1..n : q <= i} = 1..i
    OBVIOUS
  <2>2. Cardinality(1..i) = i
    BY FS_Interval
  <2> QED BY <2>1, <2>2 DEF CountUpTo
<1>3. \A i \in 1..n : Nth(1..n, CountUpTo(1..n, i)) = i
  BY <1>1, NthPlace
<1> QED BY <1>1, <1>2, <1>3

\* A place behind all the others is counted last.
LEMMA PlaceAdded ==
  ASSUME NEW S \in SUBSET Int, IsFiniteSet(S), NEW m \in Int, \A q \in S : q < m
  PROVE  /\ IsFiniteSet(S \cup {m}) /\ S \cup {m} \in SUBSET Int
         /\ Cardinality(S \cup {m}) = Cardinality(S) + 1
         /\ \A n \in 1..Cardinality(S) : Nth(S \cup {m}, n) = Nth(S, n)
         /\ Nth(S \cup {m}, Cardinality(S) + 1) = m
<1> PICK c : c = Cardinality(S)
  OBVIOUS
<1>1. c \in Nat
  BY FS_CardinalityType
<1>2. IsFiniteSet(S \cup {m}) /\ Cardinality(S \cup {m}) = c + 1
  <2>1. m \notin S
    OBVIOUS
  <2> QED BY <2>1, FS_AddElement
<1> DEFINE W == S \cup {m}
<1>3. W \in SUBSET Int
  OBVIOUS
<1>4. \A p \in S : CountUpTo(W, p) = CountUpTo(S, p)
  <2> SUFFICES ASSUME NEW p \in S PROVE CountUpTo(W, p) = CountUpTo(S, p)
    OBVIOUS
  <2>1. {q \in W : q <= p} = {q \in S : q <= p}
    OBVIOUS
  <2> QED BY <2>1 DEF CountUpTo
<1>5. CountUpTo(W, m) = c + 1
  <2>1. \A q \in W : q <= m
    OBVIOUS
  <2>2. {q \in W : q <= m} = W
    BY ONLY <2>1
  <2> QED BY <1>2, <2>2 DEF CountUpTo
<1>6. Nth(W, c + 1) = m
  <2>1. m \in W
    OBVIOUS
  <2> HIDE DEF W
  <2>2. IsFiniteSet(W)
    BY <1>2 DEF W
  <2> QED BY <1>3, <1>5, <2>1, <2>2, NthPlace
<1>7. \A n \in 1..c : Nth(W, n) = Nth(S, n)
  <2> SUFFICES ASSUME NEW n \in 1..c PROVE Nth(W, n) = Nth(S, n)
    OBVIOUS
  <2>1. Nth(S, n) \in S /\ CountUpTo(S, Nth(S, n)) = n
    BY NthPlace
  <2>2. Nth(S, n) \in W /\ CountUpTo(W, Nth(S, n)) = n
    BY <1>4, <2>1
  <2>3. IsFiniteSet(W)
    BY <1>2
  <2> HIDE DEF W
  <2> QED BY <1>3, <2>2, <2>3, NthPlace
<1> QED BY <1>1, <1>2, <1>3, <1>6, <1>7

-----------------------------------------------------------------------------
(* Lists, and what is picked of them.                                      *)

\* A list of n elements, and one that agrees with its first ones.
ListOf(s, c) == s = [n \in 1..c |-> s[n]]

Agree(s, w, c) == \A n \in 1..c : w[n] = s[n]

\* Two lists, one behind the other.
LEMMA ListsJoined ==
  ASSUME NEW a \in Nat, NEW b \in Nat, NEW s, NEW w, ListOf(s, a), ListOf(w, b)
  PROVE  /\ ListOf(s \o w, a + b) /\ Len(s) = a /\ Len(w) = b /\ Len(s \o w) = a + b
         /\ \A i \in 1..a : (s \o w)[i] = s[i]
         /\ \A i \in 1..b : (s \o w)[a + i] = w[i]
<1> PICK T : T = {s[i] : i \in 1..a} \cup {w[i] : i \in 1..b}
  OBVIOUS
<1>1. s \in [1..a -> T] /\ w \in [1..b -> T]
  BY DEF ListOf
<1>2. s \in Seq(T) /\ w \in Seq(T) /\ Len(s) = a /\ Len(w) = b
  BY <1>1
<1>3. /\ s \o w \in Seq(T) /\ Len(s \o w) = a + b
      /\ \A i \in 1..a + b : (s \o w)[i] = IF i <= a THEN s[i] ELSE w[i - a]
  BY <1>2, ConcatProperties
<1>4. /\ \A i \in 1..a : i \in 1..a + b /\ i <= a
      /\ \A i \in 1..b : a + i \in 1..a + b /\ ~(a + i <= a) /\ (a + i) - a = i
  BY ONLY a \in Nat, b \in Nat
<1>5. ListOf(s \o w, a + b)
  BY <1>3, LenProperties DEF ListOf
<1> QED BY <1>2, <1>3, <1>4, <1>5

\* A list of n elements has length n.
LEMMA LengthOf ==
  ASSUME NEW n \in Nat, NEW s, ListOf(s, n)
  PROVE  Len(s) = n /\ DOMAIN s = 1..n
<1>1. Len(s) = n
  BY ListsJoined
<1>2. s = [i \in 1..n |-> s[i]]
  BY DEF ListOf
<1>3. DOMAIN s = 1..n
  BY ONLY <1>2
<1> QED BY <1>1, <1>3

\* A list of no elements is the empty one.
LEMMA EmptyList ==
  ASSUME NEW s, ListOf(s, 0)
  PROVE  s = <<>>
BY DEF ListOf

\* A list that agrees with another and has one element more.
LEMMA OneMoreElement ==
  ASSUME NEW c \in Nat, NEW s, NEW w,
         ListOf(s, c), ListOf(w, c + 1), Agree(s, w, c)
  PROVE  w = Append(s, w[c + 1]) /\ w = s \o <<w[c + 1]>>
<1> USE DEF ListOf, Agree
<1> DEFINE T == {w[n] : n \in 1..c + 1}
<1> PICK e : e = w[c + 1]
  OBVIOUS
<1>1. \A n \in 1..c + 1 : w[n] \in T
  OBVIOUS
<1>2. e \in T /\ \A n \in 1..c : s[n] \in T
  BY <1>1
<1> HIDE DEF T
<1>3. s \in Seq(T) /\ Len(s) = c
  <2>1. s \in [1..c -> T]
    BY <1>2
  <2> QED BY <2>1
<1>4. w \in Seq(T) /\ Len(w) = c + 1
  <2>1. w \in [1..c + 1 -> T] /\ c + 1 \in Nat
    BY <1>1
  <2> QED BY <2>1
<1>5. Append(s, e) \in Seq(T) /\ Len(Append(s, e)) = c + 1
      /\ (\A n \in 1..c : Append(s, e)[n] = s[n]) /\ Append(s, e)[c + 1] = e
  BY <1>2, <1>3, AppendProperties
<1> PICK a : a = Append(s, e)
  OBVIOUS
<1>6. \A n \in 1..c + 1 : w[n] = a[n]
  <2> SUFFICES ASSUME NEW n \in 1..c + 1 PROVE w[n] = a[n]
    OBVIOUS
  <2>1. CASE n = c + 1
    BY <1>5, <2>1
  <2>2. CASE n # c + 1
    <3>1. n \in 1..c
      BY <2>2
    <3> QED BY <1>5, <3>1
  <2> QED BY <2>1, <2>2
<1>7. w = a
  BY <1>4, <1>5, <1>6, SeqEqual
<1>8. Append(s, e) = s \o <<e>>
  BY <1>2, <1>3, AppendIsConcat
<1> QED BY <1>7, <1>8

\* What is picked at the same places of two lists that agree there.
LEMMA PickedAgrees ==
  ASSUME NEW S \in SUBSET Int, IsFiniteSet(S), NEW f, NEW g, \A p \in S : f[p] = g[p]
  PROVE  Picked(f, S) = Picked(g, S)
<1>1. \A n \in 1..Cardinality(S) : Nth(S, n) \in S
  BY NthPlace
<1> QED BY <1>1 DEF Picked

\* A place behind all the others is picked last.
LEMMA PickedGrows ==
  ASSUME NEW S \in SUBSET Int, IsFiniteSet(S), NEW m \in Int, \A q \in S : q < m, NEW f
  PROVE  /\ Picked(f, S \cup {m}) = Append(Picked(f, S), f[m])
         /\ Picked(f, S \cup {m}) = Picked(f, S) \o <<f[m]>>
<1> PICK c : c = Cardinality(S)
  OBVIOUS
<1> PICK s : s = Picked(f, S)
  OBVIOUS
<1> PICK w : w = Picked(f, S \cup {m})
  OBVIOUS
<1>1. c \in Nat
  BY FS_CardinalityType
<1>2. s = [n \in 1..c |-> f[Nth(S, n)]]
  BY DEF Picked
<1>3. w = [n \in 1..c + 1 |-> f[Nth(S \cup {m}, n)]]
  BY PlaceAdded DEF Picked
<1>4. \A n \in 1..c : Nth(S \cup {m}, n) = Nth(S, n)
  BY PlaceAdded
<1>5. Nth(S \cup {m}, c + 1) = m
  BY PlaceAdded
<1>6. /\ c + 1 \in 1..c + 1
      /\ \A n \in 1..c : n \in 1..c + 1
  BY ONLY <1>1
<1>7. w[c + 1] = f[m]
  BY ONLY <1>3, <1>5, <1>6
<1>8. Agree(s, w, c)
  BY ONLY <1>2, <1>3, <1>4, <1>6 DEF Agree
<1>9. ListOf(s, c) /\ ListOf(w, c + 1)
  BY ONLY <1>2, <1>3 DEF ListOf
<1>10. w = Append(s, w[c + 1]) /\ w = s \o <<w[c + 1]>>
  BY ONLY <1>1, <1>8, <1>9, OneMoreElement
<1> QED BY <1>7, <1>10

\* As many values as places, when no two places hold the same.
LEMMA DifferentValues ==
  ASSUME NEW n \in Nat, NEW f, \A i, j \in 1..n : f[i] = f[j] => i = j
  PROVE  Cardinality({f[i] : i \in 1..n}) = n
<1> PICK T : T = {f[i] : i \in 1..n}
  OBVIOUS
<1> PICK g : g = [i \in 1..n |-> f[i]]
  OBVIOUS
<1>1. g \in Injection(1..n, T)
  BY DEF Injection, IsInjective
<1>2. g \in Surjection(1..n, T)
  BY DEF Surjection
<1>3. IsFiniteSet(1..n) /\ Cardinality(1..n) = n
  BY FS_Interval
<1>4. Cardinality(T) = Cardinality(1..n)
  BY <1>1, <1>2, <1>3, FS_Surjection
<1> QED BY <1>3, <1>4

-----------------------------------------------------------------------------
(* Sums.                                                                   *)

\* The sums of the first k numbers.
SumsUpTo(numbers, f, n) == f = [k \in 0..n |-> IF k = 0 THEN 0 ELSE f[k - 1] + numbers[k]]

\* There are sums up to every place of a list.
LEMMA SumsExist ==
  ASSUME NEW numbers, NEW last \in Nat
  PROVE  \E f : SumsUpTo(numbers, f, last)
<1> DEFINE T == {n \in 0..last : ~\E f : SumsUpTo(numbers, f, n)}
<1> SUFFICES ASSUME last \in T PROVE FALSE
  OBVIOUS
<1>1. T \in SUBSET Nat /\ T # {}
  OBVIOUS
<1> HIDE DEF T
<1>2. PICK n \in T : \A k \in T : n <= k
  BY <1>1, LeastNumber
<1>3. n \in 0..last /\ ~\E f : SumsUpTo(numbers, f, n)
  BY <1>2 DEF T
<1>4. n # 0
  <2> PICK f : f = [k \in 0..0 |-> 0]
    OBVIOUS
  <2>1. SumsUpTo(numbers, f, 0)
    BY DEF SumsUpTo
  <2> QED BY <1>3, <2>1
<1>5. n - 1 \in 0..last /\ n - 1 \notin T
  BY <1>1, <1>2, <1>3, <1>4
<1>6. PICK f : SumsUpTo(numbers, f, n - 1)
  BY <1>5 DEF T
<1> PICK more : more = f[n - 1] + numbers[n]
  OBVIOUS
<1> PICK g : g = [k \in 0..n |-> IF k = n THEN more ELSE f[k]]
  OBVIOUS
<1>7. ASSUME NEW k \in 0..n
      PROVE  g[k] = IF k = 0 THEN 0 ELSE g[k - 1] + numbers[k]
  <2>1. CASE k = n
    <3>1. g[n] = more /\ g[n - 1] = f[n - 1]
      BY <1>3, <1>4
    <3> QED BY <1>3, <1>4, <2>1, <3>1
  <2>2. CASE k # n
    <3>1. k \in 0..(n - 1) /\ g[k] = f[k]
      BY <1>3, <2>2
    <3>2. f[k] = IF k = 0 THEN 0 ELSE f[k - 1] + numbers[k]
      BY <1>6, <3>1 DEF SumsUpTo
    <3>3. k # 0 => g[k - 1] = f[k - 1]
      BY <1>3, <2>2
    <3> QED BY <3>1, <3>2, <3>3
  <2> QED BY <2>1, <2>2
<1>8. SumsUpTo(numbers, g, n)
  BY <1>7 DEF SumsUpTo
<1> QED BY <1>3, <1>8

\* The total of a list is the last of its sums.
LEMMA TotalUnfolds ==
  ASSUME NEW numbers, Len(numbers) \in Nat
  PROVE  \E f : SumsUpTo(numbers, f, Len(numbers)) /\ Total(numbers) = f[Len(numbers)]
<1> PICK f : f = CHOOSE g : SumsUpTo(numbers, g, Len(numbers))
  OBVIOUS
<1>1. SumsUpTo(numbers, f, Len(numbers))
  BY SumsExist
<1>2. Total(numbers) = f[Len(numbers)]
  BY DEF Total, SumsUpTo
<1> QED BY <1>1, <1>2

\* A tenfold of each number is a tenfold of the sum.
LEMMA TotalTenfold ==
  ASSUME NEW n \in Nat, NEW a \in [1..n -> Int], NEW b \in [1..n -> Int],
         \A i \in 1..n : b[i] = 10 * a[i]
  PROVE  Total(a) \in Int /\ Total(b) = 10 * Total(a)
<1>1. Len(a) = n /\ Len(b) = n
  OBVIOUS
<1>2. PICK f : SumsUpTo(a, f, n) /\ Total(a) = f[n]
  BY <1>1, TotalUnfolds
<1>3. PICK g : SumsUpTo(b, g, n) /\ Total(b) = g[n]
  BY <1>1, TotalUnfolds
<1>4. /\ \A k \in 0..n : f[k] = IF k = 0 THEN 0 ELSE f[k - 1] + a[k]
      /\ \A k \in 0..n : g[k] = IF k = 0 THEN 0 ELSE g[k - 1] + b[k]
  BY <1>2, <1>3 DEF SumsUpTo
<1> DEFINE T == {k \in 0..n : ~(f[k] \in Int /\ g[k] = 10 * f[k])}
<1>5. T = {}
  <2> SUFFICES ASSUME T # {} PROVE FALSE
    OBVIOUS
  <2>1. T \in SUBSET Nat
    OBVIOUS
  <2> HIDE DEF T
  <2>2. PICK k \in T : \A j \in T : k <= j
    BY <2>1, LeastNumber
  <2>3. k \in 0..n /\ ~(f[k] \in Int /\ g[k] = 10 * f[k])
    BY <2>2 DEF T
  <2>4. k # 0
    BY <1>4, <2>3
  <2>5. k - 1 \in 0..n /\ k - 1 \notin T
    BY <2>1, <2>2, <2>3, <2>4
  <2>6. f[k - 1] \in Int /\ g[k - 1] = 10 * f[k - 1]
    BY <2>5 DEF T
  <2>7. f[k] = f[k - 1] + a[k] /\ g[k] = g[k - 1] + b[k]
    BY <1>4, <2>3, <2>4
  <2>8. a[k] \in Int /\ b[k] = 10 * a[k]
    BY <2>3, <2>4
  <2> QED BY <2>3, <2>6, <2>7, <2>8
<1>6. n \in 0..n
  OBVIOUS
<1> QED BY <1>2, <1>3, <1>5, <1>6
=============================================================================
