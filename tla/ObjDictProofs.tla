--------------------------- MODULE ObjDictProofs ---------------------------
(***************************************************************************)
(* What the operators of ObjDict compute, for every input: the order of    *)
(* the sorted dictionary, the bisection that searches it, and the sums the *)
(* mapping of a TPDO is measured with.                                     *)
(*                                                                         *)
(* These are facts by induction over data.  The principles used have the   *)
(* form of a least element: a set of counterexamples that is not empty     *)
(* would have a least one.                                                 *)
(***************************************************************************)
EXTENDS ObjDict, FiniteSetsExt, FiniteSetTheorems, TLAPS

-----------------------------------------------------------------------------
(* Least elements.                                                         *)

\* A set of numbers has a least one, because the intervals they end are well-founded.
LEMMA LeastNumber ==
  ASSUME NEW T \in SUBSET Nat, T # {}
  PROVE  \E n \in T : \A m \in T : n <= m
<1> DEFINE U == {0..n : n \in T}
<1>1. U \subseteq FiniteSubsetsOf(Nat) /\ U # {}
  <2>1. \A n \in T : 0..n \in SUBSET Nat /\ IsFiniteSet(0..n)
    BY FS_Interval
  <2> QED BY <2>1 DEF FiniteSubsetsOf
<1>2. PICK u \in U : \A v \in U : <<v, u>> \notin StrictSubsetOrdering(Nat)
  <2> HIDE DEF U
  <2> QED BY <1>1, FS_StrictSubsetOrderingWellFounded, WFMin
<1>3. PICK n \in T : u = 0..n
  BY <1>2
<1>4. ASSUME NEW m \in T, m < n PROVE FALSE
  <2> DEFINE a == 0..m
             b == 0..n
  <2>1. a \subseteq b /\ a # b /\ a \in SUBSET Nat /\ b \in SUBSET Nat
    <3>1. n \in 0..n /\ n \notin 0..m /\ 0..m \subseteq 0..n
      BY <1>4
    <3> QED BY <3>1
  <2>2. <<a, b>> \notin StrictSubsetOrdering(Nat)
    BY <1>2, <1>3
  <2> HIDE DEF a, b
  <2> QED BY <2>1, <2>2 DEF StrictSubsetOrdering
<1> QED BY <1>4

\* A set of finite sets has one that none of the others is a part of.
LEMMA LeastSet ==
  ASSUME NEW C, C # {}, \A s \in C : IsFiniteSet(s)
  PROVE  \E s \in C : \A t \in C : t \subseteq s => t = s
<1> DEFINE S == UNION C
<1>1. C \subseteq FiniteSubsetsOf(S)
  BY DEF FiniteSubsetsOf
<1>2. PICK s \in C : \A t \in C : <<t, s>> \notin StrictSubsetOrdering(S)
  <2> HIDE DEF S
  <2> QED BY <1>1, FS_StrictSubsetOrderingWellFounded, WFMin
<1>3. \A t \in C : t \subseteq s => t = s
  BY <1>2 DEF StrictSubsetOrdering
<1> QED BY <1>3

-----------------------------------------------------------------------------
(* Ranks: how many elements have a smaller key.                            *)

Rank(D, key, e) == Cardinality({d \in D : key[d] < key[e]})

LEMMA Ranking ==
  ASSUME NEW D, IsFiniteSet(D), NEW key \in [D -> Nat],
         \A d, e \in D : key[d] = key[e] => d = e
  PROVE  /\ Cardinality(D) \in Nat
         /\ \A e \in D : Rank(D, key, e) \in 0..(Cardinality(D) - 1)
         /\ \A d, e \in D : key[d] < key[e] => Rank(D, key, d) < Rank(D, key, e)
         /\ \A n \in 0..(Cardinality(D) - 1) : \E e \in D : Rank(D, key, e) = n
<1> DEFINE below(e) == {d \in D : key[d] < key[e]}
           n == Cardinality(D)
<1>1. n \in Nat
  BY FS_CardinalityType
<1>2. ASSUME NEW e \in D
      PROVE  /\ IsFiniteSet(below(e)) /\ Cardinality(below(e)) \in Nat
             /\ Cardinality(below(e)) <= n - 1
  <2>1. below(e) \in SUBSET (D \ {e})
    OBVIOUS
  <2>2. IsFiniteSet(D \ {e}) /\ Cardinality(D \ {e}) = n - 1
    BY FS_RemoveElement
  <2> HIDE DEF below
  <2>3. IsFiniteSet(below(e)) /\ Cardinality(below(e)) <= n - 1
    BY <2>1, <2>2, FS_Subset
  <2> QED BY <2>3, FS_CardinalityType
<1>3. ASSUME NEW d \in D, NEW e \in D, key[d] < key[e]
      PROVE  Cardinality(below(d)) < Cardinality(below(e))
  <2>1. below(d) \cup {d} \in SUBSET below(e) /\ d \notin below(d)
    BY <1>3
  <2>2. /\ IsFiniteSet(below(d)) /\ IsFiniteSet(below(e))
        /\ Cardinality(below(d)) \in Nat /\ Cardinality(below(e)) \in Nat
    BY <1>2
  <2> HIDE DEF below
  <2>3. Cardinality(below(d) \cup {d}) = Cardinality(below(d)) + 1
    BY <2>1, <2>2, FS_AddElement
  <2>4. Cardinality(below(d) \cup {d}) <= Cardinality(below(e))
    BY <2>1, <2>2, FS_Subset
  <2> QED BY <2>2, <2>3, <2>4
<1>4. \A m \in 0..(n - 1) : \E e \in D : Cardinality(below(e)) = m
  <2> DEFINE r == [e \in D |-> Cardinality(below(e))]
             T == 0..(n - 1)
  <2>1. r \in [D -> T]
    <3> HIDE DEF below, n
    <3>1. \A e \in D : Cardinality(below(e)) \in T
      BY <1>1, <1>2
    <3> HIDE DEF T
    <3> QED BY <3>1
  <2>2. \A d, e \in D : r[d] = r[e] => d = e
    <3> SUFFICES ASSUME NEW d \in D, NEW e \in D, d # e PROVE r[d] # r[e]
      OBVIOUS
    <3>1. key[d] < key[e] \/ key[e] < key[d]
      OBVIOUS
    <3>2. r[d] \in Nat /\ r[e] \in Nat
      BY <1>2
    <3>3. r[d] < r[e] \/ r[e] < r[d]
      BY <1>3, <3>1
    <3> QED BY <3>2, <3>3
  <2>3. IsFiniteSet(T) /\ Cardinality(T) = n
    BY <1>1, FS_Interval
  <2> HIDE DEF r, T
  <2>4. r \in Injection(D, T)
    BY <2>1, <2>2 DEF Injection, IsInjective
  <2>5. r \in Surjection(D, T)
    BY <2>3, <2>4, FS_Injection
  <2> QED BY <2>5 DEF Surjection, r, T
<1>5. \A e \in D : Rank(D, key, e) = Cardinality(below(e))
  BY DEF Rank
<1> HIDE DEF below
<1>6. \A e \in D : Rank(D, key, e) \in 0..(n - 1)
  BY <1>1, <1>2, <1>5
<1>7. \A d, e \in D : key[d] < key[e] => Rank(D, key, d) < Rank(D, key, e)
  BY <1>3, <1>5
<1> HIDE DEF n
<1>8. \A m \in 0..(n - 1) : \E e \in D : Rank(D, key, e) = m
  BY <1>4, <1>5
<1> QED BY <1>1, <1>6, <1>7, <1>8 DEF n
-----------------------------------------------------------------------------
(* Addresses and the order of their keys.                                  *)

Address == [index : Nat, sub : 0..(Byte - 1)]

LEMMA KeyType == \A a \in Address : FullRef(a) \in Nat
BY DEF FullRef, Address, Byte

\* A key stands for one address only, because a subindex fits its byte.
LEMMA KeysDiffer == \A a, b \in Address : FullRef(a) = FullRef(b) => a = b
<1> SUFFICES ASSUME NEW a \in Address, NEW b \in Address, FullRef(a) = FullRef(b)
             PROVE  a = b
  OBVIOUS
<1>1. /\ a.index \in Nat /\ b.index \in Nat /\ a.sub \in 0..255 /\ b.sub \in 0..255
      /\ a.index * 256 + a.sub = b.index * 256 + b.sub
  BY DEF FullRef, Address, Byte
<1>2. a.index = b.index /\ a.sub = b.sub
  <2> DEFINE x == a.index
             y == b.index
             p == a.sub
             q == b.sub
  <2>1. x \in Nat /\ y \in Nat /\ p \in 0..255 /\ q \in 0..255 /\ x * 256 + p = y * 256 + q
    BY <1>1
  <2> HIDE DEF x, y, p, q
  <2>2. x = y /\ p = q
    BY <2>1
  <2> QED BY <2>2 DEF x, y, p, q
<1> QED BY <1>2 DEF Address

LEMMA FunctionIsSeq ==
  ASSUME NEW S, NEW n \in Nat, NEW f \in [1..n -> S]
  PROVE  f \in Seq(S) /\ Len(f) = n
OBVIOUS

\* A set of entries with different addresses.
Dictionary(D) ==
  /\ IsFiniteSet(D)
  /\ \A e \in D : e.addr \in Address
  /\ \A d, e \in D : d.addr = e.addr => d = e

\* A sequence of entries in the order of their keys.
Ordered(D, s) ==
  /\ s \in Seq(D)
  /\ \A i, j \in 1..Len(s) : i < j => FullRef(s[i].addr) < FullRef(s[j].addr)

\* What Sort makes of a dictionary: it has all the entries, in order.
SortOf(D) ==
  [i \in 1..Cardinality(D) |-> CHOOSE e \in D : Cardinality({d \in D : ByKey(d, e)}) = i - 1]

LEMMA SortOrders ==
  ASSUME NEW D, Dictionary(D), NEW s, s = SortOf(D)
  PROVE  /\ Len(s) = Cardinality(D) /\ Ordered(D, s)
         /\ \A e \in D : \E i \in 1..Len(s) : s[i] = e
<1> DEFINE key == [e \in D |-> FullRef(e.addr)]
           n == Cardinality(D)
<1>1. key \in [D -> Nat] /\ \A d, e \in D : key[d] = key[e] => d = e
  BY KeyType, KeysDiffer DEF Dictionary
<1>2. \A e \in D : Cardinality({d \in D : ByKey(d, e)}) = Rank(D, key, e)
  <2> SUFFICES ASSUME NEW e \in D
               PROVE  {d \in D : ByKey(d, e)} = {d \in D : key[d] < key[e]}
    BY DEF Rank
  <2> QED BY DEF ByKey
<1> HIDE DEF key
<1>3. /\ n \in Nat
      /\ \A e \in D : Rank(D, key, e) \in 0..(n - 1)
      /\ \A d, e \in D : key[d] < key[e] => Rank(D, key, d) < Rank(D, key, e)
      /\ \A m \in 0..(n - 1) : \E e \in D : Rank(D, key, e) = m
  BY <1>1, Ranking DEF Dictionary
<1> HIDE DEF n
<1>4. s = [i \in 1..n |-> CHOOSE e \in D : Cardinality({d \in D : ByKey(d, e)}) = i - 1]
  BY DEF n, SortOf
<1>5. ASSUME NEW i \in 1..n PROVE s[i] \in D /\ Rank(D, key, s[i]) = i - 1
  <2>1. s[i] = CHOOSE e \in D : Cardinality({d \in D : ByKey(d, e)}) = i - 1
    BY <1>4
  <2>2. \E e \in D : Cardinality({d \in D : ByKey(d, e)}) = i - 1
    <3>1. i - 1 \in 0..(n - 1)
      BY <1>3
    <3> QED BY <1>2, <1>3, <3>1
  <2> QED BY <1>2, <2>1, <2>2
<1>6. s \in Seq(D) /\ Len(s) = n
  <2>1. s \in [1..n -> D]
    BY <1>4, <1>5
  <2> QED BY <1>3, <2>1, FunctionIsSeq
<1>7. ASSUME NEW i \in 1..n, NEW j \in 1..n, i < j PROVE key[s[i]] < key[s[j]]
  <2>1. key[s[i]] \in Nat /\ key[s[j]] \in Nat
    BY <1>1, <1>5
  <2>2. key[s[i]] # key[s[j]] /\ ~(key[s[j]] < key[s[i]])
    <3>1. Rank(D, key, s[i]) < Rank(D, key, s[j]) /\ s[i] \in D /\ s[j] \in D
      <4>1. /\ s[i] \in D /\ Rank(D, key, s[i]) = i - 1
            /\ s[j] \in D /\ Rank(D, key, s[j]) = j - 1
        BY <1>5
      <4>2. i - 1 < j - 1
        BY <1>3, <1>7
      <4> QED BY <4>1, <4>2
    <3>2. Rank(D, key, s[i]) \in Nat /\ Rank(D, key, s[j]) \in Nat
      BY <1>3, <3>1
    <3>3. s[i] # s[j] /\ ~(key[s[j]] < key[s[i]])
      BY <1>3, <3>1, <3>2
    <3> QED BY <1>1, <3>1, <3>3
  <2> QED BY <2>1, <2>2
<1>8. ASSUME NEW e \in D PROVE \E i \in 1..n : s[i] = e
  <2> DEFINE i == Rank(D, key, e) + 1
  <2>1. i \in 1..n /\ i - 1 = Rank(D, key, e)
    BY <1>3
  <2> HIDE DEF i
  <2>2. s[i] \in D /\ Rank(D, key, s[i]) = Rank(D, key, e)
    BY <1>5, <2>1
  <2>3. key[s[i]] \in Nat /\ key[e] \in Nat
    BY <1>1, <2>2
  <2>4. key[s[i]] = key[e]
    <3>1. Rank(D, key, s[i]) \in Nat /\ Rank(D, key, e) \in Nat
      BY <1>3, <2>2
    <3>2. ~(key[s[i]] < key[e]) /\ ~(key[e] < key[s[i]])
      BY <1>3, <2>2, <3>1
    <3> QED BY <2>3, <3>2
  <2> QED BY <1>1, <2>1, <2>2, <2>4
<1>9. ASSUME NEW i \in 1..n, NEW j \in 1..n, i < j
      PROVE  FullRef(s[i].addr) < FullRef(s[j].addr)
  <2>1. s[i] \in D /\ s[j] \in D /\ key[s[i]] < key[s[j]]
    BY <1>5, <1>7, <1>9
  <2> QED BY <2>1 DEF key
<1> QED BY <1>6, <1>8, <1>9 DEF Ordered, n
-----------------------------------------------------------------------------
(* The bisection.                                                          *)

Hits(a, lo, hi) == {sorted[i] : i \in {i \in lo..hi : sorted[i].addr = a}}

\* In an ordered sequence what is looked for is in the half that is searched.
LEMMA LookHits ==
  ASSUME NEW D, \A e \in D : e.addr \in Address, Ordered(D, sorted), NEW a \in Address,
         NEW lo \in 1..(Len(sorted) + 1), NEW hi \in 0..Len(sorted), NEW find,
         LET mid == (lo + hi) \div 2 IN
           lo <= hi => /\ find[<<mid + 1, hi>>] = Hits(a, mid + 1, hi)
                       /\ find[<<lo, mid - 1>>] = Hits(a, lo, mid - 1)
  PROVE  Look(find, a, lo, hi) = Hits(a, lo, hi)
<1> DEFINE mid == (lo + hi) \div 2
           n == Len(sorted)
<1>1. n \in Nat
  BY DEF Ordered
<1>2. CASE lo > hi
  BY <1>2 DEF Look, Hits
<1>3. CASE lo <= hi
  <2>1. mid \in lo..hi /\ mid \in 1..n
    BY <1>1, <1>3
  <2> HIDE DEF mid
  <2>2. /\ \A i \in 1..n : sorted[i].addr \in Address /\ FullRef(sorted[i].addr) \in Nat
        /\ FullRef(a) \in Nat
    BY KeyType DEF Ordered
  <2>3. \A i, j \in 1..n : i < j => FullRef(sorted[i].addr) < FullRef(sorted[j].addr)
    BY DEF Ordered
  <2>4. \A i \in lo..hi : i \in 1..n
    BY <1>1
  <2>5. CASE sorted[mid].addr = a
    <3>1. \A i \in lo..hi : sorted[i].addr = a => i = mid
      <4> SUFFICES ASSUME NEW i \in lo..hi, sorted[i].addr = a, i # mid PROVE FALSE
        OBVIOUS
      <4>1. i < mid \/ mid < i
        BY <2>1
      <4>2. FullRef(sorted[i].addr) # FullRef(sorted[mid].addr)
        BY <2>1, <2>2, <2>3, <2>4, <4>1
      <4> QED BY <2>5, <4>2
    <3>2. Hits(a, lo, hi) = {sorted[mid]}
      BY <2>1, <2>5, <3>1 DEF Hits
    <3> QED BY <1>3, <2>5, <3>2 DEF Look, mid
  <2>6. CASE sorted[mid].addr # a /\ FullRef(sorted[mid].addr) < FullRef(a)
    <3>1. \A i \in lo..hi : sorted[i].addr = a => i \in (mid + 1)..hi
      <4> SUFFICES ASSUME NEW i \in lo..hi, sorted[i].addr = a, i <= mid PROVE FALSE
        BY <2>1
      <4>1. FullRef(sorted[i].addr) <= FullRef(sorted[mid].addr)
        <5>1. i = mid \/ i < mid
          BY <2>1
        <5>2. CASE i = mid
          BY <2>1, <2>2, <2>4, <5>2
        <5>3. CASE i < mid
          <6>1. FullRef(sorted[i].addr) < FullRef(sorted[mid].addr)
            BY <2>1, <2>3, <2>4, <5>3
          <6> QED BY <2>1, <2>2, <2>4, <6>1
        <5> QED BY <5>1, <5>2, <5>3
      <4> QED BY <2>1, <2>2, <2>6, <4>1
    <3>2. (mid + 1)..hi \subseteq lo..hi
      BY <2>1
    <3>3. Hits(a, lo, hi) = Hits(a, mid + 1, hi)
      BY <3>1, <3>2 DEF Hits
    <3> QED BY <1>3, <2>6, <3>3 DEF Look, mid
  <2>7. CASE sorted[mid].addr # a /\ ~(FullRef(sorted[mid].addr) < FullRef(a))
    <3>1. \A i \in lo..hi : sorted[i].addr = a => i \in lo..(mid - 1)
      <4> SUFFICES ASSUME NEW i \in lo..hi, sorted[i].addr = a, i >= mid PROVE FALSE
        BY <2>1
      <4>1. i # mid
        BY <2>7
      <4>2. FullRef(sorted[mid].addr) < FullRef(sorted[i].addr)
        <5>1. mid < i
          BY <2>1, <4>1
        <5> QED BY <2>1, <2>3, <2>4, <5>1
      <4> QED BY <2>1, <2>2, <2>7, <4>2
    <3>2. lo..(mid - 1) \subseteq lo..hi
      BY <2>1
    <3>3. Hits(a, lo, hi) = Hits(a, lo, mid - 1)
      BY <3>1, <3>2 DEF Hits
    <3> QED BY <1>3, <2>7, <3>3 DEF Look, mid
  <2> QED BY <2>5, <2>6, <2>7
<1> QED BY <1>2, <1>3
\* The bisection of an ordered sequence returns the entries with the address looked for:
\* what they are solves the equation the recursion states, and no two functions solve it.
THEOREM BisectionFinds ==
  ASSUME NEW D, \A e \in D : e.addr \in Address, Ordered(D, sorted), NEW a \in Address
  PROVE  CODictFind(a) = Hits(a, 1, Len(sorted))
<1> DEFINE n == Len(sorted)
           R == (1..(n + 1)) \X (0..n)
           hits == [r \in R |-> Hits(a, r[1], r[2])]
           find == CHOOSE f : f = [r \in R |-> Look(f, a, r[1], r[2])]
<1>1. n \in Nat
  BY DEF Ordered
<1>2. ASSUME NEW f, NEW r \in R,
             r[1] <= r[2] =>
               LET mid == (r[1] + r[2]) \div 2 IN
               /\ f[<<mid + 1, r[2]>>] = hits[<<mid + 1, r[2]>>]
               /\ f[<<r[1], mid - 1>>] = hits[<<r[1], mid - 1>>]
      PROVE  Look(f, a, r[1], r[2]) = hits[r]
  <2> DEFINE lo == r[1]
             hi == r[2]
             mid == (lo + hi) \div 2
  <2>1. lo \in 1..(n + 1) /\ hi \in 0..n
    OBVIOUS
  <2>2. lo <= hi => mid + 1 \in 1..(n + 1) /\ mid - 1 \in 0..n
    <3> HIDE DEF n
    <3> QED BY <1>1, <2>1
  <2>3. lo <= hi => /\ f[<<mid + 1, hi>>] = Hits(a, mid + 1, hi)
                    /\ f[<<lo, mid - 1>>] = Hits(a, lo, mid - 1)
    <3> SUFFICES ASSUME lo <= hi
                 PROVE  /\ f[<<mid + 1, hi>>] = Hits(a, mid + 1, hi)
                        /\ f[<<lo, mid - 1>>] = Hits(a, lo, mid - 1)
      OBVIOUS
    <3>1. <<mid + 1, hi>> \in R /\ <<lo, mid - 1>> \in R
      BY <2>1, <2>2
    <3>2. /\ hits[<<mid + 1, hi>>] = Hits(a, mid + 1, hi)
          /\ hits[<<lo, mid - 1>>] = Hits(a, lo, mid - 1)
      <4> HIDE DEF R, mid
      <4> QED BY <3>1
    <3> QED BY <1>2, <3>2
  <2>4. Look(f, a, lo, hi) = Hits(a, lo, hi)
    <3> HIDE DEF lo, hi, hits, R
    <3> QED BY <2>1, <2>3, LookHits
  <2> QED BY <2>4
<1>3. find = [r \in R |-> Look(find, a, r[1], r[2])]
  <2>1. \A r \in R : Look(hits, a, r[1], r[2]) = hits[r]
    BY <1>2
  <2>2. hits = [r \in R |-> Look(hits, a, r[1], r[2])]
    <3> HIDE DEF R
    <3> QED BY <2>1
  <2> HIDE DEF hits
  <2> QED BY <2>2
<1>4. \A r \in R : find[r] = hits[r]
  <2> DEFINE size(r) == r[2] + n + 1 - r[1]
             wrong == {r \in R : find[r] # hits[r]}
             T == {size(r) : r \in wrong}
  <2> SUFFICES ASSUME wrong # {} PROVE FALSE
    OBVIOUS
  <2>1. \A r \in R : size(r) \in Nat
    <3> HIDE DEF n
    <3> QED BY <1>1
  <2>2. T \in SUBSET Nat /\ T # {}
    BY <2>1
  <2>3. PICK m \in T : \A k \in T : m <= k
    <3> HIDE DEF T
    <3> QED BY <2>2, LeastNumber
  <2>4. PICK r \in wrong : m = size(r)
    BY <2>3
  <2>5. \A q \in R : size(q) < size(r) => find[q] = hits[q]
    <3> SUFFICES ASSUME NEW q \in R, size(q) < size(r), q \in wrong PROVE FALSE
      OBVIOUS
    <3>1. size(q) \in T /\ size(q) \in Nat /\ size(r) \in Nat
      BY <2>1
    <3> HIDE DEF size, T, wrong
    <3> QED BY <2>3, <2>4, <3>1
  <2>6. find[r] = Look(find, a, r[1], r[2])
    <3> HIDE DEF find, hits, R
    <3> QED BY <1>3, <2>4
  <2> DEFINE lo == r[1]
             hi == r[2]
             mid == (lo + hi) \div 2
  <2>7. lo <= hi => /\ find[<<mid + 1, hi>>] = hits[<<mid + 1, hi>>]
                    /\ find[<<lo, mid - 1>>] = hits[<<lo, mid - 1>>]
    <3> SUFFICES ASSUME lo <= hi
                 PROVE  /\ find[<<mid + 1, hi>>] = hits[<<mid + 1, hi>>]
                        /\ find[<<lo, mid - 1>>] = hits[<<lo, mid - 1>>]
      OBVIOUS
    <3>1. lo \in 1..(n + 1) /\ hi \in 0..n
      BY <2>4
    <3>2. mid \in lo..hi
      BY <3>1
    <3>3. /\ mid + 1 \in 1..(n + 1) /\ mid - 1 \in 0..n
          /\ hi + n + 1 - (mid + 1) < hi + n + 1 - lo
          /\ (mid - 1) + n + 1 - lo < hi + n + 1 - lo
      <4> HIDE DEF n, lo, hi, mid
      <4> QED BY <1>1, <3>1, <3>2
    <3>4. /\ <<mid + 1, hi>> \in R /\ size(<<mid + 1, hi>>) < size(r)
          /\ <<lo, mid - 1>> \in R /\ size(<<lo, mid - 1>>) < size(r)
      BY <3>1, <3>3
    <3> HIDE DEF find, hits, R, size, lo, hi, mid
    <3> QED BY <2>5, <3>4
  <2>8. Look(find, a, r[1], r[2]) = hits[r]
    <3> HIDE DEF find, hits, R
    <3> QED BY <1>2, <2>4, <2>7
  <2> QED BY <2>4, <2>6, <2>8
<1>5. CODictFind(a) = find[<<1, n>>]
  BY DEF CODictFind
<1>6. <<1, n>> \in R
  BY <1>1
<1> QED
  <2> HIDE DEF find
  <2> QED BY <1>4, <1>5, <1>6
-----------------------------------------------------------------------------
(* Sums of widths.                                                         *)

Total(o, T) == MapThenSumSet(LAMBDA j : o[j].width, T)

\* What the sum takes next out of a set.
Pick(s) == CHOOSE x \in s : TRUE

\* The function that sums the subsets of T, one element at a time.
Summing(f, o, T) ==
  f = [s \in SUBSET T |-> IF s = {} THEN 0 ELSE o[Pick(s)].width + f[s \ {Pick(s)}]]

LEMMA SummingUnique ==
  ASSUME NEW o, NEW T, NEW U, NEW f, NEW g, Summing(f, o, T), Summing(g, o, U),
         NEW s, IsFiniteSet(s), s \subseteq T, s \subseteq U
  PROVE  f[s] = g[s]
<1> DEFINE C == {u \in SUBSET s : f[u] # g[u]}
<1> SUFFICES ASSUME C # {} PROVE FALSE
  OBVIOUS
<1>1. \A u \in C : IsFiniteSet(u)
  BY FS_Subset
<1>2. PICK u \in C : \A t \in C : t \subseteq u => t = u
  <2> HIDE DEF C
  <2> QED BY <1>1, LeastSet
<1>3. /\ f[u] = IF u = {} THEN 0 ELSE o[Pick(u)].width + f[u \ {Pick(u)}]
      /\ g[u] = IF u = {} THEN 0 ELSE o[Pick(u)].width + g[u \ {Pick(u)}]
  <2>1. u \in SUBSET T /\ u \in SUBSET U
    BY <1>2
  <2> QED BY <2>1 DEF Summing
<1>4. u # {}
  BY <1>2, <1>3
<1>5. Pick(u) \in u
  BY <1>4 DEF Pick
<1>6. f[u \ {Pick(u)}] = g[u \ {Pick(u)}]
  <2> DEFINE v == u \ {Pick(u)}
  <2>1. v \subseteq u /\ v # u /\ v \in SUBSET s
    BY <1>2, <1>5
  <2> HIDE DEF v
  <2>2. v \notin C
    BY <1>2, <2>1
  <2> QED BY <2>1, <2>2 DEF v
<1> QED BY <1>2, <1>3, <1>6

LEMMA SummingExists ==
  ASSUME NEW o, NEW T, IsFiniteSet(T)
  PROVE  \E f : Summing(f, o, T)
<1> DEFINE C == {s \in SUBSET T : ~\E f : Summing(f, o, s)}
<1> SUFFICES ASSUME C # {} PROVE FALSE
  OBVIOUS
<1>1. \A s \in C : IsFiniteSet(s)
  BY FS_Subset
<1>2. PICK s \in C : \A t \in C : t \subseteq s => t = s
  <2> HIDE DEF C
  <2> QED BY <1>1, LeastSet
<1> DEFINE F(t) == CHOOSE f : Summing(f, o, t)
           f == [u \in SUBSET s |-> IF u = {} THEN 0
                                     ELSE o[Pick(u)].width + F(u \ {Pick(u)})[u \ {Pick(u)}]]
<1>3. \A t \in SUBSET s : t # s => Summing(F(t), o, t)
  <2> SUFFICES ASSUME NEW t \in SUBSET s, t # s PROVE Summing(F(t), o, t)
    OBVIOUS
  <2>1. t \in SUBSET T /\ t \notin C
    BY <1>2
  <2>2. \E g : Summing(g, o, t)
    BY <2>1
  <2> QED BY <2>2
<1>4. ASSUME NEW u \in SUBSET s, u # {}
      PROVE  f[u \ {Pick(u)}] = F(u \ {Pick(u)})[u \ {Pick(u)}]
  <2> DEFINE v == u \ {Pick(u)}
             w == v \ {Pick(v)}
  <2>1. Pick(u) \in u
    BY <1>4 DEF Pick
  <2>2. v \in SUBSET s /\ v # s
    BY <2>1
  <2> HIDE DEF v
  <2>3. Summing(F(v), o, v)
    BY <1>3, <2>2
  <2>4. F(v)[v] = IF v = {} THEN 0 ELSE o[Pick(v)].width + F(v)[w]
    <3>1. v \in SUBSET v
      OBVIOUS
    <3> HIDE DEF F
    <3> QED BY <2>3, <3>1 DEF Summing
  <2>5. f[v] = IF v = {} THEN 0 ELSE o[Pick(v)].width + F(w)[w]
    <3> HIDE DEF F
    <3> QED BY <2>2
  <2>6. v # {} => F(v)[w] = F(w)[w]
    <3> SUFFICES ASSUME v # {} PROVE F(v)[w] = F(w)[w]
      OBVIOUS
    <3>1. Pick(v) \in v
      BY DEF Pick
    <3>2. w \in SUBSET s /\ w # s /\ w \subseteq v
      BY <2>2, <3>1
    <3>3. IsFiniteSet(w)
      <4>1. IsFiniteSet(s)
        BY <1>1, <1>2
      <4> HIDE DEF w
      <4> QED BY <3>2, <4>1, FS_Subset
    <3> HIDE DEF F, w
    <3>4. Summing(F(w), o, w)
      BY <1>3, <3>2
    <3> QED BY <2>3, <3>2, <3>3, <3>4, SummingUnique
  <2> HIDE DEF F, f
  <2>7. f[v] = F(v)[v]
    BY <2>4, <2>5, <2>6
  <2> QED BY <2>7 DEF v
<1>5. Summing(f, o, s)
  <2>1. f = [u \in SUBSET s |-> IF u = {} THEN 0 ELSE o[Pick(u)].width + f[u \ {Pick(u)}]]
    <3> HIDE DEF F
    <3>1. \A u \in SUBSET s : (IF u = {} THEN 0
                               ELSE o[Pick(u)].width + F(u \ {Pick(u)})[u \ {Pick(u)}])
                            = (IF u = {} THEN 0 ELSE o[Pick(u)].width + f[u \ {Pick(u)}])
      BY <1>4
    <3> QED BY <3>1
  <2> HIDE DEF f
  <2> QED BY <2>1 DEF Summing
<1> QED
  <2> HIDE DEF f
  <2> QED BY <1>2, <1>5
LEMMA TotalSums ==
  ASSUME NEW o, NEW T, IsFiniteSet(T)
  PROVE  \E f : Summing(f, o, T) /\ Total(o, T) = f[T]
<1> DEFINE h == CHOOSE f : f = [s \in SUBSET T |-> IF s = {} THEN 0
                                ELSE o[CHOOSE x \in s : TRUE].width + f[s \ {CHOOSE x \in s : TRUE}]]
<1>1. Total(o, T) = h[T]
  BY DEF Total, MapThenSumSet, MapThenFoldSet
<1>2. \E f : f = [s \in SUBSET T |-> IF s = {} THEN 0
                  ELSE o[CHOOSE x \in s : TRUE].width + f[s \ {CHOOSE x \in s : TRUE}]]
  <2>1. PICK f : Summing(f, o, T)
    BY SummingExists
  <2>2. f = [s \in SUBSET T |-> IF s = {} THEN 0
               ELSE o[CHOOSE x \in s : TRUE].width + f[s \ {CHOOSE x \in s : TRUE}]]
    BY <2>1 DEF Summing, Pick
  <2> HIDE DEF h
  <2> QED BY <2>2
<1>3. h = [s \in SUBSET T |-> IF s = {} THEN 0
             ELSE o[CHOOSE x \in s : TRUE].width + h[s \ {CHOOSE x \in s : TRUE}]]
  BY <1>2
<1>4. Summing(h, o, T)
  <2> HIDE DEF h
  <2> QED BY <1>3 DEF Summing, Pick
<1> QED
  <2> HIDE DEF h
  <2> QED BY <1>1, <1>4

LEMMA TotalPick ==
  ASSUME NEW o, NEW T, IsFiniteSet(T)
  PROVE  Total(o, T) = IF T = {} THEN 0 ELSE o[Pick(T)].width + Total(o, T \ {Pick(T)})
<1> DEFINE v == T \ {Pick(T)}
<1>1. PICK f : Summing(f, o, T) /\ Total(o, T) = f[T]
  BY TotalSums
<1>2. IsFiniteSet(v) /\ v \subseteq T /\ T \in SUBSET T
  BY FS_Subset
<1>3. f[T] = IF T = {} THEN 0 ELSE o[Pick(T)].width + f[v]
  BY <1>1, <1>2 DEF Summing
<1> HIDE DEF v
<1>4. PICK g : Summing(g, o, v) /\ Total(o, v) = g[v]
  BY <1>2, TotalSums
<1>5. f[v] = g[v]
  BY <1>1, <1>2, <1>4, SummingUnique
<1> QED BY <1>1, <1>3, <1>4, <1>5 DEF v

Widths(o, T) == IsFiniteSet(T) /\ \A j \in T : o[j].width \in Nat

LEMMA TotalType == ASSUME NEW o, NEW T, Widths(o, T) PROVE Total(o, T) \in Nat
<1> DEFINE C == {s \in SUBSET T : Total(o, s) \notin Nat}
<1> SUFFICES ASSUME C # {} PROVE FALSE
  OBVIOUS
<1>1. \A s \in C : IsFiniteSet(s)
  BY FS_Subset DEF Widths
<1>2. PICK s \in C : \A t \in C : t \subseteq s => t = s
  <2> HIDE DEF C
  <2> QED BY <1>1, LeastSet
<1>3. Total(o, s) = IF s = {} THEN 0 ELSE o[Pick(s)].width + Total(o, s \ {Pick(s)})
  BY <1>1, <1>2, TotalPick
<1>4. s # {}
  BY <1>2, <1>3
<1>5. Pick(s) \in s /\ o[Pick(s)].width \in Nat
  BY <1>2, <1>4 DEF Pick, Widths
<1>6. Total(o, s \ {Pick(s)}) \in Nat
  BY <1>2, <1>5
<1> QED BY <1>2, <1>3, <1>4, <1>5, <1>6

\* The order of a sum does not matter: any element may be taken out first.
LEMMA TotalRemove ==
  ASSUME NEW o, NEW T, Widths(o, T), NEW x \in T
  PROVE  Total(o, T) = o[x].width + Total(o, T \ {x})
<1> DEFINE C == {s \in SUBSET T : \E z \in s : Total(o, s) # o[z].width + Total(o, s \ {z})}
<1> SUFFICES ASSUME C # {} PROVE FALSE
  OBVIOUS
<1>1. \A s \in SUBSET T : Widths(o, s) /\ IsFiniteSet(s)
  BY FS_Subset DEF Widths
<1>2. PICK s \in C : \A t \in C : t \subseteq s => t = s
  <2>1. \A t \in C : IsFiniteSet(t)
    BY <1>1
  <2> HIDE DEF C
  <2> QED BY <2>1, LeastSet
<1>3. PICK z \in s : Total(o, s) # o[z].width + Total(o, s \ {z})
  BY <1>2
<1> DEFINE y == Pick(s)
<1>4. y \in s /\ Total(o, s) = o[y].width + Total(o, s \ {y})
  BY <1>1, <1>2, <1>3, TotalPick DEF Pick
<1> HIDE DEF y
<1>5. y # z
  BY <1>3, <1>4
<1>6. \A v \in SUBSET s, e \in s : v # s /\ e \in v => Total(o, v) = o[e].width + Total(o, v \ {e})
  BY <1>2
<1>7. Total(o, s \ {y}) = o[z].width + Total(o, (s \ {y}) \ {z})
  BY <1>4, <1>5, <1>6
<1>8. Total(o, s \ {z}) = o[y].width + Total(o, (s \ {z}) \ {y})
  BY <1>3, <1>4, <1>5, <1>6
<1>9. (s \ {z}) \ {y} = (s \ {y}) \ {z}
  OBVIOUS
<1>10. Total(o, (s \ {y}) \ {z}) \in Nat /\ o[y].width \in Nat /\ o[z].width \in Nat
  <2>1. (s \ {y}) \ {z} \in SUBSET T /\ y \in T /\ z \in T
    BY <1>2, <1>4
  <2>2. Widths(o, (s \ {y}) \ {z})
    BY <1>1, <2>1
  <2> QED BY <2>1, <2>2, TotalType DEF Widths
<1> QED BY <1>3, <1>4, <1>7, <1>8, <1>9, <1>10

\* The sum up to a position grows with the position by what is there.
LEMMA TotalGrows ==
  ASSUME NEW o, NEW S, NEW n \in Nat, S \subseteq Nat, \A j \in S : o[j].width \in Nat
  PROVE  /\ Total(o, S \cap 1..n) \in Nat
         /\ Total(o, S \cap 1..0) = 0
         /\ Total(o, S \cap 1..(n + 1)) =
              IF n + 1 \in S THEN Total(o, S \cap 1..n) + o[n + 1].width ELSE Total(o, S \cap 1..n)
<1>1. \A m \in Nat : Widths(o, S \cap 1..m)
  <2> TAKE m \in Nat
  <2>1. IsFiniteSet(1..m)
    BY FS_Interval
  <2>2. IsFiniteSet(S \cap 1..m)
    BY <2>1, FS_Subset
  <2> QED BY <2>2 DEF Widths
<1>2. Total(o, S \cap 1..n) \in Nat
  BY <1>1, TotalType
<1>3. Total(o, S \cap 1..0) = 0
  <2>1. S \cap 1..0 = {}
    OBVIOUS
  <2> QED BY <2>1, TotalPick, FS_EmptySet
<1>4. CASE n + 1 \in S
  <2>1. n + 1 \in S \cap 1..(n + 1) /\ (S \cap 1..(n + 1)) \ {n + 1} = S \cap 1..n
    BY <1>4
  <2>2. Total(o, S \cap 1..(n + 1)) = o[n + 1].width + Total(o, S \cap 1..n)
    <3>1. Widths(o, S \cap 1..(n + 1))
      BY <1>1
    <3> QED BY <2>1, <3>1, TotalRemove
  <2> QED BY <1>2, <1>3, <1>4, <2>2
<1>5. CASE n + 1 \notin S
  <2>1. S \cap 1..(n + 1) = S \cap 1..n
    BY <1>5
  <2> QED BY <1>2, <1>3, <1>5, <2>1
<1> QED BY <1>4, <1>5
-----------------------------------------------------------------------------
(* First fit.                                                              *)

\* Of the first p objects S has each for which there is room behind those before it
\* that are in S.
Chosen(o, S, p) ==
  /\ S \subseteq 1..p
  /\ \A i \in 1..p : i \in S <=> Total(o, S \cap 1..(i - 1)) + o[i].width <= 64

LEMMA ChosenNone == \A o : Chosen(o, {}, 0) /\ Total(o, {}) = 0 /\ Cardinality({}) = 0
<1>1. IsFiniteSet({}) /\ Cardinality({}) = 0
  BY FS_EmptySet
<1>2. \A o : Total(o, {}) = 0
  BY <1>1, TotalPick
<1>3. \A o : Chosen(o, {}, 0)
  BY DEF Chosen
<1> QED BY <1>1, <1>2, <1>3

LEMMA ChosenNext ==
  ASSUME NEW o, NEW p \in Nat, NEW S, Chosen(o, S, p), \A i \in 1..(p + 1) : o[i].width \in Nat
  PROVE  LET w == o[p + 1].width IN
         /\ Total(o, S) \in Nat
         /\ Total(o, S) + w <= 64 =>
              /\ Chosen(o, S \cup {p + 1}, p + 1)
              /\ Total(o, S \cup {p + 1}) = Total(o, S) + w
              /\ Cardinality(S \cup {p + 1}) = Cardinality(S) + 1
              /\ (S \cup {p + 1}) \cap 1..(p + 1) = S \cup {p + 1}
              /\ \A i \in S : (S \cup {p + 1}) \cap 1..i = S \cap 1..i
         /\ ~(Total(o, S) + w <= 64) => Chosen(o, S, p + 1)
<1> DEFINE w == o[p + 1].width
           R == S \cup {p + 1}
<1>1. S \subseteq 1..p /\ S \subseteq Nat /\ S \cap 1..p = S /\ p + 1 \notin S /\ w \in Nat
  <2>1. S \subseteq 1..p
    BY DEF Chosen
  <2>2. p + 1 \in 1..(p + 1) /\ p + 1 \notin 1..p
    OBVIOUS
  <2>3. w \in Nat
    BY <2>2
  <2>4. S \subseteq Nat
    BY <2>1
  <2>5. S \cap 1..p = S
    BY <2>1
  <2> HIDE DEF w
  <2> QED BY <2>1, <2>2, <2>3, <2>4, <2>5
<1>2. IsFiniteSet(S) /\ IsFiniteSet(R) /\ Cardinality(R) = Cardinality(S) + 1
  <2>1. IsFiniteSet(1..p)
    BY FS_Interval
  <2> QED BY <1>1, <2>1, FS_Subset, FS_AddElement
<1>3. Total(o, S) \in Nat
  <2>1. \A j \in S : o[j].width \in Nat
    BY <1>1
  <2> QED BY <1>2, <2>1, TotalType DEF Widths
<1>4. Total(o, R) = Total(o, S) + w
  <2>1. \A j \in R : o[j].width \in Nat
    BY <1>1
  <2>2. Widths(o, R) /\ p + 1 \in R /\ R \ {p + 1} = S
    BY <1>1, <1>2, <2>1 DEF Widths
  <2>3. Total(o, R) = w + Total(o, S)
    BY <2>2, TotalRemove
  <2> QED BY <1>1, <1>3, <2>3
<1>5. /\ R \cap 1..(p + 1) = R
      /\ \A i \in 0..p : R \cap 1..i = S \cap 1..i
      /\ \A i \in S : i \in 0..p
  BY <1>1
<1>6. \A i \in 1..p : i \in S <=> Total(o, S \cap 1..(i - 1)) + o[i].width <= 64
  BY DEF Chosen
<1>7. \A i \in 1..(p + 1) : i - 1 \in 0..p /\ (i \in 1..p \/ i = p + 1)
  OBVIOUS
<1>8. (p + 1) - 1 = p
  OBVIOUS
<1> HIDE DEF w
<1>9. ASSUME Total(o, S) + w <= 64 PROVE Chosen(o, R, p + 1)
  <2>1. R \subseteq 1..(p + 1)
    BY <1>1
  <2>2. ASSUME NEW i \in 1..p PROVE i \in R <=> Total(o, R \cap 1..(i - 1)) + o[i].width <= 64
    <3>1. R \cap 1..(i - 1) = S \cap 1..(i - 1) /\ (i \in R <=> i \in S)
      BY <1>5, <1>7
    <3> QED BY <1>6, <3>1
  <2>3. p + 1 \in R /\ Total(o, R \cap 1..((p + 1) - 1)) + o[p + 1].width <= 64
    <3>1. R \cap 1..((p + 1) - 1) = S
      BY <1>1, <1>5, <1>8
    <3> QED BY <1>9, <3>1 DEF w
  <2> HIDE DEF R
  <2> QED BY <1>7, <2>1, <2>2, <2>3 DEF Chosen
<1>10. ASSUME ~(Total(o, S) + w <= 64) PROVE Chosen(o, S, p + 1)
  <2>1. S \subseteq 1..(p + 1)
    BY <1>1
  <2>2. p + 1 \notin S /\ ~(Total(o, S \cap 1..((p + 1) - 1)) + o[p + 1].width <= 64)
    <3>1. S \cap 1..((p + 1) - 1) = S
      BY <1>1, <1>8
    <3> QED BY <1>1, <1>10, <3>1 DEF w
  <2> QED BY <1>6, <1>7, <2>1, <2>2 DEF Chosen
<1> HIDE DEF R
<1>11. \A i \in S : R \cap 1..i = S \cap 1..i
  BY <1>5
<1> QED BY <1>2, <1>3, <1>4, <1>5, <1>9, <1>10, <1>11 DEF w, R

\* When the 64 bits are used up, nothing that follows fits.
LEMMA ChosenFull ==
  ASSUME NEW o, NEW p \in Nat, NEW n \in Nat, NEW S, Chosen(o, S, p), p <= n,
         Total(o, S) = 64, \A i \in 1..n : o[i].width \in Nat /\ o[i].width >= 1
  PROVE  Chosen(o, S, n)
<1>1. S \subseteq 1..p /\ \A i \in 1..p : i \in S <=> Total(o, S \cap 1..(i - 1)) + o[i].width <= 64
  BY DEF Chosen
<1>2. S \subseteq 1..n
  BY <1>1
<1>3. ASSUME NEW i \in 1..n PROVE i \in S <=> Total(o, S \cap 1..(i - 1)) + o[i].width <= 64
  <2>1. CASE i \in 1..p
    BY <1>1, <2>1
  <2>2. CASE i \notin 1..p
    <3>1. i \notin S /\ S \cap 1..(i - 1) = S
      <4>1. i \in Nat /\ p < i
        BY <2>2
      <4>2. \A j \in 1..p : j \in 1..(i - 1)
        BY <4>1
      <4>3. S \subseteq 1..p
        BY <1>1
      <4> QED BY <2>2, <4>2, <4>3
    <3>2. o[i].width \in Nat /\ o[i].width >= 1
      OBVIOUS
    <3>3. ~(64 + o[i].width <= 64)
      BY <3>2
    <3> QED BY <3>1, <3>3
  <2> QED BY <2>1, <2>2
<1> QED BY <1>2, <1>3 DEF Chosen

\* A finite set of numbers has an n-th one for each n up to their number.
LEMMA Nth ==
  ASSUME NEW p \in Nat, NEW S, S \subseteq 1..p
  PROVE  /\ IsFiniteSet(S) /\ Cardinality(S) \in Nat
         /\ \A i \in S : Cardinality(S \cap 1..i) \in 1..Cardinality(S)
         /\ \A n \in 1..Cardinality(S) : \E i \in S : Cardinality(S \cap 1..i) = n
<1> DEFINE key == [i \in S |-> i]
<1>1. IsFiniteSet(S) /\ Cardinality(S) \in Nat
  <2>1. IsFiniteSet(1..p)
    BY FS_Interval
  <2> QED BY <2>1, FS_Subset, FS_CardinalityType
<1>2. key \in [S -> Nat] /\ \A d, e \in S : key[d] = key[e] => d = e
  OBVIOUS
<1>3. ASSUME NEW i \in S PROVE Cardinality(S \cap 1..i) = Rank(S, key, i) + 1
  <2> DEFINE T == {d \in S : key[d] < key[i]}
  <2>1. T \subseteq S /\ i \notin T /\ S \cap 1..i = T \cup {i}
    <3>1. \A d \in S : d \in Nat /\ d >= 1
      OBVIOUS
    <3>2. T = {d \in S : d < i}
      OBVIOUS
    <3> HIDE DEF T, key
    <3>3. \A d \in S : d \in 1..i <=> d < i \/ d = i
      BY <3>1
    <3>4. \A d \in S : d \in 1..i <=> d \in T \cup {i}
      BY <3>2, <3>3
    <3>5. i \notin T /\ T \subseteq S
      BY <3>1, <3>2
    <3> QED BY <3>4, <3>5
  <2>2. IsFiniteSet(T)
    BY <1>1, <2>1, FS_Subset
  <2>3. Cardinality(T \cup {i}) = Cardinality(T) + 1
    BY <2>1, <2>2, FS_AddElement
  <2> QED BY <2>1, <2>3 DEF Rank
<1> HIDE DEF key
<1>4. /\ \A i \in S : Rank(S, key, i) \in 0..(Cardinality(S) - 1)
      /\ \A n \in 0..(Cardinality(S) - 1) : \E i \in S : Rank(S, key, i) = n
  BY <1>1, <1>2, Ranking
<1>5. \A i \in S : Cardinality(S \cap 1..i) \in 1..Cardinality(S)
  BY <1>1, <1>3, <1>4
<1>6. ASSUME NEW n \in 1..Cardinality(S) PROVE \E i \in S : Cardinality(S \cap 1..i) = n
  <2>1. n - 1 \in 0..(Cardinality(S) - 1)
    BY <1>1
  <2>2. PICK i \in S : Rank(S, key, i) = n - 1
    BY <1>4, <2>1
  <2>3. Cardinality(S \cap 1..i) = n
    BY <1>3, <2>2
  <2> QED BY <2>3
<1> QED BY <1>1, <1>5, <1>6

-----------------------------------------------------------------------------
(* The calls AllocateObjects() makes.                                      *)

\* A value at subindex 0 of the indices of mappings is the size of one.
ObjectCall ==
  {c \in [do : {"object"}, addr : Address, direct : BOOLEAN, pdo : BOOLEAN, data : Nat] :
     c.direct => c.addr.sub # 0 \/ c.addr.index < \h1A00}
MappingCall == [do : {"mapping"}, num : Nat, objects : Seq(Mappable)]
AnyCall == ObjectCall \cup MappingCall

LEMMA AddressType == \A i, n \in Nat : ObjectAddress(i, n) \in Address
BY DEF ObjectAddress, Address, Byte

LEMMA Stores == \A a \in Address : Stored(a) \in AnyCall /\ Data(a) \in AnyCall
BY DEF Stored, Data, Call, AnyCall, ObjectCall

LEMMA Values ==
  \A a \in Address, n \in Nat :
    a.sub # 0 \/ a.index < \h1A00 => Direct(a, n) \in AnyCall
BY DEF Direct, Call, AnyCall, ObjectCall

LEMMA TPDOCalls ==
  ASSUME NEW n \in Nat, NEW o \in Seq(Mappable)
  PROVE  DefineTPDO(n, o) \in Seq(AnyCall)
<1>1. Clamp(n, 511) \in 0..511
  BY DEF Clamp
<1>2. \A k \in 0..5 : /\ Std_TPDOComm(n, k) \in Address
                      /\ Std_TPDOComm(n, k).index < \h1A00
  <2>1. \A k \in 0..5 : k % Byte = k
    BY DEF Byte
  <2>2. \A k \in 0..5 : Std_TPDOComm(n, k) = [index |-> \h1800 + Clamp(n, 511), sub |-> k]
    BY <2>1 DEF Std_TPDOComm, ObjectAddress
  <2>3. \h1800 + Clamp(n, 511) \in Nat /\ \h1800 + Clamp(n, 511) < \h1A00
    <3> DEFINE c == Clamp(n, 511)
    <3>1. c \in 0..511
      BY <1>1
    <3> HIDE DEF c
    <3>2. \h1800 + c \in Nat /\ \h1800 + c < \h1A00
      BY <3>1
    <3> QED BY <3>2 DEF c
  <2>4. \A k \in 0..5 : k \in 0..(Byte - 1)
    BY DEF Byte
  <2> QED BY <2>2, <2>3, <2>4 DEF Address
<1>3. \A k \in 0..5, d \in Nat : Direct(Std_TPDOComm(n, k), d) \in AnyCall
  BY <1>2, Values
<1>4. [do |-> "mapping", num |-> n, objects |-> o] \in AnyCall
  BY DEF AnyCall, MappingCall
<1>5. /\ Direct(Std_TPDOComm(n, 0), 5) \in AnyCall
      /\ Direct(Std_TPDOComm(n, 1), 0) \in AnyCall
      /\ Direct(Std_TPDOComm(n, 2), \hFE) \in AnyCall
      /\ Direct(Std_TPDOComm(n, 3), 50) \in AnyCall
      /\ Direct(Std_TPDOComm(n, 5), 250) \in AnyCall
  BY <1>3
<1> QED
  BY <1>4, <1>5 DEF DefineTPDO

\* The parts AllocateObjects() is put together from.
Mandatory == <<Stored(ObjectAddress(\h1000, 0)), Stored(ObjectAddress(\h1001, 0)),
               Stored(ObjectAddress(\h1017, 0)), Direct(ObjectAddress(\h1018, 0), 4)>>
Identity == [i \in 1..4 |-> Stored(ObjectAddress(\h1018, i))]
Server == <<Direct(Std_SDOServer(0, 0), 2), Stored(Std_SDOServer(0, 1)),
            Stored(Std_SDOServer(0, 2))>>
Application == <<Data(App_Data1), Data(App_Data2), Data(App_Data3)>>

LEMMA PartsType ==
  /\ Mandatory \in Seq(AnyCall) /\ Identity \in Seq(AnyCall)
  /\ Server \in Seq(AnyCall) /\ Application \in Seq(AnyCall)
<1>1. Mandatory \in Seq(AnyCall)
  <2>1. /\ ObjectAddress(\h1000, 0) \in Address /\ ObjectAddress(\h1001, 0) \in Address
        /\ ObjectAddress(\h1017, 0) \in Address /\ ObjectAddress(\h1018, 0) \in Address
        /\ ObjectAddress(\h1018, 0).index < \h1A00
    BY AddressType DEF ObjectAddress
  <2>2. /\ Stored(ObjectAddress(\h1000, 0)) \in AnyCall
        /\ Stored(ObjectAddress(\h1001, 0)) \in AnyCall
        /\ Stored(ObjectAddress(\h1017, 0)) \in AnyCall
        /\ Direct(ObjectAddress(\h1018, 0), 4) \in AnyCall
    BY <2>1, Stores, Values
  <2> QED BY <2>2 DEF Mandatory
<1>2. Identity \in Seq(AnyCall)
  <2>1. \A i \in 1..4 : Stored(ObjectAddress(\h1018, i)) \in AnyCall
    BY AddressType, Stores
  <2> QED BY <2>1 DEF Identity
<1>3. Server \in Seq(AnyCall)
  <2>1. \A k \in 0..2 : /\ Std_SDOServer(0, k) \in Address
                        /\ Std_SDOServer(0, k).index < \h1A00
    BY DEF Std_SDOServer, ObjectAddress, Address, Byte, Clamp
  <2>2. /\ Direct(Std_SDOServer(0, 0), 2) \in AnyCall /\ Stored(Std_SDOServer(0, 1)) \in AnyCall
        /\ Stored(Std_SDOServer(0, 2)) \in AnyCall
    BY <2>1, Stores, Values
  <2> QED BY <2>2 DEF Server
<1>4. Application \in Seq(AnyCall)
  <2>1. App_Data1 \in Address /\ App_Data2 \in Address /\ App_Data3 \in Address
    BY AddressType DEF App_Data1, App_Data2, App_Data3
  <2>2. Data(App_Data1) \in AnyCall /\ Data(App_Data2) \in AnyCall /\ Data(App_Data3) \in AnyCall
    BY <2>1, Stores
  <2> QED BY <2>2 DEF Application
<1> QED BY <1>1, <1>2, <1>3, <1>4

\* Where in AllocateObjects() an address is claimed.
First == Clamp(Numbers[1], 511)
Second == Clamp(Numbers[2], 511)
Comm1 == \h1800 + First
Comm2 == \h1800 + Second
Map1 == \h1A00 + First
Map2 == \h1A00 + Second
PlaceIs(addr, i) ==
  \/ addr.index = \h1000 /\ i = 1
  \/ addr.index = \h1001 /\ i = 2
  \/ addr.index = \h1017 /\ i = 3
  \/ addr.index = \h1018 /\ i = 4 + addr.sub
  \/ addr.index = \h1200 /\ i = 9 + addr.sub
  \/ addr.index = Comm1 /\ i = IF addr.sub = 5 THEN 16 ELSE 12 + addr.sub
  \/ addr.index = Map1 /\ i = 17
  \/ addr.index = Comm2 /\ i = IF addr.sub = 5 THEN 22 ELSE 18 + addr.sub
  \/ addr.index = Map2 /\ i = 23
  \/ addr.index = \h2000 /\ i = 24
  \/ addr.index = \h2002 /\ i = 25
  \/ addr.index = \h2010 /\ i = 26

At(index, sub) == [index |-> index, sub |-> sub]
MappingOf(num, objects) == [do |-> "mapping", num |-> num, objects |-> objects]

LEMMA Numbered == First \in 0..511 /\ Second \in 0..511 /\ First # Second
BY NumberAssumption DEF First, Second, Clamp

\* The indices of the TPDOs are numbers of their own.
LEMMA IndicesDiffer ==
  /\ Comm1 \in Nat /\ Comm2 \in Nat /\ Map1 \in Nat /\ Map2 \in Nat
  /\ Comm1 \in \h1800..\h19FF /\ Comm2 \in \h1800..\h19FF /\ Comm1 # Comm2
  /\ Map1 \in \h1A00..\h1BFF /\ Map2 \in \h1A00..\h1BFF /\ Map1 # Map2
<1>1. First \in 0..511 /\ Second \in 0..511 /\ First # Second
  BY Numbered
<1> HIDE DEF First, Second
<1> QED BY <1>1 DEF Comm1, Comm2, Map1, Map2

\* The calls one by one.
Layout(s, t) ==
  /\ s \in Seq(AnyCall) /\ Len(s) = 26
  /\ s[1] = Stored(At(\h1000, 0)) /\ s[2] = Stored(At(\h1001, 0)) /\ s[3] = Stored(At(\h1017, 0))
  /\ s[4] = Direct(At(\h1018, 0), 4)
  /\ s[5] = Stored(At(\h1018, 1)) /\ s[6] = Stored(At(\h1018, 2))
  /\ s[7] = Stored(At(\h1018, 3)) /\ s[8] = Stored(At(\h1018, 4))
  /\ s[9] = Direct(At(\h1200, 0), 2)
  /\ s[10] = Stored(At(\h1200, 1)) /\ s[11] = Stored(At(\h1200, 2))
  /\ s[12] = Direct(At(Comm1, 0), 5) /\ s[13] = Direct(At(Comm1, 1), 0)
  /\ s[14] = Direct(At(Comm1, 2), \hFE) /\ s[15] = Direct(At(Comm1, 3), 50)
  /\ s[16] = Direct(At(Comm1, 5), 250)
  /\ s[17] = MappingOf(Numbers[1], t[1])
  /\ s[18] = Direct(At(Comm2, 0), 5) /\ s[19] = Direct(At(Comm2, 1), 0)
  /\ s[20] = Direct(At(Comm2, 2), \hFE) /\ s[21] = Direct(At(Comm2, 3), 50)
  /\ s[22] = Direct(At(Comm2, 5), 250)
  /\ s[23] = MappingOf(Numbers[2], t[2])
  /\ s[24] = Data(At(\h2000, 0)) /\ s[25] = Data(At(\h2002, 0)) /\ s[26] = Data(At(\h2010, 0))

\* What the parts consist of.
LEMMA Smalls == \A x \in Nat, k \in 0..5 : ObjectAddress(x, k) = At(x, k)
<1>1. \A k \in 0..5 : k % Byte = k
  BY DEF Byte
<1> QED BY <1>1 DEF ObjectAddress, At

LEMMA PartsListed ==
  /\ Len(Mandatory) = 4
  /\ Mandatory[1] = Stored(At(\h1000, 0)) /\ Mandatory[2] = Stored(At(\h1001, 0))
  /\ Mandatory[3] = Stored(At(\h1017, 0)) /\ Mandatory[4] = Direct(At(\h1018, 0), 4)
  /\ Len(Identity) = 4 /\ \A i \in 1..4 : Identity[i] = Stored(At(\h1018, i))
  /\ Len(Server) = 3
  /\ Server[1] = Direct(At(\h1200, 0), 2)
  /\ Server[2] = Stored(At(\h1200, 1)) /\ Server[3] = Stored(At(\h1200, 2))
  /\ Len(Application) = 3
  /\ Application[1] = Data(At(\h2000, 0)) /\ Application[2] = Data(At(\h2002, 0))
  /\ Application[3] = Data(At(\h2010, 0))
<1>1. /\ Len(Mandatory) = 4
      /\ Mandatory[1] = Stored(At(\h1000, 0)) /\ Mandatory[2] = Stored(At(\h1001, 0))
      /\ Mandatory[3] = Stored(At(\h1017, 0)) /\ Mandatory[4] = Direct(At(\h1018, 0), 4)
  BY Smalls DEF Mandatory
<1>2. Len(Identity) = 4 /\ \A i \in 1..4 : Identity[i] = Stored(At(\h1018, i))
  BY Smalls DEF Identity
<1>3. /\ Len(Server) = 3 /\ Server[1] = Direct(At(\h1200, 0), 2)
      /\ Server[2] = Stored(At(\h1200, 1)) /\ Server[3] = Stored(At(\h1200, 2))
  <2>1. \A k \in 0..2 : Std_SDOServer(0, k) = At(\h1200, k)
    BY Smalls DEF Std_SDOServer, Clamp
  <2> QED BY <2>1 DEF Server
<1>4. /\ Len(Application) = 3
      /\ Application[1] = Data(At(\h2000, 0)) /\ Application[2] = Data(At(\h2002, 0))
      /\ Application[3] = Data(At(\h2010, 0))
  BY Smalls DEF Application, App_Data1, App_Data2, App_Data3
<1> QED BY <1>1, <1>2, <1>3, <1>4

\* What DefineTPDO() calls for, on the c-th of the indices there are for TPDOs.
Listed(p, n, o, c) ==
  /\ p \in Seq(AnyCall) /\ Len(p) = 6
  /\ p[1] = Direct(At(\h1800 + c, 0), 5) /\ p[2] = Direct(At(\h1800 + c, 1), 0)
  /\ p[3] = Direct(At(\h1800 + c, 2), \hFE) /\ p[4] = Direct(At(\h1800 + c, 3), 50)
  /\ p[5] = Direct(At(\h1800 + c, 5), 250) /\ p[6] = MappingOf(n, o)

LEMMA TPDOListed ==
  ASSUME NEW n \in Nat, NEW o \in Seq(Mappable), Clamp(n, 511) \in 0..511
  PROVE  Listed(DefineTPDO(n, o), n, o, Clamp(n, 511))
<1> DEFINE c == Clamp(n, 511)
           p == DefineTPDO(n, o)
<1>1. \A k \in 0..5 : Std_TPDOComm(n, k) = At(\h1800 + c, k)
  <2>1. c \in 0..511
    OBVIOUS
  <2>2. \A k \in 0..5 : Std_TPDOComm(n, k) = ObjectAddress(\h1800 + c, k)
    BY DEF Std_TPDOComm
  <2> HIDE DEF c
  <2>3. \h1800 + c \in Nat
    BY <2>1
  <2> QED BY <2>2, <2>3, Smalls
<1>2. p = <<Direct(Std_TPDOComm(n, 0), 5), Direct(Std_TPDOComm(n, 1), 0),
            Direct(Std_TPDOComm(n, 2), \hFE), Direct(Std_TPDOComm(n, 3), 50),
            Direct(Std_TPDOComm(n, 5), 250), MappingOf(n, o)>>
  BY DEF DefineTPDO, MappingOf
<1>3. p \in Seq(AnyCall)
  BY TPDOCalls
<1> HIDE DEF c, p
<1>4. p = <<Direct(At(\h1800 + c, 0), 5), Direct(At(\h1800 + c, 1), 0),
            Direct(At(\h1800 + c, 2), \hFE), Direct(At(\h1800 + c, 3), 50),
            Direct(At(\h1800 + c, 5), 250), MappingOf(n, o)>>
  BY <1>1, <1>2
<1>5. Listed(p, n, o, c)
  BY <1>3, <1>4 DEF Listed
<1> QED BY <1>5 DEF c, p

\* One list of calls after another.
Follows(r, s, u) ==
  /\ r \in Seq(AnyCall) /\ Len(r) = Len(s) + Len(u)
  /\ \A i \in 1..Len(s) : r[i] = s[i]
  /\ \A i \in 1..Len(u) : r[Len(s) + i] = u[i]

LEMMA Joined == \A s, u \in Seq(AnyCall) : Follows(s \o u, s, u)
BY DEF Follows

LEMMA CallsLaidOut == ASSUME NEW t \in Tables PROVE Layout(AllocateObjects(t), t)
<1> DEFINE p4 == DefineTPDO(Numbers[1], t[1])
           p5 == DefineTPDO(Numbers[2], t[2])
           s2 == Mandatory \o Identity
           s3 == s2 \o Server
           s4 == s3 \o p4
           s5 == s4 \o p5
           s6 == s5 \o Application
<1>4. s6 = AllocateObjects(t)
  BY DEF AllocateObjects, Mandatory, Identity, Server, Application
<1> HIDE DEF p4, p5, s2, s3, s4, s5, s6
<1>1. /\ Numbers[1] \in Nat /\ Numbers[2] \in Nat
      /\ t[1] \in Seq(Mappable) /\ t[2] \in Seq(Mappable)
  BY NumberAssumption, TableAssumption
<1>2. Listed(p4, Numbers[1], t[1], First)
  <2>1. Clamp(Numbers[1], 511) = First /\ First \in 0..511
    BY Numbered DEF First
  <2>2. Listed(p4, Numbers[1], t[1], Clamp(Numbers[1], 511))
    BY <1>1, <2>1, TPDOListed DEF p4
  <2> QED BY <2>1, <2>2
<1>3. Listed(p5, Numbers[2], t[2], Second)
  <2>1. Clamp(Numbers[2], 511) = Second /\ Second \in 0..511
    BY Numbered DEF Second
  <2>2. Listed(p5, Numbers[2], t[2], Clamp(Numbers[2], 511))
    BY <1>1, <2>1, TPDOListed DEF p5
  <2> QED BY <2>1, <2>2
<1>5. /\ s2 \in Seq(AnyCall) /\ Len(s2) = 4 + 4
      /\ \A i \in 1..4 : s2[i] = Mandatory[i]
      /\ \A i \in 1..4 : s2[4 + i] = Identity[i]
  <2>1. Mandatory \in Seq(AnyCall) /\ Identity \in Seq(AnyCall) /\ Len(Mandatory) = 4
        /\ Len(Identity) = 4
    BY PartsType, PartsListed
  <2>2. Follows(s2, Mandatory, Identity)
    BY <2>1, Joined DEF s2
  <2> QED BY ONLY <2>1, <2>2 DEF Follows
<1>6. /\ s3 \in Seq(AnyCall) /\ Len(s3) = 8 + 3
      /\ \A i \in 1..8 : s3[i] = s2[i]
      /\ \A i \in 1..3 : s3[8 + i] = Server[i]
  <2>1. Server \in Seq(AnyCall) /\ Len(Server) = 3 /\ s2 \in Seq(AnyCall) /\ Len(s2) = 8
    BY <1>5, PartsType, PartsListed
  <2>2. Follows(s3, s2, Server)
    BY <2>1, Joined DEF s3
  <2> QED BY ONLY <2>1, <2>2 DEF Follows
<1>7. /\ s4 \in Seq(AnyCall) /\ Len(s4) = 11 + 6
      /\ \A i \in 1..11 : s4[i] = s3[i]
      /\ \A i \in 1..6 : s4[11 + i] = p4[i]
  <2>1. p4 \in Seq(AnyCall) /\ Len(p4) = 6 /\ s3 \in Seq(AnyCall) /\ Len(s3) = 11
    BY <1>2, <1>6 DEF Listed
  <2>2. Follows(s4, s3, p4)
    BY <2>1, Joined DEF s4
  <2> QED BY ONLY <2>1, <2>2 DEF Follows
<1>8. /\ s5 \in Seq(AnyCall) /\ Len(s5) = 17 + 6
      /\ \A i \in 1..17 : s5[i] = s4[i]
      /\ \A i \in 1..6 : s5[17 + i] = p5[i]
  <2>1. p5 \in Seq(AnyCall) /\ Len(p5) = 6 /\ s4 \in Seq(AnyCall) /\ Len(s4) = 17
    BY <1>3, <1>7 DEF Listed
  <2>2. Follows(s5, s4, p5)
    BY <2>1, Joined DEF s5
  <2> QED BY ONLY <2>1, <2>2 DEF Follows
<1>9. /\ s6 \in Seq(AnyCall) /\ Len(s6) = 23 + 3
      /\ \A i \in 1..23 : s6[i] = s5[i]
      /\ \A i \in 1..3 : s6[23 + i] = Application[i]
  <2>1. Application \in Seq(AnyCall) /\ Len(Application) = 3 /\ s5 \in Seq(AnyCall) /\ Len(s5) = 23
    BY <1>8, PartsType, PartsListed
  <2>2. Follows(s6, s5, Application)
    BY <2>1, Joined DEF s6
  <2> QED BY ONLY <2>1, <2>2 DEF Follows
<1>10. /\ s6[1] = s2[1] /\ s6[2] = s2[2] /\ s6[3] = s2[3] /\ s6[4] = s2[4]
       /\ s6[5] = s2[5] /\ s6[6] = s2[6] /\ s6[7] = s2[7] /\ s6[8] = s2[8]
       /\ s6[9] = s3[9] /\ s6[10] = s3[10] /\ s6[11] = s3[11]
       /\ s6[12] = s4[12] /\ s6[13] = s4[13] /\ s6[14] = s4[14] /\ s6[15] = s4[15]
       /\ s6[16] = s4[16] /\ s6[17] = s4[17]
       /\ s6[18] = s5[18] /\ s6[19] = s5[19] /\ s6[20] = s5[20] /\ s6[21] = s5[21]
       /\ s6[22] = s5[22] /\ s6[23] = s5[23]
  <2>1. \A i \in 1..23 : s6[i] = s5[i]
    BY ONLY <1>9
  <2>2. \A i \in 1..17 : s6[i] = s4[i]
    <3>1. \A i \in 1..17 : s5[i] = s4[i]
      BY ONLY <1>8
    <3>2. \A i \in 1..17 : i \in 1..23
      OBVIOUS
    <3> QED BY ONLY <2>1, <3>1, <3>2
  <2>3. \A i \in 1..11 : s6[i] = s3[i]
    <3>1. \A i \in 1..11 : s4[i] = s3[i]
      BY ONLY <1>7
    <3>2. \A i \in 1..11 : i \in 1..17
      OBVIOUS
    <3> QED BY ONLY <2>2, <3>1, <3>2
  <2>4. \A i \in 1..8 : s6[i] = s2[i]
    <3>1. \A i \in 1..8 : s3[i] = s2[i]
      BY ONLY <1>6
    <3>2. \A i \in 1..8 : i \in 1..11
      OBVIOUS
    <3> QED BY ONLY <2>3, <3>1, <3>2
  <2>5. /\ s6[1] = s2[1] /\ s6[2] = s2[2] /\ s6[3] = s2[3] /\ s6[4] = s2[4]
        /\ s6[5] = s2[5] /\ s6[6] = s2[6] /\ s6[7] = s2[7] /\ s6[8] = s2[8]
    BY ONLY <2>4
  <2>6. s6[9] = s3[9] /\ s6[10] = s3[10] /\ s6[11] = s3[11]
    BY ONLY <2>3
  <2>7. /\ s6[12] = s4[12] /\ s6[13] = s4[13] /\ s6[14] = s4[14] /\ s6[15] = s4[15]
        /\ s6[16] = s4[16] /\ s6[17] = s4[17]
    BY ONLY <2>2
  <2>8. /\ s6[18] = s5[18] /\ s6[19] = s5[19] /\ s6[20] = s5[20] /\ s6[21] = s5[21]
        /\ s6[22] = s5[22] /\ s6[23] = s5[23]
    BY ONLY <2>1
  <2> QED BY ONLY <2>5, <2>6, <2>7, <2>8
<1>13. /\ s2[5] = Identity[1] /\ s2[6] = Identity[2] /\ s2[7] = Identity[3] /\ s2[8] = Identity[4]
  BY ONLY <1>5
<1>14. s3[9] = Server[1] /\ s3[10] = Server[2] /\ s3[11] = Server[3]
  BY ONLY <1>6
<1>15. /\ s4[12] = p4[1] /\ s4[13] = p4[2] /\ s4[14] = p4[3] /\ s4[15] = p4[4] /\ s4[16] = p4[5]
       /\ s4[17] = p4[6]
  BY ONLY <1>7
<1>16. /\ s5[18] = p5[1] /\ s5[19] = p5[2] /\ s5[20] = p5[3] /\ s5[21] = p5[4] /\ s5[22] = p5[5]
       /\ s5[23] = p5[6]
  BY ONLY <1>8
<1>17. s6[24] = Application[1] /\ s6[25] = Application[2] /\ s6[26] = Application[3]
  BY ONLY <1>9
<1>11. /\ s6[1] = Mandatory[1] /\ s6[2] = Mandatory[2] /\ s6[3] = Mandatory[3] /\ s6[4] = Mandatory[4]
       /\ s6[5] = Identity[1] /\ s6[6] = Identity[2] /\ s6[7] = Identity[3] /\ s6[8] = Identity[4]
       /\ s6[9] = Server[1] /\ s6[10] = Server[2] /\ s6[11] = Server[3]
       /\ s6[12] = p4[1] /\ s6[13] = p4[2] /\ s6[14] = p4[3] /\ s6[15] = p4[4] /\ s6[16] = p4[5]
       /\ s6[17] = p4[6]
       /\ s6[18] = p5[1] /\ s6[19] = p5[2] /\ s6[20] = p5[3] /\ s6[21] = p5[4] /\ s6[22] = p5[5]
       /\ s6[23] = p5[6]
       /\ s6[24] = Application[1] /\ s6[25] = Application[2] /\ s6[26] = Application[3]
  BY ONLY <1>5, <1>10, <1>13, <1>14, <1>15, <1>16, <1>17
<1>12. Layout(s6, t)
  BY ONLY <1>2, <1>3, <1>9, <1>11, PartsListed DEF Layout, Listed, Comm1, Comm2
<1> QED BY <1>4, <1>12

-----------------------------------------------------------------------------
(* The addresses the calls claim.                                          *)

MappingIndex(num) == \h1A00 + Clamp(num, 511)

\* A TPDO has at most 64 objects, each of a bit or more.
Claims(c) ==
  IF c.do = "mapping" THEN {At(MappingIndex(c.num), k) : k \in 0..64} ELSE {c.addr}

\* The highest subindex of an index that is not that of a mapping.
Highest(index) ==
  IF index = \h1018 THEN 4
  ELSE IF index = \h1200 THEN 2
  ELSE IF index \in {Comm1, Comm2} THEN 5 ELSE 0

\* The address is claimed in one place only, and not beyond the highest subindex.
Proper(addr, i) ==
  /\ PlaceIs(addr, i)
  /\ i \notin {17, 23} => /\ addr.sub <= Highest(addr.index)
                          /\ addr.index # Map1 /\ addr.index # Map2

LEMMA ObjectClaims ==
  \A a, n : /\ Claims(Stored(a)) = {a} /\ Claims(Direct(a, n)) = {a} /\ Claims(Data(a)) = {a}
BY DEF Claims, Stored, Direct, Data, Call

\* Each address that is claimed by itself.
LEMMA ProperObjects ==
  /\ Proper(At(\h1000, 0), 1)
  /\ Proper(At(\h1001, 0), 2)
  /\ Proper(At(\h1017, 0), 3)
  /\ Proper(At(\h1018, 0), 4)
  /\ Proper(At(\h1018, 1), 5)
  /\ Proper(At(\h1018, 2), 6)
  /\ Proper(At(\h1018, 3), 7)
  /\ Proper(At(\h1018, 4), 8)
  /\ Proper(At(\h1200, 0), 9)
  /\ Proper(At(\h1200, 1), 10)
  /\ Proper(At(\h1200, 2), 11)
  /\ Proper(At(Comm1, 0), 12)
  /\ Proper(At(Comm1, 1), 13)
  /\ Proper(At(Comm1, 2), 14)
  /\ Proper(At(Comm1, 3), 15)
  /\ Proper(At(Comm1, 5), 16)
  /\ Proper(At(Comm2, 0), 18)
  /\ Proper(At(Comm2, 1), 19)
  /\ Proper(At(Comm2, 2), 20)
  /\ Proper(At(Comm2, 3), 21)
  /\ Proper(At(Comm2, 5), 22)
  /\ Proper(At(\h2000, 0), 24)
  /\ Proper(At(\h2002, 0), 25)
  /\ Proper(At(\h2010, 0), 26)
<1>1. /\ Comm1 \in Nat /\ Comm2 \in Nat /\ Map1 \in Nat /\ Map2 \in Nat
      /\ Comm1 \in \h1800..\h19FF /\ Comm2 \in \h1800..\h19FF /\ Comm1 # Comm2
      /\ Map1 \in \h1A00..\h1BFF /\ Map2 \in \h1A00..\h1BFF /\ Map1 # Map2
  BY IndicesDiffer
<1>2. Proper(At(\h1000, 0), 1)
  BY <1>1 DEF Proper, PlaceIs, Highest, At
<1>3. Proper(At(\h1001, 0), 2)
  BY <1>1 DEF Proper, PlaceIs, Highest, At
<1>4. Proper(At(\h1017, 0), 3)
  BY <1>1 DEF Proper, PlaceIs, Highest, At
<1>5. Proper(At(\h1018, 0), 4)
  BY <1>1 DEF Proper, PlaceIs, Highest, At
<1>6. Proper(At(\h1018, 1), 5)
  BY <1>1 DEF Proper, PlaceIs, Highest, At
<1>7. Proper(At(\h1018, 2), 6)
  BY <1>1 DEF Proper, PlaceIs, Highest, At
<1>8. Proper(At(\h1018, 3), 7)
  BY <1>1 DEF Proper, PlaceIs, Highest, At
<1>9. Proper(At(\h1018, 4), 8)
  BY <1>1 DEF Proper, PlaceIs, Highest, At
<1>10. Proper(At(\h1200, 0), 9)
  BY <1>1 DEF Proper, PlaceIs, Highest, At
<1>11. Proper(At(\h1200, 1), 10)
  BY <1>1 DEF Proper, PlaceIs, Highest, At
<1>12. Proper(At(\h1200, 2), 11)
  BY <1>1 DEF Proper, PlaceIs, Highest, At
<1>13. Proper(At(Comm1, 0), 12)
  BY <1>1 DEF Proper, PlaceIs, Highest, At
<1>14. Proper(At(Comm1, 1), 13)
  BY <1>1 DEF Proper, PlaceIs, Highest, At
<1>15. Proper(At(Comm1, 2), 14)
  BY <1>1 DEF Proper, PlaceIs, Highest, At
<1>16. Proper(At(Comm1, 3), 15)
  BY <1>1 DEF Proper, PlaceIs, Highest, At
<1>17. Proper(At(Comm1, 5), 16)
  BY <1>1 DEF Proper, PlaceIs, Highest, At
<1>19. Proper(At(Comm2, 0), 18)
  BY <1>1 DEF Proper, PlaceIs, Highest, At
<1>20. Proper(At(Comm2, 1), 19)
  BY <1>1 DEF Proper, PlaceIs, Highest, At
<1>21. Proper(At(Comm2, 2), 20)
  BY <1>1 DEF Proper, PlaceIs, Highest, At
<1>22. Proper(At(Comm2, 3), 21)
  BY <1>1 DEF Proper, PlaceIs, Highest, At
<1>23. Proper(At(Comm2, 5), 22)
  BY <1>1 DEF Proper, PlaceIs, Highest, At
<1>25. Proper(At(\h2000, 0), 24)
  BY <1>1 DEF Proper, PlaceIs, Highest, At
<1>26. Proper(At(\h2002, 0), 25)
  BY <1>1 DEF Proper, PlaceIs, Highest, At
<1>27. Proper(At(\h2010, 0), 26)
  BY <1>1 DEF Proper, PlaceIs, Highest, At
<1> QED BY <1>2, <1>3, <1>4, <1>5, <1>6, <1>7, <1>8, <1>9, <1>10, <1>11, <1>12, <1>13, <1>14,
           <1>15, <1>16, <1>17, <1>19, <1>20, <1>21, <1>22, <1>23, <1>25, <1>26, <1>27

\* No address is claimed in two places.
LEMMA OnePlace ==
  ASSUME NEW addr, NEW i, NEW j, PlaceIs(addr, i), PlaceIs(addr, j)
  PROVE  i = j
<1>1. /\ Comm1 \in Nat /\ Comm2 \in Nat /\ Map1 \in Nat /\ Map2 \in Nat
      /\ Comm1 \in \h1800..\h19FF /\ Comm2 \in \h1800..\h19FF /\ Comm1 # Comm2
      /\ Map1 \in \h1A00..\h1BFF /\ Map2 \in \h1A00..\h1BFF /\ Map1 # Map2
  BY IndicesDiffer
<1>2. ASSUME addr.index = \h1000, NEW k, PlaceIs(addr, k)
      PROVE  k = 1
  BY <1>1, <1>2 DEF PlaceIs
<1>3. ASSUME addr.index = \h1001, NEW k, PlaceIs(addr, k)
      PROVE  k = 2
  BY <1>1, <1>3 DEF PlaceIs
<1>4. ASSUME addr.index = \h1017, NEW k, PlaceIs(addr, k)
      PROVE  k = 3
  BY <1>1, <1>4 DEF PlaceIs
<1>5. ASSUME addr.index = \h1018, NEW k, PlaceIs(addr, k)
      PROVE  k = 4 + addr.sub
  BY <1>1, <1>5 DEF PlaceIs
<1>6. ASSUME addr.index = \h1200, NEW k, PlaceIs(addr, k)
      PROVE  k = 9 + addr.sub
  BY <1>1, <1>6 DEF PlaceIs
<1>7. ASSUME addr.index = Comm1, NEW k, PlaceIs(addr, k)
      PROVE  k = IF addr.sub = 5 THEN 16 ELSE 12 + addr.sub
  BY <1>1, <1>7 DEF PlaceIs
<1>8. ASSUME addr.index = Map1, NEW k, PlaceIs(addr, k)
      PROVE  k = 17
  BY <1>1, <1>8 DEF PlaceIs
<1>9. ASSUME addr.index = Comm2, NEW k, PlaceIs(addr, k)
      PROVE  k = IF addr.sub = 5 THEN 22 ELSE 18 + addr.sub
  BY <1>1, <1>9 DEF PlaceIs
<1>10. ASSUME addr.index = Map2, NEW k, PlaceIs(addr, k)
      PROVE  k = 23
  BY <1>1, <1>10 DEF PlaceIs
<1>11. ASSUME addr.index = \h2000, NEW k, PlaceIs(addr, k)
      PROVE  k = 24
  BY <1>1, <1>11 DEF PlaceIs
<1>12. ASSUME addr.index = \h2002, NEW k, PlaceIs(addr, k)
      PROVE  k = 25
  BY <1>1, <1>12 DEF PlaceIs
<1>13. ASSUME addr.index = \h2010, NEW k, PlaceIs(addr, k)
      PROVE  k = 26
  BY <1>1, <1>13 DEF PlaceIs
<1>14. addr.index \in {\h1000, \h1001, \h1017, \h1018, \h1200, Comm1, Map1, Comm2, Map2,
                        \h2000, \h2002, \h2010}
  BY DEF PlaceIs
<1> QED BY <1>2, <1>3, <1>4, <1>5, <1>6, <1>7, <1>8, <1>9, <1>10, <1>11, <1>12, <1>13, <1>14

LEMMA ProperMappings ==
  /\ \A o : \A x \in Claims(MappingOf(Numbers[1], o)) : Proper(x, 17)
  /\ \A o : \A x \in Claims(MappingOf(Numbers[2], o)) : Proper(x, 23)
<1>1. /\ \A o : Claims(MappingOf(Numbers[1], o)) = {At(Map1, k) : k \in 0..64}
      /\ \A o : Claims(MappingOf(Numbers[2], o)) = {At(Map2, k) : k \in 0..64}
  BY DEF Claims, MappingOf, MappingIndex, Map1, Map2, First, Second
<1>2. \A k : Proper(At(Map1, k), 17) /\ Proper(At(Map2, k), 23)
  BY DEF Proper, PlaceIs, At
<1> QED BY <1>1, <1>2

\* Each call but the mappings is about one object, which it is the only one to define.
Defines(c, addr, i) == c.do = "object" /\ Claims(c) = {addr} /\ Proper(addr, i)

LEMMA CallsDefine ==
  ASSUME NEW t, NEW s, Layout(s, t)
  PROVE  \A i \in (1..26) \ {17, 23} : Defines(s[i], s[i].addr, i)
<1>1. \A a, n, i : Proper(a, i) => /\ Defines(Stored(a), Stored(a).addr, i)
                                  /\ Defines(Direct(a, n), Direct(a, n).addr, i)
                                  /\ Defines(Data(a), Data(a).addr, i)
  BY ObjectClaims DEF Defines, Stored, Direct, Data, Call
<1>2. \A i \in 1..4 : Defines(s[i], s[i].addr, i)
  <2>1. /\ s[1] = Stored(At(\h1000, 0))
        /\ s[2] = Stored(At(\h1001, 0))
        /\ s[3] = Stored(At(\h1017, 0))
        /\ s[4] = Direct(At(\h1018, 0), 4)
    BY DEF Layout
  <2>2. /\ Proper(At(\h1000, 0), 1)
        /\ Proper(At(\h1001, 0), 2)
        /\ Proper(At(\h1017, 0), 3)
        /\ Proper(At(\h1018, 0), 4)
    BY ProperObjects
  <2>3. /\ Defines(s[1], s[1].addr, 1)
        /\ Defines(s[2], s[2].addr, 2)
        /\ Defines(s[3], s[3].addr, 3)
        /\ Defines(s[4], s[4].addr, 4)
    BY ONLY <1>1, <2>1, <2>2
  <2> QED BY ONLY <2>3
<1>3. \A i \in 5..8 : Defines(s[i], s[i].addr, i)
  <2>1. /\ s[5] = Stored(At(\h1018, 1))
        /\ s[6] = Stored(At(\h1018, 2))
        /\ s[7] = Stored(At(\h1018, 3))
        /\ s[8] = Stored(At(\h1018, 4))
    BY DEF Layout
  <2>2. /\ Proper(At(\h1018, 1), 5)
        /\ Proper(At(\h1018, 2), 6)
        /\ Proper(At(\h1018, 3), 7)
        /\ Proper(At(\h1018, 4), 8)
    BY ProperObjects
  <2>3. /\ Defines(s[5], s[5].addr, 5)
        /\ Defines(s[6], s[6].addr, 6)
        /\ Defines(s[7], s[7].addr, 7)
        /\ Defines(s[8], s[8].addr, 8)
    BY ONLY <1>1, <2>1, <2>2
  <2> QED BY ONLY <2>3
<1>4. \A i \in 9..11 : Defines(s[i], s[i].addr, i)
  <2>1. /\ s[9] = Direct(At(\h1200, 0), 2)
        /\ s[10] = Stored(At(\h1200, 1))
        /\ s[11] = Stored(At(\h1200, 2))
    BY DEF Layout
  <2>2. /\ Proper(At(\h1200, 0), 9)
        /\ Proper(At(\h1200, 1), 10)
        /\ Proper(At(\h1200, 2), 11)
    BY ProperObjects
  <2>3. /\ Defines(s[9], s[9].addr, 9)
        /\ Defines(s[10], s[10].addr, 10)
        /\ Defines(s[11], s[11].addr, 11)
    BY ONLY <1>1, <2>1, <2>2
  <2> QED BY ONLY <2>3
<1>5. \A i \in 12..16 : Defines(s[i], s[i].addr, i)
  <2>1. /\ s[12] = Direct(At(Comm1, 0), 5)
        /\ s[13] = Direct(At(Comm1, 1), 0)
        /\ s[14] = Direct(At(Comm1, 2), \hFE)
        /\ s[15] = Direct(At(Comm1, 3), 50)
        /\ s[16] = Direct(At(Comm1, 5), 250)
    BY DEF Layout
  <2>2. /\ Proper(At(Comm1, 0), 12)
        /\ Proper(At(Comm1, 1), 13)
        /\ Proper(At(Comm1, 2), 14)
        /\ Proper(At(Comm1, 3), 15)
        /\ Proper(At(Comm1, 5), 16)
    BY ProperObjects
  <2>3. /\ Defines(s[12], s[12].addr, 12)
        /\ Defines(s[13], s[13].addr, 13)
        /\ Defines(s[14], s[14].addr, 14)
        /\ Defines(s[15], s[15].addr, 15)
        /\ Defines(s[16], s[16].addr, 16)
    BY ONLY <1>1, <2>1, <2>2
  <2> QED BY ONLY <2>3
<1>6. \A i \in 18..22 : Defines(s[i], s[i].addr, i)
  <2>1. /\ s[18] = Direct(At(Comm2, 0), 5)
        /\ s[19] = Direct(At(Comm2, 1), 0)
        /\ s[20] = Direct(At(Comm2, 2), \hFE)
        /\ s[21] = Direct(At(Comm2, 3), 50)
        /\ s[22] = Direct(At(Comm2, 5), 250)
    BY DEF Layout
  <2>2. /\ Proper(At(Comm2, 0), 18)
        /\ Proper(At(Comm2, 1), 19)
        /\ Proper(At(Comm2, 2), 20)
        /\ Proper(At(Comm2, 3), 21)
        /\ Proper(At(Comm2, 5), 22)
    BY ProperObjects
  <2>3. /\ Defines(s[18], s[18].addr, 18)
        /\ Defines(s[19], s[19].addr, 19)
        /\ Defines(s[20], s[20].addr, 20)
        /\ Defines(s[21], s[21].addr, 21)
        /\ Defines(s[22], s[22].addr, 22)
    BY ONLY <1>1, <2>1, <2>2
  <2> QED BY ONLY <2>3
<1>7. \A i \in 24..26 : Defines(s[i], s[i].addr, i)
  <2>1. /\ s[24] = Data(At(\h2000, 0))
        /\ s[25] = Data(At(\h2002, 0))
        /\ s[26] = Data(At(\h2010, 0))
    BY DEF Layout
  <2>2. /\ Proper(At(\h2000, 0), 24)
        /\ Proper(At(\h2002, 0), 25)
        /\ Proper(At(\h2010, 0), 26)
    BY ProperObjects
  <2>3. /\ Defines(s[24], s[24].addr, 24)
        /\ Defines(s[25], s[25].addr, 25)
        /\ Defines(s[26], s[26].addr, 26)
    BY ONLY <1>1, <2>1, <2>2
  <2> QED BY ONLY <2>3
<1>8. \A i \in (1..26) \ {17, 23} : \/ i \in 1..4 \/ i \in 5..8 \/ i \in 9..11 \/ i \in 12..16
                                   \/ i \in 18..22 \/ i \in 24..26
  OBVIOUS
<1> QED BY ONLY <1>2, <1>3, <1>4, <1>5, <1>6, <1>7, <1>8

LEMMA ClaimsProper ==
  ASSUME NEW t, NEW s, Layout(s, t)
  PROVE  \A i \in 1..26 : \A x \in Claims(s[i]) : Proper(x, i)
<1>1. \A i \in (1..26) \ {17, 23} : Defines(s[i], s[i].addr, i)
  BY CallsDefine
<1>2. s[17] = MappingOf(Numbers[1], t[1]) /\ s[23] = MappingOf(Numbers[2], t[2])
  BY DEF Layout
<1> QED BY ONLY <1>1, <1>2, ProperMappings DEF Defines

\* The first entry of such an index tells its highest subindex, and that is there.
Counted(s, index) ==
  \E j, k \in 1..26 :
    /\ s[j].do = "object" /\ s[j].addr = At(index, 0) /\ s[j].direct
    /\ s[j].data = Highest(index)
    /\ s[k].do = "object" /\ s[k].addr = At(index, Highest(index))

LEMMA CallsCounted ==
  ASSUME NEW t, NEW s, Layout(s, t)
  PROVE  \A index \in {\h1018, \h1200, Comm1, Comm2} : Counted(s, index)
<1>8. ASSUME NEW index, NEW j \in 1..26, NEW k \in 1..26,
             s[j].do = "object", s[j].addr = At(index, 0), s[j].direct,
             s[j].data = Highest(index),
             s[k].do = "object", s[k].addr = At(index, Highest(index))
      PROVE  Counted(s, index)
  BY <1>8 DEF Counted
<1>1. \A a, n : /\ Stored(a).do = "object" /\ Stored(a).addr = a
                /\ Direct(a, n).do = "object" /\ Direct(a, n).addr = a
                /\ Direct(a, n).direct /\ Direct(a, n).data = n
  BY DEF Stored, Direct, Call
<1>2. /\ Highest(\h1018) = 4 /\ Highest(\h1200) = 2
      /\ Highest(Comm1) = 5 /\ Highest(Comm2) = 5
  BY IndicesDiffer DEF Highest
<1>3. /\ s[4] = Direct(At(\h1018, 0), 4) /\ s[8] = Stored(At(\h1018, 4))
      /\ s[9] = Direct(At(\h1200, 0), 2) /\ s[11] = Stored(At(\h1200, 2))
      /\ s[12] = Direct(At(Comm1, 0), 5) /\ s[16] = Direct(At(Comm1, 5), 250)
      /\ s[18] = Direct(At(Comm2, 0), 5) /\ s[22] = Direct(At(Comm2, 5), 250)
  BY DEF Layout
<1>4. ASSUME NEW x, x = \h1018 PROVE Counted(s, x)
  <2>1. /\ s[4].do = "object" /\ s[4].addr = At(x, 0) /\ s[4].direct
        /\ s[4].data = Highest(x)
        /\ s[8].do = "object" /\ s[8].addr = At(x, Highest(x))
        /\ 4 \in 1..26 /\ 8 \in 1..26
    BY ONLY <1>1, <1>2, <1>3, <1>4
  <2> QED BY ONLY <1>8, <2>1
<1>5. ASSUME NEW x, x = \h1200 PROVE Counted(s, x)
  <2>1. /\ s[9].do = "object" /\ s[9].addr = At(x, 0) /\ s[9].direct
        /\ s[9].data = Highest(x)
        /\ s[11].do = "object" /\ s[11].addr = At(x, Highest(x))
        /\ 9 \in 1..26 /\ 11 \in 1..26
    BY ONLY <1>1, <1>2, <1>3, <1>5
  <2> QED BY ONLY <1>8, <2>1
<1>6. Counted(s, Comm1)
  <2>1. /\ s[12].do = "object" /\ s[12].addr = At(Comm1, 0) /\ s[12].direct
        /\ s[12].data = Highest(Comm1)
        /\ s[16].do = "object" /\ s[16].addr = At(Comm1, Highest(Comm1))
        /\ 12 \in 1..26 /\ 16 \in 1..26
    BY ONLY <1>1, <1>2, <1>3
  <2> QED BY ONLY <1>8, <2>1
<1>7. Counted(s, Comm2)
  <2>1. /\ s[18].do = "object" /\ s[18].addr = At(Comm2, 0) /\ s[18].direct
        /\ s[18].data = Highest(Comm2)
        /\ s[22].do = "object" /\ s[22].addr = At(Comm2, Highest(Comm2))
        /\ 18 \in 1..26 /\ 22 \in 1..26
    BY ONLY <1>1, <1>2, <1>3
  <2> QED BY ONLY <1>8, <2>1
<1> QED BY <1>4, <1>5, <1>6, <1>7

\* Which calls are mappings, and which define objects that may be mapped.
LEMMA CallKinds ==
  ASSUME NEW t, NEW s, Layout(s, t)
  PROVE  /\ \A i \in 1..26 : s[i].do = "mapping" <=> i \in {17, 23}
         /\ \A i \in 24..26 : s[i].pdo
         /\ s[24].addr = App_Data1 /\ s[25].addr = App_Data2 /\ s[26].addr = App_Data3
         /\ s[17] = MappingOf(Numbers[1], t[1]) /\ s[23] = MappingOf(Numbers[2], t[2])
<1>1. \A a, n : /\ Data(a).pdo /\ Data(a).addr = a /\ MappingOf(n, a).do = "mapping"
  BY DEF Data, Call, MappingOf
<1>2. /\ s[24] = Data(At(\h2000, 0)) /\ s[25] = Data(At(\h2002, 0)) /\ s[26] = Data(At(\h2010, 0))
      /\ s[17] = MappingOf(Numbers[1], t[1]) /\ s[23] = MappingOf(Numbers[2], t[2])
  BY DEF Layout
<1>3. /\ App_Data1 = At(\h2000, 0) /\ App_Data2 = At(\h2002, 0) /\ App_Data3 = At(\h2010, 0)
  BY Smalls DEF App_Data1, App_Data2, App_Data3
<1>4. /\ s[24].pdo /\ s[25].pdo /\ s[26].pdo /\ s[17].do = "mapping" /\ s[23].do = "mapping"
      /\ s[24].addr = App_Data1 /\ s[25].addr = App_Data2 /\ s[26].addr = App_Data3
  BY ONLY <1>1, <1>2, <1>3
<1>5. \A i \in (1..26) \ {17, 23} : s[i].do = "object"
  BY CallsDefine DEF Defines
<1>6. \A i \in 1..26 : s[i].do = "mapping" <=> i \in {17, 23}
  BY ONLY <1>4, <1>5
<1>7. \A i \in 24..26 : s[i].pdo
  BY ONLY <1>4
<1> QED BY ONLY <1>2, <1>4, <1>6, <1>7

\* No two calls claim the same address, and a mapping has its index for itself.
LEMMA ClaimedOnce ==
  ASSUME NEW t \in Tables, NEW s, s = AllocateObjects(t)
  PROVE  /\ s \in Seq(AnyCall) /\ Len(s) = 26
         /\ \A i, j \in 1..26 : \A x \in Claims(s[i]) : x \in Claims(s[j]) => i = j
         /\ \A i, j \in 1..26 : \A x \in Claims(s[i]) :
              s[j].do = "mapping" /\ x.index = MappingIndex(s[j].num) => i = j
<1>1. Layout(s, t)
  BY CallsLaidOut
<1>2. s \in Seq(AnyCall) /\ Len(s) = 26
  BY <1>1 DEF Layout
<1>3. \A i \in 1..26 : \A x \in Claims(s[i]) : PlaceIs(x, i)
  BY <1>1, ClaimsProper DEF Proper
<1>4. ASSUME NEW i \in 1..26, NEW j \in 1..26, NEW x \in Claims(s[i]),
             s[j].do = "mapping", x.index = MappingIndex(s[j].num)
      PROVE  i = j
  <2>1. \/ j = 17 /\ s[j] = MappingOf(Numbers[1], t[1])
        \/ j = 23 /\ s[j] = MappingOf(Numbers[2], t[2])
    BY <1>1, <1>4, CallKinds
  <2>2. \/ j = 17 /\ x.index = Map1
        \/ j = 23 /\ x.index = Map2
    BY <1>4, <2>1 DEF MappingOf, MappingIndex, Map1, Map2, First, Second
  <2>3. PlaceIs(x, j)
    BY <2>2 DEF PlaceIs
  <2> QED BY <1>3, <2>3, OnePlace
<1>5. \A i, j \in 1..26 : \A x \in Claims(s[i]) : x \in Claims(s[j]) => i = j
  BY <1>3, OnePlace
<1> QED BY <1>2, <1>4, <1>5
=============================================================================
