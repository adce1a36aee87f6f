---------------------------- MODULE CommonLemmas ----------------------------
(* What the proofs of several modules cite: facts about sets of numbers,   *)
(* pages of ids, sorted places, and loops.                                 *)
EXTENDS Paging, Sorting, FiniteSetTheorems, WellFoundedInduction, TLAPS

(* A set of numbers that is not empty has a smallest member.               *)
LEMMA SmallestOfNats ==
  ASSUME NEW T \in SUBSET Nat, T # {}
  PROVE  \E x \in T : \A y \in T : x <= y
<1>1. \E x \in T : \A y \in T : ~(<<y, x>> \in OpToRel(<, Nat))
  <2>1. IsWellFoundedOn(OpToRel(<, Nat), Nat)
    BY NatLessThanWellFounded
  <2> HIDE DEF OpToRel
  <2> QED
    BY <2>1, WFMin
<1>2. PICK x \in T : \A y \in T : ~(<<y, x>> \in OpToRel(<, Nat))
  BY <1>1
<1>3. ASSUME NEW y \in T
      PROVE  x <= y
  <2>1. <<y, x>> \in Nat \X Nat /\ y \in Nat /\ x \in Nat
    OBVIOUS
  <2>2. ~(y < x)
    BY <1>2, <2>1 DEF OpToRel
  <2> QED
    BY <2>1, <2>2
<1> QED
  BY <1>2, <1>3

-----------------------------------------------------------------------------
(* The rows between the cursor a and row i, and how they grow with i.      *)
Before(S, a, i) == {j \in S : a < j /\ j < i}

LEMMA BeforeIsFinite ==
  ASSUME NEW m \in Nat, NEW S \in SUBSET (1..m), NEW a, NEW i
  PROVE  IsFiniteSet(Before(S, a, i)) /\ Cardinality(Before(S, a, i)) \in Nat
<1>1. IsFiniteSet(1..m)
  BY FS_Interval
<1>2. Before(S, a, i) \in SUBSET (1..m)
  BY DEF Before
<1>3. IsFiniteSet(Before(S, a, i))
  BY <1>1, <1>2, FS_Subset
<1> QED
  BY <1>3, FS_CardinalityType

LEMMA BeforeGrows ==
  ASSUME NEW m \in Nat, NEW S \in SUBSET (1..m), NEW a \in Nat,
         NEW i \in S, NEW j \in S, j < i
  PROVE  Cardinality(Before(S, a, j)) <= Cardinality(Before(S, a, i))
<1>0. S \subseteq Int /\ i \in Int /\ j \in Int
  OBVIOUS
<1>1. Before(S, a, j) \in SUBSET Before(S, a, i)
  <2> SUFFICES ASSUME NEW k \in S, a < k, k < j
               PROVE  k < i
    BY DEF Before
  <2>1. k \in Int
    BY <1>0
  <2> QED
    BY <1>0, <2>1
<1>2. IsFiniteSet(Before(S, a, i))
  BY BeforeIsFinite
<1> QED
  BY <1>1, <1>2, FS_Subset

(* A page is a contiguous stretch of what is there after id a, and it is   *)
(* empty only if nothing is.                                               *)
LEMMA PageIs ==
  ASSUME NEW m \in Nat, NEW S \in SUBSET (1..m), NEW a \in Nat,
         NEW n \in Nat \ {0}
  PROVE  /\ Page(S, a, n) \subseteq {i \in S : a < i}
         /\ \A i \in Page(S, a, n), j \in S :
               a < j /\ j < i => j \in Page(S, a, n)
         /\ Page(S, a, n) = {} => \A i \in S : i <= a
<1>0. Page(S, a, n) = {i \in S : a < i /\ Cardinality(Before(S, a, i)) < n}
  BY DEF Page, Before
<1>1. \A i \in S : Cardinality(Before(S, a, i)) \in Nat
  BY BeforeIsFinite
<1>2. Page(S, a, n) \subseteq {i \in S : a < i}
  BY <1>0
<1>3. ASSUME NEW i \in Page(S, a, n), NEW j \in S, a < j, j < i
      PROVE  j \in Page(S, a, n)
  <2>1. i \in S /\ Cardinality(Before(S, a, i)) < n
    BY <1>0
  <2>2. Cardinality(Before(S, a, j)) <= Cardinality(Before(S, a, i))
    BY <1>3, <2>1, BeforeGrows
  <2>3. Cardinality(Before(S, a, j)) < n
    BY <1>1, <2>1, <2>2
  <2> QED
    BY <1>0, <1>3, <2>3
<1>4. ASSUME NEW i \in S, a < i
      PROVE  Page(S, a, n) # {}
  <2> DEFINE Later == {j \in S : a < j}
  <2>0. \A k \in S : k \in Nat
    OBVIOUS
  <2>1. Later \in SUBSET Nat /\ Later # {}
    <3>1. \A k \in Later : k \in Nat
      BY <2>0
    <3>2. i \in Later
      BY <1>4
    <3> QED
      BY <3>1, <3>2
  <2>2. PICK x \in Later : \A y \in Later : x <= y
    <3> HIDE DEF Later
    <3> QED
      BY <2>1, SmallestOfNats
  <2>3. Before(S, a, x) = {}
    <3> SUFFICES ASSUME NEW k \in S, a < k, k < x
                 PROVE  FALSE
      BY DEF Before
    <3>1. k \in Later /\ k \in Nat /\ x \in Nat
      BY <2>0, <2>2
    <3> QED
      BY <2>2, <3>1
  <2>4. Cardinality(Before(S, a, x)) = 0
    BY <2>3, FS_EmptySet
  <2> QED
    BY SMTT(30), <1>0, <2>2, <2>4
<1>5. ASSUME Page(S, a, n) = {}, NEW i \in S
      PROVE  i <= a
  BY <1>4, <1>5
<1> QED
  BY <1>2, <1>3, <1>5

(* A page of one row, as the retry takes them, is one row.                 *)
LEMMA PageOfOne ==
  ASSUME NEW m \in Nat, NEW S \in SUBSET (1..m), S # {}
  PROVE  \E x \in S : Page(S, 0, 1) = {x}
<1> DEFINE page == Page(S, 0, 1)
<1>0. \A i \in S : i \in Nat /\ 0 < i /\ IsFiniteSet(Before(S, 0, i))
  <2> TAKE i \in S
  <2>1. IsFiniteSet(Before(S, 0, i))
    BY BeforeIsFinite, 0 \in Nat
  <2>2. i \in Nat /\ 0 < i
    OBVIOUS
  <2> QED
    BY <2>1, <2>2
<1>1. page \subseteq S
  BY DEF Page
<1>2. page # {}
  <2>1. page = {} => \A i \in S : i <= 0
    BY PageIs
  <2>2. PICK i \in S : TRUE
    OBVIOUS
  <2> QED
    BY <1>0, <2>1, <2>2
<1>3. ASSUME NEW i \in page, NEW j \in page, i < j
      PROVE  FALSE
  <2>0. j \in S /\ IsFiniteSet(Before(S, 0, j))
    BY <1>0, <1>1
  <2>1. i \in Before(S, 0, j)
    BY <1>0, <1>1, <1>3 DEF Before
  <2>2. Cardinality(Before(S, 0, j)) < 1
    BY DEF Page, Before
  <2>3. Cardinality(Before(S, 0, j)) \in Nat
    BY <2>0, FS_CardinalityType
  <2>4. Cardinality(Before(S, 0, j)) = 0
    BY <2>2, <2>3
  <2>5. Before(S, 0, j) = {}
    BY <2>0, <2>4, FS_EmptySet
  <2> QED
    BY <2>1, <2>5
<1>4. PICK x \in page : TRUE
  BY <1>2
<1>5. ASSUME NEW y \in page
      PROVE  y = x
  <2>1. x \in Nat /\ y \in Nat
    BY <1>0, <1>1, <1>4
  <2>2. ~(x < y) /\ ~(y < x)
    BY <1>3, <1>4
  <2> QED
    BY <2>1, <2>2
<1> QED
  BY <1>1, <1>4, <1>5

-----------------------------------------------------------------------------
IsStrictOrder(R, D) ==
    /\ \A x \in D : <<x, x>> \notin R
    /\ \A x, y \in D : x = y \/ <<x, y>> \in R \/ <<y, x>> \in R
    /\ \A x, y, z \in D :
          <<x, y>> \in R /\ <<y, z>> \in R => <<x, z>> \in R

(* Under a strict total order R on a finite set D, for each m up to its    *)
(* size there is one element that m - 1 others come before; taken in this  *)
(* order, the elements are all of D, and ascend; and which one comes in    *)
(* which place is told by how many come before it.                         *)
LEMMA PlacesInOrder ==
  ASSUME NEW D, IsFiniteSet(D), NEW n, n = Cardinality(D), NEW R,
         IsStrictOrder(R, D)
  PROVE  /\ \A m \in 1..n : Place(D, R, m) \in D
         /\ \A x \in D : \E m \in 1..n : Place(D, R, m) = x
         /\ \A m, k \in 1..n :
               m < k => <<Place(D, R, m), Place(D, R, k)>> \in R
         /\ \A m \in 1..n, x \in D :
               Cardinality({y \in D : <<y, x>> \in R}) = m - 1
                  => Place(D, R, m) = x
<1> DEFINE Below(x) == {y \in D : <<y, x>> \in R}
           rank == [x \in D |-> Cardinality(Below(x)) + 1]
<1>0. /\ \A x \in D : <<x, x>> \notin R
      /\ \A x, y \in D : x = y \/ <<x, y>> \in R \/ <<y, x>> \in R
      /\ \A x, y, z \in D :
            <<x, y>> \in R /\ <<y, z>> \in R => <<x, z>> \in R
  BY DEF IsStrictOrder
<1>1. n \in Nat
  BY FS_CardinalityType
<1>2. \A x \in D : /\ Below(x) \in SUBSET D
                      /\ IsFiniteSet(Below(x)) /\ Cardinality(Below(x)) \in Nat
  <2> SUFFICES ASSUME NEW x \in D
               PROVE  /\ Below(x) \in SUBSET D
                      /\ IsFiniteSet(Below(x))
                      /\ Cardinality(Below(x)) \in Nat
    OBVIOUS
  <2>1. Below(x) \in SUBSET D
    OBVIOUS
  <2> HIDE DEF Below
  <2>2. IsFiniteSet(Below(x))
    BY <1>1, <2>1, FS_Subset
  <2> QED
    BY <2>1, <2>2, FS_CardinalityType
<1>3. ASSUME NEW x \in D
      PROVE  rank[x] \in 1..n
  <2>1. Below(x) \in SUBSET (D \ {x})
    BY <1>0
  <2>2. IsFiniteSet(D \ {x}) /\ Cardinality(D \ {x}) = n - 1
    BY <1>1, FS_RemoveElement
  <2>3. Cardinality(Below(x)) <= n - 1
    <3> HIDE DEF Below
    <3> QED
      BY <2>1, <2>2, FS_Subset
  <2>4. Cardinality(Below(x)) \in Nat
    BY <1>2
  <2> HIDE DEF Below
  <2> QED
    BY <1>1, <2>3, <2>4
<1>4. ASSUME NEW x \in D, NEW y \in D, <<x, y>> \in R
      PROVE  rank[x] < rank[y]
  <2>1. Below(x) \in SUBSET Below(y) /\ x \in Below(y) /\ x \notin Below(x)
    BY <1>0, <1>4
  <2>2. /\ IsFiniteSet(Below(y)) /\ Cardinality(Below(x)) \in Nat
        /\ Cardinality(Below(y)) \in Nat
    BY <1>2
  <2>3. Cardinality(Below(x)) <= Cardinality(Below(y))
        /\ (Cardinality(Below(x)) = Cardinality(Below(y)) => Below(x) = Below(y))
    <3> HIDE DEF Below
    <3> QED
      BY <2>1, <2>2, FS_Subset
  <2>4. Below(x) # Below(y)
    BY <2>1
  <2> HIDE DEF Below
  <2> QED
    BY <2>2, <2>3, <2>4
<1>5. rank \in Injection(D, 1..n)
  <2>1. rank \in [D -> 1..n]
    BY <1>3
  <2>2. \A x, y \in D : rank[x] = rank[y] => x = y
    <3> SUFFICES ASSUME NEW x \in D, NEW y \in D, rank[x] = rank[y],
                        x # y
                 PROVE  FALSE
      OBVIOUS
    <3>1. rank[x] \in Int /\ rank[y] \in Int
      BY <1>3
    <3>2. <<x, y>> \in R => rank[x] < rank[y]
      BY <1>4
    <3>3. <<y, x>> \in R => rank[y] < rank[x]
      BY <1>4
    <3>4. <<x, y>> \in R \/ <<y, x>> \in R
      BY <1>0
    <3> HIDE DEF rank
    <3> QED
      BY <3>1, <3>2, <3>3, <3>4
  <2> HIDE DEF rank
  <2> QED
    BY <2>1, <2>2 DEF Injection, IsInjective
<1>6. \A m \in 1..n : \E x \in D : rank[x] = m
  <2> HIDE DEF rank
  <2>1. rank \in Surjection(D, 1..n)
    BY <1>1, <1>5, FS_Injection, FS_Interval
  <2> QED
    BY <2>1 DEF Surjection
<1>7. \A x \in D, m \in 1..n :
         Cardinality({y \in D : <<y, x>> \in R}) = m - 1 <=> rank[x] = m
  <2> SUFFICES ASSUME NEW x \in D, NEW m \in 1..n
               PROVE  Cardinality(Below(x)) = m - 1 <=> rank[x] = m
    OBVIOUS
  <2>1. Cardinality(Below(x)) \in Nat /\ rank[x] = Cardinality(Below(x)) + 1
    BY <1>2
  <2> HIDE DEF Below, rank
  <2> QED
    BY <2>1
<1> HIDE DEF rank
<1>8. \A m \in 1..n : Place(D, R, m) \in D /\ rank[Place(D, R, m)] = m
  <2> SUFFICES ASSUME NEW m \in 1..n
               PROVE  Place(D, R, m) \in D /\ rank[Place(D, R, m)] = m
    OBVIOUS
  <2>1. \E x \in D : Cardinality({y \in D : <<y, x>> \in R}) = m - 1
    BY <1>6, <1>7
  <2>2. /\ Place(D, R, m) \in D
        /\ Cardinality({y \in D : <<y, Place(D, R, m)>> \in R}) = m - 1
    BY <2>1 DEF Place
  <2> QED
    BY <1>7, <2>2
<1>9. \A x, y \in D : rank[x] = rank[y] => x = y
  BY <1>5 DEF Injection, IsInjective
<1>10. \A x \in D : \E m \in 1..n : Place(D, R, m) = x
  <2> SUFFICES ASSUME NEW x \in D
               PROVE  \E m \in 1..n : Place(D, R, m) = x
    OBVIOUS
  <2>1. rank[x] \in 1..n
    BY <1>3
  <2>2. Place(D, R, rank[x]) = x
    BY <1>8, <1>9, <2>1
  <2> QED
    BY <2>1, <2>2
<1>11. ASSUME NEW m \in 1..n, NEW k \in 1..n, m < k
       PROVE  <<Place(D, R, m), Place(D, R, k)>> \in R
  <2> DEFINE x == Place(D, R, m)
             y == Place(D, R, k)
  <2>1. x \in D /\ y \in D /\ rank[x] = m /\ rank[y] = k
    BY <1>8
  <2>2. x # y
    BY <1>11, <2>1
  <2>3. <<y, x>> \notin R
    BY <1>4, <1>11, <2>1
  <2> HIDE DEF x, y
  <2>4. <<x, y>> \in R
    BY <1>0, <2>1, <2>2, <2>3
  <2> QED
    BY <2>4 DEF x, y
<1>12. \A m \in 1..n, x \in D :
          Cardinality({y \in D : <<y, x>> \in R}) = m - 1
             => Place(D, R, m) = x
  BY <1>7, <1>8, <1>9
<1> QED
  BY <1>8, <1>10, <1>11, <1>12

(* A list that ascends, and leaves out nothing that comes before an        *)
(* element of it, has every element in its place.                          *)
IsAscent(out, L, D, R) ==
    /\ L \in Nat /\ out \in [1..L -> D]
    /\ \A a, b \in 1..L : a < b => <<out[a], out[b]>> \in R
    /\ \A b \in 1..L, x \in D :
          <<x, out[b]>> \in R => \E a \in 1..L : out[a] = x

LEMMA ListInOrder ==
  ASSUME NEW D, IsFiniteSet(D), NEW R, IsStrictOrder(R, D),
         NEW L, NEW out, IsAscent(out, L, D, R)
  PROVE  \A m \in 1..L : out[m] = Place(D, R, m)
<1> SUFFICES ASSUME L \in Nat, out \in [1..L -> D],
                    \A a, b \in 1..L : a < b => <<out[a], out[b]>> \in R,
                    \A b \in 1..L, x \in D :
                       <<x, out[b]>> \in R => \E a \in 1..L : out[a] = x,
                    NEW m \in 1..L
             PROVE  out[m] = Place(D, R, m)
  BY DEF IsAscent
<1> DEFINE Below == {y \in D : <<y, out[m]>> \in R}
           part(n) == [a \in 1..n |-> out[a]]
<1>0. /\ \A x \in D : <<x, x>> \notin R
      /\ \A x, y, z \in D :
            <<x, y>> \in R /\ <<y, z>> \in R => <<x, z>> \in R
  BY DEF IsStrictOrder
<1>1. \A a, b \in 1..L : out[a] = out[b] => a = b
  <2> SUFFICES ASSUME NEW a \in 1..L, NEW b \in 1..L, out[a] = out[b]
               PROVE  a = b
    OBVIOUS
  <2>1. <<out[a], out[b]>> \notin R /\ <<out[b], out[a]>> \notin R
    BY <1>0
  <2>2. ~(a < b) /\ ~(b < a)
    BY <2>1
  <2> QED
    BY <2>2
<1>2. L <= Cardinality(D) /\ Cardinality(D) \in Nat
  <2>1. out \in Injection(1..L, D)
    BY <1>1 DEF Injection, IsInjective
  <2>2. IsFiniteSet(1..L) /\ Cardinality(1..L) = L
    BY FS_Interval
  <2> QED
    BY <2>1, <2>2, FS_Injection, FS_CardinalityType
<1>3. \A a \in 1..(m - 1) : a \in 1..L /\ a < m
  OBVIOUS
<1>4. part(m - 1) \in Bijection(1..(m - 1), Below)
  <2>1. \A a \in 1..(m - 1) : out[a] \in Below
    BY <1>3
  <2>2. ASSUME NEW x \in Below
        PROVE  \E a \in 1..(m - 1) : out[a] = x
    <3>1. PICK a \in 1..L : out[a] = x
      OBVIOUS
    <3>2. ~(m < a) /\ a # m
      <4>1. x \in D /\ <<x, out[m]>> \in R /\ out[m] \in D
        OBVIOUS
      <4>2. <<out[m], x>> \notin R
        BY <1>0, <4>1
      <4> QED
        BY <3>1, <4>1, <4>2
    <3> QED
      BY <3>1, <3>2
  <2>3. \A a, b \in 1..(m - 1) : out[a] = out[b] => a = b
    BY <1>1, <1>3
  <2> HIDE DEF Below
  <2>4. part(m - 1) \in [1..(m - 1) -> Below]
    BY <2>1
  <2> QED
    BY <2>2, <2>3, <2>4 DEF Bijection, Injection, Surjection, IsInjective
<1>5. Cardinality(Below) = m - 1
  <2>1. IsFiniteSet(1..(m - 1)) /\ Cardinality(1..(m - 1)) = m - 1
    BY FS_Interval
  <2> HIDE DEF Below, part
  <2>2. ExistsBijection(1..(m - 1), Below)
    BY <1>4 DEF ExistsBijection
  <2> QED
    BY <2>1, <2>2, FS_Bijection
<1>6. m \in 1..Cardinality(D) /\ out[m] \in D
  BY <1>2
<1>7. \A k \in 1..Cardinality(D), x \in D :
         Cardinality({y \in D : <<y, x>> \in R}) = k - 1 => Place(D, R, k) = x
  <2> HIDE DEF Below, part
  <2> QED
    BY PlacesInOrder
<1> QED
  BY <1>5, <1>6, <1>7

-----------------------------------------------------------------------------
(* Induction along 0..N, for a set that the loop does not leave.           *)
LEMMA RangeInduction ==
  ASSUME NEW N \in Nat, NEW T, 0 \in T,
         \A n \in 1..N : n - 1 \in T => n \in T
  PROVE  \A n \in 0..N : n \in T
<1> DEFINE Bad == {n \in 0..N : n \notin T}
<1> SUFFICES ASSUME Bad # {}
             PROVE  FALSE
  OBVIOUS
<1>1. Bad \in SUBSET Nat
  OBVIOUS
<1>2. PICK x \in Bad : \A y \in Bad : x <= y
  <2> HIDE DEF Bad
  <2> QED
    BY <1>1, SmallestOfNats
<1>3. x \in 1..N /\ x - 1 \in 0..N
  BY <1>2
<1>4. x - 1 \notin Bad
  BY <1>2, <1>3
<1>5. x - 1 \in T
  BY <1>3, <1>4
<1> QED
  BY <1>2, <1>3, <1>5

(* A loop of N turns that starts with base and takes step in each turn has *)
(* a history: what it holds before the first turn and after each.          *)
IsLoop(N, A, base, step) ==
    /\ N \in Nat /\ base \in A
    /\ \A n \in 1..N : \A a \in A : step[<<a, n>>] \in A

IsHistory(f, N, A, base, step) ==
    /\ f \in [0..N -> A] /\ f[0] = base
    /\ \A n \in 1..N : f[n] = step[<<f[n - 1], n>>]

LEMMA LoopHasHistory ==
  ASSUME NEW N, NEW A, NEW base, NEW step, IsLoop(N, A, base, step)
  PROVE  \E f : IsHistory(f, N, A, base, step)
<1> DEFINE Is(f, m) == /\ f[0] = base
                       /\ \A n \in 1..m : f[n] = step[<<f[n - 1], n>>]
           T == {m \in 0..N : \E f \in [0..m -> A] : Is(f, m)}
<1>0. /\ N \in Nat /\ base \in A
      /\ \A n \in 1..N : \A a \in A : step[<<a, n>>] \in A
  BY DEF IsLoop
<1>1. 0 \in T
  <2> DEFINE g == [n \in 0..0 |-> base]
  <2>1. g \in [0..0 -> A] /\ g[0] = base
    BY <1>0
  <2> HIDE DEF g
  <2>2. Is(g, 0)
    BY <2>1
  <2> QED
    BY <1>0, <2>1, <2>2
<1>2. ASSUME NEW m \in 1..N, m - 1 \in T
      PROVE  m \in T
  <2>1. PICK f \in [0..(m - 1) -> A] : Is(f, m - 1)
    BY <1>2
  <2>2. f[m - 1] \in A
    BY <1>0, <2>1
  <2> DEFINE g == [n \in 0..m |-> IF n = m THEN step[<<f[m - 1], m>>] ELSE f[n]]
  <2>3. step[<<f[m - 1], m>>] \in A
    BY <1>0, <2>2
  <2>4. g \in [0..m -> A]
    BY <1>0, <2>3
  <2>5. \A n \in 0..(m - 1) : g[n] = f[n]
    OBVIOUS
  <2>6. g[m] = step[<<f[m - 1], m>>]
    OBVIOUS
  <2> HIDE DEF g
  <2>7. g[0] = base
    BY <2>1, <2>5
  <2>8. ASSUME NEW n \in 1..m
        PROVE  g[n] = step[<<g[n - 1], n>>]
    <3>1. CASE n = m
      BY <2>5, <2>6, <3>1
    <3>2. CASE n # m
      <4>1. n \in 1..(m - 1) /\ n - 1 \in 0..(m - 1) /\ n \in 0..(m - 1)
        BY <3>2
      <4> QED
        BY <2>1, <2>5, <4>1
    <3> QED
      BY <3>1, <3>2
  <2> QED
    BY <2>4, <2>7, <2>8
<1>3. N \in T
  <2> HIDE DEF T
  <2>1. \A n \in 0..N : n \in T
    BY <1>0, <1>1, <1>2, RangeInduction
  <2> QED
    BY <1>0, <2>1
<1> QED
  BY <1>3 DEF IsHistory
=============================================================================
