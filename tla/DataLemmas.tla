----------------------------- MODULE DataLemmas -----------------------------
(***************************************************************************)
(* Lemmas about data: removing from a list, folding over one, numbering    *)
(* the elements of a finite set in some order, sums and division, and      *)
(* lists that are cut, dealt out and joined again.                         *)
(*                                                                         *)
(* Induction on the natural numbers is stated of a set instead of a        *)
(* predicate, and proved from the library's theorem that < is well         *)
(* founded, whose statement has no operator for a parameter.  A fold of    *)
(* the community modules is the last entry of a table over the sets of     *)
(* indices; that the table exists is shown for an operator given as a      *)
(* function on pairs <<value, index>>, so that the lemmas quantify over    *)
(* sets only.  Whoever folds an operator that maps a set A to itself gets  *)
(* a member of A, where A may well be the values that satisfy an           *)
(* invariant.                                                              *)
(***************************************************************************)
EXTENDS SequencesExt, Integers, SequenceTheorems, FiniteSetTheorems, WellFoundedInduction, TLAPS

LEMMA NatSetInduction ==
  ASSUME NEW S, 0 \in S, \A n \in Nat : n \in S => n + 1 \in S
  PROVE  Nat \subseteq S
<1> DEFINE R == OpToRel(<, Nat)
           T == Nat \ S
<1>1. IsWellFoundedOn(R, Nat)
  BY NatLessThanWellFounded
<1>2. ASSUME NEW i \in Nat, NEW k \in Nat, i < k PROVE <<i, k>> \in R
  BY <1>2 DEF OpToRel
<1> HIDE DEF R
<1>3. ASSUME T # {} PROVE FALSE
  <2>1. PICK x \in T : \A y \in T : ~ (<<y, x>> \in R)
    BY <1>1, <1>3, WFMin
  <2>2. x # 0 /\ x - 1 \in Nat /\ x - 1 < x /\ (x - 1) + 1 = x
    BY <2>1
  <2>3. <<x - 1, x>> \in R
    BY <1>2, <2>2
  <2>4. x - 1 \in S
    BY <2>1, <2>2, <2>3
  <2>5. x \in S
    BY <2>2, <2>4
  <2> QED
    BY <2>1, <2>5
<1> QED
  BY <1>3

LEMMA MaxOfPrefix ==
  ASSUME NEW n \in Nat, NEW s \in SUBSET (1..(n + 1)), n + 1 \in s
  PROVE  Max(s) = n + 1 /\ s \ {Max(s)} \in SUBSET (1..n)
<1>1. \A y \in s : y \in Int /\ n + 1 >= y
  OBVIOUS
<1>2. ASSUME NEW x \in s, \A y \in s : x >= y PROVE x = n + 1
  BY <1>1, <1>2
<1>3. Max(s) = n + 1
  BY <1>1, <1>2 DEF Max
<1> QED
  BY <1>1, <1>3

LEMMA MaxIsIn ==
  ASSUME NEW n \in Nat, NEW s \in SUBSET (1..n), s # {}
  PROVE  Max(s) \in s
<1> DEFINE Holds(k) == \A t \in SUBSET (1..k) : t # {} => Max(t) \in t
           S == {k \in Nat : Holds(k)}
<1>0. \A k \in Nat : k \in S <=> Holds(k)
  OBVIOUS
<1> HIDE DEF S
<1>1. Holds(0)
  <2>1. \A t \in SUBSET (1..0) : t = {}
    OBVIOUS
  <2> QED
    BY <2>1
<1>2. ASSUME NEW k \in Nat, Holds(k) PROVE Holds(k + 1)
  <2>1. ASSUME NEW t \in SUBSET (1..(k + 1)), t # {} PROVE Max(t) \in t
    <3>1. CASE k + 1 \in t
      BY <3>1, MaxOfPrefix
    <3>2. CASE k + 1 \notin t
      <4>1. t \in SUBSET (1..k)
        BY <3>2
      <4> QED
        BY <1>2, <2>1, <4>1
    <3> QED
      BY <3>1, <3>2
  <2> QED
    BY <2>1
<1> HIDE DEF Holds
<1>3. n \in S
  BY <1>0, <1>1, <1>2, NatSetInduction
<1>4. Holds(n)
  BY <1>0, <1>3
<1> QED
  BY <1>4 DEF Holds

\* The values of a table over the sets of indices are in A, each in its own set,
\* if the first one is, and each of the others when the one it is made from is.
LEMMA TableEntries ==
  ASSUME NEW A, NEW g, NEW n \in Nat, g[{}] \in A[{}],
         \A s \in SUBSET (1..n) : s # {} /\ g[s \ {Max(s)}] \in A[s \ {Max(s)}] => g[s] \in A[s]
  PROVE  \A s \in SUBSET (1..n) : g[s] \in A[s]
<1> DEFINE Holds(k) == k <= n => \A s \in SUBSET (1..k) : g[s] \in A[s]
           S == {k \in Nat : Holds(k)}
<1>0. \A k \in Nat : k \in S <=> Holds(k)
  OBVIOUS
<1> HIDE DEF S
<1>1. Holds(0)
  <2>1. \A s \in SUBSET (1..0) : s = {}
    OBVIOUS
  <2> QED
    BY <2>1
<1>2. ASSUME NEW k \in Nat, Holds(k) PROVE Holds(k + 1)
  <2>1. ASSUME NEW s \in SUBSET (1..(k + 1)), k + 1 <= n PROVE g[s] \in A[s]
    <3>1. k <= n
      BY <2>1
    <3>2. CASE k + 1 \in s
      <4>1. s \ {Max(s)} \in SUBSET (1..k)
        BY <3>2, MaxOfPrefix
      <4>2. g[s \ {Max(s)}] \in A[s \ {Max(s)}]
        BY <1>2, <3>1, <4>1
      <4>3. s \in SUBSET (1..n)
        BY <2>1
      <4> QED
        BY <3>2, <4>2, <4>3
    <3>3. CASE k + 1 \notin s
      <4>1. s \in SUBSET (1..k)
        BY <3>3
      <4> QED
        BY <1>2, <3>1, <4>1
    <3> QED
      BY <3>2, <3>3
  <2> QED
    BY <2>1
<1> HIDE DEF Holds
<1>3. n \in S
  BY <1>0, <1>1, <1>2, NatSetInduction
<1>4. Holds(n)
  BY <1>0, <1>3
<1> QED
  BY <1>4 DEF Holds

LEMMA TableValues ==
  ASSUME NEW A, NEW g, NEW n \in Nat, g[{}] \in A,
         \A s \in SUBSET (1..n) : s # {} /\ g[s \ {Max(s)}] \in A => g[s] \in A
  PROVE  \A s \in SUBSET (1..n) : g[s] \in A
<1> DEFINE B == [s \in SUBSET (1..n) |-> A]
<1>1. \A s \in SUBSET (1..n) : B[s] = A /\ s \ {Max(s)} \in SUBSET (1..n)
  OBVIOUS
<1>2. {} \in SUBSET (1..n)
  OBVIOUS
<1> HIDE DEF B
<1>3. \A s \in SUBSET (1..n) : s # {} /\ g[s \ {Max(s)}] \in B[s \ {Max(s)}] => g[s] \in B[s]
  BY <1>1
<1>4. g[{}] \in B[{}]
  BY <1>1, <1>2
<1>5. \A s \in SUBSET (1..n) : g[s] \in B[s]
  BY <1>3, <1>4, TableEntries
<1> QED
  BY <1>1, <1>5

LEMMA MinIsIn ==
  ASSUME NEW s \in SUBSET Nat, s # {}
  PROVE  Min(s) \in s /\ \A y \in s : Min(s) =< y
<1> DEFINE R == OpToRel(<, Nat)
<1>1. IsWellFoundedOn(R, Nat)
  BY NatLessThanWellFounded
<1>2. ASSUME NEW i \in Nat, NEW k \in Nat, i < k PROVE <<i, k>> \in R
  BY <1>2 DEF OpToRel
<1> HIDE DEF R
<1>3. PICK x \in s : \A y \in s : ~ (<<y, x>> \in R)
  BY <1>1, WFMin
<1>4. ASSUME NEW y \in s PROVE x =< y
  <2>1. x \in Nat /\ y \in Nat /\ ~ (y < x)
    BY <1>2, <1>3
  <2> QED
    BY <2>1
<1> QED
  BY <1>4 DEF Min

LEMMA RemoveAtFacts ==
  ASSUME NEW S, NEW q \in Seq(S), NEW k \in 1..Len(q)
  PROVE  /\ RemoveAt(q, k) \in Seq(S) /\ Len(RemoveAt(q, k)) = Len(q) - 1
         /\ \A i \in 1..(Len(q) - 1) : RemoveAt(q, k)[i] = q[IF i < k THEN i ELSE i + 1]
<1>1. DOMAIN q = 1..Len(q) /\ Len(q) \in Nat /\ \A i \in 1..Len(q) : q[i] \in S
  OBVIOUS
<1> DEFINE r == RemoveAt(q, k)
           s == SubSeq(q, 1, k - 1)
           t == SubSeq(q, k + 1, Len(q))
<1>2. s \in Seq(S) /\ Len(s) = k - 1 /\ \A i \in 1..(k - 1) : s[i] = q[i]
  BY <1>1
<1>3. t \in Seq(S) /\ Len(t) = Len(q) - k /\ \A i \in 1..(Len(q) - k) : t[i] = q[i + k]
  <2> DEFINE a == k + 1
             n == Len(q)
  <2>1. a \in Int /\ n \in Int /\ a <= n + 1 /\ \A i \in a..n : q[i] \in S
    BY <1>1
  <2>2. k \in Int /\ k <= n
    BY <1>1
  <2>3. n - a + 1 = n - k /\ (a > n => n - k = 0) /\ \A i \in Int : a + i - 1 = i + k
    <3>1. n \in Int /\ a \in Int /\ a = k + 1
      BY <1>1
    <3> HIDE DEF a, n
    <3> QED
      BY <2>2, <3>1
  <2> HIDE DEF a, n
  <2>4. /\ SubSeq(q, a, n) \in Seq(S)
        /\ Len(SubSeq(q, a, n)) = IF a <= n THEN n - a + 1 ELSE 0
        /\ \A i \in 1..(n - a + 1) : SubSeq(q, a, n)[i] = q[a + i - 1]
    BY <2>1, SubSeqProperties
  <2>5. t = SubSeq(q, a, n)
    BY DEF t, a, n
  <2> HIDE DEF t
  <2>6. Len(t) = n - k
    BY <2>1, <2>3, <2>4, <2>5
  <2>7. \A i \in 1..(n - k) : t[i] = q[i + k]
    BY <2>3, <2>4, <2>5
  <2> QED
    BY <2>4, <2>5, <2>6, <2>7 DEF n
<1>4. r = s \o t
  BY DEF RemoveAt
<1> HIDE DEF r, s, t
<1>5. r \in Seq(S) /\ Len(r) = Len(s) + Len(t)
  BY <1>2, <1>3, <1>4, ConcatProperties
<1>6. \A i \in 1..Len(r) : r[i] = IF i <= Len(s) THEN s[i] ELSE t[i - Len(s)]
  BY <1>2, <1>3, <1>4, <1>5, ConcatProperties
<1>7. Len(r) = Len(q) - 1
  BY <1>1, <1>2, <1>3, <1>5
<1>8. ASSUME NEW i \in 1..(Len(q) - 1) PROVE r[i] = q[IF i < k THEN i ELSE i + 1]
  <2>1. i \in 1..Len(r) /\ Len(s) = k - 1 /\ k \in Nat
    BY <1>1, <1>2, <1>7
  <2>2. CASE i < k
    <3>1. i \in 1..(k - 1) /\ i <= Len(s)
      BY <2>1, <2>2
    <3> QED
      BY <1>2, <1>6, <2>1, <2>2, <3>1
  <2>3. CASE ~(i < k)
    <3>1. i - Len(s) \in 1..(Len(q) - k) /\ ~(i <= Len(s)) /\ (i - Len(s)) + k = i + 1
      BY <1>1, <2>1, <2>3
    <3>2. r[i] = t[i - Len(s)]
      BY <1>6, <2>1, <3>1
    <3>3. t[i - Len(s)] = q[i + 1]
      BY <1>3, <3>1
    <3> QED
      BY <2>3, <3>2, <3>3
  <2> QED
    BY <2>2, <2>3
<1> QED
  BY <1>5, <1>7, <1>8 DEF r

\* What lies between two bounds.
LEMMA SubSeqFacts ==
  ASSUME NEW S, NEW q \in Seq(S), NEW a \in Nat, NEW b \in Nat, a <= b, b <= Len(q)
  PROVE  /\ SubSeq(q, a + 1, b) \in Seq(S) /\ Len(SubSeq(q, a + 1, b)) = b - a
         /\ \A i \in 1..(b - a) : SubSeq(q, a + 1, b)[i] = q[a + i]
<1> DEFINE l == a + 1
<1>1. l \in Int /\ b \in Int /\ l <= b + 1 /\ \A i \in l..b : q[i] \in S
  <2>1. \A i \in l..b : i \in 1..Len(q)
    OBVIOUS
  <2> QED
    BY <2>1
<1>2. b - l + 1 = b - a /\ (~(l <= b) => b - a = 0) /\ \A i \in Int : l + i - 1 = a + i
  OBVIOUS
<1> HIDE DEF l
<1>3. /\ SubSeq(q, l, b) \in Seq(S)
      /\ Len(SubSeq(q, l, b)) = IF l <= b THEN b - l + 1 ELSE 0
      /\ \A i \in 1..(b - l + 1) : SubSeq(q, l, b)[i] = q[l + i - 1]
  BY <1>1, SubSeqProperties
<1>4. Len(SubSeq(q, l, b)) = b - a
  BY <1>2, <1>3
<1>5. \A i \in 1..(b - a) : SubSeq(q, l, b)[i] = q[a + i]
  BY <1>2, <1>3
<1> QED
  BY <1>3, <1>4, <1>5 DEF l

\* The table that MapThenFoldSet fills, for every set of indices up to n.
Tabulates(g, n, base, step) ==
  g = [s \in SUBSET (1..n) |-> IF s = {} THEN base ELSE step[<<g[s \ {Max(s)}], Max(s)>>]]

LEMMA FoldTable ==
  ASSUME NEW A, NEW base \in A, NEW N \in Nat, NEW step \in [A \X (1..N) -> A]
  PROVE  \E g \in [SUBSET (1..N) -> A] : Tabulates(g, N, base, step)
<1> DEFINE Have(n) == \E g \in [SUBSET (1..n) -> A] : Tabulates(g, n, base, step)
           S == {n \in Nat : n <= N => Have(n)}
<1>0. \A n \in Nat : n \in S <=> (n <= N => Have(n))
  OBVIOUS
<1> HIDE DEF S
<1>1. Have(0)
  <2> DEFINE g == [s \in SUBSET (1..0) |-> base]
  <2>1. SUBSET (1..0) = {{}}
    OBVIOUS
  <2>2. g \in [SUBSET (1..0) -> A] /\ Tabulates(g, 0, base, step)
    BY <2>1 DEF Tabulates
  <2> QED
    BY <2>2
<1>2. ASSUME NEW n \in Nat, Have(n), n + 1 <= N PROVE Have(n + 1)
  <2>1. PICK g \in [SUBSET (1..n) -> A] : Tabulates(g, n, base, step)
    BY <1>2
  <2> DEFINE h == [s \in SUBSET (1..(n + 1)) |-> IF n + 1 \in s THEN step[<<g[s \ {n + 1}], n + 1>>] ELSE g[s]]
  <2>2. \A s \in SUBSET (1..(n + 1)) :
           /\ n + 1 \in s => s \ {n + 1} \in SUBSET (1..n)
           /\ n + 1 \notin s => s \in SUBSET (1..n)
    OBVIOUS
  <2>3. n + 1 \in 1..N
    BY <1>2
  <2>4. h \in [SUBSET (1..(n + 1)) -> A]
    BY <2>1, <2>2, <2>3
  <2>5. ASSUME NEW s \in SUBSET (1..(n + 1))
        PROVE  h[s] = IF s = {} THEN base ELSE step[<<h[s \ {Max(s)}], Max(s)>>]
    <3>1. CASE n + 1 \in s
      <4>1. Max(s) = n + 1 /\ s \ {n + 1} \in SUBSET (1..n) /\ n + 1 \notin s \ {n + 1}
        BY <3>1, MaxOfPrefix
      <4>2. h[s] = step[<<g[s \ {n + 1}], n + 1>>]
        BY <3>1
      <4>3. h[s \ {n + 1}] = g[s \ {n + 1}]
        <5>1. s \ {n + 1} \in SUBSET (1..(n + 1))
          OBVIOUS
        <5> QED
          BY <4>1, <5>1
      <4> QED
        BY <3>1, <4>1, <4>2, <4>3
    <3>2. CASE n + 1 \notin s
      <4>1. s \in SUBSET (1..n) /\ h[s] = g[s]
        BY <2>2, <3>2
      <4>2. g[s] = IF s = {} THEN base ELSE step[<<g[s \ {Max(s)}], Max(s)>>]
        BY <2>1, <4>1 DEF Tabulates
      <4>3. s \ {Max(s)} \in SUBSET (1..(n + 1)) /\ n + 1 \notin s \ {Max(s)}
        BY <3>2
      <4>4. h[s \ {Max(s)}] = g[s \ {Max(s)}]
        BY <4>3
      <4> QED
        BY <4>1, <4>2, <4>4
    <3> QED
      BY <3>1, <3>2
  <2> HIDE DEF h
  <2>6. Tabulates(h, n + 1, base, step)
    BY <2>4, <2>5 DEF Tabulates
  <2> QED
    BY <2>4, <2>6
<1> HIDE DEF Have
<1>3. \A n \in Nat : n \in S => n + 1 \in S
  BY <1>0, <1>2
<1>4. N \in S
  BY <1>0, <1>1, <1>3, NatSetInduction
<1>5. Have(N)
  BY <1>0, <1>4
<1> QED
  BY <1>5 DEF Have

-----------------------------------------------------------------------------
(***************************************************************************)
(* The rank of an element in a finite set with a strict linear order,      *)
(* given as a set of pairs: each number below the size of the set is the   *)
(* rank of exactly one element.                                            *)
(***************************************************************************)
Before(S, R, b) == {a \in S : <<a, b>> \in R}

Orders(R, S) ==
  /\ \A a \in S : <<a, a>> \notin R
  /\ \A a, b, c \in S : <<a, b>> \in R /\ <<b, c>> \in R => <<a, c>> \in R
  /\ \A a, b \in S : a # b => <<a, b>> \in R \/ <<b, a>> \in R

Numbers(rank, S) ==
  /\ rank \in [S -> 0..(Cardinality(S) - 1)]
  /\ \A a, b \in S : rank[a] = rank[b] => a = b
  /\ \A n \in 0..(Cardinality(S) - 1) : \E b \in S : rank[b] = n

LEMMA Ranks ==
  ASSUME NEW S, IsFiniteSet(S), NEW R, Orders(R, S)
  PROVE  Numbers([b \in S |-> Cardinality(Before(S, R, b))], S)
<1> DEFINE N == Cardinality(S)
           rank == [b \in S |-> Cardinality(Before(S, R, b))]
<1>1. N \in Nat
  BY FS_CardinalityType
<1>2. ASSUME NEW b \in S PROVE rank[b] \in 0..(N - 1) /\ IsFiniteSet(Before(S, R, b)) /\ rank[b] = Cardinality(Before(S, R, b))
  <2>1. Before(S, R, b) \in SUBSET (S \ {b})
    BY DEF Before, Orders
  <2>2. IsFiniteSet(S \ {b}) /\ Cardinality(S \ {b}) = N - 1
    BY FS_RemoveElement
  <2>3. IsFiniteSet(Before(S, R, b)) /\ Cardinality(Before(S, R, b)) <= N - 1
    BY <2>1, <2>2, FS_Subset
  <2>4. Cardinality(Before(S, R, b)) \in Nat
    BY <2>3, FS_CardinalityType
  <2> QED
    BY <1>1, <2>3, <2>4
<1> HIDE DEF N, rank
<1>3. ASSUME NEW a \in S, NEW b \in S, <<a, b>> \in R PROVE rank[a] < rank[b]
  <2>1. Before(S, R, a) \in SUBSET Before(S, R, b) /\ a \in Before(S, R, b) /\ a \notin Before(S, R, a)
    BY <1>3 DEF Before, Orders
  <2>2. Before(S, R, a) # Before(S, R, b)
    BY <2>1
  <2>3. Cardinality(Before(S, R, a)) <= Cardinality(Before(S, R, b)) /\ Cardinality(Before(S, R, a)) # Cardinality(Before(S, R, b))
    BY <1>2, <2>1, <2>2, FS_Subset
  <2> QED
    BY <1>1, <1>2, <2>3
<1>4. ASSUME NEW a \in S, NEW b \in S, rank[a] = rank[b] PROVE a = b
  <2>1. rank[a] \in Int /\ rank[b] \in Int
    BY <1>2
  <2>2. ~ (rank[a] < rank[b]) /\ ~ (rank[b] < rank[a])
    BY <1>4, <2>1
  <2>3. <<a, b>> \notin R /\ <<b, a>> \notin R
    BY <1>3, <2>2
  <2> QED
    BY <2>3 DEF Orders
<1>5. rank \in Injection(S, 0..(N - 1))
  <2>1. rank \in [S -> 0..(N - 1)]
    BY <1>2 DEF rank
  <2> QED
    BY <1>4, <2>1 DEF Injection, IsInjective
<1>6. IsFiniteSet(0..(N - 1)) /\ Cardinality(0..(N - 1)) = N
  BY <1>1, FS_Interval
<1>7. rank \in Surjection(S, 0..(N - 1))
  BY <1>5, <1>6, FS_Injection DEF N
<1>8. \A n \in 0..(N - 1) : \E b \in S : rank[b] = n
  BY <1>7 DEF Surjection
<1>9. rank \in [S -> 0..(N - 1)]
  BY <1>5 DEF Injection
<1>10. Numbers(rank, S)
  BY <1>4, <1>8, <1>9 DEF Numbers, N
<1> QED
  BY <1>10 DEF rank

-----------------------------------------------------------------------------
(***************************************************************************)
(* Sums over the subsets of a finite set, whatever the order in which      *)
(* SumFunctionOnSet adds.                                                  *)
(***************************************************************************)
AnyOf(s) == CHOOSE x \in s : TRUE
Sums(G, U, f) == G = [s \in SUBSET U |-> IF s = {} THEN 0 ELSE f[AnyOf(s)] + G[s \ {AnyOf(s)}]]

LEMMA WithoutAnyOf ==
  ASSUME NEW U, IsFiniteSet(U), NEW s \in SUBSET U, s # {}
  PROVE  /\ AnyOf(s) \in s /\ s \ {AnyOf(s)} \in SUBSET U
         /\ Cardinality(s) \in Nat /\ Cardinality(s \ {AnyOf(s)}) \in Nat
         /\ Cardinality(s) = Cardinality(s \ {AnyOf(s)}) + 1
<1>1. AnyOf(s) \in s
  BY DEF AnyOf
<1>2. IsFiniteSet(s)
  BY FS_Subset
<1>3. Cardinality(s) \in Nat /\ IsFiniteSet(s \ {AnyOf(s)}) /\ Cardinality(s \ {AnyOf(s)}) = Cardinality(s) - 1
  BY <1>1, <1>2, FS_CardinalityType, FS_RemoveElement
<1>4. Cardinality(s \ {AnyOf(s)}) \in Nat
  BY <1>3, FS_CardinalityType
<1> QED
  BY <1>1, <1>3, <1>4

LEMMA SumsExist ==
  ASSUME NEW U, IsFiniteSet(U), NEW f \in [U -> Nat]
  PROVE  \E G \in [SUBSET U -> Nat] : Sums(G, U, f)
<1> DEFINE Small(n) == {s \in SUBSET U : Cardinality(s) <= n}
           Fills(G, n) == \A s \in Small(n) : G[s] = IF s = {} THEN 0 ELSE f[AnyOf(s)] + G[s \ {AnyOf(s)}]
           Have(n) == \E G \in [SUBSET U -> Nat] : Fills(G, n)
           S == {n \in Nat : Have(n)}
<1>0. \A n \in Nat : n \in S <=> Have(n)
  OBVIOUS
<1> HIDE DEF S
<1>1. \A s \in SUBSET U : Cardinality(s) \in Nat /\ (Cardinality(s) = 0 <=> s = {}) /\ Cardinality(s) <= Cardinality(U)
  BY FS_Subset, FS_CardinalityType, FS_EmptySet
<1>2. Have(0)
  <2> DEFINE G == [s \in SUBSET U |-> 0]
  <2>1. G \in [SUBSET U -> Nat]
    OBVIOUS
  <2>2. \A s \in Small(0) : s = {} /\ G[s] = 0
    BY <1>1
  <2> QED
    BY <2>1, <2>2
<1>3. ASSUME NEW n \in Nat, Have(n) PROVE Have(n + 1)
  <2>1. PICK G \in [SUBSET U -> Nat] : Fills(G, n)
    BY <1>3
  <2> DEFINE Value(s) == IF s = {} THEN 0 ELSE f[AnyOf(s)] + G[s \ {AnyOf(s)}]
             H == [s \in SUBSET U |-> Value(s)]
  <2>2. ASSUME NEW s \in SUBSET U PROVE Value(s) \in Nat
    <3>1. CASE s = {}
      BY <3>1
    <3>2. CASE s # {}
      <4>1. AnyOf(s) \in U /\ s \ {AnyOf(s)} \in SUBSET U
        BY <3>2, WithoutAnyOf
      <4>2. f[AnyOf(s)] \in Nat /\ G[s \ {AnyOf(s)}] \in Nat
        BY <2>1, <4>1
      <4> QED
        BY <3>2, <4>2
    <3> QED
      BY <3>1, <3>2
  <2>3. H \in [SUBSET U -> Nat]
    BY <2>2
  <2>4. \A s \in Small(n) : H[s] = G[s]
    BY <2>1
  <2>5. ASSUME NEW s \in Small(n + 1), s # {} PROVE H[s] = f[AnyOf(s)] + H[s \ {AnyOf(s)}]
    <3>1. s \ {AnyOf(s)} \in Small(n)
      BY <1>1, <2>5, WithoutAnyOf
    <3> QED
      BY <2>4, <2>5, <3>1
  <2>6. {} \in SUBSET U /\ H[{}] = 0
    OBVIOUS
  <2> HIDE DEF H
  <2>7. Fills(H, n + 1)
    BY <2>5, <2>6
  <2> QED
    BY <2>3, <2>7
<1> HIDE DEF Have
<1>4. Cardinality(U) \in Nat
  BY FS_CardinalityType
<1>5. Cardinality(U) \in S
  BY <1>0, <1>2, <1>3, <1>4, NatSetInduction
<1>6. Have(Cardinality(U))
  BY <1>0, <1>4, <1>5
<1>7. PICK G \in [SUBSET U -> Nat] : Fills(G, Cardinality(U))
  BY <1>6 DEF Have
<1>8. \A s \in SUBSET U : G[s] = IF s = {} THEN 0 ELSE f[AnyOf(s)] + G[s \ {AnyOf(s)}]
  BY <1>1, <1>7
<1> QED
  BY <1>7, <1>8 DEF Sums

LEMMA SumsAgree ==
  ASSUME NEW U, IsFiniteSet(U), NEW V \in SUBSET U, NEW f, NEW G, NEW H, Sums(G, U, f), Sums(H, V, f)
  PROVE  \A s \in SUBSET V : G[s] = H[s]
<1> DEFINE Holds(n) == \A s \in SUBSET V : Cardinality(s) = n => G[s] = H[s]
           S == {n \in Nat : Holds(n)}
<1>0. \A n \in Nat : n \in S <=> Holds(n)
  OBVIOUS
<1> HIDE DEF S
<1>1. IsFiniteSet(V) /\ \A s \in SUBSET V : Cardinality(s) \in Nat /\ (Cardinality(s) = 0 <=> s = {})
  BY FS_Subset, FS_CardinalityType, FS_EmptySet
<1>2. \A s \in SUBSET V : G[s] = IF s = {} THEN 0 ELSE f[AnyOf(s)] + G[s \ {AnyOf(s)}]
  BY DEF Sums
<1>3. \A s \in SUBSET V : H[s] = IF s = {} THEN 0 ELSE f[AnyOf(s)] + H[s \ {AnyOf(s)}]
  BY DEF Sums
<1>4. Holds(0)
  BY <1>1, <1>2, <1>3
<1>5. ASSUME NEW n \in Nat, Holds(n) PROVE Holds(n + 1)
  <2>1. ASSUME NEW s \in SUBSET V, Cardinality(s) = n + 1 PROVE G[s] = H[s]
    <3>1. s # {}
      <4>1. n + 1 # 0
        OBVIOUS
      <4> QED
        BY <1>1, <2>1, <4>1
    <3>2. s \ {AnyOf(s)} \in SUBSET V /\ Cardinality(s \ {AnyOf(s)}) = n
      <4>1. /\ s \ {AnyOf(s)} \in SUBSET V /\ Cardinality(s \ {AnyOf(s)}) \in Nat
            /\ Cardinality(s) = Cardinality(s \ {AnyOf(s)}) + 1
        BY <1>1, <3>1, WithoutAnyOf
      <4> QED
        BY <2>1, <4>1
    <3>3. G[s \ {AnyOf(s)}] = H[s \ {AnyOf(s)}]
      BY <1>5, <3>2
    <3> QED
      BY <1>2, <1>3, <3>1, <3>3
  <2> QED
    BY <2>1
<1> HIDE DEF Holds
<1>6. \A n \in Nat : Holds(n)
  BY <1>0, <1>4, <1>5, NatSetInduction
<1> QED
  BY <1>1, <1>6 DEF Holds

\* Which element comes first does not matter.
LEMMA SumsAdd ==
  ASSUME NEW U, IsFiniteSet(U), NEW f \in [U -> Nat], NEW G \in [SUBSET U -> Nat], Sums(G, U, f),
         NEW s0 \in SUBSET U, NEW x0 \in U, x0 \notin s0
  PROVE  G[s0 \cup {x0}] = G[s0] + f[x0]
<1> DEFINE Holds(n) == \A s \in SUBSET U : Cardinality(s) = n => \A x \in U \ s : G[s \cup {x}] = G[s] + f[x]
           S == {n \in Nat : Holds(n)}
<1>0. \A n \in Nat : n \in S <=> Holds(n)
  OBVIOUS
<1> HIDE DEF S
<1>1. \A s \in SUBSET U : Cardinality(s) \in Nat /\ (Cardinality(s) = 0 <=> s = {})
  BY FS_Subset, FS_CardinalityType, FS_EmptySet
<1>2. \A s \in SUBSET U : G[s] \in Nat
  OBVIOUS
<1>3. \A s \in SUBSET U : G[s] = IF s = {} THEN 0 ELSE f[AnyOf(s)] + G[s \ {AnyOf(s)}]
  BY DEF Sums
<1>4. Holds(0)
  <2>1. ASSUME NEW x \in U PROVE G[{} \cup {x}] = G[{}] + f[x]
    <3>1. {x} \in SUBSET U /\ AnyOf({x}) = x /\ {} \cup {x} = {x} /\ {x} \ {x} = {}
      BY DEF AnyOf
    <3>2. {} \in SUBSET U /\ {x} # {}
      OBVIOUS
    <3>3. G[{x}] = f[x] + G[{}]
      BY <1>3, <3>1, <3>2
    <3> QED
      BY <1>2, <3>1, <3>2, <3>3
  <2> QED
    BY <1>1, <2>1
<1>5. ASSUME NEW n \in Nat, Holds(n) PROVE Holds(n + 1)
  <2>1. ASSUME NEW s \in SUBSET U, Cardinality(s) = n + 1, NEW x \in U \ s PROVE G[s \cup {x}] = G[s] + f[x]
    <3> DEFINE t == s \cup {x}
               c == AnyOf(t)
    <3>1. t \in SUBSET U /\ t # {}
      BY <2>1
    <3>2. c \in t
      BY <3>1 DEF AnyOf
    <3> HIDE DEF t
    <3>3. G[t] = f[c] + G[t \ {c}]
      BY <1>3, <3>1
    <3>4. f[x] \in Nat /\ G[s] \in Nat
      BY <1>2, <2>1
    <3> HIDE DEF c
    <3>5. ASSUME c = x PROVE G[t] = G[s] + f[x]
      <4>1. t \ {c} = s
        BY <2>1, <3>5 DEF t
      <4>2. G[t] = f[x] + G[s]
        BY <3>5, <3>3, <4>1
      <4> QED
        BY <3>4, <4>2
    <3>6. ASSUME c # x PROVE G[t] = G[s] + f[x]
      <4> DEFINE r == s \ {c}
      <4>1. c \in s /\ r \in SUBSET U /\ x \in U \ r /\ c \in U \ r /\ t \ {c} = r \cup {x} /\ s = r \cup {c}
        BY <2>1, <3>2, <3>6 DEF t
      <4>2. Cardinality(r) = n
        <5>1. IsFiniteSet(s)
          BY FS_Subset
        <5>2. Cardinality(s \ {c}) = Cardinality(s) - 1
          <6>1. c \in s
            BY <4>1
          <6> QED
            BY <5>1, <6>1, FS_RemoveElement
        <5> QED
          BY <2>1, <5>2
      <4> HIDE DEF r
      <4>3. G[r \cup {x}] = G[r] + f[x] /\ G[r \cup {c}] = G[r] + f[c]
        BY <1>5, <4>1, <4>2
      <4>4. G[r] \in Nat /\ f[c] \in Nat /\ f[x] \in Nat
        BY <1>2, <4>1
      <4>5. G[s] = G[r] + f[c]
        BY <4>1, <4>3
      <4>6. G[t] = f[c] + (G[r] + f[x])
        BY <3>3, <4>1, <4>3
      <4>7. G[t] = G[s] + f[x]
        BY <4>4, <4>5, <4>6
      <4> QED
        BY <4>7
    <3> QED
      BY <3>5, <3>6 DEF t
  <2> QED
    BY <2>1
<1> HIDE DEF Holds
<1>6. \A n \in Nat : Holds(n)
  BY <1>0, <1>4, <1>5, NatSetInduction
<1> QED
  BY <1>1, <1>6 DEF Holds

LEMMA SumFacts ==
  ASSUME NEW U, IsFiniteSet(U), NEW f \in [U -> Nat]
  PROVE  /\ SumFunctionOnSet(f, {}) = 0
         /\ \A s \in SUBSET U : SumFunctionOnSet(f, s) \in Nat
         /\ \A s \in SUBSET U : \A x \in U \ s : SumFunctionOnSet(f, s \cup {x}) = SumFunctionOnSet(f, s) + f[x]
<1>1. PICK G \in [SUBSET U -> Nat] : Sums(G, U, f)
  BY SumsExist
<1>2. ASSUME NEW s \in SUBSET U PROVE SumFunctionOnSet(f, s) = G[s]
  <2>1. IsFiniteSet(s)
    BY FS_Subset
  <2> DEFINE H == [t \in SUBSET s |-> G[t]]
  <2>2. H = [t \in SUBSET s |-> IF t = {} THEN 0 ELSE f[AnyOf(t)] + H[t \ {AnyOf(t)}]]
    <3>1. ASSUME NEW t \in SUBSET s PROVE G[t] = IF t = {} THEN 0 ELSE f[AnyOf(t)] + H[t \ {AnyOf(t)}]
      <4>1. t \ {AnyOf(t)} \in SUBSET s
        OBVIOUS
      <4> QED
        BY <1>1, <4>1 DEF Sums
    <3> QED
      BY <3>1
  <2> HIDE DEF H
  <2>3. PICK K : /\ SumFunctionOnSet(f, s) = K[s]
                 /\ K = [t \in SUBSET s |-> IF t = {} THEN 0 ELSE f[AnyOf(t)] + K[t \ {AnyOf(t)}]]
    <3>1. SumFunctionOnSet(f, s) = FoldFunctionOnSet(LAMBDA x, y : x + y, 0, f, s)
      BY DEF SumFunctionOnSet
    <3>2. FoldFunctionOnSet(LAMBDA x, y : x + y, 0, f, s) = MapThenFoldSet(LAMBDA x, y : x + y, 0, LAMBDA i : f[i], AnyOf, s)
      BY DEF FoldFunctionOnSet, MapThenFoldSet, AnyOf
    <3>3. \E K : /\ MapThenFoldSet(LAMBDA x, y : x + y, 0, LAMBDA i : f[i], AnyOf, s) = K[s]
                 /\ K = [t \in SUBSET s |-> IF t = {} THEN 0 ELSE f[AnyOf(t)] + K[t \ {AnyOf(t)}]]
      BY <2>2 DEF MapThenFoldSet
    <3> QED
      BY <3>1, <3>2, <3>3
  <2>4. Sums(K, s, f)
    BY <2>3 DEF Sums
  <2>5. \A t \in SUBSET s : G[t] = K[t]
    BY <1>1, <2>4, SumsAgree
  <2> QED
    BY <2>3, <2>5
<1>3. {} \in SUBSET U /\ G[{}] = 0
  BY <1>1 DEF Sums
<1>4. ASSUME NEW s \in SUBSET U, NEW x \in U \ s PROVE G[s \cup {x}] = G[s] + f[x]
  <2>1. Sums(G, U, f) /\ x \in U /\ x \notin s
    BY <1>1
  <2>2. G[s] \in Nat /\ f[x] \in Nat /\ G[s \cup {x}] \in Nat
    OBVIOUS
  <2> QED
    BY <2>1, <2>2, SumsAdd
<1> QED
  BY <1>1, <1>2, <1>3, <1>4

-----------------------------------------------------------------------------
(***************************************************************************)
(* Division                                                                *)
(***************************************************************************)
LEMMA QuotientIsUnique ==
  ASSUME NEW L \in Nat \ {0}, NEW q \in Nat, NEW d \in 0..(L - 1), NEW r, r = L * q + d
  PROVE  r \in Nat /\ r \div L = q /\ r % L = d
<1>1. L * q \in Nat
  OBVIOUS
<1>2. r \in Nat
  BY <1>1
<1> QED
  BY <1>2

LEMMA DivMod ==
  ASSUME NEW L \in Nat \ {0}, NEW r \in Nat
  PROVE  r \div L \in Nat /\ r % L \in 0..(L - 1) /\ r = L * (r \div L) + (r % L)
<1> DEFINE Splits(n) == \E q \in Nat, d \in 0..(L - 1) : n = L * q + d
           S == {n \in Nat : Splits(n)}
<1>1. \A n \in Nat : n \in S <=> Splits(n)
  OBVIOUS
<1> HIDE DEF S
<1>2. Splits(0)
  <2>1. 0 \in 0..(L - 1) /\ 0 = L * 0 + 0
    OBVIOUS
  <2> QED
    BY <2>1
<1>3. ASSUME NEW n \in Nat, Splits(n) PROVE Splits(n + 1)
  <2>1. PICK q \in Nat, d \in 0..(L - 1) : n = L * q + d
    BY <1>3
  <2>2. CASE d + 1 = L
    <3>1. n + 1 = L * (q + 1) + 0 /\ q + 1 \in Nat /\ 0 \in 0..(L - 1)
      BY <2>1, <2>2
    <3> QED
      BY <3>1
  <2>3. CASE d + 1 # L
    <3>1. n + 1 = L * q + (d + 1) /\ d + 1 \in 0..(L - 1)
      BY <2>1, <2>3
    <3> QED
      BY <3>1
  <2> QED
    BY <2>2, <2>3
<1> HIDE DEF Splits
<1>4. Splits(r)
  BY <1>1, <1>2, <1>3, NatSetInduction
<1>5. PICK q \in Nat, d \in 0..(L - 1) : r = L * q + d
  BY <1>4 DEF Splits
<1> DEFINE D == r \div L
           M == r % L
<1>6. D = q /\ M = d
  BY <1>5, QuotientIsUnique
<1> HIDE DEF D, M
<1>7. D \in Nat /\ M \in 0..(L - 1) /\ r = L * D + M
  BY <1>5, <1>6
<1> QED
  BY <1>7 DEF D, M

\* Dealing the elements of a set out by their ranks, to L in turn, gives no one
\* two more than another.
Hand(S, rank, L, m) == {b \in S : rank[b] % L = m - 1}

LEMMA DealingIsEven ==
  ASSUME NEW S, IsFiniteSet(S), NEW rank, Numbers(rank, S),
         NEW L \in Nat \ {0}, NEW i \in 1..L, NEW k \in 1..L
  PROVE  Cardinality(Hand(S, rank, L, i)) <= Cardinality(Hand(S, rank, L, k)) + 1
<1> DEFINE N == Cardinality(S)
<1>0. /\ rank \in [S -> 0..(N - 1)]
      /\ \A a, b \in S : rank[a] = rank[b] => a = b
      /\ \A n \in 0..(N - 1) : \E b \in S : rank[b] = n
      /\ N \in Nat
  BY FS_CardinalityType DEF Numbers
<1> HIDE DEF N
<1> DEFINE T(m) == {b \in S : rank[b] % L = m - 1}
           first == {b \in T(i) : rank[b] = i - 1}
           rest == T(i) \ first
           Q(b) == rank[b] \div L
           To(b) == L * (Q(b) - 1) + (k - 1)
           h == [b \in rest |-> CHOOSE c \in S : rank[c] = To(b)]
<1>1. IsFiniteSet(T(i)) /\ IsFiniteSet(T(k)) /\ IsFiniteSet(rest)
  BY FS_Subset
<1>2. Cardinality(T(i)) \in Nat /\ Cardinality(T(k)) \in Nat /\ Cardinality(rest) \in Nat
  BY <1>1, FS_CardinalityType
<1>3. ASSUME NEW b \in T(i)
      PROVE  /\ rank[b] \in Nat /\ rank[b] < N /\ Q(b) \in Nat /\ rank[b] = L * Q(b) + (i - 1)
             /\ (Q(b) = 0 => rank[b] = i - 1)
  <2>1. rank[b] \in Nat /\ rank[b] < N /\ rank[b] % L = i - 1
    BY <1>0
  <2>2. rank[b] \div L \in Nat /\ rank[b] = L * (rank[b] \div L) + (rank[b] % L)
    BY <2>1, DivMod
  <2> DEFINE q == rank[b] \div L
             d == rank[b] % L
  <2>3. q \in Nat /\ rank[b] = L * q + d /\ d = i - 1
    BY <2>1, <2>2
  <2> HIDE DEF q, d
  <2>4. q \in Nat /\ rank[b] = L * q + (i - 1)
    BY <2>3
  <2>5. q = 0 => rank[b] = i - 1
    BY <2>4
  <2> QED
    BY <2>1, <2>4, <2>5 DEF q
<1> HIDE DEF Q
<1>4. ASSUME NEW b \in rest PROVE Q(b) \in Nat \ {0}
  BY <1>3
<1>5. ASSUME NEW b \in rest PROVE To(b) \in 0..(N - 1) /\ To(b) % L = k - 1
  <2>1. /\ Q(b) - 1 \in Nat /\ rank[b] = L * Q(b) + (i - 1) /\ rank[b] < N /\ rank[b] \in Nat
        /\ k - 1 \in 0..(L - 1) /\ i - 1 \in Nat
    BY <1>3, <1>4
  <2> DEFINE p == Q(b) - 1
  <2>2. p \in Nat /\ Q(b) = p + 1
    BY <1>4
  <2> HIDE DEF p
  <2>3. L * p \in Nat /\ L * Q(b) = L * p + L
    <3>1. L * (p + 1) = L * p + L
      BY <2>2
    <3> QED
      BY <2>2, <3>1
  <2>4. To(b) = L * p + (k - 1)
    BY DEF p
  <2>5. To(b) \in Nat /\ To(b) % L = k - 1
    <3> DEFINE r == To(b)
               d == k - 1
    <3>1. p \in Nat /\ d \in 0..(L - 1) /\ r = L * p + d
      BY <2>1, <2>2, <2>4
    <3> HIDE DEF r, d
    <3>2. r \in Nat /\ r % L = d
      <4>1. L * p \in Nat /\ L \in Nat \ {0}
        BY <3>1
      <4>2. r \in Nat
        BY <3>1, <4>1
      <4> QED
        BY <3>1, <4>1, <4>2
    <3> QED
      BY <3>2 DEF r, d
  <2>6. To(b) < N
    BY <1>0, <2>1, <2>2, <2>3, <2>4
  <2> QED
    BY <1>0, <2>5, <2>6
<1>6. ASSUME NEW b \in rest PROVE h[b] \in T(k) /\ rank[h[b]] = To(b)
  <2>1. \E c \in S : rank[c] = To(b)
    BY <1>0, <1>5
  <2>2. h[b] \in S /\ rank[h[b]] = To(b)
    BY <2>1
  <2> QED
    BY <1>5, <2>2
<1> HIDE DEF h
<1>7. ASSUME NEW a \in rest, NEW b \in rest, h[a] = h[b] PROVE a = b
  <2> DEFINE p == Q(a) - 1
             q == Q(b) - 1
             d == k - 1
  <2>1. p \in Nat /\ q \in Nat /\ d \in 0..(L - 1)
    BY <1>4
  <2>2. To(a) = L * p + d /\ To(b) = L * q + d /\ To(a) = To(b)
    BY <1>6, <1>7
  <2> HIDE DEF p, q, d
  <2>3. p = q
    BY <2>1, <2>2
  <2>4. Q(a) = Q(b)
    BY <1>4, <2>3 DEF p, q
  <2>5. rank[a] = rank[b] /\ a \in S /\ b \in S
    BY <1>3, <2>4
  <2> QED
    BY <1>0, <2>5
<1>8. h \in Injection(rest, T(k))
  <2>1. h \in [rest -> T(k)]
    BY <1>6 DEF h
  <2> QED
    BY <1>7, <2>1 DEF Injection, IsInjective
<1>9. Cardinality(rest) <= Cardinality(T(k))
  BY <1>1, <1>8, FS_Injection
<1>10. Cardinality(T(i)) <= Cardinality(rest) + 1
  <2>1. CASE first = {}
    <3>1. T(i) = rest
      BY <2>1
    <3> HIDE DEF T, rest
    <3> QED
      BY <1>2, <3>1
  <2>2. CASE first # {}
    <3>1. PICK b \in T(i) : rank[b] = i - 1
      BY <2>2
    <3>2. \A c \in first : c = b
      BY <1>0, <3>1
    <3>3. rest = T(i) \ {b}
      BY <3>1, <3>2
    <3>4. Cardinality(T(i) \ {b}) = Cardinality(T(i)) - 1
      BY <1>1, <3>1, FS_RemoveElement
    <3> HIDE DEF T, rest
    <3> QED
      BY <1>2, <3>3, <3>4
  <2> QED
    BY <2>1, <2>2
<1> QED
  <2> HIDE DEF rest, T
  <2>1. Cardinality(T(i)) <= Cardinality(T(k)) + 1
    BY <1>2, <1>9, <1>10
  <2> QED
    BY <2>1 DEF T, Hand

-----------------------------------------------------------------------------
(***************************************************************************)
(* Cutting a list and dealing out its elements.                            *)
(***************************************************************************)
\* The bounds cut[0] <= ... <= cut[n].
Rises(cut, n) == cut \in [0..n -> Nat] /\ cut[0] = 0 /\ \A s \in 1..n : cut[s - 1] <= cut[s]

LEMMA Rising ==
  ASSUME NEW n \in Nat, NEW cut, Rises(cut, n)
  PROVE  \A s, t \in 0..n : s <= t => cut[s] <= cut[t]
<1> DEFINE Holds(t) == t <= n => \A s \in 0..t : cut[s] <= cut[t]
           S == {t \in Nat : Holds(t)}
<1>0. \A t \in Nat : t \in S <=> Holds(t)
  OBVIOUS
<1> HIDE DEF S
<1>1. cut \in [0..n -> Nat] /\ \A s \in 1..n : cut[s - 1] <= cut[s]
  BY DEF Rises
<1>2. Holds(0)
  BY <1>1
<1>3. ASSUME NEW t \in Nat, Holds(t) PROVE Holds(t + 1)
  <2> SUFFICES ASSUME t + 1 <= n, NEW s \in 0..(t + 1) PROVE cut[s] <= cut[t + 1]
    OBVIOUS
  <2>1. t + 1 \in 1..n /\ (t + 1) - 1 = t /\ t \in 0..n /\ t + 1 \in 0..n /\ s \in 0..n
    OBVIOUS
  <2>2. cut[t] <= cut[t + 1]
    BY <1>1, <2>1
  <2>3. CASE s = t + 1
    BY <1>1, <2>1, <2>3
  <2>4. CASE s # t + 1
    <3>1. s \in 0..t
      BY <2>4
    <3>2. cut[s] <= cut[t]
      BY <1>3, <3>1
    <3> QED
      BY <1>1, <2>1, <2>2, <3>2
  <2> QED
    BY <2>3, <2>4
<1> HIDE DEF Holds
<1>4. \A t \in Nat : Holds(t)
  BY <1>0, <1>2, <1>3, NatSetInduction
<1> QED
  BY <1>4 DEF Holds

LEMMA Located ==
  ASSUME NEW n \in Nat, NEW cut, Rises(cut, n)
  PROVE  \A p \in 1..cut[n] : \E s \in 1..n : cut[s - 1] < p /\ p <= cut[s]
<1> DEFINE Holds(t) == t <= n => \A p \in 1..cut[t] : \E s \in 1..t : cut[s - 1] < p /\ p <= cut[s]
           S == {t \in Nat : Holds(t)}
<1>0. \A t \in Nat : t \in S <=> Holds(t)
  OBVIOUS
<1> HIDE DEF S
<1>1. cut \in [0..n -> Nat] /\ cut[0] = 0
  BY DEF Rises
<1>2. Holds(0)
  BY <1>1
<1>3. ASSUME NEW t \in Nat, Holds(t) PROVE Holds(t + 1)
  <2> SUFFICES ASSUME t + 1 <= n, NEW p \in 1..cut[t + 1]
               PROVE  \E s \in 1..(t + 1) : cut[s - 1] < p /\ p <= cut[s]
    OBVIOUS
  <2>1. t + 1 \in 1..(t + 1) /\ (t + 1) - 1 = t /\ cut[t] \in Nat /\ cut[t + 1] \in Nat /\ 1..t \subseteq 1..(t + 1) /\ t <= n
    BY <1>1
  <2>2. CASE p <= cut[t]
    <3>1. p \in 1..cut[t]
      BY <2>1, <2>2
    <3> QED
      BY <1>3, <2>1, <3>1
  <2>3. CASE ~(p <= cut[t])
    <3>1. cut[t] < p /\ p <= cut[t + 1]
      BY <2>1, <2>3
    <3> QED
      BY <2>1, <3>1
  <2> QED
    BY <2>2, <2>3
<1> HIDE DEF Holds
<1>4. Holds(n)
  BY <1>0, <1>2, <1>3, NatSetInduction
<1> QED
  BY <1>4 DEF Holds

\* One place only.
LEMMA LocatedOnce ==
  ASSUME NEW n \in Nat, NEW cut, Rises(cut, n), NEW s \in 1..n, NEW t \in 1..n, NEW p \in Nat,
         cut[s - 1] < p, p <= cut[s], cut[t - 1] < p, p <= cut[t]
  PROVE  s = t
<1>1. s \in 0..n /\ t \in 0..n /\ s - 1 \in 0..n /\ t - 1 \in 0..n
  OBVIOUS
<1>2. cut[s] \in Nat /\ cut[t] \in Nat /\ cut[s - 1] \in Nat /\ cut[t - 1] \in Nat
  BY <1>1 DEF Rises
<1>3. CASE s < t
  <2>1. s <= t - 1
    BY <1>3
  <2>2. cut[s] <= cut[t - 1]
    BY <1>1, <2>1, Rising
  <2> QED
    BY <1>2, <2>2
<1>4. CASE t < s
  <2>1. t <= s - 1
    BY <1>4
  <2>2. cut[t] <= cut[s - 1]
    BY <1>1, <2>1, Rising
  <2> QED
    BY <1>2, <2>2
<1> QED
  BY <1>3, <1>4

-----------------------------------------------------------------------------
\* q lists the elements of X, each once.
IsListOf(q, X) ==
  /\ q \in Seq(X)
  /\ \A x \in X : \E i \in 1..Len(q) : q[i] = x
  /\ \A i, k \in 1..Len(q) : q[i] = q[k] => i = k

\* P deals the elements of X out: n lists, and each element in one place of one.
Deals(P, n, X) ==
  /\ DOMAIN P = 1..n /\ \A s \in 1..n : P[s] \in Seq(X)
  /\ \A x \in X : \E s \in 1..n : \E i \in 1..Len(P[s]) : P[s][i] = x
  /\ \A s, t \in 1..n : \A i \in 1..Len(P[s]), k \in 1..Len(P[t]) : P[s][i] = P[t][k] => s = t /\ i = k

LEMMA CutDeals ==
  ASSUME NEW X, NEW q, IsListOf(q, X), NEW n \in Nat, NEW cut, Rises(cut, n), cut[n] = Len(q)
  PROVE  Deals([s \in 1..n |-> SubSeq(q, cut[s - 1] + 1, cut[s])], n, X)
<1> DEFINE P == [s \in 1..n |-> SubSeq(q, cut[s - 1] + 1, cut[s])]
<1>1. q \in Seq(X) /\ Len(q) \in Nat
  BY DEF IsListOf
<1>2. ASSUME NEW s \in 1..n
      PROVE  /\ cut[s - 1] \in Nat /\ cut[s] \in Nat /\ cut[s - 1] <= cut[s] /\ cut[s] <= Len(q)
             /\ P[s] \in Seq(X) /\ Len(P[s]) = cut[s] - cut[s - 1]
             /\ \A i \in 1..Len(P[s]) : P[s][i] = q[cut[s - 1] + i]
  <2>1. s \in 0..n /\ s - 1 \in 0..n /\ n \in 0..n /\ s <= n
    OBVIOUS
  <2>2. cut[s - 1] \in Nat /\ cut[s] \in Nat /\ cut[s - 1] <= cut[s]
    BY <2>1 DEF Rises
  <2>3. cut[s] <= Len(q)
    BY <2>1, Rising
  <2>4. P[s] = SubSeq(q, cut[s - 1] + 1, cut[s])
    OBVIOUS
  <2> HIDE DEF P
  <2>5. P[s] \in Seq(X) /\ Len(P[s]) = cut[s] - cut[s - 1] /\ \A i \in 1..(cut[s] - cut[s - 1]) : P[s][i] = q[cut[s - 1] + i]
    <3> DEFINE a == cut[s - 1]
               b == cut[s]
    <3>1. a \in Nat /\ b \in Nat /\ a <= b /\ b <= Len(q) /\ q \in Seq(X) /\ P[s] = SubSeq(q, a + 1, b)
      BY <1>1, <2>2, <2>3, <2>4
    <3> HIDE DEF a, b
    <3>2. /\ SubSeq(q, a + 1, b) \in Seq(X) /\ Len(SubSeq(q, a + 1, b)) = b - a
          /\ \A i \in 1..(b - a) : SubSeq(q, a + 1, b)[i] = q[a + i]
      BY <3>1, SubSeqFacts
    <3> QED
      BY <3>1, <3>2 DEF a, b
  <2> QED
    BY <2>2, <2>3, <2>5
<1>3. DOMAIN P = 1..n
  OBVIOUS
<1> HIDE DEF P
<1>4. ASSUME NEW x \in X PROVE \E s \in 1..n : \E i \in 1..Len(P[s]) : P[s][i] = x
  <2>1. PICK p \in 1..Len(q) : q[p] = x
    BY DEF IsListOf
  <2>2. p \in 1..cut[n]
    OBVIOUS
  <2>3. PICK s \in 1..n : cut[s - 1] < p /\ p <= cut[s]
    BY <2>2, Located
  <2> DEFINE i == p - cut[s - 1]
  <2>4. i \in 1..Len(P[s]) /\ cut[s - 1] + i = p
    BY <1>2, <2>3
  <2> HIDE DEF i
  <2>5. P[s][i] = x
    BY <1>2, <2>1, <2>4
  <2> QED
    BY <2>4, <2>5
<1>5. ASSUME NEW s \in 1..n, NEW t \in 1..n, NEW i \in 1..Len(P[s]), NEW k \in 1..Len(P[t]), P[s][i] = P[t][k]
      PROVE  s = t /\ i = k
  <2> DEFINE p == cut[s - 1] + i
             r == cut[t - 1] + k
  <2>1. p \in 1..Len(q) /\ cut[s - 1] < p /\ p <= cut[s]
    <3> DEFINE a == cut[s - 1]
               b == cut[s]
    <3>1. a \in Nat /\ b \in Nat /\ a <= b /\ b <= Len(q) /\ i \in 1..(b - a)
      BY <1>2
    <3> HIDE DEF a, b
    <3>2. a + i \in 1..Len(q) /\ a < a + i /\ a + i <= b
      BY <1>1, <3>1
    <3> QED
      BY <3>2 DEF a, b
  <2>2. r \in 1..Len(q) /\ cut[t - 1] < r /\ r <= cut[t]
    <3> DEFINE a == cut[t - 1]
               b == cut[t]
    <3>1. a \in Nat /\ b \in Nat /\ a <= b /\ b <= Len(q) /\ k \in 1..(b - a)
      BY <1>2
    <3> HIDE DEF a, b
    <3>2. a + k \in 1..Len(q) /\ a < a + k /\ a + k <= b
      BY <1>1, <3>1
    <3> QED
      BY <3>2 DEF a, b
  <2>3. P[s][i] = q[p] /\ P[t][k] = q[r]
    BY <1>2
  <2>4. p = r => s = t
    <3> HIDE DEF p, r
    <3> QED
      BY <2>1, <2>2, LocatedOnce
  <2>5. p = r
    <3> HIDE DEF p, r
    <3> QED
      BY <1>5, <2>1, <2>2, <2>3 DEF IsListOf
  <2>6. i = k
    BY <1>2, <2>4, <2>5
  <2> QED
    BY <2>4, <2>5, <2>6
<1>6. Deals(P, n, X)
  BY <1>2, <1>3, <1>4, <1>5 DEF Deals
<1> QED
  BY <1>6 DEF P

-----------------------------------------------------------------------------
\* F is the lists Q[1] to Q[m] one after another.
Flat(F, Q, m, X) ==
  /\ F \in Seq(X)
  /\ \A c \in 1..m : \A k \in 1..Len(Q[c]) : \E i \in 1..Len(F) : F[i] = Q[c][k]
  /\ \A i \in 1..Len(F) : \E c \in 1..m : \E k \in 1..Len(Q[c]) : F[i] = Q[c][k]

\* No value is in two places of Q.
AllApart(Q, m) ==
  \A c, d \in 1..m : \A k \in 1..Len(Q[c]), l \in 1..Len(Q[d]) : Q[c][k] = Q[d][l] => c = d /\ k = l

LEMMA FlattenFacts ==
  ASSUME NEW X, NEW m \in Nat \ {0}, NEW Q, DOMAIN Q = 1..m, \A c \in 1..m : Q[c] \in Seq(X), AllApart(Q, m)
  PROVE  Flat(FlattenSeq(Q), Q, m, X) /\ \A i, k \in 1..Len(FlattenSeq(Q)) : FlattenSeq(Q)[i] = FlattenSeq(Q)[k] => i = k
<1> DEFINE Step(f, i) == IF i = 1 THEN Q[i] ELSE f[i - 1] \o Q[i]
           Fills(f, n) == \A i \in 1..n : f[i] = Step(f, i)
           Apart(F) == \A i, k \in 1..Len(F) : F[i] = F[k] => i = k
           Good(f, n) == \A i \in 1..n : Flat(f[i], Q, i, X) /\ Apart(f[i])
           Have(n) == n <= m => \E f \in [1..n -> Seq(X)] : Fills(f, n)
           S == {n \in Nat : Have(n)}
<1>0. \A n \in Nat : n \in S <=> Have(n)
  OBVIOUS
<1> HIDE DEF S
<1>1. Have(0)
  <2>1. [i \in 1..0 |-> <<>>] \in [1..0 -> Seq(X)]
    OBVIOUS
  <2>2. Fills([i \in 1..0 |-> <<>>], 0)
    OBVIOUS
  <2> HIDE DEF Fills
  <2> QED
    BY <2>1, <2>2
<1>2. ASSUME NEW n \in Nat, Have(n) PROVE Have(n + 1)
  <2> SUFFICES ASSUME n + 1 <= m PROVE \E f \in [1..(n + 1) -> Seq(X)] : Fills(f, n + 1)
    OBVIOUS
  <2>1. PICK f \in [1..n -> Seq(X)] : Fills(f, n)
    BY <1>2
  <2> DEFINE g == [i \in 1..(n + 1) |-> IF i = n + 1 THEN Step(f, n + 1) ELSE f[i]]
  <2>2. Step(f, n + 1) \in Seq(X)
    <3>1. n + 1 \in 1..m /\ Q[n + 1] \in Seq(X)
      OBVIOUS
    <3>2. CASE n + 1 = 1
      BY <3>1, <3>2
    <3>3. CASE n + 1 # 1
      <4>1. (n + 1) - 1 \in 1..n
        BY <3>3
      <4>2. f[(n + 1) - 1] \in Seq(X)
        BY <4>1
      <4> QED
        BY <3>1, <3>3, <4>2
    <3> QED
      BY <3>2, <3>3
  <2>3. g \in [1..(n + 1) -> Seq(X)]
    <3> HIDE DEF Step
    <3> QED
      BY <2>2
  <2>4. ASSUME NEW i \in 1..(n + 1) PROVE g[i] = Step(g, i)
    <3>1. i # 1 => i - 1 \in 1..n /\ g[i - 1] = f[i - 1]
      OBVIOUS
    <3>2. CASE i = n + 1
      BY <3>1, <3>2
    <3>3. CASE i # n + 1
      <4>1. i \in 1..n /\ g[i] = f[i]
        BY <3>3
      <4> HIDE DEF g
      <4> QED
        BY <2>1, <3>1, <4>1
    <3> QED
      BY <3>2, <3>3
  <2> HIDE DEF g, Step
  <2> QED
    BY <2>3, <2>4
<1> HIDE DEF Have
<1>3. Have(m)
  <2>1. 0 \in S /\ \A n \in Nat : n \in S => n + 1 \in S
    BY <1>0, <1>1, <1>2
  <2>2. Nat \subseteq S
    BY <2>1, NatSetInduction
  <2> QED
    BY <1>0, <2>2
<1>4. PICK f \in [1..m -> Seq(X)] : Fills(f, m)
  BY <1>3 DEF Have
<1>5. Len(Q) = m
  OBVIOUS
<1>6. f = [i \in 1..Len(Q) |-> IF i = 1 THEN Q[i] ELSE f[i - 1] \o Q[i]]
  BY <1>4, <1>5
<1>7. PICK h : FlattenSeq(Q) = h[Len(Q)] /\ h = [i \in 1..Len(Q) |-> IF i = 1 THEN Q[i] ELSE h[i - 1] \o Q[i]]
  <2>1. FlattenSeq(Q) = (CHOOSE h : h = [i \in 1..Len(Q) |-> IF i = 1 THEN Q[i] ELSE h[i - 1] \o Q[i]])[Len(Q)]
    BY <1>5 DEF FlattenSeq
  <2> QED
    BY <1>6, <2>1
<1>8. FlattenSeq(Q) = h[m] /\ \A i \in 1..m : h[i] = IF i = 1 THEN Q[i] ELSE h[i - 1] \o Q[i]
  BY <1>5, <1>7
<1> HIDE DEF Fills, Step
<1> DEFINE Sound(n) == n + 1 <= m => Flat(h[n + 1], Q, n + 1, X) /\ Apart(h[n + 1])
           T == {n \in Nat : Sound(n)}
<1>9. \A n \in Nat : n \in T <=> Sound(n)
  OBVIOUS
<1> HIDE DEF T
<1>10. Sound(0)
  <2>1. h[1] = Q[1] /\ 1 \in 1..m /\ 0 + 1 = 1
    BY <1>8
  <2>2. Flat(Q[1], Q, 1, X)
    BY <2>1 DEF Flat
  <2>3. Apart(Q[1])
    BY <2>1 DEF AllApart
  <2> HIDE DEF Apart
  <2> QED
    BY <2>1, <2>2, <2>3
<1>11. ASSUME NEW n \in Nat, Sound(n) PROVE Sound(n + 1)
  <2> SUFFICES ASSUME (n + 1) + 1 <= m PROVE Flat(h[(n + 1) + 1], Q, (n + 1) + 1, X) /\ Apart(h[(n + 1) + 1])
    OBVIOUS
  <2> DEFINE r == n + 1
             F == h[r]
             E == Q[r + 1]
  <2>1. r \in 1..m /\ r + 1 \in 1..m /\ r + 1 # 1 /\ (r + 1) - 1 = r /\ r <= m
    OBVIOUS
  <2>2. Flat(F, Q, r, X) /\ Apart(F)
    BY <1>11, <2>1
  <2> HIDE DEF r
  <2>3. h[r + 1] = F \o E
    BY <1>8, <2>1
  <2>4. F \in Seq(X) /\ E \in Seq(X)
    BY <2>1, <2>2 DEF Flat
  <2> HIDE DEF F, E
  <2> DEFINE G == F \o E
             lf == Len(F)
             le == Len(E)
  <2>5. /\ G \in Seq(X) /\ Len(G) = lf + le /\ lf \in Nat /\ le \in Nat
        /\ \A i \in 1..(lf + le) : G[i] = IF i <= lf THEN F[i] ELSE E[i - lf]
    BY <2>4, ConcatProperties
  <2> HIDE DEF G, lf, le
  <2>6. \A i \in 1..lf : i \in 1..(lf + le) /\ G[i] = F[i]
    BY <2>5
  <2>7. \A k \in 1..le : lf + k \in 1..(lf + le) /\ G[lf + k] = E[k]
    BY <2>5
  <2>8. \A i \in 1..(lf + le) : i \in 1..lf \/ (i - lf \in 1..le /\ i = lf + (i - lf))
    BY <2>5
  <2>9. \A c \in 1..(r + 1) : c \in 1..r \/ c = r + 1
    BY <2>1
  <2>10. ASSUME NEW c \in 1..(r + 1), NEW k \in 1..Len(Q[c]) PROVE \E i \in 1..(lf + le) : G[i] = Q[c][k]
    <3>1. CASE c \in 1..r
      <4>1. PICK i \in 1..lf : F[i] = Q[c][k]
        BY <2>2, <3>1 DEF Flat, lf
      <4> QED
        BY <2>6, <4>1
    <3>2. CASE c = r + 1
      <4>1. k \in 1..le /\ Q[c] = E
        BY <3>2 DEF E, le
      <4> QED
        BY <2>7, <4>1
    <3> QED
      BY <2>9, <3>1, <3>2
  <2>11. ASSUME NEW i \in 1..lf PROVE \E c \in 1..r : \E k \in 1..Len(Q[c]) : G[i] = Q[c][k]
    BY <2>2, <2>6 DEF Flat, lf
  <2>12. ASSUME NEW k \in 1..le PROVE k \in 1..Len(Q[r + 1]) /\ E[k] = Q[r + 1][k]
    BY DEF E, le
  <2>13. 1..r \subseteq 1..(r + 1) /\ r + 1 \in 1..(r + 1)
    BY <2>1
  <2>14. ASSUME NEW i \in 1..(lf + le) PROVE \E c \in 1..(r + 1) : \E k \in 1..Len(Q[c]) : G[i] = Q[c][k]
    <3>1. CASE i \in 1..lf
      BY <2>11, <2>13, <3>1
    <3>2. CASE i - lf \in 1..le /\ i = lf + (i - lf)
      <4> DEFINE k == i - lf
      <4>1. k \in 1..le /\ G[i] = E[k]
        BY <2>7, <3>2
      <4> HIDE DEF k
      <4> QED
        BY <2>12, <2>13, <4>1
    <3> QED
      BY <2>8, <3>1, <3>2
  <2>15. Flat(G, Q, r + 1, X)
    BY <2>5, <2>10, <2>14 DEF Flat
  <2>16. ASSUME NEW i \in 1..lf, NEW k \in 1..le, F[i] = E[k] PROVE FALSE
    <3>1. PICK c \in 1..r : \E l \in 1..Len(Q[c]) : F[i] = Q[c][l]
      BY <2>2 DEF Flat, lf
    <3>2. PICK l \in 1..Len(Q[c]) : F[i] = Q[c][l]
      BY <3>1
    <3>3. c \in 1..m /\ r + 1 \in 1..m /\ c # r + 1
      BY <2>1
    <3>4. k \in 1..Len(Q[r + 1]) /\ Q[c][l] = Q[r + 1][k]
      BY <2>12, <2>16, <3>2
    <3> QED
      BY <3>3, <3>4 DEF AllApart
  <2>17. \A i, k \in 1..lf : F[i] = F[k] => i = k
    BY <2>2 DEF lf
  <2>18. \A i, k \in 1..le : E[i] = E[k] => i = k
    BY <2>1, <2>12 DEF AllApart
  <2>19. ASSUME NEW i \in 1..(lf + le), NEW k \in 1..(lf + le), G[i] = G[k] PROVE i = k
    <3>1. CASE i \in 1..lf /\ k \in 1..lf
      BY <2>6, <2>17, <2>19, <3>1
    <3>2. CASE i \in 1..lf /\ k \notin 1..lf
      <4>1. k - lf \in 1..le /\ G[k] = E[k - lf] /\ G[i] = F[i]
        BY <2>6, <2>7, <2>8, <3>2
      <4> QED
        BY <2>16, <2>19, <3>2, <4>1
    <3>3. CASE i \notin 1..lf /\ k \in 1..lf
      <4>1. i - lf \in 1..le /\ G[i] = E[i - lf] /\ G[k] = F[k]
        BY <2>6, <2>7, <2>8, <3>3
      <4> QED
        BY <2>16, <2>19, <3>3, <4>1
    <3>4. CASE i \notin 1..lf /\ k \notin 1..lf
      <4>1. i - lf \in 1..le /\ G[i] = E[i - lf] /\ k - lf \in 1..le /\ G[k] = E[k - lf]
        BY <2>7, <2>8, <3>4
      <4>2. i - lf = k - lf
        BY <2>18, <2>19, <4>1
      <4> QED
        BY <2>5, <4>2
    <3> QED
      BY <3>1, <3>2, <3>3, <3>4
  <2>20. Apart(G)
    BY <2>5, <2>19
  <2> HIDE DEF Apart
  <2> QED
    BY <2>3, <2>15, <2>20 DEF G, r
<1> HIDE DEF Sound
<1>12. m - 1 \in Nat /\ (m - 1) + 1 = m
  OBVIOUS
<1>13. Sound(m - 1)
  <2>1. 0 \in T /\ \A n \in Nat : n \in T => n + 1 \in T
    BY <1>9, <1>10, <1>11
  <2>2. Nat \subseteq T
    BY <2>1, NatSetInduction
  <2> QED
    BY <1>9, <1>12, <2>2
<1>14. Flat(h[m], Q, m, X) /\ Apart(h[m])
  BY <1>12, <1>13 DEF Sound
<1> QED
  BY <1>8, <1>14

\* Y[1] to Y[m] are X in parts, and P[c] deals the part Y[c] out.
PartsDealt(P, Y, m, n, X) ==
  /\ \A c \in 1..m : Y[c] \subseteq X /\ Deals(P[c], n, Y[c])
  /\ \A x \in X : \E c \in 1..m : x \in Y[c]
  /\ \A c, d \in 1..m : c # d => Y[c] \cap Y[d] = {}

\* Dealing out each part on its own, and joining what a list gets of each.
LEMMA FlattenDeals ==
  ASSUME NEW m \in Nat \ {0}, NEW n \in Nat, NEW X, NEW Y, NEW P, PartsDealt(P, Y, m, n, X)
  PROVE  Deals([s \in 1..n |-> FlattenSeq([c \in 1..m |-> P[c][s]])], n, X)
<1> DEFINE Q(s) == [c \in 1..m |-> P[c][s]]
           D == [s \in 1..n |-> FlattenSeq(Q(s))]
<1>1. ASSUME NEW c \in 1..m PROVE Y[c] \subseteq X /\ Deals(P[c], n, Y[c])
  BY DEF PartsDealt
<1>2. ASSUME NEW c \in 1..m, NEW s \in 1..n
      PROVE  P[c][s] \in Seq(X) /\ \A i \in 1..Len(P[c][s]) : P[c][s][i] \in Y[c]
  <2>1. P[c][s] \in Seq(Y[c]) /\ Y[c] \subseteq X
    BY <1>1 DEF Deals
  <2> QED
    BY <2>1
<1> DEFINE Place(c, s, i) == c \in 1..m /\ s \in 1..n /\ i \in 1..Len(P[c][s])
           At(c, s, i) == P[c][s][i]
<1>3. ASSUME NEW c, NEW d, NEW s, NEW t, NEW i, NEW k, Place(c, s, i), Place(d, t, k), At(c, s, i) = At(d, t, k)
      PROVE  c = d /\ s = t /\ i = k
  <2>1. /\ c \in 1..m /\ s \in 1..n /\ i \in 1..Len(P[c][s])
        /\ d \in 1..m /\ t \in 1..n /\ k \in 1..Len(P[d][t]) /\ P[c][s][i] = P[d][t][k]
    BY <1>3
  <2>2. P[c][s][i] \in Y[c]
    BY <1>2, <2>1
  <2>3. P[d][t][k] \in Y[d]
    BY <1>2, <2>1
  <2>4. c = d
    BY <2>1, <2>2, <2>3 DEF PartsDealt
  <2>5. k \in 1..Len(P[c][t]) /\ P[c][s][i] = P[c][t][k]
    BY <2>1, <2>4
  <2>6. Deals(P[c], n, Y[c])
    BY <1>1, <2>1
  <2>7. s = t /\ i = k
    BY <2>1, <2>5, <2>6 DEF Deals
  <2> QED
    BY <2>4, <2>7
<1>4. ASSUME NEW s \in 1..n
      PROVE  Flat(D[s], Q(s), m, X) /\ \A i, k \in 1..Len(D[s]) : D[s][i] = D[s][k] => i = k
  <2>1. DOMAIN Q(s) = 1..m /\ \A c \in 1..m : Q(s)[c] = P[c][s]
    OBVIOUS
  <2>2. D[s] = FlattenSeq(Q(s))
    OBVIOUS
  <2> HIDE DEF Q, D
  <2>3. AllApart(Q(s), m)
    <3>1. ASSUME NEW c \in 1..m, NEW d \in 1..m, NEW k \in 1..Len(Q(s)[c]), NEW l \in 1..Len(Q(s)[d]),
                 Q(s)[c][k] = Q(s)[d][l]
          PROVE  c = d /\ k = l
      <4>1. Q(s)[c] = P[c][s] /\ Q(s)[d] = P[d][s]
        BY <2>1
      <4>2. k \in 1..Len(P[c][s]) /\ l \in 1..Len(P[d][s]) /\ P[c][s][k] = P[d][s][l]
        BY <3>1, <4>1
      <4>3. Place(c, s, k) /\ Place(d, s, l) /\ At(c, s, k) = At(d, s, l)
        BY <4>2
      <4> HIDE DEF Place, At
      <4> QED
        BY <1>3, <4>3
    <3> QED
      BY <3>1 DEF AllApart
  <2>4. \A c \in 1..m : Q(s)[c] \in Seq(X)
    BY <1>2, <2>1
  <2>5. DOMAIN Q(s) = 1..m
    BY <2>1
  <2> DEFINE R == Q(s)
  <2> HIDE DEF R
  <2>6. Flat(FlattenSeq(R), R, m, X) /\ \A i, k \in 1..Len(FlattenSeq(R)) : FlattenSeq(R)[i] = FlattenSeq(R)[k] => i = k
    <3>1. DOMAIN R = 1..m /\ (\A c \in 1..m : R[c] \in Seq(X)) /\ AllApart(R, m)
      BY <2>3, <2>4, <2>5 DEF R
    <3> QED
      BY <3>1, FlattenFacts
  <2> QED
    BY <2>2, <2>6 DEF R
<1>5. ASSUME NEW s \in 1..n PROVE D[s] \in Seq(X)
  BY <1>4 DEF Flat
<1>6. ASSUME NEW s \in 1..n, NEW c \in 1..m, NEW k \in 1..Len(P[c][s])
      PROVE  \E i \in 1..Len(D[s]) : D[s][i] = P[c][s][k]
  <2>1. Q(s)[c] = P[c][s]
    OBVIOUS
  <2> HIDE DEF Q, D
  <2>2. Flat(D[s], Q(s), m, X)
    BY <1>4
  <2>3. \A l \in 1..Len(Q(s)[c]) : \E i \in 1..Len(D[s]) : D[s][i] = Q(s)[c][l]
    BY <2>2 DEF Flat
  <2> QED
    BY <2>1, <2>3
<1>7. ASSUME NEW s \in 1..n, NEW i \in 1..Len(D[s])
      PROVE  \E c \in 1..m : \E k \in 1..Len(P[c][s]) : D[s][i] = P[c][s][k]
  <2>1. \A c \in 1..m : Q(s)[c] = P[c][s]
    OBVIOUS
  <2> HIDE DEF Q, D
  <2>2. Flat(D[s], Q(s), m, X)
    BY <1>4
  <2>3. PICK c \in 1..m : \E k \in 1..Len(Q(s)[c]) : D[s][i] = Q(s)[c][k]
    BY <2>2 DEF Flat
  <2> QED
    BY <2>1, <2>3
<1>8. DOMAIN D = 1..n
  OBVIOUS
<1> HIDE DEF Q, D
<1>9. ASSUME NEW x \in X PROVE \E s \in 1..n : \E i \in 1..Len(D[s]) : D[s][i] = x
  <2>1. PICK c \in 1..m : x \in Y[c]
    BY DEF PartsDealt
  <2>2. Deals(P[c], n, Y[c])
    BY <1>1
  <2>3. PICK s \in 1..n : \E k \in 1..Len(P[c][s]) : P[c][s][k] = x
    BY <2>1, <2>2 DEF Deals
  <2>4. PICK k \in 1..Len(P[c][s]) : P[c][s][k] = x
    BY <2>3
  <2>5. \E i \in 1..Len(D[s]) : D[s][i] = P[c][s][k]
    BY <1>6
  <2> QED
    BY <2>4, <2>5
<1>10. ASSUME NEW s \in 1..n, NEW t \in 1..n, NEW i \in 1..Len(D[s]), NEW k \in 1..Len(D[t]), D[s][i] = D[t][k]
      PROVE  s = t /\ i = k
  <2>1. PICK c \in 1..m : \E a \in 1..Len(P[c][s]) : D[s][i] = P[c][s][a]
    BY <1>7
  <2>2. PICK d \in 1..m : \E b \in 1..Len(P[d][t]) : D[t][k] = P[d][t][b]
    BY <1>7
  <2>3. PICK a \in 1..Len(P[c][s]) : D[s][i] = P[c][s][a]
    BY <2>1
  <2>4. PICK b \in 1..Len(P[d][t]) : D[t][k] = P[d][t][b]
    BY <2>2
  <2>5. P[c][s][a] = P[d][t][b]
    BY <1>10, <2>3, <2>4
  <2>6. s = t
    <3>1. Place(c, s, a) /\ Place(d, t, b) /\ At(c, s, a) = At(d, t, b)
      BY <2>5
    <3> HIDE DEF Place, At
    <3> QED
      BY <1>3, <3>1
  <2>7. \A j, l \in 1..Len(D[s]) : D[s][j] = D[s][l] => j = l
    BY <1>4
  <2>8. k \in 1..Len(D[s]) /\ D[s][i] = D[s][k]
    BY <1>10, <2>6
  <2>9. i = k
    BY <2>7, <2>8
  <2> QED
    BY <2>6, <2>9
<1>11. Deals(D, n, X)
  BY <1>5, <1>8, <1>9, <1>10 DEF Deals
<1> QED
  BY <1>11 DEF D, Q

-----------------------------------------------------------------------------
\* Place p is in batch i of a shard that is cut into batches of B.
Within(p, i, B) == i * B - B < p /\ p <= i * B

\* How many batches that makes.
CountOf(L, B) == (L + B - 1) \div B

LEMMA BatchBounds ==
  ASSUME NEW L \in Nat, NEW B \in Nat \ {0}
  PROVE  /\ \A i \in 1..CountOf(L, B) : i * B \in Nat /\ i * B - B \in Nat /\ i * B - B < L
         /\ \A p \in 1..L : \E i \in 1..CountOf(L, B) : Within(p, i, B)
         /\ \A p \in 1..L : \A i, k \in 1..CountOf(L, B) : Within(p, i, B) /\ Within(p, k, B) => i = k
<1> DEFINE count == CountOf(L, B)
           r == L + B - 1
           d == r % B
           cut == [i \in 0..count |-> i * B]
<1>1. count \in Nat /\ d \in 0..(B - 1) /\ L + B - 1 = B * count + d
  <2>1. r \in Nat /\ count = r \div B
    BY DEF CountOf
  <2>2. r \div B \in Nat /\ r % B \in 0..(B - 1) /\ r = B * (r \div B) + (r % B)
    BY <2>1, DivMod
  <2> QED
    BY <2>1, <2>2
<1> HIDE DEF d, count
<1>2. count * B \in Nat /\ L <= count * B /\ count * B <= L + B - 1
  <2>1. count * B = B * count /\ count * B \in Nat
    BY <1>1
  <2> QED
    BY <1>1, <2>1
<1>3. ASSUME NEW i \in 1..count
      PROVE  /\ i \in Nat /\ i - 1 \in Nat /\ i * B \in Nat /\ (i - 1) * B \in Nat
             /\ i * B = (i - 1) * B + B /\ i * B <= count * B
  BY <1>1
<1>4. ASSUME NEW i \in 1..count PROVE i * B \in Nat /\ i * B - B \in Nat /\ i * B - B = (i - 1) * B /\ i * B - B < L
  <2> DEFINE x == i * B
             y == (i - 1) * B
             z == count * B
  <2>1. x \in Nat /\ y \in Nat /\ x = y + B /\ x <= z /\ z \in Nat /\ z <= L + B - 1
    BY <1>2, <1>3
  <2> HIDE DEF x, y, z
  <2>2. x - B \in Nat /\ x - B = y /\ x - B < L
    BY <2>1
  <2> QED
    BY <2>1, <2>2 DEF x, y
<1>5. ASSUME NEW i \in 1..count PROVE cut[i - 1] = i * B - B /\ cut[i] = i * B
  <2>1. i - 1 \in 0..count /\ i \in 0..count
    BY <1>1
  <2>2. cut[i - 1] = (i - 1) * B /\ cut[i] = i * B
    BY <2>1
  <2> QED
    BY <1>4, <2>2
<1>6. cut[0] = 0 /\ cut[count] = count * B
  <2>1. 0 \in 0..count /\ count \in 0..count /\ 0 * B = 0
    BY <1>1
  <2> QED
    BY <2>1
<1>7. cut \in [0..count -> Nat]
  BY <1>1
<1> HIDE DEF cut
<1>8. Rises(cut, count)
  <2>1. ASSUME NEW i \in 1..count PROVE cut[i - 1] <= cut[i]
    <3> DEFINE x == i * B
    <3>1. x \in Nat /\ cut[i - 1] = x - B /\ cut[i] = x
      BY <1>4, <1>5
    <3> HIDE DEF x
    <3> QED
      BY <3>1
  <2> QED
    BY <1>6, <1>7, <2>1 DEF Rises
<1>9. ASSUME NEW p \in 1..L PROVE \E i \in 1..count : Within(p, i, B)
  <2>1. p \in 1..cut[count]
    <3> DEFINE z == count * B
    <3>1. cut[count] = z /\ z \in Nat /\ L <= z
      BY <1>2, <1>6
    <3> HIDE DEF z
    <3> QED
      BY <3>1
  <2>2. PICK i \in 1..count : cut[i - 1] < p /\ p <= cut[i]
    BY <1>1, <1>8, <2>1, Located
  <2> QED
    BY <1>5, <2>2 DEF Within
<1>10. ASSUME NEW i \in 1..count, NEW k \in 1..count, NEW p \in 1..L, Within(p, i, B), Within(p, k, B)
       PROVE  i = k
  <2>1. cut[i - 1] < p /\ p <= cut[i] /\ cut[k - 1] < p /\ p <= cut[k]
    BY <1>5, <1>10 DEF Within
  <2> QED
    BY <1>1, <1>8, <2>1, LocatedOnce
<1> QED
  BY <1>4, <1>9, <1>10 DEF count
=============================================================================
