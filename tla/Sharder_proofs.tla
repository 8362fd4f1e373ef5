--------------------------- MODULE Sharder_proofs ---------------------------
(***************************************************************************)
(* Theorems about the sharder: BatchDistribution, for any batches, workers *)
(* and limits, and Sharding, for any dataset, shards and batch size.       *)
(***************************************************************************)
EXTENDS BatchDistribution, Sharding, DataLemmas, FiniteSetTheorems

-----------------------------------------------------------------------------
(* BatchDistribution: the records of who has a batch. *)
Keys == Downloaders \X Batches
Records == Assignments \cup {Unassigned}
States == [assignments : [Keys -> Records], owner : [Batches -> Downloaders \cup {Nobody}]]

\* The records and the owners at one moment: the owner's record is current.
OwnersCurrent(st) ==
  \A b \in Batches : st.owner[b] # Nobody => st.assignments[<<st.owner[b], b>>].status \notin {"none", "reassigned"}

\* b has an owner who has used up its retries, in st.
Exhausted(st, b) == st.owner[b] # Nobody /\ st.assignments[<<st.owner[b], b>>].retries >= RetryLimit

LEMMA RecordFields ==
  ASSUME NEW r \in Records
  PROVE  r.retries \in Nat /\ r.status \in Known \cup {"none"} /\ "pending" \in Known /\ "reassigned" \in Known
  BY DEF Records, Assignments, Unassigned, Known

\* reassign_failed_batch leaves a batch alone, or makes new its owner with a
\* record that waits, as the old owner's did.
LEMMA ReassignedParts ==
  ASSUME NEW st \in States, NEW b \in Batches, NEW new \in Downloaders
  PROVE  /\ Reassigned(st, b, new) \in States
         /\ \/ Reassigned(st, b, new) = st
            \/ /\ ~Exhausted(st, b) /\ st.owner[b] # Nobody
               /\ Reassigned(st, b, new).owner = [st.owner EXCEPT ![b] = new]
               /\ Reassigned(st, b, new).assignments[<<new, b>>].status = "pending"
               /\ \A w \in Downloaders, c \in Batches : c # b =>
                    Reassigned(st, b, new).assignments[<<w, c>>] = st.assignments[<<w, c>>]
<1> DEFINE old == st.owner[b]
<1>1. CASE old = Nobody \/ st.assignments[<<old, b>>].retries >= RetryLimit
  BY <1>1 DEF Reassigned
<1>2. CASE ~(old = Nobody \/ st.assignments[<<old, b>>].retries >= RetryLimit)
  <2> DEFINE k == <<old, b>>
             f == st.assignments
             r == [f[k] EXCEPT !.status = "reassigned"]
             p == [status |-> "pending", retries |-> f[k].retries]
             g == [f EXCEPT ![k] = r, ![<<new, b>>] = p]
  <2>1. old \in Downloaders /\ k \in Keys /\ <<new, b>> \in Keys /\ f \in [Keys -> Records]
    BY <1>2 DEF States, Keys
  <2>2. f[k].retries \in Nat
    BY <2>1, RecordFields
  <2>3. r \in Records
    <3>1. CASE f[k] \in Assignments
      BY <3>1 DEF Records, Assignments
    <3>2. CASE f[k] = Unassigned
      BY <3>2 DEF Records, Assignments, Unassigned
    <3> QED
      BY <2>1, <3>1, <3>2 DEF Records
  <2>4. p \in Records /\ p.status = "pending"
    BY <2>2 DEF Records, Assignments
  <2>5. Reassigned(st, b, new) = [assignments |-> g, owner |-> [st.owner EXCEPT ![b] = new]]
    BY <1>2 DEF Reassigned
  <2> HIDE DEF r, p
  <2>6. g \in [Keys -> Records] /\ g[<<new, b>>] = p /\ \A w \in Downloaders, c \in Batches : c # b => g[<<w, c>>] = f[<<w, c>>]
    BY <2>1, <2>3, <2>4 DEF Keys
  <2>7. [st.owner EXCEPT ![b] = new] \in [Batches -> Downloaders \cup {Nobody}]
    BY DEF States
  <2>8. ~Exhausted(st, b)
    BY <1>2 DEF Exhausted
  <2> HIDE DEF g, k, f
  <2>9. Reassigned(st, b, new) \in States
    BY <2>5, <2>6, <2>7 DEF States
  <2> QED
    BY <1>2, <2>4, <2>5, <2>6, <2>8, <2>9 DEF f
<1> QED
  BY <1>1, <1>2

\* The states in which the owners' records are current and the batches that
\* were exhausted in st0 still are, with the owners they had.
Sound(st0) ==
  {st \in States : /\ OwnersCurrent(st0) => OwnersCurrent(st)
                   /\ \A b \in Batches : Exhausted(st0, b) => Exhausted(st, b) /\ st.owner[b] = st0.owner[b]}

LEMMA ReassignedIsSound ==
  ASSUME NEW st0 \in States, NEW st \in Sound(st0), NEW b \in Batches, NEW new \in Downloaders
  PROVE  Reassigned(st, b, new) \in Sound(st0)
<1> DEFINE next == Reassigned(st, b, new)
<1>1. st \in States
  BY DEF Sound
<1>2. next \in States
  BY <1>1, ReassignedParts
<1>3. CASE next = st
  BY <1>3
<1>4. CASE next # st
  <2>1. /\ ~Exhausted(st, b) /\ next.owner = [st.owner EXCEPT ![b] = new]
        /\ next.assignments[<<new, b>>].status = "pending"
        /\ \A w \in Downloaders, c \in Batches : c # b => next.assignments[<<w, c>>] = st.assignments[<<w, c>>]
    BY <1>1, <1>4, ReassignedParts
  <2> HIDE DEF next
  <2>2. next.owner[b] = new /\ \A c \in Batches : c # b => next.owner[c] = st.owner[c]
    BY <1>1, <2>1 DEF States
  <2>3. \A c \in Batches : st.owner[c] # Nobody => st.owner[c] \in Downloaders
    BY <1>1 DEF States
  <2>4. OwnersCurrent(st) => OwnersCurrent(next)
    BY <2>1, <2>2, <2>3 DEF OwnersCurrent
  <2>5. \A c \in Batches : c # b /\ Exhausted(st, c) => Exhausted(next, c)
    BY <2>1, <2>2, <2>3 DEF Exhausted
  <2>6. Exhausted(st0, b) => FALSE
    BY <2>1 DEF Sound
  <2> QED
    BY <1>2, <2>2, <2>4, <2>5, <2>6 DEF Sound, next
<1> QED
  BY <1>3, <1>4

LEMMA WorkerListsAreLists ==
  ASSUME NEW ws \in WorkerLists
  PROVE  ws \in Seq(Downloaders) /\ Len(ws) > 0
<1>1. PICK W \in (SUBSET Downloaders) \ {{}} : ws \in SetToSeqs(W)
  BY DEF WorkerLists
<1>2. IsFiniteSet(W) /\ Cardinality(W) \in Nat /\ Cardinality(W) # 0
  BY <1>1, DistributionParameters, FS_Subset, FS_CardinalityType, FS_EmptySet
<1>3. ws \in [1..Cardinality(W) -> W]
  BY <1>1 DEF SetToSeqs
<1>4. ws \in Seq(W) /\ Len(ws) = Cardinality(W)
  BY <1>2, <1>3
<1> QED
  BY <1>1, <1>2, <1>4

\* auto_reassign_failed_batches is a sequence of reassignments.
LEMMA AutoReassignIsSound ==
  ASSUME Now \in States, NEW ws \in WorkerLists, AutoReassign(ws)
  PROVE  /\ [assignments |-> assignments', owner |-> owner'] \in Sound(Now)
         /\ UNCHANGED <<stored, rounds>>
<1> DEFINE Turn(i) == ws[((i - 1) % Len(ws)) + 1]
           n == Cardinality(FailedRecords)
<1>1. IsFiniteSet(FailedRecords) /\ n \in Nat
  <2>1. IsFiniteSet(Batches)
    <3>1. Len(ShardOf) \in Nat /\ Batches = 1..Len(ShardOf)
      BY DistributionParameters DEF Batches
    <3> QED
      BY <3>1, FS_Interval
  <2>2. IsFiniteSet(Downloaders \X Batches)
    BY <2>1, DistributionParameters, FS_Product
  <2>3. FailedRecords \subseteq Downloaders \X Batches
    BY DEF FailedRecords
  <2> QED
    BY <2>2, <2>3, FS_Subset, FS_CardinalityType
<1>2. PICK failed \in SetToSeqs(FailedRecords) :
        LET Move(st, i) == IF Turn(i) = failed[i][1] THEN st ELSE Reassigned(st, failed[i][2], Turn(i))
        IN Become(FoldLeftDomain(Move, Now, failed))
  BY DEF AutoReassign
<1> DEFINE Move(st, i) == IF Turn(i) = failed[i][1] THEN st ELSE Reassigned(st, failed[i][2], Turn(i))
           step == [p \in Sound(Now) \X (1..n) |-> Move(p[1], p[2])]
<1>3. failed \in [1..n -> FailedRecords] /\ DOMAIN failed = 1..n
  BY <1>2 DEF SetToSeqs
<1>4. ASSUME NEW i \in 1..n PROVE Turn(i) \in Downloaders /\ failed[i][2] \in Batches
  <2>1. ws \in Seq(Downloaders) /\ Len(ws) \in Nat /\ Len(ws) > 0
    BY WorkerListsAreLists
  <2>2. ((i - 1) % Len(ws)) + 1 \in 1..Len(ws)
    BY <1>1, <2>1
  <2>3. failed[i] \in Downloaders \X Batches
    BY <1>3 DEF FailedRecords
  <2> QED
    BY <2>1, <2>2, <2>3
<1> HIDE DEF Turn
<1>5. \A st \in Sound(Now), i \in 1..n : Move(st, i) \in Sound(Now)
  BY <1>4, ReassignedIsSound
<1>6. Now \in Sound(Now)
  BY DEF Sound
<1> HIDE DEF Move
<1>7. step \in [Sound(Now) \X (1..n) -> Sound(Now)]
  BY <1>5
<1>8. PICK g \in [SUBSET (1..n) -> Sound(Now)] : Tabulates(g, n, Now, step)
  BY <1>1, <1>6, <1>7, FoldTable
<1>9. g = [s \in SUBSET (1..n) |-> IF s = {} THEN Now ELSE Move(g[s \ {Max(s)}], Max(s))]
  <2>1. ASSUME NEW s \in SUBSET (1..n), s # {} PROVE step[<<g[s \ {Max(s)}], Max(s)>>] = Move(g[s \ {Max(s)}], Max(s))
    <3>1. Max(s) \in 1..n /\ s \ {Max(s)} \in SUBSET (1..n)
      BY <1>1, <2>1, MaxIsIn
    <3>2. g[s \ {Max(s)}] \in Sound(Now)
      BY <1>8, <3>1
    <3> QED
      BY <3>1, <3>2
  <2> HIDE DEF step
  <2> QED
    BY <1>8, <2>1 DEF Tabulates
<1>10. PICK h : /\ FoldLeftDomain(Move, Now, failed) = h[1..n]
                /\ h = [s \in SUBSET (1..n) |-> IF s = {} THEN Now ELSE Move(h[s \ {Max(s)}], Max(s))]
  <2> DEFINE q == [i \in DOMAIN failed |-> i]
  <2>1. DOMAIN q = 1..n /\ \A i \in 1..n : q[i] = i
    BY <1>3
  <2>2. FoldLeftDomain(Move, Now, failed) = FoldLeft(Move, Now, q)
    BY DEF FoldLeftDomain
  <2> HIDE DEF q
  <2>3. \A s \in SUBSET (1..n) : s # {} => q[Max(s)] = Max(s)
    BY <1>1, <2>1, MaxIsIn
  <2>4. g = [s \in SUBSET DOMAIN q |-> IF s = {} THEN Now ELSE Move(g[s \ {Max(s)}], q[Max(s)])]
    BY <1>9, <2>1, <2>3
  <2>5. PICK h : /\ FoldLeft(Move, Now, q) = h[DOMAIN q]
                 /\ h = [s \in SUBSET DOMAIN q |-> IF s = {} THEN Now ELSE Move(h[s \ {Max(s)}], q[Max(s)])]
    BY <2>4 DEF FoldLeft, MapThenFoldSet
  <2>6. h = [s \in SUBSET (1..n) |-> IF s = {} THEN Now ELSE Move(h[s \ {Max(s)}], Max(s))]
    BY <2>1, <2>3, <2>5
  <2>7. FoldLeftDomain(Move, Now, failed) = h[1..n]
    BY <2>1, <2>2, <2>5
  <2> QED
    BY <2>6, <2>7
<1>11. h[{}] \in Sound(Now)
  BY <1>6, <1>10
<1>12. ASSUME NEW s \in SUBSET (1..n), s # {}, h[s \ {Max(s)}] \in Sound(Now) PROVE h[s] \in Sound(Now)
  <2>1. Max(s) \in 1..n
    BY <1>1, <1>12, MaxIsIn
  <2>2. h[s] = Move(h[s \ {Max(s)}], Max(s))
    BY <1>10, <1>12
  <2> QED
    BY <1>5, <1>12, <2>1, <2>2
<1>13. h[1..n] \in Sound(Now)
  BY <1>1, <1>11, <1>12, TableValues
<1>14. Become(h[1..n])
  BY <1>2, <1>10 DEF Move
<1>15. [assignments |-> assignments', owner |-> owner'] = h[1..n]
  BY <1>13, <1>14 DEF Become, Sound, States
<1> QED
  BY <1>13, <1>14, <1>15 DEF Become


-----------------------------------------------------------------------------
(***************************************************************************)
(* The strategies.                                                         *)
(***************************************************************************)
Load(share) == SumFunctionOnSet(SizeOf, share)

\* Every batch of bs is in one of the shares and in no two of them.
Partition(shares, bs) ==
  /\ UNION Range(shares) = bs
  /\ \A i, k \in DOMAIN shares : i # k => shares[i] \cap shares[k] = {}

\* No share weighs more than another and one batch of its own.
Balanced(shares) ==
  \A i, k \in DOMAIN shares : shares[i] # {} => \E b \in shares[i] : Load(shares[i]) <= Load(shares[k]) + SizeOf[b]

LEMMA BatchesAreNumbers == Batches \subseteq Nat /\ IsFiniteSet(Batches) /\ SizeOf \in [Batches -> Nat]
<1>1. Len(ShardOf) \in Nat /\ Batches = 1..Len(ShardOf)
  BY DistributionParameters DEF Batches
<1>2. IsFiniteSet(Batches)
  BY <1>1, FS_Interval
<1> QED
  BY <1>1, <1>2, DistributionParameters DEF Batches

\* Both orders number the batches from 0, without a gap.
LEMMA NumberRanks ==
  ASSUME NEW bs \in SUBSET Batches
  PROVE  Numbers([b \in bs |-> ByNumber(bs, b)], bs)
<1> DEFINE R == {p \in bs \X bs : p[1] < p[2]}
<1>1. IsFiniteSet(bs) /\ Cardinality(bs) \in Nat /\ bs \subseteq Nat
  BY BatchesAreNumbers, FS_Subset, FS_CardinalityType
<1>2. \A a, b \in bs : <<a, b>> \in R <=> a < b
  OBVIOUS
<1> HIDE DEF R
<1>3. Orders(R, bs)
  BY <1>1, <1>2 DEF Orders
<1>4. [b \in bs |-> ByNumber(bs, b)] = [b \in bs |-> Cardinality(Before(bs, R, b))]
  <2>1. \A b \in bs : {a \in bs : a < b} = Before(bs, R, b)
    BY <1>2 DEF Before
  <2> QED
    BY <2>1 DEF ByNumber
<1> QED
  BY <1>1, <1>3, <1>4, Ranks

LEMMA SizeRanks ==
  ASSUME NEW bs \in SUBSET Batches
  PROVE  Numbers([b \in bs |-> BySize(bs, b)], bs)
<1> DEFINE Larger(a, b) == SizeOf[a] > SizeOf[b] \/ (SizeOf[a] = SizeOf[b] /\ a < b)
           R == {p \in bs \X bs : Larger(p[1], p[2])}
<1>1. IsFiniteSet(bs) /\ Cardinality(bs) \in Nat /\ bs \subseteq Nat /\ \A b \in bs : SizeOf[b] \in Nat
  BY BatchesAreNumbers, FS_Subset, FS_CardinalityType
<1>2. \A a, b \in bs : <<a, b>> \in R <=> Larger(a, b)
  OBVIOUS
<1> HIDE DEF R
<1>3. Orders(R, bs)
  BY <1>1, <1>2 DEF Orders
<1>4. [b \in bs |-> BySize(bs, b)] = [b \in bs |-> Cardinality(Before(bs, R, b))]
  <2>1. \A b \in bs : {a \in bs : Larger(a, b)} = Before(bs, R, b)
    BY <1>2 DEF Before
  <2> QED
    BY <2>1 DEF BySize
<1> QED
  BY <1>1, <1>3, <1>4, Ranks

\* Round robin, whatever the batches and however many the workers.
LEMMA RoundRobinIsFair ==
  ASSUME NEW ws \in WorkerLists, NEW bs \in SUBSET Batches
  PROVE  /\ Partition(RoundRobin(ws, bs), bs)
         /\ \A i, k \in DOMAIN ws : Cardinality(RoundRobin(ws, bs)[i]) <= Cardinality(RoundRobin(ws, bs)[k]) + 1
<1> DEFINE L == Len(ws)
           rank == [b \in bs |-> ByNumber(bs, b)]
           rr == RoundRobin(ws, bs)
<1>1. L \in Nat \ {0} /\ DOMAIN ws = 1..L
  BY WorkerListsAreLists
<1>2. IsFiniteSet(bs) /\ Numbers(rank, bs)
  BY BatchesAreNumbers, NumberRanks, FS_Subset
<1>3. rr = [i \in 1..L |-> {b \in bs : rank[b] % L = i - 1}]
  BY <1>1 DEF RoundRobin
<1> HIDE DEF L, rank, rr
<1>4. ASSUME NEW b \in bs PROVE rank[b] % L \in 0..(L - 1)
  <2>1. rank[b] \in Nat
    BY <1>2 DEF Numbers
  <2> QED
    BY <1>1, <2>1, DivMod
<1>5. UNION Range(rr) = bs
  <2>1. ASSUME NEW b \in bs PROVE b \in UNION Range(rr)
    <3>1. (rank[b] % L) + 1 \in 1..L /\ rank[b] % L = ((rank[b] % L) + 1) - 1
      BY <1>1, <1>4
    <3>2. b \in rr[(rank[b] % L) + 1]
      BY <1>3, <3>1
    <3> QED
      BY <1>3, <3>1, <3>2 DEF Range
  <2>2. \A i \in DOMAIN rr : rr[i] \subseteq bs
    BY <1>3
  <2> QED
    BY <2>1, <2>2 DEF Range
<1>6. ASSUME NEW i \in 1..L, NEW k \in 1..L, i # k PROVE rr[i] \cap rr[k] = {}
  <2> DEFINE c == i - 1
             d == k - 1
  <2>1. c # d
    BY <1>1, <1>6
  <2>2. rr[i] = {b \in bs : rank[b] % L = c} /\ rr[k] = {b \in bs : rank[b] % L = d}
    BY <1>3
  <2> HIDE DEF c, d
  <2> QED
    BY <2>1, <2>2
<1>7. ASSUME NEW i \in 1..L, NEW k \in 1..L PROVE Cardinality(rr[i]) <= Cardinality(rr[k]) + 1
  <2>1. rr[i] = Hand(bs, rank, L, i) /\ rr[k] = Hand(bs, rank, L, k)
    BY <1>3 DEF Hand
  <2>2. Cardinality(Hand(bs, rank, L, i)) <= Cardinality(Hand(bs, rank, L, k)) + 1
    BY <1>1, <1>2, DealingIsEven
  <2> QED
    BY <2>1, <2>2
<1>8. DOMAIN rr = 1..L
  BY <1>3
<1>9. Partition(rr, bs)
  BY <1>5, <1>6, <1>8 DEF Partition
<1> QED
  BY <1>1, <1>7, <1>9 DEF rr

LEMMA LoadFacts ==
  /\ Load({}) = 0
  /\ \A s \in SUBSET Batches : Load(s) \in Nat
  /\ \A s \in SUBSET Batches : \A b \in Batches \ s : Load(s \cup {b}) = Load(s) + SizeOf[b]
<1>1. /\ SumFunctionOnSet(SizeOf, {}) = 0
      /\ \A s \in SUBSET Batches : SumFunctionOnSet(SizeOf, s) \in Nat
      /\ \A s \in SUBSET Batches : \A b \in Batches \ s :
           SumFunctionOnSet(SizeOf, s \cup {b}) = SumFunctionOnSet(SizeOf, s) + SizeOf[b]
  BY BatchesAreNumbers, SumFacts
<1> QED
  BY <1>1 DEF Load

\* The worker with the fewest samples, the first of them.
Least(shares) == SelectInSeq(shares, LAMBDA s : \A i \in DOMAIN shares : Load(s) <= Load(shares[i]))

LEMMA LeastIsLeast ==
  ASSUME NEW L \in Nat \ {0}, NEW shares \in [1..L -> SUBSET Batches]
  PROVE  Least(shares) \in 1..L /\ \A i \in 1..L : Load(shares[Least(shares)]) <= Load(shares[i])
<1> DEFINE load == [i \in 1..L |-> Load(shares[i])]
           loads == {load[i] : i \in 1..L}
           I == {k \in 1..Len(shares) : \A i \in DOMAIN shares : Load(shares[k]) <= Load(shares[i])}
<1>1. \A i \in 1..L : load[i] \in Nat /\ load[i] = Load(shares[i])
  BY LoadFacts
<1> HIDE DEF load
<1>2. loads \in SUBSET Nat /\ loads # {}
  <2>1. 1 \in 1..L
    OBVIOUS
  <2> QED
    BY <1>1, <2>1
<1>3. PICK k \in 1..L : load[k] = Min(loads)
  BY <1>2, MinIsIn
<1>4. \A n \in loads : Min(loads) =< n
  BY <1>2, MinIsIn
<1>5. \A i \in 1..L : load[k] <= load[i]
  BY <1>3, <1>4
<1>6. DOMAIN shares = 1..L /\ Len(shares) = L
  OBVIOUS
<1>7. k \in I /\ I \in SUBSET (1..L) /\ I \in SUBSET Nat
  BY <1>1, <1>5, <1>6
<1>8. Least(shares) = Min(I)
  BY <1>7 DEF Least, SelectInSeq
<1>9. Min(I) \in I
  BY <1>7, MinIsIn
<1> HIDE DEF I
<1>10. Least(shares) \in I
  BY <1>8, <1>9
<1> QED
  BY <1>6, <1>10 DEF I

\* A batch more goes to the least share and leaves the shares balanced.
LEMMA GiveKeeps ==
  ASSUME NEW L \in Nat \ {0}, NEW bs \in SUBSET Batches, NEW b \in Batches \ bs,
         NEW shares \in [1..L -> SUBSET Batches], Partition(shares, bs), Balanced(shares)
  PROVE  LET next == [shares EXCEPT ![Least(shares)] = @ \cup {b}]
         IN next \in [1..L -> SUBSET Batches] /\ Partition(next, bs \cup {b}) /\ Balanced(next)
<1> DEFINE least == Least(shares)
           next == [shares EXCEPT ![least] = @ \cup {b}]
<1>1. least \in 1..L /\ \A i \in 1..L : Load(shares[least]) <= Load(shares[i])
  BY LeastIsLeast
<1> HIDE DEF least
<1>2. next \in [1..L -> SUBSET Batches]
  BY <1>1
<1>3. next[least] = shares[least] \cup {b} /\ \A i \in 1..L : i # least => next[i] = shares[i]
  BY <1>1
<1> HIDE DEF next
<1>4. \A i \in 1..L : shares[i] \subseteq bs /\ b \notin shares[i]
  BY DEF Partition, Range
<1>5. Partition(next, bs \cup {b})
  <2>1. UNION Range(next) = bs \cup {b}
    <3>1. ASSUME NEW c \in bs \cup {b} PROVE c \in UNION Range(next)
      <4>1. CASE c = b
        BY <1>1, <1>2, <1>3, <4>1 DEF Range
      <4>2. CASE c \in bs
        <5>1. PICK i \in 1..L : c \in shares[i]
          BY <4>2 DEF Partition, Range
        <5>2. c \in next[i]
          BY <1>3, <5>1
        <5> QED
          BY <1>2, <5>1, <5>2 DEF Range
      <4> QED
        BY <4>1, <4>2
    <3>2. \A i \in 1..L : next[i] \subseteq bs \cup {b}
      BY <1>3, <1>4
    <3> QED
      BY <1>2, <3>1, <3>2 DEF Range
  <2>2. ASSUME NEW i \in 1..L, NEW k \in 1..L, i # k PROVE next[i] \cap next[k] = {}
    <3>1. shares[i] \cap shares[k] = {}
      BY <2>2 DEF Partition
    <3> QED
      BY <1>3, <1>4, <2>2, <3>1
  <2> QED
    BY <1>2, <2>1, <2>2 DEF Partition
<1>6. SizeOf[b] \in Nat /\ \A i \in 1..L : Load(shares[i]) \in Nat /\ \A c \in shares[i] : SizeOf[c] \in Nat
  BY BatchesAreNumbers, LoadFacts
<1>7. Load(next[least]) = Load(shares[least]) + SizeOf[b]
  BY <1>1, <1>3, <1>4, LoadFacts
<1>8. \A i \in 1..L : Load(next[i]) \in Nat /\ Load(shares[i]) <= Load(next[i])
  <2>1. ASSUME NEW i \in 1..L PROVE Load(next[i]) \in Nat /\ Load(shares[i]) <= Load(next[i])
    <3>1. CASE i = least
      BY <1>1, <1>6, <1>7, <3>1
    <3>2. CASE i # least
      BY <1>3, <1>6, <3>2
    <3> QED
      BY <3>1, <3>2
  <2> QED
    BY <2>1
<1>9. ASSUME NEW i \in 1..L, NEW k \in 1..L, next[i] # {}
      PROVE \E c \in next[i] : Load(next[i]) <= Load(next[k]) + SizeOf[c]
  <2>1. CASE i = least
    <3>1. Load(shares[least]) <= Load(next[k]) /\ Load(shares[least]) \in Nat /\ Load(next[k]) \in Nat
      <4>1. Load(shares[least]) <= Load(shares[k])
        BY <1>1
      <4> QED
        BY <1>1, <1>6, <1>8, <4>1
    <3>2. Load(next[i]) <= Load(next[k]) + SizeOf[b]
      BY <1>6, <1>7, <2>1, <3>1
    <3> QED
      BY <1>3, <2>1, <3>2
  <2>2. CASE i # least
    <3>1. next[i] = shares[i]
      BY <1>3, <2>2
    <3>2. PICK c \in shares[i] : Load(shares[i]) <= Load(shares[k]) + SizeOf[c]
      BY <1>9, <3>1 DEF Balanced
    <3>3. Load(shares[k]) <= Load(next[k]) /\ SizeOf[c] \in Nat
      BY <1>6, <1>8
    <3>4. Load(shares[i]) <= Load(next[k]) + SizeOf[c]
      BY <1>6, <1>8, <3>2, <3>3
    <3> QED
      BY <3>1, <3>2, <3>4
  <2> QED
    BY <2>1, <2>2
<1>10. Balanced(next)
  BY <1>2, <1>9 DEF Balanced
<1> QED
  BY <1>2, <1>5, <1>10 DEF next, least

\* Load balancing deals the batches in the order of their sizes, one at a time.
LEMMA LoadBalancedIsFair ==
  ASSUME NEW ws \in WorkerLists, NEW bs \in SUBSET Batches
  PROVE  /\ LoadBalanced(ws, bs) \in [DOMAIN ws -> SUBSET Batches]
         /\ Partition(LoadBalanced(ws, bs), bs) /\ Balanced(LoadBalanced(ws, bs))
<1> DEFINE L == Len(ws)
           n == Cardinality(bs)
           rank == [b \in bs |-> BySize(bs, b)]
           sorted == [m \in 1..n |-> CHOOSE b \in bs : BySize(bs, b) = m - 1]
           Give(shares, b) == [shares EXCEPT ![Least(shares)] = @ \cup {b}]
           base == [i \in DOMAIN ws |-> {}]
           A == [1..L -> SUBSET Batches]
           Dealt(s) == {sorted[m] : m \in s}
           step == [p \in A \X (1..n) |-> Give(p[1], sorted[p[2]])]
<1>1. L \in Nat \ {0} /\ DOMAIN ws = 1..L
  BY WorkerListsAreLists
<1>2. n \in Nat /\ Numbers(rank, bs)
  BY BatchesAreNumbers, SizeRanks, FS_Subset, FS_CardinalityType
<1>3. ASSUME NEW m \in 1..n PROVE sorted[m] \in bs /\ rank[sorted[m]] = m - 1
  <2>1. m - 1 \in 0..(n - 1)
    BY <1>2
  <2>2. \E b \in bs : BySize(bs, b) = m - 1
    BY <1>2, <2>1 DEF Numbers
  <2> QED
    BY <2>2
<1>4. LoadBalanced(ws, bs) = FoldLeft(Give, base, sorted)
  BY DEF LoadBalanced, Least, Load
<1>5. DOMAIN sorted = 1..n
  OBVIOUS
<1> HIDE DEF L, n, rank, sorted
<1>6. \A m, k \in 1..n : m # k => sorted[m] # sorted[k]
  BY <1>2, <1>3
<1>7. Dealt(1..n) = bs
  <2>1. ASSUME NEW b \in bs PROVE \E m \in 1..n : b = sorted[m]
    <3>1. rank[b] + 1 \in 1..n /\ (rank[b] + 1) - 1 = rank[b]
      BY <1>2 DEF Numbers, n
    <3>2. rank[sorted[rank[b] + 1]] = rank[b] /\ sorted[rank[b] + 1] \in bs
      BY <1>3, <3>1
    <3>3. sorted[rank[b] + 1] = b
      BY <1>2, <3>2 DEF Numbers
    <3> QED
      BY <3>1, <3>3
  <2> QED
    BY <1>3, <2>1
<1>8. base \in A
  BY <1>1
<1>9. \A shares \in A, m \in 1..n : Give(shares, sorted[m]) \in A
  BY <1>1, <1>3, LeastIsLeast
<1> HIDE DEF Give, base
<1>10. step \in [A \X (1..n) -> A]
  BY <1>9
<1>11. PICK g \in [SUBSET (1..n) -> A] : Tabulates(g, n, base, step)
  BY <1>2, <1>8, <1>10, FoldTable
<1>12. g = [s \in SUBSET (1..n) |-> IF s = {} THEN base ELSE Give(g[s \ {Max(s)}], sorted[Max(s)])]
  <2>1. ASSUME NEW s \in SUBSET (1..n), s # {}
        PROVE  step[<<g[s \ {Max(s)}], Max(s)>>] = Give(g[s \ {Max(s)}], sorted[Max(s)])
    <3>1. Max(s) \in 1..n /\ s \ {Max(s)} \in SUBSET (1..n)
      BY <1>2, <2>1, MaxIsIn
    <3>2. g[s \ {Max(s)}] \in A
      BY <1>11, <3>1
    <3> QED
      BY <3>1, <3>2
  <2> HIDE DEF step
  <2> QED
    BY <1>11, <2>1 DEF Tabulates
<1>13. PICK h : /\ FoldLeft(Give, base, sorted) = h[1..n]
                /\ h = [s \in SUBSET (1..n) |-> IF s = {} THEN base ELSE Give(h[s \ {Max(s)}], sorted[Max(s)])]
  <2>1. g = [s \in SUBSET DOMAIN sorted |-> IF s = {} THEN base ELSE Give(g[s \ {Max(s)}], sorted[Max(s)])]
    BY <1>5, <1>12
  <2>2. PICK h : /\ FoldLeft(Give, base, sorted) = h[DOMAIN sorted]
                 /\ h = [s \in SUBSET DOMAIN sorted |-> IF s = {} THEN base ELSE Give(h[s \ {Max(s)}], sorted[Max(s)])]
    BY <2>1 DEF FoldLeft, MapThenFoldSet
  <2> QED
    BY <1>5, <2>2
<1> HIDE DEF A
<1> DEFINE B == [s \in SUBSET (1..n) |-> {shares \in A : Partition(shares, Dealt(s)) /\ Balanced(shares)}]
<1>14. \A s \in SUBSET (1..n) : \A shares : shares \in B[s] <=> shares \in A /\ Partition(shares, Dealt(s)) /\ Balanced(shares)
  OBVIOUS
<1> HIDE DEF B
<1>15. h[{}] \in B[{}]
  <2>1. h[{}] = base /\ {} \in SUBSET (1..n)
    BY <1>13
  <2>2. DOMAIN base = 1..L /\ \A i \in 1..L : base[i] = {}
    BY <1>1 DEF base
  <2>3. Partition(base, Dealt({})) /\ Balanced(base)
    BY <2>2 DEF Partition, Balanced, Range
  <2> QED
    BY <1>8, <1>14, <2>1, <2>3
<1>16. ASSUME NEW s \in SUBSET (1..n), s # {}, h[s \ {Max(s)}] \in B[s \ {Max(s)}] PROVE h[s] \in B[s]
  <2> DEFINE t == s \ {Max(s)}
             b == sorted[Max(s)]
  <2>1. Max(s) \in s /\ Max(s) \in 1..n /\ t \in SUBSET (1..n)
    BY <1>2, <1>16, MaxIsIn
  <2>2. h[s] = Give(h[t], b)
    BY <1>13, <1>16
  <2>3. h[t] \in A /\ Partition(h[t], Dealt(t)) /\ Balanced(h[t])
    BY <1>14, <1>16, <2>1
  <2>4. Dealt(t) \in SUBSET Batches /\ b \in Batches \ Dealt(t) /\ Dealt(t) \cup {b} = Dealt(s)
    BY <1>3, <1>6, <2>1
  <2> HIDE DEF t, b, Dealt
  <2>5. Give(h[t], b) \in A /\ Partition(Give(h[t], b), Dealt(t) \cup {b}) /\ Balanced(Give(h[t], b))
    BY <1>1, <2>3, <2>4, GiveKeeps DEF Give, A
  <2> QED
    BY <1>14, <2>2, <2>4, <2>5
<1>17. h[1..n] \in B[1..n]
  BY <1>2, <1>15, <1>16, TableEntries
<1>18. h[1..n] \in A /\ Partition(h[1..n], bs) /\ Balanced(h[1..n])
  BY <1>7, <1>14, <1>17
<1>19. LoadBalanced(ws, bs) = h[1..n]
  BY <1>4, <1>13
<1> QED
  BY <1>1, <1>18, <1>19 DEF A

LEMMA FairlyDistributed ==
  ASSUME DistributionTypeOK
  PROVE  FairShares
<1> SUFFICES ASSUME NEW ws \in WorkerLists
             PROVE  LET rr == RoundRobin(ws, stored)
                        lb == LoadBalanced(ws, stored)
                        Weight(share) == SumFunctionOnSet(SizeOf, share)
                        Whole(shares) ==
                          /\ UNION Range(shares) = stored
                          /\ \A i, k \in DOMAIN shares : i # k => shares[i] \cap shares[k] = {}
                    IN /\ Whole(rr) /\ Whole(lb)
                       /\ \A i, k \in DOMAIN ws : Cardinality(rr[i]) <= Cardinality(rr[k]) + 1
                       /\ \A i, k \in DOMAIN ws :
                            lb[i] # {} => \E b \in lb[i] : Weight(lb[i]) <= Weight(lb[k]) + SizeOf[b]
  BY DEF FairShares
<1> DEFINE rr == RoundRobin(ws, stored)
           lb == LoadBalanced(ws, stored)
<1>1. stored \in SUBSET Batches
  BY DEF DistributionTypeOK
<1>2. Partition(rr, stored) /\ \A i, k \in DOMAIN ws : Cardinality(rr[i]) <= Cardinality(rr[k]) + 1
  BY <1>1, RoundRobinIsFair
<1>3. DOMAIN lb = DOMAIN ws /\ Partition(lb, stored) /\ Balanced(lb)
  BY <1>1, LoadBalancedIsFair
<1> HIDE DEF rr, lb
<1>4. \A i, k \in DOMAIN ws : lb[i] # {} => \E b \in lb[i] : Load(lb[i]) <= Load(lb[k]) + SizeOf[b]
  BY <1>3 DEF Balanced
<1> QED
  BY <1>2, <1>3, <1>4 DEF Partition, Load, rr, lb

-----------------------------------------------------------------------------
DistributionInv == DistributionTypeOK /\ rounds \in Nat /\ CurrentAssignment

\* What ExhaustedStays says of one step.
StaysWithOwner ==
  \A b \in Batches :
    /\ owner[b] # Nobody /\ assignments[<<owner[b], b>>].retries >= RetryLimit
    /\ rounds' = rounds
    => owner'[b] = owner[b]

LEMMA NowIsAState ==
  ASSUME DistributionTypeOK
  PROVE  Now \in States /\ (CurrentAssignment <=> OwnersCurrent(Now))
<1>1. Now \in States
  BY DEF DistributionTypeOK, Now, States, Keys, Records
<1>2. CurrentAssignment <=> OwnersCurrent(Now)
  BY DEF CurrentAssignment, OwnersCurrent, Now
<1> QED
  BY <1>1, <1>2

\* Any number of reassignments keeps the invariant and the exhausted batches.
LEMMA ReassignmentsKeep ==
  ASSUME DistributionInv, [assignments |-> assignments', owner |-> owner'] \in Sound(Now), UNCHANGED <<stored, rounds>>
  PROVE  DistributionInv' /\ StaysWithOwner
<1> DEFINE next == [assignments |-> assignments', owner |-> owner']
<1>1. Now \in States /\ OwnersCurrent(Now)
  BY NowIsAState DEF DistributionInv
<1>2. next \in States /\ OwnersCurrent(next)
  BY <1>1 DEF Sound
<1>3. \A b \in Batches : Exhausted(Now, b) => owner'[b] = owner[b]
  BY DEF Sound, Now
<1>4. DistributionTypeOK'
  BY <1>2 DEF DistributionInv, DistributionTypeOK, States, Keys, Records, Batches
<1>5. CurrentAssignment'
  BY <1>2 DEF CurrentAssignment, OwnersCurrent, Batches
<1>6. StaysWithOwner
  BY <1>3 DEF StaysWithOwner, Exhausted, Now
<1> QED
  BY <1>4, <1>5, <1>6 DEF DistributionInv

LEMMA AssignKeeps ==
  ASSUME DistributionInv, NEW strategy, NEW ws, NEW bs, Assign(strategy, ws, bs)
  PROVE  DistributionInv' /\ StaysWithOwner
<1> DEFINE shares == Shares(strategy, ws, bs)
           Given(w, b) == \E i \in DOMAIN shares : ws[i] = w /\ b \in shares[i]
           fresh == [status |-> "pending", retries |-> 0]
<1>1. /\ rounds' = rounds + 1 /\ stored' = stored
      /\ assignments' = [k \in Downloaders \X Batches |-> IF Given(k[1], k[2]) THEN fresh ELSE assignments[k]]
      /\ owner' = [b \in Batches |->
           IF \E w \in Downloaders : Given(w, b) THEN CHOOSE w \in Downloaders : Given(w, b) ELSE owner[b]]
  BY DEF Assign
<1> HIDE DEF Given
<1>2. fresh \in Assignments /\ fresh.status = "pending"
  BY DEF Assignments
<1> HIDE DEF fresh
<1>3. rounds' \in Nat /\ rounds' # rounds
  BY <1>1 DEF DistributionInv
<1>4. assignments' \in [Downloaders \X Batches -> Assignments \cup {Unassigned}]
  BY <1>1, <1>2 DEF DistributionInv, DistributionTypeOK
<1>5. ASSUME NEW b \in Batches
      PROVE  /\ owner'[b] \in Downloaders \cup {Nobody}
             /\ owner'[b] # Nobody => assignments'[<<owner'[b], b>>].status \notin {"none", "reassigned"}
  <2>1. CASE \E w \in Downloaders : Given(w, b)
    <3>1. owner'[b] \in Downloaders /\ Given(owner'[b], b)
      BY <1>1, <2>1
    <3>2. assignments'[<<owner'[b], b>>] = fresh
      BY <1>1, <3>1
    <3> QED
      BY <1>2, <3>1, <3>2
  <2>2. CASE ~ \E w \in Downloaders : Given(w, b)
    <3>1. owner'[b] = owner[b] /\ owner[b] \in Downloaders \cup {Nobody}
      BY <1>1, <2>2 DEF DistributionInv, DistributionTypeOK
    <3>2. owner[b] # Nobody => assignments'[<<owner[b], b>>] = assignments[<<owner[b], b>>]
      BY <1>1, <2>2, <3>1
    <3> QED
      BY <3>1, <3>2 DEF DistributionInv, CurrentAssignment
  <2> QED
    BY <2>1, <2>2
<1>6. owner' \in [Batches -> Downloaders \cup {Nobody}]
  BY <1>1, <1>5
<1>7. DistributionTypeOK'
  BY <1>1, <1>4, <1>6 DEF DistributionInv, DistributionTypeOK, Batches
<1>8. CurrentAssignment'
  BY <1>5 DEF CurrentAssignment, Batches
<1> QED
  BY <1>3, <1>7, <1>8 DEF DistributionInv, StaysWithOwner

LEMMA ReportKeeps ==
  ASSUME DistributionInv, NEW w \in Downloaders, NEW b \in Batches, NEW from,
         NEW to \in {"downloading", "completed", "failed"}, Report(w, b, from, to)
  PROVE  DistributionInv' /\ StaysWithOwner
<1> DEFINE old == assignments[<<w, b>>]
           new == [status |-> to, retries |-> IF to = "failed" THEN old.retries + 1 ELSE old.retries]
<1>1. assignments' = [assignments EXCEPT ![<<w, b>>] = new] /\ UNCHANGED <<stored, owner, rounds>>
  BY DEF Report
<1>2. old \in Records
  BY DEF DistributionInv, DistributionTypeOK, Records
<1>3. old.retries \in Nat
  BY <1>2, RecordFields
<1> HIDE DEF old
<1>4. new \in Assignments /\ new.status \notin {"none", "reassigned"}
  BY <1>3 DEF Assignments
<1> HIDE DEF new
<1>5. DistributionTypeOK'
  BY <1>1, <1>4 DEF DistributionInv, DistributionTypeOK, Batches
<1>6. ASSUME NEW c \in Batches, owner[c] # Nobody
      PROVE  assignments'[<<owner[c], c>>].status \notin {"none", "reassigned"}
  <2>1. <<owner[c], c>> \in Downloaders \X Batches
    BY <1>6 DEF DistributionInv, DistributionTypeOK
  <2>2. assignments'[<<owner[c], c>>] \in {new, assignments[<<owner[c], c>>]}
    BY <1>1, <2>1 DEF DistributionInv, DistributionTypeOK
  <2> QED
    BY <1>4, <1>6, <2>2 DEF DistributionInv, CurrentAssignment
<1>7. CurrentAssignment'
  BY <1>1, <1>6 DEF CurrentAssignment, Batches
<1> QED
  BY <1>1, <1>5, <1>7 DEF DistributionInv, StaysWithOwner

LEMMA DistributionStep ==
  ASSUME DistributionInv, [DistributionNext]_distVars
  PROVE  DistributionInv' /\ StaysWithOwner
<1>1. Now \in States
  BY NowIsAState DEF DistributionInv
<1>2. ASSUME NEW s \in Range(ShardOf), StoreShard(s) PROVE DistributionInv' /\ StaysWithOwner
  BY <1>2 DEF StoreShard, DistributionInv, DistributionTypeOK, CurrentAssignment, StaysWithOwner, Batches
<1>3. ASSUME NEW b \in Batches, DeleteBatch(b) PROVE DistributionInv' /\ StaysWithOwner
  BY <1>3 DEF DeleteBatch, DistributionInv, DistributionTypeOK, CurrentAssignment, StaysWithOwner, Batches
<1>4. ASSUME NEW w \in Downloaders, NEW b \in Batches, MarkDownloadStarted(w, b) PROVE DistributionInv' /\ StaysWithOwner
  BY <1>4, ReportKeeps DEF MarkDownloadStarted
<1>5. ASSUME NEW w \in Downloaders, NEW b \in Batches, MarkDownloadCompleted(w, b) PROVE DistributionInv' /\ StaysWithOwner
  BY <1>5, ReportKeeps DEF MarkDownloadCompleted
<1>6. ASSUME NEW w \in Downloaders, NEW b \in Batches, MarkDownloadFailed(w, b) PROVE DistributionInv' /\ StaysWithOwner
  BY <1>6, ReportKeeps DEF MarkDownloadFailed
<1>7. ASSUME NEW w \in Downloaders, NEW b \in Batches, DownloadBatch(w, b) PROVE DistributionInv' /\ StaysWithOwner
  BY <1>4, <1>6, <1>7 DEF DownloadBatch
<1>8. ASSUME NEW w \in Downloaders, NEW b \in Batches, ReassignFailedBatch(b, w) PROVE DistributionInv' /\ StaysWithOwner
  <2>1. Now \in Sound(Now)
    BY <1>1 DEF Sound
  <2>2. Reassigned(Now, b, w) \in Sound(Now)
    BY <1>1, <2>1, ReassignedIsSound
  <2>3. Become(Reassigned(Now, b, w))
    BY <1>8 DEF ReassignFailedBatch
  <2> DEFINE next == Reassigned(Now, b, w)
  <2> HIDE DEF next
  <2>4. [assignments |-> assignments', owner |-> owner'] = next
    <3>1. next \in States /\ assignments' = next.assignments /\ owner' = next.owner
      BY <2>2, <2>3 DEF Become, Sound, next
    <3> QED
      BY <3>1 DEF States
  <2>5. UNCHANGED <<stored, rounds>>
    BY <2>3 DEF Become
  <2> QED
    BY <2>2, <2>4, <2>5, ReassignmentsKeep DEF next
<1>9. ASSUME NEW ws \in WorkerLists, AutoReassign(ws) PROVE DistributionInv' /\ StaysWithOwner
  BY <1>1, <1>9, AutoReassignIsSound, ReassignmentsKeep
<1>10. ASSUME UNCHANGED distVars PROVE DistributionInv' /\ StaysWithOwner
  BY <1>10 DEF distVars, DistributionInv, DistributionTypeOK, CurrentAssignment, StaysWithOwner, Batches
<1>11. ASSUME NEW strategy \in Strategies, NEW ws \in WorkerLists, NEW bs, Assign(strategy, ws, bs)
       PROVE DistributionInv' /\ StaysWithOwner
  BY <1>11, AssignKeeps
<1> QED
  BY <1>2, <1>3, <1>4, <1>5, <1>6, <1>7, <1>8, <1>9, <1>10, <1>11 DEF DistributionNext

LEMMA DistributionStarts == DistributionInit => DistributionInv
  BY DEF DistributionInit, DistributionInv, DistributionTypeOK, CurrentAssignment

LEMMA DistributionInvHolds == DistributionSpec => []DistributionInv
  BY DistributionStarts, DistributionStep, PTL DEF DistributionSpec

\* The records, the owners and the stored batches keep their shapes, in the
\* sharder's DataDistributor.
THEOREM DistributionTypeCorrect == DistributionSpec => []DistributionTypeOK
<1>1. DistributionInv => DistributionTypeOK
  BY DEF DistributionInv
<1> QED
  BY <1>1, DistributionInvHolds, PTL

\* The record of a batch's owner, which get_batch_assignment looks up, is always
\* there and current: whatever distributes the batches, whatever the workers
\* report, and however long the list that auto_reassign_failed_batches works off.
THEOREM OwnersRecordIsCurrent == DistributionSpec => []CurrentAssignment
<1>1. DistributionInv => CurrentAssignment
  BY DEF DistributionInv
<1> QED
  BY <1>1, DistributionInvHolds, PTL

\* A batch whose owner has used up its retries keeps that owner until the
\* batches are distributed again, although auto_reassign_failed_batches may meet
\* it once for each of its former owners.
THEOREM ExhaustedBatchesStay == DistributionSpec => ExhaustedStays
<1>1. DistributionInv /\ [DistributionNext]_distVars => [StaysWithOwner]_distVars
  BY DistributionStep
<1> QED
  BY <1>1, DistributionInvHolds, PTL DEF DistributionSpec, ExhaustedStays, StaysWithOwner

\* Whatever is stored and whoever asks for it, round robin and load balancing
\* give every batch to exactly one of the workers and are as even as they claim.
THEOREM SharesAreFair == DistributionSpec => []FairShares
<1>1. DistributionInv => FairShares
  BY FairlyDistributed DEF DistributionInv
<1> QED
  BY <1>1, DistributionInvHolds, PTL

-----------------------------------------------------------------------------
(***************************************************************************)
(* Cutting the samples into shards, for any dataset.                       *)
(***************************************************************************)
LEMMA SumToFacts ==
  ASSUME NEW N \in Nat, NEW f, \A i \in 1..N : f[i] \in Nat
  PROVE  /\ SumTo(f, 0) = 0
         /\ \A n \in 0..N : SumTo(f, n) \in Nat
         /\ \A n \in 1..N : SumTo(f, n) = SumTo(f, n - 1) + f[n]
<1> DEFINE Add(a, i) == a + f[i]
           step == [p \in Nat \X (1..N) |-> Add(p[1], p[2])]
<1>1. step \in [Nat \X (1..N) -> Nat]
  OBVIOUS
<1>2. PICK G \in [SUBSET (1..N) -> Nat] : Tabulates(G, N, 0, step)
  BY <1>1, FoldTable
<1>3. G[{}] = 0
  BY <1>2 DEF Tabulates
<1>4. ASSUME NEW s \in SUBSET (1..N), s # {} PROVE G[s] = Add(G[s \ {Max(s)}], Max(s))
  <2>1. Max(s) \in 1..N /\ s \ {Max(s)} \in SUBSET (1..N)
    BY <1>4, MaxIsIn
  <2>2. G[s \ {Max(s)}] \in Nat
    BY <2>1
  <2>3. step[<<G[s \ {Max(s)}], Max(s)>>] = Add(G[s \ {Max(s)}], Max(s))
    BY <2>1, <2>2
  <2> HIDE DEF step, Add
  <2> QED
    BY <1>2, <1>4, <2>3 DEF Tabulates
<1>5. ASSUME NEW n \in 0..N PROVE SumTo(f, n) = G[1..n]
  <2> DEFINE q == [i \in 1..n |-> i]
             g == [s \in SUBSET (1..n) |-> G[s]]
  <2>1. n \in Nat /\ \A s \in SUBSET (1..n) : s \in SUBSET (1..N)
    OBVIOUS
  <2>2. DOMAIN q = 1..n /\ \A i \in 1..n : q[i] = i
    OBVIOUS
  <2>3. SumTo(f, n) = FoldLeft(Add, 0, q)
    BY DEF SumTo
  <2> HIDE DEF q, Add
  <2>4. \A s \in SUBSET (1..n) : s # {} => q[Max(s)] = Max(s)
    BY <2>1, <2>2, MaxIsIn
  <2>5. \A s \in SUBSET (1..n) : s \ {Max(s)} \in SUBSET (1..n)
    OBVIOUS
  <2>6. g = [s \in SUBSET DOMAIN q |-> IF s = {} THEN 0 ELSE Add(g[s \ {Max(s)}], q[Max(s)])]
    <3>1. \A s \in SUBSET (1..n) : g[s] = IF s = {} THEN 0 ELSE Add(g[s \ {Max(s)}], q[Max(s)])
      BY <1>3, <1>4, <2>1, <2>4, <2>5
    <3> HIDE DEF g
    <3> QED
      BY <2>2, <3>1 DEF g
  <2>7. PICK h : /\ FoldLeft(Add, 0, q) = h[DOMAIN q]
                 /\ h = [s \in SUBSET DOMAIN q |-> IF s = {} THEN 0 ELSE Add(h[s \ {Max(s)}], q[Max(s)])]
    BY <2>6 DEF FoldLeft, MapThenFoldSet
  <2> DEFINE A == [s \in SUBSET (1..n) |-> {G[s]}]
  <2>8. \A s \in SUBSET (1..n) : \A x : x \in A[s] <=> x = G[s]
    OBVIOUS
  <2> HIDE DEF A
  <2>9. h[{}] \in A[{}]
    BY <1>3, <2>2, <2>7, <2>8
  <2>10. ASSUME NEW s \in SUBSET (1..n), s # {}, h[s \ {Max(s)}] \in A[s \ {Max(s)}] PROVE h[s] \in A[s]
    <3>1. h[s] = Add(h[s \ {Max(s)}], Max(s))
      BY <2>2, <2>4, <2>7, <2>10
    <3>2. h[s \ {Max(s)}] = G[s \ {Max(s)}]
      BY <2>5, <2>8, <2>10
    <3>3. h[s] = G[s]
      BY <1>4, <2>1, <2>10, <3>1, <3>2
    <3> QED
      BY <2>8, <3>3
  <2>11. h[1..n] \in A[1..n]
    BY <2>1, <2>9, <2>10, TableEntries
  <2>12. h[1..n] = G[1..n]
    BY <2>8, <2>11
  <2> QED
    BY <2>2, <2>3, <2>7, <2>12
<1>6. ASSUME NEW n \in 1..N PROVE G[1..n] = G[1..(n - 1)] + f[n]
  <2> DEFINE s == 1..n
  <2>1. n - 1 \in Nat /\ (n - 1) + 1 = n /\ s \in SUBSET (1..((n - 1) + 1)) /\ n \in s /\ s \in SUBSET (1..N) /\ s # {}
    OBVIOUS
  <2>2. s \ {n} = 1..(n - 1)
    OBVIOUS
  <2> HIDE DEF s
  <2>3. Max(s) = n
    BY <2>1, MaxOfPrefix
  <2>4. G[s] = Add(G[s \ {n}], n)
    BY <1>4, <2>1, <2>3
  <2> QED
    BY <2>2, <2>4 DEF s
<1>7. \A n \in 0..N : 1..n \in SUBSET (1..N)
  OBVIOUS
<1>8. SumTo(f, 0) = 0
  BY <1>3, <1>5
<1>9. \A n \in 0..N : SumTo(f, n) \in Nat
  BY <1>5, <1>7
<1>10. ASSUME NEW n \in 1..N PROVE SumTo(f, n) = SumTo(f, n - 1) + f[n]
  <2>1. n \in 0..N /\ n - 1 \in 0..N
    OBVIOUS
  <2> QED
    BY <1>5, <1>6, <2>1
<1> QED
  BY <1>8, <1>9, <1>10

LEMMA SumsRise ==
  ASSUME NEW n \in Nat, NEW f, \A i \in 1..n : f[i] \in Nat
  PROVE  Rises([i \in 0..n |-> SumTo(f, i)], n)
<1> DEFINE cut == [i \in 0..n |-> SumTo(f, i)]
<1>1. /\ SumTo(f, 0) = 0
      /\ \A i \in 0..n : SumTo(f, i) \in Nat
      /\ \A i \in 1..n : SumTo(f, i) = SumTo(f, i - 1) + f[i]
  BY SumToFacts
<1>2. cut \in [0..n -> Nat] /\ cut[0] = 0
  BY <1>1
<1>3. ASSUME NEW i \in 1..n PROVE cut[i - 1] <= cut[i]
  <2>1. i - 1 \in 0..n /\ i \in 0..n
    OBVIOUS
  <2>2. cut[i - 1] = SumTo(f, i - 1) /\ cut[i] = SumTo(f, i)
    BY <2>1
  <2>3. SumTo(f, i) = SumTo(f, i - 1) + f[i] /\ SumTo(f, i - 1) \in Nat /\ f[i] \in Nat
    BY <1>1, <2>1
  <2> HIDE DEF cut
  <2> QED
    BY <2>2, <2>3
<1> HIDE DEF cut
<1>4. Rises(cut, n)
  BY <1>2, <1>3 DEF Rises
<1> QED
  BY <1>4 DEF cut

LEMMA EqualCutDeals ==
  ASSUME NEW X, NEW q, IsListOf(q, X), NEW n \in Nat \ {0}
  PROVE  Deals(EqualCut(q, n), n, X)
<1> DEFINE e == Len(q) \div n
           cut == [s \in 0..n |-> IF s = n THEN Len(q) ELSE s * e]
           P == [s \in 1..n |-> SubSeq(q, cut[s - 1] + 1, cut[s])]
<1>1. Len(q) \in Nat
  BY DEF IsListOf
<1>2. e \in Nat /\ n * e <= Len(q)
  <2> DEFINE d == Len(q) % n
  <2>1. e \in Nat /\ d \in 0..(n - 1) /\ Len(q) = n * e + d
    BY <1>1, DivMod
  <2> HIDE DEF e, d
  <2>2. n * e \in Nat
    BY <2>1
  <2> QED
    BY <1>1, <2>1, <2>2
<1>3. EqualCut(q, n) = P
  <2>1. \A s \in 1..n : cut[s - 1] = (s - 1) * e /\ cut[s] = IF s = n THEN Len(q) ELSE s * e
    <3>1. \A s \in 1..n : s - 1 \in 0..n /\ s - 1 # n /\ s \in 0..n
      OBVIOUS
    <3> HIDE DEF e
    <3> QED
      BY <3>1
  <2>2. EqualCut(q, n) = [s \in 1..n |-> SubSeq(q, (s - 1) * e + 1, IF s = n THEN Len(q) ELSE s * e)]
    BY DEF EqualCut
  <2> HIDE DEF cut, e
  <2> QED
    BY <2>1, <2>2
<1> HIDE DEF e
<1>4. ASSUME NEW s \in 0..n PROVE cut[s] \in Nat
  BY <1>1, <1>2
<1>5. ASSUME NEW s \in 1..n PROVE cut[s - 1] <= cut[s]
  <2>1. s - 1 \in Nat /\ s \in Nat /\ s - 1 # n /\ s <= n
    OBVIOUS
  <2>2. cut[s - 1] = (s - 1) * e
    BY <2>1
  <2>3. (s - 1) * e <= s * e /\ s * e <= n * e
    <3>1. s * e = (s - 1) * e + e
      BY <1>2, <2>1
    <3>2. (s - 1) * e \in Nat /\ s * e \in Nat /\ n * e \in Nat
      BY <1>2, <2>1
    <3>3. s * e <= n * e
      BY <1>2, <2>1
    <3> QED
      BY <1>2, <3>1, <3>2, <3>3
  <2>4. (s - 1) * e \in Nat /\ s * e \in Nat /\ n * e \in Nat
    BY <1>2, <2>1
  <2>5. cut[s] = IF s = n THEN Len(q) ELSE s * e
    BY <2>1
  <2> HIDE DEF cut
  <2> QED
    BY <1>1, <1>2, <2>2, <2>3, <2>4, <2>5
<1>6. cut[0] = 0 /\ cut[n] = Len(q) /\ DOMAIN cut = 0..n
  <2>1. 0 \in 0..n /\ n \in 0..n /\ 0 # n /\ 0 * e = 0
    BY <1>2
  <2> QED
    BY <2>1
<1>7. cut \in [0..n -> Nat]
  BY <1>4
<1> HIDE DEF cut
<1>8. Rises(cut, n)
  BY <1>5, <1>6, <1>7 DEF Rises
<1>9. Deals(P, n, X)
  BY <1>6, <1>8, CutDeals
<1> QED
  BY <1>3, <1>9

-----------------------------------------------------------------------------
\* The samples of a class are an interval, and the intervals make up the dataset.
ClassOf(sizes, c) == (SumTo(sizes, c - 1) + 1)..SumTo(sizes, c)

LEMMA ClassesRise ==
  ASSUME NEW sizes \in Seq(Nat)
  PROVE  /\ Len(sizes) \in Nat /\ Total(sizes) \in Nat
         /\ Rises([c \in 0..Len(sizes) |-> SumTo(sizes, c)], Len(sizes))
         /\ \A c \in 1..Len(sizes) : /\ sizes[c] \in Nat /\ SumTo(sizes, c - 1) \in Nat
                                     /\ SumTo(sizes, c) = SumTo(sizes, c - 1) + sizes[c]
<1> DEFINE m == Len(sizes)
           cut == [c \in 0..m |-> SumTo(sizes, c)]
<1>1. m \in Nat /\ \A c \in 1..m : sizes[c] \in Nat
  OBVIOUS
<1> HIDE DEF m
<1>2. /\ SumTo(sizes, 0) = 0
      /\ \A c \in 0..m : SumTo(sizes, c) \in Nat
      /\ \A c \in 1..m : SumTo(sizes, c) = SumTo(sizes, c - 1) + sizes[c]
  BY <1>1, SumToFacts
<1>3. \A c \in 1..m : c \in 0..m /\ c - 1 \in 0..m
  BY <1>1
<1>4. cut \in [0..m -> Nat]
  BY <1>2
<1>5. cut[0] = 0
  BY <1>1, <1>2
<1>6. ASSUME NEW c \in 1..m PROVE cut[c - 1] <= cut[c]
  <2> DEFINE a == SumTo(sizes, c - 1)
             d == sizes[c]
  <2>1. a \in Nat /\ d \in Nat /\ cut[c - 1] = a /\ cut[c] = a + d
    BY <1>1, <1>2, <1>3
  <2> HIDE DEF cut, a, d
  <2> QED
    BY <2>1
<1>7. Rises(cut, m)
  BY <1>4, <1>5, <1>6 DEF Rises
<1>8. m \in 0..m
  BY <1>1
<1> QED
  BY <1>1, <1>2, <1>3, <1>7, <1>8 DEF m, Total

LEMMA ClassesListed ==
  ASSUME NEW sizes \in Seq(Nat)
  PROVE  /\ \A c \in 1..Len(sizes) : IsListOf(ClassSamples(sizes, c), ClassOf(sizes, c)) /\ ClassOf(sizes, c) \subseteq 1..Total(sizes)
         /\ \A x \in 1..Total(sizes) : \E c \in 1..Len(sizes) : x \in ClassOf(sizes, c)
         /\ \A c, d \in 1..Len(sizes) : c # d => ClassOf(sizes, c) \cap ClassOf(sizes, d) = {}
<1> DEFINE m == Len(sizes)
           cut == [c \in 0..m |-> SumTo(sizes, c)]
<1>1. m \in Nat /\ Rises(cut, m)
  BY ClassesRise
<1>2. ASSUME NEW c \in 1..m
      PROVE  /\ sizes[c] \in Nat /\ SumTo(sizes, c - 1) \in Nat /\ SumTo(sizes, c) \in Nat
             /\ SumTo(sizes, c) = SumTo(sizes, c - 1) + sizes[c]
             /\ cut[c - 1] = SumTo(sizes, c - 1) /\ cut[c] = SumTo(sizes, c)
  <2>1. c \in 0..m /\ c - 1 \in 0..m
    BY <1>1
  <2>2. cut[c - 1] = SumTo(sizes, c - 1) /\ cut[c] = SumTo(sizes, c)
    BY <2>1
  <2> HIDE DEF cut
  <2>3. sizes[c] \in Nat /\ SumTo(sizes, c - 1) \in Nat /\ SumTo(sizes, c) = SumTo(sizes, c - 1) + sizes[c]
    BY ClassesRise
  <2> QED
    BY <2>2, <2>3
<1>3. cut[m] = Total(sizes)
  BY <1>1 DEF Total
<1> HIDE DEF m, cut
<1>4. ASSUME NEW c \in 1..m
      PROVE  IsListOf(ClassSamples(sizes, c), ClassOf(sizes, c)) /\ ClassOf(sizes, c) \subseteq 1..Total(sizes)
  <2> DEFINE a == SumTo(sizes, c - 1)
             n == sizes[c]
             q == [i \in 1..n |-> a + i]
  <2>1. a \in Nat /\ n \in Nat /\ SumTo(sizes, c) = a + n
    BY <1>2
  <2>2. ClassSamples(sizes, c) = q /\ ClassOf(sizes, c) = (a + 1)..(a + n)
    BY <2>1 DEF ClassSamples, ClassOf
  <2> HIDE DEF a, n
  <2>3. q \in Seq((a + 1)..(a + n)) /\ Len(q) = n /\ \A i \in 1..n : q[i] = a + i
    BY <2>1
  <2> HIDE DEF q
  <2>4. ASSUME NEW x \in (a + 1)..(a + n) PROVE \E i \in 1..n : q[i] = x
    <3>1. x - a \in 1..n /\ a + (x - a) = x
      BY <2>1
    <3>2. q[x - a] = x
      BY <2>3, <3>1
    <3> QED
      BY <3>1, <3>2
  <2>5. \A i, k \in 1..n : q[i] = q[k] => i = k
    BY <2>1, <2>3
  <2>6. IsListOf(q, (a + 1)..(a + n))
    BY <2>3, <2>4, <2>5 DEF IsListOf
  <2>7. a + n <= Total(sizes) /\ Total(sizes) \in Nat
    <3>1. c \in 0..m /\ m \in 0..m /\ c <= m
      BY <1>1
    <3>2. cut[c] <= cut[m]
      BY <1>1, <3>1, Rising
    <3> QED
      BY <1>2, <1>3, <2>1, <3>2, ClassesRise
  <2> QED
    BY <2>1, <2>2, <2>6, <2>7
<1>5. ASSUME NEW x \in 1..Total(sizes) PROVE \E c \in 1..m : x \in ClassOf(sizes, c)
  <2>1. x \in 1..cut[m]
    BY <1>3
  <2>2. PICK c \in 1..m : cut[c - 1] < x /\ x <= cut[c]
    BY <1>1, <2>1, Located
  <2>3. x \in ClassOf(sizes, c)
    BY <1>2, <2>2 DEF ClassOf
  <2> QED
    BY <2>3
<1>6. ASSUME NEW c \in 1..m, NEW d \in 1..m, NEW x, x \in ClassOf(sizes, c), x \in ClassOf(sizes, d) PROVE c = d
  <2>1. x \in Nat /\ cut[c - 1] < x /\ x <= cut[c] /\ cut[d - 1] < x /\ x <= cut[d]
    BY <1>2, <1>6 DEF ClassOf
  <2> QED
    BY <1>1, <2>1, LocatedOnce
<1> QED
  BY <1>4, <1>5, <1>6 DEF m

LEMMA SequentialDeals ==
  ASSUME NEW sizes \in Seq(Nat), NEW n \in Nat \ {0}
  PROVE  Deals(SequentialShards(sizes, n), n, 1..Total(sizes))
<1> DEFINE N == Total(sizes)
           q == [i \in 1..N |-> i]
<1>1. N \in Nat
  BY ClassesRise
<1> HIDE DEF N
<1>2. q \in Seq(1..N) /\ Len(q) = N /\ \A i \in 1..N : q[i] = i
  BY <1>1
<1> HIDE DEF q
<1>3. IsListOf(q, 1..N)
  BY <1>2 DEF IsListOf
<1>4. Deals(EqualCut(q, n), n, 1..N)
  BY <1>3, EqualCutDeals
<1> QED
  BY <1>4 DEF SequentialShards, q, N

LEMMA StratifiedDeals ==
  ASSUME NEW sizes \in Seq(Nat), Total(sizes) # 0, NEW n \in Nat \ {0}
  PROVE  Deals(StratifiedShards(sizes, n), n, 1..Total(sizes))
<1> DEFINE m == Len(sizes)
           Y == [c \in 1..m |-> ClassOf(sizes, c)]
           P == [c \in 1..m |-> EqualCut(ClassSamples(sizes, c), n)]
<1>1. m \in Nat \ {0} /\ DOMAIN sizes = 1..m
  <2>1. m = 0 => Total(sizes) = 0
    BY SumToFacts DEF Total
  <2> QED
    BY <2>1
<1>2. ASSUME NEW c \in 1..m PROVE Y[c] \subseteq 1..Total(sizes) /\ Deals(P[c], n, Y[c])
  <2>1. IsListOf(ClassSamples(sizes, c), ClassOf(sizes, c)) /\ ClassOf(sizes, c) \subseteq 1..Total(sizes)
    BY ClassesListed
  <2>2. Deals(EqualCut(ClassSamples(sizes, c), n), n, ClassOf(sizes, c))
    BY <2>1, EqualCutDeals
  <2> QED
    BY <2>1, <2>2
<1>3. \A x \in 1..Total(sizes) : \E c \in 1..m : x \in Y[c]
  BY ClassesListed
<1>4. \A c, d \in 1..m : c # d => Y[c] \cap Y[d] = {}
  BY ClassesListed
<1>5. StratifiedShards(sizes, n) = [s \in 1..n |-> FlattenSeq([c \in 1..m |-> P[c][s]])]
  <2>1. ASSUME NEW s \in 1..n
        PROVE [c \in DOMAIN sizes |-> EqualCut(ClassSamples(sizes, c), n)[s]] = [c \in 1..m |-> P[c][s]]
    BY <1>1
  <2> HIDE DEF P
  <2> QED
    BY <2>1 DEF StratifiedShards
<1> HIDE DEF m, Y, P
<1>6. PartsDealt(P, Y, m, n, 1..Total(sizes))
  BY <1>2, <1>3, <1>4 DEF PartsDealt
<1>7. Deals([s \in 1..n |-> FlattenSeq([c \in 1..m |-> P[c][s]])], n, 1..Total(sizes))
  BY <1>1, <1>6, FlattenDeals
<1> QED
  BY <1>5, <1>7

\* The shares of a class, rounded down and topped up, add up to its size.
LEMMA CountsAddUp ==
  ASSUME NEW size \in Nat, NEW n \in Nat, NEW column \in [1..n -> Nat], NEW s0 \in 1..n, column[s0] > 0,
         NEW k \in ClassCounts(size, column)
  PROVE  DOMAIN k = 1..n /\ (\A s \in 1..n : k[s] \in Nat) /\ SumTo(k, n) = size
<1> DEFINE whole == SumTo(column, n)
           floor == [s \in 1..n |-> (column[s] * size) \div whole]
           cut == [s \in 0..n |-> SumTo(column, s)]
<1>1. whole \in Nat \ {0}
  <2>1. /\ \A s \in 0..n : SumTo(column, s) \in Nat
        /\ \A s \in 1..n : SumTo(column, s) = SumTo(column, s - 1) + column[s]
    BY SumToFacts
  <2>2. Rises(cut, n)
    BY SumsRise
  <2>3. s0 \in 0..n /\ n \in 0..n /\ s0 <= n /\ s0 - 1 \in 0..n
    OBVIOUS
  <2>4. cut[s0] <= cut[n]
    BY <2>2, <2>3, Rising
  <2>5. SumTo(column, s0) <= whole
    BY <2>3, <2>4
  <2>6. SumTo(column, s0) = SumTo(column, s0 - 1) + column[s0] /\ SumTo(column, s0 - 1) \in Nat /\ column[s0] \in Nat
    BY <2>1, <2>3
  <2> HIDE DEF whole
  <2>7. whole \in Nat
    BY <2>1, <2>3 DEF whole
  <2> QED
    BY <2>5, <2>6, <2>7
<1>2. DOMAIN column = 1..n /\ Len(column) = n
  OBVIOUS
<1> HIDE DEF whole
<1>3. PICK top \in SUBSET (1..n) : /\ Cardinality(top) = size - SumTo(floor, n)
                                   /\ k = [s \in 1..n |-> IF s \in top THEN floor[s] + 1 ELSE floor[s]]
  <2> DEFINE C == ClassCounts(size, column)
             Tops == {t \in kSubset(size - SumTo(floor, n), 1..n) :
                        \A a \in t, b \in 1..n \ t : column[a] >= column[b]}
             Count(t) == [s \in 1..n |-> IF s \in t THEN floor[s] + 1 ELSE floor[s]]
  <2>1. C = {Count(t) : t \in Tops}
    BY <1>2 DEF ClassCounts, whole
  <2>2. \A t \in Tops : t \in SUBSET (1..n) /\ Cardinality(t) = size - SumTo(floor, n)
    BY DEF kSubset
  <2>3. k \in C
    OBVIOUS
  <2> HIDE DEF C, Tops, Count, floor
  <2>4. PICK top \in Tops : k = Count(top)
    BY <2>1, <2>3
  <2> QED
    BY <2>2, <2>4 DEF Count
<1>4. ASSUME NEW s \in 1..n PROVE floor[s] \in Nat
  <2> DEFINE r == column[s] * size
  <2>1. r \in Nat
    OBVIOUS
  <2> HIDE DEF r
  <2>2. r \div whole \in Nat
    BY <1>1, <2>1, DivMod
  <2> QED
    BY <2>2 DEF r
<1> HIDE DEF floor
<1>5. \A s \in 1..n : k[s] \in Nat /\ k[s] = IF s \in top THEN floor[s] + 1 ELSE floor[s]
  BY <1>3, <1>4
<1>6. /\ SumTo(floor, 0) = 0
      /\ \A s \in 0..n : SumTo(floor, s) \in Nat
      /\ \A s \in 1..n : SumTo(floor, s) = SumTo(floor, s - 1) + floor[s]
  BY <1>4, SumToFacts
<1>7. /\ SumTo(k, 0) = 0
      /\ \A s \in 0..n : SumTo(k, s) \in Nat
      /\ \A s \in 1..n : SumTo(k, s) = SumTo(k, s - 1) + k[s]
  BY <1>5, SumToFacts
<1> DEFINE T(j) == top \cap (1..j)
           Holds(j) == j <= n => SumTo(k, j) = SumTo(floor, j) + Cardinality(T(j))
           S == {j \in Nat : Holds(j)}
<1>8. \A j \in Nat : j \in S <=> Holds(j)
  OBVIOUS
<1> HIDE DEF S
<1>9. ASSUME NEW j \in Nat PROVE IsFiniteSet(T(j)) /\ Cardinality(T(j)) \in Nat
  <2>1. IsFiniteSet(1..j)
    BY FS_Interval
  <2>2. T(j) \subseteq 1..j
    OBVIOUS
  <2> HIDE DEF T
  <2> QED
    BY <2>1, <2>2, FS_Subset, FS_CardinalityType
<1>10. Holds(0)
  <2>1. T(0) = {}
    OBVIOUS
  <2>2. Cardinality(T(0)) = 0
    BY <2>1, FS_EmptySet
  <2> QED
    BY <1>6, <1>7, <2>2
<1>11. ASSUME NEW j \in Nat, Holds(j) PROVE Holds(j + 1)
  <2> SUFFICES ASSUME j + 1 <= n PROVE SumTo(k, j + 1) = SumTo(floor, j + 1) + Cardinality(T(j + 1))
    OBVIOUS
  <2>1. j + 1 \in 1..n /\ (j + 1) - 1 = j /\ j \in 0..n /\ j + 1 \in 0..n /\ j + 1 \notin T(j)
    OBVIOUS
  <2>2. SumTo(k, j) = SumTo(floor, j) + Cardinality(T(j))
    BY <1>11, <2>1
  <2>3. SumTo(k, j + 1) = SumTo(k, j) + k[j + 1] /\ SumTo(floor, j + 1) = SumTo(floor, j) + floor[j + 1]
    BY <1>6, <1>7, <2>1
  <2>4. SumTo(floor, j) \in Nat /\ floor[j + 1] \in Nat /\ Cardinality(T(j)) \in Nat
    BY <1>4, <1>6, <1>9, <2>1
  <2>5. CASE j + 1 \in top
    <3>1. T(j + 1) = T(j) \cup {j + 1}
      BY <2>1, <2>5
    <3>2. Cardinality(T(j + 1)) = Cardinality(T(j)) + 1
      <4>1. IsFiniteSet(T(j)) /\ j + 1 \notin T(j)
        BY <1>9, <2>1
      <4> HIDE DEF T
      <4> QED
        BY <3>1, <4>1, FS_AddElement
    <3>3. k[j + 1] = floor[j + 1] + 1
      BY <1>5, <2>1, <2>5
    <3> DEFINE a == SumTo(floor, j)
               b == floor[j + 1]
               d == Cardinality(T(j))
    <3>4. a \in Nat /\ b \in Nat /\ d \in Nat /\ SumTo(k, j + 1) = (a + d) + (b + 1)
          /\ SumTo(floor, j + 1) = a + b /\ Cardinality(T(j + 1)) = d + 1
      BY <2>2, <2>3, <2>4, <3>2, <3>3
    <3> HIDE DEF T, a, b, d
    <3> QED
      BY <3>4
  <2>6. CASE j + 1 \notin top
    <3>1. T(j + 1) = T(j)
      BY <2>1, <2>6
    <3>2. k[j + 1] = floor[j + 1]
      BY <1>5, <2>1, <2>6
    <3> DEFINE a == SumTo(floor, j)
               b == floor[j + 1]
               d == Cardinality(T(j))
    <3>3. a \in Nat /\ b \in Nat /\ d \in Nat /\ SumTo(k, j + 1) = (a + d) + b
          /\ SumTo(floor, j + 1) = a + b /\ Cardinality(T(j + 1)) = d
      BY <2>2, <2>3, <2>4, <3>1, <3>2
    <3> HIDE DEF T, a, b, d
    <3> QED
      BY <3>3
  <2> QED
    BY <2>5, <2>6
<1> HIDE DEF Holds
<1>12. Holds(n)
  <2>1. 0 \in S /\ \A j \in Nat : j \in S => j + 1 \in S
    BY <1>8, <1>10, <1>11
  <2>2. Nat \subseteq S
    BY <2>1, NatSetInduction
  <2> QED
    BY <1>8, <2>2
<1>13. SumTo(k, n) = SumTo(floor, n) + Cardinality(T(n))
  BY <1>12 DEF Holds
<1>14. T(n) = top
  BY <1>3
<1> HIDE DEF T
<1>15. SumTo(floor, n) \in Nat /\ Cardinality(top) \in Nat
  BY <1>6, <1>9, <1>14
<1>16. SumTo(k, n) = size
  BY <1>3, <1>13, <1>14, <1>15
<1>17. DOMAIN k = 1..n
  BY <1>3
<1> QED
  BY <1>5, <1>16, <1>17

LEMMA NonIidDeals ==
  ASSUME NEW sizes \in Seq(Nat), Total(sizes) # 0, NEW n \in Nat \ {0}, NEW D \in NonIidShards(sizes, n)
  PROVE  Deals(D, n, 1..Total(sizes))
<1> DEFINE m == Len(sizes)
           Cut(samples, count) == [s \in 1..n |-> SubSeq(samples, SumTo(count, s - 1) + 1, SumTo(count, s))]
<1>1. m \in Nat \ {0} /\ DOMAIN sizes = 1..m /\ \A c \in 1..m : sizes[c] \in Nat
  <2>1. m = 0 => Total(sizes) = 0
    BY SumToFacts DEF Total
  <2> QED
    BY <2>1
<1> DEFINE Shared(p) == p \in [1..n -> [1..m -> 0..Grain]] /\ \A c \in 1..m : \E s \in 1..n : p[s][c] > 0
           Chosen(p, k) == \A c \in 1..m : k[c] \in ClassCounts(sizes[c], [s \in 1..n |-> p[s][c]])
           Dealt(k) == [s \in 1..n |-> FlattenSeq([c \in 1..m |-> Cut(ClassSamples(sizes, c), k[c])[s]])]
<1>2. PICK p, k : Shared(p) /\ Chosen(p, k) /\ D = Dealt(k)
  <2> DEFINE Row == {r \in [1..m -> 0..Grain] : SumTo(r, m) = Grain}
             Columns == {p \in [1..n -> Row] : \A c \in 1..m : \E s \in 1..n : p[s][c] > 0}
             CountsOf(p, c) == ClassCounts(sizes[c], [s \in 1..n |-> p[s][c]])
             Counts(p) == {k \in [1..m -> UNION {CountsOf(p, c) : c \in 1..m}] :
                             \A c \in 1..m : k[c] \in CountsOf(p, c)}
  <2>1. NonIidShards(sizes, n) = {Dealt(k) : k \in UNION {Counts(p) : p \in Columns}}
    BY <1>1 DEF NonIidShards
  <2>2. \A p \in Columns : Shared(p)
    OBVIOUS
  <2>3. \A p : \A k \in Counts(p) : Chosen(p, k)
    OBVIOUS
  <2> HIDE DEF Columns, Counts, Dealt, Shared, Chosen
  <2>4. PICK p \in Columns : \E k \in Counts(p) : D = Dealt(k)
    BY <2>1
  <2>5. PICK k \in Counts(p) : D = Dealt(k)
    BY <2>4
  <2> QED
    BY <2>2, <2>3, <2>4, <2>5
<1> DEFINE Y == [c \in 1..m |-> ClassOf(sizes, c)]
           P == [c \in 1..m |-> Cut(ClassSamples(sizes, c), k[c])]
<1>3. ASSUME NEW c \in 1..m PROVE Y[c] \subseteq 1..Total(sizes) /\ Deals(P[c], n, Y[c])
  <2> DEFINE column == [s \in 1..n |-> p[s][c]]
             cut == [s \in 0..n |-> SumTo(k[c], s)]
             q == ClassSamples(sizes, c)
  <2>1. IsListOf(q, ClassOf(sizes, c)) /\ ClassOf(sizes, c) \subseteq 1..Total(sizes)
    BY ClassesListed
  <2>2. Len(q) = sizes[c]
    BY <1>1 DEF ClassSamples
  <2>3. column \in [1..n -> Nat]
    <3>1. p \in [1..n -> [1..m -> 0..Grain]] /\ c \in 1..m
      BY <1>2
    <3>2. \A s \in 1..n : p[s] \in [1..m -> 0..Grain]
      BY <3>1
    <3>3. 0..Grain \subseteq Nat
      OBVIOUS
    <3> HIDE DEF m
    <3>4. \A s \in 1..n : p[s][c] \in 0..Grain
      BY <3>1, <3>2
    <3> QED
      BY <3>3, <3>4
  <2>4. PICK s0 \in 1..n : column[s0] > 0
    BY <1>2
  <2>5. k[c] \in ClassCounts(sizes[c], column)
    BY <1>2
  <2> HIDE DEF column, q
  <2>6. (\A s \in 1..n : k[c][s] \in Nat) /\ SumTo(k[c], n) = sizes[c]
    BY <1>1, <2>3, <2>4, <2>5, CountsAddUp
  <2>7. Rises(cut, n)
    BY <2>6, SumsRise
  <2>8. n \in 0..n /\ cut[n] = Len(q)
    BY <2>2, <2>6
  <2>9. \A s \in 1..n : cut[s - 1] = SumTo(k[c], s - 1) /\ cut[s] = SumTo(k[c], s)
    <3>1. \A s \in 1..n : s - 1 \in 0..n /\ s \in 0..n
      OBVIOUS
    <3> QED
      BY <3>1
  <2> HIDE DEF cut
  <2>10. Deals([s \in 1..n |-> SubSeq(q, cut[s - 1] + 1, cut[s])], n, ClassOf(sizes, c))
    BY <2>1, <2>7, <2>8, CutDeals
  <2>11. P[c] = [s \in 1..n |-> SubSeq(q, cut[s - 1] + 1, cut[s])]
    BY <2>9 DEF q
  <2> HIDE DEF P
  <2> QED
    BY <2>1, <2>10, <2>11
<1>4. \A x \in 1..Total(sizes) : \E c \in 1..m : x \in Y[c]
  BY ClassesListed
<1>5. \A c, d \in 1..m : c # d => Y[c] \cap Y[d] = {}
  BY ClassesListed
<1>6. D = [s \in 1..n |-> FlattenSeq([c \in 1..m |-> P[c][s]])]
  <2>1. ASSUME NEW s \in 1..n
        PROVE [c \in 1..m |-> Cut(ClassSamples(sizes, c), k[c])[s]] = [c \in 1..m |-> P[c][s]]
    <3> HIDE DEF Cut
    <3> QED
      OBVIOUS
  <2> HIDE DEF P, Cut
  <2> QED
    BY <1>2, <2>1
<1> HIDE DEF m, Y, P
<1>7. PartsDealt(P, Y, m, n, 1..Total(sizes))
  BY <1>3, <1>4, <1>5 DEF PartsDealt
<1>8. Deals([s \in 1..n |-> FlattenSeq([c \in 1..m |-> P[c][s]])], n, 1..Total(sizes))
  BY <1>1, <1>7, FlattenDeals
<1> QED
  BY <1>6, <1>8

LEMMA EveryStrategyDeals ==
  ASSUME NEW sizes \in Seq(Nat), NEW n \in 1..Total(sizes),
         NEW D \in {SequentialShards(sizes, n), StratifiedShards(sizes, n)} \cup NonIidShards(sizes, n)
  PROVE  Deals(D, n, 1..Total(sizes))
<1>1. Total(sizes) \in Nat
  BY ClassesRise
<1>2. Total(sizes) # 0 /\ n \in Nat \ {0}
  BY <1>1
<1>3. CASE D = SequentialShards(sizes, n)
  BY <1>2, <1>3, SequentialDeals
<1>4. CASE D = StratifiedShards(sizes, n)
  BY <1>2, <1>4, StratifiedDeals
<1>5. CASE D \in NonIidShards(sizes, n)
  BY <1>2, <1>5, NonIidDeals
<1> QED
  BY <1>3, <1>4, <1>5

-----------------------------------------------------------------------------
(***************************************************************************)
(* Cutting a shard into batches.                                           *)
(***************************************************************************)
\* Batch i of shard s holds the samples in the places after From(i), up to Upto(s, i).
From(i) == i * batchSize - batchSize
Upto(s, i) == IF i * batchSize < Len(shards[s]) THEN i * batchSize ELSE Len(shards[s])

LEMMA BatchFacts ==
  ASSUME batchSize \in Nat \ {0}, NEW X, NEW s, shards[s] \in Seq(X), NEW i \in 1..BatchCount(s)
  PROVE  /\ From(i) \in Nat /\ Upto(s, i) \in Nat /\ From(i) < Upto(s, i) /\ Upto(s, i) <= Len(shards[s])
         /\ Upto(s, i) - From(i) <= batchSize
         /\ SamplesOf(<<s, i>>) \in Seq(X) /\ Len(SamplesOf(<<s, i>>)) = Upto(s, i) - From(i)
         /\ \A j \in 1..(Upto(s, i) - From(i)) : SamplesOf(<<s, i>>)[j] = shards[s][From(i) + j]
<1> DEFINE L == Len(shards[s])
           last == i * batchSize
           q == shards[s]
<1>1. L \in Nat
  OBVIOUS
<1>2. last \in Nat /\ last - batchSize \in Nat /\ last - batchSize < L
  BY <1>1, BatchBounds DEF BatchCount, CountOf
<1>3. SamplesOf(<<s, i>>) = SubSeq(q, last - batchSize + 1, IF last < L THEN last ELSE L)
  BY DEF SamplesOf
<1>4. From(i) = last - batchSize /\ Upto(s, i) = IF last < L THEN last ELSE L
  BY DEF From, Upto
<1>5. q \in Seq(X)
  OBVIOUS
<1> HIDE DEF last, q, L
<1>6. /\ From(i) \in Nat /\ Upto(s, i) \in Nat /\ From(i) < Upto(s, i) /\ Upto(s, i) <= L
      /\ Upto(s, i) - From(i) <= batchSize
  BY <1>1, <1>2, <1>4
<1>7. SamplesOf(<<s, i>>) = SubSeq(q, From(i) + 1, Upto(s, i))
  BY <1>3, <1>4
<1>8. L = Len(q) /\ From(i) <= Upto(s, i)
  BY <1>6 DEF L, q
<1>9. /\ SubSeq(q, From(i) + 1, Upto(s, i)) \in Seq(X) /\ Len(SubSeq(q, From(i) + 1, Upto(s, i))) = Upto(s, i) - From(i)
      /\ \A j \in 1..(Upto(s, i) - From(i)) : SubSeq(q, From(i) + 1, Upto(s, i))[j] = q[From(i) + j]
  <2> DEFINE a == From(i)
             c == Upto(s, i)
  <2>1. a \in Nat /\ c \in Nat /\ a <= c /\ c <= Len(q)
    BY <1>6, <1>8
  <2> HIDE DEF a, c
  <2>2. /\ SubSeq(q, a + 1, c) \in Seq(X) /\ Len(SubSeq(q, a + 1, c)) = c - a
        /\ \A j \in 1..(c - a) : SubSeq(q, a + 1, c)[j] = q[a + j]
    BY <1>5, <2>1, SubSeqFacts
  <2> QED
    BY <2>2 DEF a, c
<1> QED
  BY <1>6, <1>7, <1>9 DEF L, q

\* Every sample is in exactly one batch, and no batch is empty or too large.
LEMMA BatchesArePartition ==
  ASSUME batchSize \in Nat \ {0}, NEW n \in Nat, NEW X, Deals(shards, n, X)
  PROVE  /\ \A b \in AllBatches : Len(SamplesOf(b)) \in 1..batchSize /\ IsInjective(SamplesOf(b))
         /\ \A x \in X : \E b \in AllBatches : /\ x \in Range(SamplesOf(b))
                                               /\ \A c \in AllBatches \ {b} : x \notin Range(SamplesOf(c))
<1> DEFINE Batch(s, i) == s \in 1..n /\ i \in 1..BatchCount(s)
<1>1. \A b : b \in AllBatches <=> \E s, i : Batch(s, i) /\ b = <<s, i>>
  BY DEF AllBatches, BatchIds, Deals
<1>2. \A s \in 1..n : shards[s] \in Seq(X) /\ Len(shards[s]) \in Nat
  BY DEF Deals
<1>3. ASSUME NEW s, NEW i, Batch(s, i)
      PROVE  /\ From(i) \in Nat /\ Upto(s, i) \in Nat /\ From(i) < Upto(s, i) /\ Upto(s, i) <= Len(shards[s])
             /\ Upto(s, i) - From(i) <= batchSize
             /\ SamplesOf(<<s, i>>) \in Seq(X) /\ Len(SamplesOf(<<s, i>>)) = Upto(s, i) - From(i)
             /\ \A j \in 1..(Upto(s, i) - From(i)) : SamplesOf(<<s, i>>)[j] = shards[s][From(i) + j]
  <2>1. shards[s] \in Seq(X) /\ i \in 1..BatchCount(s)
    BY <1>2, <1>3
  <2> QED
    BY <2>1, BatchFacts
<1>4. ASSUME NEW s, NEW i, Batch(s, i), NEW x
      PROVE  x \in Range(SamplesOf(<<s, i>>))
               <=> \E p \in 1..Len(shards[s]) : From(i) < p /\ p <= Upto(s, i) /\ shards[s][p] = x
  <2> DEFINE a == From(i)
             c == Upto(s, i)
             L == Len(shards[s])
             q == shards[s]
             S == SamplesOf(<<s, i>>)
  <2>1. /\ a \in Nat /\ c \in Nat /\ a < c /\ c <= L /\ L \in Nat
        /\ S \in Seq(X) /\ Len(S) = c - a /\ \A j \in 1..(c - a) : S[j] = q[a + j]
    BY <1>2, <1>3, <1>4
  <2>2. DOMAIN S = 1..(c - a)
    BY <2>1
  <2> HIDE DEF a, c, L, q, S
  <2>3. x \in Range(S) <=> \E j \in 1..(c - a) : S[j] = x
    BY <2>2 DEF Range
  <2>4. ASSUME NEW j \in 1..(c - a), S[j] = x PROVE \E p \in 1..L : a < p /\ p <= c /\ q[p] = x
    <3>1. a + j \in 1..L /\ a < a + j /\ a + j <= c /\ q[a + j] = x
      BY <2>1, <2>4
    <3> QED
      BY <3>1
  <2>5. ASSUME NEW p \in 1..L, a < p, p <= c, q[p] = x PROVE \E j \in 1..(c - a) : S[j] = x
    <3>1. p - a \in 1..(c - a) /\ a + (p - a) = p
      BY <2>1, <2>5
    <3>2. S[p - a] = q[a + (p - a)]
      BY <2>1, <3>1
    <3> QED
      BY <2>5, <3>1, <3>2
  <2>6. x \in Range(S) <=> \E p \in 1..L : a < p /\ p <= c /\ q[p] = x
    BY <2>3, <2>4, <2>5
  <2> QED
    BY <2>6 DEF a, c, L, q, S
<1>5. ASSUME NEW s, NEW i, Batch(s, i)
      PROVE Len(SamplesOf(<<s, i>>)) \in 1..batchSize /\ IsInjective(SamplesOf(<<s, i>>))
  <2> DEFINE a == From(i)
             c == Upto(s, i)
             q == shards[s]
             S == SamplesOf(<<s, i>>)
  <2>1. /\ a \in Nat /\ c \in Nat /\ a < c /\ c <= Len(q) /\ Len(q) \in Nat /\ c - a <= batchSize
        /\ S \in Seq(X) /\ Len(S) = c - a /\ \A j \in 1..(c - a) : S[j] = q[a + j]
    BY <1>2, <1>3, <1>5
  <2>2. \A p, r \in 1..Len(q) : q[p] = q[r] => p = r
    BY <1>5 DEF Deals
  <2>3. DOMAIN S = 1..(c - a)
    BY <2>1
  <2> HIDE DEF a, c, q, S
  <2>4. ASSUME NEW j \in 1..(c - a), NEW k \in 1..(c - a), S[j] = S[k] PROVE j = k
    <3>1. a + j \in 1..Len(q) /\ a + k \in 1..Len(q) /\ q[a + j] = q[a + k]
      BY <2>1, <2>4
    <3>2. a + j = a + k
      BY <2>2, <3>1
    <3> QED
      BY <2>1, <3>2
  <2>5. IsInjective(S)
    BY <2>3, <2>4 DEF IsInjective
  <2>6. Len(S) \in 1..batchSize
    BY <2>1
  <2> QED
    BY <2>5, <2>6 DEF S
<1>6. ASSUME NEW x \in X
      PROVE  \E b \in AllBatches : x \in Range(SamplesOf(b)) /\ \A c \in AllBatches \ {b} : x \notin Range(SamplesOf(c))
  <2>1. PICK s \in 1..n : \E p \in 1..Len(shards[s]) : shards[s][p] = x
    BY DEF Deals
  <2>2. PICK p \in 1..Len(shards[s]) : shards[s][p] = x
    BY <2>1
  <2> DEFINE L == Len(shards[s])
             count == BatchCount(s)
  <2>3. L \in Nat /\ count = CountOf(L, batchSize) /\ p \in 1..L
    BY <1>2 DEF BatchCount, CountOf
  <2> HIDE DEF L, count
  <2>4. \A i \in 1..count : i * batchSize \in Nat
    BY <2>3, BatchBounds
  <2>5. \E i \in 1..count : Within(p, i, batchSize)
    BY <2>3, BatchBounds
  <2>6. \A i, k \in 1..count : Within(p, i, batchSize) /\ Within(p, k, batchSize) => i = k
    BY <2>3, BatchBounds
  <2> USE DEF count
  <2>7. PICK i \in 1..BatchCount(s) : Within(p, i, batchSize)
    BY <2>5
  <2>8. Batch(s, i) /\ <<s, i>> \in AllBatches
    BY <1>1
  <2>9. From(i) < p /\ p <= Upto(s, i)
    BY <2>7 DEF From, Upto, Within
  <2>10. x \in Range(SamplesOf(<<s, i>>))
    BY <1>4, <2>2, <2>8, <2>9
  <2>11. ASSUME NEW c \in AllBatches, x \in Range(SamplesOf(c)) PROVE c = <<s, i>>
    <3>1. PICK t, k : Batch(t, k) /\ c = <<t, k>>
      BY <1>1
    <3>2. PICK r \in 1..Len(shards[t]) : From(k) < r /\ r <= Upto(t, k) /\ shards[t][r] = x
      BY <1>4, <2>11, <3>1
    <3>3. t \in 1..n /\ k \in 1..BatchCount(t)
      BY <3>1
    <3>4. t = s /\ r = p
      <4>1. \A t1, s1 \in 1..n : \A r1 \in 1..Len(shards[t1]), p1 \in 1..Len(shards[s1]) :
              shards[t1][r1] = shards[s1][p1] => t1 = s1 /\ r1 = p1
        BY DEF Deals
      <4>2. t \in 1..n /\ s \in 1..n /\ r \in 1..Len(shards[t]) /\ p \in 1..Len(shards[s]) /\ shards[t][r] = shards[s][p]
        BY <2>2, <3>2, <3>3
      <4>3. \A r1 \in 1..Len(shards[t]), p1 \in 1..Len(shards[s]) : shards[t][r1] = shards[s][p1] => t = s /\ r1 = p1
        BY <4>1, <4>2
      <4> QED
        BY <4>2, <4>3
    <3>5. Within(p, k, batchSize)
      <4>1. Upto(s, k) <= k * batchSize
        <5> DEFINE z == k * batchSize
        <5>1. z \in Nat /\ Upto(s, k) = IF z < Len(shards[s]) THEN z ELSE Len(shards[s])
          BY <2>4, <3>3, <3>4 DEF Upto
        <5> HIDE DEF z
        <5>2. Upto(s, k) <= z
          BY <1>2, <5>1
        <5> QED
          BY <5>2 DEF z
      <4>2. Upto(s, k) \in Nat /\ k * batchSize \in Nat
        BY <1>3, <2>4, <3>1, <3>3, <3>4
      <4> DEFINE z == k * batchSize
                 u == Upto(s, k)
      <4>3. p \in Nat /\ p <= u /\ u <= z /\ u \in Nat /\ z \in Nat
        BY <3>2, <3>4, <4>1, <4>2
      <4>4. p <= z
        <5> HIDE DEF z, u
        <5> QED
          BY <4>3
      <4>5. k * batchSize - batchSize < p
        BY <3>2, <3>4 DEF From
      <4> QED
        BY <4>4, <4>5 DEF Within
    <3>6. i = k
      <4>1. i \in 1..count /\ k \in 1..count
        BY <3>3, <3>4
      <4> HIDE DEF count
      <4> QED
        BY <2>6, <2>7, <3>5, <4>1
    <3> QED
      BY <3>1, <3>4, <3>6
  <2> QED
    BY <2>8, <2>10, <2>11
<1>7. \A b \in AllBatches : Len(SamplesOf(b)) \in 1..batchSize /\ IsInjective(SamplesOf(b))
  <2> SUFFICES ASSUME NEW b \in AllBatches PROVE Len(SamplesOf(b)) \in 1..batchSize /\ IsInjective(SamplesOf(b))
    OBVIOUS
  <2>1. PICK s, i : Batch(s, i) /\ b = <<s, i>>
    BY <1>1
  <2> QED
    BY <1>5, <2>1
<1> QED
  BY <1>6, <1>7

-----------------------------------------------------------------------------
(***************************************************************************)
(* The handler.  The shards are dealt out before anything is saved; the    *)
(* shards already worked on are listed whole; a thread that has begun has  *)
(* its data, unless one failed; and there are rows only for everything.    *)
(***************************************************************************)
RequestOK == classSizes \in Seq(Nat) /\ numShards \in Nat /\ batchSize \in Nat \ {0}

ShardsDealt ==
  \/ shards = <<>>
  \/ numShards \in Nat \ {0} /\ Deals(shards, numShards, 1..Total(classSizes))

SavesInOrder ==
  /\ phase = "start" => shards = <<>>
  /\ phase = "save" => /\ working \in 1..numShards /\ shards # <<>>
                       /\ \A s \in 1..(working - 1) : BatchIds(s) \subseteq listed
  /\ phase = "persist" => AllBatches \subseteq listed
  /\ phase # "failed" => tried = data

RowsForAll == persisted # {} => persisted = AllBatches /\ AllBatches \subseteq listed /\ phase \in {"done", "aborted"}

ShardingInv == ShardingTypeOK /\ RequestOK /\ ShardsDealt /\ SavesInOrder /\ RowsForAll

\* The batches are those of the shards that have been dealt out.
LEMMA WhoseBatches ==
  ASSUME RequestOK, ShardsDealt
  PROVE  /\ shards = <<>> => AllBatches = {}
         /\ shards # <<>> => /\ DOMAIN shards = 1..numShards
                             /\ \A s \in 1..numShards : BatchIds(s) \subseteq AllBatches
                             /\ \A b \in AllBatches : \E s \in 1..numShards : b \in BatchIds(s)
  BY DEF ShardsDealt, AllBatches, Deals

LEMMA SameBatches ==
  ASSUME UNCHANGED <<shards, batchSize>>
  PROVE  AllBatches' = AllBatches /\ \A s : BatchIds(s)' = BatchIds(s)
  BY DEF AllBatches, BatchIds, BatchCount

LEMMA CreateShardsKeeps ==
  ASSUME ShardingInv, CreateShards
  PROVE  ShardingInv'
<1> USE DEF ShardingInv
<1>1. phase = "start" /\ UNCHANGED <<classSizes, numShards, batchSize, tried, data, listed, persisted>>
  BY DEF CreateShards, request
<1>2. AllBatches = {} /\ tried = {} /\ data = {} /\ listed = {} /\ persisted = {}
  BY <1>1, WhoseBatches DEF SavesInOrder, ShardingTypeOK
<1>3. RequestOK' /\ RowsForAll'
  BY <1>1, <1>2 DEF RequestOK, RowsForAll
<1>4. CASE phase' = "failed" /\ UNCHANGED <<shards, working>>
  <2>1. AllBatches' = AllBatches
    BY <1>1, <1>4, SameBatches
  <2> QED
    BY <1>1, <1>2, <1>3, <1>4, <2>1 DEF ShardingTypeOK, ShardsDealt, SavesInOrder
<1>5. CASE /\ numShards \in 1..Total(classSizes)
           /\ shards' \in {SequentialShards(classSizes, numShards), StratifiedShards(classSizes, numShards)}
                          \cup NonIidShards(classSizes, numShards)
           /\ phase' = "save" /\ working' = 1
  <2>1. Deals(shards', numShards, 1..Total(classSizes))
    BY <1>5, EveryStrategyDeals DEF RequestOK
  <2>2. numShards \in Nat \ {0} /\ 1 \in 1..numShards /\ 1 \in 0..numShards
    BY <1>5 DEF RequestOK
  <2>3. DOMAIN shards' = 1..numShards /\ \A s \in 1..numShards : shards'[s] \in Seq(1..Total(classSizes))
    BY <2>1 DEF Deals
  <2>4. shards' # <<>>
    BY <2>2, <2>3
  <2>5. ShardingTypeOK'
    BY <1>1, <1>2, <1>5, <2>2, <2>3 DEF ShardingTypeOK
  <2>6. ShardsDealt'
    BY <1>1, <2>1, <2>2 DEF ShardsDealt
  <2>7. SavesInOrder'
    BY <1>1, <1>2, <1>5, <2>2, <2>4 DEF SavesInOrder
  <2> QED
    BY <1>3, <2>5, <2>6, <2>7
<1> QED
  BY <1>4, <1>5 DEF CreateShards

LEMMA SavesKeep ==
  ASSUME ShardingInv, NEW b \in AllBatches, SaveData(b) \/ SaveMetadata(b) \/ SaveFails(b)
  PROVE  ShardingInv'
<1> USE DEF ShardingInv
<1>1. UNCHANGED <<classSizes, numShards, batchSize, shards, working, persisted>>
  BY DEF SaveData, SaveMetadata, SaveFails, request
<1>2. AllBatches' = AllBatches /\ \A s : BatchIds(s)' = BatchIds(s)
  BY <1>1, SameBatches
<1>3. RequestOK' /\ ShardsDealt'
  BY <1>1 DEF RequestOK, ShardsDealt
<1>4. shards # <<>>
  BY WhoseBatches
<1>5. CASE SaveData(b)
  BY <1>1, <1>2, <1>3, <1>5 DEF SaveData, ShardingTypeOK, SavesInOrder, RowsForAll
<1>6. CASE SaveMetadata(b)
  BY <1>1, <1>2, <1>3, <1>6 DEF SaveMetadata, ShardingTypeOK, SavesInOrder, RowsForAll
<1>7. CASE SaveFails(b)
  <2>1. PICK more \in SUBSET (BatchIds(working) \ listed) : data' = data \cup more /\ listed' = listed \cup (more \ {b})
    BY <1>7 DEF SaveFails
  <2>2. phase = "save" /\ phase' = "failed" /\ tried' = tried \cup BatchIds(working)
    BY <1>7 DEF SaveFails
  <2>3. BatchIds(working) \subseteq AllBatches
    BY <1>4, <2>2, WhoseBatches DEF SavesInOrder
  <2>4. ShardingTypeOK'
    <3>1. listed' \subseteq data' /\ data' \subseteq tried' /\ tried' \subseteq AllBatches
      BY <2>1, <2>2, <2>3 DEF ShardingTypeOK
    <3> QED
      BY <1>1, <1>2, <2>2, <3>1 DEF ShardingTypeOK
  <2>5. SavesInOrder' /\ RowsForAll'
    BY <1>1, <2>2 DEF SavesInOrder, RowsForAll
  <2> QED
    BY <1>3, <2>4, <2>5
<1> QED
  BY <1>5, <1>6, <1>7

LEMMA NextShardKeeps ==
  ASSUME ShardingInv, NextShard
  PROVE  ShardingInv'
<1> USE DEF ShardingInv
<1>1. phase = "save" /\ UNCHANGED <<classSizes, numShards, batchSize, shards, tried, data, listed, persisted>>
  BY DEF NextShard, request
<1>2. AllBatches' = AllBatches /\ \A s : BatchIds(s)' = BatchIds(s)
  BY <1>1, SameBatches
<1>3. RequestOK' /\ ShardsDealt'
  BY <1>1 DEF RequestOK, ShardsDealt
<1>4. RowsForAll'
  BY <1>1, <1>2 DEF RowsForAll
<1>5. /\ working \in 1..numShards /\ shards # <<>> /\ tried = data
      /\ \A s \in 1..(working - 1) : BatchIds(s) \subseteq listed
  BY <1>1 DEF SavesInOrder
\* The shard that is left is listed whole.
<1>6. BatchIds(working) \subseteq listed
  BY <1>5 DEF NextShard, Busy
<1>7. numShards \in Nat /\ \A s \in 1..working : s \in 1..(working - 1) \/ s = working
  BY <1>5 DEF RequestOK
<1>8. \A s \in 1..working : BatchIds(s) \subseteq listed
  BY <1>5, <1>6, <1>7
<1>9. CASE working < numShards /\ working' = working + 1 /\ phase' = phase
  <2>1. working' \in 1..numShards /\ working' \in 0..numShards /\ working' - 1 = working
    BY <1>5, <1>7, <1>9
  <2> QED
    BY <1>1, <1>2, <1>3, <1>4, <1>5, <1>8, <1>9, <2>1 DEF ShardingTypeOK, SavesInOrder
<1>10. CASE ~(working < numShards) /\ phase' = "persist" /\ working' = working
  <2>1. working = numShards
    BY <1>5, <1>7, <1>10
  <2>2. AllBatches \subseteq listed
    BY <1>5, <1>8, <2>1, WhoseBatches
  <2> QED
    BY <1>1, <1>2, <1>3, <1>4, <1>5, <1>10, <2>2 DEF ShardingTypeOK, SavesInOrder
<1> QED
  BY <1>9, <1>10 DEF NextShard

LEMMA EndsKeep ==
  ASSUME ShardingInv, PersistRows \/ Abort \/ UNCHANGED shardingVars
  PROVE  ShardingInv'
<1> USE DEF ShardingInv
<1>1. UNCHANGED <<classSizes, numShards, batchSize, shards, working, tried, data, listed>>
  BY DEF PersistRows, Abort, request, shardingVars
<1>2. AllBatches' = AllBatches /\ \A s : BatchIds(s)' = BatchIds(s)
  BY <1>1, SameBatches
<1>3. RequestOK' /\ ShardsDealt'
  BY <1>1 DEF RequestOK, ShardsDealt
<1>4. CASE PersistRows
  BY <1>1, <1>2, <1>3, <1>4 DEF PersistRows, ShardingTypeOK, SavesInOrder, RowsForAll
<1>5. CASE Abort
  BY <1>1, <1>2, <1>3, <1>5 DEF Abort, ShardingTypeOK, SavesInOrder, RowsForAll
<1>6. CASE UNCHANGED shardingVars
  BY <1>1, <1>2, <1>3, <1>6 DEF shardingVars, ShardingTypeOK, SavesInOrder, RowsForAll
<1> QED
  BY <1>4, <1>5, <1>6

LEMMA ShardingStarts ==
  ASSUME ShardingInit
  PROVE  ShardingInv
<1>1. RequestOK /\ ShardsDealt
  BY ShardingParameters DEF ShardingInit, RequestOK, ShardsDealt
<1>2. ShardingTypeOK
  BY <1>1 DEF ShardingInit, ShardingTypeOK, RequestOK
<1> QED
  BY <1>1, <1>2 DEF ShardingInit, ShardingInv, SavesInOrder, RowsForAll

LEMMA ShardingStep ==
  ASSUME ShardingInv, [ShardingNext]_shardingVars
  PROVE  ShardingInv'
<1>1. CASE \E b \in AllBatches : SaveData(b) \/ SaveMetadata(b) \/ SaveFails(b)
  BY <1>1, SavesKeep
<1> QED
  BY <1>1, CreateShardsKeeps, NextShardKeeps, EndsKeep DEF ShardingNext

LEMMA ShardingInvHolds == ShardingSpec => []ShardingInv
  BY ShardingStarts, ShardingStep, PTL DEF ShardingSpec

\* Every variable of a sharding keeps to its type, whatever the dataset, the number
\* of shards and the batch size; no batch gets its metadata before its data.
THEOREM ShardingTypeCorrect == ShardingSpec => []ShardingTypeOK
<1>1. ShardingInv => ShardingTypeOK
  BY DEF ShardingInv
<1> QED
  BY <1>1, ShardingInvHolds, PTL

\* For every dataset, number of shards and batch size, and whichever threads fail:
\* once there are rows, every sample is in exactly one batch of them, no batch is
\* empty or too large, and every batch has both its objects.
THEOREM EpochsAreWhole == ShardingSpec => []WholeEpoch
<1>1. ShardingInv => WholeEpoch
  <2> SUFFICES ASSUME ShardingInv, persisted # {} PROVE WholeEpoch
    BY DEF WholeEpoch
  <2>1. persisted = AllBatches /\ AllBatches \subseteq listed
    BY DEF ShardingInv, RowsForAll
  <2>2. shards # <<>>
    BY <2>1, WhoseBatches DEF ShardingInv
  <2>3. numShards \in Nat \ {0} /\ Deals(shards, numShards, 1..Total(classSizes)) /\ batchSize \in Nat \ {0}
    BY <2>2 DEF ShardingInv, ShardsDealt, RequestOK
  <2>4. /\ \A b \in AllBatches : Len(SamplesOf(b)) \in 1..batchSize /\ IsInjective(SamplesOf(b))
        /\ \A x \in 1..Total(classSizes) : \E b \in AllBatches :
             x \in Range(SamplesOf(b)) /\ \A c \in AllBatches \ {b} : x \notin Range(SamplesOf(c))
    BY <2>3, BatchesArePartition
  <2>5. persisted \subseteq data \cap listed
    BY <2>1 DEF ShardingInv, ShardingTypeOK
  <2> QED
    BY <2>1, <2>4, <2>5 DEF WholeEpoch
<1> QED
  BY <1>1, ShardingInvHolds, PTL
=============================================================================
