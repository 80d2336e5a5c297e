----------------------------- MODULE Scan_proofs -----------------------------
(***************************************************************************)
(* Scans, proved for any series and timestamps, any sources and contents,  *)
(* any filters, cutoff and limit and any sizes of batches: the time range  *)
(* and the pruning lose no row, every source delivers its rows in the      *)
(* order of keys, and the merge hands out the live ones, each once.        *)
(***************************************************************************)
EXTENDS ScanInv, TLAPS, FiniteSetTheorems, SequenceTheorems, WellFoundedInduction

-----------------------------------------------------------------------------
(* Largest and Smallest mean what they say.                                *)

\* Of a family of finite sets there is one that includes no smaller one.
LEMMA SmallestMember ==
    ASSUME NEW S, S # {}, NEW f \in [S -> FiniteSubsetsOf(S)]
    PROVE  \E n \in S : \A m \in S : <<f[m], f[n]>> \notin StrictSubsetOrdering(S)
<1> DEFINE F == {f[n] : n \in S}
<1>1. F \subseteq FiniteSubsetsOf(S) /\ F # {}
  OBVIOUS
<1>2. PICK A \in F : \A B \in F : <<B, A>> \notin StrictSubsetOrdering(S)
  <2>1. IsWellFoundedOn(StrictSubsetOrdering(S), FiniteSubsetsOf(S))
    BY FS_StrictSubsetOrderingWellFounded
  <2> HIDE DEF F
  <2> QED BY <1>1, <2>1, WFMin, Zenon
<1>3. PICK n \in S : A = f[n]
  OBVIOUS
<1> QED BY <1>2, <1>3

LEMMA LargestIsLargest ==
    ASSUME NEW S \in SUBSET Int, S # {}, IsFiniteSet(S)
    PROVE  Largest(S) \in S /\ \A s \in S : s <= Largest(S)
<1> DEFINE Above(n) == {m \in S : m > n}
           f == [n \in S |-> Above(n)]
<1>1. f \in [S -> FiniteSubsetsOf(S)]
  <2>1. \A n \in S : IsFiniteSet(Above(n))
    BY FS_Subset
  <2> QED BY <2>1 DEF FiniteSubsetsOf
<1>2. PICK n \in S : \A m \in S : <<f[m], f[n]>> \notin StrictSubsetOrdering(S)
  <2> HIDE DEF f
  <2> QED BY <1>1, SmallestMember
<1>3. ASSUME NEW m \in S, m > n PROVE FALSE
  <2>1. \A x \in S : x > m => x > n
    BY <1>3
  <2>2. Above(m) \subseteq Above(n)
    BY <2>1
  <2>3. m \in Above(n) /\ m \notin Above(m)
    BY <1>3
  <2>4. <<Above(m), Above(n)>> \in StrictSubsetOrdering(S)
    BY <2>2, <2>3 DEF StrictSubsetOrdering
  <2>5. f[m] = Above(m) /\ f[n] = Above(n)
    OBVIOUS
  <2> HIDE DEF Above, f
  <2> QED BY <2>4, <2>5, <1>2
<1>4. \A s \in S : s <= n
  BY <1>3
<1> QED BY <1>4 DEF Largest

LEMMA SmallestIsSmallest ==
    ASSUME NEW S \in SUBSET Int, S # {}, IsFiniteSet(S)
    PROVE  Smallest(S) \in S /\ \A s \in S : Smallest(S) <= s
<1> DEFINE Under(n) == {m \in S : m < n}
           f == [n \in S |-> Under(n)]
<1>1. f \in [S -> FiniteSubsetsOf(S)]
  <2>1. \A n \in S : IsFiniteSet(Under(n))
    BY FS_Subset
  <2> QED BY <2>1 DEF FiniteSubsetsOf
<1>2. PICK n \in S : \A m \in S : <<f[m], f[n]>> \notin StrictSubsetOrdering(S)
  <2> HIDE DEF f
  <2> QED BY <1>1, SmallestMember
<1>3. ASSUME NEW m \in S, m < n PROVE FALSE
  <2>1. \A x \in S : x < m => x < n
    BY <1>3
  <2>2. Under(m) \subseteq Under(n)
    BY <2>1
  <2>3. m \in Under(n) /\ m \notin Under(m)
    BY <1>3
  <2>4. <<Under(m), Under(n)>> \in StrictSubsetOrdering(S)
    BY <2>2, <2>3 DEF StrictSubsetOrdering
  <2>5. f[m] = Under(m) /\ f[n] = Under(n)
    OBVIOUS
  <2> HIDE DEF Under, f
  <2> QED BY <2>4, <2>5, <1>2
<1>4. \A s \in S : n <= s
  BY <1>3
<1> QED BY <1>4 DEF Smallest

\* Lowest and Highest are outside of all timestamps, as the ends of i64 are.
LEMMA EndsAreOutside ==
    Lowest \in Int /\ Highest \in Int /\ \A t \in Times : Lowest < t /\ t < Highest
<1>1. Times \in SUBSET Int /\ Times # {} /\ IsFiniteSet(Times)
  BY DataAssumption
<1>2. /\ Smallest(Times) \in Times /\ \A s \in Times : Smallest(Times) <= s
      /\ Largest(Times) \in Times /\ \A s \in Times : s <= Largest(Times)
  BY <1>1, LargestIsLargest, SmallestIsSmallest
<1>3. Lowest = Smallest(Times) - 1 /\ Highest = Largest(Times) + 1
  BY DEF Lowest, Highest
<1>4. Smallest(Times) \in Int /\ Largest(Times) \in Int
  BY <1>1, <1>2
<1>5. ASSUME NEW t \in Times PROVE Lowest < t /\ t < Highest
  <2>1. t \in Int /\ Smallest(Times) <= t /\ t <= Largest(Times)
    BY <1>1, <1>2
  <2> QED BY <1>3, <1>4, <2>1
<1> QED BY <1>3, <1>4, <1>5

-----------------------------------------------------------------------------
(* The range read off the filters.                                         *)

\* Swapping the operator is what swapping the sides means, for those that
\* bound the time from below or from above.
LEMMA OperatorMeans ==
    ASSUME NEW c \in Comparison, NEW ts \in Times, Keeps({c}, ts)
    PROVE  /\ Operator(c) \in {">", ">=", "="} => c.ts <= ts
           /\ Operator(c) \in {"<", "<=", "="} => ts <= c.ts
<1>1. /\ c.op \in {"<", "<=", ">", ">=", "=", "!="} /\ c.flipped \in BOOLEAN
      /\ c.ts \in Int /\ ts \in Int
  BY DataAssumption DEF Comparison
<1>2. IF c.flipped THEN Holds(c.op, c.ts, ts) ELSE Holds(c.op, ts, c.ts)
  BY DEF Keeps
<1>3. CASE c.op = "<"
  BY <1>1, <1>2, <1>3 DEF Operator, Swapped, Holds
<1>4. CASE c.op = "<="
  BY <1>1, <1>2, <1>4 DEF Operator, Swapped, Holds
<1>5. CASE c.op = ">"
  BY <1>1, <1>2, <1>5 DEF Operator, Swapped, Holds
<1>6. CASE c.op = ">="
  BY <1>1, <1>2, <1>6 DEF Operator, Swapped, Holds
<1>7. CASE c.op = "="
  BY <1>1, <1>2, <1>7 DEF Operator, Swapped, Holds
<1>8. CASE c.op = "!="
  BY <1>1, <1>2, <1>8 DEF Operator, Swapped, Holds
<1> QED BY <1>1, <1>3, <1>4, <1>5, <1>6, <1>7, <1>8

\* No filter is narrowed by more than it says.
LEMMA RangeCovers ==
    ASSUME NEW F \in SUBSET Comparison
    PROVE  /\ ExtractTimeRange(F) \in [min : Int, max : Int]
           /\ \A ts \in Times :
                Keeps(F, ts) => ExtractTimeRange(F).min <= ts /\ ts <= ExtractTimeRange(F).max
<1> DEFINE low == {c.ts : c \in {d \in F : Operator(d) \in {">", ">=", "="}}}
           high == {c.ts : c \in {d \in F : Operator(d) \in {"<", "<=", "="}}}
           L == {Lowest} \cup low
           H == {Highest} \cup high
<1>1. low \in SUBSET Times /\ high \in SUBSET Times
  BY DEF Comparison
<1>2. L \in SUBSET Int /\ H \in SUBSET Int /\ L # {} /\ H # {}
  BY <1>1, EndsAreOutside, DataAssumption
<1>3. IsFiniteSet(L) /\ IsFiniteSet(H)
  <2>1. IsFiniteSet(low) /\ IsFiniteSet(high)
    BY <1>1, FS_Subset, DataAssumption
  <2>2. IsFiniteSet(low \cup {Lowest}) /\ IsFiniteSet(high \cup {Highest})
    <3> HIDE DEF low, high
    <3> QED BY <2>1, FS_AddElement
  <2>3. L = low \cup {Lowest} /\ H = high \cup {Highest}
    OBVIOUS
  <2> HIDE DEF L, H, low, high
  <2> QED BY <2>2, <2>3
<1>4. Largest(L) \in L /\ Smallest(H) \in H
  <2> HIDE DEF L, H
  <2> QED BY <1>2, <1>3, LargestIsLargest, SmallestIsSmallest
<1>5. ExtractTimeRange(F) = [min |-> Largest(L), max |-> Smallest(H)]
  BY DEF ExtractTimeRange
<1>6. ASSUME NEW ts \in Times, Keeps(F, ts)
      PROVE  (\A l \in L : l <= ts) /\ (\A h \in H : ts <= h)
  <2>1. ASSUME NEW c \in F
        PROVE  /\ Operator(c) \in {">", ">=", "="} => c.ts <= ts
               /\ Operator(c) \in {"<", "<=", "="} => ts <= c.ts
    <3>1. c \in Comparison /\ Keeps({c}, ts)
      BY <1>6 DEF Keeps
    <3> QED BY <3>1, OperatorMeans
  <2>2. (\A l \in low : l <= ts) /\ (\A h \in high : ts <= h)
    BY <2>1
  <2>3. Lowest <= ts /\ ts <= Highest
    BY EndsAreOutside, DataAssumption
  <2> HIDE DEF low, high
  <2> QED BY <2>2, <2>3
<1> HIDE DEF L, H
<1>7. ExtractTimeRange(F) \in [min : Int, max : Int]
  <2>1. Largest(L) \in Int /\ Smallest(H) \in Int
    BY <1>2, <1>4
  <2> QED BY <1>5, <2>1
<1> QED BY <1>4, <1>5, <1>6, <1>7

\* The TTL takes away what has expired, and no more.
LEMMA ClampedFacts ==
    ASSUME NEW r \in [min : Int, max : Int], NEW c \in Int
    PROVE  /\ Clamped(r, c).min \in {r.min, c}
           /\ Clamped(r, c).max = r.max
<1>1. {r.min, c} \in SUBSET Int /\ {r.min, c} # {} /\ IsFiniteSet({r.min, c})
  <2>1. IsFiniteSet({r.min})
    BY FS_Singleton
  <2>2. IsFiniteSet({r.min} \cup {c})
    BY <2>1, FS_AddElement
  <2>3. {r.min} \cup {c} = {r.min, c}
    OBVIOUS
  <2> QED BY <2>2, <2>3
<1>2. Largest({r.min, c}) \in {r.min, c}
  BY <1>1, LargestIsLargest
<1>3. Clamped(r, c) = [r EXCEPT !.min = Largest({r.min, c})]
  BY DEF Clamped
<1> HIDE DEF Clamped
<1> QED BY <1>2, <1>3

\* The range a scan prunes by has in it every timestamp that the filters keep
\* and that has not expired: no row group and no SST is skipped that holds a
\* row the query asks for (predicate.rs 33-92, provider.rs 60-63).
THEOREM RangeLosesNothing == Spec => []RangeKeeps
<1>1. Init => RangeKeeps
  BY DEF Init, RangeKeeps
<1>2. RangeKeeps /\ [Next]_vars => RangeKeeps'
  <2> SUFFICES ASSUME RangeKeeps, [Next]_vars PROVE RangeKeeps'
    OBVIOUS
  <2>1. CASE Plan
    <3>1. PICK F \in SUBSET Comparison, c \in Times \cup {Lowest} :
            /\ filters' = F /\ cutoff' = c /\ range' = Clamped(ExtractTimeRange(F), c)
      BY <2>1 DEF Plan
    <3> DEFINE r == ExtractTimeRange(F)
    <3>2. /\ r \in [min : Int, max : Int]
          /\ \A ts \in Times : Keeps(F, ts) => r.min <= ts /\ ts <= r.max
      BY RangeCovers
    <3>3. c \in Int
      BY EndsAreOutside, DataAssumption
    <3> HIDE DEF r
    <3>4. Clamped(r, c).min \in {r.min, c} /\ Clamped(r, c).max = r.max
      BY <3>2, <3>3, ClampedFacts
    <3>5. range' = Clamped(r, c)
      BY <3>1 DEF r
    <3> SUFFICES ASSUME NEW ts \in Times, Keeps(F, ts), c <= ts
                 PROVE  range'.min <= ts /\ ts <= range'.max
      BY <3>1 DEF RangeKeeps, InRange
    <3> QED BY <3>2, <3>4, <3>5
  <2>2. CASE Prepare \/ Execute \/ Exhausted
    BY <2>2 DEF Prepare, Execute, Exhausted, RangeKeeps
  <2>3. CASE MergeKey
    BY <2>3 DEF MergeKey, RangeKeeps
  <2>4. CASE HandOut
    BY <2>4 DEF HandOut, RangeKeeps
  <2>5. CASE UNCHANGED vars
    BY <2>5 DEF vars, RangeKeeps, InRange
  <2> QED BY <2>1, <2>2, <2>3, <2>4, <2>5 DEF Next
<1> QED BY <1>1, <1>2, PTL DEF Spec

-----------------------------------------------------------------------------
(* What is skipped.                                                        *)

\* select_row_groups() skips no group with a row in range: it compares the
\* ends of the range with the least and the greatest timestamp of the group
\* (sstable.rs 469-483, 693-725).
THEOREM PruningLosesNothing ==
    ASSUME NEW g, \A r \in RowsOf(g) : r.key.ts \in Times,
           range \in [min : Int, max : Int], ~ Overlaps(g)
    PROVE  \A r \in RowsOf(g) : ~ InRange(r.key.ts)
<1> SUFFICES ASSUME NEW r \in RowsOf(g) PROVE ~ InRange(r.key.ts)
  OBVIOUS
<1> DEFINE S == {q.key.ts : q \in RowsOf(g)}
<1>1. S \in SUBSET Int /\ S # {} /\ IsFiniteSet(S) /\ r.key.ts \in S
  <2>1. S \in SUBSET Times /\ r.key.ts \in S
    OBVIOUS
  <2> HIDE DEF S
  <2> QED BY <2>1, FS_Subset, DataAssumption
<1>2. MinTs(g) = Smallest(S) /\ MaxTs(g) = Largest(S)
  BY DEF MinTs, MaxTs
<1> HIDE DEF S
<1>3. /\ Smallest(S) \in S /\ Smallest(S) <= r.key.ts
      /\ Largest(S) \in S /\ r.key.ts <= Largest(S)
  BY <1>1, LargestIsLargest, SmallestIsSmallest
<1>4. Largest(S) < range.min \/ Smallest(S) > range.max
  BY <1>2 DEF Overlaps
<1>5. /\ Smallest(S) \in Int /\ Largest(S) \in Int /\ r.key.ts \in Int
      /\ range.min \in Int /\ range.max \in Int
  BY <1>1, <1>3
<1> QED BY <1>3, <1>4, <1>5 DEF InRange

-----------------------------------------------------------------------------
(* Ranks: in a finite set with a strict order, the element with n - 1      *)
(* others below it exists, and there is one for every n.                   *)

Orders(L, S) ==
    /\ \A x, y \in S : <<x, y>> \in L \/ <<y, x>> \in L \/ x = y
    /\ \A x, y, z \in S : <<x, y>> \in L /\ <<y, z>> \in L => <<x, z>> \in L
    /\ \A x \in S : <<x, x>> \notin L
Below(L, S, x) == {y \in S : <<y, x>> \in L}

LEMMA RankFacts ==
    ASSUME NEW S, IsFiniteSet(S), NEW L, Orders(L, S)
    PROVE  /\ \A x \in S : Cardinality(Below(L, S, x)) \in 0 .. Cardinality(S) - 1
           /\ \A x, y \in S : <<x, y>> \in L =>
                Cardinality(Below(L, S, x)) < Cardinality(Below(L, S, y))
           /\ \A n \in 1 .. Cardinality(S) :
                \E x \in S : Cardinality(Below(L, S, x)) = n - 1
<1>1. Cardinality(S) \in Nat
  BY FS_CardinalityType
<1>2. ASSUME NEW x \in S
      PROVE  /\ IsFiniteSet(Below(L, S, x)) /\ Cardinality(Below(L, S, x)) \in Nat
             /\ Cardinality(Below(L, S, x)) < Cardinality(S)
  <2>1. Below(L, S, x) \in SUBSET S /\ Below(L, S, x) # S
    BY DEF Below, Orders
  <2>2. /\ IsFiniteSet(Below(L, S, x))
        /\ Cardinality(Below(L, S, x)) <= Cardinality(S)
        /\ Cardinality(S) # Cardinality(Below(L, S, x))
    BY <2>1, FS_Subset
  <2>3. Cardinality(Below(L, S, x)) \in Nat
    BY <2>2, FS_CardinalityType
  <2> QED BY <1>1, <2>2, <2>3
<1>3. ASSUME NEW x \in S, NEW y \in S, <<x, y>> \in L
      PROVE  Cardinality(Below(L, S, x)) < Cardinality(Below(L, S, y))
  <2>1. Below(L, S, x) \in SUBSET Below(L, S, y) /\ Below(L, S, x) # Below(L, S, y)
    BY <1>3 DEF Below, Orders
  <2>2. /\ Cardinality(Below(L, S, x)) <= Cardinality(Below(L, S, y))
        /\ Cardinality(Below(L, S, y)) # Cardinality(Below(L, S, x))
    BY <1>2, <2>1, FS_Subset
  <2>3. Cardinality(Below(L, S, x)) \in Nat /\ Cardinality(Below(L, S, y)) \in Nat
    BY <1>2
  <2> QED BY <2>2, <2>3
<1> DEFINE N == 1 .. Cardinality(S)
           f == [x \in S |-> Cardinality(Below(L, S, x)) + 1]
<1>4. f \in Injection(S, N)
  <2>1. ASSUME NEW x \in S PROVE f[x] \in N
    BY <1>1, <1>2
  <2>2. ASSUME NEW x \in S, NEW y \in S, f[x] = f[y] PROVE x = y
    <3>1. Cardinality(Below(L, S, x)) = Cardinality(Below(L, S, y))
      <4>1. f[x] = Cardinality(Below(L, S, x)) + 1 /\ f[y] = Cardinality(Below(L, S, y)) + 1
        OBVIOUS
      <4>2. Cardinality(Below(L, S, x)) \in Nat /\ Cardinality(Below(L, S, y)) \in Nat
        BY <1>2
      <4>3. Cardinality(Below(L, S, x)) + 1 = Cardinality(Below(L, S, y)) + 1
        <5> HIDE DEF f
        <5> QED BY <2>2, <4>1, Zenon
      <4> HIDE DEF f
      <4> QED BY <4>2, <4>3
    <3>2. <<x, y>> \notin L /\ <<y, x>> \notin L
      <4>1. Cardinality(Below(L, S, x)) \in Nat
        BY <1>2
      <4> QED BY <1>3, <3>1, <4>1
    <3> QED BY <3>2 DEF Orders
  <2>3. f \in [S -> N]
    <3> HIDE DEF N
    <3> QED BY <2>1
  <2> HIDE DEF f, N
  <2> QED BY <2>2, <2>3 DEF Injection, IsInjective
<1>5. IsFiniteSet(N) /\ Cardinality(N) = Cardinality(S)
  <2>1. IsFiniteSet(N) /\ Cardinality(N) = IF 1 > Cardinality(S) THEN 0 ELSE Cardinality(S) - 1 + 1
    BY <1>1, FS_Interval
  <2> HIDE DEF N
  <2> QED BY <1>1, <2>1
<1>6. f \in Surjection(S, N)
  <2> HIDE DEF f, N
  <2> QED BY <1>4, <1>5, FS_Injection
<1>7. ASSUME NEW n \in N PROVE \E x \in S : Cardinality(Below(L, S, x)) = n - 1
  <2>1. PICK x \in S : f[x] = n
    <3> HIDE DEF f, N
    <3> QED BY <1>6 DEF Surjection
  <2>2. Cardinality(Below(L, S, x)) + 1 = n /\ Cardinality(Below(L, S, x)) \in Nat
    BY <1>2, <2>1
  <2> QED BY <2>2
<1>8. ASSUME NEW x \in S PROVE Cardinality(Below(L, S, x)) \in 0 .. Cardinality(S) - 1
  BY <1>1, <1>2
<1> QED BY <1>3, <1>7, <1>8

LEMMA NthFacts ==
    ASSUME NEW I \in SUBSET Int, IsFiniteSet(I)
    PROVE  /\ Cardinality(I) \in Nat
           /\ \A n \in 1 .. Cardinality(I) : Nth(I, n) \in I
           /\ \A n, m \in 1 .. Cardinality(I) : n < m => Nth(I, n) < Nth(I, m)
           /\ \A i \in I : \E n \in 1 .. Cardinality(I) : Nth(I, n) = i
<1> DEFINE L == {p \in I \X I : p[1] < p[2]}
           rank(i) == Cardinality(Below(L, I, i))
<1>1. Orders(L, I)
  BY DEF Orders
<1>2. ASSUME NEW x \in I PROVE {j \in I : j < x} = Below(L, I, x)
  BY DEF Below
<1>3. \A x, y \in I : x < y => <<x, y>> \in L
  OBVIOUS
<1> HIDE DEF L
<1>4. /\ \A x \in I : rank(x) \in 0 .. Cardinality(I) - 1
      /\ \A x, y \in I : x < y => rank(x) < rank(y)
      /\ \A n \in 1 .. Cardinality(I) : \E x \in I : rank(x) = n - 1
  BY <1>1, <1>3, RankFacts
<1>5. Cardinality(I) \in Nat
  BY FS_CardinalityType
<1>6. ASSUME NEW n \in 1 .. Cardinality(I)
      PROVE  Nth(I, n) \in I /\ rank(Nth(I, n)) = n - 1
  <2>1. \E x \in I : Cardinality({j \in I : j < x}) = n - 1
    BY <1>2, <1>4
  <2>2. Nth(I, n) \in I /\ Cardinality({j \in I : j < Nth(I, n)}) = n - 1
    BY <2>1 DEF Nth
  <2> QED BY <1>2, <2>2
<1> HIDE DEF rank
<1>7. \A x, y \in I : rank(x) < rank(y) => x < y
  <2> SUFFICES ASSUME NEW x \in I, NEW y \in I, rank(x) < rank(y) PROVE x < y
    OBVIOUS
  <2>1. rank(x) \in Int /\ rank(y) \in Int /\ x \in Int /\ y \in Int
    BY <1>4, <1>5
  <2>2. CASE y < x
    BY <1>4, <2>1, <2>2
  <2>3. CASE x = y
    BY <2>1, <2>3
  <2> QED BY <2>1, <2>2, <2>3
<1>8. ASSUME NEW n \in 1 .. Cardinality(I), NEW m \in 1 .. Cardinality(I), n < m
      PROVE  Nth(I, n) < Nth(I, m)
  <2>1. n - 1 < m - 1
    BY <1>5, <1>8
  <2>2. rank(Nth(I, n)) < rank(Nth(I, m))
    BY <1>6, <2>1
  <2> QED BY <1>6, <1>7, <2>2
<1>9. ASSUME NEW i \in I PROVE \E n \in 1 .. Cardinality(I) : Nth(I, n) = i
  <2>1. rank(i) \in 0 .. Cardinality(I) - 1
    BY <1>4
  <2>2. rank(i) + 1 \in 1 .. Cardinality(I) /\ rank(i) \in Int
    BY <1>5, <2>1
  <2>3. PICK n \in 1 .. Cardinality(I) : n = rank(i) + 1
    BY <2>2
  <2>4. Nth(I, n) \in I /\ rank(Nth(I, n)) = rank(i)
    <3>1. Nth(I, n) \in I /\ rank(Nth(I, n)) = n - 1
      BY <1>6
    <3>2. n - 1 = rank(i)
      BY <2>2, <2>3
    <3> QED BY <3>1, <3>2
  <2>5. ~ (i < Nth(I, n)) /\ ~ (Nth(I, n) < i)
    <3>1. ~ (rank(i) < rank(i))
      BY <2>2
    <3> QED BY <1>4, <2>4, <3>1
  <2>6. i \in Int /\ Nth(I, n) \in Int
    BY <2>4
  <2>7. Nth(I, n) = i
    BY <2>5, <2>6
  <2> QED BY <2>7
<1> QED BY <1>5, <1>6, <1>8, <1>9

\* A sequence at some of its positions has what was there, in the same order.
LEMMA PickedFacts ==
    ASSUME NEW S, NEW s \in Seq(S), NEW I \in SUBSET DOMAIN s
    PROVE  /\ Picked(s, I) \in Seq(S)
           /\ RowsOf(Picked(s, I)) = {s[i] : i \in I}
           /\ \A m, n \in DOMAIN Picked(s, I) : m < n =>
                \E i, j \in I : i < j /\ Picked(s, I)[m] = s[i] /\ Picked(s, I)[n] = s[j]
           /\ Picked(s, I) = <<>> <=> I = {}
<1>1. Len(s) \in Nat /\ DOMAIN s = 1 .. Len(s)
  OBVIOUS
<1>2. IsFiniteSet(I) /\ I \in SUBSET Int
  <2>1. IsFiniteSet(1 .. Len(s))
    BY <1>1, FS_Interval
  <2> QED BY <1>1, <2>1, FS_Subset
<1> DEFINE C == Cardinality(I)
           p == Picked(s, I)
<1>3. /\ C \in Nat
      /\ \A n \in 1 .. C : Nth(I, n) \in I
      /\ \A n, m \in 1 .. C : n < m => Nth(I, n) < Nth(I, m)
      /\ \A i \in I : \E n \in 1 .. C : Nth(I, n) = i
  BY <1>2, NthFacts
<1> HIDE DEF C
<1>4. p = [n \in 1 .. C |-> s[Nth(I, n)]]
  BY DEF Picked, C
<1>5. \A i \in I : s[i] \in S
  BY <1>1
<1>6. p \in [1 .. C -> S]
  BY <1>3, <1>4, <1>5
<1>7. p \in Seq(S) /\ DOMAIN p = 1 .. C /\ Len(p) = C
  BY <1>3, <1>6
<1>8. \A n \in 1 .. C : p[n] = s[Nth(I, n)]
  BY <1>4
<1>9. p = <<>> <=> I = {}
  <2>1. C = 0 <=> I = {}
    BY <1>2, FS_EmptySet DEF C
  <2>2. p = <<>> <=> Len(p) = 0
    <3> HIDE DEF p
    <3> QED BY <1>7
  <2> HIDE DEF p
  <2> QED BY <1>7, <2>1, <2>2
<1> HIDE DEF p
<1>10. RowsOf(p) = {s[i] : i \in I}
  <2>1. ASSUME NEW n \in 1 .. C PROVE p[n] \in {s[i] : i \in I}
    BY <1>3, <1>8
  <2>2. ASSUME NEW i \in I PROVE \E n \in 1 .. C : p[n] = s[i]
    BY <1>3, <1>8
  <2> QED BY <1>7, <2>1, <2>2 DEF RowsOf
<1>11. ASSUME NEW m \in DOMAIN p, NEW n \in DOMAIN p, m < n
       PROVE  \E i, j \in I : i < j /\ p[m] = s[i] /\ p[n] = s[j]
  BY <1>3, <1>7, <1>8, <1>11
<1> QED BY <1>7, <1>9, <1>10, <1>11 DEF p

-----------------------------------------------------------------------------
(* Rows in the order of their keys.                                        *)

\* Before is a strict order of keys.
LEMMA KeyOrder ==
    /\ \A k, l \in Keys : Before(k, l) \/ Before(l, k) \/ k = l
    /\ \A k, l, m \in Keys : Before(k, l) /\ Before(l, m) => Before(k, m)
    /\ \A k \in Keys : ~ Before(k, k)
<1>1. \A k \in Keys : k.tag \in Int /\ k.ts \in Int
  <2>1. \A k \in Keys : k.tag \in Tags /\ k.ts \in Times
    BY DEF Keys
  <2> QED BY <2>1, DataAssumption
<1>5. \A k, l \in Keys : k.tag = l.tag /\ k.ts = l.ts => k = l
  BY DEF Keys
<1>2. ASSUME NEW k \in Keys, NEW l \in Keys PROVE Before(k, l) \/ Before(l, k) \/ k = l
  BY <1>1, <1>5 DEF Before
<1>3. ASSUME NEW k \in Keys, NEW l \in Keys, NEW m \in Keys, Before(k, l), Before(l, m)
      PROVE  Before(k, m)
  BY <1>1, <1>3 DEF Before
<1>4. ASSUME NEW k \in Keys PROVE ~ Before(k, k)
  BY <1>1 DEF Before
<1> QED BY <1>2, <1>3, <1>4

LEMMA InOrderFacts ==
    ASSUME NEW R \in SUBSET Row, IsFiniteSet(R), OneOfEachKey(R)
    PROVE  /\ InOrder(R) \in Seq(Row) /\ RowsOf(InOrder(R)) = R /\ Sorted(InOrder(R))
           /\ Len(InOrder(R)) = Cardinality(R)
<1> DEFINE L == {p \in R \X R : Before(p[1].key, p[2].key)}
           rank(r) == Cardinality(Below(L, R, r))
           C == Cardinality(R)
           s == InOrder(R)
<1>1. \A r \in R : r.key \in Keys
  BY DEF Row
<1>2. \A q, r \in R : <<q, r>> \in L <=> Before(q.key, r.key)
  OBVIOUS
<1> HIDE DEF L
<1>3. Orders(L, R)
  <2>1. ASSUME NEW x \in R, NEW y \in R PROVE <<x, y>> \in L \/ <<y, x>> \in L \/ x = y
    BY <1>1, <1>2, KeyOrder DEF OneOfEachKey
  <2>2. ASSUME NEW x \in R, NEW y \in R, NEW z \in R, <<x, y>> \in L, <<y, z>> \in L
        PROVE  <<x, z>> \in L
    BY <1>1, <1>2, <2>2, KeyOrder
  <2>3. ASSUME NEW x \in R PROVE <<x, x>> \notin L
    BY <1>1, <1>2, KeyOrder
  <2> QED BY <2>1, <2>2, <2>3 DEF Orders
<1>4. /\ \A x \in R : rank(x) \in 0 .. C - 1
      /\ \A x, y \in R : <<x, y>> \in L => rank(x) < rank(y)
      /\ \A n \in 1 .. C : \E x \in R : rank(x) = n - 1
  BY <1>3, RankFacts
<1>5. C \in Nat
  BY FS_CardinalityType
<1>6. ASSUME NEW r \in R PROVE {q \in R : Before(q.key, r.key)} = Below(L, R, r)
  BY <1>2 DEF Below
<1>7. ASSUME NEW n \in 1 .. C PROVE s[n] \in R /\ rank(s[n]) = n - 1
  <2>1. \E r \in R : Cardinality({q \in R : Before(q.key, r.key)}) = n - 1
    BY <1>4, <1>6
  <2>2. s[n] = CHOOSE r \in R : Cardinality({q \in R : Before(q.key, r.key)}) = n - 1
    BY DEF InOrder
  <2>3. s[n] \in R /\ Cardinality({q \in R : Before(q.key, s[n].key)}) = n - 1
    <3> HIDE DEF s
    <3> QED BY <2>1, <2>2
  <2> HIDE DEF s
  <2> QED BY <1>6, <2>3
<1>8. DOMAIN s = 1 .. C /\ s = [n \in 1 .. C |-> s[n]]
  <2> DEFINE of(i) == CHOOSE r \in R : Cardinality({q \in R : Before(q.key, r.key)}) = i - 1
  <2>1. s = [i \in 1 .. C |-> of(i)]
    BY DEF InOrder
  <2> HIDE DEF s, of, C
  <2> QED BY <2>1
<1> HIDE DEF s
<1>9. s \in Seq(R) /\ s \in Seq(Row) /\ Len(s) = C
  <2>1. s \in [1 .. C -> R]
    BY <1>7, <1>8
  <2> HIDE DEF C
  <2> QED BY <1>5, <2>1
<1> HIDE DEF rank, C
<1>10. \A x, y \in R : rank(x) < rank(y) => Before(x.key, y.key)
  <2> SUFFICES ASSUME NEW x \in R, NEW y \in R, rank(x) < rank(y) PROVE Before(x.key, y.key)
    OBVIOUS
  <2>1. rank(x) \in Int /\ rank(y) \in Int
    BY <1>4, <1>5
  <2>2. CASE <<y, x>> \in L
    BY <1>4, <2>1, <2>2
  <2>3. CASE x = y
    BY <2>1, <2>3
  <2> QED BY <1>2, <1>3, <2>2, <2>3 DEF Orders
<1>11. ASSUME NEW i \in DOMAIN s, NEW j \in DOMAIN s, i < j PROVE Before(s[i].key, s[j].key)
  <2>1. i \in 1 .. C /\ j \in 1 .. C /\ i - 1 < j - 1
    BY <1>5, <1>8, <1>11
  <2>2. s[i] \in R /\ s[j] \in R /\ rank(s[i]) < rank(s[j])
    BY <1>7, <2>1
  <2> QED BY <1>10, <2>2
<1>12. ASSUME NEW r \in R PROVE \E n \in 1 .. C : s[n] = r
  <2>1. rank(r) \in 0 .. C - 1
    BY <1>4
  <2>2. rank(r) + 1 \in 1 .. C /\ rank(r) \in Int
    BY <1>5, <2>1
  <2>3. PICK n \in 1 .. C : n = rank(r) + 1
    BY <2>2
  <2>4. s[n] \in R /\ rank(s[n]) = rank(r)
    <3>1. s[n] \in R /\ rank(s[n]) = n - 1
      BY <1>7
    <3>2. n - 1 = rank(r)
      BY <2>2, <2>3
    <3> QED BY <3>1, <3>2
  <2>5. <<r, s[n]>> \notin L /\ <<s[n], r>> \notin L
    <3>1. ~ (rank(r) < rank(r))
      BY <2>2
    <3> QED BY <1>4, <2>4, <3>1
  <2>6. s[n] = r
    BY <1>3, <2>4, <2>5 DEF Orders
  <2> QED BY <2>6
<1>13. RowsOf(s) = R
  BY <1>7, <1>8, <1>12 DEF RowsOf
<1> QED BY <1>9, <1>11, <1>13 DEF s, C, Sorted

-----------------------------------------------------------------------------
(* What a source delivers: batches none of which is empty, each in the     *)
(* order of keys, one before the other.                                    *)

LEMMA SeqBasics ==
    ASSUME NEW S, NEW s \in Seq(S)
    PROVE  DOMAIN s = 1 .. Len(s) /\ Len(s) \in Nat /\ (s = <<>> <=> Len(s) = 0)
OBVIOUS

LEMMA RowsOfSeq ==
    ASSUME NEW S, NEW s \in Seq(S)
    PROVE  /\ RowsOf(s) \in SUBSET S /\ (s = <<>> <=> RowsOf(s) = {})
<1>1. DOMAIN s = 1 .. Len(s) /\ Len(s) \in Nat /\ (s = <<>> <=> Len(s) = 0)
  BY SeqBasics
<1>2. RowsOf(s) = {} <=> 1 .. Len(s) = {}
  BY <1>1 DEF RowsOf
<1>3. 1 .. Len(s) = {} <=> Len(s) = 0
  <2>1. ASSUME Len(s) # 0 PROVE 1 \in 1 .. Len(s)
    BY <1>1, <2>1
  <2>2. ASSUME Len(s) = 0 PROVE 1 .. Len(s) = {}
    BY <2>2
  <2> QED BY <2>1, <2>2
<1>4. RowsOf(s) \in SUBSET S
  BY <1>1 DEF RowsOf
<1> QED BY <1>1, <1>2, <1>3, <1>4

LEMMA MemtableFacts ==
    ASSUME NEW R \in SUBSET Row, IsFiniteSet(R), OneOfEachKey(R)
    PROVE  /\ MemtableBatches(R) \in Seq(Seq(Row)) /\ Chain(MemtableBatches(R))
           /\ RowsIn(MemtableBatches(R)) = R
<1> DEFINE tags == {r.key.tag : r \in R}
           n == Cardinality(tags)
           of(i) == {r \in R : r.key.tag = Nth(tags, i)}
           G == MemtableBatches(R)
<1>1. tags \in SUBSET Int /\ IsFiniteSet(tags)
  <2>1. tags \in SUBSET Tags
    BY DEF Row, Keys
  <2> DEFINE f == [r \in R |-> r.key.tag]
  <2>2. f \in Surjection(R, tags)
    BY DEF Surjection
  <2> HIDE DEF f, tags
  <2> QED BY <2>1, <2>2, FS_Surjection, DataAssumption
<1>2. /\ n \in Nat
      /\ \A i \in 1 .. n : Nth(tags, i) \in tags
      /\ \A i, j \in 1 .. n : i < j => Nth(tags, i) < Nth(tags, j)
      /\ \A t \in tags : \E i \in 1 .. n : Nth(tags, i) = t
  <2> HIDE DEF tags
  <2> QED BY <1>1, NthFacts
<1>3. G = [i \in 1 .. n |-> InOrder(of(i))]
  BY DEF MemtableBatches
<1> HIDE DEF G, n
<1>4. ASSUME NEW i \in 1 .. n
      PROVE  /\ G[i] \in Seq(Row) /\ RowsOf(G[i]) = of(i) /\ Sorted(G[i]) /\ G[i] # <<>>
  <2>1. of(i) \in SUBSET R /\ of(i) # {}
    BY <1>2
  <2>2. of(i) \in SUBSET Row /\ IsFiniteSet(of(i)) /\ OneOfEachKey(of(i))
    <3> HIDE DEF of
    <3> QED BY <2>1, FS_Subset DEF OneOfEachKey
  <2>3. G[i] = InOrder(of(i))
    BY <1>3
  <2> HIDE DEF of
  <2>4. G[i] \in Seq(Row) /\ RowsOf(G[i]) = of(i) /\ Sorted(G[i])
    BY <2>2, <2>3, InOrderFacts
  <2> QED BY <2>1, <2>4, RowsOfSeq
<1>5. DOMAIN G = 1 .. n /\ G \in Seq(Seq(Row))
  <2>1. DOMAIN G = 1 .. n /\ G \in [1 .. n -> Seq(Row)]
    <3>1. G = [i \in 1 .. n |-> G[i]]
      BY <1>3
    <3> QED BY <1>4, <3>1
  <2> QED BY <1>2, <2>1
<1>6. ASSUME NEW i \in 1 .. n, NEW j \in 1 .. n, i < j,
             NEW a \in RowsOf(G[i]), NEW b \in RowsOf(G[j])
      PROVE  Before(a.key, b.key)
  <2>1. a.key.tag = Nth(tags, i) /\ b.key.tag = Nth(tags, j)
    BY <1>4
  <2>2. Nth(tags, i) < Nth(tags, j)
    BY <1>2, <1>6
  <2> QED BY <2>1, <2>2 DEF Before
<1>7. Chain(G)
  BY <1>4, <1>5, <1>6 DEF Chain
<1>8. RowsIn(G) = R
  <2>1. ASSUME NEW i \in 1 .. n PROVE RowsOf(G[i]) \subseteq R
    BY <1>4
  <2>2. ASSUME NEW r \in R PROVE \E i \in 1 .. n : r \in RowsOf(G[i])
    <3>1. PICK i \in 1 .. n : Nth(tags, i) = r.key.tag
      BY <1>2
    <3> QED BY <1>4, <3>1
  <2> QED BY <1>5, <2>1, <2>2 DEF RowsIn
<1> QED BY <1>5, <1>7, <1>8 DEF G

\* Cutting len rows into groups of c: each begins within, and each row is in one.
LEMMA Times2 ==
    ASSUME NEW a \in Int, NEW b \in Int, NEW c \in Nat, a <= b
    PROVE  a * c \in Int /\ b * c \in Int /\ a * c <= b * c
  OBVIOUS

LEMMA Chunks ==
    ASSUME NEW len \in Nat, NEW c \in Nat \ {0}, NEW n, n = (len + c - 1) \div c
    PROVE  /\ n \in Nat
           /\ \A i \in 1 .. n : /\ (i - 1) * c \in Nat /\ i * c = (i - 1) * c + c
                                /\ (i - 1) * c < len
           /\ \A i, j \in 1 .. n : i < j => i * c <= (j - 1) * c
           /\ \A k \in 1 .. len : \E i \in 1 .. n : (i - 1) * c < k /\ k <= i * c
<1>1. n \in Nat /\ n * c \in Nat /\ n * c <= len + c - 1 /\ len + c - 1 < n * c + c
  OBVIOUS
<1>2. \A i \in Int : i * c \in Int /\ (i - 1) * c \in Int /\ i * c = (i - 1) * c + c
  OBVIOUS
<1>3. ASSUME NEW i \in 1 .. n PROVE (i - 1) * c \in Nat /\ (i - 1) * c < len
  <2>1. i \in Int /\ i <= n /\ n \in Int /\ 0 <= i - 1 /\ i - 1 \in Int
    BY <1>1
  <2>2. i * c <= n * c /\ 0 * c <= (i - 1) * c
    BY <2>1, Times2
  <2> QED BY <1>1, <1>2, <2>1, <2>2
<1>4. ASSUME NEW i \in 1 .. n, NEW j \in 1 .. n, i < j PROVE i * c <= (j - 1) * c
  <2>1. i \in Int /\ j - 1 \in Int /\ i <= j - 1
    BY <1>1, <1>4
  <2> QED BY <2>1, Times2
<1>5. ASSUME NEW k \in 1 .. len PROVE \E i \in 1 .. n : (i - 1) * c < k /\ k <= i * c
  <2> DEFINE m == (k - 1) \div c
  <2>1. m \in Nat /\ m * c \in Nat /\ m * c <= k - 1 /\ k - 1 < m * c + c
    OBVIOUS
  <2> HIDE DEF m
  <2>2. m < n
    <3> SUFFICES ASSUME n <= m PROVE FALSE
      BY <1>1, <2>1
    <3>1. n * c <= m * c
      BY <1>1, <2>1, Times2
    <3> QED BY <1>1, <2>1, <3>1
  <2>3. m + 1 \in 1 .. n
    BY <1>1, <2>1, <2>2
  <2>4. PICK i \in 1 .. n : i = m + 1
    BY <2>3
  <2>5. i \in Int /\ i - 1 = m
    BY <2>1, <2>4
  <2>6. (i - 1) * c = m * c
    BY <2>5
  <2>7. i * c = (i - 1) * c + c
    BY <1>2, <2>5
  <2>8. (i - 1) * c < k /\ k <= i * c
    <3>1. m * c < k /\ k <= m * c + c
      BY <2>1
    <3> QED BY <2>6, <2>7, <3>1
  <2> QED BY <2>8
<1> QED BY <1>1, <1>2, <1>3, <1>4, <1>5
LEMMA PieceFacts ==
    ASSUME NEW s \in Seq(Row), Sorted(s), NEW a \in 1 .. Len(s), NEW b \in a .. Len(s)
    PROVE  LET g == SubSeq(s, a, b)
           IN  /\ g \in Seq(Row) /\ g # <<>> /\ Sorted(g)
               /\ RowsOf(g) = {s[k] : k \in a .. b}
<1> DEFINE g == SubSeq(s, a, b)
<1>1. /\ a \in Int /\ b \in Int /\ 1 <= a /\ a <= b /\ b <= Len(s)
      /\ DOMAIN s = 1 .. Len(s) /\ Len(s) \in Nat
  OBVIOUS
<1>2. /\ g \in Seq(Row) /\ Len(g) = b - a + 1
      /\ \A i \in 1 .. b - a + 1 : g[i] = s[a + i - 1]
  BY <1>1, SubSeqProperties
<1> HIDE DEF g
<1>3. DOMAIN g = 1 .. b - a + 1 /\ g # <<>>
  BY <1>1, <1>2
<1>4. ASSUME NEW i \in DOMAIN g
      PROVE  i \in Int /\ a + i - 1 \in a .. b /\ a + i - 1 \in DOMAIN s /\ g[i] = s[a + i - 1]
  <2>1. i \in 1 .. b - a + 1
    BY <1>3
  <2>2. i \in Int /\ 1 <= i /\ i <= b - a + 1
    BY <1>1, <2>1
  <2>3. a + i - 1 \in a .. b /\ a + i - 1 \in DOMAIN s
    BY <1>1, <2>2
  <2> QED BY <1>2, <2>1, <2>2, <2>3
<1>6. ASSUME NEW i \in DOMAIN g, NEW j \in DOMAIN g, i < j PROVE Before(g[i].key, g[j].key)
  <2>1. i \in Int /\ j \in Int /\ a + i - 1 < a + j - 1
    BY <1>1, <1>4, <1>6
  <2> QED BY <1>4, <2>1 DEF Sorted
<1>5. RowsOf(g) = {s[k] : k \in a .. b}
  <2>1. ASSUME NEW i \in DOMAIN g PROVE a + i - 1 \in a .. b /\ g[i] = s[a + i - 1]
    BY <1>4
  <2>2. ASSUME NEW k \in a .. b PROVE \E i \in DOMAIN g : g[i] = s[k]
    <3>1. k - a + 1 \in 1 .. b - a + 1 /\ a + (k - a + 1) - 1 = k
      BY <1>1
    <3> QED BY <1>2, <1>3, <3>1
  <2> QED BY <2>1, <2>2 DEF RowsOf
<1> QED BY <1>2, <1>3, <1>5, <1>6 DEF g, Sorted

LEMMA SmallerOfTwo ==
    ASSUME NEW a \in Int, NEW b \in Int
    PROVE  Smallest({a, b}) = IF a <= b THEN a ELSE b
<1>1. {a, b} \in SUBSET Int /\ {a, b} # {} /\ IsFiniteSet({a, b})
  <2>1. IsFiniteSet({a})
    BY FS_Singleton
  <2>2. IsFiniteSet({a} \cup {b})
    BY <2>1, FS_AddElement
  <2>3. {a} \cup {b} = {a, b}
    OBVIOUS
  <2> QED BY <2>2, <2>3
<1>2. /\ Smallest({a, b}) \in {a, b} /\ Smallest({a, b}) <= a
      /\ Smallest({a, b}) <= b
  BY <1>1, SmallestIsSmallest
<1> QED BY <1>2

LEMMA RowGroupsFacts ==
    ASSUME NEW R \in SUBSET Row, IsFiniteSet(R), OneOfEachKey(R)
    PROVE  /\ RowGroups(R) \in Seq(Seq(Row)) /\ Chain(RowGroups(R))
           /\ RowsIn(RowGroups(R)) = R
<1> DEFINE s == InOrder(R)
           c == ChunkRows
           n == (Len(s) + c - 1) \div c
           G == RowGroups(R)
           last(i) == IF i * c <= Len(s) THEN i * c ELSE Len(s)
<1>1. s \in Seq(Row) /\ RowsOf(s) = R /\ Sorted(s)
  BY InOrderFacts
<1>2. Len(s) \in Nat /\ DOMAIN s = 1 .. Len(s) /\ c \in Nat \ {0}
  <2> HIDE DEF s
  <2> QED BY <1>1, SizesAssumption
<1>3. G = [i \in 1 .. n |-> SubSeq(s, (i - 1) * c + 1, Smallest({i * c, Len(s)}))]
  BY DEF RowGroups
<1> HIDE DEF s, c, G
<1>4. /\ n \in Nat
      /\ \A i \in 1 .. n : /\ (i - 1) * c \in Nat /\ i * c = (i - 1) * c + c
                           /\ (i - 1) * c < Len(s)
      /\ \A i, j \in 1 .. n : i < j => i * c <= (j - 1) * c
      /\ \A k \in 1 .. Len(s) : \E i \in 1 .. n : (i - 1) * c < k /\ k <= i * c
  BY <1>2, Chunks
<1> HIDE DEF n
<1>5. ASSUME NEW i \in 1 .. n
      PROVE  /\ (i - 1) * c + 1 \in 1 .. Len(s) /\ last(i) \in (i - 1) * c + 1 .. Len(s)
             /\ last(i) <= i * c /\ i * c \in Int
  BY <1>2, <1>4
<1>6. ASSUME NEW i \in 1 .. n
      PROVE  /\ G[i] \in Seq(Row) /\ G[i] # <<>> /\ Sorted(G[i])
             /\ RowsOf(G[i]) = {s[k] : k \in (i - 1) * c + 1 .. last(i)}
  <2>1. i * c \in Int /\ Len(s) \in Int
    BY <1>2, <1>5
  <2>2. Smallest({i * c, Len(s)}) = last(i)
    BY <2>1, SmallerOfTwo
  <2>3. G[i] = SubSeq(s, (i - 1) * c + 1, last(i))
    BY <1>3, <2>2
  <2> HIDE DEF last
  <2> QED BY <1>1, <1>5, <2>3, PieceFacts
<1>7. DOMAIN G = 1 .. n /\ G \in Seq(Seq(Row))
  <2>1. DOMAIN G = 1 .. n /\ G = [i \in 1 .. n |-> G[i]]
    BY <1>3
  <2>2. G \in [1 .. n -> Seq(Row)]
    BY <1>6, <2>1
  <2> QED BY <1>4, <2>1, <2>2
<1>8. ASSUME NEW i \in 1 .. n, NEW j \in 1 .. n, i < j,
             NEW a \in RowsOf(G[i]), NEW b \in RowsOf(G[j])
      PROVE  Before(a.key, b.key)
  <2>1. PICK k \in (i - 1) * c + 1 .. last(i) : a = s[k]
    BY <1>6
  <2>2. PICK l \in (j - 1) * c + 1 .. last(j) : b = s[l]
    BY <1>6
  <2>3. /\ (i - 1) * c \in Nat /\ (j - 1) * c \in Nat /\ last(i) \in Int /\ last(j) \in Int
        /\ last(i) <= i * c /\ i * c <= (j - 1) * c /\ i * c \in Int
        /\ last(i) <= Len(s) /\ last(j) <= Len(s)
    BY <1>2, <1>4, <1>5, <1>8
  <2> HIDE DEF last
  <2>4. k \in 1 .. Len(s) /\ l \in 1 .. Len(s) /\ k < l
    BY <1>2, <2>3
  <2> QED BY <1>1, <1>2, <2>1, <2>2, <2>4 DEF Sorted
<1>9. Chain(G)
  BY <1>6, <1>7, <1>8 DEF Chain
<1>10. RowsIn(G) = R
  <2>1. ASSUME NEW i \in 1 .. n, NEW r \in RowsOf(G[i]) PROVE r \in R
    <3>1. PICK k \in (i - 1) * c + 1 .. last(i) : r = s[k]
      BY <1>6
    <3>2. k \in 1 .. Len(s)
      <4>1. (i - 1) * c \in Nat /\ last(i) \in Int /\ last(i) <= Len(s)
        BY <1>2, <1>4, <1>5
      <4> HIDE DEF last
      <4> QED BY <1>2, <4>1
    <3> QED BY <1>1, <1>2, <3>1, <3>2 DEF RowsOf
  <2>2. ASSUME NEW r \in R PROVE \E i \in 1 .. n : r \in RowsOf(G[i])
    <3>1. PICK k \in 1 .. Len(s) : r = s[k]
      BY <1>1, <1>2 DEF RowsOf
    <3>2. PICK i \in 1 .. n : (i - 1) * c < k /\ k <= i * c
      BY <1>4
    <3>3. k \in (i - 1) * c + 1 .. last(i)
      BY <1>2, <1>4, <1>5, <3>2
    <3> QED BY <1>6, <3>1, <3>3
  <2> QED BY <1>7, <2>1, <2>2 DEF RowsIn
<1> QED BY <1>7, <1>9, <1>10 DEF G

\* The filter keeps of a batch the rows in range, in their order.
LEMMA PassedFacts ==
    ASSUME NEW g \in Seq(Row), Sorted(g)
    PROVE  /\ Passed(g) \in Seq(Row) /\ Sorted(Passed(g))
           /\ RowsOf(Passed(g)) = {r \in RowsOf(g) : InRange(r.key.ts)}
<1> DEFINE I == {i \in DOMAIN g : InRange(g[i].key.ts)}
           p == Passed(g)
<1>1. p = Picked(g, I)
  BY DEF Passed
<1>2. I \in SUBSET DOMAIN g
  OBVIOUS
<1>3. RowsOf(g) = {g[i] : i \in DOMAIN g}
  BY DEF RowsOf
<1>4. {g[i] : i \in I} = {r \in RowsOf(g) : InRange(r.key.ts)}
  BY <1>3
<1> HIDE DEF I, p
<1>5. /\ p \in Seq(Row) /\ RowsOf(p) = {g[i] : i \in I}
      /\ \A m, n \in DOMAIN p : m < n => \E i, j \in I : i < j /\ p[m] = g[i] /\ p[n] = g[j]
  BY <1>1, <1>2, PickedFacts
<1>6. Sorted(p)
  BY <1>2, <1>5 DEF Sorted
<1> QED BY <1>4, <1>5, <1>6 DEF p

\* An SST delivers its rows in range, and none that it does not hold.
LEMMA SstFacts ==
    ASSUME NEW R \in SUBSET Row, IsFiniteSet(R), OneOfEachKey(R), range \in RangeType
    PROVE  /\ SstBatches(R) \in Seq(Seq(Row)) /\ Chain(SstBatches(R))
           /\ RowsIn(SstBatches(R)) \subseteq R
           /\ \A r \in R : InRange(r.key.ts) => r \in RowsIn(SstBatches(R))
<1> DEFINE groups == RowGroups(R)
           K == {i \in DOMAIN groups : Overlaps(groups[i]) /\ Passed(groups[i]) # <<>>}
           kept == Picked(groups, K)
           G == [i \in DOMAIN kept |-> Passed(kept[i])]
<1>1. groups \in Seq(Seq(Row)) /\ Chain(groups) /\ RowsIn(groups) = R
  BY RowGroupsFacts
<1>2. SstBatches(R) = IF Unbounded THEN groups ELSE G
  BY DEF SstBatches
<1> HIDE DEF groups
<1>3. K \in SUBSET DOMAIN groups
  OBVIOUS
<1>4. \A i \in K : Passed(groups[i]) # <<>>
  OBVIOUS
<1>5. ASSUME NEW r \in R, InRange(r.key.ts) PROVE \E i \in K : r \in RowsOf(groups[i])
  <2>1. PICK i \in DOMAIN groups : r \in RowsOf(groups[i])
    BY <1>1 DEF RowsIn
  <2>2. groups[i] \in Seq(Row) /\ Sorted(groups[i])
    BY <1>1 DEF Chain
  <2>3. r \in RowsOf(Passed(groups[i])) /\ Passed(groups[i]) \in Seq(Row)
    BY <1>5, <2>1, <2>2, PassedFacts
  <2>4. Passed(groups[i]) # <<>>
    BY <2>3, RowsOfSeq
  <2>5. Overlaps(groups[i])
    <3> SUFFICES ASSUME ~ Overlaps(groups[i]) PROVE FALSE
      OBVIOUS
    <3>1. \A q \in RowsOf(groups[i]) : q \in Row
      BY <2>2, RowsOfSeq
    <3>2. \A q \in RowsOf(groups[i]) : q.key.ts \in Times
      BY <3>1 DEF Row, Keys
    <3>3. \A q \in RowsOf(groups[i]) : ~ InRange(q.key.ts)
      BY <3>2, PruningLosesNothing DEF RangeType
    <3> QED BY <1>5, <2>1, <3>3
  <2> QED BY <2>1, <2>4, <2>5
<1> HIDE DEF K
<1>6. /\ kept \in Seq(Seq(Row)) /\ RowsOf(kept) = {groups[i] : i \in K}
      /\ \A m, n \in DOMAIN kept : m < n =>
            \E i, j \in K : i < j /\ kept[m] = groups[i] /\ kept[n] = groups[j]
  BY <1>1, <1>3, PickedFacts
<1> HIDE DEF kept
<1>7. ASSUME NEW m \in DOMAIN kept PROVE \E i \in K : kept[m] = groups[i]
  <2>1. kept[m] \in RowsOf(kept)
    BY DEF RowsOf
  <2> QED BY <1>6, <2>1
<1>8. ASSUME NEW i \in K PROVE \E m \in DOMAIN kept : kept[m] = groups[i]
  <2>1. groups[i] \in RowsOf(kept)
    BY <1>6
  <2> QED BY <2>1 DEF RowsOf
<1>9. ASSUME NEW m \in DOMAIN kept
      PROVE  /\ G[m] \in Seq(Row) /\ G[m] # <<>> /\ Sorted(G[m])
             /\ RowsOf(G[m]) = {r \in RowsOf(kept[m]) : InRange(r.key.ts)}
  <2>1. PICK i \in K : kept[m] = groups[i]
    BY <1>7
  <2>2. kept[m] \in Seq(Row) /\ Sorted(kept[m]) /\ Passed(kept[m]) # <<>>
    BY <1>1, <1>3, <1>4, <2>1 DEF Chain
  <2>3. G[m] = Passed(kept[m])
    OBVIOUS
  <2> QED BY <2>2, <2>3, PassedFacts
<1>10. DOMAIN G = DOMAIN kept /\ DOMAIN kept = 1 .. Len(kept) /\ Len(kept) \in Nat
  BY <1>6
<1>11. G \in Seq(Seq(Row))
  <2>1. G \in [1 .. Len(kept) -> Seq(Row)]
    BY <1>9, <1>10
  <2> HIDE DEF G
  <2> QED BY <1>10, <2>1
<1> HIDE DEF G
<1>12. ASSUME NEW m \in DOMAIN G, NEW n \in DOMAIN G, m < n,
              NEW a \in RowsOf(G[m]), NEW b \in RowsOf(G[n])
       PROVE  Before(a.key, b.key)
  <2>1. PICK i \in K, j \in K : i < j /\ kept[m] = groups[i] /\ kept[n] = groups[j]
    <3>1. m \in DOMAIN kept /\ n \in DOMAIN kept
      BY <1>10
    <3> QED BY <1>6, <1>12, <3>1
  <2>2. a \in RowsOf(groups[i]) /\ b \in RowsOf(groups[j])
    BY <1>9, <1>10, <2>1
  <2> QED BY <1>1, <1>3, <2>1, <2>2 DEF Chain
<1>13. Chain(G)
  BY <1>9, <1>10, <1>12 DEF Chain
<1>14. RowsIn(G) \subseteq R
  <2> SUFFICES ASSUME NEW m \in DOMAIN G, NEW r \in RowsOf(G[m]) PROVE r \in R
    BY DEF RowsIn
  <2>1. PICK i \in K : kept[m] = groups[i]
    BY <1>7, <1>10
  <2>2. r \in RowsOf(groups[i])
    BY <1>9, <1>10, <2>1
  <2> QED BY <1>1, <1>3, <2>2 DEF RowsIn
<1>15. ASSUME NEW r \in R, InRange(r.key.ts) PROVE r \in RowsIn(G)
  <2>1. PICK i \in K : r \in RowsOf(groups[i])
    BY <1>5, <1>15
  <2>2. PICK m \in DOMAIN kept : kept[m] = groups[i]
    BY <1>8
  <2>3. r \in RowsOf(G[m])
    BY <1>9, <1>15, <2>1, <2>2
  <2> QED BY <1>10, <2>3 DEF RowsIn
<1> QED BY <1>1, <1>2, <1>11, <1>13, <1>14, <1>15

\* What a source delivers is in the order of keys and across batches too, so
\* that check_sorted refuses none of it (merge.rs 78-90); it holds rows of the
\* source only, and none in range is left out, whatever is pruned (memtable.rs
\* 846-882, columnar.rs 304-317, sstable.rs 693-904).
THEOREM SourcesDeliver ==
    ASSUME NEW s \in Sources, NEW R \in SUBSET Row, IsFiniteSet(R), OneOfEachKey(R),
           range \in RangeType
    PROVE  /\ Given(s, R) \in Seq(Seq(Row)) /\ Chain(Given(s, R))
           /\ RowsIn(Given(s, R)) \subseteq R
           /\ \A r \in R : InRange(r.key.ts) => r \in RowsIn(Given(s, R))
<1>1. CASE range.min > range.max
  <2>1. Given(s, R) = <<>>
    BY <1>1 DEF Given
  <2>2. Chain(<<>>) /\ RowsIn(<<>>) = {}
    BY DEF Chain, RowsIn
  <2>3. ASSUME NEW r \in R PROVE ~ InRange(r.key.ts)
    <3>1. r.key.ts \in Times
      BY DEF Row, Keys
    <3>2. r.key.ts \in Int /\ range.min \in Int /\ range.max \in Int
      BY <3>1, DataAssumption DEF RangeType
    <3> QED BY <1>1, <3>2 DEF InRange
  <2> QED BY <2>1, <2>2, <2>3
<1>2. CASE ~ (range.min > range.max) /\ s \in Memtables
  <2>1. Given(s, R) = MemtableBatches(R)
    BY <1>2 DEF Given, BatchesOf
  <2> QED BY <2>1, MemtableFacts
<1>3. CASE ~ (range.min > range.max) /\ s \notin Memtables
  <2>1. Given(s, R) = SstBatches(R)
    BY <1>3 DEF Given, BatchesOf
  <2> QED BY <2>1, SstFacts
<1> QED BY <1>1, <1>2, <1>3

-----------------------------------------------------------------------------
(* Taking the first row, and the first batch, off.                         *)

LEMMA TailFacts ==
    ASSUME NEW q \in Seq(Row), q # <<>>, Sorted(q)
    PROVE  /\ Head(q) \in Row /\ Tail(q) \in Seq(Row) /\ Sorted(Tail(q))
           /\ RowsOf(q) = {Head(q)} \cup RowsOf(Tail(q))
           /\ \A r \in RowsOf(Tail(q)) : Before(Head(q).key, r.key)
           /\ Tail(q) = <<>> <=> ~ (Len(q) > 1)
<1>1. /\ Len(q) \in Nat \ {0} /\ DOMAIN q = 1 .. Len(q) /\ Head(q) = q[1] /\ q[1] \in Row
      /\ Tail(q) \in Seq(Row) /\ Len(Tail(q)) = Len(q) - 1
      /\ \A i \in 1 .. Len(q) - 1 : Tail(q)[i] = q[i + 1]
  BY HeadTailProperties
<1> DEFINE t == Tail(q)
<1>2. DOMAIN t = 1 .. Len(q) - 1 /\ (t = <<>> <=> ~ (Len(q) > 1))
  <2>1. t \in Seq(Row) /\ Len(t) = Len(q) - 1
    BY <1>1
  <2> HIDE DEF t
  <2>2. DOMAIN t = 1 .. Len(t) /\ (t = <<>> <=> Len(t) = 0)
    BY <2>1, SeqBasics
  <2>3. Len(t) = 0 <=> ~ (Len(q) > 1)
    BY <1>1, <2>1
  <2>4. DOMAIN t = 1 .. Len(q) - 1
    BY <2>1, <2>2, Zenon
  <2>5. t = <<>> <=> ~ (Len(q) > 1)
    BY <2>2, <2>3, Zenon
  <2> HIDE DEF t
  <2> QED BY <2>4, <2>5
<1> HIDE DEF t
<1>3. ASSUME NEW i \in DOMAIN t
      PROVE  i \in Int /\ 1 <= i /\ i + 1 \in DOMAIN q /\ t[i] = q[i + 1]
  BY <1>1, <1>2 DEF t
<1>4. Sorted(t)
  <2> SUFFICES ASSUME NEW i \in DOMAIN t, NEW j \in DOMAIN t, i < j
               PROVE  Before(t[i].key, t[j].key)
    BY DEF Sorted
  <2>1. i + 1 < j + 1
    BY <1>3
  <2> QED BY <1>3, <2>1 DEF Sorted
<1>5. 1 \in DOMAIN q
  BY <1>1
<1>6. ASSUME NEW r \in RowsOf(t) PROVE Before(q[1].key, r.key) /\ r \in RowsOf(q)
  <2>1. PICK i \in DOMAIN t : r = t[i]
    BY DEF RowsOf
  <2>2. 1 < i + 1 /\ i + 1 \in DOMAIN q /\ r = q[i + 1]
    BY <1>3, <2>1
  <2> QED BY <1>5, <2>2 DEF Sorted, RowsOf
<1>7. ASSUME NEW i \in DOMAIN q PROVE q[i] = q[1] \/ q[i] \in RowsOf(t)
  <2>1. CASE i = 1
    BY <2>1
  <2>2. CASE i # 1
    <3>1. i - 1 \in DOMAIN t /\ (i - 1) + 1 = i
      BY <1>1, <1>2, <2>2
    <3>2. t[i - 1] = q[i]
      BY <1>3, <3>1
    <3> QED BY <3>1, <3>2 DEF RowsOf
  <2> QED BY <2>1, <2>2
<1>8. RowsOf(q) = {q[1]} \cup RowsOf(t)
  <2>1. q[1] \in RowsOf(q)
    BY <1>5 DEF RowsOf
  <2>2. ASSUME NEW r \in RowsOf(q) PROVE r \in {q[1]} \cup RowsOf(t)
    <3>1. PICK i \in DOMAIN q : r = q[i]
      BY DEF RowsOf
    <3> QED BY <1>7, <3>1
  <2> QED BY <1>6, <2>1, <2>2
<1> QED BY <1>1, <1>2, <1>4, <1>6, <1>8 DEF t

LEMMA FirstAndRest ==
    ASSUME NEW G \in Seq(Seq(Row)), Chain(G)
    PROVE  /\ FirstOf(G) \in Seq(Row) /\ RestOf(G) \in Seq(Seq(Row))
           /\ FirstOf(G) = <<>> => RestOf(G) = <<>>
           /\ Sorted(FirstOf(G)) /\ Chain(RestOf(G))
           /\ \A a \in RowsOf(FirstOf(G)), b \in RowsIn(RestOf(G)) : Before(a.key, b.key)
           /\ RowsOf(FirstOf(G)) \cup RowsIn(RestOf(G)) = RowsIn(G)
<1>1. CASE G = <<>>
  <2>1. FirstOf(G) = <<>> /\ RestOf(G) = <<>>
    BY <1>1 DEF FirstOf, RestOf
  <2>2. Sorted(<<>>) /\ Chain(<<>>) /\ RowsOf(<<>>) = {} /\ RowsIn(<<>>) = {}
    BY DEF Sorted, Chain, RowsOf, RowsIn
  <2>3. <<>> \in Seq(Row) /\ <<>> \in Seq(Seq(Row))
    OBVIOUS
  <2>4. RowsIn(G) = {}
    BY <1>1, <2>2
  <2> QED BY <2>1, <2>2, <2>3, <2>4
<1>2. CASE G # <<>>
  <2> DEFINE t == Tail(G)
  <2>1. FirstOf(G) = G[1] /\ RestOf(G) = t
    BY <1>2 DEF FirstOf, RestOf
  <2>2. /\ Len(G) \in Nat \ {0} /\ DOMAIN G = 1 .. Len(G)
        /\ t \in Seq(Seq(Row)) /\ Len(t) = Len(G) - 1
        /\ \A i \in 1 .. Len(G) - 1 : t[i] = G[i + 1]
    BY <1>2, HeadTailProperties
  <2>3. DOMAIN t = 1 .. Len(G) - 1
    BY <2>2
  <2> HIDE DEF t
  <2>4. ASSUME NEW i \in DOMAIN t
        PROVE  i \in Int /\ 1 <= i /\ i + 1 \in DOMAIN G /\ t[i] = G[i + 1]
    BY <2>2, <2>3
  <2>5. 1 \in DOMAIN G /\ G[1] \in Seq(Row) /\ G[1] # <<>> /\ Sorted(G[1])
    <3>1. 1 \in DOMAIN G
      BY <2>2
    <3>2. G[1] \in Seq(Row)
      BY <3>1
    <3> QED BY <3>1, <3>2 DEF Chain
  <2>6. Chain(t)
    <3>1. ASSUME NEW i \in DOMAIN t PROVE t[i] # <<>> /\ Sorted(t[i])
      BY <2>4 DEF Chain
    <3>2. ASSUME NEW i \in DOMAIN t, NEW j \in DOMAIN t, i < j,
                 NEW a \in RowsOf(t[i]), NEW b \in RowsOf(t[j])
          PROVE  Before(a.key, b.key)
      <4>1. i + 1 < j + 1
        BY <2>4, <3>2
      <4> QED BY <2>4, <4>1 DEF Chain
    <3> QED BY <3>1, <3>2 DEF Chain
  <2>7. ASSUME NEW a \in RowsOf(G[1]), NEW b \in RowsIn(t) PROVE Before(a.key, b.key)
    <3>1. PICK i \in DOMAIN t : b \in RowsOf(t[i])
      BY DEF RowsIn
    <3>2. 1 < i + 1 /\ i + 1 \in DOMAIN G /\ b \in RowsOf(G[i + 1])
      BY <2>4, <3>1
    <3> QED BY <2>5, <3>2 DEF Chain
  <2>8. RowsOf(G[1]) \cup RowsIn(t) = RowsIn(G)
    <3>1. ASSUME NEW i \in DOMAIN t PROVE RowsOf(t[i]) \subseteq RowsIn(G)
      BY <2>4 DEF RowsIn
    <3>2. RowsOf(G[1]) \subseteq RowsIn(G)
      BY <2>5 DEF RowsIn
    <3>3. ASSUME NEW i \in DOMAIN G PROVE RowsOf(G[i]) \subseteq RowsOf(G[1]) \cup RowsIn(t)
      <4>1. CASE i = 1
        BY <4>1
      <4>2. CASE i # 1
        <5>1. i - 1 \in DOMAIN t /\ (i - 1) + 1 = i
          BY <2>2, <2>3, <4>2
        <5>2. t[i - 1] = G[i]
          BY <2>4, <5>1
        <5> QED BY <5>1, <5>2 DEF RowsIn
      <4> QED BY <4>1, <4>2
    <3> QED BY <3>1, <3>2, <3>3 DEF RowsIn
  <2> QED BY <2>1, <2>2, <2>5, <2>6, <2>7, <2>8
<1> QED BY <1>1, <1>2

\* The head of a cursor is the first row its source has left.
LEMMA HeadFacts ==
    ASSUME ScanTypes, NEW s \in Sources, InStep(s), s \in Heap
    PROVE  /\ Head(cursor[s]) \in Left(s) /\ Head(cursor[s]) \in Row
           /\ \A r \in Left(s) : r = Head(cursor[s]) \/ Before(Head(cursor[s]).key, r.key)
<1>1. cursor[s] \in Seq(Row) /\ cursor[s] # <<>> /\ Sorted(cursor[s])
  BY DEF ScanTypes, Heap, InStep
<1>2. /\ Head(cursor[s]) \in Row
      /\ RowsOf(cursor[s]) = {Head(cursor[s])} \cup RowsOf(Tail(cursor[s]))
      /\ \A r \in RowsOf(Tail(cursor[s])) : Before(Head(cursor[s]).key, r.key)
  BY <1>1, TailFacts
<1>3. \A b \in RowsIn(batches[s]) : Before(Head(cursor[s]).key, b.key)
  BY <1>2 DEF InStep
<1> QED BY <1>2, <1>3 DEF Left

LEMMA AdvanceFacts ==
    ASSUME ScanTypes, NEW s \in Sources, InStep(s), s \in Heap
    PROVE  LET rest == Advanced(s).rest
               left == Advanced(s).left
           IN  /\ rest \in Seq(Row) /\ left \in Seq(Seq(Row))
               /\ rest = <<>> => left = <<>>
               /\ Sorted(rest) /\ Chain(left)
               /\ \A a \in RowsOf(rest), b \in RowsIn(left) : Before(a.key, b.key)
               /\ RowsOf(rest) \cup RowsIn(left) = Left(s) \ {Head(cursor[s])}
<1> DEFINE q == cursor[s]
           G == batches[s]
           h == Head(q)
<1>1. q \in Seq(Row) /\ q # <<>> /\ Sorted(q) /\ G \in Seq(Seq(Row)) /\ Chain(G)
  BY DEF ScanTypes, Heap, InStep
<1>2. \A a \in RowsOf(q), b \in RowsIn(G) : Before(a.key, b.key)
  BY DEF InStep
<1>3. Left(s) = RowsOf(q) \cup RowsIn(G)
  BY DEF Left
<1>4. Advanced(s) = IF Len(q) > 1 THEN [rest |-> Tail(q), left |-> G]
                    ELSE [rest |-> FirstOf(G), left |-> RestOf(G)]
  BY DEF Advanced
<1> HIDE DEF q, G
<1>5. /\ h \in Row /\ Tail(q) \in Seq(Row) /\ Sorted(Tail(q))
      /\ RowsOf(q) = {h} \cup RowsOf(Tail(q))
      /\ \A r \in RowsOf(Tail(q)) : Before(h.key, r.key)
      /\ Tail(q) = <<>> <=> ~ (Len(q) > 1)
  BY <1>1, TailFacts
<1> HIDE DEF h
<1>6. h \notin RowsOf(Tail(q)) /\ h \notin RowsIn(G)
  <2>1. h.key \in Keys
    BY <1>5 DEF Row
  <2>2. ~ Before(h.key, h.key)
    BY <2>1, KeyOrder
  <2> QED BY <1>2, <1>5, <2>2
<1>7. RowsOf(Tail(q)) \cup RowsIn(G) = Left(s) \ {h}
  BY <1>3, <1>5, <1>6
<1>8. CASE Len(q) > 1
  <2>1. Advanced(s).rest = Tail(q) /\ Advanced(s).left = G
    BY <1>4, <1>8
  <2>2. \A a \in RowsOf(Tail(q)), b \in RowsIn(G) : Before(a.key, b.key)
    BY <1>2, <1>5
  <2> QED BY <1>1, <1>5, <1>7, <1>8, <2>1, <2>2 DEF h, q
<1>9. CASE ~ (Len(q) > 1)
  <2>1. Advanced(s).rest = FirstOf(G) /\ Advanced(s).left = RestOf(G)
    BY <1>4, <1>9
  <2>2. RowsOf(Tail(q)) = {}
    BY <1>5, <1>9, RowsOfSeq
  <2>3. RowsOf(FirstOf(G)) \cup RowsIn(RestOf(G)) = Left(s) \ {h}
    BY <1>1, <1>7, <2>2, FirstAndRest
  <2> QED BY <1>1, <2>1, <2>3, FirstAndRest DEF h, q
<1> QED BY <1>8, <1>9

\* Of cursors that are not at their end one is first.
LEMMA TopFacts ==
    ASSUME ScanTypes, Heap # {}
    PROVE  Top \in Heap /\ \A t \in Heap : Precedes(Top, t)
<1> DEFINE key(s) == Head(cursor[s]).key
           seq(s) == Head(cursor[s]).seq
           first(s, t) == \/ Before(key(s), key(t))
                          \/ key(s) = key(t) /\ (seq(s) > seq(t) \/ (seq(s) = seq(t) /\ s < t))
           L == {p \in Heap \X Heap : first(p[1], p[2])}
<1>1. ASSUME NEW s \in Heap PROVE key(s) \in Keys /\ seq(s) \in Int /\ s \in Int
  <2>1. cursor[s] \in Seq(Row) /\ cursor[s] # <<>> /\ s \in Sources
    BY DEF ScanTypes, Heap
  <2>2. Head(cursor[s]) \in Row
    BY <2>1
  <2> QED BY <2>1, <2>2, SourcesAssumption DEF Row, Sources
<1>2. \A s, t \in Heap : <<s, t>> \in L <=> first(s, t)
  OBVIOUS
<1>3. ASSUME NEW s \in Heap, NEW t \in Heap, first(s, t) \/ s = t PROVE Precedes(s, t)
  BY <1>1, <1>3 DEF Precedes
<1> HIDE DEF L, key, seq
<1>4. Orders(L, Heap)
  <2>1. ASSUME NEW x \in Heap, NEW y \in Heap PROVE first(x, y) \/ first(y, x) \/ x = y
    <3>1. CASE key(x) = key(y)
      BY <1>1, <3>1
    <3>2. CASE key(x) # key(y)
      BY <1>1, <3>2, KeyOrder
    <3> QED BY <3>1, <3>2
  <2>2. ASSUME NEW x \in Heap, NEW y \in Heap, NEW z \in Heap, first(x, y), first(y, z)
        PROVE  first(x, z)
    <3>1. /\ key(x) \in Keys /\ key(y) \in Keys /\ key(z) \in Keys /\ seq(x) \in Int
          /\ seq(y) \in Int /\ seq(z) \in Int /\ x \in Int /\ y \in Int /\ z \in Int
      BY <1>1
    <3>2. CASE Before(key(x), key(y)) /\ Before(key(y), key(z))
      BY <3>1, <3>2, KeyOrder
    <3>3. CASE ~ Before(key(x), key(y))
      BY <2>2, <3>1, <3>3
    <3>4. CASE ~ Before(key(y), key(z))
      BY <2>2, <3>1, <3>4
    <3> QED BY <3>2, <3>3, <3>4
  <2>3. ASSUME NEW x \in Heap PROVE ~ first(x, x)
    BY <1>1, KeyOrder
  <2> HIDE DEF first
  <2> QED BY <1>2, <2>1, <2>2, <2>3 DEF Orders
<1>5. IsFiniteSet(Heap)
  <2>1. IsFiniteSet(Memtables \cup Ssts)
    BY SourcesAssumption, FS_Union
  <2>2. Heap \in SUBSET (Memtables \cup Ssts)
    BY DEF Heap, Sources
  <2> QED BY <2>1, <2>2, FS_Subset
<1>6. 1 \in 1 .. Cardinality(Heap)
  <2>1. Cardinality(Heap) \in Nat /\ Cardinality(Heap) # 0
    BY <1>5, FS_CardinalityType, FS_EmptySet
  <2> QED BY <2>1
<1>7. PICK x \in Heap : Cardinality(Below(L, Heap, x)) = 1 - 1
  BY <1>4, <1>5, <1>6, RankFacts
<1>8. Below(L, Heap, x) = {}
  <2>1. Below(L, Heap, x) \in SUBSET Heap
    BY DEF Below
  <2>2. IsFiniteSet(Below(L, Heap, x))
    BY <1>5, <2>1, FS_Subset
  <2> QED BY <1>7, <2>2, FS_EmptySet
<1>9. ASSUME NEW t \in Heap PROVE Precedes(x, t)
  <2>1. <<t, x>> \notin L
    BY <1>8 DEF Below
  <2>2. <<x, t>> \in L \/ x = t
    BY <1>4, <2>1 DEF Orders
  <2> HIDE DEF first
  <2> QED BY <1>2, <1>3, <2>2
<1> QED BY <1>9 DEF Top

-----------------------------------------------------------------------------
(* Sorted sequences, put together and cut off.                             *)

LEMMA SortedConcat ==
    ASSUME NEW p \in Seq(Row), NEW q \in Seq(Row), Sorted(p), Sorted(q),
           \A a \in RowsOf(p), b \in RowsOf(q) : Before(a.key, b.key)
    PROVE  /\ p \o q \in Seq(Row) /\ Sorted(p \o q)
           /\ RowsOf(p \o q) = RowsOf(p) \cup RowsOf(q)
<1> DEFINE s == p \o q
           m == Len(p)
           n == Len(q)
<1>1. /\ m \in Nat /\ n \in Nat /\ DOMAIN p = 1 .. m /\ DOMAIN q = 1 .. n
  BY SeqBasics
<1>2. /\ s \in Seq(Row) /\ Len(s) = m + n
      /\ \A i \in 1 .. m + n : s[i] = IF i <= m THEN p[i] ELSE q[i - m]
  BY ConcatProperties
<1> HIDE DEF s, m, n
<1>3. DOMAIN s = 1 .. m + n
  <2>1. DOMAIN s = 1 .. Len(s)
    BY <1>2, SeqBasics
  <2> QED BY <1>2, <2>1
<1>4. ASSUME NEW i \in DOMAIN s
      PROVE  \/ i \in DOMAIN p /\ s[i] = p[i]
             \/ i - m \in DOMAIN q /\ s[i] = q[i - m] /\ i > m
  <2>1. i \in Int /\ 1 <= i /\ i <= m + n
    BY <1>1, <1>3
  <2>2. CASE i <= m
    BY <1>1, <1>2, <1>3, <2>1, <2>2
  <2>3. CASE ~ (i <= m)
    BY <1>1, <1>2, <1>3, <2>1, <2>3
  <2> QED BY <2>2, <2>3
<1>5. ASSUME NEW i \in DOMAIN p PROVE i \in DOMAIN s /\ s[i] = p[i]
  <2>1. i \in 1 .. m + n /\ i <= m
    BY <1>1
  <2> QED BY <1>2, <1>3, <2>1
<1>6. ASSUME NEW i \in DOMAIN q PROVE i + m \in DOMAIN s /\ s[i + m] = q[i]
  <2>1. i + m \in 1 .. m + n /\ ~ (i + m <= m) /\ (i + m) - m = i
    BY <1>1
  <2>2. s[i + m] = q[(i + m) - m]
    BY <1>2, <2>1
  <2> QED BY <1>3, <2>1, <2>2
<1>7. RowsOf(s) = RowsOf(p) \cup RowsOf(q)
  <2>1. ASSUME NEW i \in DOMAIN s PROVE s[i] \in RowsOf(p) \cup RowsOf(q)
    BY <1>4 DEF RowsOf
  <2>2. RowsOf(p) \subseteq RowsOf(s)
    BY <1>5 DEF RowsOf
  <2>3. RowsOf(q) \subseteq RowsOf(s)
    BY <1>6 DEF RowsOf
  <2>4. RowsOf(s) \subseteq RowsOf(p) \cup RowsOf(q)
    BY <2>1 DEF RowsOf
  <2> QED BY <2>2, <2>3, <2>4
<1>8. ASSUME NEW i \in DOMAIN s, NEW j \in DOMAIN s, i < j PROVE Before(s[i].key, s[j].key)
  <2>1. i \in Int /\ j \in Int
    BY <1>1, <1>3
  <2>2. CASE i \in DOMAIN p /\ s[i] = p[i] /\ j \in DOMAIN p /\ s[j] = p[j]
    BY <1>8, <2>2 DEF Sorted
  <2>3. CASE i \in DOMAIN p /\ s[i] = p[i] /\ j - m \in DOMAIN q /\ s[j] = q[j - m]
    BY <2>3 DEF RowsOf
  <2>4. CASE i - m \in DOMAIN q /\ i > m /\ s[i] = q[i - m] /\ j - m \in DOMAIN q /\ s[j] = q[j - m]
    <3>1. i - m < j - m
      BY <1>1, <1>8, <2>1
    <3> QED BY <2>4, <3>1 DEF Sorted
  <2>5. CASE i > m /\ j \in DOMAIN p
    <3>1. j <= m
      BY <1>1, <2>5
    <3> QED BY <1>1, <1>8, <2>1, <2>5, <3>1
  <2> QED BY <1>4, <2>2, <2>3, <2>4, <2>5
<1>9. Sorted(s)
  BY <1>8 DEF Sorted
<1> QED BY <1>2, <1>7, <1>9 DEF s

LEMMA SortedPrefix ==
    ASSUME NEW p \in Seq(Row), Sorted(p), NEW n \in Nat, n <= Len(p)
    PROVE  /\ SubSeq(p, 1, n) \in Seq(Row) /\ Sorted(SubSeq(p, 1, n))
           /\ RowsOf(SubSeq(p, 1, n)) \subseteq RowsOf(p) /\ Len(SubSeq(p, 1, n)) = n
<1> DEFINE s == SubSeq(p, 1, n)
<1>1. Len(p) \in Nat /\ DOMAIN p = 1 .. Len(p)
  BY SeqBasics
<1>2. \A i \in 1 .. n : i \in DOMAIN p /\ p[i] \in Row
  BY <1>1
<1>3. /\ s \in Seq(Row) /\ Len(s) = IF 1 <= n THEN n - 1 + 1 ELSE 0
      /\ \A i \in 1 .. n - 1 + 1 : s[i] = p[1 + i - 1]
  BY <1>2, SubSeqProperties
<1> HIDE DEF s
<1>4. Len(s) = n
  BY <1>3
<1>5. DOMAIN s = 1 .. n
  BY <1>3, <1>4, SeqBasics
<1>6. ASSUME NEW i \in 1 .. n PROVE s[i] = p[i]
  <2>1. i \in 1 .. n - 1 + 1 /\ 1 + i - 1 = i
    OBVIOUS
  <2> QED BY <1>3, <2>1
<1>7. Sorted(s)
  BY <1>2, <1>5, <1>6 DEF Sorted
<1>8. RowsOf(s) \subseteq RowsOf(p)
  BY <1>2, <1>5, <1>6 DEF RowsOf
<1> QED BY <1>3, <1>4, <1>7, <1>8 DEF s

\* strip_internal() keeps the order and takes out the tombstones only.
LEMMA StrippedFacts ==
    ASSUME NEW b \in Seq(Row), Sorted(b)
    PROVE  /\ Stripped(b) \in Seq(Row) /\ Sorted(Stripped(b))
           /\ RowsOf(Stripped(b)) = {r \in RowsOf(b) : IsPut(r)}
<1> DEFINE I == {i \in DOMAIN b : IsPut(b[i])}
           p == Picked(b, I)
<1>1. I \in SUBSET DOMAIN b
  OBVIOUS
<1>2. Stripped(b) = p
  BY DEF Stripped
<1>3. {b[i] : i \in I} = {r \in RowsOf(b) : IsPut(r)}
  BY DEF RowsOf
<1> HIDE DEF I
<1>4. /\ p \in Seq(Row) /\ RowsOf(p) = {b[i] : i \in I}
      /\ \A m, n \in DOMAIN p : m < n => \E i, j \in I : i < j /\ p[m] = b[i] /\ p[n] = b[j]
  BY <1>1, PickedFacts
<1> HIDE DEF p
<1>5. Sorted(p)
  BY <1>1, <1>4 DEF Sorted
<1> QED BY <1>2, <1>3, <1>4, <1>5

-----------------------------------------------------------------------------
(* Each step of the merge keeps the invariant.                             *)

LEMMA NothingThere ==
    /\ <<>> \in Seq(Row) /\ <<>> \in Seq(Seq(Row))
    /\ RowsOf(<<>>) = {} /\ RowsIn(<<>>) = {} /\ Sorted(<<>>) /\ Chain(<<>>)
BY DEF RowsOf, RowsIn, Sorted, Chain

\* Before the merge there is nothing to be right or wrong about.
NothingMerged ==
    /\ range \in RangeType /\ limit \in Nat \cup {NoLimit} /\ phase # "done"
    /\ rows = [s \in Sources |-> {}] /\ cursor = [s \in Sources |-> <<>>]
    /\ batches = [s \in Sources |-> <<>>] /\ buffered = <<>> /\ result = <<>>
LEMMA NothingYet == NothingMerged => MergeInv
<1> SUFFICES ASSUME NothingMerged PROVE MergeInv
  OBVIOUS
<1> USE DEF NothingMerged
<1>1. \A s \in Sources : rows[s] = {} /\ cursor[s] = <<>> /\ batches[s] = <<>>
  OBVIOUS
<1>2. ScanTypes
  BY NothingThere DEF ScanTypes
<1>3. AllRows = {} /\ Out = {}
  BY <1>1, NothingThere DEF AllRows, Out
<1>4. SourcesInv
  BY <1>1, NothingThere DEF SourcesInv, InStep, Placed, Left
<1>5. OutInv
  BY <1>3, NothingThere DEF OutInv
<1>6. EndInv
  <2>1. limit # NoLimit => Len(result) <= limit
    <3>1. Len(result) = 0
      OBVIOUS
    <3> QED BY <3>1
  <2> QED BY <1>3, <2>1 DEF EndInv
<1>7. Unbegun
  BY DEF Unbegun
<1>8. RowsDiffer
  BY <1>3 DEF RowsDiffer
<1> QED BY <1>2, <1>4, <1>5, <1>6, <1>7, <1>8 DEF MergeInv

LEMMA InitMerge == Init => MergeInv
<1> SUFFICES ASSUME Init PROVE NothingMerged
  BY NothingYet
<1>1. NoRange \in RangeType
  BY EndsAreOutside DEF NoRange, RangeType
<1> QED BY <1>1 DEF Init, NothingMerged

LEMMA BeginMerge == MergeInv /\ (Plan \/ Prepare) => MergeInv'
<1> SUFFICES ASSUME MergeInv, Plan \/ Prepare PROVE NothingMerged'
  <2>1. NothingMerged' => MergeInv'
    BY NothingYet, PTL
  <2> QED BY <2>1
<1>1. /\ rows = [s \in Sources |-> {}] /\ cursor = [s \in Sources |-> <<>>]
      /\ batches = [s \in Sources |-> <<>>] /\ buffered = <<>> /\ result = <<>>
  BY DEF MergeInv, Unbegun, Plan, Prepare
<1>2. UNCHANGED <<rows, batches, cursor, buffered, result>> /\ phase' # "done"
  BY DEF Plan, Prepare
<1>3. range' \in RangeType /\ limit' \in Nat \cup {NoLimit}
  <2>1. CASE Plan
    <3>1. PICK F \in SUBSET Comparison, c \in Times \cup {Lowest}, n \in Limits \cup {NoLimit} :
            limit' = n /\ range' = Clamped(ExtractTimeRange(F), c)
      BY <2>1 DEF Plan
    <3> DEFINE r == ExtractTimeRange(F)
    <3>2. r \in [min : Int, max : Int] /\ c \in Int
      BY RangeCovers, EndsAreOutside, DataAssumption
    <3> HIDE DEF r
    <3>3. Clamped(r, c) = [r EXCEPT !.min = Largest({r.min, c})]
      BY DEF Clamped
    <3>4. Clamped(r, c).min \in {r.min, c} /\ Clamped(r, c).max = r.max
      BY <3>2, ClampedFacts
    <3>5. Clamped(r, c).min = Largest({r.min, c})
      BY <3>2, <3>3
    <3>6. Largest({r.min, c}) \in Int
      BY <3>2, <3>4, <3>5
    <3>7. Clamped(r, c) \in RangeType
      BY <3>2, <3>3, <3>6 DEF RangeType
    <3> QED BY <3>1, <3>7, LimitsAssumption DEF r
  <2>2. CASE Prepare
    BY <2>2 DEF Prepare, MergeInv, ScanTypes
  <2> QED BY <2>1, <2>2
<1> QED BY <1>1, <1>2, <1>3 DEF NothingMerged

\* A source holds one row of a key, and no two writes make the same row.
LEMMA ContentsFacts ==
    ASSUME NEW n \in Nat, NEW h \in [1 .. n -> Write], NEW s \in Sources
    PROVE  /\ Contents(h)[s] \in SUBSET Row /\ IsFiniteSet(Contents(h)[s])
           /\ OneOfEachKey(Contents(h)[s])
           /\ \A r \in Contents(h)[s] :
                r.seq \in 1 .. n /\ r = [key |-> h[r.seq].key, seq |-> r.seq, op |-> h[r.seq].op]
<1> DEFINE R == Contents(h)[s]
           row(i) == [key |-> h[i].key, seq |-> i, op |-> h[i].op]
<1>1. DOMAIN h = 1 .. n
  OBVIOUS
<1>2. R = {r \in {row(i) : i \in DOMAIN h} :
            /\ s \in h[r.seq].at
            /\ \A i \in DOMAIN h : h[i].key = r.key /\ s \in h[i].at => i <= r.seq}
  BY DEF Contents
<1> HIDE DEF R
<1>3. ASSUME NEW r \in R
      PROVE  /\ r.seq \in 1 .. n /\ r = row(r.seq) /\ s \in h[r.seq].at
             /\ \A i \in 1 .. n : h[i].key = r.key /\ s \in h[i].at => i <= r.seq
  <2>1. PICK i \in 1 .. n : r = row(i)
    BY <1>1, <1>2
  <2>2. r.seq = i
    BY <2>1
  <2> QED BY <1>1, <1>2, <2>1, <2>2
<1>4. ASSUME NEW i \in 1 .. n PROVE row(i) \in Row
  <2>1. h[i] \in Write
    OBVIOUS
  <2>2. h[i].key \in Keys /\ h[i].op \in {"put", "delete"}
    BY <2>1 DEF Write
  <2> QED BY <2>2 DEF Row
<1>5. R \in SUBSET Row
  BY <1>3, <1>4
<1>6. OneOfEachKey(R)
  <2> SUFFICES ASSUME NEW q \in R, NEW r \in R, q.key = r.key PROVE q = r
    BY DEF OneOfEachKey
  <2>1. h[q.seq].key = q.key /\ h[r.seq].key = r.key
    <3>1. row(q.seq).key = h[q.seq].key /\ row(r.seq).key = h[r.seq].key
      OBVIOUS
    <3> HIDE DEF row
    <3> QED BY <1>3, <3>1, Zenon
  <2>2. q.seq <= r.seq /\ r.seq <= q.seq /\ q.seq \in Int /\ r.seq \in Int
    BY <1>3, <2>1
  <2>3. q.seq = r.seq
    BY <2>2
  <2> QED BY <1>3, <2>3, Zenon
<1>7. IsFiniteSet(R)
  <2> DEFINE f == [r \in R |-> r.seq]
  <2>1. f \in [R -> 1 .. n]
    BY <1>3
  <2>2. ASSUME NEW q \in R, NEW r \in R, f[q] = f[r] PROVE q = r
    <3>1. q.seq = r.seq
      BY <2>2
    <3> QED BY <1>3, <3>1, Zenon
  <2>3. f \in Injection(R, 1 .. n)
    <3> HIDE DEF f
    <3> QED BY <2>1, <2>2 DEF Injection, IsInjective
  <2>4. IsFiniteSet(1 .. n)
    BY FS_Interval
  <2> HIDE DEF f
  <2> QED BY <2>3, <2>4, FS_Injection
<1> QED BY <1>3, <1>5, <1>6, <1>7 DEF R

LEMMA ExecuteMerge == MergeInv /\ Execute => MergeInv'
<1> SUFFICES ASSUME MergeInv, Execute PROVE MergeInv'
  OBVIOUS
<1>1. /\ phase' = "merge" /\ range' = range /\ limit' = limit
      /\ buffered' = buffered /\ result' = result /\ buffered = <<>> /\ result = <<>>
  BY DEF Execute, MergeInv, Unbegun
<1>2. PICK n \in Nat : \E h \in [1 .. n -> Write] : rows' = Contents(h)
  BY BoundsAssumption DEF Execute
<1>2a. PICK h \in [1 .. n -> Write] : rows' = Contents(h)
  BY <1>2
<1>3. range \in RangeType /\ limit \in Nat \cup {NoLimit}
  BY DEF MergeInv, ScanTypes
<1> DEFINE G(s) == Given(s, rows'[s])
<1>4. \A s \in Sources : cursor'[s] = FirstOf(G(s)) /\ batches'[s] = RestOf(G(s))
  BY DEF Execute
<1>5. ASSUME NEW s \in Sources
      PROVE  /\ rows'[s] \in SUBSET Row /\ IsFiniteSet(rows'[s]) /\ OneOfEachKey(rows'[s])
             /\ \A r \in rows'[s] :
                  r.seq \in 1 .. n /\ r = [key |-> h[r.seq].key, seq |-> r.seq, op |-> h[r.seq].op]
  BY <1>2a, ContentsFacts
<1>6. ASSUME NEW s \in Sources
      PROVE  /\ G(s) \in Seq(Seq(Row)) /\ Chain(G(s)) /\ RowsIn(G(s)) \subseteq rows'[s]
             /\ \A r \in rows'[s] : InRange(r.key.ts) => r \in RowsIn(G(s))
  BY <1>3, <1>5, SourcesDeliver
<1> HIDE DEF G
<1>7. ASSUME NEW s \in Sources
      PROVE  /\ cursor'[s] \in Seq(Row) /\ batches'[s] \in Seq(Seq(Row))
             /\ cursor'[s] = <<>> => batches'[s] = <<>>
             /\ Sorted(cursor'[s]) /\ Chain(batches'[s])
             /\ \A a \in RowsOf(cursor'[s]), b \in RowsIn(batches'[s]) : Before(a.key, b.key)
             /\ RowsOf(cursor'[s]) \cup RowsIn(batches'[s]) = RowsIn(G(s))
  <2>1. G(s) \in Seq(Seq(Row)) /\ Chain(G(s))
    BY <1>6
  <2> DEFINE g == G(s)
  <2> HIDE DEF g
  <2>2. g \in Seq(Seq(Row)) /\ Chain(g)
    BY <2>1 DEF g
  <2>3. cursor'[s] = FirstOf(g) /\ batches'[s] = RestOf(g)
    BY <1>4 DEF g
  <2>4. /\ FirstOf(g) \in Seq(Row) /\ RestOf(g) \in Seq(Seq(Row))
        /\ FirstOf(g) = <<>> => RestOf(g) = <<>>
        /\ Sorted(FirstOf(g)) /\ Chain(RestOf(g))
        /\ \A a \in RowsOf(FirstOf(g)), b \in RowsIn(RestOf(g)) : Before(a.key, b.key)
        /\ RowsOf(FirstOf(g)) \cup RowsIn(RestOf(g)) = RowsIn(g)
    BY <2>2, FirstAndRest
  <2> QED BY <2>3, <2>4 DEF g
<1>8. ScanTypes'
  <2>1. rows' = [s \in Sources |-> rows'[s]]
    BY <1>2a DEF Contents
  <2>2. cursor' = [s \in Sources |-> cursor'[s]] /\ batches' = [s \in Sources |-> batches'[s]]
    BY DEF Execute
  <2>3. /\ rows' \in [Sources -> SUBSET Row] /\ cursor' \in [Sources -> Seq(Row)]
        /\ batches' \in [Sources -> Seq(Seq(Row))]
    BY <1>5, <1>7, <2>1, <2>2
  <2> QED BY <1>1, <1>3, <2>3, NothingThere DEF ScanTypes
<1>9. SourcesInv'
  <2> SUFFICES ASSUME NEW s \in Sources PROVE InStep(s)' /\ Placed(s)'
    BY DEF SourcesInv
  <2>1. InStep(s)'
    BY <1>7 DEF InStep
  <2>2. Left(s)' = RowsIn(G(s))
    BY <1>7 DEF Left
  <2>3. Placed(s)'
    BY <1>1, <1>6, <2>2 DEF Placed, InRange
  <2> QED BY <2>1, <2>3
<1>10. Out' = {}
  BY <1>1, NothingThere DEF Out
<1>11. OutInv'
  BY <1>1, <1>10, NothingThere DEF OutInv
<1>12. ASSUME NEW r \in AllRows', InRange(r.key.ts)' PROVE ~ Behind(r.key)'
  <2>1. PICK s \in Sources : r \in rows'[s]
    BY DEF AllRows
  <2>2. InRange(r.key.ts)
    BY <1>1, <1>12 DEF InRange
  <2>3. r \in Left(s)' /\ r.key \in Keys
    BY <1>5, <1>6, <1>7, <2>1, <2>2 DEF Left, Row
  <2>4. ~ Before(r.key, r.key)
    BY <2>3, KeyOrder
  <2> QED BY <2>3, <2>4 DEF Behind
<1>13. EndInv'
  <2>1. limit # NoLimit => Len(result) <= limit
    BY DEF MergeInv, EndInv
  <2> QED BY <1>1, <1>12, <2>1 DEF EndInv
<1>14. Unbegun'
  BY <1>1 DEF Unbegun
<1>15. RowsDiffer'
  <2> SUFFICES ASSUME NEW q \in AllRows', NEW r \in AllRows', q.seq = r.seq PROVE q = r
    BY DEF RowsDiffer
  <2>1. /\ q = [key |-> h[q.seq].key, seq |-> q.seq, op |-> h[q.seq].op]
        /\ r = [key |-> h[r.seq].key, seq |-> r.seq, op |-> h[r.seq].op]
    BY <1>5 DEF AllRows
  <2> QED BY <2>1, Zenon
<1> QED BY <1>8, <1>9, <1>11, <1>13, <1>14, <1>15 DEF MergeInv

\* The row on top of the heap is the first of all that is left, and taking it
\* and the others of its key off leaves what lies behind that key.
LEMMA TakenFacts ==
    ASSUME ScanTypes, SourcesInv, MergeKey
    PROVE  LET h == Head(cursor[Top])
           IN  /\ Top \in Sources /\ h \in Left(Top) /\ h \in Row
               /\ \A s \in Sources : \A x \in Left(s) : x.key = h.key \/ Before(h.key, x.key)
               /\ \A s \in Sources : Left(s)' = {x \in Left(s) : x.key # h.key}
               /\ \A s \in Sources : \A x \in Left(s) : x.key = h.key => x.seq <= h.seq
               /\ \A s \in Sources : InStep(s)'
               /\ cursor' \in [Sources -> Seq(Row)] /\ batches' \in [Sources -> Seq(Seq(Row))]
<1> DEFINE h == Head(cursor[Top])
           first(s) == Head(cursor[s])
<1>1. Heap \subseteq Sources /\ Heap # {} /\ \A s \in Sources : InStep(s)
  BY DEF Heap, MergeKey, SourcesInv
<1>2. Top \in Heap /\ \A t \in Heap : Precedes(Top, t)
  BY <1>1, TopFacts
<1>3. ASSUME NEW s \in Heap
      PROVE  /\ first(s) \in Left(s) /\ first(s) \in Row /\ first(s).key \in Keys
             /\ first(s).seq \in Int
             /\ \A x \in Left(s) : x = first(s) \/ Before(first(s).key, x.key)
  <2>1. /\ first(s) \in Left(s) /\ first(s) \in Row
        /\ \A x \in Left(s) : x = first(s) \/ Before(first(s).key, x.key)
    BY <1>1, HeadFacts
  <2> HIDE DEF first
  <2> QED BY <2>1 DEF Row
<1>4. ASSUME NEW s \in Sources, s \notin Heap PROVE Left(s) = {}
  <2>1. cursor[s] = <<>> /\ batches[s] = <<>>
    BY <1>1, <1>4 DEF Heap, InStep
  <2> QED BY <2>1, NothingThere DEF Left
<1>5. h = first(Top)
  OBVIOUS
<1>6. h \in Left(Top) /\ h \in Row /\ h.key \in Keys /\ h.seq \in Int
  BY <1>2, <1>3, <1>5
<1>7. ASSUME NEW s \in Heap
      PROVE  /\ first(s).key = h.key \/ Before(h.key, first(s).key)
             /\ first(s).key = h.key => first(s).seq <= h.seq
  <2>1. Precedes(Top, s)
    BY <1>2
  <2>2. \/ Before(h.key, first(s).key)
        \/ h.key = first(s).key /\ (h.seq > first(s).seq \/ h.seq = first(s).seq)
    BY <2>1 DEF Precedes
  <2>3. first(s).seq \in Int /\ h.seq \in Int /\ first(s).key \in Keys /\ h.key \in Keys
    BY <1>3, <1>6
  <2> HIDE DEF h, first
  <2> QED BY <2>2, <2>3, KeyOrder
<1>8. ASSUME NEW s \in Sources PROVE s \in Taken <=> s \in Heap /\ first(s).key = h.key
  BY DEF Taken
<1>9. \A s \in Sources :
        /\ cursor'[s] = IF s \in Taken THEN Advanced(s).rest ELSE cursor[s]
        /\ batches'[s] = IF s \in Taken THEN Advanced(s).left ELSE batches[s]
  BY DEF MergeKey
<1> HIDE DEF h, first
<1>10. ASSUME NEW s \in Sources, NEW x \in Left(s)
       PROVE  /\ x.key \in Keys /\ s \in Heap
              /\ x.key = h.key \/ Before(h.key, x.key)
              /\ s \notin Taken => x.key # h.key
              /\ s \in Taken /\ x # first(s) => x.key # h.key
              /\ x.key = h.key => x = first(s)
  <2>1. s \in Heap
    BY <1>4
  <2>2. x \in Row
    <3>1. cursor[s] \in Seq(Row) /\ batches[s] \in Seq(Seq(Row))
      BY DEF ScanTypes
    <3>2. RowsOf(cursor[s]) \subseteq Row
      BY <3>1, RowsOfSeq
    <3>3. ASSUME NEW i \in DOMAIN batches[s] PROVE RowsOf(batches[s][i]) \subseteq Row
      <4>1. batches[s][i] \in Seq(Row)
        BY <3>1
      <4> QED BY <4>1, RowsOfSeq
    <3> QED BY <3>2, <3>3 DEF Left, RowsIn
  <2>3. x.key \in Keys /\ first(s).key \in Keys /\ h.key \in Keys
    BY <1>3, <1>6, <2>1, <2>2 DEF Row
  <2>4. x = first(s) \/ Before(first(s).key, x.key)
    BY <1>3, <2>1
  <2>5. first(s).key = h.key \/ Before(h.key, first(s).key)
    BY <1>7, <2>1
  <2>6. CASE x = first(s)
    BY <1>8, <2>1, <2>3, <2>5, <2>6
  <2>7. CASE x # first(s)
    <3>1. Before(h.key, x.key)
      BY <2>3, <2>4, <2>5, <2>7, KeyOrder
    <3>2. x.key # h.key
      BY <2>3, <3>1, KeyOrder
    <3> QED BY <2>1, <2>3, <3>1, <3>2
  <2> QED BY <2>6, <2>7
<1>11. ASSUME NEW s \in Sources
       PROVE  /\ cursor'[s] \in Seq(Row) /\ batches'[s] \in Seq(Seq(Row))
              /\ InStep(s)' /\ Left(s)' = {x \in Left(s) : x.key # h.key}
  <2>1. CASE s \in Taken
    <3> DEFINE rest == Advanced(s).rest
               left == Advanced(s).left
    <3>1. s \in Heap /\ InStep(s) /\ first(s).key = h.key /\ first(s) = Head(cursor[s])
      BY <1>1, <1>8, <2>1 DEF first
    <3>2. /\ rest \in Seq(Row) /\ left \in Seq(Seq(Row))
          /\ rest = <<>> => left = <<>>
          /\ Sorted(rest) /\ Chain(left)
          /\ \A a \in RowsOf(rest), b \in RowsIn(left) : Before(a.key, b.key)
          /\ RowsOf(rest) \cup RowsIn(left) = Left(s) \ {Head(cursor[s])}
      BY <3>1, AdvanceFacts
    <3>3. cursor'[s] = rest /\ batches'[s] = left
      BY <1>9, <2>1
    <3> HIDE DEF rest, left
    <3>4. Left(s)' = Left(s) \ {first(s)}
      BY <3>1, <3>2, <3>3 DEF Left
    <3>5. Left(s)' = {x \in Left(s) : x.key # h.key}
      BY <1>10, <2>1, <3>1, <3>4
    <3> QED BY <3>2, <3>3, <3>5 DEF InStep
  <2>2. CASE s \notin Taken
    <3>1. cursor'[s] = cursor[s] /\ batches'[s] = batches[s]
      BY <1>9, <2>2
    <3>2. Left(s)' = Left(s)
      BY <3>1 DEF Left
    <3>3. Left(s) = {x \in Left(s) : x.key # h.key}
      BY <1>10, <2>2
    <3>4. InStep(s)'
      BY <1>1, <3>1 DEF InStep
    <3> QED BY <3>1, <3>2, <3>3, <3>4 DEF ScanTypes
  <2> QED BY <2>1, <2>2
<1>12. ASSUME NEW s \in Sources, NEW x \in Left(s), x.key = h.key PROVE x.seq <= h.seq
  <2>1. s \in Heap /\ x = first(s)
    BY <1>10, <1>12
  <2> QED BY <1>7, <1>12, <2>1
<1>13. cursor' \in [Sources -> Seq(Row)] /\ batches' \in [Sources -> Seq(Seq(Row))]
  <2>1. cursor' = [s \in Sources |-> cursor'[s]] /\ batches' = [s \in Sources |-> batches'[s]]
    BY DEF MergeKey
  <2> QED BY <1>11, <2>1
<1>14. Top \in Sources
  BY <1>1, <1>2
<1> QED BY <1>6, <1>10, <1>11, <1>12, <1>13, <1>14 DEF h

LEMMA StepMerge == MergeInv /\ MergeKey => MergeInv'
<1> SUFFICES ASSUME MergeInv, MergeKey PROVE MergeInv'
  OBVIOUS
<1>1. ScanTypes /\ SourcesInv /\ OutInv /\ EndInv /\ RowsDiffer
  BY DEF MergeInv
<1>2. PICK h \in Row :
      /\ h = Head(cursor[Top]) /\ Top \in Sources /\ h \in Left(Top)
      /\ \A s \in Sources : \A x \in Left(s) : x.key = h.key \/ Before(h.key, x.key)
      /\ \A s \in Sources : Left(s)' = {x \in Left(s) : x.key # h.key}
      /\ \A s \in Sources : \A x \in Left(s) : x.key = h.key => x.seq <= h.seq
      /\ \A s \in Sources : InStep(s)'
      /\ cursor' \in [Sources -> Seq(Row)] /\ batches' \in [Sources -> Seq(Seq(Row))]
  BY <1>1, TakenFacts
<1>3. /\ buffered' = Append(buffered, h) /\ phase = "merge" /\ phase' = "merge"
      /\ range' = range /\ limit' = limit /\ rows' = rows /\ result' = result
  BY <1>2 DEF MergeKey
<1>4. /\ AllRows' = AllRows /\ \A ts : InRange(ts)' <=> InRange(ts)
      /\ \A r : (Newest(r)' <=> Newest(r)) /\ (Live(r)' <=> Live(r))
  BY <1>3 DEF AllRows, InRange, Newest, Live
<1>5. \A s \in Sources : Placed(s) /\ Left(s) \subseteq rows[s] /\ rows[s] \subseteq AllRows
  BY <1>1 DEF SourcesInv, Placed, AllRows
<1>6. \A r \in AllRows : r.key \in Keys /\ r.seq \in Int
  BY <1>1 DEF ScanTypes, AllRows, Row
<1>7. h \in AllRows /\ h.key \in Keys
  BY <1>2, <1>5, <1>6
\* What lay ahead of the rest still does; so does now the key that was taken.
<1>8. \A k : Behind(k) => Behind(k)'
  BY <1>2 DEF Behind
<1>9. Behind(h.key)'
  BY <1>2 DEF Behind
<1>10. \A k \in Keys : Behind(k) => Before(k, h.key)
  BY <1>2 DEF Behind
<1>11. ASSUME NEW q \in AllRows, InRange(q.key.ts), ~ Behind(q.key)
       PROVE  \E s \in Sources : q \in rows[s] /\ q \in Left(s)
  BY <1>5, <1>11 DEF AllRows, Placed
<1>12. InRange(h.key.ts) => Newest(h)
  <2> SUFFICES ASSUME InRange(h.key.ts), NEW q \in AllRows, q.key = h.key PROVE q.seq <= h.seq
    BY DEF Newest
  <2>1. ~ Behind(q.key)
    BY <1>7, <1>10, KeyOrder
  <2>2. PICK s \in Sources : q \in Left(s)
    BY <1>11, <2>1
  <2> QED BY <1>2, <2>2
<1>13. ScanTypes'
  <2>1. buffered' \in Seq(Row)
    BY <1>1, <1>2, <1>3 DEF ScanTypes
  <2> QED BY <1>1, <1>2, <1>3, <2>1 DEF ScanTypes
<1>14. SourcesInv'
  <2> SUFFICES ASSUME NEW s \in Sources PROVE Placed(s)'
    BY <1>2 DEF SourcesInv
  <2>1. Left(s)' \subseteq rows'[s]
    BY <1>2, <1>3, <1>5
  <2>2. ASSUME NEW r \in rows[s], InRange(r.key.ts) PROVE r \in Left(s)' \/ Behind(r.key)'
    <3>1. CASE Behind(r.key)
      BY <1>8, <3>1
    <3>2. CASE r \in Left(s)
      BY <1>2, <1>9, <3>2
    <3> QED BY <1>5, <2>2, <3>1, <3>2 DEF Placed
  <2> QED BY <1>3, <1>4, <2>1, <2>2 DEF Placed
<1>15. /\ buffered' \in Seq(Row) /\ Sorted(buffered')
       /\ RowsOf(buffered') = RowsOf(buffered) \cup {h}
  <2>1. buffered \in Seq(Row) /\ Sorted(buffered) /\ RowsOf(buffered) \subseteq Out
    BY <1>1 DEF ScanTypes, OutInv, Out
  <2>2. <<h>> \in Seq(Row) /\ Sorted(<<h>>) /\ RowsOf(<<h>>) = {h}
    BY <1>2 DEF Sorted, RowsOf
  <2>3. ASSUME NEW a \in RowsOf(buffered) PROVE Before(a.key, h.key)
    BY <1>1, <1>6, <1>10, <2>1 DEF OutInv
  <2>4. /\ buffered \o <<h>> \in Seq(Row) /\ Sorted(buffered \o <<h>>)
        /\ RowsOf(buffered \o <<h>>) = RowsOf(buffered) \cup RowsOf(<<h>>)
    BY <2>1, <2>2, <2>3, SortedConcat
  <2>5. Append(buffered, h) = buffered \o <<h>>
    BY <1>2, <2>1, AppendIsConcat
  <2> QED BY <1>3, <2>2, <2>4, <2>5
<1>16. Out' = Out \cup {h}
  BY <1>3, <1>15 DEF Out
<1>17. OutInv'
  <2>1. ASSUME NEW a \in RowsOf(result), NEW b \in RowsOf(buffered') PROVE Before(a.key, b.key)
    <3>1. CASE b \in RowsOf(buffered)
      BY <1>1, <3>1 DEF OutInv
    <3>2. CASE b = h
      BY <1>1, <1>6, <1>10, <3>2 DEF OutInv, Out
    <3> QED BY <1>15, <3>1, <3>2
  <2>2. ASSUME NEW r \in Out'
        PROVE  r \in AllRows /\ Behind(r.key)' /\ (InRange(r.key.ts) => Newest(r))
    <3>1. CASE r \in Out
      BY <1>1, <1>8, <3>1 DEF OutInv
    <3>2. CASE r = h
      BY <1>7, <1>9, <1>12, <3>2
    <3> QED BY <1>16, <3>1, <3>2
  <2>3. Sorted(result) /\ \A r \in RowsOf(result) : IsPut(r)
    BY <1>1 DEF OutInv
  <2> QED BY <1>3, <1>4, <1>15, <2>1, <2>2, <2>3 DEF OutInv
<1>18. EndInv'
  <2>1. ASSUME NEW r \in AllRows, Live(r), InRange(r.key.ts), Behind(r.key)' PROVE r \in Out'
    <3>1. CASE Behind(r.key)
      BY <1>1, <1>3, <1>16, <2>1, <3>1 DEF EndInv
    <3>2. CASE ~ Behind(r.key)
      <4>1. PICK s \in Sources : r \in Left(s)
        BY <1>11, <2>1, <3>2
      <4>2. r.key = h.key
        <5>1. r \notin Left(s)'
          BY <1>6, <2>1, KeyOrder DEF Behind
        <5> QED BY <1>2, <4>1, <5>1
      <4>3. r.seq <= h.seq /\ h.seq <= r.seq
        BY <1>2, <1>7, <2>1, <4>1, <4>2 DEF Live
      <4>4. r.seq = h.seq
        BY <1>6, <1>7, <4>3
      <4>5. r = h
        BY <1>1, <1>7, <4>4 DEF RowsDiffer
      <4> QED BY <1>16, <4>5
    <3> QED BY <3>1, <3>2
  <2>2. limit # NoLimit => Len(result) <= limit
    BY <1>1 DEF EndInv
  <2> QED BY <1>3, <1>4, <2>1, <2>2 DEF EndInv
<1>19. Unbegun' /\ RowsDiffer'
  BY <1>1, <1>3, <1>4 DEF Unbegun, RowsDiffer
<1> QED BY <1>13, <1>14, <1>17, <1>18, <1>19 DEF MergeInv

LEMMA HandOutMerge == MergeInv /\ HandOut => MergeInv'
<1> SUFFICES ASSUME MergeInv, HandOut PROVE MergeInv'
  OBVIOUS
<1>1. ScanTypes /\ SourcesInv /\ OutInv /\ EndInv /\ RowsDiffer
  BY DEF MergeInv
<1>2. /\ phase = "merge" /\ phase' \in {"merge", "done"} /\ buffered' = <<>> /\ range' = range
      /\ limit' = limit /\ rows' = rows /\ cursor' = cursor /\ batches' = batches
  BY DEF HandOut
<1>3. /\ AllRows' = AllRows /\ \A ts : InRange(ts)' <=> InRange(ts)
      /\ \A r : (Newest(r)' <=> Newest(r)) /\ (Live(r)' <=> Live(r))
  BY <1>2 DEF AllRows, InRange, Newest, Live
<1>4. (\A s : Left(s)' = Left(s)) /\ (\A k : Behind(k)' <=> Behind(k))
  BY <1>2 DEF Left, Behind
<1>5. SourcesInv'
  BY <1>1, <1>2, <1>3, <1>4 DEF SourcesInv, InStep, Placed
<1>6. PICK puts : puts = Stripped(buffered)
  OBVIOUS
<1>7. /\ puts \in Seq(Row) /\ Sorted(puts)
      /\ RowsOf(puts) = {r \in RowsOf(buffered) : IsPut(r)}
  BY <1>1, <1>6, StrippedFacts DEF ScanTypes, OutInv
<1>8. result \in Seq(Row) /\ Sorted(result) /\ limit \in Nat \cup {NoLimit}
  BY <1>1 DEF ScanTypes, OutInv
<1>9. Len(result) \in Nat /\ Len(puts) \in Nat
  BY <1>7, <1>8, SeqBasics
<1>10. limit # NoLimit => limit \in Nat /\ Len(result) <= limit
  BY <1>1, <1>8 DEF EndInv
\* Either all puts are handed out, or the first of them up to the limit.
<1> DEFINE Handed(n) ==
      /\ n <= Len(puts) /\ result' = result \o SubSeq(puts, 1, n)
      /\ \/ n = Len(puts) /\ phase' = "merge"
         \/ limit # NoLimit /\ Len(result) + n = limit /\ phase' = "done"
      /\ limit # NoLimit => Len(result) + n <= limit
<1>10a. \E n \in Nat : Handed(n)
  <2>1. CASE limit # NoLimit /\ puts # <<>> /\ Len(puts) >= limit - Len(result)
    <3>1. result' = result \o SubSeq(puts, 1, limit - Len(result)) /\ phase' = "done"
      BY <1>6, <2>1 DEF HandOut
    <3>2. limit - Len(result) \in Nat /\ limit - Len(result) <= Len(puts)
      BY <1>9, <1>10, <2>1
    <3>3. Len(result) + (limit - Len(result)) = limit
      BY <1>9, <1>10, <2>1
    <3>4. PICK n \in Nat : n = limit - Len(result)
      BY <3>2
    <3>5. Len(result) + n = limit
      BY <3>3, <3>4
    <3>6. n <= Len(puts) /\ result' = result \o SubSeq(puts, 1, n)
      BY <3>1, <3>2, <3>4
    <3>7. Len(result) + n <= limit
      BY <1>10, <2>1, <3>5
    <3>8. Handed(n)
      BY <2>1, <3>1, <3>5, <3>6, <3>7, Zenon
    <3> HIDE DEF Handed
    <3> QED BY <3>8
  <2>2. CASE ~ (limit # NoLimit /\ puts # <<>> /\ Len(puts) >= limit - Len(result))
    <3>1. result' = result \o puts /\ phase' = "merge"
      BY <1>2, <1>6, <2>2 DEF HandOut
    <3>2. SubSeq(puts, 1, Len(puts)) = puts
      BY <1>7, SubSeqFull
    <3>3. limit # NoLimit => Len(result) + Len(puts) <= limit
      <4>1. CASE puts = <<>>
        <5>1. Len(puts) = 0
          BY <4>1
        <5> QED BY <1>9, <1>10, <5>1
      <4>2. CASE puts # <<>>
        BY <1>9, <1>10, <2>2, <4>2
      <4> QED BY <4>1, <4>2
    <3>4. Len(puts) <= Len(puts)
      BY <1>9
    <3>5. result' = result \o SubSeq(puts, 1, Len(puts))
      BY <3>1, <3>2
    <3>6. Handed(Len(puts))
      BY <3>1, <3>3, <3>4, <3>5, Zenon
    <3> HIDE DEF Handed
    <3> QED BY <1>9, <3>6
  <2> QED BY <2>1, <2>2
<1>11. PICK n \in Nat : Handed(n)
  BY <1>10a
<1> DEFINE given == SubSeq(puts, 1, n)
<1>12. /\ given \in Seq(Row) /\ Sorted(given) /\ Len(given) = n
       /\ RowsOf(given) \subseteq RowsOf(puts)
  BY <1>7, <1>11, SortedPrefix
<1>13. n = Len(puts) => given = puts
  BY <1>7, SubSeqFull
<1>14. result' = result \o given
  BY <1>11
<1> HIDE DEF given
<1>15. \A a \in RowsOf(result), b \in RowsOf(given) : Before(a.key, b.key)
  BY <1>1, <1>7, <1>12 DEF OutInv
<1>16. /\ result' \in Seq(Row) /\ Sorted(result')
       /\ RowsOf(result') = RowsOf(result) \cup RowsOf(given)
  BY <1>8, <1>12, <1>14, <1>15, SortedConcat
<1>17. Len(result') = Len(result) + n
  BY <1>8, <1>12, <1>14, ConcatProperties
<1>18. ScanTypes'
  BY <1>1, <1>2, <1>16, NothingThere DEF ScanTypes
<1>19. Out' = RowsOf(result')
  BY <1>2, NothingThere DEF Out
<1>20. OutInv'
  <2>1. Out' \subseteq Out
    BY <1>7, <1>12, <1>16, <1>19 DEF Out
  <2>2. \A r \in RowsOf(result') : IsPut(r)
    BY <1>1, <1>7, <1>12, <1>16 DEF OutInv
  <2>3. \A r \in Out' : r \in AllRows /\ Behind(r.key) /\ (InRange(r.key.ts) => Newest(r))
    BY <1>1, <2>1 DEF OutInv
  <2> QED BY <1>2, <1>3, <1>4, <1>16, <2>2, <2>3, NothingThere DEF OutInv
<1>21. EndInv'
  <2>1. limit # NoLimit => Len(result') <= limit
    BY <1>11, <1>17
  <2>2. CASE n = Len(puts) /\ phase' = "merge"
    <3>1. \A r \in Out : r.op = "put" => r \in Out'
      BY <1>7, <1>13, <1>16, <1>19, <2>2 DEF Out, IsPut
    <3>2. \A r \in AllRows : Live(r) /\ InRange(r.key.ts) /\ Behind(r.key) => r \in Out'
      BY <1>1, <1>2, <3>1 DEF EndInv, Live
    <3> QED BY <1>2, <1>3, <1>4, <2>1, <2>2, <3>2 DEF EndInv
  <2>3. CASE limit # NoLimit /\ Len(result) + n = limit /\ phase' = "done"
    <3>1. ~ Unlimited'
      <4>1. Len(result') = limit /\ limit \in Nat
        BY <1>10, <1>17, <2>3
      <4> QED BY <1>2, <2>3, <4>1 DEF Unlimited
    <3> QED BY <1>2, <2>1, <2>3, <3>1 DEF EndInv
  <2> QED BY <1>11, <2>2, <2>3
<1>22. Unbegun' /\ RowsDiffer'
  BY <1>1, <1>2, <1>3 DEF Unbegun, RowsDiffer
<1> QED BY <1>5, <1>18, <1>20, <1>21, <1>22 DEF MergeInv

\* Exhausted ends the scan with nothing left, and no other variable changes.
LEMMA EndMerge == MergeInv /\ (Exhausted \/ UNCHANGED vars) => MergeInv'
<1> SUFFICES ASSUME MergeInv, Exhausted \/ UNCHANGED vars PROVE MergeInv'
  OBVIOUS
<1>1. /\ UNCHANGED <<range, limit, rows, batches, cursor, buffered, result>>
      /\ \/ UNCHANGED phase
         \/ phase = "merge" /\ phase' = "done" /\ Heap = {} /\ buffered = <<>>
  BY DEF Exhausted, vars
<1>2. ScanTypes' /\ Unbegun' /\ RowsDiffer'
  <2>1. ScanTypes'
    BY <1>1 DEF MergeInv, ScanTypes
  <2>2. Unbegun'
    BY <1>1 DEF MergeInv, Unbegun
  <2>3. RowsDiffer'
    BY <1>1 DEF MergeInv, RowsDiffer, AllRows
  <2> QED BY <2>1, <2>2, <2>3
<1>3. SourcesInv'
  BY <1>1 DEF MergeInv, SourcesInv, InStep, Placed, Left, Behind, InRange
<1>4. OutInv'
  BY <1>1 DEF MergeInv, OutInv, Out, AllRows, Newest, Left, Behind, InRange
<1>5. EndInv'
  <2>1. /\ AllRows' = AllRows /\ Out' = Out /\ Heap' = Heap /\ (Unlimited' <=> Unlimited)
        /\ \A ts : InRange(ts)' <=> InRange(ts)
        /\ \A k : Behind(k)' <=> Behind(k)
        /\ \A r : Live(r)' <=> Live(r)
    BY <1>1 DEF AllRows, Out, Heap, Unlimited, InRange, Behind, Left, Live
  <2> QED BY <1>1, <2>1 DEF MergeInv, EndInv
<1> QED BY <1>2, <1>3, <1>4, <1>5 DEF MergeInv

\* Throughout a scan, what has been merged, what lies in the cursors and what
\* the sources still have to deliver fit together (merge.rs 47-56, 190-291).
THEOREM MergeCorrect == Spec => []MergeInv
<1>1. MergeInv /\ [Next]_vars => MergeInv'
  BY BeginMerge, ExecuteMerge, StepMerge, HandOutMerge, EndMerge DEF Next
<1> QED BY InitMerge, <1>1, PTL DEF Spec

\* Whatever the sources hold and however they are pruned, a scan hands out no
\* row in range that has been overwritten or deleted: of the rows of a key the
\* heap has the newest on top, and the others are taken off with it (merge.rs
\* 47-56, 268-283), also when they come in different batches.
THEOREM LiveRowsOnly == Spec => []OnlyLiveRows
<1>1. MergeInv => OnlyLiveRows
  BY DEF MergeInv, OutInv, Out, OnlyLiveRows, Live, Newest, IsPut
<1> QED BY <1>1, MergeCorrect, PTL

\* A scan that ends has handed out every live row in range, or as many rows as
\* were asked for and never more: no row is lost at the end of a batch, of a
\* source or of an output batch (merge.rs 190-236, 283-291, stream.rs 119-153).
THEOREM NoLiveRowMissed == Spec => []NothingMissed
<1>1. MergeInv => NothingMissed
  <2> SUFFICES ASSUME MergeInv, phase = "done" PROVE NothingMissed
    BY DEF NothingMissed
  <2>1. limit # NoLimit => Len(result) <= limit
    BY DEF MergeInv, EndInv
  <2>2. ASSUME Unlimited, NEW r \in AllRows, Live(r), InRange(r.key.ts)
        PROVE  r \in RowsOf(result)
    <3>1. Heap = {} /\ buffered = <<>>
      BY <2>2 DEF MergeInv, EndInv
    <3>2. ASSUME NEW s \in Sources PROVE Left(s) = {}
      <4>1. cursor[s] = <<>> /\ batches[s] = <<>>
        BY <3>1 DEF MergeInv, SourcesInv, InStep, Heap
      <4> QED BY <4>1, NothingThere DEF Left
    <3>3. Behind(r.key)
      BY <3>2 DEF Behind
    <3>4. r \in Out
      BY <2>2, <3>3 DEF MergeInv, EndInv
    <3> QED BY <3>1, <3>4, NothingThere DEF Out
  <2> QED BY <2>1, <2>2 DEF NothingMissed, Unlimited
<1> QED BY <1>1, MergeCorrect, PTL

\* Rows come in the order of keys and none twice, from one output batch to the
\* next: compaction writes what the merge yields to an SST (sstable.rs 455).
THEOREM KeysInOrder == Spec => []OneRowPerKeyInOrder
<1>1. MergeInv => OneRowPerKeyInOrder
  <2> SUFFICES ASSUME MergeInv PROVE OneRowPerKeyInOrder
    OBVIOUS
  <2>1. /\ result \in Seq(Row) /\ buffered \in Seq(Row) /\ Sorted(result) /\ Sorted(buffered)
        /\ \A a \in RowsOf(result), b \in RowsOf(buffered) : Before(a.key, b.key)
    BY DEF MergeInv, ScanTypes, OutInv
  <2>2. Sorted(result \o buffered)
    BY <2>1, SortedConcat
  <2> QED BY <2>2 DEF OneRowPerKeyInOrder, Sorted
<1> QED BY <1>1, MergeCorrect, PTL
=============================================================================
