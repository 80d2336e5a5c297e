---------------------------- MODULE RowPath_proofs ----------------------------
(***************************************************************************)
(* Proofs about RowPath, and about the operators of RowCodec and SstTable  *)
(* it is made of.  What a recursive function computes is not proved by     *)
(* induction over sequences but from its least counterexample.             *)
(***************************************************************************)
EXTENDS Scan_proofs, RowPath

-----------------------------------------------------------------------------
(* Counting up: what holds at the start and passes from each number to the  *)
(* next holds up to the last.                                               *)

\* A set of numbers that has the first and with each the next has all of them.
LEMMA CountingUp ==
    ASSUME NEW m \in Int, NEW N \in Int, NEW I, m \in I,
           \A n \in m .. N - 1 : n \in I => n + 1 \in I
    PROVE  \A n \in m .. N : n \in I
<1> SUFFICES ASSUME NEW k \in m .. N, k \notin I PROVE FALSE
  OBVIOUS
<1> DEFINE J == {n \in m .. N : n \notin I}
<1>1. IsFiniteSet(J) /\ J \in SUBSET Int
  <2>1. IsFiniteSet(m .. N) /\ J \in SUBSET (m .. N)
    BY FS_Interval
  <2> QED BY <2>1, FS_Subset
<1>2. Cardinality(J) \in Nat /\ Cardinality(J) # 0
  <2>1. J # {} /\ Cardinality(J) \in Nat
    BY <1>1, FS_CardinalityType
  <2> QED BY <1>1, <2>1, FS_EmptySet
<1>3. PICK n \in J : \A j \in J : n <= j
  <2>1. /\ \A n \in 1 .. Cardinality(J) : Nth(J, n) \in J
        /\ \A n, k1 \in 1 .. Cardinality(J) : n < k1 => Nth(J, n) < Nth(J, k1)
        /\ \A i \in J : \E n \in 1 .. Cardinality(J) : Nth(J, n) = i
    BY <1>1, NthFacts
  <2> HIDE DEF J
  <2>2. 1 \in 1 .. Cardinality(J)
    BY <1>2
  <2>3. ASSUME NEW j \in J PROVE Nth(J, 1) <= j
    <3>1. PICK n \in 1 .. Cardinality(J) : Nth(J, n) = j
      BY <2>1
    <3>2. n = 1 \/ Nth(J, 1) < j
      BY <1>2, <2>1, <2>2, <3>1
    <3>3. Nth(J, 1) \in Int /\ j \in Int
      BY <1>1, <2>1, <2>2
    <3> QED BY <3>1, <3>2, <3>3
  <2> QED BY <2>1, <2>2, <2>3
<1>4. n \in m .. N /\ n \notin I /\ n # m
  OBVIOUS
<1>5. n - 1 \in m .. N - 1 /\ (n - 1) + 1 = n
  BY <1>4
<1>6. n - 1 \notin J
  BY <1>3, <1>4
<1>7. n - 1 \in I
  BY <1>5, <1>6
<1> QED BY <1>4, <1>5, <1>7

-----------------------------------------------------------------------------
(* FlattenSeq: where the elements of the parts are in the whole.            *)

FlatTo(seqs, n, f) == f = [i \in 1 .. n |-> IF i = 1 THEN seqs[i] ELSE f[i - 1] \o seqs[i]]
CanFlatten(seqs, n) == \E f : FlatTo(seqs, n, f)

\* The recursive function of FlattenSeq exists.
LEMMA FlatExists ==
    ASSUME NEW seqs, NEW N \in Nat
    PROVE  \E f : FlatTo(seqs, N, f)
<1> DEFINE I == {n \in 0 .. N : CanFlatten(seqs, n)}
<1>1. CanFlatten(seqs, 0)
  <2>1. FlatTo(seqs, 0, [i \in 1 .. 0 |-> seqs[i]])
    BY DEF FlatTo
  <2> QED BY <2>1 DEF CanFlatten
<1>2. ASSUME NEW n \in 0 .. N - 1, CanFlatten(seqs, n) PROVE CanFlatten(seqs, n + 1)
  <2>1. PICK g : FlatTo(seqs, n, g)
    BY <1>2 DEF CanFlatten
  <2> DEFINE h == [i \in 1 .. n + 1 |->
                    IF i = n + 1 THEN (IF n = 0 THEN seqs[1] ELSE g[n] \o seqs[n + 1]) ELSE g[i]]
  <2>2. ASSUME NEW i \in 1 .. n
        PROVE  h[i] = g[i] /\ g[i] = IF i = 1 THEN seqs[i] ELSE g[i - 1] \o seqs[i]
    <3>1. h[i] = g[i]
      OBVIOUS
    <3> HIDE DEF h
    <3>2. g[i] = IF i = 1 THEN seqs[i] ELSE g[i - 1] \o seqs[i]
      BY <2>1 DEF FlatTo
    <3> QED BY <3>1, <3>2
  <2>3. h[n + 1] = IF n = 0 THEN seqs[1] ELSE g[n] \o seqs[n + 1]
    OBVIOUS
  <2>4. h = [i \in 1 .. n + 1 |-> h[i]]
    OBVIOUS
  <2> HIDE DEF h
  <2>5. ASSUME NEW i \in 1 .. n + 1
        PROVE  h[i] = IF i = 1 THEN seqs[i] ELSE h[i - 1] \o seqs[i]
    <3>1. CASE i = n + 1 /\ n = 0
      BY <2>3, <3>1
    <3>2. CASE i = n + 1 /\ n # 0
      <4>1. n \in 1 .. n /\ i # 1 /\ i - 1 = n
        BY <3>2
      <4>2. h[i] = g[n] \o seqs[i] /\ h[n] = g[n]
        BY <2>2, <2>3, <3>2, <4>1
      <4> QED BY <4>1, <4>2
    <3>3. CASE i # n + 1
      <4>1. i \in 1 .. n /\ (i # 1 => i - 1 \in 1 .. n)
        BY <3>3
      <4> QED BY <2>2, <4>1
    <3> QED BY <3>1, <3>2, <3>3
  <2>6. FlatTo(seqs, n + 1, h)
    BY <2>4, <2>5 DEF FlatTo
  <2> QED BY <2>6 DEF CanFlatten
<1>3. 0 \in I /\ \A n \in 0 .. N - 1 : n \in I => n + 1 \in I
  BY <1>1, <1>2
<1> HIDE DEF I
<1>4. N \in I
  BY <1>3, CountingUp
<1> QED BY <1>4 DEF I, CanFlatten

LEMMA FlatFunction ==
    ASSUME NEW seqs, Len(seqs) \in Nat, Len(seqs) # 0
    PROVE  \E f : FlatTo(seqs, Len(seqs), f) /\ FlattenSeq(seqs) = f[Len(seqs)]
<1> DEFINE f == CHOOSE g : FlatTo(seqs, Len(seqs), g)
<1>1. FlattenSeq(seqs) = f[Len(seqs)]
  BY DEF FlattenSeq, FlatTo
<1>2. FlatTo(seqs, Len(seqs), f)
  BY FlatExists
<1> QED BY <1>1, <1>2

\* Where the parts begin in the whole.
Lens(seqs) == [i \in DOMAIN seqs |-> Len(seqs[i])]
IsOffset(lens, off) ==
    /\ off \in [0 .. Len(lens) -> Nat] /\ off[0] = 0
    /\ \A i \in 1 .. Len(lens) : off[i] = off[i - 1] + lens[i]
Offset(lens) == CHOOSE off : IsOffset(lens, off)
Sum(lens) == Offset(lens)[Len(lens)]

LEMMA Joined ==
    ASSUME NEW S, NEW s \in Seq(S), NEW t \in Seq(S)
    PROVE  /\ s \o t \in Seq(S) /\ Len(s) \in Nat /\ Len(t) \in Nat /\ Len(s \o t) = Len(s) + Len(t)
           /\ \A i \in 1 .. Len(s) : (s \o t)[i] = s[i]
           /\ \A j \in 1 .. Len(t) : (s \o t)[Len(s) + j] = t[j]
<1>1. Len(s) \in Nat /\ Len(t) \in Nat
  OBVIOUS
<1>2. s \o t \in Seq(S) /\ Len(s \o t) = Len(s) + Len(t)
  BY ConcatProperties
<1>3. \A i \in 1 .. Len(s) + Len(t) : (s \o t)[i] = IF i <= Len(s) THEN s[i] ELSE t[i - Len(s)]
  BY ConcatProperties
<1>4. ASSUME NEW i \in 1 .. Len(s) PROVE (s \o t)[i] = s[i]
  <2>1. i \in 1 .. Len(s) + Len(t) /\ i <= Len(s)
    BY <1>1
  <2> QED BY <1>3, <2>1
<1>5. ASSUME NEW j \in 1 .. Len(t) PROVE (s \o t)[Len(s) + j] = t[j]
  <2>1. Len(s) + j \in 1 .. Len(s) + Len(t) /\ ~(Len(s) + j <= Len(s)) /\ (Len(s) + j) - Len(s) = j
    BY <1>1
  <2> QED BY <1>3, <2>1
<1> QED BY <1>1, <1>2, <1>4, <1>5

LEMMA FlatPrefixes ==
    ASSUME NEW S, NEW seqs \in Seq(Seq(S)), NEW f, FlatTo(seqs, Len(seqs), f)
    PROVE  /\ \A k \in 1 .. Len(seqs) : f[k] \in Seq(S)
           /\ \A i, k \in 1 .. Len(seqs) : i <= k =>
                /\ Len(f[i]) <= Len(f[k])
                /\ \A p \in 1 .. Len(f[i]) : f[k][p] = f[i][p]
<1> DEFINE N == Len(seqs)
<1>0. N \in Nat /\ \A k \in 1 .. N : seqs[k] \in Seq(S)
  OBVIOUS
<1>1. \A k \in 1 .. N : f[k] = IF k = 1 THEN seqs[k] ELSE f[k - 1] \o seqs[k]
  BY Zenon DEF FlatTo
<1> DEFINE K == {k \in 1 .. N : f[k] \in Seq(S)}
<1> HIDE DEF N
<1>2. ASSUME 1 <= N PROVE \A k \in 1 .. N : k \in K
  <2>1. 1 \in K
    BY <1>0, <1>1, <1>2
  <2>2. ASSUME NEW n \in 1 .. N - 1, n \in K PROVE n + 1 \in K
    <3>1. n + 1 \in 1 .. N /\ n + 1 # 1 /\ (n + 1) - 1 = n
      BY <1>0
    <3>2. f[n + 1] = f[n] \o seqs[n + 1]
      BY <1>1, <3>1
    <3>3. f[n + 1] \in Seq(S)
      BY <1>0, <2>2, <3>1, <3>2
    <3> QED BY <3>1, <3>3
  <2>3. /\ 1 \in Int /\ N \in Int /\ 1 \in K
        /\ \A n \in 1 .. N - 1 : n \in K => n + 1 \in K
    BY <1>0, <2>1, <2>2
  <2> HIDE DEF K
  <2> QED BY <2>3, CountingUp
<1>3. \A k \in 1 .. N : f[k] \in Seq(S)
  BY <1>0, <1>2
<1>4. ASSUME NEW n \in 1 .. N - 1
      PROVE  /\ n \in 1 .. N /\ n + 1 \in 1 .. N /\ Len(f[n]) \in Nat /\ Len(f[n + 1]) \in Nat
             /\ Len(f[n]) <= Len(f[n + 1])
             /\ \A p \in 1 .. Len(f[n]) : f[n + 1][p] = f[n][p]
  <2>1. n \in 1 .. N /\ n + 1 \in 1 .. N /\ n + 1 # 1 /\ (n + 1) - 1 = n
    BY <1>0
  <2>2. f[n + 1] = f[n] \o seqs[n + 1]
    BY <1>1, <2>1
  <2>3. f[n] \in Seq(S) /\ seqs[n + 1] \in Seq(S) /\ f[n + 1] \in Seq(S)
    BY <1>0, <1>3, <2>1
  <2>4. PICK a \in Seq(S), b \in Seq(S) : a = f[n] /\ b = seqs[n + 1]
    BY <2>3
  <2>5. /\ Len(a) \in Nat /\ Len(b) \in Nat /\ Len(a \o b) = Len(a) + Len(b)
        /\ \A p \in 1 .. Len(a) : (a \o b)[p] = a[p]
    BY Joined
  <2>6. f[n + 1] = a \o b /\ f[n] = a
    BY <2>2, <2>4
  <2>7. Len(a) <= Len(a \o b) /\ Len(a \o b) \in Nat
    BY <2>5
  <2> QED BY <2>1, <2>5, <2>6, <2>7
<1>5. ASSUME NEW i \in 1 .. N, NEW k \in 1 .. N, i <= k
      PROVE  Len(f[i]) <= Len(f[k]) /\ \A p \in 1 .. Len(f[i]) : f[k][p] = f[i][p]
  <2> DEFINE M == {m \in i .. N : /\ Len(f[i]) <= Len(f[m])
                                  /\ \A p \in 1 .. Len(f[i]) : f[m][p] = f[i][p]}
  <2>1. i \in M
    <3>1. Len(f[i]) \in Nat
      BY <1>3
    <3> QED BY <1>0, <3>1
  <2>2. ASSUME NEW n \in i .. N - 1, n \in M PROVE n + 1 \in M
    <3>1. n \in 1 .. N - 1
      BY <1>0
    <3>2. Len(f[i]) \in Nat
      BY <1>3
    <3> QED BY <1>0, <1>4, <2>2, <3>1, <3>2
  <2>3. /\ i \in Int /\ N \in Int /\ i \in M
        /\ \A n \in i .. N - 1 : n \in M => n + 1 \in M
    BY <1>0, <2>1, <2>2
  <2> HIDE DEF M
  <2>5. \A m \in i .. N : m \in M
    BY <2>3, CountingUp
  <2>4. k \in M
    BY <1>0, <1>5, <2>5
  <2> QED BY <2>4 DEF M
<1> QED BY <1>3, <1>5 DEF N

LEMMA FlatFacts ==
    ASSUME NEW S, NEW seqs \in Seq(Seq(S))
    PROVE  /\ FlattenSeq(seqs) \in Seq(S)
           /\ IsOffset(Lens(seqs), Offset(Lens(seqs)))
           /\ Len(Lens(seqs)) = Len(seqs)
           /\ Len(FlattenSeq(seqs)) = Sum(Lens(seqs))
           /\ \A i \in 1 .. Len(seqs) : \A j \in 1 .. Len(seqs[i]) :
                FlattenSeq(seqs)[Offset(Lens(seqs))[i - 1] + j] = seqs[i][j]
<1> DEFINE N == Len(seqs)
<1>0. N \in Nat /\ DOMAIN seqs = 1 .. N /\ \A k \in 1 .. N : seqs[k] \in Seq(S) /\ Len(seqs[k]) \in Nat
  OBVIOUS
<1>1. /\ Lens(seqs) \in Seq(Nat) /\ Len(Lens(seqs)) = N
      /\ \A k \in 1 .. N : Lens(seqs)[k] = Len(seqs[k])
  BY <1>0 DEF Lens
<1>2. CASE N = 0
  <2>1. FlattenSeq(seqs) = seqs /\ seqs = <<>>
    BY <1>2 DEF FlattenSeq
  <2>2. IsOffset(Lens(seqs), [k \in 0 .. 0 |-> 0])
    BY <1>1, <1>2 DEF IsOffset
  <2>3. IsOffset(Lens(seqs), Offset(Lens(seqs)))
    BY <2>2 DEF Offset
  <2>4. Sum(Lens(seqs)) = 0
    BY <1>1, <1>2, <2>3 DEF Sum, IsOffset
  <2> QED BY <1>1, <1>2, <2>1, <2>3, <2>4
<1>3. CASE N # 0
  <2>1. PICK f : FlatTo(seqs, N, f) /\ FlattenSeq(seqs) = f[N]
    BY <1>0, <1>3, FlatFunction
  <2>2. \A k \in 1 .. N : f[k] = IF k = 1 THEN seqs[k] ELSE f[k - 1] \o seqs[k]
    BY <2>1, Zenon DEF FlatTo
  <2>3. /\ \A k \in 1 .. N : f[k] \in Seq(S)
        /\ \A i, k \in 1 .. N : i <= k =>
                /\ Len(f[i]) <= Len(f[k])
                /\ \A p \in 1 .. Len(f[i]) : f[k][p] = f[i][p]
    BY <2>1, FlatPrefixes
  <2> DEFINE off == [k \in 0 .. N |-> IF k = 0 THEN 0 ELSE Len(f[k])]
  <2> HIDE DEF N
  <2>4. ASSUME NEW i \in 1 .. N
        PROVE  /\ off[i] = off[i - 1] + Len(seqs[i]) /\ off[i] = Len(f[i]) /\ off[i - 1] \in Nat
               /\ \A j \in 1 .. Len(seqs[i]) :
                    off[i - 1] + j \in 1 .. Len(f[i]) /\ f[i][off[i - 1] + j] = seqs[i][j]
    <3>1. off[i] = Len(f[i]) /\ i - 1 \in 0 .. N
      BY <1>0
    <3>2. CASE i = 1
      <4>1. f[i] = seqs[i] /\ off[i - 1] = 0
        BY <1>0, <2>2, <3>2
      <4> QED BY <1>0, <3>1, <4>1
    <3>3. CASE i # 1
      <4>0. i - 1 \in 1 .. N /\ i - 1 \in 0 .. N /\ i - 1 # 0
        BY <1>0, <3>3
      <4>1. f[i] = f[i - 1] \o seqs[i] /\ off[i - 1] = Len(f[i - 1]) /\ i - 1 \in 1 .. N
        BY <2>2, <3>3, <4>0
      <4>2. f[i - 1] \in Seq(S) /\ seqs[i] \in Seq(S)
        BY <1>0, <2>3, <4>1
      <4>3. PICK a \in Seq(S), b \in Seq(S) : a = f[i - 1] /\ b = seqs[i]
        BY <4>2
      <4>4. /\ Len(a) \in Nat /\ Len(b) \in Nat /\ Len(a \o b) = Len(a) + Len(b)
            /\ \A j \in 1 .. Len(b) : (a \o b)[Len(a) + j] = b[j]
        BY Joined
      <4>5. f[i] = a \o b /\ off[i - 1] = Len(a) /\ seqs[i] = b
        BY <4>1, <4>3
      <4> HIDE DEF off
      <4>6. \A j \in 1 .. Len(b) : Len(a) + j \in 1 .. Len(a) + Len(b)
        BY <4>4
      <4> QED BY <3>1, <4>4, <4>5, <4>6
    <3> QED BY <3>2, <3>3
  <2>5. off \in [0 .. N -> Nat] /\ off[0] = 0
    BY <1>0, <2>3
  <2> HIDE DEF off
  <2>6. IsOffset(Lens(seqs), off)
    BY <1>0, <1>1, <2>4, <2>5 DEF IsOffset
  <2>7. IsOffset(Lens(seqs), Offset(Lens(seqs)))
    BY <2>6 DEF Offset
  <2> DEFINE O == Offset(Lens(seqs))
             E == {k \in 0 .. N : O[k] = off[k]}
  <2>8. \A k \in 0 .. N : k \in E
    <3>0. /\ \A k \in 1 .. N : O[k] = O[k - 1] + Len(seqs[k]) 
          /\ O[0] = 0
      BY <1>1, <2>7 DEF IsOffset
    <3> HIDE DEF O
    <3>1. 0 \in E
      BY <1>0, <2>5, <3>0
    <3>2. ASSUME NEW n \in 0 .. N - 1, n \in E PROVE n + 1 \in E
      <4>1. n + 1 \in 1 .. N /\ (n + 1) - 1 = n /\ O[n] = off[n]
        BY <1>0, <3>2
      <4>2. off[n + 1] = off[n] + Len(seqs[n + 1]) /\ O[n + 1] = O[n] + Len(seqs[n + 1])
        BY <2>4, <3>0, <4>1
      <4> QED BY <4>1, <4>2
    <3>3. /\ 0 \in Int /\ N \in Int /\ 0 \in E
          /\ \A n \in 0 .. N - 1 : n \in E => n + 1 \in E
      BY <1>0, <3>1, <3>2
    <3> HIDE DEF E
    <3> QED BY <3>3, CountingUp
  <2>9. \A k \in 0 .. N : O[k] = off[k]
    BY <2>8
  <2> HIDE DEF O, E
  <2>10. N \in 1 .. N
    BY <1>0, <1>3
  <2>11. Len(FlattenSeq(seqs)) = O[N]
    <3>1. Len(f[N]) = off[N] /\ O[N] = off[N]
      BY <1>0, <2>4, <2>9, <2>10
    <3> QED BY <2>1, <3>1
  <2>12. ASSUME NEW i \in 1 .. N, NEW j \in 1 .. Len(seqs[i])
         PROVE  FlattenSeq(seqs)[O[i - 1] + j] = seqs[i][j]
    <3>1. O[i - 1] = off[i - 1]
      BY <1>0, <2>9
    <3>2. off[i - 1] + j \in 1 .. Len(f[i]) /\ f[i][off[i - 1] + j] = seqs[i][j]
      BY <2>4
    <3>3. f[N][off[i - 1] + j] = f[i][off[i - 1] + j]
      BY <1>0, <2>3, <2>10, <3>2
    <3> QED BY <2>1, <3>1, <3>2, <3>3
  <2>13. FlattenSeq(seqs) \in Seq(S)
    BY <2>1, <2>3, <2>10
  <2> QED BY <1>1, <2>7, <2>11, <2>12, <2>13 DEF Sum, O, N
<1> QED BY <1>2, <1>3

\* The parts fill the whole, each after the other.
LEMMA OffsetFacts ==
    ASSUME NEW lens \in Seq(Nat), NEW off, IsOffset(lens, off)
    PROVE  /\ \A i, k \in 0 .. Len(lens) : i <= k => off[i] <= off[k]
           /\ \A p \in 1 .. off[Len(lens)] :
                \E i \in 1 .. Len(lens) : \E j \in 1 .. lens[i] : p = off[i - 1] + j
<1> DEFINE N == Len(lens)
<1>0. N \in Nat /\ \A k \in 1 .. N : lens[k] \in Nat
  OBVIOUS
<1>1. /\ N \in Nat /\ \A k \in 1 .. N : lens[k] \in Nat
      /\ \A k \in 0 .. N : off[k] \in Nat
      /\ off[0] = 0
      /\ \A i \in 1 .. N : off[i] = off[i - 1] + lens[i]
  <2>1. off \in [0 .. N -> Nat]
    BY DEF IsOffset
  <2>2. \A k \in 0 .. N : off[k] \in Nat
    BY <2>1
  <2>3. off[0] = 0 /\ \A i \in 1 .. N : off[i] = off[i - 1] + lens[i]
    BY DEF IsOffset
  <2> QED BY <1>0, <2>2, <2>3
<1> HIDE DEF N
<1>2. ASSUME NEW i \in 0 .. N, NEW k \in 0 .. N, i <= k PROVE off[i] <= off[k]
  <2> DEFINE M == {m \in i .. N : off[i] <= off[m]}
  <2>1. i \in M
    BY <1>1
  <2>2. ASSUME NEW n \in i .. N - 1, n \in M PROVE n + 1 \in M
    <3>1. n + 1 \in 1 .. N /\ (n + 1) - 1 = n /\ n \in 0 .. N /\ n + 1 \in i .. N
      BY <1>1
    <3>2. off[n + 1] = off[n] + lens[n + 1] /\ lens[n + 1] \in Nat /\ off[n] \in Nat
      BY <1>1, <3>1
    <3>3. off[i] <= off[n + 1]
      <4>1. off[i] <= off[n] /\ off[i] \in Nat
        BY <1>1, <2>2
      <4> QED BY <3>2, <4>1
    <3> QED BY <3>1, <3>3
  <2>3. /\ i \in Int /\ N \in Int /\ i \in M
        /\ \A n \in i .. N - 1 : n \in M => n + 1 \in M
    BY <1>1, <2>1, <2>2
  <2> HIDE DEF M
  <2>5. \A m \in i .. N : m \in M
    BY <2>3, CountingUp
  <2>4. k \in M
    BY <1>1, <1>2, <2>5
  <2> QED BY <2>4 DEF M
<1>3. ASSUME NEW p \in 1 .. off[N]
      PROVE  \E i \in 1 .. N : \E j \in 1 .. lens[i] : p = off[i - 1] + j
  <2> DEFINE M == {m \in 0 .. N : p <= off[m] =>
                        \E i \in 1 .. N : \E j \in 1 .. lens[i] : p = off[i - 1] + j}
  <2>0. p \in Nat /\ p >= 1
    OBVIOUS
  <2>1. 0 \in M
    BY <1>1, <2>0
  <2>2. ASSUME NEW n \in 0 .. N - 1, n \in M PROVE n + 1 \in M
    <3>1. n + 1 \in 1 .. N /\ (n + 1) - 1 = n /\ n \in 0 .. N /\ n + 1 \in 0 .. N
      BY <1>1
    <3>2. off[n + 1] = off[n] + lens[n + 1] /\ lens[n + 1] \in Nat /\ off[n] \in Nat
      BY <1>1, <3>1
    <3>3. CASE p <= off[n]
      BY <2>2, <3>1, <3>3
    <3>4. CASE ~(p <= off[n]) /\ p <= off[n + 1]
      <4>1. p - off[n] \in 1 .. lens[n + 1] /\ p = off[(n + 1) - 1] + (p - off[n])
        BY <2>0, <3>1, <3>2, <3>4
      <4>2. \E i \in 1 .. N : \E j \in 1 .. lens[i] : p = off[i - 1] + j
        BY <3>1, <4>1
      <4> QED BY <3>1, <4>2
    <3>5. CASE ~(p <= off[n + 1])
      BY <3>1, <3>5
    <3> QED BY <3>3, <3>4, <3>5
  <2>3. /\ 0 \in Int /\ N \in Int /\ 0 \in M /\ N \in 0 .. N
        /\ \A n \in 0 .. N - 1 : n \in M => n + 1 \in M
    BY <1>1, <2>1, <2>2
  <2> HIDE DEF M
  <2>5. N \in M
    BY <2>3, CountingUp
  <2>4. N \in M /\ p <= off[N]
    BY <1>1, <2>5
  <2> QED BY <2>4 DEF M
<1> QED BY <1>2, <1>3 DEF N

-----------------------------------------------------------------------------
(* The log: a frame read again is what was written into it.                *)

\* Operations as they are written.
Operations ==
    [key : [tags : Seq(Nat), ts : Int], seq : Nat, value : {None} \cup {Some(v) : v \in Seq(Nat)}]
Encoded(o) == <<KindOf(o)>> \o EncodeKv(o)
ShortTags(o) == Len(o.key.tags) < TagLimit

LEMMA ModSmall ==
    ASSUME NEW n \in Nat, NEW T \in Nat, T > 0, n < T
    PROVE  n % T = n
  OBVIOUS

LEMMA ModInt ==
    ASSUME NEW n \in Nat, NEW T \in Nat \ {0}
    PROVE  n % T \in Int
  OBVIOUS

LEMMA SubSeqIs ==
    ASSUME NEW S, NEW d \in Seq(S), NEW a \in Int, NEW t \in Seq(S), a >= 0, a + Len(t) <= Len(d),
           \A j \in 1 .. Len(t) : d[a + j] = t[j]
    PROVE  SubSeq(d, a + 1, a + Len(t)) = t
<1> DEFINE u == SubSeq(d, a + 1, a + Len(t))
<1>1. Len(t) \in Nat /\ Len(d) \in Nat /\ a + 1 \in Int /\ a + Len(t) \in Int
  OBVIOUS
<1>2. \A i \in a + 1 .. a + Len(t) : d[i] \in S
  <2>1. \A i \in a + 1 .. a + Len(t) : i \in 1 .. Len(d)
    BY <1>1
  <2> QED BY <2>1
<1>3. /\ u \in Seq(S)
      /\ Len(u) = IF a + 1 <= a + Len(t) THEN (a + Len(t)) - (a + 1) + 1 ELSE 0
      /\ \A i \in 1 .. (a + Len(t)) - (a + 1) + 1 : u[i] = d[(a + 1) + i - 1]
  BY <1>1, <1>2, SubSeqProperties
<1>4. Len(u) = Len(t)
  BY <1>1, <1>3
<1>5. ASSUME NEW i \in 1 .. Len(t) PROVE u[i] = t[i]
  <2>1. i \in 1 .. (a + Len(t)) - (a + 1) + 1 /\ (a + 1) + i - 1 = a + i
    BY <1>1
  <2> QED BY <1>3, <2>1
<1> HIDE DEF u
<1>6. u = t
  BY <1>3, <1>4, <1>5, SeqEqual
<1> QED BY <1>6 DEF u

\* Where the parts of an operation are in its bytes.
LEMMA EncodedFacts ==
    ASSUME NEW o \in Operations
    PROVE  LET e == Encoded(o)
               L == Len(o.key.tags)
           IN  /\ e \in Seq(Int) /\ L \in Nat
               /\ e[1] = KindOf(o) /\ e[2] = L % TagLimit
               /\ \A j \in 1 .. L : e[2 + j] = o.key.tags[j]
               /\ e[3 + L] = o.key.ts /\ e[4 + L] = o.seq
               /\ o.value = None => Len(e) = 4 + L
               /\ o.value # None =>
                    /\ o.value[1] \in Seq(Nat) /\ o.value = Some(o.value[1])
                    /\ Len(e) = 5 + L + Len(o.value[1])
                    /\ e[5 + L] = Len(o.value[1])
                    /\ \A j \in 1 .. Len(o.value[1]) : e[5 + L + j] = o.value[1][j]
<1> DEFINE L == Len(o.key.tags)
<1>1. /\ o.key.tags \in Seq(Nat) /\ o.key.ts \in Int /\ o.seq \in Nat /\ L \in Nat
      /\ o.value = None \/ \E v \in Seq(Nat) : o.value = Some(v)
  BY DEF Operations
<1>2. PICK z \in Int : z = L % TagLimit
  <2>1. L % TagLimit \in Int
    BY <1>1, TagLimitAssumption, ModInt
  <2> QED BY <2>1
<1>3. PICK t \in Seq(Int), k \in Int, ts \in Int, n \in Int :
        t = o.key.tags /\ k = KindOf(o) /\ ts = o.key.ts /\ n = o.seq
  <2>1. KindOf(o) \in Int /\ o.seq \in Int
    BY <1>1 DEF KindOf
  <2>2. o.key.tags \in Seq(Int)
    BY <1>1
  <2> QED BY <1>1, <2>1, <2>2
<1>4. L = Len(t) /\ Len(t) \in Nat
  BY <1>1, <1>3
<1>5. o.value # None => \E v \in Seq(Nat) : o.value = Some(v) /\ v = o.value[1] /\ v \in Seq(Int)
  BY <1>1 DEF Some
<1>6. PICK w \in Seq(Int) :
        /\ w = IF o.value = None THEN <<>> ELSE <<Len(o.value[1])>> \o o.value[1]
        /\ o.value = None => Len(w) = 0
        /\ o.value # None =>
             /\ Len(o.value[1]) \in Nat /\ Len(w) = 1 + Len(o.value[1]) /\ w[1] = Len(o.value[1])
             /\ \A j \in 1 .. Len(o.value[1]) : w[1 + j] = o.value[1][j]
  <2>1. CASE o.value = None
    <3>1. <<>> \in Seq(Int) /\ Len(<<>>) = 0
      OBVIOUS
    <3> QED BY <2>1, <3>1
  <2>2. CASE o.value # None
    <3>1. PICK v \in Seq(Int) : v = o.value[1]
      BY <1>5, <2>2
    <3>2. <<Len(v)>> \in Seq(Int) /\ Len(<<Len(v)>>) = 1 /\ <<Len(v)>>[1] = Len(v) /\ Len(v) \in Nat
      OBVIOUS
    <3>3. /\ <<Len(v)>> \o v \in Seq(Int) /\ Len(<<Len(v)>> \o v) = 1 + Len(v)
          /\ (<<Len(v)>> \o v)[1] = Len(v)
          /\ \A j \in 1 .. Len(v) : (<<Len(v)>> \o v)[1 + j] = v[j]
      BY <3>2, Joined
    <3> QED BY <2>2, <3>1, <3>2, <3>3
  <2> QED BY <2>1, <2>2
<1>7. PICK c \in Seq(Int) :
        /\ c = <<z>> \o t /\ Len(c) = 1 + Len(t) /\ c[1] = z
        /\ \A j \in 1 .. Len(t) : c[1 + j] = t[j]
  <2>1. <<z>> \in Seq(Int) /\ Len(<<z>>) = 1 /\ <<z>>[1] = z
    OBVIOUS
  <2>2. /\ <<z>> \o t \in Seq(Int) /\ Len(<<z>> \o t) = 1 + Len(t)
        /\ (<<z>> \o t)[1] = z
        /\ \A j \in 1 .. Len(t) : (<<z>> \o t)[1 + j] = t[j]
    BY <2>1, Joined
  <2> QED BY <2>2
<1>8. PICK b \in Seq(Int) :
        /\ b = c \o <<ts, n>> /\ Len(b) = 3 + Len(t) /\ b[1] = z
        /\ \A j \in 1 .. Len(t) : b[1 + j] = t[j]
        /\ b[2 + Len(t)] = ts /\ b[3 + Len(t)] = n
  <2>1. PICK x \in Seq(Int) : x = <<ts, n>> /\ Len(x) = 2 /\ x[1] = ts /\ x[2] = n
    <3>1. <<ts, n>> \in Seq(Int) /\ Len(<<ts, n>>) = 2 /\ <<ts, n>>[1] = ts /\ <<ts, n>>[2] = n
      OBVIOUS
    <3> QED BY <3>1
  <2>2. /\ c \o x \in Seq(Int) /\ Len(c \o x) = Len(c) + 2
        /\ \A i \in 1 .. Len(c) : (c \o x)[i] = c[i]
        /\ \A j \in 1 .. 2 : (c \o x)[Len(c) + j] = x[j]
    BY <2>1, Joined
  <2>3. PICK y : y = c \o x
    OBVIOUS
  <2>4. 1 \in 1 .. Len(c) /\ \A j \in 1 .. Len(t) : 1 + j \in 1 .. Len(c)
    BY <1>4, <1>7
  <2>5. y[Len(c) + 1] = ts /\ y[Len(c) + 2] = n
    BY <2>1, <2>2, <2>3
  <2>6. Len(c) + 1 = 2 + Len(t) /\ Len(c) + 2 = 3 + Len(t)
    BY <1>4, <1>7
  <2>7. y[1] = z /\ \A j \in 1 .. Len(t) : y[1 + j] = t[j]
    BY <1>7, <2>2, <2>3, <2>4
  <2>8. y \in Seq(Int) /\ Len(y) = 3 + Len(t) /\ y = c \o <<ts, n>>
    BY <2>1, <2>2, <2>3, <2>6
  <2> QED BY <2>5, <2>6, <2>7, <2>8
<1>9. PICK d \in Seq(Int) :
        /\ d = b \o w /\ Len(d) = 3 + Len(t) + Len(w)
        /\ \A i \in 1 .. 3 + Len(t) : d[i] = b[i]
        /\ \A j \in 1 .. Len(w) : d[3 + Len(t) + j] = w[j]
  <2>1. /\ b \o w \in Seq(Int) /\ Len(b \o w) = Len(b) + Len(w)
        /\ \A i \in 1 .. Len(b) : (b \o w)[i] = b[i]
        /\ \A j \in 1 .. Len(w) : (b \o w)[Len(b) + j] = w[j]
    BY Joined
  <2>2. PICK d \in Seq(Int) : d = b \o w
    BY <2>1
  <2>3. Len(b) = 3 + Len(t)
    BY <1>8
  <2>4. d \in Seq(Int) /\ Len(d) = 3 + Len(t) + Len(w)
    BY <2>1, <2>2, <2>3
  <2> QED BY <2>1, <2>2, <2>3, <2>4
<1>10. PICK e \in Seq(Int) :
        /\ e = <<k>> \o d /\ Len(e) = 1 + Len(d) /\ e[1] = k
        /\ \A i \in 1 .. Len(d) : e[1 + i] = d[i]
  <2>1. <<k>> \in Seq(Int) /\ Len(<<k>>) = 1 /\ <<k>>[1] = k
    OBVIOUS
  <2>2. /\ <<k>> \o d \in Seq(Int) /\ Len(<<k>> \o d) = 1 + Len(d)
        /\ (<<k>> \o d)[1] = k
        /\ \A i \in 1 .. Len(d) : (<<k>> \o d)[1 + i] = d[i]
    BY <2>1, Joined
  <2> QED BY <2>2
<1>11. e = Encoded(o)
  BY <1>2, <1>3, <1>6, <1>7, <1>8, <1>9, <1>10 DEF Encoded, EncodeKv
<1>12. Len(w) \in Nat
  OBVIOUS
<1>13. ASSUME NEW i \in 1 .. 3 + Len(t) PROVE e[1 + i] = b[i]
  <2>1. i \in 1 .. Len(d)
    BY <1>4, <1>9, <1>12
  <2> QED BY <1>9, <1>10, <2>1
<1>14. ASSUME NEW j \in 1 .. Len(w) PROVE e[4 + Len(t) + j] = w[j]
  <2>1. 3 + Len(t) + j \in 1 .. Len(d) /\ 1 + (3 + Len(t) + j) = 4 + Len(t) + j
    BY <1>4, <1>9, <1>12
  <2> QED BY <1>9, <1>10, <2>1
<1>15. /\ e[2] = z /\ \A j \in 1 .. Len(t) : e[2 + j] = t[j]
       /\ e[3 + Len(t)] = ts /\ e[4 + Len(t)] = n
  <2>1. /\ 1 \in 1 .. 3 + Len(t) /\ 1 + 1 = 2
        /\ 2 + Len(t) \in 1 .. 3 + Len(t) /\ 1 + (2 + Len(t)) = 3 + Len(t)
        /\ 3 + Len(t) \in 1 .. 3 + Len(t) /\ 1 + (3 + Len(t)) = 4 + Len(t)
    BY <1>4
  <2>2. ASSUME NEW j \in 1 .. Len(t) PROVE e[2 + j] = t[j]
    <3>1. 1 + j \in 1 .. 3 + Len(t) /\ 1 + (1 + j) = 2 + j
      BY <1>4
    <3> QED BY <1>8, <1>13, <3>1
  <2>3. e[2] = b[1] /\ e[3 + Len(t)] = b[2 + Len(t)] /\ e[4 + Len(t)] = b[3 + Len(t)]
    <3>1. e[1 + 1] = b[1]
      BY <1>13, <2>1
    <3>2. e[1 + (2 + Len(t))] = b[2 + Len(t)]
      BY <1>13, <2>1
    <3>3. e[1 + (3 + Len(t))] = b[3 + Len(t)]
      BY <1>13, <2>1
    <3> QED BY <2>1, <3>1, <3>2, <3>3
  <2> QED BY <1>8, <2>2, <2>3
<1>16. Len(e) = 4 + Len(t) + Len(w)
  BY <1>4, <1>9, <1>10, <1>12
<1>17. CASE o.value = None
  <2>1. Len(e) = 4 + Len(t)
    BY <1>4, <1>6, <1>16, <1>17
  <2> QED BY <1>1, <1>2, <1>3, <1>4, <1>10, <1>11, <1>15, <1>17, <2>1
<1>18. CASE o.value # None
  <2>1. PICK v \in Seq(Nat) : o.value = Some(v) /\ v = o.value[1]
    BY <1>5, <1>18
  <2>2. Len(v) \in Nat /\ Len(w) = 1 + Len(v) /\ w[1] = Len(v) /\ \A j \in 1 .. Len(v) : w[1 + j] = v[j]
    BY <1>6, <1>18, <2>1
  <2>3. Len(e) = 5 + Len(t) + Len(v)
    BY <1>4, <1>16, <2>2
  <2>4. e[5 + Len(t)] = Len(v)
    <3>1. 1 \in 1 .. Len(w) /\ 4 + Len(t) + 1 = 5 + Len(t)
      BY <1>4, <2>2
    <3> QED BY <1>14, <2>2, <3>1
  <2>5. ASSUME NEW j \in 1 .. Len(v) PROVE e[5 + Len(t) + j] = v[j]
    <3>1. 1 + j \in 1 .. Len(w) /\ 4 + Len(t) + (1 + j) = 5 + Len(t) + j
      BY <1>4, <2>2
    <3> QED BY <1>14, <2>2, <3>1
  <2> QED BY <1>1, <1>2, <1>3, <1>4, <1>10, <1>11, <1>15, <1>18, <2>1, <2>3, <2>4, <2>5
<1> QED BY <1>17, <1>18

LEMMA ReadsBack ==
    ASSUME NEW o \in Operations, ShortTags(o), NEW d \in Seq(Int), NEW p \in Nat \ {0},
           p - 1 + Len(Encoded(o)) <= Len(d),
           \A j \in 1 .. Len(Encoded(o)) : d[p - 1 + j] = Encoded(o)[j]
    PROVE  ReadOp(d, p) = Some([op |-> o, next |-> p + Len(Encoded(o))])
<1> DEFINE e == Encoded(o)
           L == Len(o.key.tags)
<1>1. /\ e \in Seq(Int) /\ L \in Nat
      /\ e[1] = KindOf(o) /\ e[2] = L
      /\ \A j \in 1 .. L : e[2 + j] = o.key.tags[j]
      /\ e[3 + L] = o.key.ts /\ e[4 + L] = o.seq
      /\ o.value = None => Len(e) = 4 + L
      /\ o.value # None =>
           /\ o.value[1] \in Seq(Nat) /\ o.value = Some(o.value[1])
           /\ Len(e) = 5 + L + Len(o.value[1])
           /\ e[5 + L] = Len(o.value[1])
           /\ \A j \in 1 .. Len(o.value[1]) : e[5 + L + j] = o.value[1][j]
  <2>1. /\ e \in Seq(Int) /\ L \in Nat
        /\ e[1] = KindOf(o) /\ e[2] = L % TagLimit
        /\ \A j \in 1 .. L : e[2 + j] = o.key.tags[j]
        /\ e[3 + L] = o.key.ts /\ e[4 + L] = o.seq
        /\ o.value = None => Len(e) = 4 + L
        /\ o.value # None =>
             /\ o.value[1] \in Seq(Nat) /\ o.value = Some(o.value[1])
             /\ Len(e) = 5 + L + Len(o.value[1])
             /\ e[5 + L] = Len(o.value[1])
             /\ \A j \in 1 .. Len(o.value[1]) : e[5 + L + j] = o.value[1][j]
    BY EncodedFacts, Zenon
  <2>2. L % TagLimit = L
    <3>0. L \in Nat /\ L < TagLimit /\ TagLimit \in Nat
      <4>1. L \in Nat
        BY <2>1
      <4>2. L < TagLimit
        BY DEF ShortTags
      <4>3. TagLimit \in Nat
        BY TagLimitAssumption
      <4> QED BY <4>1, <4>2, <4>3
    <3> HIDE DEF L
    <3>1. PICK n \in Nat, T \in Nat : n = L /\ T = TagLimit /\ T > 0 /\ n < T
      BY <3>0
    <3> QED BY <3>1, ModSmall
  <2> HIDE DEF e, L
  <2> QED BY <2>1, <2>2, Zenon
<1>12. e \in Seq(Int)
  BY <1>1
<1>2. /\ p - 1 + Len(e) <= Len(d) /\ Len(d) \in Nat /\ Len(e) \in Nat
      /\ \A j \in 1 .. Len(e) : d[p - 1 + j] = e[j]
  BY <1>12
<1>3. o = [key |-> [tags |-> o.key.tags, ts |-> o.key.ts], seq |-> o.seq, value |-> o.value]
  BY DEF Operations
<1>4. o.key.tags \in Seq(Int) /\ (o.value = None \/ o.value # None)
  BY DEF Operations
<1>13. /\ L \in Nat /\ Len(e) \in Nat /\ Len(d) \in Nat /\ p - 1 + Len(e) <= Len(d)
       /\ o.value = None => Len(e) = 4 + L
       /\ o.value # None => Len(o.value[1]) \in Nat /\ Len(e) = 5 + L + Len(o.value[1])
  <2>1. o.value # None => o.value[1] \in Seq(Nat)
    BY <1>1
  <2>2. o.value # None => Len(o.value[1]) \in Nat
    BY <2>1
  <2>3. L \in Nat /\ (o.value = None => Len(e) = 4 + L)
    BY <1>1
  <2>4. o.value # None => Len(e) = 5 + L + Len(o.value[1])
    BY <1>1
  <2> HIDE DEF e, L
  <2> QED BY <1>2, <2>2, <2>3, <2>4
<1>14. PICK n \in Nat, m \in Nat : n = Len(e) /\ m = Len(d)
  BY <1>13
<1> HIDE DEF e, L
<1>15. L \in Nat /\ p - 1 + n <= m /\ p \in Nat /\ p >= 1
  BY <1>13, <1>14
<1>5. n >= 4 + L
  <2>1. CASE o.value = None
    BY <1>13, <1>14, <2>1
  <2>2. CASE o.value # None
    <3>1. PICK k \in Nat : k = Len(o.value[1])
      BY <1>13, <2>2
    <3>2. n = 5 + L + k
      BY <1>13, <1>14, <2>2, <3>1
    <3> QED BY <1>15, <3>2
  <2> QED BY <2>1, <2>2
<1>6. /\ d[p] = KindOf(o) /\ d[p + 1] = L /\ d[p + 2 + L] = o.key.ts /\ d[p + 3 + L] = o.seq
      /\ \A j \in 1 .. L : d[(p + 1) + j] = o.key.tags[j]
  <2>1. /\ 1 \in 1 .. n /\ p - 1 + 1 = p
        /\ 2 \in 1 .. n /\ p - 1 + 2 = p + 1
        /\ 3 + L \in 1 .. n /\ p - 1 + (3 + L) = p + 2 + L
        /\ 4 + L \in 1 .. n /\ p - 1 + (4 + L) = p + 3 + L
    BY <1>5, <1>15
  <2>2. ASSUME NEW j \in 1 .. L PROVE d[(p + 1) + j] = o.key.tags[j]
    <3>1. 2 + j \in 1 .. n /\ p - 1 + (2 + j) = (p + 1) + j
      BY <1>5, <1>15
    <3>2. d[p - 1 + (2 + j)] = e[2 + j] /\ e[2 + j] = o.key.tags[j]
      BY <1>1, <1>2, <1>14, <3>1
    <3> QED BY <3>1, <3>2
  <2>3. /\ d[p - 1 + 1] = e[1] /\ d[p - 1 + 2] = e[2]
        /\ d[p - 1 + (3 + L)] = e[3 + L] /\ d[p - 1 + (4 + L)] = e[4 + L]
    BY <1>2, <1>14, <2>1
  <2>4. e[1] = KindOf(o) /\ e[2] = L /\ e[3 + L] = o.key.ts /\ e[4 + L] = o.seq
    BY <1>1
  <2> QED BY <2>1, <2>2, <2>3, <2>4
<1>7. SubSeq(d, (p + 1) + 1, (p + 1) + L) = o.key.tags
  <2>1. p + 1 \in Int /\ p + 1 >= 0 /\ (p + 1) + L <= m
    BY <1>5, <1>15
  <2> QED BY <1>4, <1>6, <1>14, <2>1, SubSeqIs DEF L
<1> DEFINE tagEnd == p + 1 + d[p + 1]
<1>8. /\ tagEnd = p + 1 + L /\ (p + 1) + 1 = p + 2 /\ (p + 1) + L = tagEnd
      /\ tagEnd + 1 = p + 2 + L /\ tagEnd + 2 = p + 3 + L
      /\ p + 1 <= Len(d) /\ tagEnd + 2 <= Len(d)
  <2>1. tagEnd = p + 1 + L
    BY <1>6
  <2> HIDE DEF tagEnd
  <2> QED BY <1>5, <1>14, <1>15, <2>1
<1>9. /\ SubSeq(d, p + 2, tagEnd) = o.key.tags /\ d[tagEnd + 1] = o.key.ts /\ d[tagEnd + 2] = o.seq
  BY <1>6, <1>7, <1>8
<1>10. CASE o.value = None
  <2>1. d[p] = 2 /\ Len(e) = 4 + L /\ tagEnd + 3 = p + Len(e)
    <3>1. d[p] = 2
      BY <1>6, <1>10 DEF KindOf
    <3>2. n = 4 + L
      BY <1>13, <1>14, <1>10
    <3>3. tagEnd = p + 1 + L
      BY <1>8
    <3> HIDE DEF tagEnd
    <3> QED BY <1>14, <1>15, <3>1, <3>2, <3>3
  <2> HIDE DEF tagEnd
  <2>2. ReadOp(d, p) = Some([op |-> [key |-> [tags |-> SubSeq(d, p + 2, tagEnd), ts |-> d[tagEnd + 1]],
                                     seq |-> d[tagEnd + 2], value |-> None],
                             next |-> tagEnd + 3])
    BY <1>8, <2>1 DEF ReadOp, tagEnd
  <2> QED BY <1>3, <1>9, <1>10, <2>1, <2>2 DEF e
<1>11. CASE o.value # None
  <2>1. PICK v \in Seq(Int) : v = o.value[1] /\ Len(v) \in Nat
    <3>1. PICK v \in Seq(Nat) : v = o.value[1]
      BY <1>1, <1>11
    <3>2. v \in Seq(Int) /\ Len(v) \in Nat
      OBVIOUS
    <3> QED BY <3>1, <3>2
  <2>9. PICK k \in Nat : k = Len(v)
    BY <2>1
  <2>2. /\ n = 5 + L + k /\ e[5 + L] = k /\ o.value = Some(v)
        /\ \A j \in 1 .. k : e[5 + L + j] = v[j]
    <3>1. o.value[1] = v /\ Len(o.value[1]) = k
      BY <2>1, <2>9
    <3>2. n = 5 + L + Len(o.value[1])
      BY <1>11, <1>13, <1>14
    <3>3. /\ e[5 + L] = Len(o.value[1]) /\ o.value = Some(o.value[1])
          /\ \A j \in 1 .. Len(o.value[1]) : e[5 + L + j] = o.value[1][j]
      BY <1>1, <1>11
    <3> QED BY <3>1, <3>2, <3>3
  <2>3. d[p] # 2 /\ d[p + 4 + L] = k
    <3>1. 5 + L \in 1 .. n /\ p - 1 + (5 + L) = p + 4 + L
      <4>1. L \in Nat /\ p \in Nat
        BY <1>15
      <4>2. n = 5 + L + k
        BY <2>2
      <4> HIDE DEF L, tagEnd
      <4> QED BY <4>1, <4>2
    <3>2. d[p - 1 + (5 + L)] = e[5 + L]
      BY <1>2, <1>14, <3>1
    <3>3. d[p] # 2
      BY <1>6, <1>11 DEF KindOf
    <3> QED BY <2>2, <3>1, <3>2, <3>3
  <2>4. ASSUME NEW j \in 1 .. k PROVE d[(p + 4 + L) + j] = v[j]
    <3>1. 5 + L + j \in 1 .. n /\ p - 1 + (5 + L + j) = (p + 4 + L) + j
      BY <1>15, <2>2
    <3>2. d[p - 1 + (5 + L + j)] = e[5 + L + j]
      BY <1>2, <1>14, <3>1
    <3> QED BY <2>2, <3>1, <3>2
  <2>5. SubSeq(d, (p + 4 + L) + 1, (p + 4 + L) + k) = v
    <3>1. p + 4 + L \in Int /\ p + 4 + L >= 0 /\ (p + 4 + L) + k <= m
      BY <1>15, <2>2
    <3> QED BY <1>14, <2>4, <2>9, <3>1, SubSeqIs
  <2> DEFINE valueEnd == tagEnd + 3 + d[tagEnd + 3]
  <2>10. tagEnd = p + 1 + L
    BY <1>8
  <2> HIDE DEF tagEnd
  <2>11. tagEnd + 3 = p + 4 + L
    BY <1>15, <2>10
  <2>12. valueEnd = (p + 4 + L) + k
    BY <2>3, <2>11
  <2> HIDE DEF valueEnd
  <2>6. /\ tagEnd + 4 = (p + 4 + L) + 1
        /\ tagEnd + 3 <= Len(d) /\ valueEnd <= Len(d) /\ valueEnd + 1 = p + Len(e)
    BY <1>14, <1>15, <2>2, <2>10, <2>12
  <2>7. SubSeq(d, tagEnd + 4, valueEnd) = v
    BY <2>5, <2>6, <2>12
  <2>8. ReadOp(d, p) = Some([op |-> [key |-> [tags |-> SubSeq(d, p + 2, tagEnd), ts |-> d[tagEnd + 1]],
                                     seq |-> d[tagEnd + 2],
                                     value |-> Some(SubSeq(d, tagEnd + 4, valueEnd))],
                             next |-> valueEnd + 1])
    BY <1>8, <2>3, <2>6 DEF ReadOp, tagEnd, valueEnd
  <2> QED BY <1>3, <1>9, <2>2, <2>6, <2>7, <2>8 DEF e
<1> QED BY <1>10, <1>11

ReadStart == [ops |-> <<>>, at |-> 2, ended |-> FALSE]
ReadStep(d, before) ==
    LET got == IF before.ended THEN None ELSE ReadOp(d, before.at)
    IN  IF got = None THEN [before EXCEPT !.ended = TRUE]
        ELSE [ops |-> Append(before.ops, got[1].op), at |-> got[1].next, ended |-> FALSE]
IsRead(d, f) == f = [n \in 0 .. d[1] |-> IF n = 0 THEN ReadStart ELSE ReadStep(d, f[n - 1])]

LEMMA DecodeOpsIs ==
    ASSUME NEW d
    PROVE  DecodeOps(d) = (CHOOSE f : IsRead(d, f))[d[1]].ops
  BY DEF DecodeOps, IsRead, ReadStep, ReadStart

Parts(os) == [i \in DOMAIN os |-> Encoded(os[i])]

LEMMA EncodeOpsFacts ==
    ASSUME NEW os \in Seq(Operations)
    PROVE  LET d == EncodeOps(os)
               off == Offset(Lens(Parts(os)))
           IN  /\ d \in Seq(Int) /\ d[1] = Len(os)
               /\ off \in [0 .. Len(os) -> Nat] /\ off[0] = 0
               /\ \A i \in 1 .. Len(os) :
                    /\ off[i] = off[i - 1] + Len(Encoded(os[i]))
                    /\ 1 + off[i - 1] + Len(Encoded(os[i])) <= Len(d)
                    /\ \A j \in 1 .. Len(Encoded(os[i])) : d[1 + off[i - 1] + j] = Encoded(os[i])[j]
<1> DEFINE N == Len(os)
           parts == Parts(os)
           off == Offset(Lens(parts))
           flat == FlattenSeq(parts)
<1>1. N \in Nat /\ DOMAIN os = 1 .. N /\ \A i \in 1 .. N : os[i] \in Operations
  OBVIOUS
<1>2. \A i \in 1 .. N : Encoded(os[i]) \in Seq(Int)
  BY <1>1, EncodedFacts, Zenon
<1>3. parts \in Seq(Seq(Int)) /\ Len(parts) = N /\ \A i \in 1 .. N : parts[i] = Encoded(os[i])
  BY <1>1, <1>2 DEF Parts
<1> HIDE DEF N, parts
<1>4. /\ flat \in Seq(Int) /\ IsOffset(Lens(parts), off)
      /\ Len(Lens(parts)) = N /\ Len(flat) = Sum(Lens(parts))
      /\ \A i \in 1 .. N : \A j \in 1 .. Len(parts[i]) : flat[off[i - 1] + j] = parts[i][j]
  BY <1>3, FlatFacts
<1>5. EncodeOps(os) = <<N>> \o flat
  BY DEF EncodeOps, Encoded, Parts, parts, N
<1>6. Len(flat) = off[N]
  BY <1>4 DEF Sum
<1> HIDE DEF off, flat
<1>7. /\ off \in [0 .. N -> Nat] /\ off[0] = 0
      /\ \A i \in 1 .. N : off[i] = off[i - 1] + Len(parts[i])
  <2>1. \A i \in 1 .. N : Lens(parts)[i] = Len(parts[i])
    BY <1>1, <1>3 DEF Lens
  <2> QED BY <1>4, <2>1 DEF IsOffset
<1>8. \A i, k \in 0 .. N : i <= k => off[i] <= off[k]
  <2>1. Lens(parts) \in Seq(Nat)
    <3>1. parts \in [1 .. N -> Seq(Int)] /\ DOMAIN parts = 1 .. N
      BY <1>1, <1>3
    <3>2. Lens(parts) \in [1 .. N -> Nat]
      BY <3>1 DEF Lens
    <3> QED BY <1>1, <3>2
  <2> QED BY <1>4, <2>1, OffsetFacts
<1>9. PICK d \in Seq(Int) :
        /\ d = <<N>> \o flat /\ Len(d) = 1 + Len(flat) /\ d[1] = N
        /\ \A i \in 1 .. Len(flat) : d[1 + i] = flat[i]
  <2>1. <<N>> \in Seq(Int) /\ Len(<<N>>) = 1 /\ <<N>>[1] = N
    BY <1>1
  <2>2. /\ <<N>> \o flat \in Seq(Int) /\ Len(<<N>> \o flat) = 1 + Len(flat)
        /\ (<<N>> \o flat)[1] = N
        /\ \A i \in 1 .. Len(flat) : (<<N>> \o flat)[1 + i] = flat[i]
    BY <1>4, <2>1, Joined
  <2> QED BY <2>2
<1>10. ASSUME NEW i \in 1 .. N
       PROVE  /\ off[i] = off[i - 1] + Len(parts[i])
              /\ 1 + off[i - 1] + Len(parts[i]) <= Len(d)
              /\ \A j \in 1 .. Len(parts[i]) : d[1 + off[i - 1] + j] = parts[i][j]
  <2>1. i - 1 \in 0 .. N /\ i \in 0 .. N /\ N \in 0 .. N /\ i <= N
    BY <1>1
  <2>2. PICK a \in Nat, b \in Nat, c \in Nat, l \in Nat :
          a = off[i - 1] /\ b = off[i] /\ c = off[N] /\ l = Len(parts[i])
    <3>1. parts[i] \in Seq(Int)
      BY <1>2, <1>3
    <3>2. Len(parts[i]) \in Nat
      BY <3>1
    <3>3. off[i - 1] \in Nat /\ off[i] \in Nat /\ off[N] \in Nat
      BY <1>7, <2>1
    <3> QED BY <3>2, <3>3
  <2>3. b = a + l /\ b <= c /\ Len(d) = 1 + c
    BY <1>6, <1>7, <1>8, <1>9, <2>1, <2>2
  <2>4. ASSUME NEW j \in 1 .. l PROVE d[1 + a + j] = parts[i][j]
    <3>1. a + j \in 1 .. c /\ 1 + (a + j) = 1 + a + j
      BY <2>3
    <3>2. flat[a + j] = parts[i][j]
      BY <1>4, <2>2
    <3>3. d[1 + (a + j)] = flat[a + j]
      BY <1>6, <1>9, <2>2, <3>1
    <3> QED BY <3>1, <3>2, <3>3
  <2>5. off[i] = off[i - 1] + Len(parts[i]) /\ 1 + off[i - 1] + Len(parts[i]) <= Len(d)
    <3>1. b = a + l /\ 1 + a + l <= 1 + c
      BY <2>3
    <3> QED BY <2>2, <2>3, <3>1
  <2>6. \A j \in 1 .. Len(parts[i]) : d[1 + off[i - 1] + j] = parts[i][j]
    BY <2>2, <2>4
  <2> QED BY <2>5, <2>6
<1>11. ASSUME NEW i \in 1 .. N
       PROVE  /\ off[i] = off[i - 1] + Len(Encoded(os[i]))
              /\ 1 + off[i - 1] + Len(Encoded(os[i])) <= Len(d)
              /\ \A j \in 1 .. Len(Encoded(os[i])) : d[1 + off[i - 1] + j] = Encoded(os[i])[j]
  <2>1. parts[i] = Encoded(os[i])
    BY <1>3
  <2> QED BY <1>10, <2>1
<1>12. /\ EncodeOps(os) = d
       /\ d \in Seq(Int) /\ d[1] = N
  BY <1>5, <1>9
<1> QED BY <1>7, <1>11, <1>12 DEF N, off, parts

\* What the frame is made of is what it is read as, whatever the operations, as
\* long as the lengths of their tags fit (wal.rs 141-276).
THEOREM FramesReadBack ==
    ASSUME NEW os \in Seq(Operations), \A i \in DOMAIN os : ShortTags(os[i])
    PROVE  DecodeOps(EncodeOps(os)) = os
<1> DEFINE N == Len(os)
           off == Offset(Lens(Parts(os)))
<1>1. N \in Nat /\ DOMAIN os = 1 .. N /\ \A i \in 1 .. N : os[i] \in Operations /\ ShortTags(os[i])
  OBVIOUS
<1>2. PICK d : /\ d = EncodeOps(os) /\ d \in Seq(Int) /\ d[1] = N
               /\ off \in [0 .. N -> Nat] /\ off[0] = 0
               /\ \A i \in 1 .. N :
                    /\ off[i] = off[i - 1] + Len(Encoded(os[i]))
                    /\ 1 + off[i - 1] + Len(Encoded(os[i])) <= Len(d)
                    /\ \A j \in 1 .. Len(Encoded(os[i])) : d[1 + off[i - 1] + j] = Encoded(os[i])[j]
  <2>1. /\ EncodeOps(os) \in Seq(Int) /\ EncodeOps(os)[1] = N
        /\ off \in [0 .. N -> Nat] /\ off[0] = 0
        /\ \A i \in 1 .. N :
             /\ off[i] = off[i - 1] + Len(Encoded(os[i]))
             /\ 1 + off[i - 1] + Len(Encoded(os[i])) <= Len(EncodeOps(os))
             /\ \A j \in 1 .. Len(Encoded(os[i])) :
                    EncodeOps(os)[1 + off[i - 1] + j] = Encoded(os[i])[j]
    BY EncodeOpsFacts
  <2> HIDE DEF N, off
  <2> QED BY <2>1
<1> DEFINE at(n) == [ops |-> SubSeq(os, 1, n), at |-> 2 + off[n], ended |-> FALSE]
           g == [n \in 0 .. N |-> at(n)]
<1> HIDE DEF N, off
<1>3. at(0) = ReadStart
  <2>1. SubSeq(os, 1, 0) = <<>> /\ 2 + off[0] = 2
    BY <1>2, SubSeqEmpty
  <2> QED BY <2>1 DEF ReadStart
<1>4. ASSUME NEW n \in 1 .. N PROVE at(n) = ReadStep(d, at(n - 1))
  <2>1. n - 1 \in 0 .. N /\ os[n] \in Operations /\ ShortTags(os[n]) /\ n \in 0 .. N
    BY <1>1
  <2>2. PICK p \in Nat, l \in Nat : p = 2 + off[n - 1] /\ l = Len(Encoded(os[n])) /\ p >= 2
    <3>1. off[n - 1] \in Nat /\ Encoded(os[n]) \in Seq(Int)
      BY <1>2, <2>1, EncodedFacts, Zenon
    <3>2. Len(Encoded(os[n])) \in Nat
      BY <3>1
    <3> QED BY <3>1, <3>2
  <2>3. p \in Nat \ {0} /\ p - 1 = 1 + off[n - 1] /\ p + l = 2 + off[n]
    <3>1. off[n - 1] \in Nat /\ off[n] = off[n - 1] + l
      BY <1>2, <2>1, <2>2
    <3>2. PICK a \in Nat : a = off[n - 1]
      BY <3>1
    <3>3. p = 2 + a /\ off[n] = a + l
      BY <2>2, <3>1, <3>2
    <3>4. p \in Nat \ {0} /\ p - 1 = 1 + a /\ p + l = 2 + (a + l)
      BY <3>3
    <3> QED BY <3>2, <3>3, <3>4
  <2>4. /\ p - 1 + Len(Encoded(os[n])) <= Len(d)
        /\ \A j \in 1 .. Len(Encoded(os[n])) : d[p - 1 + j] = Encoded(os[n])[j]
    BY <1>2, <2>3
  <2>5. ReadOp(d, p) = Some([op |-> os[n], next |-> p + l])
    BY <1>2, <2>1, <2>2, <2>3, <2>4, ReadsBack
  <2>6. Append(SubSeq(os, 1, n - 1), os[n]) = SubSeq(os, 1, n)
    BY <1>1, SubSeqRecursiveSecond
  <2>7. PICK b : b = at(n - 1)
    OBVIOUS
  <2>8. b.ended = FALSE /\ b.at = p /\ b.ops = SubSeq(os, 1, n - 1)
    BY <2>2, <2>7
  <2>9. ReadStep(d, b) = [ops |-> Append(b.ops, os[n]), at |-> p + l, ended |-> FALSE]
    <3>1. PICK r : r = [op |-> os[n], next |-> p + l]
      OBVIOUS
    <3>2. r.op = os[n] /\ r.next = p + l /\ Some(r) # None /\ Some(r)[1] = r
      BY <3>1 DEF Some, None
    <3>3. ReadOp(d, b.at) = Some(r)
      BY <2>5, <2>8, <3>1
    <3>4. ReadStep(d, b) = [ops |-> Append(b.ops, r.op), at |-> r.next, ended |-> FALSE]
      BY <2>8, <3>2, <3>3 DEF ReadStep
    <3> QED BY <3>2, <3>4
  <2> QED BY <2>3, <2>6, <2>7, <2>8, <2>9
<1>5. IsRead(d, g)
  <2>1. ASSUME NEW n \in 0 .. N PROVE g[n] = IF n = 0 THEN ReadStart ELSE ReadStep(d, g[n - 1])
    <3>1. CASE n = 0
      BY <1>3, <3>1
    <3>2. CASE n # 0
      <4>1. n \in 1 .. N /\ n - 1 \in 0 .. N
        BY <1>1, <3>2
      <4> HIDE DEF at
      <4>2. g[n] = at(n) /\ g[n - 1] = at(n - 1)
        BY <4>1
      <4> QED BY <1>4, <3>2, <4>1, <4>2
    <3> QED BY <3>1, <3>2
  <2>2. g = [n \in 0 .. N |-> g[n]]
    OBVIOUS
  <2> HIDE DEF g
  <2> QED BY <1>2, <2>1, <2>2 DEF IsRead
<1> DEFINE f == CHOOSE f : IsRead(d, f)
<1>6. IsRead(d, f)
  BY <1>5
<1>7. \A n \in 0 .. N : f[n] = IF n = 0 THEN ReadStart ELSE ReadStep(d, f[n - 1])
  <2>1. \A n \in 0 .. d[1] : f[n] = IF n = 0 THEN ReadStart ELSE ReadStep(d, f[n - 1])
    BY <1>6, Zenon DEF IsRead
  <2> QED BY <1>2, <2>1
<1> DEFINE E == {n \in 0 .. N : f[n] = at(n)}
<1> HIDE DEF f, at, g
<1>8. N \in E
  <2>1. 0 \in E
    BY <1>1, <1>3, <1>7
  <2>2. ASSUME NEW n \in 0 .. N - 1, n \in E PROVE n + 1 \in E
    <3>1. n + 1 \in 0 .. N /\ n + 1 # 0 /\ (n + 1) - 1 = n /\ n + 1 \in 1 .. N
      BY <1>1
    <3>2. f[n + 1] = ReadStep(d, f[n]) /\ f[n] = at(n)
      BY <1>7, <2>2, <3>1
    <3>3. at(n + 1) = ReadStep(d, at(n))
      BY <1>4, <3>1
    <3> QED BY <3>1, <3>2, <3>3
  <2>3. /\ 0 \in Int /\ N \in Int /\ 0 \in E /\ N \in 0 .. N
        /\ \A n \in 0 .. N - 1 : n \in E => n + 1 \in E
    BY <1>1, <2>1, <2>2
  <2> HIDE DEF E
  <2> QED BY <2>3, CountingUp
<1>9. f[N].ops = SubSeq(os, 1, N)
  BY <1>8 DEF at
<1>10. SubSeq(os, 1, N) = os
  BY SubSeqFull DEF N
<1>11. DecodeOps(d) = f[N].ops
  BY <1>2, DecodeOpsIs DEF f
<1> QED BY <1>2, <1>9, <1>10, <1>11

-----------------------------------------------------------------------------
(* Schemas, keys and values are what they should be.                       *)

LEMMA AscendingFacts ==
    ASSUME NEW I \in SUBSET Int, IsFiniteSet(I)
    PROVE  /\ Ascending(I) \in Seq(I) /\ Len(Ascending(I)) = Cardinality(I)
           /\ DOMAIN Ascending(I) = 1 .. Len(Ascending(I))
           /\ Range(Ascending(I)) = I
           /\ \A m, n \in DOMAIN Ascending(I) : m < n => Ascending(I)[m] < Ascending(I)[n]
<1> DEFINE a == Ascending(I)
           C == Cardinality(I)
<1>1. /\ C \in Nat
      /\ \A n \in 1 .. C : Nth(I, n) \in I
      /\ \A n, m \in 1 .. C : n < m => Nth(I, n) < Nth(I, m)
      /\ \A i \in I : \E n \in 1 .. C : Nth(I, n) = i
  BY NthFacts
<1>2. a = [n \in 1 .. C |-> Nth(I, n)]
  BY DEF Ascending, Nth
<1> HIDE DEF a, C
<1>3. a \in [1 .. C -> I]
  BY <1>1, <1>2
<1>4. a \in Seq(I) /\ Len(a) = C /\ DOMAIN a = 1 .. C
  BY <1>1, <1>3
<1>5. Range(a) = I
  BY <1>1, <1>2, <1>4 DEF Range
<1> QED BY <1>1, <1>2, <1>4, <1>5 DEF a, C

LEMMA NotEmpty ==
    ASSUME NEW D, NEW p \in Seq(D), p # <<>>
    PROVE  Len(p) \in Nat \ {0} /\ DOMAIN p = 1 .. Len(p)
  OBVIOUS

LEMMA SeqElements ==
    ASSUME NEW D, NEW p \in Seq(D)
    PROVE  Len(p) \in Nat /\ DOMAIN p = 1 .. Len(p) /\ \A i \in DOMAIN p : p[i] \in D
  OBVIOUS

\* A table as the assumption on Schemas has it.
LEMMA SchemaFacts ==
    ASSUME NEW s \in Schemas
    PROVE  LET C == DOMAIN s.columns
               F == FieldColumns(s)
               P == s.primary_key
           IN  /\ Len(s.columns) \in Nat /\ C = 1 .. Len(s.columns)
               /\ \A c \in C : s.columns[c].semantic \in {"tag", "timestamp", "field"}
               /\ P \in Seq(C) /\ Len(P) \in Nat /\ DOMAIN P = 1 .. Len(P)
               /\ \A i, j \in DOMAIN P : P[i] = P[j] => i = j
               /\ Range(P) = {c \in C : s.columns[c].semantic = "tag"}
               /\ s.time_index \in C
               /\ \A c \in C : s.columns[c].semantic = "timestamp" <=> c = s.time_index
               /\ s.columns[s.time_index].type \in {"int64", "timestamp"}
               /\ F \in Seq(C) /\ Len(F) \in Nat /\ DOMAIN F = 1 .. Len(F)
               /\ \A i, j \in DOMAIN F : F[i] = F[j] => i = j
               /\ Range(F) = {c \in C : s.columns[c].semantic = "field"}
<1> DEFINE C == DOMAIN s.columns
           F == FieldColumns(s)
           P == s.primary_key
           I == {i \in C : s.columns[i].semantic = "field"}
<1>1. /\ s.columns \in Seq([semantic : {"tag", "timestamp", "field"},
                            type : {"binary", "boolean", "int64", "timestamp"}])
      /\ P \in Seq(C) /\ IsInjective(P)
      /\ Range(P) = {i \in C : s.columns[i].semantic = "tag"}
      /\ {i \in C : s.columns[i].semantic = "timestamp"} = {s.time_index}
      /\ s.columns[s.time_index].type \in {"int64", "timestamp"}
  BY SchemasAssumption
<1>2. /\ Len(s.columns) \in Nat /\ C = 1 .. Len(s.columns)
      /\ \A c \in C : s.columns[c].semantic \in {"tag", "timestamp", "field"}
  <2>1. s.columns \in Seq([semantic : {"tag", "timestamp", "field"},
                            type : {"binary", "boolean", "int64", "timestamp"}])
    BY <1>1
  <2> DEFINE D == [semantic : {"tag", "timestamp", "field"},
                   type : {"binary", "boolean", "int64", "timestamp"}]
  <2> HIDE DEF D
  <2>2. /\ Len(s.columns) \in Nat /\ C = 1 .. Len(s.columns)
        /\ \A c \in C : s.columns[c] \in D
    BY <2>1, SeqElements DEF D
  <2>3. \A d \in D : d.semantic \in {"tag", "timestamp", "field"}
    BY DEF D
  <2> QED BY <2>2, <2>3
<1>3. Len(P) \in Nat /\ DOMAIN P = 1 .. Len(P)
  <2>1. P \in Seq(C)
    BY <1>1
  <2> HIDE DEF P, C
  <2> QED BY <2>1, NotEmpty
<1>4. \A i, j \in DOMAIN P : P[i] = P[j] => i = j
  BY <1>1 DEF IsInjective
<1>5. I \in SUBSET Int /\ IsFiniteSet(I)
  <2>1. I \in SUBSET (1 .. Len(s.columns)) /\ IsFiniteSet(1 .. Len(s.columns))
    BY <1>2, FS_Interval
  <2> QED BY <2>1, FS_Subset
<1>6. F = Ascending(I)
  BY DEF FieldColumns
<1> HIDE DEF F, I
<1>7. /\ F \in Seq(I) /\ DOMAIN F = 1 .. Len(F) /\ Range(F) = I
      /\ \A m, n \in DOMAIN F : m < n => F[m] < F[n]
  BY <1>5, <1>6, AscendingFacts
<1>8. F \in Seq(C) /\ Len(F) \in Nat
  <2>1. I \in SUBSET C
    BY DEF I
  <2> QED BY <1>7, <2>1
<1>9. \A i, j \in DOMAIN F : F[i] = F[j] => i = j
  <2>1. F \in Seq(I) /\ Len(F) \in Nat /\ DOMAIN F = 1 .. Len(F)
    BY <1>7, <1>8
  <2>2. \A i \in DOMAIN F : F[i] \in I
    BY <2>1
  <2>3. \A i \in DOMAIN F : i \in Int
    BY <2>1
  <2>4. \A i \in I : i \in Int
    BY <1>5
  <2>5. SUFFICES ASSUME NEW i \in DOMAIN F, NEW j \in DOMAIN F, F[i] = F[j] PROVE ~(i < j) /\ ~(j < i)
    BY <2>3
  <2>6. F[i] \in Int /\ F[j] \in Int
    BY <2>2, <2>4
  <2>7. (i < j => F[i] < F[j]) /\ (j < i => F[j] < F[i])
    BY <1>7
  <2> QED BY <2>5, <2>6, <2>7
<1>10. s.time_index \in C /\ \A c \in C : s.columns[c].semantic = "timestamp" <=> c = s.time_index
  BY <1>1
<1> QED BY <1>1, <1>2, <1>3, <1>4, <1>7, <1>8, <1>9, <1>10 DEF F, I

LEMMA PositionFacts ==
    ASSUME NEW D, NEW cols \in Seq(D), NEW c \in Range(cols)
    PROVE  PositionOf(cols, c) \in DOMAIN cols /\ cols[PositionOf(cols, c)] = c
<1>1. \E j \in DOMAIN cols : cols[j] = c
  BY DEF Range
<1> QED BY <1>1 DEF PositionOf

LEMMA EncodeType ==
    ASSUME NEW D, NEW cols \in Seq(D), NEW cells \in [D -> Seq(Nat)]
    PROVE  Encode(cells, cols) \in Seq(Nat)
<1>1. Len(cols) \in Nat /\ DOMAIN cols = 1 .. Len(cols) /\ \A j \in DOMAIN cols : cols[j] \in D
  OBVIOUS
<1>2. CASE Len(cols) = 1
  BY <1>1, <1>2 DEF Encode
<1>3. CASE Len(cols) # 1
  <2> DEFINE p == Pick(cells, cols)
             q == [j \in DOMAIN p |-> <<Len(p[j])>> \o p[j]]
  <2>1. p \in [1 .. Len(cols) -> Seq(Nat)]
    BY <1>1 DEF Pick
  <2>2. \A j \in 1 .. Len(cols) : p[j] \in Seq(Nat)
    BY <2>1
  <2> HIDE DEF p
  <2>3. ASSUME NEW j \in 1 .. Len(cols) PROVE <<Len(p[j])>> \o p[j] \in Seq(Nat)
    <3>1. PICK x \in Seq(Nat) : x = p[j]
      BY <2>2
    <3>2. <<Len(x)>> \in Seq(Nat)
      OBVIOUS
    <3>3. <<Len(x)>> \o x \in Seq(Nat)
      BY <3>2, Joined
    <3> QED BY <3>1, <3>3
  <2>4. q \in [1 .. Len(cols) -> Seq(Nat)]
    BY <2>1, <2>3
  <2>5. q \in Seq(Seq(Nat))
    BY <1>1, <2>4
  <2>6. FlattenSeq(q) \in Seq(Nat)
    BY <2>5, FlatFacts
  <2> QED BY <1>3, <2>6 DEF Encode, LengthPrefixed, p
<1> QED BY <1>2, <1>3

LEMMA CellsTyped ==
    ASSUME NEW s \in Schemas, NEW c \in DOMAIN s.columns
    PROVE  CellsFor(s, c) \subseteq Seq(Nat)
<1>1. <<5>> \in Seq(Nat) /\ <<0>> \in Seq(Nat) /\ <<1>> \in Seq(Nat) /\ <<2>> \in Seq(Nat)
  OBVIOUS
<1> QED BY <1>1, CellsAssumption DEF CellsFor

LEMMA CellsOfTyped ==
    ASSUME NEW s \in Schemas, NEW cols \in Seq(DOMAIN s.columns), NEW g \in Tuples(s, cols)
    PROVE  /\ \A j \in DOMAIN cols : g[j] \in CellsFor(s, cols[j]) /\ g[j] \in Seq(Nat)
           /\ CellsOf(s, cols, g) \in [DOMAIN s.columns -> Seq(Nat)]
<1>1. \A j \in DOMAIN cols : cols[j] \in DOMAIN s.columns /\ g[j] \in CellsFor(s, cols[j])
  BY DEF Tuples
<1>2. \A j \in DOMAIN cols : g[j] \in Seq(Nat)
  BY <1>1, CellsTyped
<1>3. <<>> \in Seq(Nat)
  OBVIOUS
<1>4. ASSUME NEW i \in DOMAIN s.columns, i \in Range(cols) PROVE g[PositionOf(cols, i)] \in Seq(Nat)
  BY <1>2, <1>4, PositionFacts
<1> QED BY <1>1, <1>2, <1>3, <1>4 DEF CellsOf

LEMMA KeysTyped ==
    ASSUME NEW s \in Schemas
    PROVE  /\ KeysFor(s) \subseteq [tags : Seq(Nat), ts : Int]
           /\ ValuesFor(s) \subseteq {None} \cup {Some(v) : v \in Seq(Nat)}
<1>1. s.primary_key \in Seq(DOMAIN s.columns) /\ FieldColumns(s) \in Seq(DOMAIN s.columns)
  BY SchemaFacts
<1>2. ASSUME NEW t \in Tuples(s, s.primary_key), NEW ts \in Stamps
      PROVE  Key(s, t, ts) \in [tags : Seq(Nat), ts : Int]
  <2>1. EncodeTags(s, CellsOf(s, s.primary_key, t)) \in Seq(Nat)
    BY <1>1, CellsOfTyped, EncodeType DEF EncodeTags
  <2> QED BY <2>1, CellsAssumption DEF Key
<1>3. ASSUME NEW f \in Tuples(s, FieldColumns(s)) PROVE Value(s, f) \in Seq(Nat)
  BY <1>1, CellsOfTyped, EncodeType DEF EncodeFields, Value
<1>4. KeysFor(s) \subseteq [tags : Seq(Nat), ts : Int]
  BY <1>2 DEF KeysFor
<1>5. ValuesFor(s) \subseteq {None} \cup {Some(v) : v \in Seq(Nat)}
  BY <1>3 DEF ValuesFor
<1> QED BY <1>4, <1>5

-----------------------------------------------------------------------------
(* What was written is replayed.                                            *)

\* The elements of the whole are those of the parts.
LEMMA FlatRange ==
    ASSUME NEW S, NEW seqs \in Seq(Seq(S))
    PROVE  /\ \A i \in 1 .. Len(seqs) : \A j \in 1 .. Len(seqs[i]) :
                \E p \in 1 .. Len(FlattenSeq(seqs)) : FlattenSeq(seqs)[p] = seqs[i][j]
           /\ \A p \in 1 .. Len(FlattenSeq(seqs)) :
                \E i \in 1 .. Len(seqs) : \E j \in 1 .. Len(seqs[i]) : FlattenSeq(seqs)[p] = seqs[i][j]
           /\ DOMAIN FlattenSeq(seqs) = 1 .. Len(FlattenSeq(seqs))
<1> DEFINE N == Len(seqs)
           lens == Lens(seqs)
           off == Offset(lens)
           flat == FlattenSeq(seqs)
<1>1. N \in Nat /\ DOMAIN seqs = 1 .. N /\ \A i \in 1 .. N : seqs[i] \in Seq(S) /\ Len(seqs[i]) \in Nat
  OBVIOUS
<1>2. /\ flat \in Seq(S) /\ IsOffset(lens, off) /\ Len(lens) = N /\ Len(flat) = Sum(lens)
      /\ \A i \in 1 .. N : \A j \in 1 .. Len(seqs[i]) : flat[off[i - 1] + j] = seqs[i][j]
  BY FlatFacts
<1>3. lens \in Seq(Nat) /\ \A i \in 1 .. N : lens[i] = Len(seqs[i])
  <2>1. lens = [i \in 1 .. N |-> Len(seqs[i])]
    BY <1>1 DEF Lens
  <2> HIDE DEF lens, N
  <2>2. lens \in [1 .. N -> Nat]
    BY <1>1, <2>1
  <2> QED BY <1>1, <2>1, <2>2
<1> HIDE DEF N, lens, off, flat
<1>4. Len(flat) = off[N]
  BY <1>2 DEF Sum, off
<1>5. /\ \A i, k \in 0 .. N : i <= k => off[i] <= off[k]
      /\ \A p \in 1 .. off[N] : \E i \in 1 .. N : \E j \in 1 .. lens[i] : p = off[i - 1] + j
  BY <1>2, <1>3, OffsetFacts
<1>6. off \in [0 .. N -> Nat] /\ \A i \in 1 .. N : off[i] = off[i - 1] + lens[i]
  BY <1>2 DEF IsOffset
<1>7. ASSUME NEW i \in 1 .. N, NEW j \in 1 .. Len(seqs[i])
      PROVE  \E p \in 1 .. Len(flat) : flat[p] = seqs[i][j]
  <2>1. i \in 0 .. N /\ i - 1 \in 0 .. N /\ N \in 0 .. N /\ i <= N
    BY <1>1
  <2>2. off[i - 1] \in Nat /\ off[i] \in Nat /\ off[N] \in Nat /\ Len(seqs[i]) \in Nat
    BY <1>1, <1>6, <2>1
  <2>3. off[i] <= off[N] /\ off[i] = off[i - 1] + Len(seqs[i])
    BY <1>3, <1>5, <1>6, <2>1
  <2>4. off[i - 1] + j \in 1 .. Len(flat)
    BY <1>4, <2>2, <2>3
  <2> QED BY <1>2, <2>4
<1>8. ASSUME NEW p \in 1 .. Len(flat)
      PROVE  \E i \in 1 .. N : \E j \in 1 .. Len(seqs[i]) : flat[p] = seqs[i][j]
  <2>1. PICK i \in 1 .. N : \E j \in 1 .. lens[i] : p = off[i - 1] + j
    BY <1>4, <1>5
  <2>2. PICK j \in 1 .. Len(seqs[i]) : p = off[i - 1] + j
    BY <1>3, <2>1
  <2> QED BY <1>2, <2>2
<1>9. DOMAIN flat = 1 .. Len(flat)
  BY <1>2
<1> QED BY <1>7, <1>8, <1>9 DEF N, flat

\* The numbers up to the first that is missing.
LEMMA PrefixSet ==
    ASSUME NEW N \in Nat, NEW I \in SUBSET (1 .. N),
           \A i \in I : \A j \in 1 .. i : j \in I
    PROVE  Cardinality(I) \in 0 .. N /\ I = 1 .. Cardinality(I)
<1>1. PICK m \in 0 .. N : I = 1 .. m
  <2>1. CASE N = 0
    <3>1. I = {} /\ 1 .. 0 = {} /\ 0 \in 0 .. N
      BY <2>1
    <3> QED BY <3>1
  <2>2. CASE 1 \notin I
    <3>1. I = {}
      <4>1. ASSUME NEW i \in I PROVE FALSE
        <5>1. 1 \in 1 .. i
          OBVIOUS
        <5> QED BY <2>2, <5>1
      <4> QED BY <4>1
    <3> QED BY <3>1
  <2>3. CASE 1 \in I /\ \A n \in 1 .. N - 1 : n \in I => n + 1 \in I
    <3>1. 1 \in Int /\ N \in Int /\ 1 \in I /\ \A n \in 1 .. N - 1 : n \in I => n + 1 \in I
      BY <2>3
    <3>2. \A n \in 1 .. N : n \in I
      BY <3>1, CountingUp
    <3>3. I = 1 .. N
      BY <3>2
    <3> QED BY <3>3
  <2>4. CASE \E n \in 1 .. N - 1 : n \in I /\ n + 1 \notin I
    <3>1. PICK n \in 1 .. N - 1 : n \in I /\ n + 1 \notin I
      BY <2>4
    <3>2. ASSUME NEW i \in I PROVE i \in 1 .. n
      <4>1. n + 1 \notin 1 .. i /\ i \in 1 .. N
        BY <3>1
      <4> QED BY <4>1
    <3>3. 1 .. n \subseteq I
      BY <3>1
    <3>4. I \subseteq 1 .. n
      BY <3>2
    <3>5. I = 1 .. n
      BY <3>3, <3>4, Zenon
    <3>6. n \in 0 .. N
      OBVIOUS
    <3> QED BY <3>5, <3>6
  <2> QED BY <2>1, <2>2, <2>3, <2>4
<1>2. Cardinality(1 .. m) = m
  <2>1. m \in Int /\ 1 \in Int /\ (1 > m => m = 0) /\ (1 <= m => m - 1 + 1 = m)
    OBVIOUS
  <2> QED BY <2>1, FS_Interval
<1> QED BY <1>1, <1>2

-----------------------------------------------------------------------------
Frames == [len : Nat, crc : Seq(Int), payload : Seq(Int), whole : BOOLEAN]
ReadableTo(l, n) == \A k \in 1 .. n : Readable(l[k])

\* What is in the log can be read only where it is as it was written.
LogInv ==
    /\ stage # "idle" => schema \in Schemas
    /\ ops \in Seq(Seq(Operations)) /\ log \in Seq(Frames) /\ Len(log) <= Len(ops)
    /\ \A n \in DOMAIN log : ReadableTo(log, n) => log[n] = FrameOf(ops[n])
    /\ ReadableTo(log, Len(log)) => Len(log) = Len(ops)

LEMMA FrameTyped ==
    ASSUME NEW os \in Seq(Operations)
    PROVE  FrameOf(os) \in Frames /\ FrameOf(os).len # 0
<1>1. EncodeOps(os) = <<Len(os)>> \o FlattenSeq(Parts(os))
  BY DEF EncodeOps, Encoded, Parts
<1>2. EncodeOps(os) \in Seq(Int)
  BY EncodeOpsFacts
<1>3. Parts(os) \in Seq(Seq(Int))
  <2>1. Len(os) \in Nat /\ DOMAIN os = 1 .. Len(os) /\ \A i \in 1 .. Len(os) : os[i] \in Operations
    OBVIOUS
  <2>2. \A i \in 1 .. Len(os) : Encoded(os[i]) \in Seq(Int)
    BY <2>1, EncodedFacts, Zenon
  <2>3. Parts(os) \in [1 .. Len(os) -> Seq(Int)]
    BY <2>1, <2>2 DEF Parts
  <2> QED BY <2>1, <2>3
<1>4. FlattenSeq(Parts(os)) \in Seq(Int)
  BY <1>3, FlatFacts
<1>5. <<Len(os)>> \in Seq(Int) /\ Len(<<Len(os)>>) = 1
  OBVIOUS
<1>6. Len(EncodeOps(os)) \in Nat /\ Len(EncodeOps(os)) # 0
  BY <1>1, <1>4, <1>5, Joined
<1> QED BY <1>2, <1>6 DEF FrameOf, Frames

LEMMA OperationTyped ==
    ASSUME NEW s \in Schemas, NEW k \in KeysFor(s), NEW v \in ValuesFor(s), NEW q \in Nat
    PROVE  [key |-> k, seq |-> q, value |-> v] \in Operations
  BY KeysTyped DEF Operations

LEMMA SubSeqPrefix ==
    ASSUME NEW S, NEW d \in Seq(S), NEW c \in 0 .. Len(d)
    PROVE  /\ SubSeq(d, 1, c) \in Seq(S) /\ Len(SubSeq(d, 1, c)) = c
           /\ SubSeq(d, 1, c) = [i \in 1 .. c |-> d[i]]
           /\ \A n \in 1 .. c : SubSeq(d, 1, c)[n] = d[n]
<1> DEFINE t == [i \in 1 .. c |-> d[i]]
<1>1. c \in Nat /\ 0 + c <= Len(d) /\ \A i \in 1 .. c : i \in 1 .. Len(d) /\ d[i] \in S
  OBVIOUS
<1>2. t \in Seq(S) /\ Len(t) = c /\ \A j \in 1 .. Len(t) : d[0 + j] = t[j]
  <2>1. t \in [1 .. c -> S] /\ \A j \in 1 .. c : 0 + j = j
    BY <1>1
  <2> QED BY <1>1, <2>1
<1>3. SubSeq(d, 0 + 1, 0 + Len(t)) = t
  <2> HIDE DEF t
  <2>1. 0 \in Int /\ 0 >= 0 /\ 0 + Len(t) <= Len(d)
    BY <1>1, <1>2
  <2> QED BY <1>2, <2>1, SubSeqIs
<1>4. 0 + 1 = 1 /\ 0 + Len(t) = c
  BY <1>1, <1>2
<1>5. \A n \in 1 .. c : t[n] = d[n]
  OBVIOUS
<1> HIDE DEF t
<1>6. SubSeq(d, 1, c) = t
  BY <1>3, <1>4
<1> QED BY <1>2, <1>5, <1>6 DEF t

LEMMA SeqUpdate ==
    ASSUME NEW S, NEW t \in Seq(S), NEW i \in 1 .. Len(t), NEW x \in S, NEW u, u = [t EXCEPT ![i] = x]
    PROVE  /\ u \in Seq(S) /\ Len(u) = Len(t) /\ DOMAIN u = DOMAIN t
           /\ u[i] = x /\ \A n \in DOMAIN t : n # i => u[n] = t[n]
  OBVIOUS

LEMMA LogInit == PathInit => LogInv
<1> SUFFICES ASSUME PathInit PROVE LogInv
  OBVIOUS
<1>1. stage = "idle" /\ ops = <<>> /\ log = <<>>
  BY DEF PathInit
<1>2. <<>> \in Seq(Seq(Operations)) /\ <<>> \in Seq(Frames) /\ Len(<<>>) = 0
  OBVIOUS
<1>3. DOMAIN log = {}
  BY <1>1
<1> QED BY <1>1, <1>2, <1>3 DEF LogInv

LEMMA LogAppend == LogInv /\ AppendBatch => LogInv'
<1> SUFFICES ASSUME LogInv, AppendBatch PROVE LogInv'
  OBVIOUS
<1>1. stage = "write" /\ schema \in Schemas /\ UNCHANGED <<stage, schema>>
  BY DEF LogInv, AppendBatch
<1>2a. PICK n \in 1 .. MaxBatch :
        \E ks \in [1 .. n -> KeysFor(schema)], vs \in [1 .. n -> ValuesFor(schema)] :
            LET os == [i \in 1 .. n |-> [key |-> ks[i], seq |-> Len(Written) + i, value |-> vs[i]]]
            IN  ops' = Append(ops, os) /\ log' = Append(log, FrameOf(os))
  BY DEF AppendBatch
<1>2. PICK ks \in [1 .. n -> KeysFor(schema)], vs \in [1 .. n -> ValuesFor(schema)] :
        LET os == [i \in 1 .. n |-> [key |-> ks[i], seq |-> Len(Written) + i, value |-> vs[i]]]
        IN  ops' = Append(ops, os) /\ log' = Append(log, FrameOf(os))
  BY <1>2a
<1> DEFINE os == [i \in 1 .. n |-> [key |-> ks[i], seq |-> Len(Written) + i, value |-> vs[i]]]
<1>3. Written \in Seq(Operations)
  BY FlatFacts DEF LogInv, Written
<1>4. os \in Seq(Operations)
  <2>1. Len(Written) \in Nat /\ n \in Nat
    BY <1>3, OpsAssumption
  <2>2. ASSUME NEW i \in 1 .. n
        PROVE  [key |-> ks[i], seq |-> Len(Written) + i, value |-> vs[i]] \in Operations
    <3>1. ks[i] \in KeysFor(schema) /\ vs[i] \in ValuesFor(schema) /\ Len(Written) + i \in Nat
      BY <2>1
    <3> QED BY <1>1, <3>1, OperationTyped
  <2>3. os \in [1 .. n -> Operations]
    BY <2>2
  <2> QED BY <2>1, <2>3
<1>5. ops' = Append(ops, os) /\ log' = Append(log, FrameOf(os))
  BY <1>2
<1> HIDE DEF os
<1>6. FrameOf(os) \in Frames
  BY <1>4, FrameTyped
<1>7. ops \in Seq(Seq(Operations)) /\ log \in Seq(Frames) /\ Len(log) \in Nat /\ Len(ops) \in Nat
  BY DEF LogInv
<1>8. /\ ops' \in Seq(Seq(Operations)) /\ log' \in Seq(Frames)
      /\ Len(ops') = Len(ops) + 1 /\ Len(log') = Len(log) + 1 /\ DOMAIN log = 1 .. Len(log)
      /\ DOMAIN log' = 1 .. Len(log) + 1
      /\ \A i \in 1 .. Len(log) : log'[i] = log[i]
      /\ log'[Len(log) + 1] = FrameOf(os)
      /\ \A i \in 1 .. Len(ops) : ops'[i] = ops[i]
      /\ ops'[Len(ops) + 1] = os
  BY <1>4, <1>5, <1>6, <1>7, AppendProperties
<1> DEFINE L == Len(log)
           M == Len(ops)
<1>9. L <= M /\ (\A n_1 \in 1 .. L : ReadableTo(log, n_1) => log[n_1] = FrameOf(ops[n_1]))
      /\ (ReadableTo(log, L) => L = M)
  BY <1>8 DEF LogInv
<1>10. \A k \in 1 .. L + 1 : ReadableTo(log', k) => \A j \in 1 .. L : j <= k => ReadableTo(log, j)
  <2>1. SUFFICES ASSUME NEW k \in 1 .. L + 1, ReadableTo(log', k), NEW j \in 1 .. L, j <= k,
                        NEW i \in 1 .. j
                 PROVE  Readable(log[i])
    BY DEF ReadableTo
  <2>2. i \in 1 .. k /\ i \in 1 .. L
    BY <1>7, <2>1
  <2> QED BY <1>8, <2>1, <2>2 DEF ReadableTo
<1>11. \A k \in 1 .. L + 1 : ReadableTo(log', k) => (k = L + 1 => L = M) /\ log'[k] = FrameOf(ops'[k])
  <2>1. SUFFICES ASSUME NEW k \in 1 .. L + 1, ReadableTo(log', k)
                 PROVE  (k = L + 1 => L = M) /\ log'[k] = FrameOf(ops'[k])
    OBVIOUS
  <2>2. CASE k = L + 1
    <3>1. ReadableTo(log, L)
      <4>1. CASE L = 0
        BY <4>1 DEF ReadableTo
      <4>2. CASE L # 0
        <5>1. L \in 1 .. L /\ L <= k
          BY <1>7, <2>2, <4>2
        <5> QED BY <1>10, <2>1, <5>1
      <4> QED BY <4>1, <4>2
    <3> QED BY <1>8, <1>9, <2>2, <3>1
  <2>3. CASE k # L + 1
    <3>1. k \in 1 .. L /\ k \in 1 .. M /\ k <= k
      BY <1>7, <1>9, <2>3
    <3>2. ReadableTo(log, k)
      BY <1>10, <2>1, <3>1
    <3> QED BY <1>8, <1>9, <2>3, <3>1, <3>2
  <2> QED BY <2>2, <2>3
<1>12. (ReadableTo(log', L + 1) => L + 1 = M + 1) /\ L + 1 <= M + 1
  <2>1. L + 1 \in 1 .. L + 1
    BY <1>7
  <2> QED BY <1>7, <1>9, <1>11, <2>1
<1>13. \A k \in DOMAIN log' : ReadableTo(log', k) => log'[k] = FrameOf(ops'[k])
  BY <1>8, <1>11
<1> HIDE DEF L, M
<1>14. Len(log') <= Len(ops') /\ (ReadableTo(log', Len(log')) => Len(log') = Len(ops'))
  BY <1>8, <1>12 DEF L, M
<1> QED BY <1>1, <1>8, <1>13, <1>14 DEF LogInv

\* A damaged frame is not read: what is before it is as it was.
LEMMA Unreadable ==
    ASSUME NEW l \in Seq(Frames), NEW o, NEW L \in Nat, Len(l) <= L,
           NEW i \in DOMAIN l, ~Readable(l[i]),
           \A n \in 1 .. i - 1 : l[n] = FrameOf(o[n]),
           Len(o) = L
    PROVE  /\ \A n \in DOMAIN l : ReadableTo(l, n) => l[n] = FrameOf(o[n])
           /\ ReadableTo(l, Len(l)) => Len(l) = Len(o)
<1>1. Len(l) \in Nat /\ DOMAIN l = 1 .. Len(l)
  OBVIOUS
<1>2. \A n \in Int : n >= i => ~ReadableTo(l, n)
  <2>1. ASSUME NEW n \in Int, n >= i PROVE i \in 1 .. n
    BY <1>1, <2>1
  <2> QED BY <2>1 DEF ReadableTo
<1>3. ASSUME NEW n \in DOMAIN l, ReadableTo(l, n) PROVE l[n] = FrameOf(o[n])
  <2>1. n \in 1 .. i - 1
    BY <1>1, <1>2, <1>3
  <2> QED BY <2>1
<1>4. ~ReadableTo(l, Len(l))
  BY <1>1, <1>2
<1> QED BY <1>3, <1>4

LEMMA LogDamage == LogInv /\ Damage => LogInv'
<1> SUFFICES ASSUME LogInv, Damage PROVE LogInv'
  OBVIOUS
<1>1. /\ UNCHANGED <<stage, schema, ops>>
      /\ stage # "idle" => schema \in Schemas
      /\ ops \in Seq(Seq(Operations)) /\ log \in Seq(Frames) /\ Len(log) <= Len(ops)
      /\ Len(log) \in Nat /\ DOMAIN log = 1 .. Len(log) /\ Len(ops) \in Nat
      /\ \A i \in DOMAIN log : Readable(log[i])
      /\ \A n \in DOMAIN log : ReadableTo(log, n) => log[n] = FrameOf(ops[n])
  BY DEF LogInv, Damage
<1>2. \A n \in DOMAIN log : log[n] = FrameOf(ops[n])
  <2>1. ASSUME NEW n \in DOMAIN log PROVE ReadableTo(log, n)
    <3>1. \A k \in 1 .. n : k \in DOMAIN log
      BY <1>1
    <3> QED BY <1>1, <3>1 DEF ReadableTo
  <2> QED BY <1>1, <2>1
<1>3. PICK i \in DOMAIN log :
        \/ log' = [SubSeq(log, 1, i) EXCEPT ![i].whole = FALSE]
        \/ log' = [log EXCEPT ![i].payload = Altered(log[i].payload)]
  BY DEF Damage
<1>4. i \in 1 .. Len(log) /\ log[i] \in Frames
  BY <1>1
<1>5. /\ log' \in Seq(Frames) /\ Len(log') <= Len(log) /\ i \in DOMAIN log'
      /\ ~Readable(log'[i]) /\ \A n \in 1 .. i - 1 : log'[n] = log[n]
  <2>1. CASE log' = [SubSeq(log, 1, i) EXCEPT ![i].whole = FALSE]
    <3>1. PICK t \in Seq(Frames) : /\ t = SubSeq(log, 1, i) /\ Len(t) = i
                                   /\ \A n \in 1 .. i : t[n] = log[n]
      <4>1. i \in 0 .. Len(log)
        BY <1>1, <1>4
      <4>2. /\ SubSeq(log, 1, i) \in Seq(Frames) /\ Len(SubSeq(log, 1, i)) = i
            /\ \A n \in 1 .. i : SubSeq(log, 1, i)[n] = log[n]
        BY <1>1, <4>1, SubSeqPrefix
      <4> QED BY <4>2
    <3>2. [t[i] EXCEPT !.whole = FALSE] \in Frames /\ ~Readable([t[i] EXCEPT !.whole = FALSE])
      <4>1. t[i] \in Frames
        BY <1>4, <3>1
      <4> QED BY <4>1 DEF Frames, Readable
    <3>3. log' = [t EXCEPT ![i] = [t[i] EXCEPT !.whole = FALSE]]
      BY <2>1, <3>1
    <3>4. /\ log' \in Seq(Frames) /\ Len(log') = i /\ log'[i] = [t[i] EXCEPT !.whole = FALSE]
          /\ DOMAIN log' = 1 .. i /\ \A n \in 1 .. i - 1 : log'[n] = t[n]
      <4>1. i \in 1 .. Len(t) /\ DOMAIN t = 1 .. i
        BY <1>4, <3>1
      <4>2. /\ log' \in Seq(Frames) /\ Len(log') = Len(t) /\ DOMAIN log' = DOMAIN t
            /\ log'[i] = [t[i] EXCEPT !.whole = FALSE]
            /\ \A n \in DOMAIN t : n # i => log'[n] = t[n]
        <5>1. PICK x \in Frames : x = [t[i] EXCEPT !.whole = FALSE]
          BY <3>2
        <5>2. log' = [t EXCEPT ![i] = x]
          BY <3>3, <5>1
        <5>3. PICK u : u = log'
          OBVIOUS
        <5>4. /\ u \in Seq(Frames) /\ Len(u) = Len(t) /\ DOMAIN u = DOMAIN t
              /\ u[i] = x /\ \A n \in DOMAIN t : n # i => u[n] = t[n]
          BY <4>1, <5>2, <5>3, SeqUpdate
        <5> QED BY <5>1, <5>3, <5>4
      <4>3. \A n \in 1 .. i - 1 : n \in 1 .. i /\ n # i
        BY <1>4
      <4> QED BY <3>1, <4>1, <4>2, <4>3
    <3>5. i <= Len(log) /\ i \in 1 .. i /\ \A n \in 1 .. i - 1 : n \in 1 .. i
      BY <1>1, <1>4
    <3> QED BY <3>1, <3>2, <3>4, <3>5
  <2>2. CASE log' = [log EXCEPT ![i].payload = Altered(log[i].payload)]
    <3>1. PICK f \in Frames : f = log[i]
      BY <1>4
    <3> DEFINE p == f.payload
               q == Altered(p)
               g == [f EXCEPT !.payload = q]
    <3>2. p \in Seq(Int) /\ f.crc = p /\ Len(p) \in Nat /\ Len(p) # 0
      <4>1. f = FrameOf(ops[i])
        BY <1>2, <3>1
      <4>2. f.crc = p /\ f.len = Len(p)
        BY <4>1 DEF FrameOf
      <4>3. f.len # 0
        BY <1>1, <3>1 DEF Readable
      <4>4. p \in Seq(Int)
        BY DEF Frames
      <4> QED BY <4>2, <4>3, <4>4
    <3>3. q \in Seq(Int) /\ q # p
      <4> HIDE DEF p
      <4>1. Len(p) \in DOMAIN p /\ p[Len(p)] \in Int
        BY <3>2
      <4>2. q = [p EXCEPT ![Len(p)] = p[Len(p)] + 1] /\ q[Len(p)] = p[Len(p)] + 1
        BY <4>1 DEF Altered
      <4>3. p[Len(p)] + 1 # p[Len(p)] /\ p[Len(p)] + 1 \in Int
        BY <4>1
      <4> HIDE DEF q
      <4>4. q \in Seq(Int)
        BY <3>2, <4>1, <4>2, <4>3
      <4> QED BY <4>2, <4>3, <4>4
    <3>4. g \in Frames /\ g.payload = q /\ g.crc = p
      <4>1. g \in Frames /\ g.payload = q /\ g.crc = f.crc
        <5> HIDE DEF q
        <5> QED BY <3>3 DEF Frames
      <4> QED BY <3>2, <4>1
    <3>5. ~Readable(g)
      BY <3>3, <3>4 DEF Readable
    <3>6. log' = [log EXCEPT ![i] = g]
      <4>1. log' = [log EXCEPT ![i] = [log[i] EXCEPT !.payload = Altered(log[i].payload)]]
        BY <2>2
      <4> QED BY <3>1, <4>1
    <3> HIDE DEF g
    <3>7. log' \in Seq(Frames) /\ Len(log') = Len(log) /\ log'[i] = g /\ DOMAIN log' = DOMAIN log
      BY <1>1, <1>4, <3>4, <3>6
    <3>8. \A n \in 1 .. i - 1 : log'[n] = log[n]
      <4>1. \A n \in 1 .. i - 1 : n \in DOMAIN log /\ n # i
        BY <1>1, <1>4
      <4> QED BY <3>6, <4>1
    <3> QED BY <1>1, <3>5, <3>7, <3>8
  <2> QED BY <1>3, <2>1, <2>2
<1>6. Len(log') <= Len(ops) /\ \A n \in 1 .. i - 1 : log'[n] = FrameOf(ops[n])
  <2>1. Len(log') \in Nat /\ Len(log') <= Len(log)
    BY <1>5
  <2>2. \A n \in 1 .. i - 1 : n \in DOMAIN log
    BY <1>1, <1>4
  <2>3. \A n \in 1 .. i - 1 : log'[n] = log[n] /\ log[n] = FrameOf(ops[n])
    BY <1>2, <1>5, <2>2
  <2>4. \A n \in 1 .. i - 1 : log'[n] = FrameOf(ops[n])
    BY <2>3
  <2>5. Len(log') <= Len(ops)
    BY <1>1, <2>1
  <2> QED BY <2>4, <2>5
<1>7. /\ \A n \in DOMAIN log' : ReadableTo(log', n) => log'[n] = FrameOf(ops[n])
      /\ ReadableTo(log', Len(log')) => Len(log') = Len(ops)
  BY <1>1, <1>5, <1>6, Unreadable
<1> QED BY <1>1, <1>5, <1>6, <1>7 DEF LogInv

LEMMA LogNext == LogInv /\ [PathNext]_path_vars => LogInv'
<1> SUFFICES ASSUME LogInv, [PathNext]_path_vars PROVE LogInv'
  OBVIOUS
<1>1. CASE CreateTable
  BY <1>1 DEF LogInv, CreateTable
<1>2. CASE AppendBatch
  BY <1>2, LogAppend
<1>3. CASE Damage
  BY <1>3, LogDamage
<1>4. CASE Recover
  BY <1>4 DEF LogInv, Recover
<1>5. CASE Flush
  <2>1. ops' = <<>> /\ log' = <<>> /\ schema' = schema /\ stage # "idle"
    BY <1>5 DEF Flush
  <2>2. <<>> \in Seq(Seq(Operations)) /\ <<>> \in Seq(Frames) /\ Len(<<>>) = 0
    OBVIOUS
  <2>3. DOMAIN log' = {} /\ Len(log') <= Len(ops') /\ Len(log') = Len(ops')
    BY <2>1, <2>2
  <2> QED BY <2>1, <2>2, <2>3 DEF LogInv
<1>6. CASE Reopen \/ Compact \/ UNCHANGED path_vars
  <2>1. UNCHANGED <<schema, ops, log>> /\ (stage' # "idle" => stage # "idle")
    BY <1>6 DEF Reopen, Compact, path_vars
  <2> QED BY <2>1 DEF LogInv
<1> QED BY <1>1, <1>2, <1>3, <1>4, <1>5, <1>6 DEF PathNext

LEMMA LogAlways == PathSpec => []LogInv
  BY LogInit, LogNext, PTL DEF PathSpec

LEMMA ReplayStep == LogInv /\ Recover => LogReplays'
<1> SUFFICES ASSUME LogInv, Recover, Lengths' PROVE LogReplays'
  BY DEF LogReplays
<1> DEFINE good == {i \in DOMAIN log : \A j \in 1 .. i : Readable(log[j])}
           same == {i \in DOMAIN log : \A j \in 1 .. i :
                        log[j].whole /\ log[j] = FrameOf(ops[j]) /\ log[j].len <= FrameLimit}
           C == Cardinality(good)
           N == Len(log)
<1>1. /\ UNCHANGED <<schema, ops, log>> /\ memtable' = Range(Recovered(log))
  BY DEF Recover
<1>2. /\ ops \in Seq(Seq(Operations)) /\ log \in Seq(Frames) /\ N <= Len(ops)
      /\ N \in Nat /\ DOMAIN log = 1 .. N /\ Len(ops) \in Nat
      /\ \A n \in DOMAIN log : ReadableTo(log, n) => log[n] = FrameOf(ops[n])
  BY DEF LogInv
<1>3. \A i \in 1 .. N : ops[i] \in Seq(Operations)
  BY <1>2
<1>4. \A i \in good : \A j \in 1 .. i : j \in good
  <2>1. ASSUME NEW i \in good, NEW j \in 1 .. i PROVE j \in good
    <3>1. j \in 1 .. N /\ \A k \in 1 .. j : k \in 1 .. i
      BY <1>2
    <3> QED BY <1>2, <3>1
  <2> QED BY <2>1
<1>5. \A i \in good : log[i] = FrameOf(ops[i]) /\ Readable(log[i])
  <2>1. ASSUME NEW i \in good PROVE log[i] = FrameOf(ops[i]) /\ Readable(log[i])
    <3>1. i \in DOMAIN log /\ i \in 1 .. i
      BY <1>2
    <3> QED BY <1>2, <3>1 DEF ReadableTo
  <2> QED BY <2>1
<1>6. same = good
  <2>1. ASSUME NEW i \in good PROVE i \in same
    <3>1. \A j \in 1 .. i : log[j] = FrameOf(ops[j]) /\ Readable(log[j])
      BY <1>4, <1>5
    <3> QED BY <3>1 DEF Readable
  <2>2. ASSUME NEW i \in same PROVE i \in good
    <3>1. ASSUME NEW j \in 1 .. i PROVE Readable(log[j])
      <4>1. log[j].whole /\ log[j] = FrameOf(ops[j]) /\ log[j].len <= FrameLimit
        OBVIOUS
      <4>2. j \in 1 .. N
        BY <1>2
      <4>3. FrameOf(ops[j]).len # 0
        BY <1>3, <4>2, FrameTyped
      <4>4. FrameOf(ops[j]).crc = FrameOf(ops[j]).payload
        BY DEF FrameOf
      <4> QED BY <4>1, <4>3, <4>4, Zenon DEF Readable
    <3> QED BY <3>1
  <2> QED BY <2>1, <2>2
<1>7. C \in 0 .. N /\ good = 1 .. C
  <2>1. good \in SUBSET (1 .. N)
    BY <1>2
  <2> HIDE DEF good
  <2> QED BY <1>2, <1>4, <2>1, PrefixSet
<1>8. \A i \in 1 .. C : DecodeOps(log[i].payload) = ops[i]
  <2>1. ASSUME NEW i \in 1 .. C PROVE DecodeOps(log[i].payload) = ops[i]
    <3>1. i \in good /\ i \in 1 .. N
      BY <1>2, <1>7
    <3>2. log[i].payload = EncodeOps(ops[i])
      BY <1>5, <3>1 DEF FrameOf
    <3>3. ops[i] \in Seq(Operations) /\ Len(ops[i]) \in Nat /\ DOMAIN ops[i] = 1 .. Len(ops[i])
      BY <1>3, <3>1
    <3>4. ASSUME NEW j \in DOMAIN ops[i] PROVE ShortTags(ops[i][j])
      <4>1. i \in 1 .. Len(ops)
        BY <1>2, <3>1
      <4>a. /\ \A n \in 1 .. Len(ops) : \A m \in 1 .. Len(ops[n]) :
                    \E p \in 1 .. Len(FlattenSeq(ops)) : FlattenSeq(ops)[p] = ops[n][m]
            /\ DOMAIN FlattenSeq(ops) = 1 .. Len(FlattenSeq(ops))
        BY <1>2, FlatRange
      <4>2. PICK p \in 1 .. Len(FlattenSeq(ops)) : FlattenSeq(ops)[p] = ops[i][j]
        BY <3>3, <4>1, <4>a
      <4>3. p \in DOMAIN FlattenSeq(ops)
        BY <4>a
      <4>4. ops[i][j] \in Range(Written)
        BY <4>2, <4>3 DEF Range, Written
      <4>5. \A o \in Range(Written) : Len(o.key.tags) < TagLimit
        BY <1>1 DEF Lengths, Written
      <4> QED BY <4>4, <4>5 DEF ShortTags
    <3> QED BY <3>2, <3>3, <3>4, FramesReadBack
  <2> QED BY <2>1
<1>9. [i \in 1 .. C |-> DecodeOps(log[i].payload)] = SubSeq(ops, 1, C)
  <2>1. PICK c \in 0 .. Len(ops) : c = C
    <3> HIDE DEF C
    <3>1. C \in 0 .. Len(ops)
      BY <1>2, <1>7
    <3> QED BY <3>1
  <2>2. SubSeq(ops, 1, c) = [i \in 1 .. c |-> ops[i]]
    BY <1>2, SubSeqPrefix
  <2> HIDE DEF C
  <2> QED BY <1>8, <2>1, <2>2
<1>10. Recovered(log) = FlattenSeq(SubSeq(ops, 1, C))
  BY <1>9 DEF Recovered
<1>11. memtable' = Range(FlattenSeq(SubSeq(ops', 1, Cardinality({i \in DOMAIN log' : \A j \in 1 .. i :
            log'[j].whole /\ log'[j] = FrameOf(ops'[j]) /\ log'[j].len <= FrameLimit}))))
  BY <1>1, <1>6, <1>10
<1> QED BY <1>11 DEF LogReplays

LEMMA ReplayKept == LogInv /\ LogReplays /\ [PathNext]_path_vars => LogReplays'
<1> SUFFICES ASSUME LogInv, LogReplays, [PathNext]_path_vars PROVE LogReplays'
  OBVIOUS
<1>1. CASE Recover
  BY <1>1, ReplayStep
<1>2. CASE CreateTable \/ AppendBatch \/ Damage \/ Flush \/ Reopen \/ Compact
  <2>1. stage' # "memtable"
    BY <1>2 DEF CreateTable, AppendBatch, Damage, Flush, Reopen, Compact
  <2> QED BY <2>1 DEF LogReplays
<1>3. CASE UNCHANGED path_vars
  BY <1>3 DEF path_vars, LogReplays, Lengths, Written, FrameOf
<1> QED BY <1>1, <1>2, <1>3 DEF PathNext

\* A log that is replayed yields the operations of its frames, in order, up to the
\* first that is torn, changed or too long (wal.rs 98-276).
THEOREM ReplayCorrect == PathSpec => []LogReplays
<1>1. PathInit => LogReplays
  BY DEF PathInit, LogReplays
<1> QED BY <1>1, ReplayKept, LogAlways, PTL DEF PathSpec

-----------------------------------------------------------------------------
(* Sets in order, and what is written.                                      *)

\* A finite set with a strict order can be put in that order.
LEMMA Arranged ==
    ASSUME NEW S, IsFiniteSet(S), NEW L, Orders(L, S)
    PROVE  \E q \in [1 .. Cardinality(S) -> S] :
                IsInjective(q) /\ \A i, j \in DOMAIN q : i < j => <<q[i], q[j]>> \in L
<1> DEFINE C == Cardinality(S)
           rank(x) == Cardinality(Below(L, S, x))
           q == [n \in 1 .. C |-> CHOOSE x \in S : rank(x) = n - 1]
<1>1. /\ \A x \in S : rank(x) \in 0 .. C - 1
      /\ \A x, y \in S : <<x, y>> \in L => rank(x) < rank(y)
      /\ \A n \in 1 .. C : \E x \in S : rank(x) = n - 1
  BY RankFacts
<1>2. C \in Nat
  BY FS_CardinalityType
<1> HIDE DEF rank
<1>3. \A n \in 1 .. C : q[n] \in S /\ rank(q[n]) = n - 1
  <2>1. ASSUME NEW n \in 1 .. C PROVE q[n] \in S /\ rank(q[n]) = n - 1
    <3>1. \E x \in S : rank(x) = n - 1
      BY <1>1
    <3>2. q[n] = CHOOSE x \in S : rank(x) = n - 1
      OBVIOUS
    <3> HIDE DEF q
    <3> QED BY <3>1, <3>2
  <2> QED BY <2>1
<1>4. DOMAIN q = 1 .. C /\ q = [n \in DOMAIN q |-> q[n]]
  OBVIOUS
<1> HIDE DEF q, C
<1>5. q \in [1 .. C -> S]
  BY <1>3, <1>4
<1>6. ASSUME NEW i \in 1 .. C, NEW j \in 1 .. C, i < j PROVE <<q[i], q[j]>> \in L
  <2>1. q[i] \in S /\ q[j] \in S /\ rank(q[i]) = i - 1 /\ rank(q[j]) = j - 1
    BY <1>3
  <2>2. i - 1 < j - 1 /\ ~ (j - 1 < i - 1) /\ i - 1 # j - 1
    BY <1>2, <1>6
  <2>3. rank(q[i]) # rank(q[j]) /\ ~ (rank(q[j]) < rank(q[i]))
    BY <2>1, <2>2
  <2>4. <<q[j], q[i]>> \notin L /\ q[i] # q[j]
    BY <1>1, <2>1, <2>3
  <2> QED BY <2>1, <2>4 DEF Orders
<1>7. IsInjective(q)
  <2>1. ASSUME NEW i \in 1 .. C, NEW j \in 1 .. C, q[i] = q[j] PROVE i = j
    <3>1. rank(q[i]) = i - 1 /\ rank(q[j]) = j - 1
      BY <1>3
    <3>2. i - 1 = j - 1
      BY <2>1, <3>1
    <3> QED BY <1>2, <3>2
  <2> QED BY <1>4, <2>1 DEF IsInjective
<1> QED BY <1>4, <1>5, <1>6, <1>7 DEF C

\* Such a sequence has all elements of the set.
LEMMA ArrangedAll ==
    ASSUME NEW S, IsFiniteSet(S), NEW q \in [1 .. Cardinality(S) -> S], IsInjective(q)
    PROVE  /\ q \in Seq(S) /\ Len(q) = Cardinality(S) /\ DOMAIN q = 1 .. Cardinality(S)
           /\ Cardinality(S) \in Nat /\ Range(q) = S
<1> DEFINE C == Cardinality(S)
           N == 1 .. C
<1>1. C \in Nat
  BY FS_CardinalityType
<1>2. IsFiniteSet(N) /\ Cardinality(N) = C
  <2>1. IsFiniteSet(N) /\ Cardinality(N) = IF 1 > C THEN 0 ELSE C - 1 + 1
    BY <1>1, FS_Interval
  <2> HIDE DEF N
  <2> QED BY <1>1, <2>1
<1>3. DOMAIN q = N
  OBVIOUS
<1> HIDE DEF N, C
<1>4. q \in Injection(N, S)
  BY <1>3 DEF Injection, IsInjective, N, C
<1>5. q \in Surjection(N, S)
  BY <1>2, <1>4, FS_Injection DEF C
<1>6. \A x \in S : \E n \in N : q[n] = x
  BY <1>5 DEF Surjection
<1>7. Range(q) = S
  BY <1>3, <1>6 DEF Range, N, C
<1>8. q \in Seq(S) /\ Len(q) = C
  BY <1>1 DEF C
<1> QED BY <1>1, <1>3, <1>7, <1>8 DEF N, C

-----------------------------------------------------------------------------
\* One more part makes the whole longer by it.
LEMMA FlatAppend ==
    ASSUME NEW S, NEW seqs \in Seq(Seq(S)), NEW t \in Seq(S)
    PROVE  FlattenSeq(Append(seqs, t)) = FlattenSeq(seqs) \o t
<1> DEFINE N == Len(seqs)
           more == Append(seqs, t)
<1>1. N \in Nat /\ more \in Seq(Seq(S)) /\ Len(more) = N + 1
      /\ (\A i \in 1 .. N : more[i] = seqs[i]) /\ more[N + 1] = t
  BY AppendProperties
<1> HIDE DEF more
<1>2. Len(more) \in Nat /\ Len(more) # 0
  <2> HIDE DEF N
  <2>1. PICK m \in Nat : Len(more) = m + 1
    BY <1>1
  <2> QED BY <2>1
<1>3. PICK f : FlatTo(more, N + 1, f) /\ FlattenSeq(more) = f[N + 1]
  <2>1. \E f : FlatTo(more, Len(more), f) /\ FlattenSeq(more) = f[Len(more)]
    BY <1>2, FlatFunction
  <2> QED BY <1>1, <2>1
<1>4. \A i \in 1 .. N + 1 : f[i] = IF i = 1 THEN more[i] ELSE f[i - 1] \o more[i]
  BY <1>3, Zenon DEF FlatTo
<1>5. CASE N = 0
  <2>1. f[1] = more[1] /\ 1 = N + 1
    BY <1>4, <1>5
  <2>2. FlattenSeq(more) = t
    BY <1>1, <1>3, <2>1
  <2>3. seqs = <<>> /\ FlattenSeq(seqs) = <<>>
    BY <1>5 DEF FlattenSeq
  <2>4. <<>> \o t = t
    BY ConcatEmptySeq
  <2> QED BY <2>2, <2>3, <2>4 DEF more
<1>6. CASE N # 0
  <2>1. PICK g : FlatTo(seqs, N, g) /\ FlattenSeq(seqs) = g[N]
    BY <1>1, <1>6, FlatFunction
  <2>2. \A i \in 1 .. N : g[i] = IF i = 1 THEN seqs[i] ELSE g[i - 1] \o seqs[i]
    BY <2>1, Zenon DEF FlatTo
  <2> DEFINE I == {i \in 1 .. N : f[i] = g[i]}
  <2>3. 1 \in I
    <3>1. 1 \in 1 .. N /\ 1 \in 1 .. N + 1
      BY <1>1, <1>6
    <3> QED BY <1>1, <1>4, <2>2, <3>1
  <2>4. ASSUME NEW n \in 1 .. N - 1, n \in I PROVE n + 1 \in I
    <3>1. n + 1 \in 1 .. N /\ n + 1 \in 1 .. N + 1 /\ n + 1 # 1 /\ (n + 1) - 1 = n
      <4>1. N \in Nat
        BY <1>1
      <4> HIDE DEF N
      <4> QED BY <4>1
    <3>2. f[n + 1] = f[n] \o more[n + 1] /\ g[n + 1] = g[n] \o seqs[n + 1]
      BY <1>4, <2>2, <3>1
    <3>3. f[n] = g[n] /\ more[n + 1] = seqs[n + 1]
      BY <1>1, <2>4, <3>1
    <3> QED BY <3>1, <3>2, <3>3
  <2>5. /\ 1 \in Int /\ N \in Int /\ 1 \in I /\ N \in 1 .. N
        /\ \A n \in 1 .. N - 1 : n \in I => n + 1 \in I
    BY <1>1, <1>6, <2>3, <2>4
  <2> HIDE DEF I
  <2>6. N \in I
    BY <2>5, CountingUp
  <2>7. f[N] = g[N]
    BY <2>6 DEF I
  <2>8. f[N + 1] = f[N] \o more[N + 1]
    <3>1. N + 1 \in 1 .. N + 1 /\ N + 1 # 1 /\ (N + 1) - 1 = N
      BY <1>1, <1>6
    <3> QED BY <1>4, <3>1
  <2> QED BY <1>1, <1>3, <2>1, <2>7, <2>8 DEF more
<1> QED BY <1>5, <1>6

LEMMA FiniteRange ==
    ASSUME NEW S, NEW q \in Seq(S)
    PROVE  IsFiniteSet(Range(q)) /\ Range(q) \subseteq S /\ Range(q) = {q[i] : i \in 1 .. Len(q)}
<1>1. Len(q) \in Nat /\ DOMAIN q = 1 .. Len(q) /\ \A i \in 1 .. Len(q) : q[i] \in S
  OBVIOUS
<1>2. q \in Surjection(1 .. Len(q), Range(q))
  <2>1. q \in [1 .. Len(q) -> Range(q)]
    BY <1>1 DEF Range
  <2> QED BY <1>1, <2>1 DEF Surjection, Range
<1>3. IsFiniteSet(1 .. Len(q))
  BY <1>1, FS_Interval
<1> QED BY <1>1, <1>2, <1>3, FS_Surjection DEF Range

\* The rows a table can have; a set of them that a memtable can hold.
RowsFor(s) == [key : KeysFor(s), seq : Nat, value : ValuesFor(s)]
Holdable(s, R) ==
    /\ R \in SUBSET RowsFor(s) /\ IsFiniteSet(R)
    /\ \A q, r \in R : q.seq = r.seq => q = r

\* Operations are numbered as they are written, and the rows of the memtable are
\* those of the log, or of what was read of it.
RowsInv ==
    /\ Written \in Seq(RowsFor(schema)) /\ \A p \in DOMAIN Written : Written[p].seq = p
    /\ stage = "idle" => memtable = {} /\ Written = <<>>
    /\ stage = "write" => memtable = Range(Written)
    /\ stage # "memtable" \/ Lengths => Holdable(schema, memtable)

LEMMA RowsTyped ==
    ASSUME NEW s \in Schemas
    PROVE  RowsFor(s) \subseteq Operations
<1>1. ASSUME NEW r \in RowsFor(s) PROVE r \in Operations
  <2>1. r.key \in KeysFor(s) /\ r.value \in ValuesFor(s) /\ r.seq \in Nat
        /\ r = [key |-> r.key, seq |-> r.seq, value |-> r.value]
    BY DEF RowsFor
  <2>2. [key |-> r.key, seq |-> r.seq, value |-> r.value] \in Operations
    BY <2>1, OperationTyped
  <2> QED BY <2>1, <2>2
<1> QED BY <1>1

LEMMA WrittenHoldable ==
    ASSUME NEW s, NEW w \in Seq(RowsFor(s)), \A p \in DOMAIN w : w[p].seq = p,
           NEW R \in SUBSET Range(w)
    PROVE  Holdable(s, R)
<1>1. IsFiniteSet(Range(w)) /\ Range(w) \subseteq RowsFor(s) /\ Range(w) = {w[i] : i \in 1 .. Len(w)}
  BY FiniteRange
<1>2. R \in SUBSET RowsFor(s) /\ IsFiniteSet(R)
  BY <1>1, FS_Subset
<1>3. DOMAIN w = 1 .. Len(w)
  OBVIOUS
<1>4. ASSUME NEW q \in R, NEW r \in R, q.seq = r.seq PROVE q = r
  <2>1. PICK i \in DOMAIN w, j \in DOMAIN w : q = w[i] /\ r = w[j]
    BY <1>1, <1>3
  <2> QED BY <1>4, <2>1
<1> QED BY <1>2, <1>4 DEF Holdable

LEMMA RowsInit == PathInit => RowsInv
<1> SUFFICES ASSUME PathInit PROVE RowsInv
  OBVIOUS
<1>1. ops = <<>> /\ memtable = {} /\ stage = "idle"
  BY DEF PathInit
<1>2. Written = <<>>
  BY <1>1 DEF Written, FlattenSeq
<1>3. <<>> \in Seq(RowsFor(schema)) /\ DOMAIN <<>> = {}
  OBVIOUS
<1>4. Holdable(schema, {})
  BY FS_EmptySet DEF Holdable
<1> QED BY <1>1, <1>2, <1>3, <1>4 DEF RowsInv

LEMMA RowsAppend == LogInv /\ RowsInv /\ AppendBatch => RowsInv'
<1> SUFFICES ASSUME LogInv, RowsInv, AppendBatch PROVE RowsInv'
  OBVIOUS
<1>1. stage = "write" /\ schema \in Schemas /\ UNCHANGED <<stage, schema>>
  BY DEF LogInv, AppendBatch
<1>2a. PICK n \in 1 .. MaxBatch :
        \E ks \in [1 .. n -> KeysFor(schema)], vs \in [1 .. n -> ValuesFor(schema)] :
            LET os == [i \in 1 .. n |-> [key |-> ks[i], seq |-> Len(Written) + i, value |-> vs[i]]]
            IN  ops' = Append(ops, os) /\ memtable' = memtable \cup Range(os)
  BY DEF AppendBatch
<1>2. PICK ks \in [1 .. n -> KeysFor(schema)], vs \in [1 .. n -> ValuesFor(schema)] :
        LET os == [i \in 1 .. n |-> [key |-> ks[i], seq |-> Len(Written) + i, value |-> vs[i]]]
        IN  ops' = Append(ops, os) /\ memtable' = memtable \cup Range(os)
  BY <1>2a
<1> DEFINE os == [i \in 1 .. n |-> [key |-> ks[i], seq |-> Len(Written) + i, value |-> vs[i]]]
           L == Len(Written)
<1>3. /\ Written \in Seq(RowsFor(schema)) /\ L \in Nat /\ DOMAIN Written = 1 .. L
      /\ \A p \in DOMAIN Written : Written[p].seq = p
      /\ memtable = Range(Written)
  BY <1>1 DEF RowsInv
<1>4. n \in Nat
  BY OpsAssumption
<1>5. ASSUME NEW i \in 1 .. n
      PROVE  [key |-> ks[i], seq |-> L + i, value |-> vs[i]] \in RowsFor(schema)
  <2>1. ks[i] \in KeysFor(schema) /\ vs[i] \in ValuesFor(schema) /\ L + i \in Nat
    BY <1>3, <1>4
  <2> QED BY <2>1 DEF RowsFor
<1>6. os \in Seq(RowsFor(schema)) /\ Len(os) = n /\ \A i \in 1 .. n : os[i].seq = L + i
  <2>1. os \in [1 .. n -> RowsFor(schema)]
    BY <1>5
  <2> QED BY <1>4, <2>1
<1>7. ops' = Append(ops, os) /\ memtable' = memtable \cup Range(os)
  BY <1>2
<1> HIDE DEF os
<1>8. Written' = Written \o os
  <2>1. ops \in Seq(Seq(Operations)) /\ os \in Seq(Operations)
    <3>1. \A i \in 1 .. n : os[i] \in RowsFor(schema)
      BY <1>6
    <3>2. \A i \in 1 .. n : os[i] \in Operations
      BY <1>1, <3>1, RowsTyped
    <3>3. os = [i \in 1 .. n |-> os[i]]
      BY <1>6
    <3>4. os \in [1 .. n -> Operations]
      BY <3>2, <3>3
    <3>5. ops \in Seq(Seq(Operations))
      BY DEF LogInv
    <3> QED BY <1>4, <3>4, <3>5
  <2>2. FlattenSeq(Append(ops, os)) = FlattenSeq(ops) \o os
    BY <2>1, FlatAppend
  <2> QED BY <1>7, <2>2 DEF Written
<1>9. /\ Written' \in Seq(RowsFor(schema)) /\ Len(Written') = L + n /\ DOMAIN Written' = 1 .. L + n
      /\ \A i \in 1 .. L : Written'[i] = Written[i]
      /\ \A j \in 1 .. n : Written'[L + j] = os[j]
  <2>1. /\ Written \o os \in Seq(RowsFor(schema)) /\ Len(Written \o os) = L + n
        /\ \A i \in 1 .. L : (Written \o os)[i] = Written[i]
        /\ \A j \in 1 .. n : (Written \o os)[L + j] = os[j]
    <3>1. PICK w \in Seq(RowsFor(schema)), v \in Seq(RowsFor(schema)) :
                w = Written /\ v = os /\ Len(w) = L /\ Len(v) = n
      BY <1>3, <1>6
    <3>2. /\ w \o v \in Seq(RowsFor(schema)) /\ Len(w \o v) = Len(w) + Len(v)
          /\ \A i \in 1 .. Len(w) : (w \o v)[i] = w[i]
          /\ \A j \in 1 .. Len(v) : (w \o v)[Len(w) + j] = v[j]
      BY Joined
    <3> HIDE DEF L
    <3> QED BY <3>1, <3>2
  <2>2. PICK u : u = Written'
    OBVIOUS
  <2>3. u \in Seq(RowsFor(schema)) /\ Len(u) = L + n
    BY <1>8, <2>1, <2>2
  <2>4. DOMAIN u = 1 .. L + n
    BY <2>3
  <2> QED BY <1>1, <1>8, <2>1, <2>2, <2>3, <2>4
<1>10. ASSUME NEW p \in 1 .. L + n PROVE Written'[p].seq = p
  <2>1. CASE p \in 1 .. L
    BY <1>3, <1>9, <2>1
  <2>2. CASE p \notin 1 .. L
    <3>1. PICK j \in 1 .. n : p = L + j
      <4>1. p - L \in 1 .. n /\ p = L + (p - L)
        BY <1>3, <1>4, <2>2
      <4> QED BY <4>1
    <3> QED BY <1>6, <1>9, <3>1
  <2> QED BY <2>1, <2>2
<1>11. memtable' = Range(Written')
  <2>1. \A x \in Range(Written') : x \in Range(Written) \cup Range(os)
    <3>1. ASSUME NEW p \in 1 .. L + n PROVE Written'[p] \in Range(Written) \cup Range(os)
      <4>1. CASE p \in 1 .. L
        BY <1>3, <1>9, <4>1 DEF Range
      <4>2. CASE p \notin 1 .. L
        <5>1. p - L \in 1 .. n /\ p = L + (p - L)
          BY <1>3, <1>4, <4>2
        <5>2. PICK j \in 1 .. n : p = L + j
          BY <5>1
        <5>3. j \in DOMAIN os
          BY <1>6
        <5> QED BY <1>9, <5>2, <5>3 DEF Range
      <4> QED BY <4>1, <4>2
    <3> QED BY <1>9, <3>1 DEF Range
  <2>2. \A x \in Range(Written) : x \in Range(Written')
    <3>1. \A p \in 1 .. L : p \in 1 .. L + n /\ Written'[p] = Written[p]
      BY <1>3, <1>4, <1>9
    <3> QED BY <1>3, <1>9, <3>1 DEF Range
  <2>3. \A x \in Range(os) : x \in Range(Written')
    <3>1. \A j \in 1 .. n : L + j \in 1 .. L + n /\ Written'[L + j] = os[j]
      BY <1>3, <1>4, <1>9
    <3>2. DOMAIN os = 1 .. n
      BY <1>6
    <3> QED BY <1>9, <3>1, <3>2 DEF Range
  <2> QED BY <1>3, <1>7, <2>1, <2>2, <2>3
<1>12. Holdable(schema, memtable')
  <2>1. PICK w : w = Written'
    OBVIOUS
  <2>2. w \in Seq(RowsFor(schema)) /\ (\A p \in DOMAIN w : w[p].seq = p) /\ memtable' \in SUBSET Range(w)
    BY <1>9, <1>10, <1>11, <2>1
  <2> QED BY <2>2, WrittenHoldable
<1> QED BY <1>1, <1>9, <1>10, <1>11, <1>12 DEF RowsInv

LEMMA RowsRecover == LogInv /\ RowsInv /\ Recover => RowsInv'
<1> SUFFICES ASSUME LogInv, RowsInv, Recover PROVE RowsInv'
  OBVIOUS
<1>1. UNCHANGED <<schema, ops, log>> /\ stage' = "memtable" /\ Written' = Written
  BY DEF Recover, Written
<1>2. Written \in Seq(RowsFor(schema)) /\ \A p \in DOMAIN Written : Written[p].seq = p
  BY DEF RowsInv
<1>3. ASSUME Lengths' PROVE Holdable(schema, memtable')
  <2> DEFINE C == Cardinality({i \in DOMAIN log : \A j \in 1 .. i :
                    log[j].whole /\ log[j] = FrameOf(ops[j]) /\ log[j].len <= FrameLimit})
  <2>1. memtable' = Range(FlattenSeq(SubSeq(ops, 1, C)))
    <3>1. stage' = "memtable" /\ LogReplays'
      BY <1>1, ReplayStep
    <3> QED BY <1>1, <1>3, <3>1 DEF LogReplays
  <2>2. C \in 0 .. Len(ops)
    <3> DEFINE I == {i \in DOMAIN log : \A j \in 1 .. i :
                    log[j].whole /\ log[j] = FrameOf(ops[j]) /\ log[j].len <= FrameLimit}
    <3>1. Len(log) \in Nat /\ DOMAIN log = 1 .. Len(log) /\ Len(ops) \in Nat /\ Len(log) <= Len(ops)
      BY DEF LogInv
    <3>2. IsFiniteSet(I) /\ Cardinality(I) <= Cardinality(1 .. Len(log))
      <4>1. I \in SUBSET (1 .. Len(log)) /\ IsFiniteSet(1 .. Len(log))
        BY <3>1, FS_Interval
      <4> HIDE DEF I
      <4> QED BY <4>1, FS_Subset
    <3> HIDE DEF I
    <3>3. Cardinality(I) \in Nat
      BY <3>2, FS_CardinalityType
    <3>4. Cardinality(1 .. Len(log)) = Len(log)
      <4>1. Cardinality(1 .. Len(log)) = IF 1 > Len(log) THEN 0 ELSE Len(log) - 1 + 1
        <5>1. PICK m \in Nat : m = Len(log)
          BY <3>1
        <5>2. Cardinality(1 .. m) = IF 1 > m THEN 0 ELSE m - 1 + 1
          BY FS_Interval
        <5> QED BY <5>1, <5>2
      <4> QED BY <3>1, <4>1
    <3>5. Cardinality(I) \in 0 .. Len(ops)
      BY <3>1, <3>2, <3>3, <3>4
    <3> QED BY <3>5 DEF I
  <2> HIDE DEF C
  <2>3. PICK t \in Seq(Seq(Operations)) : /\ t = SubSeq(ops, 1, C) /\ Len(t) = C
                                          /\ \A i \in 1 .. C : t[i] = ops[i]
    <3>1. ops \in Seq(Seq(Operations))
      BY DEF LogInv
    <3>2. /\ SubSeq(ops, 1, C) \in Seq(Seq(Operations)) /\ Len(SubSeq(ops, 1, C)) = C
          /\ \A n \in 1 .. C : SubSeq(ops, 1, C)[n] = ops[n]
      BY <2>2, <3>1, SubSeqPrefix
    <3> QED BY <3>2
  <2>4. memtable' \in SUBSET Range(Written)
    <3>1. /\ \A p \in 1 .. Len(FlattenSeq(t)) :
                \E i \in 1 .. Len(t) : \E j \in 1 .. Len(t[i]) : FlattenSeq(t)[p] = t[i][j]
          /\ DOMAIN FlattenSeq(t) = 1 .. Len(FlattenSeq(t))
      BY FlatRange
    <3>2. /\ \A i \in 1 .. Len(ops) : \A j \in 1 .. Len(ops[i]) :
                \E p \in 1 .. Len(FlattenSeq(ops)) : FlattenSeq(ops)[p] = ops[i][j]
          /\ DOMAIN FlattenSeq(ops) = 1 .. Len(FlattenSeq(ops))
      <4>1. ops \in Seq(Seq(Operations))
        BY DEF LogInv
      <4> QED BY <4>1, FlatRange
    <3>3. ASSUME NEW p \in 1 .. Len(FlattenSeq(t)) PROVE FlattenSeq(t)[p] \in Range(Written)
      <4>1. PICK i \in 1 .. Len(t) : \E j \in 1 .. Len(t[i]) : FlattenSeq(t)[p] = t[i][j]
        BY <3>1
      <4>2. i \in 1 .. Len(ops) /\ t[i] = ops[i]
        <5>1. Len(ops) \in Nat
          BY DEF LogInv
        <5> QED BY <2>2, <2>3, <5>1
      <4>3. PICK j \in 1 .. Len(ops[i]) : FlattenSeq(t)[p] = ops[i][j]
        BY <4>1, <4>2
      <4>4. PICK m \in 1 .. Len(FlattenSeq(ops)) : FlattenSeq(ops)[m] = ops[i][j]
        BY <3>2, <4>2
      <4> QED BY <3>2, <4>3, <4>4 DEF Written, Range
    <3> QED BY <2>1, <2>3, <3>1, <3>3 DEF Range
  <2> QED BY <1>2, <2>4, WrittenHoldable
<1> QED BY <1>1, <1>2, <1>3 DEF RowsInv

LEMMA RowsNext == LogInv /\ RowsInv /\ [PathNext]_path_vars => RowsInv'
<1> SUFFICES ASSUME LogInv, RowsInv, [PathNext]_path_vars PROVE RowsInv'
  OBVIOUS
<1>1. CASE CreateTable
  <2>1. Written = <<>> /\ memtable = {} /\ UNCHANGED <<ops, memtable>> /\ stage' = "write"
    BY <1>1 DEF CreateTable, RowsInv
  <2>2. Written' = <<>> /\ memtable' = {}
    BY <2>1 DEF Written
  <2>3. <<>> \in Seq(RowsFor(schema')) /\ DOMAIN <<>> = {} /\ Range(<<>>) = {}
    BY DEF Range
  <2>4. Holdable(schema', {})
    BY FS_EmptySet DEF Holdable
  <2> QED BY <2>1, <2>2, <2>3, <2>4 DEF RowsInv
<1>2. CASE AppendBatch
  BY <1>2, RowsAppend
<1>3. CASE Damage \/ UNCHANGED path_vars
  <2>1. UNCHANGED <<stage, schema, ops, memtable>>
    BY <1>3 DEF Damage, path_vars
  <2> QED BY <2>1 DEF RowsInv, Written, Lengths
<1>4. CASE Recover
  BY <1>4, RowsRecover
<1>5. CASE Flush
  <2>1. /\ ops' = <<>> /\ UNCHANGED <<schema, memtable>> /\ stage' = "sst"
        /\ Holdable(schema, memtable)
    BY <1>5 DEF Flush, RowsInv
  <2>2. Written' = <<>>
    BY <2>1 DEF Written, FlattenSeq
  <2>3. <<>> \in Seq(RowsFor(schema)) /\ DOMAIN <<>> = {}
    OBVIOUS
  <2> QED BY <2>1, <2>2, <2>3 DEF RowsInv
<1>6. CASE Reopen \/ Compact
  <2>1. /\ UNCHANGED <<schema, ops, memtable>> /\ stage' \in {"reopened", "compacted"}
        /\ stage \in {"sst", "reopened"}
    BY <1>6 DEF Reopen, Compact
  <2>2. Written' = Written
    BY <2>1 DEF Written
  <2> QED BY <2>1, <2>2 DEF RowsInv
<1> QED BY <1>1, <1>2, <1>3, <1>4, <1>5, <1>6 DEF PathNext

LEMMA RowsAlways == PathSpec => []RowsInv
  BY LogAlways, RowsInit, RowsNext, PTL DEF PathSpec

-----------------------------------------------------------------------------
(* The rows of a series that are kept.                                      *)

NewestOf(R) == {r \in R : NewestOfKey(r, R)}

LEMMA RowParts ==
    ASSUME NEW s \in Schemas, NEW r \in RowsFor(s)
    PROVE  /\ r.key \in KeysFor(s) /\ r.value \in ValuesFor(s) /\ r.seq \in Nat
           /\ r.key.tags \in Seq(Nat) /\ r.key.ts \in Int
           /\ r.key = [tags |-> r.key.tags, ts |-> r.key.ts]
           /\ r.value \in {None} \cup {Some(v) : v \in Seq(Nat)}
<1>1. r.key \in KeysFor(s) /\ r.value \in ValuesFor(s) /\ r.seq \in Nat
  BY DEF RowsFor
<1>2. r.key \in [tags : Seq(Nat), ts : Int] /\ r.value \in {None} \cup {Some(v) : v \in Seq(Nat)}
  BY <1>1, KeysTyped
<1> QED BY <1>1, <1>2

LEMMA NewestFacts ==
    ASSUME NEW s \in Schemas, NEW R, Holdable(s, R)
    PROVE  /\ NewestOf(R) \in SUBSET R /\ IsFiniteSet(NewestOf(R))
           /\ \A q, r \in NewestOf(R) : q.key = r.key => q = r
           /\ \A q \in R : \E r \in NewestOf(R) : r.key = q.key
<1>1. R \in SUBSET RowsFor(s) /\ IsFiniteSet(R) /\ (\A q, r \in R : q.seq = r.seq => q = r)
      /\ \A r \in R : r.seq \in Nat
  <2>1. R \in SUBSET RowsFor(s) /\ IsFiniteSet(R) /\ \A q, r \in R : q.seq = r.seq => q = r
    BY DEF Holdable
  <2> QED BY <2>1, RowParts
<1>2. NewestOf(R) \in SUBSET R /\ IsFiniteSet(NewestOf(R))
  BY <1>1, FS_Subset DEF NewestOf
<1>3. ASSUME NEW q \in NewestOf(R), NEW r \in NewestOf(R), q.key = r.key PROVE q = r
  <2>1. q \in R /\ r \in R /\ q.seq <= r.seq /\ r.seq <= q.seq
    BY <1>3 DEF NewestOf, NewestOfKey
  <2>2. q.seq \in Nat /\ r.seq \in Nat
    BY <1>1, <2>1
  <2>3. q.seq = r.seq
    BY <2>1, <2>2
  <2> QED BY <1>1, <2>1, <2>3
<1>4. ASSUME NEW q \in R PROVE \E r \in NewestOf(R) : r.key = q.key
  <2> DEFINE Q == {r \in R : r.key = q.key}
             N == {r.seq : r \in Q}
  <2>1. N \in SUBSET Int /\ N # {} /\ IsFiniteSet(N)
    <3>1. N \in SUBSET Int /\ q \in Q
      BY <1>1
    <3>2. IsFiniteSet(Q)
      BY <1>1, FS_Subset
    <3> DEFINE f == [r \in Q |-> r.seq]
    <3>3. f \in Surjection(Q, N)
      BY DEF Surjection
    <3> HIDE DEF f, Q
    <3>4. IsFiniteSet(N)
      <4> HIDE DEF N
      <4> QED BY <3>2, <3>3, FS_Surjection
    <3> QED BY <3>1, <3>4
  <2>2. Largest(N) \in N /\ \A n \in N : n <= Largest(N)
    <3> HIDE DEF N
    <3> QED BY <2>1, LargestIsLargest
  <2>3. PICK r \in Q : r.seq = Largest(N)
    BY <2>2
  <2>4. \A x \in R : x.key = r.key => x.seq <= r.seq
    BY <2>2, <2>3
  <2> QED BY <2>3, <2>4 DEF NewestOf, NewestOfKey
<1> QED BY <1>2, <1>3, <1>4

LEMMA KeptFacts ==
    ASSUME NEW s \in Schemas, NEW R, Holdable(s, R), NEW t, \A r \in R : r.key.tags = t
    PROVE  /\ Kept(R) \in Seq(NewestOf(R)) /\ Len(Kept(R)) \in Nat
           /\ DOMAIN Kept(R) = 1 .. Len(Kept(R)) /\ Range(Kept(R)) = NewestOf(R)
           /\ \A i, j \in DOMAIN Kept(R) : i < j => Kept(R)[i].key.ts < Kept(R)[j].key.ts
<1> DEFINE N == NewestOf(R)
           L == {p \in N \X N : p[1].key.ts < p[2].key.ts}
           Is(q) == IsInjective(q) /\ \A i, j \in DOMAIN q : i < j => q[i].key.ts < q[j].key.ts
<1>1. /\ N \in SUBSET R /\ IsFiniteSet(N)
      /\ \A q, r \in N : q.key = r.key => q = r
      /\ \A r \in N : r.key.ts \in Int
      /\ \A q, r \in N : q.key.ts = r.key.ts => q = r
  <2>1. N \in SUBSET R /\ IsFiniteSet(N) /\ \A q, r \in N : q.key = r.key => q = r
    BY NewestFacts
  <2> HIDE DEF N
  <2>2. \A r \in N : r \in R /\ r \in RowsFor(s) /\ r.key.tags = t
    BY <2>1 DEF Holdable
  <2>3. \A r \in N : r.key.ts \in Int /\ r.key = [tags |-> t, ts |-> r.key.ts]
    BY <2>2, RowParts
  <2>4. \A q, r \in N : q.key.ts = r.key.ts => q = r
    <3>1. ASSUME NEW q \in N, NEW r \in N, q.key.ts = r.key.ts PROVE q = r
      <4>1. q.key = [tags |-> t, ts |-> q.key.ts] /\ r.key = [tags |-> t, ts |-> r.key.ts]
        BY <2>3
      <4>2. q.key = r.key
        BY <3>1, <4>1
      <4> QED BY <2>1, <4>2
    <3> QED BY <3>1
  <2> QED BY <2>1, <2>3, <2>4
<1> HIDE DEF N
<1>2. \A q, r \in N : <<q, r>> \in L <=> q.key.ts < r.key.ts
  OBVIOUS
<1> HIDE DEF L
<1>3. Orders(L, N)
  <2>1. ASSUME NEW x \in N, NEW y \in N PROVE <<x, y>> \in L \/ <<y, x>> \in L \/ x = y
    <3>1. x.key.ts \in Int /\ y.key.ts \in Int
      BY <1>1
    <3>2. x.key.ts < y.key.ts \/ y.key.ts < x.key.ts \/ x.key.ts = y.key.ts
      BY <3>1
    <3> QED BY <1>1, <1>2, <3>2
  <2>2. ASSUME NEW x \in N, NEW y \in N, NEW z \in N, <<x, y>> \in L, <<y, z>> \in L
        PROVE  <<x, z>> \in L
    <3>1. x.key.ts \in Int /\ y.key.ts \in Int /\ z.key.ts \in Int
      BY <1>1
    <3>2. x.key.ts < y.key.ts /\ y.key.ts < z.key.ts
      BY <1>2, <2>2
    <3>3. x.key.ts < z.key.ts
      BY <3>1, <3>2
    <3> QED BY <1>2, <3>3
  <2>3. ASSUME NEW x \in N PROVE <<x, x>> \notin L
    <3>1. x.key.ts \in Int
      BY <1>1
    <3>2. ~ (x.key.ts < x.key.ts)
      BY <3>1
    <3> QED BY <1>2, <3>2
  <2> QED BY <2>1, <2>2, <2>3 DEF Orders
<1>4. \E q \in [1 .. Cardinality(N) -> N] : Is(q)
  <2>1. PICK q \in [1 .. Cardinality(N) -> N] :
            IsInjective(q) /\ \A i, j \in DOMAIN q : i < j => <<q[i], q[j]>> \in L
    BY <1>1, <1>3, Arranged
  <2>2. ASSUME NEW i \in DOMAIN q, NEW j \in DOMAIN q, i < j PROVE q[i].key.ts < q[j].key.ts
    <3>1. q[i] \in N /\ q[j] \in N
      OBVIOUS
    <3>2. <<q[i], q[j]>> \in L
      BY <2>1, <2>2
    <3> QED BY <1>2, <3>1, <3>2
  <2> QED BY <2>1, <2>2
<1>5. Kept(R) = CHOOSE q \in [1 .. Cardinality(N) -> N] : Is(q)
  BY DEF Kept, InOrderOf, N, NewestOf
<1> HIDE DEF Is
<1>6. Kept(R) \in [1 .. Cardinality(N) -> N] /\ Is(Kept(R))
  BY <1>4, <1>5
<1>7. /\ IsInjective(Kept(R))
      /\ \A i, j \in DOMAIN Kept(R) : i < j => Kept(R)[i].key.ts < Kept(R)[j].key.ts
  BY <1>6 DEF Is
<1>8. PICK k : k = Kept(R)
  OBVIOUS
<1>9. k \in Seq(N) /\ Len(k) = Cardinality(N) /\ DOMAIN k = 1 .. Cardinality(N)
      /\ Cardinality(N) \in Nat /\ Range(k) = N
  BY <1>1, <1>6, <1>7, <1>8, ArrangedAll
<1> QED BY <1>7, <1>8, <1>9 DEF N

LEMMA SeriesHoldable ==
    ASSUME NEW s, NEW R, Holdable(s, R), NEW T \in SUBSET R
    PROVE  Holdable(s, T)
<1>1. T \in SUBSET RowsFor(s) /\ \A q, r \in T : q.seq = r.seq => q = r
  BY DEF Holdable
<1>2. IsFiniteSet(T)
  BY FS_Subset DEF Holdable
<1> QED BY <1>1, <1>2 DEF Holdable

-----------------------------------------------------------------------------
(* The shortcut.                                                            *)

\* Both ways make the same batch of rows of a table the shortcut is for.
LEMMA FastIsGeneral ==
    ASSUME NEW s \in Schemas, IsFast(s), NEW R \in Seq(RowsFor(s))
    PROVE  FastBatch(s, R) = BatchFromRows(s, R)
<1> DEFINE C == DOMAIN s.columns
           F == FieldColumns(s)
           P == s.primary_key
<1>1. /\ Len(P) = 1 /\ Len(F) = 1 /\ s.columns[P[1]].type = "binary" /\ s.columns[F[1]].type = "binary"
  BY DEF IsFast
<1>2. /\ \A c \in C : s.columns[c].semantic \in {"tag", "timestamp", "field"}
      /\ DOMAIN P = 1 .. Len(P) /\ DOMAIN F = 1 .. Len(F)
      /\ P \in Seq(C) /\ F \in Seq(C)
      /\ Range(P) = {c \in C : s.columns[c].semantic = "tag"}
      /\ Range(F) = {c \in C : s.columns[c].semantic = "field"}
      /\ \A c \in C : s.columns[c].semantic = "timestamp" <=> c = s.time_index
      /\ s.columns[s.time_index].type \in {"int64", "timestamp"}
  BY SchemaFacts
<1>3. ASSUME NEW i \in DOMAIN R
      PROVE  R[i].value = None \/ R[i].value = Some(R[i].value[1])
  <2>1. R[i] \in RowsFor(s)
    OBVIOUS
  <2>2. R[i].value = None \/ \E v \in Seq(Nat) : R[i].value = Some(v)
    BY <2>1, RowParts
  <2> QED BY <2>2 DEF Some
<1> DEFINE cell(c, r) ==
            CASE s.columns[c].semantic = "tag" ->
                    Some(DecodeTags(s, r.key.tags)[PositionOf(s.primary_key, c)])
              [] s.columns[c].semantic = "timestamp" -> Some(<<r.key.ts>>)
              [] OTHER -> IF r.value = None THEN None
                          ELSE Some(DecodeFields(s, r.value[1])[PositionOf(FieldColumns(s), c)])
           fast(c, r) ==
            CASE s.columns[c].semantic = "tag" -> Some(r.key.tags)
              [] s.columns[c].semantic = "timestamp" -> Some(<<r.key.ts>>)
              [] OTHER -> FastField(r)
           general(c) == CellsToArray(s.columns[c].type, [i \in DOMAIN R |-> cell(c, R[i])])
<1>4. ASSUME NEW c \in C, NEW i \in DOMAIN R PROVE cell(c, R[i]) = fast(c, R[i])
  <2>1. CASE s.columns[c].semantic = "tag"
    <3>1. c \in Range(P)
      BY <1>2, <2>1
    <3>2. PositionOf(P, c) = 1
      BY <1>1, <1>2, <3>1, PositionFacts
    <3>3. DecodeTags(s, R[i].key.tags) = <<R[i].key.tags>>
      BY <1>1 DEF DecodeTags, Decode
    <3> QED BY <2>1, <3>2, <3>3
  <2>2. CASE s.columns[c].semantic = "timestamp"
    BY <2>2
  <2>3. CASE s.columns[c].semantic = "field"
    <3>1. c \in Range(F)
      BY <1>2, <2>3
    <3>2. PositionOf(F, c) = 1
      BY <1>1, <1>2, <3>1, PositionFacts
    <3>3. DecodeFields(s, R[i].value[1]) = <<R[i].value[1]>>
      BY <1>1 DEF DecodeFields, Decode
    <3>4. cell(c, R[i]) = IF R[i].value = None THEN None ELSE Some(R[i].value[1])
      BY <2>3, <3>2, <3>3
    <3>5. fast(c, R[i]) = R[i].value
      BY <2>3 DEF FastField
    <3> QED BY <1>3, <3>4, <3>5
  <2> QED BY <1>2, <2>1, <2>2, <2>3
<1>5. ASSUME NEW c \in C PROVE s.columns[c].type # "boolean"
  <2>1. CASE c = s.time_index
    BY <1>2, <2>1
  <2>2. CASE s.columns[c].semantic = "tag"
    <3>1. c \in Range(P)
      BY <1>2, <2>2
    <3>2. c = P[1]
      BY <1>1, <1>2, <3>1 DEF Range
    <3> QED BY <1>1, <3>2
  <2>3. CASE s.columns[c].semantic = "field"
    <3>1. c \in Range(F)
      BY <1>2, <2>3
    <3>2. c = F[1]
      BY <1>1, <1>2, <3>1 DEF Range
    <3> QED BY <1>1, <3>2
  <2> QED BY <1>2, <2>1, <2>2, <2>3
<1>6. ASSUME NEW c \in C PROVE general(c) = [i \in DOMAIN R |-> fast(c, R[i])]
  <2> DEFINE cells == [i \in DOMAIN R |-> cell(c, R[i])]
  <2>1. cells = [i \in DOMAIN R |-> fast(c, R[i])]
    <3> HIDE DEF cell, fast
    <3> QED BY <1>4
  <2>2. DOMAIN cells = DOMAIN R /\ cells = [i \in DOMAIN cells |-> cells[i]]
    OBVIOUS
  <2> HIDE DEF cells
  <2>3. CellsToArray(s.columns[c].type, cells) = [i \in DOMAIN cells |-> cells[i]]
    BY <1>5 DEF CellsToArray
  <2> QED BY <2>1, <2>2, <2>3 DEF cells
<1>7. BatchFromRows(s, R) =
        [cols |-> [c \in C |-> general(c)], seq |-> [i \in DOMAIN R |-> R[i].seq], op |-> OpColumn(R)]
  BY DEF BatchFromRows
<1>8. FastBatch(s, R) =
        [cols |-> [c \in C |-> [i \in DOMAIN R |-> fast(c, R[i])]],
         seq |-> [i \in DOMAIN R |-> R[i].seq], op |-> OpColumn(R)]
  BY DEF FastBatch
<1> HIDE DEF general, fast
<1> QED BY <1>6, <1>7, <1>8

\* For one tag and one field of bytes the batch a series is turned into is the
\* same whether or not the general way is cut short (columnar.rs 88-137).
THEOREM ShortcutCorrect == PathSpec => []ShortcutAgrees
<1>1. LogInv /\ RowsInv => ShortcutAgrees
  <2> SUFFICES ASSUME LogInv, RowsInv, stage \in {"write", "memtable"}, Lengths, IsFast(schema),
                      NEW t \in {r.key.tags : r \in memtable}
               PROVE  LET kept == Kept({r \in memtable : r.key.tags = t})
                      IN  FastBatch(schema, kept) = BatchFromRows(schema, kept)
    BY DEF ShortcutAgrees
  <2> DEFINE R == {r \in memtable : r.key.tags = t}
  <2>1. schema \in Schemas
    BY DEF LogInv
  <2>2. Holdable(schema, memtable)
    BY DEF RowsInv
  <2>3. Holdable(schema, R) /\ \A r \in R : r.key.tags = t
    BY <2>2, SeriesHoldable
  <2> HIDE DEF R
  <2>4. Kept(R) \in Seq(NewestOf(R)) /\ NewestOf(R) \in SUBSET RowsFor(schema)
    <3>1. Kept(R) \in Seq(NewestOf(R)) /\ NewestOf(R) \in SUBSET R
      BY <2>1, <2>3, KeptFacts, NewestFacts
    <3>2. R \in SUBSET RowsFor(schema)
      BY <2>3 DEF Holdable
    <3> QED BY <3>1, <3>2
  <2>5. Kept(R) \in Seq(RowsFor(schema))
    BY <2>4
  <2>6. FastBatch(schema, Kept(R)) = BatchFromRows(schema, Kept(R))
    BY <2>1, <2>5, FastIsGeneral
  <2> QED BY <2>6 DEF R
<1> QED BY <1>1, LogAlways, RowsAlways, PTL

-----------------------------------------------------------------------------
(* Cells, encoded and decoded.                                              *)

IsAfter(bytes, n, f) ==
    f = [j \in 0 .. n |-> IF j = 0 THEN 0 ELSE f[j - 1] + 1 + bytes[f[j - 1] + 1]]

LEMMA TakeIs ==
    ASSUME NEW bytes, NEW n
    PROVE  LET after == CHOOSE f : IsAfter(bytes, n, f)
           IN  TakeLengthPrefixed(bytes, n) = [j \in 1 .. n |-> SubSeq(bytes, after[j - 1] + 2, after[j])]
  BY DEF TakeLengthPrefixed, IsAfter

LEMMA FunctionSeq ==
    ASSUME NEW S, NEW n \in Nat, NEW f \in [1 .. n -> S]
    PROVE  f \in Seq(S) /\ Len(f) = n /\ DOMAIN f = 1 .. n
  OBVIOUS

\* Cells with their lengths before them are read as what they were.
LEMMA TakeBack ==
    ASSUME NEW cells \in Seq(Seq(Nat))
    PROVE  /\ LengthPrefixed(cells) \in Seq(Nat)
           /\ TakeLengthPrefixed(LengthPrefixed(cells), Len(cells)) = cells
<1> DEFINE n == Len(cells)
           q == [j \in DOMAIN cells |-> <<Len(cells[j])>> \o cells[j]]
           d == FlattenSeq(q)
           off == Offset(Lens(q))
<1>1. n \in Nat /\ DOMAIN cells = 1 .. n /\ \A j \in 1 .. n : cells[j] \in Seq(Nat) /\ Len(cells[j]) \in Nat
  OBVIOUS
<1> HIDE DEF n
<1>2. ASSUME NEW j \in 1 .. n
      PROVE  /\ q[j] \in Seq(Nat) /\ Len(q[j]) = 1 + Len(cells[j]) /\ q[j][1] = Len(cells[j])
             /\ \A i \in 1 .. Len(cells[j]) : q[j][1 + i] = cells[j][i]
  <2>1. PICK x \in Seq(Nat) : x = cells[j] /\ Len(x) \in Nat
    BY <1>1
  <2>2. <<Len(x)>> \in Seq(Nat) /\ Len(<<Len(x)>>) = 1 /\ <<Len(x)>>[1] = Len(x)
    BY <2>1
  <2>3. /\ <<Len(x)>> \o x \in Seq(Nat) /\ Len(<<Len(x)>> \o x) = 1 + Len(x)
        /\ (<<Len(x)>> \o x)[1] = Len(x)
        /\ \A i \in 1 .. Len(x) : (<<Len(x)>> \o x)[1 + i] = x[i]
    BY <2>1, <2>2, Joined
  <2>4. q[j] = <<Len(x)>> \o x
    BY <1>1, <2>1
  <2> HIDE DEF q
  <2> QED BY <2>1, <2>3, <2>4
<1>3. q = [j \in 1 .. n |-> q[j]] /\ DOMAIN q = 1 .. n
  BY <1>1
<1> HIDE DEF q
<1>4. q \in Seq(Seq(Nat)) /\ Len(q) = n
  <2>1. q \in [1 .. n -> Seq(Nat)]
    BY <1>2, <1>3
  <2> QED BY <1>1, <2>1
<1>5. /\ d \in Seq(Nat) /\ IsOffset(Lens(q), off) /\ Len(Lens(q)) = n /\ Len(d) = Sum(Lens(q))
      /\ \A i \in 1 .. n : \A j \in 1 .. Len(q[i]) : d[off[i - 1] + j] = q[i][j]
  BY <1>4, FlatFacts
<1>6. Lens(q) \in Seq(Nat) /\ \A j \in 1 .. n : Lens(q)[j] = 1 + Len(cells[j])
  <2>1. Lens(q) = [j \in 1 .. n |-> Len(q[j])]
    BY <1>3 DEF Lens
  <2>2. \A j \in 1 .. n : Lens(q)[j] = 1 + Len(cells[j]) /\ Lens(q)[j] \in Nat
    BY <1>1, <1>2, <2>1
  <2>3. Lens(q) \in [1 .. n -> Nat]
    BY <2>1, <2>2
  <2>4. Lens(q) \in Seq(Nat)
    <3>1. n \in Nat
      BY <1>1
    <3> QED BY <2>3, <3>1, FunctionSeq
  <2> QED BY <2>2, <2>4
<1>7. Len(d) = off[n]
  BY <1>5 DEF Sum
<1> HIDE DEF off, d
<1>8. /\ off \in [0 .. n -> Nat] /\ off[0] = 0
      /\ \A j \in 1 .. n : off[j] = off[j - 1] + (1 + Len(cells[j]))
  BY <1>5, <1>6 DEF IsOffset
<1>9. \A i, k \in 0 .. n : i <= k => off[i] <= off[k]
  BY <1>5, <1>6, OffsetFacts
<1>10. ASSUME NEW j \in 1 .. n
       PROVE  /\ off[j - 1] \in Nat /\ off[j] = off[j - 1] + 1 + Len(cells[j]) /\ off[j] <= Len(d)
              /\ d[off[j - 1] + 1] = Len(cells[j])
              /\ \A i \in 1 .. Len(cells[j]) : d[off[j - 1] + 1 + i] = cells[j][i]
  <2>1. j - 1 \in 0 .. n /\ j \in 0 .. n /\ n \in 0 .. n /\ j <= n
    BY <1>1
  <2>2. PICK a \in Nat, l \in Nat : a = off[j - 1] /\ l = Len(cells[j])
    BY <1>1, <1>8, <2>1
  <2>3. off[j] = a + 1 + l
    <3>1. off[j] = a + (1 + l)
      BY <1>8, <2>2
    <3>2. a + (1 + l) = a + 1 + l
      OBVIOUS
    <3> QED BY <3>1, <3>2
  <2>4. off[j] <= Len(d)
    BY <1>7, <1>9, <2>1
  <2>5. \A i \in 1 .. 1 + l : d[a + i] = q[j][i]
    BY <1>2, <1>5, <2>2
  <2>6. d[a + 1] = l
    <3>1. 1 \in 1 .. 1 + l
      OBVIOUS
    <3> QED BY <1>2, <2>2, <2>5, <3>1
  <2>7. ASSUME NEW i \in 1 .. l PROVE d[a + 1 + i] = cells[j][i]
    <3>1. 1 + i \in 1 .. 1 + l /\ a + (1 + i) = a + 1 + i
      OBVIOUS
    <3>2. d[a + (1 + i)] = q[j][1 + i]
      BY <2>5, <3>1
    <3> QED BY <1>2, <2>2, <3>1, <3>2
  <2> QED BY <2>2, <2>3, <2>4, <2>6, <2>7
<1>11. IsAfter(d, n, off)
  <2>1. ASSUME NEW j \in 0 .. n
        PROVE  off[j] = IF j = 0 THEN 0 ELSE off[j - 1] + 1 + d[off[j - 1] + 1]
    <3>1. CASE j = 0
      BY <1>8, <3>1
    <3>2. CASE j # 0
      <4>1. j \in 1 .. n
        BY <1>1, <3>2
      <4> QED BY <1>10, <3>2, <4>1
    <3> QED BY <3>1, <3>2
  <2>2. off = [j \in 0 .. n |-> off[j]]
    BY <1>8
  <2> QED BY <2>1, <2>2 DEF IsAfter
<1> DEFINE f == CHOOSE f : IsAfter(d, n, f)
<1>12. IsAfter(d, n, f)
  BY <1>11
<1> HIDE DEF f
<1>13. \A j \in 0 .. n : f[j] = IF j = 0 THEN 0 ELSE f[j - 1] + 1 + d[f[j - 1] + 1]
  BY <1>12, Zenon DEF IsAfter
<1> DEFINE I == {j \in 0 .. n : f[j] = off[j]}
<1>14. \A j \in 0 .. n : j \in I
  <2>1. 0 \in I
    BY <1>1, <1>8, <1>13
  <2>2. ASSUME NEW m \in 0 .. n - 1, m \in I PROVE m + 1 \in I
    <3>1. m + 1 \in 0 .. n /\ m + 1 # 0 /\ (m + 1) - 1 = m /\ m + 1 \in 1 .. n
      BY <1>1
    <3>2. f[m + 1] = f[m] + 1 + d[f[m] + 1] /\ f[m] = off[m]
      BY <1>13, <2>2, <3>1
    <3>3. off[m + 1] = off[m] + 1 + d[off[m] + 1]
      BY <1>10, <3>1
    <3> QED BY <3>1, <3>2, <3>3
  <2>3. 0 \in Int /\ n \in Int /\ 0 \in I /\ \A m \in 0 .. n - 1 : m \in I => m + 1 \in I
    BY <1>1, <2>1, <2>2
  <2> HIDE DEF I
  <2> QED BY <2>3, CountingUp
<1>15. ASSUME NEW j \in 1 .. n PROVE SubSeq(d, f[j - 1] + 2, f[j]) = cells[j]
  <2>1. j - 1 \in I /\ j \in I
    <3>1. j - 1 \in 0 .. n /\ j \in 0 .. n
      BY <1>1
    <3> QED BY <1>14, <3>1
  <2>2. f[j - 1] = off[j - 1] /\ f[j] = off[j]
    BY <2>1
  <2>3. PICK a \in Int, t \in Seq(Nat) :
            /\ a = off[j - 1] + 1 /\ a >= 0 /\ t = cells[j] /\ a + Len(t) = off[j]
            /\ a + 1 = off[j - 1] + 2
    <3>1. PICK b \in Nat : b = off[j - 1]
      BY <1>10
    <3>2. b + 1 \in Int /\ b + 1 >= 0 /\ (b + 1) + 1 = b + 2
      OBVIOUS
    <3> QED BY <1>1, <1>10, <3>1, <3>2
  <2>4. a + Len(t) <= Len(d) /\ \A i \in 1 .. Len(t) : d[a + i] = t[i]
    BY <1>10, <2>3
  <2>5. SubSeq(d, a + 1, a + Len(t)) = t
    BY <1>5, <2>3, <2>4, SubSeqIs
  <2> QED BY <2>2, <2>3, <2>5
<1>16. TakeLengthPrefixed(d, n) = [j \in 1 .. n |-> SubSeq(d, f[j - 1] + 2, f[j])]
  BY TakeIs DEF f
<1>17. TakeLengthPrefixed(d, n) = [j \in 1 .. n |-> cells[j]]
  BY <1>15, <1>16
<1>18. [j \in 1 .. n |-> cells[j]] = cells
  BY <1>1
<1>19. LengthPrefixed(cells) = d
  BY DEF LengthPrefixed, d, q
<1> QED BY <1>5, <1>17, <1>18, <1>19 DEF n

LEMMA PickTyped ==
    ASSUME NEW D, NEW S, NEW cols \in Seq(D), NEW cells \in [D -> S]
    PROVE  /\ Pick(cells, cols) \in Seq(S) /\ Len(Pick(cells, cols)) = Len(cols)
           /\ \A j \in 1 .. Len(cols) : Pick(cells, cols)[j] = cells[cols[j]] /\ cols[j] \in D
<1>1. Len(cols) \in Nat /\ DOMAIN cols = 1 .. Len(cols) /\ \A j \in 1 .. Len(cols) : cols[j] \in D
  OBVIOUS
<1>2. Pick(cells, cols) \in [1 .. Len(cols) -> S]
  BY <1>1 DEF Pick
<1> QED BY <1>1, <1>2 DEF Pick

\* Cells that were encoded are decoded as what they were.
LEMMA DecodedBack ==
    ASSUME NEW D, NEW cols \in Seq(D), NEW cells \in [D -> Seq(Nat)]
    PROVE  Decode(Encode(cells, cols), cols) = Pick(cells, cols)
<1>0. Pick(cells, cols) \in Seq(Seq(Nat)) /\ Len(Pick(cells, cols)) = Len(cols)
  <2>1. Len(cols) \in Nat /\ DOMAIN cols = 1 .. Len(cols) /\ \A j \in 1 .. Len(cols) : cols[j] \in D
    OBVIOUS
  <2>2. \A j \in 1 .. Len(cols) : cells[cols[j]] \in Seq(Nat)
    BY <2>1
  <2>3. Pick(cells, cols) = [j \in 1 .. Len(cols) |-> cells[cols[j]]]
    BY <2>1 DEF Pick
  <2>4. Pick(cells, cols) \in [1 .. Len(cols) -> Seq(Nat)]
    BY <2>2, <2>3
  <2>a. PICK n \in Nat : n = Len(cols)
    BY <2>1
  <2>5. PICK f \in [1 .. n -> Seq(Nat)] : f = Pick(cells, cols)
    BY <2>4, <2>a
  <2>6. f \in Seq(Seq(Nat)) /\ Len(f) = n
    BY FunctionSeq
  <2> QED BY <2>a, <2>5, <2>6
<1>1. Pick(cells, cols) \in Seq(Seq(Nat)) /\ Len(Pick(cells, cols)) = Len(cols) /\ DOMAIN cols = 1 .. Len(cols)
  BY <1>0
<1>2. CASE Len(cols) = 1
  <2>1. Pick(cells, cols) = <<cells[cols[1]]>>
    BY <1>1, <1>2 DEF Pick
  <2> QED BY <1>2, <2>1 DEF Decode, Encode
<1>3. CASE Len(cols) # 1
  <2>1. TakeLengthPrefixed(LengthPrefixed(Pick(cells, cols)), Len(cols)) = Pick(cells, cols)
    BY <1>1, TakeBack
  <2> QED BY <1>3, <2>1 DEF Decode, Encode
<1> QED BY <1>2, <1>3

\* What cells are encoded to says only what they are.
LEMMA EncodeSame ==
    ASSUME NEW a, NEW b, NEW A, NEW B, NEW p \in Seq(A), NEW q \in Seq(B), Len(p) = Len(q),
           \A j \in 1 .. Len(p) : a[p[j]] = b[q[j]]
    PROVE  Encode(a, p) = Encode(b, q)
<1>1. DOMAIN p = 1 .. Len(p) /\ DOMAIN q = 1 .. Len(p) /\ Len(p) \in Nat
  OBVIOUS
<1>2. Pick(a, p) = Pick(b, q)
  BY <1>1 DEF Pick
<1>3. Len(p) = 1 => a[p[1]] = b[q[1]]
  <2>1. Len(p) = 1 => 1 \in 1 .. Len(p)
    BY <1>1
  <2> QED BY <2>1
<1> QED BY <1>2, <1>3 DEF Encode

-----------------------------------------------------------------------------
(* The order of keys.                                                       *)

AgreeTo(a, b, n) == \A i \in 1 .. n : a[i] = b[i]

LEMMA BeforeMeans ==
    ASSUME NEW a \in Seq(Nat), NEW b \in Seq(Nat)
    PROVE  BytesBefore(a, b) <=>
                \E n \in 0 .. Len(a) :
                    n < Len(b) /\ AgreeTo(a, b, n) /\ (n = Len(a) \/ a[n + 1] < b[n + 1])
<1>1. Len(a) \in Nat /\ Len(b) \in Nat
  OBVIOUS
<1>2. ASSUME NEW n \in 0 .. Len(a), n <= Len(b)
      PROVE  SubSeq(a, 1, n) = SubSeq(b, 1, n) <=> AgreeTo(a, b, n)
  <2>1. n \in 0 .. Len(b)
    BY <1>1, <1>2
  <2>2. SubSeq(a, 1, n) = [i \in 1 .. n |-> a[i]] /\ \A i \in 1 .. n : SubSeq(a, 1, n)[i] = a[i]
    BY SubSeqPrefix
  <2>3. SubSeq(b, 1, n) = [i \in 1 .. n |-> b[i]] /\ \A i \in 1 .. n : SubSeq(b, 1, n)[i] = b[i]
    BY <2>1, SubSeqPrefix
  <2>4. ASSUME SubSeq(a, 1, n) = SubSeq(b, 1, n) PROVE AgreeTo(a, b, n)
    <3>1. ASSUME NEW i \in 1 .. n PROVE a[i] = b[i]
      BY <2>2, <2>3, <2>4, Zenon
    <3> QED BY <3>1 DEF AgreeTo
  <2>5. ASSUME AgreeTo(a, b, n) PROVE SubSeq(a, 1, n) = SubSeq(b, 1, n)
    <3>1. [i \in 1 .. n |-> a[i]] = [i \in 1 .. n |-> b[i]]
      BY <2>5 DEF AgreeTo
    <3> QED BY <2>2, <2>3, <3>1, Zenon
  <2> QED BY <2>4, <2>5
<1>3. ASSUME BytesBefore(a, b)
      PROVE  \E n \in 0 .. Len(a) :
                n < Len(b) /\ AgreeTo(a, b, n) /\ (n = Len(a) \/ a[n + 1] < b[n + 1])
  <2>1. PICK n \in 0 .. Len(a) :
            /\ n <= Len(b) /\ SubSeq(a, 1, n) = SubSeq(b, 1, n)
            /\ IF n < Len(a) THEN n < Len(b) /\ a[n + 1] < b[n + 1] ELSE n < Len(b)
    BY <1>3, Zenon DEF BytesBefore
  <2>2. AgreeTo(a, b, n)
    BY <1>2, <2>1
  <2>3. n < Len(b) /\ (n = Len(a) \/ a[n + 1] < b[n + 1])
    BY <1>1, <2>1
  <2> QED BY <2>2, <2>3
<1>4. ASSUME NEW n \in 0 .. Len(a), n < Len(b), AgreeTo(a, b, n), n = Len(a) \/ a[n + 1] < b[n + 1]
      PROVE  BytesBefore(a, b)
  <2>1. n <= Len(b) /\ (n < Len(a) => n # Len(a))
    BY <1>1, <1>4
  <2>2. SubSeq(a, 1, n) = SubSeq(b, 1, n)
    BY <1>2, <1>4, <2>1
  <2>3. IF n < Len(a) THEN n < Len(b) /\ a[n + 1] < b[n + 1] ELSE n < Len(b)
    BY <1>4, <2>1
  <2> QED BY <2>1, <2>2, <2>3, Zenon DEF BytesBefore
<1> QED BY <1>3, <1>4

\* BytesBefore is a strict order of sequences of bytes.
LEMMA BytesOrder ==
    /\ \A a, b \in Seq(Nat) : BytesBefore(a, b) \/ BytesBefore(b, a) \/ a = b
    /\ \A a, b, c \in Seq(Nat) : BytesBefore(a, b) /\ BytesBefore(b, c) => BytesBefore(a, c)
    /\ \A a \in Seq(Nat) : ~ BytesBefore(a, a)
<1>1. ASSUME NEW a \in Seq(Nat), NEW b \in Seq(Nat), a # b
      PROVE  BytesBefore(a, b) \/ BytesBefore(b, a)
  <2>1. PICK M \in Nat : M <= Len(a) /\ M <= Len(b) /\ (M = Len(a) \/ M = Len(b))
    <3>1. PICK l \in Nat, m \in Nat : l = Len(a) /\ m = Len(b)
      OBVIOUS
    <3>2. l <= m \/ m <= l
      OBVIOUS
    <3>3. l <= l /\ m <= m
      OBVIOUS
    <3> QED BY <3>1, <3>2, <3>3
  <2>0. Len(a) \in Nat /\ Len(b) \in Nat
    OBVIOUS
  <2> DEFINE I == {n \in 0 .. M : AgreeTo(a, b, n)}
  <2>2. 0 \in I
    BY DEF AgreeTo
  <2>3. CASE \A n \in 0 .. M - 1 : n \in I => n + 1 \in I
    <3>1. M \in I
      <4>1. 0 \in Int /\ M \in Int /\ 0 \in I /\ M \in 0 .. M /\ \A n \in 0 .. M - 1 : n \in I => n + 1 \in I
        BY <2>2, <2>3
      <4> HIDE DEF I
      <4> QED BY <4>1, CountingUp
    <3>2. AgreeTo(a, b, M) /\ AgreeTo(b, a, M)
      BY <3>1 DEF AgreeTo
    <3>3. CASE M = Len(a) /\ M < Len(b)
      <4>1. M \in 0 .. Len(a)
        BY <2>0, <3>3
      <4> QED BY <3>2, <3>3, <4>1, BeforeMeans
    <3>4. CASE M = Len(b) /\ M < Len(a)
      <4>1. M \in 0 .. Len(b)
        BY <2>0, <3>4
      <4> QED BY <3>2, <3>4, <4>1, BeforeMeans
    <3>5. CASE M = Len(a) /\ M = Len(b)
      <4>1. a = b
        BY <3>2, <3>5, SeqEqual DEF AgreeTo
      <4> QED BY <1>1, <4>1
    <3> QED BY <2>0, <2>1, <3>3, <3>4, <3>5
  <2>4. CASE \E n \in 0 .. M - 1 : n \in I /\ n + 1 \notin I
    <3>1. PICK n \in 0 .. M - 1 : n \in I /\ n + 1 \notin I
      BY <2>4
    <3>2. AgreeTo(a, b, n) /\ AgreeTo(b, a, n) /\ ~ AgreeTo(a, b, n + 1)
      <4>1. n + 1 \in 0 .. M
        OBVIOUS
      <4> QED BY <3>1, <4>1 DEF AgreeTo
    <3>3. a[n + 1] # b[n + 1]
      <4>1. ASSUME a[n + 1] = b[n + 1], NEW i \in 1 .. n + 1 PROVE a[i] = b[i]
        <5>1. i = n + 1 \/ i \in 1 .. n
          OBVIOUS
        <5> QED BY <3>2, <4>1, <5>1 DEF AgreeTo
      <4> QED BY <3>2, <4>1 DEF AgreeTo
    <3>4. a[n + 1] \in Nat /\ b[n + 1] \in Nat
      <4>1. n + 1 \in 1 .. Len(a) /\ n + 1 \in 1 .. Len(b)
        BY <2>0, <2>1
      <4> QED BY <4>1
    <3>5. n \in 0 .. Len(a) /\ n \in 0 .. Len(b) /\ n < Len(a) /\ n < Len(b)
      BY <2>0, <2>1
    <3>6. a[n + 1] < b[n + 1] \/ b[n + 1] < a[n + 1]
      BY <3>3, <3>4
    <3> QED BY <3>2, <3>5, <3>6, BeforeMeans
  <2> QED BY <2>3, <2>4
<1>2. ASSUME NEW a \in Seq(Nat), NEW b \in Seq(Nat), NEW c \in Seq(Nat),
             BytesBefore(a, b), BytesBefore(b, c)
      PROVE  BytesBefore(a, c)
  <2>0. Len(a) \in Nat /\ Len(b) \in Nat /\ Len(c) \in Nat
    OBVIOUS
  <2>1. PICK n \in 0 .. Len(a) :
            n < Len(b) /\ AgreeTo(a, b, n) /\ (n = Len(a) \/ a[n + 1] < b[n + 1])
    BY <1>2, BeforeMeans
  <2>2. PICK m \in 0 .. Len(b) :
            m < Len(c) /\ AgreeTo(b, c, m) /\ (m = Len(b) \/ b[m + 1] < c[m + 1])
    BY <1>2, BeforeMeans
  <2>3. \A i \in 1 .. n : i \in 1 .. m => a[i] = c[i]
    BY <2>1, <2>2 DEF AgreeTo
  <2>4. /\ n + 1 \in 1 .. Len(b) /\ m + 1 \in 1 .. Len(c)
        /\ (n # Len(a) => n + 1 \in 1 .. Len(a)) /\ (m # Len(b) => m + 1 \in 1 .. Len(b))
    BY <2>0, <2>1, <2>2
  <2>5. CASE n < m
    <3>1. AgreeTo(a, c, n)
      <4>1. \A i \in 1 .. n : i \in 1 .. m
        BY <2>5
      <4> QED BY <2>3, <4>1 DEF AgreeTo
    <3>2. n < Len(c)
      BY <2>0, <2>2, <2>5
    <3>3. n = Len(a) \/ a[n + 1] < c[n + 1]
      <4>1. n + 1 \in 1 .. m
        BY <2>5
      <4>2. b[n + 1] = c[n + 1]
        BY <2>2, <4>1 DEF AgreeTo
      <4> QED BY <2>1, <4>2
    <3> QED BY <3>1, <3>2, <3>3, BeforeMeans
  <2>6. CASE n = m
    <3>1. AgreeTo(a, c, n) /\ n < Len(c)
      BY <2>2, <2>3, <2>6 DEF AgreeTo
    <3>2. n = Len(a) \/ a[n + 1] < c[n + 1]
      <4>1. CASE n # Len(a)
        <5>1. a[n + 1] < b[n + 1] /\ b[n + 1] < c[n + 1]
          BY <2>0, <2>1, <2>2, <2>6, <4>1
        <5>2. a[n + 1] \in Nat /\ b[n + 1] \in Nat /\ c[n + 1] \in Nat
          BY <2>4, <2>6, <4>1
        <5>3. PICK x \in Nat, y \in Nat, z \in Nat : x = a[n + 1] /\ y = b[n + 1] /\ z = c[n + 1]
          BY <5>2
        <5>4. x < y /\ y < z => x < z
          OBVIOUS
        <5> QED BY <5>1, <5>3, <5>4
      <4> QED BY <4>1
    <3> QED BY <3>1, <3>2, BeforeMeans
  <2>7. CASE m < n
    <3>1. m \in 0 .. Len(a) /\ m # Len(b)
      BY <2>0, <2>1, <2>7
    <3>2. AgreeTo(a, c, m)
      <4>1. \A i \in 1 .. m : i \in 1 .. n
        BY <2>7
      <4> QED BY <2>3, <4>1 DEF AgreeTo
    <3>3. a[m + 1] = b[m + 1]
      <4>1. m + 1 \in 1 .. n
        BY <2>7
      <4> QED BY <2>1, <4>1 DEF AgreeTo
    <3> QED BY <2>2, <3>1, <3>2, <3>3, BeforeMeans
  <2> QED BY <2>0, <2>5, <2>6, <2>7
<1>3. ASSUME NEW a \in Seq(Nat), BytesBefore(a, a) PROVE FALSE
  <2>0. Len(a) \in Nat
    OBVIOUS
  <2>1. PICK n \in 0 .. Len(a) :
            n < Len(a) /\ AgreeTo(a, a, n) /\ (n = Len(a) \/ a[n + 1] < a[n + 1])
    BY <1>3, BeforeMeans
  <2>2. n + 1 \in 1 .. Len(a) /\ n # Len(a)
    BY <2>0, <2>1
  <2>3. a[n + 1] \in Nat
    BY <2>2
  <2> QED BY <2>1, <2>2, <2>3
<1> QED BY <1>1, <1>2, <1>3

AnyKey == [tags : Seq(Nat), ts : Int]

\* KeyBefore is a strict order of keys.
LEMMA KeysOrdered ==
    /\ \A k, l \in AnyKey : KeyBefore(k, l) \/ KeyBefore(l, k) \/ k = l
    /\ \A k, l, m \in AnyKey : KeyBefore(k, l) /\ KeyBefore(l, m) => KeyBefore(k, m)
    /\ \A k \in AnyKey : ~ KeyBefore(k, k)
<1>0. \A k \in AnyKey : k.tags \in Seq(Nat) /\ k.ts \in Int /\ k = [tags |-> k.tags, ts |-> k.ts]
  BY DEF AnyKey
<1>1. ASSUME NEW k \in AnyKey, NEW l \in AnyKey PROVE KeyBefore(k, l) \/ KeyBefore(l, k) \/ k = l
  <2>1. BytesBefore(k.tags, l.tags) \/ BytesBefore(l.tags, k.tags) \/ k.tags = l.tags
    BY <1>0, BytesOrder
  <2>2. k.ts < l.ts \/ l.ts < k.ts \/ k.ts = l.ts
    BY <1>0
  <2>3. k.tags = l.tags /\ k.ts = l.ts => k = l
    <3>1. k = [tags |-> k.tags, ts |-> k.ts] /\ l = [tags |-> l.tags, ts |-> l.ts]
      BY <1>0
    <3> QED BY <3>1
  <2> QED BY <2>1, <2>2, <2>3 DEF KeyBefore
<1>2. ASSUME NEW k \in AnyKey, NEW l \in AnyKey, NEW m \in AnyKey, KeyBefore(k, l), KeyBefore(l, m)
      PROVE  KeyBefore(k, m)
  <2>1. BytesBefore(k.tags, l.tags) \/ (k.tags = l.tags /\ k.ts < l.ts)
    BY <1>2 DEF KeyBefore
  <2>2. BytesBefore(l.tags, m.tags) \/ (l.tags = m.tags /\ l.ts < m.ts)
    BY <1>2 DEF KeyBefore
  <2>3. BytesBefore(k.tags, l.tags) /\ BytesBefore(l.tags, m.tags) => BytesBefore(k.tags, m.tags)
    BY <1>0, BytesOrder
  <2>4. k.ts < l.ts /\ l.ts < m.ts => k.ts < m.ts
    BY <1>0
  <2> QED BY <2>1, <2>2, <2>3, <2>4 DEF KeyBefore
<1>3. ASSUME NEW k \in AnyKey, KeyBefore(k, k) PROVE FALSE
  <2>1. ~ BytesBefore(k.tags, k.tags) /\ ~ (k.ts < k.ts)
    BY <1>0, BytesOrder
  <2> QED BY <1>3, <2>1 DEF KeyBefore
<1> QED BY <1>1, <1>2, <1>3

-----------------------------------------------------------------------------
(* Batches of columns.                                                      *)

CellSet == {None} \cup {Some(x) : x \in Seq(Int)}
BatchParts(s) == [cols : [DOMAIN s.columns -> Seq(CellSet)], seq : Seq(Nat), op : Seq({"put", "delete"})]
IsBatch(s, b) ==
    /\ b \in BatchParts(s) /\ Len(b.op) = Len(b.seq)
    /\ \A c \in DOMAIN s.columns : Len(b.cols[c]) = Len(b.seq)
\* A row of a batch is a row of the memtable.
HoldsRow(s, b, i, r) ==
    KeyAt(s, b, i) = r.key /\ b.seq[i] = r.seq /\ ValueAt(s, b, i) = Proper(s, r.value)

\* What a cell comes back as from a column.
Norm(type, x) == IF type = "boolean" THEN IF x[1] = 0 THEN <<0>> ELSE <<1>> ELSE x

LEMMA SomeFacts ==
    /\ \A x : Some(x) # None /\ Some(x)[1] = x /\ DOMAIN Some(x) = {1}
    /\ \A x, y : Some(x) = Some(y) => x = y
<1>1. ASSUME NEW x PROVE Some(x) # None /\ Some(x)[1] = x /\ DOMAIN Some(x) = {1}
  <2>1. <<x>> # <<>> /\ <<x>>[1] = x /\ DOMAIN <<x>> = 1 .. 1
    OBVIOUS
  <2> QED BY <2>1 DEF Some, None
<1>2. ASSUME NEW x, NEW y, Some(x) = Some(y) PROVE x = y
  <2>1. Some(x)[1] = x /\ Some(y)[1] = y
    BY <1>1
  <2> QED BY <1>2, <2>1
<1> QED BY <1>1, <1>2

LEMMA ArrayAt ==
    ASSUME NEW type, NEW cells, NEW i \in DOMAIN cells, NEW x
    PROVE  /\ cells[i] = None => CellsToArray(type, cells)[i] = None
           /\ cells[i] = Some(x) => CellsToArray(type, cells)[i] = Some(Norm(type, x))
<1>1. CellsToArray(type, cells)[i] =
        IF type = "boolean" /\ cells[i] # None
        THEN Some(IF cells[i][1][1] = 0 THEN <<0>> ELSE <<1>>) ELSE cells[i]
  BY DEF CellsToArray
<1>2. ASSUME cells[i] = Some(x) PROVE cells[i] # None /\ cells[i][1] = x
  BY <1>2, SomeFacts
<1> QED BY <1>1, <1>2, Zenon DEF Norm

LEMMA SingleArray ==
    ASSUME NEW type, NEW x
    PROVE  CellsToArray(type, <<Some(x)>>)[1][1] = Norm(type, x)
<1> DEFINE cells == <<Some(x)>>
<1>1. 1 \in DOMAIN cells /\ cells[1] = Some(x)
  OBVIOUS
<1> HIDE DEF cells
<1>2. CellsToArray(type, cells)[1] = Some(Norm(type, x))
  BY <1>1, ArrayAt
<1>3. CellsToArray(type, cells)[1][1] = Norm(type, x)
  BY <1>2, SomeFacts
<1> QED BY <1>3 DEF cells

LEMMA NormTyped ==
    ASSUME NEW type, NEW x \in Seq(Int)
    PROVE  Norm(type, x) \in Seq(Int)
<1>1. <<0>> \in Seq(Int) /\ <<1>> \in Seq(Int)
  OBVIOUS
<1> QED BY <1>1 DEF Norm

\* The cells a key or a value is made of, and what is read of it again.
LEMMA CellsFound ==
    ASSUME NEW s \in Schemas, NEW cols \in Seq(DOMAIN s.columns), NEW g \in Tuples(s, cols),
           NEW c \in Range(cols)
    PROVE  LET x == CellsOf(s, cols, g)
           IN  /\ Decode(Encode(x, cols), cols)[PositionOf(cols, c)] = x[c]
               /\ x[c] \in CellsFor(s, c) /\ x[c] \in Seq(Nat)
<1> DEFINE x == CellsOf(s, cols, g)
           p == PositionOf(cols, c)
<1>1. p \in DOMAIN cols /\ cols[p] = c
  BY PositionFacts
<1>2. /\ \A j \in DOMAIN cols : g[j] \in CellsFor(s, cols[j]) /\ g[j] \in Seq(Nat)
      /\ x \in [DOMAIN s.columns -> Seq(Nat)]
  BY CellsOfTyped
<1>3. c \in DOMAIN s.columns
  BY <1>1
<1>4. x[c] = g[p]
  BY <1>3 DEF CellsOf
<1> HIDE DEF x, p
<1>5. Decode(Encode(x, cols), cols) = Pick(x, cols)
  BY <1>2, DecodedBack
<1>6. Pick(x, cols)[p] = x[c]
  BY <1>1 DEF Pick
<1> QED BY <1>1, <1>2, <1>4, <1>5, <1>6 DEF x, p

LEMMA Positions ==
    ASSUME NEW D, NEW cols \in Seq(D), \A i, j \in DOMAIN cols : cols[i] = cols[j] => i = j,
           NEW j \in DOMAIN cols
    PROVE  cols[j] \in Range(cols) /\ PositionOf(cols, cols[j]) = j
<1>1. cols[j] \in Range(cols)
  BY DEF Range
<1> QED BY <1>1, PositionFacts

-----------------------------------------------------------------------------
\* internal_batch_from_rows keeps keys, and values as they come back.
Places(q) == [j \in DOMAIN q |-> j]
LEMMA EncodeOnto ==
    ASSUME NEW u, NEW v, NEW D, NEW q \in Seq(D), \A j \in 1 .. Len(q) : u[q[j]] = v[j]
    PROVE  Encode(u, q) = Encode(v, Places(q))
<1> DEFINE id == Places(q)
<1>1. DOMAIN q = 1 .. Len(q) /\ Len(q) \in Nat
  OBVIOUS
<1>2. DOMAIN id = 1 .. Len(q) /\ Len(id) = Len(q) /\ \A j \in 1 .. Len(q) : id[j] = j
  BY <1>1 DEF Places
<1> HIDE DEF id
<1>3. Pick(u, q) = Pick(v, id)
  BY <1>1, <1>2 DEF Pick
<1>4. Len(q) = 1 => u[q[1]] = v[id[1]]
  <2>1. Len(q) = 1 => 1 \in 1 .. Len(q)
    BY <1>1
  <2> QED BY <1>2, <2>1
<1>5. Encode(u, q) = Encode(v, id)
  BY <1>2, <1>3, <1>4 DEF Encode
<1> QED BY <1>5 DEF id

LEMMA BatchOfRows ==
    ASSUME NEW s \in Schemas, NEW R \in Seq(RowsFor(s))
    PROVE  /\ IsBatch(s, BatchFromRows(s, R)) /\ NumRows(BatchFromRows(s, R)) = Len(R)
           /\ \A i \in 1 .. Len(R) : HoldsRow(s, BatchFromRows(s, R), i, R[i])
<1> DEFINE C == DOMAIN s.columns
           F == FieldColumns(s)
           P == s.primary_key
           T == s.time_index
           type(c) == s.columns[c].type
           cell(c, r) ==
            CASE s.columns[c].semantic = "tag" ->
                    Some(DecodeTags(s, r.key.tags)[PositionOf(s.primary_key, c)])
              [] s.columns[c].semantic = "timestamp" -> Some(<<r.key.ts>>)
              [] OTHER -> IF r.value = None THEN None
                          ELSE Some(DecodeFields(s, r.value[1])[PositionOf(FieldColumns(s), c)])
           array(c) == CellsToArray(s.columns[c].type, [i \in DOMAIN R |-> cell(c, R[i])])
           b == BatchFromRows(s, R)
<1>1. /\ P \in Seq(C) /\ DOMAIN P = 1 .. Len(P) /\ Range(P) = {c \in C : s.columns[c].semantic = "tag"}
      /\ \A i, j \in DOMAIN P : P[i] = P[j] => i = j
  BY SchemaFacts
<1>2. /\ F \in Seq(C) /\ DOMAIN F = 1 .. Len(F) /\ Range(F) = {c \in C : s.columns[c].semantic = "field"}
      /\ \A i, j \in DOMAIN F : F[i] = F[j] => i = j
  BY SchemaFacts
<1>3. /\ \A c \in C : s.columns[c].semantic \in {"tag", "timestamp", "field"}
      /\ T \in C /\ \A c \in C : s.columns[c].semantic = "timestamp" <=> c = T
      /\ type(T) \in {"int64", "timestamp"}
  BY SchemaFacts
<1>4. DOMAIN R = 1 .. Len(R) /\ Len(R) \in Nat /\ \A i \in 1 .. Len(R) : R[i] \in RowsFor(s)
  OBVIOUS
<1>5. /\ b.cols = [c \in C |-> array(c)] /\ b.seq = [i \in DOMAIN R |-> R[i].seq] /\ b.op = OpColumn(R)
      /\ b = [cols |-> b.cols, seq |-> b.seq, op |-> b.op]
  BY DEF BatchFromRows
<1> HIDE DEF b
<1>6. ASSUME NEW c \in C
      PROVE  /\ DOMAIN array(c) = DOMAIN R
             /\ \A i \in DOMAIN R : \A x :
                    /\ cell(c, R[i]) = None => array(c)[i] = None
                    /\ cell(c, R[i]) = Some(x) => array(c)[i] = Some(Norm(type(c), x))
  <2> DEFINE cells == [i \in DOMAIN R |-> cell(c, R[i])]
  <2>1. DOMAIN cells = DOMAIN R /\ \A i \in DOMAIN R : cells[i] = cell(c, R[i])
    OBVIOUS
  <2> HIDE DEF cells, cell
  <2>2. DOMAIN CellsToArray(type(c), cells) = DOMAIN R
    BY <2>1 DEF CellsToArray
  <2>3. ASSUME NEW i \in DOMAIN R, NEW x
        PROVE  /\ cell(c, R[i]) = None => CellsToArray(type(c), cells)[i] = None
               /\ cell(c, R[i]) = Some(x) => CellsToArray(type(c), cells)[i] = Some(Norm(type(c), x))
    BY <2>1, ArrayAt
  <2> QED BY <2>2, <2>3 DEF cells
<1> HIDE DEF array
\* The tags.
<1>7. ASSUME NEW i \in DOMAIN R
      PROVE  \E x : /\ R[i].key.tags = Encode(x, P)
                    /\ \A c \in Range(P) : array(c)[i] = Some(x[c]) /\ x[c] \in Seq(Nat)
  <2>1. R[i].key \in KeysFor(s)
    BY <1>4, RowParts
  <2>2. PICK g \in Tuples(s, P), ts \in Stamps : R[i].key = Key(s, g, ts)
    BY <2>1 DEF KeysFor
  <2> DEFINE x == CellsOf(s, P, g)
  <2>3. R[i].key.tags = Encode(x, P)
    BY <2>2 DEF Key, EncodeTags
  <2>4. ASSUME NEW c \in Range(P) PROVE array(c)[i] = Some(x[c]) /\ x[c] \in Seq(Nat)
    <3>1. c \in C /\ s.columns[c].semantic = "tag"
      BY <1>1
    <3>2. Decode(Encode(x, P), P)[PositionOf(P, c)] = x[c] /\ x[c] \in CellsFor(s, c) /\ x[c] \in Seq(Nat)
      BY <1>1, CellsFound
    <3> HIDE DEF x
    <3>3. cell(c, R[i]) = Some(x[c])
      BY <2>3, <3>1, <3>2 DEF DecodeTags
    <3>4. array(c)[i] = Some(Norm(type(c), x[c]))
      BY <1>6, <3>1, <3>3
    <3>5. Norm(type(c), x[c]) = x[c]
      <4>1. CASE type(c) = "boolean"
        <5>1. x[c] \in {<<0>>, <<1>>}
          BY <3>1, <3>2, <4>1 DEF CellsFor
        <5> QED BY <4>1, <5>1 DEF Norm
      <4>2. CASE type(c) # "boolean"
        BY <4>2 DEF Norm
      <4> QED BY <4>1, <4>2
    <3> QED BY <3>2, <3>4, <3>5
  <2> HIDE DEF x
  <2> QED BY <2>3, <2>4
\* The time.
<1>8. ASSUME NEW i \in DOMAIN R PROVE array(T)[i] = Some(<<R[i].key.ts>>) /\ <<R[i].key.ts>> \in Seq(Int)
  <2>1. s.columns[T].semantic = "timestamp" /\ type(T) # "boolean"
    BY <1>3
  <2>2. cell(T, R[i]) = Some(<<R[i].key.ts>>)
    BY <2>1
  <2>3. array(T)[i] = Some(Norm(type(T), <<R[i].key.ts>>))
    BY <1>3, <1>6, <2>2
  <2>4. R[i].key.ts \in Int
    BY <1>4, RowParts
  <2>5. Norm(type(T), <<R[i].key.ts>>) = <<R[i].key.ts>>
    BY <2>1 DEF Norm
  <2>6. <<R[i].key.ts>> \in Seq(Int)
    BY <2>4
  <2> QED BY <2>3, <2>5, <2>6
\* The fields.
<1>9. ASSUME NEW i \in DOMAIN R
      PROVE  /\ R[i].value = None => \A c \in Range(F) : array(c)[i] = None
             /\ R[i].value # None =>
                    \A c \in Range(F) :
                        LET y == DecodeFields(s, R[i].value[1])[PositionOf(F, c)]
                        IN  array(c)[i] = Some(Norm(type(c), y)) /\ y \in Seq(Nat)
  <2>1. ASSUME R[i].value = None, NEW c \in Range(F) PROVE array(c)[i] = None
    <3>1. c \in C /\ s.columns[c].semantic = "field"
      BY <1>2
    <3>2. cell(c, R[i]) = None
      BY <2>1, <3>1
    <3> QED BY <1>6, <3>1, <3>2
  <2>2. ASSUME R[i].value # None, NEW c \in Range(F)
        PROVE  LET y == DecodeFields(s, R[i].value[1])[PositionOf(F, c)]
               IN  array(c)[i] = Some(Norm(type(c), y)) /\ y \in Seq(Nat)
    <3> DEFINE y == DecodeFields(s, R[i].value[1])[PositionOf(F, c)]
    <3>1. c \in C /\ s.columns[c].semantic = "field"
      BY <1>2
    <3>2. cell(c, R[i]) = Some(y)
      BY <2>2, <3>1
    <3>3. y \in Seq(Nat)
      <4>1. R[i].value \in ValuesFor(s)
        BY <1>4, RowParts
      <4>2. PICK f \in Tuples(s, F) : R[i].value = Some(Value(s, f))
        BY <2>2, <4>1 DEF ValuesFor
      <4>3. R[i].value[1] = Encode(CellsOf(s, F, f), F)
        BY <4>2, SomeFacts DEF Value, EncodeFields
      <4> QED BY <1>2, <4>3, CellsFound DEF DecodeFields
    <3> HIDE DEF y
    <3>4. array(c)[i] = Some(Norm(type(c), y))
      BY <1>6, <3>1, <3>2
    <3> QED BY <3>3, <3>4 DEF y
  <2> QED BY <2>1, <2>2
<1>10. ASSUME NEW c \in C, NEW i \in DOMAIN R PROVE array(c)[i] \in CellSet
  <2>1. CASE s.columns[c].semantic = "tag"
    <3>1. c \in Range(P)
      BY <1>1, <2>1
    <3>2. PICK x : array(c)[i] = Some(x) /\ x \in Seq(Nat)
      BY <1>7, <3>1
    <3>3. x \in Seq(Int)
      BY <3>2
    <3> QED BY <3>2, <3>3 DEF CellSet
  <2>2. CASE s.columns[c].semantic = "timestamp"
    <3>1. c = T
      BY <1>3, <2>2
    <3> QED BY <1>8, <3>1 DEF CellSet
  <2>3. CASE s.columns[c].semantic = "field"
    <3>1. c \in Range(F)
      BY <1>2, <2>3
    <3>2. CASE R[i].value = None
      BY <1>9, <3>1, <3>2 DEF CellSet
    <3>3. CASE R[i].value # None
      <4>1. PICK y : array(c)[i] = Some(Norm(type(c), y)) /\ y \in Seq(Nat)
        BY <1>9, <3>1, <3>3
      <4>2. y \in Seq(Int)
        BY <4>1
      <4> HIDE DEF type
      <4>3. Norm(type(c), y) \in Seq(Int)
        BY <4>2, NormTyped
      <4> QED BY <4>1, <4>3 DEF CellSet
    <3> QED BY <3>2, <3>3
  <2> QED BY <1>3, <2>1, <2>2, <2>3
<1> HIDE DEF cell
<1>11. IsBatch(s, b) /\ NumRows(b) = Len(R)
  <2>1. ASSUME NEW c \in C PROVE array(c) \in Seq(CellSet) /\ Len(array(c)) = Len(R)
    <3>1. DOMAIN array(c) = 1 .. Len(R) /\ \A i \in 1 .. Len(R) : array(c)[i] \in CellSet
      BY <1>4, <1>6, <1>10
    <3>2. array(c) = [i \in 1 .. Len(R) |-> array(c)[i]]
      <4>1. array(c) = [i \in DOMAIN array(c) |-> array(c)[i]]
        BY DEF array, CellsToArray
      <4> QED BY <3>1, <4>1
    <3>3. array(c) \in [1 .. Len(R) -> CellSet]
      BY <3>1, <3>2
    <3> QED BY <1>4, <3>3, FunctionSeq
  <2>2. b.cols \in [C -> Seq(CellSet)] /\ \A c \in C : Len(b.cols[c]) = Len(R)
    BY <1>5, <2>1
  <2>3. b.seq \in Seq(Nat) /\ Len(b.seq) = Len(R)
    <3>1. \A i \in 1 .. Len(R) : R[i].seq \in Nat
      BY <1>4, RowParts
    <3>2. b.seq \in [1 .. Len(R) -> Nat]
      BY <1>4, <1>5, <3>1
    <3> QED BY <1>4, <3>2
  <2>4. b.op \in Seq({"put", "delete"}) /\ Len(b.op) = Len(R)
    <3>1. b.op \in [1 .. Len(R) -> {"put", "delete"}]
      BY <1>4, <1>5 DEF OpColumn
    <3> QED BY <1>4, <3>1
  <2> QED BY <1>5, <2>2, <2>3, <2>4 DEF IsBatch, BatchParts, NumRows
<1>12. ASSUME NEW i \in 1 .. Len(R) PROVE HoldsRow(s, b, i, R[i])
  <2> DEFINE cells == [c \in C |-> CellOrEmpty(b.cols[c], i)]
  <2>1. i \in DOMAIN R /\ \A c \in C : b.cols[c] = array(c) /\ cells[c] = CellOrEmpty(array(c), i)
    BY <1>4, <1>5
  <2>a. C = DOMAIN s.columns
    OBVIOUS
  <2>2. KeyAt(s, b, i) = [tags |-> EncodeTags(s, cells), ts |-> b.cols[T][i][1][1]]
    BY DEF KeyAt
  <2>3. ValueAt(s, b, i) = IF b.op[i] = "delete" THEN None ELSE Some(EncodeFields(s, cells))
    BY DEF ValueAt
  <2> HIDE DEF cells, C
  <2>4. b.cols[T][i][1][1] = R[i].key.ts
    <3>1. array(T)[i] = Some(<<R[i].key.ts>>)
      BY <1>8, <2>1
    <3>2. array(T)[i][1] = <<R[i].key.ts>>
      BY <3>1, SomeFacts
    <3> QED BY <1>3, <2>1, <3>2
  <2>5. EncodeTags(s, cells) = R[i].key.tags
    <3>1. PICK x : /\ R[i].key.tags = Encode(x, P)
                   /\ \A c \in Range(P) : array(c)[i] = Some(x[c]) /\ x[c] \in Seq(Nat)
      BY <1>7, <2>1
    <3>2. ASSUME NEW j \in 1 .. Len(P) PROVE cells[P[j]] = x[P[j]]
      <4>1. P[j] \in Range(P) /\ P[j] \in C
        BY <1>1 DEF Range
      <4>2. array(P[j])[i] = Some(x[P[j]])
        BY <3>1, <4>1
      <4>3. CellOrEmpty(array(P[j]), i) = x[P[j]]
        BY <4>2, SomeFacts DEF CellOrEmpty
      <4> QED BY <2>1, <4>1, <4>3
    <3>3. Encode(cells, P) = Encode(x, P)
      BY <1>1, <3>2, EncodeSame
    <3> QED BY <3>1, <3>3 DEF EncodeTags
  <2>6. KeyAt(s, b, i) = R[i].key
    <3>1. R[i].key = [tags |-> R[i].key.tags, ts |-> R[i].key.ts]
      BY <1>4, RowParts
    <3> QED BY <2>2, <2>4, <2>5, <3>1
  <2>7. b.seq[i] = R[i].seq /\ b.op[i] = IF R[i].value = None THEN "delete" ELSE "put"
    BY <1>5, <2>1 DEF OpColumn
  <2>8. CASE R[i].value = None
    BY <2>3, <2>6, <2>7, <2>8 DEF HoldsRow, Proper
  <2>9. CASE R[i].value # None
    <3> DEFINE ys == DecodeFields(s, R[i].value[1])
               z == [j \in DOMAIN F |-> CellsToArray(s.columns[F[j]].type, <<Some(ys[j])>>)[1][1]]
               id == [j \in DOMAIN F |-> j]
    <3>1. Proper(s, R[i].value) = Some(Encode(z, id))
      BY <2>9 DEF Proper
    <3>2. id \in Seq(Int) /\ Len(id) = Len(F) /\ \A j \in 1 .. Len(F) : id[j] = j
      <4>1. Len(F) \in Nat
        BY <1>2
      <4> QED BY <1>2, <4>1
    <3>3. ASSUME NEW j \in 1 .. Len(F) PROVE cells[F[j]] = z[id[j]]
      <4>1. F[j] \in Range(F) /\ F[j] \in C /\ PositionOf(F, F[j]) = j /\ j \in DOMAIN F
        BY <1>2, Positions
      <4>2. array(F[j])[i] = Some(Norm(type(F[j]), ys[j]))
        BY <1>9, <2>1, <2>9, <4>1
      <4>3. CellOrEmpty(array(F[j]), i) = Norm(type(F[j]), ys[j])
        BY <4>2, SomeFacts DEF CellOrEmpty
      <4>4. z[j] = Norm(type(F[j]), ys[j])
        BY <4>1, SingleArray
      <4> HIDE DEF z, id, ys, type
      <4> QED BY <2>1, <3>2, <4>1, <4>3, <4>4
    <3> HIDE DEF z, id
    <3>5. PICK q : q = F
      OBVIOUS
    <3>6. q \in Seq(C) /\ \A j \in 1 .. Len(q) : cells[q[j]] = z[j]
      BY <1>2, <3>2, <3>3, <3>5
    <3>7. Encode(cells, q) = Encode(z, Places(q))
      BY <3>6, EncodeOnto
    <3>8. Places(q) = id
      BY <3>5 DEF Places, id
    <3>4. Encode(cells, F) = Encode(z, id)
      BY <3>5, <3>7, <3>8
    <3> QED BY <2>3, <2>6, <2>7, <2>9, <3>1, <3>4 DEF HoldsRow, EncodeFields
  <2> QED BY <2>8, <2>9
<1> QED BY <1>11, <1>12 DEF b

-----------------------------------------------------------------------------
(* Batches that are cut and joined.                                         *)

RowAt(s, b, i) == [key |-> KeyAt(s, b, i), seq |-> b.seq[i], value |-> ValueAt(s, b, i)]

LEMMA SameRow ==
    ASSUME NEW s \in Schemas, NEW a, NEW i, NEW b, NEW j,
           \A c \in DOMAIN s.columns : a.cols[c][i] = b.cols[c][j],
           a.seq[i] = b.seq[j], a.op[i] = b.op[j]
    PROVE  RowAt(s, a, i) = RowAt(s, b, j)
<1>1. [c \in DOMAIN s.columns |-> CellOrEmpty(a.cols[c], i)]
        = [c \in DOMAIN s.columns |-> CellOrEmpty(b.cols[c], j)]
  BY DEF CellOrEmpty
<1>2. s.time_index \in DOMAIN s.columns
  BY SchemaFacts
<1> QED BY <1>1, <1>2 DEF RowAt, KeyAt, ValueAt

LEMMA CutFacts ==
    ASSUME NEW S, NEW q \in Seq(S), NEW n, Len(q) = n, NEW i \in 1 .. n + 1, NEW j \in i - 1 .. n
    PROVE  /\ SubSeq(q, i, j) \in Seq(S) /\ Len(SubSeq(q, i, j)) = j - i + 1
           /\ \A k \in 1 .. j - i + 1 : SubSeq(q, i, j)[k] = q[i + k - 1]
<1>1. i \in Int /\ j \in Int /\ 1 <= i /\ i - 1 <= j /\ j <= Len(q) /\ Len(q) \in Nat
  <2>1. n \in Nat
    OBVIOUS
  <2> QED BY <2>1
<1>2. \A k \in i .. j : q[k] \in S
  <2>1. \A k \in i .. j : k \in 1 .. Len(q)
    BY <1>1
  <2> QED BY <2>1
<1> QED BY <1>1, <1>2, SubSeqProperties

LEMMA BatchFacts ==
    ASSUME NEW s \in Schemas, NEW b, IsBatch(s, b)
    PROVE  /\ b = [cols |-> b.cols, seq |-> b.seq, op |-> b.op] /\ NumRows(b) \in Nat
           /\ NumRows(b) = Len(b.seq) /\ NumRows(b) = Len(b.op)
           /\ b.cols = [c \in DOMAIN s.columns |-> b.cols[c]] /\ DOMAIN b.cols = DOMAIN s.columns
           /\ b.seq \in Seq(Nat) /\ b.op \in Seq({"put", "delete"})
           /\ \A c \in DOMAIN s.columns : b.cols[c] \in Seq(CellSet) /\ Len(b.cols[c]) = NumRows(b)
  BY DEF IsBatch, BatchParts, NumRows

LEMMA SliceFacts ==
    ASSUME NEW s \in Schemas, NEW b, IsBatch(s, b), NEW i \in 1 .. NumRows(b) + 1,
           NEW j \in i - 1 .. NumRows(b)
    PROVE  /\ IsBatch(s, Slice(b, i, j)) /\ NumRows(Slice(b, i, j)) = j - i + 1
           /\ \A k \in 1 .. j - i + 1 : RowAt(s, Slice(b, i, j), k) = RowAt(s, b, i + k - 1)
<1> DEFINE a == Slice(b, i, j)
           n == NumRows(b)
<1>0. /\ b.seq \in Seq(Nat) /\ Len(b.seq) = n /\ b.op \in Seq({"put", "delete"}) /\ Len(b.op) = n
      /\ DOMAIN b.cols = DOMAIN s.columns /\ n \in Nat
      /\ \A c \in DOMAIN s.columns : b.cols[c] \in Seq(CellSet) /\ Len(b.cols[c]) = n
  BY BatchFacts
<1>1. /\ a.seq = SubSeq(b.seq, i, j) /\ a.op = SubSeq(b.op, i, j)
      /\ a = [cols |-> a.cols, seq |-> a.seq, op |-> a.op]
      /\ a.cols = [c \in DOMAIN s.columns |-> a.cols[c]]
      /\ \A c \in DOMAIN s.columns : a.cols[c] = SubSeq(b.cols[c], i, j)
  BY <1>0 DEF Slice
<1>r. i \in 1 .. n + 1 /\ j \in i - 1 .. n
  OBVIOUS
<1> HIDE DEF a, n
<1>2. /\ a.seq \in Seq(Nat) /\ Len(a.seq) = j - i + 1
      /\ \A k \in 1 .. j - i + 1 : a.seq[k] = b.seq[i + k - 1]
  <2>1. PICK q, S : q = b.seq /\ S = Nat
    OBVIOUS
  <2>2. q \in Seq(S) /\ Len(q) = n
    BY <1>0, <2>1
  <2>3. /\ SubSeq(q, i, j) \in Seq(S) /\ Len(SubSeq(q, i, j)) = j - i + 1
        /\ \A k \in 1 .. j - i + 1 : SubSeq(q, i, j)[k] = q[i + k - 1]
    BY <1>r, <2>2, CutFacts
  <2> QED BY <1>1, <2>1, <2>3
<1>3. /\ a.op \in Seq({"put", "delete"}) /\ Len(a.op) = j - i + 1
      /\ \A k \in 1 .. j - i + 1 : a.op[k] = b.op[i + k - 1]
  <2>1. PICK q, S : q = b.op /\ S = {"put", "delete"}
    OBVIOUS
  <2>2. q \in Seq(S) /\ Len(q) = n
    BY <1>0, <2>1
  <2>3. /\ SubSeq(q, i, j) \in Seq(S) /\ Len(SubSeq(q, i, j)) = j - i + 1
        /\ \A k \in 1 .. j - i + 1 : SubSeq(q, i, j)[k] = q[i + k - 1]
    BY <1>r, <2>2, CutFacts
  <2> QED BY <1>1, <2>1, <2>3
<1>4. ASSUME NEW c \in DOMAIN s.columns
      PROVE  /\ a.cols[c] \in Seq(CellSet) /\ Len(a.cols[c]) = j - i + 1
             /\ \A k \in 1 .. j - i + 1 : a.cols[c][k] = b.cols[c][i + k - 1]
  <2>1. PICK q, S : q = b.cols[c] /\ S = CellSet
    OBVIOUS
  <2>2. q \in Seq(S) /\ Len(q) = n
    BY <1>0, <2>1
  <2>3. /\ SubSeq(q, i, j) \in Seq(S) /\ Len(SubSeq(q, i, j)) = j - i + 1
        /\ \A k \in 1 .. j - i + 1 : SubSeq(q, i, j)[k] = q[i + k - 1]
    BY <1>r, <2>2, CutFacts
  <2> QED BY <1>1, <2>1, <2>3
<1>5. a.cols \in [DOMAIN s.columns -> Seq(CellSet)]
  BY <1>1, <1>4
<1>6. IsBatch(s, a) /\ NumRows(a) = j - i + 1
  BY <1>1, <1>2, <1>3, <1>4, <1>5 DEF IsBatch, BatchParts, NumRows
<1>7. ASSUME NEW k \in 1 .. j - i + 1 PROVE RowAt(s, a, k) = RowAt(s, b, i + k - 1)
  <2>1. PICK m : m = i + k - 1
    OBVIOUS
  <2>2. /\ \A c \in DOMAIN s.columns : a.cols[c][k] = b.cols[c][m]
        /\ a.seq[k] = b.seq[m] /\ a.op[k] = b.op[m]
    BY <1>2, <1>3, <1>4, <2>1
  <2>3. RowAt(s, a, k) = RowAt(s, b, m)
    BY <2>2, SameRow
  <2> QED BY <2>1, <2>3
<1> QED BY <1>6, <1>7 DEF a

\* The lengths of batches, and where each begins when they are joined.
RowLens(bs) == [i \in DOMAIN bs |-> NumRows(bs[i])]
AreBatches(s, bs) ==
    bs \in Seq(BatchParts(s)) /\ \A i \in 1 .. Len(bs) : IsBatch(s, bs[i])

AreColumns(seqs, lens, n, S) ==
    /\ n \in Nat /\ seqs \in [1 .. n -> Seq(S)] /\ lens \in Seq(Nat) /\ Len(lens) = n
    /\ \A i \in 1 .. n : Len(seqs[i]) = lens[i]

LEMMA ColumnFacts ==
    ASSUME NEW S, NEW seqs, NEW lens, NEW n, AreColumns(seqs, lens, n, S)
    PROVE  /\ FlattenSeq(seqs) \in Seq(S) /\ Len(FlattenSeq(seqs)) = Offset(lens)[n]
           /\ IsOffset(lens, Offset(lens))
           /\ \A i \in 1 .. n : \A j \in 1 .. lens[i] :
                FlattenSeq(seqs)[Offset(lens)[i - 1] + j] = seqs[i][j]
<1>0. /\ n \in Nat /\ seqs \in [1 .. n -> Seq(S)] /\ lens \in Seq(Nat) /\ Len(lens) = n
      /\ \A i \in 1 .. n : Len(seqs[i]) = lens[i]
  BY DEF AreColumns
<1>1. seqs \in Seq(Seq(S)) /\ Len(seqs) = n /\ DOMAIN seqs = 1 .. n
  BY <1>0, FunctionSeq
<1>2. Lens(seqs) = lens
  <2>1. DOMAIN lens = 1 .. n /\ lens = [i \in 1 .. n |-> lens[i]]
    BY <1>0
  <2>2. Lens(seqs) = [i \in 1 .. n |-> Len(seqs[i])]
    BY <1>1 DEF Lens
  <2> QED BY <1>0, <2>1, <2>2
<1>3. PICK w \in Seq(Seq(S)) : w = seqs
  BY <1>1
<1>p. w \in Seq(Seq(S))
  BY <1>3
<1>4. /\ FlattenSeq(w) \in Seq(S)
      /\ IsOffset(Lens(w), Offset(Lens(w)))
      /\ Len(Lens(w)) = Len(w)
      /\ Len(FlattenSeq(w)) = Sum(Lens(w))
      /\ \A i \in 1 .. Len(w) : \A j \in 1 .. Len(w[i]) :
            FlattenSeq(w)[Offset(Lens(w))[i - 1] + j] = w[i][j]
  BY <1>p, FlatFacts
<1>5. Sum(lens) = Offset(lens)[n]
  BY <1>0 DEF Sum
<1>6. \A i \in 1 .. n : w[i] = seqs[i] /\ Len(w[i]) = lens[i]
  BY <1>0, <1>3
<1>7. Lens(w) = lens /\ Len(w) = n
  BY <1>1, <1>2, <1>3
<1>8. \A i \in 1 .. n : \A j \in 1 .. lens[i] : FlattenSeq(w)[Offset(lens)[i - 1] + j] = seqs[i][j]
  BY <1>4, <1>6, <1>7
<1>9. /\ FlattenSeq(w) \in Seq(S) /\ Len(FlattenSeq(w)) = Offset(lens)[n]
      /\ IsOffset(lens, Offset(lens))
  BY <1>4, <1>5, <1>7, Zenon
<1> QED BY <1>3, <1>8, <1>9, Zenon

LEMMA ConcatFacts ==
    ASSUME NEW s \in Schemas, NEW bs, AreBatches(s, bs)
    PROVE  LET off == Offset(RowLens(bs))
               b == Concatenated(s, bs)
           IN  /\ RowLens(bs) \in Seq(Nat) /\ Len(RowLens(bs)) = Len(bs) /\ Len(bs) \in Nat
               /\ \A i \in 1 .. Len(bs) : RowLens(bs)[i] = NumRows(bs[i])
               /\ IsOffset(RowLens(bs), off)
               /\ IsBatch(s, b) /\ NumRows(b) = off[Len(bs)]
               /\ \A i \in 1 .. Len(bs) : \A j \in 1 .. NumRows(bs[i]) :
                    RowAt(s, b, off[i - 1] + j) = RowAt(s, bs[i], j)
<1> DEFINE lens == RowLens(bs)
           off == Offset(lens)
           b == Concatenated(s, bs)
           n == Len(bs)
           col(c) == [i \in DOMAIN bs |-> bs[i].cols[c]]
           seqs == [i \in DOMAIN bs |-> bs[i].seq]
           opers == [i \in DOMAIN bs |-> bs[i].op]
<1>1. n \in Nat /\ DOMAIN bs = 1 .. n /\ \A i \in 1 .. n : IsBatch(s, bs[i])
  BY DEF AreBatches
<1>2. ASSUME NEW i \in 1 .. n
      PROVE  /\ bs[i].seq \in Seq(Nat) /\ Len(bs[i].seq) = NumRows(bs[i])
             /\ bs[i].op \in Seq({"put", "delete"}) /\ Len(bs[i].op) = NumRows(bs[i])
             /\ NumRows(bs[i]) \in Nat
             /\ \A c \in DOMAIN s.columns :
                    bs[i].cols[c] \in Seq(CellSet) /\ Len(bs[i].cols[c]) = NumRows(bs[i])
  <2>1. PICK x : x = bs[i]
    OBVIOUS
  <2>2. IsBatch(s, x)
    BY <1>1, <2>1
  <2> QED BY <2>1, <2>2, BatchFacts
<1>3. lens \in [1 .. n -> Nat] /\ \A i \in 1 .. n : lens[i] = NumRows(bs[i])
  BY <1>1, <1>2 DEF RowLens
<1>4. lens \in Seq(Nat) /\ Len(lens) = n
  <2> HIDE DEF lens, n
  <2> QED BY <1>1, <1>3, FunctionSeq
<1>5. /\ b = [cols |-> b.cols, seq |-> b.seq, op |-> b.op]
      /\ b.cols = [c \in DOMAIN s.columns |-> b.cols[c]]
      /\ \A c \in DOMAIN s.columns : b.cols[c] = FlattenSeq(col(c))
      /\ b.seq = FlattenSeq(seqs) /\ b.op = FlattenSeq(opers)
  BY DEF Concatenated
<1>6. /\ seqs \in [1 .. n -> Seq(Nat)] /\ \A i \in 1 .. n : seqs[i] = bs[i].seq /\ Len(seqs[i]) = lens[i]
      /\ opers \in [1 .. n -> Seq({"put", "delete"})]
      /\ \A i \in 1 .. n : opers[i] = bs[i].op /\ Len(opers[i]) = lens[i]
  BY <1>1, <1>2, <1>3
<1>7. ASSUME NEW c \in DOMAIN s.columns
      PROVE  /\ col(c) \in [1 .. n -> Seq(CellSet)]
             /\ \A i \in 1 .. n : col(c)[i] = bs[i].cols[c] /\ Len(col(c)[i]) = lens[i]
  BY <1>1, <1>2, <1>3
<1> HIDE DEF seqs, opers, col, lens, b, n
<1>8. /\ b.seq \in Seq(Nat) /\ Len(b.seq) = off[n] /\ IsOffset(lens, off)
      /\ \A i \in 1 .. n : \A j \in 1 .. lens[i] : b.seq[off[i - 1] + j] = seqs[i][j]
  <2>1. PICK w : w = seqs
    OBVIOUS
  <2>2. AreColumns(w, lens, n, Nat)
    BY <1>1, <1>4, <1>6, <2>1 DEF AreColumns
  <2>3. /\ FlattenSeq(w) \in Seq(Nat) /\ Len(FlattenSeq(w)) = Offset(lens)[n]
        /\ IsOffset(lens, Offset(lens))
        /\ \A i \in 1 .. n : \A j \in 1 .. lens[i] :
                FlattenSeq(w)[Offset(lens)[i - 1] + j] = w[i][j]
    BY <2>2, ColumnFacts
  <2> QED BY <1>5, <2>1, <2>3
<1>9. /\ b.op \in Seq({"put", "delete"}) /\ Len(b.op) = off[n]
      /\ \A i \in 1 .. n : \A j \in 1 .. lens[i] : b.op[off[i - 1] + j] = opers[i][j]
  <2>1. PICK w : w = opers
    OBVIOUS
  <2>2. AreColumns(w, lens, n, {"put", "delete"})
    BY <1>1, <1>4, <1>6, <2>1 DEF AreColumns
  <2>3. /\ FlattenSeq(w) \in Seq({"put", "delete"}) /\ Len(FlattenSeq(w)) = Offset(lens)[n]
        /\ \A i \in 1 .. n : \A j \in 1 .. lens[i] :
                FlattenSeq(w)[Offset(lens)[i - 1] + j] = w[i][j]
    BY <2>2, ColumnFacts
  <2> QED BY <1>5, <2>1, <2>3
<1>10. ASSUME NEW c \in DOMAIN s.columns
       PROVE  /\ b.cols[c] \in Seq(CellSet) /\ Len(b.cols[c]) = off[n]
              /\ \A i \in 1 .. n : \A j \in 1 .. lens[i] : b.cols[c][off[i - 1] + j] = col(c)[i][j]
  <2>1. PICK w : w = col(c)
    OBVIOUS
  <2>2. AreColumns(w, lens, n, CellSet)
    BY <1>1, <1>4, <1>7, <2>1 DEF AreColumns
  <2>3. /\ FlattenSeq(w) \in Seq(CellSet) /\ Len(FlattenSeq(w)) = Offset(lens)[n]
        /\ \A i \in 1 .. n : \A j \in 1 .. lens[i] :
                FlattenSeq(w)[Offset(lens)[i - 1] + j] = w[i][j]
    BY <2>2, ColumnFacts
  <2> QED BY <1>5, <2>1, <2>3
<1>11. IsBatch(s, b) /\ NumRows(b) = off[n]
  <2>1. b.cols \in [DOMAIN s.columns -> Seq(CellSet)]
    BY <1>5, <1>10
  <2> QED BY <1>5, <1>8, <1>9, <1>10, <2>1 DEF IsBatch, BatchParts, NumRows
<1>12. ASSUME NEW i \in 1 .. n, NEW j \in 1 .. NumRows(bs[i])
       PROVE  RowAt(s, b, off[i - 1] + j) = RowAt(s, bs[i], j)
  <2>1. j \in 1 .. lens[i]
    BY <1>3
  <2>2. PICK x, k : x = bs[i] /\ k = off[i - 1] + j
    OBVIOUS
  <2>a. b.seq[k] = x.seq[j] /\ b.op[k] = x.op[j]
    BY <1>6, <1>8, <1>9, <2>1, <2>2
  <2>b. \A c \in DOMAIN s.columns : b.cols[c][k] = x.cols[c][j]
    BY <1>7, <1>10, <2>1, <2>2
  <2>3. /\ \A c \in DOMAIN s.columns : b.cols[c][k] = x.cols[c][j]
        /\ b.seq[k] = x.seq[j] /\ b.op[k] = x.op[j]
    BY <2>a, <2>b
  <2>4. RowAt(s, b, k) = RowAt(s, x, j)
    BY <2>3, SameRow
  <2> QED BY <2>2, <2>4
<1> QED BY <1>1, <1>3, <1>4, <1>8, <1>11, <1>12 DEF lens, b, n

\* Where the pieces of N rows end, when at most n go into one.
CutAt(N, n, p) == IF p * n < N THEN p * n ELSE N
PieceCount(N, n) == (N + n - 1) \div n

LEMMA CutsFacts ==
    ASSUME NEW N \in Nat, NEW n \in Nat \ {0}, NEW m, m = PieceCount(N, n)
    PROVE  /\ m \in Nat /\ CutAt(N, n, 0) = 0 /\ CutAt(N, n, m) = N
           /\ \A p \in 0 .. m : CutAt(N, n, p) \in 0 .. N
           /\ \A p \in 1 .. m : CutAt(N, n, p - 1) = (p - 1) * n /\ CutAt(N, n, p - 1) < CutAt(N, n, p)
<1>0. m = (N + n - 1) \div n
  BY DEF PieceCount
<1>1. /\ m \in Nat
      /\ \A i \in 1 .. m : /\ (i - 1) * n \in Nat /\ i * n = (i - 1) * n + n
                           /\ (i - 1) * n < N
      /\ \A i, j \in 1 .. m : i < j => i * n <= (j - 1) * n
      /\ \A k \in 1 .. N : \E i \in 1 .. m : (i - 1) * n < k /\ k <= i * n
  BY <1>0, Chunks
<1>2. CutAt(N, n, 0) = 0
  BY DEF CutAt
<1>3. CutAt(N, n, m) = N
  <2>1. CASE N = 0
    <3>1. m * n \in Nat
      BY <1>1
    <3> QED BY <2>1, <3>1 DEF CutAt
  <2>2. CASE N # 0
    <3>1. N \in 1 .. N
      BY <2>2
    <3>2. PICK i \in 1 .. m : N <= i * n
      BY <1>1, <3>1
    <3>3. i \in Int /\ m \in Int /\ i <= m /\ n \in Nat
      BY <1>1, <3>2
    <3>4. i * n \in Int /\ m * n \in Int /\ i * n <= m * n
      BY <3>3, Times2
    <3>5. ~ (m * n < N)
      BY <3>2, <3>4
    <3> QED BY <3>5 DEF CutAt
  <2> QED BY <2>1, <2>2
<1>4. ASSUME NEW p \in 0 .. m PROVE CutAt(N, n, p) \in 0 .. N
  <2>1. p * n \in Nat
    BY <1>1
  <2> QED BY <2>1 DEF CutAt
<1>5. ASSUME NEW p \in 1 .. m
      PROVE  CutAt(N, n, p - 1) = (p - 1) * n /\ CutAt(N, n, p - 1) < CutAt(N, n, p)
  <2>1. (p - 1) * n \in Nat /\ p * n = (p - 1) * n + n /\ (p - 1) * n < N
    BY <1>1
  <2>2. PICK x, y \in Nat : x = (p - 1) * n /\ y = p * n
    BY <2>1
  <2>3. y = x + n /\ x < N
    BY <2>1, <2>2
  <2>4. CutAt(N, n, p - 1) = x
    BY <2>2, <2>3 DEF CutAt
  <2>5. CutAt(N, n, p) = IF y < N THEN y ELSE N
    BY <2>2 DEF CutAt
  <2>6. x < CutAt(N, n, p)
    BY <2>3, <2>5
  <2> QED BY <2>2, <2>4, <2>6
<1> QED BY <1>1, <1>2, <1>3, <1>4, <1>5

LEMMA OffsetUnique ==
    ASSUME NEW lens \in Seq(Nat), NEW off, IsOffset(lens, off), NEW g,
           IsOffset(lens, g), NEW i \in 0 .. Len(lens)
    PROVE  off[i] = g[i]
<1> DEFINE N == Len(lens)
           I == {k \in 0 .. N : off[k] = g[k]}
<1>0. N \in Nat
  OBVIOUS
<1>1. /\ off[0] = 0 /\ g[0] = 0 /\ \A k \in 1 .. N : off[k] = off[k - 1] + lens[k]
      /\ \A k \in 1 .. N : g[k] = g[k - 1] + lens[k]
  BY DEF IsOffset
<1> HIDE DEF N
<1>2. 0 \in I
  BY <1>0, <1>1
<1>3. ASSUME NEW k \in 0 .. N - 1, k \in I PROVE k + 1 \in I
  <2>1. k + 1 \in 1 .. N /\ (k + 1) - 1 = k /\ k + 1 \in 0 .. N
    BY <1>0
  <2>2. off[k + 1] = off[k] + lens[k + 1] /\ g[k + 1] = g[k] + lens[k + 1]
    BY <1>1, <2>1
  <2>3. off[k] = g[k]
    BY <1>3
  <2> QED BY <2>1, <2>2, <2>3
<1> HIDE DEF I
<1>4. 0 \in Int /\ N \in Int /\ 0 \in I /\ \A k \in 0 .. N - 1 : k \in I => k + 1 \in I
  BY <1>0, <1>2, <1>3
<1>5. \A k \in 0 .. N : k \in I
  BY <1>4, CountingUp
<1>6. i \in I
  BY <1>5 DEF N
<1> QED BY <1>6 DEF I

LEMMA OffsetCovers ==
    ASSUME NEW lens, NEW off, lens \in Seq(Nat), IsOffset(lens, off),
           NEW N, off[Len(lens)] = N, NEW p \in 1 .. N
    PROVE  \E i \in 1 .. Len(lens) : \E j \in 1 .. lens[i] : p = off[i - 1] + j
  BY OffsetFacts

CutPiece(q, n, p) == SubSeq(q, CutAt(Len(q), n, p - 1) + 1, CutAt(Len(q), n, p))
\* Cutting a sequence and joining the pieces.
LEMMA FlatPieces ==
    ASSUME NEW S, NEW q \in Seq(S), NEW n \in Nat \ {0}, NEW m, m = PieceCount(Len(q), n),
           NEW seqs, DOMAIN seqs = 1 .. m, seqs = [p \in 1 .. m |-> CutPiece(q, n, p)]
    PROVE  FlattenSeq(seqs) = q
<1> DEFINE N == Len(q)
           cut == [p \in 0 .. m |-> CutAt(N, n, p)]
           lens == [p \in 1 .. m |-> cut[p] - cut[p - 1]]
<1>0. N \in Nat
  OBVIOUS
<1> HIDE DEF N
<1>1. /\ m \in Nat /\ CutAt(N, n, 0) = 0 /\ CutAt(N, n, m) = N
      /\ \A p \in 0 .. m : CutAt(N, n, p) \in 0 .. N
      /\ \A p \in 1 .. m : CutAt(N, n, p - 1) = (p - 1) * n /\ CutAt(N, n, p - 1) < CutAt(N, n, p)
  <2>1. m = PieceCount(N, n)
    BY DEF N
  <2> QED BY <1>0, <2>1, CutsFacts
<1>2. /\ cut[0] = 0 /\ cut[m] = N /\ \A p \in 0 .. m : cut[p] \in 0 .. N /\ cut[p] = CutAt(N, n, p)
      /\ cut \in [0 .. m -> Nat]
      /\ \A p \in 1 .. m : p - 1 \in 0 .. m /\ p \in 0 .. m /\ cut[p - 1] < cut[p]
  BY <1>0, <1>1
<1> HIDE DEF cut
<1>3. lens \in [1 .. m -> Nat] /\ \A p \in 1 .. m : lens[p] = cut[p] - cut[p - 1]
  <2>1. ASSUME NEW p \in 1 .. m PROVE cut[p] - cut[p - 1] \in Nat
    <3>1. PICK x, y \in Nat : x = cut[p - 1] /\ y = cut[p]
      BY <1>2
    <3>2. x < y
      BY <1>2, <3>1
    <3>3. y - x \in Nat
      BY <3>2
    <3> QED BY <3>1, <3>3
  <2> QED BY <2>1
<1> HIDE DEF lens
<1>4. lens \in Seq(Nat) /\ Len(lens) = m
  BY <1>1, <1>3, FunctionSeq
<1>5. IsOffset(lens, cut)
  <2>1. ASSUME NEW p \in 1 .. m PROVE cut[p] = cut[p - 1] + lens[p]
    <3>1. PICK x, y \in Nat : x = cut[p - 1] /\ y = cut[p]
      BY <1>2
    <3>2. lens[p] = y - x
      BY <1>3, <3>1
    <3>3. y = x + (y - x)
      OBVIOUS
    <3> QED BY <3>1, <3>2, <3>3
  <2> QED BY <1>2, <1>4, <2>1 DEF IsOffset
<1>6. ASSUME NEW p \in 1 .. m
      PROVE  /\ seqs[p] \in Seq(S) /\ Len(seqs[p]) = lens[p]
             /\ \A j \in 1 .. lens[p] : seqs[p][j] = q[cut[p - 1] + j]
  <2>1. PICK x, y \in 0 .. N : x = cut[p - 1] /\ y = cut[p]
    BY <1>2
  <2>2. x < y /\ x \in Nat /\ y \in Nat /\ y <= N
    BY <1>0, <1>2, <2>1
  <2>3. seqs[p] = SubSeq(q, x + 1, y)
    <3>1. seqs[p] = CutPiece(q, n, p)
      OBVIOUS
    <3> QED BY <1>2, <2>1, <3>1 DEF CutPiece, N
  <2>4. PICK u : u = x + 1
    OBVIOUS
  <2>5. u \in 1 .. N + 1 /\ y \in u - 1 .. N /\ y - u + 1 = y - x
    BY <1>0, <2>2, <2>4
  <2>6. Len(q) = N
    BY DEF N
  <2>7. /\ SubSeq(q, u, y) \in Seq(S) /\ Len(SubSeq(q, u, y)) = y - u + 1
        /\ \A k \in 1 .. y - u + 1 : SubSeq(q, u, y)[k] = q[u + k - 1]
    BY <2>5, <2>6, CutFacts
  <2>8. lens[p] = y - x
    BY <1>3, <2>1
  <2>9. \A k \in 1 .. y - x : seqs[p][k] = q[x + k]
    <3>1. \A k \in 1 .. y - x : u + k - 1 = x + k
      BY <2>2, <2>4
    <3> QED BY <2>3, <2>4, <2>5, <2>7, <3>1
  <2> QED BY <2>1, <2>3, <2>4, <2>5, <2>7, <2>8, <2>9
<1>7. AreColumns(seqs, lens, m, S)
  <2>1. seqs \in [1 .. m -> Seq(S)]
    BY <1>6
  <2> QED BY <1>1, <1>4, <1>6, <2>1 DEF AreColumns
<1>8. /\ FlattenSeq(seqs) \in Seq(S) /\ Len(FlattenSeq(seqs)) = Offset(lens)[m]
      /\ IsOffset(lens, Offset(lens))
      /\ \A i \in 1 .. m : \A j \in 1 .. lens[i] :
            FlattenSeq(seqs)[Offset(lens)[i - 1] + j] = seqs[i][j]
  <2>1. PICK z, l : z = seqs /\ l = lens
    OBVIOUS
  <2>2. AreColumns(z, l, m, S)
    BY <1>7, <2>1
  <2>3. /\ FlattenSeq(z) \in Seq(S) /\ Len(FlattenSeq(z)) = Offset(l)[m]
        /\ IsOffset(l, Offset(l))
        /\ \A i \in 1 .. m : \A j \in 1 .. l[i] :
              FlattenSeq(z)[Offset(l)[i - 1] + j] = z[i][j]
    BY <2>2, ColumnFacts
  <2> QED BY <2>1, <2>3
<1>9. PICK off : off = Offset(lens)
  OBVIOUS
<1>10. \A i \in 0 .. m : off[i] = cut[i]
  <2>1. IsOffset(lens, off)
    BY <1>8, <1>9
  <2> QED BY <1>4, <1>5, <2>1, OffsetUnique
<1>11. PICK w \in Seq(S) : w = FlattenSeq(seqs)
  BY <1>8
<1>12. Len(w) = N
  <2>1. m \in 0 .. m
    BY <1>1
  <2>2. off[m] = cut[m]
    BY <1>10, <2>1
  <2>3. Len(w) = off[m]
    BY <1>8, <1>9, <1>11
  <2>4. cut[m] = N
    BY <1>2
  <2> QED BY <2>2, <2>3, <2>4
<1>13. ASSUME NEW k \in 1 .. N PROVE w[k] = q[k]
  <2>1. PICK l, c : l = lens /\ c = cut
    OBVIOUS
  <2>2. l \in Seq(Nat) /\ IsOffset(l, c) /\ c[Len(l)] = N
    BY <1>2, <1>4, <1>5, <2>1
  <2>5. \E i \in 1 .. Len(l) : \E j \in 1 .. l[i] : k = c[i - 1] + j
    BY <2>2, OffsetCovers
  <2>3. PICK i \in 1 .. m : \E j \in 1 .. lens[i] : k = cut[i - 1] + j
    BY <1>4, <2>1, <2>5
  <2>4. PICK j \in 1 .. lens[i] : k = cut[i - 1] + j
    BY <2>3
  <2>6. w[k] = seqs[i][j]
    <3>1. i - 1 \in 0 .. m
      BY <1>2
    <3>2. off[i - 1] = cut[i - 1]
      BY <1>10, <3>1
    <3>3. w[off[i - 1] + j] = seqs[i][j]
      BY <1>8, <1>9, <1>11
    <3> QED BY <2>4, <3>2, <3>3
  <2> QED BY <1>6, <2>4, <2>6
<1>14. w = q
  <2>1. Len(q) = N
    BY DEF N
  <2> QED BY <1>12, <1>13, <2>1
<1> QED BY <1>11, <1>14

LEMMA FlatOne ==
    ASSUME NEW q
    PROVE  FlattenSeq(<<q>>) = q
<1>1. PICK w : w = <<q>>
  OBVIOUS
<1>2. Len(w) = 1 /\ w[1] = q
  BY <1>1
<1>a. Len(w) \in Nat /\ Len(w) # 0
  BY <1>2
<1>3. PICK f : FlatTo(w, Len(w), f) /\ FlattenSeq(w) = f[Len(w)]
  BY <1>a, FlatFunction
<1>4. f[1] = w[1]
  BY <1>2, <1>3 DEF FlatTo
<1> QED BY <1>1, <1>2, <1>3, <1>4

\* A batch in pieces: which row is where.
LEMMA PiecesFacts ==
    ASSUME NEW s \in Schemas, NEW b, IsBatch(s, b), NEW n \in Nat \ {0}
    PROVE  LET N == NumRows(b)
               m == PieceCount(N, n)
               bs == Pieces(b, n)
           IN  /\ DOMAIN bs = 1 .. m /\ Len(bs) = m /\ AreBatches(s, bs)
               /\ m \in Nat /\ CutAt(N, n, 0) = 0 /\ CutAt(N, n, m) = N
               /\ \A p \in 0 .. m : CutAt(N, n, p) \in 0 .. N
               /\ \A p \in 1 .. m :
                    /\ CutAt(N, n, p - 1) < CutAt(N, n, p) /\ IsBatch(s, bs[p])
                    /\ bs[p] = Slice(b, CutAt(N, n, p - 1) + 1, CutAt(N, n, p))
                    /\ NumRows(bs[p]) = CutAt(N, n, p) - CutAt(N, n, p - 1)
                    /\ \A k \in 1 .. NumRows(bs[p]) :
                        RowAt(s, bs[p], k) = RowAt(s, b, CutAt(N, n, p - 1) + k)
<1> DEFINE N == NumRows(b)
           m == PieceCount(N, n)
           bs == Pieces(b, n)
<1>0. N \in Nat
  BY BatchFacts
<1>1. bs = [p \in 1 .. m |-> Slice(b, (p - 1) * n + 1, CutAt(N, n, p))]
  BY DEF Pieces, PieceCount, CutAt
<1> HIDE DEF bs
<1>2. /\ m \in Nat /\ CutAt(N, n, 0) = 0 /\ CutAt(N, n, m) = N
      /\ \A p \in 0 .. m : CutAt(N, n, p) \in 0 .. N
      /\ \A p \in 1 .. m : CutAt(N, n, p - 1) = (p - 1) * n /\ CutAt(N, n, p - 1) < CutAt(N, n, p)
  <2> HIDE DEF m, N
  <2>1. m = PieceCount(N, n)
    BY DEF m
  <2> QED BY <1>0, <2>1, CutsFacts
<1> HIDE DEF m, N
<1>3. ASSUME NEW p \in 1 .. m
      PROVE  /\ IsBatch(s, bs[p]) /\ bs[p] \in BatchParts(s)
             /\ bs[p] = Slice(b, CutAt(N, n, p - 1) + 1, CutAt(N, n, p))
             /\ NumRows(bs[p]) = CutAt(N, n, p) - CutAt(N, n, p - 1)
             /\ \A k \in 1 .. NumRows(bs[p]) :
                    RowAt(s, bs[p], k) = RowAt(s, b, CutAt(N, n, p - 1) + k)
  <2>1. p \in 0 .. m /\ p - 1 \in 0 .. m
    BY <1>2
  <2>2. PICK x, y \in 0 .. N : x = CutAt(N, n, p - 1) /\ y = CutAt(N, n, p)
    BY <1>2, <2>1
  <2>3. x < y /\ x \in Nat /\ y \in Nat /\ y <= N
    BY <1>0, <1>2, <2>2
  <2>4. PICK i : i = x + 1
    OBVIOUS
  <2>5. /\ i \in 1 .. N + 1 /\ y \in i - 1 .. N /\ y - i + 1 = y - x
        /\ \A k \in 1 .. y - x : i + k - 1 = x + k
    BY <1>0, <2>3, <2>4
  <2>6. i \in 1 .. NumRows(b) + 1 /\ y \in i - 1 .. NumRows(b)
    BY <2>5 DEF N
  <2>7. PICK a : a = Slice(b, i, y)
    OBVIOUS
  <2>8. /\ IsBatch(s, a) /\ NumRows(a) = y - i + 1
        /\ \A k \in 1 .. y - i + 1 : RowAt(s, a, k) = RowAt(s, b, i + k - 1)
    BY <2>6, <2>7, SliceFacts
  <2>9. bs[p] = a
    BY <1>1, <1>2, <2>2, <2>4, <2>7
  <2>10. a \in BatchParts(s)
    BY <2>8 DEF IsBatch
  <2> QED BY <2>2, <2>4, <2>5, <2>7, <2>8, <2>9, <2>10
<1>4. bs \in [1 .. m -> BatchParts(s)]
  BY <1>1, <1>3
<1>5. bs \in Seq(BatchParts(s)) /\ Len(bs) = m /\ DOMAIN bs = 1 .. m
  BY <1>2, <1>4, FunctionSeq
<1>6. AreBatches(s, bs)
  BY <1>3, <1>5 DEF AreBatches
<1> QED BY <1>2, <1>3, <1>5, <1>6 DEF bs, m, N

\* Pieces one after the other are the batch again.
LEMMA PiecesTogether ==
    ASSUME NEW s \in Schemas, NEW b, IsBatch(s, b), NEW n \in Nat \ {0}
    PROVE  Concatenated(s, Pieces(b, n)) = b
<1> DEFINE N == NumRows(b)
           m == PieceCount(N, n)
           bs == Pieces(b, n)
<1>1. /\ DOMAIN bs = 1 .. m
      /\ \A p \in 1 .. m : bs[p] = Slice(b, CutAt(N, n, p - 1) + 1, CutAt(N, n, p))
  BY PiecesFacts
<1> HIDE DEF bs, m, N
<1>2. ASSUME NEW S, NEW q \in Seq(S), Len(q) = N
      PROVE  FlattenSeq([p \in 1 .. m |-> SubSeq(q, CutAt(N, n, p - 1) + 1, CutAt(N, n, p))]) = q
  <2>1. PICK seqs : seqs = [p \in 1 .. m |-> CutPiece(q, n, p)]
    OBVIOUS
  <2>2. DOMAIN seqs = 1 .. m /\ m = PieceCount(Len(q), n)
    BY <1>2, <2>1 DEF m
  <2>3. FlattenSeq(seqs) = q
    BY <2>1, <2>2, FlatPieces
  <2>4. seqs = [p \in 1 .. m |-> SubSeq(q, CutAt(N, n, p - 1) + 1, CutAt(N, n, p))]
    BY <1>2, <2>1 DEF CutPiece
  <2> QED BY <2>3, <2>4
<1>3. /\ b = [cols |-> b.cols, seq |-> b.seq, op |-> b.op]
      /\ b.cols = [c \in DOMAIN s.columns |-> b.cols[c]] /\ DOMAIN b.cols = DOMAIN s.columns
      /\ b.seq \in Seq(Nat) /\ b.op \in Seq({"put", "delete"}) /\ Len(b.seq) = N /\ Len(b.op) = N
      /\ \A c \in DOMAIN s.columns : b.cols[c] \in Seq(CellSet) /\ Len(b.cols[c]) = N
  BY BatchFacts DEF N
<1>4. FlattenSeq([i \in DOMAIN bs |-> bs[i].seq]) = b.seq
  <2>1. [i \in DOMAIN bs |-> bs[i].seq]
            = [p \in 1 .. m |-> SubSeq(b.seq, CutAt(N, n, p - 1) + 1, CutAt(N, n, p))]
    BY <1>1 DEF Slice
  <2>2. PICK q \in Seq(Nat) : q = b.seq /\ Len(q) = N
    BY <1>3
  <2>3. FlattenSeq([p \in 1 .. m |-> SubSeq(q, CutAt(N, n, p - 1) + 1, CutAt(N, n, p))]) = q
    BY <1>2, <2>2
  <2> QED BY <2>1, <2>2, <2>3
<1>5. FlattenSeq([i \in DOMAIN bs |-> bs[i].op]) = b.op
  <2>1. [i \in DOMAIN bs |-> bs[i].op]
            = [p \in 1 .. m |-> SubSeq(b.op, CutAt(N, n, p - 1) + 1, CutAt(N, n, p))]
    BY <1>1 DEF Slice
  <2>2. PICK S : S = {"put", "delete"}
    OBVIOUS
  <2>3. PICK q \in Seq(S) : q = b.op /\ Len(q) = N
    BY <1>3, <2>2
  <2>4. FlattenSeq([p \in 1 .. m |-> SubSeq(q, CutAt(N, n, p - 1) + 1, CutAt(N, n, p))]) = q
    BY <1>2, <2>3
  <2> QED BY <2>1, <2>3, <2>4
<1>6. ASSUME NEW c \in DOMAIN s.columns
      PROVE  FlattenSeq([i \in DOMAIN bs |-> bs[i].cols[c]]) = b.cols[c]
  <2>1. [i \in DOMAIN bs |-> bs[i].cols[c]]
            = [p \in 1 .. m |-> SubSeq(b.cols[c], CutAt(N, n, p - 1) + 1, CutAt(N, n, p))]
    <3>1. ASSUME NEW i, NEW j PROVE Slice(b, i, j).cols[c] = SubSeq(b.cols[c], i, j)
      BY <1>3 DEF Slice
    <3>2. \A p \in 1 .. m : bs[p].cols[c] = SubSeq(b.cols[c], CutAt(N, n, p - 1) + 1, CutAt(N, n, p))
      BY <1>1, <3>1
    <3> QED BY <1>1, <3>2
  <2>3. PICK q \in Seq(CellSet) : q = b.cols[c] /\ Len(q) = N
    BY <1>3
  <2>4. FlattenSeq([p \in 1 .. m |-> SubSeq(q, CutAt(N, n, p - 1) + 1, CutAt(N, n, p))]) = q
    BY <1>2, <2>3
  <2> QED BY <2>1, <2>3, <2>4
<1>7. Concatenated(s, bs) = [cols |-> b.cols, seq |-> b.seq, op |-> b.op]
  <2>1. [c \in DOMAIN s.columns |-> FlattenSeq([i \in DOMAIN bs |-> bs[i].cols[c]])] = b.cols
    BY <1>3, <1>6
  <2> QED BY <1>4, <1>5, <2>1 DEF Concatenated
<1> QED BY <1>3, <1>7 DEF bs

\* One batch alone, and what the builders make of it.
LEMMA OneBatch ==
    ASSUME NEW s \in Schemas, NEW b, IsBatch(s, b)
    PROVE  Concatenated(s, <<b>>) = b /\ MergedBatch(s, b) = b
<1>1. /\ b = [cols |-> b.cols, seq |-> b.seq, op |-> b.op]
      /\ b.cols = [c \in DOMAIN s.columns |-> b.cols[c]] /\ DOMAIN b.cols = DOMAIN s.columns
      /\ \A c \in DOMAIN s.columns : b.cols[c] \in Seq(CellSet)
  BY BatchFacts
<1>2. PICK bs : bs = <<b>>
  OBVIOUS
<1>3. /\ [i \in DOMAIN bs |-> bs[i].seq] = <<b.seq>> /\ [i \in DOMAIN bs |-> bs[i].op] = <<b.op>>
      /\ \A c \in DOMAIN s.columns : [i \in DOMAIN bs |-> bs[i].cols[c]] = <<b.cols[c]>>
  BY <1>2
<1>4. /\ FlattenSeq([i \in DOMAIN bs |-> bs[i].seq]) = b.seq
      /\ FlattenSeq([i \in DOMAIN bs |-> bs[i].op]) = b.op
      /\ \A c \in DOMAIN s.columns : FlattenSeq([i \in DOMAIN bs |-> bs[i].cols[c]]) = b.cols[c]
  BY <1>3, FlatOne
<1>5. [c \in DOMAIN s.columns |-> FlattenSeq([i \in DOMAIN bs |-> bs[i].cols[c]])] = b.cols
  BY <1>1, <1>4
<1>6. Concatenated(s, bs) = b
  BY <1>1, <1>4, <1>5 DEF Concatenated
<1>7. ASSUME NEW c \in DOMAIN s.columns
      PROVE  [i \in DOMAIN b.cols[c] |-> AppendFrom(b.cols[c], i)] = b.cols[c]
  <2>1. PICK q \in Seq(CellSet) : q = b.cols[c]
    BY <1>1
  <2>2. ASSUME NEW i \in DOMAIN q PROVE AppendFrom(q, i) = q[i]
    <3>1. q[i] \in CellSet
      BY <2>2
    <3>2. CASE q[i] = None
      BY <3>2 DEF AppendFrom
    <3>3. CASE q[i] # None
      <4>1. PICK x : q[i] = Some(x)
        BY <3>1, <3>3 DEF CellSet
      <4> QED BY <3>3, <4>1, SomeFacts DEF AppendFrom
    <3> QED BY <3>2, <3>3
  <2>3. q = [i \in DOMAIN q |-> q[i]]
    BY <2>1
  <2>4. [i \in DOMAIN q |-> AppendFrom(q, i)] = q
    BY <2>2, <2>3
  <2> QED BY <2>1, <2>4
<1>8. [c \in DOMAIN b.cols |-> [i \in DOMAIN b.cols[c] |-> AppendFrom(b.cols[c], i)]] = b.cols
  BY <1>1, <1>7
<1>9. MergedBatch(s, b) = b
  BY <1>1, <1>8 DEF MergedBatch
<1> QED BY <1>2, <1>6, <1>9

-----------------------------------------------------------------------------
(* The batches of a memtable.                                               *)

\* A row as a batch has it, and a batch with the newest row of every key of R,
\* in the order of keys.
Stored(s, r) == [key |-> r.key, seq |-> r.seq, value |-> Proper(s, r.value)]
HoldsNewest(s, b, R) ==
    /\ IsBatch(s, b)
    /\ \A i \in 1 .. NumRows(b) : \E r \in NewestOf(R) : RowAt(s, b, i) = Stored(s, r)
    /\ \A r \in NewestOf(R) : \E i \in 1 .. NumRows(b) : RowAt(s, b, i) = Stored(s, r)
    /\ \A i, j \in 1 .. NumRows(b) : i < j => KeyBefore(KeyAt(s, b, i), KeyAt(s, b, j))
SeriesOf(R, t) == {r \in R : r.key.tags = t}
TagsOf(R) == {r.key.tags : r \in R}
SeriesBatches(s, R) == {MaterializeSeries(s, SeriesOf(R, t)) : t \in TagsOf(R)}
Follows(s, bs, i, j) == KeyBefore(KeyAt(s, bs[i], 1), KeyAt(s, bs[j], 1))
InSeries(s, R, bs) ==
    /\ bs \in Seq(SeriesBatches(s, R)) /\ \A b \in SeriesBatches(s, R) : \E i \in 1 .. Len(bs) : bs[i] = b
    /\ \A i, j \in 1 .. Len(bs) : i < j => Follows(s, bs, i, j)

LEMMA RowAtParts ==
    ASSUME NEW s, NEW b, NEW i, NEW r, RowAt(s, b, i) = Stored(s, r)
    PROVE  KeyAt(s, b, i) = r.key /\ b.seq[i] = r.seq /\ ValueAt(s, b, i) = Proper(s, r.value)
<1>1. /\ RowAt(s, b, i).key = KeyAt(s, b, i) /\ RowAt(s, b, i).seq = b.seq[i]
      /\ RowAt(s, b, i).value = ValueAt(s, b, i)
  BY DEF RowAt
<1>2. Stored(s, r).key = r.key /\ Stored(s, r).seq = r.seq /\ Stored(s, r).value = Proper(s, r.value)
  BY DEF Stored
<1> QED BY <1>1, <1>2

LEMMA SeriesNewest ==
    ASSUME NEW R, NEW t
    PROVE  NewestOf(SeriesOf(R, t)) = {r \in NewestOf(R) : r.key.tags = t}
  BY DEF NewestOf, NewestOfKey, SeriesOf

LEMMA SeriesBatch ==
    ASSUME NEW s \in Schemas, NEW R, Holdable(s, R), NEW t \in TagsOf(R)
    PROVE  LET b == MaterializeSeries(s, SeriesOf(R, t))
           IN  /\ HoldsNewest(s, b, SeriesOf(R, t)) /\ NumRows(b) \in Nat \ {0}
               /\ \A i \in 1 .. NumRows(b) :
                    KeyAt(s, b, i) \in AnyKey /\ KeyAt(s, b, i).tags = t
<1> DEFINE S == SeriesOf(R, t)
           K == Kept(S)
           b == MaterializeSeries(s, S)
           N == NewestOf(S)
<1>1. Holdable(s, S) /\ \A r \in S : r.key.tags = t
  <2>1. S \in SUBSET R
    BY DEF SeriesOf
  <2>2. Holdable(s, S)
    BY <2>1, SeriesHoldable
  <2> QED BY <2>2 DEF SeriesOf
<1> HIDE DEF S
<1>2. /\ K \in Seq(N) /\ Len(K) \in Nat
      /\ DOMAIN K = 1 .. Len(K) /\ Range(K) = N
      /\ \A i, j \in DOMAIN K : i < j => K[i].key.ts < K[j].key.ts
  BY <1>1, KeptFacts
<1>3. N \in SUBSET S /\ \A q \in S : \E r \in N : r.key = q.key
  BY <1>1, NewestFacts
<1>4. S \subseteq RowsFor(s)
  BY <1>1 DEF Holdable
<1> HIDE DEF N
<1>5. PICK x \in Seq(N) : x = K
  BY <1>2
<1> HIDE DEF K
<1>6. /\ x \in Seq(RowsFor(s)) /\ Len(x) \in Nat /\ DOMAIN x = 1 .. Len(x)
      /\ \A i \in 1 .. Len(x) : x[i] \in N /\ x[i] \in S /\ x[i] \in RowsFor(s)
  <2>1. N \subseteq RowsFor(s)
    BY <1>3, <1>4
  <2>2. Len(x) \in Nat /\ DOMAIN x = 1 .. Len(x) /\ \A i \in 1 .. Len(x) : x[i] \in N
    BY <1>5
  <2> QED BY <1>3, <1>5, <2>1, <2>2
<1>7. b = BatchFromRows(s, x)
  <2>1. CASE IsFast(s)
    <3>1. FastBatch(s, x) = BatchFromRows(s, x)
      BY <1>6, <2>1, FastIsGeneral
    <3> QED BY <1>5, <2>1, <3>1 DEF MaterializeSeries, K
  <2>2. CASE ~ IsFast(s)
    BY <1>5, <2>2 DEF MaterializeSeries, K
  <2> QED BY <2>1, <2>2
<1> HIDE DEF b
<1>8. IsBatch(s, b) /\ NumRows(b) = Len(x) /\ \A i \in 1 .. Len(x) : HoldsRow(s, b, i, x[i])
  BY <1>6, <1>7, BatchOfRows
<1>9. ASSUME NEW i \in 1 .. Len(x)
      PROVE  /\ RowAt(s, b, i) = Stored(s, x[i]) /\ KeyAt(s, b, i) = x[i].key
             /\ x[i].key \in AnyKey /\ x[i].key.tags = t /\ x[i].key.ts \in Int
  <2>1. RowAt(s, b, i) = Stored(s, x[i]) /\ KeyAt(s, b, i) = x[i].key
    BY <1>8 DEF HoldsRow, RowAt, Stored
  <2>2. x[i].key.tags = t
    BY <1>1, <1>6
  <2>3. PICK r \in RowsFor(s) : r = x[i]
    BY <1>6
  <2>4. r.key.tags \in Seq(Nat) /\ r.key.ts \in Int /\ r.key = [tags |-> r.key.tags, ts |-> r.key.ts]
    BY RowParts
  <2>5. r.key \in AnyKey
    BY <2>4 DEF AnyKey
  <2> QED BY <2>1, <2>2, <2>3, <2>4, <2>5
<1>10. ASSUME NEW r \in N PROVE \E i \in 1 .. Len(x) : x[i] = r
  <2>1. r \in Range(x)
    BY <1>2, <1>5
  <2> QED BY <1>6, <2>1 DEF Range
<1>11. Len(x) # 0
  <2>1. PICK r \in S : TRUE
    BY DEF TagsOf, S, SeriesOf
  <2>2. PICK q \in N : TRUE
    BY <1>3, <2>1
  <2> QED BY <1>6, <1>10, <2>2
<1>12. ASSUME NEW i \in 1 .. Len(x), NEW j \in 1 .. Len(x), i < j
       PROVE  KeyBefore(KeyAt(s, b, i), KeyAt(s, b, j))
  <2>1. x[i].key.ts < x[j].key.ts
    BY <1>2, <1>5, <1>6, <1>12
  <2> QED BY <1>9, <2>1 DEF KeyBefore
<1>13. HoldsNewest(s, b, S)
  <2>1. \A i \in 1 .. NumRows(b) : \E r \in N : RowAt(s, b, i) = Stored(s, r)
    BY <1>6, <1>8, <1>9
  <2>2. \A r \in N : \E i \in 1 .. NumRows(b) : RowAt(s, b, i) = Stored(s, r)
    <3>1. ASSUME NEW r \in N PROVE \E i \in 1 .. NumRows(b) : RowAt(s, b, i) = Stored(s, r)
      <4>1. PICK i \in 1 .. Len(x) : x[i] = r
        BY <1>10
      <4> QED BY <1>8, <1>9, <4>1
    <3> QED BY <3>1
  <2> QED BY <1>8, <1>12, <2>1, <2>2 DEF HoldsNewest, N
<1> QED BY <1>6, <1>8, <1>9, <1>11, <1>13 DEF b, S

\* A series has one batch, and its keys come all before or all behind another's.
LEMMA BatchesApart ==
    ASSUME NEW s \in Schemas, NEW R, Holdable(s, R)
    PROVE  /\ \A b \in SeriesBatches(s, R) :
                /\ IsBatch(s, b) /\ NumRows(b) \in Nat \ {0} /\ KeyAt(s, b, 1) \in AnyKey
                /\ \A i \in 1 .. NumRows(b) : KeyAt(s, b, i) \in AnyKey
                                              /\ KeyAt(s, b, i).tags = KeyAt(s, b, 1).tags
                /\ HoldsNewest(s, b, SeriesOf(R, KeyAt(s, b, 1).tags))
           /\ \A a, b \in SeriesBatches(s, R) : KeyAt(s, a, 1).tags = KeyAt(s, b, 1).tags => a = b
           /\ \A r \in R : \E b \in SeriesBatches(s, R) : KeyAt(s, b, 1).tags = r.key.tags
           /\ IsFiniteSet(SeriesBatches(s, R))
<1> DEFINE of(t) == MaterializeSeries(s, SeriesOf(R, t))
           B == SeriesBatches(s, R)
<1>1. ASSUME NEW t \in TagsOf(R)
      PROVE  /\ HoldsNewest(s, of(t), SeriesOf(R, t)) /\ NumRows(of(t)) \in Nat \ {0}
             /\ \A i \in 1 .. NumRows(of(t)) :
                    KeyAt(s, of(t), i) \in AnyKey /\ KeyAt(s, of(t), i).tags = t
             /\ KeyAt(s, of(t), 1) \in AnyKey /\ KeyAt(s, of(t), 1).tags = t
             /\ IsBatch(s, of(t))
  <2>1. /\ HoldsNewest(s, of(t), SeriesOf(R, t)) /\ NumRows(of(t)) \in Nat \ {0}
        /\ \A i \in 1 .. NumRows(of(t)) :
                KeyAt(s, of(t), i) \in AnyKey /\ KeyAt(s, of(t), i).tags = t
    BY SeriesBatch
  <2>2. 1 \in 1 .. NumRows(of(t))
    BY <2>1
  <2> QED BY <2>1, <2>2 DEF HoldsNewest
<1> HIDE DEF of
<1>2. B = {of(t) : t \in TagsOf(R)}
  BY DEF SeriesBatches, of
<1> HIDE DEF B
<1>3. ASSUME NEW b \in B
      PROVE  /\ IsBatch(s, b) /\ NumRows(b) \in Nat \ {0} /\ KeyAt(s, b, 1) \in AnyKey
             /\ \A i \in 1 .. NumRows(b) : KeyAt(s, b, i) \in AnyKey
                                           /\ KeyAt(s, b, i).tags = KeyAt(s, b, 1).tags
             /\ HoldsNewest(s, b, SeriesOf(R, KeyAt(s, b, 1).tags))
             /\ KeyAt(s, b, 1).tags \in TagsOf(R) /\ b = of(KeyAt(s, b, 1).tags)
  <2>1. PICK t \in TagsOf(R) : b = of(t)
    BY <1>2
  <2> QED BY <1>1, <2>1
<1>4. \A a, b \in B : KeyAt(s, a, 1).tags = KeyAt(s, b, 1).tags => a = b
  BY <1>3
<1>5. ASSUME NEW r \in R PROVE \E b \in B : KeyAt(s, b, 1).tags = r.key.tags
  <2>1. r.key.tags \in TagsOf(R)
    BY DEF TagsOf
  <2> QED BY <1>1, <1>2, <2>1
<1>6. IsFiniteSet(B)
  <2> DEFINE f == [r \in R |-> of(r.key.tags)]
  <2>1. f \in [R -> B] /\ \A b \in B : \E r \in R : f[r] = b
    BY <1>2 DEF TagsOf
  <2>2. f \in Surjection(R, B)
    BY <2>1 DEF Surjection
  <2>3. IsFiniteSet(R)
    BY DEF Holdable
  <2> QED BY <2>2, <2>3, FS_Surjection
<1> QED BY <1>3, <1>4, <1>5, <1>6 DEF B

LEMMA KeyNotBack ==
    ASSUME NEW k \in AnyKey, NEW l \in AnyKey, KeyBefore(k, l)
    PROVE  ~ KeyBefore(l, k)
<1>1. ASSUME KeyBefore(l, k) PROVE FALSE
  <2>1. KeyBefore(k, k)
    BY <1>1, KeysOrdered
  <2> QED BY <2>1, KeysOrdered
<1> QED BY <1>1

\* What is sorted by the first key and has every batch, a sort can make of a set.
LEMMA ToBatchesFacts ==
    ASSUME NEW s \in Schemas, NEW R, Holdable(s, R)
    PROVE  /\ ToBatches(s, R) = None <=> Refused(s) /\ R # {}
           /\ ToBatches(s, R) # None => \E bs : ToBatches(s, R) = Some(bs) /\ InSeries(s, R, bs)
<1> DEFINE B == SeriesBatches(s, R)
           first(b) == KeyAt(s, b, 1)
           L == {p \in B \X B : KeyBefore(first(p[1]), first(p[2]))}
           Is(q) == /\ IsInjective(q)
                    /\ \A i, j \in DOMAIN q : i < j => KeyBefore(KeyAt(s, q[i], 1), KeyAt(s, q[j], 1))
           made == CHOOSE q \in [1 .. Cardinality(B) -> B] : Is(q)
<1>1. /\ \A b \in B : first(b) \in AnyKey
      /\ \A a, b \in B : first(a).tags = first(b).tags => a = b
      /\ IsFiniteSet(B)
  BY BatchesApart
<1>2. ToBatches(s, R) = IF Refused(s) /\ R # {} THEN None ELSE Some(made)
  BY DEF ToBatches, InOrderOf, SeriesBatches, SeriesOf, TagsOf
<1> HIDE DEF B, first
<1>3. \A a, b \in B : <<a, b>> \in L <=> KeyBefore(first(a), first(b))
  OBVIOUS
<1> HIDE DEF L
<1>4. Orders(L, B)
  <2>1. ASSUME NEW x \in B, NEW y \in B PROVE <<x, y>> \in L \/ <<y, x>> \in L \/ x = y
    <3>1. KeyBefore(first(x), first(y)) \/ KeyBefore(first(y), first(x)) \/ first(x) = first(y)
      BY <1>1, KeysOrdered
    <3> QED BY <1>1, <1>3, <3>1
  <2>2. ASSUME NEW x \in B, NEW y \in B, NEW z \in B, <<x, y>> \in L, <<y, z>> \in L
        PROVE  <<x, z>> \in L
    <3>1. PICK k, l, m \in AnyKey : k = first(x) /\ l = first(y) /\ m = first(z)
      BY <1>1
    <3>2. KeyBefore(k, l) /\ KeyBefore(l, m)
      BY <1>3, <2>2, <3>1
    <3>3. KeyBefore(k, m)
      BY <3>2, KeysOrdered
    <3> QED BY <1>3, <3>1, <3>3
  <2>3. ASSUME NEW x \in B PROVE <<x, x>> \notin L
    BY <1>1, <1>3, KeysOrdered
  <2> QED BY <2>1, <2>2, <2>3 DEF Orders
<1>5. PICK q \in [1 .. Cardinality(B) -> B] :
            IsInjective(q) /\ \A i, j \in DOMAIN q : i < j => <<q[i], q[j]>> \in L
  BY <1>1, <1>4, Arranged
<1>6. Is(q)
  <2>1. \A i \in DOMAIN q : q[i] \in B
    OBVIOUS
  <2> QED BY <1>3, <1>5, <2>1 DEF first
<1> HIDE DEF Is
<1>7. made \in [1 .. Cardinality(B) -> B] /\ Is(made)
  BY <1>5, <1>6
<1> HIDE DEF made
<1>8. InSeries(s, R, made)
  <2>1. PICK w \in [1 .. Cardinality(B) -> B] : w = made
    BY <1>7
  <2>2. IsInjective(w)
    BY <1>7, <2>1 DEF Is
  <2>3. /\ w \in Seq(B) /\ Len(w) = Cardinality(B) /\ DOMAIN w = 1 .. Cardinality(B)
        /\ Cardinality(B) \in Nat /\ Range(w) = B
    BY <1>1, <2>2, ArrangedAll
  <2>4. \A b \in B : \E i \in 1 .. Len(w) : w[i] = b
    BY <2>3 DEF Range
  <2>5. \A i, j \in 1 .. Len(w) : i < j => Follows(s, w, i, j)
    BY <1>7, <2>1, <2>3 DEF Is, Follows
  <2> QED BY <2>1, <2>3, <2>4, <2>5 DEF InSeries, B
<1>9. Some(made) # None
  BY SomeFacts
<1> QED BY <1>2, <1>8, <1>9

\* Batches in order stay where they are when they are sorted.
LEMMA InSeriesFacts ==
    ASSUME NEW s \in Schemas, NEW R, Holdable(s, R), NEW bs, InSeries(s, R, bs)
    PROVE  /\ Len(bs) \in Nat /\ DOMAIN bs = 1 .. Len(bs)
           /\ \A i \in 1 .. Len(bs) : bs[i] \in SeriesBatches(s, R) /\ KeyAt(s, bs[i], 1) \in AnyKey
           /\ \A i, j \in 1 .. Len(bs) : i < j => Follows(s, bs, i, j)
           /\ \A i, j \in 1 .. Len(bs) : Follows(s, bs, i, j) => i < j
           /\ \A i, j \in 1 .. Len(bs) : KeyAt(s, bs[i], 1) = KeyAt(s, bs[j], 1) => i = j
           /\ AreBatches(s, bs)
<1> DEFINE first(i) == KeyAt(s, bs[i], 1)
           n == Len(bs)
<1>1. /\ n \in Nat /\ DOMAIN bs = 1 .. n /\ \A i \in 1 .. n : bs[i] \in SeriesBatches(s, R)
      /\ \A i, j \in 1 .. n : i < j => Follows(s, bs, i, j)
  BY DEF InSeries
<1>2. \A i \in 1 .. n : first(i) \in AnyKey /\ IsBatch(s, bs[i])
  BY <1>1, BatchesApart
<1> HIDE DEF n
<1>3. \A i, j \in 1 .. n : Follows(s, bs, i, j) <=> KeyBefore(first(i), first(j))
  BY DEF Follows
<1> HIDE DEF first
<1>4. ASSUME NEW i \in 1 .. n, NEW j \in 1 .. n PROVE Follows(s, bs, i, j) <=> i < j
  <2>1. i \in Int /\ j \in Int /\ (i < j \/ i = j \/ j < i)
    BY <1>1
  <2>2. CASE i < j
    BY <1>1, <2>2
  <2>3. CASE i = j
    <3>1. ~ KeyBefore(first(i), first(i))
      BY <1>2, KeysOrdered
    <3> QED BY <1>3, <2>1, <2>3, <3>1
  <2>4. CASE j < i
    <3>1. KeyBefore(first(j), first(i))
      BY <1>1, <1>3, <2>4
    <3>2. ~ KeyBefore(first(i), first(j))
      BY <1>2, <3>1, KeyNotBack
    <3> QED BY <1>3, <2>1, <2>4, <3>2
  <2> QED BY <2>1, <2>2, <2>3, <2>4
<1>5. ASSUME NEW i \in 1 .. n, NEW j \in 1 .. n, first(i) = first(j) PROVE i = j
  <2>1. i \in Int /\ j \in Int /\ (i < j \/ i = j \/ j < i)
    BY <1>1
  <2>2. ~ KeyBefore(first(i), first(j)) /\ ~ KeyBefore(first(j), first(i))
    BY <1>2, <1>5, KeysOrdered
  <2> QED BY <1>3, <1>4, <2>1, <2>2
<1>6. AreBatches(s, bs)
  <2>1. \A i \in 1 .. n : bs[i] \in BatchParts(s)
    BY <1>2 DEF IsBatch
  <2>2. bs = [i \in 1 .. n |-> bs[i]]
    <3>1. bs \in Seq(SeriesBatches(s, R))
      BY DEF InSeries
    <3> QED BY <1>1, <3>1
  <2>3. bs \in [1 .. n -> BatchParts(s)]
    BY <2>1, <2>2
  <2>4. bs \in Seq(BatchParts(s))
    BY <1>1, <2>3, FunctionSeq
  <2> QED BY <1>2, <2>4 DEF AreBatches, n
<1>7. /\ \A i, j \in 1 .. n : i < j => Follows(s, bs, i, j)
      /\ \A i, j \in 1 .. n : Follows(s, bs, i, j) => i < j
  BY <1>4
<1>8. \A i, j \in 1 .. n : first(i) = first(j) => i = j
  BY <1>5
<1> QED BY <1>1, <1>2, <1>6, <1>7, <1>8 DEF n, first

LEMMA IdentityArranges ==
    ASSUME NEW n \in Nat
    PROVE  /\ Cardinality(1 .. n) = n /\ IsFiniteSet(1 .. n)
           /\ [i \in 1 .. n |-> i] \in [1 .. n -> 1 .. n] /\ IsInjective([i \in 1 .. n |-> i])
<1>1. Cardinality(1 .. n) = n /\ IsFiniteSet(1 .. n)
  BY FS_Interval
<1> QED BY <1>1 DEF IsInjective

LEMMA ByFirstKeyFacts ==
    ASSUME NEW s \in Schemas, NEW R, Holdable(s, R), NEW bs, InSeries(s, R, bs)
    PROVE  InSeries(s, R, ByFirstKey(s, bs))
<1> DEFINE n == Len(bs)
           first(i) == KeyAt(s, bs[i], 1)
           Less(i, j) == KeyBefore(first(i), first(j)) \/ (first(i) = first(j) /\ i < j)
           Is(q) == IsInjective(q) /\ \A i, j \in DOMAIN q : i < j => Less(q[i], q[j])
           made == CHOOSE q \in [1 .. n -> 1 .. n] : Is(q)
           id == [i \in 1 .. n |-> i]
<1>1. /\ n \in Nat /\ DOMAIN bs = 1 .. n /\ \A i \in 1 .. n : bs[i] \in SeriesBatches(s, R)
      /\ \A i, j \in 1 .. n : i < j => Follows(s, bs, i, j)
      /\ \A i, j \in 1 .. n : first(i) = first(j) => i = j
  BY InSeriesFacts
<1> HIDE DEF n
<1>2. /\ Cardinality(1 .. n) = n /\ IsFiniteSet(1 .. n) /\ id \in [1 .. n -> 1 .. n] /\ IsInjective(id)
  BY <1>1, IdentityArranges
<1>3. ByFirstKey(s, bs) = Pick(bs, made)
  BY <1>1, <1>2 DEF ByFirstKey, InOrderOf
<1>4. \A i, j \in 1 .. n : i < j => Less(i, j)
  BY <1>1 DEF Follows
<1> HIDE DEF first, Less
<1>5. Is(id)
  BY <1>2, <1>4
<1> HIDE DEF Is, id
<1>6. made \in [1 .. n -> 1 .. n] /\ Is(made)
  BY <1>2, <1>5
<1> HIDE DEF made
<1>7. PICK q \in [1 .. n -> 1 .. n] : q = made
  BY <1>6
<1>8. /\ DOMAIN q = 1 .. n /\ \A i \in 1 .. n : q[i] \in 1 .. n
      /\ IsInjective(q) /\ \A i, j \in 1 .. n : i < j => Less(q[i], q[j])
  BY <1>6, <1>7 DEF Is
<1>9. ASSUME NEW i \in 1 .. n, NEW j \in 1 .. n, i < j PROVE KeyBefore(first(q[i]), first(q[j]))
  <2>1. Less(q[i], q[j])
    BY <1>8, <1>9
  <2>2. CASE first(q[i]) = first(q[j]) /\ q[i] < q[j]
    <3>1. q[i] = q[j]
      BY <1>1, <1>8, <2>2 DEF first
    <3>2. q[i] \in Int
      BY <1>8
    <3> QED BY <2>2, <3>1, <3>2
  <2> QED BY <2>1, <2>2 DEF Less
<1>10. PICK w : w = Pick(bs, q)
  OBVIOUS
<1>11. DOMAIN w = 1 .. n /\ w = [i \in 1 .. n |-> bs[q[i]]] /\ \A i \in 1 .. n : w[i] = bs[q[i]]
  BY <1>8, <1>10 DEF Pick
<1>12. w \in [1 .. n -> SeriesBatches(s, R)]
  BY <1>1, <1>8, <1>11
<1>13. w \in Seq(SeriesBatches(s, R)) /\ Len(w) = n
  BY <1>1, <1>12, FunctionSeq
<1>14. Range(q) = 1 .. n
  <2>1. PICK S : S = 1 .. n
    OBVIOUS
  <2>2. IsFiniteSet(S) /\ q \in [1 .. Cardinality(S) -> S]
    BY <1>2, <2>1
  <2>3. Range(q) = S
    BY <1>8, <2>2, ArrangedAll
  <2> QED BY <2>1, <2>3
<1>15. ASSUME NEW b \in SeriesBatches(s, R) PROVE \E i \in 1 .. n : w[i] = b
  <2>1. PICK k \in 1 .. n : bs[k] = b
    BY <1>1 DEF InSeries, n
  <2>2. PICK i \in 1 .. n : q[i] = k
    BY <1>8, <1>14 DEF Range
  <2> QED BY <1>11, <2>1, <2>2
<1>16. \A i, j \in 1 .. n : i < j => Follows(s, w, i, j)
  BY <1>9, <1>11 DEF Follows, first
<1>17. InSeries(s, R, w)
  BY <1>13, <1>15, <1>16 DEF InSeries
<1> QED BY <1>3, <1>7, <1>10, <1>17

LEMMA OneSorted ==
    ASSUME NEW s, NEW b
    PROVE  ByFirstKey(s, <<b>>) = <<b>>
<1> DEFINE Is(q) == /\ IsInjective(q)
                    /\ \A i, j \in DOMAIN q : i < j =>
                        \/ KeyBefore(KeyAt(s, <<b>>[q[i]], 1), KeyAt(s, <<b>>[q[j]], 1))
                        \/ /\ KeyAt(s, <<b>>[q[i]], 1) = KeyAt(s, <<b>>[q[j]], 1)
                           /\ q[i] < q[j]
           made == CHOOSE q \in [1 .. 1 -> 1 .. 1] : Is(q)
           id == [i \in 1 .. 1 |-> i]
<1>1. /\ Cardinality(1 .. 1) = 1 /\ id \in [1 .. 1 -> 1 .. 1] /\ IsInjective(id)
  BY IdentityArranges
<1>2. DOMAIN <<b>> = 1 .. 1
  OBVIOUS
<1>3. ByFirstKey(s, <<b>>) = Pick(<<b>>, made)
  BY <1>1, <1>2 DEF ByFirstKey, InOrderOf
<1>4. Is(id)
  <2>1. \A i, j \in 1 .. 1 : ~ (i < j)
    OBVIOUS
  <2> QED BY <1>1, <2>1
<1> HIDE DEF Is
<1>5. made \in [1 .. 1 -> 1 .. 1]
  BY <1>1, <1>4
<1> HIDE DEF made
<1>6. DOMAIN made = 1 .. 1 /\ \A j \in 1 .. 1 : made[j] = 1
  BY <1>5
<1>7. Pick(<<b>>, made) = [j \in 1 .. 1 |-> b]
  BY <1>6 DEF Pick
<1>8. [j \in 1 .. 1 |-> b] = <<b>>
  OBVIOUS
<1> QED BY <1>3, <1>7, <1>8

LEMMA SortedFacts ==
    ASSUME NEW s \in Schemas, NEW b, NEW R, HoldsNewest(s, b, R)
    PROVE  SortedStrictly(KeysOf(s, b))
<1> DEFINE n == NumRows(b)
           keys == KeysOf(s, b)
<1>1. IsBatch(s, b) /\ \A i, j \in 1 .. n : i < j => KeyBefore(KeyAt(s, b, i), KeyAt(s, b, j))
  BY DEF HoldsNewest
<1>2. n \in Nat
  BY <1>1, BatchFacts
<1>3. Len(keys) = n /\ \A i \in 1 .. n : keys[i] = KeyAt(s, b, i)
  <2> HIDE DEF n
  <2>1. keys = [i \in 1 .. n |-> KeyAt(s, b, i)]
    BY DEF KeysOf, n
  <2> HIDE DEF keys
  <2> QED BY <1>2, <2>1
<1> HIDE DEF keys, n
<1>4. ASSUME NEW i \in 1 .. Len(keys) - 1 PROVE KeyBefore(keys[i], keys[i + 1])
  <2>1. i \in 1 .. n /\ i + 1 \in 1 .. n /\ i < i + 1
    BY <1>2, <1>3
  <2>2. KeyBefore(KeyAt(s, b, i), KeyAt(s, b, i + 1))
    BY <1>1, <2>1
  <2> QED BY <1>3, <2>1, <2>2
<1> QED BY <1>4 DEF SortedStrictly, keys

LEMMA Located ==
    ASSUME NEW lens \in Seq(Nat), NEW off, IsOffset(lens, off), NEW n, n = Len(lens)
    PROVE  /\ n \in Nat /\ off \in [0 .. n -> Nat]
           /\ \A i \in 1 .. n : \A j \in 1 .. lens[i] :
                off[i - 1] + j \in 1 .. off[n] /\ off[i - 1] + j <= off[i]
           /\ \A i, k \in 1 .. n : i < k => off[i] <= off[k - 1]
<1>1. n \in Nat /\ \A i \in 1 .. n : lens[i] \in Nat
  OBVIOUS
<1>2. off \in [0 .. n -> Nat] /\ \A i \in 1 .. n : off[i] = off[i - 1] + lens[i]
  BY DEF IsOffset
<1>3. \A i, k \in 0 .. n : i <= k => off[i] <= off[k]
  BY OffsetFacts
<1>4. ASSUME NEW i \in 1 .. n, NEW j \in 1 .. lens[i]
      PROVE  off[i - 1] + j \in 1 .. off[n] /\ off[i - 1] + j <= off[i]
  <2>1. i \in 0 .. n /\ i - 1 \in 0 .. n /\ n \in 0 .. n /\ i <= n
    BY <1>1
  <2>2. PICK x, y, z \in Nat : x = off[i - 1] /\ y = off[i] /\ z = off[n]
    BY <1>2, <2>1
  <2>3. y = x + lens[i] /\ y <= z
    BY <1>2, <1>3, <2>1, <2>2
  <2>4. lens[i] \in Nat /\ j \in Nat /\ 1 <= j /\ j <= lens[i]
    BY <1>1
  <2>5. x + j \in 1 .. z /\ x + j <= y
    BY <2>3, <2>4
  <2> QED BY <2>2, <2>5
<1>5. ASSUME NEW i \in 1 .. n, NEW k \in 1 .. n, i < k PROVE off[i] <= off[k - 1]
  <2>1. i \in 0 .. n /\ k - 1 \in 0 .. n /\ i <= k - 1
    BY <1>1, <1>5
  <2> QED BY <1>3, <2>1
<1> QED BY <1>1, <1>2, <1>4, <1>5

\* The batches of all series, one after the other, hold the newest rows in order.
LEMMA JoinedHolds ==
    ASSUME NEW s \in Schemas, NEW R, Holdable(s, R), NEW bs, InSeries(s, R, bs)
    PROVE  LET b == Concatenated(s, bs)
           IN  HoldsNewest(s, b, R) /\ NumRows(b) \in Nat /\ (R # {} => NumRows(b) # 0)
<1> DEFINE b == Concatenated(s, bs)
           n == Len(bs)
           lens == RowLens(bs)
           off == Offset(lens)
           tags(i) == KeyAt(s, bs[i], 1).tags
<1>1. /\ n \in Nat /\ DOMAIN bs = 1 .. n
      /\ \A i \in 1 .. n : bs[i] \in SeriesBatches(s, R) /\ KeyAt(s, bs[i], 1) \in AnyKey
      /\ \A i, j \in 1 .. n : i < j => Follows(s, bs, i, j)
      /\ \A i, j \in 1 .. n : KeyAt(s, bs[i], 1) = KeyAt(s, bs[j], 1) => i = j
      /\ AreBatches(s, bs)
  BY InSeriesFacts
<1>2. /\ lens \in Seq(Nat) /\ Len(lens) = n
      /\ \A i \in 1 .. n : lens[i] = NumRows(bs[i])
      /\ IsOffset(lens, off)
      /\ IsBatch(s, b) /\ NumRows(b) = off[n]
      /\ \A i \in 1 .. n : \A j \in 1 .. NumRows(bs[i]) :
            RowAt(s, b, off[i - 1] + j) = RowAt(s, bs[i], j)
  BY <1>1, ConcatFacts
<1>3. ASSUME NEW i \in 1 .. n
      PROVE  /\ IsBatch(s, bs[i]) /\ NumRows(bs[i]) \in Nat \ {0}
             /\ \A j \in 1 .. NumRows(bs[i]) : KeyAt(s, bs[i], j) \in AnyKey
                                               /\ KeyAt(s, bs[i], j).tags = tags(i)
             /\ HoldsNewest(s, bs[i], SeriesOf(R, tags(i)))
  BY <1>1, BatchesApart
<1>4. \A i, j \in 1 .. n : tags(i) = tags(j) => bs[i] = bs[j]
  BY <1>1, BatchesApart
<1>5. \A i, j \in 1 .. n : tags(i) = tags(j) => i = j
  BY <1>1, <1>4
<1>6. \A r \in R : \E i \in 1 .. n : tags(i) = r.key.tags
  <2>1. ASSUME NEW r \in R PROVE \E i \in 1 .. n : tags(i) = r.key.tags
    <3>1. PICK a \in SeriesBatches(s, R) : KeyAt(s, a, 1).tags = r.key.tags
      BY BatchesApart
    <3>2. PICK i \in 1 .. n : bs[i] = a
      BY DEF InSeries
    <3> QED BY <3>1, <3>2
  <2> QED BY <2>1
<1>7. \A i, j \in 1 .. n : i < j => BytesBefore(tags(i), tags(j))
  <2>1. ASSUME NEW i \in 1 .. n, NEW j \in 1 .. n, i < j PROVE BytesBefore(tags(i), tags(j))
    <3>1. KeyBefore(KeyAt(s, bs[i], 1), KeyAt(s, bs[j], 1)) /\ i # j
      BY <1>1, <2>1 DEF Follows
    <3>2. tags(i) # tags(j)
      BY <1>5, <3>1
    <3> QED BY <3>1, <3>2 DEF KeyBefore
  <2> QED BY <2>1
<1> HIDE DEF b, lens, off, tags, n
<1>8. PICK o, l : o = off /\ l = lens
  OBVIOUS
<1>9. /\ n \in Nat /\ o \in [0 .. n -> Nat]
      /\ \A i \in 1 .. n : \A j \in 1 .. l[i] : o[i - 1] + j \in 1 .. o[n] /\ o[i - 1] + j <= o[i]
      /\ \A i, k \in 1 .. n : i < k => o[i] <= o[k - 1]
  <2>1. l \in Seq(Nat) /\ IsOffset(l, o) /\ n = Len(l)
    BY <1>2, <1>8
  <2> QED BY <2>1, Located
<1>10. ASSUME NEW p \in 1 .. o[n]
       PROVE  \E i \in 1 .. n : \E j \in 1 .. l[i] : p = o[i - 1] + j
  <2>1. l \in Seq(Nat) /\ IsOffset(l, o) /\ Len(l) = n
    BY <1>2, <1>8
  <2>2. PICK N : N = o[n]
    OBVIOUS
  <2>3. o[Len(l)] = N /\ p \in 1 .. N
    BY <2>1, <2>2
  <2>4. \E i \in 1 .. Len(l) : \E j \in 1 .. l[i] : p = o[i - 1] + j
    BY <2>1, <2>3, OffsetCovers
  <2> QED BY <2>1, <2>4
<1>11. ASSUME NEW i \in 1 .. n, NEW j \in 1 .. l[i]
       PROVE  /\ j \in 1 .. NumRows(bs[i]) /\ RowAt(s, b, o[i - 1] + j) = RowAt(s, bs[i], j)
              /\ KeyAt(s, b, o[i - 1] + j) = KeyAt(s, bs[i], j)
  <2>1. j \in 1 .. NumRows(bs[i])
    BY <1>2, <1>8
  <2>2. RowAt(s, b, o[i - 1] + j) = RowAt(s, bs[i], j)
    BY <1>2, <1>8, <2>1
  <2>3. \A k, c : RowAt(s, c, k).key = KeyAt(s, c, k)
    BY DEF RowAt
  <2> QED BY <2>1, <2>2, <2>3
<1>12. NumRows(b) = o[n] /\ NumRows(b) \in Nat
  <2>1. n \in 0 .. n
    BY <1>9
  <2> QED BY <1>2, <1>8, <1>9, <2>1
<1>13. ASSUME NEW p \in 1 .. o[n] PROVE \E r \in NewestOf(R) : RowAt(s, b, p) = Stored(s, r)
  <2>1. PICK i \in 1 .. n : \E j \in 1 .. l[i] : p = o[i - 1] + j
    BY <1>10
  <2>2. PICK j \in 1 .. l[i] : p = o[i - 1] + j
    BY <2>1
  <2>3. j \in 1 .. NumRows(bs[i]) /\ RowAt(s, b, p) = RowAt(s, bs[i], j)
    BY <1>11, <2>2
  <2>4. PICK r \in NewestOf(SeriesOf(R, tags(i))) : RowAt(s, bs[i], j) = Stored(s, r)
    BY <1>3, <2>3 DEF HoldsNewest
  <2>5. r \in NewestOf(R)
    BY <2>4, SeriesNewest
  <2> QED BY <2>3, <2>4, <2>5
<1>14. ASSUME NEW r \in NewestOf(R) PROVE \E p \in 1 .. o[n] : RowAt(s, b, p) = Stored(s, r)
  <2>1. r \in R
    BY DEF NewestOf
  <2>2. PICK i \in 1 .. n : tags(i) = r.key.tags
    BY <1>6, <2>1
  <2>3. r \in NewestOf(SeriesOf(R, tags(i)))
    BY <2>2, SeriesNewest
  <2>4. PICK j \in 1 .. NumRows(bs[i]) : RowAt(s, bs[i], j) = Stored(s, r)
    BY <1>3, <2>3 DEF HoldsNewest
  <2>5. j \in 1 .. l[i]
    BY <1>2, <1>8
  <2> QED BY <1>9, <1>11, <2>4, <2>5
<1>15. ASSUME NEW p \in 1 .. o[n], NEW q \in 1 .. o[n], p < q
       PROVE  KeyBefore(KeyAt(s, b, p), KeyAt(s, b, q))
  <2>1. PICK i \in 1 .. n : \E j \in 1 .. l[i] : p = o[i - 1] + j
    BY <1>10
  <2>2. PICK j \in 1 .. l[i] : p = o[i - 1] + j
    BY <2>1
  <2>3. PICK i2 \in 1 .. n : \E g \in 1 .. l[i2] : q = o[i2 - 1] + g
    BY <1>10
  <2>4. PICK j2 \in 1 .. l[i2] : q = o[i2 - 1] + j2
    BY <2>3
  <2>5. /\ KeyAt(s, b, p) = KeyAt(s, bs[i], j) /\ KeyAt(s, b, q) = KeyAt(s, bs[i2], j2)
        /\ j \in 1 .. NumRows(bs[i]) /\ j2 \in 1 .. NumRows(bs[i2])
    BY <1>11, <2>2, <2>4
  <2>6. i \in Int /\ i2 \in Int /\ (i < i2 \/ i = i2 \/ i2 < i)
    BY <1>9
  <2>7. CASE i < i2
    <3>1. BytesBefore(tags(i), tags(i2))
      BY <1>7, <2>7
    <3>2. KeyAt(s, bs[i], j).tags = tags(i) /\ KeyAt(s, bs[i2], j2).tags = tags(i2)
      BY <1>3, <2>5
    <3> QED BY <2>5, <3>1, <3>2 DEF KeyBefore
  <2>8. CASE i = i2
    <3>1. i - 1 \in 0 .. n
      BY <1>9
    <3>2. PICK x \in Nat : x = o[i - 1]
      BY <1>9, <3>1
    <3>3. p = x + j /\ q = x + j2 /\ j \in Int /\ j2 \in Int
      BY <2>2, <2>4, <2>8, <3>2
    <3>4. j < j2
      BY <1>15, <3>3
    <3> QED BY <1>3, <2>5, <2>8, <3>4 DEF HoldsNewest
  <2>9. CASE i2 < i
    <3>1. i - 1 \in 0 .. n /\ i2 \in 0 .. n
      BY <1>9
    <3>2. PICK x, y \in Nat : x = o[i - 1] /\ y = o[i2]
      BY <1>9, <3>1
    <3>3. y <= x /\ q <= y /\ p = x + j /\ j \in Nat
      BY <1>9, <2>2, <2>4, <2>9, <3>2
    <3>4. p \in Int /\ q \in Int
      OBVIOUS
    <3> QED BY <1>15, <3>2, <3>3, <3>4
  <2> QED BY <2>6, <2>7, <2>8, <2>9
<1>16. HoldsNewest(s, b, R)
  BY <1>2, <1>12, <1>13, <1>14, <1>15 DEF HoldsNewest
<1>17. R # {} => NumRows(b) # 0
  <2>1. ASSUME NEW r \in R PROVE NumRows(b) # 0
    <3>1. PICK q \in NewestOf(R) : TRUE
      BY NewestFacts
    <3> QED BY <1>12, <1>14, <3>1
  <2> QED BY <2>1
<1> QED BY <1>12, <1>16, <1>17 DEF b

\* A flush makes a table of the newest row of every key, unless it is refused.
LEMMA FlushMakes ==
    ASSUME NEW s \in Schemas, NEW R, Holdable(s, R), R # {}
    PROVE  /\ ToBatches(s, R) = None <=> Refused(s)
           /\ ToBatches(s, R) # None =>
                \E all : /\ HoldsNewest(s, all, R) /\ NumRows(all) \in Nat \ {0}
                         /\ \A seed : CreateFromBatches(s, ToBatches(s, R)[1], seed)
                                        = Some(TableOf(s, all, seed))
<1>1. /\ ToBatches(s, R) = None <=> Refused(s)
      /\ ToBatches(s, R) # None => \E bs : ToBatches(s, R) = Some(bs) /\ InSeries(s, R, bs)
  BY ToBatchesFacts
<1>2. ASSUME ToBatches(s, R) # None
      PROVE  \E all : /\ HoldsNewest(s, all, R) /\ NumRows(all) \in Nat \ {0}
                      /\ \A seed : CreateFromBatches(s, ToBatches(s, R)[1], seed)
                                        = Some(TableOf(s, all, seed))
  <2>1. PICK bs : ToBatches(s, R) = Some(bs) /\ InSeries(s, R, bs)
    BY <1>1, <1>2
  <2>2. PICK w : w = ByFirstKey(s, bs)
    OBVIOUS
  <2>3. InSeries(s, R, w)
    BY <2>1, <2>2, ByFirstKeyFacts
  <2>4. PICK all : all = Concatenated(s, w)
    OBVIOUS
  <2>5. HoldsNewest(s, all, R) /\ NumRows(all) \in Nat \ {0}
    BY <2>3, <2>4, JoinedHolds
  <2>6. SortedStrictly(KeysOf(s, all))
    BY <2>5, SortedFacts
  <2>7. ToBatches(s, R)[1] = bs
    BY <2>1, SomeFacts
  <2>8. \A seed : CreateFromBatches(s, bs, seed) = Some(TableOf(s, all, seed))
    BY <2>2, <2>4, <2>6 DEF CreateFromBatches
  <2> QED BY <2>5, <2>7, <2>8
<1> QED BY <1>1, <1>2

\* A compaction makes the same table of it again.
LEMMA CompactionMakes ==
    ASSUME NEW s \in Schemas, NEW R, NEW all, HoldsNewest(s, all, R), NEW seed
    PROVE  /\ Concatenated(s, TableOf(s, all, seed).groups) = all
           /\ CreateFromBatches(s, <<MergedBatch(s, all)>>, seed) = Some(TableOf(s, all, seed))
<1>1. IsBatch(s, all)
  BY DEF HoldsNewest
<1>2. Concatenated(s, <<all>>) = all /\ MergedBatch(s, all) = all
  BY <1>1, OneBatch
<1>3. TableOf(s, all, seed).groups = Pieces(all, GroupRows)
  BY DEF TableOf
<1>4. GroupRows \in Nat \ {0}
  BY SstAssumption
<1>5. Concatenated(s, Pieces(all, GroupRows)) = all
  BY <1>1, <1>4, PiecesTogether
<1>6. ByFirstKey(s, <<all>>) = <<all>>
  BY OneSorted
<1>7. SortedStrictly(KeysOf(s, all))
  BY SortedFacts
<1> QED BY <1>2, <1>3, <1>5, <1>6, <1>7 DEF CreateFromBatches

-----------------------------------------------------------------------------
(* The index in its file.                                                   *)

LEMMA Halves ==
    ASSUME NEW i \in Nat \ {0}
    PROVE  /\ (2 * i - 1) % 2 = 1 /\ (2 * i - 1 + 1) \div 2 = i
           /\ (2 * i) % 2 = 0 /\ (2 * i) \div 2 = i
  OBVIOUS
LEMMA EvenHalf ==
    ASSUME NEW n \in Nat, NEW m, m = 2 * n
    PROVE  m \div 2 = n /\ m \in Nat
  OBVIOUS
LEMMA Sixteens ==
    ASSUME NEW b \in Nat
    PROVE  (b \div 16) * 16 + (b % 16) = b
  OBVIOUS

LEMMA HexBack ==
    ASSUME NEW bytes \in Seq(Nat)
    PROVE  FromHex(ToHex(bytes)) = bytes
<1> DEFINE n == Len(bytes)
           d == ToHex(bytes)
<1>1. n \in Nat /\ DOMAIN bytes = 1 .. n /\ bytes = [i \in 1 .. n |-> bytes[i]]
      /\ \A i \in 1 .. n : bytes[i] \in Nat
  OBVIOUS
<1>2. d = [i \in 1 .. 2 * n |->
            IF i % 2 = 1 THEN bytes[(i + 1) \div 2] \div 16 ELSE bytes[i \div 2] % 16]
  BY DEF ToHex
<1> HIDE DEF n, d
<1>3. PICK m \in Nat : m = 2 * n
  BY <1>1
<1>4. m \div 2 = n
  BY <1>1, <1>3, EvenHalf
<1>5. DOMAIN d = 1 .. m /\ d = [i \in 1 .. m |-> d[i]]
  BY <1>2, <1>3
<1>6. d \in [1 .. m -> {d[i] : i \in 1 .. m}]
  BY <1>5
<1>7. Len(d) = m
  BY <1>6, FunctionSeq
<1>8. ASSUME NEW i \in 1 .. n
      PROVE  d[2 * i - 1] * 16 + d[2 * i] = bytes[i]
  <2>1. i \in Nat \ {0} /\ i <= n
    BY <1>1
  <2>2. 2 * i - 1 \in 1 .. m /\ 2 * i \in 1 .. m
    BY <1>1, <1>3, <2>1
  <2>3. PICK x, y : x = 2 * i - 1 /\ y = 2 * i
    OBVIOUS
  <2>4. x % 2 = 1 /\ (x + 1) \div 2 = i /\ y % 2 = 0 /\ y \div 2 = i /\ x \in 1 .. m /\ y \in 1 .. m
    BY <2>1, <2>2, <2>3, Halves
  <2>8. x \in 1 .. 2 * n /\ y \in 1 .. 2 * n
    BY <1>3, <2>4
  <2>5. d[x] = bytes[i] \div 16 /\ d[y] = bytes[i] % 16
    <3>1. \A z \in 1 .. 2 * n :
            d[z] = IF z % 2 = 1 THEN bytes[(z + 1) \div 2] \div 16 ELSE bytes[z \div 2] % 16
      BY <1>2
    <3>2. PICK e, f : e = x % 2 /\ f = y % 2
      OBVIOUS
    <3>3. e = 1 /\ f = 0 /\ f # 1
      BY <2>4, <3>2
    <3>4. d[x] = IF e = 1 THEN bytes[(x + 1) \div 2] \div 16 ELSE bytes[x \div 2] % 16
      BY <2>8, <3>1, <3>2, Zenon
    <3>5. d[y] = IF f = 1 THEN bytes[(y + 1) \div 2] \div 16 ELSE bytes[y \div 2] % 16
      BY <2>8, <3>1, <3>2, Zenon
    <3>6. d[x] = bytes[(x + 1) \div 2] \div 16 /\ d[y] = bytes[y \div 2] % 16
      BY <3>3, <3>4, <3>5
    <3> QED BY <2>4, <3>6
  <2>6. PICK b \in Nat : b = bytes[i]
    BY <1>1
  <2>7. (b \div 16) * 16 + (b % 16) = b
    BY Sixteens
  <2> QED BY <2>3, <2>5, <2>6, <2>7
<1>9. FromHex(d) = [i \in 1 .. n |-> d[2 * i - 1] * 16 + d[2 * i]]
  BY <1>4, <1>7 DEF FromHex
<1> QED BY <1>1, <1>8, <1>9 DEF d

LEMMA KeyBack ==
    ASSUME NEW k \in AnyKey
    PROVE  UnhexKey(HexKey(k)) = k
<1>1. k = [tags |-> k.tags, ts |-> k.ts] /\ k.tags \in Seq(Nat)
  BY DEF AnyKey
<1>2. HexKey(k) = [tags |-> ToHex(k.tags), ts |-> k.ts]
  BY <1>1 DEF HexKey
<1>3. PICK h : h = HexKey(k)
  OBVIOUS
<1>4. h.tags = ToHex(k.tags) /\ h.ts = k.ts /\ DOMAIN h = {"tags", "ts"}
      /\ h = [tags |-> h.tags, ts |-> h.ts]
  BY <1>2, <1>3
<1>5. UnhexKey(h) = [tags |-> FromHex(h.tags), ts |-> h.ts]
  BY <1>4 DEF UnhexKey
<1>6. FromHex(h.tags) = k.tags
  BY <1>1, <1>4, HexBack
<1> QED BY <1>1, <1>3, <1>4, <1>5, <1>6

HexMeta(m) == [m EXCEPT !.min_key = HexKey(@), !.max_key = HexKey(@)]
UnhexMeta(m) == [m EXCEPT !.min_key = UnhexKey(@), !.max_key = UnhexKey(@)]
LEMMA MetaBack ==
    ASSUME NEW n, NEW k \in AnyKey, NEW l \in AnyKey, NEW x, NEW y, NEW m,
           m = [num_rows |-> n, min_key |-> k, max_key |-> l, min_ts |-> x, max_ts |-> y]
    PROVE  UnhexMeta(HexMeta(m)) = m
<1>1. PICK h : h = HexMeta(m)
  OBVIOUS
<1>2. PICK a, b : a = HexKey(k) /\ b = HexKey(l)
  OBVIOUS
<1>3. h = [num_rows |-> n, min_key |-> a, max_key |-> b, min_ts |-> x, max_ts |-> y]
  BY <1>1, <1>2 DEF HexMeta
<1>4. UnhexKey(a) = k /\ UnhexKey(b) = l
  BY <1>2, KeyBack
<1>5. h.min_key = a /\ h.max_key = b
  BY <1>3
<1>6. UnhexMeta(h) = [h EXCEPT !.min_key = UnhexKey(a), !.max_key = UnhexKey(b)]
  BY <1>5 DEF UnhexMeta
<1>7. UnhexMeta(h) = [h EXCEPT !.min_key = k, !.max_key = l]
  BY <1>4, <1>6
<1>8. [h EXCEPT !.min_key = k, !.max_key = l]
        = [num_rows |-> n, min_key |-> k, max_key |-> l, min_ts |-> x, max_ts |-> y]
  <2>1. PICK g : g = [h EXCEPT !.min_key = k]
    OBVIOUS
  <2>2. g = [num_rows |-> n, min_key |-> k, max_key |-> b, min_ts |-> x, max_ts |-> y]
    BY <1>3, <2>1
  <2>3. [g EXCEPT !.max_key = l]
          = [num_rows |-> n, min_key |-> k, max_key |-> l, min_ts |-> x, max_ts |-> y]
    BY <2>2
  <2>4. [h EXCEPT !.min_key = k, !.max_key = l] = [[h EXCEPT !.min_key = k] EXCEPT !.max_key = l]
    OBVIOUS
  <2> QED BY <2>1, <2>3, <2>4, Zenon
<1>9. UnhexMeta(h) = m
  BY <1>7, <1>8, Zenon
<1> QED BY <1>1, <1>9, Zenon

LEMMA IndexBack ==
    ASSUME NEW bloom, NEW metas, NEW max, NEW index,
           metas = [g \in DOMAIN metas |-> metas[g]],
           \A g \in DOMAIN metas : UnhexMeta(HexMeta(metas[g])) = metas[g],
           index = [bloom |-> bloom, row_groups |-> metas, max_seq |-> max]
    PROVE  FromJson(ToJson(index)) = index
<1> DEFINE hex == [g \in DOMAIN metas |-> HexMeta(metas[g])]
<1>1. ToJson(index) = [index EXCEPT !.row_groups = [g \in DOMAIN index.row_groups |-> HexMeta(index.row_groups[g])]]
  BY DEF ToJson, HexMeta
<1>2. index.row_groups = metas
  OBVIOUS
<1>3. ToJson(index) = [bloom |-> bloom, row_groups |-> hex, max_seq |-> max]
  BY <1>1, <1>2
<1>4. PICK j : j = ToJson(index)
  OBVIOUS
<1>5. FromJson(j) = [j EXCEPT !.row_groups = [g \in DOMAIN j.row_groups |-> UnhexMeta(j.row_groups[g])]]
  BY DEF FromJson, UnhexMeta
<1>6. j.row_groups = hex
  BY <1>3, <1>4
<1>7. [g \in DOMAIN hex |-> UnhexMeta(hex[g])] = metas
  OBVIOUS
<1> HIDE DEF hex
<1>8. FromJson(j) = [bloom |-> bloom, row_groups |-> metas, max_seq |-> max]
  BY <1>3, <1>4, <1>5, <1>6, <1>7
<1> QED BY <1>4, <1>8

LEMMA NewestKeys ==
    ASSUME NEW s \in Schemas, NEW R, Holdable(s, R), NEW b, HoldsNewest(s, b, R)
    PROVE  /\ IsBatch(s, b) /\ NumRows(b) \in Nat
           /\ \A i \in 1 .. NumRows(b) : KeyAt(s, b, i) \in AnyKey /\ KeyAt(s, b, i) \in KeysFor(s)
<1>1. IsBatch(s, b) /\ NumRows(b) \in Nat
  BY BatchFacts DEF HoldsNewest
<1>2. ASSUME NEW i \in 1 .. NumRows(b)
      PROVE  KeyAt(s, b, i) \in AnyKey /\ KeyAt(s, b, i) \in KeysFor(s)
  <2>1. PICK r \in NewestOf(R) : RowAt(s, b, i) = Stored(s, r)
    BY DEF HoldsNewest
  <2>2. KeyAt(s, b, i) = r.key
    BY <2>1, RowAtParts
  <2>3. r \in RowsFor(s)
    BY DEF NewestOf, Holdable
  <2>4. /\ r.key \in KeysFor(s) /\ r.key.tags \in Seq(Nat) /\ r.key.ts \in Int
        /\ r.key = [tags |-> r.key.tags, ts |-> r.key.ts]
    BY <2>3, RowParts
  <2>5. r.key \in AnyKey
    BY <2>4 DEF AnyKey
  <2> QED BY <2>2, <2>4, <2>5
<1> QED BY <1>1, <1>2

LEMMA MetaParts ==
    ASSUME NEW s, NEW g
    PROVE  LET z == GroupMeta(s, g)
           IN  /\ z.min_key = KeyAt(s, g, 1) /\ z.max_key = KeyAt(s, g, NumRows(g))
               /\ z = [num_rows |-> z.num_rows, min_key |-> z.min_key, max_key |-> z.max_key,
                       min_ts |-> z.min_ts, max_ts |-> z.max_ts]
<1> DEFINE ts == {KeyAt(s, g, i).ts : i \in 1 .. NumRows(g)}
           low == CHOOSE t \in ts : \A u \in ts : t <= u
           high == CHOOSE t \in ts : \A u \in ts : u <= t
<1>1. GroupMeta(s, g) = [num_rows |-> NumRows(g), min_key |-> KeyAt(s, g, 1),
                         max_key |-> KeyAt(s, g, NumRows(g)), min_ts |-> low, max_ts |-> high]
  BY DEF GroupMeta
<1> HIDE DEF low, high
<1>2. PICK z : z = GroupMeta(s, g)
  OBVIOUS
<1>3. /\ z.min_key = KeyAt(s, g, 1) /\ z.max_key = KeyAt(s, g, NumRows(g))
      /\ z = [num_rows |-> z.num_rows, min_key |-> z.min_key, max_key |-> z.max_key,
              min_ts |-> z.min_ts, max_ts |-> z.max_ts]
  BY <1>1, <1>2
<1> QED BY <1>2, <1>3

\* What the index of a table says of its row groups.
LEMMA GroupFacts ==
    ASSUME NEW s \in Schemas, NEW R, Holdable(s, R), NEW b, HoldsNewest(s, b, R), NEW seed
    PROVE  LET t == TableOf(s, b, seed)
               N == NumRows(b)
               m == PieceCount(N, GroupRows)
               cut(p) == CutAt(N, GroupRows, p)
           IN  /\ m \in Nat /\ cut(0) = 0 /\ cut(m) = N /\ \A p \in 0 .. m : cut(p) \in 0 .. N
               /\ DOMAIN t.groups = 1 .. m /\ DOMAIN t.index.row_groups = 1 .. m
               /\ Len(t.index.row_groups) = m
               /\ \A p \in 1 .. m :
                    /\ cut(p - 1) < cut(p) /\ IsBatch(s, t.groups[p])
                    /\ NumRows(t.groups[p]) = cut(p) - cut(p - 1)
                    /\ \A k \in 1 .. cut(p) - cut(p - 1) :
                            RowAt(s, t.groups[p], k) = RowAt(s, b, cut(p - 1) + k)
                    /\ t.index.row_groups[p] = GroupMeta(s, t.groups[p])
                    /\ t.index.row_groups[p].min_key = KeyAt(s, b, cut(p - 1) + 1)
                    /\ t.index.row_groups[p].max_key = KeyAt(s, b, cut(p))
                    /\ t.index.row_groups[p].min_key \in AnyKey
                    /\ t.index.row_groups[p].max_key \in AnyKey
<1> DEFINE t == TableOf(s, b, seed)
           N == NumRows(b)
           m == PieceCount(N, GroupRows)
           cut(p) == CutAt(N, GroupRows, p)
           metas == t.index.row_groups
<1>1. /\ IsBatch(s, b) /\ N \in Nat
      /\ \A i \in 1 .. N : KeyAt(s, b, i) \in AnyKey /\ KeyAt(s, b, i) \in KeysFor(s)
  BY NewestKeys
<1>2. GroupRows \in Nat \ {0}
  BY SstAssumption
<1>3. t.groups = Pieces(b, GroupRows) /\ metas = [g \in DOMAIN t.groups |-> GroupMeta(s, t.groups[g])]
  BY DEF TableOf
<1>4. /\ DOMAIN t.groups = 1 .. m /\ m \in Nat /\ cut(0) = 0 /\ cut(m) = N
      /\ \A p \in 0 .. m : cut(p) \in 0 .. N
      /\ \A p \in 1 .. m :
            /\ cut(p - 1) < cut(p) /\ IsBatch(s, t.groups[p])
            /\ NumRows(t.groups[p]) = cut(p) - cut(p - 1)
            /\ \A k \in 1 .. NumRows(t.groups[p]) :
                RowAt(s, t.groups[p], k) = RowAt(s, b, cut(p - 1) + k)
  <2>0. PICK n \in Nat \ {0} : n = GroupRows
    BY <1>2
  <2>1. n = GroupRows
    BY <2>0
  <2>3. LET N0 == NumRows(b)
            m0 == PieceCount(N0, n)
            b0 == Pieces(b, n)
        IN  /\ DOMAIN b0 = 1 .. m0 /\ Len(b0) = m0 /\ AreBatches(s, b0)
            /\ m0 \in Nat /\ CutAt(N0, n, 0) = 0 /\ CutAt(N0, n, m0) = N0
            /\ \A p \in 0 .. m0 : CutAt(N0, n, p) \in 0 .. N0
            /\ \A p \in 1 .. m0 :
                /\ CutAt(N0, n, p - 1) < CutAt(N0, n, p) /\ IsBatch(s, b0[p])
                /\ b0[p] = Slice(b, CutAt(N0, n, p - 1) + 1, CutAt(N0, n, p))
                /\ NumRows(b0[p]) = CutAt(N0, n, p) - CutAt(N0, n, p - 1)
                /\ \A k \in 1 .. NumRows(b0[p]) :
                    RowAt(s, b0[p], k) = RowAt(s, b, CutAt(N0, n, p - 1) + k)
    BY <1>1, PiecesFacts
  <2> HIDE DEF t
  <2> QED BY <1>3, <2>1, <2>3
<1> HIDE DEF t, m, cut, N
<1>5. DOMAIN metas = 1 .. m /\ \A p \in 1 .. m : metas[p] = GroupMeta(s, t.groups[p])
  BY <1>3, <1>4
<1>6. Len(metas) = m
  <2>1. PICK w : w = metas
    OBVIOUS
  <2>2. w \in [1 .. m -> {w[i] : i \in 1 .. m}]
    BY <1>3, <1>4, <2>1
  <2>3. Len(w) = m
    BY <1>4, <2>2, FunctionSeq
  <2> QED BY <2>1, <2>3
<1>7. ASSUME NEW p \in 1 .. m
      PROVE  /\ metas[p].min_key = KeyAt(s, b, cut(p - 1) + 1) /\ metas[p].max_key = KeyAt(s, b, cut(p))
             /\ metas[p].min_key \in AnyKey /\ metas[p].max_key \in AnyKey
             /\ \A k \in 1 .. cut(p) - cut(p - 1) :
                    RowAt(s, t.groups[p], k) = RowAt(s, b, cut(p - 1) + k)
  <2>1. p \in 0 .. m /\ p - 1 \in 0 .. m
    BY <1>4
  <2>2. PICK x, y \in Nat : x = cut(p - 1) /\ y = cut(p)
    <3>1. cut(p) \in 0 .. N /\ cut(p - 1) \in 0 .. N
      BY <1>4, <2>1, Zenon
    <3>2. \A v \in 0 .. N : v \in Nat
      BY <1>1
    <3> QED BY <3>1, <3>2
  <2>3. x < y /\ y <= N
    BY <1>1, <1>4, <2>1, <2>2
  <2>4. PICK g : g = t.groups[p]
    OBVIOUS
  <2>5. /\ NumRows(g) = y - x /\ y - x \in Nat /\ 1 \in 1 .. y - x /\ y - x \in 1 .. y - x
        /\ x + 1 \in 1 .. N /\ y \in 1 .. N /\ x + (y - x) = y
    <3>1. NumRows(g) = y - x
      BY <1>4, <2>2, <2>4
    <3>2. N \in Nat
      BY <1>1
    <3>3. /\ y - x \in Nat /\ 1 \in 1 .. y - x /\ y - x \in 1 .. y - x
          /\ x + 1 \in 1 .. N /\ y \in 1 .. N /\ x + (y - x) = y
      BY <2>3, <3>2
    <3> QED BY <3>1, <3>3
  <2>6. \A k \in 1 .. y - x : RowAt(s, g, k) = RowAt(s, b, x + k)
    BY <1>4, <2>2, <2>4, <2>5
  <2>7. \A k, c : RowAt(s, c, k).key = KeyAt(s, c, k)
    BY DEF RowAt
  <2>8. KeyAt(s, g, 1) = KeyAt(s, b, x + 1) /\ KeyAt(s, g, y - x) = KeyAt(s, b, x + (y - x))
    BY <2>5, <2>6, <2>7
  <2>9. metas[p].min_key = KeyAt(s, g, 1) /\ metas[p].max_key = KeyAt(s, g, y - x)
    <3>1. metas[p] = GroupMeta(s, g)
      BY <1>5, <2>4
    <3>2. GroupMeta(s, g).min_key = KeyAt(s, g, 1) /\ GroupMeta(s, g).max_key = KeyAt(s, g, NumRows(g))
      BY MetaParts
    <3> QED BY <2>5, <3>1, <3>2
  <2> QED BY <1>1, <2>2, <2>4, <2>5, <2>6, <2>8, <2>9
<1> QED BY <1>4, <1>5, <1>6, <1>7 DEF t, m, cut, N

\* The index that was written into a file is the one that is read from it.
LEMMA ReopenKeeps ==
    ASSUME NEW s \in Schemas, NEW R, Holdable(s, R), NEW b, HoldsNewest(s, b, R), NEW seed
    PROVE  [TableOf(s, b, seed) EXCEPT !.index = FromJson(ToJson(@))] = TableOf(s, b, seed)
<1> DEFINE t == TableOf(s, b, seed)
           metas == t.index.row_groups
           m == PieceCount(NumRows(b), GroupRows)
<1>1. /\ DOMAIN metas = 1 .. m
      /\ \A p \in 1 .. m : /\ metas[p] = GroupMeta(s, t.groups[p])
                           /\ metas[p].min_key \in AnyKey /\ metas[p].max_key \in AnyKey
  BY GroupFacts
<1>2. /\ t = [groups |-> t.groups, index |-> t.index]
      /\ t.index = [bloom |-> t.index.bloom, row_groups |-> metas, max_seq |-> t.index.max_seq]
      /\ metas = [g \in DOMAIN metas |-> metas[g]]
  BY DEF TableOf
<1> HIDE DEF t, m
<1>3. ASSUME NEW p \in DOMAIN metas PROVE UnhexMeta(HexMeta(metas[p])) = metas[p]
  <2>1. PICK z : z = metas[p]
    OBVIOUS
  <2>2. /\ z = [num_rows |-> z.num_rows, min_key |-> z.min_key, max_key |-> z.max_key,
                min_ts |-> z.min_ts, max_ts |-> z.max_ts]
        /\ z.min_key \in AnyKey /\ z.max_key \in AnyKey
    <3>1. PICK g : z = GroupMeta(s, g)
      BY <1>1, <2>1
    <3>2. z = [num_rows |-> z.num_rows, min_key |-> z.min_key, max_key |-> z.max_key,
               min_ts |-> z.min_ts, max_ts |-> z.max_ts]
      BY <3>1, MetaParts
    <3> QED BY <1>1, <2>1, <3>2
  <2>3. PICK k \in AnyKey, l \in AnyKey : k = z.min_key /\ l = z.max_key
    BY <2>2
  <2>4. z = [num_rows |-> z.num_rows, min_key |-> k, max_key |-> l,
             min_ts |-> z.min_ts, max_ts |-> z.max_ts]
    BY <2>2, <2>3
  <2>5. UnhexMeta(HexMeta(z)) = z
    BY <2>4, MetaBack
  <2> QED BY <2>1, <2>5
<1>4. FromJson(ToJson(t.index)) = t.index
  <2>1. PICK x, y, i, w : /\ x = t.index.bloom /\ y = t.index.max_seq /\ i = t.index /\ w = metas
    OBVIOUS
  <2>2. /\ w = [g \in DOMAIN w |-> w[g]] /\ \A g \in DOMAIN w : UnhexMeta(HexMeta(w[g])) = w[g]
        /\ i = [bloom |-> x, row_groups |-> w, max_seq |-> y]
    BY <1>2, <1>3, <2>1
  <2>3. FromJson(ToJson(i)) = i
    BY <2>2, IndexBack
  <2> QED BY <2>1, <2>3
<1>5. PICK i : i = t.index
  OBVIOUS
<1>6. [t EXCEPT !.index = FromJson(ToJson(@))] = [groups |-> t.groups, index |-> FromJson(ToJson(i))]
  BY <1>2, <1>5
<1> QED BY <1>2, <1>4, <1>5, <1>6 DEF t

-----------------------------------------------------------------------------
(* The point read.                                                          *)

LEMMA FirstNot ==
    ASSUME NEW N \in Nat, NEW I
    PROVE  \E q \in 1 .. N + 1 : (\A i \in 1 .. q - 1 : i \in I) /\ (q <= N => q \notin I)
<1> DEFINE J == {n \in 0 .. N : \A i \in 1 .. n : i \in I}
<1>1. CASE \A n \in 0 .. N - 1 : n \in J => n + 1 \in J
  <2>1. 0 \in Int /\ N \in Int /\ 0 \in J /\ \A n \in 0 .. N - 1 : n \in J => n + 1 \in J
    BY <1>1
  <2> HIDE DEF J
  <2>2. \A n \in 0 .. N : n \in J
    BY <2>1, CountingUp
  <2>3. N \in J
    BY <2>2
  <2>4. \A i \in 1 .. N : i \in I
    BY <2>3 DEF J
  <2>5. N + 1 \in 1 .. N + 1 /\ N + 1 - 1 = N /\ ~ (N + 1 <= N)
    OBVIOUS
  <2> QED BY <2>4, <2>5
<1>2. CASE \E n \in 0 .. N - 1 : n \in J /\ n + 1 \notin J
  <2>1. PICK n \in 0 .. N - 1 : n \in J /\ n + 1 \notin J
    BY <1>2
  <2>2. \A i \in 1 .. n : i \in I
    BY <2>1
  <2>3. n + 1 \in 0 .. N /\ n + 1 \in 1 .. N + 1 /\ n + 1 - 1 = n
    BY <2>1
  <2>4. n + 1 \notin I
    <3>1. PICK j \in 1 .. n + 1 : j \notin I
      BY <2>1, <2>3
    <3>2. j = n + 1
      BY <2>1, <2>2, <3>1
    <3> QED BY <3>1, <3>2
  <2> QED BY <2>2, <2>3, <2>4
<1> QED BY <1>1, <1>2

\* The piece of a batch a row is in.
LEMMA PieceOf ==
    ASSUME NEW N \in Nat, NEW n \in Nat \ {0}, NEW m, m = PieceCount(N, n), NEW q \in 1 .. N
    PROVE  \E p \in 1 .. m : /\ CutAt(N, n, p - 1) < q /\ q <= CutAt(N, n, p)
                             /\ \A j \in 1 .. p - 1 : CutAt(N, n, j) < q
<1> DEFINE cut(p) == CutAt(N, n, p)
<1>1. /\ m \in Nat /\ cut(0) = 0 /\ cut(m) = N
      /\ \A p \in 0 .. m : cut(p) \in 0 .. N
      /\ \A p \in 1 .. m : cut(p - 1) = (p - 1) * n /\ cut(p - 1) < cut(p)
  BY CutsFacts
<1> HIDE DEF cut
<1>2. PICK z \in Nat : z = m
  BY <1>1
<1>3. PICK I : I = {i \in 1 .. z : cut(i) < q}
  OBVIOUS
<1>4. PICK p \in 1 .. z + 1 : (\A j \in 1 .. p - 1 : j \in I) /\ (p <= z => p \notin I)
  BY FirstNot
<1>5. p \in 1 .. m
  <2>1. CASE p = m + 1 /\ m # 0
    <3>1. m \in 1 .. p - 1
      BY <1>2, <2>1
    <3>2. cut(m) < q
      BY <1>3, <1>4, <3>1
    <3> QED BY <1>1, <3>2
  <2>2. CASE m = 0
    BY <1>1, <2>2
  <2> QED BY <1>2, <1>4, <2>1, <2>2
<1>6. p \in 0 .. m /\ p - 1 \in 0 .. m /\ cut(p) \in Nat /\ cut(p - 1) \in Nat /\ q \in Int
  <2>1. p \in 0 .. m /\ p - 1 \in 0 .. m /\ q \in Int
    BY <1>2, <1>5
  <2>2. cut(p) \in 0 .. N /\ cut(p - 1) \in 0 .. N
    BY <1>1, <2>1, Zenon
  <2> QED BY <2>1, <2>2
<1>7. q <= cut(p)
  BY <1>2, <1>3, <1>4, <1>5, <1>6
<1>8. \A j \in 1 .. p - 1 : cut(j) < q
  BY <1>3, <1>4
<1>9. cut(p - 1) < q
  <2>1. CASE p - 1 = 0
    BY <1>1, <2>1
  <2>2. CASE p - 1 # 0
    <3>1. p - 1 \in 1 .. p - 1
      BY <1>5, <2>2
    <3> QED BY <1>8, <3>1
  <2> QED BY <2>1, <2>2
<1> QED BY <1>5, <1>7, <1>8, <1>9 DEF cut

\* The partition point is where the marks turn.
LEMMA PointAt ==
    ASSUME NEW n \in Nat, NEW marks, DOMAIN marks = 1 .. n, NEW q \in 1 .. n + 1,
           \A i \in 1 .. q - 1 : marks[i], q <= n => ~ marks[q]
    PROVE  PartitionPoint(marks) + 1 = q
<1> DEFINE I == {i \in DOMAIN marks : \A j \in 1 .. i : marks[j]}
<1>1. I \subseteq 1 .. q - 1
  <2>1. ASSUME NEW i \in I, q <= i PROVE FALSE
    <3>1. i \in 1 .. n /\ q \in 1 .. i /\ q <= n
      BY <2>1
    <3>2. marks[q]
      BY <3>1, Zenon
    <3> QED BY <3>1, <3>2
  <2>2. ASSUME NEW i \in I PROVE i \in 1 .. q - 1
    <3>1. i \in 1 .. n
      BY Zenon
    <3> QED BY <2>1, <2>2, <3>1
  <2> QED BY <2>2
<1>2. 1 .. q - 1 \subseteq I
  <2>1. ASSUME NEW i \in 1 .. q - 1 PROVE i \in I
    <3>1. i \in 1 .. n /\ \A j \in 1 .. i : j \in 1 .. q - 1
      BY <2>1
    <3>2. \A j \in 1 .. i : marks[j]
      BY <3>1, Zenon
    <3> QED BY <3>1, <3>2, Zenon
  <2> QED BY <2>1
<1>3. PICK z \in Nat : z = q - 1
  OBVIOUS
<1>4. I = 1 .. z
  BY <1>1, <1>2, <1>3
<1> HIDE DEF I
<1>5. Cardinality(I) = z
  BY <1>4, IdentityArranges
<1>6. PartitionPoint(marks) = z
  BY <1>5 DEF PartitionPoint, I
<1> QED BY <1>3, <1>6

\* Of batches cut from one with increasing keys, the first that does not end
\* before the key has the row where the key would be.
LEMMA SearchAt ==
    ASSUME NEW s \in Schemas, NEW G, IsBatch(s, G), NEW n \in Nat \ {0}, NEW k,
           NEW q \in 1 .. NumRows(G) + 1,
           \A i \in 1 .. q - 1 : KeyBefore(KeyAt(s, G, i), k),
           q <= NumRows(G) => ~ KeyBefore(KeyAt(s, G, q), k)
    PROVE  /\ q <= NumRows(G) /\ KeyAt(s, G, q) = k =>
                SearchBatches(s, Pieces(G, n), k) =
                    Some([seq |-> G.seq[q], value |-> ValueAt(s, G, q)])
           /\ ~ (q <= NumRows(G) /\ KeyAt(s, G, q) = k) =>
                SearchBatches(s, Pieces(G, n), k) = None
<1> DEFINE M == NumRows(G)
           bs == Pieces(G, n)
           m == PieceCount(M, n)
           cut(p) == CutAt(M, n, p)
           marks(b) == [i \in 1 .. NumRows(b) |-> KeyBefore(KeyAt(s, b, i), k)]
           low(b) == PartitionPoint(marks(b)) + 1
           reach == {i \in DOMAIN bs : low(bs[i]) <= NumRows(bs[i])}
           first == CHOOSE i \in reach : \A j \in reach : i <= j
<1>0. SearchBatches(s, bs, k) =
        IF reach = {} THEN None
        ELSE IF KeyAt(s, bs[first], low(bs[first])) # k THEN None
        ELSE Some([seq |-> bs[first].seq[low(bs[first])],
                   value |-> ValueAt(s, bs[first], low(bs[first]))])
  BY DEF SearchBatches
<1>1. M \in Nat
  BY BatchFacts
<1>2. /\ DOMAIN bs = 1 .. m /\ Len(bs) = m /\ AreBatches(s, bs)
      /\ m \in Nat /\ cut(0) = 0 /\ cut(m) = M
      /\ \A p \in 0 .. m : cut(p) \in 0 .. M
      /\ \A p \in 1 .. m :
           /\ cut(p - 1) < cut(p) /\ IsBatch(s, bs[p])
           /\ bs[p] = Slice(G, cut(p - 1) + 1, cut(p))
           /\ NumRows(bs[p]) = cut(p) - cut(p - 1)
           /\ \A i \in 1 .. NumRows(bs[p]) :
               RowAt(s, bs[p], i) = RowAt(s, G, cut(p - 1) + i)
  BY PiecesFacts
<1> HIDE DEF M, bs, m, cut
<1>3. ASSUME NEW p \in 1 .. m
      PROVE  \E x, y \in Nat :
                /\ x = cut(p - 1) /\ y = cut(p) /\ x < y /\ y <= M
                /\ NumRows(bs[p]) = y - x
                /\ \A i \in 1 .. y - x : RowAt(s, bs[p], i) = RowAt(s, G, x + i)
  <2>1. p \in 0 .. m /\ p - 1 \in 0 .. m
    BY <1>2
  <2>2. PICK x, y \in Nat : x = cut(p - 1) /\ y = cut(p)
    <3>1. cut(p) \in 0 .. M /\ cut(p - 1) \in 0 .. M
      BY <1>2, <2>1, Zenon
    <3>2. \A v \in 0 .. M : v \in Nat
      BY <1>1
    <3> QED BY <3>1, <3>2
  <2>3. x < y /\ y <= M /\ NumRows(bs[p]) = y - x
    <3>1. cut(p - 1) < cut(p) /\ NumRows(bs[p]) = cut(p) - cut(p - 1)
      BY <1>2, Zenon
    <3>2. cut(p) \in 0 .. M
      BY <1>2, <2>1
    <3> QED BY <1>1, <2>2, <3>1, <3>2
  <2>4. \A i \in 1 .. y - x : RowAt(s, bs[p], i) = RowAt(s, G, x + i)
    BY <1>2, <2>2, <2>3
  <2> QED BY <2>2, <2>3, <2>4
<1>4. \A b, i : RowAt(s, b, i).key = KeyAt(s, b, i) /\ RowAt(s, b, i).seq = b.seq[i]
                /\ RowAt(s, b, i).value = ValueAt(s, b, i)
  BY DEF RowAt
<1>5. ASSUME NEW p \in 1 .. m, cut(p) < q PROVE p \notin reach
  <2>1. PICK x, y \in Nat :
                /\ x = cut(p - 1) /\ y = cut(p) /\ x < y /\ y <= M
                /\ NumRows(bs[p]) = y - x
                /\ \A i \in 1 .. y - x : RowAt(s, bs[p], i) = RowAt(s, G, x + i)
    BY <1>3
  <2>2. PICK N \in Nat : N = y - x
    BY <2>1
  <2>3. \A i \in 1 .. N : x + i \in 1 .. q - 1
    <3>1. y < q /\ q \in Int
      BY <1>1, <1>5, <2>1
    <3> QED BY <2>2, <3>1
  <2>4. PICK w : w = marks(bs[p])
    OBVIOUS
  <2>5. DOMAIN w = 1 .. N /\ \A i \in 1 .. N : w[i] = KeyBefore(KeyAt(s, bs[p], i), k)
    BY <2>1, <2>2, <2>4
  <2>6. \A i \in 1 .. N : w[i]
    <3>1. ASSUME NEW i \in 1 .. N PROVE w[i]
      <4>1. KeyAt(s, bs[p], i) = KeyAt(s, G, x + i)
        BY <1>4, <2>1, <2>2
      <4>2. KeyBefore(KeyAt(s, G, x + i), k)
        BY <2>3
      <4>3. KeyBefore(KeyAt(s, bs[p], i), k)
        BY <4>1, <4>2, Zenon
      <4> QED BY <2>5, <4>3, Zenon
    <3> QED BY <3>1
  <2>7. N + 1 \in 1 .. N + 1 /\ N + 1 - 1 = N /\ ~ (N + 1 <= N)
    OBVIOUS
  <2>8. PartitionPoint(w) + 1 = N + 1
    BY <2>5, <2>6, <2>7, PointAt
  <2>9. low(bs[p]) = N + 1 /\ NumRows(bs[p]) = N
    BY <2>1, <2>2, <2>4, <2>8
  <2> QED BY <2>7, <2>9
<1>6. ASSUME NEW p \in 1 .. m, cut(p - 1) < q, q <= cut(p)
      PROVE  /\ p \in reach /\ low(bs[p]) = q - cut(p - 1)
             /\ RowAt(s, bs[p], low(bs[p])) = RowAt(s, G, q)
  <2>1. PICK x, y \in Nat :
                /\ x = cut(p - 1) /\ y = cut(p) /\ x < y /\ y <= M
                /\ NumRows(bs[p]) = y - x
                /\ \A i \in 1 .. y - x : RowAt(s, bs[p], i) = RowAt(s, G, x + i)
    BY <1>3
  <2>2. PICK N \in Nat : N = y - x
    BY <2>1
  <2>3. PICK g \in Int : g = q - x
    BY <1>1, <2>1
  <2>4. /\ g \in 1 .. N + 1 /\ g <= N /\ x + g = q /\ g \in 1 .. N /\ q <= M
        /\ \A i \in 1 .. g - 1 : x + i \in 1 .. q - 1 /\ i \in 1 .. N
    <3>1. x < q /\ q <= y /\ q \in Int
      BY <1>1, <1>6, <2>1
    <3>2. x \in Nat /\ y \in Nat /\ y <= M /\ M \in Nat
      BY <1>1, <2>1
    <3> QED BY <2>2, <2>3, <3>1, <3>2
  <2>5. PICK w : w = marks(bs[p])
    OBVIOUS
  <2>6. DOMAIN w = 1 .. N /\ \A i \in 1 .. N : w[i] = KeyBefore(KeyAt(s, bs[p], i), k)
    BY <2>1, <2>2, <2>5
  <2>7. \A i \in 1 .. N : KeyAt(s, bs[p], i) = KeyAt(s, G, x + i)
    BY <1>4, <2>1, <2>2
  <2>8. \A i \in 1 .. g - 1 : w[i]
    <3>1. ASSUME NEW i \in 1 .. g - 1 PROVE w[i]
      <4>1. KeyAt(s, bs[p], i) = KeyAt(s, G, x + i)
        BY <2>4, <2>7
      <4>2. KeyBefore(KeyAt(s, G, x + i), k)
        BY <2>4
      <4>3. KeyBefore(KeyAt(s, bs[p], i), k)
        BY <4>1, <4>2, Zenon
      <4> QED BY <2>4, <2>6, <4>3, Zenon
    <3> QED BY <3>1
  <2>9. ~ w[g]
    <3>1. KeyAt(s, bs[p], g) = KeyAt(s, G, q)
      BY <2>4, <2>7
    <3>2. ~ KeyBefore(KeyAt(s, G, q), k)
      BY <2>4 DEF M
    <3>3. ~ KeyBefore(KeyAt(s, bs[p], g), k)
      BY <3>1, <3>2, Zenon
    <3> QED BY <2>4, <2>6, <3>3, Zenon
  <2>10. PartitionPoint(w) + 1 = g
    BY <2>4, <2>6, <2>8, <2>9, PointAt
  <2>11. low(bs[p]) = g /\ NumRows(bs[p]) = N
    BY <2>1, <2>2, <2>5, <2>10
  <2>12. p \in reach
    BY <1>2, <2>4, <2>11
  <2>13. RowAt(s, bs[p], g) = RowAt(s, G, q)
    BY <2>1, <2>2, <2>4
  <2> QED BY <2>1, <2>3, <2>11, <2>12, <2>13
<1> HIDE DEF low, marks
<1>7. \A p \in reach : p \in 1 .. m
  BY <1>2
<1>8. CASE q <= M
  <2>1. PICK p \in 1 .. m : cut(p - 1) < q /\ q <= cut(p) /\ \A j \in 1 .. p - 1 : cut(j) < q
    <3>1. PICK K \in Nat : K = M /\ q \in 1 .. K /\ m = PieceCount(K, n)
      BY <1>1, <1>8 DEF m
    <3>2. \E p \in 1 .. m : /\ CutAt(K, n, p - 1) < q /\ q <= CutAt(K, n, p)
                            /\ \A j \in 1 .. p - 1 : CutAt(K, n, j) < q
      BY <3>1, PieceOf
    <3> QED BY <3>1, <3>2 DEF cut
  <2>2. p \in 1 .. m
    OBVIOUS
  <2>4. q <= cut(p)
    BY <2>1
  <2>5. cut(p - 1) < q
    BY <2>1
  <2>6. /\ p \in reach /\ low(bs[p]) = q - cut(p - 1)
        /\ RowAt(s, bs[p], low(bs[p])) = RowAt(s, G, q)
    BY <1>6, <2>2, <2>4, <2>5
  <2>7. \A j \in reach : p <= j
    <3>1. ASSUME NEW j \in reach, j < p PROVE FALSE
      <4>1. j \in 1 .. m /\ j \in 1 .. p - 1
        BY <1>7, <2>2, <3>1
      <4>2. cut(j) < q
        BY <2>1, <4>1
      <4> QED BY <1>5, <3>1, <4>1, <4>2
    <3> QED BY <1>7, <2>2, <3>1
  <2>8. first = p
    <3>1. first \in reach /\ \A j \in reach : first <= j
      BY <2>6, <2>7, Zenon
    <3>2. first <= p /\ p <= first /\ first \in 1 .. m
      BY <1>7, <2>6, <2>7, <3>1
    <3> QED BY <2>2, <3>2
  <2> HIDE DEF first, reach
  <2>9. /\ KeyAt(s, bs[first], low(bs[first])) = KeyAt(s, G, q)
        /\ bs[first].seq[low(bs[first])] = G.seq[q]
        /\ ValueAt(s, bs[first], low(bs[first])) = ValueAt(s, G, q)
    BY <1>4, <2>6, <2>8
  <2>10. reach # {}
    BY <2>6
  <2> QED BY <1>0, <1>8, <2>9, <2>10 DEF bs, M
<1>9. CASE ~ (q <= M)
  <2>1. ASSUME NEW p \in reach PROVE FALSE
    <3>1. p \in 1 .. m
      BY <1>7
    <3>2. cut(p) \in 0 .. M
      BY <1>2, <3>1
    <3>3. cut(p) < q
      <4>1. q \in Int
        BY <1>1
      <4> QED BY <1>1, <1>9, <3>2, <4>1
    <3> QED BY <1>5, <2>1, <3>1, <3>3
  <2>2. reach = {}
    BY <2>1
  <2> HIDE DEF first, reach
  <2> QED BY <1>0, <1>9, <2>2 DEF bs, M
<1> QED BY <1>8, <1>9

-----------------------------------------------------------------------------
\* A key is in the filter of the table that has it.
LEMMA FilterHasKeys ==
    ASSUME NEW s, NEW b, NEW seed, NEW i \in 1 .. NumRows(b)
    PROVE  BloomContains(TableOf(s, b, seed).index.bloom, KeyAt(s, b, i))
<1>1. PICK bloom : bloom = TableOf(s, b, seed).index.bloom
  OBVIOUS
<1>2. bloom.seed = seed /\ bloom.bits = UNION {BitIndexes(k, seed) : k \in Range(KeysOf(s, b))}
  BY <1>1 DEF TableOf
<1>3. KeyAt(s, b, i) \in Range(KeysOf(s, b))
  BY DEF KeysOf, Range
<1>4. BitIndexes(KeyAt(s, b, i), seed) \subseteq UNION {BitIndexes(k, seed) : k \in Range(KeysOf(s, b))}
  BY <1>3, Zenon
<1>5. BloomContains(bloom, KeyAt(s, b, i))
  BY <1>2, <1>4 DEF BloomContains
<1> QED BY <1>1, <1>5

\* A point read finds the row of a key, and none where there is none.
LEMMA PointRead ==
    ASSUME NEW s \in Schemas, NEW R, Holdable(s, R), NEW b, HoldsNewest(s, b, R), NEW seed,
           NEW k \in AnyKey, NEW n \in Nat \ {0}
    PROVE  /\ \A i \in 1 .. NumRows(b) : KeyAt(s, b, i) = k =>
                Get(s, TableOf(s, b, seed), k, n) = Some([seq |-> b.seq[i], value |-> ValueAt(s, b, i)])
           /\ (\A i \in 1 .. NumRows(b) : KeyAt(s, b, i) # k) =>
                Get(s, TableOf(s, b, seed), k, n) = None
<1> DEFINE t == TableOf(s, b, seed)
           N == NumRows(b)
           m == PieceCount(N, GroupRows)
           cut(p) == CutAt(N, GroupRows, p)
           metas == t.index.row_groups
           cand == CandidateRowGroup(t, k)
           marks == [g \in DOMAIN metas |-> EndsBefore(metas[g], k)]
           point == PartitionPoint(marks) + 1
<1>0. /\ Get(s, t, k, n) =
            IF \/ metas = <<>>
               \/ KeyBefore(k, metas[1].min_key) \/ KeyBefore(metas[Len(metas)].max_key, k)
               \/ ~ BloomContains(t.index.bloom, k)
               \/ cand = None
            THEN None
            ELSE SearchBatches(s, Pieces(t.groups[cand[1]], n), k)
      /\ cand = IF point \in DOMAIN metas /\ ~ KeyBefore(k, metas[point].min_key) THEN Some(point)
                ELSE None
  BY DEF Get, DecodeRowGroup, CandidateRowGroup
<1>1. /\ IsBatch(s, b) /\ N \in Nat
      /\ \A i \in 1 .. N : KeyAt(s, b, i) \in AnyKey /\ KeyAt(s, b, i) \in KeysFor(s)
  BY NewestKeys
<1>2. /\ m \in Nat /\ cut(0) = 0 /\ cut(m) = N /\ \A p \in 0 .. m : cut(p) \in 0 .. N
      /\ DOMAIN t.groups = 1 .. m /\ DOMAIN t.index.row_groups = 1 .. m
      /\ Len(t.index.row_groups) = m
      /\ \A p \in 1 .. m :
           /\ cut(p - 1) < cut(p) /\ IsBatch(s, t.groups[p])
           /\ NumRows(t.groups[p]) = cut(p) - cut(p - 1)
           /\ \A i \in 1 .. cut(p) - cut(p - 1) :
                   RowAt(s, t.groups[p], i) = RowAt(s, b, cut(p - 1) + i)
           /\ t.index.row_groups[p] = GroupMeta(s, t.groups[p])
           /\ t.index.row_groups[p].min_key = KeyAt(s, b, cut(p - 1) + 1)
           /\ t.index.row_groups[p].max_key = KeyAt(s, b, cut(p))
           /\ t.index.row_groups[p].min_key \in AnyKey
           /\ t.index.row_groups[p].max_key \in AnyKey
  BY GroupFacts
<1>3. \A i, j \in 1 .. N : i < j => KeyBefore(KeyAt(s, b, i), KeyAt(s, b, j))
  BY DEF HoldsNewest
<1>4. \A c, i : RowAt(s, c, i).key = KeyAt(s, c, i) /\ RowAt(s, c, i).seq = c.seq[i]
                /\ RowAt(s, c, i).value = ValueAt(s, c, i)
  BY DEF RowAt
<1>f. N > 0 => BloomContains(t.index.bloom, KeyAt(s, b, 1)) /\ \A i \in 1 .. N : BloomContains(t.index.bloom, KeyAt(s, b, i))
  <2>1. \A i \in 1 .. N : BloomContains(t.index.bloom, KeyAt(s, b, i))
    BY FilterHasKeys
  <2> HIDE DEF t
  <2> QED BY <1>1, <2>1
<1> HIDE DEF t, m, cut, N
<1>5. ASSUME NEW p \in 1 .. m
      PROVE  \E x, y \in Nat :
                /\ x = cut(p - 1) /\ y = cut(p) /\ x < y /\ y <= N
                /\ NumRows(t.groups[p]) = y - x /\ IsBatch(s, t.groups[p])
                /\ \A i \in 1 .. y - x : RowAt(s, t.groups[p], i) = RowAt(s, b, x + i)
                /\ metas[p].min_key = KeyAt(s, b, x + 1) /\ metas[p].max_key = KeyAt(s, b, y)
  <2>1. p \in 0 .. m /\ p - 1 \in 0 .. m
    BY <1>2
  <2>2. PICK x, y \in Nat : x = cut(p - 1) /\ y = cut(p)
    <3>1. cut(p) \in 0 .. N /\ cut(p - 1) \in 0 .. N
      BY <1>2, <2>1, Zenon
    <3>2. \A v \in 0 .. N : v \in Nat
      BY <1>1
    <3> QED BY <3>1, <3>2
  <2>3. cut(p - 1) < cut(p) /\ NumRows(t.groups[p]) = cut(p) - cut(p - 1) /\ IsBatch(s, t.groups[p])
    BY <1>2, Zenon
  <2>4. cut(p) \in 0 .. N
    BY <1>2, <2>1
  <2>5. x < y /\ y <= N /\ NumRows(t.groups[p]) = y - x
    BY <1>1, <2>2, <2>3, <2>4
  <2>6. /\ \A i \in 1 .. y - x : RowAt(s, t.groups[p], i) = RowAt(s, b, x + i)
        /\ metas[p].min_key = KeyAt(s, b, x + 1) /\ metas[p].max_key = KeyAt(s, b, y)
    BY <1>2, <2>2, Zenon
  <2> QED BY <2>2, <2>3, <2>5, <2>6
<1>6. ASSUME NEW i \in 1 .. N, KeyAt(s, b, i) = k
      PROVE  Get(s, t, k, n) = Some([seq |-> b.seq[i], value |-> ValueAt(s, b, i)])
  <2>0. \A j \in 1 .. N : (j < i => KeyBefore(KeyAt(s, b, j), k)) /\ (j >= i => ~ KeyBefore(KeyAt(s, b, j), k))
                          /\ (j <= i => ~ KeyBefore(k, KeyAt(s, b, j)))
    <3>1. ASSUME NEW j \in 1 .. N, j < i
          PROVE  KeyBefore(KeyAt(s, b, j), k) /\ ~ KeyBefore(k, KeyAt(s, b, j))
      <4>1. PICK l \in AnyKey : l = KeyAt(s, b, j)
        BY <1>1
      <4>2. KeyBefore(l, k)
        BY <1>3, <1>6, <3>1, <4>1
      <4>3. ~ KeyBefore(k, l)
        BY <4>2, KeyNotBack
      <4> QED BY <4>1, <4>2, <4>3
    <3>2. ASSUME NEW j \in 1 .. N, j > i PROVE ~ KeyBefore(KeyAt(s, b, j), k)
      <4>1. PICK l \in AnyKey : l = KeyAt(s, b, j)
        BY <1>1
      <4>2. KeyBefore(k, l)
        BY <1>3, <1>6, <3>2, <4>1
      <4>3. ~ KeyBefore(l, k)
        BY <4>2, KeyNotBack
      <4> QED BY <4>1, <4>3
    <3>3. ~ KeyBefore(KeyAt(s, b, i), k) /\ ~ KeyBefore(k, KeyAt(s, b, i))
      BY <1>6, KeysOrdered
    <3>4. \A j \in 1 .. N : j < i \/ j = i \/ j > i
      BY <1>1
    <3>5. \A j \in 1 .. N : /\ j < i => ~ (j >= i)
                            /\ j = i => ~ (j < i)
                            /\ j > i => ~ (j < i) /\ ~ (j <= i)
      BY <1>1
    <3> QED BY <3>1, <3>2, <3>3, <3>4, <3>5
  <2>1. PICK g \in 1 .. m : cut(g - 1) < i /\ i <= cut(g) /\ \A j \in 1 .. g - 1 : cut(j) < i
    <3>1. PICK K \in Nat, n0 \in Nat \ {0} :
            K = N /\ i \in 1 .. K /\ n0 = GroupRows /\ m = PieceCount(K, n0)
      BY <1>1, SstAssumption DEF m
    <3>2. \E p \in 1 .. m : /\ CutAt(K, n0, p - 1) < i /\ i <= CutAt(K, n0, p)
                            /\ \A j \in 1 .. p - 1 : CutAt(K, n0, j) < i
      BY <3>1, PieceOf
    <3> QED BY <3>1, <3>2 DEF cut
  <2>2. PICK x, y \in Nat :
                /\ x = cut(g - 1) /\ y = cut(g) /\ x < y /\ y <= N
                /\ NumRows(t.groups[g]) = y - x /\ IsBatch(s, t.groups[g])
                /\ \A j \in 1 .. y - x : RowAt(s, t.groups[g], j) = RowAt(s, b, x + j)
                /\ metas[g].min_key = KeyAt(s, b, x + 1) /\ metas[g].max_key = KeyAt(s, b, y)
    BY <1>5
  <2>3. /\ x + 1 \in 1 .. N /\ x + 1 <= i /\ y \in 1 .. N /\ y >= i /\ i \in Int /\ N \in Nat
    <3>1. i \in Int /\ N \in Nat /\ x < i /\ i <= y
      BY <1>1, <2>1, <2>2
    <3>2. x \in Nat /\ y \in Nat /\ x < y /\ y <= N
      BY <2>2
    <3> QED BY <3>1, <3>2
  <2>4. cand = Some(g)
    <3>1. PICK w, z : w = marks /\ z = m
      OBVIOUS
    <3>2. z \in Nat /\ DOMAIN w = 1 .. z /\ \A p \in 1 .. z : w[p] = KeyBefore(metas[p].max_key, k)
      BY <1>2, <3>1 DEF EndsBefore
    <3>3. ASSUME NEW p \in 1 .. g - 1 PROVE w[p]
      <4>1. p \in 1 .. m /\ cut(p) < i /\ p \in 0 .. m
        BY <1>2, <2>1, <3>3
      <4>2. PICK u, v \in Nat :
                /\ u = cut(p - 1) /\ v = cut(p) /\ u < v /\ v <= N
                /\ metas[p].max_key = KeyAt(s, b, v)
        BY <1>5, <4>1
      <4>3. v \in 1 .. N /\ v < i
        BY <1>1, <4>1, <4>2
      <4>4. KeyBefore(metas[p].max_key, k)
        BY <2>0, <4>2, <4>3
      <4> QED BY <3>1, <3>2, <4>1, <4>4, Zenon
    <3>4. ~ w[g]
      <4>1. ~ KeyBefore(KeyAt(s, b, y), k)
        BY <2>0, <2>3, Zenon
      <4>2. ~ KeyBefore(metas[g].max_key, k)
        BY <2>2, <4>1
      <4> QED BY <2>1, <3>1, <3>2, <4>2, Zenon
    <3>5. g \in 1 .. z + 1
      BY <2>1, <3>1, <3>2
    <3>6. PartitionPoint(w) + 1 = g
      <4>1. z \in Nat /\ DOMAIN w = 1 .. z /\ g \in 1 .. z + 1
            /\ (\A p \in 1 .. g - 1 : w[p]) /\ (g <= z => ~ w[g])
        BY <3>2, <3>3, <3>4, <3>5
      <4> QED BY <4>1, PointAt
    <3>7. point = g
      BY <3>1, <3>6
    <3>8. ~ KeyBefore(k, metas[g].min_key)
      BY <2>0, <2>2, <2>3
    <3>9. g \in DOMAIN metas
      BY <1>2, <2>1
    <3> HIDE DEF marks, metas
    <3> QED BY <1>0, <3>7, <3>8, <3>9
  <2>5. metas # <<>> /\ Len(metas) = m /\ m # 0
    <3>1. m # 0
      BY <1>2, <2>1
    <3>2. 1 \in DOMAIN metas
      BY <1>2, <3>1
    <3> QED BY <1>2, <3>1, <3>2
  <2>6. ~ KeyBefore(k, metas[1].min_key)
    <3>1. 1 \in 1 .. m /\ 1 - 1 = 0
      BY <1>2, <2>5
    <3>2. metas[1].min_key = KeyAt(s, b, 1)
      <4>1. PICK u, v \in Nat : u = cut(1 - 1) /\ metas[1].min_key = KeyAt(s, b, u + 1)
        BY <1>5, <3>1
      <4>2. u + 1 = 1
        BY <1>2, <3>1, <4>1
      <4> QED BY <4>1, <4>2
    <3>3. 1 \in 1 .. N /\ 1 <= i
      BY <1>1
    <3> QED BY <2>0, <3>2, <3>3
  <2>7. ~ KeyBefore(metas[Len(metas)].max_key, k)
    <3>1. m \in 1 .. m
      BY <1>2, <2>5
    <3>2. metas[m].max_key = KeyAt(s, b, N)
      BY <1>2, <3>1, Zenon
    <3>3. N \in 1 .. N /\ N >= i
      BY <1>1
    <3> QED BY <2>0, <2>5, <3>2, <3>3
  <2>8. BloomContains(t.index.bloom, k)
    <3>1. N > 0
      BY <1>1
    <3> QED BY <1>f, <1>6, <3>1
  <2>9. Get(s, t, k, n) = SearchBatches(s, Pieces(t.groups[g], n), k)
    <3>1. cand # None /\ cand[1] = g
      BY <2>4, SomeFacts
    <3> HIDE DEF cand, metas
    <3> QED BY <1>0, <2>5, <2>6, <2>7, <2>8, <3>1
  <2>10. PICK G, q : G = t.groups[g] /\ q = i - x
    OBVIOUS
  <2>11. /\ q \in 1 .. y - x /\ x + q = i /\ q \in 1 .. (y - x) + 1 /\ q <= y - x
         /\ \A j \in 1 .. q - 1 : j \in 1 .. y - x /\ x + j \in 1 .. N /\ x + j < i
    <3>1. x < i /\ i <= y /\ i \in Int
      BY <2>1, <2>2, <2>3
    <3>2. x \in Nat /\ y \in Nat /\ y <= N /\ N \in Nat
      BY <2>2, <2>3
    <3>3. q \in Int /\ q = i - x
      BY <2>10, <3>1, <3>2
    <3> QED BY <3>1, <3>2, <3>3
  <2>12. KeyAt(s, G, q) = k /\ G.seq[q] = b.seq[i] /\ ValueAt(s, G, q) = ValueAt(s, b, i)
    <3>1. RowAt(s, G, q) = RowAt(s, b, i)
      BY <2>2, <2>10, <2>11
    <3> QED BY <1>4, <1>6, <3>1
  <2>13. \A j \in 1 .. q - 1 : KeyBefore(KeyAt(s, G, j), k)
    <3>1. ASSUME NEW j \in 1 .. q - 1 PROVE KeyBefore(KeyAt(s, G, j), k)
      <4>1. j \in 1 .. y - x /\ x + j \in 1 .. N /\ x + j < i
        BY <2>11
      <4>2. KeyAt(s, G, j) = KeyAt(s, b, x + j)
        BY <1>4, <2>2, <2>10, <4>1
      <4>3. KeyBefore(KeyAt(s, b, x + j), k)
        BY <2>0, <4>1
      <4> QED BY <4>2, <4>3, Zenon
    <3> QED BY <3>1
  <2>14. /\ IsBatch(s, G) /\ q \in 1 .. NumRows(G) + 1 /\ q <= NumRows(G)
         /\ (q <= NumRows(G) => ~ KeyBefore(KeyAt(s, G, q), k))
    <3>1. ~ KeyBefore(KeyAt(s, G, q), k)
      BY <2>12, KeysOrdered
    <3>2. NumRows(G) = y - x /\ IsBatch(s, G)
      BY <2>2, <2>10
    <3> QED BY <2>11, <3>1, <3>2
  <2>15. SearchBatches(s, Pieces(G, n), k) = Some([seq |-> G.seq[q], value |-> ValueAt(s, G, q)])
    <3>1. /\ q <= NumRows(G) /\ KeyAt(s, G, q) = k =>
                SearchBatches(s, Pieces(G, n), k) =
                    Some([seq |-> G.seq[q], value |-> ValueAt(s, G, q)])
          /\ ~ (q <= NumRows(G) /\ KeyAt(s, G, q) = k) =>
                SearchBatches(s, Pieces(G, n), k) = None
      BY <2>13, <2>14, SearchAt
    <3> QED BY <2>12, <2>14, <3>1
  <2> HIDE DEF cand, metas
  <2> QED BY <2>9, <2>10, <2>12, <2>15
<1>7. ASSUME \A i \in 1 .. N : KeyAt(s, b, i) # k
      PROVE  Get(s, t, k, n) = None
  <2>1. CASE point \in DOMAIN metas /\ ~ KeyBefore(k, metas[point].min_key)
    <3>1. PICK g \in 1 .. m : cand = Some(g)
      BY <1>0, <1>2, <2>1
    <3>2. cand[1] = g
      BY <3>1, SomeFacts
    <3>3. PICK x, y \in Nat :
                /\ x < y /\ y <= N
                /\ NumRows(t.groups[g]) = y - x /\ IsBatch(s, t.groups[g])
                /\ \A j \in 1 .. y - x : RowAt(s, t.groups[g], j) = RowAt(s, b, x + j)
      BY <1>5
    <3>a. PICK z \in Nat : z = y - x
      BY <3>3
    <3>b. PICK G : G = t.groups[g]
      OBVIOUS
    <3>c. PICK I : I = {j \in 1 .. z : KeyBefore(KeyAt(s, G, j), k)}
      OBVIOUS
    <3>4. G = t.groups[g] /\ z = y - x /\ I = {j \in 1 .. z : KeyBefore(KeyAt(s, G, j), k)}
      BY <3>a, <3>b, <3>c
    <3>5. PICK q \in 1 .. z + 1 : (\A i \in 1 .. q - 1 : i \in I) /\ (q <= z => q \notin I)
      BY FirstNot
    <3>6. /\ IsBatch(s, G) /\ q \in 1 .. NumRows(G) + 1
          /\ \A i \in 1 .. q - 1 : KeyBefore(KeyAt(s, G, i), k)
          /\ (q <= NumRows(G) => ~ KeyBefore(KeyAt(s, G, q), k))
      <4>1. NumRows(G) = z /\ IsBatch(s, G)
        BY <3>3, <3>4
      <4>2. \A i \in 1 .. q - 1 : KeyBefore(KeyAt(s, G, i), k)
        BY <3>4, <3>5, Zenon
      <4>3. q <= z => q \in 1 .. z
        BY <3>5
      <4>4. q <= z => ~ KeyBefore(KeyAt(s, G, q), k)
        BY <3>4, <3>5, <4>3
      <4> QED BY <3>5, <4>1, <4>2, <4>4
    <3>7. ~ (q <= NumRows(G) /\ KeyAt(s, G, q) = k)
      <4>1. ASSUME q <= NumRows(G) PROVE KeyAt(s, G, q) # k
        <5>1. q \in 1 .. y - x
          BY <3>3, <3>4, <3>5, <4>1
        <5>2. x + q \in 1 .. N
          <6>1. N \in Nat /\ x \in Nat /\ y \in Nat /\ y <= N
            BY <1>1, <3>3
          <6> QED BY <5>1, <6>1
        <5>3. KeyAt(s, G, q) = KeyAt(s, b, x + q)
          BY <1>4, <3>3, <3>4, <5>1
        <5> QED BY <1>7, <5>2, <5>3
      <4> QED BY <4>1
    <3>8. SearchBatches(s, Pieces(G, n), k) = None
      <4>1. /\ q <= NumRows(G) /\ KeyAt(s, G, q) = k =>
                SearchBatches(s, Pieces(G, n), k) =
                    Some([seq |-> G.seq[q], value |-> ValueAt(s, G, q)])
            /\ ~ (q <= NumRows(G) /\ KeyAt(s, G, q) = k) =>
                SearchBatches(s, Pieces(G, n), k) = None
        BY <3>6, SearchAt
      <4> QED BY <3>7, <4>1
    <3>9. SearchBatches(s, Pieces(t.groups[cand[1]], n), k) = None
      BY <3>2, <3>4, <3>8
    <3> HIDE DEF cand, metas
    <3> QED BY <1>0, <3>9
  <2>2. CASE ~ (point \in DOMAIN metas /\ ~ KeyBefore(k, metas[point].min_key))
    <3>1. cand = None
      BY <1>0, <2>2
    <3> HIDE DEF cand, metas, point, marks
    <3> QED BY <1>0, <3>1
  <2> QED BY <2>1, <2>2
<1> QED BY <1>6, <1>7 DEF t, N

-----------------------------------------------------------------------------
\* An SST is the table of one batch of the newest rows of the memtable.
SstInv ==
    stage \in {"sst", "reopened", "compacted"} =>
        /\ sst = None <=> Refused(schema)
        /\ sst # None => \E seed, all : /\ sst = Some(TableOf(schema, all, seed))
                                        /\ HoldsNewest(schema, all, memtable)

LEMMA SstFlush == LogInv /\ RowsInv /\ Flush => SstInv'
<1> SUFFICES ASSUME LogInv, RowsInv, Flush PROVE SstInv'
  OBVIOUS
<1>1. memtable # {} /\ stage' = "sst" /\ schema' = schema /\ memtable' = memtable
      /\ (stage = "write" \/ (stage = "memtable" /\ Lengths))
  BY DEF Flush
<1>2. schema \in Schemas /\ Holdable(schema, memtable)
  BY <1>1 DEF LogInv, RowsInv
<1>3. PICK seed \in Seeds :
        sst' = IF ToBatches(schema, memtable) = None THEN None
               ELSE CreateFromBatches(schema, ToBatches(schema, memtable)[1], seed)
  BY DEF Flush
<1>4. PICK s, R : s = schema /\ R = memtable
  OBVIOUS
<1>5. /\ ToBatches(s, R) = None <=> Refused(s)
      /\ ToBatches(s, R) # None =>
           \E all : /\ HoldsNewest(s, all, R) /\ NumRows(all) \in Nat \ {0}
                    /\ \A d : CreateFromBatches(s, ToBatches(s, R)[1], d) = Some(TableOf(s, all, d))
  BY <1>1, <1>2, <1>4, FlushMakes
<1>6. CASE ToBatches(s, R) = None
  BY <1>1, <1>3, <1>4, <1>5, <1>6 DEF SstInv
<1>7. CASE ToBatches(s, R) # None
  <2>1. PICK all : /\ HoldsNewest(s, all, R)
                   /\ \A d : CreateFromBatches(s, ToBatches(s, R)[1], d) = Some(TableOf(s, all, d))
    BY <1>5, <1>7
  <2>2. sst' = Some(TableOf(s, all, seed))
    BY <1>3, <1>4, <1>7, <2>1
  <2>3. sst' # None
    BY <2>2, SomeFacts
  <2> QED BY <1>1, <1>4, <1>5, <1>7, <2>1, <2>2, <2>3 DEF SstInv
<1> QED BY <1>6, <1>7

LEMMA SstReopen == LogInv /\ RowsInv /\ SstInv /\ Reopen => SstInv'
<1> SUFFICES ASSUME LogInv, RowsInv, SstInv, Reopen PROVE SstInv'
  OBVIOUS
<1>1. /\ stage = "sst" /\ sst # None /\ schema' = schema /\ memtable' = memtable /\ stage' = "reopened"
      /\ sst' = Some([sst[1] EXCEPT !.index = FromJson(ToJson(@))])
  BY DEF Reopen
<1>2. schema \in Schemas /\ Holdable(schema, memtable)
  BY <1>1 DEF LogInv, RowsInv
<1>3. ~ Refused(schema)
  BY <1>1 DEF SstInv
<1>4. PICK seed, all : sst = Some(TableOf(schema, all, seed)) /\ HoldsNewest(schema, all, memtable)
  BY <1>1 DEF SstInv
<1>5. PICK s, R : s = schema /\ R = memtable
  OBVIOUS
<1>6. PICK t : t = TableOf(s, all, seed)
  OBVIOUS
<1>7. [t EXCEPT !.index = FromJson(ToJson(@))] = t
  <2>1. [TableOf(s, all, seed) EXCEPT !.index = FromJson(ToJson(@))] = TableOf(s, all, seed)
    BY <1>2, <1>4, <1>5, ReopenKeeps
  <2> QED BY <1>6, <2>1
<1>8. sst[1] = t
  BY <1>4, <1>5, <1>6, SomeFacts
<1>9. sst' = Some(t)
  BY <1>1, <1>7, <1>8
<1>10. sst' # None
  BY <1>9, SomeFacts
<1> QED BY <1>1, <1>3, <1>4, <1>5, <1>6, <1>9, <1>10 DEF SstInv

LEMMA SstCompact == LogInv /\ SstInv /\ Compact => SstInv'
<1> SUFFICES ASSUME LogInv, SstInv, Compact PROVE SstInv'
  OBVIOUS
<1>1. /\ stage \in {"sst", "reopened"} /\ sst # None /\ schema' = schema /\ memtable' = memtable
      /\ stage' = "compacted"
  BY DEF Compact
<1>2. PICK d \in Seeds :
        sst' = CreateFromBatches(schema,
                    <<MergedBatch(schema, Concatenated(schema, sst[1].groups))>>, d)
  BY DEF Compact
<1>3. schema \in Schemas /\ ~ Refused(schema)
  BY <1>1 DEF LogInv, SstInv
<1>4. PICK seed, all : sst = Some(TableOf(schema, all, seed)) /\ HoldsNewest(schema, all, memtable)
  BY <1>1 DEF SstInv
<1>5. PICK s, R : s = schema /\ R = memtable
  OBVIOUS
<1>6. sst[1] = TableOf(s, all, seed)
  BY <1>4, <1>5, SomeFacts
<1>7. Concatenated(s, TableOf(s, all, seed).groups) = all
  BY <1>3, <1>4, <1>5, CompactionMakes
<1>8. CreateFromBatches(s, <<MergedBatch(s, all)>>, d) = Some(TableOf(s, all, d))
  BY <1>3, <1>4, <1>5, CompactionMakes
<1>9. sst' = Some(TableOf(s, all, d))
  BY <1>2, <1>5, <1>6, <1>7, <1>8
<1>10. sst' # None
  BY <1>9, SomeFacts
<1> QED BY <1>1, <1>3, <1>4, <1>5, <1>9, <1>10 DEF SstInv

LEMMA SstNext == LogInv /\ RowsInv /\ SstInv /\ [PathNext]_path_vars => SstInv'
<1>1. CreateTable \/ AppendBatch \/ Damage \/ Recover => SstInv'
  <2>1. CreateTable \/ AppendBatch \/ Damage \/ Recover => stage' \in {"write", "memtable"}
    BY DEF CreateTable, AppendBatch, Damage, Recover
  <2> QED BY <2>1 DEF SstInv
<1>2. SstInv /\ UNCHANGED path_vars => SstInv'
  BY DEF path_vars, SstInv
<1> QED BY <1>1, <1>2, SstFlush, SstReopen, SstCompact DEF PathNext

LEMMA SstAlways == PathSpec => []SstInv
<1>1. PathInit => SstInv
  BY DEF PathInit, SstInv
<1> QED BY <1>1, SstNext, LogAlways, RowsAlways, PTL DEF PathSpec

\* A point read of an SST finds for every key exactly the newest row that was in
\* the memtable, and nothing for any other key, through flush, reopening and
\* compaction (columnar.rs 55-137, sstable.rs 410-691, merge.rs 91-131).
THEOREM GetsCorrect == PathSpec => []GetsWhatWasWritten
<1>1. LogInv /\ RowsInv /\ SstInv => GetsWhatWasWritten
  <2> SUFFICES ASSUME LogInv, RowsInv, SstInv, stage \in {"sst", "reopened", "compacted"}
               PROVE  /\ sst = None <=> Refused(schema)
                      /\ sst # None => \A k \in KeysFor(schema), n \in BatchSizes :
                            LET of == {r \in memtable : r.key = k /\ \A q \in memtable : q.key = k => q.seq <= r.seq}
                            IN  Get(schema, sst[1], k, n) =
                                    IF of = {} THEN None
                                    ELSE LET r == CHOOSE r \in of : TRUE
                                         IN  Some([seq |-> r.seq, value |-> Proper(schema, r.value)])
    BY Zenon DEF GetsWhatWasWritten
  <2>1. sst = None <=> Refused(schema)
    BY DEF SstInv
  <2>2. schema \in Schemas /\ Holdable(schema, memtable)
    BY DEF LogInv, RowsInv
  <2>3. ASSUME sst # None, NEW k \in KeysFor(schema), NEW n \in BatchSizes
        PROVE  LET of == {r \in memtable : r.key = k /\ \A q \in memtable : q.key = k => q.seq <= r.seq}
               IN  Get(schema, sst[1], k, n) =
                       IF of = {} THEN None
                       ELSE LET r == CHOOSE r \in of : TRUE
                            IN  Some([seq |-> r.seq, value |-> Proper(schema, r.value)])
    <3> DEFINE of == {r \in memtable : r.key = k /\ \A q \in memtable : q.key = k => q.seq <= r.seq}
    <3>1. PICK seed, b : sst = Some(TableOf(schema, b, seed)) /\ HoldsNewest(schema, b, memtable)
      BY <2>3 DEF SstInv
    <3>2. PICK s, R : s = schema /\ R = memtable
      OBVIOUS
    <3>3. sst[1] = TableOf(s, b, seed)
      BY <3>1, <3>2, SomeFacts
    <3>4. k \in AnyKey /\ n \in Nat \ {0}
      BY <2>2, <2>3, KeysTyped, BatchSizesAssumption DEF AnyKey
    <3>5. /\ \A i \in 1 .. NumRows(b) : KeyAt(s, b, i) = k =>
                Get(s, TableOf(s, b, seed), k, n) = Some([seq |-> b.seq[i], value |-> ValueAt(s, b, i)])
          /\ (\A i \in 1 .. NumRows(b) : KeyAt(s, b, i) # k) =>
                Get(s, TableOf(s, b, seed), k, n) = None
      BY <2>2, <3>1, <3>2, <3>4, PointRead
    <3>6. of = {r \in NewestOf(R) : r.key = k}
      BY <3>2 DEF NewestOf, NewestOfKey
    <3> HIDE DEF of
    <3>7. CASE of = {}
      <4>1. ASSUME NEW i \in 1 .. NumRows(b), KeyAt(s, b, i) = k PROVE FALSE
        <5>1. PICK r \in NewestOf(R) : RowAt(s, b, i) = Stored(s, r)
          BY <3>1, <3>2 DEF HoldsNewest
        <5>2. r.key = k
          BY <4>1, <5>1, RowAtParts
        <5> QED BY <3>6, <3>7, <5>1, <5>2
      <4>2. Get(s, TableOf(s, b, seed), k, n) = None
        BY <3>5, <4>1
      <4> QED BY <3>2, <3>3, <3>7, <4>2 DEF of
    <3>8. CASE of # {}
      <4>1. PICK r : r = CHOOSE q \in of : TRUE
        OBVIOUS
      <4>2. r \in NewestOf(R) /\ r.key = k
        <5>1. r \in of
          BY <3>8, <4>1, Zenon
        <5> QED BY <3>6, <5>1
      <4>3. PICK i \in 1 .. NumRows(b) : RowAt(s, b, i) = Stored(s, r)
        BY <3>1, <3>2, <4>2 DEF HoldsNewest
      <4>4. KeyAt(s, b, i) = r.key /\ b.seq[i] = r.seq /\ ValueAt(s, b, i) = Proper(s, r.value)
        BY <4>3, RowAtParts
      <4>5. Get(s, TableOf(s, b, seed), k, n) = Some([seq |-> r.seq, value |-> Proper(s, r.value)])
        BY <3>5, <4>2, <4>3, <4>4
      <4>6. Get(schema, sst[1], k, n) = Some([seq |-> r.seq, value |-> Proper(schema, r.value)])
        BY <3>2, <3>3, <4>5
      <4> QED BY <3>8, <4>1, <4>6, Zenon DEF of
    <3> QED BY <3>7, <3>8
  <2> QED BY <2>1, <2>3
<1> QED BY <1>1, LogAlways, RowsAlways, SstAlways, PTL

-----------------------------------------------------------------------------
(* Ascending positions.                                                     *)

IsAscending(q, I) ==
    /\ q \in Seq(Int) /\ Range(q) = I
    /\ \A m, n \in 1 .. Len(q) : m < n => q[m] < q[n]

LEMMA AscendingAgree ==
    ASSUME NEW I, NEW p, IsAscending(p, I), NEW q, IsAscending(q, I), Len(p) <= Len(q)
    PROVE  Len(p) = Len(q) /\ \A n \in 1 .. Len(p) : p[n] = q[n]
<1>1. /\ Len(p) \in Nat /\ Len(q) \in Nat
      /\ DOMAIN p = 1 .. Len(p) /\ DOMAIN q = 1 .. Len(q)
      /\ \A n \in 1 .. Len(p) : p[n] \in Int
      /\ \A n \in 1 .. Len(q) : q[n] \in Int
  BY DEF IsAscending
<1>2. /\ \A n \in 1 .. Len(p) : \E k \in 1 .. Len(q) : p[n] = q[k]
      /\ \A n \in 1 .. Len(q) : \E k \in 1 .. Len(p) : q[n] = p[k]
  <2>1. {p[n] : n \in 1 .. Len(p)} = {q[n] : n \in 1 .. Len(q)}
    BY <1>1 DEF IsAscending, Range
  <2> QED BY <2>1
<1>3. /\ \A m, n \in 1 .. Len(p) : m < n => p[m] < p[n]
      /\ \A m, n \in 1 .. Len(q) : m < n => q[m] < q[n]
  BY DEF IsAscending
<1>4. PICK L, K \in Nat : L = Len(p) /\ K = Len(q)
  BY <1>1
<1>5. L <= K
  BY <1>4
<1> DEFINE J == {n \in 0 .. L : \A m \in 1 .. n : p[m] = q[m]}
<1>6. ASSUME NEW n \in 0 .. L - 1, n \in J PROVE n + 1 \in J
  <2>0. n + 1 \in 1 .. L /\ n + 1 \in 1 .. K /\ n + 1 \in 0 .. L
        /\ \A m \in 1 .. n : p[m] = q[m] /\ m \in 1 .. L /\ m \in 1 .. K
    BY <1>5, <1>6
  <2>1. PICK x, y \in Int : x = p[n + 1] /\ y = q[n + 1]
    BY <1>1, <1>4, <2>0
  <2>2. PICK k \in 1 .. K : x = q[k]
    BY <1>2, <1>4, <2>0, <2>1
  <2>3. ~ (k \in 1 .. n)
    <3>1. ASSUME k \in 1 .. n PROVE FALSE
      <4>1. p[k] = x
        BY <2>0, <2>2, <3>1
      <4>2. p[k] < x
        <5>1. k < n + 1 /\ k \in 1 .. L
          BY <1>6, <3>1, <2>0
        <5> QED BY <1>3, <1>4, <2>0, <2>1, <5>1
      <4> QED BY <2>1, <4>1, <4>2
    <3> QED BY <3>1
  <2>4. y <= x
    <3>1. k = n + 1 \/ n + 1 < k
      BY <2>0, <2>2, <2>3
    <3>2. n + 1 < k => y < x
      BY <1>3, <1>4, <2>0, <2>1, <2>2
    <3> QED BY <2>1, <2>2, <3>1, <3>2
  <2>5. PICK l \in 1 .. L : y = p[l]
    BY <1>2, <1>4, <2>0, <2>1
  <2>6. ~ (l \in 1 .. n)
    <3>1. ASSUME l \in 1 .. n PROVE FALSE
      <4>1. q[l] = y
        BY <2>0, <2>5, <3>1
      <4>2. q[l] < y
        <5>1. l < n + 1 /\ l \in 1 .. K
          BY <1>6, <3>1, <2>0
        <5> QED BY <1>3, <1>4, <2>0, <2>1, <5>1
      <4> QED BY <2>1, <4>1, <4>2
    <3> QED BY <3>1
  <2>7. x <= y
    <3>1. l = n + 1 \/ n + 1 < l
      BY <2>0, <2>5, <2>6
    <3>2. n + 1 < l => x < y
      BY <1>3, <1>4, <2>0, <2>1, <2>5
    <3> QED BY <2>1, <2>5, <3>1, <3>2
  <2>8. p[n + 1] = q[n + 1]
    BY <2>1, <2>4, <2>7
  <2>9. \A m \in 1 .. n + 1 : m \in 1 .. n \/ m = n + 1
    BY <1>6
  <2> QED BY <2>0, <2>8, <2>9
<1>7. 0 \in Int /\ L \in Int /\ 0 \in J /\ \A n \in 0 .. L - 1 : n \in J => n + 1 \in J
  BY <1>6
<1> HIDE DEF J
<1>8. \A n \in 0 .. L : n \in J
  BY <1>7, CountingUp
<1>9. \A m \in 1 .. L : p[m] = q[m]
  BY <1>8 DEF J
<1>10. ASSUME L < K PROVE FALSE
  <2>1. L + 1 \in 1 .. K
    BY <1>10
  <2>2. PICK k \in 1 .. L : q[L + 1] = p[k]
    BY <1>2, <1>4, <2>1
  <2>3. q[k] = q[L + 1] /\ k < L + 1 /\ k \in 1 .. K
    BY <1>5, <1>9, <2>2
  <2>4. q[k] < q[L + 1]
    BY <1>3, <1>4, <2>1, <2>3
  <2>5. q[k] \in Int
    BY <1>1, <1>4, <2>3
  <2> QED BY <2>3, <2>4, <2>5
<1> QED BY <1>4, <1>5, <1>9, <1>10

\* There is one way to put the numbers of a set in order.
LEMMA AscendingUnique ==
    ASSUME NEW I, NEW p, IsAscending(p, I), NEW q, IsAscending(q, I)
    PROVE  p = q
<1>1. Len(p) \in Nat /\ Len(q) \in Nat /\ DOMAIN p = 1 .. Len(p) /\ DOMAIN q = 1 .. Len(q)
      /\ p \in Seq(Int) /\ q \in Seq(Int)
  BY DEF IsAscending
<1>2. Len(p) = Len(q) /\ \A n \in 1 .. Len(p) : p[n] = q[n]
  <2>1. CASE Len(p) <= Len(q)
    BY <2>1, AscendingAgree
  <2>2. CASE Len(q) <= Len(p)
    <3>1. Len(q) = Len(p) /\ \A n \in 1 .. Len(q) : q[n] = p[n]
      BY <2>2, AscendingAgree
    <3> QED BY <3>1
  <2>3. \A a, b \in Nat : a <= b \/ b <= a
    OBVIOUS
  <2>4. Len(p) <= Len(q) \/ Len(q) <= Len(p)
    BY <1>1, <2>3
  <2> QED BY <2>1, <2>2, <2>4
<1> QED BY <1>1, <1>2

LEMMA SeqWithin ==
    ASSUME NEW I, NEW J, I \subseteq J, NEW p \in Seq(I)
    PROVE  p \in Seq(J)
<1>1. Len(p) \in Nat /\ DOMAIN p = 1 .. Len(p) /\ \A i \in 1 .. Len(p) : p[i] \in J
  OBVIOUS
<1>2. PICK n \in Nat : n = Len(p)
  BY <1>1
<1>3. p \in [1 .. n -> J]
  BY <1>1, <1>2
<1> QED BY <1>3, FunctionSeq

LEMMA AscendingIs ==
    ASSUME NEW I, NEW q, IsAscending(q, I)
    PROVE  IsFiniteSet(I) /\ I \in SUBSET Int /\ q = Ascending(I)
<1>1. q \in Seq(Int) /\ Range(q) = I
  BY DEF IsAscending
<1>2. IsFiniteSet(I) /\ I \in SUBSET Int
  <2>1. IsFiniteSet(Range(q)) /\ Range(q) \subseteq Int
    BY <1>1, FiniteRange
  <2> QED BY <1>1, <2>1
<1>3. PICK p : p = Ascending(I)
  OBVIOUS
<1>4. IsAscending(p, I)
  <2>1. /\ p \in Seq(I) /\ DOMAIN p = 1 .. Len(p) /\ Range(p) = I
        /\ \A m, n \in DOMAIN p : m < n => p[m] < p[n]
    BY <1>2, <1>3, AscendingFacts
  <2>2. p \in Seq(Int)
    BY <1>2, <2>1, SeqWithin
  <2> QED BY <2>1, <2>2 DEF IsAscending
<1> QED BY <1>2, <1>3, <1>4, AscendingUnique

LEMMA AscendingDoes ==
    ASSUME NEW I \in SUBSET Int, IsFiniteSet(I)
    PROVE  IsAscending(Ascending(I), I)
<1>1. PICK p : p = Ascending(I)
  OBVIOUS
<1>2. /\ p \in Seq(I) /\ DOMAIN p = 1 .. Len(p) /\ Range(p) = I
      /\ \A m, n \in DOMAIN p : m < n => p[m] < p[n]
  BY <1>1, AscendingFacts
<1>3. p \in Seq(Int)
  BY <1>2, SeqWithin
<1> QED BY <1>1, <1>2, <1>3 DEF IsAscending

Covered(l, o) ==
    \A p \in 1 .. o[Len(l)] : \E i \in 1 .. Len(l) : \E j \in 1 .. l[i] : p = o[i - 1] + j
LEMMA AllCovered ==
    ASSUME NEW l \in Seq(Nat), NEW o, IsOffset(l, o)
    PROVE  Covered(l, o)
<1>1. ASSUME NEW p \in 1 .. o[Len(l)]
      PROVE  \E i \in 1 .. Len(l) : \E j \in 1 .. l[i] : p = o[i - 1] + j
  <2>1. PICK N : N = o[Len(l)]
    OBVIOUS
  <2> QED BY <2>1, OffsetCovers
<1> QED BY <1>1 DEF Covered

\* Ascending sequences one after the other, each beyond the one before.
LEMMA FlatAscending ==
    ASSUME NEW qs \in Seq(Seq(Int)),
           \A i \in 1 .. Len(qs) : IsAscending(qs[i], Range(qs[i])),
           \A i, j \in 1 .. Len(qs) : i < j => \A x \in Range(qs[i]), y \in Range(qs[j]) : x < y
    PROVE  IsAscending(FlattenSeq(qs), UNION {Range(qs[i]) : i \in 1 .. Len(qs)})
<1> DEFINE n == Len(qs)
           q == FlattenSeq(qs)
           lens == Lens(qs)
           off == Offset(lens)
<1>1. /\ q \in Seq(Int) /\ IsOffset(lens, off) /\ Len(lens) = n /\ Len(q) = Sum(lens)
      /\ \A i \in 1 .. n : \A j \in 1 .. Len(qs[i]) : q[off[i - 1] + j] = qs[i][j]
  BY FlatFacts
<1>2. /\ \A i \in 1 .. n : \A j \in 1 .. Len(qs[i]) : \E p \in 1 .. Len(q) : q[p] = qs[i][j]
      /\ \A p \in 1 .. Len(q) : \E i \in 1 .. n : \E j \in 1 .. Len(qs[i]) : q[p] = qs[i][j]
      /\ DOMAIN q = 1 .. Len(q)
  BY FlatRange
<1>3. n \in Nat /\ DOMAIN qs = 1 .. n
      /\ \A i \in 1 .. n : qs[i] \in Seq(Int) /\ Len(qs[i]) \in Nat /\ DOMAIN qs[i] = 1 .. Len(qs[i])
  OBVIOUS
<1>4. lens \in Seq(Nat) /\ \A i \in 1 .. n : lens[i] = Len(qs[i])
  <2>1. lens = [i \in 1 .. n |-> Len(qs[i])]
    BY <1>3 DEF Lens
  <2>2. lens \in [1 .. n -> Nat]
    BY <1>3, <2>1
  <2>3. lens \in Seq(Nat)
    BY <1>3, <2>2, FunctionSeq
  <2> QED BY <2>1, <2>3
<1>5. Len(q) = off[n]
  BY <1>1 DEF Sum
<1> HIDE DEF n, q, lens, off
<1>0. PICK l \in Seq(Nat) : l = lens
  BY <1>4
<1>6. PICK o : l = lens /\ o = off
  BY <1>0
<1>7. /\ n \in Nat /\ o \in [0 .. n -> Nat]
      /\ \A i \in 1 .. n : \A j \in 1 .. l[i] :
           o[i - 1] + j \in 1 .. o[n] /\ o[i - 1] + j <= o[i]
      /\ \A i, k \in 1 .. n : i < k => o[i] <= o[k - 1]
  BY <1>1, <1>6, Located
<1>8. \A p \in 1 .. o[n] : \E i \in 1 .. n : \E j \in 1 .. l[i] : p = o[i - 1] + j
  <2>1. \A p \in 1 .. o[Len(l)] : \E i \in 1 .. Len(l) : \E j \in 1 .. l[i] : p = o[i - 1] + j
    <3>1. l \in Seq(Nat) /\ IsOffset(l, o)
      BY <1>1, <1>6
    <3>2. Covered(l, o)
      BY <3>1, AllCovered
    <3> QED BY <3>2 DEF Covered
  <2> QED BY <1>1, <1>6, <2>1
<1>9. ASSUME NEW p \in 1 .. o[n], NEW r \in 1 .. o[n], p < r PROVE q[p] < q[r]
  <2>1. PICK i \in 1 .. n : \E j \in 1 .. l[i] : p = o[i - 1] + j
    BY <1>8
  <2>2. PICK j \in 1 .. l[i] : p = o[i - 1] + j
    BY <2>1
  <2>3. PICK i2 \in 1 .. n : \E g \in 1 .. l[i2] : r = o[i2 - 1] + g
    BY <1>8
  <2>4. PICK j2 \in 1 .. l[i2] : r = o[i2 - 1] + j2
    BY <2>3
  <2>5. /\ j \in 1 .. Len(qs[i]) /\ j2 \in 1 .. Len(qs[i2])
        /\ q[p] = qs[i][j] /\ q[r] = qs[i2][j2]
    BY <1>1, <1>4, <1>6, <2>2, <2>4
  <2>6. i \in Int /\ i2 \in Int /\ (i < i2 \/ i = i2 \/ i2 < i)
    BY <1>7
  <2>7. CASE i < i2
    <3>1. qs[i][j] \in Range(qs[i]) /\ qs[i2][j2] \in Range(qs[i2])
      BY <1>3, <2>5 DEF Range
    <3> QED BY <2>5, <2>7, <3>1 DEF n
  <2>8. CASE i = i2
    <3>1. j < j2
      <4>1. o[i - 1] \in Nat
        <5>1. i - 1 \in 0 .. n
          BY <1>7
        <5> QED BY <1>7, <5>1
      <4>2. j \in Int /\ j2 \in Int
        BY <1>3, <2>5
      <4> QED BY <1>9, <2>2, <2>4, <2>8, <4>1, <4>2
    <3>2. IsAscending(qs[i], Range(qs[i]))
      BY DEF n
    <3>3. qs[i][j] < qs[i][j2]
      BY <2>5, <2>8, <3>1, <3>2 DEF IsAscending
    <3> QED BY <2>5, <2>8, <3>3
  <2>9. CASE i2 < i
    <3>1. o[i2] <= o[i - 1] /\ r <= o[i2]
      BY <1>7, <2>4, <2>9
    <3>2. o[i2] \in Nat /\ o[i - 1] \in Nat /\ j \in Nat /\ r \in Int
      <4>1. i - 1 \in 0 .. n /\ i2 \in 0 .. n
        BY <1>7
      <4>2. j \in Nat /\ r \in Int
        <5>1. j \in 1 .. Len(qs[i]) /\ Len(qs[i]) \in Nat
          BY <1>3, <2>5
        <5> QED BY <5>1
      <4> QED BY <1>7, <4>1, <4>2
    <3>3. p >= o[i - 1]
      BY <2>2, <3>2
    <3> QED BY <1>9, <3>1, <3>2, <3>3
  <2> QED BY <2>6, <2>7, <2>8, <2>9
<1>10. Range(q) = UNION {Range(qs[i]) : i \in 1 .. n}
  <2>1. ASSUME NEW x \in Range(q) PROVE x \in UNION {Range(qs[i]) : i \in 1 .. n}
    <3>1. PICK p \in 1 .. Len(q) : x = q[p]
      BY <1>2 DEF Range
    <3>2. PICK i \in 1 .. n : \E j \in 1 .. Len(qs[i]) : q[p] = qs[i][j]
      BY <1>2
    <3>3. x \in Range(qs[i])
      BY <1>3, <3>1, <3>2 DEF Range
    <3> QED BY <3>3
  <2>2. ASSUME NEW i \in 1 .. n, NEW x \in Range(qs[i]) PROVE x \in Range(q)
    <3>1. PICK j \in 1 .. Len(qs[i]) : x = qs[i][j]
      BY <1>3 DEF Range
    <3>2. PICK p \in 1 .. Len(q) : q[p] = x
      BY <1>2, <3>1
    <3> QED BY <1>2, <3>2 DEF Range
  <2> QED BY <2>1, <2>2
<1>11. IsAscending(q, UNION {Range(qs[i]) : i \in 1 .. n})
  BY <1>1, <1>5, <1>6, <1>9, <1>10 DEF IsAscending
<1> QED BY <1>11 DEF q, n

\* Picking elements one sequence of positions after the other.
PickedAll(xs, x, qs) == xs = [p \in DOMAIN qs |-> Pick(x, qs[p])]
LEMMA FlatMap ==
    ASSUME NEW S, NEW T, NEW x \in [S -> T], NEW qs \in Seq(Seq(S)), NEW xs, PickedAll(xs, x, qs)
    PROVE  FlattenSeq(xs) = Pick(x, FlattenSeq(qs)) /\ FlattenSeq(qs) \in Seq(S)
<1>0. xs = [p \in DOMAIN qs |-> Pick(x, qs[p])]
  BY DEF PickedAll
<1>1. Len(qs) \in Nat /\ DOMAIN qs = 1 .. Len(qs) /\ \A p \in 1 .. Len(qs) : qs[p] \in Seq(S)
  OBVIOUS
<1>2. \A p \in 1 .. Len(qs) :
        /\ Pick(x, qs[p]) \in Seq(T) /\ Len(Pick(x, qs[p])) = Len(qs[p])
        /\ \A j \in 1 .. Len(qs[p]) : Pick(x, qs[p])[j] = x[qs[p][j]]
  <2>1. ASSUME NEW p \in 1 .. Len(qs)
        PROVE  /\ Pick(x, qs[p]) \in Seq(T) /\ Len(Pick(x, qs[p])) = Len(qs[p])
               /\ \A j \in 1 .. Len(qs[p]) : Pick(x, qs[p])[j] = x[qs[p][j]]
    <3>1. PICK q \in Seq(S) : q = qs[p]
      BY <1>1
    <3>2. /\ Pick(x, q) \in Seq(T) /\ Len(Pick(x, q)) = Len(q)
          /\ \A j \in 1 .. Len(q) : Pick(x, q)[j] = x[q[j]] /\ q[j] \in S
      <4>1. q \in Seq(S) /\ x \in [S -> T]
        BY <3>1
      <4> QED BY <4>1, PickTyped
    <3> QED BY <3>1, <3>2
  <2> QED BY <2>1
<1>3. PICK n \in Nat : n = Len(qs)
  BY <1>1
<1>4. xs \in Seq(Seq(T)) /\ Len(xs) = n /\ DOMAIN xs = 1 .. n
  <2>1. xs \in [1 .. n -> Seq(T)]
    BY <1>0, <1>1, <1>2, <1>3
  <2> QED BY <2>1, FunctionSeq
<1>5. \A p \in 1 .. n : xs[p] = Pick(x, qs[p]) /\ Len(xs[p]) = Len(qs[p])
  BY <1>0, <1>1, <1>2, <1>3
<1>6. Lens(xs) = Lens(qs)
  BY <1>1, <1>3, <1>4, <1>5 DEF Lens
<1>7. PICK l, o, y, z : l = Lens(qs) /\ o = Offset(l) /\ y = FlattenSeq(qs) /\ z = FlattenSeq(xs)
  OBVIOUS
<1>8. /\ y \in Seq(S) /\ IsOffset(l, o) /\ Len(l) = n /\ Len(y) = Sum(l)
      /\ \A i \in 1 .. n : \A j \in 1 .. Len(qs[i]) : y[o[i - 1] + j] = qs[i][j]
  <2>1. PICK w \in Seq(Seq(S)) : w = qs
    OBVIOUS
  <2>2. /\ FlattenSeq(w) \in Seq(S)
        /\ IsOffset(Lens(w), Offset(Lens(w)))
        /\ Len(Lens(w)) = Len(w)
        /\ Len(FlattenSeq(w)) = Sum(Lens(w))
        /\ \A i \in 1 .. Len(w) : \A j \in 1 .. Len(w[i]) :
              FlattenSeq(w)[Offset(Lens(w))[i - 1] + j] = w[i][j]
    <3>1. w \in Seq(Seq(S))
      BY <2>1
    <3> QED BY <3>1, FlatFacts
  <2> QED BY <1>3, <1>7, <2>1, <2>2, Zenon
<1>9. /\ z \in Seq(T) /\ Len(z) = Sum(l)
      /\ \A i \in 1 .. n : \A j \in 1 .. Len(xs[i]) : z[o[i - 1] + j] = xs[i][j]
  <2>1. PICK w \in Seq(Seq(T)) : w = xs
    BY <1>4
  <2>2. /\ FlattenSeq(w) \in Seq(T)
        /\ IsOffset(Lens(w), Offset(Lens(w)))
        /\ Len(Lens(w)) = Len(w)
        /\ Len(FlattenSeq(w)) = Sum(Lens(w))
        /\ \A i \in 1 .. Len(w) : \A j \in 1 .. Len(w[i]) :
              FlattenSeq(w)[Offset(Lens(w))[i - 1] + j] = w[i][j]
    <3>1. w \in Seq(Seq(T))
      BY <2>1
    <3> QED BY <3>1, FlatFacts
  <2>3. Lens(w) = l /\ Len(w) = n
    BY <1>4, <1>6, <1>7, <2>1
  <2>4. FlattenSeq(w) = z /\ Offset(Lens(w)) = o
    BY <1>7, <2>1, <2>3
  <2>5. z \in Seq(T) /\ Len(z) = Sum(l)
    BY <2>2, <2>3, <2>4, Zenon
  <2>6. \A i \in 1 .. n : \A j \in 1 .. Len(w[i]) : z[o[i - 1] + j] = w[i][j]
    BY <2>2, <2>3, <2>4, Zenon
  <2> QED BY <2>1, <2>5, <2>6
<1>10. l \in Seq(Nat) /\ \A i \in 1 .. n : l[i] = Len(qs[i])
  <2>1. l = [i \in 1 .. n |-> Len(qs[i])]
    BY <1>1, <1>3, <1>7 DEF Lens
  <2>2. l \in [1 .. n -> Nat]
    BY <1>1, <1>3, <2>1
  <2>3. l \in Seq(Nat)
    BY <2>2, FunctionSeq
  <2> QED BY <2>1, <2>3
<1>11. \A p \in 1 .. Len(y) : \E i \in 1 .. n : \E j \in 1 .. l[i] : p = o[i - 1] + j
  <2>1. \A p \in 1 .. o[Len(l)] : \E i \in 1 .. Len(l) : \E j \in 1 .. l[i] : p = o[i - 1] + j
    <3>1. l \in Seq(Nat) /\ IsOffset(l, o)
      BY <1>8, <1>10
    <3>2. Covered(l, o)
      BY <3>1, AllCovered
    <3> QED BY <3>2 DEF Covered
  <2>2. Len(y) = o[Len(l)]
    BY <1>7, <1>8 DEF Sum
  <2> QED BY <1>8, <2>1, <2>2
<1>12. \A p \in 1 .. Len(y) : z[p] = x[y[p]]
  <2>1. ASSUME NEW p \in 1 .. Len(y) PROVE z[p] = x[y[p]]
    <3>1. PICK i \in 1 .. n : \E j \in 1 .. l[i] : p = o[i - 1] + j
      BY <1>11
    <3>2. PICK j \in 1 .. Len(qs[i]) : p = o[i - 1] + j
      BY <1>10, <3>1
    <3>3. y[p] = qs[i][j] /\ z[p] = xs[i][j]
      BY <1>5, <1>8, <1>9, <3>2
    <3>4. xs[i][j] = x[qs[i][j]]
      BY <1>2, <1>3, <1>5
    <3> QED BY <3>3, <3>4
  <2> QED BY <2>1
<1>13. z = [p \in 1 .. Len(z) |-> z[p]] /\ DOMAIN y = 1 .. Len(y)
  BY <1>8, <1>9
<1>14. Pick(x, y) = [p \in 1 .. Len(y) |-> x[y[p]]]
  BY <1>13 DEF Pick
<1>15. z = Pick(x, y)
  BY <1>8, <1>9, <1>12, <1>13, <1>14
<1> QED BY <1>7, <1>8, <1>15

-----------------------------------------------------------------------------
(* Some of the rows of a batch.                                             *)

Chosen(b, q) ==
    [cols |-> [c \in DOMAIN b.cols |-> Pick(b.cols[c], q)], seq |-> Pick(b.seq, q), op |-> Pick(b.op, q)]
Run(i, j) == [k \in 1 .. j - i + 1 |-> i + k - 1]

LEMMA SeqAsFunction ==
    ASSUME NEW S, NEW x \in Seq(S), NEW N, N = Len(x)
    PROVE  x \in [1 .. N -> S] /\ N \in Nat
  OBVIOUS

LEMMA ChosenFacts ==
    ASSUME NEW s \in Schemas, NEW b, IsBatch(s, b), NEW q \in Seq(1 .. NumRows(b))
    PROVE  /\ IsBatch(s, Chosen(b, q)) /\ NumRows(Chosen(b, q)) = Len(q)
           /\ \A j \in 1 .. Len(q) :
                q[j] \in 1 .. NumRows(b) /\ RowAt(s, Chosen(b, q), j) = RowAt(s, b, q[j])
<1> DEFINE a == Chosen(b, q)
           N == NumRows(b)
<1>0. /\ b = [cols |-> b.cols, seq |-> b.seq, op |-> b.op] /\ N \in Nat
      /\ N = Len(b.seq) /\ N = Len(b.op)
      /\ b.cols = [c \in DOMAIN s.columns |-> b.cols[c]] /\ DOMAIN b.cols = DOMAIN s.columns
      /\ b.seq \in Seq(Nat) /\ b.op \in Seq({"put", "delete"})
      /\ \A c \in DOMAIN s.columns : b.cols[c] \in Seq(CellSet) /\ Len(b.cols[c]) = N
  BY BatchFacts
<1>1. /\ DOMAIN a.cols = DOMAIN s.columns /\ \A c \in DOMAIN s.columns : a.cols[c] = Pick(b.cols[c], q)
      /\ a.seq = Pick(b.seq, q) /\ a.op = Pick(b.op, q)
      /\ a = [cols |-> a.cols, seq |-> a.seq, op |-> a.op]
      /\ a.cols = [c \in DOMAIN s.columns |-> a.cols[c]]
  BY <1>0 DEF Chosen
<1> HIDE DEF a, N
<1>2. PICK n \in Nat, M \in Nat : n = Len(q) /\ M = N
  <2>1. Len(q) \in Nat
    OBVIOUS
  <2>2. N \in Nat
    BY <1>0
  <2> QED BY <2>1, <2>2
<1>3. q \in Seq(1 .. M) /\ \A j \in 1 .. n : q[j] \in 1 .. M
  BY <1>2 DEF N
<1>4. /\ a.seq \in Seq(Nat) /\ Len(a.seq) = n /\ \A j \in 1 .. n : a.seq[j] = b.seq[q[j]]
  <2>1. PICK x : x = b.seq
    OBVIOUS
  <2>2. x \in [1 .. M -> Nat]
    BY <1>0, <1>2, <2>1, SeqAsFunction
  <2>3. /\ Pick(x, q) \in Seq(Nat) /\ Len(Pick(x, q)) = Len(q)
        /\ \A j \in 1 .. Len(q) : Pick(x, q)[j] = x[q[j]] /\ q[j] \in 1 .. M
    BY <1>3, <2>2, PickTyped
  <2> QED BY <1>1, <1>2, <2>1, <2>3
<1>5. /\ a.op \in Seq({"put", "delete"}) /\ Len(a.op) = n /\ \A j \in 1 .. n : a.op[j] = b.op[q[j]]
  <2>1. PICK x, S : x = b.op /\ S = {"put", "delete"}
    OBVIOUS
  <2>2. x \in [1 .. M -> S]
    BY <1>0, <1>2, <2>1, SeqAsFunction
  <2>3. /\ Pick(x, q) \in Seq(S) /\ Len(Pick(x, q)) = Len(q)
        /\ \A j \in 1 .. Len(q) : Pick(x, q)[j] = x[q[j]] /\ q[j] \in 1 .. M
    BY <1>3, <2>2, PickTyped
  <2> QED BY <1>1, <1>2, <2>1, <2>3
<1>6. ASSUME NEW c \in DOMAIN s.columns
      PROVE  /\ a.cols[c] \in Seq(CellSet) /\ Len(a.cols[c]) = n
             /\ \A j \in 1 .. n : a.cols[c][j] = b.cols[c][q[j]]
  <2>1. PICK x, S : x = b.cols[c] /\ S = CellSet
    OBVIOUS
  <2>2. x \in [1 .. M -> S]
    BY <1>0, <1>2, <2>1, SeqAsFunction
  <2>3. /\ Pick(x, q) \in Seq(S) /\ Len(Pick(x, q)) = Len(q)
        /\ \A j \in 1 .. Len(q) : Pick(x, q)[j] = x[q[j]] /\ q[j] \in 1 .. M
    BY <1>3, <2>2, PickTyped
  <2> QED BY <1>1, <1>2, <2>1, <2>3
<1>7. IsBatch(s, a) /\ NumRows(a) = n
  <2>1. a.cols \in [DOMAIN s.columns -> Seq(CellSet)]
    BY <1>1, <1>6
  <2> QED BY <1>1, <1>4, <1>5, <1>6, <2>1 DEF IsBatch, BatchParts, NumRows
<1>8. ASSUME NEW j \in 1 .. n PROVE RowAt(s, a, j) = RowAt(s, b, q[j])
  <2>1. PICK i : i = q[j]
    OBVIOUS
  <2>2. /\ \A c \in DOMAIN s.columns : a.cols[c][j] = b.cols[c][i]
        /\ a.seq[j] = b.seq[i] /\ a.op[j] = b.op[i]
    BY <1>4, <1>5, <1>6, <2>1
  <2>3. RowAt(s, a, j) = RowAt(s, b, i)
    BY <2>2, SameRow
  <2> QED BY <2>1, <2>3
<1> QED BY <1>2, <1>3, <1>7, <1>8 DEF a, N

LEMMA PickAgain ==
    ASSUME NEW x, NEW q, NEW r, \A j \in DOMAIN r : r[j] \in DOMAIN q
    PROVE  Pick(Pick(x, q), r) = Pick(x, Pick(q, r))
  BY DEF Pick

LEMMA ChosenAgain ==
    ASSUME NEW s \in Schemas, NEW b, IsBatch(s, b), NEW q \in Seq(1 .. NumRows(b)),
           NEW r \in Seq(1 .. Len(q))
    PROVE  Chosen(Chosen(b, q), r) = Chosen(b, Pick(q, r)) /\ Pick(q, r) \in Seq(1 .. NumRows(b))
<1>1. \A j \in DOMAIN r : r[j] \in DOMAIN q
  OBVIOUS
<1>2. PICK a : a = Chosen(b, q)
  OBVIOUS
<1>3. /\ DOMAIN a.cols = DOMAIN b.cols /\ \A c \in DOMAIN b.cols : a.cols[c] = Pick(b.cols[c], q)
      /\ a.seq = Pick(b.seq, q) /\ a.op = Pick(b.op, q)
  BY <1>2 DEF Chosen
<1>4. /\ Pick(a.seq, r) = Pick(b.seq, Pick(q, r)) /\ Pick(a.op, r) = Pick(b.op, Pick(q, r))
      /\ \A c \in DOMAIN b.cols : Pick(a.cols[c], r) = Pick(b.cols[c], Pick(q, r))
  <2>1. \A x : Pick(Pick(x, q), r) = Pick(x, Pick(q, r))
    BY <1>1, PickAgain
  <2> QED BY <1>3, <2>1
<1>5. Chosen(a, r) = Chosen(b, Pick(q, r))
  BY <1>3, <1>4 DEF Chosen
<1>6. Pick(q, r) \in Seq(1 .. NumRows(b))
  <2>1. PICK S : S = 1 .. NumRows(b)
    OBVIOUS
  <2>2. PICK n : n = Len(q)
    OBVIOUS
  <2>3. q \in [1 .. n -> S] /\ r \in Seq(1 .. n)
    BY <2>1, <2>2, SeqAsFunction
  <2>4. Pick(q, r) \in Seq(S)
    BY <2>3, PickTyped
  <2> QED BY <2>1, <2>4
<1> QED BY <1>2, <1>5, <1>6

LEMMA RunFacts ==
    ASSUME NEW N \in Nat, NEW i \in 1 .. N + 1, NEW j \in i - 1 .. N
    PROVE  Run(i, j) \in Seq(1 .. N) /\ IsAscending(Run(i, j), i .. j) /\ Len(Run(i, j)) = j - i + 1
<1>1. PICK n \in Nat : n = j - i + 1
  OBVIOUS
<1>2. PICK q : q = Run(i, j)
  OBVIOUS
<1>3. q = [k \in 1 .. n |-> i + k - 1]
  BY <1>1, <1>2 DEF Run
<1>4. \A k \in 1 .. n : i + k - 1 \in 1 .. N /\ i + k - 1 \in i .. j /\ i + k - 1 \in Int
  BY <1>1
<1>5. q \in [1 .. n -> 1 .. N] /\ q \in [1 .. n -> Int]
  BY <1>3, <1>4
<1>6. q \in Seq(1 .. N) /\ q \in Seq(Int) /\ Len(q) = n /\ DOMAIN q = 1 .. n
  <2>1. PICK S : S = 1 .. N
    OBVIOUS
  <2>2. q \in Seq(S) /\ Len(q) = n /\ DOMAIN q = 1 .. n
    BY <1>5, <2>1, FunctionSeq
  <2>3. q \in Seq(Int)
    BY <1>5, FunctionSeq
  <2> QED BY <2>1, <2>2, <2>3
<1>7. Range(q) = i .. j
  <2>1. \A y \in i .. j : y - i + 1 \in 1 .. n /\ i + (y - i + 1) - 1 = y
    BY <1>1
  <2>2. \A y \in i .. j : y \in Range(q)
    BY <1>3, <1>6, <2>1 DEF Range
  <2>3. \A y \in Range(q) : y \in i .. j
    BY <1>3, <1>4, <1>6 DEF Range
  <2> QED BY <2>2, <2>3
<1>8. \A k, l \in 1 .. n : k < l => q[k] < q[l]
  BY <1>3, <1>4
<1> QED BY <1>1, <1>2, <1>6, <1>7, <1>8 DEF IsAscending

LEMMA SliceChosen ==
    ASSUME NEW s \in Schemas, NEW b, IsBatch(s, b), NEW i \in 1 .. NumRows(b) + 1,
           NEW j \in i - 1 .. NumRows(b)
    PROVE  Slice(b, i, j) = Chosen(b, Run(i, j))
<1>1. /\ b = [cols |-> b.cols, seq |-> b.seq, op |-> b.op] /\ NumRows(b) \in Nat
      /\ NumRows(b) = Len(b.seq) /\ NumRows(b) = Len(b.op)
      /\ b.cols = [c \in DOMAIN s.columns |-> b.cols[c]] /\ DOMAIN b.cols = DOMAIN s.columns
      /\ b.seq \in Seq(Nat) /\ b.op \in Seq({"put", "delete"})
      /\ \A c \in DOMAIN s.columns : b.cols[c] \in Seq(CellSet) /\ Len(b.cols[c]) = NumRows(b)
  BY BatchFacts
<1>2. PICK N \in Nat : N = NumRows(b)
  BY <1>1
<1>3. i \in 1 .. N + 1 /\ j \in i - 1 .. N
  BY <1>2
<1>4. PICK n \in Nat : n = j - i + 1
  BY <1>3
<1>5. ASSUME NEW S, NEW x \in Seq(S), Len(x) = N PROVE SubSeq(x, i, j) = Pick(x, Run(i, j))
  <2>1. /\ SubSeq(x, i, j) \in Seq(S) /\ Len(SubSeq(x, i, j)) = j - i + 1
        /\ \A k \in 1 .. j - i + 1 : SubSeq(x, i, j)[k] = x[i + k - 1]
    BY <1>3, <1>5, CutFacts
  <2>2. PICK y : y = SubSeq(x, i, j)
    OBVIOUS
  <2>3. y = [k \in 1 .. n |-> y[k]] /\ \A k \in 1 .. n : y[k] = x[i + k - 1]
    BY <1>4, <2>1, <2>2
  <2>4. Pick(x, Run(i, j)) = [k \in 1 .. n |-> x[i + k - 1]]
    BY <1>4 DEF Pick, Run
  <2> QED BY <2>2, <2>3, <2>4
<1>6. SubSeq(b.seq, i, j) = Pick(b.seq, Run(i, j)) /\ SubSeq(b.op, i, j) = Pick(b.op, Run(i, j))
  BY <1>1, <1>2, <1>5
<1>7. \A c \in DOMAIN b.cols : SubSeq(b.cols[c], i, j) = Pick(b.cols[c], Run(i, j))
  BY <1>1, <1>2, <1>5
<1> QED BY <1>6, <1>7 DEF Slice, Chosen

LEMMA ChosenWhole ==
    ASSUME NEW s \in Schemas, NEW b, IsBatch(s, b), NEW q, IsAscending(q, 1 .. NumRows(b))
    PROVE  Chosen(b, q) = b
<1>1. /\ b = [cols |-> b.cols, seq |-> b.seq, op |-> b.op] /\ NumRows(b) \in Nat
      /\ NumRows(b) = Len(b.seq) /\ NumRows(b) = Len(b.op)
      /\ b.cols = [c \in DOMAIN s.columns |-> b.cols[c]] /\ DOMAIN b.cols = DOMAIN s.columns
      /\ b.seq \in Seq(Nat) /\ b.op \in Seq({"put", "delete"})
      /\ \A c \in DOMAIN s.columns : b.cols[c] \in Seq(CellSet) /\ Len(b.cols[c]) = NumRows(b)
  BY BatchFacts
<1>2. PICK N \in Nat : N = NumRows(b)
  BY <1>1
<1>3. 1 \in 1 .. N + 1 /\ N \in 1 - 1 .. N
  OBVIOUS
<1>4. IsAscending(Run(1, N), 1 .. N)
  BY <1>3, RunFacts
<1>5. q = Run(1, N)
  BY <1>2, <1>4, AscendingUnique
<1>6. q = [k \in 1 .. N |-> k]
  BY <1>5 DEF Run
<1>7. ASSUME NEW S, NEW x \in Seq(S), Len(x) = N PROVE Pick(x, q) = x
  BY <1>6, <1>7 DEF Pick
<1>8. Pick(b.seq, q) = b.seq /\ Pick(b.op, q) = b.op
  BY <1>1, <1>2, <1>7
<1>9. \A c \in DOMAIN b.cols : Pick(b.cols[c], q) = b.cols[c]
  BY <1>1, <1>2, <1>7
<1>10. [c \in DOMAIN b.cols |-> Pick(b.cols[c], q)] = b.cols
  BY <1>1, <1>9
<1> QED BY <1>1, <1>8, <1>10 DEF Chosen

LEMMA ChosenTogether ==
    ASSUME NEW s \in Schemas, NEW b, IsBatch(s, b), NEW qs \in Seq(Seq(1 .. NumRows(b))), NEW bs,
           bs = [p \in DOMAIN qs |-> Chosen(b, qs[p])]
    PROVE  Concatenated(s, bs) = Chosen(b, FlattenSeq(qs)) /\ FlattenSeq(qs) \in Seq(1 .. NumRows(b))
<1>1. /\ b = [cols |-> b.cols, seq |-> b.seq, op |-> b.op] /\ NumRows(b) \in Nat
      /\ NumRows(b) = Len(b.seq) /\ NumRows(b) = Len(b.op)
      /\ b.cols = [c \in DOMAIN s.columns |-> b.cols[c]] /\ DOMAIN b.cols = DOMAIN s.columns
      /\ b.seq \in Seq(Nat) /\ b.op \in Seq({"put", "delete"})
      /\ \A c \in DOMAIN s.columns : b.cols[c] \in Seq(CellSet) /\ Len(b.cols[c]) = NumRows(b)
  BY BatchFacts
<1>0. PICK N \in Nat : N = NumRows(b)
  BY <1>1
<1>2. PICK D : N = NumRows(b) /\ D = 1 .. N
  BY <1>0
<1>3. qs \in Seq(Seq(D)) /\ DOMAIN bs = DOMAIN qs
  BY <1>2
<1>4. \A p \in DOMAIN bs :
        /\ bs[p].seq = Pick(b.seq, qs[p]) /\ bs[p].op = Pick(b.op, qs[p])
        /\ \A c \in DOMAIN s.columns : bs[p].cols[c] = Pick(b.cols[c], qs[p])
  BY <1>1 DEF Chosen
<1>5. ASSUME NEW S, NEW x \in Seq(S), Len(x) = N, NEW xs, xs = [p \in DOMAIN qs |-> Pick(x, qs[p])]
      PROVE  FlattenSeq(xs) = Pick(x, FlattenSeq(qs))
  <2>1. x \in [D -> S]
    BY <1>2, <1>5, SeqAsFunction
  <2>2. PICK ps : ps = qs
    OBVIOUS
  <2>3. x \in [D -> S] /\ ps \in Seq(Seq(D)) /\ PickedAll(xs, x, ps)
    BY <1>3, <1>5, <2>1, <2>2 DEF PickedAll
  <2>4. FlattenSeq(xs) = Pick(x, FlattenSeq(ps)) /\ FlattenSeq(ps) \in Seq(D)
    BY <2>3, FlatMap
  <2> QED BY <2>2, <2>4
<1>6. FlattenSeq([p \in DOMAIN bs |-> bs[p].seq]) = Pick(b.seq, FlattenSeq(qs))
  <2>1. PICK xs : xs = [p \in DOMAIN bs |-> bs[p].seq]
    OBVIOUS
  <2>2. xs = [p \in DOMAIN qs |-> Pick(b.seq, qs[p])]
    BY <1>3, <1>4, <2>1
  <2>3. FlattenSeq(xs) = Pick(b.seq, FlattenSeq(qs))
    BY <1>1, <1>2, <1>5, <2>2
  <2> QED BY <2>1, <2>3
<1>7. FlattenSeq([p \in DOMAIN bs |-> bs[p].op]) = Pick(b.op, FlattenSeq(qs))
  <2>1. PICK xs : xs = [p \in DOMAIN bs |-> bs[p].op]
    OBVIOUS
  <2>2. xs = [p \in DOMAIN qs |-> Pick(b.op, qs[p])]
    BY <1>3, <1>4, <2>1
  <2>3. FlattenSeq(xs) = Pick(b.op, FlattenSeq(qs))
    BY <1>1, <1>2, <1>5, <2>2
  <2> QED BY <2>1, <2>3
<1>8. ASSUME NEW c \in DOMAIN s.columns
      PROVE  FlattenSeq([p \in DOMAIN bs |-> bs[p].cols[c]]) = Pick(b.cols[c], FlattenSeq(qs))
  <2>1. PICK xs : xs = [p \in DOMAIN bs |-> bs[p].cols[c]]
    OBVIOUS
  <2>2. xs = [p \in DOMAIN qs |-> Pick(b.cols[c], qs[p])]
    BY <1>3, <1>4, <2>1
  <2>3. FlattenSeq(xs) = Pick(b.cols[c], FlattenSeq(qs))
    BY <1>1, <1>2, <1>5, <2>2
  <2> QED BY <2>1, <2>3
<1>9. FlattenSeq(qs) \in Seq(1 .. NumRows(b))
  <2>1. FlattenSeq(qs) \in Seq(D)
    BY <1>3, FlatFacts
  <2> QED BY <1>2, <2>1
<1> QED BY <1>1, <1>6, <1>7, <1>8, <1>9 DEF Concatenated, Chosen

-----------------------------------------------------------------------------
(* The rows of a batch with keys of a set.                                  *)

Sifted(s, b, K) == Chosen(b, Ascending({i \in 1 .. NumRows(b) : KeyAt(s, b, i) \in K}))

LEMMA PartAscends ==
    ASSUME NEW n \in Nat, NEW I \in SUBSET (1 .. n)
    PROVE  /\ IsFiniteSet(I) /\ I \in SUBSET Int /\ IsAscending(Ascending(I), I)
           /\ Ascending(I) \in Seq(I) /\ Ascending(I) \in Seq(1 .. n)
<1>1. IsFiniteSet(I)
  <2>1. IsFiniteSet(1 .. n)
    BY FS_Interval
  <2> QED BY <2>1, FS_Subset
<1>2. I \in SUBSET Int
  OBVIOUS
<1>3. IsAscending(Ascending(I), I)
  BY <1>1, <1>2, AscendingDoes
<1>4. Ascending(I) \in Seq(I)
  BY <1>1, <1>2, AscendingFacts
<1>5. PICK S : S = 1 .. n
  OBVIOUS
<1>6. Ascending(I) \in Seq(S)
  <2>1. I \subseteq S
    BY <1>5
  <2> QED BY <1>4, <2>1, SeqWithin
<1> QED BY <1>1, <1>2, <1>3, <1>4, <1>5, <1>6

LEMMA AscendingPick ==
    ASSUME NEW I, NEW q, IsAscending(q, I), NEW J \in SUBSET (1 .. Len(q)), NEW r, IsAscending(r, J)
    PROVE  IsAscending(Pick(q, r), {q[j] : j \in J})
<1>1. /\ q \in Seq(Int) /\ \A m, n \in 1 .. Len(q) : m < n => q[m] < q[n]
      /\ r \in Seq(Int) /\ Range(r) = J /\ \A m, n \in 1 .. Len(r) : m < n => r[m] < r[n]
  BY DEF IsAscending
<1>2. PICK n \in Nat, k \in Nat : n = Len(q) /\ k = Len(r)
  <2>1. Len(q) \in Nat /\ Len(r) \in Nat
    BY <1>1
  <2> QED BY <2>1
<1>3. DOMAIN r = 1 .. k /\ DOMAIN q = 1 .. n /\ \A i \in 1 .. n : q[i] \in Int
  BY <1>1, <1>2
<1>4. \A j \in 1 .. k : r[j] \in J /\ r[j] \in 1 .. n
  BY <1>1, <1>2, <1>3 DEF Range
<1>5. PICK p : p = Pick(q, r)
  OBVIOUS
<1>6. p = [j \in 1 .. k |-> q[r[j]]]
  BY <1>3, <1>5 DEF Pick
<1>7. p \in Seq(Int) /\ Len(p) = k /\ DOMAIN p = 1 .. k
  <2>1. p \in [1 .. k -> Int]
    BY <1>3, <1>4, <1>6
  <2> QED BY <2>1, FunctionSeq
<1>8. \A i, j \in 1 .. k : i < j => p[i] < p[j]
  <2>1. ASSUME NEW i \in 1 .. k, NEW j \in 1 .. k, i < j PROVE p[i] < p[j]
    <3>1. r[i] < r[j] /\ r[i] \in 1 .. n /\ r[j] \in 1 .. n
      BY <1>1, <1>2, <1>4, <2>1
    <3>2. q[r[i]] < q[r[j]]
      BY <1>1, <1>2, <3>1
    <3> QED BY <1>6, <3>2
  <2> QED BY <2>1
<1>9. Range(p) = {q[j] : j \in J}
  <2>1. \A x \in Range(p) : x \in {q[j] : j \in J}
    BY <1>4, <1>6, <1>7 DEF Range
  <2>2. ASSUME NEW j \in J PROVE q[j] \in Range(p)
    <3>1. PICK i \in 1 .. k : j = r[i]
      BY <1>1, <1>3 DEF Range
    <3>2. p[i] = q[j]
      BY <1>6, <3>1
    <3> QED BY <1>7, <3>2 DEF Range
  <2> QED BY <2>1, <2>2
<1> QED BY <1>2, <1>5, <1>7, <1>8, <1>9 DEF IsAscending

LEMMA SiftedIs ==
    ASSUME NEW s \in Schemas, NEW b, IsBatch(s, b), NEW K
    PROVE  LET I == {i \in 1 .. NumRows(b) : KeyAt(s, b, i) \in K}
           IN  /\ IsAscending(Ascending(I), I) /\ Ascending(I) \in Seq(1 .. NumRows(b))
               /\ Sifted(s, b, K) = Chosen(b, Ascending(I)) /\ IsBatch(s, Sifted(s, b, K))
<1> DEFINE I == {i \in 1 .. NumRows(b) : KeyAt(s, b, i) \in K}
<1>1. PICK N \in Nat : N = NumRows(b)
  BY BatchFacts
<1>2. PICK J \in SUBSET (1 .. N) : J = I
  BY <1>1
<1>3. IsAscending(Ascending(J), J) /\ Ascending(J) \in Seq(1 .. N)
  BY PartAscends
<1>4. IsBatch(s, Chosen(b, Ascending(I)))
  BY <1>1, <1>2, <1>3, ChosenFacts
<1> QED BY <1>1, <1>2, <1>3, <1>4 DEF Sifted

LEMMA ChosenSifted ==
    ASSUME NEW s \in Schemas, NEW b, IsBatch(s, b), NEW q \in Seq(1 .. NumRows(b)), NEW I,
           IsAscending(q, I), NEW K
    PROVE  LET J == {i \in I : KeyAt(s, b, i) \in K}
           IN  /\ Sifted(s, Chosen(b, q), K) = Chosen(b, Ascending(J))
               /\ IsAscending(Ascending(J), J) /\ Ascending(J) \in Seq(1 .. NumRows(b))
<1> DEFINE J == {i \in I : KeyAt(s, b, i) \in K}
<1>1. PICK a : a = Chosen(b, q)
  OBVIOUS
<1>2. PICK N \in Nat, n \in Nat : N = NumRows(b) /\ n = Len(q)
  <2>1. NumRows(b) \in Nat
    BY BatchFacts
  <2>2. Len(q) \in Nat
    OBVIOUS
  <2> QED BY <2>1, <2>2
<1>3. /\ IsBatch(s, a) /\ NumRows(a) = n
      /\ \A j \in 1 .. n : q[j] \in 1 .. N /\ RowAt(s, a, j) = RowAt(s, b, q[j])
  BY <1>1, <1>2, ChosenFacts
<1>4. \A j \in 1 .. n : KeyAt(s, a, j) = KeyAt(s, b, q[j])
  BY <1>3 DEF RowAt
<1>5. PICK P \in SUBSET (1 .. n) : P = {j \in 1 .. n : KeyAt(s, a, j) \in K}
  OBVIOUS
<1>6. PICK r : r = Ascending(P)
  OBVIOUS
<1>7. IsAscending(r, P) /\ r \in Seq(1 .. n)
  BY <1>6, PartAscends
<1>8. IsAscending(Pick(q, r), {q[j] : j \in P})
  <2>1. P \in SUBSET (1 .. Len(q))
    BY <1>2
  <2> QED BY <1>7, <2>1, AscendingPick
<1>9. {q[j] : j \in P} = J
  <2>1. Range(q) = I /\ DOMAIN q = 1 .. n
    BY <1>2 DEF IsAscending
  <2>2. \A j \in P : q[j] \in J
    BY <1>4, <1>5, <2>1 DEF Range
  <2>3. ASSUME NEW i \in J PROVE i \in {q[j] : j \in P}
    <3>1. PICK j \in 1 .. n : i = q[j]
      BY <2>1 DEF Range
    <3>2. j \in P
      BY <1>4, <1>5, <3>1
    <3> QED BY <3>1, <3>2
  <2> QED BY <2>2, <2>3
<1>10. Chosen(a, r) = Chosen(b, Pick(q, r)) /\ Pick(q, r) \in Seq(1 .. N)
  <2>1. r \in Seq(1 .. Len(q))
    BY <1>2, <1>7
  <2>2. Chosen(Chosen(b, q), r) = Chosen(b, Pick(q, r)) /\ Pick(q, r) \in Seq(1 .. NumRows(b))
    BY <2>1, ChosenAgain
  <2> QED BY <1>1, <1>2, <2>2
<1> HIDE DEF J
<1>11. Pick(q, r) = Ascending(J) /\ IsAscending(Pick(q, r), J)
  <2>1. IsAscending(Pick(q, r), J)
    BY <1>8, <1>9
  <2> QED BY <2>1, AscendingIs
<1>12. Sifted(s, a, K) = Chosen(a, r)
  BY <1>3, <1>5, <1>6 DEF Sifted
<1> QED BY <1>1, <1>2, <1>10, <1>11, <1>12 DEF J

LEMMA SiftedAll ==
    ASSUME NEW s \in Schemas, NEW b, IsBatch(s, b), NEW K,
           \A i \in 1 .. NumRows(b) : KeyAt(s, b, i) \in K
    PROVE  Sifted(s, b, K) = b
<1>1. {i \in 1 .. NumRows(b) : KeyAt(s, b, i) \in K} = 1 .. NumRows(b)
  OBVIOUS
<1>2. LET I == {i \in 1 .. NumRows(b) : KeyAt(s, b, i) \in K}
      IN  /\ IsAscending(Ascending(I), I) /\ Ascending(I) \in Seq(1 .. NumRows(b))
          /\ Sifted(s, b, K) = Chosen(b, Ascending(I)) /\ IsBatch(s, Sifted(s, b, K))
  BY SiftedIs
<1>3. PICK q : q = Ascending(1 .. NumRows(b))
  OBVIOUS
<1>4. IsAscending(q, 1 .. NumRows(b)) /\ Sifted(s, b, K) = Chosen(b, q)
  BY <1>1, <1>2, <1>3
<1> QED BY <1>4, ChosenWhole

LEMMA SiftedNone ==
    ASSUME NEW s \in Schemas, NEW b, IsBatch(s, b), NEW K,
           \A i \in 1 .. NumRows(b) : KeyAt(s, b, i) \notin K
    PROVE  Sifted(s, b, K) = Slice(b, 1, 0)
<1>1. LET I == {i \in 1 .. NumRows(b) : KeyAt(s, b, i) \in K}
      IN  /\ IsAscending(Ascending(I), I) /\ Ascending(I) \in Seq(1 .. NumRows(b))
          /\ Sifted(s, b, K) = Chosen(b, Ascending(I)) /\ IsBatch(s, Sifted(s, b, K))
  BY SiftedIs
<1>2. {i \in 1 .. NumRows(b) : KeyAt(s, b, i) \in K} = {} /\ 1 .. 0 = {}
  OBVIOUS
<1>3. PICK N \in Nat : N = NumRows(b)
  BY BatchFacts
<1>4. 1 \in 1 .. N + 1 /\ 0 \in 1 - 1 .. N
  OBVIOUS
<1>5. IsAscending(Run(1, 0), 1 .. 0)
  BY <1>4, RunFacts
<1>6. Slice(b, 1, 0) = Chosen(b, Run(1, 0))
  BY <1>3, <1>4, SliceChosen
<1>7. PICK q : q = Ascending({})
  OBVIOUS
<1>8. IsAscending(q, {}) /\ Sifted(s, b, K) = Chosen(b, q)
  BY <1>1, <1>2, <1>7
<1>9. IsAscending(Run(1, 0), {})
  BY <1>2, <1>5
<1>10. q = Run(1, 0)
  BY <1>8, <1>9, AscendingUnique
<1> QED BY <1>6, <1>8, <1>10

\* What is left of a sequence without the elements outside of a set.
PickedSome(xs, x, E) ==
    E \subseteq 1 .. Len(x) /\ xs = [p \in 1 .. Len(x) |-> IF p \in E THEN <<x[p]>> ELSE <<>>]
LEMMA FlatSome ==
    ASSUME NEW T, NEW x \in Seq(T), NEW E, NEW xs, PickedSome(xs, x, E)
    PROVE  FlattenSeq(xs) = Pick(x, Ascending(E))
<1>0. PICK n : n = Len(x)
  OBVIOUS
<1>a. E \in SUBSET (1 .. n) /\ xs = [p \in 1 .. n |-> IF p \in E THEN <<x[p]>> ELSE <<>>]
  BY <1>0 DEF PickedSome
<1>1. PICK qs : qs = [p \in 1 .. n |-> IF p \in E THEN <<p>> ELSE <<>>]
  OBVIOUS
<1>2. n \in Nat /\ x \in [1 .. n -> T]
  BY <1>0, SeqAsFunction
<1>3. PICK S : S = 1 .. n
  OBVIOUS
<1>4. /\ \A p \in S : <<p>> \in Seq(S) /\ <<p>> \in Seq(Int) /\ Len(<<p>>) = 1 /\ <<p>>[1] = p
                      /\ Range(<<p>>) = {p}
      /\ <<>> \in Seq(S) /\ <<>> \in Seq(Int) /\ Len(<<>>) = 0 /\ Range(<<>>) = {}
  BY <1>3 DEF Range
<1>5. qs \in Seq(Seq(S)) /\ Len(qs) = n /\ DOMAIN qs = 1 .. n
  <2>1. qs \in [1 .. n -> Seq(S)]
    BY <1>1, <1>3, <1>4
  <2> QED BY <1>2, <2>1, FunctionSeq
<1>6. qs \in Seq(Seq(Int))
  <2>1. qs \in [1 .. n -> Seq(Int)]
    BY <1>1, <1>3, <1>4
  <2> QED BY <1>2, <2>1, FunctionSeq
<1>7. PickedAll(xs, x, qs)
  <2>1. ASSUME NEW p \in 1 .. n PROVE xs[p] = Pick(x, qs[p])
    <3>1. CASE p \in E
      <4>1. qs[p] = <<p>> /\ xs[p] = <<x[p]>>
        BY <1>1, <1>a, <3>1
      <4>2. Pick(x, <<p>>) = <<x[p]>>
        BY DEF Pick
      <4> QED BY <4>1, <4>2
    <3>2. CASE p \notin E
      <4>1. qs[p] = <<>> /\ xs[p] = <<>>
        BY <1>1, <1>a, <3>2
      <4>2. Pick(x, <<>>) = <<>>
        BY DEF Pick
      <4> QED BY <4>1, <4>2
    <3> QED BY <3>1, <3>2
  <2>2. xs = [p \in 1 .. n |-> xs[p]]
    BY <1>a
  <2> QED BY <1>5, <2>1, <2>2 DEF PickedAll
<1>8. FlattenSeq(xs) = Pick(x, FlattenSeq(qs))
  <2>1. x \in [S -> T]
    BY <1>2, <1>3
  <2>2. qs \in Seq(Seq(S)) /\ PickedAll(xs, x, qs)
    BY <1>5, <1>7
  <2>3. FlattenSeq(xs) = Pick(x, FlattenSeq(qs)) /\ FlattenSeq(qs) \in Seq(S)
    BY <2>1, <2>2, FlatMap
  <2> QED BY <2>3
<1>9. \A i \in 1 .. Len(qs) : IsAscending(qs[i], Range(qs[i])) /\ (\A y \in Range(qs[i]) : y = i /\ i \in E)
                              /\ (i \in E => i \in Range(qs[i]))
  <2>1. ASSUME NEW i \in 1 .. n
        PROVE  IsAscending(qs[i], Range(qs[i])) /\ (\A y \in Range(qs[i]) : y = i /\ i \in E)
               /\ (i \in E => i \in Range(qs[i]))
    <3>1. CASE i \in E
      <4>1. qs[i] = <<i>>
        BY <1>1, <3>1
      <4>2. IsAscending(<<i>>, {i})
        BY <1>3, <1>4 DEF IsAscending
      <4>3. Range(qs[i]) = {i}
        BY <1>3, <1>4, <4>1
      <4> QED BY <3>1, <4>1, <4>2, <4>3
    <3>2. CASE i \notin E
      <4>1. qs[i] = <<>>
        BY <1>1, <3>2
      <4>2. IsAscending(<<>>, {})
        BY <1>4 DEF IsAscending
      <4>3. Range(qs[i]) = {}
        BY <1>4, <4>1
      <4> QED BY <3>2, <4>1, <4>2, <4>3
    <3> QED BY <3>1, <3>2
  <2> QED BY <1>5, <2>1
<1>10. \A i, j \in 1 .. Len(qs) : i < j => \A y \in Range(qs[i]), z \in Range(qs[j]) : y < z
  BY <1>9
<1>11. IsAscending(FlattenSeq(qs), UNION {Range(qs[i]) : i \in 1 .. Len(qs)})
  <2>1. \A i \in 1 .. Len(qs) : IsAscending(qs[i], Range(qs[i]))
    BY <1>9
  <2> QED BY <1>6, <1>10, <2>1, FlatAscending
<1>12. UNION {Range(qs[i]) : i \in 1 .. Len(qs)} = E
  <2>1. \A y \in UNION {Range(qs[i]) : i \in 1 .. Len(qs)} : y \in E
    BY <1>9
  <2>2. \A i \in E : i \in 1 .. Len(qs) /\ i \in Range(qs[i])
    BY <1>5, <1>9, <1>a
  <2> QED BY <2>1, <2>2
<1>13. FlattenSeq(qs) = Ascending(E)
  BY <1>11, <1>12, AscendingIs
<1> QED BY <1>8, <1>13

-----------------------------------------------------------------------------
(* Parts of the pieces a batch is cut into, put together.                   *)

\* bs[p] are the rows J[p] of b, all of them in piece p.
AreParts(b, n, J, bs) ==
    \A p \in 1 .. PieceCount(NumRows(b), n) :
        /\ J[p] \subseteq CutAt(NumRows(b), n, p - 1) + 1 .. CutAt(NumRows(b), n, p)
        /\ bs[p] = Chosen(b, Ascending(J[p]))

SomePieces(b, n, E) == E \in SUBSET (1 .. PieceCount(NumRows(b), n))
AllOf(J, E) == UNION {J[p] : p \in E}

LEMMA CutsApart ==
    ASSUME NEW N \in Nat, NEW n \in Nat \ {0}, NEW m, m = PieceCount(N, n),
           NEW i \in 1 .. m, NEW j \in 1 .. m, i < j
    PROVE  CutAt(N, n, i) <= CutAt(N, n, j - 1)
<1>1. /\ m \in Nat /\ CutAt(N, n, 0) = 0 /\ CutAt(N, n, m) = N
      /\ \A p \in 0 .. m : CutAt(N, n, p) \in 0 .. N
      /\ \A p \in 1 .. m : CutAt(N, n, p - 1) = (p - 1) * n /\ CutAt(N, n, p - 1) < CutAt(N, n, p)
  BY CutsFacts
<1>2. i + 1 \in 1 .. m /\ i \in Nat /\ j - 1 \in Nat /\ i <= j - 1
  BY <1>1
<1>3. CutAt(N, n, i) = i * n
  <2>1. CutAt(N, n, i + 1 - 1) = (i + 1 - 1) * n
    BY <1>1, <1>2
  <2>2. i + 1 - 1 = i
    BY <1>2
  <2> QED BY <2>1, <2>2
<1>4. CutAt(N, n, j - 1) = (j - 1) * n
  BY <1>1
<1>5. PICK k \in Nat : k = j - 1
  BY <1>2
<1>6. i * n <= k * n
  <2>1. k - i \in Nat /\ (k - i) * n \in Nat
    BY <1>2, <1>5
  <2>2. k * n = i * n + (k - i) * n
    BY <1>2, <1>5, <2>1
  <2>3. i * n \in Nat
    BY <1>2
  <2> QED BY <2>1, <2>2, <2>3
<1> QED BY <1>3, <1>4, <1>5, <1>6

LEMMA PartsTogether ==
    ASSUME NEW s \in Schemas, NEW b, IsBatch(s, b), NEW n \in Nat \ {0}, NEW J, NEW bs,
           AreParts(b, n, J, bs), NEW E, SomePieces(b, n, E),
           NEW A, A = AllOf(J, E)
    PROVE  /\ Concatenated(s, Pick(bs, Ascending(E))) = Chosen(b, Ascending(A))
           /\ IsAscending(Ascending(A), A) /\ Ascending(A) \in Seq(1 .. NumRows(b))
           /\ A \in SUBSET (1 .. NumRows(b))
<1>1. PICK N \in Nat : N = NumRows(b)
  BY BatchFacts
<1> DEFINE m == PieceCount(N, n)
<1>2. /\ m \in Nat /\ CutAt(N, n, 0) = 0 /\ CutAt(N, n, m) = N
      /\ \A p \in 0 .. m : CutAt(N, n, p) \in 0 .. N
      /\ \A p \in 1 .. m : CutAt(N, n, p - 1) = (p - 1) * n /\ CutAt(N, n, p - 1) < CutAt(N, n, p)
  BY CutsFacts
<1>3. \A p \in 1 .. m : J[p] \subseteq CutAt(N, n, p - 1) + 1 .. CutAt(N, n, p)
                        /\ bs[p] = Chosen(b, Ascending(J[p]))
  BY <1>1 DEF AreParts
<1>0. E \in SUBSET (1 .. m)
  BY <1>1 DEF SomePieces
<1> HIDE DEF m
<1>4. PICK S : S = 1 .. N
  OBVIOUS
<1>5. \A p \in 1 .. m : /\ CutAt(N, n, p - 1) \in 0 .. N /\ CutAt(N, n, p) \in 0 .. N
                        /\ J[p] \in SUBSET S
  <2>1. ASSUME NEW p \in 1 .. m
        PROVE  CutAt(N, n, p - 1) \in 0 .. N /\ CutAt(N, n, p) \in 0 .. N /\ J[p] \in SUBSET S
    <3>1. p - 1 \in 0 .. m /\ p \in 0 .. m
      BY <1>2
    <3>2. CutAt(N, n, p - 1) \in 0 .. N /\ CutAt(N, n, p) \in 0 .. N
      BY <1>2, <3>1
    <3>3. \A i \in J[p] : i \in CutAt(N, n, p - 1) + 1 .. CutAt(N, n, p)
      BY <1>3
    <3>4. \A i \in J[p] : i \in S
      BY <1>4, <3>2, <3>3
    <3> QED BY <3>2, <3>4
  <2> QED BY <2>1
<1>6. \A p \in 1 .. m : /\ IsAscending(Ascending(J[p]), J[p]) /\ Ascending(J[p]) \in Seq(S)
                        /\ Range(Ascending(J[p])) = J[p] /\ Ascending(J[p]) \in Seq(Int)
  <2>1. ASSUME NEW p \in 1 .. m
        PROVE  /\ IsAscending(Ascending(J[p]), J[p]) /\ Ascending(J[p]) \in Seq(S)
               /\ Range(Ascending(J[p])) = J[p] /\ Ascending(J[p]) \in Seq(Int)
    <3>1. PICK I \in SUBSET (1 .. N) : I = J[p]
      BY <1>4, <1>5
    <3>2. IsAscending(Ascending(I), I) /\ Ascending(I) \in Seq(1 .. N)
      BY PartAscends
    <3>3. Range(Ascending(I)) = I /\ Ascending(I) \in Seq(Int)
      BY <3>2 DEF IsAscending
    <3> QED BY <1>4, <3>1, <3>2, <3>3
  <2> QED BY <2>1
<1>7. PICK e : e = Ascending(E)
  OBVIOUS
<1>8. IsAscending(e, E) /\ e \in Seq(1 .. m)
  BY <1>0, <1>2, <1>7, PartAscends
<1>9. PICK k \in Nat : k = Len(e)
  BY <1>8
<1>10. /\ DOMAIN e = 1 .. k /\ Range(e) = E
       /\ \A j \in 1 .. k : e[j] \in E /\ e[j] \in 1 .. m
       /\ \A i, j \in 1 .. k : i < j => e[i] < e[j]
  <2>1. DOMAIN e = 1 .. k /\ Range(e) = E /\ \A i, j \in 1 .. k : i < j => e[i] < e[j]
    BY <1>8, <1>9 DEF IsAscending
  <2>2. \A j \in 1 .. k : e[j] \in Range(e)
    BY <2>1 DEF Range
  <2> QED BY <1>0, <2>1, <2>2
<1>11. PICK w : w = [j \in 1 .. k |-> Ascending(J[e[j]])]
  OBVIOUS
<1>12. w \in Seq(Seq(S)) /\ w \in Seq(Seq(Int)) /\ Len(w) = k /\ DOMAIN w = 1 .. k
  <2>1. w \in [1 .. k -> Seq(S)] /\ w \in [1 .. k -> Seq(Int)]
    BY <1>6, <1>10, <1>11
  <2> QED BY <2>1, FunctionSeq
<1>13. \A j \in 1 .. k : w[j] = Ascending(J[e[j]]) /\ Range(w[j]) = J[e[j]] /\ IsAscending(w[j], Range(w[j]))
  BY <1>6, <1>10, <1>11
<1>14. Pick(bs, e) = [j \in DOMAIN w |-> Chosen(b, w[j])]
  <2>1. \A j \in 1 .. k : bs[e[j]] = Chosen(b, w[j])
    BY <1>3, <1>10, <1>13
  <2>2. Pick(bs, e) = [j \in 1 .. k |-> bs[e[j]]]
    BY <1>10 DEF Pick
  <2> QED BY <1>12, <2>1, <2>2
<1>15. Concatenated(s, Pick(bs, e)) = Chosen(b, FlattenSeq(w))
  <2>1. PICK cs : cs = Pick(bs, e)
    OBVIOUS
  <2>2. cs = [j \in DOMAIN w |-> Chosen(b, w[j])]
    BY <1>14, <2>1
  <2>3. w \in Seq(Seq(1 .. NumRows(b)))
    BY <1>1, <1>4, <1>12
  <2>4. Concatenated(s, cs) = Chosen(b, FlattenSeq(w)) /\ FlattenSeq(w) \in Seq(1 .. NumRows(b))
    BY <2>2, <2>3, ChosenTogether
  <2> QED BY <2>1, <2>4
<1>16. \A i, j \in 1 .. Len(w) : i < j => \A x \in Range(w[i]), y \in Range(w[j]) : x < y
  <2>1. ASSUME NEW i \in 1 .. k, NEW j \in 1 .. k, i < j, NEW x \in Range(w[i]), NEW y \in Range(w[j])
        PROVE  x < y
    <3>1. PICK p \in 1 .. m, q \in 1 .. m : p = e[i] /\ q = e[j]
      BY <1>10
    <3>2. p < q
      BY <1>10, <2>1, <3>1
    <3>3. CutAt(N, n, p) <= CutAt(N, n, q - 1)
      <4>1. m = PieceCount(N, n)
        BY DEF m
      <4> QED BY <3>2, <4>1, CutsApart
    <3>4. /\ x \in CutAt(N, n, p - 1) + 1 .. CutAt(N, n, p)
          /\ y \in CutAt(N, n, q - 1) + 1 .. CutAt(N, n, q)
      BY <1>3, <1>13, <3>1
    <3>5. /\ CutAt(N, n, p - 1) \in 0 .. N /\ CutAt(N, n, p) \in 0 .. N
          /\ CutAt(N, n, q - 1) \in 0 .. N /\ CutAt(N, n, q) \in 0 .. N
      BY <1>5
    <3> QED BY <3>3, <3>4, <3>5
  <2> QED BY <1>12, <2>1
<1>17. IsAscending(FlattenSeq(w), UNION {Range(w[j]) : j \in 1 .. Len(w)})
  <2>1. \A j \in 1 .. Len(w) : IsAscending(w[j], Range(w[j]))
    BY <1>12, <1>13
  <2> QED BY <1>12, <1>16, <2>1, FlatAscending
<1>18. UNION {Range(w[j]) : j \in 1 .. Len(w)} = A
  <2>1. ASSUME NEW i \in UNION {Range(w[j]) : j \in 1 .. Len(w)} PROVE i \in A
    <3>1. PICK j \in 1 .. k : i \in Range(w[j])
      BY <1>12
    <3>2. i \in J[e[j]] /\ e[j] \in E
      BY <1>10, <1>13, <3>1
    <3> QED BY <3>2 DEF AllOf
  <2>2. ASSUME NEW i \in A PROVE i \in UNION {Range(w[j]) : j \in 1 .. Len(w)}
    <3>1. PICK p \in E : i \in J[p]
      BY DEF AllOf
    <3>2. PICK j \in 1 .. k : e[j] = p
      BY <1>10 DEF Range
    <3>3. i \in Range(w[j])
      BY <1>13, <3>1, <3>2
    <3> QED BY <1>12, <3>3
  <2> QED BY <2>1, <2>2
<1>19. FlattenSeq(w) = Ascending(A)
  <2>1. IsAscending(FlattenSeq(w), A)
    BY <1>17, <1>18
  <2> QED BY <2>1, AscendingIs
<1>20. A \in SUBSET (1 .. N)
  <2>1. \A p \in E : J[p] \subseteq S
    BY <1>0, <1>5
  <2> QED BY <1>4, <2>1 DEF AllOf
<1>21. IsAscending(Ascending(A), A) /\ Ascending(A) \in Seq(1 .. N)
  BY <1>20, PartAscends
<1> QED BY <1>1, <1>7, <1>15, <1>19, <1>20, <1>21

LEMMA PieceChosen ==
    ASSUME NEW s \in Schemas, NEW b, IsBatch(s, b), NEW n \in Nat \ {0}, NEW N, N = NumRows(b),
           NEW p \in 1 .. PieceCount(N, n)
    PROVE  LET lo == CutAt(N, n, p - 1) + 1
               hi == CutAt(N, n, p)
           IN  /\ lo \in 1 .. N + 1 /\ hi \in lo .. N
               /\ Pieces(b, n)[p] = Chosen(b, Run(lo, hi)) /\ IsAscending(Run(lo, hi), lo .. hi)
               /\ Run(lo, hi) = Ascending(lo .. hi) /\ Run(lo, hi) \in Seq(1 .. N)
<1>1. PICK M \in Nat : M = N
  BY BatchFacts
<1>2. PICK m : m = PieceCount(M, n)
  OBVIOUS
<1>3. /\ m \in Nat /\ \A q \in 0 .. m : CutAt(M, n, q) \in 0 .. M
      /\ \A q \in 1 .. m : CutAt(M, n, q - 1) = (q - 1) * n /\ CutAt(M, n, q - 1) < CutAt(M, n, q)
  BY <1>2, CutsFacts
<1>4. PICK lo, hi : lo = CutAt(M, n, p - 1) + 1 /\ hi = CutAt(M, n, p)
  OBVIOUS
<1>5. lo \in 1 .. M + 1 /\ hi \in lo .. M /\ hi \in lo - 1 .. M
  <2>1. p - 1 \in 0 .. m /\ p \in 0 .. m /\ p \in 1 .. m
    BY <1>1, <1>2, <1>3
  <2>2. CutAt(M, n, p - 1) \in 0 .. M /\ CutAt(M, n, p) \in 0 .. M /\ CutAt(M, n, p - 1) < CutAt(M, n, p)
    BY <1>3, <2>1
  <2> QED BY <1>4, <2>2
<1>6. Pieces(b, n)[p] = Slice(b, lo, hi)
  <2>1. \A q \in 1 .. PieceCount(NumRows(b), n) :
            Pieces(b, n)[q] = Slice(b, CutAt(NumRows(b), n, q - 1) + 1, CutAt(NumRows(b), n, q))
    BY PiecesFacts
  <2> QED BY <1>1, <1>4, <2>1
<1>7. Slice(b, lo, hi) = Chosen(b, Run(lo, hi))
  <2>1. lo \in 1 .. NumRows(b) + 1 /\ hi \in lo - 1 .. NumRows(b)
    BY <1>1, <1>5
  <2> QED BY <2>1, SliceChosen
<1>8. Run(lo, hi) \in Seq(1 .. M) /\ IsAscending(Run(lo, hi), lo .. hi) /\ Len(Run(lo, hi)) = hi - lo + 1
  BY <1>5, RunFacts
<1>9. Run(lo, hi) = Ascending(lo .. hi)
  BY <1>8, AscendingIs
<1> QED BY <1>1, <1>4, <1>5, <1>6, <1>7, <1>8, <1>9

AreSifted(s, b, n, K, next) ==
    /\ DOMAIN next = 1 .. PieceCount(NumRows(b), n) /\ next = [p \in DOMAIN next |-> next[p]]
    /\ \A p \in DOMAIN next : next[p] = Sifted(s, Pieces(b, n)[p], K)
NotEmptyOf(bs) == FlattenSeq([p \in DOMAIN bs |-> IF NumRows(bs[p]) > 0 THEN <<bs[p]>> ELSE <<>>])

\* Sifting piece by piece, as the reader hands them out, leaves what sifting the
\* whole batch does.
LEMMA SiftedPieces ==
    ASSUME NEW s \in Schemas, NEW b, IsBatch(s, b), NEW n \in Nat \ {0}, NEW K,
           NEW next, AreSifted(s, b, n, K, next)
    PROVE  Concatenated(s, NotEmptyOf(next)) = Sifted(s, b, K)
<1>1. PICK N \in Nat : N = NumRows(b)
  BY BatchFacts
<1>0. PICK m : m = PieceCount(NumRows(b), n)
  OBVIOUS
<1>a. /\ DOMAIN next = 1 .. m /\ next = [p \in 1 .. m |-> next[p]]
      /\ \A p \in 1 .. m : next[p] = Sifted(s, Pieces(b, n)[p], K)
  BY <1>0 DEF AreSifted
<1>2. /\ m \in Nat /\ CutAt(N, n, 0) = 0 /\ CutAt(N, n, m) = N
      /\ \A p \in 0 .. m : CutAt(N, n, p) \in 0 .. N
      /\ \A p \in 1 .. m : CutAt(N, n, p - 1) = (p - 1) * n /\ CutAt(N, n, p - 1) < CutAt(N, n, p)
  <2>1. m = PieceCount(N, n)
    BY <1>0, <1>1
  <2> QED BY <2>1, CutsFacts
<1>3. PICK J : J = [p \in 1 .. m |-> {i \in CutAt(N, n, p - 1) + 1 .. CutAt(N, n, p) : KeyAt(s, b, i) \in K}]
  OBVIOUS
<1>4. ASSUME NEW p \in 1 .. m
      PROVE  /\ next[p] = Chosen(b, Ascending(J[p])) /\ (NumRows(next[p]) > 0 <=> J[p] # {})
             /\ J[p] \subseteq CutAt(N, n, p - 1) + 1 .. CutAt(N, n, p)
  <2>1. PICK lo, hi : lo = CutAt(N, n, p - 1) + 1 /\ hi = CutAt(N, n, p)
    OBVIOUS
  <2>2. /\ Pieces(b, n)[p] = Chosen(b, Run(lo, hi)) /\ IsAscending(Run(lo, hi), lo .. hi)
        /\ Run(lo, hi) \in Seq(1 .. N)
    <3>1. p \in 1 .. PieceCount(N, n)
      BY <1>0, <1>1
    <3> QED BY <1>1, <2>1, <3>1, PieceChosen
  <2>3. PICK q : q = Run(lo, hi)
    OBVIOUS
  <2>4. PICK I : I = lo .. hi
    OBVIOUS
  <2>5. q \in Seq(1 .. NumRows(b)) /\ IsAscending(q, I)
    BY <1>1, <2>2, <2>3, <2>4
  <2>6. PICK P : P = {i \in I : KeyAt(s, b, i) \in K}
    OBVIOUS
  <2>7. /\ Sifted(s, Chosen(b, q), K) = Chosen(b, Ascending(P))
        /\ IsAscending(Ascending(P), P) /\ Ascending(P) \in Seq(1 .. NumRows(b))
    BY <2>5, <2>6, ChosenSifted
  <2>8. P = J[p] /\ P \subseteq I
    BY <1>3, <2>1, <2>4, <2>6
  <2>9. next[p] = Chosen(b, Ascending(P))
    BY <1>a, <2>2, <2>3, <2>7
  <2>10. PICK r : r = Ascending(P)
    OBVIOUS
  <2>11. NumRows(next[p]) = Len(r) /\ r \in Seq(1 .. NumRows(b)) /\ Range(r) = P
    <3>1. r \in Seq(1 .. NumRows(b)) /\ Range(r) = P
      BY <2>7, <2>10 DEF IsAscending
    <3>2. NumRows(Chosen(b, r)) = Len(r)
      BY <3>1, ChosenFacts
    <3> QED BY <2>9, <2>10, <3>1, <3>2
  <2>12. Len(r) > 0 <=> P # {}
    <3>1. Len(r) \in Nat /\ DOMAIN r = 1 .. Len(r)
      BY <2>11
    <3>2. Len(r) > 0 => r[1] \in P
      BY <2>11, <3>1 DEF Range
    <3>3. P # {} => \E j \in 1 .. Len(r) : TRUE
      BY <2>11, <3>1 DEF Range
    <3> QED BY <3>1, <3>2, <3>3
  <2> QED BY <2>1, <2>4, <2>8, <2>9, <2>11, <2>12
<1>5. PICK E \in SUBSET (1 .. m) : E = {p \in 1 .. m : NumRows(next[p]) > 0}
  OBVIOUS
<1>6. PICK A : A = {i \in 1 .. N : KeyAt(s, b, i) \in K}
  OBVIOUS
<1>7. A = AllOf(J, E)
  <2>1. ASSUME NEW i \in AllOf(J, E) PROVE i \in A
    <3>1. PICK p \in 1 .. m : i \in J[p]
      BY <1>5 DEF AllOf
    <3>2. i \in CutAt(N, n, p - 1) + 1 .. CutAt(N, n, p) /\ KeyAt(s, b, i) \in K
      BY <1>3, <3>1
    <3>3. CutAt(N, n, p - 1) \in 0 .. N /\ CutAt(N, n, p) \in 0 .. N
      <4>1. p - 1 \in 0 .. m /\ p \in 0 .. m
        BY <1>2
      <4> QED BY <1>2, <4>1
    <3>4. i \in 1 .. N
      BY <3>2, <3>3
    <3> QED BY <1>6, <3>2, <3>4
  <2>2. ASSUME NEW i \in A PROVE i \in AllOf(J, E)
    <3>1. i \in 1 .. N /\ KeyAt(s, b, i) \in K
      BY <1>6
    <3>2. PICK p \in 1 .. m : CutAt(N, n, p - 1) < i /\ i <= CutAt(N, n, p)
      <4>1. m = PieceCount(N, n)
        BY <1>0, <1>1
      <4>2. \E p \in 1 .. m : /\ CutAt(N, n, p - 1) < i /\ i <= CutAt(N, n, p)
                              /\ \A j \in 1 .. p - 1 : CutAt(N, n, j) < i
        BY <3>1, <4>1, PieceOf
      <4> QED BY <4>2
    <3>3. CutAt(N, n, p - 1) \in 0 .. N /\ CutAt(N, n, p) \in 0 .. N
      <4>1. p - 1 \in 0 .. m /\ p \in 0 .. m
        BY <1>2
      <4> QED BY <1>2, <4>1
    <3>4. i \in CutAt(N, n, p - 1) + 1 .. CutAt(N, n, p)
      BY <3>1, <3>2, <3>3
    <3>5. i \in J[p]
      BY <1>3, <3>1, <3>4
    <3>6. p \in E
      BY <1>4, <1>5, <3>5
    <3> QED BY <3>5, <3>6 DEF AllOf
  <2> QED BY <2>1, <2>2
<1>8. AreParts(b, n, J, next)
  BY <1>0, <1>1, <1>4 DEF AreParts
<1>9. /\ Concatenated(s, Pick(next, Ascending(E))) = Chosen(b, Ascending(A))
      /\ IsAscending(Ascending(A), A) /\ Ascending(A) \in Seq(1 .. NumRows(b))
      /\ A \in SUBSET (1 .. NumRows(b))
  <2>1. SomePieces(b, n, E)
    BY <1>0, <1>1, <1>5 DEF SomePieces
  <2> QED BY <1>7, <1>8, <2>1, PartsTogether
<1>10. NotEmptyOf(next) = Pick(next, Ascending(E))
  <2>1. PICK xs : xs = [p \in 1 .. m |-> IF p \in E THEN <<next[p]>> ELSE <<>>]
    OBVIOUS
  <2>2. xs = [p \in DOMAIN next |-> IF NumRows(next[p]) > 0 THEN <<next[p]>> ELSE <<>>]
    BY <1>a, <1>5, <2>1
  <2>3. PICK T : T = {next[p] : p \in 1 .. m}
    OBVIOUS
  <2>4. next \in Seq(T) /\ m = Len(next)
    <3>1. next \in [1 .. m -> T]
      BY <1>a, <2>3
    <3> QED BY <1>2, <3>1, FunctionSeq
  <2>5. FlattenSeq(xs) = Pick(next, Ascending(E))
    <3>1. PickedSome(xs, next, E)
      BY <1>5, <2>1, <2>4 DEF PickedSome
    <3> QED BY <2>4, <3>1, FlatSome
  <2> QED BY <2>2, <2>5 DEF NotEmptyOf
<1> QED BY <1>1, <1>6, <1>9, <1>10 DEF Sifted

-----------------------------------------------------------------------------
(* Which rows a scan lets through.                                          *)

KeysAscend(s, b) ==
    /\ \A i \in 1 .. NumRows(b) : KeyAt(s, b, i) \in AnyKey
    /\ \A i, j \in 1 .. NumRows(b) : i < j => KeyBefore(KeyAt(s, b, i), KeyAt(s, b, j))
Passing(start, end, span) == {k \in AnyKey : Passes(k, start, end, span)}

LEMMA ChosenAscends ==
    ASSUME NEW s \in Schemas, NEW b, IsBatch(s, b), KeysAscend(s, b), NEW q \in Seq(1 .. NumRows(b)),
           NEW I, IsAscending(q, I)
    PROVE  KeysAscend(s, Chosen(b, q))
<1>1. PICK a : a = Chosen(b, q)
  OBVIOUS
<1>2. /\ NumRows(a) = Len(q)
      /\ \A j \in 1 .. Len(q) : q[j] \in 1 .. NumRows(b) /\ RowAt(s, a, j) = RowAt(s, b, q[j])
  BY <1>1, ChosenFacts
<1>3. \A j \in 1 .. NumRows(a) : q[j] \in 1 .. NumRows(b) /\ KeyAt(s, a, j) = KeyAt(s, b, q[j])
  BY <1>2 DEF RowAt
<1>4. \A i, j \in 1 .. NumRows(a) : i < j => q[i] < q[j]
  BY <1>2 DEF IsAscending
<1>5. \A j \in 1 .. NumRows(a) : KeyAt(s, a, j) \in AnyKey
  BY <1>3 DEF KeysAscend
<1>6. \A i, j \in 1 .. NumRows(a) : i < j => KeyBefore(KeyAt(s, a, i), KeyAt(s, a, j))
  BY <1>3, <1>4 DEF KeysAscend
<1> QED BY <1>1, <1>5, <1>6 DEF KeysAscend

LEMMA FilteredIs ==
    ASSUME NEW s, NEW b, KeysAscend(s, b), NEW start, NEW end, NEW span
    PROVE  Filtered(s, b, start, end, span) = Sifted(s, b, Passing(start, end, span))
<1>1. {i \in 1 .. NumRows(b) : Passes(KeyAt(s, b, i), start, end, span)}
        = {i \in 1 .. NumRows(b) : KeyAt(s, b, i) \in Passing(start, end, span)}
  BY DEF KeysAscend, Passing
<1> QED BY <1>1 DEF Filtered, Sifted, Chosen

LEMMA PassesMeans ==
    ASSUME NEW k, NEW start, NEW end, NEW span, span = None
    PROVE  Passes(k, start, end, span) <=> ~ KeyBefore(k, start) /\ ~ KeyBefore(end, k)
  BY DEF Passes, Range, None

LEMMA KeysBetween ==
    ASSUME NEW s, NEW b, KeysAscend(s, b), NEW n \in Nat \ {0}, n = NumRows(b), NEW k \in AnyKey
    PROVE  /\ KeyAt(s, b, 1) \in AnyKey /\ KeyAt(s, b, n) \in AnyKey
           /\ ~ KeyBefore(KeyAt(s, b, 1), k) => \A i \in 1 .. n : ~ KeyBefore(KeyAt(s, b, i), k)
           /\ ~ KeyBefore(k, KeyAt(s, b, n)) => \A i \in 1 .. n : ~ KeyBefore(k, KeyAt(s, b, i))
           /\ KeyBefore(KeyAt(s, b, n), k) => \A i \in 1 .. n : KeyBefore(KeyAt(s, b, i), k)
           /\ KeyBefore(k, KeyAt(s, b, 1)) => \A i \in 1 .. n : KeyBefore(k, KeyAt(s, b, i))
<1>1. 1 \in 1 .. n /\ n \in 1 .. n
  OBVIOUS
<1>2. /\ \A i \in 1 .. n : KeyAt(s, b, i) \in AnyKey
      /\ \A i, j \in 1 .. n : i < j => KeyBefore(KeyAt(s, b, i), KeyAt(s, b, j))
  BY DEF KeysAscend
<1>3. PICK f, l \in AnyKey : f = KeyAt(s, b, 1) /\ l = KeyAt(s, b, n)
  BY <1>1, <1>2
<1>4. ASSUME NEW i \in 1 .. n
      PROVE  \E m \in AnyKey : /\ m = KeyAt(s, b, i) /\ (m = f \/ KeyBefore(f, m))
                               /\ (m = l \/ KeyBefore(m, l))
  <2>1. i = 1 \/ 1 < i
    OBVIOUS
  <2>2. i = n \/ i < n
    OBVIOUS
  <2> QED BY <1>1, <1>2, <1>3, <2>1, <2>2
<1>5. \A m \in AnyKey : m = f \/ KeyBefore(f, m) => (KeyBefore(m, k) => KeyBefore(f, k))
                                                   /\ (KeyBefore(k, f) => KeyBefore(k, m))
  BY <1>3, KeysOrdered
<1>6. \A m \in AnyKey : m = l \/ KeyBefore(m, l) => (KeyBefore(k, m) => KeyBefore(k, l))
                                                   /\ (KeyBefore(l, k) => KeyBefore(m, k))
  BY <1>3, KeysOrdered
<1> QED BY <1>3, <1>4, <1>5, <1>6

LEMMA NextBatchIs ==
    ASSUME NEW s \in Schemas, NEW b, IsBatch(s, b), KeysAscend(s, b), NumRows(b) # 0,
           NEW start \in AnyKey, NEW end \in AnyKey, NEW span
    PROVE  NextBatch(s, b, start, end, span) = Sifted(s, b, Passing(start, end, span))
<1>1. PICK n \in Nat \ {0} : n = NumRows(b)
  <2>1. NumRows(b) \in Nat
    BY BatchFacts
  <2> QED BY <2>1
<1>2. PICK f, l : f = KeyAt(s, b, 1) /\ l = KeyAt(s, b, n)
  OBVIOUS
<1>3. \A k \in AnyKey :
        /\ ~ KeyBefore(f, k) => \A i \in 1 .. n : ~ KeyBefore(KeyAt(s, b, i), k)
        /\ ~ KeyBefore(k, l) => \A i \in 1 .. n : ~ KeyBefore(k, KeyAt(s, b, i))
        /\ KeyBefore(l, k) => \A i \in 1 .. n : KeyBefore(KeyAt(s, b, i), k)
        /\ KeyBefore(k, f) => \A i \in 1 .. n : KeyBefore(k, KeyAt(s, b, i))
  BY <1>1, <1>2, KeysBetween
<1>4. NextBatch(s, b, start, end, span) =
        IF span = None /\ Inside(f, l, start, end) THEN b
        ELSE IF span = None /\ (KeyBefore(l, start) \/ KeyBefore(end, f)) THEN Slice(b, 1, 0)
        ELSE Filtered(s, b, start, end, span)
  BY <1>1, <1>2 DEF NextBatch
<1>5. CASE span = None /\ Inside(f, l, start, end)
  <2>1. ~ KeyBefore(f, start) /\ ~ KeyBefore(end, l)
    BY <1>5 DEF Inside
  <2>2. \A i \in 1 .. NumRows(b) : KeyAt(s, b, i) \in Passing(start, end, span)
    <3>1. ASSUME NEW i \in 1 .. n PROVE KeyAt(s, b, i) \in Passing(start, end, span)
      <4>1. ~ KeyBefore(KeyAt(s, b, i), start) /\ ~ KeyBefore(end, KeyAt(s, b, i))
        BY <1>3, <2>1
      <4>2. KeyAt(s, b, i) \in AnyKey
        BY <1>1 DEF KeysAscend
      <4> QED BY <1>5, <4>1, <4>2, PassesMeans DEF Passing
    <3> QED BY <1>1, <3>1
  <2>3. Sifted(s, b, Passing(start, end, span)) = b
    <3>1. PICK K : K = Passing(start, end, span)
      OBVIOUS
    <3> QED BY <2>2, <3>1, SiftedAll
  <2> QED BY <1>4, <1>5, <2>3
<1>6. CASE span = None /\ ~ Inside(f, l, start, end) /\ (KeyBefore(l, start) \/ KeyBefore(end, f))
  <2>1. \A i \in 1 .. NumRows(b) : KeyAt(s, b, i) \notin Passing(start, end, span)
    <3>1. ASSUME NEW i \in 1 .. n PROVE KeyAt(s, b, i) \notin Passing(start, end, span)
      <4>1. KeyBefore(KeyAt(s, b, i), start) \/ KeyBefore(end, KeyAt(s, b, i))
        BY <1>3, <1>6
      <4> QED BY <1>6, <4>1, PassesMeans DEF Passing
    <3> QED BY <1>1, <3>1
  <2>2. Sifted(s, b, Passing(start, end, span)) = Slice(b, 1, 0)
    <3>1. PICK K : K = Passing(start, end, span)
      OBVIOUS
    <3> QED BY <2>1, <3>1, SiftedNone
  <2> QED BY <1>4, <1>6, <2>2
<1>7. CASE ~ (span = None /\ Inside(f, l, start, end))
           /\ ~ (span = None /\ (KeyBefore(l, start) \/ KeyBefore(end, f)))
  <2>1. NextBatch(s, b, start, end, span) = Filtered(s, b, start, end, span)
    BY <1>4, <1>7
  <2> QED BY <2>1, FilteredIs
<1> QED BY <1>5, <1>6, <1>7

LEMMA Extremes ==
    ASSUME NEW I \in SUBSET Int, IsFiniteSet(I), NEW x \in I
    PROVE  /\ (CHOOSE t \in I : \A u \in I : t <= u) <= x /\ (CHOOSE t \in I : \A u \in I : t <= u) \in Int
           /\ x <= (CHOOSE t \in I : \A u \in I : u <= t) /\ (CHOOSE t \in I : \A u \in I : u <= t) \in Int
<1>1. PICK q : q = Ascending(I)
  OBVIOUS
<1>2. IsAscending(q, I)
  BY <1>1, AscendingDoes
<1>3. PICK n \in Nat : n = Len(q)
  BY <1>2 DEF IsAscending
<1>4. /\ DOMAIN q = 1 .. n /\ Range(q) = I /\ \A i \in 1 .. n : q[i] \in Int
      /\ \A i, j \in 1 .. n : i < j => q[i] < q[j]
  BY <1>2, <1>3 DEF IsAscending
<1>5. \A u \in I : \E i \in 1 .. n : u = q[i]
  BY <1>4 DEF Range
<1>6. 1 \in 1 .. n /\ n \in 1 .. n
  BY <1>5
<1>7. q[1] \in I /\ q[n] \in I
  BY <1>4, <1>6 DEF Range
<1>8. \A u \in I : q[1] <= u /\ u <= q[n]
  <2>1. ASSUME NEW i \in 1 .. n PROVE q[1] <= q[i] /\ q[i] <= q[n]
    <3>1. i = 1 \/ 1 < i
      OBVIOUS
    <3>2. i = n \/ i < n
      OBVIOUS
    <3> QED BY <1>4, <1>6, <3>1, <3>2
  <2> QED BY <1>5, <2>1
<1>9. \E t \in I : \A u \in I : t <= u
  BY <1>7, <1>8
<1>10. \E t \in I : \A u \in I : u <= t
  BY <1>7, <1>8
<1>11. PICK t : t = CHOOSE v \in I : \A u \in I : v <= u
  OBVIOUS
<1>12. PICK w : w = CHOOSE v \in I : \A u \in I : u <= v
  OBVIOUS
<1>13. t \in I /\ \A u \in I : t <= u
  BY <1>9, <1>11
<1>14. w \in I /\ \A u \in I : u <= w
  BY <1>10, <1>12
<1>15. t <= x /\ t \in Int /\ x <= w /\ w \in Int
  BY <1>13, <1>14
<1> QED BY <1>11, <1>12, <1>15

LEMMA PointBounds ==
    ASSUME NEW n \in Nat, NEW marks, DOMAIN marks = 1 .. n, NEW g \in 1 .. n
    PROVE  /\ ~ marks[g] => PartitionPoint(marks) + 1 <= g
           /\ (\A i \in 1 .. g : marks[i]) => g <= PartitionPoint(marks)
           /\ PartitionPoint(marks) \in 0 .. n
<1>1. PICK q \in 1 .. n + 1 : (\A i \in 1 .. q - 1 : marks[i]) /\ (q <= n => ~ marks[q])
  <2>1. PICK I : I = {i \in 1 .. n : marks[i]}
    OBVIOUS
  <2>2. PICK q \in 1 .. n + 1 : (\A i \in 1 .. q - 1 : i \in I) /\ (q <= n => q \notin I)
    BY FirstNot
  <2>3. (\A i \in 1 .. q - 1 : marks[i]) /\ (q <= n => ~ marks[q])
    BY <2>1, <2>2
  <2> QED BY <2>2, <2>3
<1>2. PartitionPoint(marks) + 1 = q
  BY <1>1, PointAt
<1>3. PartitionPoint(marks) \in Int
  <2>1. PICK I \in SUBSET (1 .. n) : I = {i \in DOMAIN marks : \A j \in 1 .. i : marks[j]}
    OBVIOUS
  <2>2. IsFiniteSet(I)
    BY <2>1, FS_Interval, FS_Subset
  <2>3. Cardinality(I) \in Nat
    BY <2>2, FS_CardinalityType
  <2> QED BY <2>1, <2>3 DEF PartitionPoint
<1>4. PartitionPoint(marks) = q - 1
  BY <1>1, <1>2, <1>3
<1>5. ~ marks[g] => q <= g
  BY <1>1
<1>6. (\A i \in 1 .. g : marks[i]) => g < q
  BY <1>1
<1> QED BY <1>1, <1>4, <1>5, <1>6

-----------------------------------------------------------------------------
(* The row groups a scan reads.                                             *)

LEMMA GroupSpan ==
    ASSUME NEW s \in Schemas, NEW g, IsBatch(s, g),
           \A j \in 1 .. NumRows(g) : KeyAt(s, g, j) \in AnyKey, NEW i \in 1 .. NumRows(g)
    PROVE  /\ GroupMeta(s, g).min_ts <= KeyAt(s, g, i).ts /\ GroupMeta(s, g).min_ts \in Int
           /\ KeyAt(s, g, i).ts <= GroupMeta(s, g).max_ts /\ GroupMeta(s, g).max_ts \in Int
<1>1. PICK n \in Nat : n = NumRows(g)
  BY BatchFacts
<1>2. PICK I : I = {KeyAt(s, g, j).ts : j \in 1 .. n}
  OBVIOUS
<1>3. I \in SUBSET Int /\ KeyAt(s, g, i).ts \in I
  BY <1>1, <1>2 DEF AnyKey
<1>4. IsFiniteSet(I)
  <2>1. PICK f : f = [j \in 1 .. n |-> KeyAt(s, g, j).ts]
    OBVIOUS
  <2>2. f \in Seq(I) /\ Len(f) = n
    <3>1. f \in [1 .. n -> I]
      BY <1>2, <2>1
    <3> QED BY <3>1, FunctionSeq
  <2>3. IsFiniteSet(Range(f)) /\ Range(f) = {f[j] : j \in 1 .. Len(f)}
    BY <2>2, FiniteRange
  <2>4. Range(f) = I
    BY <1>2, <2>1, <2>2, <2>3
  <2> QED BY <2>3, <2>4
<1>5. PICK x \in I : x = KeyAt(s, g, i).ts
  BY <1>3
<1>6. /\ (CHOOSE t \in I : \A u \in I : t <= u) <= x /\ (CHOOSE t \in I : \A u \in I : t <= u) \in Int
      /\ x <= (CHOOSE t \in I : \A u \in I : u <= t) /\ (CHOOSE t \in I : \A u \in I : u <= t) \in Int
  BY <1>3, <1>4, Extremes
<1>7. /\ GroupMeta(s, g).min_ts = CHOOSE t \in I : \A u \in I : t <= u
      /\ GroupMeta(s, g).max_ts = CHOOSE t \in I : \A u \in I : u <= t
  BY <1>1, <1>2 DEF GroupMeta
<1> QED BY <1>5, <1>6, <1>7

\* Group by group, the keys and times of the rows.
LEMMA GroupReach ==
    ASSUME NEW s \in Schemas, NEW R, Holdable(s, R), NEW b, HoldsNewest(s, b, R), NEW seed,
           NEW N, N = NumRows(b), NEW i \in 1 .. N, NEW metas, metas = TableOf(s, b, seed).index.row_groups
    PROVE  \E g \in 1 .. PieceCount(N, GroupRows) :
              /\ i \in CutAt(N, GroupRows, g - 1) + 1 .. CutAt(N, GroupRows, g)
              /\ \E k \in AnyKey :
                    /\ k = KeyAt(s, b, i) /\ ~ KeyBefore(metas[g].max_key, k)
                    /\ \A p \in 1 .. g : metas[p].min_key \in AnyKey /\ ~ KeyBefore(k, metas[p].min_key)
                    /\ metas[g].max_key \in AnyKey
                    /\ metas[g].min_ts \in Int /\ metas[g].max_ts \in Int /\ k.ts \in Int
                    /\ metas[g].min_ts <= k.ts /\ k.ts <= metas[g].max_ts
<1> DEFINE t == TableOf(s, b, seed)
           m == PieceCount(N, GroupRows)
           cut(p) == CutAt(N, GroupRows, p)
<1>1. /\ IsBatch(s, b) /\ N \in Nat
      /\ \A j \in 1 .. N : KeyAt(s, b, j) \in AnyKey /\ KeyAt(s, b, j) \in KeysFor(s)
  BY NewestKeys
<1>2. /\ m \in Nat /\ cut(0) = 0 /\ cut(m) = N /\ \A p \in 0 .. m : cut(p) \in 0 .. N
      /\ DOMAIN t.groups = 1 .. m /\ DOMAIN t.index.row_groups = 1 .. m
      /\ Len(t.index.row_groups) = m
      /\ \A p \in 1 .. m :
           /\ cut(p - 1) < cut(p) /\ IsBatch(s, t.groups[p])
           /\ NumRows(t.groups[p]) = cut(p) - cut(p - 1)
           /\ \A j \in 1 .. cut(p) - cut(p - 1) :
                   RowAt(s, t.groups[p], j) = RowAt(s, b, cut(p - 1) + j)
           /\ t.index.row_groups[p] = GroupMeta(s, t.groups[p])
           /\ t.index.row_groups[p].min_key = KeyAt(s, b, cut(p - 1) + 1)
           /\ t.index.row_groups[p].max_key = KeyAt(s, b, cut(p))
           /\ t.index.row_groups[p].min_key \in AnyKey
           /\ t.index.row_groups[p].max_key \in AnyKey
  BY GroupFacts
<1>3. \A x, y \in 1 .. N : x < y => KeyBefore(KeyAt(s, b, x), KeyAt(s, b, y))
  BY DEF HoldsNewest
<1>4. GroupRows \in Nat \ {0}
  BY SstAssumption
<1>5. PICK g \in 1 .. m : /\ cut(g - 1) < i /\ i <= cut(g) /\ \A j \in 1 .. g - 1 : cut(j) < i
  BY <1>1, <1>4, PieceOf
<1> HIDE DEF t, m, cut
<1>6. PICK lo \in Nat, hi \in Nat : lo = cut(g - 1) /\ hi = cut(g)
  <2>1. g - 1 \in 0 .. m /\ g \in 0 .. m
    BY <1>2, <1>5
  <2>2. cut(g - 1) \in 0 .. N /\ cut(g) \in 0 .. N
    BY <1>2, <2>1
  <2>3. \A x \in 0 .. N : x \in Nat
    BY <1>1
  <2> QED BY <2>2, <2>3
<1>7. lo < i /\ i <= hi /\ hi <= N /\ i \in lo + 1 .. hi /\ hi \in 1 .. N
  <2>1. g \in 0 .. m
    BY <1>2, <1>5
  <2>2. cut(g) \in 0 .. N
    BY <1>2, <2>1
  <2> QED BY <1>1, <1>5, <1>6, <2>2
<1>8. PICK k \in AnyKey : k = KeyAt(s, b, i)
  BY <1>1
<1>9. metas[g].max_key \in AnyKey /\ ~ KeyBefore(metas[g].max_key, k)
  <2>1. PICK l \in AnyKey : l = metas[g].max_key /\ l = KeyAt(s, b, hi)
    BY <1>2, <1>5, <1>6 DEF t
  <2>2. i = hi \/ i < hi
    BY <1>7
  <2>3. k = l \/ KeyBefore(k, l)
    BY <1>3, <1>7, <1>8, <2>1, <2>2
  <2> QED BY <2>1, <2>3, KeysOrdered
<1>10. ASSUME NEW p \in 1 .. g PROVE metas[p].min_key \in AnyKey /\ ~ KeyBefore(k, metas[p].min_key)
  <2>1. p \in 1 .. m /\ p \in 1 .. g /\ p - 1 \in 0 .. m
    BY <1>2, <1>5
  <2>2. PICK x \in Nat : x = cut(p - 1) /\ x < i
    <3>1. cut(p - 1) \in 0 .. N
      BY <1>2, <2>1
    <3>2. CASE p = g
      BY <1>6, <1>7, <3>2
    <3>3. CASE p # g /\ p # 1
      <4>1. p - 1 \in 1 .. g - 1
        BY <2>1, <3>3
      <4>2. cut(p - 1) < i
        BY <1>5, <4>1
      <4>3. cut(p - 1) \in Nat
        BY <1>1, <3>1
      <4> QED BY <4>2, <4>3
    <3>4. CASE p = 1
      <4>1. cut(p - 1) = 0
        BY <1>2, <3>4
      <4> QED BY <4>1
    <3> QED BY <3>2, <3>3, <3>4
  <2>3. x + 1 \in 1 .. N /\ (x + 1 = i \/ x + 1 < i)
    BY <1>1, <2>2
  <2>4. PICK l \in AnyKey : l = metas[p].min_key /\ l = KeyAt(s, b, x + 1)
    BY <1>2, <2>1, <2>2 DEF t
  <2>5. l = k \/ KeyBefore(l, k)
    BY <1>3, <1>8, <2>3, <2>4
  <2> QED BY <2>4, <2>5, KeysOrdered
<1>11. PICK G : G = t.groups[g]
  OBVIOUS
<1>12. /\ IsBatch(s, G) /\ NumRows(G) = hi - lo /\ metas[g] = GroupMeta(s, G)
       /\ \A j \in 1 .. hi - lo : KeyAt(s, G, j) = KeyAt(s, b, lo + j)
  <2>1. /\ IsBatch(s, G) /\ NumRows(G) = hi - lo /\ metas[g] = GroupMeta(s, G)
        /\ \A j \in 1 .. hi - lo : RowAt(s, G, j) = RowAt(s, b, lo + j)
    BY <1>2, <1>5, <1>6, <1>11 DEF t
  <2> QED BY <2>1 DEF RowAt
<1>13. PICK j \in 1 .. hi - lo : i = lo + j
  BY <1>7
<1>14. \A x \in 1 .. NumRows(G) : KeyAt(s, G, x) \in AnyKey
  <2>1. ASSUME NEW x \in 1 .. hi - lo PROVE KeyAt(s, G, x) \in AnyKey
    <3>0. N \in Nat
      BY <1>1
    <3>1. lo + x \in 1 .. N
      BY <1>7, <3>0
    <3> QED BY <1>1, <1>12, <3>1
  <2> QED BY <1>12, <2>1
<1>15. /\ GroupMeta(s, G).min_ts <= KeyAt(s, G, j).ts /\ GroupMeta(s, G).min_ts \in Int
       /\ KeyAt(s, G, j).ts <= GroupMeta(s, G).max_ts /\ GroupMeta(s, G).max_ts \in Int
  <2>1. j \in 1 .. NumRows(G)
    BY <1>12, <1>13
  <2> QED BY <1>12, <1>14, <2>1, GroupSpan
<1>16. KeyAt(s, G, j) = k
  BY <1>8, <1>12, <1>13
<1>17. k.ts \in Int
  BY <1>8 DEF AnyKey
<1>18. /\ metas[g].min_ts \in Int /\ metas[g].max_ts \in Int
       /\ metas[g].min_ts <= k.ts /\ k.ts <= metas[g].max_ts
  BY <1>12, <1>15, <1>16
<1>19. g \in 1 .. PieceCount(N, GroupRows)
       /\ i \in CutAt(N, GroupRows, g - 1) + 1 .. CutAt(N, GroupRows, g)
  BY <1>5, <1>6, <1>7 DEF m, cut
<1> QED BY <1>8, <1>9, <1>10, <1>17, <1>18, <1>19

TimesOf(span) == \A r \in Range(span) : r.low \in Int /\ r.high \in Int

\* No row a scan is to find is in a row group it skips.
LEMMA SelectedReach ==
    ASSUME NEW s \in Schemas, NEW R, Holdable(s, R), NEW b, HoldsNewest(s, b, R), NEW seed,
           NEW N, N = NumRows(b), NEW metas, metas = TableOf(s, b, seed).index.row_groups,
           NEW start \in AnyKey, NEW end \in AnyKey, NEW span, TimesOf(span)
    PROVE  \E E : /\ E \subseteq 1 .. PieceCount(N, GroupRows)
                  /\ SelectRowGroups(metas, start, end, span) = Ascending(E)
                  /\ \A i \in 1 .. N : KeyAt(s, b, i) \in Passing(start, end, span) =>
                        \E g \in E : i \in CutAt(N, GroupRows, g - 1) + 1 .. CutAt(N, GroupRows, g)
<1>1. PICK m : m = PieceCount(N, GroupRows)
  OBVIOUS
<1>2. m \in Nat /\ DOMAIN metas = 1 .. m
  <2>1. LET t == TableOf(s, b, seed)
            M == NumRows(b)
            k == PieceCount(M, GroupRows)
            cut(p) == CutAt(M, GroupRows, p)
        IN  /\ k \in Nat /\ cut(0) = 0 /\ cut(k) = M /\ \A p \in 0 .. k : cut(p) \in 0 .. M
            /\ DOMAIN t.groups = 1 .. k /\ DOMAIN t.index.row_groups = 1 .. k
            /\ Len(t.index.row_groups) = k
            /\ \A p \in 1 .. k :
                 /\ cut(p - 1) < cut(p) /\ IsBatch(s, t.groups[p])
                 /\ NumRows(t.groups[p]) = cut(p) - cut(p - 1)
                 /\ \A j \in 1 .. cut(p) - cut(p - 1) :
                         RowAt(s, t.groups[p], j) = RowAt(s, b, cut(p - 1) + j)
                 /\ t.index.row_groups[p] = GroupMeta(s, t.groups[p])
                 /\ t.index.row_groups[p].min_key = KeyAt(s, b, cut(p - 1) + 1)
                 /\ t.index.row_groups[p].max_key = KeyAt(s, b, cut(p))
                 /\ t.index.row_groups[p].min_key \in AnyKey
                 /\ t.index.row_groups[p].max_key \in AnyKey
    BY GroupFacts
  <2> QED BY <1>1, <2>1
<1>3. PICK below, upto : /\ below = [g \in DOMAIN metas |-> KeyBefore(metas[g].max_key, start)]
                         /\ upto = [g \in DOMAIN metas |-> ~ KeyBefore(end, metas[g].min_key)]
  OBVIOUS
<1>4. PICK first, last : first = PartitionPoint(below) /\ last = PartitionPoint(upto)
  OBVIOUS
<1>5. PICK E : E = {i \in DOMAIN metas :
                        /\ first + 1 <= i /\ i <= (IF last = 0 THEN 1 ELSE last)
                        /\ \A r \in Range(span) : ~(metas[i].max_ts < r.low \/ metas[i].min_ts > r.high)}
  OBVIOUS
<1>6. SelectRowGroups(metas, start, end, span) = Ascending(E)
  BY <1>3, <1>4, <1>5 DEF SelectRowGroups
<1>7. ASSUME NEW i \in 1 .. N, KeyAt(s, b, i) \in Passing(start, end, span)
      PROVE  \E g \in E : i \in CutAt(N, GroupRows, g - 1) + 1 .. CutAt(N, GroupRows, g)
  <2>1. PICK g \in 1 .. m :
            /\ i \in CutAt(N, GroupRows, g - 1) + 1 .. CutAt(N, GroupRows, g)
            /\ \E k \in AnyKey :
                  /\ k = KeyAt(s, b, i) /\ ~ KeyBefore(metas[g].max_key, k)
                  /\ \A p \in 1 .. g : metas[p].min_key \in AnyKey /\ ~ KeyBefore(k, metas[p].min_key)
                  /\ metas[g].max_key \in AnyKey
                  /\ metas[g].min_ts \in Int /\ metas[g].max_ts \in Int /\ k.ts \in Int
                  /\ metas[g].min_ts <= k.ts /\ k.ts <= metas[g].max_ts
    BY <1>1, GroupReach
  <2>2. PICK k \in AnyKey :
            /\ k = KeyAt(s, b, i) /\ ~ KeyBefore(metas[g].max_key, k)
            /\ \A p \in 1 .. g : metas[p].min_key \in AnyKey /\ ~ KeyBefore(k, metas[p].min_key)
            /\ metas[g].max_key \in AnyKey
            /\ metas[g].min_ts \in Int /\ metas[g].max_ts \in Int /\ k.ts \in Int
            /\ metas[g].min_ts <= k.ts /\ k.ts <= metas[g].max_ts
    BY <2>1
  <2>3. /\ ~ KeyBefore(k, start) /\ ~ KeyBefore(end, k)
        /\ \A r \in Range(span) : r.low <= k.ts /\ k.ts <= r.high
    BY <1>7, <2>2 DEF Passing, Passes
  <2>4. ~ below[g]
    <3>1. below[g] = KeyBefore(metas[g].max_key, start)
      BY <1>2, <1>3, <2>1
    <3>2. ~ KeyBefore(metas[g].max_key, start)
      <4>1. PICK l \in AnyKey : l = metas[g].max_key
        BY <2>2
      <4>2. k = l \/ KeyBefore(k, l)
        BY <2>2, <4>1, KeysOrdered
      <4> QED BY <2>3, <4>1, <4>2, KeysOrdered
    <3> QED BY <3>1, <3>2
  <2>5. \A p \in 1 .. g : upto[p]
    <3>1. ASSUME NEW p \in 1 .. g PROVE upto[p]
      <4>1. p \in 1 .. m
        BY <1>2, <2>1
      <4>2. upto[p] = ~ KeyBefore(end, metas[p].min_key)
        BY <1>2, <1>3, <4>1
      <4>3. PICK l \in AnyKey : l = metas[p].min_key /\ ~ KeyBefore(k, l)
        BY <2>2
      <4>4. k = l \/ KeyBefore(l, k)
        BY <4>3, KeysOrdered
      <4>5. ~ KeyBefore(end, l)
        BY <2>3, <4>4, KeysOrdered
      <4> QED BY <4>2, <4>3, <4>5
    <3> QED BY <3>1
  <2>6. first + 1 <= g
    <3>1. DOMAIN below = 1 .. m
      BY <1>2, <1>3
    <3> QED BY <1>2, <1>4, <2>1, <2>4, <3>1, PointBounds
  <2>7. g <= last /\ last \in 0 .. m
    <3>1. DOMAIN upto = 1 .. m
      BY <1>2, <1>3
    <3> QED BY <1>2, <1>4, <2>1, <2>5, <3>1, PointBounds
  <2>8. g <= (IF last = 0 THEN 1 ELSE last)
    BY <1>2, <2>1, <2>7
  <2>9. \A r \in Range(span) : ~(metas[g].max_ts < r.low \/ metas[g].min_ts > r.high)
    <3>1. ASSUME NEW r \in Range(span) PROVE ~(metas[g].max_ts < r.low \/ metas[g].min_ts > r.high)
      <4>1. PICK x \in Int, y \in Int : x = r.low /\ y = r.high
        BY DEF TimesOf
      <4>2. PICK w \in Int, z \in Int, ts \in Int : w = metas[g].min_ts /\ z = metas[g].max_ts /\ ts = k.ts
        BY <2>2
      <4>3. x <= ts /\ ts <= y /\ w <= ts /\ ts <= z
        BY <2>2, <2>3, <4>1, <4>2
      <4>4. ~ (z < x \/ w > y)
        BY <4>3
      <4> QED BY <4>1, <4>2, <4>4
    <3> QED BY <3>1
  <2>10. g \in E
    BY <1>2, <1>5, <2>1, <2>6, <2>8, <2>9
  <2> QED BY <2>1, <2>10
<1>8. E \subseteq 1 .. m
  BY <1>2, <1>5
<1> QED BY <1>1, <1>6, <1>7, <1>8

\* The rows of the groups read: some of the file's, in order.
LEMMA ReadRows ==
    ASSUME NEW s \in Schemas, NEW R, Holdable(s, R), NEW b, HoldsNewest(s, b, R), NEW seed,
           NEW N, N = NumRows(b), NEW t, t = TableOf(s, b, seed),
           NEW start \in AnyKey, NEW end \in AnyKey, NEW span, TimesOf(span)
    PROVE  \E q, I : /\ IsAscending(q, I) /\ q \in Seq(1 .. N) /\ I \subseteq 1 .. N
                     /\ Concatenated(s, Pick(t.groups, SelectRowGroups(t.index.row_groups, start, end, span)))
                            = Chosen(b, q)
                     /\ \A i \in 1 .. N : KeyAt(s, b, i) \in Passing(start, end, span) => i \in I
<1>1. IsBatch(s, b)
  BY DEF HoldsNewest
<1>2. PICK metas : metas = t.index.row_groups /\ t.groups = Pieces(b, GroupRows)
  BY DEF TableOf
<1>3. PICK K : K = Passing(start, end, span)
  OBVIOUS
<1>4. PICK E : /\ E \subseteq 1 .. PieceCount(N, GroupRows)
               /\ SelectRowGroups(metas, start, end, span) = Ascending(E)
               /\ \A i \in 1 .. N : KeyAt(s, b, i) \in K =>
                     \E g \in E : i \in CutAt(N, GroupRows, g - 1) + 1 .. CutAt(N, GroupRows, g)
  <2>1. metas = TableOf(s, b, seed).index.row_groups
    BY <1>2
  <2> QED BY <1>3, <2>1, SelectedReach
<1>5. PICK J : J = [p \in 1 .. PieceCount(N, GroupRows) |->
                        CutAt(N, GroupRows, p - 1) + 1 .. CutAt(N, GroupRows, p)]
  OBVIOUS
<1>6. PICK G : G = Pieces(b, GroupRows)
  OBVIOUS
<1>7. AreParts(b, GroupRows, J, G)
  <2>1. ASSUME NEW p \in 1 .. PieceCount(N, GroupRows)
        PROVE  /\ J[p] = CutAt(N, GroupRows, p - 1) + 1 .. CutAt(N, GroupRows, p)
               /\ G[p] = Chosen(b, Ascending(J[p]))
    <3>1. PICK lo, hi : lo = CutAt(N, GroupRows, p - 1) + 1 /\ hi = CutAt(N, GroupRows, p)
      OBVIOUS
    <3>2. Pieces(b, GroupRows)[p] = Chosen(b, Run(lo, hi)) /\ Run(lo, hi) = Ascending(lo .. hi)
      BY <1>1, <3>1, SstAssumption, PieceChosen
    <3> QED BY <1>5, <1>6, <3>1, <3>2
  <2> QED BY <2>1 DEF AreParts
<1>8. PICK A : A = AllOf(J, E)
  OBVIOUS
<1>9. /\ Concatenated(s, Pick(G, Ascending(E))) = Chosen(b, Ascending(A))
      /\ IsAscending(Ascending(A), A) /\ Ascending(A) \in Seq(1 .. NumRows(b))
      /\ A \in SUBSET (1 .. NumRows(b))
  <2>1. SomePieces(b, GroupRows, E)
    BY <1>4 DEF SomePieces
  <2>2. GroupRows \in Nat \ {0}
    BY SstAssumption
  <2> QED BY <1>1, <1>7, <1>8, <2>1, <2>2, PartsTogether
<1>10. ASSUME NEW i \in 1 .. N, KeyAt(s, b, i) \in K PROVE i \in A
  <2>1. PICK g \in E : i \in CutAt(N, GroupRows, g - 1) + 1 .. CutAt(N, GroupRows, g)
    BY <1>4, <1>10
  <2>2. g \in 1 .. PieceCount(N, GroupRows)
    BY <1>4, <2>1
  <2>3. i \in J[g]
    BY <1>5, <2>1, <2>2
  <2> QED BY <1>8, <2>1, <2>3 DEF AllOf
<1> QED BY <1>2, <1>3, <1>4, <1>6, <1>9, <1>10

-----------------------------------------------------------------------------
(* What a scan of all columns hands out.                                    *)

LEMMA EmptyPicked == Ascending({}) = <<>> /\ (\A x : Pick(x, <<>>) = <<>>) /\ IsAscending(<<>>, {})
<1>1. Cardinality({}) = 0
  BY FS_EmptySet
<1>2. Ascending({}) = <<>>
  BY <1>1 DEF Ascending
<1>3. \A x : Pick(x, <<>>) = <<>>
  BY DEF Pick
<1>4. IsAscending(<<>>, {})
  BY DEF IsAscending, Range
<1> QED BY <1>2, <1>3, <1>4

LEMMA NothingTogether ==
    ASSUME NEW s \in Schemas, NEW b, IsBatch(s, b), NEW K,
           \A i \in 1 .. NumRows(b) : KeyAt(s, b, i) \notin K
    PROVE  Concatenated(s, <<>>) = Sifted(s, b, K)
<1>1. PICK J, E : J = <<>> /\ E = {}
  OBVIOUS
<1>2. PICK A : A = AllOf(J, E)
  OBVIOUS
<1>3. A = {}
  BY <1>1, <1>2 DEF AllOf
<1>4. PICK J1 : J1 = [p \in 1 .. PieceCount(NumRows(b), 1) |-> {}]
  OBVIOUS
<1>5. PICK bs : bs = [p \in 1 .. PieceCount(NumRows(b), 1) |-> Chosen(b, Ascending({}))]
  OBVIOUS
<1>6. AreParts(b, 1, J1, bs)
  BY <1>4, <1>5 DEF AreParts
<1>7. SomePieces(b, 1, E)
  BY <1>1 DEF SomePieces
<1>8. A = AllOf(J1, E)
  BY <1>1, <1>3 DEF AllOf
<1>9. /\ Concatenated(s, Pick(bs, Ascending(E))) = Chosen(b, Ascending(A))
      /\ IsAscending(Ascending(A), A) /\ Ascending(A) \in Seq(1 .. NumRows(b))
      /\ A \in SUBSET (1 .. NumRows(b))
  <2>1. 1 \in Nat \ {0}
    OBVIOUS
  <2> QED BY <1>6, <1>7, <1>8, <2>1, PartsTogether
<1>10. {i \in 1 .. NumRows(b) : KeyAt(s, b, i) \in K} = {}
  OBVIOUS
<1>11. Sifted(s, b, K) = Chosen(b, Ascending({}))
  BY <1>10 DEF Sifted
<1> QED BY <1>1, <1>3, <1>9, <1>11, EmptyPicked

\* Piece by piece, what is handed out of the rows read is what passes.
LEMMA PiecesScanned ==
    ASSUME NEW s \in Schemas, NEW C, IsBatch(s, C), KeysAscend(s, C), NEW n \in Nat \ {0},
           NEW start \in AnyKey, NEW end \in AnyKey, NEW span, NEW K, K = Passing(start, end, span),
           NEW full \in BOOLEAN, full => \A i \in 1 .. NumRows(C) : KeyAt(s, C, i) \in K,
           NEW next, next = [p \in DOMAIN Pieces(C, n) |->
                                IF full THEN Pieces(C, n)[p]
                                ELSE NextBatch(s, Pieces(C, n)[p], start, end, span)]
    PROVE  Concatenated(s, NotEmptyOf(next)) = Sifted(s, C, K)
<1>1. PICK N \in Nat : N = NumRows(C)
  BY BatchFacts
<1>2. PICK m : m = PieceCount(N, n)
  OBVIOUS
<1>3. PICK bs : bs = Pieces(C, n)
  OBVIOUS
<1>4. DOMAIN bs = 1 .. m /\ \A p \in 1 .. m : IsBatch(s, bs[p]) /\ NumRows(bs[p]) # 0
  <2>1. LET M == NumRows(C)
            k == PieceCount(M, n)
            cs == Pieces(C, n)
        IN  /\ DOMAIN cs = 1 .. k /\ Len(cs) = k /\ AreBatches(s, cs)
            /\ k \in Nat /\ CutAt(M, n, 0) = 0 /\ CutAt(M, n, k) = M
            /\ \A p \in 0 .. k : CutAt(M, n, p) \in 0 .. M
            /\ \A p \in 1 .. k :
                 /\ CutAt(M, n, p - 1) < CutAt(M, n, p) /\ IsBatch(s, cs[p])
                 /\ cs[p] = Slice(C, CutAt(M, n, p - 1) + 1, CutAt(M, n, p))
                 /\ NumRows(cs[p]) = CutAt(M, n, p) - CutAt(M, n, p - 1)
                 /\ \A k1 \in 1 .. NumRows(cs[p]) :
                     RowAt(s, cs[p], k1) = RowAt(s, C, CutAt(M, n, p - 1) + k1)
    BY PiecesFacts
  <2>2. DOMAIN bs = 1 .. m
    BY <1>1, <1>2, <1>3, <2>1
  <2>3. ASSUME NEW p \in 1 .. m PROVE IsBatch(s, bs[p]) /\ NumRows(bs[p]) # 0
    <3>1. /\ p - 1 \in 0 .. m /\ p \in 0 .. m
      BY <1>1, <1>2, <2>1
    <3>2. /\ CutAt(N, n, p - 1) \in 0 .. N /\ CutAt(N, n, p) \in 0 .. N
          /\ CutAt(N, n, p - 1) < CutAt(N, n, p) /\ IsBatch(s, bs[p])
          /\ NumRows(bs[p]) = CutAt(N, n, p) - CutAt(N, n, p - 1)
      BY <1>1, <1>2, <1>3, <2>1, <3>1
    <3> QED BY <3>2
  <2> QED BY <2>2, <2>3
<1>5. ASSUME NEW p \in 1 .. m
      PROVE  KeysAscend(s, bs[p]) /\ (full => \A i \in 1 .. NumRows(bs[p]) : KeyAt(s, bs[p], i) \in K)
  <2>1. PICK lo, hi : lo = CutAt(N, n, p - 1) + 1 /\ hi = CutAt(N, n, p)
    OBVIOUS
  <2>2. PICK q : q = Run(lo, hi)
    OBVIOUS
  <2>3. PICK I : I = lo .. hi
    OBVIOUS
  <2>4. bs[p] = Chosen(C, q) /\ IsAscending(q, I) /\ q \in Seq(1 .. N)
    <3>1. p \in 1 .. PieceCount(N, n)
      BY <1>2
    <3>2. /\ Pieces(C, n)[p] = Chosen(C, Run(lo, hi)) /\ IsAscending(Run(lo, hi), lo .. hi)
          /\ Run(lo, hi) \in Seq(1 .. N)
      BY <1>1, <2>1, <3>1, PieceChosen
    <3> QED BY <1>3, <2>2, <2>3, <3>2
  <2>5. KeysAscend(s, Chosen(C, q))
    BY <1>1, <2>4, ChosenAscends
  <2>6. ASSUME full, NEW i \in 1 .. NumRows(bs[p]) PROVE KeyAt(s, bs[p], i) \in K
    <3>1. q \in Seq(1 .. NumRows(C))
      BY <1>1, <2>4
    <3>2. /\ NumRows(Chosen(C, q)) = Len(q)
          /\ \A j \in 1 .. Len(q) : q[j] \in 1 .. NumRows(C) /\ RowAt(s, Chosen(C, q), j) = RowAt(s, C, q[j])
      BY <3>1, ChosenFacts
    <3>3. q[i] \in 1 .. NumRows(C) /\ RowAt(s, bs[p], i) = RowAt(s, C, q[i])
      BY <2>4, <2>6, <3>2
    <3>4. KeyAt(s, bs[p], i) = KeyAt(s, C, q[i])
      BY <3>3 DEF RowAt
    <3> QED BY <2>6, <3>3, <3>4
  <2> QED BY <2>4, <2>5, <2>6
<1>6. \A p \in 1 .. m : next[p] = Sifted(s, bs[p], K)
  <2>1. ASSUME NEW p \in 1 .. m PROVE next[p] = Sifted(s, bs[p], K)
    <3>1. PICK a : a = bs[p]
      OBVIOUS
    <3>2. IsBatch(s, a) /\ NumRows(a) # 0 /\ KeysAscend(s, a)
      BY <1>4, <1>5, <3>1
    <3>3. CASE full
      <4>1. next[p] = a
        BY <1>3, <1>4, <3>1, <3>3
      <4>2. \A i \in 1 .. NumRows(a) : KeyAt(s, a, i) \in K
        BY <1>5, <3>1, <3>3
      <4>3. Sifted(s, a, K) = a
        BY <3>2, <4>2, SiftedAll
      <4> QED BY <3>1, <4>1, <4>3
    <3>4. CASE ~ full
      <4>1. next[p] = NextBatch(s, a, start, end, span)
        BY <1>3, <1>4, <3>1, <3>4
      <4>2. NextBatch(s, a, start, end, span) = Sifted(s, a, Passing(start, end, span))
        BY <3>2, NextBatchIs
      <4> QED BY <3>1, <4>1, <4>2
    <3> QED BY <3>3, <3>4
  <2> QED BY <2>1
<1>7. DOMAIN next = 1 .. m /\ next = [p \in 1 .. m |-> next[p]]
  BY <1>3, <1>4
<1>8. m = PieceCount(NumRows(C), n) /\ \A p \in 1 .. m : next[p] = Sifted(s, Pieces(C, n)[p], K)
  BY <1>1, <1>2, <1>3, <1>6
<1>9. AreSifted(s, C, n, K, next)
  BY <1>7, <1>8 DEF AreSifted
<1> QED BY <1>9, SiftedPieces

LEMMA AllWanted ==
    ASSUME NEW s \in Schemas, NEW user, user = [c \in DOMAIN s.columns |-> c]
    PROVE  Len(Wanted(s, user)) = Len(s.columns)
<1>1. /\ Len(s.columns) \in Nat /\ DOMAIN s.columns = 1 .. Len(s.columns)
      /\ s.primary_key \in Seq(DOMAIN s.columns) /\ s.time_index \in DOMAIN s.columns
  BY SchemaFacts
<1>0. PICK n \in Nat : n = Len(s.columns)
  BY <1>1
<1>2. PICK D : n \in Nat /\ n = Len(s.columns) /\ D = 1 .. n
  BY <1>0
<1>3. PICK P, z : P = s.primary_key /\ z = <<s.time_index>>
  OBVIOUS
<1>4. user \in Seq(D) /\ Len(user) = n /\ \A c \in D : user[c] = c
  <2>1. user \in [1 .. n -> D]
    BY <1>1, <1>2
  <2>2. user \in Seq(D) /\ Len(user) = n
    BY <2>1, FunctionSeq
  <2> QED BY <1>1, <1>2, <2>2
<1>5. P \in Seq(D) /\ z \in Seq(D)
  BY <1>1, <1>2, <1>3
<1>6. PICK y : y = user \o P \o z
  OBVIOUS
<1>7. y \in Seq(D) /\ \A c \in D : c \in 1 .. Len(y) /\ y[c] = c
  <2>1. PICK x : x = user \o P
    OBVIOUS
  <2>2. /\ x \in Seq(D) /\ Len(user) \in Nat /\ Len(P) \in Nat /\ Len(x) = Len(user) + Len(P)
        /\ \A i \in 1 .. Len(user) : x[i] = user[i]
    BY <1>4, <1>5, <2>1, Joined
  <2>3. /\ y \in Seq(D) /\ Len(x) \in Nat /\ Len(z) \in Nat /\ Len(y) = Len(x) + Len(z)
        /\ \A i \in 1 .. Len(x) : y[i] = x[i]
    BY <1>5, <1>6, <2>1, <2>2, Joined
  <2>4. Len(user) <= Len(x) /\ Len(x) <= Len(y)
    BY <2>2, <2>3
  <2>5. ASSUME NEW c \in D PROVE c \in 1 .. Len(y) /\ y[c] = c
    <3>1. c \in 1 .. Len(user)
      BY <1>2, <1>4
    <3>2. c \in 1 .. Len(x) /\ c \in 1 .. Len(y)
      BY <2>2, <2>3, <2>4, <3>1
    <3> QED BY <1>4, <2>2, <2>3, <3>1, <3>2
  <2> QED BY <2>3, <2>5
<1>8. Range(y) = D
  <2>1. DOMAIN y = 1 .. Len(y) /\ \A i \in DOMAIN y : y[i] \in D
    BY <1>7
  <2> QED BY <1>7, <2>1 DEF Range
<1>9. Wanted(s, user) = Ascending(1 .. n)
  BY <1>2, <1>3, <1>6, <1>8 DEF Wanted, InFileOrder
<1>10. Cardinality(1 .. n) = n
  BY IdentityArranges
<1>11. Ascending(1 .. n) \in Seq(Int) /\ Len(Ascending(1 .. n)) = n
  <2>1. IsFiniteSet(1 .. n) /\ 1 .. n \in SUBSET Int
    BY FS_Interval
  <2>2. PICK I \in SUBSET Int : I = 1 .. n
    BY <2>1
  <2>3. Ascending(I) \in Seq(I) /\ Len(Ascending(I)) = Cardinality(I)
    BY <2>1, <2>2, AscendingFacts
  <2>4. \A v \in I : v \in Int
    OBVIOUS
  <2>5. Ascending(I) \in Seq(Int)
    BY <2>3, <2>4, SeqWithin
  <2> QED BY <1>10, <2>2, <2>3, <2>5
<1> QED BY <1>2, <1>9, <1>11

\* The first and the last key of a file.
LEMMA FileEnds ==
    ASSUME NEW s \in Schemas, NEW R, Holdable(s, R), NEW b, HoldsNewest(s, b, R), NEW seed,
           NEW N, N = NumRows(b), NEW metas, metas = TableOf(s, b, seed).index.row_groups
    PROVE  /\ N \in Nat /\ IsBatch(s, b) /\ KeysAscend(s, b)
           /\ metas = <<>> => N = 0
           /\ metas # <<>> => N # 0 /\ metas[1].min_key = KeyAt(s, b, 1)
                              /\ metas[Len(metas)].max_key = KeyAt(s, b, N)
<1> DEFINE t == TableOf(s, b, seed)
           m == PieceCount(N, GroupRows)
           cut(p) == CutAt(N, GroupRows, p)
<1>1. /\ IsBatch(s, b) /\ N \in Nat
      /\ \A j \in 1 .. N : KeyAt(s, b, j) \in AnyKey /\ KeyAt(s, b, j) \in KeysFor(s)
  BY NewestKeys
<1>2. /\ m \in Nat /\ cut(0) = 0 /\ cut(m) = N /\ \A p \in 0 .. m : cut(p) \in 0 .. N
      /\ DOMAIN t.groups = 1 .. m /\ DOMAIN t.index.row_groups = 1 .. m
      /\ Len(t.index.row_groups) = m
      /\ \A p \in 1 .. m :
           /\ cut(p - 1) < cut(p) /\ IsBatch(s, t.groups[p])
           /\ NumRows(t.groups[p]) = cut(p) - cut(p - 1)
           /\ \A j \in 1 .. cut(p) - cut(p - 1) :
                   RowAt(s, t.groups[p], j) = RowAt(s, b, cut(p - 1) + j)
           /\ t.index.row_groups[p] = GroupMeta(s, t.groups[p])
           /\ t.index.row_groups[p].min_key = KeyAt(s, b, cut(p - 1) + 1)
           /\ t.index.row_groups[p].max_key = KeyAt(s, b, cut(p))
           /\ t.index.row_groups[p].min_key \in AnyKey
           /\ t.index.row_groups[p].max_key \in AnyKey
  BY GroupFacts
<1>3. \A x, y \in 1 .. N : x < y => KeyBefore(KeyAt(s, b, x), KeyAt(s, b, y))
  BY DEF HoldsNewest
<1>4. metas = [g \in DOMAIN metas |-> metas[g]]
  BY DEF TableOf
<1> HIDE DEF t, m, cut
<1>5. DOMAIN metas = 1 .. m /\ Len(metas) = m
  BY <1>2 DEF t
<1>6. CASE metas = <<>>
  <2>1. m = 0
    BY <1>5, <1>6
  <2>2. N = 0
    BY <1>2, <2>1
  <2> QED BY <1>1, <1>3, <1>6, <2>2 DEF KeysAscend
<1>7. CASE metas # <<>>
  <2>1. m # 0
    <3>1. ASSUME m = 0 PROVE FALSE
      <4>1. DOMAIN metas = {}
        BY <1>5, <3>1
      <4>2. metas = <<>>
        BY <1>4, <4>1
      <4> QED BY <1>7, <4>2
    <3> QED BY <3>1
  <2>2. 1 \in 1 .. m /\ m \in 1 .. m /\ 1 - 1 = 0
    BY <1>2, <2>1
  <2>3. metas[1].min_key = KeyAt(s, b, 1) /\ metas[m].max_key = KeyAt(s, b, N)
    <3>1. metas[1].min_key = KeyAt(s, b, cut(1 - 1) + 1) /\ metas[m].max_key = KeyAt(s, b, cut(m))
      BY <1>2, <2>2 DEF t
    <3>2. cut(1 - 1) + 1 = 1
      BY <1>2, <2>2
    <3> QED BY <1>2, <3>1, <3>2
  <2>4. N # 0
    <3>1. cut(m - 1) < cut(m) /\ m - 1 \in 0 .. m
      BY <1>2, <2>2
    <3>2. cut(m - 1) \in 0 .. N
      BY <1>2, <3>1
    <3> QED BY <1>1, <1>2, <3>1, <3>2
  <2> QED BY <1>1, <1>3, <1>5, <1>7, <2>3, <2>4 DEF KeysAscend
<1> QED BY <1>6, <1>7

LEMMA ScanGives ==
    ASSUME NEW s \in Schemas, NEW R, Holdable(s, R), NEW b, HoldsNewest(s, b, R), NEW seed,
           NEW t, t = TableOf(s, b, seed), NEW start \in AnyKey, NEW end \in AnyKey, ~ KeyBefore(end, start),
           NEW span, TimesOf(span), NEW n \in Nat \ {0}, NEW user, user = [c \in DOMAIN s.columns |-> c]
    PROVE  Concatenated(s, ScanBatches(s, t, start, end, span, user, n)) = Filtered(s, b, start, end, span)
<1>1. PICK N : N = NumRows(b)
  OBVIOUS
<1>2. PICK metas : metas = t.index.row_groups
  OBVIOUS
<1>3. /\ N \in Nat /\ IsBatch(s, b) /\ KeysAscend(s, b)
      /\ metas = <<>> => N = 0
      /\ metas # <<>> => N # 0 /\ metas[1].min_key = KeyAt(s, b, 1)
                         /\ metas[Len(metas)].max_key = KeyAt(s, b, N)
  <2>1. metas = TableOf(s, b, seed).index.row_groups
    BY <1>2
  <2> QED BY <1>1, <2>1, FileEnds
<1>4. PICK K : K = Passing(start, end, span)
  OBVIOUS
<1>5. Filtered(s, b, start, end, span) = Sifted(s, b, K)
  BY <1>3, <1>4, FilteredIs
<1>6. PICK min, max : min = metas[1].min_key /\ max = metas[Len(metas)].max_key
  OBVIOUS
<1>7. PICK C : C = Concatenated(s, Pick(t.groups, SelectRowGroups(metas, start, end, span)))
  OBVIOUS
<1>8. PICK full \in BOOLEAN : full = (span = None /\ ~ KeyBefore(min, start) /\ ~ KeyBefore(end, max))
  OBVIOUS
<1>9. PICK next : next = [p \in DOMAIN Pieces(C, n) |->
                            IF full THEN Pieces(C, n)[p] ELSE NextBatch(s, Pieces(C, n)[p], start, end, span)]
  OBVIOUS
<1>10. ScanBatches(s, t, start, end, span, user, n) =
         IF metas = <<>> \/ KeyBefore(end, start) \/ KeyBefore(end, min) \/ KeyBefore(max, start) THEN <<>>
         ELSE NotEmptyOf(next)
  <2>1. Len(Wanted(s, user)) = Len(s.columns)
    BY AllWanted
  <2>2. PICK read : read = Pieces(C, n)
    OBVIOUS
  <2>3. PICK rebuilt : rebuilt = [i \in DOMAIN read |->
                                    IF Len(Wanted(s, user)) = Len(s.columns) THEN read[i]
                                    ELSE RebuildFullWidth(s, read[i], Wanted(s, user))]
    OBVIOUS
  <2>4. PICK nx : nx = IF full THEN rebuilt
                       ELSE [i \in DOMAIN read |-> NextBatch(s, rebuilt[i], start, end, span)]
    OBVIOUS
  <2>5. ScanBatches(s, t, start, end, span, user, n) =
            IF metas = <<>> \/ KeyBefore(end, start) \/ KeyBefore(end, min) \/ KeyBefore(max, start) THEN <<>>
            ELSE FlattenSeq([i \in DOMAIN nx |-> IF NumRows(nx[i]) > 0 THEN <<nx[i]>> ELSE <<>>])
    BY <1>2, <1>6, <1>7, <1>8, <2>2, <2>3, <2>4, Zenon DEF ScanBatches
  <2>6. rebuilt = [i \in DOMAIN read |-> read[i]]
    BY <2>1, <2>3
  <2>7. nx = next
    BY <1>9, <2>2, <2>4, <2>6
  <2> QED BY <2>5, <2>7 DEF NotEmptyOf
<1>11. CASE metas = <<>> \/ KeyBefore(end, start) \/ KeyBefore(end, min) \/ KeyBefore(max, start)
  <2>1. \A i \in 1 .. NumRows(b) : KeyAt(s, b, i) \notin K
    <3>1. CASE metas = <<>>
      BY <1>1, <1>3, <3>1
    <3>2. CASE metas # <<>>
      <4>1. PICK k \in Nat \ {0} : k = N
        BY <1>3, <3>2
      <4>2. min = KeyAt(s, b, 1) /\ max = KeyAt(s, b, k) /\ k = NumRows(b)
        BY <1>1, <1>3, <1>6, <3>2, <4>1
      <4>3. \A l \in AnyKey :
               /\ KeyAt(s, b, 1) \in AnyKey /\ KeyAt(s, b, k) \in AnyKey
               /\ ~ KeyBefore(KeyAt(s, b, 1), l) => \A i \in 1 .. k : ~ KeyBefore(KeyAt(s, b, i), l)
               /\ ~ KeyBefore(l, KeyAt(s, b, k)) => \A i \in 1 .. k : ~ KeyBefore(l, KeyAt(s, b, i))
               /\ KeyBefore(KeyAt(s, b, k), l) => \A i \in 1 .. k : KeyBefore(KeyAt(s, b, i), l)
               /\ KeyBefore(l, KeyAt(s, b, 1)) => \A i \in 1 .. k : KeyBefore(l, KeyAt(s, b, i))
        BY <1>3, <4>2, KeysBetween
      <4>4. \A i \in 1 .. k : KeyBefore(end, KeyAt(s, b, i)) \/ KeyBefore(KeyAt(s, b, i), start)
        BY <1>11, <3>2, <4>2, <4>3
      <4> QED BY <1>4, <4>2, <4>4 DEF Passing, Passes
    <3> QED BY <3>1, <3>2
  <2>2. Concatenated(s, <<>>) = Sifted(s, b, K)
    BY <1>3, <2>1, NothingTogether
  <2> QED BY <1>5, <1>10, <1>11, <2>2
<1>12. CASE ~ (metas = <<>> \/ KeyBefore(end, start) \/ KeyBefore(end, min) \/ KeyBefore(max, start))
  <2>1. PICK q, I : /\ IsAscending(q, I) /\ q \in Seq(1 .. N) /\ I \subseteq 1 .. N
                    /\ C = Chosen(b, q)
                    /\ \A i \in 1 .. N : KeyAt(s, b, i) \in K => i \in I
    BY <1>1, <1>2, <1>4, <1>7, ReadRows
  <2>2. IsBatch(s, C) /\ KeysAscend(s, C)
    <3>1. q \in Seq(1 .. NumRows(b))
      BY <1>1, <2>1
    <3>2. IsBatch(s, Chosen(b, q))
      BY <1>3, <3>1, ChosenFacts
    <3>3. KeysAscend(s, Chosen(b, q))
      BY <1>3, <2>1, <3>1, ChosenAscends
    <3> QED BY <2>1, <3>2, <3>3
  <2>3. full => \A i \in 1 .. NumRows(C) : KeyAt(s, C, i) \in K
    <3>1. ASSUME full, NEW i \in 1 .. NumRows(C) PROVE KeyAt(s, C, i) \in K
      <4>1. PICK k \in Nat \ {0} : k = N
        BY <1>3, <1>12
      <4>2. min = KeyAt(s, b, 1) /\ max = KeyAt(s, b, k) /\ k = NumRows(b)
        BY <1>1, <1>3, <1>6, <1>12, <4>1
      <4>3. \A l \in AnyKey :
               /\ KeyAt(s, b, 1) \in AnyKey /\ KeyAt(s, b, k) \in AnyKey
               /\ ~ KeyBefore(KeyAt(s, b, 1), l) => \A j \in 1 .. k : ~ KeyBefore(KeyAt(s, b, j), l)
               /\ ~ KeyBefore(l, KeyAt(s, b, k)) => \A j \in 1 .. k : ~ KeyBefore(l, KeyAt(s, b, j))
               /\ KeyBefore(KeyAt(s, b, k), l) => \A j \in 1 .. k : KeyBefore(KeyAt(s, b, j), l)
               /\ KeyBefore(l, KeyAt(s, b, 1)) => \A j \in 1 .. k : KeyBefore(l, KeyAt(s, b, j))
        BY <1>3, <4>2, KeysBetween
      <4>4. span = None /\ ~ KeyBefore(min, start) /\ ~ KeyBefore(end, max)
        BY <1>8, <3>1
      <4>5. \A j \in 1 .. k : ~ KeyBefore(end, KeyAt(s, b, j)) /\ ~ KeyBefore(KeyAt(s, b, j), start)
        BY <4>2, <4>3, <4>4
      <4>6. q \in Seq(1 .. NumRows(b))
        BY <1>1, <2>1
      <4>7. /\ NumRows(Chosen(b, q)) = Len(q)
            /\ \A j \in 1 .. Len(q) : q[j] \in 1 .. NumRows(b) /\ RowAt(s, Chosen(b, q), j) = RowAt(s, b, q[j])
        BY <1>3, <4>6, ChosenFacts
      <4>8. q[i] \in 1 .. k /\ RowAt(s, C, i) = RowAt(s, b, q[i])
        BY <2>1, <3>1, <4>2, <4>7
      <4>9. KeyAt(s, C, i) = KeyAt(s, b, q[i]) /\ KeyAt(s, b, q[i]) \in AnyKey
        BY <1>3, <4>2, <4>8 DEF RowAt, KeysAscend
      <4>10. Passes(KeyAt(s, b, q[i]), start, end, span)
        BY <4>4, <4>5, <4>8, PassesMeans
      <4> QED BY <1>4, <4>9, <4>10 DEF Passing
    <3> QED BY <3>1
  <2>4. Concatenated(s, NotEmptyOf(next)) = Sifted(s, C, K)
    BY <1>4, <1>9, <2>2, <2>3, PiecesScanned
  <2>5. Sifted(s, C, K) = Sifted(s, b, K)
    <3>1. q \in Seq(1 .. NumRows(b))
      BY <1>1, <2>1
    <3>2. PICK J : J = {i \in I : KeyAt(s, b, i) \in K}
      OBVIOUS
    <3>3. Sifted(s, Chosen(b, q), K) = Chosen(b, Ascending(J))
      BY <1>3, <2>1, <3>1, <3>2, ChosenSifted
    <3>4. J = {i \in 1 .. NumRows(b) : KeyAt(s, b, i) \in K}
      BY <1>1, <2>1, <3>2
    <3>5. Sifted(s, b, K) = Chosen(b, Ascending(J))
      BY <3>4 DEF Sifted
    <3> QED BY <2>1, <3>3, <3>5
  <2> QED BY <1>5, <1>10, <1>12, <2>4, <2>5
<1> QED BY <1>11, <1>12

\* An SST that was opened again is there.
IsThere == stage = "reopened" => sst # None

LEMMA ThereAlways == PathSpec => []IsThere
<1>1. PathInit => IsThere
  BY DEF PathInit, IsThere
<1>2. IsThere /\ [PathNext]_path_vars => IsThere'
  <2> SUFFICES ASSUME IsThere, [PathNext]_path_vars PROVE IsThere'
    OBVIOUS
  <2>1. CASE CreateTable
    BY <2>1 DEF CreateTable, IsThere
  <2>2. CASE AppendBatch
    BY <2>2 DEF AppendBatch, IsThere
  <2>3. CASE Damage
    BY <2>3 DEF Damage, IsThere
  <2>4. CASE Recover
    BY <2>4 DEF Recover, IsThere
  <2>5. CASE Flush
    BY <2>5 DEF Flush, IsThere
  <2>6. CASE Reopen
    <3>1. PICK x : sst' = Some(x)
      BY <2>6 DEF Reopen
    <3> QED BY <3>1, SomeFacts DEF IsThere
  <2>7. CASE Compact
    BY <2>7 DEF Compact, IsThere
  <2>8. CASE UNCHANGED path_vars
    BY <2>8 DEF path_vars, IsThere
  <2> QED BY <2>1, <2>2, <2>3, <2>4, <2>5, <2>6, <2>7, <2>8 DEF PathNext
<1> QED BY <1>1, <1>2, PTL DEF PathSpec

\* What a scan is about: a table, its rows, the SST made of them.
LEMMA Scanned ==
    ASSUME LogInv, RowsInv, SstInv, IsThere, stage = "reopened"
    PROVE  \E seed, b : /\ schema \in Schemas /\ Holdable(schema, memtable)
                        /\ HoldsNewest(schema, b, memtable) /\ sst[1] = TableOf(schema, b, seed)
                        /\ SstRows = b
<1>1. schema \in Schemas /\ Holdable(schema, memtable)
  BY DEF LogInv, RowsInv
<1>2. sst # None
  BY DEF IsThere
<1>3. PICK seed, b : sst = Some(TableOf(schema, b, seed)) /\ HoldsNewest(schema, b, memtable)
  BY <1>2 DEF SstInv
<1>4. sst[1] = TableOf(schema, b, seed)
  BY <1>3, SomeFacts
<1>5. PICK s, R : s = schema /\ R = memtable
  OBVIOUS
<1>6. /\ Concatenated(s, TableOf(s, b, seed).groups) = b
      /\ CreateFromBatches(s, <<MergedBatch(s, b)>>, seed) = Some(TableOf(s, b, seed))
  BY <1>1, <1>3, <1>5, CompactionMakes
<1>7. SstRows = b
  BY <1>4, <1>5, <1>6 DEF SstRows
<1> QED BY <1>1, <1>3, <1>4, <1>7

\* A scan of an SST hands out exactly the rows with keys and times in its ranges:
\* it skips no row group with one of them, lets whole batches through only where
\* all their rows are in span, and drops only batches with none (sstable.rs
\* 693-783, 850-904).
THEOREM ScansFind == PathSpec => []ScanFindsRange
<1>1. LogInv /\ RowsInv /\ SstInv /\ IsThere => ScanFindsRange
  <2> SUFFICES ASSUME LogInv, RowsInv, SstInv, IsThere, stage = "reopened",
                      NEW start \in KeysFor(schema), NEW end \in KeysFor(schema), NEW span \in Ranges,
                      NEW n \in BatchSizes \ {1}, ~ KeyBefore(end, start)
               PROVE  Concatenated(schema, ScanBatches(schema, sst[1], start, end, span, AllColumns, n)) =
                          Filtered(schema, SstRows, start, end, span)
    BY DEF ScanFindsRange
  <2>1. PICK seed, b : /\ schema \in Schemas /\ Holdable(schema, memtable)
                       /\ HoldsNewest(schema, b, memtable) /\ sst[1] = TableOf(schema, b, seed)
                       /\ SstRows = b
    BY Scanned
  <2>2. PICK s, R, t, user : /\ s = schema /\ R = memtable /\ t = TableOf(s, b, seed)
                             /\ user = [c \in DOMAIN s.columns |-> c]
    OBVIOUS
  <2>3. start \in AnyKey /\ end \in AnyKey
    BY <2>1, KeysTyped DEF AnyKey
  <2>4. TimesOf(span)
    <3>1. CASE span = None
      BY <3>1 DEF TimesOf, Range, None
    <3>2. CASE span # None
      <4>1. PICK a \in Stamps : span = Some([low |-> a, high |-> a])
        BY <3>2 DEF Ranges
      <4>2. Range(span) = {[low |-> a, high |-> a]}
        BY <4>1 DEF Range, Some
      <4> QED BY <4>1, <4>2, CellsAssumption DEF TimesOf
    <3> QED BY <3>1, <3>2
  <2>5. n \in Nat \ {0}
    BY BatchSizesAssumption
  <2>6. s \in Schemas /\ Holdable(s, R) /\ HoldsNewest(s, b, R)
    BY <2>1, <2>2
  <2>7. Concatenated(s, ScanBatches(s, t, start, end, span, user, n)) = Filtered(s, b, start, end, span)
    BY <2>2, <2>3, <2>4, <2>5, <2>6, ScanGives
  <2>8. user = AllColumns
    BY <2>2 DEF AllColumns
  <2> QED BY <2>1, <2>2, <2>7, <2>8
<1> QED BY <1>1, LogAlways, RowsAlways, SstAlways, ThereAlways, PTL

-----------------------------------------------------------------------------
(* The columns read, put in their places again.                             *)

IsUsed(proj, L, f) ==
    f = [c \in 0 .. L |->
            IF c = 0 THEN 0
            ELSE IF f[c - 1] < Len(proj) /\ proj[f[c - 1] + 1] = c THEN f[c - 1] + 1 ELSE f[c - 1]]
RebuiltColumn(b, proj, f, c) ==
    IF f[c] # f[c - 1] THEN Pick(b.cols, InFileOrder(proj))[f[c]] ELSE NullArray(NumRows(b))

LEMMA RebuildIs ==
    ASSUME NEW s, NEW b, NEW proj
    PROVE  LET f == CHOOSE f : IsUsed(proj, Len(s.columns), f)
           IN  RebuildFullWidth(s, b, proj)
                    = [b EXCEPT !.cols = [c \in DOMAIN s.columns |-> RebuiltColumn(b, proj, f, c)]]
  BY DEF RebuildFullWidth, IsUsed, RebuiltColumn

\* How many columns read are up to column c.
UpTo(w, c, k) == k \in 0 .. Len(w) /\ \A j \in 1 .. Len(w) : w[j] <= c <=> j <= k

LEMMA UsedCounts ==
    ASSUME NEW L \in Nat, NEW W \in SUBSET (1 .. L), NEW w, IsAscending(w, W)
    PROVE  LET f == CHOOSE f : IsUsed(w, L, f)
           IN  IsUsed(w, L, f) /\ \A c \in 0 .. L : UpTo(w, c, f[c])
<1>1. PICK n \in Nat : n = Len(w)
  BY DEF IsAscending
<1>2. /\ DOMAIN w = 1 .. n /\ Range(w) = W /\ \A j \in 1 .. n : w[j] \in 1 .. L
      /\ \A i, j \in 1 .. n : i < j => w[i] < w[j]
  <2>1. /\ DOMAIN w = 1 .. n /\ Range(w) = W /\ \A i, j \in 1 .. n : i < j => w[i] < w[j]
    BY <1>1 DEF IsAscending
  <2>2. \A j \in 1 .. n : w[j] \in Range(w)
    BY <2>1 DEF Range
  <2> QED BY <2>1, <2>2
<1>3. UpTo(w, 0, 0)
  BY <1>1, <1>2 DEF UpTo
<1>4. ASSUME NEW c \in 1 .. L, NEW k, UpTo(w, c - 1, k)
      PROVE  UpTo(w, c, IF k < Len(w) /\ w[k + 1] = c THEN k + 1 ELSE k)
  <2>1. k \in 0 .. n /\ \A j \in 1 .. n : w[j] <= c - 1 <=> j <= k
    BY <1>1, <1>4 DEF UpTo
  <2>2. CASE k < n /\ w[k + 1] = c
    <3>1. ASSUME NEW j \in 1 .. n PROVE w[j] <= c <=> j <= k + 1
      <4>1. CASE j <= k
        <5>1. w[j] <= c - 1 /\ w[j] \in 1 .. L
          BY <1>2, <2>1, <4>1
        <5> QED BY <2>1, <4>1, <5>1
      <4>2. CASE j = k + 1
        BY <2>1, <2>2, <4>2
      <4>3. CASE j > k + 1
        <5>1. k + 1 \in 1 .. n
          BY <2>1, <2>2
        <5>2. w[k + 1] < w[j] /\ w[j] \in 1 .. L
          BY <1>2, <4>3, <5>1
        <5> QED BY <2>1, <2>2, <4>3, <5>2
      <4> QED BY <2>1, <4>1, <4>2, <4>3
    <3>2. k + 1 \in 0 .. n
      BY <2>1, <2>2
    <3> QED BY <1>1, <2>2, <3>1, <3>2 DEF UpTo
  <2>3. CASE ~ (k < n /\ w[k + 1] = c)
    <3>1. ASSUME NEW j \in 1 .. n PROVE w[j] <= c <=> j <= k
      <4>1. CASE j <= k
        <5>1. w[j] <= c - 1 /\ w[j] \in 1 .. L
          BY <1>2, <2>1, <4>1
        <5> QED BY <2>1, <4>1, <5>1
      <4>2. CASE j > k
        <5>1. k + 1 \in 1 .. n /\ w[k + 1] # c
          BY <2>1, <2>3, <4>2
        <5>2. w[k + 1] \in 1 .. L /\ ~ (w[k + 1] <= c - 1)
          <6>1. ~ (k + 1 <= k)
            BY <2>1
          <6> QED BY <1>2, <2>1, <5>1, <6>1
        <5>3. w[k + 1] > c
          BY <5>1, <5>2
        <5>4. w[k + 1] <= w[j] /\ w[j] \in 1 .. L
          <6>1. j = k + 1 \/ k + 1 < j
            BY <2>1, <4>2
          <6> QED BY <1>2, <5>1, <5>2, <6>1
        <5> QED BY <2>1, <4>2, <5>2, <5>3, <5>4
      <4> QED BY <2>1, <4>1, <4>2
    <3> QED BY <1>1, <2>1, <2>3, <3>1 DEF UpTo
  <2> QED BY <1>1, <2>2, <2>3
<1>5. \A c \in 0 .. L : \E k : UpTo(w, c, k)
  <2>1. PICK I : I = {c \in 0 .. L : \E k : UpTo(w, c, k)}
    OBVIOUS
  <2>2. 0 \in I
    BY <1>3, <2>1
  <2>3. ASSUME NEW c \in 0 .. L - 1, c \in I PROVE c + 1 \in I
    <3>1. PICK k : UpTo(w, c, k)
      BY <2>1, <2>3
    <3>2. c + 1 \in 1 .. L /\ c + 1 - 1 = c /\ c + 1 \in 0 .. L
      OBVIOUS
    <3>3. UpTo(w, c + 1 - 1, k)
      BY <3>1, <3>2
    <3>4. UpTo(w, c + 1, IF k < Len(w) /\ w[k + 1] = c + 1 THEN k + 1 ELSE k)
      BY <1>4, <3>2, <3>3
    <3> QED BY <2>1, <3>2, <3>4
  <2>4. \A c \in 0 .. L - 1 : c \in I => c + 1 \in I
    BY <2>3
  <2>5. \A c \in 0 .. L : c \in I
    BY <2>2, <2>4, CountingUp
  <2> QED BY <2>1, <2>5
<1>6. \A c, k, l : UpTo(w, c, k) /\ UpTo(w, c, l) => k = l
  <2>1. ASSUME NEW c, NEW k, NEW l, UpTo(w, c, k), UpTo(w, c, l) PROVE k = l
    <3>1. /\ k \in 0 .. n /\ l \in 0 .. n
          /\ \A j \in 1 .. n : (w[j] <= c <=> j <= k) /\ (w[j] <= c <=> j <= l)
      BY <1>1, <2>1 DEF UpTo
    <3>2. \A j \in 1 .. n : j <= k <=> j <= l
      BY <3>1
    <3>3. ~ (k < l)
      <4>1. ASSUME k < l PROVE FALSE
        <5>1. l \in 1 .. n
          BY <3>1, <4>1
        <5> QED BY <3>1, <3>2, <4>1, <5>1
      <4> QED BY <4>1
    <3>4. ~ (l < k)
      <4>1. ASSUME l < k PROVE FALSE
        <5>1. k \in 1 .. n
          BY <3>1, <4>1
        <5> QED BY <3>1, <3>2, <4>1, <5>1
      <4> QED BY <4>1
    <3> QED BY <3>1, <3>3, <3>4
  <2> QED BY <2>1
<1>7. PICK g : g = [c \in 0 .. L |-> CHOOSE k : UpTo(w, c, k)]
  OBVIOUS
<1>8. \A c \in 0 .. L : UpTo(w, c, g[c])
  BY <1>5, <1>7
<1>9. IsUsed(w, L, g)
  <2>1. ASSUME NEW c \in 0 .. L
        PROVE  g[c] = IF c = 0 THEN 0
                      ELSE IF g[c - 1] < Len(w) /\ w[g[c - 1] + 1] = c THEN g[c - 1] + 1 ELSE g[c - 1]
    <3>1. CASE c = 0
      <4>1. UpTo(w, 0, g[c])
        BY <1>8, <3>1
      <4> QED BY <1>3, <1>6, <3>1, <4>1
    <3>2. CASE c # 0
      <4>1. c \in 1 .. L /\ c - 1 \in 0 .. L
        BY <3>2
      <4>2. UpTo(w, c - 1, g[c - 1]) /\ UpTo(w, c, g[c])
        BY <1>8, <4>1
      <4>3. UpTo(w, c, IF g[c - 1] < Len(w) /\ w[g[c - 1] + 1] = c THEN g[c - 1] + 1 ELSE g[c - 1])
        BY <1>4, <4>1, <4>2
      <4> QED BY <1>6, <3>2, <4>2, <4>3
    <3> QED BY <3>1, <3>2
  <2>2. g = [c \in 0 .. L |-> g[c]]
    BY <1>7
  <2> QED BY <2>1, <2>2 DEF IsUsed
<1> DEFINE f == CHOOSE f : IsUsed(w, L, f)
<1>10. IsUsed(w, L, f)
  BY <1>9
<1> HIDE DEF f
<1>11. \A c \in 0 .. L : f[c] = IF c = 0 THEN 0
                                ELSE IF f[c - 1] < Len(w) /\ w[f[c - 1] + 1] = c THEN f[c - 1] + 1 ELSE f[c - 1]
  BY <1>10, Zenon DEF IsUsed
<1>12. \A c \in 0 .. L : UpTo(w, c, f[c])
  <2>1. PICK I : I = {c \in 0 .. L : UpTo(w, c, f[c])}
    OBVIOUS
  <2>2. 0 \in I
    BY <1>3, <1>11, <2>1
  <2>3. ASSUME NEW c \in 0 .. L - 1, c \in I PROVE c + 1 \in I
    <3>1. UpTo(w, c, f[c])
      BY <2>1, <2>3
    <3>2. c + 1 \in 1 .. L /\ c + 1 - 1 = c /\ c + 1 \in 0 .. L /\ c + 1 # 0
      OBVIOUS
    <3>3. UpTo(w, c + 1 - 1, f[c])
      BY <3>1, <3>2
    <3>4. UpTo(w, c + 1, IF f[c] < Len(w) /\ w[f[c] + 1] = c + 1 THEN f[c] + 1 ELSE f[c])
      BY <1>4, <3>2, <3>3
    <3>5. f[c + 1] = IF f[c] < Len(w) /\ w[f[c] + 1] = c + 1 THEN f[c] + 1 ELSE f[c]
      BY <1>11, <3>2
    <3> QED BY <2>1, <3>2, <3>4, <3>5
  <2>4. \A c \in 0 .. L - 1 : c \in I => c + 1 \in I
    BY <2>3
  <2>5. \A c \in 0 .. L : c \in I
    BY <2>2, <2>4, CountingUp
  <2> QED BY <2>1, <2>5
<1> QED BY <1>10, <1>12 DEF f

\* The columns of W are those of the other batch.
KeepsWanted(s, a, b, W) ==
    /\ IsBatch(s, a) /\ a.seq = b.seq /\ a.op = b.op
    /\ \A c \in W : a.cols[c] = b.cols[c]

LEMMA RebuiltKeeps ==
    ASSUME NEW s \in Schemas, NEW b, IsBatch(s, b), NEW W \in SUBSET DOMAIN s.columns,
           NEW w, w = Ascending(W)
    PROVE  KeepsWanted(s, RebuildFullWidth(s, b, w), b, W)
<1>1. PICK L \in Nat : L = Len(s.columns) /\ DOMAIN s.columns = 1 .. L
  BY SchemaFacts
<1>2. W \in SUBSET (1 .. L)
  BY <1>1
<1>3. IsAscending(w, W)
  BY <1>2, PartAscends
<1>4. PICK f : f = CHOOSE g : IsUsed(w, L, g)
  OBVIOUS
<1>5. \A c \in 0 .. L : UpTo(w, c, f[c])
  BY <1>2, <1>3, <1>4, UsedCounts
<1>6. PICK n \in Nat : n = Len(w)
  BY <1>3 DEF IsAscending
<1>7. /\ DOMAIN w = 1 .. n /\ Range(w) = W /\ \A j \in 1 .. n : w[j] \in W /\ w[j] \in 1 .. L
      /\ \A i, j \in 1 .. n : i < j => w[i] < w[j]
  <2>1. /\ DOMAIN w = 1 .. n /\ Range(w) = W /\ \A i, j \in 1 .. n : i < j => w[i] < w[j]
    BY <1>3, <1>6 DEF IsAscending
  <2>2. \A j \in 1 .. n : w[j] \in Range(w)
    BY <2>1 DEF Range
  <2> QED BY <1>2, <2>1, <2>2
<1>8. InFileOrder(w) = w
  <2>1. w = Ascending(Range(w))
    BY <1>7
  <2> QED BY <2>1 DEF InFileOrder
<1>9. ASSUME NEW c \in W PROVE RebuiltColumn(b, w, f, c) = b.cols[c]
  <2>1. PICK j \in 1 .. n : w[j] = c
    BY <1>7 DEF Range
  <2>2. c \in 1 .. L /\ c \in 0 .. L /\ c - 1 \in 0 .. L
    BY <1>2
  <2>3. /\ f[c] \in 0 .. n /\ f[c - 1] \in 0 .. n
        /\ \A i \in 1 .. n : (w[i] <= c <=> i <= f[c]) /\ (w[i] <= c - 1 <=> i <= f[c - 1])
    BY <1>5, <1>6, <2>2 DEF UpTo
  <2>4. j <= f[c]
    BY <2>1, <2>2, <2>3
  <2>5. ~ (j <= f[c - 1])
    <3>1. ~ (w[j] <= c - 1)
      BY <2>1, <2>2
    <3> QED BY <2>3, <3>1
  <2>6. ~ (j < f[c])
    <3>1. ASSUME j < f[c] PROVE FALSE
      <4>1. PICK k \in 1 .. n : k = f[c]
        BY <2>3, <3>1
      <4>2. w[k] <= c /\ w[j] < w[k] /\ w[k] \in 1 .. L
        BY <1>7, <2>3, <3>1, <4>1
      <4> QED BY <2>1, <2>2, <4>2
    <3> QED BY <3>1
  <2>7. f[c] = j /\ f[c] # f[c - 1]
    BY <2>3, <2>4, <2>5, <2>6
  <2>8. Pick(b.cols, w)[j] = b.cols[c]
    BY <1>7, <2>1 DEF Pick
  <2> QED BY <1>8, <2>7, <2>8 DEF RebuiltColumn
<1>10. ASSUME NEW c \in 1 .. L, c \notin W PROVE RebuiltColumn(b, w, f, c) = NullArray(NumRows(b))
  <2>1. c \in 0 .. L /\ c - 1 \in 0 .. L
    OBVIOUS
  <2>2. /\ f[c] \in 0 .. n /\ f[c - 1] \in 0 .. n
        /\ \A i \in 1 .. n : (w[i] <= c <=> i <= f[c]) /\ (w[i] <= c - 1 <=> i <= f[c - 1])
    BY <1>5, <1>6, <2>1 DEF UpTo
  <2>3. \A i \in 1 .. n : w[i] <= c <=> w[i] <= c - 1
    <3>1. \A i \in 1 .. n : w[i] \in 1 .. L /\ w[i] # c
      BY <1>7, <1>10
    <3> QED BY <3>1
  <2>4. \A i \in 1 .. n : i <= f[c] <=> i <= f[c - 1]
    BY <2>2, <2>3
  <2>5. f[c] = f[c - 1]
    <3>1. ASSUME f[c] < f[c - 1] PROVE FALSE
      <4>1. f[c - 1] \in 1 .. n
        BY <2>2, <3>1
      <4> QED BY <2>2, <2>4, <3>1, <4>1
    <3>2. ASSUME f[c - 1] < f[c] PROVE FALSE
      <4>1. f[c] \in 1 .. n
        BY <2>2, <3>2
      <4> QED BY <2>2, <2>4, <3>2, <4>1
    <3> QED BY <2>2, <3>1, <3>2
  <2> QED BY <2>5 DEF RebuiltColumn
<1>11. /\ b = [cols |-> b.cols, seq |-> b.seq, op |-> b.op] /\ NumRows(b) \in Nat
       /\ NumRows(b) = Len(b.seq) /\ NumRows(b) = Len(b.op)
       /\ b.cols = [c \in DOMAIN s.columns |-> b.cols[c]] /\ DOMAIN b.cols = DOMAIN s.columns
       /\ b.seq \in Seq(Nat) /\ b.op \in Seq({"put", "delete"})
       /\ \A c \in DOMAIN s.columns : b.cols[c] \in Seq(CellSet) /\ Len(b.cols[c]) = NumRows(b)
  BY BatchFacts
<1>12. PICK cs : cs = [c \in DOMAIN s.columns |-> RebuiltColumn(b, w, f, c)]
  OBVIOUS
<1>13. PICK a : a = RebuildFullWidth(s, b, w)
  OBVIOUS
<1>14. a = [b EXCEPT !.cols = cs]
  BY <1>1, <1>4, <1>12, <1>13, RebuildIs
<1>15. a = [cols |-> cs, seq |-> b.seq, op |-> b.op]
  BY <1>11, <1>14
<1>16. PICK N \in Nat : N = NumRows(b)
  BY <1>11
<1>17. NullArray(N) \in Seq(CellSet) /\ Len(NullArray(N)) = N
  <2>1. NullArray(N) \in [1 .. N -> CellSet]
    BY DEF NullArray, CellSet
  <2> QED BY <2>1, FunctionSeq
<1>18. ASSUME NEW c \in DOMAIN s.columns
       PROVE  cs[c] \in Seq(CellSet) /\ Len(cs[c]) = N
  <2>1. CASE c \in W
    <3>1. cs[c] = b.cols[c]
      BY <1>9, <1>12, <2>1
    <3> QED BY <1>11, <1>16, <3>1
  <2>2. CASE c \notin W
    <3>1. cs[c] = NullArray(N)
      BY <1>1, <1>10, <1>12, <1>16, <2>2
    <3> QED BY <1>17, <3>1
  <2> QED BY <2>1, <2>2
<1>19. IsBatch(s, a)
  <2>1. cs \in [DOMAIN s.columns -> Seq(CellSet)]
    BY <1>12, <1>18
  <2>2. a \in BatchParts(s)
    BY <1>11, <1>15, <2>1 DEF BatchParts
  <2>3. Len(a.op) = Len(a.seq)
    BY <1>11, <1>15
  <2>4. \A c \in DOMAIN s.columns : Len(a.cols[c]) = Len(a.seq)
    BY <1>11, <1>15, <1>16, <1>18
  <2> QED BY <2>2, <2>3, <2>4 DEF IsBatch
<1>20. \A c \in W : a.cols[c] = b.cols[c]
  BY <1>9, <1>12, <1>15
<1> QED BY <1>13, <1>15, <1>19, <1>20 DEF KeepsWanted

\* The columns read are those asked for and those the key is made of.
LEMMA WantedIs ==
    ASSUME NEW s \in Schemas, NEW user \in Seq(DOMAIN s.columns)
    PROVE  \E W \in SUBSET DOMAIN s.columns :
                /\ Wanted(s, user) = Ascending(W)
                /\ Range(user) \subseteq W /\ Range(s.primary_key) \subseteq W /\ s.time_index \in W
<1>1. /\ s.primary_key \in Seq(DOMAIN s.columns) /\ s.time_index \in DOMAIN s.columns
  BY SchemaFacts
<1>2. PICK D, P, z : D = DOMAIN s.columns /\ P = s.primary_key /\ z = <<s.time_index>>
  OBVIOUS
<1>3. user \in Seq(D) /\ P \in Seq(D) /\ z \in Seq(D) /\ Len(z) = 1 /\ z[1] = s.time_index
  <2>1. user \in Seq(D) /\ P \in Seq(D)
    BY <1>1, <1>2
  <2>2. s.time_index \in D
    BY <1>1, <1>2
  <2>3. z \in Seq(D) /\ Len(z) = 1 /\ z[1] = s.time_index
    <3>1. PICK v \in D : v = s.time_index
      BY <2>2
    <3>2. <<v>> \in Seq(D) /\ Len(<<v>>) = 1 /\ <<v>>[1] = v
      OBVIOUS
    <3>3. z = <<v>>
      BY <1>2, <3>1
    <3> QED BY <3>1, <3>2, <3>3
  <2> QED BY <2>1, <2>3
<1>4. PICK x : x = user \o P
  OBVIOUS
<1>5. PICK y : y = x \o z
  OBVIOUS
<1>6. /\ x \in Seq(D) /\ Len(user) \in Nat /\ Len(P) \in Nat /\ Len(x) = Len(user) + Len(P)
      /\ \A i \in 1 .. Len(user) : x[i] = user[i]
      /\ \A j \in 1 .. Len(P) : x[Len(user) + j] = P[j]
  BY <1>3, <1>4, Joined
<1>7. /\ y \in Seq(D) /\ Len(x) \in Nat /\ Len(z) \in Nat /\ Len(y) = Len(x) + Len(z)
      /\ \A i \in 1 .. Len(x) : y[i] = x[i]
      /\ \A j \in 1 .. Len(z) : y[Len(x) + j] = z[j]
  <2>1. x \in Seq(D) /\ z \in Seq(D)
    BY <1>3, <1>6
  <2>2. /\ x \o z \in Seq(D) /\ Len(x) \in Nat /\ Len(z) \in Nat /\ Len(x \o z) = Len(x) + Len(z)
        /\ \A i \in 1 .. Len(x) : (x \o z)[i] = x[i]
        /\ \A j \in 1 .. Len(z) : (x \o z)[Len(x) + j] = z[j]
    BY <2>1, Joined
  <2> QED BY <1>5, <2>2
<1>8. /\ DOMAIN y = 1 .. Len(y) /\ DOMAIN x = 1 .. Len(x) /\ DOMAIN user = 1 .. Len(user)
      /\ DOMAIN P = 1 .. Len(P) /\ \A i \in DOMAIN y : y[i] \in D
  BY <1>3, <1>6, <1>7
<1>9. \A i \in 1 .. Len(x) : x[i] \in Range(y)
  <2>1. \A i \in 1 .. Len(x) : i \in 1 .. Len(y) /\ y[i] = x[i]
    BY <1>3, <1>6, <1>7
  <2> QED BY <1>8, <2>1 DEF Range
<1>10. \A i \in 1 .. Len(user) : user[i] \in Range(y)
  <2>1. \A i \in 1 .. Len(user) : i \in 1 .. Len(x) /\ x[i] = user[i]
    BY <1>6
  <2> QED BY <1>9, <2>1
<1>11. \A j \in 1 .. Len(P) : P[j] \in Range(y)
  <2>1. \A j \in 1 .. Len(P) : Len(user) + j \in 1 .. Len(x) /\ x[Len(user) + j] = P[j]
    BY <1>6
  <2> QED BY <1>9, <2>1
<1>12. s.time_index \in Range(y)
  <2>1. Len(x) + 1 \in 1 .. Len(y) /\ y[Len(x) + 1] = s.time_index
    BY <1>3, <1>6, <1>7
  <2> QED BY <1>8, <2>1 DEF Range
<1>13. Range(y) \subseteq D /\ Range(user) \subseteq Range(y) /\ Range(P) \subseteq Range(y)
  BY <1>8, <1>10, <1>11 DEF Range
<1>14. Wanted(s, user) = Ascending(Range(y))
  BY <1>2, <1>4, <1>5 DEF Wanted, InFileOrder
<1> QED BY <1>2, <1>12, <1>13, <1>14

\* Where nothing is empty nothing is dropped.
LEMMA NoneDropped ==
    ASSUME NEW m \in Nat, NEW bs, DOMAIN bs = 1 .. m, bs = [p \in 1 .. m |-> bs[p]],
           \A p \in 1 .. m : NumRows(bs[p]) > 0
    PROVE  NotEmptyOf(bs) = bs
<1>1. PICK T : T = {bs[p] : p \in 1 .. m}
  OBVIOUS
<1>2. bs \in Seq(T) /\ m = Len(bs)
  <2>1. bs \in [1 .. m -> T]
    BY <1>1
  <2> QED BY <2>1, FunctionSeq
<1>3. PICK E \in SUBSET (1 .. m) : E = 1 .. m
  OBVIOUS
<1>4. PICK xs : xs = [p \in 1 .. m |-> IF p \in E THEN <<bs[p]>> ELSE <<>>]
  OBVIOUS
<1>5. xs = [p \in DOMAIN bs |-> IF NumRows(bs[p]) > 0 THEN <<bs[p]>> ELSE <<>>]
  BY <1>3, <1>4
<1>6. FlattenSeq(xs) = Pick(bs, Ascending(E))
  <2>1. PickedSome(xs, bs, E)
    BY <1>2, <1>3, <1>4 DEF PickedSome
  <2> QED BY <1>2, <2>1, FlatSome
<1>7. PICK q : q = [i \in 1 .. m |-> i]
  OBVIOUS
<1>8. IsAscending(q, E)
  <2>1. q \in [1 .. m -> Int]
    BY <1>7
  <2>2. q \in Seq(Int) /\ Len(q) = m /\ DOMAIN q = 1 .. m
    BY <2>1, FunctionSeq
  <2>3. Range(q) = E
    BY <1>3, <1>7, <2>2 DEF Range
  <2>4. \A i, j \in 1 .. m : i < j => q[i] < q[j]
    BY <1>7
  <2> QED BY <2>2, <2>3, <2>4 DEF IsAscending
<1>9. Ascending(E) = q
  BY <1>8, AscendingIs
<1>10. Pick(bs, q) = bs
  <2>1. Pick(bs, q) = [i \in 1 .. m |-> bs[i]]
    BY <1>7 DEF Pick
  <2> QED BY <2>1
<1> QED BY <1>5, <1>6, <1>9, <1>10 DEF NotEmptyOf

AllKeep(s, bs, cs, W) ==
    /\ DOMAIN bs = DOMAIN cs /\ bs = [p \in DOMAIN cs |-> bs[p]]
    /\ \A p \in DOMAIN cs : KeepsWanted(s, bs[p], cs[p], W)

LEMMA KeptTogether ==
    ASSUME NEW s \in Schemas, NEW W \in SUBSET DOMAIN s.columns, NEW bs, NEW cs, AllKeep(s, bs, cs, W)
    PROVE  LET a == Concatenated(s, bs)
               b == Concatenated(s, cs)
           IN  a.seq = b.seq /\ a.op = b.op /\ \A c \in W : a.cols[c] = b.cols[c]
<1>1. DOMAIN bs = DOMAIN cs
  BY DEF AllKeep
<1>2. \A p \in DOMAIN cs : bs[p].seq = cs[p].seq /\ bs[p].op = cs[p].op
                           /\ \A c \in W : bs[p].cols[c] = cs[p].cols[c]
  BY DEF AllKeep, KeepsWanted
<1>3. [p \in DOMAIN bs |-> bs[p].seq] = [p \in DOMAIN cs |-> cs[p].seq]
  BY <1>1, <1>2
<1>4. [p \in DOMAIN bs |-> bs[p].op] = [p \in DOMAIN cs |-> cs[p].op]
  BY <1>1, <1>2
<1>5. ASSUME NEW c \in W
      PROVE  Concatenated(s, bs).cols[c] = Concatenated(s, cs).cols[c]
  <2>1. [p \in DOMAIN bs |-> bs[p].cols[c]] = [p \in DOMAIN cs |-> cs[p].cols[c]]
    BY <1>1, <1>2
  <2>2. c \in DOMAIN s.columns
    OBVIOUS
  <2>4. \A ds : Concatenated(s, ds).cols[c] = FlattenSeq([p \in DOMAIN ds |-> ds[p].cols[c]])
    BY <2>2, Zenon DEF Concatenated
  <2>5. /\ Concatenated(s, bs).cols[c] = FlattenSeq([p \in DOMAIN bs |-> bs[p].cols[c]])
        /\ Concatenated(s, cs).cols[c] = FlattenSeq([p \in DOMAIN cs |-> cs[p].cols[c]])
    BY <2>4
  <2> QED BY <2>1, <2>5, Zenon
<1>6. /\ Concatenated(s, bs).seq = FlattenSeq([p \in DOMAIN bs |-> bs[p].seq])
      /\ Concatenated(s, cs).seq = FlattenSeq([p \in DOMAIN cs |-> cs[p].seq])
      /\ Concatenated(s, bs).op = FlattenSeq([p \in DOMAIN bs |-> bs[p].op])
      /\ Concatenated(s, cs).op = FlattenSeq([p \in DOMAIN cs |-> cs[p].op])
  BY DEF Concatenated
<1>7. Concatenated(s, bs).seq = Concatenated(s, cs).seq /\ Concatenated(s, bs).op = Concatenated(s, cs).op
  BY <1>3, <1>4, <1>6, Zenon
<1> QED BY <1>5, <1>7

\* Where the columns a key is made of are the same, so are the keys.
LEMMA SameKeys ==
    ASSUME NEW s \in Schemas, NEW a, NEW b, a.seq = b.seq, NEW W,
           Range(s.primary_key) \subseteq W, s.time_index \in W, \A c \in W : a.cols[c] = b.cols[c]
    PROVE  KeysOf(s, a) = KeysOf(s, b)
<1>1. NumRows(a) = NumRows(b)
  BY DEF NumRows
<1>2. ASSUME NEW i PROVE KeyAt(s, a, i) = KeyAt(s, b, i)
  <2>1. PICK P : P = s.primary_key
    OBVIOUS
  <2>2. P \in Seq(DOMAIN s.columns) /\ DOMAIN P = 1 .. Len(P) /\ \A j \in 1 .. Len(P) : P[j] \in DOMAIN s.columns
    BY <2>1, SchemaFacts
  <2>3. PICK x, y : /\ x = [c \in DOMAIN s.columns |-> CellOrEmpty(a.cols[c], i)]
                    /\ y = [c \in DOMAIN s.columns |-> CellOrEmpty(b.cols[c], i)]
    OBVIOUS
  <2>4. \A j \in 1 .. Len(P) : x[P[j]] = y[P[j]]
    <3>1. ASSUME NEW j \in 1 .. Len(P) PROVE x[P[j]] = y[P[j]]
      <4>1. PICK c \in DOMAIN s.columns : c = P[j]
        BY <2>2
      <4>2. c \in W
        BY <2>1, <2>2, <4>1 DEF Range
      <4>3. a.cols[c] = b.cols[c]
        BY <4>2
      <4> QED BY <2>3, <4>1, <4>3
    <3> QED BY <3>1
  <2>5. Encode(x, P) = Encode(y, P)
    <3>1. PICK D : D = DOMAIN s.columns
      OBVIOUS
    <3>2. P \in Seq(D)
      BY <2>2, <3>1
    <3> QED BY <2>4, <3>2, EncodeSame
  <2>6. a.cols[s.time_index] = b.cols[s.time_index]
    OBVIOUS
  <2> QED BY <2>1, <2>3, <2>5, <2>6 DEF KeyAt, EncodeTags
<1> QED BY <1>1, <1>2 DEF KeysOf

-----------------------------------------------------------------------------
(* What a scan of some columns hands out.                                   *)

\* Row groups selected for a range that every row is in hold every row.
LEMMA AllRead ==
    ASSUME NEW s \in Schemas, NEW R, Holdable(s, R), NEW b, HoldsNewest(s, b, R), NEW seed,
           NEW t, t = TableOf(s, b, seed), NEW start \in AnyKey, NEW end \in AnyKey,
           NEW span, TimesOf(span),
           \A i \in 1 .. NumRows(b) : KeyAt(s, b, i) \in Passing(start, end, span),
           NEW read, read = Concatenated(s, Pick(t.groups, SelectRowGroups(t.index.row_groups, start, end, span)))
    PROVE  read = b
<1>1. PICK N : N = NumRows(b)
  OBVIOUS
<1>2. PICK q, I : /\ IsAscending(q, I) /\ q \in Seq(1 .. N) /\ I \subseteq 1 .. N
                  /\ Concatenated(s, Pick(t.groups, SelectRowGroups(t.index.row_groups, start, end, span)))
                         = Chosen(b, q)
                  /\ \A i \in 1 .. N : KeyAt(s, b, i) \in Passing(start, end, span) => i \in I
  BY <1>1, ReadRows
<1>3. I = 1 .. NumRows(b)
  BY <1>1, <1>2
<1>4. IsBatch(s, b) /\ IsAscending(q, 1 .. NumRows(b))
  BY <1>2, <1>3 DEF HoldsNewest
<1>5. Chosen(b, q) = b
  BY <1>4, ChosenWhole
<1> QED BY <1>2, <1>5

\* A scan from the first key to the last reads every row.
LEMMA WholeRead ==
    ASSUME NEW s \in Schemas, NEW R, Holdable(s, R), NEW b, HoldsNewest(s, b, R), NEW seed,
           NEW t, t = TableOf(s, b, seed), NEW metas, metas = t.index.row_groups, metas # <<>>,
           NEW start, start = metas[1].min_key, NEW end, end = metas[Len(metas)].max_key
    PROVE  /\ start \in AnyKey /\ end \in AnyKey /\ ~ KeyBefore(end, start)
           /\ Concatenated(s, Pick(t.groups, SelectRowGroups(metas, start, end, None))) = b
<1>1. PICK N : N = NumRows(b)
  OBVIOUS
<1>2. /\ N \in Nat /\ IsBatch(s, b) /\ KeysAscend(s, b)
      /\ metas = <<>> => N = 0
      /\ metas # <<>> => N # 0 /\ metas[1].min_key = KeyAt(s, b, 1)
                         /\ metas[Len(metas)].max_key = KeyAt(s, b, N)
  <2>1. metas = TableOf(s, b, seed).index.row_groups
    OBVIOUS
  <2> QED BY <1>1, <2>1, FileEnds
<1>3. PICK k \in Nat \ {0} : k = N
  BY <1>2
<1>4. start = KeyAt(s, b, 1) /\ end = KeyAt(s, b, k) /\ k = NumRows(b)
  BY <1>1, <1>2, <1>3
<1>5. \A l \in AnyKey :
        /\ KeyAt(s, b, 1) \in AnyKey /\ KeyAt(s, b, k) \in AnyKey
        /\ ~ KeyBefore(KeyAt(s, b, 1), l) => \A i \in 1 .. k : ~ KeyBefore(KeyAt(s, b, i), l)
        /\ ~ KeyBefore(l, KeyAt(s, b, k)) => \A i \in 1 .. k : ~ KeyBefore(l, KeyAt(s, b, i))
        /\ KeyBefore(KeyAt(s, b, k), l) => \A i \in 1 .. k : KeyBefore(KeyAt(s, b, i), l)
        /\ KeyBefore(l, KeyAt(s, b, 1)) => \A i \in 1 .. k : KeyBefore(l, KeyAt(s, b, i))
  BY <1>2, <1>4, KeysBetween
<1>6. 1 \in 1 .. k /\ k \in 1 .. k
  OBVIOUS
<1>7. \A i \in 1 .. k : KeyAt(s, b, i) \in AnyKey
  BY <1>2, <1>4 DEF KeysAscend
<1>8. start \in AnyKey /\ end \in AnyKey
  BY <1>4, <1>6, <1>7
<1>9. \A i \in 1 .. k : ~ KeyBefore(KeyAt(s, b, i), start) /\ ~ KeyBefore(end, KeyAt(s, b, i))
  <2>1. ~ KeyBefore(start, start) /\ ~ KeyBefore(end, end)
    BY <1>8, KeysOrdered
  <2> QED BY <1>4, <1>5, <1>8, <2>1
<1>10. ~ KeyBefore(end, start)
  BY <1>4, <1>6, <1>9
<1>11. \A i \in 1 .. N : KeyAt(s, b, i) \in Passing(start, end, None)
  <2>1. ASSUME NEW i \in 1 .. k PROVE KeyAt(s, b, i) \in Passing(start, end, None)
    <3>1. Passes(KeyAt(s, b, i), start, end, None)
      BY <1>9, PassesMeans
    <3> QED BY <1>7, <3>1 DEF Passing
  <2> QED BY <1>3, <2>1
<1>12. TimesOf(None)
  BY DEF TimesOf, Range, None
<1>13. PICK full : full = Concatenated(s, Pick(t.groups, SelectRowGroups(t.index.row_groups, start, end, None)))
  OBVIOUS
<1>14. \A i \in 1 .. NumRows(b) : KeyAt(s, b, i) \in Passing(start, end, None)
  BY <1>1, <1>11
<1>15. full = b
  <2>1. PICK x, y, z : x = start /\ y = end /\ z = None
    OBVIOUS
  <2>2. x \in AnyKey /\ y \in AnyKey /\ TimesOf(z)
    BY <1>8, <1>12, <2>1
  <2>3. \A i \in 1 .. NumRows(b) : KeyAt(s, b, i) \in Passing(x, y, z)
    BY <1>14, <2>1
  <2>4. full = Concatenated(s, Pick(t.groups, SelectRowGroups(t.index.row_groups, x, y, z)))
    BY <1>13, <2>1
  <2> QED BY <2>2, <2>3, <2>4, AllRead
<1> QED BY <1>8, <1>10, <1>13, <1>15

LEMMA ProjectionGives ==
    ASSUME NEW s \in Schemas, NEW R, Holdable(s, R), NEW b, HoldsNewest(s, b, R), NEW seed,
           NEW t, t = TableOf(s, b, seed), NEW metas, metas = t.index.row_groups,
           NEW user \in Seq(DOMAIN s.columns), NEW n \in Nat \ {0}, NEW got,
           got = Concatenated(s, ScanBatches(s, t, metas[1].min_key, metas[Len(metas)].max_key, None, user, n))
    PROVE  /\ KeysOf(s, got) = KeysOf(s, b) /\ got.seq = b.seq /\ got.op = b.op
           /\ \A c \in Range(user) : got.cols[c] = b.cols[c]
<1>1. IsBatch(s, b)
  BY DEF HoldsNewest
<1>2. PICK start, end : start = metas[1].min_key /\ end = metas[Len(metas)].max_key
  OBVIOUS
<1>3. got = Concatenated(s, ScanBatches(s, t, start, end, None, user, n))
  BY <1>2
<1>4. CASE metas = <<>>
  <2>1. ScanBatches(s, t, start, end, None, user, n) = <<>>
    BY <1>4, Zenon DEF ScanBatches
  <2>2. NumRows(b) = 0
    <3>1. PICK N : N = NumRows(b)
      OBVIOUS
    <3>2. metas = TableOf(s, b, seed).index.row_groups
      OBVIOUS
    <3>3. /\ N \in Nat /\ IsBatch(s, b) /\ KeysAscend(s, b)
          /\ metas = <<>> => N = 0
          /\ metas # <<>> => N # 0 /\ metas[1].min_key = KeyAt(s, b, 1)
                             /\ metas[Len(metas)].max_key = KeyAt(s, b, N)
      BY <3>1, <3>2, FileEnds
    <3> QED BY <1>4, <3>1, <3>3
  <2>3. PICK K : K = {}
    OBVIOUS
  <2>4. \A i \in 1 .. NumRows(b) : KeyAt(s, b, i) \notin K /\ KeyAt(s, b, i) \in K
    BY <2>2
  <2>5. Concatenated(s, <<>>) = Sifted(s, b, K)
    BY <1>1, <2>4, NothingTogether
  <2>6. Sifted(s, b, K) = b
    BY <1>1, <2>4, SiftedAll
  <2>7. got = b
    BY <1>3, <2>1, <2>5, <2>6
  <2> QED BY <2>7
<1>5. CASE metas # <<>>
  <2>1. /\ start \in AnyKey /\ end \in AnyKey /\ ~ KeyBefore(end, start)
        /\ Concatenated(s, Pick(t.groups, SelectRowGroups(metas, start, end, None))) = b
    BY <1>2, <1>5, WholeRead
  <2>2. ~ KeyBefore(start, start) /\ ~ KeyBefore(end, end)
    BY <2>1, KeysOrdered
  <2>3. PICK W \in SUBSET DOMAIN s.columns :
            /\ Wanted(s, user) = Ascending(W)
            /\ Range(user) \subseteq W /\ Range(s.primary_key) \subseteq W /\ s.time_index \in W
    BY WantedIs
  <2>4. PICK want : want = Wanted(s, user)
    OBVIOUS
  <2>5. PICK read : read = Pieces(b, n)
    OBVIOUS
  <2>6. PICK rebuilt : rebuilt = [i \in DOMAIN read |->
                                    IF Len(want) = Len(s.columns) THEN read[i] ELSE RebuildFullWidth(s, read[i], want)]
    OBVIOUS
  <2>7. ScanBatches(s, t, start, end, None, user, n) = NotEmptyOf(rebuilt)
    <3>1. PICK span, min, max : span = None /\ min = metas[1].min_key /\ max = metas[Len(metas)].max_key
      OBVIOUS
    <3>2. PICK C : C = Concatenated(s, Pick(t.groups, SelectRowGroups(metas, start, end, span)))
      OBVIOUS
    <3>3. PICK part : part = Pieces(C, n)
      OBVIOUS
    <3>4. PICK full : full = (span = None /\ ~ KeyBefore(min, start) /\ ~ KeyBefore(end, max))
      OBVIOUS
    <3>5. PICK made : made = [i \in DOMAIN part |->
                                IF Len(want) = Len(s.columns) THEN part[i] ELSE RebuildFullWidth(s, part[i], want)]
      OBVIOUS
    <3>6. PICK nx : nx = IF full THEN made
                         ELSE [i \in DOMAIN part |-> NextBatch(s, made[i], start, end, span)]
      OBVIOUS
    <3>7. ScanBatches(s, t, start, end, span, user, n) =
            IF metas = <<>> \/ KeyBefore(end, start) \/ KeyBefore(end, min) \/ KeyBefore(max, start) THEN <<>>
            ELSE FlattenSeq([i \in DOMAIN nx |-> IF NumRows(nx[i]) > 0 THEN <<nx[i]>> ELSE <<>>])
      BY <2>4, <3>1, <3>2, <3>3, <3>4, <3>5, <3>6, Zenon DEF ScanBatches
    <3>8. min = start /\ max = end
      BY <1>2, <3>1
    <3>9. full
      BY <2>2, <3>1, <3>4, <3>8
    <3>10. C = b
      BY <2>1, <3>1, <3>2
    <3>11. made = rebuilt
      BY <2>5, <2>6, <3>3, <3>5, <3>10
    <3>12. nx = rebuilt
      BY <3>6, <3>9, <3>11
    <3> QED BY <1>5, <2>1, <3>1, <3>7, <3>8, <3>12 DEF NotEmptyOf
  <2>8. PICK m \in Nat : DOMAIN read = 1 .. m /\ \A p \in 1 .. m : IsBatch(s, read[p]) /\ NumRows(read[p]) > 0
    <3>1. PICK N \in Nat : N = NumRows(b)
      BY <1>1, BatchFacts
    <3>2. LET M == NumRows(b)
              k == PieceCount(M, n)
              cs == Pieces(b, n)
          IN  /\ DOMAIN cs = 1 .. k /\ Len(cs) = k /\ AreBatches(s, cs)
              /\ k \in Nat /\ CutAt(M, n, 0) = 0 /\ CutAt(M, n, k) = M
              /\ \A p \in 0 .. k : CutAt(M, n, p) \in 0 .. M
              /\ \A p \in 1 .. k :
                   /\ CutAt(M, n, p - 1) < CutAt(M, n, p) /\ IsBatch(s, cs[p])
                   /\ cs[p] = Slice(b, CutAt(M, n, p - 1) + 1, CutAt(M, n, p))
                   /\ NumRows(cs[p]) = CutAt(M, n, p) - CutAt(M, n, p - 1)
                   /\ \A j \in 1 .. NumRows(cs[p]) :
                       RowAt(s, cs[p], j) = RowAt(s, b, CutAt(M, n, p - 1) + j)
      BY <1>1, PiecesFacts
    <3>3. PICK m \in Nat : m = PieceCount(N, n)
      BY <3>1, <3>2
    <3>4. DOMAIN read = 1 .. m
      BY <2>5, <3>1, <3>2, <3>3
    <3>5. ASSUME NEW p \in 1 .. m PROVE IsBatch(s, read[p]) /\ NumRows(read[p]) > 0
      <4>1. p - 1 \in 0 .. m /\ p \in 0 .. m
        OBVIOUS
      <4>2. /\ CutAt(N, n, p - 1) \in 0 .. N /\ CutAt(N, n, p) \in 0 .. N
            /\ CutAt(N, n, p - 1) < CutAt(N, n, p) /\ IsBatch(s, read[p])
            /\ NumRows(read[p]) = CutAt(N, n, p) - CutAt(N, n, p - 1)
        BY <2>5, <3>1, <3>2, <3>3, <4>1
      <4> QED BY <4>2
    <3> QED BY <3>4, <3>5
  <2>9. ASSUME NEW p \in 1 .. m PROVE KeepsWanted(s, rebuilt[p], read[p], W)
    <3>1. PICK a : a = read[p]
      OBVIOUS
    <3>2. IsBatch(s, a)
      BY <2>8, <3>1
    <3>3. rebuilt[p] = a \/ rebuilt[p] = RebuildFullWidth(s, a, want)
      BY <2>6, <2>8, <3>1
    <3>4. KeepsWanted(s, a, a, W)
      BY <3>2 DEF KeepsWanted
    <3>5. want = Ascending(W)
      BY <2>3, <2>4
    <3>6. KeepsWanted(s, RebuildFullWidth(s, a, want), a, W)
      BY <3>2, <3>5, RebuiltKeeps
    <3> QED BY <3>1, <3>3, <3>4, <3>6
  <2>10. AllKeep(s, rebuilt, read, W)
    <3>1. DOMAIN rebuilt = DOMAIN read /\ rebuilt = [p \in DOMAIN read |-> rebuilt[p]]
      BY <2>6
    <3> QED BY <2>8, <2>9, <3>1 DEF AllKeep
  <2>11. NotEmptyOf(rebuilt) = rebuilt
    <3>1. DOMAIN rebuilt = 1 .. m /\ rebuilt = [p \in 1 .. m |-> rebuilt[p]]
      BY <2>6, <2>8
    <3>2. \A p \in 1 .. m : NumRows(rebuilt[p]) > 0
      BY <2>8, <2>9 DEF KeepsWanted, NumRows
    <3> QED BY <3>1, <3>2, NoneDropped
  <2>12. got = Concatenated(s, rebuilt)
    BY <1>3, <2>7, <2>11
  <2>13. Concatenated(s, read) = b
    BY <1>1, <2>5, PiecesTogether
  <2>14. /\ got.seq = b.seq /\ got.op = b.op /\ \A c \in W : got.cols[c] = b.cols[c]
    <3>1. PICK y, z : y = Concatenated(s, rebuilt) /\ z = Concatenated(s, read)
      OBVIOUS
    <3>2. y.seq = z.seq /\ y.op = z.op /\ \A c \in W : y.cols[c] = z.cols[c]
      BY <2>10, <3>1, KeptTogether
    <3> QED BY <2>12, <2>13, <3>1, <3>2
  <2>15. KeysOf(s, got) = KeysOf(s, b)
    <3>1. PICK g, C : g = got /\ C = W
      OBVIOUS
    <3>2. /\ Range(s.primary_key) \subseteq C /\ s.time_index \in C
          /\ g.seq = b.seq /\ \A c \in C : g.cols[c] = b.cols[c]
      BY <2>3, <2>14, <3>1
    <3>3. KeysOf(s, g) = KeysOf(s, b)
      BY <3>2, SameKeys
    <3> QED BY <3>1, <3>3
  <2> QED BY <2>3, <2>14, <2>15
<1> QED BY <1>4, <1>5

\* With a projection, whatever columns and in whatever order, the columns asked for
\* come back in their places, and the keys, sequence numbers and operations the
\* merge goes by are those of the file (sstable.rs 340-358, 747-790).
THEOREM ProjectionsKeep == PathSpec => []ProjectionKeepsRows
<1>1. LogInv /\ RowsInv /\ SstInv /\ IsThere => ProjectionKeepsRows
  <2> SUFFICES ASSUME LogInv, RowsInv, SstInv, IsThere, stage = "reopened",
                      NEW asked \in SUBSET DOMAIN schema.columns, NEW n \in BatchSizes \ {1}
               PROVE  LET up == Ascending(asked)
                          user == [i \in DOMAIN up |-> up[Len(up) + 1 - i]]
                          metas == sst[1].index.row_groups
                          got == Concatenated(schema, ScanBatches(schema, sst[1], metas[1].min_key,
                                      metas[Len(metas)].max_key, None, user, n))
                      IN  /\ KeysOf(schema, got) = KeysOf(schema, SstRows)
                          /\ got.seq = SstRows.seq /\ got.op = SstRows.op
                          /\ \A c \in Range(user) : got.cols[c] = SstRows.cols[c]
    BY DEF ProjectionKeepsRows
  <2>1. PICK seed, b : /\ schema \in Schemas /\ Holdable(schema, memtable)
                       /\ HoldsNewest(schema, b, memtable) /\ sst[1] = TableOf(schema, b, seed)
                       /\ SstRows = b
    BY Scanned
  <2>2. PICK s, R, t : s = schema /\ R = memtable /\ t = TableOf(s, b, seed)
    OBVIOUS
  <2>3. s \in Schemas /\ Holdable(s, R) /\ HoldsNewest(s, b, R)
    BY <2>1, <2>2
  <2>4. PICK up : up = Ascending(asked)
    OBVIOUS
  <2>5. PICK user : user = [i \in DOMAIN up |-> up[Len(up) + 1 - i]]
    OBVIOUS
  <2>6. user \in Seq(DOMAIN s.columns)
    <3>1. PICK L \in Nat : DOMAIN s.columns = 1 .. L
      BY <2>3, SchemaFacts
    <3>2. asked \in SUBSET (1 .. L)
      BY <2>2, <3>1
    <3>3. up \in Seq(1 .. L)
      BY <2>4, <3>2, PartAscends
    <3>4. PICK k \in Nat : k = Len(up)
      BY <3>3
    <3>5. DOMAIN up = 1 .. k /\ \A i \in 1 .. k : up[i] \in 1 .. L
      BY <3>3, <3>4
    <3>6. \A i \in 1 .. k : k + 1 - i \in 1 .. k
      OBVIOUS
    <3>7. user \in [1 .. k -> 1 .. L]
      BY <2>5, <3>4, <3>5, <3>6
    <3> QED BY <3>1, <3>7, FunctionSeq
  <2>7. n \in Nat \ {0}
    BY BatchSizesAssumption
  <2>8. PICK metas : metas = t.index.row_groups
    OBVIOUS
  <2>9. PICK got : got = Concatenated(s, ScanBatches(s, t, metas[1].min_key, metas[Len(metas)].max_key, None, user, n))
    OBVIOUS
  <2>10. /\ KeysOf(s, got) = KeysOf(s, b) /\ got.seq = b.seq /\ got.op = b.op
         /\ \A c \in Range(user) : got.cols[c] = b.cols[c]
    BY <2>2, <2>3, <2>6, <2>7, <2>8, <2>9, ProjectionGives
  <2> QED BY <2>1, <2>2, <2>4, <2>5, <2>8, <2>9, <2>10, Zenon
<1> QED BY <1>1, LogAlways, RowsAlways, SstAlways, ThereAlways, PTL
==============================================================================
