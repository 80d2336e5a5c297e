-------------------------- MODULE Durability_proofs --------------------------
(***************************************************************************)
(* Proofs about the directory of a Region and its opening after any number *)
(* of crashes, for any keys, any thresholds and any bounds.  The first     *)
(* half is about files and numbers; the second about the rows in them, and *)
(* how the Region implements a log of transactions until a second stop.    *)
(***************************************************************************)
EXTENDS DurabilityInv, TLAPS, SequenceTheorems, FiniteSetTheorems, WellFoundedInduction

-----------------------------------------------------------------------------
(* What the operators of the model return.                                 *)

\* Of a family of finite sets there is one that includes no smaller one: the
\* strict subset ordering is well-founded.
LEMMA SmallestMember ==
    ASSUME NEW S, S # {}, NEW f \in [S -> FiniteSubsetsOf(S)]
    PROVE  \E n \in S : \A m \in S : <<f[m], f[n]>> \notin StrictSubsetOrdering(S)
<1> DEFINE F == {f[n] : n \in S}
<1>1. F \subseteq FiniteSubsetsOf(S) /\ F # {}
  OBVIOUS
<1>2. PICK A \in F : \A B \in F : <<B, A>> \notin StrictSubsetOrdering(S)
  <2>1. IsWellFoundedOn(StrictSubsetOrdering(S), FiniteSubsetsOf(S))
    BY FS_StrictSubsetOrderingWellFounded
  <2> HIDE DEF F
  <2> QED BY <1>1, <2>1, WFMin, Zenon
<1>3. PICK n \in S : A = f[n]
  OBVIOUS
<1> QED BY <1>2, <1>3

\* Max of a non-empty finite set of numbers is its largest element ...
LEMMA MaxIsLargest ==
    ASSUME NEW S \in SUBSET Nat, S # {}, IsFiniteSet(S)
    PROVE  Max(S) \in S /\ \A s \in S : s <= Max(S)
<1> DEFINE Above(n) == {m \in S : m > n}
           f == [n \in S |-> Above(n)]
<1>1. f \in [S -> FiniteSubsetsOf(S)]
  <2>1. \A n \in S : IsFiniteSet({m \in S : m > n})
    BY FS_Subset
  <2> QED BY <2>1 DEF FiniteSubsetsOf
<1>2. PICK n \in S : \A m \in S : <<f[m], f[n]>> \notin StrictSubsetOrdering(S)
  <2> HIDE DEF f
  <2> QED BY <1>1, SmallestMember
<1>3. ASSUME NEW m \in S, m > n PROVE FALSE
  <2>1. \A x \in S : x > m => x > n
    BY <1>3
  <2>2. Above(m) \subseteq Above(n)
    BY <2>1
  <2>3. m \in Above(n) /\ m \notin Above(m)
    BY <1>3
  <2>4. <<Above(m), Above(n)>> \in StrictSubsetOrdering(S)
    BY <2>2, <2>3 DEF StrictSubsetOrdering
  <2>5. f[m] = Above(m) /\ f[n] = Above(n)
    OBVIOUS
  <2> HIDE DEF Above, f
  <2> QED BY <2>4, <2>5, <1>2
<1>4. \A s \in S : n >= s
  BY <1>3
<1>5. Max(S) \in S /\ \A s \in S : Max(S) >= s
  BY <1>4 DEF Max
<1> QED BY <1>5

\* ... a bounded set of numbers is finite ...
LEMMA MaxOfBounded ==
    ASSUME NEW S \in SUBSET Nat, S # {}, NEW b \in Nat, \A s \in S : s <= b
    PROVE  Max(S) \in S /\ \A s \in S : s <= Max(S)
BY FS_BoundedSetOfNaturals, MaxIsLargest

\* ... and Min of a non-empty one is its smallest element.
LEMMA MinIsSmallest ==
    ASSUME NEW S \in SUBSET Nat, S # {}
    PROVE  Min(S) \in S /\ \A s \in S : Min(S) <= s
<1> DEFINE Under(n) == {m \in S : m < n}
           f == [n \in S |-> Under(n)]
<1>1. f \in [S -> FiniteSubsetsOf(S)]
  <2> SUFFICES ASSUME NEW n \in S PROVE IsFiniteSet({m \in S : m < n})
    BY DEF FiniteSubsetsOf
  <2> DEFINE U == {m \in S : m < n}
  <2>1. n \in Nat
    OBVIOUS
  <2>2. U \in SUBSET Nat /\ \A s \in U : s <= n
    <3>1. U \in SUBSET Nat
      OBVIOUS
    <3>2. ASSUME NEW s \in U PROVE s <= n
      <4>1. s \in Nat /\ s < n
        OBVIOUS
      <4> QED BY <2>1, <4>1
    <3> QED BY <3>1, <3>2
  <2> HIDE DEF U
  <2>3. IsFiniteSet(U)
    BY <2>1, <2>2, FS_BoundedSetOfNaturals
  <2> QED BY <2>3 DEF U
<1>2. PICK n \in S : \A m \in S : <<f[m], f[n]>> \notin StrictSubsetOrdering(S)
  <2> HIDE DEF f
  <2> QED BY <1>1, SmallestMember
<1>3. ASSUME NEW m \in S, m < n PROVE FALSE
  <2>1. \A x \in S : x < m => x < n
    BY <1>3
  <2>2. Under(m) \subseteq Under(n)
    BY <2>1
  <2>3. m \in Under(n) /\ m \notin Under(m)
    BY <1>3
  <2>4. <<Under(m), Under(n)>> \in StrictSubsetOrdering(S)
    BY <2>2, <2>3 DEF StrictSubsetOrdering
  <2>5. f[m] = Under(m) /\ f[n] = Under(n)
    OBVIOUS
  <2> HIDE DEF Under, f
  <2> QED BY <2>4, <2>5, <1>2
<1>4. \A s \in S : n =< s
  BY <1>3
<1>5. Min(S) \in S /\ \A s \in S : Min(S) =< s
  BY <1>4 DEF Min
<1> QED BY <1>5

\* Of rows with bounded sequence numbers some row is newest.
LEMMA SomeRowIsNewest ==
    ASSUME NEW R \in SUBSET Row, R # {}, NEW b \in Nat, \A r \in R : r.seq <= b
    PROVE  NewestRows(R) # {} /\ NewestRows(R) \subseteq R
<1> DEFINE S == {r.seq : r \in R}
<1>1. S \in SUBSET Nat /\ S # {} /\ \A s \in S : s <= b
  BY DEF Row
<1>2. Max(S) \in S /\ \A s \in S : s <= Max(S)
  <2> HIDE DEF S
  <2> QED BY <1>1, MaxOfBounded
<1>3. PICK r \in R : r.seq = Max(S)
  BY <1>2
<1>4. \A q \in R : q.seq <= r.seq
  BY <1>2, <1>3
<1>5. r \in NewestRows(R)
  BY <1>4 DEF NewestRows
<1> QED BY <1>5 DEF NewestRows

\* MaxSeqOf is above the numbers of all rows, and within any bound of them.
LEMMA MaxSeqBounds ==
    ASSUME NEW R \in SUBSET Row, NEW b \in Nat, \A r \in R : r.seq <= b
    PROVE  MaxSeqOf(R) \in Nat /\ MaxSeqOf(R) <= b /\ \A r \in R : r.seq <= MaxSeqOf(R)
<1> DEFINE S == {0} \cup {r.seq : r \in R}
<1>1. S \in SUBSET Nat /\ S # {} /\ \A s \in S : s <= b
  BY DEF Row
<1>2. Max(S) \in S /\ \A s \in S : s <= Max(S)
  <2> HIDE DEF S
  <2> QED BY <1>1, MaxOfBounded
<1>3. MaxSeqOf(R) = Max(S)
  BY DEF MaxSeqOf
<1> QED BY <1>1, <1>2, <1>3

\* Recovery returns rows that were written.
LEMMA RecoveredAreWritten ==
    ASSUME NEW w
    PROVE  Recovered(w) \subseteq Written(w)
BY DEF Recovered, Written

LEMMA WrittenAreRows ==
    ASSUME NEW w \in LogFile
    PROVE  Written(w) \subseteq Row
<1> DEFINE F == [rows : SUBSET Row, torn : BOOLEAN]
<1>1. w.frames \in Seq(F)
  BY DEF LogFile
<1>2. ASSUME NEW i \in DOMAIN w.frames PROVE w.frames[i].rows \subseteq Row
  <2>1. w.frames[i] \in F
    <3> HIDE DEF F
    <3> QED BY <1>1, <1>2, ElementOfSeq, LenProperties
  <2> QED BY <2>1
<1> QED BY <1>2 DEF Written

\* A transaction writes at most as many rows as there are keys, and numbers
\* them one after the other.
LEMMA CountFacts ==
    ASSUME NEW K \in SUBSET Keys, K # {}
    PROVE  /\ Cardinality(K) \in Nat /\ Cardinality(Keys) \in Nat
           /\ Cardinality(K) <= Cardinality(Keys)
           /\ \A k \in K : Cardinality({j \in K : j < k}) \in 0 .. Cardinality(K) - 1
<1>1. IsFiniteSet(Keys) /\ IsFiniteSet(K)
  BY KeysAssumption, FS_Subset
<1>2. Cardinality(K) \in Nat /\ Cardinality(Keys) \in Nat /\ Cardinality(K) <= Cardinality(Keys)
  BY <1>1, FS_CardinalityType, FS_Subset
<1>3. ASSUME NEW k \in K
      PROVE  Cardinality({j \in K : j < k}) \in 0 .. Cardinality(K) - 1
  <2> DEFINE J == {j \in K : j < k}
  <2>1. J \in SUBSET K /\ J # K
    BY KeysAssumption
  <2> HIDE DEF J
  <2>2. Cardinality(J) \in Nat /\ Cardinality(J) <= Cardinality(K) /\ Cardinality(J) # Cardinality(K)
    BY <1>1, <2>1, FS_Subset, FS_CardinalityType
  <2>3. Cardinality(J) \in 0 .. Cardinality(K) - 1
    BY <1>2, <2>2
  <2> QED BY <2>3 DEF J
<1> QED BY <1>2, <1>3

\* One transaction more leaves room for as many rows as there are keys.
LEMMA OneMore ==
    ASSUME NEW t \in Nat, NEW c \in Nat
    PROVE  (t + 1) * c = t * c + c /\ t * c \in Nat
OBVIOUS

-----------------------------------------------------------------------------
(* What is done to a log file.                                             *)

GoodLog(w) == w \in LogFile /\ w.synced <= Len(w.frames)

LEMMA EmptyLogIsGood ==
    GoodLog(EmptyLog) /\ EmptyLog.synced = Len(EmptyLog.frames) /\ Written(EmptyLog) = {}
<1>1. EmptyLog.frames = <<>> /\ EmptyLog.synced = 0 /\ EmptyLog \in LogFile
  BY EmptySeq DEF EmptyLog, LogFile
<1>2. Len(<<>>) = 0 /\ DOMAIN <<>> = {}
  BY EmptySeq, LenProperties
<1> QED BY <1>1, <1>2 DEF GoodLog, Written

\* A log with one frame more ...
LEMMA FrameAppended ==
    ASSUME NEW w, GoodLog(w), NEW f \in [rows : SUBSET Row, torn : BOOLEAN]
    PROVE  /\ Append(w.frames, f) \in Seq([rows : SUBSET Row, torn : BOOLEAN])
           /\ Len(w.frames) \in Nat
           /\ Len(Append(w.frames, f)) = Len(w.frames) + 1
           /\ \A s : Written([frames |-> Append(w.frames, f), synced |-> s])
                        = Written(w) \cup f.rows
<1> DEFINE F == [rows : SUBSET Row, torn : BOOLEAN]
           g == Append(w.frames, f)
<1>1. w.frames \in Seq(F) /\ f \in F
  BY DEF GoodLog, LogFile
<1> HIDE DEF F
<1>2. /\ g \in Seq(F) /\ Len(g) = Len(w.frames) + 1 /\ Len(w.frames) \in Nat
      /\ \A i \in 1 .. Len(w.frames) : g[i] = w.frames[i]
      /\ g[Len(w.frames) + 1] = f
      /\ DOMAIN g = 1 .. Len(w.frames) + 1 /\ DOMAIN w.frames = 1 .. Len(w.frames)
  BY <1>1, AppendProperties, LenProperties
<1> HIDE DEF g
<1>3. ASSUME NEW s
      PROVE  Written([frames |-> g, synced |-> s]) = Written(w) \cup f.rows
  <2>1. \A i \in DOMAIN g : (i \in DOMAIN w.frames /\ g[i] = w.frames[i]) \/ g[i] = f
    BY <1>2
  <2>2. \A i \in DOMAIN w.frames : i \in DOMAIN g /\ g[i] = w.frames[i]
    BY <1>2
  <2>3. \E i \in DOMAIN g : g[i] = f
    BY <1>2
  <2> QED BY <2>1, <2>2, <2>3 DEF Written
<1> QED BY <1>2, <1>3 DEF g, F

\* ... the one of Appended ...
LEMMA AppendedFacts ==
    ASSUME NEW rows \in SUBSET Row, active.wal \in DOMAIN wal, GoodLog(wal[active.wal]),
           Appended(rows)
    PROVE  /\ DOMAIN wal' = DOMAIN wal
           /\ \A n \in DOMAIN wal : n # active.wal => wal'[n] = wal[n]
           /\ GoodLog(wal'[active.wal])
           /\ Written(wal'[active.wal]) = Written(wal[active.wal]) \cup rows
           /\ active' = [active EXCEPT !.rows = active.rows \cup rows]
<1> DEFINE w == wal[active.wal]
           g == Append(w.frames, Frame(rows))
<1>1. Frame(rows) \in [rows : SUBSET Row, torn : BOOLEAN] /\ Frame(rows).rows = rows
  BY DEF Frame
<1>2. /\ g \in Seq([rows : SUBSET Row, torn : BOOLEAN]) /\ Len(w.frames) \in Nat
      /\ Len(g) = Len(w.frames) + 1
      /\ \A s : Written([frames |-> g, synced |-> s]) = Written(w) \cup rows
  BY <1>1, FrameAppended
<1>3. PICK s : s \in {Len(g), w.synced}
                /\ wal' = [wal EXCEPT ![active.wal] = [frames |-> g, synced |-> s]]
  BY DEF Appended
<1>4. /\ DOMAIN wal' = DOMAIN wal
      /\ \A n \in DOMAIN wal : n # active.wal => wal'[n] = wal[n]
      /\ wal'[active.wal] = [frames |-> g, synced |-> s]
  BY <1>3
<1>5. w.synced \in Nat /\ w.synced <= Len(w.frames)
  BY DEF GoodLog, LogFile
<1>6. [frames |-> g, synced |-> s] \in LogFile /\ s <= Len(g)
  BY <1>2, <1>3, <1>5 DEF LogFile
<1> HIDE DEF g
<1>7. GoodLog(wal'[active.wal])
  BY <1>4, <1>6 DEF GoodLog
<1>8. Written(wal'[active.wal]) = Written(wal[active.wal]) \cup rows
  BY <1>2, <1>4
<1>9. active' = [active EXCEPT !.rows = active.rows \cup rows]
  BY DEF Appended
<1> QED BY <1>4, <1>7, <1>8, <1>9

\* ... a log that is synced whole ...
LEMMA ClosedFacts ==
    ASSUME NEW n \in DOMAIN wal, GoodLog(wal[n]), wal' = WalClosed(n)
    PROVE  /\ DOMAIN wal' = DOMAIN wal
           /\ \A m \in DOMAIN wal : m # n => wal'[m] = wal[m]
           /\ GoodLog(wal'[n]) /\ wal'[n].synced = Len(wal'[n].frames)
           /\ Written(wal'[n]) = Written(wal[n])
<1>1. /\ DOMAIN wal' = DOMAIN wal
      /\ \A m \in DOMAIN wal : m # n => wal'[m] = wal[m]
      /\ wal'[n] = [wal[n] EXCEPT !.synced = Len(wal[n].frames)]
  BY DEF WalClosed
<1>2. wal[n] \in LogFile /\ Len(wal[n].frames) \in Nat
  BY LenProperties DEF GoodLog, LogFile
<1>3. wal'[n].frames = wal[n].frames /\ wal'[n].synced = Len(wal[n].frames)
      /\ wal'[n] \in LogFile
  BY <1>1, <1>2 DEF LogFile
<1> QED BY <1>1, <1>2, <1>3 DEF GoodLog, Written

\* ... a log that is gone ...
LEMMA WithoutFacts ==
    ASSUME NEW n, wal' = Without(n)
    PROVE  DOMAIN wal' = DOMAIN wal \ {n} /\ \A m \in DOMAIN wal' : wal'[m] = wal[m]
BY DEF Without, Restrict

\* ... and what a crash leaves of one.
LEMMA CrashLeaves ==
    ASSUME NEW w, GoodLog(w), NEW n \in w.synced .. Len(w.frames), NEW torn \in BOOLEAN,
           NEW left, left = IF torn THEN Append(SubSeq(w.frames, 1, n), TornFrame)
                                    ELSE SubSeq(w.frames, 1, n)
    PROVE  /\ GoodLog([frames |-> left, synced |-> Len(left)])
           /\ Written([frames |-> left, synced |-> Len(left)]) \subseteq Written(w)
<1> DEFINE F == [rows : SUBSET Row, torn : BOOLEAN]
           kept == SubSeq(w.frames, 1, n)
           k == [frames |-> kept, synced |-> 0]
<1>1. w.frames \in Seq(F) /\ n \in Nat /\ n <= Len(w.frames) /\ Len(w.frames) \in Nat
  BY LenProperties DEF GoodLog, LogFile
<1>2. /\ kept \in Seq(F) /\ Len(kept) = n
      /\ \A i \in 1 .. n : kept[i] = w.frames[i]
      /\ DOMAIN kept = 1 .. n /\ DOMAIN w.frames = 1 .. Len(w.frames)
  <2> HIDE DEF F
  <2>1. 1 \in Int /\ n \in Int /\ (\A i \in 1 .. n : i \in 1 .. Len(w.frames))
    BY <1>1
  <2>2. kept \in Seq(F) /\ Len(kept) = n /\ \A i \in 1 .. n : kept[i] = w.frames[1 + i - 1]
    BY <1>1, <2>1, SubSeqProperties
  <2> QED BY <1>1, <2>2, LenProperties
<1> HIDE DEF kept
<1>3. GoodLog(k) /\ Written(k) \subseteq Written(w)
  <2>1. k \in LogFile /\ k.frames = kept /\ 0 <= Len(kept)
    BY <1>1, <1>2 DEF LogFile
  <2>2. GoodLog(k)
    BY <2>1, <1>1, <1>2 DEF GoodLog
  <2>3. \A i \in DOMAIN kept : i \in DOMAIN w.frames /\ kept[i] = w.frames[i]
    BY <1>1, <1>2
  <2>4. Written(k) \subseteq Written(w)
    BY <2>3 DEF Written
  <2> QED BY <2>2, <2>4
<1>4. CASE ~ torn
  <2>1. left = kept /\ Len(left) = n
    BY <1>4, <1>2 DEF kept
  <2> QED BY <2>1, <1>1, <1>2, <1>3 DEF GoodLog, LogFile, Written
<1>5. CASE torn
  <2>1. TornFrame \in F /\ TornFrame.rows = {}
    BY DEF TornFrame
  <2>2. left = Append(k.frames, TornFrame)
    BY <1>5 DEF kept
  <2>3. /\ left \in Seq(F) /\ Len(left) \in Nat
        /\ \A s : Written([frames |-> left, synced |-> s]) = Written(k)
    <3> HIDE DEF k
    <3> DEFINE g == Append(k.frames, TornFrame)
    <3>1. GoodLog(k) /\ TornFrame \in [rows : SUBSET Row, torn : BOOLEAN]
      BY <1>3, <2>1
    <3>2. /\ g \in Seq([rows : SUBSET Row, torn : BOOLEAN])
          /\ Len(k.frames) \in Nat /\ Len(g) = Len(k.frames) + 1
          /\ \A s : Written([frames |-> g, synced |-> s]) = Written(k) \cup TornFrame.rows
      BY <3>1, FrameAppended
    <3> HIDE DEF g
    <3>3. left = g
      BY <2>2 DEF g
    <3>4. left \in Seq(F) /\ Len(left) \in Nat
      <4>1. g \in Seq(F) /\ Len(g) \in Nat
        BY <3>2
      <4> QED BY <3>3, <4>1, Zenon
    <3>5. Written(k) \cup TornFrame.rows = Written(k)
      BY <2>1
    <3> QED BY <3>2, <3>3, <3>4, <3>5
  <2>4. [frames |-> left, synced |-> Len(left)] \in LogFile
    BY <2>3 DEF LogFile
  <2> QED BY <1>3, <2>3, <2>4 DEF GoodLog
<1> QED BY <1>4, <1>5
-----------------------------------------------------------------------------
(* The invariant holds at first, and what an action that leaves a part of  *)
(* the state alone keeps.                                                  *)

LEMMA InitIsDurable == Init => DurableInv
<1> SUFFICES ASSUME Init PROVE DurableInv
  OBVIOUS
<1> USE DEF Init
<1>1. DOMAIN wal = {} /\ DOMAIN sst = {}
  BY EmptySeq, LenProperties
<1>2. Logs
  BY <1>1 DEF Logs, Idle
<1>3. Memtables /\ Phases
  BY DEF Memtables, Phases, Idle
<1>4. Files
  BY <1>1, FS_EmptySet DEF Files, Idle
<1>5. History
  BY EmptySeq DEF History
<1>6. Numbers /\ Ahead
  BY <1>1 DEF Numbers, Used, Ahead
<1> QED BY <1>2, <1>3, <1>4, <1>5, <1>6 DEF DurableInv

LEMMA FilesStay ==
    ASSUME Files, UNCHANGED <<sst, ssts, manifest, worker, sstId>>,
           phase' # "down" => phase # "down"
    PROVE  Files'
BY DEF Files

LEMMA HistoryStays ==
    ASSUME History, UNCHANGED <<log, synced, txns>>
    PROVE  History'
BY DEF History

\* With all logs, memtables and files unchanged their rows are.
LEMMA RowsStay ==
    ASSUME Numbers, UNCHANGED <<wal, sst, active, imm, pending, txns>>, seq' \in Nat,
           phase' = "up" => seq' <= txns * Cardinality(Keys) + 1
    PROVE  Numbers'
BY DEF Numbers, Used, Written

LEMMA NumbersStay ==
    ASSUME Numbers, UNCHANGED <<wal, sst, active, imm, pending, txns, seq, phase>>
    PROVE  Numbers'
BY RowsStay DEF Numbers

LEMMA AheadStays ==
    ASSUME Ahead, UNCHANGED <<sst, active, imm, ssts, seq, phase>>
    PROVE  Ahead'
BY DEF Ahead

-----------------------------------------------------------------------------
(* Steps of an open Region that leave the files alone.                     *)

LEMMA StartFreezeKeeps ==
    ASSUME DurableInv, StartFreeze
    PROVE  DurableInv'
<1> USE DEF StartFreeze, disk, memory, opening, history
<1>1. Logs' /\ Memtables' /\ Phases'
  BY DEF DurableInv, Logs, Memtables, Phases
<1>2. Files' /\ History'
  BY FilesStay, HistoryStays DEF DurableInv
<1>3. Numbers' /\ Ahead'
  BY NumbersStay, AheadStays DEF DurableInv
<1> QED BY <1>1, <1>2, <1>3 DEF DurableInv

LEMMA ExpireKeeps ==
    ASSUME DurableInv, Expire
    PROVE  DurableInv'
<1> USE DEF Expire, disk, memory, opening, history
<1>1. Logs' /\ Memtables' /\ Phases'
  BY DEF DurableInv, Logs, Memtables, Phases
<1>2. Files' /\ History'
  BY FilesStay, HistoryStays DEF DurableInv
<1>3. Numbers' /\ Ahead'
  BY NumbersStay, AheadStays DEF DurableInv
<1> QED BY <1>1, <1>2, <1>3 DEF DurableInv

LEMMA ForkKeeps ==
    ASSUME DurableInv, Fork
    PROVE  DurableInv'
<1> USE DEF Fork, memory, opening, history
<1>1. DOMAIN wal' = DOMAIN wal \cup {active.wal + 1}
  OBVIOUS
<1>2. \A n \in DOMAIN wal : wal'[n] = wal[n]
  OBVIOUS
<1>3. \A n \in DOMAIN wal' : n \notin DOMAIN wal => wal'[n] = EmptyLog
  OBVIOUS
<1>4. active.wal \in Nat /\ active.wal < MaxFreezes /\ phase = "up" /\ phase' = "up"
  BY DEF DurableInv, Memtables
<1>5. Logs'
  <2>1. DOMAIN wal' \subseteq LogNumbers
    BY <1>1, <1>4, BoundAssumption DEF DurableInv, Logs, LogNumbers
  <2>2. ASSUME NEW n \in DOMAIN wal'
        PROVE  /\ wal'[n] \in LogFile /\ wal'[n].synced <= Len(wal'[n].frames)
               /\ wal'[n].synced < Len(wal'[n].frames) => n = active.wal
    <3>1. CASE n \in DOMAIN wal
      BY <3>1, <1>2 DEF DurableInv, Logs
    <3>2. CASE n \notin DOMAIN wal
      BY <3>2, <1>3, EmptyLogIsGood DEF GoodLog, LogFile
    <3> QED BY <3>1, <3>2
  <2>3. active.wal \in DOMAIN wal' /\ active.wal + 1 \in DOMAIN wal'
    BY <1>1, <1>4 DEF DurableInv, Logs
  <2> QED BY <1>4, <2>1, <2>2, <2>3 DEF Logs, LogFile
<1>6. Memtables' /\ Phases'
  BY <1>1 DEF DurableInv, Memtables, Phases
<1>7. Files' /\ History'
  BY FilesStay, HistoryStays DEF DurableInv
<1>8. Numbers'
  <2>1. ASSUME NEW n \in DOMAIN wal' PROVE Used(Written(wal'[n]))
    BY <1>2, <1>3, EmptyLogIsGood DEF DurableInv, Numbers, Used
  <2> QED BY <2>1 DEF DurableInv, Numbers, Used
<1>9. Ahead'
  BY AheadStays DEF DurableInv
<1> QED BY <1>5, <1>6, <1>7, <1>8, <1>9 DEF DurableInv

LEMMA FreezeKeeps ==
    ASSUME DurableInv, Freeze
    PROVE  DurableInv'
<1> USE DEF Freeze
<1>1. /\ active.wal \in DOMAIN wal /\ GoodLog(wal[active.wal]) /\ active.wal + 1 \in DOMAIN wal
      /\ active \in [wal : Nat, rows : SUBSET Row] /\ phase = "up" /\ phase' = "up"
      /\ active.rows # {} /\ active'.wal = active.wal + 1 /\ active'.rows = {}
  BY DEF DurableInv, Logs, Memtables, GoodLog
<1>2. /\ DOMAIN wal' = DOMAIN wal
      /\ \A m \in DOMAIN wal : m # active.wal => wal'[m] = wal[m]
      /\ GoodLog(wal'[active.wal])
      /\ wal'[active.wal].synced = Len(wal'[active.wal].frames)
      /\ Written(wal'[active.wal]) = Written(wal[active.wal])
  BY <1>1, ClosedFacts
<1>3. Logs'
  <2>1. ASSUME NEW n \in DOMAIN wal'
        PROVE  /\ wal'[n] \in LogFile /\ wal'[n].synced = Len(wal'[n].frames)
    <3>1. CASE n = active.wal
      BY <3>1, <1>2 DEF GoodLog
    <3>2. CASE n # active.wal
      <4>1. wal'[n] = wal[n] /\ n \in DOMAIN wal
        BY <3>2, <1>2
      <4>2. /\ wal[n] \in LogFile /\ wal[n].synced <= Len(wal[n].frames)
            /\ ~ (wal[n].synced < Len(wal[n].frames))
        BY <3>2, <4>1 DEF DurableInv, Logs
      <4>3. wal[n].synced \in Nat /\ Len(wal[n].frames) \in Nat
        BY <4>2, LenProperties DEF LogFile
      <4> QED BY <4>1, <4>2, <4>3
    <3> QED BY <3>1, <3>2
  <2>2. \A n \in DOMAIN wal' : wal'[n].synced \in Nat
    BY <2>1 DEF LogFile
  <2> QED BY <1>1, <1>2, <2>1, <2>2 DEF DurableInv, Logs
<1>4. Memtables'
  <2>1. /\ active' \in [wal : Nat, rows : SUBSET Row]
        /\ imm' \subseteq [wal : Nat, rows : SUBSET Row]
    BY <1>1 DEF DurableInv, Memtables
  <2>2. ASSUME NEW m \in imm'
        PROVE  m.wal \in DOMAIN wal' /\ m.wal < active'.wal /\ m.rows # {}
    <3>1. CASE m = active
      BY <3>1, <1>1, <1>2
    <3>2. CASE m \in imm
      <4>1. m.wal \in DOMAIN wal /\ m.wal < active.wal /\ m.rows # {} /\ m.wal \in Nat
        BY <3>2 DEF DurableInv, Memtables
      <4> QED BY <4>1, <1>1, <1>2
    <3> QED BY <3>1, <3>2
  <2>3. \A m \in imm : m.wal # active.wal
    BY <1>1 DEF DurableInv, Memtables
  <2>4. \A m, o \in imm' : m.wal = o.wal => m = o
    BY <2>3 DEF DurableInv, Memtables
  <2>5. ASSUME worker.pc \in {"flush_manifest", "flush_remove"}
        PROVE  worker.wal < active'.wal /\ \A m \in imm' : worker.wal # m.wal
    <3>1. worker.wal < active.wal /\ worker.wal \in Nat /\ \A m \in imm : worker.wal # m.wal
      BY <2>5 DEF DurableInv, Memtables, Files
    <3> QED BY <3>1, <1>1
  <2> QED BY <1>1, <2>1, <2>2, <2>4, <2>5 DEF Memtables, opening, DurableInv
<1>5. Phases'
  BY <1>1 DEF DurableInv, Phases
<1>6. Files'
  BY FilesStay DEF DurableInv
<1>7. History'
  <2>1. Len(log) \in 0 .. txns
    BY LenProperties DEF DurableInv, History
  <2> QED BY <2>1 DEF DurableInv, History
<1>8. Numbers'
  <2>1. ASSUME NEW n \in DOMAIN wal' PROVE Used(Written(wal'[n]))
    BY <1>2 DEF DurableInv, Numbers, Used
  <2> QED BY <1>1, <2>1 DEF DurableInv, Numbers, Used, opening
<1>9. Ahead'
  BY <1>1 DEF DurableInv, Ahead
<1> QED BY <1>3, <1>4, <1>5, <1>6, <1>7, <1>8, <1>9 DEF DurableInv
-----------------------------------------------------------------------------
(* Steps that append to the log in use.                                    *)

LEMMA ActiveLog ==
    ASSUME Logs, phase # "down"
    PROVE  active.wal \in DOMAIN wal /\ GoodLog(wal[active.wal])
BY DEF Logs, GoodLog

LEMMA AppendKeepsLogs ==
    ASSUME Logs, Memtables, phase # "down", UNCHANGED <<phase, writer, orphans, imm, worker>>,
           pending' \subseteq pending,
           NEW rows \in SUBSET Row, Appended(rows)
    PROVE  Logs' /\ Memtables'
<1>1. active.wal \in DOMAIN wal /\ GoodLog(wal[active.wal])
  BY ActiveLog
<1>2. /\ DOMAIN wal' = DOMAIN wal
      /\ \A n \in DOMAIN wal : n # active.wal => wal'[n] = wal[n]
      /\ GoodLog(wal'[active.wal])
      /\ active' = [active EXCEPT !.rows = active.rows \cup rows]
  BY <1>1, AppendedFacts
<1>3. /\ active' \in [wal : Nat, rows : SUBSET Row] /\ active'.wal = active.wal
      /\ active'.rows = active.rows \cup rows
  BY <1>2 DEF Memtables
<1>4. Logs'
  <2>1. ASSUME NEW n \in DOMAIN wal'
        PROVE  /\ wal'[n] \in LogFile /\ wal'[n].synced <= Len(wal'[n].frames)
               /\ wal'[n].synced < Len(wal'[n].frames) => n = active.wal
    <3>1. CASE n = active.wal
      BY <3>1, <1>2 DEF GoodLog
    <3>2. CASE n # active.wal
      BY <3>2, <1>2 DEF Logs
    <3> QED BY <3>1, <3>2
  <2> QED BY <1>1, <1>2, <1>3, <2>1 DEF Logs, LogFile
<1>5. Memtables'
  BY <1>2, <1>3 DEF Memtables
<1> QED BY <1>4, <1>5

\* A transaction's rows are numbered from seq on.
LEMMA WriteKeeps ==
    ASSUME DurableInv, Write
    PROVE  DurableInv'
<1> USE DEF opening
<1>1. PICK K \in (SUBSET Keys) \ {{}} :
        LET rows == {[key |-> k, txn |-> txns + 1,
                      seq |-> seq + Cardinality({j \in K : j < k})] : k \in K}
        IN  /\ Appended(rows)
            /\ seq' = seq + Cardinality(K)
            /\ log' = Append(log, [id |-> txns + 1, keys |-> K])
  BY DEF Write
<1> DEFINE rows == {[key |-> k, txn |-> txns + 1,
                     seq |-> seq + Cardinality({j \in K : j < k})] : k \in K}
           C == Cardinality(Keys)
<1>2. /\ Appended(rows) /\ seq' = seq + Cardinality(K)
      /\ log' = Append(log, [id |-> txns + 1, keys |-> K])
  BY <1>1
<1>3. /\ phase = "up" /\ phase' = "up" /\ txns' = txns + 1
      /\ synced' = (IF ops' = 0 THEN Len(log') ELSE synced)
      /\ UNCHANGED <<sst, manifest, imm, ssts, sstId, writer, worker, orphans, pending>>
  BY DEF Write
<1>4. /\ Cardinality(K) \in Nat /\ C \in Nat /\ Cardinality(K) <= C
      /\ \A k \in K : Cardinality({j \in K : j < k}) \in 0 .. Cardinality(K) - 1
  <2> HIDE DEF C
  <2>1. K \in SUBSET Keys /\ K # {}
    OBVIOUS
  <2>2. /\ Cardinality(K) \in Nat /\ Cardinality(Keys) \in Nat
        /\ Cardinality(K) <= Cardinality(Keys)
        /\ \A k \in K : Cardinality({j \in K : j < k}) \in 0 .. Cardinality(K) - 1
    BY <2>1, CountFacts
  <2> QED BY <2>2 DEF C
<1>5. seq \in Nat /\ txns \in Nat /\ seq <= txns * C + 1 /\ Cardinality(K) \in Nat
  BY <1>3, <1>4 DEF DurableInv, Numbers, History
<1>6. (txns + 1) * C = txns * C + C /\ txns * C \in Nat
  BY <1>4, <1>5, OneMore
<1>7. \A r \in rows : r \in Row /\ r.seq \in seq .. seq + Cardinality(K) - 1
  <2> SUFFICES ASSUME NEW k \in K
               PROVE  LET r == [key |-> k, txn |-> txns + 1,
                                seq |-> seq + Cardinality({j \in K : j < k})]
                      IN  r \in Row /\ r.seq \in seq .. seq + Cardinality(K) - 1
    OBVIOUS
  <2> DEFINE n == Cardinality({j \in K : j < k})
  <2>1. n \in 0 .. Cardinality(K) - 1
    BY <1>4
  <2> HIDE DEF n
  <2>2. seq + n \in Nat /\ seq + n \in seq .. seq + Cardinality(K) - 1
    BY <1>4, <1>5, <2>1
  <2> QED BY <1>5, <2>2 DEF Row, n
<1> HIDE DEF rows, C
<1>8. rows \in SUBSET Row
  BY <1>7
<1>9. Logs' /\ Memtables'
  BY <1>2, <1>3, <1>8, AppendKeepsLogs DEF DurableInv
<1>10. Phases'
  BY <1>3 DEF DurableInv, Phases
<1>11. Files'
  BY <1>3, FilesStay DEF DurableInv
<1>12. History'
  <2>1. log \in Seq(Entry) /\ [id |-> txns + 1, keys |-> K] \in Entry
    BY <1>5 DEF DurableInv, History, Entry
  <2>2. log' \in Seq(Entry) /\ Len(log') = Len(log) + 1 /\ Len(log) \in Nat
    BY <1>2, <2>1, AppendProperties, LenProperties
  <2>3. Len(log) <= txns /\ synced \in 0 .. txns
    BY DEF DurableInv, History
  <2>4. Len(log') \in 0 .. txns + 1 /\ synced \in 0 .. txns + 1
    BY <1>5, <2>2, <2>3
  <2> QED BY <1>3, <1>5, <2>2, <2>4 DEF History
<1>13. \A R : Used(R) /\ R \subseteq Row => \A r \in R : r.seq <= (txns + 1) * C
  <2> SUFFICES ASSUME NEW R, Used(R), R \subseteq Row, NEW r \in R
               PROVE  r.seq <= (txns + 1) * C
    OBVIOUS
  <2>1. r.seq <= txns * C /\ r.seq \in Nat
    BY DEF Used, Row, C
  <2> QED BY <1>4, <1>6, <2>1
<1>14. \A r \in rows : r.seq <= (txns + 1) * C /\ r.seq < seq'
  <2> SUFFICES ASSUME NEW r \in rows
               PROVE  r.seq <= (txns + 1) * C /\ r.seq < seq'
    OBVIOUS
  <2>1. r.seq \in Nat /\ r.seq <= seq + Cardinality(K) - 1
    BY <1>4, <1>5, <1>7
  <2> QED BY <2>1, <1>2, <1>4, <1>5, <1>6
<1>15. /\ active.wal \in DOMAIN wal /\ GoodLog(wal[active.wal])
       /\ active \in [wal : Nat, rows : SUBSET Row]
  BY <1>3, ActiveLog DEF DurableInv, Memtables
<1>16. /\ DOMAIN wal' = DOMAIN wal
       /\ \A n \in DOMAIN wal : n # active.wal => wal'[n] = wal[n]
       /\ Written(wal'[active.wal]) = Written(wal[active.wal]) \cup rows
       /\ active'.rows = active.rows \cup rows
  BY <1>2, <1>8, <1>15, AppendedFacts
<1>17. Numbers'
  <2>1. \A r \in active'.rows : r.seq <= (txns + 1) * C
    BY <1>13, <1>14, <1>15, <1>16 DEF DurableInv, Numbers
  <2>2. \A m \in imm : \A r \in m.rows : r.seq <= (txns + 1) * C
    BY <1>13 DEF DurableInv, Numbers, Memtables
  <2>3. \A i \in DOMAIN sst : \A r \in sst[i] : r.seq <= (txns + 1) * C
    BY <1>13 DEF DurableInv, Numbers, Files
  <2>4. \A n \in DOMAIN wal : \A r \in Written(wal[n]) : r.seq <= (txns + 1) * C
    <3>1. \A n \in DOMAIN wal : Written(wal[n]) \subseteq Row
      BY WrittenAreRows DEF DurableInv, Logs
    <3> QED BY <1>13, <3>1 DEF DurableInv, Numbers
  <2>5. \A n \in DOMAIN wal' : \A r \in Written(wal'[n]) : r.seq <= (txns + 1) * C
    BY <1>14, <1>16, <2>4
  <2>6. seq' \in Nat /\ seq' <= (txns + 1) * C + 1
    BY <1>2, <1>4, <1>5, <1>6
  <2>7. \A r \in pending : r.seq <= (txns + 1) * C
    <3> SUFFICES ASSUME NEW r \in pending PROVE r.seq <= (txns + 1) * C
      OBVIOUS
    <3>1. r \in Row /\ Used(pending)
      BY DEF DurableInv, Numbers, Memtables
    <3> QED BY <3>1, <1>4, <1>6 DEF Used, Row, C
  <2> QED BY <1>3, <2>1, <2>2, <2>3, <2>5, <2>6, <2>7 DEF Numbers, Used, C
<1>18. Ahead'
  <2>1. \A R : R \subseteq Row /\ (\A r \in R : r.seq < seq) => \A r \in R : r.seq < seq'
    <3> SUFFICES ASSUME NEW R, R \subseteq Row, \A r \in R : r.seq < seq, NEW r \in R
                 PROVE  r.seq < seq'
      OBVIOUS
    <3>1. r.seq \in Nat /\ r.seq < seq
      BY DEF Row
    <3> QED BY <3>1, <1>2, <1>4, <1>5
  <2>2. \A r \in active'.rows : r.seq < seq'
    BY <1>3, <1>14, <1>15, <1>16, <2>1 DEF DurableInv, Ahead
  <2>3. \A m \in imm : \A r \in m.rows : r.seq < seq'
    BY <1>3, <2>1 DEF DurableInv, Ahead, Memtables
  <2>4. \A i \in ssts : \A r \in sst[i] : r.seq < seq'
    BY <1>3, <2>1 DEF DurableInv, Ahead, Files
  <2> QED BY <1>3, <2>2, <2>3, <2>4 DEF Ahead
<1> QED BY <1>9, <1>10, <1>11, <1>12, <1>17, <1>18 DEF DurableInv
-----------------------------------------------------------------------------
(* Opening.                                                                *)

\* The rows of the first orphan were written to it.
LEMMA FirstRowsAreWritten ==
    ASSUME NEW W, NEW O \in SUBSET Nat, O \subseteq DOMAIN W, NEW r \in FirstRows(O, W)
    PROVE  \E n \in O : r \in Written(W[n])
<1>1. O # {} /\ r \in NewestRows(Recovered(W[Min(O)]))
  BY DEF FirstRows
<1>2. Min(O) \in O
  BY <1>1, MinIsSmallest
<1>3. r \in Written(W[Min(O)])
  BY <1>1, RecoveredAreWritten DEF NewestRows
<1> QED BY <1>2, <1>3

LEMMA OpenKeeps ==
    ASSUME DurableInv, Open
    PROVE  DurableInv'
<1> DEFINE logs == DOMAIN wal \cup {0}
           last == Max(logs)
           files == [n \in logs |-> IF n \in DOMAIN wal THEN wal[n] ELSE EmptyLog]
<1>1. /\ phase = "down" /\ phase' = "merge" /\ imm' = {}
      /\ wal' = files /\ active' = [wal |-> last, rows |-> Recovered(files[last])]
      /\ orphans' = logs \ {last} /\ pending' = FirstRows(logs \ {last}, files)
      /\ ssts' = Listed \cup Adopted /\ sstId' = Max({0} \cup {i + 1 : i \in Listed \cup Adopted})
      /\ UNCHANGED <<sst, manifest, seq, writer, worker, log, synced, txns>>
  BY DEF Open, history
<1>2. logs \in SUBSET Nat /\ logs \subseteq LogNumbers /\ logs # {}
  BY BoundAssumption DEF DurableInv, Logs, LogNumbers
<1>3. last \in logs
  <2>1. \A n \in logs : n <= MaxFreezes
    BY <1>2, BoundAssumption DEF LogNumbers
  <2> HIDE DEF logs
  <2> QED BY <1>2, <2>1, MaxOfBounded, BoundAssumption
<1>4. ASSUME NEW n \in logs
      PROVE  /\ GoodLog(files[n]) /\ files[n].synced = Len(files[n].frames)
             /\ Used(Written(files[n])) /\ Written(files[n]) \subseteq Row
  <2>1. CASE n \in DOMAIN wal
    <3>1. files[n] = wal[n] /\ GoodLog(wal[n]) /\ ~ (wal[n].synced < Len(wal[n].frames))
      BY <1>1, <2>1 DEF DurableInv, Logs, GoodLog
    <3>2. wal[n].synced \in Nat /\ Len(wal[n].frames) \in Nat
          /\ wal[n].synced <= Len(wal[n].frames)
      BY <3>1, LenProperties DEF GoodLog, LogFile
    <3>3. Used(Written(wal[n])) /\ Written(wal[n]) \subseteq Row
      BY <2>1, <3>1, WrittenAreRows DEF DurableInv, Numbers, GoodLog
    <3> HIDE DEF files
    <3> QED BY <3>1, <3>2, <3>3
  <2>2. CASE n \notin DOMAIN wal
    <3>1. files[n] = EmptyLog
      BY <2>2
    <3> HIDE DEF files
    <3> QED BY <3>1, EmptyLogIsGood DEF Used
  <2> QED BY <2>1, <2>2
<1>5. DOMAIN files = logs
  OBVIOUS
<1>6. worker = Idle /\ writer = "ready"
  BY <1>1 DEF DurableInv, Phases
<1>7. active'.rows \subseteq Row /\ Used(active'.rows)
  <2>1. active'.rows \subseteq Written(files[last])
    BY <1>1, RecoveredAreWritten
  <2> HIDE DEF files, logs, last
  <2> QED BY <1>3, <1>4, <2>1 DEF Used
<1>8. pending' \subseteq Row /\ Used(pending')
  <2>1. \A r \in pending' : \E n \in logs : r \in Written(files[n])
    <3> SUFFICES ASSUME NEW r \in pending' PROVE \E n \in logs : r \in Written(files[n])
      OBVIOUS
    <3> DEFINE O == logs \ {last}
    <3>1. O \in SUBSET Nat /\ O \subseteq DOMAIN files /\ r \in FirstRows(O, files) /\ O \subseteq logs
      BY <1>1, <1>2
    <3> HIDE DEF O, files, logs
    <3> QED BY <3>1, FirstRowsAreWritten
  <2> HIDE DEF files, logs
  <2> QED BY <1>4, <2>1 DEF Used
<1> HIDE DEF files, last
<1>9. Logs'
  <2>1. \A n \in DOMAIN wal' : /\ wal'[n] \in LogFile /\ wal'[n].synced <= Len(wal'[n].frames)
                               /\ ~ (wal'[n].synced < Len(wal'[n].frames))
    <3> SUFFICES ASSUME NEW n \in logs
                 PROVE  /\ files[n] \in LogFile /\ files[n].synced <= Len(files[n].frames)
                        /\ ~ (files[n].synced < Len(files[n].frames))
      BY <1>1, <1>5
    <3>1. GoodLog(files[n]) /\ files[n].synced = Len(files[n].frames)
      BY <1>4
    <3>2. Len(files[n].frames) \in Nat
      BY <3>1, LenProperties DEF GoodLog, LogFile
    <3> QED BY <3>1, <3>2 DEF GoodLog
  <2>2. active'.wal = last /\ DOMAIN wal' = logs
    BY <1>1, <1>5
  <2> QED BY <1>1, <1>2, <1>3, <1>6, <2>1, <2>2 DEF Logs, LogFile
<1>10. Memtables'
  <2>1. active' \in [wal : Nat, rows : SUBSET Row]
    BY <1>1, <1>2, <1>3, <1>7
  <2> QED BY <1>1, <1>6, <1>8, <2>1 DEF Memtables, Idle
<1>11. Phases'
  BY <1>1, <1>6 DEF Phases, Idle
<1>12. Files'
  <2> DEFINE I == Listed \cup Adopted
             S == {0} \cup {i + 1 : i \in I}
  <2>1. /\ DOMAIN sst \in SUBSET Nat /\ IsFiniteSet(DOMAIN sst)
        /\ Listed \subseteq DOMAIN sst /\ Adopted \subseteq DOMAIN sst
    BY DEF DurableInv, Files, Listed, Adopted
  <2>2. S \in SUBSET Nat /\ 0 \in S
    BY <2>1
  <2>3. PICK b \in Nat : \A s \in S : s <= b
    <3>1. CASE DOMAIN sst = {}
      <4>1. S = {0}
        BY <2>1, <3>1
      <4> HIDE DEF S
      <4> QED BY <4>1
    <3>2. CASE DOMAIN sst # {}
      <4>1. Max(DOMAIN sst) \in Nat /\ \A i \in DOMAIN sst : i <= Max(DOMAIN sst)
        BY <2>1, <3>2, MaxIsLargest
      <4>2. ASSUME NEW s \in S PROVE s <= Max(DOMAIN sst) + 1
        <5>1. CASE s = 0
          BY <4>1, <5>1
        <5>2. CASE \E i \in I : s = i + 1
          <6>1. PICK i \in I : s = i + 1
            BY <5>2
          <6>2. i \in Nat /\ i <= Max(DOMAIN sst)
            BY <2>1, <4>1
          <6> QED BY <4>1, <6>1, <6>2
        <5> QED BY <5>1, <5>2
      <4>3. Max(DOMAIN sst) + 1 \in Nat
        BY <4>1
      <4> HIDE DEF S
      <4> QED BY <4>2, <4>3
    <3> QED BY <3>1, <3>2
  <2>4. Max(S) \in Nat /\ \A s \in S : s <= Max(S)
    <3> HIDE DEF S
    <3> QED BY <2>2, <2>3, MaxOfBounded
  <2>5. sstId' = Max(S)
    BY <1>1
  <2>6. ASSUME NEW i \in I PROVE i < sstId'
    <3>1. i + 1 \in S /\ i \in Nat
      BY <2>1
    <3> HIDE DEF S, I
    <3> QED BY <2>4, <2>5, <3>1
  <2>7. ASSUME NEW i \in DOMAIN sst PROVE i < sstId'
    <3>1. CASE i \in I
      BY <2>6, <3>1
    <3>2. CASE i \notin I
      <4>1. PICK j \in Listed : ~ (i > j)
        BY <3>2 DEF Adopted
      <4>2. i \in Nat /\ j \in Nat /\ j < sstId' /\ sstId' \in Nat
        BY <2>1, <2>4, <2>5, <2>6
      <4> QED BY <4>1, <4>2
    <3> QED BY <3>1, <3>2
  <2> HIDE DEF S
  <2>8. ssts' \subseteq DOMAIN sst
    BY <1>1, <2>1
  <2> QED BY <1>1, <1>6, <2>4, <2>5, <2>7, <2>8 DEF DurableInv, Files, Idle
<1>13. History'
  BY <1>1, HistoryStays DEF DurableInv
<1>14. Numbers'
  <2>1. \A n \in DOMAIN wal' : Used(Written(wal'[n]))
    BY <1>1, <1>4, <1>5
  <2> QED BY <1>1, <1>7, <1>8, <2>1 DEF DurableInv, Numbers, Used
<1>15. Ahead'
  BY <1>1 DEF Ahead
<1> QED BY <1>9, <1>10, <1>11, <1>12, <1>13, <1>14, <1>15 DEF DurableInv
LEMMA MergeRowKeeps ==
    ASSUME DurableInv, MergeRow
    PROVE  DurableInv'
<1> USE DEF history
<1>1. PICK r \in pending :
        /\ pending' = pending \ {r}
        /\ IF \E q \in active.rows : q.key = r.key /\ q.seq >= r.seq
           THEN UNCHANGED <<wal, ops, active>>
           ELSE Appended({r})
  BY DEF MergeRow
<1>2. /\ phase = "merge" /\ phase' = "merge"
      /\ UNCHANGED <<sst, manifest, imm, ssts, seq, sstId, writer, worker, orphans,
                     log, synced, txns>>
  BY DEF MergeRow
<1>3. /\ {r} \in SUBSET Row /\ pending' \subseteq pending /\ Used({r}) /\ Used(pending')
      /\ pending' \subseteq Row
  BY <1>1 DEF DurableInv, Memtables, Numbers, Used
<1>4. Files' /\ History' /\ Ahead'
  BY <1>2, FilesStay, HistoryStays DEF DurableInv, Ahead
<1>5. Phases'
  BY <1>2 DEF DurableInv, Phases
<1>6. CASE UNCHANGED <<wal, active>>
  <2>1. Logs' /\ Memtables'
    BY <1>2, <1>3, <1>6 DEF DurableInv, Logs, Memtables
  <2>2. Numbers'
    BY <1>2, <1>3, <1>6 DEF DurableInv, Numbers, Used, Written
  <2> QED BY <1>4, <1>5, <2>1, <2>2 DEF DurableInv
<1>7. CASE Appended({r})
  <2>1. Logs' /\ Memtables'
    BY <1>2, <1>3, <1>7, AppendKeepsLogs DEF DurableInv
  <2>2. /\ active.wal \in DOMAIN wal /\ GoodLog(wal[active.wal])
        /\ active \in [wal : Nat, rows : SUBSET Row]
    BY <1>2, ActiveLog DEF DurableInv, Memtables
  <2>3. /\ DOMAIN wal' = DOMAIN wal
        /\ \A n \in DOMAIN wal : n # active.wal => wal'[n] = wal[n]
        /\ Written(wal'[active.wal]) = Written(wal[active.wal]) \cup {r}
        /\ active'.rows = active.rows \cup {r}
    BY <1>3, <1>7, <2>2, AppendedFacts
  <2>4. \A n \in DOMAIN wal' : Used(Written(wal'[n]))
    BY <1>2, <1>3, <2>3 DEF DurableInv, Numbers, Used
  <2>5. Numbers'
    BY <1>2, <1>3, <2>3, <2>4 DEF DurableInv, Numbers, Used
  <2> QED BY <1>4, <1>5, <2>1, <2>5 DEF DurableInv
<1> QED BY <1>1, <1>6, <1>7

LEMMA RemoveOrphanKeeps ==
    ASSUME DurableInv, RemoveOrphan
    PROVE  DurableInv'
<1> USE DEF memory, history
<1> DEFINE first == Min(orphans)
           O == orphans \ {first}
<1>1. /\ phase = "merge" /\ phase' = "merge" /\ orphans # {}
      /\ wal' = Without(first) /\ orphans' = O /\ pending' = FirstRows(O, wal)
      /\ UNCHANGED <<sst, manifest, active, ops, imm, ssts, seq, sstId, writer, worker,
                     log, synced, txns>>
  BY DEF RemoveOrphan
<1>2. orphans \in SUBSET Nat /\ orphans \subseteq DOMAIN wal \ {active.wal}
  BY <1>1, BoundAssumption DEF DurableInv, Logs, LogNumbers
<1>3. first \in orphans
  BY <1>1, <1>2, MinIsSmallest
<1>4. DOMAIN wal' = DOMAIN wal \ {first} /\ \A m \in DOMAIN wal' : wal'[m] = wal[m]
  BY <1>1, WithoutFacts
<1>5. worker = Idle /\ writer = "ready" /\ imm = {}
  BY <1>1 DEF DurableInv, Phases
<1>6. pending' \subseteq Row /\ Used(pending')
  <2>1. \A r \in pending' : \E n \in O : r \in Written(wal[n])
    <3> SUFFICES ASSUME NEW r \in pending' PROVE \E n \in O : r \in Written(wal[n])
      OBVIOUS
    <3>1. O \in SUBSET Nat /\ O \subseteq DOMAIN wal /\ r \in FirstRows(O, wal)
      BY <1>1, <1>2
    <3> HIDE DEF O
    <3> QED BY <3>1, FirstRowsAreWritten
  <2>2. \A n \in DOMAIN wal : Written(wal[n]) \subseteq Row /\ Used(Written(wal[n]))
    BY WrittenAreRows DEF DurableInv, Logs, Numbers
  <2> QED BY <1>2, <2>1, <2>2 DEF Used
<1> HIDE DEF first
<1>7. Logs'
  BY <1>1, <1>2, <1>3, <1>4, <1>5 DEF DurableInv, Logs
<1>8. Memtables'
  BY <1>1, <1>5, <1>6 DEF DurableInv, Memtables, Idle
<1>9. Phases'
  BY <1>1 DEF DurableInv, Phases
<1>10. Files' /\ History' /\ Ahead'
  BY <1>1, FilesStay, HistoryStays DEF DurableInv, Ahead
<1>11. Numbers'
  BY <1>1, <1>4, <1>6 DEF DurableInv, Numbers, Used
<1> QED BY <1>7, <1>8, <1>9, <1>10, <1>11 DEF DurableInv

\* What opening counts as the log of transactions is no longer than it was.
LEMMA ExplainedIsShorter ==
    ASSUME History
    PROVE  Explained \in Seq(Entry) /\ Len(Explained) <= txns
<1> DEFINE N == {n \in 0 .. Len(log) :
                    \A k \in Keys : Served(Contents, k) = LastWriter(SubSeq(log, 1, n), k)}
<1>1. log \in Seq(Entry) /\ Len(log) \in Nat /\ Len(log) <= txns /\ txns \in Nat
  BY LenProperties DEF History
<1>2. CASE N = {}
  BY <1>1, <1>2 DEF Explained
<1>3. CASE N # {}
  <2>1. N \in SUBSET Nat /\ \A n \in N : n <= Len(log)
    <3>1. N \subseteq 0 .. Len(log)
      OBVIOUS
    <3> HIDE DEF N
    <3> QED BY <1>1, <3>1
  <2>2. Explained = SubSeq(log, 1, Max(N))
    BY <1>3 DEF Explained
  <2> HIDE DEF N
  <2>3. Max(N) \in Nat /\ Max(N) <= Len(log)
    BY <1>1, <1>3, <2>1, MaxOfBounded
  <2>4. Explained \in Seq(Entry) /\ Len(Explained) = Max(N)
    <3> HIDE DEF Entry
    <3>1. 1 \in Int /\ Max(N) \in Int /\ \A i \in 1 .. Max(N) : i \in 1 .. Len(log)
      BY <1>1, <2>3
    <3> QED BY <1>1, <2>2, <2>3, <3>1, SubSeqProperties
  <2> QED BY <1>1, <2>3, <2>4
<1> QED BY <1>2, <1>3

\* The watermark is above the rows of the log and of every listed file.
LEMMA ServeKeeps ==
    ASSUME DurableInv, Serve
    PROVE  DurableInv'
<1> USE DEF opening
<1> DEFINE C == Cardinality(Keys)
           R == active.rows \cup UNION {sst[i] : i \in ssts}
<1>1. /\ phase = "merge" /\ phase' = "up" /\ seq' = Watermark + 1 /\ log' = Explained
      /\ manifest' \in {manifest, [exists |-> TRUE, ids |-> ssts]}
      /\ UNCHANGED <<wal, sst, active, ops, imm, ssts, sstId, writer, worker, orphans, pending,
                     synced, txns>>
  BY DEF Serve
<1>2. worker = Idle /\ writer = "ready" /\ imm = {}
  BY <1>1 DEF DurableInv, Phases
<1>3. R \in SUBSET Row /\ \A r \in R : r.seq <= txns * C
  <2>1. /\ ssts \subseteq DOMAIN sst /\ active.rows \subseteq Row /\ Used(active.rows)
        /\ \A i \in DOMAIN sst : sst[i] \subseteq Row /\ Used(sst[i])
    BY DEF DurableInv, Files, Memtables, Numbers
  <2>2. ASSUME NEW r \in R PROVE r \in Row /\ r.seq <= txns * C
    <3>1. CASE r \in active.rows
      BY <2>1, <3>1 DEF Used
    <3>2. CASE \E i \in ssts : r \in sst[i]
      BY <2>1, <3>2 DEF Used
    <3> QED BY <3>1, <3>2
  <2> HIDE DEF R
  <2> QED BY <2>2
<1>4. txns * C \in Nat
  <2>1. txns \in Nat /\ C \in Nat
    BY KeysAssumption, FS_CardinalityType DEF DurableInv, History
  <2> QED BY <2>1, OneMore
<1> HIDE DEF C
<1>5. Watermark \in Nat /\ Watermark <= txns * C /\ \A r \in R : r.seq <= Watermark
  <2>1. Watermark = MaxSeqOf(R)
    BY DEF Watermark
  <2> HIDE DEF R
  <2> QED BY <1>3, <1>4, <2>1, MaxSeqBounds
<1>6. seq' \in Nat /\ seq' <= txns * C + 1 /\ \A r \in R : r.seq < seq'
  <2>1. \A r \in R : r.seq \in Nat
    BY <1>3 DEF Row
  <2> HIDE DEF R
  <2> QED BY <1>1, <1>4, <1>5, <2>1
<1>7. Logs' /\ Phases'
  BY <1>1, <1>2 DEF DurableInv, Logs, Phases
<1>8. Memtables'
  BY <1>1, <1>2 DEF DurableInv, Memtables
<1>9. Files'
  BY <1>1, <1>2 DEF DurableInv, Files, Idle
<1>10. History'
  BY <1>1, ExplainedIsShorter DEF DurableInv, History
<1>11. Numbers'
  <2>1. seq' <= txns * Cardinality(Keys) + 1
    BY <1>6 DEF C
  <2> QED BY <1>1, <1>6, <2>1, RowsStay DEF DurableInv
<1>12. Ahead'
  BY <1>1, <1>2, <1>6 DEF Ahead
<1> QED BY <1>7, <1>8, <1>9, <1>10, <1>11, <1>12 DEF DurableInv
-----------------------------------------------------------------------------
(* The worker.                                                             *)

\* A new file has a number of its own.
LEMMA NewFileFacts ==
    ASSUME Files, phase # "down", NEW rows, sst' = NewFile(rows)
    PROVE  /\ sstId \notin DOMAIN sst /\ DOMAIN sst' = DOMAIN sst \cup {sstId}
           /\ sst'[sstId] = rows /\ \A i \in DOMAIN sst : sst'[i] = sst[i]
           /\ DOMAIN sst' \subseteq Nat /\ IsFiniteSet(DOMAIN sst')
           /\ \A i \in DOMAIN sst' : i < sstId + 1
<1>1. /\ DOMAIN sst \subseteq Nat /\ IsFiniteSet(DOMAIN sst) /\ sstId \in Nat
      /\ \A i \in DOMAIN sst : i < sstId
  BY DEF Files
<1>2. sstId \notin DOMAIN sst
  BY <1>1
<1>3. /\ DOMAIN sst' = DOMAIN sst \cup {sstId} /\ sst'[sstId] = rows
      /\ \A i \in DOMAIN sst : sst'[i] = sst[i]
  BY <1>2 DEF NewFile
<1>4. IsFiniteSet(DOMAIN sst \cup {sstId})
  BY <1>1, FS_AddElement
<1>5. \A i \in DOMAIN sst \cup {sstId} : i \in Nat /\ i < sstId + 1
  <2> SUFFICES ASSUME NEW i \in DOMAIN sst \cup {sstId} PROVE i \in Nat /\ i < sstId + 1
    OBVIOUS
  <2>1. i \in Nat /\ i <= sstId
    BY <1>1
  <2> QED BY <1>1, <2>1
<1> QED BY <1>2, <1>3, <1>4, <1>5

LEMMA FirstFrozen ==
    ASSUME DurableInv, imm # {}
    PROVE  (CHOOSE m \in imm : \A o \in imm : m.wal <= o.wal) \in imm
<1> DEFINE S == {o.wal : o \in imm}
<1>1. S \in SUBSET Nat /\ S # {}
  BY DEF DurableInv, Memtables
<1>2. Min(S) \in S /\ \A s \in S : Min(S) <= s
  <2> HIDE DEF S
  <2> QED BY <1>1, MinIsSmallest
<1>3. PICK o \in imm : o.wal = Min(S)
  BY <1>2
<1>4. \A p \in imm : o.wal <= p.wal
  BY <1>2, <1>3
<1> QED BY <1>4

LEMMA FlushBuildKeeps ==
    ASSUME DurableInv, FlushBuild
    PROVE  DurableInv'
<1> USE DEF opening, history
<1> DEFINE m == CHOOSE m \in imm : \A o \in imm : m.wal <= o.wal
<1>1. /\ phase = "up" /\ phase' = "up" /\ worker = Idle /\ imm # {}
      /\ sst' = NewFile(NewestRows(m.rows)) /\ imm' = imm \ {m}
      /\ worker' = [pc |-> "flush_manifest", wal |-> m.wal, old |-> {}]
      /\ ssts' = ssts \cup {sstId} /\ sstId' = sstId + 1
      /\ UNCHANGED <<wal, manifest, active, ops, seq, writer, orphans, pending, log, synced,
                     txns>>
  BY DEF FlushBuild
<1>2. m \in imm
  BY <1>1, FirstFrozen
<1> HIDE DEF m
<1>3. /\ m.rows \subseteq Row /\ m.rows # {} /\ m.wal \in Nat /\ m.wal < active.wal
      /\ Used(m.rows) /\ \A r \in m.rows : r.seq < seq
  BY <1>1, <1>2 DEF DurableInv, Memtables, Numbers, Ahead
<1>4. NewestRows(m.rows) # {} /\ NewestRows(m.rows) \subseteq m.rows
  <2>1. txns * Cardinality(Keys) \in Nat
    BY KeysAssumption, FS_CardinalityType, OneMore DEF DurableInv, History
  <2> QED BY <1>3, <2>1, SomeRowIsNewest DEF Used
<1>5. /\ sstId \notin DOMAIN sst /\ DOMAIN sst' = DOMAIN sst \cup {sstId}
      /\ sst'[sstId] = NewestRows(m.rows) /\ \A i \in DOMAIN sst : sst'[i] = sst[i]
      /\ DOMAIN sst' \subseteq Nat /\ IsFiniteSet(DOMAIN sst')
      /\ \A i \in DOMAIN sst' : i < sstId + 1
  BY <1>1, NewFileFacts DEF DurableInv
<1>6. Logs' /\ Phases'
  BY <1>1 DEF DurableInv, Logs, Phases
<1>7. Memtables'
  BY <1>1, <1>2, <1>3 DEF DurableInv, Memtables
<1>8. Files'
  <2>1. /\ ssts' \subseteq DOMAIN sst' /\ manifest'.ids \subseteq DOMAIN sst'
        /\ sstId' \in Nat /\ \A i \in DOMAIN sst' : i < sstId'
    BY <1>1, <1>5 DEF DurableInv, Files
  <2>2. \A i \in DOMAIN sst' : sst'[i] \subseteq Row /\ sst'[i] # {}
    BY <1>3, <1>4, <1>5 DEF DurableInv, Files
  <2>3. worker' \in [pc : {"idle", "flush_manifest", "flush_remove", "compact_manifest",
                           "compact_remove"}, wal : Nat, old : SUBSET DOMAIN sst']
    BY <1>1, <1>3
  <2> QED BY <1>1, <1>5, <2>1, <2>2, <2>3 DEF Files
<1>9. History'
  BY <1>1, HistoryStays DEF DurableInv
<1>10. Numbers'
  <2>1. \A i \in DOMAIN sst' : Used(sst'[i])
    BY <1>3, <1>4, <1>5 DEF DurableInv, Numbers, Used
  <2> QED BY <1>1, <2>1 DEF DurableInv, Numbers, Used, Written
<1>11. Ahead'
  <2>1. \A i \in ssts' : \A r \in sst'[i] : r.seq < seq
    BY <1>1, <1>3, <1>4, <1>5 DEF DurableInv, Ahead, Files
  <2> QED BY <1>1, <2>1 DEF DurableInv, Ahead
<1> QED BY <1>6, <1>7, <1>8, <1>9, <1>10, <1>11 DEF DurableInv

LEMMA WriteManifestKeeps ==
    ASSUME DurableInv, WriteManifest
    PROVE  DurableInv'
<1> USE DEF opening, memory
<1>1. /\ phase = "up" /\ phase' = "up" /\ worker.pc \in {"flush_manifest", "compact_manifest"}
      /\ manifest' = [exists |-> TRUE, ids |-> ssts]
      /\ worker' = [worker EXCEPT !.pc = IF worker.pc = "flush_manifest" THEN "flush_remove"
                                                                         ELSE "compact_remove"]
      /\ UNCHANGED <<wal, sst, active, ops, imm, ssts, seq, sstId, writer, orphans, pending,
                     log, synced, txns>>
  BY DEF WriteManifest
<1>2. worker \in [pc : {"idle", "flush_manifest", "flush_remove", "compact_manifest",
                        "compact_remove"}, wal : Nat, old : SUBSET DOMAIN sst]
  BY DEF DurableInv, Files
<1>3. /\ worker' \in [pc : {"idle", "flush_manifest", "flush_remove", "compact_manifest",
                        "compact_remove"}, wal : Nat, old : SUBSET DOMAIN sst]
      /\ worker'.wal = worker.wal /\ worker'.old = worker.old
      /\ worker'.pc = IF worker.pc = "flush_manifest" THEN "flush_remove" ELSE "compact_remove"
  BY <1>1, <1>2
<1>4. Logs' /\ Phases'
  BY <1>1 DEF DurableInv, Logs, Phases
<1>5. Memtables'
  BY <1>1, <1>3 DEF DurableInv, Memtables
<1>6. Files'
  BY <1>1, <1>3 DEF DurableInv, Files
<1>7. History' /\ Ahead'
  BY <1>1, HistoryStays, AheadStays DEF DurableInv
<1>8. Numbers'
  BY <1>1, NumbersStay DEF DurableInv
<1> QED BY <1>4, <1>5, <1>6, <1>7, <1>8 DEF DurableInv

LEMMA FlushRemoveKeeps ==
    ASSUME DurableInv, FlushRemove
    PROVE  DurableInv'
<1> USE DEF opening, memory, history
<1>1. /\ phase = "up" /\ phase' = "up" /\ worker.pc = "flush_remove" /\ worker' = Idle
      /\ wal' = Without(worker.wal)
      /\ UNCHANGED <<sst, manifest, active, ops, imm, ssts, seq, sstId, writer, orphans,
                     pending, log, synced, txns>>
  BY DEF FlushRemove
<1>2. DOMAIN wal' = DOMAIN wal \ {worker.wal} /\ \A m \in DOMAIN wal' : wal'[m] = wal[m]
  BY <1>1, WithoutFacts
<1>3. /\ active.wal \in Nat /\ worker.wal \in Nat /\ worker.wal < active.wal
      /\ \A m \in imm : worker.wal # m.wal
  BY <1>1 DEF DurableInv, Memtables, Files
<1>4. Logs'
  <2>1. worker.wal # active.wal /\ worker.wal # active.wal + 1
    BY <1>3
  <2> QED BY <1>1, <1>2, <2>1 DEF DurableInv, Logs
<1>5. Memtables'
  BY <1>1, <1>2, <1>3 DEF DurableInv, Memtables, Idle
<1>6. Phases'
  BY <1>1 DEF DurableInv, Phases
<1>7. Files'
  BY <1>1 DEF DurableInv, Files, Idle
<1>8. History' /\ Ahead'
  BY <1>1, HistoryStays, AheadStays DEF DurableInv
<1>9. Numbers'
  BY <1>1, <1>2 DEF DurableInv, Numbers, Used, Written
<1> QED BY <1>4, <1>5, <1>6, <1>7, <1>8, <1>9 DEF DurableInv

LEMMA CompactSwapKeeps ==
    ASSUME DurableInv, CompactSwap
    PROVE  DurableInv'
<1> USE DEF opening, history
<1>1. PICK old \in SUBSET ssts :
        LET kept == NewestRows({r \in UNION {sst[i] : i \in old} : r.key >= cutoff})
        IN  /\ IF kept = {}
               THEN ssts' = ssts \ old /\ UNCHANGED <<sst, sstId>>
               ELSE /\ sst' = NewFile(kept)
                    /\ ssts' = (ssts \ old) \cup {sstId}
                    /\ sstId' = sstId + 1
            /\ worker' = [pc |-> AfterMerge, wal |-> 0, old |-> old]
  <2> DEFINE crowded == {w \in {Window(i) : i \in ssts} :
                            Cardinality(Group(w)) >= CompactThreshold}
             o == Group(Min(crowded))
  <2>1. o \in SUBSET ssts
    BY DEF Group
  <2> HIDE DEF crowded
  <2> QED BY <2>1 DEF CompactSwap, crowded
<1> DEFINE rows == UNION {sst[i] : i \in old}
           kept == NewestRows({r \in rows : r.key >= cutoff})
<1>2. /\ phase = "up" /\ phase' = "up" /\ worker = Idle
      /\ worker' = [pc |-> "compact_manifest", wal |-> 0, old |-> old]
      /\ UNCHANGED <<wal, manifest, active, ops, imm, seq, writer, orphans, pending, log,
                     synced, txns>>
  BY <1>1 DEF CompactSwap, AfterMerge
<1>3. CASE kept = {}
  <2>1. ssts' = ssts \ old /\ UNCHANGED <<sst, sstId>>
    BY <1>1, <1>3
  <2>2. Logs' /\ Phases' /\ Memtables'
    BY <1>2 DEF DurableInv, Logs, Phases, Memtables
  <2>3. Files'
    BY <1>2, <2>1 DEF DurableInv, Files
  <2>4. History' /\ Numbers'
    BY <1>2, <2>1, HistoryStays, NumbersStay DEF DurableInv
  <2>5. Ahead'
    BY <1>2, <2>1 DEF DurableInv, Ahead
  <2> QED BY <2>2, <2>3, <2>4, <2>5 DEF DurableInv
<1>4. CASE kept # {}
  <2>1. sst' = NewFile(kept) /\ ssts' = (ssts \ old) \cup {sstId} /\ sstId' = sstId + 1
    BY <1>1, <1>4
  <2>2. \A r \in kept : \E i \in ssts : r \in sst[i]
    BY DEF NewestRows
  <2> HIDE DEF kept
  <2>3. \A r \in kept : r \in Row /\ r.seq < seq /\ r.seq <= txns * Cardinality(Keys)
    BY <1>2, <2>2 DEF DurableInv, Files, Ahead, Numbers, Used
  <2>4. /\ sstId \notin DOMAIN sst /\ DOMAIN sst' = DOMAIN sst \cup {sstId}
        /\ sst'[sstId] = kept /\ \A i \in DOMAIN sst : sst'[i] = sst[i]
        /\ DOMAIN sst' \subseteq Nat /\ IsFiniteSet(DOMAIN sst')
        /\ \A i \in DOMAIN sst' : i < sstId + 1
    BY <1>2, <2>1, NewFileFacts DEF DurableInv
  <2>5. Logs' /\ Phases' /\ Memtables'
    BY <1>2 DEF DurableInv, Logs, Phases, Memtables
  <2>6. Files'
    <3>1. /\ ssts' \subseteq DOMAIN sst' /\ manifest'.ids \subseteq DOMAIN sst'
          /\ sstId' \in Nat /\ (\A i \in DOMAIN sst' : i < sstId')
          /\ old \subseteq DOMAIN sst' /\ old \cap ssts' = {}
      BY <1>2, <2>1, <2>4 DEF DurableInv, Files
    <3>2. \A i \in DOMAIN sst' : sst'[i] \subseteq Row /\ sst'[i] # {}
      BY <1>4, <2>3, <2>4 DEF DurableInv, Files
    <3>3. worker' \in [pc : {"idle", "flush_manifest", "flush_remove", "compact_manifest",
                             "compact_remove"}, wal : Nat, old : SUBSET DOMAIN sst']
      BY <1>2, <3>1
    <3> QED BY <1>2, <2>4, <3>1, <3>2, <3>3 DEF Files
  <2>7. History'
    BY <1>2, HistoryStays DEF DurableInv
  <2>8. Numbers'
    <3>1. \A i \in DOMAIN sst' : Used(sst'[i])
      BY <2>3, <2>4 DEF DurableInv, Numbers, Used
    <3> QED BY <1>2, <3>1 DEF DurableInv, Numbers, Used, Written
  <2>9. Ahead'
    <3>1. \A i \in ssts' : \A r \in sst'[i] : r.seq < seq
      BY <1>2, <2>1, <2>3, <2>4 DEF DurableInv, Ahead, Files
    <3> QED BY <1>2, <3>1 DEF DurableInv, Ahead
  <2> QED BY <2>5, <2>6, <2>7, <2>8, <2>9 DEF DurableInv
<1> QED BY <1>3, <1>4

LEMMA CompactRemoveKeeps ==
    ASSUME DurableInv, CompactRemove
    PROVE  DurableInv'
<1> USE DEF opening, memory, history
<1>1. PICK i \in worker.old :
        /\ sst' = Restrict(sst, DOMAIN sst \ {i})
        /\ worker' = IF worker.old = {i} THEN Idle ELSE [worker EXCEPT !.old = worker.old \ {i}]
  BY DEF CompactRemove
<1>2. /\ phase = "up" /\ phase' = "up" /\ worker.pc = "compact_remove"
      /\ UNCHANGED <<wal, manifest, active, ops, imm, ssts, seq, sstId, writer, orphans,
                     pending, log, synced, txns>>
  BY DEF CompactRemove
<1>3. /\ worker \in [pc : {"idle", "flush_manifest", "flush_remove", "compact_manifest",
                           "compact_remove"}, wal : Nat, old : SUBSET DOMAIN sst]
      /\ worker.old \cap ssts = {} /\ worker.old \cap manifest.ids = {}
      /\ ssts \subseteq DOMAIN sst /\ manifest.ids \subseteq DOMAIN sst
  BY <1>2 DEF DurableInv, Files
<1>4. DOMAIN sst' = DOMAIN sst \ {i} /\ \A j \in DOMAIN sst' : sst'[j] = sst[j]
  BY <1>1 DEF Restrict
<1>5. /\ worker'.pc \in {"idle", "compact_remove"}
      /\ worker' \in [pc : {"idle", "flush_manifest", "flush_remove", "compact_manifest",
                            "compact_remove"}, wal : Nat, old : SUBSET DOMAIN sst']
      /\ worker'.old \subseteq worker.old
  <2>1. CASE worker.old = {i}
    BY <1>1, <2>1 DEF Idle
  <2>2. CASE worker.old # {i}
    BY <1>1, <1>2, <1>3, <1>4, <2>2
  <2> QED BY <2>1, <2>2
<1>6. Logs' /\ Phases'
  BY <1>2 DEF DurableInv, Logs, Phases
<1>7. Memtables'
  BY <1>2, <1>5 DEF DurableInv, Memtables
<1>8. Files'
  <2>1. IsFiniteSet(DOMAIN sst')
    BY <1>4, FS_RemoveElement DEF DurableInv, Files
  <2>2. ssts' \subseteq DOMAIN sst' /\ manifest'.ids \subseteq DOMAIN sst'
    BY <1>1, <1>2, <1>3, <1>4
  <2> QED BY <1>2, <1>3, <1>4, <1>5, <2>1, <2>2 DEF DurableInv, Files
<1>9. History'
  BY <1>2, HistoryStays DEF DurableInv
<1>10. Numbers'
  BY <1>2, <1>4 DEF DurableInv, Numbers, Used, Written
<1>11. Ahead'
  BY <1>1, <1>2, <1>3, <1>4 DEF DurableInv, Ahead
<1> QED BY <1>6, <1>7, <1>8, <1>9, <1>10, <1>11 DEF DurableInv
-----------------------------------------------------------------------------
(* Stopping.                                                               *)

\* Nothing is left but the files, and the log that was in use is synced.
LEMMA ForgetKeeps ==
    ASSUME DurableInv, Forget, phase # "down",
           NEW w, GoodLog(w), w.synced = Len(w.frames),
           Written(w) \subseteq Written(wal[active.wal]),
           DOMAIN wal' = DOMAIN wal, wal'[active.wal] = w,
           \A n \in DOMAIN wal : n # active.wal => wal'[n] = wal[n],
           synced' \in 0 .. txns
    PROVE  DurableInv'
<1> USE DEF Forget
<1>1. active.wal \in DOMAIN wal
  BY ActiveLog DEF DurableInv
<1>2. Logs'
  <2>1. ASSUME NEW n \in DOMAIN wal'
        PROVE  /\ wal'[n] \in LogFile /\ wal'[n].synced <= Len(wal'[n].frames)
               /\ ~ (wal'[n].synced < Len(wal'[n].frames))
    <3>1. GoodLog(wal'[n]) /\ (n # active.wal => wal'[n] = wal[n])
      BY <2>1 DEF DurableInv, Logs, GoodLog
    <3>2. wal'[n].synced \in Nat /\ Len(wal'[n].frames) \in Nat
      BY <3>1, LenProperties DEF GoodLog, LogFile
    <3>3. CASE n = active.wal
      BY <3>1, <3>2, <3>3 DEF GoodLog
    <3>4. CASE n # active.wal
      BY <3>1, <3>4 DEF DurableInv, Logs
    <3> QED BY <3>3, <3>4
  <2> QED BY <2>1 DEF DurableInv, Logs, LogFile
<1>3. Memtables' /\ Phases'
  BY DEF Memtables, Phases, Idle
<1>4. Files'
  BY DEF DurableInv, Files, Idle
<1>5. History'
  BY DEF DurableInv, History
<1>6. Numbers'
  <2>1. \A n \in DOMAIN wal' : Used(Written(wal'[n]))
    BY <1>1 DEF DurableInv, Numbers, Used
  <2> QED BY <2>1 DEF DurableInv, Numbers, Used
<1>7. Ahead'
  BY DEF Ahead
<1> QED BY <1>2, <1>3, <1>4, <1>5, <1>6, <1>7 DEF DurableInv

LEMMA CloseKeeps ==
    ASSUME DurableInv, Close
    PROVE  DurableInv'
<1>1. phase # "down" /\ wal' = WalClosed(active.wal) /\ synced' = Len(log) /\ Forget
  BY DEF Close
<1>2. active.wal \in DOMAIN wal /\ GoodLog(wal[active.wal])
  BY <1>1, ActiveLog DEF DurableInv
<1>3. /\ DOMAIN wal' = DOMAIN wal
      /\ \A m \in DOMAIN wal : m # active.wal => wal'[m] = wal[m]
      /\ GoodLog(wal'[active.wal])
      /\ wal'[active.wal].synced = Len(wal'[active.wal].frames)
      /\ Written(wal'[active.wal]) = Written(wal[active.wal])
  BY <1>1, <1>2, ClosedFacts
<1>4. synced' \in 0 .. txns
  BY <1>1, LenProperties DEF DurableInv, History
<1> DEFINE w == wal'[active.wal]
<1>5. /\ GoodLog(w) /\ w.synced = Len(w.frames) /\ Written(w) \subseteq Written(wal[active.wal])
      /\ wal'[active.wal] = w
  BY <1>3
<1> HIDE DEF w
<1> QED BY <1>1, <1>3, <1>4, <1>5, ForgetKeeps

LEMMA CrashKeeps ==
    ASSUME DurableInv, Crash
    PROVE  DurableInv'
<1> DEFINE v == wal[active.wal]
<1>1. phase # "down" /\ Forget /\ synced' = synced
  BY DEF Crash
<1>2. active.wal \in DOMAIN wal /\ GoodLog(v)
  BY <1>1, ActiveLog DEF DurableInv
<1>3. PICK n \in v.synced .. Len(v.frames), torn \in {FALSE, TornWrites} :
        LET kept == SubSeq(v.frames, 1, n)
            left == IF torn THEN Append(kept, TornFrame) ELSE kept
        IN  wal' = [wal EXCEPT ![active.wal] = [frames |-> left, synced |-> Len(left)]]
  BY DEF Crash
<1> DEFINE left == IF torn THEN Append(SubSeq(v.frames, 1, n), TornFrame)
                           ELSE SubSeq(v.frames, 1, n)
           w == [frames |-> left, synced |-> Len(left)]
<1>4. wal' = [wal EXCEPT ![active.wal] = w]
  BY <1>3
<1>5. torn \in BOOLEAN
  BY SettingsAssumption
<1>6. GoodLog(w) /\ Written(w) \subseteq Written(v)
  <2>1. left = IF torn THEN Append(SubSeq(v.frames, 1, n), TornFrame)
                       ELSE SubSeq(v.frames, 1, n)
    OBVIOUS
  <2> HIDE DEF left, v
  <2> QED BY <1>2, <1>3, <1>5, <2>1, CrashLeaves
<1>7. w.synced = Len(w.frames)
  <2> HIDE DEF left
  <2> QED OBVIOUS
<1> HIDE DEF w
<1>8. /\ DOMAIN wal' = DOMAIN wal /\ wal'[active.wal] = w
      /\ \A m \in DOMAIN wal : m # active.wal => wal'[m] = wal[m]
  BY <1>2, <1>4
<1>9. synced' \in 0 .. txns
  BY <1>1 DEF DurableInv, History
<1> QED BY <1>1, <1>6, <1>7, <1>8, <1>9, ForgetKeeps

-----------------------------------------------------------------------------
(* The theorems.                                                           *)

LEMMA StutterIsDurable ==
    ASSUME DurableInv, UNCHANGED vars
    PROVE  DurableInv'
<1> USE DEF vars, disk, memory, opening, history
<1>1. Logs' /\ Memtables' /\ Phases' /\ Files' /\ History'
  BY DEF DurableInv, Logs, Memtables, Phases, Files, History
<1>2. Numbers' /\ Ahead'
  BY NumbersStay, AheadStays DEF DurableInv
<1> QED BY <1>1, <1>2 DEF DurableInv

LEMMA NextKeepsDurable ==
    ASSUME DurableInv, [Next]_vars
    PROVE  DurableInv'
<1>1. CASE Opening
  BY <1>1, OpenKeeps, MergeRowKeeps, RemoveOrphanKeeps, ServeKeeps DEF Opening
<1>2. CASE Write
  BY <1>2, WriteKeeps
<1>3. CASE StartFreeze
  BY <1>3, StartFreezeKeeps
<1>4. CASE Freezing
  BY <1>4, ForkKeeps, FreezeKeeps DEF Freezing
<1>5. CASE Worker
  BY <1>5, FlushBuildKeeps, WriteManifestKeeps, FlushRemoveKeeps, CompactSwapKeeps,
     CompactRemoveKeeps DEF Worker
<1>6. CASE Expire
  BY <1>6, ExpireKeeps
<1>7. CASE Close
  BY <1>7, CloseKeeps
<1>8. CASE Crash
  BY <1>8, CrashKeeps
<1>9. CASE UNCHANGED vars
  BY <1>9, StutterIsDurable
<1> QED BY <1>1, <1>2, <1>3, <1>4, <1>5, <1>6, <1>7, <1>8, <1>9 DEF Next

\* The invariant of the directory holds at every step of opening, writing,
\* freezing, flushing, merging, expiring, closing and crashing, in any order
\* (memtable.rs 70-187, 228-255, 313-545, 657-678, 884-890).
THEOREM DirectoryCorrect == Spec => []DurableInv
<1>1. Init => DurableInv
  BY InitIsDurable
<1>2. DurableInv /\ [Next]_vars => DurableInv'
  BY NextKeepsDurable
<1> QED BY <1>1, <1>2, PTL DEF Spec

\* Every variable has its type, and of all logs only the one in use has
\* frames that a crash may take (wal.rs 63-97, 129-139).
THEOREM DirectoryTypes == Spec => []TypeOK
<1>1. ASSUME DurableInv PROVE TypeOK
  <2>1. /\ phase \in {"down", "merge", "up"} /\ writer \in {"ready", "freeze", "forked"}
        /\ DOMAIN wal \subseteq LogNumbers
        /\ (phase # "down" => active.wal \in DOMAIN wal)
        /\ ssts \subseteq DOMAIN sst
        /\ \A i \in DOMAIN sst : sst[i] \subseteq Row /\ sst[i] # {}
    BY <1>1 DEF DurableInv, Logs, Phases, Files
  <2>2. ASSUME NEW n \in DOMAIN wal
        PROVE  /\ \A i \in DOMAIN wal[n].frames : wal[n].frames[i].rows \subseteq Row
               /\ wal[n].synced \in 0 .. Len(wal[n].frames)
               /\ wal[n].synced < Len(wal[n].frames) => phase # "down" /\ n = active.wal
    <3>1. /\ wal[n] \in LogFile /\ wal[n].synced <= Len(wal[n].frames)
          /\ wal[n].synced < Len(wal[n].frames) => phase # "down" /\ n = active.wal
      BY <1>1 DEF DurableInv, Logs
    <3>2. Written(wal[n]) \subseteq Row
      BY <3>1, WrittenAreRows
    <3>3. \A i \in DOMAIN wal[n].frames : wal[n].frames[i].rows \subseteq Row
      BY <3>2 DEF Written
    <3>4. wal[n].synced \in Nat /\ Len(wal[n].frames) \in Nat
      BY <3>1, LenProperties DEF LogFile
    <3> QED BY <3>1, <3>3, <3>4
  <2>3. active.rows \subseteq Row /\ \A m \in imm : m.wal \in DOMAIN wal /\ m.rows \subseteq Row
    BY <1>1 DEF DurableInv, Memtables
  <2>4. synced \in 0 .. txns /\ Len(log) <= txns
    BY <1>1 DEF DurableInv, History
  <2> QED BY <2>1, <2>2, <2>3, <2>4 DEF TypeOK
<1> QED BY <1>1, DirectoryCorrect, PTL

\* Recovery never skips a file that the manifest lists: there is none missing,
\* wherever a crash falls between merge, manifest and removal
\* (memtable.rs 158-187, 512-541).
THEOREM ListedFilesExist == Spec => []ManifestNamesFiles
<1>1. DurableInv => ManifestNamesFiles
  BY DEF DurableInv, Files, ManifestNamesFiles
<1> QED BY <1>1, DirectoryCorrect, PTL

\* No sequence number in reach and no file name is handed out again, after any
\* number of restarts (memtable.rs 313-406, 475-503).
THEOREM NumbersStayAhead == Spec => []CountersAhead
<1>1. ASSUME DurableInv PROVE CountersAhead
  <2> SUFFICES ASSUME phase = "up"
               PROVE  /\ \A r \in Contents : r.seq < seq
                      /\ \A i \in DOMAIN sst : i < sstId
    BY DEF CountersAhead
  <2>1. \A i \in DOMAIN sst : i < sstId
    BY <1>1 DEF DurableInv, Files
  <2>2. \A r \in Contents : r.seq < seq
    BY <1>1 DEF DurableInv, Ahead, Contents
  <2> QED BY <2>1, <2>2
<1> QED BY <1>1, DirectoryCorrect, PTL

-----------------------------------------------------------------------------
(* What a reader of a set of rows is given.                                *)

Bounded(R) == R \in SUBSET Row /\ \E b \in Nat : \A r \in R : r.seq <= b

LEMMA BoundedUnion ==
    ASSUME NEW A, NEW B, Bounded(A), Bounded(B)
    PROVE  Bounded(A \cup B)
<1>1. PICK a \in Nat : \A r \in A : r.seq <= a
  BY DEF Bounded
<1>2. PICK b \in Nat : \A r \in B : r.seq <= b
  BY DEF Bounded
<1>3. A \in SUBSET Row /\ B \in SUBSET Row
  BY DEF Bounded
<1>4. ASSUME NEW r \in A \cup B PROVE r.seq <= a + b
  <2>1. r.seq \in Nat /\ (r.seq <= a \/ r.seq <= b)
    BY <1>1, <1>2, <1>3 DEF Row
  <2> QED BY <2>1
<1>5. a + b \in Nat
  OBVIOUS
<1> QED BY <1>3, <1>4, <1>5 DEF Bounded

LEMMA BoundedSubset ==
    ASSUME NEW A, Bounded(A), NEW B \in SUBSET A
    PROVE  Bounded(B)
BY DEF Bounded

\* Every row is covered by a newest one of its key.
LEMMA NewestOfKey ==
    ASSUME NEW R, Bounded(R), NEW r \in R
    PROVE  \E q \in NewestRows(R) : q.key = r.key /\ r.seq <= q.seq
<1> DEFINE S == {q \in R : q.key = r.key}
<1>1. PICK b \in Nat : \A q \in R : q.seq <= b
  BY DEF Bounded
<1>2. S \in SUBSET Row /\ S # {} /\ \A q \in S : q.seq <= b
  BY <1>1 DEF Bounded
<1>3. NewestRows(S) # {} /\ NewestRows(S) \subseteq S
  <2> HIDE DEF S
  <2> QED BY <1>2, SomeRowIsNewest
<1>4. PICK q \in NewestRows(S) : TRUE
  BY <1>3
<1>5. q \in NewestRows(R) /\ q.key = r.key /\ r.seq <= q.seq
  BY <1>3, <1>4 DEF NewestRows
<1> QED BY <1>5

LEMMA NewestIsSame ==
    ASSUME NEW R, Bounded(R)
    PROVE  SameNewest(NewestRows(R), R)
<1>1. NewestRows(R) \subseteq NewestRows(NewestRows(R))
  BY DEF NewestRows
<1>2. NewestRows(NewestRows(R)) \subseteq NewestRows(R)
  BY DEF NewestRows
<1> QED BY <1>1, <1>2 DEF SameNewest

\* The same rows added to sets with the same newest rows.
LEMMA NewestWithMore ==
    ASSUME NEW A, NEW B, NEW C, Bounded(A), Bounded(B), Bounded(C), SameNewest(A, B)
    PROVE  SameNewest(A \cup C, B \cup C)
<1>1. ASSUME NEW X, NEW Y, Bounded(X), Bounded(Y), NewestRows(X) = NewestRows(Y),
             NEW r \in NewestRows(X \cup C)
      PROVE  r \in NewestRows(Y \cup C)
  <2>1. r \in Y \cup C
    BY <1>1 DEF NewestRows
  <2>2. ASSUME NEW q \in Y \cup C, q.key = r.key PROVE q.seq <= r.seq
    <3>1. CASE q \in C
      BY <1>1, <2>2, <3>1 DEF NewestRows
    <3>2. CASE q \in Y
      <4>1. PICK p \in NewestRows(Y) : p.key = q.key /\ q.seq <= p.seq
        BY <1>1, <3>2, NewestOfKey
      <4>2. p \in X /\ p.key = r.key
        BY <1>1, <2>2, <4>1 DEF NewestRows
      <4>3. p.seq <= r.seq
        BY <1>1, <4>2 DEF NewestRows
      <4>4. p.seq \in Nat /\ q.seq \in Nat /\ r.seq \in Nat
        BY <1>1, <2>1, <3>2, <4>2 DEF Bounded, Row
      <4> QED BY <4>1, <4>3, <4>4
    <3> QED BY <2>2, <3>1, <3>2
  <2> QED BY <2>1, <2>2 DEF NewestRows
<1>2. NewestRows(A) = NewestRows(B)
  BY DEF SameNewest
<1>3. NewestRows(A \cup C) \subseteq NewestRows(B \cup C)
  BY <1>1, <1>2
<1>4. NewestRows(B \cup C) \subseteq NewestRows(A \cup C)
  BY <1>1, <1>2
<1> QED BY <1>3, <1>4 DEF SameNewest

\* What lies between a set and rows that cover it.
LEMMA NewestBetween ==
    ASSUME NEW A, NEW X, NEW B, Bounded(B), A \subseteq X, X \subseteq B, SameNewest(B, A)
    PROVE  SameNewest(B, X)
<1>1. NewestRows(A) = NewestRows(B) /\ NewestRows(A) \subseteq A
  BY DEF SameNewest, NewestRows
<1>2. ASSUME NEW r \in NewestRows(B) PROVE r \in NewestRows(X)
  BY <1>1 DEF NewestRows
<1>3. ASSUME NEW r \in NewestRows(X) PROVE r \in NewestRows(B)
  <2>1. r \in X /\ r \in B
    BY DEF NewestRows
  <2>2. ASSUME NEW q \in B, q.key = r.key PROVE q.seq <= r.seq
    <3>1. PICK p \in NewestRows(B) : p.key = q.key /\ q.seq <= p.seq
      BY NewestOfKey
    <3>2. p \in X /\ p.key = r.key
      BY <1>1, <2>2, <3>1
    <3>3. p.seq <= r.seq
      BY <3>2 DEF NewestRows
    <3>4. p.seq \in Nat /\ q.seq \in Nat /\ r.seq \in Nat
      BY <2>1, <3>2 DEF Bounded, Row
    <3> QED BY <3>1, <3>3, <3>4
  <2> QED BY <2>1, <2>2 DEF NewestRows
<1> QED BY <1>2, <1>3 DEF SameNewest

\* A row that another one covers may go.
LEMMA NewestWithoutOlder ==
    ASSUME NEW X, NEW r, Bounded(X \cup {r}), OneRowPerNumber(X \cup {r}),
           NEW q \in X, q.key = r.key, q.seq >= r.seq
    PROVE  SameNewest(X, X \cup {r})
<1>1. \A p \in X \cup {r} : p.seq \in Nat
  BY DEF Bounded, Row
<1>2. ASSUME NEW p \in NewestRows(X) PROVE p \in NewestRows(X \cup {r})
  <2>1. p \in X
    BY DEF NewestRows
  <2>2. ASSUME r.key = p.key PROVE r.seq <= p.seq
    <3>1. q.seq <= p.seq
      BY <2>2 DEF NewestRows
    <3>2. r.seq \in Nat /\ q.seq \in Nat /\ p.seq \in Nat
      BY <1>1, <2>1
    <3> QED BY <3>1, <3>2
  <2> QED BY <2>1, <2>2 DEF NewestRows
<1>3. ASSUME NEW p \in NewestRows(X \cup {r}) PROVE p \in NewestRows(X)
  <2>1. CASE p \in X
    BY <2>1 DEF NewestRows
  <2>2. CASE p = r
    <3>1. q.seq <= r.seq
      BY <2>2 DEF NewestRows
    <3>2. q.seq = r.seq
      BY <1>1, <3>1
    <3>3. q = r
      BY <3>2 DEF OneRowPerNumber
    <3> QED BY <2>1, <2>2, <3>3
  <2> QED BY <2>1, <2>2 DEF NewestRows
<1> QED BY <1>2, <1>3 DEF SameNewest

LEMMA SameIsServed ==
    ASSUME NEW A, NEW B, SameNewest(A, B)
    PROVE  /\ \A k : Served(A, k) = Served(B, k)
           /\ \A l : Explains(l, A) => Explains(l, B)
<1>1. \A k : Served(A, k) = Served(B, k)
  BY DEF SameNewest, Served
<1> QED BY <1>1 DEF Explains

NewerThan(W, R) == \A r \in R, w \in W : r.seq < w.seq
OnePerKey(W) == \A v, w \in W : v.key = w.key => v = w

\* New rows, one of a key and newer than all others, are served; of another
\* key is served what was.
LEMMA ServedWithNew ==
    ASSUME NEW R, NEW W, Bounded(R), Bounded(W), NEW k,
           NewerThan(W, R), OnePerKey(W)
    PROVE  /\ \A w \in W : w.key = k => Served(R \cup W, k) = w.txn
           /\ (\A w \in W : w.key # k) => Served(R \cup W, k) = Served(R, k)
<1>0. \A r \in R \cup W : r.seq \in Nat
  BY DEF Bounded, Row
<1>1. ASSUME NEW w \in W, w.key = k PROVE Served(R \cup W, k) = w.txn
  <2> DEFINE top == {r \in NewestRows(R \cup W) : r.key = k}
  <2>1. w \in top
    <3>1. ASSUME NEW q \in R \cup W, q.key = w.key PROVE q.seq <= w.seq
      <4>1. CASE q \in R
        BY <4>1, <1>0 DEF NewerThan
      <4>2. CASE q \in W
        <5>1. q = w
          BY <3>1, <4>2 DEF OnePerKey
        <5> QED BY <5>1, <1>0
      <4> QED BY <4>1, <4>2
    <3> QED BY <1>1, <3>1 DEF NewestRows
  <2>2. ASSUME NEW r \in top PROVE r = w
    <3>1. r \in R \cup W /\ r.key = k /\ w.seq <= r.seq
      BY <1>1 DEF NewestRows
    <3>2. CASE r \in R
      <4>1. r.seq < w.seq /\ r.seq \in Nat /\ w.seq \in Nat
        BY <1>0, <3>2 DEF NewerThan
      <4> QED BY <3>1, <4>1
    <3>3. CASE r \in W
      BY <1>1, <3>1, <3>3 DEF OnePerKey
    <3> QED BY <3>1, <3>2, <3>3
  <2>3. top = {w}
    BY <2>1, <2>2
  <2> HIDE DEF top
  <2>4. (CHOOSE r \in top : TRUE) = w /\ top # {}
    BY <2>3
  <2> QED BY <2>4 DEF Served, top
<1>2. ASSUME \A w \in W : w.key # k PROVE Served(R \cup W, k) = Served(R, k)
  <2> DEFINE T == {r \in NewestRows(R \cup W) : r.key = k}
             U == {r \in NewestRows(R) : r.key = k}
  <2>1. T = U
    BY <1>2 DEF NewestRows
  <2>2. /\ Served(R \cup W, k) = IF T = {} THEN 0 ELSE (CHOOSE r \in T : TRUE).txn
        /\ Served(R, k) = IF U = {} THEN 0 ELSE (CHOOSE r \in U : TRUE).txn
    BY DEF Served
  <2> HIDE DEF T, U
  <2> QED BY <2>1, <2>2
<1> QED BY <1>1, <1>2

-----------------------------------------------------------------------------
(* The log of transactions.                                                *)

\* The last writer of a key, when a transaction is added ...
LEMMA LastWriterAfter ==
    ASSUME NEW l \in Seq(Entry), NEW e \in Entry, NEW k
    PROVE  LastWriter(Append(l, e), k) = IF k \in e.keys THEN e.id ELSE LastWriter(l, k)
<1> DEFINE m == Append(l, e)
           n == Len(l)
           W == {i \in DOMAIN m : k \in m[i].keys}
           V == {i \in DOMAIN l : k \in l[i].keys}
<1>1. /\ m \in Seq(Entry) /\ n \in Nat /\ Len(m) = n + 1
      /\ DOMAIN l = 1 .. n /\ DOMAIN m = 1 .. n + 1
      /\ \A i \in 1 .. n : m[i] = l[i]
      /\ m[n + 1] = e
  BY AppendProperties, LenProperties
<1> HIDE DEF m, n
<1>2. CASE k \in e.keys
  <2>1. n + 1 \in W /\ W \in SUBSET Nat /\ \A i \in W : i <= n + 1
    BY <1>1, <1>2
  <2>2. Max(W) \in W /\ \A i \in W : i <= Max(W)
    <3> HIDE DEF W
    <3>1. n + 1 \in Nat
      BY <1>1
    <3> QED BY <2>1, <3>1, MaxOfBounded
  <2>3. Max(W) = n + 1
    <3> HIDE DEF W
    <3>1. Max(W) <= n + 1 /\ n + 1 <= Max(W) /\ Max(W) \in Nat
      BY <2>1, <2>2
    <3> QED BY <3>1, <1>1
  <2>4. LastWriter(m, k) = m[Max(W)].id
    BY <2>1 DEF LastWriter
  <2> QED BY <1>1, <1>2, <2>3, <2>4 DEF m
<1>3. CASE k \notin e.keys
  <2>1. W = V
    BY <1>1, <1>3
  <2>2. CASE V = {}
    BY <1>3, <2>1, <2>2 DEF LastWriter, m
  <2>3. CASE V # {}
    <3>1. V \in SUBSET Nat /\ V \subseteq 1 .. n /\ \A i \in V : i <= n
      BY <1>1
    <3>2. Max(V) \in V
      <4> HIDE DEF V
      <4> QED BY <1>1, <2>3, <3>1, MaxOfBounded
    <3>3. m[Max(V)] = l[Max(V)]
      BY <1>1, <3>1, <3>2
    <3>4. LastWriter(m, k) = m[Max(W)].id /\ LastWriter(l, k) = l[Max(V)].id
      BY <2>1, <2>3 DEF LastWriter
    <3> QED BY <1>3, <2>1, <3>3, <3>4 DEF m
  <2> QED BY <2>2, <2>3
<1> QED BY <1>2, <1>3

LEMMA FirstOfLog ==
    ASSUME NEW l \in Seq(Entry), NEW e \in Entry
    PROVE  /\ SubSeq(l, 1, Len(l)) = l
           /\ \A n \in 0 .. Len(l) : SubSeq(Append(l, e), 1, n) = SubSeq(l, 1, n)
           /\ SubSeq(l, 1, 0) = <<>>
<1>1. Append(l, e) \in Seq(Entry) /\ Len(Append(l, e)) = Len(l) + 1 /\ Len(l) \in Nat
      /\ \A i \in 1 .. Len(l) : Append(l, e)[i] = l[i] /\ l[i] \in Entry
  BY AppendProperties, LenProperties, ElementOfSeq
<1>2. SubSeq(l, 1, Len(l)) = l
  BY SubSeqFull
<1>3. SubSeq(l, 1, 0) = <<>>
  BY SubSeqEmpty
<1>4. ASSUME NEW n \in 0 .. Len(l) PROVE SubSeq(Append(l, e), 1, n) = SubSeq(l, 1, n)
  <2> DEFINE m == Append(l, e)
             s == SubSeq(m, 1, n)
             t == SubSeq(l, 1, n)
  <2>1. n \in Nat /\ n <= Len(l) /\ n \in Int /\ 1 \in Int
    BY <1>1
  <2>2. \A i \in 1 .. n : m[i] = l[i] /\ l[i] \in Entry /\ m[i] \in Entry
    BY <1>1, <2>1
  <2> HIDE DEF m
  <2>3. s \in Seq(Entry) /\ Len(s) = n /\ \A i \in 1 .. n : s[i] = m[i]
    <3>1. /\ s \in Seq(Entry) /\ Len(s) = IF 1 <= n THEN n - 1 + 1 ELSE 0
          /\ \A i \in 1 .. n - 1 + 1 : s[i] = m[1 + i - 1]
      BY <2>1, <2>2, SubSeqProperties
    <3> QED BY <2>1, <3>1
  <2>4. t \in Seq(Entry) /\ Len(t) = n /\ \A i \in 1 .. n : t[i] = l[i]
    <3>1. /\ t \in Seq(Entry) /\ Len(t) = IF 1 <= n THEN n - 1 + 1 ELSE 0
          /\ \A i \in 1 .. n - 1 + 1 : t[i] = l[1 + i - 1]
      BY <2>1, <2>2, SubSeqProperties
    <3> QED BY <2>1, <3>1
  <2> HIDE DEF s, t
  <2>5. s = t
    BY <2>2, <2>3, <2>4, SeqEqual
  <2> QED BY <2>5 DEF s, t, m
<1> QED BY <1>2, <1>3, <1>4

\* ... explains what is served with its rows.
LEMMA ExplainsNew ==
    ASSUME NEW l \in Seq(Entry), NEW e \in Entry, NEW R, NEW W, Bounded(R), Bounded(W),
           Explains(l, R),
           NewerThan(W, R), OnePerKey(W),
           e.keys = {w.key : w \in W}, \A w \in W : w.txn = e.id
    PROVE  Explains(Append(l, e), R \cup W)
<1> SUFFICES ASSUME NEW k \in Keys
             PROVE  Served(R \cup W, k) = LastWriter(Append(l, e), k)
  BY DEF Explains
<1>1. LastWriter(Append(l, e), k) = IF k \in e.keys THEN e.id ELSE LastWriter(l, k)
  BY LastWriterAfter
<1>2. /\ \A w \in W : w.key = k => Served(R \cup W, k) = w.txn
      /\ (\A w \in W : w.key # k) => Served(R \cup W, k) = Served(R, k)
  BY ServedWithNew
<1>3. CASE k \in e.keys
  <2>1. PICK w \in W : w.key = k
    BY <1>3
  <2> QED BY <1>1, <1>2, <1>3, <2>1
<1>4. CASE k \notin e.keys
  <2>1. \A w \in W : w.key # k
    BY <1>4
  <2>2. Served(R, k) = LastWriter(l, k)
    BY DEF Explains
  <2> QED BY <1>1, <1>2, <1>4, <2>1, <2>2
<1> QED BY <1>3, <1>4

LEMMA NothingExplained == Explains(<<>>, {})
<1>1. DOMAIN <<>> = {}
  BY EmptySeq, LenProperties
<1> QED BY <1>1 DEF Explains, Served, NewestRows, LastWriter

-----------------------------------------------------------------------------
(* The rows of frames.                                                     *)

LEMMA FramesOfLog ==
    ASSUME NEW w \in LogFile, \A i \in DOMAIN w.frames : ~ w.frames[i].torn
    PROVE  /\ Recovered(w) = Written(w)
           /\ Recovered(w) = FirstFrames(w.frames, Len(w.frames))
           /\ FirstFrames(w.frames, 0) = {}
           /\ \A n \in 0 .. Len(w.frames) : FirstFrames(w.frames, n) \subseteq Recovered(w)
<1>1. DOMAIN w.frames = 1 .. Len(w.frames) /\ Len(w.frames) \in Nat
  BY LenProperties DEF LogFile
<1>2. Recovered(w) = Written(w)
  <2>1. ASSUME NEW j \in DOMAIN w.frames PROVE \A h \in 1 .. j : ~ w.frames[h].torn
    BY <1>1
  <2> QED BY <2>1 DEF Recovered, Written
<1>3. Written(w) = FirstFrames(w.frames, Len(w.frames))
  BY <1>1 DEF Written, FirstFrames
<1>4. FirstFrames(w.frames, 0) = {}
  BY DEF FirstFrames
<1>5. ASSUME NEW n \in 0 .. Len(w.frames) PROVE FirstFrames(w.frames, n) \subseteq Written(w)
  <2>1. \A i \in 1 .. n : i \in DOMAIN w.frames
    BY <1>1
  <2> QED BY <2>1 DEF FirstFrames, Written
<1> QED BY <1>2, <1>3, <1>4, <1>5

LEMMA EmptyLogHasNone ==
    Recovered(EmptyLog) = {} /\ Len(EmptyLog.frames) = 0 /\ DOMAIN EmptyLog.frames = {}
<1>1. EmptyLog.frames = <<>> /\ DOMAIN <<>> = {} /\ Len(<<>>) = 0
  BY EmptySeq, LenProperties DEF EmptyLog
<1> QED BY <1>1 DEF Recovered

\* A frame more, and what a crash leaves of the log.
LEMMA FrameMore ==
    ASSUME NEW w \in LogFile, NEW f \in [rows : SUBSET Row, torn : BOOLEAN]
    PROVE  /\ \A n \in 0 .. Len(w.frames) :
                 FirstFrames(Append(w.frames, f), n) = FirstFrames(w.frames, n)
           /\ FirstFrames(Append(w.frames, f), Len(w.frames) + 1)
                 = FirstFrames(w.frames, Len(w.frames)) \cup f.rows
<1> DEFINE F == [rows : SUBSET Row, torn : BOOLEAN]
           g == Append(w.frames, f)
           n == Len(w.frames)
<1>1. w.frames \in Seq(F) /\ f \in F
  BY DEF LogFile
<1> HIDE DEF F
<1>2. n \in Nat /\ (\A i \in 1 .. n : g[i] = w.frames[i]) /\ g[n + 1] = f
  BY <1>1, AppendProperties, LenProperties
<1> HIDE DEF g, n
<1>3. ASSUME NEW m \in 0 .. n PROVE FirstFrames(g, m) = FirstFrames(w.frames, m)
  <2>1. \A i \in 1 .. m : g[i] = w.frames[i]
    BY <1>2
  <2> QED BY <2>1 DEF FirstFrames
<1>4. FirstFrames(g, n + 1) = FirstFrames(w.frames, n) \cup f.rows
  <2>1. 1 .. n + 1 = (1 .. n) \cup {n + 1}
    BY <1>2
  <2>2. FirstFrames(g, n + 1) = FirstFrames(g, n) \cup g[n + 1].rows
    BY <2>1 DEF FirstFrames
  <2> QED BY <1>2, <1>3, <2>2
<1> QED BY <1>3, <1>4 DEF g, n

LEMMA CrashLeavesFrames ==
    ASSUME NEW w \in LogFile, \A i \in DOMAIN w.frames : ~ w.frames[i].torn,
           NEW n \in 0 .. Len(w.frames), NEW torn \in BOOLEAN,
           NEW left, left.frames = IF torn THEN Append(SubSeq(w.frames, 1, n), TornFrame)
                                           ELSE SubSeq(w.frames, 1, n)
    PROVE  Recovered(left) = FirstFrames(w.frames, n)
<1> DEFINE F == [rows : SUBSET Row, torn : BOOLEAN]
           kept == SubSeq(w.frames, 1, n)
<1>1. w.frames \in Seq(F) /\ n \in Nat /\ n <= Len(w.frames) /\ Len(w.frames) \in Nat
  BY LenProperties DEF LogFile
<1>2. /\ kept \in Seq(F) /\ Len(kept) = n
      /\ \A i \in 1 .. n : kept[i] = w.frames[i] /\ ~ w.frames[i].torn
      /\ DOMAIN kept = 1 .. n
  <2> HIDE DEF F
  <2>1. 1 \in Int /\ n \in Int /\ \A i \in 1 .. n : i \in 1 .. Len(w.frames)
    BY <1>1
  <2>2. \A i \in 1 .. n : w.frames[i] \in F /\ i \in DOMAIN w.frames
    BY <1>1, <2>1, ElementOfSeq, LenProperties
  <2>3. kept \in Seq(F) /\ Len(kept) = (IF 1 <= n THEN n - 1 + 1 ELSE 0)
        /\ \A i \in 1 .. n - 1 + 1 : kept[i] = w.frames[1 + i - 1]
    BY <2>1, <2>2, SubSeqProperties
  <2>4. kept \in Seq(F) /\ Len(kept) = n /\ \A i \in 1 .. n : kept[i] = w.frames[i]
    BY <1>1, <2>3
  <2> QED BY <2>2, <2>4, LenProperties
<1>3. CASE ~ torn
  <2>1. left.frames = kept
    BY <1>3
  <2> HIDE DEF kept
  <2>2. \A j \in 1 .. n : \A h \in 1 .. j : h \in 1 .. n /\ ~ kept[h].torn
    BY <1>1, <1>2
  <2>3. {j \in DOMAIN left.frames : \A h \in 1 .. j : ~ left.frames[h].torn} = 1 .. n
    BY <1>2, <2>1, <2>2
  <2>4. Recovered(left) = UNION {left.frames[i].rows : i \in 1 .. n}
    BY <2>3, Zenon DEF Recovered
  <2>5. UNION {left.frames[i].rows : i \in 1 .. n} = UNION {w.frames[i].rows : i \in 1 .. n}
    BY <1>2, <2>1
  <2> QED BY <2>4, <2>5 DEF FirstFrames
<1>4. CASE torn
  <2> DEFINE g == Append(kept, TornFrame)
  <2>1. left.frames = g
    BY <1>4
  <2>2. TornFrame \in F /\ TornFrame.torn
    BY DEF TornFrame
  <2> HIDE DEF F, kept
  <2>3. /\ \A i \in 1 .. n : g[i] = kept[i]
        /\ g[n + 1] = TornFrame
        /\ DOMAIN g = 1 .. n + 1
    <3>1. /\ g \in Seq(F) /\ Len(g) = Len(kept) + 1
          /\ \A i \in 1 .. Len(kept) : g[i] = kept[i]
          /\ g[Len(kept) + 1] = TornFrame
      BY <1>2, <2>2, AppendProperties
    <3>2. DOMAIN g = 1 .. Len(g)
      BY <3>1, LenProperties
    <3> HIDE DEF g
    <3> QED BY <1>2, <3>1, <3>2
  <2> HIDE DEF g
  <2>4. ASSUME NEW j \in 1 .. n PROVE \A h \in 1 .. j : ~ g[h].torn
    BY <1>1, <1>2, <2>3
  <2>5. ~ (\A h \in 1 .. n + 1 : ~ g[h].torn)
    <3>1. n + 1 \in 1 .. n + 1
      BY <1>1
    <3> QED BY <2>2, <2>3, <3>1
  <2>6. 1 .. n + 1 = (1 .. n) \cup {n + 1}
    BY <1>1
  <2>7. {j \in DOMAIN g : \A h \in 1 .. j : ~ g[h].torn} = 1 .. n
    <3>1. n + 1 \notin 1 .. n
      BY <1>1
    <3> QED BY <2>3, <2>4, <2>5, <2>6, <3>1
  <2>8. \A i \in 1 .. n : g[i].rows = w.frames[i].rows
    BY <1>2, <2>3
  <2>9. Recovered(left) = UNION {g[i].rows : i \in 1 .. n}
    BY <2>1, <2>7, Zenon DEF Recovered
  <2>10. UNION {g[i].rows : i \in 1 .. n} = UNION {w.frames[i].rows : i \in 1 .. n}
    BY <2>8
  <2> QED BY <2>9, <2>10 DEF FirstFrames
<1> QED BY <1>3, <1>4

-----------------------------------------------------------------------------
(* The sets of rows the invariant speaks of.                               *)

\* Every row in memory and in a file has one of the numbers used so far.
LEMMA AllBounded ==
    DurableInv => /\ Bounded(OldInFiles) /\ Bounded(OldToFind) /\ Bounded(OldInMemory)
                  /\ Bounded(active.rows) /\ Bounded(pending) /\ Bounded(OnDisk)
                  /\ Bounded(Contents) /\ (phase = "merge" => Bounded(InReach))
                  /\ \A i \in DOMAIN sst : Bounded(sst[i])
                  /\ \A m \in imm : Bounded(m.rows)
<1> SUFFICES ASSUME DurableInv
             PROVE  /\ Bounded(OldInFiles) /\ Bounded(OldToFind) /\ Bounded(OldInMemory)
                    /\ Bounded(active.rows) /\ Bounded(pending) /\ Bounded(OnDisk)
                    /\ Bounded(Contents) /\ (phase = "merge" => Bounded(InReach))
                    /\ \A i \in DOMAIN sst : Bounded(sst[i])
                    /\ \A m \in imm : Bounded(m.rows)
  OBVIOUS
<1> DEFINE b == txns * Cardinality(Keys)
           All == {r \in Row : r.seq <= b}
<1>1. b \in Nat
  BY KeysAssumption, FS_CardinalityType, OneMore DEF DurableInv, History
<1> HIDE DEF b
<1>2. Bounded(All)
  BY <1>1 DEF Bounded
<1>3. active.rows \subseteq All /\ pending \subseteq All
  BY DEF DurableInv, Memtables, Numbers, Used, b
<1>4. ASSUME NEW i \in DOMAIN sst PROVE sst[i] \subseteq All
  BY DEF DurableInv, Files, Numbers, Used, b
<1>5. ASSUME NEW m \in imm PROVE m.rows \subseteq All
  BY DEF DurableInv, Memtables, Numbers, Used, b
<1>6. ASSUME NEW n \in DOMAIN wal PROVE Recovered(wal[n]) \subseteq All
  <2>1. Written(wal[n]) \subseteq Row
    BY WrittenAreRows DEF DurableInv, Logs
  <2>2. Used(Written(wal[n]))
    BY DEF DurableInv, Numbers
  <2>3. Recovered(wal[n]) \subseteq Written(wal[n])
    BY RecoveredAreWritten
  <2> QED BY <2>1, <2>2, <2>3 DEF Used, b
<1> HIDE DEF All
<1>7. /\ ssts \subseteq DOMAIN sst /\ Listed \cup Adopted \subseteq DOMAIN sst
      /\ (phase = "merge" => LaterOrphans \subseteq DOMAIN wal)
  BY DEF DurableInv, Files, Listed, Adopted, Logs, LaterOrphans
<1>8. \A N \in SUBSET DOMAIN wal : RowsOfLogs(N) \subseteq All
  BY <1>6 DEF RowsOfLogs
<1>9. \A I \in SUBSET DOMAIN sst : RowsOfFiles(I) \subseteq All
  BY <1>4 DEF RowsOfFiles
<1>10. OldInFiles \subseteq All /\ OldToFind \subseteq All /\ OldInMemory \subseteq All /\ OnDisk \subseteq All
  <2>1. OldLogs \in SUBSET DOMAIN wal
    BY DEF OldLogs
  <2>2. UNION {m.rows : m \in imm} \subseteq All
    BY <1>5
  <2> QED BY <2>1, <2>2, <1>7, <1>8, <1>9 DEF OldInFiles, OldToFind, OldInMemory, OnDisk
<1>11. Contents \subseteq All
  BY <1>3, <1>4, <1>5, <1>7 DEF Contents
<1>12. ASSUME phase = "merge" PROVE InReach \subseteq All
  BY <1>3, <1>7, <1>8, <1>9, <1>12 DEF InReach
<1>13. \A R \in SUBSET All : Bounded(R)
  BY <1>2, BoundedSubset
<1> QED BY <1>3, <1>4, <1>5, <1>10, <1>11, <1>12, <1>13

\* What is in memory and left the log in use is in the files too.
LEMMA MemoryIsInFiles ==
    DurableInv /\ LogsOfMemtables /\ FirstRun => OldInMemory \subseteq OldInFiles
<1> SUFFICES ASSUME DurableInv, LogsOfMemtables, FirstRun
             PROVE  OldInMemory \subseteq OldInFiles
  OBVIOUS
<1>1. ASSUME NEW m \in imm PROVE m.rows \subseteq RowsOfLogs(OldLogs)
  <2>1. m.rows = Recovered(wal[m.wal])
    BY DEF LogsOfMemtables
  <2>2. m.wal \in DOMAIN wal /\ m.wal < active.wal /\ m.wal \in Nat /\ active.wal \in Nat
    BY DEF DurableInv, Memtables
  <2>3. m.wal \in OldLogs
    BY <2>2 DEF OldLogs
  <2> QED BY <2>1, <2>3 DEF RowsOfLogs
<1>2. RowsOfFiles(ssts) \subseteq RowsOfFiles(DOMAIN sst)
  BY DEF DurableInv, Files, RowsOfFiles
<1> QED BY <1>1, <1>2 DEF OldInMemory, OldInFiles

\* What a restart would find is in the files.
LEMMA FindableIsInFiles == OldToFind \subseteq OldInFiles
<1>1. Listed \cup Adopted \subseteq DOMAIN sst
  BY DEF Listed, Adopted
<1> QED BY <1>1 DEF OldToFind, OldInFiles, RowsOfFiles

LEMMA ListedIsFindable ==
    DurableInv /\ LogsOfMemtables /\ FirstRun /\ manifest.ids = ssts => OldInMemory \subseteq OldToFind
<1> SUFFICES ASSUME DurableInv, LogsOfMemtables, FirstRun, manifest.ids = ssts
             PROVE  OldInMemory \subseteq OldToFind
  OBVIOUS
<1>1. ASSUME NEW m \in imm PROVE m.rows \subseteq RowsOfLogs(OldLogs)
  <2>1. m.rows = Recovered(wal[m.wal])
    BY DEF LogsOfMemtables
  <2>2. m.wal \in DOMAIN wal /\ m.wal < active.wal /\ m.wal \in Nat /\ active.wal \in Nat
    BY DEF DurableInv, Memtables
  <2>3. m.wal \in OldLogs
    BY <2>2 DEF OldLogs
  <2> QED BY <2>1, <2>3 DEF RowsOfLogs
<1>2. ssts = Listed
  BY DEF DurableInv, Files, Listed
<1> QED BY <1>1, <1>2 DEF OldInMemory, OldToFind, RowsOfFiles

\* An open Region serves what is in memory and in the log in use.
LEMMA WhatIsServed ==
    Contents = OldInMemory \cup active.rows
BY DEF Contents, OldInMemory, RowsOfFiles

LEMMA UpIsUp ==
    ASSUME phase' = "up"
    PROVE  StopKeepsLog' /\ OpeningKeepsLog' /\ NothingYet'
BY DEF StopKeepsLog, OpeningKeepsLog, NothingYet

LEMMA NotFirstRun ==
    ASSUME phase' # "up" \/ stops' # 0
    PROVE  FramesAreLog' /\ LogsOfMemtables' /\ OldIsKept'
BY DEF FirstRun, FramesAreLog, LogsOfMemtables, OldIsKept

-----------------------------------------------------------------------------
(* The worker keeps what is served, and what a restart would serve.        *)

LEMMA WorkerStep ==
    ASSUME DurableInv, DurableInv', LogParts, phase = "up", phase' = "up",
           UNCHANGED <<active, ops, seq, writer, log, synced, stops>>,
           active.wal \in DOMAIN wal', DOMAIN wal' \subseteq DOMAIN wal,
           \A n \in DOMAIN wal' : wal'[n] = wal[n],
           imm' \subseteq imm,
           SameNewest(OldInMemory, OldInMemory'),
           FirstRun => /\ OldInFiles' \subseteq OldInFiles
                       /\ manifest'.ids = ssts' \/ OldToFind \subseteq OldToFind'
                       /\ worker'.pc \in {"flush_remove", "compact_remove"} =>
                                manifest'.ids = ssts'
    PROVE  LogParts'
<1>1. /\ Bounded(OldInFiles) /\ Bounded(OldToFind) /\ Bounded(OldInMemory)
      /\ Bounded(active.rows) /\ Bounded(Contents)
  BY AllBounded
<1>2. Bounded(OldInMemory')
  <2>1. DurableInv' => Bounded(OldInMemory)'
    BY AllBounded, PTL
  <2> QED BY <2>1
<1>3. ServesLog'
  <2>1. Contents = OldInMemory \cup active.rows /\ Contents' = OldInMemory' \cup active.rows
    <3>1. (Contents = OldInMemory \cup active.rows)'
      BY WhatIsServed, PTL
    <3> QED BY <3>1, WhatIsServed
  <2>2. SameNewest(Contents, Contents')
    BY <1>1, <1>2, <2>1, NewestWithMore
  <2>3. Explains(log, Contents')
    BY <2>2, SameIsServed DEF LogParts, ServesLog
  <2> QED BY <2>3 DEF LogParts, ServesLog
<1>4. CASE ~ FirstRun
  BY <1>3, <1>4, UpIsUp, NotFirstRun DEF LogParts, FirstRun
<1>5. CASE FirstRun
  <2>1. Frames' = Frames /\ Before' = Before /\ wal'[active.wal] = wal[active.wal]
    BY DEF Frames, Before
  <2>2. FramesAreLog'
    <3>1. ASSUME NEW n \in 0 .. Len(Frames)
          PROVE  Explains(SubSeq(log, 1, Before + n), OldInMemory' \cup FirstFrames(Frames, n))
      <4>1. Explains(SubSeq(log, 1, Before + n), OldInMemory \cup FirstFrames(Frames, n))
        BY <1>5 DEF LogParts, FramesAreLog
      <4>2. Bounded(FirstFrames(Frames, n))
        <5>1. wal[active.wal] \in LogFile /\ (\A i \in DOMAIN Frames : ~ Frames[i].torn)
          BY <1>5 DEF DurableInv, Logs, LogParts, LogsOfMemtables
        <5>2. FirstFrames(Frames, n) \subseteq Recovered(wal[active.wal])
          BY <5>1, FramesOfLog DEF Frames
        <5>3. active.rows = Recovered(wal[active.wal])
          BY <1>5 DEF LogParts, LogsOfMemtables
        <5> QED BY <1>1, <5>2, <5>3, BoundedSubset
      <4>3. SameNewest(OldInMemory \cup FirstFrames(Frames, n),
                       OldInMemory' \cup FirstFrames(Frames, n))
        BY <1>1, <1>2, <4>2, NewestWithMore
      <4> QED BY <4>1, <4>3, SameIsServed
    <3> QED BY <1>5, <2>1, <3>1 DEF LogParts, FramesAreLog, FirstRun
  <2>3. LogsOfMemtables'
    <3>1. \A m \in imm' : m.wal \in DOMAIN wal'
      BY DEF DurableInv, Memtables
    <3>2. \A m \in imm' \cup {active} : m.rows = Recovered(wal'[m.wal])
      BY <1>5, <2>1, <3>1 DEF LogParts, LogsOfMemtables
    <3> QED BY <1>5, <2>1, <3>2 DEF LogParts, LogsOfMemtables, FirstRun
  <2>4. OldIsKept'
    <3>1. OldInMemory' \subseteq OldInFiles'
      <4>1. (DurableInv /\ LogsOfMemtables /\ FirstRun => OldInMemory \subseteq OldInFiles)'
        BY MemoryIsInFiles, PTL
      <4> QED BY <1>5, <2>3, <4>1 DEF FirstRun
    <3>2. OldToFind' \subseteq OldInFiles'
      <4>1. (OldToFind \subseteq OldInFiles)'
        BY FindableIsInFiles, PTL
      <4> QED BY <4>1
    <3>3. SameNewest(OldInFiles, OldInMemory) /\ SameNewest(OldInFiles, OldToFind)
      BY <1>5 DEF LogParts, OldIsKept
    <3>4. SameNewest(OldInFiles, OldInMemory')
      BY <3>3 DEF SameNewest
    <3>5. SameNewest(OldInFiles, OldInFiles')
      BY <1>1, <1>5, <3>1, <3>4, NewestBetween
    <3>6. SameNewest(OldInFiles, OldToFind')
      <4>1. CASE manifest'.ids = ssts'
        <5>1. (DurableInv /\ LogsOfMemtables /\ FirstRun /\ manifest.ids = ssts
                    => OldInMemory \subseteq OldToFind)'
          BY ListedIsFindable, PTL
        <5>2. OldInMemory' \subseteq OldToFind'
          BY <1>5, <2>3, <4>1, <5>1 DEF FirstRun
        <5> QED BY <1>1, <1>5, <3>2, <3>4, <5>2, NewestBetween
      <4>2. CASE OldToFind \subseteq OldToFind'
        BY <1>1, <1>5, <3>2, <3>3, <4>2, NewestBetween
      <4> QED BY <1>5, <4>1, <4>2
    <3>7. SameNewest(OldInFiles', OldInMemory') /\ SameNewest(OldInFiles', OldToFind')
      BY <3>4, <3>5, <3>6 DEF SameNewest
    <3>8. /\ OneRowPerNumber(OldInFiles' \cup active'.rows)
          /\ \A r \in OldInFiles' \cup active'.rows : r.seq < seq'
      BY <1>5 DEF LogParts, OldIsKept, OneRowPerNumber
    <3> QED BY <1>5, <3>7, <3>8 DEF OldIsKept
  <2> QED BY <1>3, <2>2, <2>3, <2>4, UpIsUp DEF LogParts
<1> QED BY <1>4, <1>5

\* A new file is adopted, and hides none.
LEMMA NewFileIsFound ==
    ASSUME DurableInv, phase # "down", NEW rows, sst' = NewFile(rows),
           UNCHANGED <<wal, active, manifest>>
    PROVE  /\ OldToFind \subseteq OldToFind' /\ OldInFiles' = OldInFiles \cup rows
           /\ \A I \in SUBSET DOMAIN sst :
                ssts' = I \cup {sstId} => RowsOfFiles(ssts)' = RowsOfFiles(I) \cup rows
<1>1. /\ sstId \notin DOMAIN sst /\ DOMAIN sst' = DOMAIN sst \cup {sstId}
      /\ sst'[sstId] = rows /\ \A i \in DOMAIN sst : sst'[i] = sst[i]
  BY NewFileFacts DEF DurableInv
<1>2. Listed' = Listed
  BY <1>1 DEF Listed, DurableInv, Files
<1>3. Adopted \subseteq Adopted' /\ Listed \cup Adopted \subseteq DOMAIN sst
  BY <1>1, <1>2 DEF Adopted, Listed
<1>4. RowsOfLogs(OldLogs)' = RowsOfLogs(OldLogs)
  BY DEF RowsOfLogs, OldLogs
<1>5. RowsOfFiles(Listed \cup Adopted) \subseteq RowsOfFiles(Listed \cup Adopted)'
  BY <1>1, <1>2, <1>3 DEF RowsOfFiles
<1>6. RowsOfFiles(DOMAIN sst)' = RowsOfFiles(DOMAIN sst) \cup rows
  BY <1>1 DEF RowsOfFiles
<1>7. ASSUME NEW I \in SUBSET DOMAIN sst, ssts' = I \cup {sstId}
      PROVE  RowsOfFiles(ssts)' = RowsOfFiles(I) \cup rows
  <2>1. \A i \in I : sst'[i] = sst[i]
    BY <1>1
  <2> QED BY <1>1, <1>7, <2>1 DEF RowsOfFiles
<1> QED BY <1>4, <1>5, <1>6, <1>7 DEF OldToFind, OldInFiles

LEMMA FlushBuildServes ==
    ASSUME DurableInv, DurableInv', LogParts, FlushBuild
    PROVE  LogParts'
<1> USE DEF opening, history
<1> DEFINE m == CHOOSE m \in imm : \A o \in imm : m.wal <= o.wal
           new == NewestRows(m.rows)
           X == (UNION {o.rows : o \in imm \ {m}}) \cup RowsOfFiles(ssts)
<1>1. /\ phase = "up" /\ phase' = "up" /\ imm # {}
      /\ sst' = NewFile(new) /\ imm' = imm \ {m}
      /\ worker'.pc = "flush_manifest"
      /\ ssts' = ssts \cup {sstId}
      /\ UNCHANGED <<wal, manifest, active, ops, seq, writer, log, synced, stops>>
  BY DEF FlushBuild
<1>2. m \in imm /\ new \subseteq m.rows
  BY <1>1, FirstFrozen DEF NewestRows
<1> HIDE DEF m
<1>3. /\ OldToFind \subseteq OldToFind' /\ OldInFiles' = OldInFiles \cup new
      /\ RowsOfFiles(ssts)' = RowsOfFiles(ssts) \cup new
  <2>1. ssts \in SUBSET DOMAIN sst
    BY DEF DurableInv, Files
  <2> HIDE DEF new
  <2> QED BY <1>1, <2>1, NewFileIsFound
<1>4. OldInMemory = X \cup m.rows /\ OldInMemory' = X \cup new
  BY <1>1, <1>2, <1>3 DEF OldInMemory
<1>5. SameNewest(OldInMemory, OldInMemory')
  <2>1. Bounded(m.rows) /\ Bounded(OldInMemory)
    BY <1>2, AllBounded
  <2>2. Bounded(X) /\ Bounded(new)
    BY <1>2, <1>4, <2>1, BoundedSubset
  <2>3. SameNewest(m.rows, new)
    BY <2>1, NewestIsSame DEF SameNewest
  <2> HIDE DEF X, new
  <2>4. SameNewest(m.rows \cup X, new \cup X)
    BY <2>1, <2>2, <2>3, NewestWithMore
  <2>5. OldInMemory = m.rows \cup X /\ OldInMemory' = new \cup X
    BY <1>4
  <2> QED BY <2>4, <2>5
<1>6. FirstRun => OldInFiles' \subseteq OldInFiles
  <2>1. FirstRun => OldInMemory \subseteq OldInFiles
    BY MemoryIsInFiles DEF LogParts
  <2> QED BY <1>2, <1>3, <1>4, <2>1
<1>7. active.wal \in DOMAIN wal
  BY <1>1, ActiveLog DEF DurableInv
<1> QED BY <1>1, <1>3, <1>5, <1>6, <1>7, WorkerStep

LEMMA WriteManifestServes ==
    ASSUME DurableInv, DurableInv', LogParts, WriteManifest
    PROVE  LogParts'
<1> USE DEF memory
<1>1. /\ phase = "up" /\ phase' = "up" /\ manifest'.ids = ssts'
      /\ UNCHANGED <<wal, sst, active, ops, imm, ssts, seq, writer, log, synced, stops>>
  BY DEF WriteManifest
<1>2. OldInFiles' = OldInFiles /\ OldInMemory' = OldInMemory
  BY <1>1 DEF OldInFiles, OldInMemory, RowsOfLogs, RowsOfFiles, OldLogs
<1>3. SameNewest(OldInMemory, OldInMemory')
  BY <1>2 DEF SameNewest
<1>4. active.wal \in DOMAIN wal
  BY <1>1, ActiveLog DEF DurableInv
<1> QED BY <1>1, <1>2, <1>3, <1>4, WorkerStep

LEMMA FlushRemoveServes ==
    ASSUME DurableInv, DurableInv', LogParts, FlushRemove
    PROVE  LogParts'
<1> USE DEF memory, history
<1>1. /\ phase = "up" /\ phase' = "up" /\ worker.pc = "flush_remove" /\ worker' = Idle
      /\ wal' = Without(worker.wal)
      /\ UNCHANGED <<sst, manifest, active, ops, imm, ssts, seq, writer, log, synced, stops>>
  BY DEF FlushRemove
<1>2. DOMAIN wal' = DOMAIN wal \ {worker.wal} /\ \A n \in DOMAIN wal' : wal'[n] = wal[n]
  BY <1>1, WithoutFacts
<1>3. FirstRun => manifest'.ids = ssts'
  BY <1>1 DEF LogParts, OldIsKept
<1>4. OldInFiles' \subseteq OldInFiles /\ OldInMemory' = OldInMemory
  BY <1>1, <1>2 DEF OldInFiles, OldInMemory, RowsOfLogs, RowsOfFiles, OldLogs
<1>5. SameNewest(OldInMemory, OldInMemory')
  BY <1>4 DEF SameNewest
<1>6. active.wal \in DOMAIN wal'
  BY <1>1 DEF DurableInv, Logs
<1> QED BY <1>1, <1>2, <1>3, <1>4, <1>5, <1>6, WorkerStep

\* With nothing expired a merge keeps the newest row of every key.
LEMMA CompactSwapServes ==
    ASSUME DurableInv, DurableInv', LogParts, CompactSwap, cutoff = 0
    PROVE  LogParts'
<1> USE DEF opening, history
<1>1. PICK old \in SUBSET ssts :
        LET kept == NewestRows({r \in UNION {sst[i] : i \in old} : r.key >= cutoff})
        IN  /\ IF kept = {}
               THEN ssts' = ssts \ old /\ UNCHANGED <<sst, sstId>>
               ELSE /\ sst' = NewFile(kept)
                    /\ ssts' = (ssts \ old) \cup {sstId}
                    /\ sstId' = sstId + 1
            /\ worker' = [pc |-> AfterMerge, wal |-> 0, old |-> old]
  <2> DEFINE crowded == {w \in {Window(i) : i \in ssts} :
                            Cardinality(Group(w)) >= CompactThreshold}
             o == Group(Min(crowded))
  <2>1. o \in SUBSET ssts
    BY DEF Group
  <2> HIDE DEF crowded
  <2> QED BY <2>1 DEF CompactSwap, crowded
<1> DEFINE rows == RowsOfFiles(old)
           kept == NewestRows(rows)
           X == (UNION {o.rows : o \in imm}) \cup RowsOfFiles(ssts \ old)
<1>2. /\ phase = "up" /\ phase' = "up" /\ worker'.pc = "compact_manifest"
      /\ UNCHANGED <<wal, manifest, active, ops, imm, seq, writer, log, synced, stops>>
  BY <1>1 DEF CompactSwap, AfterMerge
<1>3. OldInMemory = X \cup rows /\ rows \subseteq OldInFiles
  BY DEF OldInMemory, OldInFiles, RowsOfFiles, DurableInv, Files
<1>4. Bounded(X) /\ Bounded(rows)
  <2> HIDE DEF X, rows
  <2>1. X \subseteq OldInMemory /\ rows \subseteq OldInMemory
    BY <1>3
  <2> QED BY <2>1, AllBounded, BoundedSubset
<1>5. rows = {r \in UNION {sst[i] : i \in old} : r.key >= cutoff}
  <2>1. \A r \in rows : r.key \in Nat
    BY <1>4, KeysAssumption DEF Bounded, Row
  <2>2. \A r \in rows : r.key >= 0
    BY <2>1
  <2> QED BY <2>2 DEF RowsOfFiles
<1>6. active.wal \in DOMAIN wal
  BY <1>2, ActiveLog DEF DurableInv
<1>7. ssts \ old \in SUBSET DOMAIN sst
  BY DEF DurableInv, Files
<1>8. CASE kept = {}
  <2>1. ssts' = ssts \ old /\ sst' = sst
    BY <1>1, <1>5, <1>8
  <2>2. rows = {}
    <3> HIDE DEF rows
    <3>1. PICK b \in Nat : \A r \in rows : r.seq <= b
      BY <1>4 DEF Bounded
    <3> QED BY <1>4, <1>8, <3>1, SomeRowIsNewest DEF Bounded
  <2>3. OldInMemory' = X
    BY <1>2, <2>1 DEF OldInMemory, RowsOfFiles
  <2>4. SameNewest(OldInMemory, OldInMemory')
    <3> HIDE DEF X, rows
    <3> QED BY <1>3, <2>2, <2>3 DEF SameNewest
  <2>5. OldInFiles' = OldInFiles /\ OldToFind' = OldToFind
    BY <1>2, <2>1 DEF OldInFiles, OldToFind, RowsOfLogs, RowsOfFiles, OldLogs, Listed, Adopted
  <2> QED BY <1>2, <1>6, <2>1, <2>4, <2>5, WorkerStep
<1>9. CASE kept # {}
  <2>1. sst' = NewFile(kept) /\ ssts' = (ssts \ old) \cup {sstId}
    BY <1>1, <1>5, <1>9
  <2>2. kept \subseteq rows
    BY DEF NewestRows
  <2>3. /\ OldToFind \subseteq OldToFind' /\ OldInFiles' = OldInFiles \cup kept
        /\ RowsOfFiles(ssts)' = RowsOfFiles(ssts \ old) \cup kept
    <3> HIDE DEF kept
    <3> QED BY <1>2, <1>7, <2>1, NewFileIsFound
  <2>4. OldInMemory' = X \cup kept
    BY <1>2, <2>3 DEF OldInMemory
  <2>5. SameNewest(OldInMemory, OldInMemory')
    <3>1. Bounded(kept)
      BY <1>4, <2>2, BoundedSubset
    <3>2. SameNewest(rows, kept)
      BY <1>4, NewestIsSame DEF SameNewest
    <3> HIDE DEF X, rows, kept
    <3>3. SameNewest(rows \cup X, kept \cup X)
      BY <1>4, <3>1, <3>2, NewestWithMore
    <3>4. OldInMemory = rows \cup X /\ OldInMemory' = kept \cup X
      BY <1>3, <2>4
    <3> QED BY <3>3, <3>4
  <2>6. OldInFiles' \subseteq OldInFiles
    <3> HIDE DEF rows, kept
    <3> QED BY <1>3, <2>2, <2>3
  <2> QED BY <1>2, <1>6, <2>3, <2>5, <2>6, WorkerStep
<1> QED BY <1>8, <1>9

LEMMA CompactRemoveServes ==
    ASSUME DurableInv, DurableInv', LogParts, CompactRemove
    PROVE  LogParts'
<1> USE DEF memory, history
<1>1. PICK i \in worker.old : sst' = Restrict(sst, DOMAIN sst \ {i})
  BY DEF CompactRemove
<1>2. /\ phase = "up" /\ phase' = "up" /\ worker.pc = "compact_remove"
      /\ UNCHANGED <<wal, manifest, active, ops, imm, ssts, seq, writer, log, synced, stops>>
  BY DEF CompactRemove
<1>3. worker.old \cap ssts = {} /\ ssts \subseteq DOMAIN sst
  BY <1>2 DEF DurableInv, Files
<1>4. DOMAIN sst' = DOMAIN sst \ {i} /\ \A j \in DOMAIN sst' : sst'[j] = sst[j]
  BY <1>1 DEF Restrict
<1>5. OldInFiles' \subseteq OldInFiles
  BY <1>2, <1>4 DEF OldInFiles, RowsOfLogs, RowsOfFiles, OldLogs
<1>6. OldInMemory' = OldInMemory
  <2>1. \A j \in ssts : sst'[j] = sst[j]
    BY <1>1, <1>3, <1>4
  <2> QED BY <1>2, <2>1 DEF OldInMemory, RowsOfFiles
<1>7. SameNewest(OldInMemory, OldInMemory')
  BY <1>6 DEF SameNewest
<1>8. FirstRun => manifest'.ids = ssts'
  BY <1>2 DEF LogParts, OldIsKept
<1>9. active.wal \in DOMAIN wal
  BY <1>2, ActiveLog DEF DurableInv
<1> QED BY <1>2, <1>5, <1>7, <1>8, <1>9, WorkerStep

-----------------------------------------------------------------------------
(* Freezing.                                                               *)

LEMMA PartsStay ==
    ASSUME LogParts, writer = "forked" => writer' = "forked",
           UNCHANGED <<wal, sst, manifest, phase, active, ops, imm, ssts, seq, worker, orphans,
                       pending, log, synced, stops>>
    PROVE  LogParts'
<1>1. /\ OldInFiles' = OldInFiles /\ OldToFind' = OldToFind /\ OldInMemory' = OldInMemory
      /\ OnDisk' = OnDisk /\ InReach' = InReach /\ Contents' = Contents
  BY DEF OldInFiles, OldToFind, OldInMemory, OnDisk, InReach, Contents, RowsOfLogs, RowsOfFiles,
         OldLogs, Listed, Adopted, LaterOrphans
<1>2. ServesLog' /\ StopKeepsLog' /\ OpeningKeepsLog' /\ NothingYet'
  BY <1>1 DEF LogParts, ServesLog, StopKeepsLog, OpeningKeepsLog, NothingYet, PartExplains
<1>3. Frames' = Frames /\ Before' = Before /\ FirstRun' = FirstRun
  BY DEF Frames, Before, FirstRun
<1>4. FramesAreLog' /\ LogsOfMemtables' /\ OldIsKept'
  BY <1>1, <1>3 DEF LogParts, FramesAreLog, LogsOfMemtables, OldIsKept
<1> QED BY <1>2, <1>4 DEF LogParts

LEMMA StartFreezeServes ==
    ASSUME LogParts, StartFreeze
    PROVE  LogParts'
<1> QED BY PartsStay DEF StartFreeze, disk, memory, opening, history

LEMMA ForkServes ==
    ASSUME DurableInv, LogParts, Fork
    PROVE  LogParts'
<1> USE DEF memory, opening, history
<1>1. /\ phase = "up" /\ phase' = "up" /\ writer = "freeze" /\ writer' = "forked"
      /\ DOMAIN wal' = DOMAIN wal \cup {active.wal + 1}
      /\ \A n \in DOMAIN wal : wal'[n] = wal[n]
      /\ \A n \in DOMAIN wal' : n \notin DOMAIN wal => wal'[n] = EmptyLog
      /\ UNCHANGED <<sst, manifest, active, ops, imm, ssts, seq, worker, log, synced, stops>>
  BY DEF Fork
<1>2. /\ active.wal \in DOMAIN wal /\ active.wal \in Nat
      /\ \A m \in imm : m.wal \in DOMAIN wal
      /\ DOMAIN wal \subseteq Nat
  BY <1>1, ActiveLog, BoundAssumption DEF DurableInv, Memtables, Logs, LogNumbers
<1>3. OldInMemory' = OldInMemory /\ Contents' = Contents
  BY <1>1 DEF OldInMemory, Contents, RowsOfFiles
<1>4. ServesLog'
  BY <1>1, <1>3 DEF LogParts, ServesLog
<1>5. CASE ~ FirstRun
  BY <1>1, <1>4, <1>5, UpIsUp, NotFirstRun DEF LogParts, FirstRun
<1>6. CASE FirstRun
  <2>1. RowsOfLogs(OldLogs)' = RowsOfLogs(OldLogs)
    <3>1. OldLogs' = OldLogs \cup {active.wal + 1} /\ \A n \in OldLogs : n \in DOMAIN wal
      BY <1>1, <1>2 DEF OldLogs
    <3>2. ASSUME NEW n \in OldLogs' PROVE Recovered(wal'[n]) \subseteq RowsOfLogs(OldLogs)
      <4>1. CASE n \in DOMAIN wal
        <5>1. n \in OldLogs /\ wal'[n] = wal[n]
          BY <1>1, <3>2, <4>1 DEF OldLogs
        <5> QED BY <5>1 DEF RowsOfLogs
      <4>2. CASE n \notin DOMAIN wal
        BY <1>1, <3>2, <4>2, EmptyLogHasNone DEF OldLogs
      <4> QED BY <4>1, <4>2
    <3>3. RowsOfLogs(OldLogs)' \subseteq RowsOfLogs(OldLogs)
      BY <3>2 DEF RowsOfLogs
    <3>4. RowsOfLogs(OldLogs) \subseteq RowsOfLogs(OldLogs)'
      BY <1>1, <3>1 DEF RowsOfLogs
    <3> QED BY <3>3, <3>4
  <2>2. OldInFiles' = OldInFiles /\ OldToFind' = OldToFind
    BY <1>1, <2>1 DEF OldInFiles, OldToFind, RowsOfFiles, Listed, Adopted
  <2>3. Frames' = Frames /\ Before' = Before /\ FirstRun' = FirstRun
        /\ wal'[active.wal] = wal[active.wal]
    BY <1>1, <1>2 DEF Frames, Before, FirstRun
  <2>4. FramesAreLog' /\ OldIsKept'
    BY <1>1, <1>3, <1>6, <2>2, <2>3 DEF LogParts, FramesAreLog, OldIsKept
  <2>5. LogsOfMemtables'
    <3>1. \A m \in imm' \cup {active'} : m.rows = Recovered(wal'[m.wal])
      BY <1>1, <1>2, <1>6 DEF LogParts, LogsOfMemtables
    <3>2. ASSUME NEW n \in DOMAIN wal', n > active.wal
          PROVE  n = active.wal + 1 /\ wal'[n] = EmptyLog
      <4>1. n \notin DOMAIN wal
        BY <1>1, <1>6, <3>2 DEF LogParts, LogsOfMemtables
      <4> QED BY <1>1, <4>1
    <3> QED BY <1>1, <1>6, <2>3, <3>1, <3>2 DEF LogParts, LogsOfMemtables
  <2> QED BY <1>1, <1>4, <2>4, <2>5, UpIsUp DEF LogParts
<1> QED BY <1>5, <1>6

\* The log that was in use joins the older ones, in memory and on disk.
LEMMA FreezeServes ==
    ASSUME DurableInv, LogParts, Freeze
    PROVE  LogParts'
<1> USE DEF opening
<1>1. /\ phase = "up" /\ phase' = "up" /\ writer = "forked" /\ writer' = "ready"
      /\ wal' = WalClosed(active.wal) /\ imm' = imm \cup {active}
      /\ active' = [wal |-> active.wal + 1, rows |-> {}] /\ ops' = 0 /\ synced' = Len(log)
      /\ UNCHANGED <<sst, manifest, ssts, seq, worker, log, stops>>
  BY DEF Freeze
<1>2. /\ active.wal \in DOMAIN wal /\ active.wal \in Nat /\ active.wal + 1 \in DOMAIN wal
      /\ DOMAIN wal \subseteq Nat
      /\ \A m \in imm : m.wal \in DOMAIN wal /\ m.wal < active.wal /\ m.wal \in Nat
      /\ GoodLog(wal[active.wal])
      /\ log \in Seq(Entry) /\ Len(log) \in Nat
  BY <1>1, ActiveLog, BoundAssumption, LenProperties
     DEF DurableInv, Memtables, Logs, LogNumbers, History
<1>3. /\ DOMAIN wal' = DOMAIN wal
      /\ \A n \in DOMAIN wal : n # active.wal => wal'[n] = wal[n]
      /\ wal'[active.wal].frames = wal[active.wal].frames
  <2>1. /\ DOMAIN wal' = DOMAIN wal
        /\ \A n \in DOMAIN wal : n # active.wal => wal'[n] = wal[n]
        /\ wal'[active.wal] = [wal[active.wal] EXCEPT !.synced = Len(wal[active.wal].frames)]
    BY <1>1, <1>2 DEF WalClosed
  <2>2. wal[active.wal] \in LogFile
    BY <1>2 DEF GoodLog
  <2>3. wal'[active.wal].frames = wal[active.wal].frames
    BY <2>1, <2>2 DEF LogFile
  <2> QED BY <2>1, <2>3
<1>4. \A n \in DOMAIN wal : Recovered(wal'[n]) = Recovered(wal[n])
  BY <1>3 DEF Recovered
<1>5. OldInMemory' = OldInMemory \cup active.rows /\ active'.rows = {}
  BY <1>1 DEF OldInMemory, RowsOfFiles
<1>6. Contents' = Contents
  <2>1. (Contents = OldInMemory \cup active.rows)'
    BY WhatIsServed, PTL
  <2> QED BY <1>5, <2>1, WhatIsServed
<1>7. ServesLog'
  BY <1>1, <1>2, <1>6 DEF LogParts, ServesLog
<1>8. CASE ~ FirstRun
  BY <1>1, <1>7, <1>8, UpIsUp, NotFirstRun DEF LogParts, FirstRun
<1>9. CASE FirstRun
  <2>1. /\ active.rows = Recovered(wal[active.wal])
        /\ wal[active.wal + 1] = EmptyLog
        /\ \A n \in DOMAIN wal : n <= active.wal + 1
    <3>1. active.wal + 1 > active.wal /\ \A n \in DOMAIN wal : n > active.wal => n = active.wal + 1
      BY <1>2, <1>9 DEF LogParts, LogsOfMemtables
    <3>2. \A n \in DOMAIN wal : n <= active.wal + 1
      BY <1>2, <3>1
    <3> QED BY <1>2, <1>9, <3>1, <3>2 DEF LogParts, LogsOfMemtables
  <2>2. wal'[active'.wal] = EmptyLog /\ active'.wal = active.wal + 1 /\ active'.wal # active.wal
    BY <1>1, <1>2, <1>3, <2>1
  <2>3. RowsOfLogs(OldLogs)' = RowsOfLogs(OldLogs) \cup active.rows
    <3>1. OldLogs' = DOMAIN wal \ {active.wal + 1} /\ OldLogs = DOMAIN wal \ {active.wal}
      BY <1>1, <1>3 DEF OldLogs
    <3>2. Recovered(wal[active.wal + 1]) = {}
      BY <2>1, EmptyLogHasNone
    <3>3. RowsOfLogs(OldLogs)' \subseteq RowsOfLogs(OldLogs) \cup active.rows
      <4>1. ASSUME NEW n \in OldLogs'
            PROVE  Recovered(wal'[n]) \subseteq RowsOfLogs(OldLogs) \cup active.rows
        BY <1>4, <2>1, <3>1, <4>1 DEF RowsOfLogs
      <4> QED BY <4>1 DEF RowsOfLogs
    <3>4. ASSUME NEW n \in OldLogs PROVE Recovered(wal[n]) \subseteq RowsOfLogs(OldLogs)'
      <4>1. CASE n = active.wal + 1
        BY <3>2, <4>1
      <4>2. CASE n # active.wal + 1
        BY <1>4, <3>1, <4>2 DEF RowsOfLogs
      <4> QED BY <4>1, <4>2
    <3>5. active.rows \subseteq RowsOfLogs(OldLogs)'
      <4>1. active.wal \in OldLogs' /\ active.rows = Recovered(wal'[active.wal])
        BY <1>2, <1>4, <2>1, <2>2, <3>1
      <4> QED BY <4>1 DEF RowsOfLogs
    <3>6. RowsOfLogs(OldLogs) \subseteq RowsOfLogs(OldLogs)'
      BY <3>4 DEF RowsOfLogs
    <3> QED BY <3>3, <3>5, <3>6
  <2>4. OldInFiles' = OldInFiles \cup active.rows /\ OldToFind' = OldToFind \cup active.rows
    <3>1. RowsOfFiles(DOMAIN sst)' = RowsOfFiles(DOMAIN sst)
          /\ RowsOfFiles(Listed \cup Adopted)' = RowsOfFiles(Listed \cup Adopted)
      BY <1>1 DEF RowsOfFiles, Listed, Adopted
    <3> QED BY <2>3, <3>1 DEF OldInFiles, OldToFind
  <2>5. OldIsKept'
    <3>1. /\ SameNewest(OldInFiles, OldInMemory) /\ SameNewest(OldInFiles, OldToFind)
          /\ Bounded(OldInFiles) /\ Bounded(OldToFind) /\ Bounded(OldInMemory)
          /\ Bounded(active.rows)
      BY <1>9, AllBounded DEF LogParts, OldIsKept
    <3>2. SameNewest(OldInFiles', OldInMemory') /\ SameNewest(OldInFiles', OldToFind')
      BY <1>5, <2>4, <3>1, NewestWithMore
    <3>3. OldInFiles' \cup active'.rows = OldInFiles \cup active.rows
      BY <1>5, <2>4
    <3>4. /\ OneRowPerNumber(OldInFiles' \cup active'.rows)
          /\ \A r \in OldInFiles' \cup active'.rows : r.seq < seq'
          /\ worker'.pc \in {"flush_remove", "compact_remove"} => manifest'.ids = ssts'
      BY <1>1, <1>9, <3>3 DEF LogParts, OldIsKept
    <3> QED BY <3>2, <3>4 DEF OldIsKept
  <2>6. Frames' = <<>> /\ Len(Frames') = 0 /\ Before' = Len(log) /\ wal'[active'.wal].synced = 0
    BY <1>1, <1>2, <2>2, EmptyLogHasNone DEF Frames, Before, EmptyLog
  <2>7. FramesAreLog'
    <3>1. FirstFrames(Frames', 0) = {}
      BY DEF FirstFrames
    <3>2. SubSeq(log, 1, Len(log)) = log
      BY <1>2, SubSeqFull
    <3>3. Explains(log, OldInMemory')
      <4>1. OldInMemory' = Contents
        BY <1>5, WhatIsServed
      <4> QED BY <1>1, <4>1 DEF LogParts, ServesLog
    <3>4. ASSUME NEW n \in 0 .. Len(Frames')
          PROVE  Explains(SubSeq(log', 1, Before' + n), OldInMemory' \cup FirstFrames(Frames', n))
      <4>1. n = 0 /\ Before' + n = Len(log) /\ log' = log
        BY <1>1, <1>2, <2>6
      <4>2. OldInMemory' \cup FirstFrames(Frames', n) = OldInMemory'
        BY <3>1, <4>1
      <4> QED BY <3>2, <3>3, <4>1, <4>2
    <3> QED BY <1>1, <1>2, <2>6, <3>4 DEF FramesAreLog
  <2>8. LogsOfMemtables'
    <3>1. active'.rows = Recovered(wal'[active'.wal])
      BY <1>5, <2>2, EmptyLogHasNone
    <3>2. ASSUME NEW m \in imm' PROVE m.rows = Recovered(wal'[m.wal])
      <4>1. CASE m = active
        BY <1>2, <1>4, <2>1, <4>1
      <4>2. CASE m \in imm
        BY <1>2, <1>4, <1>9, <4>2 DEF LogParts, LogsOfMemtables
      <4> QED BY <1>1, <4>1, <4>2
    <3>3. \A i \in DOMAIN Frames' : ~ Frames'[i].torn
      BY <2>2, EmptyLogHasNone DEF Frames
    <3>4. \A n \in DOMAIN wal' : ~ (n > active'.wal)
      <4> SUFFICES ASSUME NEW n \in DOMAIN wal PROVE ~ (n > active.wal + 1)
        BY <1>3, <2>2
      <4>1. n \in Nat /\ n <= active.wal + 1 /\ active.wal \in Nat
        BY <1>2, <2>1
      <4> QED BY <4>1
    <3> QED BY <3>1, <3>2, <3>3, <3>4 DEF LogsOfMemtables
  <2> QED BY <1>1, <1>7, <2>5, <2>7, <2>8, UpIsUp DEF LogParts
<1> QED BY <1>8, <1>9

-----------------------------------------------------------------------------
(* Writing.                                                                *)

\* The rows of a transaction: one of each key, numbered from seq on.
LEMMA NewRows ==
    ASSUME DurableInv, phase = "up", NEW K \in SUBSET Keys, K # {},
           NEW rows, rows = {[key |-> k, txn |-> txns + 1,
                              seq |-> seq + Cardinality({j \in K : j < k})] : k \in K}
    PROVE  /\ Bounded(rows) /\ OnePerKey(rows) /\ OneRowPerNumber(rows)
           /\ {r.key : r \in rows} = K /\ \A r \in rows : r.txn = txns + 1
           /\ Cardinality(K) \in Nat /\ seq \in Nat
           /\ \A r \in rows : r.seq \in Nat /\ seq <= r.seq /\ r.seq < seq + Cardinality(K)
           /\ IsFiniteSet(rows) /\ Cardinality(rows) \in Nat \ {0}
<1>1. /\ Cardinality(K) \in Nat
      /\ \A k \in K : Cardinality({j \in K : j < k}) \in 0 .. Cardinality(K) - 1
  BY CountFacts
<1>2. seq \in Nat /\ txns \in Nat
  BY DEF DurableInv, Numbers, History
<1> DEFINE row(k) == [key |-> k, txn |-> txns + 1, seq |-> seq + Cardinality({j \in K : j < k})]
<1>3. ASSUME NEW k \in K
      PROVE  /\ row(k) \in Row /\ row(k).key = k /\ row(k).txn = txns + 1
             /\ row(k).seq \in Nat /\ seq <= row(k).seq /\ row(k).seq < seq + Cardinality(K)
  <2> DEFINE n == Cardinality({j \in K : j < k})
  <2>1. n \in 0 .. Cardinality(K) - 1
    BY <1>1
  <2> HIDE DEF n
  <2>2. seq + n \in Nat /\ seq <= seq + n /\ seq + n < seq + Cardinality(K)
    BY <1>1, <1>2, <2>1
  <2> QED BY <1>2, <2>2 DEF Row, n
<1>4. rows = {row(k) : k \in K}
  OBVIOUS
<1> HIDE DEF row
<1>5. \A r \in rows : \E k \in K : r = row(k)
  BY <1>4
<1>6. /\ rows \in SUBSET Row /\ OnePerKey(rows) /\ OneRowPerNumber(rows)
      /\ {r.key : r \in rows} = K
  <2>1. rows \in SUBSET Row
    BY <1>3, <1>5
  <2>0. \A r \in rows : r.key \in K /\ r = row(r.key)
    <3> SUFFICES ASSUME NEW r \in rows PROVE r.key \in K /\ r = row(r.key)
      OBVIOUS
    <3>1. PICK k \in K : r = row(k)
      BY <1>5
    <3>2. r.key = k
      BY <1>3, <3>1
    <3> QED BY <3>1, <3>2
  <2>2. \A v, r \in rows : v.key = r.key => v = r
    <3> SUFFICES ASSUME NEW v \in rows, NEW r \in rows, v.key = r.key PROVE v = r
      OBVIOUS
    <3>1. v = row(v.key) /\ r = row(r.key)
      BY <2>0
    <3> QED BY <3>1
  <2>3. {r.key : r \in rows} \subseteq K
    BY <2>0
  <2>4. \A k \in K : row(k) \in rows
    BY <1>4
  <2>5. K \subseteq {r.key : r \in rows}
    BY <1>3, <2>4
  <2> QED BY <2>1, <2>2, <2>3, <2>5 DEF OnePerKey, OneRowPerNumber
<1>7. \A r \in rows : r.seq \in Nat /\ seq <= r.seq /\ r.seq < seq + Cardinality(K)
  BY <1>3, <1>5
<1>8. Bounded(rows)
  <2>1. seq + Cardinality(K) \in Nat
    BY <1>1, <1>2
  <2>2. \A r \in rows : r.seq <= seq + Cardinality(K)
    BY <1>7, <2>1
  <2> QED BY <1>6, <2>1, <2>2 DEF Bounded
<1>9. IsFiniteSet(rows) /\ Cardinality(rows) \in Nat \ {0}
  <2> DEFINE f == [k \in K |-> row(k)]
  <2>1. f \in Surjection(K, rows)
    BY <1>4 DEF Surjection
  <2> HIDE DEF f
  <2>2. IsFiniteSet(rows)
    BY <2>1, FS_Surjection, FS_Subset, KeysAssumption
  <2>3. rows # {}
    BY <1>4
  <2> QED BY <2>2, <2>3, FS_EmptySet, FS_CardinalityType
<1>10. \A r \in rows : r.txn = txns + 1
  BY <1>3, <1>5
<1> QED BY <1>1, <1>2, <1>6, <1>7, <1>8, <1>9, <1>10

LEMMA WriteServes ==
    ASSUME DurableInv, DurableInv', LogParts, Write
    PROVE  LogParts'
<1> USE DEF opening
<1>1. PICK K \in (SUBSET Keys) \ {{}} :
        LET rows == {[key |-> k, txn |-> txns + 1,
                      seq |-> seq + Cardinality({j \in K : j < k})] : k \in K}
        IN  /\ Appended(rows)
            /\ seq' = seq + Cardinality(K)
            /\ log' = Append(log, [id |-> txns + 1, keys |-> K])
  BY DEF Write
<1>2. PICK rows : rows = {[key |-> k, txn |-> txns + 1,
                           seq |-> seq + Cardinality({j \in K : j < k})] : k \in K}
  OBVIOUS
<1> DEFINE e == [id |-> txns + 1, keys |-> K]
           w == wal[active.wal]
           sync == SyncEvery > 0 /\ ops + Cardinality(rows) >= SyncEvery
<1>3. Appended(rows) /\ seq' = seq + Cardinality(K) /\ log' = Append(log, e)
  BY <1>1, <1>2
<1>4. /\ phase = "up" /\ phase' = "up" /\ writer = "ready"
      /\ synced' = (IF ops' = 0 THEN Len(log') ELSE synced)
      /\ UNCHANGED <<sst, manifest, imm, ssts, writer, worker, stops>>
  BY DEF Write
<1>5. /\ Bounded(rows) /\ OnePerKey(rows) /\ OneRowPerNumber(rows)
      /\ {r.key : r \in rows} = K /\ \A r \in rows : r.txn = txns + 1
  BY <1>2, <1>4, NewRows
<1>6. /\ Cardinality(K) \in Nat /\ seq \in Nat
      /\ \A r \in rows : r.seq \in Nat /\ seq <= r.seq /\ r.seq < seq + Cardinality(K)
      /\ IsFiniteSet(rows) /\ Cardinality(rows) \in Nat \ {0}
  BY <1>2, <1>4, NewRows
<1>7. /\ log \in Seq(Entry) /\ e \in Entry /\ Len(log) \in Nat /\ txns \in Nat
      /\ log' \in Seq(Entry) /\ Len(log') = Len(log) + 1 /\ synced \in Nat
  <2>1. log \in Seq(Entry) /\ txns \in Nat /\ synced \in Nat
    BY DEF DurableInv, History
  <2>2. e \in Entry
    BY <2>1 DEF Entry
  <2> HIDE DEF e
  <2> QED BY <1>3, <2>1, <2>2, AppendProperties, LenProperties
<1>8. active.wal \in DOMAIN wal /\ GoodLog(w) /\ active \in [wal : Nat, rows : SUBSET Row]
  BY <1>4, ActiveLog DEF DurableInv, Memtables
<1>9. /\ DOMAIN wal' = DOMAIN wal
      /\ \A n \in DOMAIN wal : n # active.wal => wal'[n] = wal[n]
      /\ active'.rows = active.rows \cup rows /\ active'.wal = active.wal
  <2>1. rows \in SUBSET Row
    BY <1>5 DEF Bounded
  <2> HIDE DEF w
  <2>2. GoodLog(wal[active.wal])
    BY <1>8 DEF w
  <2> QED BY <1>3, <1>8, <2>1, <2>2, AppendedFacts
<1>10. /\ wal'[active.wal] = [frames |-> Append(w.frames, Frame(rows)),
                              synced |-> IF sync THEN Len(Append(w.frames, Frame(rows)))
                                                 ELSE w.synced]
       /\ ops' = IF sync THEN 0 ELSE ops + Cardinality(rows)
  BY <1>3, <1>8 DEF Appended
<1> HIDE DEF sync
<1>11. OldInMemory' = OldInMemory /\ Contents' = Contents \cup rows
  <2>1. OldInMemory' = OldInMemory
    BY <1>4 DEF OldInMemory, RowsOfFiles
  <2>2. (Contents = OldInMemory \cup active.rows)'
    BY WhatIsServed, PTL
  <2> QED BY <1>9, <2>1, <2>2, WhatIsServed
<1>12. ServesLog'
  <2>1. Bounded(Contents)
    BY AllBounded
  <2>2. NewerThan(rows, Contents)
    <3>1. \A r \in Contents : r.seq < seq /\ r.seq \in Nat
      BY <1>4, <2>1 DEF DurableInv, Ahead, Contents, Bounded, Row
    <3>2. \A r \in Contents, q \in rows : r.seq < q.seq
      BY <1>6, <3>1
    <3> QED BY <3>2 DEF NewerThan
  <2>3. Explains(log, Contents) /\ synced <= Len(log)
    BY <1>4 DEF LogParts, ServesLog
  <2>4. e.keys = {r.key : r \in rows} /\ \A r \in rows : r.txn = e.id
    BY <1>5
  <2>5. Explains(log', Contents')
    <3> HIDE DEF e
    <3>1. Explains(Append(log, e), Contents \cup rows)
      BY <1>5, <1>7, <2>1, <2>2, <2>3, <2>4, ExplainsNew
    <3> QED BY <1>3, <1>11, <3>1
  <2>6. synced' <= Len(log')
    BY <1>4, <1>7, <2>3
  <2> QED BY <2>5, <2>6 DEF ServesLog
<1>13. CASE ~ FirstRun
  BY <1>4, <1>12, <1>13, UpIsUp, NotFirstRun DEF LogParts, FirstRun
<1>14. CASE FirstRun
  <2> DEFINE n == Len(Frames)
             f == Frame(rows)
  <2>1. /\ w \in LogFile /\ w.frames = Frames /\ n \in Nat /\ w.synced \in Nat /\ w.synced <= n
        /\ f \in [rows : SUBSET Row, torn : BOOLEAN] /\ f.rows = rows /\ ~ f.torn
    BY <1>5, <1>8, LenProperties DEF GoodLog, LogFile, Frames, Frame, Bounded
  <2> HIDE DEF f, w, n
  <2>2. /\ Frames' = Append(Frames, f) /\ Len(Append(Frames, f)) = n + 1
        /\ wal'[active.wal].synced = (IF sync THEN n + 1 ELSE w.synced)
        /\ \A i \in DOMAIN Frames' : Frames'[i] = f \/ (i \in DOMAIN Frames /\ Frames'[i] = Frames[i])
    <3>1. Frames \in Seq([rows : SUBSET Row, torn : BOOLEAN])
      BY <2>1 DEF LogFile
    <3>2. Frames' = Append(Frames, f)
      BY <1>9, <1>10, <2>1 DEF Frames, f
    <3>3. /\ Len(Append(Frames, f)) = n + 1
          /\ DOMAIN Append(Frames, f) = 1 .. n + 1 /\ DOMAIN Frames = 1 .. n
          /\ \A i \in 1 .. n : Append(Frames, f)[i] = Frames[i]
          /\ Append(Frames, f)[n + 1] = f
      BY <2>1, <3>1, AppendProperties, LenProperties DEF n
    <3>4. wal'[active.wal].synced = (IF sync THEN n + 1 ELSE w.synced)
      BY <1>10, <2>1, <3>3 DEF f
    <3>5. \A i \in 1 .. n + 1 : i = n + 1 \/ i \in 1 .. n
      BY <2>1
    <3> QED BY <3>2, <3>3, <3>4, <3>5
  <2>3. /\ \A i \in 0 .. n : FirstFrames(Frames', i) = FirstFrames(Frames, i)
        /\ FirstFrames(Frames', n + 1) = active.rows \cup rows
    <3>1. /\ \A i \in 0 .. n : FirstFrames(Append(Frames, f), i) = FirstFrames(Frames, i)
          /\ FirstFrames(Append(Frames, f), n + 1) = FirstFrames(Frames, n) \cup rows
      BY <2>1, FrameMore DEF n
    <3>2. FirstFrames(Frames, n) = active.rows
      <4>1. \A i \in DOMAIN w.frames : ~ w.frames[i].torn
        BY <1>14, <2>1 DEF LogParts, LogsOfMemtables
      <4>2. Recovered(w) = FirstFrames(Frames, n)
        BY <2>1, <4>1, FramesOfLog DEF n
      <4>3. active.rows = Recovered(wal[active.wal])
        BY <1>14 DEF LogParts, LogsOfMemtables
      <4> QED BY <4>2, <4>3 DEF w
    <3> QED BY <2>2, <3>1, <3>2
  <2>4. /\ Before \in Nat /\ Before + n = Len(log) /\ Before' = Before /\ ops \in Nat
        /\ synced <= Before + w.synced
    <3>1. Before = Len(log) - n /\ Before >= 0 /\ ops \in Nat /\ synced <= Before + w.synced
      BY <1>14 DEF LogParts, FramesAreLog, Before, n, w
    <3>2. Before' = Len(log) + 1 - (n + 1)
      BY <1>7, <2>2 DEF Before
    <3> QED BY <1>7, <2>1, <3>1, <3>2
  <2>5. FramesAreLog'
    <3>1. ops' \in Nat /\ (~ sync => ops' # 0)
      BY <1>6, <1>10, <2>4
    <3>2. synced' <= Before' + wal'[active'.wal].synced
      <4>1. CASE sync
        <5>1. synced' = Before + n + 1 /\ wal'[active'.wal].synced = n + 1
          BY <1>4, <1>7, <1>9, <1>10, <2>2, <2>4, <4>1
        <5> QED BY <5>1, <2>1, <2>4
      <4>2. CASE ~ sync
        BY <1>4, <1>9, <2>2, <2>4, <3>1, <4>2
      <4> QED BY <4>1, <4>2
    <3>3. ASSUME NEW i \in 0 .. n + 1
          PROVE  Explains(SubSeq(log', 1, Before + i), OldInMemory \cup FirstFrames(Frames', i))
      <4>1. CASE i \in 0 .. n
        <5>1. Explains(SubSeq(log, 1, Before + i), OldInMemory \cup FirstFrames(Frames, i))
          BY <1>14, <4>1 DEF LogParts, FramesAreLog, n
        <5>2. Before + i \in 0 .. Len(log)
          BY <2>1, <2>4, <4>1
        <5>3. SubSeq(log', 1, Before + i) = SubSeq(log, 1, Before + i)
          <6> HIDE DEF e
          <6> QED BY <1>3, <1>7, <5>2, FirstOfLog
        <5> QED BY <2>3, <4>1, <5>1, <5>3
      <4>2. CASE i = n + 1
        <5>1. Before + i = Len(log')
          BY <1>7, <2>1, <2>4, <4>2
        <5>2. SubSeq(log', 1, Len(log')) = log'
          BY <1>7, SubSeqFull
        <5>3. OldInMemory \cup FirstFrames(Frames', i) = Contents'
          BY <1>11, <2>3, <4>2, WhatIsServed
        <5>4. Explains(log', Contents')
          BY <1>4, <1>12 DEF ServesLog
        <5> QED BY <5>1, <5>2, <5>3, <5>4
      <4> QED BY <2>1, <4>1, <4>2
    <3>4. Len(Frames') = n + 1 /\ Before' >= 0
      BY <2>2, <2>4
    <3> QED BY <1>11, <2>4, <3>1, <3>2, <3>3, <3>4 DEF FramesAreLog
  <2>6. LogsOfMemtables'
    <3>1. \A i \in DOMAIN Frames' : ~ Frames'[i].torn
      BY <1>14, <2>1, <2>2 DEF LogParts, LogsOfMemtables
    <3>2. active'.rows = Recovered(wal'[active'.wal])
      <4>1. wal'[active'.wal] \in LogFile /\ wal'[active'.wal].frames = Frames'
        BY <1>8, <1>9 DEF DurableInv, Logs, Frames
      <4>2. Recovered(wal'[active'.wal]) = FirstFrames(Frames', n + 1)
        BY <2>2, <3>1, <4>1, FramesOfLog
      <4> QED BY <1>9, <2>3, <4>2
    <3>3. ASSUME NEW m \in imm' PROVE m.rows = Recovered(wal'[m.wal])
      <4>1. m \in imm /\ m.wal \in DOMAIN wal /\ m.wal < active.wal /\ m.wal \in Nat
        BY <1>4 DEF DurableInv, Memtables
      <4>2. m.wal # active.wal
        BY <1>8, <4>1
      <4> QED BY <1>9, <1>14, <4>1, <4>2 DEF LogParts, LogsOfMemtables
    <3>4. \A i \in DOMAIN wal' : ~ (i > active'.wal)
      BY <1>4, <1>9, <1>14 DEF LogParts, LogsOfMemtables
    <3> QED BY <3>1, <3>2, <3>3, <3>4 DEF LogsOfMemtables
  <2>7. OldIsKept'
    <3>1. OldInFiles' = OldInFiles /\ OldToFind' = OldToFind
      <4>1. OldLogs' = OldLogs /\ \A i \in OldLogs : wal'[i] = wal[i]
        BY <1>9 DEF OldLogs
      <4>2. RowsOfLogs(OldLogs)' = RowsOfLogs(OldLogs)
        BY <4>1 DEF RowsOfLogs
      <4> QED BY <1>4, <4>2 DEF OldInFiles, OldToFind, RowsOfFiles, Listed, Adopted
    <3>2. /\ SameNewest(OldInFiles, OldInMemory) /\ SameNewest(OldInFiles, OldToFind)
          /\ worker.pc \in {"flush_remove", "compact_remove"} => manifest.ids = ssts
          /\ OneRowPerNumber(OldInFiles \cup active.rows)
          /\ \A r \in OldInFiles \cup active.rows : r.seq < seq
      BY <1>14 DEF LogParts, OldIsKept
    <3>3. \A r \in OldInFiles \cup active.rows : r.seq \in Nat
      BY AllBounded DEF Bounded, Row
    <3>4. OldInFiles' \cup active'.rows = (OldInFiles \cup active.rows) \cup rows
      BY <1>9, <3>1
    <3>5. OneRowPerNumber((OldInFiles \cup active.rows) \cup rows)
      <4>1. \A r \in OldInFiles \cup active.rows, q \in rows : r.seq # q.seq
        BY <1>6, <3>2, <3>3
      <4> QED BY <1>5, <3>2, <4>1 DEF OneRowPerNumber
    <3>6. \A r \in (OldInFiles \cup active.rows) \cup rows : r.seq < seq'
      <4>1. \A r \in OldInFiles \cup active.rows : r.seq < seq'
        BY <1>3, <1>6, <3>2, <3>3
      <4>2. \A r \in rows : r.seq < seq'
        BY <1>3, <1>6
      <4> QED BY <4>1, <4>2
    <3> QED BY <1>4, <1>11, <3>1, <3>2, <3>4, <3>5, <3>6 DEF OldIsKept
  <2> QED BY <1>4, <1>12, <2>5, <2>6, <2>7, UpIsUp DEF LogParts
<1> QED BY <1>13, <1>14

-----------------------------------------------------------------------------
(* Stopping.                                                               *)

\* A first part of the log in use is left, and no older log or file is lost.
LEMMA StopLeavesLog ==
    ASSUME DurableInv, LogParts, FirstRun, Forget,
           NEW w, wal' = [wal EXCEPT ![active.wal] = w],
           NEW n \in 0 .. Len(Frames), Recovered(w) = FirstFrames(Frames, n),
           synced' \in Nat, synced' <= Before + n
    PROVE  LogParts'
<1>1. phase = "up" /\ phase' = "down" /\ stops' # 0 /\ UNCHANGED <<sst, manifest, log>>
  BY DEF Forget, FirstRun
<1>2. /\ active.wal \in DOMAIN wal /\ wal[active.wal] \in LogFile
      /\ \A i \in DOMAIN Frames : ~ Frames[i].torn
      /\ active.rows = Recovered(wal[active.wal])
  BY <1>1, ActiveLog DEF DurableInv, GoodLog, LogParts, LogsOfMemtables
<1>3. FirstFrames(Frames, n) \subseteq active.rows
  BY <1>2, FramesOfLog DEF Frames
<1>4. OnDisk' = OldToFind \cup FirstFrames(Frames, n)
  <2>1. RowsOfLogs(DOMAIN wal)' = RowsOfLogs(OldLogs) \cup FirstFrames(Frames, n)
    <3>1. /\ DOMAIN wal' = DOMAIN wal /\ wal'[active.wal] = w
          /\ \A m \in DOMAIN wal : m # active.wal => wal'[m] = wal[m]
      BY <1>2
    <3>2. DOMAIN wal = OldLogs \cup {active.wal} /\ \A m \in OldLogs : wal'[m] = wal[m]
      BY <1>2, <3>1 DEF OldLogs
    <3>3. RowsOfLogs(DOMAIN wal)' = UNION {Recovered(wal'[m]) : m \in OldLogs \cup {active.wal}}
      BY <3>1, <3>2 DEF RowsOfLogs
    <3>4. UNION {Recovered(wal'[m]) : m \in OldLogs \cup {active.wal}}
            = RowsOfLogs(OldLogs) \cup Recovered(w)
      BY <3>1, <3>2 DEF RowsOfLogs
    <3> QED BY <3>3, <3>4
  <2>2. RowsOfFiles(Listed \cup Adopted)' = RowsOfFiles(Listed \cup Adopted)
    BY <1>1 DEF RowsOfFiles, Listed, Adopted
  <2> QED BY <2>1, <2>2 DEF OnDisk, OldToFind
<1>5. /\ Bounded(OldInMemory) /\ Bounded(OldToFind) /\ Bounded(FirstFrames(Frames, n))
      /\ OldToFind \subseteq OldInFiles
  BY <1>3, AllBounded, BoundedSubset, FindableIsInFiles
<1>6. SameNewest(OldInMemory \cup FirstFrames(Frames, n), OldToFind \cup FirstFrames(Frames, n))
  <2>1. SameNewest(OldInMemory, OldToFind)
    BY DEF LogParts, OldIsKept, SameNewest
  <2> QED BY <1>5, <2>1, NewestWithMore
<1>7. Explains(SubSeq(log, 1, Before + n), OnDisk')
  <2>1. Explains(SubSeq(log, 1, Before + n), OldInMemory \cup FirstFrames(Frames, n))
    BY DEF LogParts, FramesAreLog
  <2> QED BY <1>4, <1>6, <2>1, SameIsServed
<1>8. OneRowPerNumber(OnDisk')
  <2>1. OnDisk' \subseteq OldInFiles \cup active.rows
    BY <1>3, <1>4, <1>5
  <2> QED BY <2>1 DEF LogParts, OldIsKept, OneRowPerNumber
<1>9. Before + n \in synced' .. Len(log')
  <2>1. Len(log) \in Nat /\ Len(Frames) \in Nat /\ Before >= 0
    BY <1>2, LenProperties DEF DurableInv, History, LogFile, Frames, LogParts, FramesAreLog
  <2>2. Before = Len(log) - Len(Frames)
    BY DEF Before
  <2> QED BY <1>1, <2>1, <2>2
<1>10. StopKeepsLog'
  BY <1>1, <1>7, <1>8, <1>9 DEF StopKeepsLog, PartExplains
<1>11. ServesLog' /\ OpeningKeepsLog' /\ NothingYet'
  BY <1>1 DEF ServesLog, OpeningKeepsLog, NothingYet
<1> QED BY <1>1, <1>10, <1>11, NotFirstRun DEF LogParts

LEMMA CloseServes ==
    ASSUME DurableInv, LogParts, Close, stops = 0
    PROVE  LogParts'
<1>1. FirstRun /\ wal' = WalClosed(active.wal) /\ synced' = Len(log) /\ Forget
  BY DEF Close, FirstRun
<1>2. /\ active.wal \in DOMAIN wal /\ wal[active.wal] \in LogFile
      /\ \A i \in DOMAIN Frames : ~ Frames[i].torn
  BY <1>1, ActiveLog DEF DurableInv, GoodLog, LogParts, LogsOfMemtables, FirstRun
<1> DEFINE w == [wal[active.wal] EXCEPT !.synced = Len(wal[active.wal].frames)]
<1>3. wal' = [wal EXCEPT ![active.wal] = w]
  BY <1>1 DEF WalClosed
<1>4. Recovered(w) = FirstFrames(Frames, Len(Frames))
  <2>1. w.frames = Frames
    BY <1>2 DEF LogFile, Frames
  <2>2. Recovered(w) = Recovered(wal[active.wal])
    BY <2>1 DEF Recovered, Frames
  <2> QED BY <1>2, <2>2, FramesOfLog DEF Frames
<1>5. Len(Frames) \in Nat /\ Len(log) \in Nat
  BY <1>2, LenProperties DEF LogFile, Frames, DurableInv, History
<1>6. synced' \in Nat /\ synced' <= Before + Len(Frames) /\ Len(Frames) \in 0 .. Len(Frames)
  BY <1>1, <1>5 DEF Before
<1> HIDE DEF w
<1> QED BY <1>1, <1>3, <1>4, <1>6, StopLeavesLog

LEMMA CrashServes ==
    ASSUME DurableInv, LogParts, Crash, stops = 0
    PROVE  LogParts'
<1> DEFINE v == wal[active.wal]
<1>1. phase # "down" /\ Forget /\ synced' = synced
  BY DEF Crash
<1>2. active.wal \in DOMAIN wal /\ GoodLog(v) /\ v \in LogFile
  BY <1>1, ActiveLog DEF DurableInv, GoodLog
<1>3. PICK n \in v.synced .. Len(v.frames), torn \in {FALSE, TornWrites} :
        LET kept == SubSeq(v.frames, 1, n)
            left == IF torn THEN Append(kept, TornFrame) ELSE kept
        IN  wal' = [wal EXCEPT ![active.wal] = [frames |-> left, synced |-> Len(left)]]
  BY DEF Crash
<1> DEFINE left == IF torn THEN Append(SubSeq(v.frames, 1, n), TornFrame)
                           ELSE SubSeq(v.frames, 1, n)
           w == [frames |-> left, synced |-> Len(left)]
<1>4. wal' = [wal EXCEPT ![active.wal] = w] /\ torn \in BOOLEAN
      /\ w.frames = IF torn THEN Append(SubSeq(v.frames, 1, n), TornFrame)
                            ELSE SubSeq(v.frames, 1, n)
  BY <1>3, SettingsAssumption
<1>5. n \in 0 .. Len(v.frames) /\ v.synced \in Nat /\ v.synced <= n
  BY <1>2, LenProperties DEF LogFile
<1> HIDE DEF w
<1>6. ASSUME \A i \in DOMAIN v.frames : ~ v.frames[i].torn
      PROVE  Recovered(w) = FirstFrames(v.frames, n)
  <2> HIDE DEF v
  <2> QED BY <1>2, <1>4, <1>5, <1>6, CrashLeavesFrames
<1>7. CASE phase = "up"
  <2>1. FirstRun /\ (\A i \in DOMAIN v.frames : ~ v.frames[i].torn) /\ v.frames = Frames
    BY <1>7 DEF FirstRun, LogParts, LogsOfMemtables, Frames
  <2>2. Recovered(w) = FirstFrames(Frames, n) /\ n \in 0 .. Len(Frames)
    BY <1>5, <1>6, <2>1
  <2>3. synced \in Nat /\ synced <= Before + v.synced
    BY <2>1 DEF LogParts, FramesAreLog, DurableInv, History
  <2>4. Before \in Int
    BY <1>2, <2>1, LenProperties DEF Before, DurableInv, History, LogFile
  <2>5. synced' \in Nat /\ synced' <= Before + n
    BY <1>1, <1>5, <2>3, <2>4
  <2> QED BY <1>1, <1>4, <2>1, <2>2, <2>5, StopLeavesLog
<1>8. CASE phase = "merge"
  <2>1. /\ \A m \in DOMAIN wal : m = 0 /\ wal[m] = EmptyLog
        /\ DOMAIN sst = {} /\ log = <<>> /\ synced = 0 /\ active.wal = 0
    BY <1>8 DEF LogParts, NothingYet
  <2>2. v = EmptyLog /\ DOMAIN v.frames = {} /\ Len(v.frames) = 0
    BY <1>2, <2>1, EmptyLogHasNone
  <2>3. n = 0
    BY <1>5, <2>2
  <2>4. Recovered(w) = {}
    BY <1>6, <2>2, <2>3, FramesOfLog, <1>2 DEF FirstFrames
  <2>5. phase' = "down" /\ stops' # 0 /\ UNCHANGED <<sst, manifest, log>>
    BY <1>1 DEF Forget
  <2>6. OnDisk' = {}
    <3>1. DOMAIN wal' = DOMAIN wal /\ \A m \in DOMAIN wal' : wal'[m] = w
      BY <1>2, <1>4, <2>1
    <3>2. RowsOfLogs(DOMAIN wal)' = {}
      BY <2>4, <3>1 DEF RowsOfLogs
    <3>3. RowsOfFiles(Listed \cup Adopted)' = {}
      BY <2>1, <2>5 DEF RowsOfFiles, Listed, Adopted
    <3> QED BY <3>2, <3>3 DEF OnDisk
  <2>7. StopKeepsLog'
    <3>1. Len(log') = 0 /\ 0 \in synced' .. Len(log') /\ SubSeq(log', 1, 0) = <<>>
      <4>1. log' = <<>> /\ Len(<<>>) = 0 /\ SubSeq(<<>>, 1, 0) = <<>>
        BY <2>1, <2>5, EmptySeq, LenProperties, SubSeqEmpty
      <4> QED BY <1>1, <2>1, <4>1
    <3>2. Explains(SubSeq(log', 1, 0), OnDisk') /\ OneRowPerNumber(OnDisk')
      BY <2>6, <3>1, NothingExplained DEF OneRowPerNumber
    <3> QED BY <3>1, <3>2 DEF StopKeepsLog, PartExplains
  <2>8. ServesLog' /\ OpeningKeepsLog' /\ NothingYet'
    BY <2>5 DEF ServesLog, OpeningKeepsLog, NothingYet
  <2> QED BY <2>5, <2>7, <2>8, NotFirstRun DEF LogParts
<1> QED BY <1>1, <1>7, <1>8 DEF DurableInv, Phases

-----------------------------------------------------------------------------
(* Opening.                                                                *)

LEMMA PartStaysExplained ==
    ASSUME NEW R, NEW S, SameNewest(R, S), S \subseteq R, PartExplains(R)
    PROVE  PartExplains(S)
<1>1. PICK n \in synced .. Len(log) : Explains(SubSeq(log, 1, n), R)
  BY DEF PartExplains
<1>2. Explains(SubSeq(log, 1, n), S)
  BY <1>1, SameIsServed
<1>3. OneRowPerNumber(S)
  BY DEF PartExplains, OneRowPerNumber
<1> QED BY <1>2, <1>3 DEF PartExplains

\* Of the first orphan the newest rows are enough.
RowsIn(W, N) == UNION {Recovered(W[n]) : n \in N}
Later(O) == {p \in O : \E m \in O : m < p}
AllOfThem(W, O, B) == RowsIn(W, O) \cup B
LeftOfThem(W, O, B) == FirstRows(O, W) \cup RowsIn(W, Later(O)) \cup B
LEMMA FirstOrphan ==
    ASSUME NEW W, NEW O \in SUBSET Nat, NEW B, Bounded(AllOfThem(W, O, B))
    PROVE  /\ SameNewest(AllOfThem(W, O, B), LeftOfThem(W, O, B))
           /\ LeftOfThem(W, O, B) \subseteq AllOfThem(W, O, B)
<1> USE DEF RowsIn, Later, AllOfThem, LeftOfThem
<1> DEFINE A == AllOfThem(W, O, B)
           S == LeftOfThem(W, O, B)
<1>1. CASE O = {}
  BY <1>1 DEF FirstRows, SameNewest
<1>2. CASE O # {}
  <2> DEFINE first == Min(O)
             R == Recovered(W[first])
             L == {p \in O : \E m \in O : m < p}
             X == (UNION {Recovered(W[n]) : n \in L}) \cup B
  <2>1. first \in O /\ \A n \in O : first <= n
    BY <1>2, MinIsSmallest
  <2>2. O = L \cup {first}
    <3>1. ASSUME NEW n \in O, n # first PROVE first < n
      <4>1. first \in Nat /\ n \in Nat /\ first <= n
        BY <2>1
      <4> QED BY <3>1, <4>1
    <3> QED BY <2>1, <3>1
  <2>3. FirstRows(O, W) = NewestRows(R)
    BY <1>2 DEF FirstRows
  <2> HIDE DEF first
  <2>4. UNION {Recovered(W[n]) : n \in O} = R \cup UNION {Recovered(W[n]) : n \in L}
    <3> HIDE DEF L
    <3> QED BY <2>2
  <2>5. A = R \cup X /\ S = NewestRows(R) \cup X
    BY <2>3, <2>4
  <2> HIDE DEF L, X, R
  <2>6. Bounded(R) /\ Bounded(X) /\ NewestRows(R) \subseteq R
    BY <2>5, BoundedSubset DEF NewestRows
  <2>7. Bounded(NewestRows(R))
    BY <2>6, BoundedSubset
  <2>8. SameNewest(R, NewestRows(R))
    BY <2>6, NewestIsSame DEF SameNewest
  <2>9. SameNewest(R \cup X, NewestRows(R) \cup X)
    BY <2>6, <2>7, <2>8, NewestWithMore
  <2> QED BY <2>5, <2>6, <2>9
<1> QED BY <1>1, <1>2

LEMMA OpenServes ==
    ASSUME DurableInv, LogParts, Open
    PROVE  LogParts'
<1> DEFINE logs == DOMAIN wal \cup {0}
           last == Max(logs)
           files == [n \in logs |-> IF n \in DOMAIN wal THEN wal[n] ELSE EmptyLog]
           O == logs \ {last}
<1>1. /\ phase = "down" /\ phase' = "merge" /\ ops' = 0
      /\ wal' = files /\ active' = [wal |-> last, rows |-> Recovered(files[last])]
      /\ orphans' = O /\ pending' = FirstRows(O, files)
      /\ ssts' = Listed \cup Adopted
      /\ UNCHANGED <<sst, manifest, log, synced, stops>>
  BY DEF Open, history
<1>2. logs \in SUBSET Nat /\ last \in logs /\ \A n \in logs : n <= last
  <2>1. logs \in SUBSET Nat /\ (\A n \in logs : n <= MaxFreezes) /\ logs # {}
    BY BoundAssumption DEF DurableInv, Logs, LogNumbers
  <2> HIDE DEF logs
  <2> QED BY <2>1, MaxOfBounded, BoundAssumption
<1>3. /\ DOMAIN files = logs
      /\ \A n \in DOMAIN wal : files[n] = wal[n]
      /\ \A n \in logs : n \notin DOMAIN wal => files[n] = EmptyLog
  OBVIOUS
<1> DEFINE B == Recovered(files[last]) \cup RowsOfFiles(Listed \cup Adopted)
           L == {p \in O : \E m \in O : m < p}
<1> HIDE DEF last, files
<1>4. OnDisk = (UNION {Recovered(files[n]) : n \in O}) \cup B
  <2>1. RowsOfLogs(DOMAIN wal) = UNION {Recovered(files[n]) : n \in logs}
    <3>1. ASSUME NEW n \in logs PROVE Recovered(files[n]) \subseteq RowsOfLogs(DOMAIN wal)
      <4>1. CASE n \in DOMAIN wal
        BY <1>3, <4>1 DEF RowsOfLogs
      <4>2. CASE n \notin DOMAIN wal
        BY <1>3, <4>2, EmptyLogHasNone
      <4> QED BY <4>1, <4>2
    <3>2. \A n \in DOMAIN wal : n \in logs /\ files[n] = wal[n]
      BY <1>3
    <3>3. RowsOfLogs(DOMAIN wal) \subseteq UNION {Recovered(files[n]) : n \in logs}
      BY <3>2 DEF RowsOfLogs
    <3> HIDE DEF logs
    <3>4. UNION {Recovered(files[n]) : n \in logs} \subseteq RowsOfLogs(DOMAIN wal)
      BY <3>1
    <3> QED BY <3>3, <3>4
  <2>2. logs = O \cup {last}
    BY <1>2
  <2> HIDE DEF logs, O
  <2>3. UNION {Recovered(files[n]) : n \in logs}
            = (UNION {Recovered(files[n]) : n \in O}) \cup Recovered(files[last])
    BY <2>2
  <2> QED BY <2>1, <2>3 DEF OnDisk
<1>5. InReach' = FirstRows(O, files) \cup (UNION {Recovered(files[n]) : n \in L}) \cup B
  <2>1. LaterOrphans' = L
    BY <1>1 DEF LaterOrphans
  <2>2. RowsOfLogs(LaterOrphans)' = UNION {Recovered(files[n]) : n \in L}
    BY <1>1, <2>1 DEF RowsOfLogs
  <2>3. RowsOfFiles(ssts)' = RowsOfFiles(Listed \cup Adopted) /\ active'.rows = Recovered(files[last])
    BY <1>1 DEF RowsOfFiles
  <2> HIDE DEF L, O
  <2> QED BY <1>1, <2>2, <2>3 DEF InReach
<1>6. SameNewest(OnDisk, InReach') /\ InReach' \subseteq OnDisk
  <2>1. Bounded(OnDisk) /\ O \in SUBSET Nat
    BY <1>2, AllBounded
  <2>2. InReach' = FirstRows(O, files)
                    \cup (UNION {Recovered(files[n]) : n \in {p \in O : \E m \in O : m < p}}) \cup B
    BY <1>5
  <2>3. OnDisk = AllOfThem(files, O, B) /\ InReach' = LeftOfThem(files, O, B)
    BY <1>4, <2>2 DEF AllOfThem, LeftOfThem, RowsIn, Later
  <2> HIDE DEF B, O, L
  <2>4. PICK W, P, C : W = files /\ P = O /\ C = B
    OBVIOUS
  <2>5. P \in SUBSET Nat /\ Bounded(AllOfThem(W, P, C))
    BY <2>1, <2>3, <2>4
  <2> QED BY <2>3, <2>4, <2>5, FirstOrphan
<1>7. PartExplains(InReach)'
  <2>1. PartExplains(OnDisk)
    BY <1>1 DEF LogParts, StopKeepsLog
  <2>2. PICK R : R = InReach'
    OBVIOUS
  <2>3. PartExplains(R)
    BY <1>6, <2>1, <2>2, PartStaysExplained
  <2> QED BY <1>1, <2>2, <2>3 DEF PartExplains
<1>8. OpeningKeepsLog'
  <2>1. orphans' = {} => pending' = {}
    BY <1>1 DEF FirstRows
  <2> QED BY <1>7, <2>1 DEF OpeningKeepsLog
<1>9. NothingYet'
  <2> SUFFICES ASSUME stops = 0 PROVE NothingYet'
    BY <1>1 DEF NothingYet
  <2>1. /\ \A n \in DOMAIN wal : n = 0 /\ wal[n] = EmptyLog
        /\ DOMAIN sst = {} /\ log = <<>> /\ synced = 0
    BY <1>1 DEF LogParts, NothingYet
  <2>2. logs = {0} /\ last = 0 /\ O = {} /\ files[0] = EmptyLog
    BY <1>2, <1>3, <2>1
  <2>3. ssts' = {} /\ pending' = {} /\ active' = [wal |-> 0, rows |-> {}]
    BY <1>1, <2>1, <2>2, EmptyLogHasNone DEF Listed, Adopted, FirstRows
  <2>4. \A n \in DOMAIN wal' : n = 0 /\ wal'[n] = EmptyLog
    BY <1>1, <1>3, <2>2
  <2> QED BY <1>1, <2>1, <2>2, <2>3, <2>4 DEF NothingYet
<1>10. ServesLog' /\ StopKeepsLog'
  BY <1>1 DEF ServesLog, StopKeepsLog
<1> QED BY <1>1, <1>8, <1>9, <1>10, NotFirstRun DEF LogParts

\* A row of an orphan is written to the log in use, or it is not needed.
LEMMA MergeRowServes ==
    ASSUME DurableInv, LogParts, MergeRow
    PROVE  LogParts'
<1> USE DEF history
<1>1. PICK r \in pending :
        /\ pending' = pending \ {r}
        /\ IF \E q \in active.rows : q.key = r.key /\ q.seq >= r.seq
           THEN UNCHANGED <<wal, ops, active>>
           ELSE Appended({r})
  BY DEF MergeRow
<1>2. /\ phase = "merge" /\ phase' = "merge"
      /\ UNCHANGED <<sst, manifest, imm, ssts, orphans, log, synced, stops>>
  BY DEF MergeRow
<1>3. stops # 0 /\ orphans # {}
  BY <1>1, <1>2 DEF LogParts, NothingYet, OpeningKeepsLog
<1>4. Bounded(InReach) /\ OneRowPerNumber(InReach) /\ PartExplains(InReach)
  BY <1>2, AllBounded DEF LogParts, OpeningKeepsLog, PartExplains
<1>5. SameNewest(InReach, InReach') /\ InReach' \subseteq InReach
  <2>1. CASE \E q \in active.rows : q.key = r.key /\ q.seq >= r.seq
    <3>1. PICK q \in active.rows : q.key = r.key /\ q.seq >= r.seq
      BY <2>1
    <3>2. UNCHANGED <<wal, active>>
      BY <1>1, <2>1
    <3>3. InReach = InReach' \cup {r} /\ q \in InReach'
      <4>1. RowsOfLogs(LaterOrphans)' = RowsOfLogs(LaterOrphans)
            /\ RowsOfFiles(ssts)' = RowsOfFiles(ssts)
        BY <1>2, <3>2 DEF RowsOfLogs, LaterOrphans, RowsOfFiles
      <4> QED BY <1>1, <3>1, <3>2, <4>1 DEF InReach
    <3>4. PICK X : X = InReach'
      OBVIOUS
    <3>5. Bounded(X \cup {r}) /\ OneRowPerNumber(X \cup {r}) /\ q \in X
      BY <1>4, <3>3, <3>4
    <3>6. SameNewest(X, X \cup {r})
      BY <3>1, <3>5, NewestWithoutOlder
    <3> QED BY <3>3, <3>4, <3>6 DEF SameNewest
  <2>2. CASE Appended({r})
    <3>1. {r} \in SUBSET Row /\ active.wal \in DOMAIN wal /\ GoodLog(wal[active.wal])
          /\ active \in [wal : Nat, rows : SUBSET Row]
      BY <1>1, <1>2, ActiveLog DEF DurableInv, Memtables
    <3>2. /\ DOMAIN wal' = DOMAIN wal
          /\ \A n \in DOMAIN wal : n # active.wal => wal'[n] = wal[n]
          /\ active'.rows = active.rows \cup {r}
      BY <2>2, <3>1, AppendedFacts
    <3>3. \A n \in LaterOrphans : wal'[n] = wal[n]
      BY <1>2, <3>2 DEF LaterOrphans, DurableInv, Logs
    <3>4. RowsOfLogs(LaterOrphans)' = RowsOfLogs(LaterOrphans)
      BY <1>2, <3>3 DEF RowsOfLogs, LaterOrphans
    <3>5. RowsOfFiles(ssts)' = RowsOfFiles(ssts)
      BY <1>2 DEF RowsOfFiles
    <3>6. InReach' = InReach
      BY <1>1, <3>2, <3>4, <3>5 DEF InReach
    <3> QED BY <3>6 DEF SameNewest
  <2> QED BY <1>1, <2>1, <2>2
<1>6. PartExplains(InReach)'
  <2>1. PICK R : R = InReach'
    OBVIOUS
  <2>2. PartExplains(R)
    BY <1>4, <1>5, <2>1, PartStaysExplained
  <2> QED BY <1>2, <2>1, <2>2 DEF PartExplains
<1>7. OpeningKeepsLog' /\ NothingYet' /\ ServesLog' /\ StopKeepsLog'
  BY <1>2, <1>3, <1>6 DEF OpeningKeepsLog, NothingYet, ServesLog, StopKeepsLog
<1> QED BY <1>2, <1>7, NotFirstRun DEF LogParts

LEMMA RemoveOrphanServes ==
    ASSUME DurableInv, LogParts, RemoveOrphan
    PROVE  LogParts'
<1> USE DEF memory, history
<1> DEFINE first == Min(orphans)
           O == orphans \ {first}
<1>1. /\ phase = "merge" /\ phase' = "merge" /\ orphans # {} /\ pending = {}
      /\ wal' = Without(first) /\ orphans' = O /\ pending' = FirstRows(O, wal)
      /\ UNCHANGED <<sst, manifest, active, ssts, log, synced, stops>>
  BY DEF RemoveOrphan
<1>2. orphans \in SUBSET Nat /\ orphans \subseteq DOMAIN wal
  BY <1>1, BoundAssumption DEF DurableInv, Logs, LogNumbers
<1>3. first \in orphans /\ \A n \in orphans : first <= n
  BY <1>1, <1>2, MinIsSmallest
<1>4. DOMAIN wal' = DOMAIN wal \ {first} /\ \A m \in DOMAIN wal' : wal'[m] = wal[m]
  BY <1>1, WithoutFacts
<1>5. stops # 0
  BY <1>1 DEF LogParts, NothingYet
<1>6. Bounded(InReach) /\ PartExplains(InReach)
  BY <1>1, AllBounded DEF LogParts, OpeningKeepsLog
<1>7. LaterOrphans = O
  <2>1. ASSUME NEW n \in orphans PROVE n # first <=> \E m \in orphans : m < n
    <3>1. n \in Nat /\ first \in Nat /\ first <= n
      BY <1>2, <1>3
    <3>2. ASSUME NEW m \in orphans, m < n PROVE n # first
      <4>1. m \in Nat /\ first <= m
        BY <1>2, <1>3
      <4> QED BY <3>1, <3>2, <4>1
    <3>3. n # first => first < n
      BY <3>1
    <3> QED BY <1>3, <3>2, <3>3
  <2> QED BY <2>1 DEF LaterOrphans
<1> HIDE DEF first
<1> DEFINE B == active.rows \cup RowsOfFiles(ssts)
           L == {p \in O : \E m \in O : m < p}
<1>8. InReach = (UNION {Recovered(wal[n]) : n \in O}) \cup B
  <2> HIDE DEF O
  <2> QED BY <1>1, <1>7 DEF InReach, RowsOfLogs
<1>9. InReach' = FirstRows(O, wal) \cup (UNION {Recovered(wal[n]) : n \in L}) \cup B
  <2>1. LaterOrphans' = L /\ \A n \in L : n \in DOMAIN wal'
    BY <1>1, <1>2, <1>4 DEF LaterOrphans
  <2>2. RowsOfLogs(LaterOrphans)' = UNION {Recovered(wal[n]) : n \in L}
    <3>1. \A n \in L : wal'[n] = wal[n]
      BY <1>4, <2>1
    <3> HIDE DEF L
    <3> QED BY <2>1, <3>1 DEF RowsOfLogs
  <2>3. RowsOfFiles(ssts)' = RowsOfFiles(ssts)
    BY <1>1 DEF RowsOfFiles
  <2> HIDE DEF L, O
  <2> QED BY <1>1, <2>2, <2>3 DEF InReach
<1>10. SameNewest(InReach, InReach') /\ InReach' \subseteq InReach
  <2>1. O \in SUBSET Nat
    BY <1>2
  <2>2. InReach' = FirstRows(O, wal)
                    \cup (UNION {Recovered(wal[n]) : n \in {p \in O : \E m \in O : m < p}}) \cup B
    BY <1>9
  <2>3. InReach = AllOfThem(wal, O, B) /\ InReach' = LeftOfThem(wal, O, B)
    BY <1>8, <2>2 DEF AllOfThem, LeftOfThem, RowsIn, Later
  <2> HIDE DEF B, O, L
  <2>4. PICK W, P, C : W = wal /\ P = O /\ C = B
    OBVIOUS
  <2>5. P \in SUBSET Nat /\ Bounded(AllOfThem(W, P, C))
    BY <1>6, <2>1, <2>3, <2>4
  <2> QED BY <2>3, <2>4, <2>5, FirstOrphan
<1>11. PartExplains(InReach)'
  <2>1. PICK R : R = InReach'
    OBVIOUS
  <2>2. PartExplains(R)
    BY <1>6, <1>10, <2>1, PartStaysExplained
  <2> QED BY <1>1, <2>1, <2>2 DEF PartExplains
<1>12. OpeningKeepsLog'
  <2>1. orphans' = {} => pending' = {}
    BY <1>1 DEF FirstRows
  <2> QED BY <1>11, <2>1 DEF OpeningKeepsLog
<1>13. NothingYet' /\ ServesLog' /\ StopKeepsLog'
  BY <1>1, <1>5 DEF NothingYet, ServesLog, StopKeepsLog
<1> QED BY <1>1, <1>12, <1>13, NotFirstRun DEF LogParts

-----------------------------------------------------------------------------

\* Of a log that has a first part that explains what is served, opening
\* keeps the longest.
LEMMA LongestIsKept ==
    ASSUME History, NEW n \in synced .. Len(log), Explains(SubSeq(log, 1, n), Contents)
    PROVE  \E m \in synced .. Len(log) :
                /\ Explained = SubSeq(log, 1, m) /\ Len(Explained) = m
                /\ Explains(Explained, Contents)
<1> DEFINE N == {p \in 0 .. Len(log) :
                    \A k \in Keys : Served(Contents, k) = LastWriter(SubSeq(log, 1, p), k)}
<1>1. log \in Seq(Entry) /\ Len(log) \in Nat /\ synced \in Nat /\ n \in Nat /\ n <= Len(log)
      /\ synced <= n
  <2>1. log \in Seq(Entry) /\ Len(log) \in Nat /\ synced \in Nat
    BY LenProperties DEF History
  <2> QED BY <2>1
<1>2. n \in N /\ N \in SUBSET (0 .. Len(log))
  BY <1>1 DEF Explains
<1>3. Explained = SubSeq(log, 1, Max(N))
  BY <1>2 DEF Explained
<1>4. \A p \in N : Explains(SubSeq(log, 1, p), Contents)
  BY DEF Explains
<1> HIDE DEF N
<1>5. N \in SUBSET Nat /\ \A p \in N : p <= Len(log)
  BY <1>1, <1>2
<1>6. Max(N) \in N /\ n <= Max(N)
  BY <1>1, <1>2, <1>5, MaxOfBounded
<1>7. Max(N) \in Nat /\ Max(N) <= Len(log) /\ Max(N) \in synced .. Len(log)
  <2>1. PICK x : x = Max(N)
    OBVIOUS
  <2>2. x \in Nat /\ x <= Len(log) /\ n <= x
    BY <1>5, <1>6, <2>1
  <2>3. x \in synced .. Len(log)
    BY <1>1, <2>2
  <2> QED BY <2>1, <2>2, <2>3
<1>8. Len(SubSeq(log, 1, Max(N))) = Max(N)
  <2> HIDE DEF Entry
  <2>1. 1 \in Int /\ Max(N) \in Nat /\ \A i \in 1 .. Max(N) : i \in 1 .. Len(log)
    BY <1>1, <1>7
  <2> QED BY <1>1, <2>1, SubSeqProperties
<1> QED BY <1>3, <1>4, <1>6, <1>7, <1>8

LEMMA ServeKeepsLog ==
    ASSUME DurableInv, LogParts, Serve
    PROVE  /\ \E m \in synced .. Len(log) : log' = SubSeq(log, 1, m) /\ Len(log') = m
           /\ Contents' = Contents /\ Explains(log', Contents)
<1>1. /\ phase = "merge" /\ orphans = {} /\ log' = Explained
      /\ UNCHANGED <<sst, active, imm, ssts>>
  BY DEF Serve
<1>2. imm = {} /\ History
  BY <1>1 DEF DurableInv, Phases
<1>3. InReach = Contents
  <2>1. pending = {} /\ LaterOrphans = {}
    BY <1>1 DEF LogParts, OpeningKeepsLog, LaterOrphans
  <2> QED BY <1>2, <2>1 DEF InReach, Contents, RowsOfLogs, RowsOfFiles
<1>4. Contents' = Contents
  BY <1>1 DEF Contents
<1>5. PICK n \in synced .. Len(log) : Explains(SubSeq(log, 1, n), Contents)
  BY <1>1, <1>3 DEF LogParts, OpeningKeepsLog, PartExplains
<1> QED BY <1>1, <1>2, <1>4, <1>5, LongestIsKept

LEMMA ServeServes ==
    ASSUME DurableInv, LogParts, Serve
    PROVE  LogParts'
<1>1. /\ phase = "merge" /\ phase' = "up" /\ seq' = Watermark + 1
      /\ UNCHANGED <<wal, sst, active, ops, imm, ssts, writer, worker, synced, stops>>
  BY DEF Serve
<1>2. PICK m \in synced .. Len(log) :
        /\ log' = SubSeq(log, 1, m) /\ Len(log') = m
        /\ Contents' = Contents /\ Explains(log', Contents)
  BY ServeKeepsLog
<1>3. ServesLog'
  <2>1. synced <= m
    BY DEF DurableInv, History
  <2> QED BY <1>1, <1>2, <2>1 DEF ServesLog
<1>4. CASE stops # 0
  BY <1>1, <1>3, <1>4, UpIsUp, NotFirstRun DEF LogParts
<1>5. CASE stops = 0
  <2>1. /\ DOMAIN wal = {0} /\ wal[0] = EmptyLog /\ active = [wal |-> 0, rows |-> {}]
        /\ DOMAIN sst = {} /\ ssts = {} /\ imm = {} /\ worker = Idle
        /\ ops = 0 /\ log = <<>> /\ synced = 0
    <3>1. active.wal \in DOMAIN wal /\ imm = {} /\ worker = Idle
      BY <1>1 DEF DurableInv, Logs, Phases
    <3>2. /\ \A n \in DOMAIN wal : n = 0 /\ wal[n] = EmptyLog
          /\ active = [wal |-> 0, rows |-> {}]
          /\ DOMAIN sst = {} /\ ssts = {} /\ ops = 0 /\ log = <<>> /\ synced = 0
      BY <1>1, <1>5 DEF LogParts, NothingYet
    <3> QED BY <3>1, <3>2
  <2>2. Len(log') = 0 /\ SubSeq(log', 1, 0) = <<>>
    <3>1. m = 0
      BY <2>1, EmptySeq, LenProperties
    <3>2. log' = SubSeq(log, 1, 0) /\ Len(log') = 0
      BY <1>2, <3>1
    <3>3. log \in Seq(Entry) /\ [id |-> 0, keys |-> {}] \in Entry
      BY DEF DurableInv, History, Entry
    <3>4. log' = <<>>
      BY <3>2, <3>3, FirstOfLog
    <3> QED BY <2>1, <3>2, <3>3, <3>4, FirstOfLog
  <2>3. Frames' = EmptyLog.frames /\ Len(Frames') = 0 /\ DOMAIN Frames' = {}
    BY <1>1, <2>1, EmptyLogHasNone DEF Frames
  <2>4. /\ OldInMemory' = {} /\ OldInFiles' = {} /\ OldToFind' = {} /\ active'.rows = {}
    <3>1. OldLogs' = {} /\ Listed' = {} /\ Adopted' = {}
      BY <1>1, <2>1 DEF OldLogs, Listed, Adopted
    <3> QED BY <1>1, <2>1, <3>1 DEF OldInMemory, OldInFiles, OldToFind, RowsOfLogs, RowsOfFiles
  <2>5. FramesAreLog'
    <3>1. Before' = 0
      BY <2>2, <2>3 DEF Before
    <3>2. ops' = 0 /\ synced' = 0 /\ wal'[active'.wal].synced = 0
      BY <1>1, <2>1 DEF EmptyLog
    <3>3. ASSUME NEW n \in 0 .. 0
          PROVE  Explains(SubSeq(log', 1, 0 + n), OldInMemory' \cup FirstFrames(Frames', n))
      <4>1. n = 0 /\ 0 + n = 0
        OBVIOUS
      <4>2. FirstFrames(Frames', 0) = {}
        BY DEF FirstFrames
      <4>3. Explains(SubSeq(log', 1, 0), {})
        BY <2>2, NothingExplained
      <4> QED BY <2>4, <4>1, <4>2, <4>3
    <3> QED BY <2>3, <3>1, <3>2, <3>3 DEF FramesAreLog
  <2>6. LogsOfMemtables'
    BY <1>1, <2>1, <2>3, EmptyLogHasNone DEF LogsOfMemtables
  <2>7. OldIsKept'
    BY <1>1, <2>1, <2>4 DEF OldIsKept, SameNewest, OneRowPerNumber, Idle
  <2> QED BY <1>1, <1>3, <2>5, <2>6, <2>7, UpIsUp DEF LogParts
<1> QED BY <1>4, <1>5

-----------------------------------------------------------------------------
(* Every step.                                                             *)

LEMMA InitIsLogged == Init => LogInv
<1> SUFFICES ASSUME Init PROVE LogInv
  OBVIOUS
<1>1. /\ DOMAIN wal = {} /\ DOMAIN sst = {} /\ phase = "down" /\ stops = 0 /\ cutoff = 0
      /\ log = <<>> /\ synced = 0 /\ ssts = {} /\ orphans = {} /\ pending = {} /\ ops = 0
      /\ active = [wal |-> 0, rows |-> {}]
  BY EmptySeq, LenProperties DEF Init
<1>2. OnDisk = {}
  BY <1>1 DEF OnDisk, RowsOfLogs, RowsOfFiles, Listed, Adopted
<1>3. Len(log) = 0 /\ SubSeq(log, 1, 0) = <<>>
  <2>1. log \in Seq(Entry) /\ [id |-> 0, keys |-> {}] \in Entry /\ Len(log) = 0
    BY <1>1, EmptySeq, LenProperties DEF Entry
  <2> QED BY <2>1, FirstOfLog
<1>4. PartExplains(OnDisk)
  <2>1. 0 \in synced .. Len(log) /\ Explains(SubSeq(log, 1, 0), {})
    <3>1. 0 \in synced .. Len(log)
      BY <1>1, <1>3
    <3> QED BY <1>3, <3>1, NothingExplained
  <2> QED BY <1>2, <2>1 DEF PartExplains, OneRowPerNumber
<1>5. ServesLog /\ StopKeepsLog /\ OpeningKeepsLog /\ NothingYet
  BY <1>1, <1>4 DEF ServesLog, StopKeepsLog, OpeningKeepsLog, NothingYet
<1>6. FramesAreLog /\ LogsOfMemtables /\ OldIsKept
  BY <1>1 DEF FramesAreLog, LogsOfMemtables, OldIsKept, FirstRun
<1> QED BY <1>1, <1>5, <1>6 DEF LogInv, LogParts, OneStop

LEMMA OpeningKeepsParts ==
    ASSUME DurableInv, LogParts, Opening
    PROVE  LogParts'
BY OpenServes, MergeRowServes, RemoveOrphanServes, ServeServes DEF Opening

LEMMA WorkerKeepsParts ==
    ASSUME DurableInv, DurableInv', LogParts, Worker, cutoff = 0
    PROVE  LogParts'
BY FlushBuildServes, WriteManifestServes, FlushRemoveServes, CompactSwapServes,
   CompactRemoveServes DEF Worker

\* Only a stop counts stops, and only time moves the cutoff.
LEMMA StopsAndCutoff ==
    ASSUME [Next]_vars
    PROVE  \/ (Close \/ Crash) /\ stops < MaxStops /\ stops' = stops + 1 /\ cutoff' = cutoff
           \/ Expire /\ cutoff < MaxCutoff /\ cutoff' = cutoff + 1 /\ stops' = stops
           \/ /\ stops' = stops /\ cutoff' = cutoff
              /\ \/ Opening \/ Write \/ StartFreeze \/ Freezing \/ Worker \/ UNCHANGED vars
<1>1. CASE Opening
  BY <1>1 DEF Opening, Open, MergeRow, RemoveOrphan, Serve
<1>2. CASE Write \/ StartFreeze \/ Freezing
  BY <1>2 DEF Write, StartFreeze, Freezing, Fork, Freeze
<1>3. CASE Worker
  BY <1>3 DEF Worker, FlushBuild, WriteManifest, FlushRemove, CompactSwap, CompactRemove
<1>4. CASE Close \/ Crash
  BY <1>4 DEF Close, Crash, Forget
<1>5. CASE Expire
  BY <1>5 DEF Expire
<1>6. CASE UNCHANGED vars
  BY <1>6 DEF vars
<1> QED BY <1>1, <1>2, <1>3, <1>4, <1>5, <1>6 DEF Next

LEMMA NextKeepsLog ==
    ASSUME DurableInv, LogInv, [Next]_vars
    PROVE  LogInv'
<1>1. DurableInv' /\ stops \in Nat /\ cutoff \in Nat /\ (stops <= 1 /\ cutoff = 0 => LogParts)
  BY NextKeepsDurable DEF LogInv, OneStop
<1>2. CASE (Close \/ Crash) /\ stops' = stops + 1 /\ cutoff' = cutoff
  <2>1. stops' <= 1 => stops = 0 /\ stops <= 1
    BY <1>1, <1>2
  <2> QED BY <1>1, <1>2, <2>1, CloseServes, CrashServes DEF LogInv, OneStop
<1>3. CASE cutoff' = cutoff + 1 /\ stops' = stops
  BY <1>1, <1>3 DEF LogInv, OneStop
<1>4. CASE /\ stops' = stops /\ cutoff' = cutoff
           /\ Opening \/ Write \/ StartFreeze \/ Freezing \/ Worker \/ UNCHANGED vars
  <2> SUFFICES ASSUME stops <= 1, cutoff = 0 PROVE LogParts'
    BY <1>1, <1>4 DEF LogInv, OneStop
  <2>1. LogParts
    BY <1>1
  <2>2. CASE UNCHANGED vars
    BY <2>1, <2>2, PartsStay DEF vars, disk, memory, opening, history
  <2>3. CASE Freezing
    BY <2>1, <2>3, ForkServes, FreezeServes DEF Freezing
  <2> QED BY <1>1, <1>4, <2>1, <2>2, <2>3, OpeningKeepsParts, WriteServes, StartFreezeServes,
             WorkerKeepsParts
<1> QED BY <1>2, <1>3, <1>4, StopsAndCutoff

\* Of the rows that have left the log in use the newest are the same in
\* memory, in what a restart would find and in all files, whatever the worker
\* has done of a flush or a merge (memtable.rs 70-187, 228-255, 663-678),
\* and the frames of that log are the last transactions (wal.rs 63-128).  So a
\* stop keeps a first part of the log of transactions, not shorter than the
\* synced one, and opening arrives at one (memtable.rs 313-545).
THEOREM DirectoryKeepsLog == Spec => []DirectoryInv
<1>1. Init => DirectoryInv
  BY InitIsDurable, InitIsLogged DEF DirectoryInv
<1>2. DirectoryInv /\ [Next]_vars => DirectoryInv'
  BY NextKeepsDurable, NextKeepsLog DEF DirectoryInv
<1> QED BY <1>1, <1>2, PTL DEF Spec

-----------------------------------------------------------------------------
(* The log a Region keeps is the one it promises.                          *)

Kv == [k \in Keys |-> IF phase = "up" THEN Served(Contents, k) ELSE 0]

LEMMA SameLastWriter ==
    ASSUME NEW l \in Seq(Entry), NEW k
    PROVE  Abstract!LastWriter(l, k) = LastWriter(l, k)
<1> DEFINE W == {i \in DOMAIN l : k \in l[i].keys}
           last == CHOOSE i \in W : \A j \in W : j <= i
<1>1. CASE W = {}
  BY <1>1 DEF Abstract!LastWriter, LastWriter
<1>2. CASE W # {}
  <2>1. W \in SUBSET Nat /\ Len(l) \in Nat /\ \A i \in W : i <= Len(l)
    <3>1. Len(l) \in Nat /\ DOMAIN l = 1 .. Len(l)
      BY LenProperties
    <3> QED BY <3>1
  <2>2. LastWriter(l, k) = l[Max(W)].id /\ Abstract!LastWriter(l, k) = l[last].id
    BY <1>2 DEF LastWriter, Abstract!LastWriter
  <2> HIDE DEF W
  <2>3. Max(W) \in W /\ \A j \in W : j <= Max(W)
    BY <1>2, <2>1, MaxOfBounded
  <2>4. last \in W /\ \A j \in W : j <= last
    BY <2>3
  <2> HIDE DEF last
  <2>5. last <= Max(W) /\ Max(W) <= last /\ last \in Nat /\ Max(W) \in Nat
    BY <2>1, <2>3, <2>4
  <2>6. last = Max(W)
    BY <2>5
  <2> QED BY <2>2, <2>6
<1> QED BY <1>1, <1>2

LEMMA ServesWhatLogSays ==
    DurableInv /\ LogParts /\ phase = "up" => Kv = Abstract!Apply(log)
<1> SUFFICES ASSUME DurableInv, LogParts, phase = "up" PROVE Kv = Abstract!Apply(log)
  OBVIOUS
<1>1. ASSUME NEW k \in Keys PROVE Served(Contents, k) = Abstract!LastWriter(log, k)
  <2>1. Served(Contents, k) = LastWriter(log, k)
    BY DEF LogParts, ServesLog, Explains
  <2>2. log \in Seq(Entry)
    BY DEF DurableInv, History
  <2> QED BY <2>1, <2>2, SameLastWriter
<1> QED BY <1>1 DEF Kv, Abstract!Apply

LEMMA InitIsAbstract == Init => Abstract!Init
<1> SUFFICES ASSUME Init PROVE Abstract!Init
  OBVIOUS
<1>1. log = <<>> /\ synced = 0 /\ (phase = "up") = FALSE
  BY DEF Init
<1>2. [k \in Keys |-> IF phase = "up" THEN Served(Contents, k) ELSE 0] = Abstract!Empty
  BY <1>1 DEF Abstract!Empty
<1> QED BY <1>1, <1>2 DEF Abstract!Init

\* A step that is none of the log.
LEMMA LogStays ==
    ASSUME DurableInv, DurableInv', LogParts, LogParts',
           (phase' = "up") = (phase = "up"), UNCHANGED <<log, synced>>
    PROVE  UNCHANGED Abstract!vars
<1>1. Kv' = Kv
  <2>1. CASE phase = "up"
    <3>1. phase' = "up"
      BY <2>1
    <3>2. Kv = Abstract!Apply(log)
      BY <2>1, ServesWhatLogSays
    <3>3. (DurableInv /\ LogParts /\ phase = "up" => Kv = Abstract!Apply(log))'
      BY ServesWhatLogSays, PTL
    <3>4. Kv' = Abstract!Apply(log')
      BY <3>1, <3>3
    <3> QED BY <3>2, <3>4
  <2>2. CASE phase # "up"
    <3>1. phase' # "up"
      BY <2>2
    <3>2. Kv = [k \in Keys |-> 0] /\ Kv' = [k \in Keys |-> 0]
      BY <2>2, <3>1 DEF Kv
    <3> QED BY <3>2
  <2> QED BY <2>1, <2>2
<1> QED BY <1>1 DEF Kv, Abstract!vars

LEMMA WriteIsAbstract ==
    ASSUME DurableInv, DurableInv', LogParts, LogParts', Write
    PROVE  Abstract!Write
<1>1. PICK K \in SUBSET Keys : log' = Append(log, [id |-> txns + 1, keys |-> K])
  BY DEF Write
<1>2. /\ phase = "up" /\ phase' = "up" /\ txns + 1 \in 1 .. MaxTxns
      /\ synced' \in {synced, Len(log')}
  <2>1. txns \in Nat /\ MaxTxns \in Nat
    BY BoundAssumption DEF DurableInv, History
  <2> QED BY <2>1 DEF Write
<1>3. Kv' = Abstract!Apply(log')
  <2>1. (DurableInv /\ LogParts /\ phase = "up" => Kv = Abstract!Apply(log))'
    BY ServesWhatLogSays, PTL
  <2> QED BY <1>2, <2>1
<1>4. synced' \in synced .. Len(log')
  <2>1. /\ synced \in Nat /\ Len(log) \in Nat /\ synced <= Len(log)
        /\ Len(log') = Len(log) + 1
    BY <1>1, <1>2, LenProperties, AppendProperties DEF DurableInv, History, LogParts, ServesLog, Entry
  <2> QED BY <1>2, <2>1
<1> QED BY <1>1, <1>2, <1>3, <1>4 DEF Abstract!Write, Kv

LEMMA FreezeIsAbstract ==
    ASSUME DurableInv, DurableInv', LogParts, LogParts', Freeze
    PROVE  Abstract!Sync
<1>1. phase = "up" /\ phase' = "up" /\ log' = log /\ synced' = Len(log)
  BY DEF Freeze
<1>2. Kv' = Kv
  <2>1. (DurableInv /\ LogParts /\ phase = "up" => Kv = Abstract!Apply(log))'
    BY ServesWhatLogSays, PTL
  <2>2. Kv' = Abstract!Apply(log') /\ Kv = Abstract!Apply(log)
    BY <1>1, <2>1, ServesWhatLogSays
  <2> QED BY <1>1, <2>2
<1>3. synced' \in synced .. Len(log)
  <2>1. synced \in Nat /\ Len(log) \in Nat /\ synced <= Len(log)
    BY <1>1, LenProperties DEF DurableInv, History, LogParts, ServesLog
  <2> QED BY <1>1, <2>1
<1> QED BY <1>1, <1>2, <1>3 DEF Abstract!Sync, Kv

LEMMA StopIsAbstract ==
    ASSUME DurableInv, LogParts, phase = "up", Forget, synced' \in {synced, Len(log)}
    PROVE  Abstract!Stop
<1>1. phase' = "down" /\ log' = log
  BY DEF Forget
<1>2. Kv' = Abstract!Empty
  BY <1>1 DEF Kv, Abstract!Empty
<1>3. synced' \in synced .. Len(log)
  <2>1. synced \in Nat /\ Len(log) \in Nat /\ synced <= Len(log)
    BY LenProperties DEF DurableInv, History, LogParts, ServesLog
  <2> QED BY <2>1
<1> QED BY <1>1, <1>2, <1>3 DEF Abstract!Stop, Kv

LEMMA ServeIsAbstract ==
    ASSUME DurableInv, DurableInv', LogParts, LogParts', Serve
    PROVE  Abstract!Recover
<1>1. phase = "merge" /\ phase' = "up" /\ synced' = synced
  BY DEF Serve
<1>2. PICK n \in synced .. Len(log) : log' = SubSeq(log, 1, n) /\ Len(log') = n
  BY ServeKeepsLog
<1>3. Kv' = Abstract!Apply(log')
  <2>1. (DurableInv /\ LogParts /\ phase = "up" => Kv = Abstract!Apply(log))'
    BY ServesWhatLogSays, PTL
  <2> QED BY <1>1, <2>1
<1>4. synced' \in synced .. n
  <2>1. synced \in Nat
    BY DEF DurableInv, History
  <2> QED BY <1>1, <1>2, <2>1
<1> QED BY <1>1, <1>2, <1>3, <1>4 DEF Abstract!Recover, Kv

LEMMA StepIsAbstract ==
    ASSUME DirectoryInv, DirectoryInv', OneStop, OneStop', [Next]_vars
    PROVE  [Abstract!Next]_(Abstract!vars)
<1>1. DurableInv /\ DurableInv' /\ LogParts /\ LogParts'
  BY DEF DirectoryInv, LogInv, OneStop
<1>2. CASE Open \/ MergeRow \/ RemoveOrphan
  <2>1. phase # "up" /\ phase' # "up" /\ UNCHANGED <<log, synced>>
    BY <1>2 DEF Open, MergeRow, RemoveOrphan, history
  <2> QED BY <1>1, <2>1, LogStays
<1>3. CASE Serve
  BY <1>1, <1>3, ServeIsAbstract DEF Abstract!Next
<1>4. CASE Write
  BY <1>1, <1>4, WriteIsAbstract DEF Abstract!Next
<1>5. CASE Freeze
  BY <1>1, <1>5, FreezeIsAbstract DEF Abstract!Next
<1>6. CASE StartFreeze \/ Fork \/ Worker \/ Expire
  <2>1. phase = "up" /\ phase' = "up" /\ UNCHANGED <<log, synced>>
    BY <1>6 DEF StartFreeze, Fork, Worker, FlushBuild, WriteManifest, FlushRemove, CompactSwap,
                CompactRemove, Expire, history
  <2> QED BY <1>1, <2>1, LogStays
<1>7. CASE Close
  <2>1. phase = "up" /\ Forget /\ synced' = Len(log)
    BY <1>7 DEF Close
  <2> QED BY <1>1, <2>1, StopIsAbstract DEF Abstract!Next
<1>8. CASE Crash
  <2>1. Forget /\ synced' = synced
    BY <1>8 DEF Crash
  <2>2. CASE phase = "up"
    BY <1>1, <2>1, <2>2, StopIsAbstract DEF Abstract!Next
  <2>3. CASE phase # "up"
    <3>1. phase' # "up" /\ UNCHANGED <<log, synced>>
      BY <2>1 DEF Forget
    <3> QED BY <1>1, <2>3, <3>1, LogStays
  <2> QED BY <2>2, <2>3
<1>9. CASE UNCHANGED vars
  <2>1. phase' = phase /\ UNCHANGED <<log, synced>>
    BY <1>9 DEF vars, history
  <2> QED BY <1>1, <2>1, LogStays
<1> QED BY <1>2, <1>3, <1>4, <1>5, <1>6, <1>7, <1>8, <1>9 DEF Next, Opening, Freezing

\* Up to the second stop, and while nothing has expired, the Region is a log
\* of transactions, each applied whole, with a durable first part: what is
\* served is what the log says, and a stop takes at most its end
\* (memtable.rs 70-187, 228-255, 313-545, 663-678, 884-890, wal.rs 63-138).
THEOREM ImplementsUntilSecondStop == Spec /\ []OneStop => ImplementsLog
<1>1. Init => Abstract!Init
  BY InitIsAbstract
<1>2. DirectoryInv /\ DirectoryInv' /\ OneStop /\ OneStop' /\ [Next]_vars
        => [Abstract!Next]_(Abstract!vars)
  BY StepIsAbstract
<1> QED BY <1>1, <1>2, DirectoryKeepsLog, PTL DEF Spec, ImplementsLog, Abstract!Spec

\* What was synced is served after the first stop (wal.rs 63-138,
\* memtable.rs 313-545).
THEOREM FirstStopKeepsSynced == Spec => [](OneStop => SyncedSurvives)
<1>1. DirectoryInv => (OneStop => SyncedSurvives)
  BY DEF DirectoryInv, LogInv, LogParts, ServesLog, SyncedSurvives
<1> QED BY <1>1, DirectoryKeepsLog, PTL

\* In particular with constants that allow no second stop and no expiry.
THEOREM ImplementsWithOneStop ==
    ASSUME MaxStops <= 1, MaxCutoff = 0
    PROVE  Spec => ImplementsLog
<1> DEFINE Inv == stops \in 0 .. MaxStops /\ cutoff \in 0 .. MaxCutoff
<1>1. Init => Inv
  BY BoundAssumption DEF Init
<1>2. Inv /\ [Next]_vars => Inv'
  BY StopsAndCutoff, BoundAssumption
<1>3. Inv => OneStop
  BY BoundAssumption DEF OneStop
<1> QED BY <1>1, <1>2, <1>3, ImplementsUntilSecondStop, PTL DEF Spec
=============================================================================
