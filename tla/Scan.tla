-------------------------------- MODULE Scan --------------------------------
(***************************************************************************)
(* A SQL scan: the time range is read off the filters, SSTs and their row  *)
(* groups outside of it are skipped, the sources are merged through a heap *)
(* of cursors, and tombstones and what exceeds the limit are cut off.      *)
(*                                                                         *)
(* Any contents the sources can have are chosen when the snapshot is taken *)
(* (Region says how they come about); from there on a scan is sequential.  *)
(***************************************************************************)
EXTENDS Integers, FiniteSets, Sequences

CONSTANTS
    Tags, Times,    \* a key is a series (its tags) and a timestamp
    Memtables,      \* sources, in the order they are collected
    Ssts,
    MaxWrites,      \* bound: rows ever written
    MaxFilters,     \* bound: comparisons in one WHERE
    ChunkRows,      \* rows of a row group
    BatchRows,      \* rows of an output batch
    Limits          \* limits asked for, besides none

ASSUME SourcesAssumption ==
    /\ Memtables \subseteq Int /\ Ssts \subseteq Int /\ Memtables \cap Ssts = {}
    /\ IsFiniteSet(Memtables) /\ IsFiniteSet(Ssts)
ASSUME DataAssumption ==
    Tags \subseteq Int /\ Times \subseteq Int /\ IsFiniteSet(Times) /\ Times # {}
ASSUME SizesAssumption == ChunkRows \in Nat \ {0} /\ BatchRows \in Nat \ {0}
ASSUME BoundsAssumption == MaxWrites \in Nat /\ MaxFilters \in Nat

ASSUME LimitsAssumption == Limits \subseteq Nat
NoLimit == -1

VARIABLES
    phase,      \* "ask", "plan", "exec", "merge", "done"
    filters,    \* the comparisons of the WHERE, all of them to hold
    cutoff,     \* rows before it have expired
    range,      \* the time range, ends included
    limit,
    rows,       \* rows[s]: what source s holds
    batches,    \* batches[s]: what it still has to deliver
    cursor,     \* cursor[s]: the rest of its batch, the first row in the heap
    buffered,   \* rows merged, not yet handed out
    result      \* rows handed out

vars == <<phase, filters, cutoff, range, limit, rows, batches, cursor, buffered, result>>

-----------------------------------------------------------------------------
Sources == Memtables \cup Ssts
Keys == [tag : Tags, ts : Times]

Largest(S) == CHOOSE x \in S : \A y \in S : y <= x
Smallest(S) == CHOOSE x \in S : \A y \in S : x <= y

\* The ends of i64, further out than any timestamp.
Lowest == Smallest(Times) - 1
Highest == Largest(Times) + 1

Before(k, l) == k.tag < l.tag \/ (k.tag = l.tag /\ k.ts < l.ts)
\* R, a row for a key, in the order of keys.
InOrder(R) ==
    [i \in 1 .. Cardinality(R) |->
        CHOOSE r \in R : Cardinality({q \in R : Before(q.key, r.key)}) = i - 1]

RowsOf(s) == {s[i] : i \in DOMAIN s}

\* The n-th number of a set of them, and a sequence at those positions only
\* (what SelectSeq yields, in a form that can be reasoned about).
Nth(I, n) == CHOOSE i \in I : Cardinality({j \in I : j < i}) = n - 1
Picked(s, I) == [n \in 1 .. Cardinality(I) |-> s[Nth(I, n)]]

-----------------------------------------------------------------------------
(* Filters and the time range.                                             *)

Comparison == [op : {"<", "<=", ">", ">=", "=", "!="}, ts : Times, flipped : BOOLEAN]

\* Mutant: a comparison is read the same with the literal on the left.
NotSwapped(op) == op
Swapped(op) ==
    CASE op = "<" -> ">" [] op = "<=" -> ">=" [] op = ">" -> "<" [] op = ">=" -> "<="
      [] OTHER -> op
\* The operator as it is with the column on the left.
Operator(c) == IF c.flipped THEN Swapped(c.op) ELSE c.op

\* Every comparison narrows the range; one it does not know leaves it.
ExtractTimeRange(F) ==
    [min |-> Largest({Lowest} \cup {c.ts : c \in {d \in F : Operator(d) \in {">", ">=", "="}}}),
     max |-> Smallest({Highest} \cup {c.ts : c \in {d \in F : Operator(d) \in {"<", "<=", "="}}})]

\* What DataFusion means by a comparison.
Holds(op, a, b) ==
    CASE op = "<" -> a < b [] op = "<=" -> a <= b [] op = ">" -> a > b
      [] op = ">=" -> a >= b [] op = "=" -> a = b [] op = "!=" -> a # b
Keeps(F, ts) ==
    \A c \in F : IF c.flipped THEN Holds(c.op, c.ts, ts) ELSE Holds(c.op, ts, c.ts)

Unbounded == range.min = Lowest /\ range.max = Highest
InRange(ts) == range.min <= ts /\ ts <= range.max

-----------------------------------------------------------------------------
(* What the sources deliver.                                               *)

\* A memtable hands out one batch for each series.
MemtableBatches(R) ==
    LET tags == {r.key.tag : r \in R}
    IN  [i \in 1 .. Cardinality(tags) |-> InOrder({r \in R : r.key.tag = Nth(tags, i)})]

\* The row groups an SST is written in.
RowGroups(R) ==
    LET s == InOrder(R)
        n == (Len(s) + ChunkRows - 1) \div ChunkRows
        end(i) == Smallest({i * ChunkRows, Len(s)})
    IN  [i \in 1 .. n |-> SubSeq(s, (i - 1) * ChunkRows + 1, end(i))]

MinTs(g) == Smallest({r.key.ts : r \in RowsOf(g)})
MaxTs(g) == Largest({r.key.ts : r \in RowsOf(g)})
\* Mutant: a group is left out when it only touches the range.
OverlapsStrictly(g) == MaxTs(g) > range.min /\ MinTs(g) < range.max
\* select_row_groups() leaves out the groups that lie outside.
Overlaps(g) == ~ (MaxTs(g) < range.min \/ MinTs(g) > range.max)

\* The batches of an SST: of the groups selected the rows in range, if any.
Passed(g) == Picked(g, {i \in DOMAIN g : InRange(g[i].key.ts)})
SstBatches(R) ==
    LET groups == RowGroups(R)
        kept == Picked(groups, {i \in DOMAIN groups :
                                    Overlaps(groups[i]) /\ Passed(groups[i]) # <<>>})
    IN  IF Unbounded THEN groups ELSE [i \in DOMAIN kept |-> Passed(kept[i])]

BatchesOf(s, R) == IF s \in Memtables THEN MemtableBatches(R) ELSE SstBatches(R)
Given(s, R) == IF range.min > range.max THEN <<>> ELSE BatchesOf(s, R)
FirstOf(g) == IF g = <<>> THEN <<>> ELSE Head(g)
RestOf(g) == IF g = <<>> THEN <<>> ELSE Tail(g)

-----------------------------------------------------------------------------
(* The merge.                                                              *)

\* Mutant: of one key the oldest row comes first.
OldestFirst(s, t) ==
    LET a == Head(cursor[s]) b == Head(cursor[t])
    IN  \/ Before(a.key, b.key)
        \/ a.key = b.key /\ (a.seq < b.seq \/ (a.seq = b.seq /\ s <= t))
\* The order of the heap: by key, the newest row of a key first, then by source.
Precedes(s, t) ==
    LET a == Head(cursor[s]) b == Head(cursor[t])
    IN  \/ Before(a.key, b.key)
        \/ a.key = b.key /\ (a.seq > b.seq \/ (a.seq = b.seq /\ s <= t))

Heap == {s \in Sources : cursor[s] # <<>>}
Top == CHOOSE s \in Heap : \A t \in Heap : Precedes(s, t)
\* Mutant: only the top is taken off.
TakenTop == {Top}
\* The top and what is below it under the same key are taken off together.
Taken == {s \in Heap : Head(cursor[s]).key = Head(cursor[Top]).key}

\* advance(): the next row of the batch, or the first of the next batch.
Advanced(s) ==
    IF Len(cursor[s]) > 1 THEN [rest |-> Tail(cursor[s]), left |-> batches[s]]
    ELSE [rest |-> FirstOf(batches[s]), left |-> RestOf(batches[s])]

-----------------------------------------------------------------------------
NoRange == [min |-> Lowest, max |-> Highest]

Init ==
    /\ phase = "ask"
    /\ filters = {}
    /\ cutoff = Lowest
    /\ range = NoRange
    /\ limit = NoLimit
    /\ rows = [s \in Sources |-> {}]
    /\ batches = [s \in Sources |-> <<>>]
    /\ cursor = [s \in Sources |-> <<>>]
    /\ buffered = <<>> /\ result = <<>>

Clamped(r, c) == [r EXCEPT !.min = Largest({@, c})]

\* LSMTableProvider::scan: the range of the filters, clamped by the TTL.  A
\* limit is only handed down when there are no filters to apply after it.
Plan ==
    /\ phase = "ask"
    /\ \E F \in SUBSET Comparison, c \in Times \cup {Lowest}, n \in Limits \cup {NoLimit} :
        /\ Cardinality(F) <= MaxFilters
        /\ F # {} => n = NoLimit
        /\ filters' = F /\ cutoff' = c /\ limit' = n
        /\ range' = Clamped(ExtractTimeRange(F), c)
    /\ phase' = "plan"
    /\ UNCHANGED <<rows, batches, cursor, buffered, result>>

\* What the sources may hold: of each write some sources got the row, and a
\* source keeps the newest row of each key.
Contents(h) ==
    [s \in Sources |->
        {r \in {[key |-> h[i].key, seq |-> i, op |-> h[i].op] : i \in DOMAIN h} :
            /\ s \in h[r.seq].at
            /\ \A i \in DOMAIN h : h[i].key = r.key /\ s \in h[i].at => i <= r.seq}]

Write == [key : Keys, op : {"put", "delete"}, at : (SUBSET Sources) \ {{}}]

\* LSMScanExec::new keeps the range, no longer what it comes from.
Prepare ==
    /\ phase = "plan" /\ phase' = "exec"
    /\ filters' = {} /\ cutoff' = Lowest
    /\ UNCHANGED <<range, limit, rows, batches, cursor, buffered, result>>

\* LSMStream::new collects the sources, and the first call of next_batch()
\* loads a batch of each.
Execute ==
    /\ phase = "exec"
    /\ \E n \in 0 .. MaxWrites : \E h \in [1 .. n -> Write] :
            rows' = Contents(h)
    /\ cursor' = [s \in Sources |-> FirstOf(Given(s, rows'[s]))]
    /\ batches' = [s \in Sources |-> RestOf(Given(s, rows'[s]))]
    /\ phase' = "merge"
    /\ UNCHANGED <<filters, cutoff, range, limit, buffered, result>>

\* One key goes from the sources to the output batch.
MergeKey ==
    /\ phase = "merge" /\ Heap # {} /\ Len(buffered) < BatchRows
    /\ buffered' = Append(buffered, Head(cursor[Top]))
    /\ cursor' = [s \in Sources |-> IF s \in Taken THEN Advanced(s).rest ELSE cursor[s]]
    /\ batches' = [s \in Sources |-> IF s \in Taken THEN Advanced(s).left ELSE batches[s]]
    /\ UNCHANGED <<phase, filters, cutoff, range, limit, rows, result>>

IsPut(r) == r.op = "put"
\* strip_internal() leaves the tombstones out.
Stripped(b) == Picked(b, {i \in DOMAIN b : IsPut(b[i])})

\* refill(): a full or last batch is stripped and handed out up to the limit.
HandOut ==
    /\ phase = "merge" /\ buffered # <<>>
    /\ Len(buffered) >= BatchRows \/ Heap = {}
    /\ LET puts == Stripped(buffered)
           remaining == limit - Len(result)
       IN  IF limit # NoLimit /\ puts # <<>> /\ Len(puts) >= remaining
           THEN result' = result \o SubSeq(puts, 1, remaining) /\ phase' = "done"
           ELSE result' = result \o puts /\ UNCHANGED phase
    /\ buffered' = <<>>
    /\ UNCHANGED <<filters, cutoff, range, limit, rows, batches, cursor>>

Exhausted ==
    /\ phase = "merge" /\ Heap = {} /\ buffered = <<>>
    /\ phase' = "done"
    /\ UNCHANGED <<filters, cutoff, range, limit, rows, batches, cursor, buffered, result>>

Next == Plan \/ Prepare \/ Execute \/ MergeKey \/ HandOut \/ Exhausted

Spec == Init /\ [][Next]_vars

-----------------------------------------------------------------------------
(* Properties.                                                             *)

AllRows == UNION {rows[s] : s \in Sources}
Live(r) == r.op = "put" /\ \A q \in AllRows : q.key = r.key => q.seq <= r.seq

\* The range read off the filters and clamped by the TTL (extract_time_range,
\* LSMTableProvider::scan) has in it every timestamp that the filters keep
\* and that has not expired.
RangeKeeps ==
    phase = "plan" =>
        \A ts \in Times : Keeps(filters, ts) /\ cutoff <= ts => InRange(ts)

\* The scan returns no row in range that has been overwritten or deleted,
\* whichever source holds the newer row and however it is pruned.
OnlyLiveRows ==
    \A r \in RowsOf(result) : InRange(r.key.ts) => Live(r)

\* When the scan ends every live row in range has been returned, or as many
\* rows as were asked for; never more.
NothingMissed ==
    phase = "done" =>
        /\ limit # NoLimit => Len(result) <= limit
        /\ limit = NoLimit \/ Len(result) < limit =>
            \A r \in AllRows : Live(r) /\ InRange(r.key.ts) => r \in RowsOf(result)

\* Rows come in the order of keys and no key comes twice, across batches too:
\* compaction writes the merge to an SST that must be sorted (sstable.rs 455).
OneRowPerKeyInOrder ==
    LET out == result \o buffered
    IN  \A i, j \in DOMAIN out : i < j => Before(out[i].key, out[j].key)
=============================================================================
