------------------------------ MODULE SstTable ------------------------------
(***************************************************************************)
(* An SST as create_from_batches() makes it of column batches: row groups, *)
(* an index of them and a Bloom filter; and how get() finds a row in it,   *)
(* how a scan collects a range of keys with some of the columns, and how a *)
(* compaction copies it.                                                   *)
(***************************************************************************)
EXTENDS RowCodec

CONSTANTS
    GroupRows,      \* rows in a row group (8192)
    BloomBits, BloomHashes

ASSUME SstAssumption ==
    {GroupRows, BloomBits, BloomHashes} \subseteq Nat \ {0}

-----------------------------------------------------------------------------
(* The SST: create_from_batches.                                           *)

\* FNV over the bytes of a key, in small.
Hash(key, salt, seed) ==
    FoldSeq(LAMBDA b, h : (h * 5 + b) % 97, seed * salt, key.tags \o <<key.ts>>)
BitIndexes(key, seed) ==
    LET h1 == Hash(key, 1, seed)
        h2 == Hash(key, 2, seed)
        odd == IF h2 % 2 = 0 THEN h2 + 1 ELSE h2
    IN  {(h1 + i * odd) % BloomBits : i \in 0 .. BloomHashes - 1}
BloomContains(bloom, key) == BitIndexes(key, bloom.seed) \subseteq bloom.bits

\* Rows i to j of a batch.
Slice(b, i, j) ==
    [cols |-> [c \in DOMAIN b.cols |-> SubSeq(b.cols[c], i, j)],
     seq |-> SubSeq(b.seq, i, j), op |-> SubSeq(b.op, i, j)]
\* Batches one after the other.
Concatenated(s, bs) ==
    [cols |-> [c \in DOMAIN s.columns |-> FlattenSeq([i \in DOMAIN bs |-> bs[i].cols[c]])],
     seq |-> FlattenSeq([i \in DOMAIN bs |-> bs[i].seq]),
     op |-> FlattenSeq([i \in DOMAIN bs |-> bs[i].op])]
\* A batch cut into pieces of at most n rows.
Pieces(b, n) ==
    [p \in 1 .. (NumRows(b) + n - 1) \div n |->
        Slice(b, (p - 1) * n + 1, IF p * n < NumRows(b) THEN p * n ELSE NumRows(b))]

SortedStrictly(keys) == \A i \in 1 .. Len(keys) - 1 : KeyBefore(keys[i], keys[i + 1])
KeysOf(s, b) == [i \in 1 .. NumRows(b) |-> KeyAt(s, b, i)]

\* What the index says of a row group.
GroupMeta(s, g) ==
    LET ts == {KeyAt(s, g, i).ts : i \in 1 .. NumRows(g)}
    IN  [num_rows |-> NumRows(g),
         min_key |-> KeyAt(s, g, 1), max_key |-> KeyAt(s, g, NumRows(g)),
         min_ts |-> CHOOSE t \in ts : \A u \in ts : t <= u,
         max_ts |-> CHOOSE t \in ts : \A u \in ts : u <= t]

\* The index as it goes into the file, keys in hexadecimal and the filter too,
\* and as it comes out again.
ToHex(bytes) ==
    [i \in 1 .. 2 * Len(bytes) |->
        IF i % 2 = 1 THEN bytes[(i + 1) \div 2] \div 16 ELSE bytes[i \div 2] % 16]
FromHex(digits) ==
    [i \in 1 .. Len(digits) \div 2 |-> digits[2 * i - 1] * 16 + digits[2 * i]]
HexKey(k) == [k EXCEPT !.tags = ToHex(@)]
UnhexKey(k) == [k EXCEPT !.tags = FromHex(@)]
ToJson(index) ==
    [index EXCEPT !.row_groups = [g \in DOMAIN index.row_groups |->
        [index.row_groups[g] EXCEPT !.min_key = HexKey(@), !.max_key = HexKey(@)]]]
FromJson(json) ==
    [json EXCEPT !.row_groups = [g \in DOMAIN json.row_groups |->
        [json.row_groups[g] EXCEPT !.min_key = UnhexKey(@), !.max_key = UnhexKey(@)]]]

\* The file of all rows in one batch, and its index.
TableOf(s, all, seed) ==
    LET groups == Pieces(all, GroupRows)
    IN  [groups |-> groups,
         index |-> [bloom |-> [seed |-> seed,
                               bits |-> UNION {BitIndexes(k, seed) : k \in Range(KeysOf(s, all))}],
                    row_groups |-> [g \in DOMAIN groups |-> GroupMeta(s, groups[g])],
                    max_seq |-> CHOOSE n \in Range(all.seq) :
                                    \A m \in Range(all.seq) : m <= n]]
\* Batches sorted by their first key, those with the same one left in order.
ByFirstKey(s, bs) ==
    LET first(i) == KeyAt(s, bs[i], 1)
    IN  Pick(bs, InOrderOf(DOMAIN bs, LAMBDA i, j :
            KeyBefore(first(i), first(j)) \/ (first(i) = first(j) /\ i < j)))
\* Refused unless keys increase from row to row and from batch to batch.
CreateFromBatches(s, bs, seed) ==
    LET all == Concatenated(s, ByFirstKey(s, bs))
    IN  IF SortedStrictly(KeysOf(s, all)) THEN Some(TableOf(s, all, seed)) ELSE None

-----------------------------------------------------------------------------
(* The point read: SSTable::get.                                           *)

\* How many elements come before the first that is FALSE.
PartitionPoint(marks) == Cardinality({i \in DOMAIN marks : \A j \in 1 .. i : marks[j]})

\* Mutant: a group is taken to end before its last key.
EndsAtOrBefore(meta, key) == ~KeyBefore(key, meta.max_key)
EndsBefore(meta, key) == KeyBefore(meta.max_key, key)
\* The only row group the key can be in.
CandidateRowGroup(t, key) ==
    LET metas == t.index.row_groups
        i == PartitionPoint([g \in DOMAIN metas |-> EndsBefore(metas[g], key)]) + 1
    IN  IF i \in DOMAIN metas /\ ~KeyBefore(key, metas[i].min_key) THEN Some(i) ELSE None

\* Its batches, as the reader hands them out n rows at a time.
DecodeRowGroup(t, g, n) == Pieces(t.groups[g], n)

\* The first batch that does not end before the key has it or nobody has.
SearchBatches(s, bs, key) ==
    LET lower(b) ==
            PartitionPoint([i \in 1 .. NumRows(b) |-> KeyBefore(KeyAt(s, b, i), key)]) + 1
        reach == {i \in DOMAIN bs : lower(bs[i]) <= NumRows(bs[i])}
    IN  IF reach = {} THEN None
        ELSE LET b == bs[CHOOSE i \in reach : \A j \in reach : i <= j]
                 n == lower(b)
             IN  IF KeyAt(s, b, n) # key THEN None
                 ELSE Some([seq |-> b.seq[n], value |-> ValueAt(s, b, n)])

Get(s, t, key, n) ==
    LET metas == t.index.row_groups
        g == CandidateRowGroup(t, key)
    IN  IF \/ metas = <<>>
           \/ KeyBefore(key, metas[1].min_key) \/ KeyBefore(metas[Len(metas)].max_key, key)
           \/ ~BloomContains(t.index.bloom, key)
           \/ g = None
        THEN None
        ELSE SearchBatches(s, DecodeRowGroup(t, g[1], n), key)

-----------------------------------------------------------------------------
(* A range of keys, and some of the columns: scan_batches_projected.        *)

\* The row groups with keys from start to end, and times in the range if any.
SelectRowGroups(metas, start, end, range) ==
    LET first == PartitionPoint([g \in DOMAIN metas |-> KeyBefore(metas[g].max_key, start)]) + 1
        upTo == PartitionPoint([g \in DOMAIN metas |-> ~KeyBefore(end, metas[g].min_key)])
    IN  Ascending({i \in DOMAIN metas :
            /\ first <= i /\ i <= (IF upTo = 0 THEN 1 ELSE upTo)
            /\ \A r \in Range(range) : ~(metas[i].max_ts < r.low \/ metas[i].min_ts > r.high)})

InFileOrder(cols) == Ascending(Range(cols))
\* Mutant: the tags are read only if they are asked for.
WantedWithoutTags(s, user) == InFileOrder(user \o <<s.time_index>>)
\* The columns read: those asked for, and those the key is made of.
Wanted(s, user) == InFileOrder(user \o s.primary_key \o <<s.time_index>>)
\* The columns read are put in their places again, nulls in the others.
RebuildFullWidth(s, b, proj) ==
    LET decoded == Pick(b.cols, InFileOrder(proj))
        used[c \in 0 .. Len(s.columns)] ==
            IF c = 0 THEN 0
            ELSE LET k == used[c - 1]
                 IN  IF k < Len(proj) /\ proj[k + 1] = c THEN k + 1 ELSE k
    IN  [b EXCEPT !.cols = [c \in DOMAIN s.columns |->
            IF used[c] # used[c - 1] THEN decoded[used[c]] ELSE NullArray(NumRows(b))]]

Passes(k, start, end, range) ==
    /\ ~KeyBefore(k, start) /\ ~KeyBefore(end, k)
    /\ \A r \in Range(range) : r.low <= k.ts /\ k.ts <= r.high
\* The rows of a batch whose keys pass: filter_record_batch.
Filtered(s, b, start, end, range) ==
    LET kept == Ascending({i \in 1 .. NumRows(b) : Passes(KeyAt(s, b, i), start, end, range)})
    IN  [cols |-> [c \in DOMAIN b.cols |-> Pick(b.cols[c], kept)],
         seq |-> Pick(b.seq, kept), op |-> Pick(b.op, kept)]

\* Mutant: a batch that begins in the range is handed out whole.
BeginsInside(first, last, start, end) == ~KeyBefore(first, start) /\ ~KeyBefore(end, first)
Inside(first, last, start, end) == ~KeyBefore(first, start) /\ ~KeyBefore(end, last)
\* What is handed out of a batch.
NextBatch(s, b, start, end, range) ==
    LET first == KeyAt(s, b, 1)
        last == KeyAt(s, b, NumRows(b))
    IN  IF range = None /\ Inside(first, last, start, end) THEN b
        ELSE IF range = None /\ (KeyBefore(last, start) \/ KeyBefore(end, first))
        THEN Slice(b, 1, 0)
        ELSE Filtered(s, b, start, end, range)

ScanBatches(s, t, start, end, range, user, n) ==
    LET metas == t.index.row_groups
        min == metas[1].min_key
        max == metas[Len(metas)].max_key
        groups == SelectRowGroups(metas, start, end, range)
        want == Wanted(s, user)
        full == range = None /\ ~KeyBefore(min, start) /\ ~KeyBefore(end, max)
        read == Pieces(Concatenated(s, Pick(t.groups, groups)), n)
        rebuilt == [i \in DOMAIN read |->
                    IF Len(want) = Len(s.columns) THEN read[i] ELSE RebuildFullWidth(s, read[i], want)]
        next == IF full THEN rebuilt
                ELSE [i \in DOMAIN read |-> NextBatch(s, rebuilt[i], start, end, range)]
    IN  IF metas = <<>> \/ KeyBefore(end, start) \/ KeyBefore(end, min) \/ KeyBefore(max, start) THEN <<>>
        ELSE FlattenSeq([i \in DOMAIN next |-> IF NumRows(next[i]) > 0 THEN <<next[i]>> ELSE <<>>])

-----------------------------------------------------------------------------
(* The merge reads keys its own way and copies cells through builders.     *)

\* extract_keys: the cell itself where there is one tag, else the encoded tags.
ExtractKeys(s, b) ==
    [i \in 1 .. NumRows(b) |->
        [tags |-> IF Len(s.primary_key) > 1
                  THEN EncodeTags(s, [c \in DOMAIN s.columns |-> CellOrEmpty(b.cols[c], i)])
                  ELSE CellOrEmpty(b.cols[s.primary_key[1]], i),
         ts |-> b.cols[s.time_index][i][1][1]]]
\* TypedBuilder::append_from: a null stays a null, a value itself.
AppendFrom(array, i) == IF array[i] = None THEN None ELSE Some(array[i][1])
\* The merge of a single source, all in one batch.
MergedBatch(s, b) ==
    [b EXCEPT !.cols = [c \in DOMAIN b.cols |->
                            [i \in DOMAIN b.cols[c] |-> AppendFrom(b.cols[c], i)]]]
=============================================================================
