------------------------------ MODULE RowCodec ------------------------------
(***************************************************************************)
(* What a row is turned into: cells become the bytes of a key and a value, *)
(* operations become frames of the write-ahead log, the rows of a memtable *)
(* become column batches.                                                  *)
(*                                                                         *)
(* A byte is a number.  What the code writes as two, four or eight bytes,  *)
(* a length, a timestamp or a sequence number, is one number here too, so  *)
(* that bytes may still be taken for a length and a length for bytes.  An  *)
(* optional value is a sequence with at most one element.                  *)
(***************************************************************************)
EXTENDS Naturals, Sequences, FiniteSets, SequencesExt, Functions

CONSTANTS
    TagLimit,       \* the length of the tags is written modulo this (2^16)
    FrameLimit      \* the longest frame recovery reads (256 MiB)

ASSUME TagLimitAssumption == TagLimit \in Nat \ {0}

None == <<>>
Some(x) == <<x>>

-----------------------------------------------------------------------------
(* The table schema: cells, keys and values.                               *)

\* The elements of a set in an order: what a sort yields.
InOrderOf(S, less(_, _)) ==
    CHOOSE q \in [1 .. Cardinality(S) -> S] :
        IsInjective(q) /\ \A i, j \in DOMAIN q : i < j => less(q[i], q[j])
\* The numbers of a set, in order: positions that a filter keeps.
Ascending(I) ==
    [n \in 1 .. Cardinality(I) |-> CHOOSE i \in I : Cardinality({j \in I : j < i}) = n - 1]

FieldColumns(s) == Ascending({i \in DOMAIN s.columns : s.columns[i].semantic = "field"})
PositionOf(cols, c) == CHOOSE j \in DOMAIN cols : cols[j] = c
Pick(cells, cols) == [j \in DOMAIN cols |-> cells[cols[j]]]

LengthPrefixed(cells) == FlattenSeq([j \in DOMAIN cells |-> <<Len(cells[j])>> \o cells[j]])
\* The first n length-prefixed cells of a sequence of bytes.
TakeLengthPrefixed(bytes, n) ==
    LET after[j \in 0 .. n] == IF j = 0 THEN 0
                               ELSE after[j - 1] + 1 + bytes[after[j - 1] + 1]
    IN  [j \in 1 .. n |-> SubSeq(bytes, after[j - 1] + 2, after[j])]

\* Of a single cell the bytes are kept as they are.
Encode(cells, cols) ==
    IF Len(cols) = 1 THEN cells[cols[1]] ELSE LengthPrefixed(Pick(cells, cols))
Decode(bytes, cols) ==
    IF Len(cols) = 1 THEN <<bytes>> ELSE TakeLengthPrefixed(bytes, Len(cols))

EncodeTags(s, cells) == Encode(cells, s.primary_key)
DecodeTags(s, bytes) == Decode(bytes, s.primary_key)
EncodeFields(s, cells) == Encode(cells, FieldColumns(s))
DecodeFields(s, bytes) == Decode(bytes, FieldColumns(s))

\* A row of cells with those of some columns filled in, in their order.
CellsOf(s, cols, given) ==
    [i \in DOMAIN s.columns |->
        IF i \in Range(cols) THEN given[PositionOf(cols, i)] ELSE <<>>]
Key(s, tags, ts) == [tags |-> EncodeTags(s, CellsOf(s, s.primary_key, tags)), ts |-> ts]
Value(s, fields) == EncodeFields(s, CellsOf(s, FieldColumns(s), fields))

\* Keys are ordered by the bytes of their tags, then by timestamp.
BytesBefore(a, b) ==
    \E n \in 0 .. Len(a) :
        /\ n <= Len(b) /\ SubSeq(a, 1, n) = SubSeq(b, 1, n)
        /\ IF n < Len(a) THEN n < Len(b) /\ a[n + 1] < b[n + 1] ELSE n < Len(b)
KeyBefore(k, l) == BytesBefore(k.tags, l.tags) \/ (k.tags = l.tags /\ k.ts < l.ts)

-----------------------------------------------------------------------------
(* The write-ahead log.                                                    *)

KindOf(op) == IF op.value = None THEN 2 ELSE 0
EncodeKv(op) ==
    <<Len(op.key.tags) % TagLimit>> \o op.key.tags \o <<op.key.ts, op.seq>>
        \o (IF op.value = None THEN <<>> ELSE <<Len(op.value[1])>> \o op.value[1])
EncodeOps(os) == <<Len(os)>> \o FlattenSeq([i \in DOMAIN os |-> <<KindOf(os[i])>> \o EncodeKv(os[i])])

\* Read an operation at p of d; where d is too short there is none.
ReadOp(d, p) ==
    LET has(n) == n <= Len(d)
        tagEnd == p + 1 + d[p + 1]
        valueEnd == tagEnd + 3 + d[tagEnd + 3]
        key == [tags |-> SubSeq(d, p + 2, tagEnd), ts |-> d[tagEnd + 1]]
    IN  IF ~has(p + 1) \/ ~has(tagEnd + 2) THEN None
        ELSE IF d[p] = 2
        THEN Some([op |-> [key |-> key, seq |-> d[tagEnd + 2], value |-> None],
                   next |-> tagEnd + 3])
        ELSE IF ~has(tagEnd + 3) \/ ~has(valueEnd) THEN None
        ELSE Some([op |-> [key |-> key, seq |-> d[tagEnd + 2],
                           value |-> Some(SubSeq(d, tagEnd + 4, valueEnd))],
                   next |-> valueEnd + 1])
\* Operation after operation, up to the first that cannot be read.
DecodeOps(d) ==
    LET read[n \in 0 .. d[1]] ==
            IF n = 0 THEN [ops |-> <<>>, at |-> 2, ended |-> FALSE]
            ELSE LET before == read[n - 1]
                     got == IF before.ended THEN None ELSE ReadOp(d, before.at)
                 IN  IF got = None THEN [before EXCEPT !.ended = TRUE]
                     ELSE [ops |-> Append(before.ops, got[1].op), at |-> got[1].next,
                           ended |-> FALSE]
    IN  read[d[1]].ops

\* Mutant: the checksum of a frame is not looked at.
LengthReadable(f) == f.whole /\ f.len # 0 /\ f.len <= FrameLimit
\* A frame is read if it is all there, not too long, and its checksum is right.
Readable(f) == f.whole /\ f.len # 0 /\ f.len <= FrameLimit /\ f.crc = f.payload

\* Wal::recover: the operations of the frames before the first unreadable one.
Recovered(l) ==
    LET good == {i \in DOMAIN l : \A j \in 1 .. i : Readable(l[j])}
    IN  FlattenSeq([i \in 1 .. Cardinality(good) |-> DecodeOps(l[i].payload)])

-----------------------------------------------------------------------------
(* Column batches.                                                         *)

\* An array of a column: what was put in comes out, but any Boolean byte that
\* is not 0 comes out as 1.
CellsToArray(type, cells) ==
    [i \in DOMAIN cells |->
        IF type = "boolean" /\ cells[i] # None
        THEN Some(IF cells[i][1][1] = 0 THEN <<0>> ELSE <<1>>) ELSE cells[i]]
NullArray(n) == [i \in 1 .. n |-> None]
\* A column view's cell, with nothing for a null.
CellOrEmpty(array, i) == IF array[i] = None THEN <<>> ELSE array[i][1]

OpColumn(R) == [i \in DOMAIN R |-> IF R[i].value = None THEN "delete" ELSE "put"]

\* internal_batch_from_rows: one array for each column, and two more for the
\* sequence number and the operation.
BatchFromRows(s, R) ==
    LET cell(c, r) ==
            CASE s.columns[c].semantic = "tag" ->
                    Some(DecodeTags(s, r.key.tags)[PositionOf(s.primary_key, c)])
              [] s.columns[c].semantic = "timestamp" -> Some(<<r.key.ts>>)
              [] OTHER -> IF r.value = None THEN None
                          ELSE Some(DecodeFields(s, r.value[1])[PositionOf(FieldColumns(s), c)])
    IN  [cols |-> [c \in DOMAIN s.columns |->
                    CellsToArray(s.columns[c].type, [i \in DOMAIN R |-> cell(c, R[i])])],
         seq |-> [i \in DOMAIN R |-> R[i].seq],
         op |-> OpColumn(R)]

NumRows(b) == Len(b.seq)
KeyAt(s, b, i) ==
    [tags |-> EncodeTags(s, [c \in DOMAIN s.columns |-> CellOrEmpty(b.cols[c], i)]),
     ts |-> b.cols[s.time_index][i][1][1]]
ValueAt(s, b, i) ==
    IF b.op[i] = "delete" THEN None
    ELSE Some(EncodeFields(s, [c \in DOMAIN s.columns |-> CellOrEmpty(b.cols[c], i)]))

\* The general way is cut short for one tag and one field of bytes.
IsFast(s) ==
    /\ Len(s.columns) = 3 /\ Len(s.primary_key) = 1 /\ Len(FieldColumns(s)) = 1
    /\ s.columns[s.primary_key[1]].type = "binary"
    /\ s.columns[FieldColumns(s)[1]].type = "binary"
\* Mutant: a tombstone gets a field of no bytes.
EmptyField(r) == IF r.value = None THEN Some(<<>>) ELSE r.value
FastField(r) == r.value
\* The keys and values are taken as they are.
FastBatch(s, R) ==
    [cols |-> [c \in DOMAIN s.columns |-> [i \in DOMAIN R |->
                CASE s.columns[c].semantic = "tag" -> Some(R[i].key.tags)
                  [] s.columns[c].semantic = "timestamp" -> Some(<<R[i].key.ts>>)
                  [] OTHER -> FastField(R[i])]],
     seq |-> [i \in DOMAIN R |-> R[i].seq],
     op |-> OpColumn(R)]
\* The time column made so is of integers, and refused where the schema says
\* timestamps.
Refused(s) == IsFast(s) /\ s.columns[s.time_index].type = "timestamp"

NewestOfKey(r, R) == \A q \in R : q.key = r.key => q.seq <= r.seq
\* The rows of one series that materialize_series keeps: by timestamp, of each
\* the newest.
Kept(R) ==
    LET newest == {r \in R : NewestOfKey(r, R)}
    IN  InOrderOf(newest, LAMBDA q, r : q.key.ts < r.key.ts)
MaterializeSeries(s, R) == IF IsFast(s) THEN FastBatch(s, Kept(R)) ELSE BatchFromRows(s, Kept(R))
\* The batches of a memtable, one for each series, by their first key; an error
\* if one of them is refused.
ToBatches(s, R) ==
    LET series == {r.key.tags : r \in R}
        batches == {MaterializeSeries(s, {r \in R : r.key.tags = t}) : t \in series}
    IN  IF Refused(s) /\ R # {} THEN None
        ELSE Some(InOrderOf(batches, LAMBDA a, b : KeyBefore(KeyAt(s, a, 1), KeyAt(s, b, 1))))
=============================================================================
