------------------------------- MODULE RowPath -------------------------------
(***************************************************************************)
(* A row on its way from a write to a read: into a frame of the log and    *)
(* the memtable, out of the log again, into an SST, out of its file again  *)
(* and through a compaction.  The bytes are those of RowCodec, the files   *)
(* those of SstTable.                                                      *)
(***************************************************************************)
EXTENDS SstTable

CONSTANTS
    Schemas,        \* the tables
    Cells,          \* what a tag or a field may be: sequences of bytes
    Stamps,          \* timestamps
    Seeds,          \* of the Bloom filter
    BatchSizes,     \* rows in a batch the Parquet reader hands out (1024)
    MaxOps,         \* bound: operations written
    MaxBatch        \* bound: operations in one frame

ASSUME CellsAssumption == Cells \subseteq Seq(Nat) /\ Stamps \subseteq Int
ASSUME BatchSizesAssumption == BatchSizes \subseteq Nat \ {0}
ASSUME OpsAssumption == MaxOps \in Nat /\ MaxBatch \in Nat
ASSUME SchemasAssumption ==
    \A s \in Schemas :
        /\ s.columns \in Seq([semantic : {"tag", "timestamp", "field"},
                              type : {"binary", "boolean", "int64", "timestamp"}])
        /\ s.primary_key \in Seq(DOMAIN s.columns)
        /\ IsInjective(s.primary_key) /\ s.primary_key # <<>>
        /\ Range(s.primary_key) =
                {i \in DOMAIN s.columns : s.columns[i].semantic = "tag"}
        /\ {i \in DOMAIN s.columns : s.columns[i].semantic = "timestamp"} = {s.time_index}
        /\ s.columns[s.time_index].type \in {"int64", "timestamp"}

VARIABLES
    stage,      \* "idle", "write", "memtable", "sst", "reopened", "compacted"
    schema,     \* the table
    ops,        \* the operations written, frame by frame
    log,        \* the frames in the log file
    memtable,   \* the rows of the memtable
    sst         \* the SST made of it, if one was made

path_vars == <<stage, schema, ops, log, memtable, sst>>

-----------------------------------------------------------------------------
NoSchema == [columns |-> <<>>, primary_key |-> <<>>, time_index |-> 0]

PathInit ==
    /\ stage = "idle" /\ schema = NoSchema
    /\ ops = <<>> /\ log = <<>> /\ memtable = {} /\ sst = None

CreateTable ==
    /\ stage = "idle"
    /\ schema' \in Schemas
    /\ stage' = "write"
    /\ UNCHANGED <<ops, log, memtable, sst>>

\* Cells a column can hold: a Boolean is any one byte, of a tag in its proper
\* form, and an integer what the code writes as eight.
CellsFor(s, c) ==
    CASE s.columns[c].type = "binary" -> Cells
      [] s.columns[c].type # "boolean" -> {<<5>>}
      [] s.columns[c].semantic = "tag" -> {<<0>>, <<1>>}
      [] OTHER -> {<<0>>, <<2>>}
Tuples(s, cols) == {v \in [DOMAIN cols -> UNION {CellsFor(s, c) : c \in Range(cols)}] :
                        \A j \in DOMAIN cols : v[j] \in CellsFor(s, cols[j])}
KeysFor(s) == {Key(s, t, ts) : t \in Tuples(s, s.primary_key), ts \in Stamps}
ValuesFor(s) == {Some(Value(s, f)) : f \in Tuples(s, FieldColumns(s))} \cup {None}

Written == FlattenSeq(ops)
FrameOf(os) ==
    LET payload == EncodeOps(os)
    IN  [len |-> Len(payload), crc |-> payload, payload |-> payload, whole |-> TRUE]

\* A write or a batch: one frame, then the rows in the memtable.
AppendBatch ==
    /\ stage = "write"
    /\ \E n \in 1 .. MaxBatch :
        /\ Len(Written) + n <= MaxOps
        /\ \E ks \in [1 .. n -> KeysFor(schema)], vs \in [1 .. n -> ValuesFor(schema)] :
            LET os == [i \in 1 .. n |-> [key |-> ks[i], seq |-> Len(Written) + i, value |-> vs[i]]]
            IN  /\ ops' = Append(ops, os) /\ log' = Append(log, FrameOf(os))
                /\ memtable' = memtable \cup Range(os)
    /\ UNCHANGED <<stage, schema, sst>>

\* A stop leaves a frame torn, or the disk changes it.
Altered(payload) == [payload EXCEPT ![Len(payload)] = @ + 1]
Damage ==
    /\ stage = "write" /\ log # <<>> /\ \A i \in DOMAIN log : Readable(log[i])
    /\ \E i \in DOMAIN log :
        \/ log' = [SubSeq(log, 1, i) EXCEPT ![i].whole = FALSE]
        \/ log' = [log EXCEPT ![i].payload = Altered(log[i].payload)]
    /\ UNCHANGED <<stage, schema, ops, memtable, sst>>

\* The log is replayed, as when the table is opened.
Recover ==
    /\ stage = "write"
    /\ memtable' = Range(Recovered(log))
    /\ stage' = "memtable"
    /\ UNCHANGED <<schema, ops, log, sst>>

\* Every operation's tags are short enough for their length to be written.
Lengths == \A o \in Range(Written) : Len(o.key.tags) < TagLimit

\* The memtable is frozen and flushed, after a replay only if that read what was
\* written.
Flush ==
    /\ memtable # {}
    /\ stage = "write" \/ (stage = "memtable" /\ Lengths)
    /\ \E seed \in Seeds :
        LET batches == ToBatches(schema, memtable)
        IN  sst' = IF batches = None THEN None
                   ELSE CreateFromBatches(schema, batches[1], seed)
    /\ stage' = "sst"
    /\ ops' = <<>> /\ log' = <<>>
    /\ UNCHANGED <<schema, memtable>>

\* Opened again, the SST has the index that was in its file.
Reopen ==
    /\ stage = "sst" /\ sst # None
    /\ sst' = Some([sst[1] EXCEPT !.index = FromJson(ToJson(@))])
    /\ stage' = "reopened"
    /\ UNCHANGED <<schema, ops, log, memtable>>

\* A compaction rewrites it.
Compact ==
    /\ stage \in {"sst", "reopened"} /\ sst # None
    /\ \E seed \in Seeds :
        LET all == Concatenated(schema, sst[1].groups)
        IN  /\ SortedStrictly(ExtractKeys(schema, all))
            /\ sst' = CreateFromBatches(schema, <<MergedBatch(schema, all)>>, seed)
    /\ stage' = "compacted"
    /\ UNCHANGED <<schema, ops, log, memtable>>

PathNext == CreateTable \/ AppendBatch \/ Damage \/ Recover \/ Flush \/ Reopen \/ Compact

PathSpec == PathInit /\ [][PathNext]_path_vars

-----------------------------------------------------------------------------
(* Properties.                                                             *)

\* What was written is replayed, up to the first frame that is damaged or too
\* long, whole frames only; lengths that do not fit their field excepted
\* (wal.rs 98-128, 141-276).
LogReplays ==
    stage = "memtable" /\ Lengths =>
        memtable = Range(FlattenSeq(SubSeq(ops, 1, Cardinality(
            {i \in DOMAIN log : \A j \in 1 .. i :
                log[j].whole /\ log[j] = FrameOf(ops[j]) /\ log[j].len <= FrameLimit}))))

\* A value as it comes back from a column: Booleans in their proper form.
Proper(s, value) ==
    IF value = None THEN None
    ELSE LET cols == FieldColumns(s)
             cells == DecodeFields(s, value[1])
         IN  Some(Encode([j \in DOMAIN cols |->
                            CellsToArray(s.columns[cols[j]].type, <<Some(cells[j])>>)[1][1]],
                         [j \in DOMAIN cols |-> j]))

\* A point read of an SST finds for every key exactly the newest row that was
\* in the memtable, value or tombstone, and nothing for any other key, whatever
\* the schema and however the reader cuts its batches, through flush, reopening
\* and compaction; only where the shortcut is refused there is no SST
\* (columnar.rs 55-137, sstable.rs 410-691, merge.rs 91-131).
GetsWhatWasWritten ==
    stage \in {"sst", "reopened", "compacted"} =>
        /\ sst = None <=> Refused(schema)
        /\ sst # None => \A k \in KeysFor(schema), n \in BatchSizes :
            LET of == {r \in memtable : r.key = k /\ \A q \in memtable : q.key = k => q.seq <= r.seq}
            IN  Get(schema, sst[1], k, n) =
                    IF of = {} THEN None
                    ELSE LET r == CHOOSE r \in of : TRUE
                         IN  Some([seq |-> r.seq, value |-> Proper(schema, r.value)])

SstRows == Concatenated(schema, sst[1].groups)
AllColumns == [c \in DOMAIN schema.columns |-> c]
Ranges == {None} \cup {Some([low |-> a, high |-> a]) : a \in Stamps}

\* A scan of an SST delivers exactly the rows with keys and times in its ranges,
\* though it skips row groups and lets whole batches through unseen (sstable.rs
\* 693-783, 850-904).
ScanFindsRange ==
    stage = "reopened" =>
        \A start, end \in KeysFor(schema), range \in Ranges, n \in BatchSizes \ {1} :
            ~KeyBefore(end, start) =>
            Concatenated(schema, ScanBatches(schema, sst[1], start, end, range, AllColumns, n)) =
                Filtered(schema, SstRows, start, end, range)

\* With a projection, even out of order, the columns asked for come back in their
\* places, and the keys the merge orders rows by are not disturbed (sstable.rs
\* 340-358, 747-790).
ProjectionKeepsRows ==
    stage = "reopened" =>
        \A asked \in SUBSET DOMAIN schema.columns, n \in BatchSizes \ {1} :
            LET up == Ascending(asked)
                user == [i \in DOMAIN up |-> up[Len(up) + 1 - i]]
                metas == sst[1].index.row_groups
                got == Concatenated(schema, ScanBatches(schema, sst[1], metas[1].min_key,
                            metas[Len(metas)].max_key, None, user, n))
            IN  /\ KeysOf(schema, got) = KeysOf(schema, SstRows)
                /\ got.seq = SstRows.seq /\ got.op = SstRows.op
                /\ \A c \in Range(user) : got.cols[c] = SstRows.cols[c]

\* The shortcut for one tag and one field of bytes builds the batch the general
\* way would (columnar.rs 88-137).
ShortcutAgrees ==
    stage \in {"write", "memtable"} /\ Lengths /\ IsFast(schema) =>
        \A t \in {r.key.tags : r \in memtable} :
            LET kept == Kept({r \in memtable : r.key.tags = t})
            IN  FastBatch(schema, kept) = BatchFromRows(schema, kept)
=============================================================================
