------------------------------- MODULE Region -------------------------------
(***************************************************************************)
(* The live Region: client threads write, read, run snapshot transactions, *)
(* flush and compact, while one background thread turns frozen memtables   *)
(* into SST files and merges those files.  Everyone reads the store        *)
(* through a clone of the current Version and changes it by swapping in a  *)
(* new one; two read-write locks, the commit gate and the write gate, keep *)
(* apart what must not overlap.                                            *)
(*                                                                         *)
(* A row is a key with the sequence number of the write that made it; the  *)
(* value, or the tombstone, is whatever that write carried.  A key stands  *)
(* for its timestamp too.  I/O errors are those the code's own steps can   *)
(* cause (a file already unlinked); no crash and no TTL here.              *)
(***************************************************************************)
EXTENDS Naturals, Sequences, FiniteSets

CONSTANTS
    Clients,            \* the threads that share the Region
    Keys,               \* the keys, each its own timestamp
    WindowSize,         \* width of a compaction window, in timestamps
    FlushThreshold,     \* rows at which the active memtable is frozen
    MaxMemory,          \* rows the memtables may hold together
    CompactThreshold,   \* SSTs that make a compaction worth while
    QueueCap,           \* capacity of the job channel (8 in the code)
    MaxBatch,           \* bound: rows in one write_batch
    MaxSeq,             \* bound: sequence numbers handed out
    Calls               \* bound: the calls the clients make

AllCalls == {"write", "batch", "get", "scan", "txn", "flush", "compact"}

ASSUME KeysAssumption == Keys \subseteq Nat /\ IsFiniteSet(Keys)
ASSUME ThresholdAssumption ==
    /\ WindowSize \in Nat \ {0}
    /\ FlushThreshold \in Nat \ {0}
    /\ MaxMemory \in Nat
    /\ CompactThreshold \in Nat \ {0}
    /\ QueueCap \in Nat \ {0}
ASSUME BoundAssumption == MaxBatch \in Nat /\ MaxSeq \in Nat /\ Calls \subseteq AllCalls

VARIABLES
    seq,        \* the next sequence number
    mem,        \* mem[g]: rows of memtable g, the g-th to be created
    frozen,     \* frozen[g]: the immutable copy freeze() made of memtable g
    version,    \* the current Version
    sst,        \* sst[i]: rows of the i-th SST file ever written
    files,      \* the SST files that are on disk
    queue,      \* the job channel
    worker,     \* what the background thread is doing
    pc,         \* pc[c]: where client c is
    todo,       \* todo[c]: rows c has numbered and not yet inserted
    view,       \* view[c]: the Version c cloned, or what it has left to read
    key,        \* key[c]: the key c is getting
    best,       \* best[c]: newest seq get() has found so far, 0 for none
    unread,     \* unread[c]: keys whose shard of the active memtable c has yet to scan
    found,      \* found[c][k]: newest seq of k the scan has come across, 0 for none
    barrier,    \* barrier[c]: the call ends by waiting for the worker
    tx,         \* tx[c]: the fate of the transaction of c
    snap,       \* snap[c]: its snapshot_seq
    index,      \* index[c][k]: the seq it reads for k, 0 for none
    writes,     \* writes[c]: the keys it has buffered
    latest,     \* history: latest[k] is the newest seq inserted for k
    seen        \* history: seen[c] is latest when c entered the commit gate

store  == <<mem, frozen, version>>
disk   == <<sst, files>>
back   == <<disk, queue, worker>>
scan   == <<unread, found>>
getter == <<key, best, scan>>
txn    == <<tx, snap, index, writes>>
vars == <<seq, store, back, pc, todo, view, getter, barrier, txn, latest, seen>>

-----------------------------------------------------------------------------
Row == [key : Keys, seq : Nat]
Version == [active : Nat, imm : SUBSET Nat, ssts : SUBSET Nat]
Blank == [active |-> 0, imm |-> {}, ssts |-> {}]
Never == [k \in Keys |-> 0]

SeqsOf(k, R) == {r.seq : r \in {q \in R : q.key = k}}
IsLargest(n, S) == n \in S /\ \A m \in S : m <= n
Largest(S) == CHOOSE n \in S : IsLargest(n, S)
\* The newest seq of k in R, 0 when R has no row of k.
Newest(k, R) == IF SeqsOf(k, R) = {} THEN 0 ELSE Largest(SeqsOf(k, R))
\* Mutant: the merge lets the oldest row of a key win.
OldestRows(R) == {r \in R : \A q \in R : q.key = r.key => q.seq >= r.seq}
\* What materialising or merging rows keeps: the newest row of each key.
NewestRows(R) == {r \in R : \A q \in R : q.key = r.key => q.seq <= r.seq}
\* A memtable's or an SST's max_seq().
MaxSeqOf(R) == IF R = {} THEN 0 ELSE Largest({r.seq : r \in R})
\* The rows a Version gives access to.
Contents(v) == mem[v.active] \cup (UNION {frozen[g] : g \in v.imm})
                             \cup (UNION {sst[i] : i \in v.ssts})
\* Consecutive sequence numbers for a list of keys.
Numbered(ks) == [i \in DOMAIN ks |-> [key |-> ks[i], seq |-> seq + i - 1]]
\* The compaction window an SST falls in: that of its oldest timestamp.
MinTs(i) == CHOOSE t \in {r.key : r \in sst[i]} : \A r \in sst[i] : t <= r.key
Window(i) == MinTs(i) \div WindowSize

-----------------------------------------------------------------------------
(* The gates.  Who holds one, and how, shows in where each client is.      *)

\* Mutant: a scan collects its sources without the commit gate.
SharesCommitNoScans == {"write_gate", "write_put", "get_active", "get_imm", "get_sst"}
SharesCommit == {"write_gate", "write_put", "get_active", "get_imm", "get_sst", "scan_shards"}
OwnsCommit == {"batch_gate", "batch_put", "begin",
               "commit_gate", "commit_check", "commit_put"}
\* Mutant: writers insert without the write gate.
SharesWriteNobody == {}
\* Mutant: the gate is still held when the writer goes on to flush.
SharesWriteTooLong == {"write_put", "batch_put", "commit_check", "commit_put",
                       "flush_check", "freeze"}
SharesWrite == {"write_put", "batch_put", "commit_check", "commit_put"}
OwnsWrite == {"swap"}

CommitGateShared == \A d \in Clients : pc[d] \notin OwnsCommit
CommitGateFree == \A d \in Clients : pc[d] \notin OwnsCommit \cup SharesCommit
WriteGateShared == \A d \in Clients : pc[d] \notin OwnsWrite
WriteGateFree == \A d \in Clients : pc[d] \notin OwnsWrite \cup SharesWrite

Locations == SharesCommit \cup OwnsCommit \cup OwnsWrite \cup
    {"idle", "got", "scanned", "failed", "flush_check", "freeze", "enqueue_flush",
     "compact_check", "enqueue_compact", "enqueue_sync", "wait", "synced"}

Go(c, place) == pc' = [pc EXCEPT ![c] = place]

-----------------------------------------------------------------------------
Init ==
    /\ seq = 1
    /\ mem = <<{}>>
    /\ frozen = <<>>
    /\ version = [active |-> 1, imm |-> {}, ssts |-> {}]
    /\ sst = <<>>
    /\ files = {}
    /\ queue = <<>>
    /\ worker = [pc |-> "idle", gen |-> 0, targets |-> {}]
    /\ pc = [c \in Clients |-> "idle"]
    /\ todo = [c \in Clients |-> <<>>]
    /\ view = [c \in Clients |-> Blank]
    /\ key = [c \in Clients |-> 0]
    /\ best = [c \in Clients |-> 0]
    /\ unread = [c \in Clients |-> {}]
    /\ found = [c \in Clients |-> Never]
    /\ barrier = [c \in Clients |-> FALSE]
    /\ tx = [c \in Clients |-> "none"]
    /\ snap = [c \in Clients |-> 0]
    /\ index = [c \in Clients |-> Never]
    /\ writes = [c \in Clients |-> {}]
    /\ latest = Never
    /\ seen = [c \in Clients |-> Never]

-----------------------------------------------------------------------------
(* write, delete, write_batch and commit: number the rows under the commit *)
(* gate, enter the write gate, clone the Version, insert row by row.       *)

\* A write or a delete takes its number before it has the write gate.
TakeTicket(c) ==
    /\ "write" \in Calls /\ seq <= MaxSeq
    /\ pc[c] = "idle" /\ CommitGateShared
    /\ \E k \in Keys : todo' = [todo EXCEPT ![c] = <<[key |-> k, seq |-> seq]>>]
    /\ seq' = seq + 1
    /\ seen' = [seen EXCEPT ![c] = latest]
    /\ Go(c, "write_gate")
    /\ UNCHANGED <<store, back, view, getter, barrier, txn, latest>>

\* A batch has the commit gate to itself.
TakeTickets(c) ==
    /\ "batch" \in Calls
    /\ pc[c] = "idle" /\ CommitGateFree
    /\ \E n \in 1 .. MaxBatch :
        /\ seq + n - 1 <= MaxSeq
        /\ \E ks \in [1 .. n -> Keys] : todo' = [todo EXCEPT ![c] = Numbered(ks)]
        /\ seq' = seq + n
    /\ seen' = [seen EXCEPT ![c] = latest]
    /\ Go(c, "batch_gate")
    /\ UNCHANGED <<store, back, view, getter, barrier, txn, latest>>

\* The active memtable cannot be frozen while a writer is past this point.
EnterWriteGate(c) ==
    /\ WriteGateShared
    /\ \/ pc[c] = "write_gate"  /\ Go(c, "write_put")
       \/ pc[c] = "batch_gate"  /\ Go(c, "batch_put")
       \/ pc[c] = "commit_gate" /\ Go(c, "commit_check")
    /\ view' = [view EXCEPT ![c] = version]
    /\ UNCHANGED <<seq, store, back, todo, getter, barrier, txn, latest, seen>>

\* The transaction of c is over: nothing of it is left.
CloseTxn(c, fate) ==
    /\ tx' = [tx EXCEPT ![c] = fate]
    /\ snap' = [snap EXCEPT ![c] = 0]
    /\ index' = [index EXCEPT ![c] = Never]
    /\ writes' = [writes EXCEPT ![c] = {}]

\* Insert the next row; after the last one both gates are released.
Insert(c) ==
    LET r == Head(todo[c])
        last == Len(todo[c]) = 1
    IN  /\ pc[c] \in {"write_put", "batch_put", "commit_put"}
        /\ mem' = [mem EXCEPT ![view[c].active] = @ \cup {r}]
        /\ latest' = [latest EXCEPT ![r.key] = IF r.seq > @ THEN r.seq ELSE @]
        /\ todo' = [todo EXCEPT ![c] = Tail(@)]
        /\ IF last
           THEN /\ Go(c, "flush_check")
                /\ view' = [view EXCEPT ![c] = Blank]
                /\ seen' = [seen EXCEPT ![c] = Never]
           ELSE UNCHANGED <<pc, view, seen>>
        /\ IF last /\ pc[c] = "commit_put" THEN CloseTxn(c, "committed")
                                           ELSE UNCHANGED txn
        /\ UNCHANGED <<seq, frozen, version, back, getter, barrier>>

-----------------------------------------------------------------------------
(* Snapshot transactions.                                                  *)

\* begin() alone holds the commit gate: no numbered row is still on its way.
BeginSnapshot(c) ==
    /\ "txn" \in Calls /\ tx[c] # "open"
    /\ pc[c] = "idle" /\ CommitGateFree
    /\ snap' = [snap EXCEPT ![c] = seq]
    /\ view' = [view EXCEPT ![c] = version]
    /\ Go(c, "begin")
    /\ UNCHANGED <<seq, store, back, todo, getter, barrier, tx, index, writes,
                   latest, seen>>

\* Opening the sources fails when a file of the cloned Version is gone.
BeginFails(c) ==
    /\ pc[c] = "begin" /\ ~ (view[c].ssts \subseteq files)
    /\ snap' = [snap EXCEPT ![c] = 0]
    /\ view' = [view EXCEPT ![c] = Blank]
    /\ Go(c, "failed")
    /\ UNCHANGED <<seq, store, back, todo, getter, barrier, tx, index, writes,
                   latest, seen>>

\* Index the newest row of every key that is older than the snapshot.
BeginIndexes(c) ==
    /\ pc[c] = "begin" /\ view[c].ssts \subseteq files
    /\ LET rows == {r \in Contents(view[c]) : r.seq < snap[c]}
       IN  index' = [index EXCEPT ![c] = [k \in Keys |-> Newest(k, rows)]]
    /\ tx' = [tx EXCEPT ![c] = "open"]
    /\ view' = [view EXCEPT ![c] = Blank]
    /\ Go(c, "idle")
    /\ UNCHANGED <<seq, store, back, todo, getter, barrier, snap, writes, latest, seen>>

\* Transaction::write and Transaction::delete only buffer.
TxnWrite(c) ==
    /\ tx[c] = "open" /\ pc[c] = "idle"
    /\ \E k \in Keys : writes' = [writes EXCEPT ![c] = @ \cup {k}]
    /\ UNCHANGED <<seq, store, back, pc, todo, view, getter, barrier, tx, snap, index,
                   latest, seen>>

\* A transaction that wrote nothing commits at once; a dropped one is undone.
CloseIdle(c) ==
    /\ tx[c] = "open" /\ pc[c] = "idle"
    /\ \/ writes[c] = {} /\ CloseTxn(c, "committed")
       \/ CloseTxn(c, "none")
    /\ UNCHANGED <<seq, store, back, pc, todo, view, getter, barrier, latest, seen>>

CommitLock(c) ==
    /\ tx[c] = "open" /\ writes[c] # {}
    /\ seq + Cardinality(writes[c]) - 1 <= MaxSeq
    /\ pc[c] = "idle" /\ CommitGateFree
    /\ seen' = [seen EXCEPT ![c] = latest]
    /\ Go(c, "commit_gate")
    /\ UNCHANGED <<seq, store, back, todo, view, getter, barrier, txn, latest>>

\* Mutant: the first number after the snapshot is taken to be inside it.
ConflictLate(c, k) == \E r \in Contents(view[c]) : r.key = k /\ r.seq > snap[c]
\* visible_seq() of k is at or past the snapshot of c.
Conflict(c, k) == \E r \in Contents(view[c]) : r.key = k /\ r.seq >= snap[c]

\* visible_seq() of k looks into SST i: no later source holds k at that seq.
Consults(c, k, i) ==
    LET later == {j \in view[c].ssts : j > i}
    IN  MaxSeqOf(sst[i]) > Newest(k, Contents([view[c] EXCEPT !.ssts = later]))

CommitLeaves(c, fate, place) ==
    /\ CloseTxn(c, fate)
    /\ view' = [view EXCEPT ![c] = Blank]
    /\ seen' = [seen EXCEPT ![c] = Never]
    /\ Go(c, place)
    /\ UNCHANGED <<seq, store, back, todo, getter, barrier, latest>>

CommitConflicts(c) ==
    /\ pc[c] = "commit_check"
    /\ \E k \in writes[c] : Conflict(c, k)
    /\ CommitLeaves(c, "conflict", "idle")

\* The row group may be cached, so a missing file need not be noticed.
CommitFails(c) ==
    /\ pc[c] = "commit_check"
    /\ \E k \in writes[c], i \in view[c].ssts \ files : Consults(c, k, i)
    /\ CommitLeaves(c, "failed", "failed")

\* Number the writes in key order and go on to insert them.
CommitNumbers(c) ==
    /\ pc[c] = "commit_check"
    /\ \A k \in writes[c] : ~ Conflict(c, k)
    /\ \E ks \in [1 .. Cardinality(writes[c]) -> writes[c]] :
        /\ \A i, j \in DOMAIN ks : i < j => ks[i] < ks[j]
        /\ todo' = [todo EXCEPT ![c] = Numbered(ks)]
        /\ seq' = seq + Len(ks)
    /\ Go(c, "commit_put")
    /\ UNCHANGED <<store, back, view, getter, barrier, txn, latest, seen>>

-----------------------------------------------------------------------------
(* get(): newest source first, skipping a source whose max_seq says it     *)
(* holds nothing newer than what has been found.                           *)

GetStart(c) ==
    /\ "get" \in Calls
    /\ pc[c] = "idle" /\ CommitGateShared
    /\ \E k \in Keys : key' = [key EXCEPT ![c] = k]
    /\ view' = [view EXCEPT ![c] = version]
    /\ seen' = [seen EXCEPT ![c] = latest]
    /\ Go(c, "get_active")
    /\ UNCHANGED <<seq, store, back, todo, best, scan, barrier, txn, latest>>

\* Mutant: a source that lacks the key wipes out what was found.
FoundOverwrites(c, R) == best' = [best EXCEPT ![c] = Newest(key[c], R)]
\* What best becomes when rows R are looked into.
Found(c, R) ==
    LET n == Newest(key[c], R)
    IN  best' = [best EXCEPT ![c] = IF MaxSeqOf(R) > @ /\ n > 0 THEN n ELSE @]

GetActive(c) ==
    /\ pc[c] = "get_active"
    /\ Found(c, mem[view[c].active])
    /\ Go(c, "get_imm")
    /\ UNCHANGED <<seq, store, back, todo, view, key, scan, barrier, txn, latest, seen>>

GetImm(c) ==
    /\ pc[c] = "get_imm"
    /\ IF view[c].imm = {}
       THEN Go(c, "get_sst") /\ UNCHANGED <<view, best>>
       ELSE LET g == Largest(view[c].imm)
            IN  /\ Found(c, frozen[g])
                /\ view' = [view EXCEPT ![c].imm = @ \ {g}]
                /\ UNCHANGED pc
    /\ UNCHANGED <<seq, store, back, todo, key, scan, barrier, txn, latest, seen>>

GetSst(c) ==
    /\ pc[c] = "get_sst"
    /\ IF view[c].ssts = {}
       THEN Go(c, "got") /\ UNCHANGED <<view, best>>
       ELSE LET i == Largest(view[c].ssts)
            IN  /\ Found(c, sst[i])
                /\ view' = [view EXCEPT ![c].ssts = @ \ {i}]
                /\ UNCHANGED pc
    /\ UNCHANGED <<seq, store, back, todo, key, scan, barrier, txn, latest, seen>>

\* The file to look into is gone and its row group is not cached.
GetFails(c) ==
    /\ pc[c] = "get_sst" /\ view[c].ssts # {}
    /\ LET i == Largest(view[c].ssts)
       IN  i \notin files /\ MaxSeqOf(sst[i]) > best[c]
    /\ Go(c, "failed")
    /\ UNCHANGED <<seq, store, back, todo, view, getter, barrier, txn, latest, seen>>

-----------------------------------------------------------------------------
(* A scan of the live Region (snapshot_columnar_sources) copies the active *)
(* memtable shard by shard, while writers that share the commit gate with  *)
(* it go on inserting, and then opens all the rest.                        *)

ScanStart(c) ==
    /\ "scan" \in Calls
    /\ pc[c] = "idle" /\ CommitGateShared
    /\ view' = [view EXCEPT ![c] = version]
    /\ unread' = [unread EXCEPT ![c] = Keys]
    /\ seen' = [seen EXCEPT ![c] = latest]
    /\ Go(c, "scan_shards")
    /\ UNCHANGED <<seq, store, back, todo, key, best, found, barrier, txn, latest>>

\* The shards come in the order of a hash: any order of keys.
ScanShard(c) ==
    /\ pc[c] = "scan_shards"
    /\ \E k \in unread[c] :
        /\ unread' = [unread EXCEPT ![c] = @ \ {k}]
        /\ found' = [found EXCEPT ![c][k] = Newest(k, mem[view[c].active])]
    /\ UNCHANGED <<seq, store, back, pc, todo, view, key, best, barrier, txn, latest, seen>>

\* Mutant: what the active memtable has of a key is taken to be the newest.
ActiveFirst(n, m) == IF n > 0 THEN n ELSE m
\* The newer of what two sources have of a key.
Newer(n, m) == IF m > n THEN m ELSE n

\* The immutable sources are opened, and of each key the newest row is kept.
ScanRest(c) ==
    /\ pc[c] = "scan_shards" /\ unread[c] = {}
    /\ view[c].ssts \subseteq files
    /\ LET rows == (UNION {frozen[g] : g \in view[c].imm})
                       \cup (UNION {sst[i] : i \in view[c].ssts})
       IN  found' = [found EXCEPT ![c] =
                        [k \in Keys |-> Newer(found[c][k], Newest(k, rows))]]
    /\ Go(c, "scanned")
    /\ UNCHANGED <<seq, store, back, todo, view, key, best, unread, barrier, txn, latest, seen>>

\* A file of the cloned Version is gone before it is opened.
ScanFails(c) ==
    /\ pc[c] = "scan_shards" /\ unread[c] = {}
    /\ ~ (view[c].ssts \subseteq files)
    /\ Go(c, "failed")
    /\ UNCHANGED <<seq, store, back, todo, view, getter, barrier, txn, latest, seen>>

\* The caller takes the answer or the error of a get, scan, begin or commit.
Return(c) ==
    /\ pc[c] \in {"got", "scanned", "failed"}
    /\ key' = [key EXCEPT ![c] = 0]
    /\ best' = [best EXCEPT ![c] = 0]
    /\ unread' = [unread EXCEPT ![c] = {}]
    /\ found' = [found EXCEPT ![c] = Never]
    /\ view' = [view EXCEPT ![c] = Blank]
    /\ seen' = [seen EXCEPT ![c] = Never]
    /\ Go(c, "idle")
    /\ UNCHANGED <<seq, store, back, todo, barrier, txn, latest>>

-----------------------------------------------------------------------------
(* Freezing and asking for background work: the tail of every write, and   *)
(* the calls flush() and compact(), which then wait at a barrier.          *)

\* estimated_total_memory(), in rows: a row counts once per memtable it is in.
MemoryRows(v) ==
    LET copies == UNION {{<<g, r>> : r \in frozen[g]} : g \in v.imm}
    IN  Cardinality(mem[v.active]) + Cardinality(copies)

MaybeFlush(c) ==
    /\ pc[c] = "flush_check"
    /\ IF \/ MemoryRows(version) > MaxMemory
          \/ Cardinality(mem[version.active]) >= FlushThreshold
       THEN Go(c, "freeze")
       ELSE Go(c, "compact_check")
    /\ UNCHANGED <<seq, store, back, todo, view, getter, barrier, txn, latest, seen>>

FlushCall(c) ==
    /\ "flush" \in Calls /\ pc[c] = "idle"
    /\ barrier' = [barrier EXCEPT ![c] = TRUE]
    /\ Go(c, "freeze")
    /\ UNCHANGED <<seq, store, back, todo, view, getter, txn, latest, seen>>

CompactCall(c) ==
    /\ "compact" \in Calls /\ pc[c] = "idle"
    /\ barrier' = [barrier EXCEPT ![c] = TRUE]
    /\ Go(c, "enqueue_compact")
    /\ UNCHANGED <<seq, store, back, todo, view, getter, txn, latest, seen>>

\* After the freeze: a flush() goes to its barrier, a write looks for compaction.
AfterFreeze(c) == IF barrier[c] THEN "enqueue_sync" ELSE "compact_check"

FreezeNothing(c) ==
    /\ pc[c] = "freeze" /\ WriteGateFree
    /\ mem[version.active] = {}
    /\ Go(c, AfterFreeze(c))
    /\ UNCHANGED <<seq, store, back, todo, view, getter, barrier, txn, latest, seen>>

\* fork() and freeze(): a fresh memtable, and a copy of the old one.
FreezeCopy(c) ==
    /\ pc[c] = "freeze" /\ WriteGateFree
    /\ mem[version.active] # {}
    /\ mem' = Append(mem, {})
    /\ frozen' = Append(frozen, mem[version.active])
    /\ view' = [view EXCEPT ![c] = version]
    /\ Go(c, "swap")
    /\ UNCHANGED <<seq, version, back, todo, getter, barrier, txn, latest, seen>>

Frozen(v, c) == [v EXCEPT !.active = Len(mem), !.imm = @ \cup {view[c].active}]
\* Mutant: the Version swapped in is made from the one cloned before the freeze.
WithFrozenStale(c) == Frozen(view[c], c)
\* The Version is read again under its lock: the worker may have swapped it.
WithFrozen(c) == Frozen(version, c)

FreezeSwap(c) ==
    /\ pc[c] = "swap"
    /\ version' = WithFrozen(c)
    /\ Go(c, "enqueue_flush")
    /\ UNCHANGED <<seq, mem, frozen, back, todo, view, getter, barrier, txn, latest, seen>>

Job(kind, gen, client) == [kind |-> kind, gen |-> gen, client |-> client]

\* The caller blocks while the channel is full.
Send(kind, gen, c) ==
    /\ Len(queue) < QueueCap
    /\ queue' = Append(queue, Job(kind, gen, c))

EnqueueFlush(c) ==
    /\ pc[c] = "enqueue_flush"
    /\ Send("flush", view[c].active, c)
    /\ Go(c, AfterFreeze(c))
    /\ UNCHANGED <<seq, store, disk, worker, todo, view, getter, barrier, txn, latest, seen>>

MaybeCompact(c) ==
    /\ pc[c] = "compact_check"
    /\ view' = [view EXCEPT ![c] = Blank]
    /\ IF Cardinality(version.ssts) + Cardinality(version.imm) >= CompactThreshold
       THEN Go(c, "enqueue_compact")
       ELSE Go(c, "idle")
    /\ UNCHANGED <<seq, store, back, todo, getter, barrier, txn, latest, seen>>

EnqueueCompact(c) ==
    /\ pc[c] = "enqueue_compact"
    /\ Send("compact", 0, c)
    /\ Go(c, IF barrier[c] THEN "enqueue_sync" ELSE "idle")
    /\ UNCHANGED <<seq, store, disk, worker, todo, view, getter, barrier, txn, latest, seen>>

EnqueueSync(c) ==
    /\ pc[c] = "enqueue_sync"
    /\ Send("sync", 0, c)
    /\ Go(c, "wait")
    /\ UNCHANGED <<seq, store, disk, worker, todo, view, getter, barrier, txn, latest, seen>>

BarrierReturns(c) ==
    /\ pc[c] = "synced"
    /\ barrier' = [barrier EXCEPT ![c] = FALSE]
    /\ view' = [view EXCEPT ![c] = Blank]
    /\ Go(c, "idle")
    /\ UNCHANGED <<seq, store, back, todo, getter, txn, latest, seen>>

-----------------------------------------------------------------------------
(* The background thread.                                                  *)

Idle == [pc |-> "idle", gen |-> 0, targets |-> {}]

\* Mutant: the id is bumped before the file is named.
NextSstSkewed == Len(sst) + 2
\* sst_id: the id of the next SST file.
NextSst == Len(sst) + 1

\* Mutant: a job is taken up while another one is running.
ReceiveBusy(kind) ==
    /\ queue # <<>> /\ Head(queue).kind = kind
    /\ queue' = Tail(queue)
Receive(kind) ==
    /\ worker.pc = "idle"
    /\ queue # <<>> /\ Head(queue).kind = kind
    /\ queue' = Tail(queue)

\* flush_one(): write the frozen memtable to a new SST file ...
FlushBuild ==
    /\ Receive("flush")
    /\ LET g == Head(queue).gen
       IN  /\ sst' = Append(sst, NewestRows(frozen[g]))
           /\ worker' = [Idle EXCEPT !.pc = "flush", !.gen = g]
    /\ files' = files \cup {NextSst}
    /\ UNCHANGED <<seq, store, pc, todo, view, getter, barrier, txn, latest, seen>>

\* Mutant: the flushed memtable stays among the immutables.
WithFlushedKept == [version EXCEPT !.ssts = @ \cup {Len(sst)}]
\* The SST just written takes the place of the memtable it was made from.
WithFlushed == [version EXCEPT !.imm = @ \ {worker.gen}, !.ssts = @ \cup {Len(sst)}]

\* ... and swap it in, in whatever the Version is by now.
FlushSwap ==
    /\ worker.pc = "flush"
    /\ version' = WithFlushed
    /\ worker' = Idle
    /\ UNCHANGED <<seq, mem, frozen, disk, queue, pc, todo, view, getter, barrier, txn,
                   latest, seen>>

Group(w) == {i \in version.ssts : Window(i) = w}
Crowded(w) == Cardinality(Group(w)) >= CompactThreshold

\* compact(): pick the oldest window with enough SSTs, if there is one.
CompactPick ==
    /\ Receive("compact")
    /\ LET crowded == {w \in {Window(i) : i \in version.ssts} : Crowded(w)}
       IN  IF crowded = {}
           THEN UNCHANGED worker
           ELSE \E w \in crowded :
                    /\ \A u \in crowded : w <= u
                    /\ worker' = [Idle EXCEPT !.pc = "compact", !.targets = Group(w)]
    /\ UNCHANGED <<seq, store, disk, pc, todo, view, getter, barrier, txn, latest, seen>>

\* Mutant: the inputs of the compaction stay in the Version.
WithMergedKept == [version EXCEPT !.ssts = @ \cup {NextSst}]
\* The merged SST takes the place of its inputs.
WithMerged == [version EXCEPT !.ssts = (@ \ worker.targets) \cup {NextSst}]

\* Write the merged SST and swap it in for its inputs.
CompactSwap ==
    /\ worker.pc = "compact"
    /\ sst' = Append(sst, NewestRows(UNION {sst[i] : i \in worker.targets}))
    /\ files' = files \cup {NextSst}
    /\ version' = WithMerged
    /\ worker' = [worker EXCEPT !.pc = "unlink"]
    /\ UNCHANGED <<seq, mem, frozen, queue, pc, todo, view, getter, barrier, txn,
                   latest, seen>>

CompactUnlink ==
    /\ worker.pc = "unlink"
    /\ files' = files \ worker.targets
    /\ worker' = Idle
    /\ UNCHANGED <<seq, store, sst, queue, pc, todo, view, getter, barrier, txn,
                   latest, seen>>

\* A Sync job wakes the client that waits for it.
AnswerSync ==
    /\ Receive("sync")
    /\ Go(Head(queue).client, "synced")
    /\ UNCHANGED <<seq, store, disk, worker, todo, view, getter, barrier, txn, latest, seen>>

-----------------------------------------------------------------------------
\* A client between calls may make one ...
Start(c) ==
    \/ TakeTicket(c) \/ TakeTickets(c) \/ BeginSnapshot(c) \/ TxnWrite(c)
    \/ CloseIdle(c) \/ CommitLock(c) \/ GetStart(c) \/ ScanStart(c)
    \/ FlushCall(c) \/ CompactCall(c)

\* ... and within a call goes on with it.
Continue(c) ==
    \/ EnterWriteGate(c) \/ Insert(c)
    \/ BeginFails(c) \/ BeginIndexes(c)
    \/ CommitConflicts(c) \/ CommitFails(c) \/ CommitNumbers(c)
    \/ GetActive(c) \/ GetImm(c) \/ GetSst(c) \/ GetFails(c)
    \/ ScanShard(c) \/ ScanRest(c) \/ ScanFails(c) \/ Return(c)
    \/ MaybeFlush(c) \/ FreezeNothing(c) \/ FreezeCopy(c) \/ FreezeSwap(c)
    \/ EnqueueFlush(c) \/ MaybeCompact(c) \/ EnqueueCompact(c)
    \/ EnqueueSync(c) \/ BarrierReturns(c)

Worker ==
    \/ FlushBuild \/ FlushSwap
    \/ CompactPick \/ CompactSwap \/ CompactUnlink
    \/ AnswerSync

Next == Worker \/ \E c \in Clients : Start(c) \/ Continue(c)

\* No thread stops in the middle of a call; nobody has to make one.
Fairness == WF_vars(Worker) /\ \A c \in Clients : WF_vars(Continue(c))

Spec == Init /\ [][Next]_vars
FairSpec == Spec /\ Fairness

-----------------------------------------------------------------------------
(* Properties.                                                             *)

JobType == [kind : {"flush", "compact", "sync"}, gen : Nat, client : Clients]

StoreType ==
    /\ seq \in Nat \ {0}
    /\ mem \in Seq(SUBSET Row) /\ frozen \in Seq(SUBSET Row)
    /\ version \in Version
    /\ sst \in Seq(SUBSET Row) /\ files \subseteq DOMAIN sst
    /\ queue \in Seq(JobType)
    /\ worker \in [pc : {"idle", "flush", "compact", "unlink"}, gen : Nat,
                   targets : SUBSET Nat]

CallType ==
    /\ pc \in [Clients -> Locations]
    /\ todo \in [Clients -> Seq(Row)]
    /\ view \in [Clients -> Version]
    /\ key \in [Clients -> Nat] /\ best \in [Clients -> Nat]
    /\ unread \in [Clients -> SUBSET Keys] /\ found \in [Clients -> [Keys -> Nat]]
    /\ barrier \in [Clients -> BOOLEAN]

TxnType ==
    /\ tx \in [Clients -> {"none", "open", "committed", "conflict", "failed"}]
    /\ snap \in [Clients -> Nat]
    /\ index \in [Clients -> [Keys -> Nat]]
    /\ writes \in [Clients -> SUBSET Keys]
    /\ latest \in [Keys -> Nat]
    /\ seen \in [Clients -> [Keys -> Nat]]

\* Every variable keeps its type; a file on disk is one that was written.
TypeOK == StoreType /\ CallType /\ TxnType

\* No freeze, flush or compaction, whatever it overlaps with, takes the newest
\* row of a key out of reach: the current Version always holds it
\* (memtable.rs:83-96, 168-177, 666-675: three swaps of one Version).
NewestPresent ==
    \A k \in Keys : latest[k] > 0 =>
        [key |-> k, seq |-> latest[k]] \in Contents(version)

\* Nothing is inserted into a memtable after freeze() copied it: what the SST
\* is later built from is all the memtable ever held (the write gate, 583/658).
FrozenIsFinal == \A g \in DOMAIN frozen : frozen[g] = mem[g]

\* The current Version never names an SST whose file is gone: inputs of a
\* compaction are unlinked only after the swap (memtable.rs:182-185).
FilesLive == version.ssts \subseteq files

\* Of the memtables that wait to be flushed none is forgotten: its flush is
\* queued, running, or about to be sent by the client that froze it.
FlushPending ==
    \A g \in version.imm :
        \/ \E i \in DOMAIN queue : queue[i].kind = "flush" /\ queue[i].gen = g
        \/ worker.pc = "flush" /\ worker.gen = g
        \/ \E c \in Clients : pc[c] = "enqueue_flush" /\ view[c].active = g

\* When flush() returns, the memtable it froze is in an SST (the Sync job runs
\* behind its own Flush job, memtable.rs:773-778, 910-921).
FlushReturnsFlushed ==
    \A c \in Clients : pc[c] = "synced" => view[c].active \notin version.imm

\* A key that had a row when get() started is found: source by source, across
\* a concurrent freeze, flush or compaction, get() never comes out empty.
GetNeverMisses ==
    \A c \in Clients : pc[c] = "got" /\ seen[c][key[c]] > 0 => best[c] > 0

\* get() returns a row at least as new as any inserted before it started.
GetNotStale ==
    \A c \in Clients : pc[c] = "got" => best[c] >= seen[c][key[c]]

\* A reader works on an immutable Version: background work never makes it fail.
ReadsNeverFail == \A c \in Clients : pc[c] # "failed"

\* A call that was let in comes to its end, past both gates, a full job queue
\* and the barrier.
CallsReturn == \A c \in Clients : pc[c] # "idle" ~> pc[c] = "idle"

\* A frozen memtable is flushed sooner or later.
FreezesFlushed ==
    \A g \in 1 .. MaxSeq : g \in version.imm ~> g \notin version.imm

\* The refinement mapping: rows of a batch or commit that is half inserted do
\* not count yet.
Publishing(c) == pc[c] \in {"batch_put", "commit_put"}
Visible ==
    IF \E c \in Clients : Publishing(c)
    THEN seen[CHOOSE c \in Clients : Publishing(c)]
    ELSE latest

\* A scan is not one instant of the store, but for every key it returns a row
\* no older than any inserted before it began, and nothing of a batch or commit
\* that is half inserted (columnar.rs:304-317 under the gate of
\* memtable.rs:842, which only whole batches exclude).
ScanKeepsUp ==
    \A c \in {d \in Clients : pc[d] \in {"scan_shards", "scanned"}}, k \in Keys :
        /\ pc[c] = "scanned" => seen[c][k] <= found[c][k]
        /\ found[c][k] <= Visible[k]

Store == INSTANCE SnapshotStore
             WITH Versions <- Nat, kv <- Visible, snapshot <- index

\* The Region implements the snapshot store: snapshots are the whole store at
\* one instant, commits are atomic and first committer wins, a conflict is
\* reported only if there is one, and versions of a key only grow.
ImplementsStore == Store!Spec
=============================================================================
