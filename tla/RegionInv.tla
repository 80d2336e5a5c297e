------------------------------ MODULE RegionInv ------------------------------
(***************************************************************************)
(* Why the Region is correct: the facts about locations, gates, memtables  *)
(* and files that every step preserves, and that together imply the        *)
(* invariants of Region.                                                   *)
(***************************************************************************)
EXTENDS Region

\* Memtables are frozen in the order of their creation, and a Version names
\* only what exists.
Shape ==
    /\ Len(mem) = Len(frozen) + 1
    /\ version.imm \subseteq DOMAIN frozen
    /\ version.ssts \subseteq DOMAIN sst
    /\ version.active \in DOMAIN mem
    /\ version.active = IF \E c \in Clients : pc[c] \in OwnsWrite
                        THEN Len(frozen) ELSE Len(mem)

\* Freezing excludes inserting, and all who hold the write gate agree on what
\* the active memtable is.
WriteGateHeld ==
    /\ \A c, d \in Clients :
        pc[c] \in OwnsWrite /\ pc[d] \in OwnsWrite \cup SharesWrite => c = d
    /\ \A c \in Clients :
        pc[c] \in OwnsWrite \cup SharesWrite => view[c].active = version.active

\* What a client has cloned exists for good.
ViewsExist ==
    \A c \in Clients :
        /\ view[c].imm \subseteq DOMAIN frozen
        /\ view[c].ssts \subseteq DOMAIN sst
        /\ pc[c] \in {"begin", "get_active", "scan_shards"} => view[c].active \in DOMAIN mem
        /\ pc[c] = "enqueue_flush" => view[c].active \in DOMAIN frozen

\* A flush is only ever asked for a memtable that has its frozen copy.
JobsExist ==
    \A i \in DOMAIN queue : queue[i].kind = "flush" => queue[i].gen \in DOMAIN frozen

\* Whoever has a Sync job in the queue waits for it, and has only the one.
BarriersWait ==
    /\ \A i \in DOMAIN queue :
        queue[i].kind = "sync" => pc[queue[i].client] = "wait"
    /\ \A i, j \in DOMAIN queue :
        /\ queue[i].kind = "sync" /\ queue[j].kind = "sync"
        /\ queue[i].client = queue[j].client
        => i = j

\* Between its steps the worker holds on to SSTs that exist; a flush has just
\* written the newest rows of its memtable.
WorkerKnows ==
    /\ worker.targets \subseteq DOMAIN sst
    /\ worker.pc = "flush" =>
        /\ worker.gen \in DOMAIN frozen
        /\ sst # <<>>
        /\ sst[Len(sst)] = NewestRows(frozen[worker.gen])

\* There is a row to insert, and there are keys to commit.
WorkAhead ==
    \A c \in Clients :
        /\ pc[c] \in {"write_gate", "write_put", "batch_gate", "batch_put", "commit_put"}
              => todo[c] # <<>>
        /\ pc[c] \in {"commit_gate", "commit_check"} => writes[c] # {}

\* No row anywhere is newer than the newest row of its key.
LatestBounds ==
    /\ \A g \in DOMAIN mem : \A r \in mem[g] : r.seq <= latest[r.key]
    /\ \A i \in DOMAIN sst : \A r \in sst[i] : r.seq <= latest[r.key]

StorageInv ==
    /\ TypeOK /\ Shape /\ WriteGateHeld /\ ViewsExist /\ JobsExist /\ BarriersWait
    /\ WorkerKnows /\ WorkAhead /\ LatestBounds /\ FrozenIsFinal /\ NewestPresent

\* An SST the worker is about to swap in is on disk; one it is about to unlink
\* is no longer in the Version.
FilesKept ==
    /\ FilesLive
    /\ worker.pc = "flush" => Len(sst) \in files
    /\ worker.pc = "unlink" => worker.targets \cap version.ssts = {}

\* A client that has not frozen anything yet remembers no memtable ...
ViewsCleared ==
    \A c \in Clients :
        pc[c] \in {"idle", "flush_check", "freeze", "enqueue_compact"} => view[c].active = 0

\* ... and of those that may have, each froze a memtable of its own.
Freezers == {"swap", "enqueue_flush", "enqueue_sync", "wait", "synced"}
FreezersApart ==
    \A c \in Clients : pc[c] \in Freezers =>
        /\ view[c].active \in 0 .. Len(frozen)
        /\ \A d \in Clients \ {c} :
            pc[d] \in Freezers /\ view[d].active = view[c].active => view[c].active = 0

\* While a flush() waits, its memtable is being flushed, or will be by a job
\* that lies before its Sync job.
SyncBehindFlush ==
    \A c \in Clients : pc[c] = "wait" /\ view[c].active \in version.imm =>
        \/ worker.pc = "flush" /\ worker.gen = view[c].active
        \/ \E j \in DOMAIN queue :
            /\ queue[j].kind = "flush" /\ queue[j].gen = view[c].active
            /\ \A i \in DOMAIN queue :
                queue[i].kind = "sync" /\ queue[i].client = c => j < i

FlushInv ==
    ViewsCleared /\ FreezersApart /\ SyncBehindFlush /\ FlushPending /\ FlushReturnsFlushed

-----------------------------------------------------------------------------
(* Transactions: why the Region implements the SnapshotStore.              *)

\* The commit gate is owned by one client at most, and then shared by nobody.
CommitGateHeld ==
    \A c, d \in Clients :
        pc[c] \in OwnsCommit /\ pc[d] \in OwnsCommit \cup SharesCommit => c = d

\* Rows are numbered under the commit gate, below the next number; a client
\* has none left once it lets go.
Numbering == {"write_gate", "write_put", "batch_gate", "batch_put", "commit_put"}
TicketsFresh ==
    /\ \A k \in Keys : latest[k] < seq
    /\ \A c \in Clients :
        /\ pc[c] \notin Numbering => todo[c] = <<>>
        /\ \A i \in DOMAIN todo[c] : todo[c][i].seq < seq

\* Until it inserts, who owns the commit gate sees the store as it was when it
\* got the gate, and finds the newest row of every key in its clone.
GateKeepsStore ==
    \A c \in Clients :
        /\ pc[c] \in {"batch_gate", "commit_gate", "commit_check"} => seen[c] = latest
        /\ pc[c] \in {"begin", "commit_check"} => \A k \in Keys :
            latest[k] > 0 => [key |-> k, seq |-> latest[k]] \in Contents(view[c])

TxnPlaces ==
    \A c \in Clients :
        /\ pc[c] = "begin" => tx[c] # "open"
        /\ pc[c] \in {"commit_gate", "commit_check", "commit_put"} => tx[c] = "open"

\* A snapshot separates what is in the store from what is still to be
\* inserted: a key reads as it does now unless its newest row came later.
SnapshotCut(c) ==
    /\ tx[c] = "open" \/ pc[c] = "begin" =>
        /\ snap[c] <= seq
        /\ \A d \in Clients : \A i \in DOMAIN todo[d] : todo[d][i].seq >= snap[c]
    /\ pc[c] = "begin" => \A k \in Keys : latest[k] < snap[c]
    /\ tx[c] = "open" => \A k \in Keys :
        /\ index[c][k] < snap[c]
        /\ index[c][k] = latest[k] \/ latest[k] >= snap[c]
SnapshotsCut == \A c \in Clients : SnapshotCut(c)

\* While a batch or a commit is half inserted, the store before it is in seen;
\* of a commit exactly the keys already inserted are newer by now.
Awaited(c) == {todo[c][i].key : i \in DOMAIN todo[c]}
Half(c) ==
    /\ pc[c] = "batch_put" => \A k \in Keys : seen[c][k] <= latest[k]
    /\ pc[c] = "commit_put" =>
        /\ \A k \in writes[c] : seen[c][k] = index[c][k]
        /\ \A i, j \in DOMAIN todo[c] : todo[c][i].key = todo[c][j].key => i = j
        /\ \A i \in DOMAIN todo[c] :
            todo[c][i].key \in writes[c] /\ todo[c][i].seq > seen[c][todo[c][i].key]
        /\ \A k \in Keys : IF k \in writes[c] \ Awaited(c)
                            THEN latest[k] > seen[c][k] ELSE latest[k] = seen[c][k]
HalfInserted == \A c \in Clients : Half(c)

TxnInv ==
    CommitGateHeld /\ TicketsFresh /\ GateKeepsStore /\ TxnPlaces /\ SnapshotsCut
    /\ HalfInserted

-----------------------------------------------------------------------------
(* Readers: what was there when they began is in what they have left.      *)

\* The row of k that was the newest when c began, and that it lies in an
\* immutable source c has left to read.
Held(c, k) == [key |-> k, seq |-> seen[c][k]]
HeldFrozen(c, k) == \E g \in view[c].imm : Held(c, k) \in frozen[g]
HeldOnDisk(c, k) == \E i \in view[c].ssts : Held(c, k) \in sst[i]

\* A scan has that row in reach, and when it has read the shard of k has come
\* across it or will in another source.
Scanning(c) ==
    pc[c] = "scan_shards" => \A k \in Keys : seen[c][k] > 0 =>
        IF k \in unread[c] THEN Held(c, k) \in Contents(view[c])
        ELSE seen[c][k] <= found[c][k] \/ HeldFrozen(c, k) \/ HeldOnDisk(c, k)
ScanInv ==
    /\ \A c \in Clients :
        /\ pc[c] \notin {"scan_shards", "scanned", "failed"} => found[c] = Never
        /\ Scanning(c)
    /\ ScanKeepsUp

\* A get() has found a row of its key, or that row is in a source to come.
Getting(c) ==
    pc[c] \in {"get_active", "get_imm", "get_sst"} /\ seen[c][key[c]] > 0 =>
        \/ best[c] > 0
        \/ pc[c] = "get_active" /\ Held(c, key[c]) \in mem[view[c].active]
        \/ pc[c] # "get_sst" /\ HeldFrozen(c, key[c])
        \/ HeldOnDisk(c, key[c])
GetInv ==
    /\ \A c \in Clients :
        /\ pc[c] \in {"get_active", "get_imm", "get_sst", "got"} => key[c] \in Keys
        /\ Getting(c)
    /\ GetNeverMisses

ReadInv == ScanInv /\ GetInv
=============================================================================
