----------------------------- MODULE Durability -----------------------------
(***************************************************************************)
(* A Region and its directory: write-ahead logs, SST files, the manifest,  *)
(* and what opening makes of them after a stop at any point.  One thread   *)
(* writes (Region has the threads); the worker runs beside it.             *)
(*                                                                         *)
(* A stop leaves of every file what was synced, and of the log that is     *)
(* being written any first part of the rest, its last frame perhaps torn.  *)
(* Creating, renaming and removing a file is durable at once and in order: *)
(* the code syncs no directory, so this is what it relies on.              *)
(***************************************************************************)
EXTENDS Naturals, Sequences, FiniteSets, FiniteSetsExt, Functions

CONSTANTS
    Keys,               \* the keys, each its own timestamp
    SyncEvery,          \* rows between two syncs (SyncPolicy::Interval)
    CompactThreshold,   \* SSTs of one window that are merged
    WindowSize,         \* width of a compaction window
    TornWrites,         \* a stop may tear the frame being written
    MaxTxns,            \* bound: transactions
    MaxFreezes,         \* bound: numbers of the logs
    MaxStops,           \* bound: crashes and closes
    MaxCutoff           \* bound: the TTL cutoff; 0 turns TTL off

ASSUME KeysAssumption == Keys \subseteq Nat /\ IsFiniteSet(Keys)
ASSUME SettingsAssumption ==
    /\ SyncEvery \in Nat /\ CompactThreshold \in Nat \ {0} /\ WindowSize \in Nat \ {0}
    /\ TornWrites \in BOOLEAN
ASSUME BoundAssumption ==
    MaxTxns \in Nat /\ MaxFreezes \in Nat /\ MaxStops \in Nat /\ MaxCutoff \in Nat

VARIABLES
    wal,        \* the log files: number |-> frames, and how many are synced
    sst,        \* the SST files: id |-> rows
    manifest,   \* whether the manifest exists, and the SSTs it lists
    phase,      \* "down", "merge" while opening, "up"
    active,     \* the active memtable: its log and its rows
    ops,        \* ops_since_sync of its log
    imm,        \* the frozen memtables
    ssts,       \* the SSTs of the current Version
    seq,        \* the next sequence number
    sstId,      \* the id of the next SST file
    writer,     \* "ready", or how far a freeze has come
    worker,     \* what the background thread has left to do
    orphans,    \* while opening: older logs not yet merged
    pending,    \* while opening: rows of the first of them not yet merged
    cutoff,     \* rows with an older timestamp have expired
    log,        \* history: the transactions that count, in order
    synced,     \* history: how many of them were synced
    txns,       \* history: transactions so far
    purged,     \* history: rows a compaction has removed for good
    stops       \* history: crashes and closes so far

disk    == <<wal, sst, manifest>>
memory  == <<active, ops, imm, ssts, seq, sstId>>
opening == <<orphans, pending>>
history == <<log, synced, txns, purged>>
vars == <<disk, phase, memory, writer, worker, opening, cutoff, history, stops>>

-----------------------------------------------------------------------------
Row == [key : Keys, seq : Nat, txn : Nat]

Frame(rows) == [rows |-> rows, torn |-> FALSE]
TornFrame == [rows |-> {}, torn |-> TRUE]
EmptyLog == [frames |-> <<>>, synced |-> 0]
Idle == [pc |-> "idle", wal |-> 0, old |-> {}]

\* Wal::recover reads frames up to the first one that is torn.
Recovered(w) ==
    UNION {w.frames[i].rows : i \in {j \in DOMAIN w.frames :
                                        \A h \in 1 .. j : ~ w.frames[h].torn}}

NewestRows(R) == {r \in R : \A q \in R : q.key = r.key => q.seq <= r.seq}
MaxSeqOf(R) == Max({0} \cup {r.seq : r \in R})
Contents == active.rows \cup (UNION {m.rows : m \in imm})
                        \cup (UNION {sst[i] : i \in ssts})
\* The transaction whose row of k a reader of rows R is given.
Served(R, k) ==
    LET top == {r \in NewestRows(R) : r.key = k}
    IN  IF top = {} THEN 0 ELSE (CHOOSE r \in top : TRUE).txn

\* Append a frame to the active log; maybe_sync() syncs every SyncEvery rows.
Appended(rows) ==
    LET w == wal[active.wal]
        frames == Append(w.frames, Frame(rows))
        sync == SyncEvery > 0 /\ ops + Cardinality(rows) >= SyncEvery
    IN  /\ wal' = [wal EXCEPT ![active.wal] =
                    [frames |-> frames, synced |-> IF sync THEN Len(frames) ELSE w.synced]]
        /\ ops' = IF sync THEN 0 ELSE ops + Cardinality(rows)
        /\ active' = [active EXCEPT !.rows = @ \cup rows]

\* Mutant: the log stays, as if it could not be removed.
NothingWithout(n) == wal
\* The directory without log n.
Without(n) == Restrict(wal, DOMAIN wal \ {n})

-----------------------------------------------------------------------------
Init ==
    /\ wal = <<>> /\ sst = <<>>
    /\ manifest = [exists |-> FALSE, ids |-> {}]
    /\ phase = "down"
    /\ active = [wal |-> 0, rows |-> {}]
    /\ ops = 0 /\ imm = {} /\ ssts = {} /\ seq = 0 /\ sstId = 0
    /\ writer = "ready" /\ worker = Idle
    /\ orphans = {} /\ pending = {}
    /\ cutoff = 0
    /\ log = <<>> /\ synced = 0 /\ txns = 0 /\ purged = {} /\ stops = 0

-----------------------------------------------------------------------------
(* Opening: Region::with_schema.                                           *)

Listed == manifest.ids \cap DOMAIN sst
\* Files the manifest does not list are adopted if they are newer than it.
Adopted == {i \in DOMAIN sst \ Listed : \A j \in Listed : i > j}

\* Mutant: an older log is taken to be flushed.
FirstRowsFlushed(O, W) == {}
\* The rows of the first of the orphan logs O of the directory W.
FirstRows(O, W) == IF O = {} THEN {} ELSE NewestRows(Recovered(W[Min(O)]))

\* List the SSTs, open the last log and read it; wal_000.log always exists.
Open ==
    /\ phase = "down"
    /\ LET logs == DOMAIN wal \cup {0}
           last == Max(logs)
           files == [n \in logs |-> IF n \in DOMAIN wal THEN wal[n] ELSE EmptyLog]
       IN  /\ wal' = files
           /\ active' = [wal |-> last, rows |-> Recovered(files[last])]
           /\ orphans' = logs \ {last}
           /\ pending' = FirstRows(logs \ {last}, files)
    /\ ops' = 0 /\ imm' = {}
    /\ ssts' = Listed \cup Adopted
    /\ sstId' = Max({0} \cup {i + 1 : i \in Listed \cup Adopted})
    /\ phase' = "merge"
    /\ UNCHANGED <<sst, manifest, seq, writer, worker, cutoff, history, stops>>

\* Write a row of the orphan to the active log and memtable, unless the
\* memtable already has one as new.
MergeRow ==
    /\ phase = "merge"
    /\ \E r \in pending :
        /\ pending' = pending \ {r}
        /\ IF \E q \in active.rows : q.key = r.key /\ q.seq >= r.seq
           THEN UNCHANGED <<wal, ops, active>>
           ELSE Appended({r})
    /\ UNCHANGED <<sst, manifest, phase, imm, ssts, seq, sstId, writer, worker, orphans,
                   cutoff, history, stops>>

RemoveOrphan ==
    /\ phase = "merge" /\ pending = {} /\ orphans # {}
    /\ wal' = Without(Min(orphans))
    /\ orphans' = orphans \ {Min(orphans)}
    /\ pending' = FirstRows(orphans \ {Min(orphans)}, wal)
    /\ UNCHANGED <<sst, manifest, phase, memory, writer, worker, cutoff, history, stops>>

\* Mutant: the watermark forgets the rows that are only in the log.
WatermarkOfFiles == MaxSeqOf(UNION {sst[i] : i \in ssts})
Watermark == MaxSeqOf(active.rows \cup UNION {sst[i] : i \in ssts})

\* The last transaction of l that wrote k.
LastWriter(l, k) ==
    LET W == {i \in DOMAIN l : k \in l[i].keys}
    IN  IF W = {} THEN 0 ELSE l[Max(W)].id
\* History: of the log the longest first part that explains what is served.
Explained ==
    LET N == {n \in 0 .. Len(log) :
                \A k \in Keys : Served(Contents, k) = LastWriter(SubSeq(log, 1, n), k)}
    IN  IF N = {} THEN log ELSE SubSeq(log, 1, Max(N))

\* The Region is open; the manifest is written if it says something new.
Serve ==
    /\ phase = "merge" /\ orphans = {}
    /\ seq' = Watermark + 1
    /\ manifest' = IF manifest.exists /\ ssts \subseteq manifest.ids
                   THEN manifest ELSE [exists |-> TRUE, ids |-> ssts]
    /\ phase' = "up"
    /\ log' = Explained
    /\ UNCHANGED <<wal, sst, active, ops, imm, ssts, sstId, writer, worker, opening, cutoff,
                   synced, txns, purged, stops>>

-----------------------------------------------------------------------------
(* Writing and freezing.                                                   *)

\* A write, a batch or a commit: one frame with all its rows.
Write ==
    /\ phase = "up" /\ writer = "ready" /\ txns < MaxTxns
    /\ \E K \in (SUBSET Keys) \ {{}} :
        LET rows == {[key |-> k, txn |-> txns + 1,
                      seq |-> seq + Cardinality({j \in K : j < k})] : k \in K}
        IN  /\ Appended(rows)
            /\ seq' = seq + Cardinality(K)
            /\ log' = Append(log, [id |-> txns + 1, keys |-> K])
    /\ synced' = IF ops' = 0 THEN Len(log') ELSE synced
    /\ txns' = txns + 1
    /\ UNCHANGED <<sst, manifest, phase, imm, ssts, sstId, writer, worker, opening, cutoff,
                   purged, stops>>

\* flush() is public, and maybe_flush() follows a write.
StartFreeze ==
    /\ phase = "up" /\ writer = "ready" /\ active.rows # {}
    /\ active.wal < MaxFreezes
    /\ writer' = "freeze"
    /\ UNCHANGED <<disk, phase, memory, worker, opening, cutoff, history, stops>>

\* fork(): create the next log ...
Fork ==
    /\ phase = "up" /\ writer = "freeze"
    /\ wal' = [n \in DOMAIN wal \cup {active.wal + 1} |->
                    IF n \in DOMAIN wal THEN wal[n] ELSE EmptyLog]
    /\ writer' = "forked"
    /\ UNCHANGED <<sst, manifest, phase, memory, worker, opening, cutoff, history, stops>>

\* Mutant: the log is left to the operating system when it is frozen.
WalClosedLazily(n) == wal
\* Wal::close() syncs the whole file.
WalClosed(n) == [wal EXCEPT ![n].synced = Len(wal[n].frames)]

\* ... and freeze(): sync the old one, and swap both memtables.
Freeze ==
    /\ phase = "up" /\ writer = "forked"
    /\ wal' = WalClosed(active.wal)
    /\ imm' = imm \cup {active}
    /\ active' = [wal |-> active.wal + 1, rows |-> {}]
    /\ ops' = 0
    /\ synced' = Len(log)
    /\ writer' = "ready"
    /\ UNCHANGED <<sst, manifest, phase, ssts, seq, sstId, worker, opening, cutoff, log,
                   txns, purged, stops>>

-----------------------------------------------------------------------------
(* The background thread.  Flushes come in the order of freezing; a Compact *)
(* job may come at any time, compact() being public.                        *)

NewFile(rows) == [i \in DOMAIN sst \cup {sstId} |-> IF i = sstId THEN rows ELSE sst[i]]

FlushBuild ==
    /\ phase = "up" /\ worker = Idle /\ imm # {}
    /\ LET m == CHOOSE m \in imm : \A o \in imm : m.wal <= o.wal
       IN  /\ sst' = NewFile(NewestRows(m.rows))
           /\ imm' = imm \ {m}
           /\ worker' = [pc |-> "flush_manifest", wal |-> m.wal, old |-> {}]
    /\ ssts' = ssts \cup {sstId}
    /\ sstId' = sstId + 1
    /\ UNCHANGED <<wal, manifest, phase, active, ops, seq, writer, opening, cutoff, history,
                   stops>>

\* Written aside, synced and renamed into place.  From here on the rows that
\* a compaction left out as expired are gone.
WriteManifest ==
    /\ phase = "up" /\ worker.pc \in {"flush_manifest", "compact_manifest"}
    /\ manifest' = [exists |-> TRUE, ids |-> ssts]
    /\ worker' = [worker EXCEPT !.pc = IF @ = "flush_manifest" THEN "flush_remove"
                                                                ELSE "compact_remove"]
    /\ purged' = purged \cup {r \in UNION {sst[i] : i \in worker.old} :
                                    r.key < cutoff /\ r \notin Contents}
    /\ UNCHANGED <<wal, sst, phase, memory, writer, opening, cutoff, log, synced, txns,
                   stops>>

FlushRemove ==
    /\ phase = "up" /\ worker.pc = "flush_remove"
    /\ wal' = Without(worker.wal)
    /\ worker' = Idle
    /\ UNCHANGED <<sst, manifest, phase, memory, writer, opening, cutoff, history, stops>>

Window(i) == Min({r.key : r \in sst[i]}) \div WindowSize
Group(w) == {i \in ssts : Window(i) = w}

\* Mutant: the inputs go before the manifest stops naming them.
AfterMergeRemove == "compact_remove"
AfterMerge == "compact_manifest"
\* Merge the oldest window that has enough SSTs; expired rows are left out,
\* and no file is written for no rows.
CompactSwap ==
    /\ phase = "up" /\ worker = Idle
    /\ LET crowded == {w \in {Window(i) : i \in ssts} :
                            Cardinality(Group(w)) >= CompactThreshold}
       IN  /\ crowded # {}
           /\ LET old == Group(Min(crowded))
                  rows == UNION {sst[i] : i \in old}
                  kept == NewestRows({r \in rows : r.key >= cutoff})
              IN  /\ IF kept = {}
                     THEN ssts' = ssts \ old /\ UNCHANGED <<sst, sstId>>
                     ELSE /\ sst' = NewFile(kept)
                          /\ ssts' = (ssts \ old) \cup {sstId}
                          /\ sstId' = sstId + 1
                  /\ worker' = [pc |-> AfterMerge, wal |-> 0, old |-> old]
    /\ UNCHANGED <<wal, manifest, phase, active, ops, imm, seq, writer, opening, cutoff,
                   history, stops>>

CompactRemove ==
    /\ phase = "up" /\ worker.pc = "compact_remove"
    /\ \E i \in worker.old :
        /\ sst' = Restrict(sst, DOMAIN sst \ {i})
        /\ worker' = IF worker.old = {i} THEN Idle ELSE [worker EXCEPT !.old = @ \ {i}]
    /\ UNCHANGED <<wal, manifest, phase, memory, writer, opening, cutoff, history, stops>>

\* Time passes, and with it rows expire.
Expire ==
    /\ phase = "up" /\ cutoff < MaxCutoff
    /\ cutoff' = cutoff + 1
    /\ UNCHANGED <<disk, phase, memory, writer, worker, opening, history, stops>>

-----------------------------------------------------------------------------
(* Stopping.                                                               *)

\* Nothing in memory outlives the process.
Forget ==
    /\ phase' = "down"
    /\ active' = [wal |-> 0, rows |-> {}]
    /\ ops' = 0 /\ imm' = {} /\ ssts' = {} /\ seq' = 0 /\ sstId' = 0
    /\ writer' = "ready" /\ worker' = Idle
    /\ orphans' = {} /\ pending' = {}
    /\ stops' = stops + 1
    /\ UNCHANGED <<sst, manifest, cutoff, log, txns, purged>>

\* close(): past the barrier nothing is queued, and the active log is synced.
Close ==
    /\ phase = "up" /\ stops < MaxStops
    /\ writer = "ready" /\ worker = Idle /\ imm = {}
    /\ wal' = WalClosed(active.wal)
    /\ synced' = Len(log)
    /\ Forget

\* A frame may be on its way to the log.
Writing == IF phase = "merge" THEN pending # {} ELSE writer = "ready"
\* Of the log being written the first n frames are left, and perhaps a piece
\* of the next.
Crash ==
    /\ phase # "down" /\ stops < MaxStops
    /\ LET w == wal[active.wal]
       IN  \E n \in w.synced .. Len(w.frames), torn \in {FALSE, TornWrites} :
            /\ torn => Writing \/ n < Len(w.frames)
            /\ LET kept == SubSeq(w.frames, 1, n)
                   left == IF torn THEN Append(kept, TornFrame) ELSE kept
               IN  wal' = [wal EXCEPT ![active.wal] = [frames |-> left, synced |-> Len(left)]]
    /\ UNCHANGED synced
    /\ Forget

-----------------------------------------------------------------------------
Opening == Open \/ MergeRow \/ RemoveOrphan \/ Serve
Worker  == FlushBuild \/ WriteManifest \/ FlushRemove \/ CompactSwap \/ CompactRemove
Freezing == Fork \/ Freeze

Next == Opening \/ Write \/ StartFreeze \/ Freezing \/ Worker \/ Expire \/ Close \/ Crash

\* Opening goes on until it is done, a freeze is finished, the worker works.
Fairness == WF_vars(Opening) /\ WF_vars(Freezing) /\ WF_vars(Worker)

Spec == Init /\ [][Next]_vars
FairSpec == Spec /\ Fairness

-----------------------------------------------------------------------------
(* Properties.                                                             *)

LogNumbers == 0 .. MaxFreezes

\* Every variable has its type; of all logs only the one being written has
\* frames that a crash may take.
TypeOK ==
    /\ phase \in {"down", "merge", "up"} /\ writer \in {"ready", "freeze", "forked"}
    /\ DOMAIN wal \subseteq LogNumbers
    /\ \A n \in DOMAIN wal :
        /\ \A i \in DOMAIN wal[n].frames : wal[n].frames[i].rows \subseteq Row
        /\ wal[n].synced \in 0 .. Len(wal[n].frames)
        /\ wal[n].synced < Len(wal[n].frames) => phase # "down" /\ n = active.wal
    /\ \A i \in DOMAIN sst : sst[i] \subseteq Row /\ sst[i] # {}
    /\ active.rows \subseteq Row /\ \A m \in imm : m.wal \in DOMAIN wal /\ m.rows \subseteq Row
    /\ phase # "down" => active.wal \in DOMAIN wal
    /\ ssts \subseteq DOMAIN sst
    /\ synced \in 0 .. txns /\ Len(log) <= txns

\* load_manifest() skips a listed file that does not exist without a word
\* (memtable.rs 526).  There is never one: a file is removed only after a
\* manifest without it has been renamed into place.
ManifestNamesFiles == manifest.ids \subseteq DOMAIN sst

\* After any number of restarts the counters are ahead of what is on disk: a
\* new write is newer than every row that can be read, and a new SST takes
\* no name that is in use, be it of a file that was ignored.
CountersAhead ==
    phase = "up" =>
        /\ \A r \in Contents : r.seq < seq
        /\ \A i \in DOMAIN sst : i < sstId

\* What was synced is served after every restart: the log of transactions
\* that opening arrives at is never shorter than its synced part.
SyncedSurvives == phase = "up" => synced <= Len(log)

\* A row that a compaction removed as expired, and the manifest knows it, is
\* never served again.
ExpiredStayDead == phase = "up" => purged \cap Contents = {}

\* Every log that is no longer written goes away: its memtable is flushed, or
\* it is merged at the next opening.
LogsReclaimed ==
    \A n \in LogNumbers :
        (phase = "up" /\ n \in DOMAIN wal \ {active.wal} /\ writer = "ready")
            ~> n \notin DOMAIN wal

\* Crashes and all, the Region is a log of transactions with a durable first part.
Abstract == INSTANCE DurableLog WITH
    Ids <- 1 .. MaxTxns,
    up <- phase = "up",
    kv <- [k \in Keys |-> IF phase = "up" THEN Served(Contents, k) ELSE 0]
ImplementsLog == Abstract!Spec
=============================================================================
