---------------------------- MODULE DurabilityInv ----------------------------
(***************************************************************************)
(* The inductive invariant behind the directory of a Region: why a restart *)
(* finds every file its manifest lists and hands out no number again, and  *)
(* why what is served after the first stop is a first part of the log of   *)
(* transactions.  Durability_proofs proves that it is one; runs check it.  *)
(***************************************************************************)
EXTENDS Durability

LogFile == [frames : Seq([rows : SUBSET Row, torn : BOOLEAN]), synced : Nat]

\* Only the log in use has frames that are not synced, and only while open.
Logs ==
    /\ DOMAIN wal \subseteq LogNumbers
    /\ \A n \in DOMAIN wal :
        /\ wal[n] \in LogFile /\ wal[n].synced <= Len(wal[n].frames)
        /\ wal[n].synced < Len(wal[n].frames) => phase # "down" /\ n = active.wal
    /\ phase # "down" => active.wal \in DOMAIN wal
    /\ phase = "merge" => orphans \subseteq DOMAIN wal \ {active.wal}
    /\ writer = "forked" => active.wal + 1 \in DOMAIN wal

\* Each frozen memtable has rows and a log of its own, older than the one in
\* use; the log the worker removes next belongs to none of them.
Memtables ==
    /\ active \in [wal : Nat, rows : SUBSET Row]
    /\ imm \subseteq [wal : Nat, rows : SUBSET Row] /\ pending \subseteq Row
    /\ \A m \in imm : m.wal \in DOMAIN wal /\ m.wal < active.wal /\ m.rows # {}
    /\ \A m, o \in imm : m.wal = o.wal => m = o
    /\ worker.pc \in {"flush_manifest", "flush_remove"} =>
            worker.wal < active.wal /\ \A m \in imm : worker.wal # m.wal
    /\ writer # "ready" => active.rows # {} /\ active.wal < MaxFreezes

\* Only an open Region freezes memtables, and only its worker runs.
Phases ==
    /\ phase \in {"down", "merge", "up"} /\ writer \in {"ready", "freeze", "forked"}
    /\ phase # "up" => writer = "ready" /\ worker = Idle /\ imm = {}
    /\ phase = "down" => ssts = {} /\ active.rows = {} /\ pending = {}

\* The inputs of a merge leave the Version first, then the manifest, and only
\* then the directory.
Files ==
    /\ DOMAIN sst \subseteq Nat /\ IsFiniteSet(DOMAIN sst)
    /\ \A i \in DOMAIN sst : sst[i] \subseteq Row /\ sst[i] # {}
    /\ ssts \subseteq DOMAIN sst /\ manifest.ids \subseteq DOMAIN sst
    /\ worker \in [pc : {"idle", "flush_manifest", "flush_remove", "compact_manifest",
                         "compact_remove"}, wal : Nat, old : SUBSET DOMAIN sst]
    /\ worker.pc \in {"compact_manifest", "compact_remove"} => worker.old \cap ssts = {}
    /\ worker.pc = "compact_remove" => worker.old \cap manifest.ids = {}
    /\ sstId \in Nat /\ (phase # "down" => \A i \in DOMAIN sst : i < sstId)

Entry == [id : Nat, keys : SUBSET Keys]
History == log \in Seq(Entry) /\ Len(log) <= txns /\ synced \in 0 .. txns /\ txns \in Nat

\* Numbers grow with the transactions, across restarts: no row has one above
\* what the transactions so far can have used, be it in memory or in a file.
Written(w) == UNION {w.frames[i].rows : i \in DOMAIN w.frames}
Used(R) == \A r \in R : r.seq <= txns * Cardinality(Keys)
Numbers ==
    /\ Used(active.rows) /\ Used(pending) /\ \A m \in imm : Used(m.rows)
    /\ \A i \in DOMAIN sst : Used(sst[i])
    /\ \A n \in DOMAIN wal : Used(Written(wal[n]))
    /\ seq \in Nat /\ (phase = "up" => seq <= txns * Cardinality(Keys) + 1)

\* A new row is newer than every row in reach.
Ahead ==
    phase = "up" =>
        /\ \A r \in active.rows : r.seq < seq
        /\ \A m \in imm : \A r \in m.rows : r.seq < seq
        /\ \A i \in ssts : \A r \in sst[i] : r.seq < seq

DurableInv == Logs /\ Memtables /\ Phases /\ Files /\ History /\ Numbers /\ Ahead

-----------------------------------------------------------------------------
(* Why what is served after one stop is what the log of transactions says, *)
(* as long as nothing has expired: of the rows that have left the log in   *)
(* use, the newest are the same in memory, in what a restart would find,   *)
(* and in all files together.  After a second stop it need not be.         *)

Explains(l, R) == \A k \in Keys : Served(R, k) = LastWriter(l, k)
SameNewest(A, B) == NewestRows(A) = NewestRows(B)
OneRowPerNumber(R) == \A q, r \in R : q.key = r.key /\ q.seq = r.seq => q = r

RowsOfLogs(N) == UNION {Recovered(wal[n]) : n \in N}
RowsOfFiles(I) == UNION {sst[i] : i \in I}
\* The rows of the first n frames of F.
FirstFrames(F, n) == UNION {F[i].rows : i \in 1 .. n}

OldLogs == DOMAIN wal \ {active.wal}
OldInFiles == RowsOfLogs(OldLogs) \cup RowsOfFiles(DOMAIN sst)
OldToFind == RowsOfLogs(OldLogs) \cup RowsOfFiles(Listed \cup Adopted)
OldInMemory == (UNION {m.rows : m \in imm}) \cup RowsOfFiles(ssts)
\* What a restart finds, and what is left of that while it opens.
OnDisk == RowsOfLogs(DOMAIN wal) \cup RowsOfFiles(Listed \cup Adopted)
LaterOrphans == {n \in orphans : \E m \in orphans : m < n}
InReach == active.rows \cup pending \cup RowsOfLogs(LaterOrphans) \cup RowsOfFiles(ssts)

ServesLog == phase = "up" => Explains(log, Contents) /\ synced <= Len(log)
\* A first part of the log, not shorter than the synced one, explains R.
PartExplains(R) ==
    /\ OneRowPerNumber(R)
    /\ \E n \in synced .. Len(log) : Explains(SubSeq(log, 1, n), R)
StopKeepsLog == phase = "down" => PartExplains(OnDisk)
OpeningKeepsLog == phase = "merge" => PartExplains(InReach) /\ (orphans = {} => pending = {})

\* Until the first opening is done there is nothing.
NothingYet ==
    stops = 0 /\ phase # "up" =>
        /\ \A n \in DOMAIN wal : n = 0 /\ wal[n] = EmptyLog
        /\ DOMAIN sst = {} /\ ssts = {} /\ active = [wal |-> 0, rows |-> {}]
        /\ orphans = {} /\ pending = {} /\ ops = 0
        /\ log = <<>> /\ synced = 0

\* Until the first stop the last frames of the log in use are the last
\* transactions, and what is synced of them is synced there.
Frames == wal[active.wal].frames
Before == Len(log) - Len(Frames)
FirstRun == stops = 0 /\ phase = "up"
FramesAreLog ==
    FirstRun =>
        /\ Before >= 0 /\ ops \in Nat
        /\ synced <= Before + wal[active.wal].synced
        /\ \A n \in 0 .. Len(Frames) :
                Explains(SubSeq(log, 1, Before + n), OldInMemory \cup FirstFrames(Frames, n))
\* A memtable has the rows of its log; no log is newer but a forked one.
LogsOfMemtables ==
    FirstRun =>
        /\ \A i \in DOMAIN Frames : ~ Frames[i].torn
        /\ \A m \in imm \cup {active} : m.rows = Recovered(wal[m.wal])
        /\ \A n \in DOMAIN wal : n > active.wal =>
                n = active.wal + 1 /\ writer = "forked" /\ wal[n] = EmptyLog
\* A file goes only when the manifest is that of the Version.
OldIsKept ==
    FirstRun =>
        /\ SameNewest(OldInFiles, OldInMemory) /\ SameNewest(OldInFiles, OldToFind)
        /\ worker.pc \in {"flush_remove", "compact_remove"} => manifest.ids = ssts
        /\ OneRowPerNumber(OldInFiles \cup active.rows)
        /\ \A r \in OldInFiles \cup active.rows : r.seq < seq

LogParts ==
    /\ ServesLog /\ StopKeepsLog /\ OpeningKeepsLog /\ NothingYet
    /\ FramesAreLog /\ LogsOfMemtables /\ OldIsKept
OneStop == stops <= 1 /\ cutoff = 0
LogInv == stops \in Nat /\ cutoff \in Nat /\ (OneStop => LogParts)

DirectoryInv == DurableInv /\ LogInv
=============================================================================
