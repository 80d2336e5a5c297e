---------------------------- MODULE FlushWorkerInv ----------------------------
(***************************************************************************)
(* The inductive invariant behind the properties of FlushWorker, in parts  *)
(* that are each about one thing: where a call may be and what it is about *)
(* to send, what the worker is at, who may still append to the channel,    *)
(* which files hold what, and what a barrier stands behind.                *)
(***************************************************************************)
EXTENDS FlushWorker

\* The steps that begin a call, and those that end the worker.
Opening == {"idle", "maybe_flush", "freeze", "maybe_compact"}
Closing == {"shutdown", "send_shutdown", "join", "last_check"}

\* Every call is where it can be, holds a job only to send it, and has no
\* result before it is done.
CallsInOrder ==
    \A c \in Clients :
        /\ pc[c] = "idle" <=> call[c] = "none"
        /\ pc[c] \in {"maybe_flush", "maybe_compact"} => call[c] = "write"
        /\ pc[c] = "freeze" => call[c] \in {"write", "flush"}
        /\ pc[c] \in {"wait", "synced"} => call[c] # "write"
        /\ pc[c] \in Closing => call[c] \in {"close", "drop"}
        /\ pc[c] \in Opening => out[c].gen = 0
        /\ pc[c] # "done" => result[c] = "none"

\* What a call is about to send is one of its own jobs.
JobsInHand ==
    \A c \in Clients : pc[c] \in {"enqueue", "send"} =>
        \/ out[c].kind = "flush" /\ call[c] \in {"write", "flush"}
        \/ out[c].kind = "compact" /\ call[c] \in {"write", "compact"}
        \/ out[c].kind = "sync" /\ call[c] # "write"

\* A memtable that is on its way to the worker has been frozen.
FrozenOnly ==
    /\ \A g \in imm : g < active
    /\ \A c \in Clients : out[c].gen < active /\ (out[c].kind = "flush" <=> out[c].gen > 0)
    /\ \A i \in DOMAIN jobs :
        jobs[i].gen < active /\ (jobs[i].kind = "flush" <=> jobs[i].gen > 0)
    /\ worker.gen < active
    /\ active + (IF dirty THEN 1 ELSE 0) <= made + 1

\* What the worker is at; once swapped in, a memtable is no longer frozen.
WorkerAtJob ==
    /\ worker.pc = "idle" => worker = Idle
    /\ worker.pc \in {"build", "flush_manifest", "flush_remove"} <=> worker.gen > 0
    /\ worker.pc \in {"flush_manifest", "flush_remove"} => worker.gen \notin imm
    /\ worker.gen > 0 => worker.old = {}

JobType == [kind : Kinds \cup {"none"}, gen : Gens \cup {0}, client : Clients]
ShapeInv ==
    /\ TypeOK
    /\ jobs \in Seq(JobType) /\ sst \in Seq(SUBSET Gens) /\ out \in [Clients -> JobType]
    /\ CallsInOrder /\ JobsInHand /\ FrozenOnly /\ WorkerAtJob

\* What the Version or the manifest names is on disk and not going to be
\* removed, and what the manifest holds, the Version holds.
NamedOnDisk ==
    /\ ssts \cup manifest \subseteq files
    /\ \A i \in ssts \cup manifest : SstFile(i) \notin pending
    /\ HeldBy(manifest) \subseteq HeldBy(ssts)

\* A job replaces before it removes.
ReplacedFirst ==
    /\ worker.pc = "flush_manifest" => worker.gen \in HeldBy(ssts)
    /\ worker.pc = "flush_remove" => worker.gen \in HeldBy(manifest)
    /\ worker.pc = "merge" => worker.old \subseteq ssts
    /\ worker.pc = "compact_manifest" => worker.old \cap ssts = {}
    /\ worker.pc = "compact_remove" => worker.old \cap (ssts \cup manifest) = {}

\* The log of a memtable goes only when the manifest holds its rows.
LogsKept ==
    /\ \A g \in Gens : Wal(g) \in pending => g \in HeldBy(manifest)
    /\ NothingLost

FilesInv == NamedOnDisk /\ ReplacedFirst /\ LogsKept

\* A Sync job has its caller waiting, the Shutdown job its closer; no client
\* has two Sync jobs in the channel.
SendersWait ==
    \A i \in DOMAIN jobs :
        /\ jobs[i].kind = "sync" => pc[jobs[i].client] = "wait"
        /\ jobs[i].kind = "shutdown" => pc[jobs[i].client] = "join"
OneSyncEach ==
    \A i, j \in DOMAIN jobs :
        jobs[i].kind = "sync" /\ jobs[j].kind = "sync" /\ jobs[i].client = jobs[j].client
            => i = j

\* One client takes the handle and ends the worker ...
Stopping == {"send_shutdown", "join"}
OneCloser ==
    /\ \A c, d \in Clients : pc[c] \in Stopping /\ pc[d] \in Stopping => c = d
    /\ \A c \in Clients : pc[c] \in Stopping => ~handle
    /\ \A c \in Clients : pc[c] = "send_shutdown" => alive
    /\ ~alive => ~handle /\ jobs = <<>>

\* ... and while the Region is dropped there is no other client.
DropAlone ==
    \A c \in Clients : call[c] = "drop" =>
        ~owned /\ \A d \in Clients \ {c} : pc[d] = "idle"

ChannelInv == SendersWait /\ OneSyncEach /\ OneCloser /\ DropAlone /\ DropDrains

\* An error that was there before the call is there still.
ErrorInv == ErrorIsReported /\ \A c \in Clients : late[c] => error

\* A client lets go of a memtable it froze only for the worker or an error.
FrozenInv ==
    /\ \A c \in Clients :
        out[c].gen > 0 /\ pc[c] \notin {"enqueue", "send"} => error \/ ~handle
    /\ ForgottenIsReported

\* The flushes sent before c's Sync job are done, or ahead of it.
Ahead(c, g) ==
    \/ g \in HeldBy(manifest) \/ g = worker.gen
    \/ \E j \in DOMAIN jobs :
        /\ jobs[j].kind = "flush" /\ jobs[j].gen = g
        /\ \A i \in DOMAIN jobs : jobs[i].kind = "sync" /\ jobs[i].client = c => j < i

BarrierInv ==
    /\ \A c \in Clients :
        /\ pc[c] \in Opening \cup {"enqueue", "send"} => before[c] = {}
        /\ pc[c] = "wait" /\ alive /\ ~error => \A g \in before[c] : Ahead(c, g)
        /\ pc[c] \in {"synced"} \cup Closing
            => call[c] = "drop" \/ error \/ before[c] \subseteq HeldBy(manifest)
        /\ 0 \notin before[c]
    /\ OkMeansWritten

WorkerInv ==
    ShapeInv /\ FilesInv /\ ChannelInv /\ ErrorInv /\ FrozenInv /\ BarrierInv
=============================================================================
