----------------------------- MODULE FlushWorker -----------------------------
(***************************************************************************)
(* The background thread and what its failures and its end mean for the    *)
(* callers: a bounded channel of jobs, an error that is kept once a job    *)
(* has failed, barriers, close(), and the Drop of the Region.              *)
(*                                                                         *)
(* A memtable is a number and its rows are one piece of data; which row is *)
(* in it, the gates and the windows of compaction are Region's.  Any step  *)
(* of a job that does I/O may fail, or panic, which the worker loop turns  *)
(* into the same error; so may a removal, which is then tried again.       *)
(***************************************************************************)
EXTENDS Naturals, Sequences, FiniteSets

CONSTANTS
    Clients,            \* the threads that share the Region
    QueueCap,           \* capacity of the job channel (8 in the code)
    CompactThreshold,   \* SSTs that are merged; not 1, or merging never ends
    Calls,              \* bound: the calls the clients make
    MaxCalls,           \* bound: calls, together
    MaxFaults           \* bound: steps that fail

AllCalls == {"write", "flush", "compact", "close", "drop"}

ASSUME QueueAssumption == QueueCap \in Nat \ {0}
ASSUME ThresholdAssumption == CompactThreshold \in Nat \ {0, 1}
ASSUME BoundAssumption ==
    Calls \subseteq AllCalls /\ MaxCalls \in Nat /\ MaxFaults \in Nat

VARIABLES
    jobs,       \* the job channel
    alive,      \* the worker thread runs, and holds the channel's receiver
    handle,     \* its JoinHandle is still there to be taken
    worker,     \* the job it works on and how far it is
    error,      \* bg_error: a job has failed
    active,     \* the active memtable
    dirty,      \* it holds rows
    imm,        \* the frozen memtables of the Version
    ssts,       \* the SSTs of the Version
    sst,        \* sst[i]: the memtables whose rows the i-th SST holds
    manifest,   \* the SSTs the manifest lists
    files,      \* the SST files on disk
    wals,       \* the memtables whose log is on disk
    pending,    \* files that could not be removed yet
    made,       \* bound: calls so far
    faults,     \* bound: failures so far
    owned,      \* the Region has not been dropped
    call,       \* call[c]: the call c is in
    pc,         \* pc[c]: where in it
    out,        \* out[c]: the job it is about to send
    result,     \* result[c]: what the call returned
    before,     \* history: memtables whose flush was sent before c's Sync job
    late        \* history: the error was there before the call began

store == <<active, dirty, imm>>
lsm == <<ssts, sst, manifest, files, wals, pending>>
thread == <<alive, handle, worker, error>>
session == <<made, faults, owned>>
client == <<call, pc, out, result, before, late>>
vars == <<jobs, thread, store, lsm, session, client>>

-----------------------------------------------------------------------------
Job(kind, gen, c) == [kind |-> kind, gen |-> gen, client |-> c]
NoJob(c) == Job("none", 0, c)
Idle == [pc |-> "idle", gen |-> 0, old |-> {}]
Wal(g) == <<"wal", g>>
SstFile(i) == <<"sst", i>>

\* The memtables whose rows are in SSTs of S that are on disk.
HeldBy(S) == UNION {sst[i] : i \in S \cap files}
\* The memtables whose flush has been sent and is not done yet.
Sent == {jobs[i].gen : i \in {j \in DOMAIN jobs : jobs[j].kind = "flush"}}
            \cup (IF worker.gen > 0 THEN {worker.gen} ELSE {})

Go(c, place) == pc' = [pc EXCEPT ![c] = place]

Init ==
    /\ jobs = <<>> /\ alive = TRUE /\ handle = TRUE /\ worker = Idle
    /\ error = FALSE
    /\ active = 1 /\ dirty = FALSE /\ imm = {}
    /\ ssts = {} /\ sst = <<>> /\ manifest = {} /\ files = {} /\ wals = {1}
    /\ pending = {} /\ made = 0 /\ faults = 0 /\ owned = TRUE
    /\ call = [c \in Clients |-> "none"]
    /\ pc = [c \in Clients |-> "idle"]
    /\ out = [c \in Clients |-> NoJob(c)]
    /\ result = [c \in Clients |-> "none"]
    /\ before = [c \in Clients |-> {}]
    /\ late = [c \in Clients |-> FALSE]

-----------------------------------------------------------------------------
(* The calls.                                                              *)

\* Nothing is called on a Region that is being dropped; Drop is the last
\* owner's, so nobody else is in a call.
Begin(c, name, place, job) ==
    /\ name \in Calls /\ owned /\ pc[c] = "idle" /\ made < MaxCalls
    /\ made' = made + 1
    /\ call' = [call EXCEPT ![c] = name]
    /\ out' = [out EXCEPT ![c] = job]
    /\ late' = [late EXCEPT ![c] = error]
    /\ Go(c, place)
    /\ UNCHANGED <<jobs, thread, lsm, faults, result, before>>

\* write(), write_batch() or commit(): the rows are in the memtable and its
\* log before anything is asked of the worker.
WriteCall(c) ==
    /\ Begin(c, "write", "maybe_flush", NoJob(c))
    /\ dirty' = TRUE
    /\ UNCHANGED <<active, imm, owned>>

FlushCall(c) ==
    Begin(c, "flush", "freeze", NoJob(c)) /\ UNCHANGED <<store, owned>>

CompactCall(c) ==
    Begin(c, "compact", "enqueue", Job("compact", 0, c)) /\ UNCHANGED <<store, owned>>

CloseCall(c) ==
    Begin(c, "close", "enqueue", Job("sync", 0, c)) /\ UNCHANGED <<store, owned>>

DropCall(c) ==
    /\ \A d \in Clients : pc[d] = "idle"
    /\ Begin(c, "drop", "enqueue", Job("sync", 0, c))
    /\ owned' = FALSE
    /\ UNCHANGED store

\* The call returns r; the Drop of the Region only goes on to the shutdown.
Leave(c, r) ==
    /\ Go(c, "done")
    /\ result' = [result EXCEPT ![c] = r]
Fail(c) ==
    IF call[c] = "drop" THEN Go(c, "shutdown") /\ UNCHANGED result
                        ELSE Leave(c, "err")

\* Whether the memory or row limit is reached is left open.
MaybeFlush(c) ==
    /\ pc[c] = "maybe_flush"
    /\ Go(c, "freeze") \/ Go(c, "maybe_compact")
    /\ UNCHANGED <<jobs, thread, store, lsm, session, call, out, result, before, late>>

\* freeze_active(); with nothing to freeze, flush() goes on to its barrier.
Freeze(c) ==
    /\ pc[c] = "freeze"
    /\ IF dirty
       THEN /\ imm' = imm \cup {active}
            /\ active' = active + 1
            /\ dirty' = FALSE
            /\ wals' = wals \cup {active + 1}
            /\ out' = [out EXCEPT ![c] = Job("flush", active, c)]
            /\ Go(c, "enqueue")
       ELSE /\ UNCHANGED <<store, wals>>
            /\ IF call[c] = "flush"
               THEN out' = [out EXCEPT ![c] = Job("sync", 0, c)] /\ Go(c, "enqueue")
               ELSE UNCHANGED out /\ Go(c, "maybe_compact")
    /\ UNCHANGED <<jobs, thread, ssts, sst, manifest, files, pending, session, call,
                   result, before, late>>

MaybeCompact(c) ==
    /\ pc[c] = "maybe_compact"
    /\ IF Cardinality(ssts) + Cardinality(imm) >= CompactThreshold
       THEN /\ out' = [out EXCEPT ![c] = Job("compact", 0, c)]
            /\ Go(c, "enqueue")
            /\ UNCHANGED result
       ELSE Leave(c, "ok") /\ UNCHANGED out
    /\ UNCHANGED <<jobs, thread, store, lsm, session, call, before, late>>

\* enqueue() refuses once a job has failed.  flush_barrier() looks just before
\* as well, which can tell it nothing else: the error stays.
Enqueue(c) ==
    /\ pc[c] = "enqueue"
    /\ IF error THEN Fail(c) ELSE Go(c, "send") /\ UNCHANGED result
    /\ UNCHANGED <<jobs, thread, store, lsm, session, call, out, before, late>>

\* Where a call is once its job is in the channel.
AfterSend(c) ==
    CASE out[c].kind = "sync" -> "wait"
      [] out[c].kind # "sync" /\ call[c] \in {"flush", "compact"} -> "enqueue"
      [] call[c] = "write" /\ out[c].kind = "flush" -> "maybe_compact"
      [] OTHER -> "done"

\* Mutant: the channel has no limit.
RoomAlways == TRUE
Room == Len(jobs) < QueueCap

\* The caller blocks while the channel is full.
Send(c) ==
    /\ pc[c] = "send" /\ alive /\ Room
    /\ jobs' = Append(jobs, out[c])
    /\ Go(c, AfterSend(c))
    /\ out' = [out EXCEPT ![c] = IF AfterSend(c) = "enqueue" THEN Job("sync", 0, c)
                                                              ELSE NoJob(c)]
    /\ result' = [result EXCEPT ![c] = IF AfterSend(c) = "done" THEN "ok" ELSE @]
    /\ before' = [before EXCEPT ![c] = IF out[c].kind = "sync" THEN Sent ELSE @]
    /\ UNCHANGED <<thread, store, lsm, session, call, late>>

\* The receiver is gone, or goes while the sender waits for room.
SendFails(c) ==
    /\ pc[c] = "send" /\ ~alive
    /\ Fail(c)
    /\ UNCHANGED <<jobs, thread, store, lsm, session, call, out, before, late>>

\* Mutant: a Sync job that nobody will answer leaves its caller waiting.
AbandonedNever(c) == FALSE
\* The Sync job of c went down with the channel.
Abandoned(c) ==
    ~alive /\ \A i \in DOMAIN jobs : ~(jobs[i].kind = "sync" /\ jobs[i].client = c)

BarrierFails(c) ==
    /\ pc[c] = "wait" /\ Abandoned(c)
    /\ Fail(c)
    /\ UNCHANGED <<jobs, thread, store, lsm, session, call, out, before, late>>

\* Mutant: the barrier does not look at the error once it is through.
BarrierTrusts == FALSE
\* What the barrier looks at once it is through.
BarrierSees == error

BarrierPasses(c) ==
    /\ pc[c] = "synced"
    /\ IF BarrierSees THEN Fail(c)
       ELSE IF call[c] \in {"close", "drop"} THEN Go(c, "shutdown") /\ UNCHANGED result
       ELSE Leave(c, "ok")
    /\ UNCHANGED <<jobs, thread, store, lsm, session, call, out, before, late>>

\* shutdown_worker() keeps the lock on the handle until the thread has ended.
TakeHandle(c) ==
    /\ pc[c] = "shutdown"
    /\ \A d \in Clients : pc[d] \notin {"send_shutdown", "join"}
    /\ handle' = FALSE
    /\ Go(c, IF handle THEN "send_shutdown" ELSE "last_check")
    /\ UNCHANGED <<jobs, alive, worker, error, store, lsm, session, call, out, result,
                   before, late>>

\* Mutant: the shutdown overtakes what is queued.
ShutdownFirst(c) == <<Job("shutdown", 0, c)>> \o jobs
ShutdownLast(c) == Append(jobs, Job("shutdown", 0, c))

SendShutdown(c) ==
    /\ pc[c] = "send_shutdown" /\ Room
    /\ jobs' = ShutdownLast(c)
    /\ Go(c, "join")
    /\ UNCHANGED <<thread, store, lsm, session, call, out, result, before, late>>

Join(c) ==
    /\ pc[c] = "join" /\ ~alive
    /\ Go(c, "last_check")
    /\ UNCHANGED <<jobs, thread, store, lsm, session, call, out, result, before, late>>

\* close() reports what went wrong up to here, else syncs the active log; Drop
\* ignores both.
LastCheck(c) ==
    /\ pc[c] = "last_check"
    /\ IF call[c] = "drop" THEN Leave(c, "dropped")
       ELSE IF error THEN Leave(c, "err") ELSE Leave(c, "ok")
    /\ UNCHANGED <<jobs, thread, store, lsm, session, call, out, before, late>>

Return(c) ==
    /\ pc[c] = "done"
    /\ Go(c, "idle")
    /\ call' = [call EXCEPT ![c] = "none"]
    /\ out' = [out EXCEPT ![c] = NoJob(c)]
    /\ result' = [result EXCEPT ![c] = "none"]
    /\ before' = [before EXCEPT ![c] = {}]
    /\ late' = [late EXCEPT ![c] = FALSE]
    /\ UNCHANGED <<jobs, thread, store, lsm, session>>

-----------------------------------------------------------------------------
(* The worker loop.                                                        *)

\* Every job, Shutdown too, begins with another try at what is left to remove.
Receive(kind) ==
    /\ alive /\ worker.pc = "idle"
    /\ jobs # <<>> /\ Head(jobs).kind = kind
    /\ \E gone \in SUBSET pending :
        /\ pending' = pending \ gone
        /\ wals' = {g \in wals : Wal(g) \notin gone}
        /\ files' = {i \in files : SstFile(i) \notin gone}

\* Mutant: success wipes the error out.
LatchLast(failed) == failed
\* Mutant: the error of a job is not recorded.
LatchNever(failed) == error
\* record_error() keeps the first error for good.
Latch(failed) == error \/ failed

\* A step of a job fails: what it has done so far stays done.
JobFails(pcs) ==
    /\ alive /\ worker.pc \in pcs /\ faults < MaxFaults
    /\ faults' = faults + 1
    /\ error' = Latch(TRUE)
    /\ worker' = Idle

\* flush_one() is tried whether or not an error is there already.
StartFlush ==
    /\ Receive("flush")
    /\ jobs' = Tail(jobs)
    /\ worker' = [Idle EXCEPT !.pc = "build", !.gen = Head(jobs).gen]
    /\ UNCHANGED <<alive, handle, error, store, ssts, sst, manifest, session, client>>

\* The SST is written and takes the memtable's place in the Version.
FlushSwap ==
    /\ alive /\ worker.pc = "build"
    /\ sst' = Append(sst, {worker.gen})
    /\ files' = files \cup {Len(sst) + 1}
    /\ ssts' = ssts \cup {Len(sst) + 1}
    /\ imm' = imm \ {worker.gen}
    /\ worker' = [worker EXCEPT !.pc = "flush_manifest"]
    /\ UNCHANGED <<jobs, alive, handle, error, active, dirty, manifest, wals, pending,
                   session, client>>

\* Compaction stops once anything has failed.
StartCompact ==
    /\ Receive("compact")
    /\ jobs' = Tail(jobs)
    /\ worker' = IF ~error /\ Cardinality(ssts) >= CompactThreshold
                 THEN [Idle EXCEPT !.pc = "merge", !.old = ssts] ELSE Idle
    /\ UNCHANGED <<alive, handle, error, store, ssts, sst, manifest, session, client>>

CompactSwap ==
    /\ alive /\ worker.pc = "merge"
    /\ sst' = Append(sst, UNION {sst[i] : i \in worker.old})
    /\ files' = files \cup {Len(sst) + 1}
    /\ ssts' = (ssts \ worker.old) \cup {Len(sst) + 1}
    /\ worker' = [worker EXCEPT !.pc = "compact_manifest"]
    /\ UNCHANGED <<jobs, alive, handle, error, store, manifest, wals, pending, session,
                   client>>

\* Mutant: the flushed log is removed although the manifest was not written.
RemoveAnyway == {"flush_manifest", "flush_remove", "compact_remove"}
\* Where a job is when it may remove what it has made superfluous.
MayRemove == {"flush_remove", "compact_remove"}

WriteManifest ==
    /\ alive /\ worker.pc \in {"flush_manifest", "compact_manifest"}
    /\ manifest' = ssts
    /\ worker' = [worker EXCEPT !.pc = IF @ = "flush_manifest" THEN "flush_remove"
                                                                ELSE "compact_remove"]
    /\ UNCHANGED <<jobs, alive, handle, error, store, ssts, sst, files, wals, pending,
                   session, client>>

\* A removal that fails is put off and is no error of the job.
Remove ==
    /\ alive /\ worker.pc \in MayRemove
    /\ LET olds == {SstFile(i) : i \in worker.old}
                    \cup (IF worker.gen > 0 THEN {Wal(worker.gen)} ELSE {})
       IN  \E stuck \in SUBSET olds :
            /\ faults + Cardinality(stuck) <= MaxFaults
            /\ faults' = faults + Cardinality(stuck)
            /\ pending' = pending \cup stuck
            /\ wals' = {g \in wals : Wal(g) \notin olds \ stuck}
            /\ files' = {i \in files : SstFile(i) \notin olds \ stuck}
    /\ error' = Latch(FALSE)
    /\ worker' = Idle
    /\ UNCHANGED <<jobs, alive, handle, store, ssts, sst, manifest, made, owned, client>>

JobFailed ==
    /\ JobFails({"build", "flush_manifest", "merge", "compact_manifest"})
    /\ UNCHANGED <<jobs, alive, handle, store, lsm, made, owned, client>>

AnswerSync ==
    /\ Receive("sync")
    /\ jobs' = Tail(jobs)
    /\ pc' = [pc EXCEPT ![Head(jobs).client] = "synced"]
    /\ UNCHANGED <<thread, store, ssts, sst, manifest, session, call, out, result,
                   before, late>>

\* The thread ends, and with it the channel and every job still in it.
Shutdown ==
    /\ Receive("shutdown")
    /\ alive' = FALSE
    /\ jobs' = <<>>
    /\ UNCHANGED <<handle, worker, error, store, ssts, sst, manifest, session, client>>

-----------------------------------------------------------------------------
Start(c) == WriteCall(c) \/ FlushCall(c) \/ CompactCall(c) \/ CloseCall(c) \/ DropCall(c)

Continue(c) ==
    \/ MaybeFlush(c) \/ Freeze(c) \/ MaybeCompact(c)
    \/ Enqueue(c) \/ Send(c) \/ SendFails(c)
    \/ BarrierFails(c) \/ BarrierPasses(c)
    \/ TakeHandle(c) \/ SendShutdown(c) \/ Join(c) \/ LastCheck(c) \/ Return(c)

Worker ==
    \/ StartFlush \/ FlushSwap \/ StartCompact \/ CompactSwap
    \/ WriteManifest \/ Remove \/ JobFailed
    \/ AnswerSync \/ Shutdown

Next == Worker \/ \E c \in Clients : Start(c) \/ Continue(c)

\* Threads that are in the middle of something go on; nobody has to call.
Fairness == WF_vars(Worker) /\ \A c \in Clients : WF_vars(Continue(c))

Spec == Init /\ [][Next]_vars
FairSpec == Spec /\ Fairness

-----------------------------------------------------------------------------
(* Properties.                                                             *)

Kinds == {"flush", "compact", "sync", "shutdown"}
Places == {"idle", "maybe_flush", "freeze", "maybe_compact", "enqueue", "send", "wait",
           "synced", "shutdown", "send_shutdown", "join", "last_check", "done"}
Gens == 1 .. MaxCalls + 1

\* Every variable keeps its type, and the channel never holds more than it can.
TypeOK ==
    /\ Len(jobs) <= QueueCap
    /\ \A i \in DOMAIN jobs :
        jobs[i] \in [kind : Kinds, gen : Gens \cup {0}, client : Clients]
    /\ {alive, handle, error, dirty, owned} \subseteq BOOLEAN
    /\ worker \in [pc : {"idle", "build", "flush_manifest", "flush_remove", "merge",
                         "compact_manifest", "compact_remove"},
                   gen : Gens \cup {0}, old : SUBSET DOMAIN sst]
    /\ active \in Gens /\ imm \subseteq Gens /\ wals \subseteq Gens
    /\ (ssts \cup manifest \cup files) \subseteq DOMAIN sst
    /\ \A i \in DOMAIN sst : sst[i] \subseteq Gens
    /\ pending \subseteq {Wal(g) : g \in Gens} \cup {SstFile(i) : i \in DOMAIN sst}
    /\ made \in 0 .. MaxCalls /\ faults \in 0 .. MaxFaults
    /\ call \in [Clients -> AllCalls \cup {"none"}]
    /\ pc \in [Clients -> Places]
    /\ \A c \in Clients :
        out[c] \in [kind : Kinds \cup {"none"}, gen : Gens \cup {0}, client : {c}]
    /\ result \in [Clients -> {"none", "ok", "err", "dropped"}]
    /\ before \in [Clients -> SUBSET Gens]
    /\ late \in [Clients -> BOOLEAN]

\* A flush(), compact() or close() that returns Ok vouches for every flush sent
\* before its barrier, its own and the others', be they queued behind a failing
\* job or racing a close(): their rows are in SSTs the manifest lists
\* (memtable.rs:773-783, 884-890, 910-921).
OkMeansWritten ==
    \A c \in Clients : result[c] = "ok" => before[c] \subseteq HeldBy(manifest)

\* Whatever fails, and whatever is dropped behind a Shutdown, the rows of every
\* memtable stay on disk: in its log or in an SST the manifest lists
\* (memtable.rs:96-97, 181-185, 257-273).
NothingLost ==
    \A g \in 1 .. active : g \in wals \/ g \in HeldBy(manifest)

\* The first error is kept: every later flush(), compact() and close() reports
\* it, whatever jobs succeed meanwhile (memtable.rs:62-67, 899-908).
ErrorIsReported ==
    \A c \in Clients :
        late[c] /\ pc[c] = "done" /\ call[c] \in {"flush", "compact", "close"}
            => result[c] = "err"

\* Drop lets the worker try all that was queued, even when an error made its
\* barrier fail: nothing stands behind its Shutdown (memtable.rs:946-955).
DropDrains ==
    \A i \in DOMAIN jobs :
        jobs[i].kind = "shutdown" /\ call[jobs[i].client] = "drop" => i = Len(jobs)

\* A frozen memtable is not forgotten: its flush is on its way, or there is an
\* error to be reported, or a close() has taken the worker away
\* (memtable.rs:680-694, 773-778, 892-897).
ForgottenIsReported ==
    \A g \in imm :
        g \in Sent \/ error \/ ~handle \/ \E c \in Clients : out[c].gen = g

\* No call waits for ever: not for room in the channel, not for a Sync job that
\* was dropped, not for the worker to end or for another close() to see it end.
CallsEnd == \A c \in Clients : pc[c] # "idle" ~> pc[c] = "idle"

=============================================================================
