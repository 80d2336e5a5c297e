-------------------------- MODULE RegionWork_proofs --------------------------
(***************************************************************************)
(* Proofs about what the background thread of Region is asked to do and    *)
(* does to the files, for any number of clients and keys and any setting   *)
(* of the thresholds.                                                      *)
(***************************************************************************)
EXTENDS Region_proofs

-----------------------------------------------------------------------------
(* What one client's step leaves to the others and to the worker.          *)

\* Client c freezes nothing and asks for no flush.
Aside(c) ==
    /\ UNCHANGED <<version, disk, worker>>
    /\ \A d \in Clients \ {c} : pc'[d] = pc[d] /\ view'[d] = view[d]
    /\ pc[c] \notin {"enqueue_flush", "wait"}
    /\ pc'[c] \in {"wait", "synced"} => EnqueueSync(c)
    /\ queue' = queue \/ \E j \in JobType : queue' = Append(queue, j) /\ j.client = c

\* Every step of a client but two is such a step.
LEMMA AsideSteps ==
    ASSUME StorageInv, NEW c \in Clients, Start(c) \/ Continue(c)
    PROVE  Aside(c) \/ FreezeSwap(c) \/ EnqueueFlush(c)
<1> USE DEF Aside, store, back, disk, getter, scan, txn, Go
<1>1. pc \in [Clients -> Locations] /\ view \in [Clients -> Version]
  BY DEF StorageInv, TypeOK, CallType
<1>2. CASE TakeTicket(c) \/ TakeTickets(c)
  BY <1>1, <1>2 DEF TakeTicket, TakeTickets
<1>3. CASE EnterWriteGate(c)
  BY <1>1, <1>3 DEF EnterWriteGate
<1>4. CASE Insert(c)
  BY <1>1, <1>4 DEF Insert
<1>5. CASE BeginSnapshot(c) \/ BeginFails(c) \/ BeginIndexes(c)
  BY <1>1, <1>5 DEF BeginSnapshot, BeginFails, BeginIndexes
<1>6. CASE TxnWrite(c) \/ CloseIdle(c) \/ CommitLock(c)
  BY <1>1, <1>6 DEF TxnWrite, CloseIdle, CommitLock
<1>7. CASE CommitConflicts(c) \/ CommitFails(c) \/ CommitNumbers(c)
  BY <1>1, <1>7 DEF CommitConflicts, CommitFails, CommitNumbers, CommitLeaves
<1>8. CASE GetStart(c) \/ GetActive(c) \/ GetFails(c)
  BY <1>1, <1>8 DEF GetStart, GetActive, GetFails
<1>9. CASE GetImm(c) \/ GetSst(c)
  BY <1>1, <1>9 DEF GetImm, GetSst
<1>10. CASE ScanStart(c) \/ ScanShard(c) \/ ScanRest(c) \/ ScanFails(c) \/ Return(c)
  BY <1>1, <1>10 DEF ScanStart, ScanShard, ScanRest, ScanFails, Return
<1>11. CASE MaybeFlush(c) \/ FlushCall(c) \/ CompactCall(c) \/ MaybeCompact(c)
  BY <1>1, <1>11 DEF MaybeFlush, FlushCall, CompactCall, MaybeCompact
<1>12. CASE FreezeNothing(c) \/ FreezeCopy(c) \/ BarrierReturns(c)
  BY <1>1, <1>12 DEF FreezeNothing, FreezeCopy, BarrierReturns, AfterFreeze
<1>13. CASE EnqueueCompact(c)
  BY <1>1, <1>13 DEF EnqueueCompact, Send, Job, JobType
<1>14. CASE EnqueueSync(c)
  <2>1. /\ UNCHANGED <<version, disk, worker, view>> /\ pc[c] = "enqueue_sync"
        /\ pc' = [pc EXCEPT ![c] = "wait"]
        /\ \E j \in JobType : queue' = Append(queue, j) /\ j.client = c
    BY <1>14 DEF EnqueueSync, Send, Job, JobType
  <2> QED BY <1>1, <1>14, <2>1
<1> QED BY <1>2, <1>3, <1>4, <1>5, <1>6, <1>7, <1>8, <1>9, <1>10, <1>11, <1>12, <1>13, <1>14
       DEF Start, Continue

-----------------------------------------------------------------------------
(* Files.                                                                  *)

\* Flushing names a file that is there; compacting unlinks files that the
\* Version no longer names.
LEMMA FilesStep ==
    ASSUME StorageInv, FilesKept, [Next]_vars
    PROVE  FilesKept'
<1> USE DEF FilesKept, FilesLive, store, back, disk
<1>1. /\ sst \in Seq(SUBSET Row) /\ files \subseteq DOMAIN sst
      /\ version.ssts \subseteq DOMAIN sst /\ worker.targets \subseteq DOMAIN sst
  BY DEF StorageInv, TypeOK, StoreType, Shape, WorkerKnows
<1>2. DOMAIN sst = 1 .. Len(sst) /\ Len(sst) \in Nat
  <2> HIDE DEF Row
  <2> QED BY <1>1, LenProperties
<1>3. CASE UNCHANGED vars
  BY <1>3 DEF vars
<1>4. CASE FlushBuild
  <2>1. /\ worker.pc = "idle" /\ worker'.pc = "flush"
        /\ version' = version /\ files' = files \cup {Len(sst) + 1}
        /\ \E R : sst' = Append(sst, R) /\ R = NewestRows(frozen[Head(queue).gen])
    BY <1>4 DEF FlushBuild, Receive, NextSst, Idle
  <2>2. Len(sst') = Len(sst) + 1
    BY <1>1, <2>1
  <2> QED BY <2>1, <2>2
<1>5. CASE FlushSwap
  <2>1. /\ worker.pc = "flush" /\ worker'.pc = "idle" /\ UNCHANGED <<sst, files>>
        /\ version' = [version EXCEPT !.imm = @ \ {worker.gen}, !.ssts = @ \cup {Len(sst)}]
    BY <1>5 DEF FlushSwap, WithFlushed, Idle
  <2>2. version \in Version
    BY DEF StorageInv, TypeOK, StoreType
  <2>3. version'.ssts = version.ssts \cup {Len(sst)}
    BY <2>1, <2>2 DEF Version
  <2> QED BY <2>1, <2>3
<1>6. CASE CompactPick
  <2>1. UNCHANGED <<version, sst, files>> /\ worker.pc = "idle"
        /\ (UNCHANGED worker \/ worker'.pc = "compact")
    BY <1>6 DEF CompactPick, Receive, Idle
  <2> QED BY <2>1
<1>7. CASE CompactSwap
  <2>1. /\ worker.pc = "compact" /\ worker' = [worker EXCEPT !.pc = "unlink"]
        /\ files' = files \cup {Len(sst) + 1}
        /\ version' = [version EXCEPT !.ssts = (@ \ worker.targets) \cup {Len(sst) + 1}]
    BY <1>7 DEF CompactSwap, WithMerged, NextSst
  <2>2. /\ version \in Version
        /\ worker \in [pc : {"idle", "flush", "compact", "unlink"}, gen : Nat,
                       targets : SUBSET Nat]
    BY DEF StorageInv, TypeOK, StoreType
  <2>3. /\ version'.ssts = (version.ssts \ worker.targets) \cup {Len(sst) + 1}
        /\ worker'.pc = "unlink" /\ worker'.targets = worker.targets
    BY <2>1, <2>2 DEF Version
  <2>4. Len(sst) + 1 \notin worker.targets
    BY <1>1, <1>2
  <2> QED BY <2>1, <2>3, <2>4
<1>8. CASE CompactUnlink
  BY <1>8 DEF CompactUnlink, Idle
<1>9. CASE AnswerSync
  BY <1>9 DEF AnswerSync, Receive
<1>10. ASSUME NEW c \in Clients, Start(c) \/ Continue(c) PROVE FilesKept'
  <2>1. CASE Aside(c)
    BY <2>1 DEF Aside
  <2>2. CASE EnqueueFlush(c)
    BY <2>2 DEF EnqueueFlush
  <2>3. CASE FreezeSwap(c)
    <3>1. UNCHANGED <<sst, files, worker>> /\ version' = Frozen(version, c)
      BY <2>3 DEF FreezeSwap, WithFrozen
    <3>2. version'.ssts = version.ssts
      BY <3>1 DEF Frozen, StorageInv, TypeOK, StoreType, Version
    <3> QED BY <3>1, <3>2
  <2> QED BY <1>10, <2>1, <2>2, <2>3, AsideSteps
<1> QED BY <1>3, <1>4, <1>5, <1>6, <1>7, <1>8, <1>9, <1>10 DEF Next, Worker

-----------------------------------------------------------------------------
(* Flush jobs.                                                             *)

\* No step drops the flush a frozen memtable waits for: it moves from the
\* client that froze it to the queue, to the worker, to the Version.
LEMMA PendingStep ==
    ASSUME StorageInv, FlushPending, [Next]_vars
    PROVE  FlushPending'
<1> USE DEF FlushPending, store, back, disk
<1>1. queue \in Seq(JobType) /\ version \in Version
  BY DEF StorageInv, TypeOK, StoreType
<1>2. DOMAIN queue = 1 .. Len(queue) /\ Len(queue) \in Nat
  BY <1>1, LenProperties
<1>3. CASE UNCHANGED vars
  BY <1>3 DEF vars
<1>4. ASSUME NEW kind, Receive(kind), kind # "flush", UNCHANGED <<version, view>>,
             \/ worker.pc # "flush"
             \/ UNCHANGED worker,
             \A d \in Clients : pc[d] = "enqueue_flush" => pc'[d] = "enqueue_flush"
      PROVE  FlushPending'
  <2>1. queue' = Tail(queue) /\ queue # <<>> /\ Head(queue).kind # "flush"
        /\ worker.pc = "idle"
    BY <1>4 DEF Receive
  <2>2. /\ Head(queue) = queue[1] /\ Len(queue) \in Nat \ {0}
        /\ DOMAIN Tail(queue) = 1 .. Len(queue) - 1
        /\ \A i \in DOMAIN Tail(queue) : Tail(queue)[i] = queue[i + 1]
    BY <1>1, <2>1, TailFacts
  <2>3. \A i \in DOMAIN queue : queue[i].kind = "flush" =>
            i - 1 \in DOMAIN queue' /\ queue'[i - 1] = queue[i]
    BY <1>2, <2>1, <2>2
  <2> QED BY <1>4, <2>1, <2>3
<1>5. CASE FlushBuild
  <2>1. /\ queue' = Tail(queue) /\ queue # <<>> /\ worker.pc = "idle"
        /\ worker'.pc = "flush" /\ worker'.gen = Head(queue).gen
        /\ UNCHANGED <<version, view, pc>>
    BY <1>5 DEF FlushBuild, Receive, Idle
  <2>2. /\ Head(queue) = queue[1] /\ Len(queue) \in Nat \ {0}
        /\ DOMAIN Tail(queue) = 1 .. Len(queue) - 1
        /\ \A i \in DOMAIN Tail(queue) : Tail(queue)[i] = queue[i + 1]
    BY <1>1, <2>1, TailFacts
  <2>3. \A i \in DOMAIN queue :
            \/ queue[i].gen = worker'.gen
            \/ i - 1 \in DOMAIN queue' /\ queue'[i - 1] = queue[i]
    BY <1>2, <2>1, <2>2
  <2> QED BY <2>1, <2>3
<1>6. CASE FlushSwap
  <2>1. /\ worker.pc = "flush" /\ UNCHANGED <<queue, pc, view>>
        /\ version' = [version EXCEPT !.imm = @ \ {worker.gen}, !.ssts = @ \cup {Len(sst)}]
    BY <1>6 DEF FlushSwap, WithFlushed
  <2>2. version'.imm = version.imm \ {worker.gen}
    BY <1>1, <2>1 DEF Version
  <2> QED BY <2>1, <2>2
<1>7. CASE CompactPick
  <2>1. Receive("compact") /\ UNCHANGED <<version, view, pc>>
    BY <1>7 DEF CompactPick
  <2>2. worker.pc # "flush"
    BY <2>1 DEF Receive
  <2> QED BY <1>4, <2>1, <2>2
<1>8. CASE CompactSwap
  <2>1. /\ worker.pc = "compact" /\ UNCHANGED <<queue, pc, view>>
        /\ version' = [version EXCEPT !.ssts = (@ \ worker.targets) \cup {Len(sst) + 1}]
    BY <1>8 DEF CompactSwap, WithMerged, NextSst
  <2>2. version'.imm = version.imm
    BY <1>1, <2>1 DEF Version
  <2> QED BY <2>1, <2>2
<1>9. CASE CompactUnlink
  BY <1>9 DEF CompactUnlink
<1>10. CASE AnswerSync
  <2>1. Receive("sync") /\ UNCHANGED <<version, view, worker>>
        /\ pc' = [pc EXCEPT ![Head(queue).client] = "synced"]
    BY <1>10 DEF AnswerSync, Go
  <2>2. queue # <<>> /\ Head(queue) = queue[1] /\ 1 \in DOMAIN queue
        /\ Head(queue).kind = "sync"
    BY <2>1, ReceiveStep
  <2>3. pc[Head(queue).client] = "wait"
    BY <2>2 DEF StorageInv, BarriersWait
  <2>4. \A d \in Clients : pc[d] = "enqueue_flush" => pc'[d] = "enqueue_flush"
    BY <2>1, <2>3 DEF StorageInv, TypeOK, CallType
  <2> QED BY <1>4, <2>1, <2>4
<1>11. ASSUME NEW c \in Clients, Start(c) \/ Continue(c) PROVE FlushPending'
  <2>1. CASE Aside(c)
    <3>1. \A i \in DOMAIN queue : i \in DOMAIN queue' /\ queue'[i] = queue[i]
      <4>1. CASE queue' = queue
        BY <4>1
      <4>2. ASSUME NEW j \in JobType, queue' = Append(queue, j) PROVE <3>1
        BY <1>1, <4>2, AppendFacts
      <4> QED BY <2>1, <4>1, <4>2 DEF Aside
    <3> QED BY <2>1, <3>1 DEF Aside
  <2>2. CASE EnqueueFlush(c)
    <3> DEFINE j == Job("flush", view[c].active, c)
    <3>1. /\ queue' = Append(queue, j) /\ UNCHANGED <<version, worker, view>>
          /\ \A d \in Clients \ {c} : pc'[d] = pc[d]
      BY <2>2 DEF EnqueueFlush, Send, Go, StorageInv, TypeOK, CallType
    <3>2. j \in JobType /\ j.kind = "flush" /\ j.gen = view[c].active
      BY DEF Job, JobType, StorageInv, TypeOK, CallType, Version
    <3> HIDE DEF j
    <3>3. /\ Len(queue) + 1 \in DOMAIN queue' /\ queue'[Len(queue) + 1] = j
          /\ \A i \in DOMAIN queue : i \in DOMAIN queue' /\ queue'[i] = queue[i]
      BY <1>1, <1>2, <3>1, <3>2, AppendFacts
    <3> QED BY <3>1, <3>2, <3>3
  <2>3. CASE FreezeSwap(c)
    <3>1. /\ UNCHANGED <<queue, worker, view>> /\ version' = Frozen(version, c)
          /\ pc[c] = "swap" /\ pc'[c] = "enqueue_flush"
          /\ \A d \in Clients \ {c} : pc'[d] = pc[d]
      BY <2>3 DEF FreezeSwap, WithFrozen, Go, StorageInv, TypeOK, CallType
    <3>2. version'.imm = version.imm \cup {view[c].active}
      BY <1>1, <3>1 DEF Frozen, Version
    <3> QED BY <3>1, <3>2
  <2> QED BY <1>11, <2>1, <2>2, <2>3, AsideSteps
<1> QED BY <1>3, <1>5, <1>6, <1>7, <1>8, <1>9, <1>10, <1>11 DEF Next, Worker

-----------------------------------------------------------------------------
(* Who froze what.                                                         *)

\* What a client's step does to its own place and Version.
Remembers(c) ==
    /\ \A d \in Clients \ {c} : pc'[d] = pc[d] /\ view'[d] = view[d]
    /\ pc'[c] \in {"idle", "flush_check", "freeze", "enqueue_compact"} => view'[c].active = 0
    /\ \/ FreezeCopy(c)
       \/ /\ frozen' = frozen
          /\ pc'[c] \in Freezers =>
                \/ view'[c].active = 0
                \/ pc[c] \in Freezers /\ view'[c] = view[c]

LEMMA RememberSteps ==
    ASSUME StorageInv, ViewsCleared, NEW c \in Clients, Start(c) \/ Continue(c)
    PROVE  Remembers(c)
<1> USE DEF Remembers, Freezers, store, back, disk, getter, scan, txn, Go
<1>1. pc \in [Clients -> Locations] /\ view \in [Clients -> Version]
  BY DEF StorageInv, TypeOK, CallType
<1>2. pc[c] \in {"idle", "flush_check", "freeze", "enqueue_compact"} => view[c].active = 0
  BY DEF ViewsCleared
<1>3. CASE TakeTicket(c) \/ TakeTickets(c) \/ EnterWriteGate(c)
  BY <1>1, <1>2, <1>3 DEF TakeTicket, TakeTickets, EnterWriteGate
<1>4. CASE Insert(c)
  BY <1>1, <1>2, <1>4 DEF Insert, Blank
<1>5. CASE BeginSnapshot(c) \/ BeginFails(c) \/ BeginIndexes(c)
  BY <1>1, <1>2, <1>5 DEF BeginSnapshot, BeginFails, BeginIndexes, Blank
<1>6. CASE TxnWrite(c) \/ CloseIdle(c) \/ CommitLock(c)
  BY <1>1, <1>2, <1>6 DEF TxnWrite, CloseIdle, CommitLock
<1>7. CASE CommitConflicts(c) \/ CommitFails(c) \/ CommitNumbers(c)
  BY <1>1, <1>2, <1>7 DEF CommitConflicts, CommitFails, CommitNumbers, CommitLeaves, Blank
<1>8. CASE GetStart(c) \/ GetActive(c) \/ GetFails(c)
  BY <1>1, <1>2, <1>8 DEF GetStart, GetActive, GetFails
<1>9. CASE GetImm(c) \/ GetSst(c)
  BY <1>1, <1>2, <1>9 DEF GetImm, GetSst
<1>10. CASE ScanStart(c) \/ ScanShard(c) \/ ScanRest(c) \/ ScanFails(c) \/ Return(c)
  BY <1>1, <1>2, <1>10 DEF ScanStart, ScanShard, ScanRest, ScanFails, Return, Blank
<1>11. CASE MaybeFlush(c) \/ FlushCall(c) \/ CompactCall(c) \/ MaybeCompact(c)
  BY <1>1, <1>2, <1>11 DEF MaybeFlush, FlushCall, CompactCall, MaybeCompact, Blank
<1>12. CASE FreezeNothing(c) \/ BarrierReturns(c)
  BY <1>1, <1>2, <1>12 DEF FreezeNothing, BarrierReturns, AfterFreeze, Blank
<1>13. CASE FreezeCopy(c)
  <2>1. pc' = [pc EXCEPT ![c] = "swap"] /\ view' = [view EXCEPT ![c] = version]
    BY <1>13 DEF FreezeCopy
  <2> QED BY <1>1, <1>13, <2>1
<1>14. CASE FreezeSwap(c) \/ EnqueueFlush(c)
  BY <1>1, <1>2, <1>14 DEF FreezeSwap, EnqueueFlush, AfterFreeze
<1>15. CASE EnqueueCompact(c) \/ EnqueueSync(c)
  BY <1>1, <1>2, <1>15 DEF EnqueueCompact, EnqueueSync
<1> QED BY <1>3, <1>4, <1>5, <1>6, <1>7, <1>8, <1>9, <1>10, <1>11, <1>12, <1>13, <1>14, <1>15
       DEF Start, Continue

\* The background thread moves no client but the one whose Sync job it answers.
LEMMA WorkerLeavesClients ==
    ASSUME StorageInv, Worker
    PROVE  /\ UNCHANGED <<frozen, view>>
           /\ \A d \in Clients : pc'[d] = pc[d] \/ (pc[d] = "wait" /\ pc'[d] = "synced")
<1> USE DEF store, back, disk, getter, scan, txn
<1>1. CASE AnswerSync
  <2>1. Receive("sync") /\ UNCHANGED <<frozen, view>>
        /\ pc' = [pc EXCEPT ![Head(queue).client] = "synced"]
    BY <1>1 DEF AnswerSync, Go
  <2>2. queue # <<>> /\ Head(queue) = queue[1] /\ 1 \in DOMAIN queue
        /\ Head(queue).kind = "sync"
    BY <2>1, ReceiveStep
  <2>3. pc[Head(queue).client] = "wait"
    BY <2>2 DEF StorageInv, BarriersWait
  <2> QED BY <2>1, <2>3 DEF StorageInv, TypeOK, CallType
<1>2. CASE ~ AnswerSync
  BY <1>2 DEF Worker, FlushBuild, FlushSwap, CompactPick, CompactSwap, CompactUnlink
<1> QED BY <1>1, <1>2

\* A memtable just frozen is one that nobody remembers yet.
LEMMA FreezersStep ==
    ASSUME StorageInv, FlushInv, [Next]_vars
    PROVE  ViewsCleared' /\ FreezersApart'
<1> USE DEF FlushInv
<1>1. CASE UNCHANGED vars
  BY <1>1 DEF ViewsCleared, FreezersApart, vars, store
<1>2. CASE Worker
  BY <1>2, WorkerLeavesClients DEF ViewsCleared, FreezersApart, Freezers
<1>3. ASSUME NEW c \in Clients, Start(c) \/ Continue(c) PROVE ViewsCleared' /\ FreezersApart'
  <2>1. Remembers(c)
    BY <1>3, RememberSteps
  <2>2. ViewsCleared'
    BY <2>1 DEF Remembers, ViewsCleared
  <2>3. frozen \in Seq(SUBSET Row) /\ Len(frozen) \in Nat
    BY DEF StorageInv, TypeOK, StoreType
  <2>4. CASE ~ FreezeCopy(c)
    <3>1. /\ frozen' = frozen
          /\ \A d \in Clients \ {c} : pc'[d] = pc[d] /\ view'[d] = view[d]
          /\ pc'[c] \in Freezers =>
                view'[c].active = 0 \/ (pc[c] \in Freezers /\ view'[c] = view[c])
      BY <2>1, <2>4 DEF Remembers
    <3>2. ASSUME NEW d \in Clients, pc'[d] \in Freezers
          PROVE  \/ view'[d].active = 0
                 \/ pc[d] \in Freezers /\ view'[d].active = view[d].active
      BY <3>1, <3>2
    <3>3. ASSUME NEW d \in Clients, pc'[d] \in Freezers
          PROVE  /\ view'[d].active \in 0 .. Len(frozen')
                 /\ \A e \in Clients \ {d} :
                      pc'[e] \in Freezers /\ view'[e].active = view'[d].active
                          => view'[d].active = 0
      <4>1. view'[d].active \in 0 .. Len(frozen')
        BY <2>3, <3>1, <3>2, <3>3 DEF FreezersApart
      <4>2. ASSUME NEW e \in Clients \ {d}, pc'[e] \in Freezers,
                   view'[e].active = view'[d].active
            PROVE  view'[d].active = 0
        BY <3>2, <3>3, <4>2 DEF FreezersApart
      <4> QED BY <4>1, <4>2
    <3> QED BY <2>2, <3>3 DEF FreezersApart, Freezers
  <2>5. CASE FreezeCopy(c)
    <3>1. /\ frozen' = Append(frozen, mem[version.active])
          /\ view'[c] = version /\ WriteGateFree
      BY <2>5 DEF FreezeCopy, StorageInv, TypeOK, CallType
    <3>2. version.active = Len(frozen) + 1
      BY <3>1 DEF WriteGateFree, StorageInv, Shape
    <3>3. Len(frozen') = Len(frozen) + 1
      BY <2>3, <3>1
    <3>4. \A d \in Clients \ {c} : pc'[d] = pc[d] /\ view'[d] = view[d]
      BY <2>1 DEF Remembers
    <3>5. \A d \in Clients \ {c} : pc[d] \in Freezers => view[d].active \in 0 .. Len(frozen)
      BY DEF FreezersApart
    <3>6. ASSUME NEW d \in Clients, pc'[d] \in Freezers
          PROVE  /\ view'[d].active \in 0 .. Len(frozen')
                 /\ \A e \in Clients \ {d} :
                      pc'[e] \in Freezers /\ view'[e].active = view'[d].active
                          => view'[d].active = 0
      <4>1. CASE d = c
        BY <2>3, <3>1, <3>2, <3>3, <3>4, <3>5, <4>1
      <4>2. CASE d # c
        <5>1. view'[c].active = Len(frozen) + 1 /\ view[d].active <= Len(frozen)
          BY <2>3, <3>1, <3>2, <3>4, <3>5, <3>6, <4>2
        <5> QED BY <2>3, <3>3, <3>4, <3>6, <4>2, <5>1 DEF FreezersApart
      <4> QED BY <4>1, <4>2
    <3> QED BY <2>2, <3>6 DEF FreezersApart, Freezers
  <2> QED BY <2>2, <2>4, <2>5
<1> QED BY <1>1, <1>2, <1>3 DEF Next

-----------------------------------------------------------------------------
(* A flush() is not woken before its memtable is in an SST.                *)

\* A job taken from the head of the queue leaves the order of the others.
LEMMA OrderAfterReceive ==
    ASSUME StorageInv, NEW kind, Receive(kind), NEW c, NEW j \in DOMAIN queue, j # 1,
           \A i \in DOMAIN queue : queue[i].kind = "sync" /\ queue[i].client = c => j < i
    PROVE  /\ j - 1 \in DOMAIN queue' /\ queue'[j - 1] = queue[j]
           /\ \A i \in DOMAIN queue' :
                queue'[i].kind = "sync" /\ queue'[i].client = c => j - 1 < i
<1>1. queue \in Seq(JobType) /\ queue' = Tail(queue) /\ queue # <<>>
  BY DEF Receive, StorageInv, TypeOK, StoreType
<1>2. /\ Len(queue) \in Nat \ {0} /\ DOMAIN queue = 1 .. Len(queue)
      /\ DOMAIN Tail(queue) = 1 .. Len(queue) - 1
      /\ \A i \in DOMAIN Tail(queue) : Tail(queue)[i] = queue[i + 1]
  BY <1>1, TailFacts
<1>3. j - 1 \in DOMAIN queue' /\ queue'[j - 1] = queue[j]
  BY <1>1, <1>2
<1>4. ASSUME NEW i \in DOMAIN queue', queue'[i].kind = "sync", queue'[i].client = c
      PROVE  j - 1 < i
  <2>1. i + 1 \in DOMAIN queue /\ queue'[i] = queue[i + 1]
    BY <1>1, <1>2
  <2>2. j < i + 1
    BY <1>4, <2>1
  <2> QED BY <1>1, <1>2, <2>2
<1> QED BY <1>3, <1>4

\* The step of a client keeps the order of what lies in the queue.
LEMMA OrderAfterAppend ==
    ASSUME StorageInv, NEW c \in Clients, NEW job \in JobType,
           queue' = Append(queue, job) \/ queue' = queue
    PROVE  /\ Len(queue) \in Nat /\ DOMAIN queue = 1 .. Len(queue)
           /\ \A i \in DOMAIN queue : i \in DOMAIN queue' /\ queue'[i] = queue[i]
           /\ \A i \in DOMAIN queue' :
                \/ i \in DOMAIN queue
                \/ i = Len(queue) + 1 /\ queue'[i] = job
<1>1. queue \in Seq(JobType)
  BY DEF StorageInv, TypeOK, StoreType
<1>2. CASE queue' = queue
  BY <1>1, <1>2, LenProperties
<1>3. CASE queue' = Append(queue, job)
  BY <1>1, <1>3, AppendFacts
<1> QED BY <1>2, <1>3

\* The background thread's steps.
LEMMA WorkerOrder ==
    ASSUME StorageInv, FlushInv, Worker
    PROVE  SyncBehindFlush' /\ FlushReturnsFlushed'
<1> USE DEF FlushInv, store, back, disk, getter, scan, txn
<1>1. version \in Version
  BY DEF StorageInv, TypeOK, StoreType
<1>2. /\ UNCHANGED view
      /\ \A d \in Clients : pc'[d] = pc[d] \/ (pc[d] = "wait" /\ pc'[d] = "synced")
  BY WorkerLeavesClients
<1>3. ASSUME NEW kind, Receive(kind), kind # "flush", UNCHANGED version
      PROVE  SyncBehindFlush'
  <2>1. queue # <<>> /\ Head(queue) = queue[1] /\ worker.pc = "idle"
        /\ Head(queue).kind # "flush"
    BY <1>3, ReceiveStep
  <2>2. ASSUME NEW c \in Clients, pc'[c] = "wait", view'[c].active \in version'.imm
        PROVE  \E j \in DOMAIN queue' :
                  /\ queue'[j].kind = "flush" /\ queue'[j].gen = view'[c].active
                  /\ \A i \in DOMAIN queue' :
                      queue'[i].kind = "sync" /\ queue'[i].client = c => j < i
    <3>1. PICK j \in DOMAIN queue :
            /\ queue[j].kind = "flush" /\ queue[j].gen = view[c].active
            /\ \A i \in DOMAIN queue :
                queue[i].kind = "sync" /\ queue[i].client = c => j < i
      BY <1>2, <1>3, <2>1, <2>2 DEF SyncBehindFlush
    <3>2. j # 1
      BY <2>1, <3>1
    <3> QED BY <1>2, <1>3, <3>1, <3>2, OrderAfterReceive
  <2> QED BY <2>2 DEF SyncBehindFlush
<1>4. CASE FlushBuild
  <2>1. /\ Receive("flush") /\ UNCHANGED <<version, pc>>
        /\ worker'.pc = "flush" /\ worker'.gen = Head(queue).gen
    BY <1>4 DEF FlushBuild, Idle
  <2>2. Head(queue) = queue[1] /\ worker.pc = "idle"
    BY <2>1, ReceiveStep
  <2>3. ASSUME NEW c \in Clients, pc'[c] = "wait", view'[c].active \in version'.imm,
               worker'.gen # view'[c].active
        PROVE  \E j \in DOMAIN queue' :
                  /\ queue'[j].kind = "flush" /\ queue'[j].gen = view'[c].active
                  /\ \A i \in DOMAIN queue' :
                      queue'[i].kind = "sync" /\ queue'[i].client = c => j < i
    <3>1. PICK j \in DOMAIN queue :
            /\ queue[j].kind = "flush" /\ queue[j].gen = view[c].active
            /\ \A i \in DOMAIN queue :
                queue[i].kind = "sync" /\ queue[i].client = c => j < i
      BY <1>2, <2>1, <2>2, <2>3 DEF SyncBehindFlush
    <3>2. j # 1
      BY <1>2, <2>1, <2>2, <2>3, <3>1
    <3>3. Receive("flush") /\ view' = view
      BY <1>2, <2>1
    <3>4. /\ j - 1 \in DOMAIN queue' /\ queue'[j - 1] = queue[j]
          /\ \A i \in DOMAIN queue' :
                queue'[i].kind = "sync" /\ queue'[i].client = c => j - 1 < i
      BY <3>1, <3>2, <3>3, OrderAfterReceive
    <3> QED BY <3>1, <3>3, <3>4
  <2>4. SyncBehindFlush'
    BY <2>1, <2>3 DEF SyncBehindFlush
  <2>5. FlushReturnsFlushed'
    BY <1>2, <2>1 DEF FlushReturnsFlushed
  <2> QED BY <2>4, <2>5
<1>5. CASE FlushSwap
  <2>1. /\ worker.pc = "flush" /\ UNCHANGED <<queue, pc>>
        /\ version' = [version EXCEPT !.imm = @ \ {worker.gen}, !.ssts = @ \cup {Len(sst)}]
    BY <1>5 DEF FlushSwap, WithFlushed
  <2>2. version'.imm = version.imm \ {worker.gen}
    BY <1>1, <2>1 DEF Version
  <2> QED BY <1>2, <2>1, <2>2 DEF SyncBehindFlush, FlushReturnsFlushed
<1>6. CASE CompactPick
  <2>1. Receive("compact") /\ UNCHANGED <<version, pc>>
    BY <1>6 DEF CompactPick
  <2> QED BY <1>2, <1>3, <2>1 DEF FlushReturnsFlushed
<1>7. CASE CompactSwap
  <2>1. /\ worker.pc = "compact" /\ UNCHANGED <<queue, pc>>
        /\ version' = [version EXCEPT !.ssts = (@ \ worker.targets) \cup {Len(sst) + 1}]
    BY <1>7 DEF CompactSwap, WithMerged, NextSst
  <2>2. version'.imm = version.imm
    BY <1>1, <2>1 DEF Version
  <2> QED BY <1>2, <2>1, <2>2 DEF SyncBehindFlush, FlushReturnsFlushed
<1>8. CASE CompactUnlink
  <2>1. worker.pc = "unlink" /\ UNCHANGED <<queue, pc, version>>
    BY <1>8 DEF CompactUnlink
  <2> QED BY <1>2, <2>1 DEF SyncBehindFlush, FlushReturnsFlushed
<1>9. CASE AnswerSync
  <2> DEFINE c == Head(queue).client
  <2>1. Receive("sync") /\ UNCHANGED version /\ pc' = [pc EXCEPT ![c] = "synced"]
    BY <1>9 DEF AnswerSync, Go
  <2>2. /\ queue # <<>> /\ Head(queue) = queue[1] /\ 1 \in DOMAIN queue
        /\ Head(queue).kind = "sync" /\ worker.pc = "idle" /\ queue[1].client = c
    BY <2>1, ReceiveStep
  <2>3. c \in Clients /\ pc[c] = "wait"
    BY <2>2, JobClients DEF StorageInv, BarriersWait
  <2>4. DOMAIN queue \subseteq Nat \ {0}
    BY LenProperties DEF StorageInv, TypeOK, StoreType
  <2> HIDE DEF c
  <2>5. view[c].active \notin version.imm
    BY <2>2, <2>3, <2>4 DEF SyncBehindFlush
  <2>6. FlushReturnsFlushed'
    BY <1>2, <2>1, <2>5 DEF FlushReturnsFlushed, StorageInv, TypeOK, CallType
  <2> QED BY <1>3, <2>1, <2>6
<1> QED BY <1>4, <1>5, <1>6, <1>7, <1>8, <1>9 DEF Worker

\* The clients' steps: who freezes adds a memtable nobody else waits for, and
\* who sends a Sync job has sent the Flush job before.
LEMMA ClientOrder ==
    ASSUME StorageInv, FlushInv, NEW c \in Clients, Start(c) \/ Continue(c)
    PROVE  SyncBehindFlush' /\ FlushReturnsFlushed'
<1> USE DEF FlushInv, store, back, disk
<1>1. pc \in [Clients -> Locations] /\ version \in Version /\ queue \in Seq(JobType)
  BY DEF StorageInv, TypeOK, CallType, StoreType
<1>2. CASE FreezeSwap(c)
  <2>1. /\ UNCHANGED <<queue, worker, view>> /\ version' = Frozen(version, c)
        /\ pc[c] = "swap" /\ pc' = [pc EXCEPT ![c] = "enqueue_flush"]
    BY <1>2 DEF FreezeSwap, WithFrozen, Go
  <2>2. version'.imm = version.imm \cup {view[c].active}
    BY <1>1, <2>1 DEF Frozen, Version
  <2>3. view[c].active # 0
    BY <2>1 DEF StorageInv, WriteGateHeld, Shape, OwnsWrite, TypeOK, StoreType
  <2>4. ASSUME NEW d \in Clients, pc'[d] \in {"wait", "synced"}
        PROVE  pc[d] = pc'[d] /\ view[d].active # view[c].active
    BY <1>1, <2>1, <2>3, <2>4 DEF FreezersApart, Freezers
  <2> QED BY <2>1, <2>2, <2>4 DEF SyncBehindFlush, FlushReturnsFlushed
<1>3. CASE ~ FreezeSwap(c) /\ ~ EnqueueSync(c)
  <2>1. /\ UNCHANGED <<version, worker>>
        /\ \A d \in Clients \ {c} : pc'[d] = pc[d] /\ view'[d] = view[d]
        /\ pc'[c] \notin {"wait", "synced"}
        /\ queue' = queue \/ \E j \in JobType : queue' = Append(queue, j) /\ j.client = c
    <3>1. CASE Aside(c)
      BY <1>3, <3>1 DEF Aside
    <3>2. CASE EnqueueFlush(c)
      <4>1. Job("flush", view[c].active, c) \in JobType
        BY DEF Job, JobType, StorageInv, TypeOK, CallType, Version
      <4>2. Job("flush", view[c].active, c).client = c
        BY DEF Job
      <4> QED BY <1>1, <3>2, <4>1, <4>2 DEF EnqueueFlush, Send, Go, AfterFreeze
    <3> QED BY <1>3, <3>1, <3>2, AsideSteps
  <2>2. PICK job \in JobType :
          queue' = queue \/ (queue' = Append(queue, job) /\ job.client = c)
    <3>1. Job("sync", 0, c) \in JobType
      BY DEF Job, JobType
    <3> QED BY <2>1, <3>1
  <2>3. /\ \A i \in DOMAIN queue : i \in DOMAIN queue' /\ queue'[i] = queue[i]
        /\ \A i \in DOMAIN queue' : i \in DOMAIN queue \/ queue'[i].client = c
    BY <2>2, OrderAfterAppend
  <2>4. SyncBehindFlush'
    <3> SUFFICES ASSUME NEW d \in Clients, pc'[d] = "wait",
                        view'[d].active \in version'.imm
                 PROVE  \/ worker'.pc = "flush" /\ worker'.gen = view'[d].active
                        \/ \E j \in DOMAIN queue' :
                            /\ queue'[j].kind = "flush" /\ queue'[j].gen = view'[d].active
                            /\ \A i \in DOMAIN queue' :
                                queue'[i].kind = "sync" /\ queue'[i].client = d => j < i
      BY DEF SyncBehindFlush
    <3>1. d # c /\ pc[d] = "wait" /\ view'[d] = view[d]
      BY <2>1
    <3>2. \/ worker.pc = "flush" /\ worker.gen = view[d].active
          \/ \E j \in DOMAIN queue :
              /\ queue[j].kind = "flush" /\ queue[j].gen = view[d].active
              /\ \A i \in DOMAIN queue :
                  queue[i].kind = "sync" /\ queue[i].client = d => j < i
      BY <2>1, <3>1 DEF SyncBehindFlush
    <3> QED BY <2>1, <2>3, <3>1, <3>2
  <2>5. FlushReturnsFlushed'
    BY <2>1 DEF FlushReturnsFlushed
  <2> QED BY <2>4, <2>5
<1>4. CASE EnqueueSync(c)
  <2> DEFINE job == Job("sync", 0, c)
             g == view[c].active
  <2>1. /\ UNCHANGED <<version, worker, view>> /\ pc[c] = "enqueue_sync"
        /\ pc' = [pc EXCEPT ![c] = "wait"] /\ queue' = Append(queue, job)
    BY <1>4 DEF EnqueueSync, Send, Go
  <2>2. job \in JobType /\ job.kind = "sync" /\ job.client = c
    BY DEF Job, JobType
  <2> HIDE DEF job
  <2>3. /\ Len(queue) \in Nat /\ DOMAIN queue = 1 .. Len(queue)
        /\ \A i \in DOMAIN queue : i \in DOMAIN queue' /\ queue'[i] = queue[i]
        /\ \A i \in DOMAIN queue' :
            \/ i \in DOMAIN queue
            \/ i = Len(queue) + 1 /\ queue'[i] = job
    BY <2>1, <2>2, OrderAfterAppend
  <2>4. \A i \in DOMAIN queue : ~ (queue[i].kind = "sync" /\ queue[i].client = c)
    BY <2>1 DEF StorageInv, BarriersWait
  <2>5. FlushReturnsFlushed'
    BY <1>1, <2>1 DEF FlushReturnsFlushed
  <2>6. ASSUME NEW d \in Clients, pc'[d] = "wait", view'[d].active \in version'.imm
        PROVE  \/ worker'.pc = "flush" /\ worker'.gen = view'[d].active
               \/ \E j \in DOMAIN queue' :
                   /\ queue'[j].kind = "flush" /\ queue'[j].gen = view'[d].active
                   /\ \A i \in DOMAIN queue' :
                       queue'[i].kind = "sync" /\ queue'[i].client = d => j < i
    <3>1. CASE d = c
      <4>1. g # 0 /\ g \in version.imm
        BY <2>1, <2>6, <3>1 DEF StorageInv, Shape, TypeOK, StoreType
      <4>2. ~ \E e \in Clients : pc[e] = "enqueue_flush" /\ view[e].active = g
        BY <2>1, <4>1 DEF FreezersApart, Freezers
      <4>3. \/ \E j \in DOMAIN queue : queue[j].kind = "flush" /\ queue[j].gen = g
            \/ worker.pc = "flush" /\ worker.gen = g
        BY <4>1, <4>2 DEF FlushPending
      <4>4. ASSUME NEW j \in DOMAIN queue, NEW i \in DOMAIN queue',
                   queue'[i].kind = "sync", queue'[i].client = c
            PROVE  j < i
        BY <2>3, <2>4, <4>4
      <4> QED BY <2>1, <2>3, <3>1, <4>3, <4>4
    <3>2. CASE d # c
      <4>1. \/ worker.pc = "flush" /\ worker.gen = view[d].active
            \/ \E j \in DOMAIN queue :
                /\ queue[j].kind = "flush" /\ queue[j].gen = view[d].active
                /\ \A i \in DOMAIN queue :
                    queue[i].kind = "sync" /\ queue[i].client = d => j < i
        BY <1>1, <2>1, <2>6, <3>2 DEF SyncBehindFlush
      <4> QED BY <2>1, <2>2, <2>3, <3>2, <4>1
    <3> QED BY <3>1, <3>2
  <2> QED BY <2>5, <2>6 DEF SyncBehindFlush
<1> QED BY <1>2, <1>3, <1>4

\* FlushInv is inductive, given StorageInv.
LEMMA FlushStep ==
    ASSUME StorageInv, FlushInv, [Next]_vars
    PROVE  FlushInv'
<1>1. ViewsCleared' /\ FreezersApart'
  BY FreezersStep
<1>2. FlushPending'
  BY PendingStep DEF FlushInv
<1>3. SyncBehindFlush' /\ FlushReturnsFlushed'
  <2>1. CASE UNCHANGED vars
    BY <2>1 DEF FlushInv, SyncBehindFlush, FlushReturnsFlushed, vars, store, back
  <2>2. CASE Worker
    BY <2>2, WorkerOrder
  <2>3. CASE \E c \in Clients : Start(c) \/ Continue(c)
    BY <2>3, ClientOrder
  <2> QED BY <2>1, <2>2, <2>3 DEF Next
<1> QED BY <1>1, <1>2, <1>3 DEF FlushInv

-----------------------------------------------------------------------------
(* The theorems.                                                           *)

\* What the worker unlinks has left the Version, and what it is about to put
\* there is on disk (memtable.rs:84-95, 160-185).
THEOREM WorkerKeepsFiles == Spec => []FilesKept
<1>1. Init => FilesKept
  BY DEF Init, FilesKept, FilesLive
<1> QED BY <1>1, FilesStep, StorageCorrect, PTL DEF Spec

\* The current Version never names an SST whose file has been unlinked
\* (memtable.rs:182-185).
THEOREM VersionFilesLive == Spec => []FilesLive
<1>1. FilesKept => FilesLive
  BY DEF FilesKept
<1> QED BY <1>1, WorkerKeepsFiles, PTL

\* No frozen memtable is ever without a flush on its way, whoever froze it and
\* whatever else the queue holds (memtable.rs:680-695, 773-778).
THEOREM NoFlushForgotten == Spec => []FlushPending
<1>1. Init => FlushPending
  BY DEF Init, FlushPending
<1> QED BY <1>1, PendingStep, StorageCorrect, PTL DEF Spec

\* Every client that waits in flush() has its own memtable's flush ahead of its
\* Sync job, in the queue or with the worker, and no two clients froze the same
\* memtable (memtable.rs:680-695, 773-778, 910-921).
THEOREM FlushesInOrder == Spec => []FlushInv
<1>1. Init => FlushInv
  BY DEF Init, FlushInv, ViewsCleared, FreezersApart, Freezers, SyncBehindFlush,
         FlushPending, FlushReturnsFlushed, Blank
<1> QED BY <1>1, FlushStep, StorageCorrect, PTL DEF Spec

\* When flush() returns, the memtable it froze is in an SST, whatever other
\* clients freeze and send meanwhile (memtable.rs:773-778, 910-921).
THEOREM FlushedOnReturn == Spec => []FlushReturnsFlushed
<1>1. FlushInv => FlushReturnsFlushed
  BY DEF FlushInv
<1> QED BY <1>1, FlushesInOrder, PTL
=============================================================================
