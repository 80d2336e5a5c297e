-------------------------- MODULE RegionTxn_proofs --------------------------
(***************************************************************************)
(* Proofs that Region implements SnapshotStore and that its readers miss   *)
(* nothing, for any number of clients and keys and any setting of the      *)
(* thresholds.                                                             *)
(***************************************************************************)
EXTENDS Region_proofs

-----------------------------------------------------------------------------
(* What a step leaves alone.                                               *)

\* A step of c changes nothing that belongs to another client.
Apart(c) ==
    \A d \in Clients \ {c} :
        /\ pc'[d] = pc[d] /\ todo'[d] = todo[d] /\ view'[d] = view[d] /\ seen'[d] = seen[d]
        /\ tx'[d] = tx[d] /\ snap'[d] = snap[d] /\ index'[d] = index[d]
        /\ writes'[d] = writes[d]
        /\ key'[d] = key[d] /\ best'[d] = best[d] /\ unread'[d] = unread[d]
        /\ found'[d] = found[d]

\* Client c takes the commit gate only when the others let it.
CommitMoves(c) ==
    /\ pc'[c] \in OwnsCommit => pc[c] \in OwnsCommit \/ CommitGateFree
    /\ pc'[c] \in SharesCommit => pc[c] \in SharesCommit \/ CommitGateShared

\* Both are so of every step of a client.
LEMMA ClientMoves ==
    ASSUME StorageInv, NEW c \in Clients, Start(c) \/ Continue(c)
    PROVE  Apart(c) /\ CommitMoves(c)
<1> USE DEF Apart, CommitMoves, SharesCommit, OwnsCommit, store, back, disk, getter, scan, txn, Go
<1>1. /\ pc \in [Clients -> Locations] /\ view \in [Clients -> Version]
      /\ DOMAIN todo = Clients /\ DOMAIN key = Clients /\ DOMAIN best = Clients
      /\ DOMAIN unread = Clients /\ DOMAIN found = Clients /\ DOMAIN tx = Clients
      /\ DOMAIN snap = Clients /\ DOMAIN index = Clients /\ DOMAIN writes = Clients
      /\ DOMAIN seen = Clients
  BY DEF StorageInv, TypeOK, CallType, TxnType
<1>2. CASE TakeTicket(c) \/ TakeTickets(c)
  BY <1>1, <1>2 DEF TakeTicket, TakeTickets
<1>3. CASE EnterWriteGate(c)
  BY <1>1, <1>3 DEF EnterWriteGate
<1>4. CASE Insert(c)
  BY <1>1, <1>4 DEF Insert, CloseTxn
<1>5. CASE BeginSnapshot(c) \/ BeginFails(c) \/ BeginIndexes(c)
  BY <1>1, <1>5 DEF BeginSnapshot, BeginFails, BeginIndexes
<1>6. CASE TxnWrite(c) \/ CloseIdle(c) \/ CommitLock(c)
  BY <1>1, <1>6 DEF TxnWrite, CloseIdle, CommitLock, CloseTxn
<1>7. CASE CommitConflicts(c) \/ CommitFails(c) \/ CommitNumbers(c)
  BY <1>1, <1>7 DEF CommitConflicts, CommitFails, CommitNumbers, CommitLeaves, CloseTxn
<1>8. CASE GetStart(c) \/ GetActive(c) \/ GetFails(c)
  BY <1>1, <1>8 DEF GetStart, GetActive, GetFails, Found
<1>9. CASE GetImm(c) \/ GetSst(c)
  BY <1>1, <1>9 DEF GetImm, GetSst, Found
<1>10. CASE ScanStart(c) \/ ScanShard(c) \/ ScanRest(c) \/ ScanFails(c) \/ Return(c)
  BY <1>1, <1>10 DEF ScanStart, ScanShard, ScanRest, ScanFails, Return
<1>11. CASE MaybeFlush(c) \/ FlushCall(c) \/ CompactCall(c) \/ MaybeCompact(c)
  BY <1>1, <1>11 DEF MaybeFlush, FlushCall, CompactCall, MaybeCompact
<1>12. CASE FreezeNothing(c) \/ FreezeCopy(c) \/ FreezeSwap(c) \/ BarrierReturns(c)
  BY <1>1, <1>12 DEF FreezeNothing, FreezeCopy, FreezeSwap, BarrierReturns, AfterFreeze
<1>13. CASE EnqueueFlush(c) \/ EnqueueCompact(c) \/ EnqueueSync(c)
  BY <1>1, <1>13 DEF EnqueueFlush, EnqueueCompact, EnqueueSync, AfterFreeze
<1> QED BY <1>2, <1>3, <1>4, <1>5, <1>6, <1>7, <1>8, <1>9, <1>10, <1>11, <1>12, <1>13
       DEF Start, Continue

\* The worker touches nothing of the clients, except that it wakes one that
\* waits for it.
WorkerApart ==
    /\ UNCHANGED <<seq, mem, frozen, todo, view, getter, txn, latest, seen>>
    /\ \A d \in Clients : pc'[d] = pc[d] \/ (pc[d] = "wait" /\ pc'[d] = "synced")

LEMMA WorkerMoves ==
    ASSUME StorageInv, Worker
    PROVE  WorkerApart
<1> USE DEF WorkerApart, store, back, disk, getter, scan, txn, Go
<1>1. CASE FlushBuild \/ FlushSwap
  BY <1>1 DEF FlushBuild, FlushSwap
<1>2. CASE CompactPick \/ CompactSwap \/ CompactUnlink
  BY <1>2 DEF CompactPick, CompactSwap, CompactUnlink
<1>3. CASE AnswerSync
  <2>1. queue # <<>> /\ Head(queue).kind = "sync" /\ pc' = [pc EXCEPT ![Head(queue).client] = "synced"]
        /\ UNCHANGED <<seq, mem, frozen, todo, view, getter, txn, latest, seen>>
    BY <1>3 DEF AnswerSync, Receive
  <2>2. 1 \in DOMAIN queue /\ Head(queue) = queue[1]
    BY <2>1, TailFacts DEF StorageInv, TypeOK, StoreType
  <2>3. pc[Head(queue).client] = "wait" /\ pc \in [Clients -> Locations]
    BY <2>1, <2>2 DEF StorageInv, BarriersWait, TypeOK, CallType
  <2> QED BY <2>1, <2>3
<1> QED BY <1>1, <1>2, <1>3 DEF Worker

\* The commit gate.
LEMMA CommitGateStep ==
    ASSUME StorageInv, CommitGateHeld, [Next]_vars
    PROVE  CommitGateHeld'
<1> USE DEF CommitGateHeld
<1>1. CASE UNCHANGED vars
  BY <1>1 DEF vars
<1>2. CASE Worker
  BY <1>2, WorkerMoves DEF WorkerApart, OwnsCommit, SharesCommit
<1>3. ASSUME NEW c \in Clients, Start(c) \/ Continue(c) PROVE CommitGateHeld'
  BY <1>3, ClientMoves DEF Apart, CommitMoves, CommitGateFree, CommitGateShared
<1> QED BY <1>1, <1>2, <1>3 DEF Next

\* Memtables, frozen copies and SSTs are added to and never lose a row.
Grows ==
    /\ \A g \in DOMAIN mem : g \in DOMAIN mem' /\ mem[g] \subseteq mem'[g]
    /\ \A g \in DOMAIN frozen : frozen'[g] = frozen[g]
    /\ \A i \in DOMAIN sst : sst'[i] = sst[i]

LEMMA StoreGrows ==
    ASSUME StorageInv, [Next]_vars
    PROVE  Grows
<1> USE DEF Grows, store, back, disk, getter, scan, txn
<1>1. mem \in Seq(SUBSET Row) /\ frozen \in Seq(SUBSET Row) /\ sst \in Seq(SUBSET Row)
  BY DEF StorageInv, TypeOK, StoreType
<1>2. CASE UNCHANGED <<mem, frozen, sst>>
  BY <1>2
<1>3. ASSUME NEW c \in Clients, Insert(c) PROVE Grows
  BY <1>1, <1>3 DEF Insert
<1>4. ASSUME NEW c \in Clients, FreezeCopy(c) PROVE Grows
  <2>1. /\ mem' = Append(mem, {}) /\ frozen' = Append(frozen, mem[version.active])
        /\ UNCHANGED sst
    BY <1>4 DEF FreezeCopy
  <2>2. mem[version.active] \in SUBSET Row
    <3> HIDE DEF Row
    <3> QED BY <1>1, LenProperties DEF StorageInv, Shape
  <2> HIDE DEF Row
  <2>3. \A g \in DOMAIN mem : g \in DOMAIN mem' /\ mem'[g] = mem[g]
    BY <1>1, <2>1, AppendFacts
  <2>4. \A g \in DOMAIN frozen : frozen'[g] = frozen[g]
    BY <1>1, <2>1, <2>2, AppendFacts
  <2> QED BY <2>1, <2>3, <2>4
<1>5. CASE FlushBuild \/ CompactSwap
  <2>1. UNCHANGED <<mem, frozen>> /\ \E R : sst' = Append(sst, R)
    BY <1>5 DEF FlushBuild, CompactSwap
  <2>2. \A i \in DOMAIN sst : sst'[i] = sst[i]
    <3> HIDE DEF Row
    <3> QED BY <1>1, <2>1
  <2> QED BY <2>1, <2>2
<1>6. CASE FlushSwap \/ CompactPick \/ CompactUnlink \/ AnswerSync
  BY <1>6, <1>2 DEF FlushSwap, CompactPick, CompactUnlink, AnswerSync
<1>7. ASSUME NEW c \in Clients, Start(c) \/ Continue(c), ~ Insert(c), ~ FreezeCopy(c)
      PROVE  UNCHANGED <<mem, frozen, sst>>
  <2>1. CASE Start(c)
    BY <2>1 DEF Start, TakeTicket, TakeTickets, BeginSnapshot, TxnWrite, CloseIdle, CommitLock,
                GetStart, ScanStart, FlushCall, CompactCall
  <2>2. CASE Continue(c)
    BY <1>7, <2>2 DEF Continue, EnterWriteGate, BeginFails, BeginIndexes, CommitConflicts,
          CommitFails, CommitNumbers, CommitLeaves, GetActive, GetImm, GetSst, GetFails,
          ScanShard, ScanRest, ScanFails, Return, MaybeFlush, FreezeNothing, FreezeSwap,
          EnqueueFlush, MaybeCompact, EnqueueCompact, EnqueueSync, BarrierReturns
  <2> QED BY <1>7, <2>1, <2>2
<1>8. CASE UNCHANGED vars
  BY <1>2, <1>8 DEF vars
<1> QED BY <1>2, <1>3, <1>4, <1>5, <1>6, <1>7, <1>8 DEF Next, Worker

\* So what a client has in reach stays in its reach.
LEMMA ViewKeeps ==
    ASSUME StorageInv, Grows, NEW d \in Clients, view'[d] = view[d],
           pc[d] \in {"begin", "commit_check", "get_active", "scan_shards"}, NEW r,
           r \in Contents(view[d])
    PROVE  r \in Contents(view[d])'
<1>1. /\ view[d].active \in DOMAIN mem /\ view[d].imm \subseteq DOMAIN frozen
      /\ view[d].ssts \subseteq DOMAIN sst
  BY DEF StorageInv, ViewsExist, WriteGateHeld, Shape, SharesWrite
<1>2. \/ r \in mem[view[d].active]
      \/ \E g \in view[d].imm : r \in frozen[g]
      \/ \E i \in view[d].ssts : r \in sst[i]
  BY InContents
<1>3. \/ r \in mem'[view'[d].active]
      \/ \E g \in view'[d].imm : r \in frozen'[g]
      \/ \E i \in view'[d].ssts : r \in sst'[i]
  BY <1>1, <1>2 DEF Grows
<1> DEFINE M == mem'[view'[d].active]
           F == {frozen'[g] : g \in view'[d].imm}
           S == {sst'[i] : i \in view'[d].ssts}
<1>4. Contents(view[d])' = M \cup (UNION F) \cup (UNION S)
  BY DEF Contents
<1>5. r \in M \/ r \in UNION F \/ r \in UNION S
  BY <1>3
<1> HIDE DEF M, F, S
<1> QED BY <1>4, <1>5

\* The places where the gates or the transactions are not concerned.
Elsewhere == {"get_active", "get_imm", "get_sst", "scan_shards", "swap", "idle", "got",
              "scanned", "failed", "flush_check", "freeze", "enqueue_flush", "compact_check",
              "enqueue_compact", "enqueue_sync", "wait", "synced"}

\* A step that only moves clients about there.
Plain ==
    /\ UNCHANGED <<seq, todo, latest, txn>>
    /\ \A d \in Clients :
        \/ pc'[d] = pc[d] /\ view'[d] = view[d] /\ seen'[d] = seen[d]
        \/ pc[d] \in Elsewhere /\ pc'[d] \in Elsewhere

\* The steps that may be more.
Special(c) ==
    \/ TakeTicket(c) \/ TakeTickets(c) \/ EnterWriteGate(c) \/ Insert(c)
    \/ BeginSnapshot(c) \/ BeginFails(c) \/ BeginIndexes(c)
    \/ TxnWrite(c) \/ CloseIdle(c) \/ CommitLock(c)
    \/ CommitConflicts(c) \/ CommitFails(c) \/ CommitNumbers(c)

LEMMA PlainSteps ==
    ASSUME StorageInv, [Next]_vars, \A c \in Clients : ~ Special(c)
    PROVE  Plain
<1> USE DEF Plain, Elsewhere, store, back, disk, getter, scan, txn, Go
<1>1. CASE UNCHANGED vars
  BY <1>1 DEF vars
<1>2. CASE Worker
  BY <1>2, WorkerMoves DEF WorkerApart
<1>3. ASSUME NEW c \in Clients, Start(c) \/ Continue(c) PROVE Plain
  <2>1. pc \in [Clients -> Locations] /\ Apart(c)
    BY <1>3, ClientMoves DEF StorageInv, TypeOK, CallType
  <2>2. CASE GetStart(c) \/ GetActive(c) \/ GetFails(c)
    BY <2>1, <2>2 DEF GetStart, GetActive, GetFails, Apart
  <2>3. CASE GetImm(c) \/ GetSst(c)
    BY <2>1, <2>3 DEF GetImm, GetSst, Apart
  <2>4. CASE ScanStart(c) \/ ScanShard(c) \/ ScanRest(c) \/ ScanFails(c) \/ Return(c)
    BY <2>1, <2>4 DEF ScanStart, ScanShard, ScanRest, ScanFails, Return, Apart
  <2>5. CASE MaybeFlush(c) \/ FlushCall(c) \/ CompactCall(c) \/ MaybeCompact(c)
    BY <2>1, <2>5 DEF MaybeFlush, FlushCall, CompactCall, MaybeCompact, Apart
  <2>6. CASE FreezeNothing(c) \/ FreezeCopy(c) \/ FreezeSwap(c) \/ BarrierReturns(c)
    BY <2>1, <2>6 DEF FreezeNothing, FreezeCopy, FreezeSwap, BarrierReturns, AfterFreeze, Apart
  <2>7. CASE EnqueueFlush(c) \/ EnqueueCompact(c) \/ EnqueueSync(c)
    BY <2>1, <2>7 DEF EnqueueFlush, EnqueueCompact, EnqueueSync, AfterFreeze, Apart
  <2> QED BY <1>3, <2>2, <2>3, <2>4, <2>5, <2>6, <2>7 DEF Start, Continue, Special
<1> QED BY <1>1, <1>2, <1>3 DEF Next

\* They leave what is said of the transactions as it is.
LEMMA PlainKeeps ==
    ASSUME StorageInv, TxnInv, Grows, Plain
    PROVE  TicketsFresh' /\ GateKeepsStore' /\ TxnPlaces' /\ SnapshotsCut' /\ HalfInserted'
<1> USE DEF Plain, Elsewhere, txn
<1>1. TicketsFresh'
  BY DEF TxnInv, TicketsFresh, Numbering
<1>2. TxnPlaces'
  BY DEF TxnInv, TxnPlaces
<1>3. GateKeepsStore'
  <2>1. ASSUME NEW d \in Clients, NEW k \in Keys, pc'[d] \in {"begin", "commit_check"},
               latest'[k] > 0
        PROVE  [key |-> k, seq |-> latest'[k]] \in Contents(view[d])'
    <3>1. pc[d] \in {"begin", "commit_check"} /\ view'[d] = view[d] /\ latest' = latest
      BY <2>1
    <3>2. [key |-> k, seq |-> latest[k]] \in Contents(view[d])
      BY <2>1, <3>1 DEF TxnInv, GateKeepsStore
    <3> QED BY <3>1, <3>2, ViewKeeps
  <2>2. \A d \in Clients : pc'[d] \in {"batch_gate", "commit_gate", "commit_check"} =>
            seen'[d] = latest'
    BY DEF TxnInv, GateKeepsStore
  <2> QED BY <2>1, <2>2 DEF GateKeepsStore
<1>4. SnapshotsCut'
  BY DEF TxnInv, SnapshotsCut, SnapshotCut
<1>5. HalfInserted'
  BY DEF TxnInv, HalfInserted, Half, Awaited
<1> QED BY <1>1, <1>2, <1>3, <1>4, <1>5

-----------------------------------------------------------------------------
(* The invariant of the transactions, step by step.                        *)

\* A client that numbers rows gets numbers no snapshot has been given yet.
LEMMA NumbersKeep ==
    ASSUME StorageInv, TxnInv, NEW c \in Clients, Apart(c), NEW s \in Seq(Row), NEW n \in Nat,
           todo' = [todo EXCEPT ![c] = s], seq' = seq + n,
           \A i \in DOMAIN s : seq <= s[i].seq /\ s[i].seq < seq + n,
           pc'[c] \in Numbering, UNCHANGED <<latest, txn>>
    PROVE  TicketsFresh' /\ SnapshotsCut'
<1> USE DEF txn, Numbering
<1>1. /\ seq \in Nat /\ DOMAIN todo = Clients /\ latest \in [Keys -> Nat]
      /\ snap \in [Clients -> Nat] /\ todo \in [Clients -> Seq(Row)]
  BY DEF StorageInv, TypeOK, StoreType, CallType, TxnType
<1>2. todo'[c] = s /\ \A d \in Clients \ {c} : todo'[d] = todo[d] /\ pc'[d] = pc[d]
  BY <1>1 DEF Apart
<1>3. \A d \in Clients : \A i \in DOMAIN todo[d] : todo[d][i].seq \in Nat
  <2> SUFFICES ASSUME NEW d \in Clients, NEW i \in DOMAIN todo[d] PROVE todo[d][i].seq \in Nat
    OBVIOUS
  <2>1. todo[d][i] \in Row
    <3> HIDE DEF Row
    <3> QED BY <1>1
  <2> QED BY <2>1 DEF Row
<1>4. \A i \in DOMAIN s : s[i].seq \in Nat
  <2> SUFFICES ASSUME NEW i \in DOMAIN s PROVE s[i].seq \in Nat
    OBVIOUS
  <2>1. s[i] \in Row
    <3> HIDE DEF Row
    <3> QED OBVIOUS
  <2> QED BY <2>1 DEF Row
<1>5. TicketsFresh'
  <2>1. seq' \in Nat /\ seq <= seq'
    BY <1>1
  <2>2. \A k \in Keys : latest'[k] < seq'
    BY <1>1, <2>1 DEF TxnInv, TicketsFresh
  <2>3. ASSUME NEW d \in Clients
        PROVE  /\ pc'[d] \notin Numbering => todo'[d] = <<>>
               /\ \A i \in DOMAIN todo'[d] : todo'[d][i].seq < seq'
    <3>1. CASE d = c
      BY <1>2, <3>1
    <3>2. CASE d # c
      <4>1. \A i \in DOMAIN todo[d] : todo[d][i].seq < seq /\ todo[d][i].seq \in Nat
        BY <1>3 DEF TxnInv, TicketsFresh
      <4>2. \A i \in DOMAIN todo[d] : todo[d][i].seq < seq'
        BY <1>1, <2>1, <4>1
      <4>3. pc[d] \notin Numbering => todo[d] = <<>>
        BY DEF TxnInv, TicketsFresh
      <4> QED BY <1>2, <3>2, <4>2, <4>3
    <3> QED BY <3>1, <3>2
  <2> QED BY <2>2, <2>3 DEF TicketsFresh
<1>6. ASSUME NEW e \in Clients PROVE SnapshotCut(e)'
  <2>1. pc'[e] = "begin" => pc[e] = "begin"
    BY <1>2
  <2>2. tx[e] = "open" \/ pc[e] = "begin" => \A i \in DOMAIN s : s[i].seq >= snap[e]
    BY <1>1, <1>4 DEF TxnInv, SnapshotsCut, SnapshotCut
  <2>3. tx[e] = "open" \/ pc[e] = "begin" =>
            \A d \in Clients : \A i \in DOMAIN todo'[d] : todo'[d][i].seq >= snap[e]
    BY <1>2, <2>2 DEF TxnInv, SnapshotsCut, SnapshotCut
  <2>4. tx[e] = "open" \/ pc[e] = "begin" => snap[e] <= seq'
    BY <1>1 DEF TxnInv, SnapshotsCut, SnapshotCut
  <2> QED BY <2>1, <2>3, <2>4 DEF TxnInv, SnapshotsCut, SnapshotCut
<1> QED BY <1>5, <1>6 DEF SnapshotsCut

\* What gate owners know of the store stays true as long as nothing is
\* inserted, and becomes true when they clone the current Version.
LEMMA GateKept ==
    ASSUME StorageInv, TxnInv, Grows, NewestPresent', UNCHANGED latest,
           \A d \in Clients :
            \/ pc'[d] = pc[d] /\ view'[d] = view[d] /\ seen'[d] = seen[d]
            \/ /\ pc'[d] \in {"batch_gate", "commit_gate", "commit_check"} => seen'[d] = latest
               /\ pc'[d] \in {"begin", "commit_check"} => view'[d] = version'
    PROVE  GateKeepsStore'
<1>1. ASSUME NEW d \in Clients, NEW k \in Keys, pc'[d] \in {"begin", "commit_check"},
             latest'[k] > 0
      PROVE  [key |-> k, seq |-> latest'[k]] \in Contents(view[d])'
  <2>1. CASE pc'[d] = pc[d] /\ view'[d] = view[d]
    <3>1. [key |-> k, seq |-> latest[k]] \in Contents(view[d])
      BY <1>1, <2>1 DEF TxnInv, GateKeepsStore
    <3> QED BY <1>1, <2>1, <3>1, ViewKeeps
  <2>2. CASE view'[d] = version'
    <3>1. [key |-> k, seq |-> latest'[k]] \in Contents(version)'
      BY <1>1 DEF NewestPresent
    <3> QED BY <2>2, <3>1 DEF Contents
  <2> QED BY <1>1, <2>1, <2>2
<1>2. \A d \in Clients : pc'[d] \in {"batch_gate", "commit_gate", "commit_check"} =>
          seen'[d] = latest'
  BY DEF TxnInv, GateKeepsStore
<1> QED BY <1>1, <1>2 DEF GateKeepsStore

\* Of the other clients a step says nothing new unless it inserts.
LEMMA OthersKeep ==
    ASSUME StorageInv, TxnInv, NEW c \in Clients, Apart(c), UNCHANGED latest
    PROVE  \A d \in Clients \ {c} : Half(d)'
BY DEF TxnInv, HalfInserted, Half, Awaited, Apart

\* A write or a batch numbers its rows.
LEMMA TicketSteps ==
    ASSUME StorageInv, NewestPresent', TxnInv, Grows, NEW c \in Clients, Apart(c),
           TakeTicket(c) \/ TakeTickets(c)
    PROVE  TicketsFresh' /\ GateKeepsStore' /\ TxnPlaces' /\ SnapshotsCut' /\ HalfInserted'
<1> USE DEF store, back, disk, getter, scan, txn, Go
<1>1. /\ pc' = [pc EXCEPT ![c] = IF TakeTicket(c) THEN "write_gate" ELSE "batch_gate"]
      /\ seen' = [seen EXCEPT ![c] = latest] /\ UNCHANGED <<latest, txn, view>>
  BY DEF TakeTicket, TakeTickets
<1>2. /\ pc \in [Clients -> Locations] /\ DOMAIN seen = Clients /\ seq \in Nat
  BY DEF StorageInv, TypeOK, StoreType, CallType, TxnType
<1>3. pc'[c] \in {"write_gate", "batch_gate"} /\ seen'[c] = latest
  BY <1>1, <1>2
<1>4. PICK s \in Seq(Row), n \in Nat :
        /\ todo' = [todo EXCEPT ![c] = s] /\ seq' = seq + n
        /\ \A i \in DOMAIN s : seq <= s[i].seq /\ s[i].seq < seq + n
  <2>1. CASE TakeTicket(c)
    <3>1. PICK k \in Keys : todo' = [todo EXCEPT ![c] = <<[key |-> k, seq |-> seq]>>]
      BY <2>1 DEF TakeTicket
    <3> DEFINE r == [key |-> k, seq |-> seq]
    <3>2. r \in Row /\ r.seq = seq
      BY <1>2 DEF Row
    <3>3. <<r>> \in Seq(Row) /\ DOMAIN <<r>> = {1} /\ <<r>>[1] = r
      <4> HIDE DEF r, Row
      <4> QED BY <3>2
    <3>4. seq' = seq + 1
      BY <2>1 DEF TakeTicket
    <3> DEFINE s == <<r>>
    <3>5. \A i \in DOMAIN s : seq <= s[i].seq /\ s[i].seq < seq + 1
      BY <1>2, <3>2, <3>3
    <3>6. s \in Seq(Row) /\ todo' = [todo EXCEPT ![c] = s]
      BY <3>1, <3>3
    <3> HIDE DEF s
    <3> QED BY <3>4, <3>5, <3>6
  <2>2. CASE TakeTickets(c)
    <3>1. PICK n \in 1 .. MaxBatch :
            /\ \E ks \in [1 .. n -> Keys] : todo' = [todo EXCEPT ![c] = Numbered(ks)]
            /\ seq' = seq + n
      BY <2>2 DEF TakeTickets
    <3>2. PICK ks \in [1 .. n -> Keys] : todo' = [todo EXCEPT ![c] = Numbered(ks)]
      BY <3>1
    <3>3. n \in Nat \ {0}
      BY BoundAssumption
    <3>4. Numbered(ks) \in Seq(Row)
      BY <1>2, <3>3, NumberedRows
    <3>5. \A i \in DOMAIN Numbered(ks) :
            seq <= Numbered(ks)[i].seq /\ Numbered(ks)[i].seq < seq + n
      BY <1>2, <3>3 DEF Numbered
    <3> QED BY <3>1, <3>2, <3>3, <3>4, <3>5
  <2> QED BY <2>1, <2>2
<1>5. TicketsFresh' /\ SnapshotsCut'
  <2>1. pc'[c] \in Numbering
    BY <1>3 DEF Numbering
  <2> QED BY <1>1, <1>4, <2>1, NumbersKeep
<1>6. GateKeepsStore'
  <2>1. \A d \in Clients :
            \/ pc'[d] = pc[d] /\ view'[d] = view[d] /\ seen'[d] = seen[d]
            \/ /\ pc'[d] \in {"batch_gate", "commit_gate", "commit_check"} => seen'[d] = latest
               /\ pc'[d] \in {"begin", "commit_check"} => view'[d] = version'
    BY <1>3 DEF Apart
  <2> QED BY <1>1, <2>1, GateKept
<1>7. TxnPlaces'
  BY <1>1, <1>3 DEF TxnInv, TxnPlaces, Apart
<1>8. HalfInserted'
  <2>1. Half(c)'
    BY <1>3 DEF Half
  <2> QED BY <1>1, <2>1, OthersKeep DEF HalfInserted
<1> QED BY <1>5, <1>6, <1>7, <1>8

\* A step of c that numbers and inserts nothing leaves the rows on their way,
\* and what the others know, as they are.
LEMMA RowsKeep ==
    ASSUME StorageInv, TxnInv, NEW c \in Clients, Apart(c), UNCHANGED <<seq, todo, latest>>,
           pc'[c] \notin Numbering => pc[c] \notin Numbering
    PROVE  /\ TicketsFresh'
           /\ \A d \in Clients \ {c} : SnapshotCut(d)' /\ Half(d)'
<1>1. TicketsFresh'
  BY DEF TxnInv, TicketsFresh, Apart
<1>2. \A d \in Clients \ {c} : SnapshotCut(d)'
  BY DEF TxnInv, SnapshotsCut, SnapshotCut, Apart
<1> QED BY <1>1, <1>2, OthersKeep

\* Taking a gate, giving up, buffering, closing.
LEMMA GateSteps ==
    ASSUME StorageInv, NewestPresent', TxnInv, Grows, NEW c \in Clients, Apart(c),
           EnterWriteGate(c) \/ BeginFails(c) \/ TxnWrite(c) \/ CloseIdle(c) \/ CommitLock(c)
           \/ CommitConflicts(c) \/ CommitFails(c)
    PROVE  TicketsFresh' /\ GateKeepsStore' /\ TxnPlaces' /\ SnapshotsCut' /\ HalfInserted'
<1> USE DEF store, back, disk, getter, scan, txn, Go
<1>1. /\ pc \in [Clients -> Locations] /\ view \in [Clients -> Version]
      /\ DOMAIN tx = Clients /\ DOMAIN snap = Clients /\ DOMAIN seen = Clients
  BY DEF StorageInv, TypeOK, CallType, TxnType
<1>2. CASE EnterWriteGate(c)
  <2>1. /\ UNCHANGED <<seq, todo, latest, tx, snap, index, writes, seen>>
        /\ view'[c] = version' /\ pc[c] \in {"write_gate", "batch_gate", "commit_gate"}
        /\ pc'[c] = CASE pc[c] = "write_gate" -> "write_put"
                      [] pc[c] = "batch_gate" -> "batch_put"
                      [] pc[c] = "commit_gate" -> "commit_check"
    BY <1>1, <1>2 DEF EnterWriteGate
  <2>2. TicketsFresh' /\ \A d \in Clients \ {c} : SnapshotCut(d)' /\ Half(d)'
    BY <2>1, RowsKeep DEF Numbering
  <2>3. GateKeepsStore'
    <3>1. pc[c] = "commit_gate" => seen[c] = latest
      BY DEF TxnInv, GateKeepsStore
    <3>2. \A d \in Clients :
              \/ pc'[d] = pc[d] /\ view'[d] = view[d] /\ seen'[d] = seen[d]
              \/ /\ pc'[d] \in {"batch_gate", "commit_gate", "commit_check"} => seen'[d] = latest
                 /\ pc'[d] \in {"begin", "commit_check"} => view'[d] = version'
      BY <2>1, <3>1 DEF Apart
    <3> QED BY <2>1, <3>2, GateKept
  <2>4. TxnPlaces'
    BY <2>1 DEF TxnInv, TxnPlaces, Apart
  <2>5. SnapshotCut(c)'
    BY <2>1 DEF TxnInv, SnapshotsCut, SnapshotCut
  <2>6. Half(c)'
    <3>1. pc[c] = "batch_gate" => seen[c] = latest
      BY DEF TxnInv, GateKeepsStore
    <3>2. latest \in [Keys -> Nat]
      BY DEF StorageInv, TypeOK, TxnType
    <3> QED BY <2>1, <3>1, <3>2 DEF Half
  <2> QED BY <2>2, <2>3, <2>4, <2>5, <2>6 DEF SnapshotsCut, HalfInserted
<1>3. CASE BeginFails(c) \/ CloseIdle(c) \/ CommitConflicts(c) \/ CommitFails(c)
  <2>1. /\ UNCHANGED <<seq, todo, latest>>
        /\ pc[c] \in {"begin", "idle", "commit_check"} /\ pc'[c] \in {"failed", "idle"}
        /\ tx'[c] # "open"
    BY <1>1, <1>3 DEF BeginFails, CloseIdle, CommitConflicts, CommitFails, CommitLeaves, CloseTxn,
                      TxnInv, TxnPlaces
  <2>2. TicketsFresh' /\ \A d \in Clients \ {c} : SnapshotCut(d)' /\ Half(d)'
    BY <2>1, RowsKeep DEF Numbering
  <2>3. GateKeepsStore'
    <3>1. \A d \in Clients :
              \/ pc'[d] = pc[d] /\ view'[d] = view[d] /\ seen'[d] = seen[d]
              \/ /\ pc'[d] \in {"batch_gate", "commit_gate", "commit_check"} => seen'[d] = latest
                 /\ pc'[d] \in {"begin", "commit_check"} => view'[d] = version'
      BY <2>1 DEF Apart
    <3> QED BY <2>1, <3>1, GateKept
  <2>4. TxnPlaces'
    BY <2>1 DEF TxnInv, TxnPlaces, Apart
  <2>5. SnapshotCut(c)' /\ Half(c)'
    BY <2>1 DEF SnapshotCut, Half
  <2> QED BY <2>2, <2>3, <2>4, <2>5 DEF SnapshotsCut, HalfInserted
<1>4. CASE TxnWrite(c) \/ CommitLock(c)
  <2>1. /\ UNCHANGED <<seq, todo, latest, tx, snap, index, view>>
        /\ pc[c] = "idle" /\ tx[c] = "open"
        /\ \/ pc'[c] = "idle"
           \/ pc'[c] = "commit_gate" /\ seen'[c] = latest
    BY <1>1, <1>4 DEF TxnWrite, CommitLock
  <2>2. TicketsFresh' /\ \A d \in Clients \ {c} : SnapshotCut(d)' /\ Half(d)'
    BY <2>1, RowsKeep DEF Numbering
  <2>3. GateKeepsStore'
    <3>1. \A d \in Clients :
              \/ pc'[d] = pc[d] /\ view'[d] = view[d] /\ seen'[d] = seen[d]
              \/ /\ pc'[d] \in {"batch_gate", "commit_gate", "commit_check"} => seen'[d] = latest
                 /\ pc'[d] \in {"begin", "commit_check"} => view'[d] = version'
      BY <2>1 DEF Apart
    <3> QED BY <2>1, <3>1, GateKept
  <2>4. TxnPlaces'
    BY <2>1 DEF TxnInv, TxnPlaces, Apart
  <2>5. SnapshotCut(c)' /\ Half(c)'
    BY <2>1 DEF TxnInv, SnapshotsCut, SnapshotCut, Half
  <2> QED BY <2>2, <2>3, <2>4, <2>5 DEF SnapshotsCut, HalfInserted
<1> QED BY <1>2, <1>3, <1>4

\* No row in the reach of a client is newer than the newest of its key.
LEMMA InReach ==
    ASSUME StorageInv, NEW c \in Clients,
           pc[c] \in {"begin", "commit_check", "get_active", "scan_shards"},
           NEW r \in Contents(view[c])
    PROVE  r \in Row /\ r.seq <= latest[r.key]
<1>1. /\ view[c].active \in DOMAIN mem /\ view[c].imm \subseteq DOMAIN frozen
      /\ view[c].ssts \subseteq DOMAIN sst
  BY DEF StorageInv, ViewsExist, WriteGateHeld, Shape, SharesWrite
<1>2. \/ r \in mem[view[c].active]
      \/ \E g \in view[c].imm : r \in frozen[g]
      \/ \E i \in view[c].ssts : r \in sst[i]
  BY InContents
<1> HIDE DEF Row
<1>3. CASE r \in mem[view[c].active]
  BY <1>1, <1>3, BoundedRows
<1>4. CASE \E g \in view[c].imm : r \in frozen[g]
  BY <1>1, <1>4, BoundedRows
<1>5. CASE \E i \in view[c].ssts : r \in sst[i]
  BY <1>1, <1>5, BoundedRows
<1> QED BY <1>2, <1>3, <1>4, <1>5

\* What a snapshot indexes is the store as it is.
LEMMA IndexIsLatest ==
    ASSUME StorageInv, TxnInv, NEW c \in Clients, pc[c] = "begin", NEW k \in Keys
    PROVE  Newest(k, {r \in Contents(view[c]) : r.seq < snap[c]}) = latest[k]
<1> DEFINE R == {r \in Contents(view[c]) : r.seq < snap[c]}
<1>3. R \in SUBSET Row /\ \A r \in R : r.seq <= latest[r.key]
  <2> HIDE DEF Row
  <2> QED BY InReach
<1>4. latest[k] \in Nat /\ latest[k] < snap[c]
  BY DEF StorageInv, TypeOK, TxnType, TxnInv, SnapshotsCut, SnapshotCut
<1>5. latest[k] > 0 => latest[k] \in SeqsOf(k, R)
  <2> SUFFICES ASSUME latest[k] > 0 PROVE latest[k] \in SeqsOf(k, R)
    OBVIOUS
  <2>1. [key |-> k, seq |-> latest[k]] \in Contents(view[c])
    BY DEF TxnInv, GateKeepsStore
  <2>2. [key |-> k, seq |-> latest[k]] \in R
    BY <1>4, <2>1
  <2> HIDE DEF R
  <2> QED BY <2>2 DEF SeqsOf
<1> HIDE DEF R
<1>6. \A n \in SeqsOf(k, R) : n \in Nat /\ n <= latest[k]
  BY <1>3 DEF SeqsOf, Row
<1>7. /\ Newest(k, R) \in Nat
      /\ SeqsOf(k, R) # {} => IsLargest(Newest(k, R), SeqsOf(k, R))
  BY <1>3, NewestBounded DEF StorageInv, TypeOK
<1>8. Newest(k, R) = latest[k]
  <2>1. CASE SeqsOf(k, R) = {}
    BY <1>4, <1>5, <2>1 DEF Newest
  <2>2. CASE SeqsOf(k, R) # {}
    BY <1>4, <1>5, <1>6, <1>7, <2>2 DEF IsLargest
  <2> QED BY <2>1, <2>2
<1> QED BY <1>8 DEF R

\* begin() takes its snapshot when no row is on its way.
LEMMA BeginSteps ==
    ASSUME StorageInv, NewestPresent', TxnInv, Grows, NEW c \in Clients, Apart(c),
           BeginSnapshot(c) \/ BeginIndexes(c)
    PROVE  TicketsFresh' /\ GateKeepsStore' /\ TxnPlaces' /\ SnapshotsCut' /\ HalfInserted'
<1> USE DEF store, back, disk, getter, scan, txn, Go
<1>1. /\ pc \in [Clients -> Locations] /\ view \in [Clients -> Version]
      /\ DOMAIN tx = Clients /\ DOMAIN snap = Clients /\ DOMAIN index = Clients
      /\ seq \in Nat /\ latest \in [Keys -> Nat]
  BY DEF StorageInv, TypeOK, StoreType, CallType, TxnType
<1>2. CASE BeginSnapshot(c)
  <2>1. /\ UNCHANGED <<seq, todo, latest, tx>> /\ pc[c] = "idle" /\ pc'[c] = "begin"
        /\ snap'[c] = seq /\ view'[c] = version' /\ tx[c] # "open" /\ CommitGateFree
    BY <1>1, <1>2 DEF BeginSnapshot
  <2>2. TicketsFresh' /\ \A d \in Clients \ {c} : SnapshotCut(d)' /\ Half(d)'
    BY <2>1, RowsKeep DEF Numbering
  <2>3. GateKeepsStore'
    <3>1. \A d \in Clients :
              \/ pc'[d] = pc[d] /\ view'[d] = view[d] /\ seen'[d] = seen[d]
              \/ /\ pc'[d] \in {"batch_gate", "commit_gate", "commit_check"} => seen'[d] = latest
                 /\ pc'[d] \in {"begin", "commit_check"} => view'[d] = version'
      BY <2>1 DEF Apart
    <3> QED BY <2>1, <3>1, GateKept
  <2>4. TxnPlaces'
    BY <2>1 DEF TxnInv, TxnPlaces, Apart
  <2>5. \A d \in Clients : todo[d] = <<>>
    BY <2>1 DEF TxnInv, TicketsFresh, CommitGateFree, OwnsCommit, SharesCommit, Numbering
  <2>6. \A k \in Keys : latest[k] < seq
    BY DEF TxnInv, TicketsFresh
  <2>7. SnapshotCut(c)'
    BY <1>1, <2>1, <2>5, <2>6 DEF SnapshotCut
  <2>8. Half(c)'
    BY <2>1 DEF Half
  <2> QED BY <2>2, <2>3, <2>4, <2>7, <2>8 DEF SnapshotsCut, HalfInserted
<1>3. CASE BeginIndexes(c)
  <2>1. /\ UNCHANGED <<seq, todo, latest, snap>> /\ pc[c] = "begin" /\ pc'[c] = "idle"
        /\ tx'[c] = "open"
        /\ index'[c] = [k \in Keys |-> Newest(k, {r \in Contents(view[c]) : r.seq < snap[c]})]
    BY <1>1, <1>3 DEF BeginIndexes
  <2>2. TicketsFresh' /\ \A d \in Clients \ {c} : SnapshotCut(d)' /\ Half(d)'
    BY <2>1, RowsKeep DEF Numbering
  <2>3. GateKeepsStore'
    <3>1. \A d \in Clients :
              \/ pc'[d] = pc[d] /\ view'[d] = view[d] /\ seen'[d] = seen[d]
              \/ /\ pc'[d] \in {"batch_gate", "commit_gate", "commit_check"} => seen'[d] = latest
                 /\ pc'[d] \in {"begin", "commit_check"} => view'[d] = version'
      BY <2>1 DEF Apart
    <3> QED BY <2>1, <3>1, GateKept
  <2>4. TxnPlaces'
    BY <2>1 DEF TxnInv, TxnPlaces, Apart
  <2>5. \A k \in Keys : index'[c][k] = latest[k]
    BY <2>1, IndexIsLatest
  <2>6. SnapshotCut(c)'
    BY <1>1, <2>1, <2>5 DEF TxnInv, SnapshotsCut, SnapshotCut
  <2>7. Half(c)'
    BY <2>1 DEF Half
  <2> QED BY <2>2, <2>3, <2>4, <2>6, <2>7 DEF SnapshotsCut, HalfInserted
<1> QED BY <1>2, <1>3

\* A strictly increasing list of as many keys as W has lists all of W, each once.
LEMMA IncreasingCovers ==
    ASSUME NEW W \in SUBSET Keys, W # {}, NEW ks \in [1 .. Cardinality(W) -> W],
           \A i, j \in DOMAIN ks : i < j => ks[i] < ks[j]
    PROVE  /\ Cardinality(W) \in Nat \ {0}
           /\ \A i, j \in DOMAIN ks : ks[i] = ks[j] => i = j
           /\ \A k \in W : \E i \in DOMAIN ks : ks[i] = k
<1> DEFINE n == Cardinality(W)
<1>1. IsFiniteSet(W)
  BY KeysAssumption, FS_Subset
<1>2. n \in Nat \ {0}
  <2>1. n \in Nat
    BY <1>1, FS_CardinalityType
  <2>2. n # 0
    BY <1>1, FS_EmptySet
  <2> QED BY <2>1, <2>2
<1>3. \A i, j \in DOMAIN ks : ks[i] = ks[j] => i = j
  <2>1. ASSUME NEW i \in 1 .. n, NEW j \in 1 .. n, i # j
        PROVE  ks[i] # ks[j]
    <3>1. ks[i] \in Nat /\ ks[j] \in Nat
      BY KeysAssumption
    <3>2. i \in Nat /\ j \in Nat /\ (i < j \/ j < i)
      BY <1>2, <2>1
    <3> QED BY <3>1, <3>2
  <2> QED BY <2>1
<1>4. ks \in Injection(1 .. n, W)
  BY <1>3 DEF Injection, IsInjective
<1>5. Cardinality(1 .. n) = n
  <2>1. Cardinality(1 .. n) = IF 1 > n THEN 0 ELSE n - 1 + 1
    BY <1>2, FS_Interval
  <2> QED BY <1>2, <2>1
<1>6. ks \in Surjection(1 .. n, W)
  BY <1>1, <1>4, <1>5, FS_Injection
<1>7. \A k \in W : \E i \in DOMAIN ks : ks[i] = k
  BY <1>6 DEF Surjection
<1> QED BY <1>2, <1>3, <1>7

\* commit() finds no conflict and numbers its rows: of the keys it writes none
\* has changed since its snapshot.
LEMMA CommitNumbersStep ==
    ASSUME StorageInv, NewestPresent', TxnInv, Grows, NEW c \in Clients, Apart(c),
           CommitNumbers(c)
    PROVE  TicketsFresh' /\ GateKeepsStore' /\ TxnPlaces' /\ SnapshotsCut' /\ HalfInserted'
<1> USE DEF store, back, disk, getter, scan, txn, Go
<1> DEFINE W == writes[c]
           n == Cardinality(W)
<1>1. /\ pc \in [Clients -> Locations] /\ seq \in Nat \ {0} /\ W \in SUBSET Keys
      /\ latest \in [Keys -> Nat] /\ DOMAIN todo = Clients
  BY DEF StorageInv, TypeOK, StoreType, CallType, TxnType
<1>2. /\ pc[c] = "commit_check" /\ pc'[c] = "commit_put"
      /\ \A k \in W : ~ Conflict(c, k)
      /\ UNCHANGED <<latest, view, tx, snap, index, writes, seen>>
  BY <1>1 DEF CommitNumbers
<1>3. tx[c] = "open" /\ W # {} /\ seen[c] = latest
  BY <1>2 DEF TxnInv, TxnPlaces, GateKeepsStore, StorageInv, WorkAhead
<1>4. PICK ks \in [1 .. n -> W] :
        /\ \A i, j \in DOMAIN ks : i < j => ks[i] < ks[j]
        /\ todo' = [todo EXCEPT ![c] = Numbered(ks)]
        /\ seq' = seq + Len(ks)
  BY DEF CommitNumbers
<1>5. /\ n \in Nat \ {0}
      /\ \A i, j \in DOMAIN ks : ks[i] = ks[j] => i = j
      /\ \A k \in W : \E i \in DOMAIN ks : ks[i] = k
  BY <1>1, <1>3, <1>4, IncreasingCovers
<1>6. Len(ks) = n
  <2>1. ks \in Seq(W)
    BY <1>5, SeqDef
  <2> QED BY <1>5, <2>1, LenProperties
<1>7. Numbered(ks) \in Seq(Row)
  <2>1. ks \in [1 .. n -> Keys]
    BY <1>1
  <2> QED BY <1>1, <1>5, <2>1, NumberedRows
<1>8. /\ DOMAIN Numbered(ks) = 1 .. n
      /\ \A i \in 1 .. n : Numbered(ks)[i] = [key |-> ks[i], seq |-> seq + i - 1]
  BY DEF Numbered
<1>9. TicketsFresh' /\ SnapshotsCut'
  <2>1. \A i \in DOMAIN Numbered(ks) :
            seq <= Numbered(ks)[i].seq /\ Numbered(ks)[i].seq < seq + n
    BY <1>1, <1>5, <1>8
  <2>2. pc'[c] \in Numbering /\ UNCHANGED txn
    BY <1>2 DEF Numbering
  <2> QED BY <1>2, <1>4, <1>5, <1>6, <1>7, <2>1, <2>2, NumbersKeep
<1>10. GateKeepsStore'
  <2>1. \A d \in Clients :
            \/ pc'[d] = pc[d] /\ view'[d] = view[d] /\ seen'[d] = seen[d]
            \/ /\ pc'[d] \in {"batch_gate", "commit_gate", "commit_check"} => seen'[d] = latest
               /\ pc'[d] \in {"begin", "commit_check"} => view'[d] = version'
    BY <1>2 DEF Apart
  <2> QED BY <1>2, <2>1, GateKept
<1>11. TxnPlaces'
  BY <1>2, <1>3 DEF TxnInv, TxnPlaces, Apart
<1>12. HalfInserted'
  <2>1. \A k \in W : latest[k] = index[c][k]
    <3> SUFFICES ASSUME NEW k \in W PROVE latest[k] = index[c][k]
      OBVIOUS
    <3>1. /\ index[c][k] < snap[c] /\ index[c][k] \in Nat /\ snap[c] \in Nat
          /\ index[c][k] = latest[k] \/ latest[k] >= snap[c]
      BY <1>1, <1>3 DEF TxnInv, SnapshotsCut, SnapshotCut, StorageInv, TypeOK, TxnType
    <3>2. ASSUME latest[k] >= snap[c] PROVE FALSE
      <4>1. latest[k] > 0
        BY <1>1, <3>1, <3>2
      <4>2. [key |-> k, seq |-> latest[k]] \in Contents(view[c])
        BY <1>1, <1>2, <4>1 DEF TxnInv, GateKeepsStore
      <4>3. Conflict(c, k)
        BY <3>2, <4>2 DEF Conflict
      <4> QED BY <1>2, <4>3
    <3> QED BY <3>1, <3>2
  <2>2. todo'[c] = Numbered(ks)
    BY <1>1, <1>4
  <2>3. /\ DOMAIN todo'[c] = 1 .. n
        /\ \A i \in 1 .. n : todo'[c][i].key = ks[i] /\ todo'[c][i].seq = seq + i - 1
    BY <1>8, <2>2
  <2>4. \A i, j \in DOMAIN todo'[c] : todo'[c][i].key = todo'[c][j].key => i = j
    BY <1>5, <2>3
  <2>5. \A i \in DOMAIN todo'[c] :
            todo'[c][i].key \in W /\ todo'[c][i].seq > latest[todo'[c][i].key]
    <3> SUFFICES ASSUME NEW i \in 1 .. n
                 PROVE  todo'[c][i].key \in W /\ todo'[c][i].seq > latest[todo'[c][i].key]
      BY <2>3
    <3>1. ks[i] \in W /\ latest[ks[i]] < seq /\ latest[ks[i]] \in Nat
      BY <1>1, <1>4 DEF TxnInv, TicketsFresh
    <3> QED BY <1>1, <1>5, <2>3, <3>1
  <2>6. W \ Awaited(c)' = {}
    <3> SUFFICES ASSUME NEW k \in W PROVE k \in Awaited(c)'
      OBVIOUS
    <3>1. PICK i \in 1 .. n : ks[i] = k
      BY <1>5
    <3> QED BY <2>3, <3>1 DEF Awaited
  <2>7. Half(c)'
    <3>1. \A k \in writes'[c] : seen'[c][k] = index'[c][k]
      BY <1>2, <1>3, <2>1
    <3>2. \A k \in Keys : k \notin writes'[c] \ Awaited(c)'
      BY <1>2, <2>6
    <3>3. latest' = seen'[c] /\ writes'[c] = W
      BY <1>2, <1>3
    <3> QED BY <1>2, <1>3, <2>4, <2>5, <3>1, <3>2, <3>3 DEF Half
  <2> QED BY <1>2, <2>7, OthersKeep DEF HalfInserted
<1> QED BY <1>9, <1>10, <1>11, <1>12

\* Inserting a row: only the owner of the gate notices.
LEMMA InsertKeeps ==
    ASSUME StorageInv, TxnInv, NEW c \in Clients, Apart(c), Insert(c)
    PROVE  TicketsFresh' /\ GateKeepsStore' /\ TxnPlaces' /\ SnapshotsCut' /\ HalfInserted'
<1> USE DEF store, back, disk, getter, scan, txn, Go
<1> DEFINE r == Head(todo[c])
<1>1. /\ pc \in [Clients -> Locations] /\ seq \in Nat
      /\ latest \in [Keys -> Nat] /\ todo \in [Clients -> Seq(Row)]
      /\ DOMAIN seen = Clients /\ DOMAIN tx = Clients /\ snap \in [Clients -> Nat]
  BY DEF StorageInv, TypeOK, StoreType, CallType, TxnType
<1>2. /\ pc[c] \in {"write_put", "batch_put", "commit_put"}
      /\ latest' = [latest EXCEPT ![r.key] = IF r.seq > @ THEN r.seq ELSE @]
      /\ todo' = [todo EXCEPT ![c] = Tail(todo[c])]
      /\ seq' = seq
  BY DEF Insert
<1>3. /\ r \in Row /\ r = todo[c][1] /\ Len(todo[c]) \in Nat \ {0}
      /\ DOMAIN todo[c] = 1 .. Len(todo[c])
      /\ Len(Tail(todo[c])) = Len(todo[c]) - 1 /\ DOMAIN Tail(todo[c]) = 1 .. Len(todo[c]) - 1
      /\ \A i \in DOMAIN Tail(todo[c]) : Tail(todo[c])[i] = todo[c][i + 1]
      /\ Tail(todo[c]) \in Seq(Row)
  <2>1. todo[c] # <<>> /\ todo[c] \in Seq(Row)
    <3> HIDE DEF Row
    <3> QED BY <1>1, <1>2 DEF StorageInv, WorkAhead
  <2> HIDE DEF Row
  <2> QED BY <2>1, TailFacts
<1>4. /\ r.key \in Keys /\ r.seq \in Nat
      /\ \A k \in Keys : latest'[k] = IF k = r.key /\ r.seq > latest[k] THEN r.seq ELSE latest[k]
  BY <1>1, <1>2, <1>3 DEF Row
<1>5. /\ todo'[c] = Tail(todo[c])
      /\ \A i \in DOMAIN todo'[c] : i + 1 \in DOMAIN todo[c] /\ todo'[c][i] = todo[c][i + 1]
      /\ \A i \in DOMAIN todo[c] : i = 1 \/ (i - 1 \in DOMAIN todo'[c] /\ todo'[c][i - 1] = todo[c][i])
      /\ 1 \in DOMAIN todo[c]
  BY <1>1, <1>2, <1>3
<1>6. \/ /\ pc'[c] = "flush_check" /\ todo'[c] = <<>>
         /\ tx'[c] = "open" => tx[c] = "open" /\ snap'[c] = snap[c] /\ index'[c] = index[c]
      \/ /\ pc'[c] = pc[c] /\ seen'[c] = seen[c] /\ tx'[c] = tx[c]
         /\ snap'[c] = snap[c] /\ index'[c] = index[c] /\ writes'[c] = writes[c]
  <2>1. CASE Len(todo[c]) = 1
    <3>1. pc'[c] = "flush_check"
      BY <1>1, <2>1 DEF Insert
    <3>2. Tail(todo[c]) = <<>>
      BY <1>3, <2>1, EmptySeq
    <3>3. CASE pc[c] = "commit_put"
      <4>1. tx'[c] = "committed"
        BY <1>1, <2>1, <3>3 DEF Insert, CloseTxn
      <4> QED BY <1>5, <3>1, <3>2, <4>1
    <3>4. CASE pc[c] # "commit_put"
      <4>1. UNCHANGED <<tx, snap, index>>
        BY <3>4 DEF Insert
      <4> QED BY <1>5, <3>1, <3>2, <4>1
    <3> QED BY <3>3, <3>4
  <2>2. CASE Len(todo[c]) # 1
    BY <2>2 DEF Insert
  <2> QED BY <2>1, <2>2
<1>7. \A d \in Clients \ {c} : pc'[d] = pc[d] /\ pc[d] \notin OwnsCommit
  BY <1>2 DEF Apart, TxnInv, CommitGateHeld, OwnsCommit, SharesCommit
<1>8. TicketsFresh'
  <2>1. r.seq < seq /\ \A k \in Keys : latest[k] < seq
    BY <1>3, <1>5 DEF TxnInv, TicketsFresh
  <2>2. \A k \in Keys : latest'[k] < seq'
    BY <1>2, <1>4, <2>1
  <2>3. \A d \in Clients : pc'[d] \notin Numbering => todo'[d] = <<>>
    BY <1>2, <1>6 DEF TxnInv, TicketsFresh, Apart, Numbering
  <2>4. \A d \in Clients : \A i \in DOMAIN todo'[d] : todo'[d][i].seq < seq'
    BY <1>2, <1>5 DEF TxnInv, TicketsFresh, Apart
  <2> QED BY <2>2, <2>3, <2>4 DEF TicketsFresh
<1>9. GateKeepsStore'
  <2>1. \A d \in Clients : pc'[d] \notin {"begin", "batch_gate", "commit_gate", "commit_check"}
    BY <1>2, <1>6, <1>7 DEF OwnsCommit
  <2> QED BY <2>1 DEF GateKeepsStore
<1>10. TxnPlaces'
  BY <1>2, <1>6 DEF TxnInv, TxnPlaces, Apart
<1>11. ASSUME NEW e \in Clients PROVE SnapshotCut(e)'
  <2>1. pc'[e] # "begin"
    BY <1>2, <1>6, <1>7 DEF OwnsCommit
  <2> SUFFICES ASSUME tx'[e] = "open"
               PROVE  /\ snap'[e] <= seq'
                      /\ \A d \in Clients : \A i \in DOMAIN todo'[d] : todo'[d][i].seq >= snap'[e]
                      /\ \A k \in Keys : /\ index'[e][k] < snap'[e]
                                         /\ index'[e][k] = latest'[k] \/ latest'[k] >= snap'[e]
    BY <2>1 DEF SnapshotCut
  <2>2. tx[e] = "open" /\ snap'[e] = snap[e] /\ index'[e] = index[e]
    BY <1>6 DEF Apart
  <2>3. /\ snap[e] <= seq
        /\ \A d \in Clients : \A i \in DOMAIN todo[d] : todo[d][i].seq >= snap[e]
        /\ \A k \in Keys : /\ index[e][k] < snap[e]
                           /\ index[e][k] = latest[k] \/ latest[k] >= snap[e]
    BY <2>2 DEF TxnInv, SnapshotsCut, SnapshotCut
  <2>4. \A d \in Clients : \A i \in DOMAIN todo'[d] : todo'[d][i].seq >= snap[e]
    <3> SUFFICES ASSUME NEW d \in Clients, NEW i \in DOMAIN todo'[d]
                 PROVE  todo'[d][i].seq >= snap[e]
      OBVIOUS
    <3>1. CASE d = c
      BY <1>5, <2>3, <3>1
    <3>2. CASE d # c
      BY <2>3, <3>2 DEF Apart
    <3> QED BY <3>1, <3>2
  <2>5. r.seq >= snap[e]
    BY <1>3, <1>5, <2>3
  <2>6. \A k \in Keys : index[e][k] = latest'[k] \/ latest'[k] >= snap[e]
    BY <1>1, <1>4, <2>3, <2>5
  <2> QED BY <1>2, <2>2, <2>3, <2>4, <2>6
<1>12. ASSUME NEW d \in Clients PROVE Half(d)'
  <2>1. CASE d # c \/ pc'[c] = "flush_check"
    BY <1>6, <1>7, <2>1 DEF Half, OwnsCommit
  <2>2. CASE d = c /\ pc'[c] # "flush_check"
    <3>1. /\ pc'[c] = pc[c] /\ seen'[c] = seen[c]
          /\ index'[c] = index[c] /\ writes'[c] = writes[c]
      BY <1>6, <2>2
    <3>2. seen[c] \in [Keys -> Nat]
      BY DEF StorageInv, TypeOK, TxnType
    <3>3. CASE pc[c] = "batch_put"
      <4>1. \A k \in Keys : seen[c][k] <= latest[k]
        BY <3>3 DEF TxnInv, HalfInserted, Half
      <4>2. ASSUME NEW k \in Keys PROVE seen[c][k] <= latest'[k]
        <5>1. seen[c][k] \in Nat /\ latest[k] \in Nat /\ seen[c][k] <= latest[k]
          BY <1>1, <3>2, <4>1
        <5>2. latest'[k] = IF k = r.key /\ r.seq > latest[k] THEN r.seq ELSE latest[k]
          BY <1>4
        <5>3. r.seq \in Nat
          BY <1>4
        <5> HIDE DEF r
        <5> QED BY <5>1, <5>2, <5>3
      <4> QED BY <2>2, <3>1, <3>3, <4>2 DEF Half
    <3>4. CASE pc[c] = "commit_put"
      <4>1. /\ \A k \in writes[c] : seen[c][k] = index[c][k]
            /\ \A i, j \in DOMAIN todo[c] : todo[c][i].key = todo[c][j].key => i = j
            /\ \A i \in DOMAIN todo[c] :
                todo[c][i].key \in writes[c] /\ todo[c][i].seq > seen[c][todo[c][i].key]
            /\ \A k \in Keys : IF k \in writes[c] \ Awaited(c)
                               THEN latest[k] > seen[c][k] ELSE latest[k] = seen[c][k]
        BY <3>4 DEF TxnInv, HalfInserted, Half
      <4>2. \A i, j \in DOMAIN todo'[c] : todo'[c][i].key = todo'[c][j].key => i = j
        <5> SUFFICES ASSUME NEW i \in DOMAIN todo'[c], NEW j \in DOMAIN todo'[c],
                            todo'[c][i].key = todo'[c][j].key
                     PROVE  i = j
          OBVIOUS
        <5>1. i + 1 = j + 1
          BY <1>5, <4>1
        <5>2. i \in Nat /\ j \in Nat
          BY <1>3, <1>5
        <5> QED BY <5>1, <5>2
      <4>3. \A i \in DOMAIN todo'[c] :
                todo'[c][i].key \in writes[c] /\ todo'[c][i].seq > seen[c][todo'[c][i].key]
        BY <1>5, <4>1
      <4>4. r.key \in writes[c] /\ r.seq > seen[c][r.key] /\ r.key \in Awaited(c)
        BY <1>3, <1>5, <4>1 DEF Awaited
      <4>5. \A i \in DOMAIN todo'[c] : todo'[c][i].key # r.key
        <5> SUFFICES ASSUME NEW i \in DOMAIN todo'[c], todo'[c][i].key = r.key PROVE FALSE
          OBVIOUS
        <5>1. i + 1 \in DOMAIN todo[c] /\ todo[c][i + 1].key = todo[c][1].key
          BY <1>3, <1>5
        <5>2. i + 1 = 1
          BY <1>5, <4>1, <5>1
        <5>3. i \in Nat \ {0}
          BY <1>3, <1>5
        <5> QED BY <5>2, <5>3
      <4>6. r.key \notin Awaited(c)'
        BY <4>5 DEF Awaited
      <4>7. \A k \in Keys \ {r.key} : k \in Awaited(c)' <=> k \in Awaited(c)
        <5> SUFFICES ASSUME NEW k \in Keys \ {r.key} PROVE k \in Awaited(c)' <=> k \in Awaited(c)
          OBVIOUS
        <5>1. ASSUME k \in Awaited(c)' PROVE k \in Awaited(c)
          BY <1>5, <5>1 DEF Awaited
        <5>2. ASSUME k \in Awaited(c) PROVE k \in Awaited(c)'
          <6>1. PICK i \in DOMAIN todo[c] : todo[c][i].key = k
            BY <5>2 DEF Awaited
          <6>2. i # 1
            BY <1>3, <6>1
          <6>3. i - 1 \in DOMAIN todo'[c] /\ todo'[c][i - 1].key = k
            BY <1>5, <6>1, <6>2
          <6> QED BY <6>3 DEF Awaited
        <5> QED BY <5>1, <5>2
      <4>8. ASSUME NEW k \in Keys
            PROVE  IF k \in writes[c] \ Awaited(c)'
                   THEN latest'[k] > seen[c][k] ELSE latest'[k] = seen[c][k]
        <5>1. CASE k = r.key
          <6>1. latest[k] = seen[c][k]
            BY <1>4, <4>1, <4>4, <5>1
          <6> QED BY <1>1, <1>4, <3>2, <4>4, <4>6, <5>1, <6>1
        <5>2. CASE k # r.key
          BY <1>4, <4>1, <4>7, <5>2
        <5> QED BY <5>1, <5>2
      <4> QED BY <2>2, <3>1, <3>4, <4>1, <4>2, <4>3, <4>8 DEF Half
    <3>5. CASE pc[c] = "write_put"
      BY <2>2, <3>1, <3>5 DEF Half
    <3> QED BY <1>2, <3>3, <3>4, <3>5
  <2> QED BY <2>1, <2>2
<1> QED BY <1>8, <1>9, <1>10, <1>11, <1>12 DEF SnapshotsCut, HalfInserted

\* No step breaks what is said of the transactions.
LEMMA TxnStep ==
    ASSUME StorageInv, NewestPresent', TxnInv, [Next]_vars
    PROVE  TxnInv'
<1>1. Grows
  BY StoreGrows
<1>2. CommitGateHeld'
  BY CommitGateStep DEF TxnInv
<1>3. TicketsFresh' /\ GateKeepsStore' /\ TxnPlaces' /\ SnapshotsCut' /\ HalfInserted'
  <2>1. CASE \A c \in Clients : ~ Special(c)
    BY <1>1, <2>1, PlainSteps, PlainKeeps
  <2>2. ASSUME NEW c \in Clients, Special(c)
        PROVE  TicketsFresh' /\ GateKeepsStore' /\ TxnPlaces' /\ SnapshotsCut' /\ HalfInserted'
    <3>1. Apart(c)
      BY <2>2, ClientMoves DEF Special, Start, Continue
    <3> QED BY <1>1, <2>2, <3>1, TicketSteps, GateSteps, BeginSteps, CommitNumbersStep, InsertKeeps
            DEF Special
  <2> QED BY <2>1, <2>2
<1> QED BY <1>2, <1>3 DEF TxnInv

LEMMA TxnInit == Init => TxnInv
<1> SUFFICES ASSUME Init PROVE TxnInv
  OBVIOUS
<1>1. \A c \in Clients : pc[c] = "idle" /\ tx[c] = "none" /\ todo[c] = <<>>
  BY DEF Init
<1>2. CommitGateHeld
  BY <1>1 DEF CommitGateHeld, OwnsCommit
<1>3. TicketsFresh
  BY <1>1 DEF Init, TicketsFresh, Never
<1>4. GateKeepsStore /\ TxnPlaces
  BY <1>1 DEF GateKeepsStore, TxnPlaces
<1>5. SnapshotsCut /\ HalfInserted
  BY <1>1 DEF SnapshotsCut, SnapshotCut, HalfInserted, Half
<1> QED BY <1>2, <1>3, <1>4, <1>5 DEF TxnInv

\* The gate, the numbers and the snapshots keep what they are said to keep.
THEOREM TxnCorrect == Spec => [](StorageInv /\ TxnInv)
<1>1. Init => StorageInv /\ TxnInv
  BY StorageInit, TxnInit
<1>2. StorageInv /\ TxnInv /\ [Next]_vars => (StorageInv /\ TxnInv)'
  <2> SUFFICES ASSUME StorageInv, TxnInv, [Next]_vars PROVE StorageInv' /\ TxnInv'
    OBVIOUS
  <2>1. StorageInv'
    BY StorageStep
  <2>2. NewestPresent'
    BY <2>1 DEF StorageInv
  <2> QED BY <2>1, <2>2, TxnStep
<1> QED BY <1>1, <1>2, PTL DEF Spec

-----------------------------------------------------------------------------
(* The Region implements the SnapshotStore.                                *)

\* What is visible: the store before the batch or commit that is under way,
\* all of it when none is.
LEMMA VisibleIs ==
    ASSUME StorageInv, TxnInv
    PROVE  /\ Visible \in [Keys -> Nat]
           /\ \A c \in Clients : Publishing(c) => Visible = seen[c]
           /\ (\A c \in Clients : ~ Publishing(c)) => Visible = latest
<1>1. latest \in [Keys -> Nat] /\ seen \in [Clients -> [Keys -> Nat]]
  BY DEF StorageInv, TypeOK, TxnType
<1>2. \A c, d \in Clients : Publishing(c) /\ Publishing(d) => c = d
  BY DEF TxnInv, CommitGateHeld, Publishing, OwnsCommit
<1>3. CASE \A c \in Clients : ~ Publishing(c)
  BY <1>1, <1>3 DEF Visible
<1>4. ASSUME NEW c \in Clients, Publishing(c)
      PROVE  Visible = seen[c]
  <2> DEFINE p == CHOOSE d \in Clients : Publishing(d)
  <2>1. p \in Clients /\ Publishing(p)
    BY <1>4
  <2>2. p = c
    BY <1>2, <1>4, <2>1
  <2>3. Visible = seen[p]
    BY <1>4 DEF Visible
  <2> QED BY <2>2, <2>3
<1> QED BY <1>1, <1>3, <1>4

\* The same after a step.
LEMMA VisibleIsAfter ==
    ASSUME StorageInv', TxnInv'
    PROVE  /\ Visible' \in [Keys -> Nat]
           /\ \A c \in Clients : pc'[c] \in {"batch_put", "commit_put"} => Visible' = seen'[c]
           /\ (\A c \in Clients : pc'[c] \notin {"batch_put", "commit_put"}) => Visible' = latest'
<1>1. latest' \in [Keys -> Nat] /\ seen' \in [Clients -> [Keys -> Nat]]
  BY DEF StorageInv, TypeOK, TxnType
<1> DEFINE P(c) == pc'[c] \in {"batch_put", "commit_put"}
<1>2. \A c, d \in Clients : P(c) /\ P(d) => c = d
  BY DEF TxnInv, CommitGateHeld, OwnsCommit
<1>3. Visible' = IF \E c \in Clients : P(c) THEN seen'[CHOOSE c \in Clients : P(c)] ELSE latest'
  BY DEF Visible, Publishing
<1> HIDE DEF P
<1>4. CASE \A c \in Clients : ~ P(c)
  BY <1>1, <1>3, <1>4 DEF P
<1>5. ASSUME NEW c \in Clients, P(c)
      PROVE  Visible' = seen'[c]
  <2> DEFINE p == CHOOSE d \in Clients : P(d)
  <2>1. p \in Clients /\ P(p)
    BY <1>5
  <2>2. p = c
    BY <1>2, <1>5, <2>1
  <2>3. Visible' = seen'[p]
    BY <1>3, <1>5
  <2> QED BY <2>2, <2>3
<1> QED BY <1>1, <1>4, <1>5 DEF P

\* Nothing becomes visible by a step that inserts nothing.
LEMMA VisibleStays ==
    ASSUME StorageInv, TxnInv, StorageInv', TxnInv', UNCHANGED latest, NEW c \in Clients,
           Apart(c), ~ Publishing(c), Publishing(c)' => seen'[c] = latest
    PROVE  Visible' = Visible
<1>1. \A d \in Clients \ {c} : pc'[d] = pc[d] /\ seen'[d] = seen[d]
  BY DEF Apart
<1>2. CASE Publishing(c)'
  <2>1. Visible' = latest
    BY <1>2, VisibleIsAfter DEF Publishing
  <2>2. \A d \in Clients \ {c} : ~ Publishing(d)
    BY <1>1, <1>2 DEF TxnInv, CommitGateHeld, OwnsCommit, Publishing
  <2> QED BY <2>1, <2>2, VisibleIs
<1>3. CASE ~ Publishing(c)'
  <2>1. CASE \E d \in Clients \ {c} : Publishing(d)
    BY <1>1, <2>1, VisibleIs, VisibleIsAfter DEF Publishing
  <2>2. CASE \A d \in Clients \ {c} : ~ Publishing(d)
    BY <1>1, <1>3, <2>2, VisibleIs, VisibleIsAfter DEF Publishing
  <2> QED BY <2>1, <2>2
<1> QED BY <1>2, <1>3

\* Most steps are not seen in the store at all.
LEMMA PlainStutters ==
    ASSUME StorageInv, TxnInv, StorageInv', TxnInv', Plain
    PROVE  Visible' = Visible
<1> USE DEF Plain, Elsewhere
<1>1. CASE \E d \in Clients : Publishing(d)
  <2>1. PICK d \in Clients : Publishing(d)
    BY <1>1
  <2>2. pc'[d] = pc[d] /\ seen'[d] = seen[d]
    BY <2>1 DEF Publishing
  <2> QED BY <2>1, <2>2, VisibleIs, VisibleIsAfter DEF Publishing
<1>2. CASE \A d \in Clients : ~ Publishing(d)
  <2>1. \A d \in Clients : pc'[d] \notin {"batch_put", "commit_put"}
    BY <1>2 DEF Publishing
  <2> QED BY <1>2, <2>1, VisibleIs, VisibleIsAfter
<1> QED BY <1>1, <1>2

\* Writers at the gates, and transactions that begin or number their rows.
LEMMA GatesStutter ==
    ASSUME StorageInv, TxnInv, StorageInv', TxnInv', NEW c \in Clients, Apart(c),
           TakeTicket(c) \/ TakeTickets(c) \/ EnterWriteGate(c) \/ BeginSnapshot(c)
           \/ BeginFails(c) \/ CommitLock(c) \/ CommitNumbers(c)
    PROVE  UNCHANGED <<Visible, tx, index, writes>>
<1> USE DEF store, back, disk, getter, scan, txn, Go
<1>1. /\ pc \in [Clients -> Locations] /\ DOMAIN seen = Clients
  BY DEF StorageInv, TypeOK, CallType, TxnType
<1>2. UNCHANGED <<tx, index, writes, latest>>
  BY DEF TakeTicket, TakeTickets, EnterWriteGate, BeginSnapshot, BeginFails, CommitLock,
         CommitNumbers
<1>3. /\ ~ Publishing(c)
      /\ Publishing(c)' => seen'[c] = seen[c] /\ pc[c] \in {"batch_gate", "commit_check"}
  BY <1>1 DEF TakeTicket, TakeTickets, EnterWriteGate, BeginSnapshot, BeginFails, CommitLock,
         CommitNumbers, Publishing
<1>4. Publishing(c)' => seen'[c] = latest
  BY <1>3 DEF TxnInv, GateKeepsStore
<1>5. Visible' = Visible
  BY <1>2, <1>3, <1>4, VisibleStays
<1> QED BY <1>2, <1>5

\* What a transaction does other than inserting.
LEMMA TxnImplements ==
    ASSUME StorageInv, TxnInv, StorageInv', TxnInv', NEW c \in Clients, Apart(c),
           BeginIndexes(c) \/ TxnWrite(c) \/ CloseIdle(c) \/ CommitConflicts(c) \/ CommitFails(c)
    PROVE  Store!Next
<1> USE DEF store, back, disk, getter, scan, txn, Go
<1>1. /\ pc \in [Clients -> Locations] /\ latest \in [Keys -> Nat]
      /\ writes \in [Clients -> SUBSET Keys]
  BY DEF StorageInv, TypeOK, CallType, TxnType
<1>2. Visible \in [Keys -> Nat]
  BY VisibleIs
<1>3. Visible' = Visible
  <2>1. UNCHANGED latest /\ ~ Publishing(c) /\ ~ Publishing(c)'
    BY <1>1 DEF BeginIndexes, TxnWrite, CloseIdle, CommitConflicts, CommitFails, CommitLeaves,
                Publishing
  <2> QED BY <2>1, VisibleStays
<1>4. pc[c] \in {"begin", "commit_check"} => Visible = latest
  <2> SUFFICES ASSUME pc[c] \in {"begin", "commit_check"}
               PROVE  \A d \in Clients : ~ Publishing(d)
    BY VisibleIs
  <2> QED BY DEF TxnInv, CommitGateHeld, OwnsCommit, Publishing
<1>5. CASE BeginIndexes(c)
  <2>1. /\ pc[c] = "begin" /\ tx[c] # "open" /\ tx' = [tx EXCEPT ![c] = "open"] /\ writes' = writes
        /\ index' = [index EXCEPT ![c] =
                [k \in Keys |-> Newest(k, {r \in Contents(view[c]) : r.seq < snap[c]})]]
    BY <1>5 DEF BeginIndexes, TxnInv, TxnPlaces
  <2>2. [k \in Keys |-> Newest(k, {r \in Contents(view[c]) : r.seq < snap[c]})] = latest
    <3>1. \A k \in Keys : Newest(k, {r \in Contents(view[c]) : r.seq < snap[c]}) = latest[k]
      BY <2>1, IndexIsLatest
    <3> QED BY <1>1, <3>1
  <2>3. index' = [index EXCEPT ![c] = Visible]
    BY <1>4, <2>1, <2>2
  <2>4. Store!Begin(c)
    BY <1>3, <2>1, <2>3 DEF Store!Begin
  <2> QED BY <2>4 DEF Store!Next
<1>6. CASE TxnWrite(c)
  <2>1. /\ tx[c] = "open" /\ UNCHANGED <<tx, index>>
        /\ \E k \in Keys : writes' = [writes EXCEPT ![c] = @ \cup {k}]
    BY <1>6 DEF TxnWrite
  <2>2. \E k \in Keys : Store!TxnWrite(c, k)
    BY <1>3, <2>1 DEF Store!TxnWrite
  <2> QED BY <2>2 DEF Store!Next
<1>7. CASE CloseIdle(c)
  <2>1. tx[c] = "open"
    BY <1>7 DEF CloseIdle
  <2>2. CASE CloseTxn(c, "none")
    <3>1. Store!Abandon(c)
      BY <1>3, <2>1, <2>2 DEF Store!Abandon, Store!Close, CloseTxn, Never
    <3> QED BY <3>1 DEF Store!Next
  <2>3. CASE writes[c] = {} /\ CloseTxn(c, "committed")
    <3>1. Store!Close(c, "committed")
      BY <2>3 DEF Store!Close, CloseTxn, Never
    <3>2. Store!Publish(writes[c])
      BY <1>2, <1>3, <2>3 DEF Store!Publish
    <3>3. Store!Commit(c)
      BY <2>1, <2>3, <3>1, <3>2 DEF Store!Commit
    <3> QED BY <3>3 DEF Store!Next
  <2> QED BY <1>7, <2>2, <2>3 DEF CloseIdle
<1>8. CASE CommitConflicts(c)
  <2>1. pc[c] = "commit_check" /\ tx[c] = "open" /\ CloseTxn(c, "conflict")
    BY <1>8 DEF CommitConflicts, CommitLeaves, TxnInv, TxnPlaces
  <2>2. PICK k \in writes[c] : Conflict(c, k)
    BY <1>8 DEF CommitConflicts
  <2>3. PICK r \in Contents(view[c]) : r.key = k /\ r.seq >= snap[c]
    BY <2>2 DEF Conflict
  <2>4. r \in Row /\ r.seq <= latest[r.key]
    BY <2>1, InReach
  <2>5. latest[k] # index[c][k]
    <3>1. /\ k \in Keys /\ latest[k] \in Nat /\ snap[c] \in Nat /\ index[c][k] \in Nat
          /\ r.seq \in Nat
      BY <1>1, <2>4 DEF StorageInv, TypeOK, TxnType, Row
    <3>2. index[c][k] < snap[c]
      BY <2>1, <3>1 DEF TxnInv, SnapshotsCut, SnapshotCut
    <3> QED BY <2>3, <2>4, <3>1, <3>2
  <2>6. Store!Changed(c, k)
    BY <1>4, <2>1, <2>5 DEF Store!Changed
  <2>7. Store!Reject(c)
    BY <1>3, <2>1, <2>6 DEF Store!Reject, Store!Close, CloseTxn, Never
  <2> QED BY <2>7 DEF Store!Next
<1>9. CASE CommitFails(c)
  <2>1. tx[c] = "open" /\ CloseTxn(c, "failed")
    BY <1>9 DEF CommitFails, CommitLeaves, TxnInv, TxnPlaces
  <2>2. Store!Abandon(c)
    BY <1>3, <2>1 DEF Store!Abandon, Store!Close, CloseTxn, Never
  <2> QED BY <2>2 DEF Store!Next
<1> QED BY <1>5, <1>6, <1>7, <1>8, <1>9

\* A write publishes its row, a batch or a commit all of its rows with the last.
LEMMA InsertImplements ==
    ASSUME StorageInv, TxnInv, StorageInv', TxnInv', NEW c \in Clients, Apart(c), Insert(c)
    PROVE  Store!Next \/ UNCHANGED <<Visible, tx, index, writes>>
<1> USE DEF store, back, disk, getter, scan, txn, Go
<1> DEFINE r == Head(todo[c])
<1>1. /\ pc \in [Clients -> Locations] /\ latest \in [Keys -> Nat] /\ seen \in [Clients -> [Keys -> Nat]]
      /\ writes[c] \in SUBSET Keys /\ latest' \in [Keys -> Nat]
  BY DEF StorageInv, TypeOK, CallType, TxnType
<1>2. /\ pc[c] \in {"write_put", "batch_put", "commit_put"}
      /\ latest' = [latest EXCEPT ![r.key] = IF r.seq > @ THEN r.seq ELSE @]
  BY DEF Insert
<1>3. /\ r \in Row /\ r = todo[c][1] /\ Len(todo[c]) \in Nat \ {0}
      /\ DOMAIN todo[c] = 1 .. Len(todo[c])
  <2>1. todo[c] # <<>> /\ todo[c] \in Seq(Row)
    <3> HIDE DEF Row
    <3> QED BY <1>2 DEF StorageInv, TypeOK, CallType, WorkAhead
  <2> HIDE DEF Row
  <2> QED BY <2>1, TailFacts
<1>4. /\ r.key \in Keys /\ r.seq \in Nat
      /\ \A k \in Keys : latest'[k] = IF k = r.key /\ r.seq > latest[k] THEN r.seq ELSE latest[k]
  BY <1>1, <1>2, <1>3 DEF Row
<1>5. \A k \in Keys : latest[k] \in Nat /\ latest'[k] \in Nat /\ latest[k] <= latest'[k]
  <2> HIDE DEF r
  <2> SUFFICES ASSUME NEW k \in Keys
               PROVE  latest[k] \in Nat /\ latest'[k] \in Nat /\ latest[k] <= latest'[k]
    OBVIOUS
  <2> QED BY <1>1, <1>4
<1>6. \A d \in Clients \ {c} : pc'[d] = pc[d] /\ pc[d] \notin OwnsCommit
  BY <1>2 DEF Apart, TxnInv, CommitGateHeld, OwnsCommit, SharesCommit
<1>7. ASSUME NEW old \in [Keys -> Nat], Visible = old, Visible' = latest',
             \A k \in Keys : old[k] <= latest[k], UNCHANGED <<tx, index, writes>>
      PROVE  Store!Next
  <2> DEFINE W == {k \in Keys : latest'[k] > old[k]}
  <2>1. ASSUME NEW k \in Keys
        PROVE  IF k \in W THEN latest'[k] > old[k] ELSE latest'[k] = old[k]
    <3>1. old[k] \in Nat /\ old[k] <= latest[k]
      BY <1>7
    <3> QED BY <1>5, <3>1
  <2>2. W \in SUBSET Keys
    OBVIOUS
  <2> HIDE DEF W
  <2>3. Store!Publish(W)
    BY <1>1, <1>7, <2>1 DEF Store!Publish
  <2>4. Store!Put
    BY <1>7, <2>2, <2>3 DEF Store!Put
  <2> QED BY <2>4 DEF Store!Next
<1>8. CASE pc[c] = "write_put"
  <2>1. pc'[c] \in {"write_put", "flush_check"} /\ UNCHANGED <<tx, index, writes>>
    BY <1>1, <1>8 DEF Insert
  <2>2. Visible = latest /\ Visible' = latest'
    BY <1>6, <1>8, <2>1, VisibleIs, VisibleIsAfter DEF Publishing, OwnsCommit
  <2>3. Store!Next
    BY <1>1, <1>5, <1>7, <2>1, <2>2
  <2> QED BY <2>3
<1>9. CASE pc[c] \in {"batch_put", "commit_put"} /\ Len(todo[c]) # 1
  <2>1. pc'[c] = pc[c] /\ seen'[c] = seen[c] /\ UNCHANGED <<tx, index, writes>>
    BY <1>9 DEF Insert
  <2>2. Visible = seen[c] /\ Visible' = seen[c]
    BY <1>9, <2>1, VisibleIs, VisibleIsAfter DEF Publishing
  <2> QED BY <2>1, <2>2
<1>10. CASE pc[c] \in {"batch_put", "commit_put"} /\ Len(todo[c]) = 1
  <2>1. pc'[c] = "flush_check"
    BY <1>1, <1>10 DEF Insert
  <2>2. Visible = seen[c] /\ Visible' = latest'
    BY <1>6, <1>10, <2>1, VisibleIs, VisibleIsAfter DEF Publishing, OwnsCommit
  <2>3. CASE pc[c] = "batch_put"
    <3>1. UNCHANGED <<tx, index, writes>>
      BY <2>3 DEF Insert
    <3>2. \A k \in Keys : seen[c][k] <= latest[k]
      BY <2>3 DEF TxnInv, HalfInserted, Half
    <3>3. Store!Next
      BY <1>1, <1>7, <2>2, <3>1, <3>2
    <3> QED BY <3>3
  <2>4. CASE pc[c] = "commit_put"
    <3>1. /\ \A k \in writes[c] : seen[c][k] = index[c][k]
          /\ \A i \in DOMAIN todo[c] :
                todo[c][i].key \in writes[c] /\ todo[c][i].seq > seen[c][todo[c][i].key]
          /\ \A k \in Keys : IF k \in writes[c] \ Awaited(c)
                             THEN latest[k] > seen[c][k] ELSE latest[k] = seen[c][k]
      BY <2>4 DEF TxnInv, HalfInserted, Half
    <3>2. DOMAIN todo[c] = {1}
      BY <1>3, <1>10
    <3>3. r.key \in writes[c] /\ r.seq > seen[c][r.key] /\ Awaited(c) = {r.key}
      BY <1>3, <3>1, <3>2 DEF Awaited
    <3>4. ASSUME NEW k \in Keys
          PROVE  IF k \in writes[c] THEN latest'[k] > seen[c][k] ELSE latest'[k] = seen[c][k]
      <4>1. seen[c][k] \in Nat
        BY <1>1
      <4>2. CASE k = r.key
        <5>1. latest[k] = seen[c][k]
          BY <3>1, <3>3, <4>2
        <5> QED BY <1>4, <3>3, <4>1, <4>2, <5>1
      <4>3. CASE k # r.key
        <5>1. latest'[k] = latest[k]
          BY <1>4, <4>3
        <5>2. k \in writes[c] \ Awaited(c) <=> k \in writes[c]
          BY <3>3, <4>3
        <5> QED BY <3>1, <5>1, <5>2
      <4> QED BY <4>2, <4>3
    <3>5. tx[c] = "open" /\ CloseTxn(c, "committed")
      BY <1>10, <2>4 DEF TxnInv, TxnPlaces, Insert
    <3>6. Store!Close(c, "committed")
      BY <3>5 DEF Store!Close, CloseTxn, Never
    <3>7. Store!Publish(writes[c])
      BY <1>1, <2>2, <3>4 DEF Store!Publish
    <3>8. \A k \in writes[c] : ~ Store!Changed(c, k)
      BY <2>2, <3>1 DEF Store!Changed
    <3>9. Store!Commit(c)
      BY <3>5, <3>6, <3>7, <3>8 DEF Store!Commit
    <3> QED BY <3>9 DEF Store!Next
  <2> QED BY <1>10, <2>3, <2>4
<1> QED BY <1>2, <1>8, <1>9, <1>10

\* Every step of the Region is a step of the store or none at all.
LEMMA StoreStep ==
    ASSUME StorageInv, TxnInv, StorageInv', TxnInv', [Next]_vars
    PROVE  Store!Next \/ UNCHANGED <<Visible, tx, index, writes>>
<1>1. CASE \A c \in Clients : ~ Special(c)
  <2>1. Plain
    BY <1>1, PlainSteps
  <2>2. UNCHANGED <<tx, index, writes>>
    BY <2>1 DEF Plain, txn
  <2> QED BY <2>1, <2>2, PlainStutters
<1>2. ASSUME NEW c \in Clients, Special(c)
      PROVE  Store!Next \/ UNCHANGED <<Visible, tx, index, writes>>
  <2>1. Apart(c)
    BY <1>2, ClientMoves DEF Special, Start, Continue
  <2>2. CASE Insert(c)
    BY <2>1, <2>2, InsertImplements
  <2>3. CASE BeginIndexes(c) \/ TxnWrite(c) \/ CloseIdle(c) \/ CommitConflicts(c) \/ CommitFails(c)
    BY <2>1, <2>3, TxnImplements
  <2>4. CASE TakeTicket(c) \/ TakeTickets(c) \/ EnterWriteGate(c) \/ BeginSnapshot(c)
             \/ BeginFails(c) \/ CommitLock(c) \/ CommitNumbers(c)
    BY <2>1, <2>4, GatesStutter
  <2> QED BY <1>2, <2>2, <2>3, <2>4 DEF Special
<1> QED BY <1>1, <1>2

\* The Region implements the snapshot store: whatever the interleaving of
\* writers, transactions, freezes, flushes and compactions, a transaction reads
\* the store as it was at one instant, its commit is atomic, the first committer
\* wins and a conflict is reported only when there is one
\* (memtable.rs:559-590, 592-633; transaction.rs:46-87).
THEOREM RegionImplementsStore == Spec => ImplementsStore
<1>1. Init => Store!Init
  <2> SUFFICES ASSUME Init PROVE Store!Init
    OBVIOUS
  <2>1. \A c \in Clients : ~ Publishing(c)
    BY DEF Init, Publishing
  <2>2. Visible = [k \in Keys |-> 0]
    BY <2>1 DEF Visible, Init, Never
  <2> QED BY <2>2 DEF Store!Init, Init, Never
<1>2. StorageInv /\ TxnInv /\ (StorageInv /\ TxnInv)' /\ [Next]_vars => [Store!Next]_(Store!vars)
  BY StoreStep DEF Store!vars
<1> QED BY <1>1, <1>2, TxnCorrect, PTL DEF Spec, ImplementsStore, Store!Spec

-----------------------------------------------------------------------------
(***************************************************************************)
(* get() and scans: whatever is written, frozen, flushed or compacted      *)
(* meanwhile, they do not miss what was there when they began.             *)
(***************************************************************************)

-----------------------------------------------------------------------------
(* Steps that are none of a reader.                                        *)

\* Client d goes on reading nothing, or stays where it is with all it has.
Still(d) ==
    /\ key'[d] = key[d] /\ best'[d] = best[d] /\ unread'[d] = unread[d] /\ found'[d] = found[d]
    /\ \/ pc'[d] = pc[d] /\ view'[d] = view[d] /\ seen'[d] = seen[d]
       \/ /\ pc[d] \notin {"get_active", "get_imm", "get_sst", "got", "scan_shards", "scanned",
                           "failed"}
          /\ pc'[d] \notin {"get_active", "get_imm", "get_sst", "got", "scan_shards", "scanned"}

Reading(c) ==
    \/ GetStart(c) \/ GetActive(c) \/ GetImm(c) \/ GetSst(c) \/ GetFails(c)
    \/ ScanStart(c) \/ ScanShard(c) \/ ScanRest(c) \/ ScanFails(c) \/ Return(c)

LEMMA StillSteps ==
    ASSUME StorageInv, [Next]_vars, NEW d \in Clients, ~ Reading(d)
    PROVE  Still(d)
<1> USE DEF Still, store, back, disk, getter, scan, txn, Go
<1>1. CASE UNCHANGED vars
  BY <1>1 DEF vars
<1>2. CASE Worker
  BY <1>2, WorkerMoves DEF WorkerApart
<1>3. ASSUME NEW c \in Clients, Start(c) \/ Continue(c), c # d PROVE Still(d)
  BY <1>3, ClientMoves DEF Apart
<1>4. CASE Start(d) \/ Continue(d)
  <2>1. pc \in [Clients -> Locations]
    BY DEF StorageInv, TypeOK, CallType
  <2>2. CASE TakeTicket(d) \/ TakeTickets(d) \/ EnterWriteGate(d)
    BY <2>1, <2>2 DEF TakeTicket, TakeTickets, EnterWriteGate
  <2>3. CASE Insert(d)
    BY <2>1, <2>3 DEF Insert
  <2>4. CASE BeginSnapshot(d) \/ BeginFails(d) \/ BeginIndexes(d)
    BY <2>1, <2>4 DEF BeginSnapshot, BeginFails, BeginIndexes
  <2>5. CASE TxnWrite(d) \/ CloseIdle(d) \/ CommitLock(d)
    BY <2>1, <2>5 DEF TxnWrite, CloseIdle, CommitLock
  <2>6. CASE CommitConflicts(d) \/ CommitFails(d) \/ CommitNumbers(d)
    BY <2>1, <2>6 DEF CommitConflicts, CommitFails, CommitNumbers, CommitLeaves
  <2>7. CASE MaybeFlush(d) \/ FlushCall(d) \/ CompactCall(d) \/ MaybeCompact(d)
    BY <2>1, <2>7 DEF MaybeFlush, FlushCall, CompactCall, MaybeCompact
  <2>8. CASE FreezeNothing(d) \/ FreezeCopy(d) \/ FreezeSwap(d) \/ BarrierReturns(d)
    BY <2>1, <2>8 DEF FreezeNothing, FreezeCopy, FreezeSwap, BarrierReturns, AfterFreeze
  <2>9. CASE EnqueueFlush(d) \/ EnqueueCompact(d) \/ EnqueueSync(d)
    BY <2>1, <2>9 DEF EnqueueFlush, EnqueueCompact, EnqueueSync, AfterFreeze
  <2> QED BY <1>4, <2>2, <2>3, <2>4, <2>5, <2>6, <2>7, <2>8, <2>9 DEF Start, Continue, Reading
<1> QED BY <1>1, <1>2, <1>3, <1>4 DEF Next

\* What is visible never goes back to an older version.
LEMMA VisibleGrows ==
    ASSUME StorageInv, TxnInv, StorageInv', TxnInv', [Next]_vars
    PROVE  \A k \in Keys : Visible[k] \in Nat /\ Visible'[k] \in Nat /\ Visible[k] <= Visible'[k]
<1>1. Visible \in [Keys -> Nat] /\ Visible' \in [Keys -> Nat]
  BY VisibleIs, VisibleIsAfter
<1>2. CASE Visible' = Visible
  <2> SUFFICES ASSUME NEW k \in Keys
               PROVE  Visible[k] \in Nat /\ Visible'[k] \in Nat /\ Visible[k] <= Visible'[k]
    OBVIOUS
  <2>1. Visible[k] \in Nat
    BY <1>1
  <2> QED BY <1>2, <2>1
<1>3. ASSUME NEW W, Store!Publish(W)
      PROVE  \A k \in Keys : Visible[k] \in Nat /\ Visible'[k] \in Nat /\ Visible[k] <= Visible'[k]
  <2> SUFFICES ASSUME NEW k \in Keys
               PROVE  Visible[k] \in Nat /\ Visible'[k] \in Nat /\ Visible[k] <= Visible'[k]
    OBVIOUS
  <2>1. Visible[k] \in Nat /\ Visible'[k] \in Nat
    BY <1>1
  <2>2. Visible'[k] > Visible[k] \/ Visible'[k] = Visible[k]
    BY <1>3 DEF Store!Publish
  <2> QED BY <2>1, <2>2
<1>4. CASE Store!Next
  <2>1. CASE Store!Put
    BY <1>3, <2>1 DEF Store!Put
  <2>2. ASSUME NEW c \in Clients, Store!Commit(c)
        PROVE  \A k \in Keys : Visible[k] \in Nat /\ Visible'[k] \in Nat /\ Visible[k] <= Visible'[k]
    BY <1>3, <2>2 DEF Store!Commit
  <2>3. ASSUME NEW c \in Clients,
               \/ Store!Begin(c) \/ (\E k \in Keys : Store!TxnWrite(c, k))
               \/ Store!Reject(c) \/ Store!Abandon(c)
        PROVE  Visible' = Visible
    BY <2>3 DEF Store!Begin, Store!TxnWrite, Store!Reject, Store!Abandon
  <2> QED BY <1>2, <1>4, <2>1, <2>2, <2>3 DEF Store!Next
<1> QED BY <1>2, <1>4, StoreStep

-----------------------------------------------------------------------------
(* Scans.                                                                  *)

\* What ScanInv says of one client.
ScanOf(c) ==
    /\ pc[c] \notin {"scan_shards", "scanned", "failed"} => found[c] = Never
    /\ Scanning(c)
    /\ pc[c] \in {"scan_shards", "scanned"} => \A k \in Keys :
        /\ pc[c] = "scanned" => seen[c][k] <= found[c][k]
        /\ found[c][k] <= Visible[k]

LEMMA ScanParts == ScanInv <=> \A c \in Clients : ScanOf(c)
BY DEF ScanInv, ScanOf, ScanKeepsUp

LEMMA ScanPartsAfter == ScanInv' <=> \A c \in Clients : ScanOf(c)'
BY DEF ScanInv, ScanOf, ScanKeepsUp

\* The others' steps do a scan no harm.
LEMMA ScanKept ==
    ASSUME StorageInv, TxnInv, Grows, NEW d \in Clients, ScanOf(d), Still(d),
           \A k \in Keys : Visible[k] \in Nat /\ Visible'[k] \in Nat /\ Visible[k] <= Visible'[k]
    PROVE  ScanOf(d)'
<1>1. pc'[d] \notin {"scan_shards", "scanned", "failed"} => found'[d] = Never
  BY DEF Still, ScanOf
<1>2. Scanning(d)'
  <2> SUFFICES ASSUME pc'[d] = "scan_shards", NEW k \in Keys, seen'[d][k] > 0
               PROVE  IF k \in unread'[d] THEN Held(d, k)' \in Contents(view[d])'
                      ELSE \/ seen'[d][k] <= found'[d][k]
                           \/ \E g \in view'[d].imm : Held(d, k)' \in frozen'[g]
                           \/ \E i \in view'[d].ssts : Held(d, k)' \in sst'[i]
    BY DEF Scanning, HeldFrozen, HeldOnDisk
  <2>1. /\ pc[d] = "scan_shards" /\ view'[d] = view[d] /\ seen'[d] = seen[d]
        /\ unread'[d] = unread[d] /\ found'[d] = found[d]
    BY DEF Still
  <2>2. Held(d, k)' = Held(d, k)
    BY <2>1 DEF Held
  <2>3. CASE k \in unread[d]
    <3>1. Held(d, k) \in Contents(view[d])
      BY <2>1, <2>3 DEF ScanOf, Scanning
    <3> QED BY <2>1, <2>2, <2>3, <3>1, ViewKeeps
  <2>4. CASE k \notin unread[d]
    <3>1. seen[d][k] <= found[d][k] \/ HeldFrozen(d, k) \/ HeldOnDisk(d, k)
      BY <2>1, <2>4 DEF ScanOf, Scanning
    <3>2. view[d].imm \subseteq DOMAIN frozen /\ view[d].ssts \subseteq DOMAIN sst
      BY DEF StorageInv, ViewsExist
    <3> QED BY <2>1, <2>2, <2>4, <3>1, <3>2 DEF HeldFrozen, HeldOnDisk, Grows
  <2> QED BY <2>3, <2>4
<1>3. ASSUME pc'[d] \in {"scan_shards", "scanned"}, NEW k \in Keys
      PROVE  (pc'[d] = "scanned" => seen'[d][k] <= found'[d][k]) /\ found'[d][k] <= Visible'[k]
  <2>1. pc'[d] = pc[d] /\ seen'[d] = seen[d] /\ found'[d] = found[d]
    BY <1>3 DEF Still
  <2>2. (pc[d] = "scanned" => seen[d][k] <= found[d][k]) /\ found[d][k] <= Visible[k]
    BY <1>3, <2>1 DEF ScanOf
  <2>3. found[d][k] \in Nat
    BY DEF StorageInv, TypeOK, CallType
  <2>4. Visible[k] \in Nat /\ Visible'[k] \in Nat /\ Visible[k] <= Visible'[k]
    OBVIOUS
  <2> QED BY <2>1, <2>2, <2>3, <2>4
<1> QED BY <1>1, <1>2, <1>3 DEF ScanOf

\* In rows no newer than latest the newest of a key is no older than any.
LEMMA NewestAmong ==
    ASSUME StorageInv, NEW R \in SUBSET Row, \A r \in R : r.seq <= latest[r.key],
           NEW k \in Keys
    PROVE  /\ Newest(k, R) \in Nat /\ Newest(k, R) <= latest[k]
           /\ \A n \in Nat : [key |-> k, seq |-> n] \in R => n <= Newest(k, R)
<1>1. latest[k] \in Nat
  BY DEF StorageInv, TypeOK, TxnType
<1>2. /\ Newest(k, R) \in Nat
      /\ SeqsOf(k, R) # {} => IsLargest(Newest(k, R), SeqsOf(k, R))
  BY NewestBounded DEF StorageInv, TypeOK
<1>3. \A n \in SeqsOf(k, R) : n <= latest[k]
  BY DEF SeqsOf
<1>4. Newest(k, R) <= latest[k]
  <2>1. CASE SeqsOf(k, R) = {}
    BY <1>1, <2>1 DEF Newest
  <2>2. CASE SeqsOf(k, R) # {}
    BY <1>2, <1>3, <2>2 DEF IsLargest
  <2> QED BY <2>1, <2>2
<1>5. ASSUME NEW n \in Nat, [key |-> k, seq |-> n] \in R PROVE n <= Newest(k, R)
  <2>1. n \in SeqsOf(k, R)
    BY <1>5 DEF SeqsOf
  <2> QED BY <1>2, <2>1 DEF IsLargest
<1> QED BY <1>2, <1>4, <1>5

\* While a client shares the commit gate nothing is half inserted.
LEMMA SharedSeesAll ==
    ASSUME StorageInv, TxnInv, NEW c \in Clients, pc[c] \in SharesCommit
    PROVE  Visible = latest
<1>1. \A d \in Clients : ~ Publishing(d)
  BY DEF TxnInv, CommitGateHeld, OwnsCommit, SharesCommit, Publishing
<1> QED BY <1>1, VisibleIs

\* A scan begins with the whole store in reach.
LEMMA ScanBegins ==
    ASSUME StorageInv, TxnInv, StorageInv', TxnInv', NEW c \in Clients, ScanOf(c), ScanStart(c)
    PROVE  ScanOf(c)'
<1> USE DEF store, back, disk, getter, scan, txn, Go
<1>1. /\ pc \in [Clients -> Locations] /\ DOMAIN view = Clients /\ DOMAIN seen = Clients
      /\ DOMAIN unread = Clients
  BY DEF StorageInv, TypeOK, CallType, TxnType
<1>2. /\ pc[c] = "idle" /\ pc'[c] = "scan_shards" /\ view'[c] = version /\ unread'[c] = Keys
      /\ seen'[c] = latest /\ UNCHANGED <<mem, frozen, sst, version, found, latest>>
  BY <1>1 DEF ScanStart
<1>3. Scanning(c)'
  <2> SUFFICES ASSUME NEW k \in Keys, latest[k] > 0
               PROVE  Held(c, k)' \in Contents(view[c])'
    BY <1>2 DEF Scanning
  <2>1. [key |-> k, seq |-> latest[k]] \in Contents(version)
    BY DEF StorageInv, NewestPresent
  <2> QED BY <1>2, <2>1 DEF Held, Contents
<1>4. \A k \in Keys : found'[c][k] <= Visible'[k]
  <2>1. found'[c] = Never
    BY <1>2 DEF ScanOf
  <2>2. Visible' \in [Keys -> Nat]
    BY VisibleIsAfter
  <2> SUFFICES ASSUME NEW k \in Keys PROVE found'[c][k] <= Visible'[k]
    OBVIOUS
  <2>3. found'[c][k] = 0 /\ Visible'[k] \in Nat
    BY <2>1, <2>2 DEF Never
  <2> QED BY <2>3
<1> QED BY <1>2, <1>3, <1>4 DEF ScanOf

\* Reading a shard, it comes across the row it has to find, or will yet.
LEMMA ScanReads ==
    ASSUME StorageInv, TxnInv, StorageInv', TxnInv', NEW c \in Clients, ScanOf(c), ScanShard(c)
    PROVE  ScanOf(c)'
<1> USE DEF store, back, disk, getter, scan, txn, Go
<1>1. /\ unread \in [Clients -> SUBSET Keys] /\ found \in [Clients -> [Keys -> Nat]]
      /\ seen \in [Clients -> [Keys -> Nat]]
  BY DEF StorageInv, TypeOK, CallType, TxnType
<1>2. /\ pc[c] = "scan_shards" /\ UNCHANGED <<pc, view, seen, mem, frozen, sst, latest>>
  BY DEF ScanShard
<1>3. PICK k \in unread[c] :
        /\ unread' = [unread EXCEPT ![c] = @ \ {k}]
        /\ found' = [found EXCEPT ![c][k] = Newest(k, mem[view[c].active])]
  BY DEF ScanShard
<1> DEFINE R == mem[view[c].active]
           n == Newest(k, R)
<1>4. k \in Keys /\ unread'[c] = unread[c] \ {k}
      /\ \A j \in Keys : found'[c][j] = IF j = k THEN n ELSE found[c][j]
  BY <1>1, <1>3
<1>5. /\ n \in Nat /\ n <= latest[k]
      /\ \A m \in Nat : [key |-> k, seq |-> m] \in R => m <= n
  <2>1. view[c].active \in DOMAIN mem
    BY <1>2 DEF StorageInv, ViewsExist
  <2>2. R \in SUBSET Row /\ \A r \in R : r.seq <= latest[r.key]
    BY <2>1, BoundedRows
  <2> HIDE DEF R
  <2> QED BY <1>4, <2>2, NewestAmong
<1>6. Visible' = Visible /\ Visible = latest
  <2>1. Visible = latest
    BY <1>2, SharedSeesAll DEF SharesCommit
  <2>2. \A d \in Clients : pc'[d] \notin {"batch_put", "commit_put"}
    BY <1>2 DEF TxnInv, CommitGateHeld, OwnsCommit, SharesCommit
  <2> QED BY <1>2, <2>1, <2>2, VisibleIsAfter
<1>7. Scanning(c)'
  <2> SUFFICES ASSUME NEW j \in Keys, seen[c][j] > 0
               PROVE  IF j \in unread'[c] THEN Held(c, j) \in Contents(view[c])
                      ELSE seen[c][j] <= found'[c][j] \/ HeldFrozen(c, j) \/ HeldOnDisk(c, j)
    BY <1>2 DEF Scanning, HeldFrozen, HeldOnDisk, Held, Contents
  <2>1. CASE j # k
    BY <1>2, <1>4, <2>1 DEF ScanOf, Scanning
  <2>2. CASE j = k
    <3>1. Held(c, k) \in Contents(view[c])
      BY <1>2, <1>3, <2>2 DEF ScanOf, Scanning
    <3>2. Held(c, k) \in R \/ HeldFrozen(c, k) \/ HeldOnDisk(c, k)
      BY <3>1, InContents DEF HeldFrozen, HeldOnDisk
    <3>3. Held(c, k) \in R => seen[c][k] <= n
      BY <1>1, <1>4, <1>5 DEF Held
    <3> QED BY <1>4, <2>2, <3>2, <3>3
  <2> QED BY <2>1, <2>2
<1>8. \A j \in Keys : found[c][j] <= Visible[j]
  BY <1>2 DEF ScanOf
<1>9. \A j \in Keys : found'[c][j] <= Visible'[j]
  <2> HIDE DEF n, R
  <2> QED BY <1>4, <1>5, <1>6, <1>8
<1> QED BY <1>2, <1>7, <1>9 DEF ScanOf

\* With the shards and the immutable sources read, it has come across all.
LEMMA ScanEnds ==
    ASSUME StorageInv, TxnInv, StorageInv', TxnInv', NEW c \in Clients, ScanOf(c), ScanRest(c)
    PROVE  ScanOf(c)'
<1> USE DEF store, back, disk, getter, scan, txn, Go
<1> DEFINE R == (UNION {frozen[g] : g \in view[c].imm}) \cup (UNION {sst[i] : i \in view[c].ssts})
           n(k) == Newest(k, R)
<1>1. /\ pc \in [Clients -> Locations] /\ found \in [Clients -> [Keys -> Nat]]
      /\ seen \in [Clients -> [Keys -> Nat]]
  BY DEF StorageInv, TypeOK, CallType, TxnType
<1>2. /\ pc[c] = "scan_shards" /\ pc' = [pc EXCEPT ![c] = "scanned"] /\ unread[c] = {}
      /\ UNCHANGED <<seen, latest>>
      /\ found' = [found EXCEPT ![c] = [k \in Keys |-> Newer(found[c][k], n(k))]]
  BY DEF ScanRest
<1>3. R \in SUBSET Row /\ \A r \in R : r.seq <= latest[r.key]
  <2>1. view[c].imm \subseteq DOMAIN frozen /\ view[c].ssts \subseteq DOMAIN sst
    BY DEF StorageInv, ViewsExist
  <2> HIDE DEF Row
  <2> QED BY <2>1, BoundedRows
<1>4. \A k \in Keys : HeldFrozen(c, k) \/ HeldOnDisk(c, k) => Held(c, k) \in R
  BY DEF HeldFrozen, HeldOnDisk
<1> HIDE DEF R
<1>5. \A k \in Keys : /\ n(k) \in Nat /\ n(k) <= latest[k]
                      /\ \A m \in Nat : [key |-> k, seq |-> m] \in R => m <= n(k)
  BY <1>3, NewestAmong
<1>6. Visible' = Visible /\ Visible = latest
  <2>1. Visible = latest
    BY <1>2, SharedSeesAll DEF SharesCommit
  <2>2. \A d \in Clients : pc'[d] \notin {"batch_put", "commit_put"}
    BY <1>1, <1>2 DEF TxnInv, CommitGateHeld, OwnsCommit, SharesCommit
  <2> QED BY <1>2, <2>1, <2>2, VisibleIsAfter
<1> HIDE DEF n
<1>7. ASSUME NEW k \in Keys
      PROVE  seen'[c][k] <= found'[c][k] /\ found'[c][k] <= Visible'[k]
  <2>1. found'[c][k] = IF n(k) > found[c][k] THEN n(k) ELSE found[c][k]
    BY <1>1, <1>2 DEF Newer
  <2>2. found[c][k] <= latest[k] /\ found[c][k] \in Nat /\ seen[c][k] \in Nat
    BY <1>1, <1>2, <1>6 DEF ScanOf
  <2>3. seen[c][k] <= found[c][k] \/ seen[c][k] <= n(k)
    <3>1. CASE seen[c][k] = 0
      BY <2>2, <3>1
    <3>2. CASE seen[c][k] > 0
      <4>1. seen[c][k] <= found[c][k] \/ HeldFrozen(c, k) \/ HeldOnDisk(c, k)
        BY <1>2, <3>2 DEF ScanOf, Scanning
      <4>2. Held(c, k) \in R => seen[c][k] <= n(k)
        BY <1>5, <2>2 DEF Held
      <4> QED BY <1>4, <4>1, <4>2
    <3> QED BY <2>2, <3>1, <3>2
  <2>4. n(k) \in Nat /\ n(k) <= latest[k]
    BY <1>5
  <2> QED BY <1>2, <1>6, <2>1, <2>2, <2>3, <2>4
<1>8. pc'[c] = "scanned"
  BY <1>1, <1>2
<1> QED BY <1>7, <1>8 DEF ScanOf, Scanning

\* The steps of get(), and the returns, are no scan's.
LEMMA ScanLeft ==
    ASSUME StorageInv, NEW c \in Clients, ScanOf(c),
           \/ GetStart(c) \/ GetActive(c) \/ GetImm(c) \/ GetSst(c) \/ GetFails(c)
           \/ ScanFails(c) \/ Return(c)
    PROVE  ScanOf(c)'
<1> USE DEF store, back, disk, getter, scan, txn, Go
<1>1. /\ pc \in [Clients -> Locations] /\ DOMAIN found = Clients
  BY DEF StorageInv, TypeOK, CallType, TxnType
<1>2. pc'[c] \notin {"scan_shards", "scanned"}
  BY <1>1 DEF GetStart, GetActive, GetImm, GetSst, GetFails, ScanFails, Return
<1>3. pc'[c] # "failed" => found'[c] = Never
  <2>1. CASE Return(c)
    BY <1>1, <2>1 DEF Return
  <2>2. CASE GetStart(c) \/ GetActive(c) \/ GetImm(c) \/ GetSst(c)
    BY <1>1, <2>2 DEF GetStart, GetActive, GetImm, GetSst, ScanOf
  <2>3. CASE GetFails(c) \/ ScanFails(c)
    BY <1>1, <2>3 DEF GetFails, ScanFails
  <2> QED BY <2>1, <2>2, <2>3
<1> QED BY <1>2, <1>3 DEF ScanOf, Scanning

LEMMA ScanStep ==
    ASSUME StorageInv, TxnInv, StorageInv', TxnInv', ScanInv, [Next]_vars
    PROVE  ScanInv'
<1>1. ASSUME NEW d \in Clients PROVE ScanOf(d)'
  <2>1. ScanOf(d)
    BY ScanParts
  <2>2. CASE ~ Reading(d)
    BY <2>1, <2>2, StoreGrows, StillSteps, VisibleGrows, ScanKept
  <2>3. CASE Reading(d)
    BY <2>1, <2>3, ScanBegins, ScanReads, ScanEnds, ScanLeft DEF Reading
  <2> QED BY <2>2, <2>3
<1> QED BY <1>1, ScanPartsAfter

-----------------------------------------------------------------------------
(* get().                                                                  *)

\* What GetInv says of one client.
GetOf(c) ==
    /\ pc[c] \in {"get_active", "get_imm", "get_sst", "got"} => key[c] \in Keys
    /\ Getting(c)
    /\ pc[c] = "got" /\ seen[c][key[c]] > 0 => best[c] > 0

LEMMA GetParts == GetInv <=> \A c \in Clients : GetOf(c)
BY DEF GetInv, GetOf, GetNeverMisses

LEMMA GetPartsAfter == GetInv' <=> \A c \in Clients : GetOf(c)'
BY DEF GetInv, GetOf, GetNeverMisses

\* The others' steps do a get() no harm.
LEMMA GetKept ==
    ASSUME StorageInv, Grows, NEW d \in Clients, GetOf(d), Still(d)
    PROVE  GetOf(d)'
<1>1. CASE pc'[d] \notin {"get_active", "get_imm", "get_sst", "got"}
  BY <1>1 DEF GetOf, Getting
<1>2. CASE pc'[d] \in {"get_active", "get_imm", "get_sst", "got"}
  <2>1. /\ pc'[d] = pc[d] /\ view'[d] = view[d] /\ seen'[d] = seen[d]
        /\ key'[d] = key[d] /\ best'[d] = best[d]
    BY <1>2 DEF Still
  <2>2. /\ pc[d] = "get_active" => view[d].active \in DOMAIN mem
        /\ view[d].imm \subseteq DOMAIN frozen /\ view[d].ssts \subseteq DOMAIN sst
    BY DEF StorageInv, ViewsExist
  <2>3. Held(d, key[d])' = Held(d, key[d])
    BY <2>1 DEF Held
  <2>4. Getting(d)'
    <3>1. pc[d] = "get_active" /\ Held(d, key[d]) \in mem[view[d].active]
            => Held(d, key[d])' \in mem'[view'[d].active]
      BY <2>1, <2>2, <2>3 DEF Grows
    <3>2. HeldFrozen(d, key[d]) => \E g \in view'[d].imm : Held(d, key[d])' \in frozen'[g]
      BY <2>1, <2>2, <2>3 DEF Grows, HeldFrozen
    <3>3. HeldOnDisk(d, key[d]) => \E i \in view'[d].ssts : Held(d, key[d])' \in sst'[i]
      BY <2>1, <2>2, <2>3 DEF Grows, HeldOnDisk
    <3>4. Getting(d)
      BY DEF GetOf
    <3> QED BY <2>1, <3>1, <3>2, <3>3, <3>4 DEF Getting, HeldFrozen, HeldOnDisk
  <2> QED BY <2>1, <2>4 DEF GetOf
<1> QED BY <1>1, <1>2

\* Looking into a source, get() finds a row of its key if there is one, and
\* never forgets that it has found one.
LEMMA FoundFinds ==
    ASSUME StorageInv, TxnInv, NEW c \in Clients, key[c] \in Keys, NEW R \in SUBSET Row,
           \A r \in R : r.seq <= latest[r.key], Found(c, R)
    PROVE  /\ best[c] > 0 => best'[c] > 0
           /\ seen[c][key[c]] > 0 /\ Held(c, key[c]) \in R => best'[c] > 0
<1> DEFINE n == Newest(key[c], R)
           m == MaxSeqOf(R)
<1>1. best \in [Clients -> Nat] /\ seen[c][key[c]] \in Nat
  BY DEF StorageInv, TypeOK, CallType, TxnType
<1>2. best'[c] = IF m > best[c] /\ n > 0 THEN n ELSE best[c]
  BY <1>1 DEF Found
<1>3. n \in Nat /\ \A i \in Nat : [key |-> key[c], seq |-> i] \in R => i <= n
  BY NewestAmong
<1> HIDE DEF n
<1>4. best[c] > 0 => best'[c] > 0
  BY <1>1, <1>2, <1>3
<1>5. ASSUME seen[c][key[c]] > 0, Held(c, key[c]) \in R
      PROVE  best'[c] > 0
  <2>1. n >= seen[c][key[c]]
    BY <1>1, <1>3, <1>5 DEF Held
  <2> DEFINE S == {r.seq : r \in R}
  <2>2. m \in Nat /\ m >= seen[c][key[c]]
    <3>1. S \in SUBSET Nat /\ S # {} /\ seen[c][key[c]] \in S
      BY <1>5 DEF Held, Row
    <3>2. \A s \in S : s <= seq
      <4> SUFFICES ASSUME NEW r \in R PROVE r.seq <= seq
        OBVIOUS
      <4>1. r.key \in Keys /\ r.seq \in Nat /\ r.seq <= latest[r.key]
        BY DEF Row
      <4>2. latest[r.key] < seq /\ latest[r.key] \in Nat /\ seq \in Nat
        BY <4>1 DEF TxnInv, TicketsFresh, StorageInv, TypeOK, StoreType, TxnType
      <4> QED BY <4>1, <4>2
    <3>3. seq \in Nat
      BY DEF StorageInv, TypeOK, StoreType
    <3> HIDE DEF S
    <3>4. IsLargest(Largest(S), S)
      BY <3>1, <3>2, <3>3, LargestIsLargest
    <3>5. m = Largest(S)
      BY <1>5 DEF MaxSeqOf, S
    <3> QED BY <3>1, <3>4, <3>5 DEF IsLargest
  <2> HIDE DEF m
  <2> QED BY <1>1, <1>2, <1>3, <1>5, <2>1, <2>2
<1> QED BY <1>4, <1>5

\* get() begins with the newest row of its key in reach ...
LEMMA GetBegins ==
    ASSUME StorageInv, NEW c \in Clients, GetStart(c)
    PROVE  GetOf(c)'
<1> USE DEF store, back, disk, getter, scan, txn, Go
<1>1. /\ pc \in [Clients -> Locations] /\ DOMAIN view = Clients /\ DOMAIN seen = Clients
      /\ DOMAIN key = Clients
  BY DEF StorageInv, TypeOK, CallType, TxnType
<1>2. /\ pc'[c] = "get_active" /\ view'[c] = version /\ seen'[c] = latest /\ key'[c] \in Keys
      /\ UNCHANGED <<mem, frozen, sst>>
  BY <1>1 DEF GetStart
<1>3. Getting(c)'
  <2> SUFFICES ASSUME latest[key'[c]] > 0
               PROVE  \/ Held(c, key[c])' \in mem[version.active]
                      \/ \E g \in version.imm : Held(c, key[c])' \in frozen[g]
                      \/ \E i \in version.ssts : Held(c, key[c])' \in sst[i]
    BY <1>2 DEF Getting, HeldFrozen, HeldOnDisk
  <2> DEFINE r == [key |-> key'[c], seq |-> latest[key'[c]]]
  <2>1. r \in Contents(version)
    BY <1>2 DEF StorageInv, NewestPresent
  <2>2. Held(c, key[c])' = r
    BY <1>2 DEF Held
  <2> HIDE DEF r
  <2> QED BY <2>1, <2>2, InContents
<1> QED BY <1>2, <1>3 DEF GetOf

\* ... looks into the active memtable ...
LEMMA GetReadsActive ==
    ASSUME StorageInv, TxnInv, NEW c \in Clients, GetOf(c), GetActive(c)
    PROVE  GetOf(c)'
<1> USE DEF store, back, disk, getter, scan, txn, Go
<1> DEFINE R == mem[view[c].active]
<1>1. /\ pc[c] = "get_active" /\ pc'[c] = "get_imm" /\ Found(c, R)
      /\ UNCHANGED <<frozen, sst, view, key, seen>>
  BY DEF GetActive, StorageInv, TypeOK, CallType
<1>2. R \in SUBSET Row /\ \A r \in R : r.seq <= latest[r.key]
  BY <1>1, BoundedRows DEF StorageInv, ViewsExist
<1> HIDE DEF R
<1>3. key[c] \in Keys /\ Getting(c)
  BY <1>1 DEF GetOf
<1>4. /\ best[c] > 0 => best'[c] > 0
      /\ seen[c][key[c]] > 0 /\ Held(c, key[c]) \in R => best'[c] > 0
  BY <1>1, <1>2, <1>3, FoundFinds
<1>5. Getting(c)'
  BY <1>1, <1>3, <1>4 DEF Getting, HeldFrozen, HeldOnDisk, Held, R
<1> QED BY <1>1, <1>3, <1>5 DEF GetOf

\* ... into the frozen memtables, the newest first ...
LEMMA GetReadsFrozen ==
    ASSUME StorageInv, TxnInv, NEW c \in Clients, GetOf(c), GetImm(c)
    PROVE  GetOf(c)'
<1> USE DEF store, back, disk, getter, scan, txn, Go
<1>1. /\ pc[c] = "get_imm" /\ UNCHANGED <<frozen, sst, key, seen>> /\ key[c] \in Keys
      /\ Getting(c) /\ pc \in [Clients -> Locations] /\ view \in [Clients -> Version]
  BY DEF GetImm, GetOf, StorageInv, TypeOK, CallType
<1>2. CASE view[c].imm = {}
  <2>1. pc'[c] = "get_sst" /\ UNCHANGED <<view, best>>
    BY <1>1, <1>2 DEF GetImm
  <2> QED BY <1>1, <1>2, <2>1 DEF Getting, HeldFrozen, HeldOnDisk, Held, GetOf
<1>3. CASE view[c].imm # {}
  <2> DEFINE g == Largest(view[c].imm)
  <2>1. g \in view[c].imm /\ g \in DOMAIN frozen
    BY <1>3, LargestFrozen
  <2>2. /\ Found(c, frozen[g]) /\ UNCHANGED pc
        /\ view' = [view EXCEPT ![c].imm = @ \ {g}]
    BY <1>3 DEF GetImm
  <2>3. frozen[g] \in SUBSET Row /\ \A r \in frozen[g] : r.seq <= latest[r.key]
    BY <2>1, BoundedRows
  <2> HIDE DEF g
  <2>4. view'[c].imm = view[c].imm \ {g} /\ view'[c].ssts = view[c].ssts
    BY <1>1, <2>2 DEF Version
  <2>5. /\ best[c] > 0 => best'[c] > 0
        /\ seen[c][key[c]] > 0 /\ Held(c, key[c]) \in frozen[g] => best'[c] > 0
    BY <1>1, <2>2, <2>3, FoundFinds
  <2>6. HeldFrozen(c, key[c]) =>
            Held(c, key[c]) \in frozen[g] \/ \E h \in view'[c].imm : Held(c, key[c]) \in frozen[h]
    BY <2>4 DEF HeldFrozen
  <2>7. Getting(c)'
    BY <1>1, <2>2, <2>4, <2>5, <2>6 DEF Getting, HeldFrozen, HeldOnDisk, Held
  <2> QED BY <1>1, <2>2, <2>7 DEF GetOf
<1> QED BY <1>2, <1>3

\* ... and into the SSTs, until there are none left.
LEMMA GetReadsSsts ==
    ASSUME StorageInv, TxnInv, NEW c \in Clients, GetOf(c), GetSst(c)
    PROVE  GetOf(c)'
<1> USE DEF store, back, disk, getter, scan, txn, Go
<1>1. /\ pc[c] = "get_sst" /\ UNCHANGED <<frozen, sst, key, seen>> /\ key[c] \in Keys
      /\ Getting(c) /\ pc \in [Clients -> Locations] /\ view \in [Clients -> Version]
  BY DEF GetSst, GetOf, StorageInv, TypeOK, CallType
<1>2. CASE view[c].ssts = {}
  <2>1. pc'[c] = "got" /\ UNCHANGED <<view, best>>
    BY <1>1, <1>2 DEF GetSst
  <2> QED BY <1>1, <1>2, <2>1 DEF Getting, HeldOnDisk, GetOf
<1>3. CASE view[c].ssts # {}
  <2> DEFINE i == Largest(view[c].ssts)
  <2>1. i \in view[c].ssts /\ i \in DOMAIN sst
    BY <1>3, LargestSst
  <2>2. /\ Found(c, sst[i]) /\ UNCHANGED pc
        /\ view' = [view EXCEPT ![c].ssts = @ \ {i}]
    BY <1>3 DEF GetSst
  <2>3. sst[i] \in SUBSET Row /\ \A r \in sst[i] : r.seq <= latest[r.key]
    BY <2>1, BoundedRows
  <2> HIDE DEF i
  <2>4. view'[c].ssts = view[c].ssts \ {i}
    BY <1>1, <2>2 DEF Version
  <2>5. /\ best[c] > 0 => best'[c] > 0
        /\ seen[c][key[c]] > 0 /\ Held(c, key[c]) \in sst[i] => best'[c] > 0
    BY <1>1, <2>2, <2>3, FoundFinds
  <2>6. HeldOnDisk(c, key[c]) =>
            Held(c, key[c]) \in sst[i] \/ \E h \in view'[c].ssts : Held(c, key[c]) \in sst[h]
    BY <2>4 DEF HeldOnDisk
  <2>7. Getting(c)'
    BY <1>1, <2>2, <2>4, <2>5, <2>6 DEF Getting, HeldOnDisk, Held
  <2> QED BY <1>1, <2>2, <2>7 DEF GetOf
<1> QED BY <1>2, <1>3

LEMMA GetLeft ==
    ASSUME StorageInv, NEW c \in Clients,
           \/ GetFails(c) \/ ScanStart(c) \/ ScanShard(c) \/ ScanRest(c) \/ ScanFails(c)
           \/ Return(c)
    PROVE  GetOf(c)'
<1> USE DEF store, back, disk, getter, scan, txn, Go
<1>1. pc'[c] \notin {"get_active", "get_imm", "get_sst", "got"}
  BY DEF StorageInv, TypeOK, CallType, GetFails, ScanStart, ScanShard, ScanRest, ScanFails, Return
<1> QED BY <1>1 DEF GetOf, Getting

LEMMA GetStep ==
    ASSUME StorageInv, TxnInv, GetInv, [Next]_vars
    PROVE  GetInv'
<1>1. ASSUME NEW d \in Clients PROVE GetOf(d)'
  <2>1. GetOf(d)
    BY GetParts
  <2>2. CASE ~ Reading(d)
    BY <2>1, <2>2, StoreGrows, StillSteps, GetKept
  <2>3. CASE Reading(d)
    BY <2>1, <2>3, GetBegins, GetReadsActive, GetReadsFrozen, GetReadsSsts, GetLeft DEF Reading
  <2> QED BY <2>2, <2>3
<1> QED BY <1>1, GetPartsAfter

-----------------------------------------------------------------------------
(* What the readers of a Region can rely on.                               *)

LEMMA ReadInit == Init => ReadInv
<1> SUFFICES ASSUME Init PROVE ReadInv
  OBVIOUS
<1>1. \A c \in Clients : pc[c] = "idle" /\ found[c] = Never
  BY DEF Init
<1>2. ScanInv
  BY <1>1 DEF ScanInv, Scanning, ScanKeepsUp
<1>3. GetInv
  BY <1>1 DEF GetInv, Getting, GetNeverMisses
<1> QED BY <1>2, <1>3 DEF ReadInv

THEOREM ReadersCorrect == Spec => [](StorageInv /\ TxnInv /\ ReadInv)
<1>1. Init => ReadInv
  BY ReadInit
<1>2. StorageInv /\ TxnInv /\ ReadInv /\ (StorageInv /\ TxnInv)' /\ [Next]_vars => ReadInv'
  BY ScanStep, GetStep DEF ReadInv
<1> QED BY <1>1, <1>2, TxnCorrect, PTL DEF Spec

\* A scan that runs beside writers, freezes, flushes and compactions returns for
\* every key a row no older than any inserted before it began, and nothing of a
\* batch or commit that is half inserted (columnar.rs:304-317, memtable.rs:837-882).
THEOREM ScansKeepUp == Spec => []ScanKeepsUp
<1>1. ReadInv => ScanKeepsUp
  BY DEF ReadInv, ScanInv
<1> QED BY <1>1, ReadersCorrect, PTL

\* A get() finds a row of every key that had one when it began, though the
\* memtables and SSTs it walks are frozen, flushed and merged on the way
\* (memtable.rs:737-768).
THEOREM GetsNeverMiss == Spec => []GetNeverMisses
<1>1. ReadInv => GetNeverMisses
  BY DEF ReadInv, GetInv
<1> QED BY <1>1, ReadersCorrect, PTL
=============================================================================
