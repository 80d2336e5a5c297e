---------------------------- MODULE Region_proofs ----------------------------
(***************************************************************************)
(* Proofs about Region for any number of clients and keys and any setting  *)
(* of the thresholds.                                                      *)
(***************************************************************************)
EXTENDS RegionInv, SequenceTheorems, FiniteSetTheorems, WellFoundedInduction, TLAPS

-----------------------------------------------------------------------------
(* Largest and Newest mean what they say.                                  *)

\* A non-empty bounded set of numbers has a largest element: take the one
\* above which the fewest others lie, by the well-foundedness of the strict
\* subset ordering.
LEMMA LargestIsLargest ==
    ASSUME NEW S \in SUBSET Nat, S # {}, NEW b \in Nat, \A s \in S : s <= b
    PROVE  IsLargest(Largest(S), S)
<1> DEFINE Above(n) == {m \in S : m > n}
           F == {Above(n) : n \in S}
<1>1. IsFiniteSet(S)
  BY FS_BoundedSetOfNaturals
<1>2. \A n \in S : Above(n) \in FiniteSubsetsOf(S)
  BY <1>1, FS_Subset DEF FiniteSubsetsOf
<1>3. PICK A \in F : \A B \in F : <<B, A>> \notin StrictSubsetOrdering(S)
  <2>1. F \subseteq FiniteSubsetsOf(S) /\ F # {}
    BY <1>2
  <2>2. IsWellFoundedOn(StrictSubsetOrdering(S), FiniteSubsetsOf(S))
    BY FS_StrictSubsetOrderingWellFounded
  <2> HIDE DEF F
  <2> QED BY <2>1, <2>2, WFMin, Zenon
<1>4. PICK n \in S : A = Above(n)
  OBVIOUS
<1>5. ASSUME NEW m \in S, m > n PROVE FALSE
  <2>1. \A x \in S : x > m => x > n
    BY <1>5
  <2>2. Above(m) \subseteq Above(n)
    BY <2>1
  <2>3. m \in Above(n) /\ m \notin Above(m)
    BY <1>5
  <2>4. <<Above(m), Above(n)>> \in StrictSubsetOrdering(S)
    BY <2>2, <2>3 DEF StrictSubsetOrdering
  <2> QED BY <2>4, <1>3, <1>4
<1>6. IsLargest(n, S)
  BY <1>5 DEF IsLargest
<1> QED BY <1>6 DEF Largest

-----------------------------------------------------------------------------
(* What does not move.                                                     *)

\* A row within reach of a Version is in one of its sources, and conversely.
LEMMA InContents ==
    ASSUME NEW v, NEW r
    PROVE  r \in Contents(v) <=> \/ r \in mem[v.active]
                                 \/ \E g \in v.imm : r \in frozen[g]
                                 \/ \E i \in v.ssts : r \in sst[i]
<1> DEFINE M == mem[v.active]
           F == {frozen[g] : g \in v.imm}
           S == {sst[i] : i \in v.ssts}
<1>1. Contents(v) = M \cup (UNION F) \cup (UNION S)
  BY DEF Contents
<1>2. r \in UNION F <=> \E g \in v.imm : r \in frozen[g]
  OBVIOUS
<1>3. r \in UNION S <=> \E i \in v.ssts : r \in sst[i]
  OBVIOUS
<1> HIDE DEF F, S
<1> QED BY <1>1, <1>2, <1>3

\* The same of the current Version after a step.
LEMMA InContentsAfter ==
    ASSUME NEW r
    PROVE  r \in Contents(version)' <=> \/ r \in mem'[version'.active]
                                        \/ \E g \in version'.imm : r \in frozen'[g]
                                        \/ \E i \in version'.ssts : r \in sst'[i]
<1> DEFINE M == mem'[version'.active]
           F == {frozen'[g] : g \in version'.imm}
           S == {sst'[i] : i \in version'.ssts}
<1>1. Contents(version)' = M \cup (UNION F) \cup (UNION S)
  BY DEF Contents
<1>2. r \in UNION F <=> \E g \in version'.imm : r \in frozen'[g]
  OBVIOUS
<1>3. r \in UNION S <=> \E i \in version'.ssts : r \in sst'[i]
  OBVIOUS
<1> HIDE DEF F, S
<1> QED BY <1>1, <1>2, <1>3

USE DEF Row, Version, Locations, SharesCommit, OwnsCommit, SharesWrite, OwnsWrite

\* Numbering a list of keys yields a non-empty list of rows.
LEMMA NumberedRows ==
    ASSUME seq \in Nat, NEW n \in Nat \ {0}, NEW ks \in [1 .. n -> Keys]
    PROVE  Numbered(ks) \in Seq(Row) /\ Numbered(ks) # <<>> /\ Len(Numbered(ks)) = n
<1> DEFINE s == Numbered(ks)
<1>1. s \in [1 .. n -> Row]
  BY DEF Numbered
<1> HIDE DEF s
<1>2. s \in Seq(Row)
  <2>1. s \in UNION {[1 .. m -> Row] : m \in Nat}
    BY <1>1
  <2> QED BY <2>1, SeqDef, Zenon
<1>3. Len(s) = n
  BY <1>1, <1>2, LenProperties
<1>4. s # <<>>
  BY <1>3, EmptySeq
<1> QED BY <1>2, <1>3, <1>4 DEF s

\* A row in a tuple of its own is a non-empty list of rows.
LEMMA OneRow ==
    ASSUME NEW r \in Row
    PROVE  <<r>> \in Seq(Row) /\ <<r>> # <<>>
<1> HIDE DEF Row
<1> QED OBVIOUS

\* The same rows stay within reach as long as nothing is written or swapped.
LEMMA ContentsFrame ==
    ASSUME UNCHANGED <<store, sst, latest>>, NewestPresent
    PROVE  NewestPresent'
BY DEF NewestPresent, Contents, store

\* A step that leaves memtables, SSTs, the Version and the worker alone, and
\* does not pass the write gate's exclusive side, keeps what is said of them.
LEMMA StorageFrame ==
    ASSUME StorageInv, UNCHANGED <<store, sst, worker, latest>>,
           \A c \in Clients : pc'[c] \in OwnsWrite <=> pc[c] \in OwnsWrite
    PROVE  Shape' /\ WorkerKnows' /\ LatestBounds' /\ FrozenIsFinal' /\ NewestPresent'
<1>1. Shape'
  BY DEF StorageInv, Shape, store
<1>2. WorkerKnows'
  BY DEF StorageInv, WorkerKnows, NewestRows, store
<1>3. LatestBounds' /\ FrozenIsFinal'
  BY DEF StorageInv, LatestBounds, FrozenIsFinal, store
<1>4. NewestPresent'
  BY ContentsFrame DEF StorageInv
<1> QED BY <1>1, <1>2, <1>3, <1>4

\* Every job has a client.
LEMMA JobClients ==
    ASSUME StorageInv, NEW i \in DOMAIN queue
    PROVE  queue[i].client \in Clients
<1>1. queue[i] \in JobType
  <2> HIDE DEF JobType
  <2> QED BY DEF StorageInv, TypeOK, StoreType
<1> QED BY <1>1 DEF JobType

\* A step of client c that concerns the other clients, the memtables and the
\* SSTs in nothing, and is not a freeze.
Quiet(c) ==
    /\ UNCHANGED <<store, sst, worker, latest>>
    /\ \A d \in Clients \ {c} : pc'[d] = pc[d] /\ todo'[d] = todo[d]
                             /\ view'[d] = view[d] /\ writes'[d] = writes[d]
    /\ pc[c] \notin OwnsWrite /\ pc'[c] \notin OwnsWrite /\ pc[c] # "wait"

\* What ViewsExist and WorkAhead say of one client.
Placed(c) ==
    /\ view[c].imm \subseteq DOMAIN frozen
    /\ view[c].ssts \subseteq DOMAIN sst
    /\ pc[c] \in {"begin", "get_active", "scan_shards"} => view[c].active \in DOMAIN mem
    /\ pc[c] = "enqueue_flush" => view[c].active \in DOMAIN frozen
    /\ pc[c] \in {"write_gate", "write_put", "batch_gate", "batch_put", "commit_put"}
          => todo[c] # <<>>
    /\ pc[c] \in {"commit_gate", "commit_check"} => writes[c] # {}

\* After the step c holds the write gate only if it held it before, with the
\* same active memtable, or takes it with the current one while none freezes.
EntersFairly(c) ==
    pc'[c] \in SharesWrite =>
        \/ pc[c] \in SharesWrite /\ view'[c].active = view[c].active
        \/ WriteGateShared /\ view'[c].active = version.active

\* The step leaves the queue alone or adds a job that makes sense.
Asks(c) ==
    \/ UNCHANGED queue
    \/ \E j \in JobType :
        /\ queue' = Append(queue, j)
        /\ j.kind = "flush" => j.gen \in DOMAIN frozen
        /\ j.kind = "sync" => j.client = c /\ pc'[c] = "wait"

\* Such a step keeps the invariant.
LEMMA ClientStep ==
    ASSUME StorageInv, NEW c \in Clients, StoreType', CallType', TxnType',
           Quiet(c), Asks(c), Placed(c)', EntersFairly(c)
    PROVE  StorageInv'
<1>1. WriteGateHeld'
  <2>1. version' = version
    BY DEF Quiet, store
  <2> QED BY <2>1 DEF StorageInv, WriteGateHeld, Quiet, EntersFairly, WriteGateShared
<1>2. ViewsExist' /\ WorkAhead'
  <2>1. UNCHANGED <<mem, frozen, sst>>
    BY DEF Quiet, store
  <2>2. ASSUME NEW d \in Clients PROVE Placed(d)'
    <3>1. CASE d = c
      BY <3>1
    <3>2. CASE d # c
      BY <2>1, <3>2 DEF Quiet, Placed, StorageInv, ViewsExist, WorkAhead
    <3> QED BY <3>1, <3>2
  <2> QED BY <2>2 DEF Placed, ViewsExist, WorkAhead
<1>3. Shape' /\ WorkerKnows' /\ LatestBounds' /\ FrozenIsFinal' /\ NewestPresent'
  BY StorageFrame DEF Quiet
<1>4. JobsExist' /\ BarriersWait'
  <2>1. queue \in Seq(JobType) /\ DOMAIN queue = 1 .. Len(queue) /\ Len(queue) \in Nat
    BY LenProperties DEF StorageInv, TypeOK, StoreType
  <2>2. frozen' = frozen /\ \A d \in Clients : pc[d] = "wait" => pc'[d] = "wait" /\ d # c
    BY DEF Quiet, store
  <2>3. \A i \in DOMAIN queue : queue[i].client \in Clients
    BY JobClients
  <2>4. CASE UNCHANGED queue
    BY <2>2, <2>3, <2>4 DEF StorageInv, JobsExist, BarriersWait
  <2>5. CASE ~ UNCHANGED queue
    <3>1. PICK j \in JobType :
            /\ queue' = Append(queue, j)
            /\ j.kind = "flush" => j.gen \in DOMAIN frozen
            /\ j.kind = "sync" => j.client = c /\ pc'[c] = "wait"
      BY <2>5 DEF Asks
    <3>2. /\ DOMAIN queue' = 1 .. Len(queue) + 1 /\ queue'[Len(queue) + 1] = j
          /\ \A i \in DOMAIN queue : queue'[i] = queue[i]
      <4> HIDE DEF JobType
      <4> QED BY <2>1, <3>1, AppendProperties
    <3>3. \A i \in DOMAIN queue' : i \in DOMAIN queue \/ i = Len(queue) + 1
      BY <2>1, <3>2
    <3>4. JobsExist'
      BY <2>2, <3>1, <3>2, <3>3 DEF StorageInv, JobsExist
    <3>5. BarriersWait'
      BY <2>1, <2>2, <2>3, <3>1, <3>2, <3>3 DEF StorageInv, BarriersWait
    <3> QED BY <3>4, <3>5
  <2> QED BY <2>4, <2>5
<1> QED BY <1>1, <1>2, <1>3, <1>4 DEF StorageInv, TypeOK

-----------------------------------------------------------------------------
(* Newest is a number wherever the code asks for it.                       *)

LEMMA NeverTyped == Never \in [Keys -> Nat]
BY DEF Never

\* Of rows no newer than latest the newest seq of a key is a number, and is
\* carried by one of the rows.
LEMMA NewestBounded ==
    ASSUME TxnType, NEW R \in SUBSET Row, \A r \in R : r.seq <= latest[r.key],
           NEW k
    PROVE  /\ Newest(k, R) \in Nat
           /\ SeqsOf(k, R) # {} => IsLargest(Newest(k, R), SeqsOf(k, R))
<1>1. CASE SeqsOf(k, R) = {}
  BY <1>1 DEF Newest
<1>2. CASE SeqsOf(k, R) # {}
  <2>1. k \in Keys /\ latest[k] \in Nat
    BY <1>2 DEF SeqsOf, TxnType
  <2>2. SeqsOf(k, R) \in SUBSET Nat /\ \A n \in SeqsOf(k, R) : n <= latest[k]
    BY DEF SeqsOf
  <2>3. IsLargest(Largest(SeqsOf(k, R)), SeqsOf(k, R))
    BY <1>2, <2>1, <2>2, LargestIsLargest
  <2> QED BY <1>2, <2>2, <2>3 DEF Newest, IsLargest
<1> QED BY <1>1, <1>2

LEMMA BoundedRows ==
    ASSUME StorageInv
    PROVE  /\ \A g \in DOMAIN mem : mem[g] \in SUBSET Row /\ \A r \in mem[g] : r.seq <= latest[r.key]
           /\ \A g \in DOMAIN frozen : frozen[g] \in SUBSET Row /\ \A r \in frozen[g] : r.seq <= latest[r.key]
           /\ \A i \in DOMAIN sst : sst[i] \in SUBSET Row /\ \A r \in sst[i] : r.seq <= latest[r.key]
<1>1. mem \in Seq(SUBSET Row) /\ frozen \in Seq(SUBSET Row) /\ sst \in Seq(SUBSET Row)
  BY DEF StorageInv, TypeOK, StoreType
<1>2. DOMAIN frozen \subseteq DOMAIN mem
  <2>1. DOMAIN frozen = 1 .. Len(frozen) /\ DOMAIN mem = 1 .. Len(mem)
    BY <1>1, LenProperties
  <2> QED BY <1>1, <2>1, LenProperties DEF StorageInv, Shape
<1> HIDE DEF Row
<1> QED BY <1>1, <1>2 DEF StorageInv, LatestBounds, FrozenIsFinal

LEMMA NewestInMemtable ==
    ASSUME StorageInv, NEW g \in DOMAIN mem, NEW k PROVE Newest(k, mem[g]) \in Nat
BY BoundedRows, NewestBounded DEF StorageInv, TypeOK

LEMMA NewestInFrozen ==
    ASSUME StorageInv, NEW g \in DOMAIN frozen, NEW k PROVE Newest(k, frozen[g]) \in Nat
BY BoundedRows, NewestBounded DEF StorageInv, TypeOK

LEMMA NewestInSst ==
    ASSUME StorageInv, NEW i \in DOMAIN sst, NEW k PROVE Newest(k, sst[i]) \in Nat
BY BoundedRows, NewestBounded DEF StorageInv, TypeOK

\* The same for the rows of a Version that are older than a snapshot.
LEMMA NewestInContents ==
    ASSUME StorageInv, NEW v \in Version, NEW n \in Nat, NEW k,
           v.active \in DOMAIN mem, v.imm \subseteq DOMAIN frozen, v.ssts \subseteq DOMAIN sst
    PROVE  Newest(k, {r \in Contents(v) : r.seq < n}) \in Nat
<1> DEFINE R == {r \in Contents(v) : r.seq < n}
<1>1. ASSUME NEW r \in Contents(v)
      PROVE  r \in Row /\ r.seq <= latest[r.key]
  <2>1. \/ r \in mem[v.active]
        \/ \E g \in v.imm : r \in frozen[g]
        \/ \E i \in v.ssts : r \in sst[i]
    BY InContents
  <2> HIDE DEF Row
  <2>2. CASE r \in mem[v.active]
    BY <2>2, BoundedRows
  <2>3. CASE \E g \in v.imm : r \in frozen[g]
    BY <2>3, BoundedRows
  <2>4. CASE \E i \in v.ssts : r \in sst[i]
    BY <2>4, BoundedRows
  <2> QED BY <2>1, <2>2, <2>3, <2>4
<1>2. R \in SUBSET Row /\ \A r \in R : r.seq <= latest[r.key]
  <2> HIDE DEF Row
  <2> QED BY <1>1
<1> HIDE DEF R
<1>3. Newest(k, R) \in Nat
  BY <1>2, NewestBounded DEF StorageInv, TypeOK
<1> QED BY <1>3 DEF R

\* The same for immutable memtables and SSTs together.
LEMMA NewestInImmutables ==
    ASSUME StorageInv, NEW G \in SUBSET DOMAIN frozen, NEW I \in SUBSET DOMAIN sst, NEW k
    PROVE  Newest(k, (UNION {frozen[g] : g \in G}) \cup (UNION {sst[i] : i \in I})) \in Nat
<1> DEFINE R == (UNION {frozen[g] : g \in G}) \cup (UNION {sst[i] : i \in I})
<1>1. R \in SUBSET Row /\ \A r \in R : r.seq <= latest[r.key]
  <2> HIDE DEF Row
  <2> QED BY BoundedRows
<1> HIDE DEF R
<1>2. Newest(k, R) \in Nat
  BY <1>1, NewestBounded DEF StorageInv, TypeOK
<1> QED BY <1>2 DEF R

\* The newest immutable memtable and the newest SST a client has left to read.
LEMMA LargestFrozen ==
    ASSUME StorageInv, NEW c \in Clients, view[c].imm # {}
    PROVE  Largest(view[c].imm) \in view[c].imm /\ Largest(view[c].imm) \in DOMAIN frozen
<1>1. view[c].imm \subseteq DOMAIN frozen
  BY DEF StorageInv, ViewsExist
<1>2. Len(frozen) \in Nat /\ DOMAIN frozen = 1 .. Len(frozen)
  BY LenProperties DEF StorageInv, TypeOK, StoreType
<1>3. view[c].imm \in SUBSET Nat /\ \A g \in view[c].imm : g <= Len(frozen)
  BY <1>1, <1>2
<1> QED BY <1>1, <1>2, <1>3, LargestIsLargest DEF IsLargest

LEMMA LargestSst ==
    ASSUME StorageInv, NEW c \in Clients, view[c].ssts # {}
    PROVE  Largest(view[c].ssts) \in view[c].ssts /\ Largest(view[c].ssts) \in DOMAIN sst
<1>1. view[c].ssts \subseteq DOMAIN sst
  BY DEF StorageInv, ViewsExist
<1>2. Len(sst) \in Nat /\ DOMAIN sst = 1 .. Len(sst)
  BY LenProperties DEF StorageInv, TypeOK, StoreType
<1>3. view[c].ssts \in SUBSET Nat /\ \A i \in view[c].ssts : i <= Len(sst)
  BY <1>1, <1>2
<1> QED BY <1>1, <1>2, <1>3, LargestIsLargest DEF IsLargest

\* Numbering rows and entering the write gate.
LEMMA WriterSteps ==
    ASSUME StorageInv, NEW c \in Clients,
           TakeTicket(c) \/ TakeTickets(c) \/ EnterWriteGate(c)
    PROVE  StorageInv'
<1> USE DEF store, back, disk, getter, scan, txn, Go
<1>1. CASE TakeTicket(c)
  <2>0. PICK s \in Seq(Row) : s # <<>> /\ todo' = [todo EXCEPT ![c] = s]
    <3>1. PICK k \in Keys : todo' = [todo EXCEPT ![c] = <<[key |-> k, seq |-> seq]>>]
      BY <1>1 DEF TakeTicket
    <3>2. [key |-> k, seq |-> seq] \in Row
      BY DEF StorageInv, TypeOK, StoreType
    <3> DEFINE s == <<[key |-> k, seq |-> seq]>>
    <3>3. s \in Seq(Row) /\ s # <<>>
      BY <3>2, OneRow
    <3>4. todo' = [todo EXCEPT ![c] = s]
      BY <3>1
    <3> HIDE DEF s
    <3> QED BY <3>3, <3>4
  <2>1. StoreType'
    BY <1>1, <2>0 DEF StorageInv, TypeOK, StoreType, TakeTicket
  <2>2. CallType'
    BY <1>1, <2>0 DEF StorageInv, TypeOK, CallType, TakeTicket
  <2>3. TxnType'
    BY <1>1, <2>0 DEF StorageInv, TypeOK, TxnType, TakeTicket
  <2>4. Quiet(c)
    BY <1>1, <2>0 DEF StorageInv, TypeOK, CallType, TxnType, Quiet, TakeTicket
  <2>5. Asks(c)
    BY <1>1, <2>0 DEF Asks, TakeTicket
  <2>6. Placed(c)'
    BY <1>1, <2>0 DEF StorageInv, TypeOK, CallType, TxnType, Placed, ViewsExist, WorkAhead, TakeTicket
  <2>7. EntersFairly(c)
    BY <1>1, <2>0 DEF StorageInv, TypeOK, CallType, EntersFairly, TakeTicket
  <2> QED BY <2>1, <2>2, <2>3, <2>4, <2>5, <2>6, <2>7, ClientStep
<1>2. CASE TakeTickets(c)
  <2>0. PICK s \in Seq(Row), n \in Nat :
            s # <<>> /\ todo' = [todo EXCEPT ![c] = s] /\ seq' = seq + n
    <3>1. PICK n \in 1 .. MaxBatch :
            /\ \E ks \in [1 .. n -> Keys] : todo' = [todo EXCEPT ![c] = Numbered(ks)]
            /\ seq' = seq + n
      BY <1>2 DEF TakeTickets
    <3>2. PICK ks \in [1 .. n -> Keys] : todo' = [todo EXCEPT ![c] = Numbered(ks)]
      BY <3>1
    <3>3. n \in Nat \ {0} /\ seq \in Nat
      BY BoundAssumption DEF StorageInv, TypeOK, StoreType
    <3>4. Numbered(ks) \in Seq(Row) /\ Numbered(ks) # <<>>
      BY <3>3, NumberedRows
    <3> QED BY <3>1, <3>2, <3>3, <3>4
  <2>1. StoreType'
    BY <1>2, <2>0 DEF StorageInv, TypeOK, StoreType, TakeTickets
  <2>2. CallType'
    BY <1>2, <2>0 DEF StorageInv, TypeOK, CallType, TakeTickets
  <2>3. TxnType'
    BY <1>2, <2>0 DEF StorageInv, TypeOK, TxnType, TakeTickets
  <2>4. Quiet(c)
    BY <1>2, <2>0 DEF StorageInv, TypeOK, CallType, TxnType, Quiet, TakeTickets
  <2>5. Asks(c)
    BY <1>2, <2>0 DEF Asks, TakeTickets
  <2>6. Placed(c)'
    BY <1>2, <2>0 DEF StorageInv, TypeOK, CallType, TxnType, Placed, ViewsExist, WorkAhead, TakeTickets
  <2>7. EntersFairly(c)
    BY <1>2, <2>0 DEF StorageInv, TypeOK, CallType, EntersFairly, TakeTickets
  <2> QED BY <2>1, <2>2, <2>3, <2>4, <2>5, <2>6, <2>7, ClientStep
<1>3. CASE EnterWriteGate(c)
  <2>0. PICK p \in Locations : pc' = [pc EXCEPT ![c] = p]
    BY <1>3 DEF EnterWriteGate
  <2>1. StoreType'
    BY <1>3 DEF StorageInv, TypeOK, StoreType, EnterWriteGate
  <2>2. CallType'
    BY <1>3, <2>0 DEF StorageInv, TypeOK, StoreType, CallType, EnterWriteGate
  <2>3. TxnType'
    BY <1>3 DEF StorageInv, TypeOK, TxnType, EnterWriteGate
  <2>4. Quiet(c)
    BY <1>3 DEF StorageInv, TypeOK, CallType, TxnType, Quiet, EnterWriteGate
  <2>5. Asks(c)
    BY <1>3 DEF Asks, EnterWriteGate
  <2>6. Placed(c)'
    BY <1>3 DEF StorageInv, TypeOK, CallType, StoreType, Placed, Shape, WorkAhead, EnterWriteGate
  <2>7. EntersFairly(c)
    BY <1>3 DEF StorageInv, TypeOK, CallType, EntersFairly, EnterWriteGate
  <2> QED BY <2>1, <2>2, <2>3, <2>4, <2>5, <2>6, <2>7, ClientStep
<1> QED BY <1>1, <1>2, <1>3

\* Beginning a transaction, buffering, and the steps of get().
LEMMA BeginAndGetSteps ==
    ASSUME StorageInv, NEW c \in Clients,
           BeginSnapshot(c) \/ BeginFails(c) \/ BeginIndexes(c) \/ TxnWrite(c) \/
           GetStart(c) \/ GetActive(c) \/ GetImm(c) \/ GetSst(c) \/ GetFails(c) \/
           Return(c)
    PROVE  StorageInv'
<1> USE DEF store, back, disk, getter, scan, txn, Go
<1>1. CASE BeginSnapshot(c)
  <2>1. StoreType'
    BY <1>1 DEF StorageInv, TypeOK, StoreType, BeginSnapshot
  <2>2. CallType'
    BY <1>1 DEF StorageInv, TypeOK, CallType, StoreType, BeginSnapshot
  <2>3. TxnType'
    BY <1>1 DEF StorageInv, TypeOK, StoreType, TxnType, BeginSnapshot
  <2>4. Quiet(c)
    BY <1>1 DEF StorageInv, TypeOK, CallType, TxnType, Quiet, BeginSnapshot
  <2>5. Asks(c)
    BY <1>1 DEF Asks, BeginSnapshot
  <2>6. Placed(c)'
    BY <1>1 DEF StorageInv, TypeOK, CallType, StoreType, Placed, Shape, BeginSnapshot
  <2>7. EntersFairly(c)
    BY <1>1 DEF StorageInv, TypeOK, CallType, EntersFairly, BeginSnapshot
  <2> QED BY <2>1, <2>2, <2>3, <2>4, <2>5, <2>6, <2>7, ClientStep
<1>2. CASE BeginFails(c)
  <2>1. StoreType'
    BY <1>2 DEF StorageInv, TypeOK, StoreType, BeginFails
  <2>2. CallType'
    BY <1>2 DEF StorageInv, TypeOK, CallType, Blank, BeginFails
  <2>3. TxnType'
    BY <1>2 DEF StorageInv, TypeOK, TxnType, BeginFails
  <2>4. Quiet(c)
    BY <1>2 DEF StorageInv, TypeOK, CallType, TxnType, Quiet, BeginFails
  <2>5. Asks(c)
    BY <1>2 DEF Asks, BeginFails
  <2>6. Placed(c)'
    BY <1>2 DEF StorageInv, TypeOK, CallType, Placed, Blank, BeginFails
  <2>7. EntersFairly(c)
    BY <1>2 DEF StorageInv, TypeOK, CallType, EntersFairly, BeginFails
  <2> QED BY <2>1, <2>2, <2>3, <2>4, <2>5, <2>6, <2>7, ClientStep
<1>3. CASE BeginIndexes(c)
  <2>0. index' \in [Clients -> [Keys -> Nat]]
    <3> DEFINE rows == {r \in Contents(view[c]) : r.seq < snap[c]}
               one == [k \in Keys |-> Newest(k, rows)]
    <3>1. view[c].active \in DOMAIN mem /\ view[c].imm \subseteq DOMAIN frozen
          /\ view[c].ssts \subseteq DOMAIN sst
      BY <1>3 DEF BeginIndexes, StorageInv, ViewsExist
    <3>2. view[c] \in Version /\ snap[c] \in Nat
      BY DEF StorageInv, TypeOK, CallType, TxnType
    <3>3. \A k \in Keys : Newest(k, rows) \in Nat
      <4> HIDE DEF Version
      <4> QED BY <3>1, <3>2, NewestInContents
    <3>4. one \in [Keys -> Nat]
      BY <3>3
    <3>5. index' = [index EXCEPT ![c] = one]
      BY <1>3 DEF BeginIndexes
    <3> HIDE DEF one
    <3> QED BY <3>4, <3>5 DEF StorageInv, TypeOK, TxnType
  <2>1. StoreType'
    BY <1>3 DEF StorageInv, TypeOK, StoreType, BeginIndexes
  <2>2. CallType'
    BY <1>3 DEF StorageInv, TypeOK, CallType, Blank, BeginIndexes
  <2>3. TxnType'
    BY <1>3, <2>0 DEF StorageInv, TypeOK, TxnType, BeginIndexes
  <2>4. Quiet(c)
    BY <1>3 DEF StorageInv, TypeOK, CallType, TxnType, Quiet, BeginIndexes
  <2>5. Asks(c)
    BY <1>3 DEF Asks, BeginIndexes
  <2>6. Placed(c)'
    BY <1>3 DEF StorageInv, TypeOK, CallType, Placed, Blank, BeginIndexes
  <2>7. EntersFairly(c)
    BY <1>3 DEF StorageInv, TypeOK, CallType, EntersFairly, BeginIndexes
  <2> QED BY <2>1, <2>2, <2>3, <2>4, <2>5, <2>6, <2>7, ClientStep
<1>4. CASE TxnWrite(c)
  <2>1. StoreType'
    BY <1>4 DEF StorageInv, TypeOK, StoreType, TxnWrite
  <2>2. CallType'
    BY <1>4 DEF StorageInv, TypeOK, CallType, TxnWrite
  <2>3. TxnType'
    BY <1>4 DEF StorageInv, TypeOK, TxnType, TxnWrite
  <2>4. Quiet(c)
    BY <1>4 DEF StorageInv, TypeOK, CallType, TxnType, Quiet, TxnWrite
  <2>5. Asks(c)
    BY <1>4 DEF Asks, TxnWrite
  <2>6. Placed(c)'
    BY <1>4 DEF StorageInv, TypeOK, CallType, TxnType, Placed, ViewsExist, WorkAhead, TxnWrite
  <2>7. EntersFairly(c)
    BY <1>4 DEF StorageInv, TypeOK, CallType, EntersFairly, TxnWrite
  <2> QED BY <2>1, <2>2, <2>3, <2>4, <2>5, <2>6, <2>7, ClientStep
<1>5. CASE GetStart(c)
  <2>1. StoreType'
    BY <1>5 DEF StorageInv, TypeOK, StoreType, GetStart
  <2>2. CallType'
    BY <1>5, KeysAssumption DEF StorageInv, TypeOK, CallType, StoreType, GetStart
  <2>3. TxnType'
    BY <1>5 DEF StorageInv, TypeOK, TxnType, GetStart
  <2>4. Quiet(c)
    BY <1>5 DEF StorageInv, TypeOK, CallType, TxnType, Quiet, GetStart
  <2>5. Asks(c)
    BY <1>5 DEF Asks, GetStart
  <2>6. Placed(c)'
    BY <1>5 DEF StorageInv, TypeOK, CallType, StoreType, Placed, Shape, GetStart
  <2>7. EntersFairly(c)
    BY <1>5 DEF StorageInv, TypeOK, CallType, EntersFairly, GetStart
  <2> QED BY <2>1, <2>2, <2>3, <2>4, <2>5, <2>6, <2>7, ClientStep
<1>6. CASE GetActive(c)
  <2>0. best' \in [Clients -> Nat]
    <3>1. view[c].active \in DOMAIN mem
      BY <1>6 DEF GetActive, StorageInv, ViewsExist
    <3>2. Newest(key[c], mem[view[c].active]) \in Nat
      BY <3>1, NewestInMemtable
    <3> QED BY <1>6, <3>2 DEF GetActive, Found, StorageInv, TypeOK, CallType
  <2>1. StoreType'
    BY <1>6 DEF StorageInv, TypeOK, StoreType, GetActive, Found
  <2>2. CallType'
    BY <1>6, <2>0 DEF StorageInv, TypeOK, CallType, GetActive
  <2>3. TxnType'
    BY <1>6 DEF StorageInv, TypeOK, TxnType, GetActive, Found
  <2>4. Quiet(c)
    BY <1>6 DEF StorageInv, TypeOK, CallType, TxnType, Quiet, GetActive, Found
  <2>5. Asks(c)
    BY <1>6 DEF Asks, GetActive, Found
  <2>6. Placed(c)'
    BY <1>6 DEF StorageInv, TypeOK, CallType, TxnType, Placed, ViewsExist, WorkAhead, GetActive, Found
  <2>7. EntersFairly(c)
    BY <1>6 DEF StorageInv, TypeOK, CallType, EntersFairly, GetActive, Found
  <2> QED BY <2>1, <2>2, <2>3, <2>4, <2>5, <2>6, <2>7, ClientStep
<1>7. CASE GetImm(c)
  <2>0. best' \in [Clients -> Nat]
    <3>1. CASE view[c].imm = {}
      BY <1>7, <3>1 DEF GetImm, StorageInv, TypeOK, CallType
    <3>2. CASE view[c].imm # {}
      <4> DEFINE g == Largest(view[c].imm)
      <4>1. g \in view[c].imm /\ g \in DOMAIN frozen
        BY <3>2, LargestFrozen
      <4>2. Newest(key[c], frozen[g]) \in Nat
        BY <4>1, NewestInFrozen
      <4>3. Found(c, frozen[g])
        BY <1>7, <3>2 DEF GetImm
      <4> QED BY <4>2, <4>3 DEF Found, StorageInv, TypeOK, CallType
    <3> QED BY <3>1, <3>2
  <2>a. PICK v \in Version :
            view' = [view EXCEPT ![c] = v] /\ v.imm \subseteq view[c].imm /\ v.ssts \subseteq view[c].ssts
    <3>1. view[c] \in Version
      BY DEF StorageInv, TypeOK, CallType
    <3>2. CASE view[c].imm = {}
      BY <1>7, <3>1, <3>2 DEF GetImm, StorageInv, TypeOK, CallType
    <3>3. CASE view[c].imm # {}
      <4> DEFINE v == [view[c] EXCEPT !.imm = @ \ {Largest(view[c].imm)}]
      <4>1. v \in Version /\ v.ssts = view[c].ssts /\ v.imm \subseteq view[c].imm
        BY <3>1
      <4>2. view' = [view EXCEPT ![c] = v]
        BY <1>7, <3>3 DEF GetImm, StorageInv, TypeOK, CallType
      <4> HIDE DEF v
      <4> QED BY <4>1, <4>2
    <3> QED BY <3>2, <3>3
  <2>b. /\ UNCHANGED <<mem, frozen, sst, todo, key, unread, found, barrier, writes>>
        /\ pc' \in {pc, [pc EXCEPT ![c] = "get_sst"]} /\ pc[c] \in Locations
        /\ pc[c] = "get_imm"
    BY <1>7 DEF GetImm, StorageInv, TypeOK, CallType
  <2>1. StoreType'
    BY <1>7 DEF StorageInv, TypeOK, StoreType, GetImm
  <2>2. CallType'
    BY <1>7, <2>0, <2>a, <2>b DEF StorageInv, TypeOK, CallType
  <2>3. TxnType'
    BY <1>7 DEF StorageInv, TypeOK, TxnType, GetImm
  <2>4. Quiet(c)
    BY <1>7 DEF StorageInv, TypeOK, CallType, TxnType, Quiet, GetImm
  <2>5. Asks(c)
    BY <1>7 DEF Asks, GetImm
  <2>6. Placed(c)'
    BY <2>a, <2>b DEF StorageInv, TypeOK, CallType, Placed, ViewsExist
  <2>7. EntersFairly(c)
    BY <1>7 DEF StorageInv, TypeOK, CallType, EntersFairly, GetImm
  <2> QED BY <2>1, <2>2, <2>3, <2>4, <2>5, <2>6, <2>7, ClientStep
<1>8. CASE GetSst(c)
  <2>0. best' \in [Clients -> Nat]
    <3>1. CASE view[c].ssts = {}
      BY <1>8, <3>1 DEF GetSst, StorageInv, TypeOK, CallType
    <3>2. CASE view[c].ssts # {}
      <4> DEFINE i == Largest(view[c].ssts)
      <4>1. i \in view[c].ssts /\ i \in DOMAIN sst
        BY <3>2, LargestSst
      <4>2. Newest(key[c], sst[i]) \in Nat
        BY <4>1, NewestInSst
      <4>3. Found(c, sst[i])
        BY <1>8, <3>2 DEF GetSst
      <4> QED BY <4>2, <4>3 DEF Found, StorageInv, TypeOK, CallType
    <3> QED BY <3>1, <3>2
  <2>a. PICK v \in Version :
            view' = [view EXCEPT ![c] = v] /\ v.imm \subseteq view[c].imm /\ v.ssts \subseteq view[c].ssts
    <3>1. view[c] \in Version
      BY DEF StorageInv, TypeOK, CallType
    <3>2. CASE view[c].ssts = {}
      BY <1>8, <3>1, <3>2 DEF GetSst, StorageInv, TypeOK, CallType
    <3>3. CASE view[c].ssts # {}
      <4> DEFINE v == [view[c] EXCEPT !.ssts = @ \ {Largest(view[c].ssts)}]
      <4>1. v \in Version /\ v.imm = view[c].imm /\ v.ssts \subseteq view[c].ssts
        BY <3>1
      <4>2. view' = [view EXCEPT ![c] = v]
        BY <1>8, <3>3 DEF GetSst, StorageInv, TypeOK, CallType
      <4> HIDE DEF v
      <4> QED BY <4>1, <4>2
    <3> QED BY <3>2, <3>3
  <2>b. /\ UNCHANGED <<mem, frozen, sst, todo, key, unread, found, barrier, writes>>
        /\ pc' \in {pc, [pc EXCEPT ![c] = "got"]} /\ pc[c] \in Locations
        /\ pc[c] = "get_sst"
    BY <1>8 DEF GetSst, StorageInv, TypeOK, CallType
  <2>1. StoreType'
    BY <1>8 DEF StorageInv, TypeOK, StoreType, GetSst
  <2>2. CallType'
    BY <1>8, <2>0, <2>a, <2>b DEF StorageInv, TypeOK, CallType
  <2>3. TxnType'
    BY <1>8 DEF StorageInv, TypeOK, TxnType, GetSst
  <2>4. Quiet(c)
    BY <1>8 DEF StorageInv, TypeOK, CallType, TxnType, Quiet, GetSst
  <2>5. Asks(c)
    BY <1>8 DEF Asks, GetSst
  <2>6. Placed(c)'
    BY <2>a, <2>b DEF StorageInv, TypeOK, CallType, Placed, ViewsExist
  <2>7. EntersFairly(c)
    BY <1>8 DEF StorageInv, TypeOK, CallType, EntersFairly, GetSst
  <2> QED BY <2>1, <2>2, <2>3, <2>4, <2>5, <2>6, <2>7, ClientStep
<1>9. CASE GetFails(c)
  <2>1. StoreType'
    BY <1>9 DEF StorageInv, TypeOK, StoreType, GetFails
  <2>2. CallType'
    BY <1>9 DEF StorageInv, TypeOK, CallType, GetFails
  <2>3. TxnType'
    BY <1>9 DEF StorageInv, TypeOK, TxnType, GetFails
  <2>4. Quiet(c)
    BY <1>9 DEF StorageInv, TypeOK, CallType, TxnType, Quiet, GetFails
  <2>5. Asks(c)
    BY <1>9 DEF Asks, GetFails
  <2>6. Placed(c)'
    BY <1>9 DEF StorageInv, TypeOK, CallType, TxnType, Placed, ViewsExist, WorkAhead, GetFails
  <2>7. EntersFairly(c)
    BY <1>9 DEF StorageInv, TypeOK, CallType, EntersFairly, GetFails
  <2> QED BY <2>1, <2>2, <2>3, <2>4, <2>5, <2>6, <2>7, ClientStep
<1>10. CASE Return(c)
  <2>1. StoreType'
    BY <1>10 DEF StorageInv, TypeOK, StoreType, Return
  <2>2. CallType'
    BY <1>10 DEF StorageInv, TypeOK, CallType, Blank, Return, Never
  <2>3. TxnType'
    BY <1>10, NeverTyped DEF StorageInv, TypeOK, TxnType, Return
  <2>4. Quiet(c)
    BY <1>10 DEF StorageInv, TypeOK, CallType, TxnType, Quiet, Return
  <2>5. Asks(c)
    BY <1>10 DEF Asks, Return
  <2>6. Placed(c)'
    BY <1>10 DEF StorageInv, TypeOK, CallType, Placed, Blank, Return
  <2>7. EntersFairly(c)
    BY <1>10 DEF StorageInv, TypeOK, CallType, EntersFairly, Return
  <2> QED BY <2>1, <2>2, <2>3, <2>4, <2>5, <2>6, <2>7, ClientStep
<1> QED BY <1>1, <1>2, <1>3, <1>4, <1>5, <1>6, <1>7, <1>8, <1>9, <1>10

\* A scan copies the active memtable, opens the rest and returns.
LEMMA ScanSteps ==
    ASSUME StorageInv, NEW c \in Clients,
           ScanStart(c) \/ ScanShard(c) \/ ScanRest(c) \/ ScanFails(c)
    PROVE  StorageInv'
<1> USE DEF store, back, disk, getter, scan, txn, Go
<1>1. CASE ScanStart(c)
  <2>1. StoreType'
    BY <1>1 DEF StorageInv, TypeOK, StoreType, ScanStart
  <2>2. CallType'
    BY <1>1 DEF StorageInv, TypeOK, CallType, StoreType, ScanStart
  <2>3. TxnType'
    BY <1>1 DEF StorageInv, TypeOK, TxnType, ScanStart
  <2>4. Quiet(c)
    BY <1>1 DEF StorageInv, TypeOK, CallType, TxnType, Quiet, ScanStart
  <2>5. Asks(c)
    BY <1>1 DEF Asks, ScanStart
  <2>6. Placed(c)'
    BY <1>1 DEF StorageInv, TypeOK, CallType, StoreType, Placed, Shape, ScanStart
  <2>7. EntersFairly(c)
    BY <1>1 DEF StorageInv, TypeOK, CallType, EntersFairly, ScanStart
  <2> QED BY <2>1, <2>2, <2>3, <2>4, <2>5, <2>6, <2>7, ClientStep
<1>2. CASE ScanShard(c)
  <2>0. unread' \in [Clients -> SUBSET Keys] /\ found' \in [Clients -> [Keys -> Nat]]
    <3>1. PICK k \in unread[c] :
            /\ unread' = [unread EXCEPT ![c] = @ \ {k}]
            /\ found' = [found EXCEPT ![c][k] = Newest(k, mem[view[c].active])]
      BY <1>2 DEF ScanShard
    <3>2. view[c].active \in DOMAIN mem
      BY <1>2 DEF ScanShard, StorageInv, ViewsExist
    <3>3. Newest(k, mem[view[c].active]) \in Nat
      BY <3>2, NewestInMemtable
    <3> QED BY <3>1, <3>3 DEF StorageInv, TypeOK, CallType
  <2>1. StoreType'
    BY <1>2 DEF StorageInv, TypeOK, StoreType, ScanShard
  <2>2. CallType'
    BY <1>2, <2>0 DEF StorageInv, TypeOK, CallType, ScanShard
  <2>3. TxnType'
    BY <1>2 DEF StorageInv, TypeOK, TxnType, ScanShard
  <2>4. Quiet(c)
    BY <1>2 DEF StorageInv, TypeOK, CallType, TxnType, Quiet, ScanShard
  <2>5. Asks(c)
    BY <1>2 DEF Asks, ScanShard
  <2>6. Placed(c)'
    BY <1>2 DEF StorageInv, TypeOK, CallType, TxnType, Placed, ViewsExist, WorkAhead, ScanShard
  <2>7. EntersFairly(c)
    BY <1>2 DEF StorageInv, TypeOK, CallType, EntersFairly, ScanShard
  <2> QED BY <2>1, <2>2, <2>3, <2>4, <2>5, <2>6, <2>7, ClientStep
<1>3. CASE ScanRest(c)
  <2>0. found' \in [Clients -> [Keys -> Nat]]
    <3> DEFINE rows == (UNION {frozen[g] : g \in view[c].imm})
                           \cup (UNION {sst[i] : i \in view[c].ssts})
               one == [k \in Keys |-> Newer(found[c][k], Newest(k, rows))]
    <3>1. view[c].imm \subseteq DOMAIN frozen /\ view[c].ssts \subseteq DOMAIN sst
      BY DEF StorageInv, ViewsExist
    <3>2. \A k \in Keys : Newest(k, rows) \in Nat
      BY <3>1, NewestInImmutables
    <3>3. found[c] \in [Keys -> Nat]
      BY DEF StorageInv, TypeOK, CallType
    <3> HIDE DEF rows
    <3>4. one \in [Keys -> Nat]
      BY <3>2, <3>3 DEF Newer
    <3>5. found' = [found EXCEPT ![c] = one]
      BY <1>3 DEF ScanRest, rows
    <3> HIDE DEF one
    <3> QED BY <3>4, <3>5 DEF StorageInv, TypeOK, CallType
  <2>1. StoreType'
    BY <1>3 DEF StorageInv, TypeOK, StoreType, ScanRest
  <2>2. CallType'
    BY <1>3, <2>0 DEF StorageInv, TypeOK, CallType, ScanRest
  <2>3. TxnType'
    BY <1>3 DEF StorageInv, TypeOK, TxnType, ScanRest
  <2>4. Quiet(c)
    BY <1>3 DEF StorageInv, TypeOK, CallType, TxnType, Quiet, ScanRest
  <2>5. Asks(c)
    BY <1>3 DEF Asks, ScanRest
  <2>6. Placed(c)'
    BY <1>3 DEF StorageInv, TypeOK, CallType, TxnType, Placed, ViewsExist, WorkAhead, ScanRest
  <2>7. EntersFairly(c)
    BY <1>3 DEF StorageInv, TypeOK, CallType, EntersFairly, ScanRest
  <2> QED BY <2>1, <2>2, <2>3, <2>4, <2>5, <2>6, <2>7, ClientStep
<1>4. CASE ScanFails(c)
  <2>1. StoreType'
    BY <1>4 DEF StorageInv, TypeOK, StoreType, ScanFails
  <2>2. CallType'
    BY <1>4 DEF StorageInv, TypeOK, CallType, ScanFails
  <2>3. TxnType'
    BY <1>4 DEF StorageInv, TypeOK, TxnType, ScanFails
  <2>4. Quiet(c)
    BY <1>4 DEF StorageInv, TypeOK, CallType, TxnType, Quiet, ScanFails
  <2>5. Asks(c)
    BY <1>4 DEF Asks, ScanFails
  <2>6. Placed(c)'
    BY <1>4 DEF StorageInv, TypeOK, CallType, TxnType, Placed, ViewsExist, WorkAhead, ScanFails
  <2>7. EntersFairly(c)
    BY <1>4 DEF StorageInv, TypeOK, CallType, EntersFairly, ScanFails
  <2> QED BY <2>1, <2>2, <2>3, <2>4, <2>5, <2>6, <2>7, ClientStep
<1> QED BY <1>1, <1>2, <1>3, <1>4

\* Committing, and the tail of a write, flush() and compact() up to their jobs.
LEMMA CommitAndFlushSteps ==
    ASSUME StorageInv, NEW c \in Clients,
           CloseIdle(c) \/ CommitLock(c) \/ CommitConflicts(c) \/ CommitFails(c) \/
           CommitNumbers(c) \/ MaybeFlush(c) \/ FlushCall(c) \/ CompactCall(c) \/
           FreezeNothing(c) \/ EnqueueFlush(c) \/ MaybeCompact(c) \/
           EnqueueCompact(c) \/ EnqueueSync(c) \/ BarrierReturns(c)
    PROVE  StorageInv'
<1> USE DEF store, back, disk, getter, scan, txn, Go
<1>1. CASE CloseIdle(c)
  <2>0. PICK fate \in {"committed", "none"} : CloseTxn(c, fate)
    BY <1>1 DEF CloseIdle
  <2>1. StoreType'
    BY <1>1 DEF StorageInv, TypeOK, StoreType, CloseIdle, CloseTxn
  <2>2. CallType'
    BY <1>1 DEF StorageInv, TypeOK, CallType, CloseIdle, CloseTxn
  <2>3. TxnType'
    BY <2>0, <1>1, NeverTyped DEF StorageInv, TypeOK, TxnType, CloseTxn, CloseIdle
  <2>4. Quiet(c)
    BY <1>1 DEF StorageInv, TypeOK, CallType, TxnType, Quiet, CloseIdle, CloseTxn
  <2>5. Asks(c)
    BY <1>1 DEF Asks, CloseIdle, CloseTxn
  <2>6. Placed(c)'
    BY <1>1 DEF StorageInv, TypeOK, CallType, TxnType, Placed, ViewsExist, WorkAhead, CloseIdle, CloseTxn
  <2>7. EntersFairly(c)
    BY <1>1 DEF StorageInv, TypeOK, CallType, EntersFairly, CloseIdle, CloseTxn
  <2> QED BY <2>1, <2>2, <2>3, <2>4, <2>5, <2>6, <2>7, ClientStep
<1>2. CASE CommitLock(c)
  <2>1. StoreType'
    BY <1>2 DEF StorageInv, TypeOK, StoreType, CommitLock
  <2>2. CallType'
    BY <1>2 DEF StorageInv, TypeOK, CallType, CommitLock
  <2>3. TxnType'
    BY <1>2 DEF StorageInv, TypeOK, TxnType, CommitLock
  <2>4. Quiet(c)
    BY <1>2 DEF StorageInv, TypeOK, CallType, TxnType, Quiet, CommitLock
  <2>5. Asks(c)
    BY <1>2 DEF Asks, CommitLock
  <2>6. Placed(c)'
    BY <1>2 DEF StorageInv, TypeOK, CallType, TxnType, Placed, ViewsExist, WorkAhead, CommitLock
  <2>7. EntersFairly(c)
    BY <1>2 DEF StorageInv, TypeOK, CallType, EntersFairly, CommitLock
  <2> QED BY <2>1, <2>2, <2>3, <2>4, <2>5, <2>6, <2>7, ClientStep
<1>3. CASE CommitConflicts(c)
  <2>1. StoreType'
    BY <1>3 DEF StorageInv, TypeOK, StoreType, CommitConflicts, CommitLeaves, CloseTxn, Blank
  <2>2. CallType'
    BY <1>3 DEF StorageInv, TypeOK, CallType, CommitConflicts, CommitLeaves, CloseTxn, Blank
  <2>3. TxnType'
    BY <1>3, NeverTyped DEF StorageInv, TypeOK, TxnType, CommitConflicts, CommitLeaves, CloseTxn
  <2>4. Quiet(c)
    BY <1>3 DEF StorageInv, TypeOK, CallType, TxnType, Quiet, CommitConflicts, CommitLeaves, CloseTxn, Blank
  <2>5. Asks(c)
    BY <1>3 DEF Asks, CommitConflicts, CommitLeaves, CloseTxn, Blank
  <2>6. Placed(c)'
    BY <1>3 DEF StorageInv, TypeOK, CallType, TxnType, Placed, ViewsExist, WorkAhead, CommitConflicts, CommitLeaves, CloseTxn, Blank
  <2>7. EntersFairly(c)
    BY <1>3 DEF StorageInv, TypeOK, CallType, EntersFairly, CommitConflicts, CommitLeaves, CloseTxn, Blank
  <2> QED BY <2>1, <2>2, <2>3, <2>4, <2>5, <2>6, <2>7, ClientStep
<1>4. CASE CommitFails(c)
  <2>1. StoreType'
    BY <1>4 DEF StorageInv, TypeOK, StoreType, CommitFails, CommitLeaves, CloseTxn, Blank
  <2>2. CallType'
    BY <1>4 DEF StorageInv, TypeOK, CallType, CommitFails, CommitLeaves, CloseTxn, Blank
  <2>3. TxnType'
    BY <1>4, NeverTyped DEF StorageInv, TypeOK, TxnType, CommitFails, CommitLeaves, CloseTxn
  <2>4. Quiet(c)
    BY <1>4 DEF StorageInv, TypeOK, CallType, TxnType, Quiet, CommitFails, CommitLeaves, CloseTxn, Blank
  <2>5. Asks(c)
    BY <1>4 DEF Asks, CommitFails, CommitLeaves, CloseTxn, Blank
  <2>6. Placed(c)'
    BY <1>4 DEF StorageInv, TypeOK, CallType, TxnType, Placed, ViewsExist, WorkAhead, CommitFails, CommitLeaves, CloseTxn, Blank
  <2>7. EntersFairly(c)
    BY <1>4 DEF StorageInv, TypeOK, CallType, EntersFairly, CommitFails, CommitLeaves, CloseTxn, Blank
  <2> QED BY <2>1, <2>2, <2>3, <2>4, <2>5, <2>6, <2>7, ClientStep
<1>5. CASE CommitNumbers(c)
  <2>0. PICK s \in Seq(Row), n \in Nat :
            s # <<>> /\ todo' = [todo EXCEPT ![c] = s] /\ seq' = seq + n
    <3> DEFINE n == Cardinality(writes[c])
    <3>1. writes[c] \subseteq Keys /\ writes[c] # {}
      BY <1>5 DEF CommitNumbers, StorageInv, TypeOK, TxnType, WorkAhead
    <3>2. n \in Nat \ {0}
      BY <3>1, KeysAssumption, FS_Subset, FS_CardinalityType, FS_EmptySet
    <3>3. PICK ks \in [1 .. n -> writes[c]] :
            todo' = [todo EXCEPT ![c] = Numbered(ks)] /\ seq' = seq + Len(ks)
      BY <1>5 DEF CommitNumbers
    <3> HIDE DEF n
    <3>4. ks \in [1 .. n -> Keys] /\ seq \in Nat
      BY <3>1, <3>3 DEF StorageInv, TypeOK, StoreType
    <3>5. Numbered(ks) \in Seq(Row) /\ Numbered(ks) # <<>>
      BY <3>2, <3>4, NumberedRows
    <3>6. Len(ks) \in Nat
      <4>1. ks \in UNION {[1 .. m -> Keys] : m \in Nat}
        BY <3>2, <3>4
      <4>2. ks \in Seq(Keys)
        BY <4>1, SeqDef, Zenon
      <4> QED BY <4>2, LenProperties
    <3> QED BY <3>3, <3>5, <3>6
  <2>1. StoreType'
    BY <1>5, <2>0 DEF StorageInv, TypeOK, StoreType, CommitNumbers
  <2>2. CallType'
    BY <1>5, <2>0 DEF StorageInv, TypeOK, CallType, CommitNumbers
  <2>3. TxnType'
    BY <1>5, <2>0 DEF StorageInv, TypeOK, TxnType, CommitNumbers
  <2>4. Quiet(c)
    BY <1>5, <2>0 DEF StorageInv, TypeOK, CallType, TxnType, Quiet, CommitNumbers
  <2>5. Asks(c)
    BY <1>5, <2>0 DEF Asks, CommitNumbers
  <2>6. Placed(c)'
    BY <1>5, <2>0 DEF StorageInv, TypeOK, CallType, TxnType, Placed, ViewsExist, WorkAhead, CommitNumbers
  <2>7. EntersFairly(c)
    BY <1>5, <2>0 DEF StorageInv, TypeOK, CallType, EntersFairly, CommitNumbers
  <2> QED BY <2>1, <2>2, <2>3, <2>4, <2>5, <2>6, <2>7, ClientStep
<1>6. CASE MaybeFlush(c)
  <2>1. StoreType'
    BY <1>6 DEF StorageInv, TypeOK, StoreType, MaybeFlush
  <2>2. CallType'
    BY <1>6 DEF StorageInv, TypeOK, CallType, MaybeFlush
  <2>3. TxnType'
    BY <1>6 DEF StorageInv, TypeOK, TxnType, MaybeFlush
  <2>4. Quiet(c)
    BY <1>6 DEF StorageInv, TypeOK, CallType, TxnType, Quiet, MaybeFlush
  <2>5. Asks(c)
    BY <1>6 DEF Asks, MaybeFlush
  <2>6. Placed(c)'
    BY <1>6 DEF StorageInv, TypeOK, CallType, TxnType, Placed, ViewsExist, WorkAhead, MaybeFlush
  <2>7. EntersFairly(c)
    BY <1>6 DEF StorageInv, TypeOK, CallType, EntersFairly, MaybeFlush
  <2> QED BY <2>1, <2>2, <2>3, <2>4, <2>5, <2>6, <2>7, ClientStep
<1>7. CASE FlushCall(c)
  <2>1. StoreType'
    BY <1>7 DEF StorageInv, TypeOK, StoreType, FlushCall
  <2>2. CallType'
    BY <1>7 DEF StorageInv, TypeOK, CallType, FlushCall
  <2>3. TxnType'
    BY <1>7 DEF StorageInv, TypeOK, TxnType, FlushCall
  <2>4. Quiet(c)
    BY <1>7 DEF StorageInv, TypeOK, CallType, TxnType, Quiet, FlushCall
  <2>5. Asks(c)
    BY <1>7 DEF Asks, FlushCall
  <2>6. Placed(c)'
    BY <1>7 DEF StorageInv, TypeOK, CallType, TxnType, Placed, ViewsExist, WorkAhead, FlushCall
  <2>7. EntersFairly(c)
    BY <1>7 DEF StorageInv, TypeOK, CallType, EntersFairly, FlushCall
  <2> QED BY <2>1, <2>2, <2>3, <2>4, <2>5, <2>6, <2>7, ClientStep
<1>8. CASE CompactCall(c)
  <2>1. StoreType'
    BY <1>8 DEF StorageInv, TypeOK, StoreType, CompactCall
  <2>2. CallType'
    BY <1>8 DEF StorageInv, TypeOK, CallType, CompactCall
  <2>3. TxnType'
    BY <1>8 DEF StorageInv, TypeOK, TxnType, CompactCall
  <2>4. Quiet(c)
    BY <1>8 DEF StorageInv, TypeOK, CallType, TxnType, Quiet, CompactCall
  <2>5. Asks(c)
    BY <1>8 DEF Asks, CompactCall
  <2>6. Placed(c)'
    BY <1>8 DEF StorageInv, TypeOK, CallType, TxnType, Placed, ViewsExist, WorkAhead, CompactCall
  <2>7. EntersFairly(c)
    BY <1>8 DEF StorageInv, TypeOK, CallType, EntersFairly, CompactCall
  <2> QED BY <2>1, <2>2, <2>3, <2>4, <2>5, <2>6, <2>7, ClientStep
<1>9. CASE FreezeNothing(c)
  <2>1. StoreType'
    BY <1>9 DEF StorageInv, TypeOK, StoreType, FreezeNothing, AfterFreeze
  <2>2. CallType'
    BY <1>9 DEF StorageInv, TypeOK, CallType, FreezeNothing, AfterFreeze
  <2>3. TxnType'
    BY <1>9 DEF StorageInv, TypeOK, TxnType, FreezeNothing, AfterFreeze
  <2>4. Quiet(c)
    BY <1>9 DEF StorageInv, TypeOK, CallType, TxnType, Quiet, FreezeNothing, AfterFreeze
  <2>5. Asks(c)
    BY <1>9 DEF Asks, FreezeNothing, AfterFreeze
  <2>6. Placed(c)'
    BY <1>9 DEF StorageInv, TypeOK, CallType, TxnType, Placed, ViewsExist, WorkAhead, FreezeNothing, AfterFreeze
  <2>7. EntersFairly(c)
    BY <1>9 DEF StorageInv, TypeOK, CallType, EntersFairly, FreezeNothing, AfterFreeze
  <2> QED BY <2>1, <2>2, <2>3, <2>4, <2>5, <2>6, <2>7, ClientStep
<1>10. CASE EnqueueFlush(c)
  <2>0. PICK j \in JobType : queue' = Append(queue, j) /\ j.kind = "flush"
                           /\ j.client = c /\ (j.kind = "flush" => j.gen \in DOMAIN frozen)
    <3> DEFINE j == Job("flush", view[c].active, c)
    <3>1. view[c].active \in Nat /\ view[c].active \in DOMAIN frozen
      BY <1>10 DEF EnqueueFlush, StorageInv, TypeOK, CallType, ViewsExist
    <3>2. j \in JobType /\ j.kind = "flush" /\ j.client = c /\ j.gen \in DOMAIN frozen
      BY <3>1 DEF Job, JobType
    <3>3. queue' = Append(queue, j)
      BY <1>10 DEF EnqueueFlush, Send
    <3> HIDE DEF j
    <3> QED BY <3>2, <3>3
  <2>1. StoreType'
    BY <2>0, <1>10 DEF StorageInv, TypeOK, StoreType, EnqueueFlush
  <2>2. CallType'
    BY <1>10 DEF StorageInv, TypeOK, CallType, EnqueueFlush, AfterFreeze
  <2>3. TxnType'
    BY <1>10 DEF StorageInv, TypeOK, TxnType, EnqueueFlush, AfterFreeze
  <2>4. Quiet(c)
    BY <1>10 DEF StorageInv, TypeOK, CallType, TxnType, Quiet, EnqueueFlush, AfterFreeze
  <2>5. Asks(c)
    BY <2>0, <1>10 DEF StorageInv, TypeOK, CallType, Asks, EnqueueFlush
  <2>6. Placed(c)'
    BY <1>10 DEF StorageInv, TypeOK, CallType, TxnType, Placed, ViewsExist, WorkAhead, EnqueueFlush, AfterFreeze
  <2>7. EntersFairly(c)
    BY <1>10 DEF StorageInv, TypeOK, CallType, EntersFairly, EnqueueFlush, AfterFreeze
  <2> QED BY <2>1, <2>2, <2>3, <2>4, <2>5, <2>6, <2>7, ClientStep
<1>11. CASE MaybeCompact(c)
  <2>1. StoreType'
    BY <1>11 DEF StorageInv, TypeOK, StoreType, MaybeCompact, Blank
  <2>2. CallType'
    BY <1>11 DEF StorageInv, TypeOK, CallType, MaybeCompact, Blank
  <2>3. TxnType'
    BY <1>11 DEF StorageInv, TypeOK, TxnType, MaybeCompact, Blank
  <2>4. Quiet(c)
    BY <1>11 DEF StorageInv, TypeOK, CallType, TxnType, Quiet, MaybeCompact, Blank
  <2>5. Asks(c)
    BY <1>11 DEF Asks, MaybeCompact, Blank
  <2>6. Placed(c)'
    BY <1>11 DEF StorageInv, TypeOK, CallType, TxnType, Placed, ViewsExist, WorkAhead, MaybeCompact, Blank
  <2>7. EntersFairly(c)
    BY <1>11 DEF StorageInv, TypeOK, CallType, EntersFairly, MaybeCompact, Blank
  <2> QED BY <2>1, <2>2, <2>3, <2>4, <2>5, <2>6, <2>7, ClientStep
<1>12. CASE EnqueueCompact(c)
  <2>0. PICK j \in JobType : queue' = Append(queue, j) /\ j.kind = "compact"
                           /\ j.client = c /\ (j.kind = "flush" => j.gen \in DOMAIN frozen)
    <3> DEFINE j == Job("compact", 0, c)
    <3>2. j \in JobType /\ j.kind = "compact" /\ j.client = c
      BY DEF Job, JobType
    <3>3. queue' = Append(queue, j)
      BY <1>12 DEF EnqueueCompact, Send
    <3> HIDE DEF j
    <3> QED BY <3>2, <3>3
  <2>1. StoreType'
    BY <2>0, <1>12 DEF StorageInv, TypeOK, StoreType, EnqueueCompact
  <2>2. CallType'
    BY <1>12 DEF StorageInv, TypeOK, CallType, EnqueueCompact
  <2>3. TxnType'
    BY <1>12 DEF StorageInv, TypeOK, TxnType, EnqueueCompact
  <2>4. Quiet(c)
    BY <1>12 DEF StorageInv, TypeOK, CallType, TxnType, Quiet, EnqueueCompact
  <2>5. Asks(c)
    BY <2>0, <1>12 DEF StorageInv, TypeOK, CallType, Asks, EnqueueCompact
  <2>6. Placed(c)'
    BY <1>12 DEF StorageInv, TypeOK, CallType, TxnType, Placed, ViewsExist, WorkAhead, EnqueueCompact
  <2>7. EntersFairly(c)
    BY <1>12 DEF StorageInv, TypeOK, CallType, EntersFairly, EnqueueCompact
  <2> QED BY <2>1, <2>2, <2>3, <2>4, <2>5, <2>6, <2>7, ClientStep
<1>13. CASE EnqueueSync(c)
  <2>0. PICK j \in JobType : queue' = Append(queue, j) /\ j.kind = "sync"
                           /\ j.client = c /\ (j.kind = "flush" => j.gen \in DOMAIN frozen)
    <3> DEFINE j == Job("sync", 0, c)
    <3>2. j \in JobType /\ j.kind = "sync" /\ j.client = c
      BY DEF Job, JobType
    <3>3. queue' = Append(queue, j)
      BY <1>13 DEF EnqueueSync, Send
    <3> HIDE DEF j
    <3> QED BY <3>2, <3>3
  <2>1. StoreType'
    BY <2>0, <1>13 DEF StorageInv, TypeOK, StoreType, EnqueueSync
  <2>2. CallType'
    BY <1>13 DEF StorageInv, TypeOK, CallType, EnqueueSync
  <2>3. TxnType'
    BY <1>13 DEF StorageInv, TypeOK, TxnType, EnqueueSync
  <2>4. Quiet(c)
    BY <1>13 DEF StorageInv, TypeOK, CallType, TxnType, Quiet, EnqueueSync
  <2>5. Asks(c)
    BY <2>0, <1>13 DEF StorageInv, TypeOK, CallType, Asks, EnqueueSync
  <2>6. Placed(c)'
    BY <1>13 DEF StorageInv, TypeOK, CallType, TxnType, Placed, ViewsExist, WorkAhead, EnqueueSync
  <2>7. EntersFairly(c)
    BY <1>13 DEF StorageInv, TypeOK, CallType, EntersFairly, EnqueueSync
  <2> QED BY <2>1, <2>2, <2>3, <2>4, <2>5, <2>6, <2>7, ClientStep
<1>14. CASE BarrierReturns(c)
  <2>1. StoreType'
    BY <1>14 DEF StorageInv, TypeOK, StoreType, BarrierReturns, Blank
  <2>2. CallType'
    BY <1>14 DEF StorageInv, TypeOK, CallType, BarrierReturns, Blank
  <2>3. TxnType'
    BY <1>14 DEF StorageInv, TypeOK, TxnType, BarrierReturns, Blank
  <2>4. Quiet(c)
    BY <1>14 DEF StorageInv, TypeOK, CallType, TxnType, Quiet, BarrierReturns, Blank
  <2>5. Asks(c)
    BY <1>14 DEF Asks, BarrierReturns, Blank
  <2>6. Placed(c)'
    BY <1>14 DEF StorageInv, TypeOK, CallType, TxnType, Placed, ViewsExist, WorkAhead, BarrierReturns, Blank
  <2>7. EntersFairly(c)
    BY <1>14 DEF StorageInv, TypeOK, CallType, EntersFairly, BarrierReturns, Blank
  <2> QED BY <2>1, <2>2, <2>3, <2>4, <2>5, <2>6, <2>7, ClientStep
<1> QED BY <1>1, <1>2, <1>3, <1>4, <1>5, <1>6, <1>7, <1>8, <1>9, <1>10, <1>11, <1>12, <1>13, <1>14

-----------------------------------------------------------------------------
(* Rows that move from one source to another.                              *)

\* What Append does to a sequence.
LEMMA AppendFacts ==
    ASSUME NEW S, NEW s \in Seq(S), NEW e \in S
    PROVE  /\ Append(s, e) \in Seq(S) /\ Len(Append(s, e)) = Len(s) + 1
           /\ Len(s) \in Nat /\ DOMAIN s = 1 .. Len(s)
           /\ DOMAIN Append(s, e) = 1 .. Len(s) + 1
           /\ Append(s, e)[Len(s) + 1] = e
           /\ \A i \in DOMAIN s : Append(s, e)[i] = s[i] /\ i \in DOMAIN Append(s, e)
BY AppendProperties, LenProperties

\* What Head and Tail are.
LEMMA TailFacts ==
    ASSUME NEW S, NEW s \in Seq(S), s # <<>>
    PROVE  /\ Head(s) \in S /\ Tail(s) \in Seq(S) /\ Head(s) = s[1]
           /\ Len(s) \in Nat \ {0} /\ DOMAIN s = 1 .. Len(s)
           /\ Len(Tail(s)) = Len(s) - 1 /\ DOMAIN Tail(s) = 1 .. Len(s) - 1
           /\ \A i \in DOMAIN Tail(s) : Tail(s)[i] = s[i + 1]
BY HeadTailProperties, LenProperties, EmptySeq

\* Among rows no newer than latest, the newest row of a key survives a merge.
LEMMA NewestSurvives ==
    ASSUME TxnType, NEW R \in SUBSET Row, \A r \in R : r.seq <= latest[r.key],
           NEW k \in Keys, [key |-> k, seq |-> latest[k]] \in R
    PROVE  [key |-> k, seq |-> latest[k]] \in NewestRows(R)
<1> DEFINE top == [key |-> k, seq |-> latest[k]]
<1>1. \A q \in R : q.key = top.key => q.seq <= top.seq
  OBVIOUS
<1> QED BY <1>1 DEF NewestRows

\* One row goes into the active memtable.
LEMMA InsertStep ==
    ASSUME StorageInv, NEW c \in Clients, Insert(c)
    PROVE  StorageInv'
<1> USE DEF store, back, disk, getter, scan, txn, Go
<1> DEFINE a == view[c].active
           r == Head(todo[c])
<1>1. /\ pc[c] \in {"write_put", "batch_put", "commit_put"}
      /\ todo[c] # <<>> /\ todo[c] \in Seq(Row)
  BY DEF Insert, StorageInv, WorkAhead, TypeOK, CallType
<1>2. r \in Row /\ Tail(todo[c]) \in Seq(Row) /\ Len(todo[c]) \in Nat \ {0}
      /\ (Len(todo[c]) # 1 => Tail(todo[c]) # <<>>)
  <2> HIDE DEF Row
  <2>1. r \in Row /\ Tail(todo[c]) \in Seq(Row) /\ Len(todo[c]) \in Nat \ {0}
        /\ Len(Tail(todo[c])) = Len(todo[c]) - 1
    BY <1>1, TailFacts
  <2>2. Len(todo[c]) # 1 => Len(Tail(todo[c])) # 0
    BY <2>1
  <2> QED BY <2>1, <2>2, EmptySeq
<1>3. a = version.active /\ \A d \in Clients : pc[d] \notin OwnsWrite
  BY <1>1 DEF StorageInv, WriteGateHeld
<1>4. mem \in Seq(SUBSET Row) /\ Len(mem) \in Nat /\ DOMAIN mem = 1 .. Len(mem)
      /\ Len(frozen) \in Nat /\ DOMAIN frozen = 1 .. Len(frozen)
  BY LenProperties DEF StorageInv, TypeOK, StoreType
<1>5. a = Len(mem) /\ a \in DOMAIN mem /\ a \notin DOMAIN frozen
  BY <1>3, <1>4 DEF StorageInv, Shape
<1>6. mem' = [mem EXCEPT ![a] = mem[a] \cup {r}]
  BY <1>5 DEF Insert
<1>7. mem' \in Seq(SUBSET Row) /\ Len(mem') = Len(mem) /\ DOMAIN mem' = DOMAIN mem
  <2>1. mem[a] \cup {r} \in SUBSET Row
    <3> HIDE DEF Row, a, r
    <3> QED BY <1>2, <1>4, <1>5
  <2> HIDE DEF Row, a, r
  <2> QED BY <1>4, <1>5, <1>6, <2>1, ExceptSeq
<1>8. \A g \in DOMAIN mem : mem[g] \subseteq mem'[g] /\ (g # a => mem'[g] = mem[g])
                         /\ mem'[g] \subseteq mem[g] \cup {r} /\ r \in mem'[a]
  BY <1>5, <1>6
<1>9. latest' \in [Keys -> Nat] /\ latest'[r.key] >= r.seq
      /\ \A k \in Keys : latest'[k] >= latest[k]
                      /\ (latest'[k] = latest[k] \/ (k = r.key /\ latest'[k] = r.seq))
  <2>1. latest' = [latest EXCEPT ![r.key] = IF r.seq > @ THEN r.seq ELSE @]
    BY DEF Insert
  <2>2. r.key \in Keys /\ r.seq \in Nat /\ latest \in [Keys -> Nat]
    BY <1>2 DEF StorageInv, TypeOK, TxnType
  <2> DEFINE kr == r.key
             n == r.seq
  <2>3. kr \in Keys /\ n \in Nat /\ latest' = [latest EXCEPT ![kr] = IF n > @ THEN n ELSE @]
    BY <2>1, <2>2
  <2>4. latest \in [Keys -> Nat]
    BY <2>2
  <2> HIDE DEF kr, n
  <2>5. latest' \in [Keys -> Nat] /\ latest'[kr] >= n
        /\ \A k \in Keys : latest'[k] >= latest[k]
                        /\ (latest'[k] = latest[k] \/ (k = kr /\ latest'[k] = n))
    <3>1. PICK m \in Nat : m = (IF n > latest[kr] THEN n ELSE latest[kr])
      BY <2>3, <2>4
    <3>2. latest' = [latest EXCEPT ![kr] = m]
      BY <2>3, <2>4, <3>1
    <3>3. latest[kr] \in Nat /\ m >= n /\ m >= latest[kr] /\ m \in {n, latest[kr]}
      BY <2>3, <2>4, <3>1
    <3>4. latest' \in [Keys -> Nat] /\ latest'[kr] = m
          /\ \A k \in Keys \ {kr} : latest'[k] = latest[k] /\ latest[k] \in Nat
      BY <2>3, <2>4, <3>2
    <3> QED BY <3>3, <3>4
  <2> QED BY <2>5 DEF kr, n
<1>10. /\ UNCHANGED <<seq, frozen, version, sst, files, queue, worker, key, best, unread, found, barrier>>
       /\ todo' = [todo EXCEPT ![c] = Tail(@)]
       /\ IF Len(todo[c]) = 1
          THEN /\ pc' = [pc EXCEPT ![c] = "flush_check"]
               /\ view' = [view EXCEPT ![c] = Blank]
               /\ seen' = [seen EXCEPT ![c] = Never]
          ELSE UNCHANGED <<pc, view, seen>>
       /\ IF Len(todo[c]) = 1 /\ pc[c] = "commit_put" THEN CloseTxn(c, "committed")
                                                     ELSE UNCHANGED txn
  BY DEF Insert
<1> HIDE DEF a, r
<1>11. StoreType'
  BY <1>7, <1>10 DEF StorageInv, TypeOK, StoreType
<1>12. CallType'
  <2>1. PICK s \in Seq(Row) : todo' = [todo EXCEPT ![c] = s]
    BY <1>2, <1>10 DEF StorageInv, TypeOK, CallType
  <2>2. pc' \in [Clients -> Locations] /\ view' \in [Clients -> Version]
    <3>1. Blank \in Version
      BY DEF Blank
    <3> HIDE DEF Version
    <3>2. CASE Len(todo[c]) = 1
      BY <1>10, <3>1, <3>2 DEF StorageInv, TypeOK, CallType
    <3>3. CASE Len(todo[c]) # 1
      BY <1>10, <3>3 DEF StorageInv, TypeOK, CallType
    <3> QED BY <3>2, <3>3
  <2> QED BY <1>10, <2>1, <2>2 DEF StorageInv, TypeOK, CallType
<1>13. TxnType'
  <2>1. seen' \in [Clients -> [Keys -> Nat]]
    BY <1>10, NeverTyped DEF StorageInv, TypeOK, TxnType
  <2>2. CASE UNCHANGED txn
    BY <1>9, <2>1, <2>2 DEF StorageInv, TypeOK, TxnType
  <2>3. CASE CloseTxn(c, "committed")
    BY <1>9, <2>1, <2>3, NeverTyped DEF StorageInv, TypeOK, TxnType, CloseTxn
  <2> QED BY <1>10, <2>2, <2>3
<1>14. Shape'
  <2>1. \A d \in Clients : pc'[d] \in OwnsWrite <=> pc[d] \in OwnsWrite
    BY <1>1, <1>10 DEF StorageInv, TypeOK, CallType
  <2> QED BY <1>7, <1>10, <2>1 DEF StorageInv, Shape
<1>15. WriteGateHeld'
  BY <1>1, <1>10 DEF StorageInv, TypeOK, CallType, WriteGateHeld
<1>16. ViewsExist'
  <2> SUFFICES ASSUME NEW d \in Clients
               PROVE  /\ view'[d].imm \subseteq DOMAIN frozen
                      /\ view'[d].ssts \subseteq DOMAIN sst
                      /\ pc'[d] \in {"begin", "get_active", "scan_shards"} => view'[d].active \in DOMAIN mem
                      /\ pc'[d] = "enqueue_flush" => view'[d].active \in DOMAIN frozen
    BY <1>7, <1>10 DEF ViewsExist
  <2>1. CASE pc'[d] = pc[d] /\ view'[d] = view[d]
    BY <2>1 DEF StorageInv, ViewsExist
  <2>2. CASE pc'[d] = "flush_check" /\ view'[d] = Blank
    BY <2>2 DEF Blank
  <2> QED BY <1>10, <2>1, <2>2 DEF StorageInv, TypeOK, CallType
<1>17. JobsExist' /\ BarriersWait'
  <2>1. \A d \in Clients : pc[d] = "wait" => pc'[d] = "wait"
    BY <1>1, <1>10 DEF StorageInv, TypeOK, CallType
  <2>2. \A i \in DOMAIN queue : queue[i].client \in Clients
    BY JobClients
  <2> QED BY <1>10, <2>1, <2>2 DEF StorageInv, JobsExist, BarriersWait
<1>18. WorkerKnows'
  BY <1>10 DEF StorageInv, WorkerKnows, NewestRows
<1>19. WorkAhead'
  <2>1. ASSUME NEW d \in Clients, d # c
        PROVE  pc'[d] = pc[d] /\ todo'[d] = todo[d] /\ writes'[d] = writes[d]
    <3>1. pc'[d] = pc[d] /\ todo'[d] = todo[d]
      BY <1>10, <2>1 DEF StorageInv, TypeOK, CallType
    <3>2. writes'[d] = writes[d]
      <4>1. CASE UNCHANGED txn
        BY <4>1
      <4>2. CASE CloseTxn(c, "committed")
        BY <2>1, <4>2 DEF StorageInv, TypeOK, TxnType, CloseTxn
      <4> QED BY <1>10, <4>1, <4>2
    <3> QED BY <3>1, <3>2
  <2>2. CASE Len(todo[c]) = 1
    <3>1. pc'[c] = "flush_check"
      BY <1>10, <2>2 DEF StorageInv, TypeOK, CallType
    <3> QED BY <2>1, <3>1 DEF StorageInv, WorkAhead
  <2>3. CASE Len(todo[c]) # 1
    <3>1. pc'[c] = pc[c] /\ todo'[c] # <<>>
      BY <1>2, <1>10, <2>3 DEF StorageInv, TypeOK, CallType
    <3> QED BY <1>1, <2>1, <3>1 DEF StorageInv, WorkAhead
  <2> QED BY <2>2, <2>3
<1>20. LatestBounds'
  <2>1. ASSUME NEW g \in DOMAIN mem, NEW q \in mem'[g] PROVE q.seq <= latest'[q.key]
    <3>1. q \in Row /\ latest[q.key] \in Nat
      <4>1. mem'[g] \in SUBSET Row
        <5> HIDE DEF Row
        <5> QED BY <1>7
      <4> QED BY <4>1 DEF StorageInv, TypeOK, TxnType
    <3>2. CASE q = r
      BY <1>2, <1>9, <3>2
    <3>3. CASE q # r
      BY <1>8, <1>9, <3>1, <3>3 DEF StorageInv, LatestBounds
    <3> QED BY <3>2, <3>3
  <2>2. ASSUME NEW i \in DOMAIN sst, NEW q \in sst[i] PROVE q.seq <= latest'[q.key]
    <3>1. sst[i] \in SUBSET Row /\ q.seq <= latest[q.key]
      BY BoundedRows
    <3>2. q \in Row /\ latest[q.key] \in Nat
      BY <3>1 DEF StorageInv, TypeOK, TxnType
    <3> QED BY <1>9, <3>1, <3>2
  <2> QED BY <1>7, <1>10, <2>1, <2>2 DEF LatestBounds
<1>21. FrozenIsFinal'
  <2>1. DOMAIN frozen \subseteq DOMAIN mem
    BY <1>4 DEF StorageInv, Shape
  <2> QED BY <1>5, <1>8, <1>10, <2>1 DEF StorageInv, FrozenIsFinal
<1>22. NewestPresent'
  <2> SUFFICES ASSUME NEW k \in Keys, latest'[k] > 0
               PROVE  [key |-> k, seq |-> latest'[k]] \in Contents(version)'
    BY <1>10 DEF NewestPresent
  <2>1. CASE latest'[k] = latest[k]
    <3>1. [key |-> k, seq |-> latest[k]] \in Contents(version)
      BY <2>1 DEF StorageInv, NewestPresent
    <3> QED BY <1>3, <1>5, <1>8, <1>10, <2>1, <3>1, InContents, InContentsAfter
  <2>2. CASE k = r.key /\ latest'[k] = r.seq
    <3>1. [key |-> k, seq |-> latest'[k]] = r
      BY <1>2, <2>2
    <3> QED BY <1>3, <1>5, <1>8, <1>10, <3>1, InContentsAfter
  <2> QED BY <1>9, <2>1, <2>2
<1> QED BY <1>11, <1>12, <1>13, <1>14, <1>15, <1>16, <1>17, <1>18, <1>19, <1>20, <1>21,
           <1>22 DEF StorageInv, TypeOK

\* A client freezes the active memtable: a copy of it, and a fresh one.
LEMMA FreezeCopyStep ==
    ASSUME StorageInv, NEW c \in Clients, FreezeCopy(c)
    PROVE  StorageInv'
<1> USE DEF store, back, disk, getter, scan, txn, Go
<1> DEFINE a == version.active
<1>1. /\ pc[c] = "freeze"
      /\ \A d \in Clients : pc[d] \notin OwnsWrite \cup SharesWrite
      /\ mem' = Append(mem, {}) /\ frozen' = Append(frozen, mem[a])
      /\ view' = [view EXCEPT ![c] = version]
      /\ pc' = [pc EXCEPT ![c] = "swap"]
      /\ UNCHANGED <<seq, version, sst, files, queue, worker, todo, key, best, unread, found, barrier,
                     tx, snap, index, writes, latest, seen>>
  BY DEF FreezeCopy, WriteGateFree
<1>2. version \in Version /\ a \in DOMAIN mem /\ a = Len(mem) /\ Len(mem) = Len(frozen) + 1
      /\ version.imm \subseteq DOMAIN frozen /\ version.ssts \subseteq DOMAIN sst
  BY <1>1 DEF StorageInv, TypeOK, StoreType, Shape
<1>3. mem \in Seq(SUBSET Row) /\ frozen \in Seq(SUBSET Row) /\ mem[a] \in SUBSET Row
      /\ {} \in SUBSET Row
  <2>1. mem \in Seq(SUBSET Row) /\ frozen \in Seq(SUBSET Row)
    BY DEF StorageInv, TypeOK, StoreType
  <2> QED BY <1>2, <2>1, BoundedRows
<1>4. /\ mem' \in Seq(SUBSET Row) /\ Len(mem') = Len(mem) + 1
      /\ Len(mem) \in Nat /\ DOMAIN mem = 1 .. Len(mem)
      /\ DOMAIN mem' = 1 .. Len(mem) + 1 /\ mem'[Len(mem) + 1] = {}
      /\ \A g \in DOMAIN mem : mem'[g] = mem[g]
  <2> HIDE DEF Row
  <2> QED BY <1>1, <1>3, AppendFacts
<1>5. /\ frozen' \in Seq(SUBSET Row) /\ Len(frozen') = Len(frozen) + 1
      /\ Len(frozen) \in Nat /\ DOMAIN frozen = 1 .. Len(frozen)
      /\ DOMAIN frozen' = 1 .. Len(frozen) + 1 /\ frozen'[Len(frozen) + 1] = mem[a]
      /\ \A g \in DOMAIN frozen : frozen'[g] = frozen[g]
  <2> HIDE DEF Row, a
  <2> QED BY <1>1, <1>3, AppendFacts
<1>6. DOMAIN mem \subseteq DOMAIN mem' /\ DOMAIN frozen \subseteq DOMAIN frozen'
  BY <1>4, <1>5
<1>7. StoreType'
  BY <1>1, <1>4, <1>5 DEF StorageInv, TypeOK, StoreType
<1>8. CallType' /\ TxnType'
  BY <1>1, <1>2 DEF StorageInv, TypeOK, CallType, TxnType
<1>9. Shape'
  <2>1. pc'[c] \in OwnsWrite
    BY <1>1 DEF StorageInv, TypeOK, CallType
  <2> QED BY <1>1, <1>2, <1>4, <1>5, <1>6, <2>1 DEF Shape
<1>10. WriteGateHeld'
  BY <1>1 DEF StorageInv, TypeOK, CallType, WriteGateHeld
<1>11. ViewsExist'
  BY <1>1, <1>2, <1>6 DEF StorageInv, TypeOK, CallType, ViewsExist
<1>12. JobsExist' /\ BarriersWait'
  <2>1. \A d \in Clients : pc[d] = "wait" => pc'[d] = "wait"
    BY <1>1 DEF StorageInv, TypeOK, CallType
  <2> QED BY <1>1, <1>6, <2>1, JobClients DEF StorageInv, JobsExist, BarriersWait
<1>13. WorkerKnows'
  BY <1>1, <1>5, <1>6 DEF StorageInv, WorkerKnows, NewestRows
<1>14. WorkAhead'
  BY <1>1 DEF StorageInv, TypeOK, CallType, WorkAhead
<1>15. LatestBounds'
  <2>1. \A g \in DOMAIN mem' : g \in DOMAIN mem \/ mem'[g] = {}
    BY <1>4
  <2> QED BY <1>1, <1>4, <2>1 DEF StorageInv, LatestBounds
<1>16. FrozenIsFinal'
  <2>1. \A g \in DOMAIN frozen' : (g \in DOMAIN frozen /\ g \in DOMAIN mem) \/ g = a
    BY <1>2, <1>4, <1>5
  <2> QED BY <1>2, <1>4, <1>5, <2>1 DEF StorageInv, FrozenIsFinal
<1>17. NewestPresent'
  <2> SUFFICES ASSUME NEW k \in Keys, latest[k] > 0
               PROVE  [key |-> k, seq |-> latest[k]] \in Contents(version)'
    BY <1>1 DEF NewestPresent
  <2>1. [key |-> k, seq |-> latest[k]] \in Contents(version)
    BY DEF StorageInv, NewestPresent
  <2> QED BY <1>1, <1>2, <1>4, <1>5, <2>1, InContents, InContentsAfter
<1> QED BY <1>7, <1>8, <1>9, <1>10, <1>11, <1>12, <1>13, <1>14, <1>15, <1>16, <1>17
        DEF StorageInv, TypeOK

\* It swaps in the Version that has the copy among its immutable memtables.
LEMMA FreezeSwapStep ==
    ASSUME StorageInv, NEW c \in Clients, FreezeSwap(c)
    PROVE  StorageInv'
<1> USE DEF store, back, disk, getter, scan, txn, Go
<1> DEFINE g == view[c].active
<1>1. /\ pc[c] = "swap" /\ pc' = [pc EXCEPT ![c] = "enqueue_flush"]
      /\ version' = [version EXCEPT !.active = Len(mem), !.imm = @ \cup {g}]
      /\ UNCHANGED <<seq, mem, frozen, sst, files, queue, worker, todo, view, key, best, unread, found,
                     barrier, tx, snap, index, writes, latest, seen>>
  BY DEF FreezeSwap, WithFrozen, Frozen
<1>2. /\ g = version.active /\ g = Len(frozen) /\ g \in DOMAIN mem
      /\ Len(mem) = Len(frozen) + 1 /\ version \in Version
  BY <1>1 DEF StorageInv, TypeOK, StoreType, Shape, WriteGateHeld
<1>3. /\ Len(mem) \in Nat /\ DOMAIN mem = 1 .. Len(mem)
      /\ Len(frozen) \in Nat /\ DOMAIN frozen = 1 .. Len(frozen)
  BY LenProperties DEF StorageInv, TypeOK, StoreType
<1>4. g \in DOMAIN frozen /\ g \in Nat /\ Len(mem) \in DOMAIN mem
  BY <1>2, <1>3
<1> HIDE DEF g
<1>5. /\ version' \in Version /\ version'.active = Len(mem)
      /\ version'.imm = version.imm \cup {g} /\ version'.ssts = version.ssts
  BY <1>1, <1>2, <1>3, <1>4
<1>6. \A d \in Clients : /\ pc'[d] \notin OwnsWrite \cup SharesWrite
                         /\ pc'[d] = pc[d] \/ (d = c /\ pc'[d] = "enqueue_flush")
  BY <1>1 DEF StorageInv, TypeOK, CallType, WriteGateHeld
<1>7. StoreType'
  BY <1>1, <1>5 DEF StorageInv, TypeOK, StoreType
<1>8. CallType' /\ TxnType'
  BY <1>1 DEF StorageInv, TypeOK, CallType, TxnType
<1>9. Shape' /\ WriteGateHeld'
  BY <1>1, <1>2, <1>4, <1>5, <1>6 DEF StorageInv, Shape, WriteGateHeld
<1>10. ViewsExist'
  BY <1>1, <1>4, <1>6 DEF StorageInv, ViewsExist, g
<1>11. JobsExist' /\ BarriersWait'
  BY <1>1, <1>6, JobClients DEF StorageInv, JobsExist, BarriersWait
<1>12. WorkerKnows' /\ WorkAhead' /\ LatestBounds' /\ FrozenIsFinal'
  BY <1>1, <1>6 DEF StorageInv, WorkerKnows, NewestRows, WorkAhead, LatestBounds, FrozenIsFinal
<1>13. NewestPresent'
  <2> SUFFICES ASSUME NEW k \in Keys, latest[k] > 0
               PROVE  [key |-> k, seq |-> latest[k]] \in Contents(version)'
    BY <1>1 DEF NewestPresent
  <2>1. [key |-> k, seq |-> latest[k]] \in Contents(version)
    BY DEF StorageInv, NewestPresent
  <2>2. frozen[g] = mem[version.active]
    BY <1>2, <1>4 DEF StorageInv, FrozenIsFinal
  <2> QED BY <1>1, <1>5, <2>1, <2>2, InContents, InContentsAfter
<1> QED BY <1>7, <1>8, <1>9, <1>10, <1>11, <1>12, <1>13 DEF StorageInv, TypeOK

-----------------------------------------------------------------------------
(* The background thread.                                                  *)

\* Every job in the queue still makes sense once the first one is taken.
LEMMA ReceiveStep ==
    ASSUME StorageInv, NEW kind, Receive(kind)
    PROVE  /\ queue # <<>> /\ Head(queue) \in JobType /\ Head(queue) = queue[1]
           /\ 1 \in DOMAIN queue /\ queue' = Tail(queue) /\ queue' \in Seq(JobType)
           /\ \A i \in DOMAIN queue' : /\ i + 1 \in DOMAIN queue /\ i \in Nat \ {0}
                                       /\ queue'[i] = queue[i + 1]
           /\ worker.pc = "idle" /\ Head(queue).kind = kind
<1>1. queue \in Seq(JobType) /\ queue # <<>> /\ queue' = Tail(queue)
      /\ worker.pc = "idle" /\ Head(queue).kind = kind
  BY DEF Receive, StorageInv, TypeOK, StoreType
<1> HIDE DEF JobType
<1>2. /\ Head(queue) \in JobType /\ Tail(queue) \in Seq(JobType) /\ Head(queue) = queue[1]
      /\ Len(queue) \in Nat \ {0} /\ DOMAIN queue = 1 .. Len(queue)
      /\ DOMAIN Tail(queue) = 1 .. Len(queue) - 1
      /\ \A i \in DOMAIN Tail(queue) : Tail(queue)[i] = queue[i + 1]
  BY <1>1, TailFacts
<1> QED BY <1>1, <1>2

\* flush_one() writes the rows of a frozen memtable to a new SST.
LEMMA FlushBuildStep ==
    ASSUME StorageInv, FlushBuild
    PROVE  StorageInv'
<1> USE DEF store, back, disk, getter, scan, txn
<1> DEFINE g == Head(queue).gen
           R == NewestRows(frozen[g])
<1>1. /\ Receive("flush") /\ sst' = Append(sst, R) /\ files' = files \cup {Len(sst) + 1}
      /\ worker' = [Idle EXCEPT !.pc = "flush", !.gen = g]
      /\ UNCHANGED <<seq, mem, frozen, version, pc, todo, view, key, best, unread, found, barrier, tx,
                     snap, index, writes, latest, seen>>
  BY DEF FlushBuild, NextSst
<1>2. /\ Head(queue) \in JobType /\ Head(queue) = queue[1] /\ 1 \in DOMAIN queue
      /\ queue' \in Seq(JobType) /\ Head(queue).kind = "flush"
      /\ \A i \in DOMAIN queue' : /\ i + 1 \in DOMAIN queue /\ i \in Nat \ {0}
                                  /\ queue'[i] = queue[i + 1]
  BY <1>1, ReceiveStep
<1>3. g \in DOMAIN frozen /\ g \in Nat
  BY <1>2 DEF StorageInv, JobsExist, JobType
<1> HIDE DEF g
<1>4. /\ frozen[g] \in SUBSET Row /\ R \in SUBSET Row
      /\ \A r \in R : r.seq <= latest[r.key]
  BY <1>3, BoundedRows DEF NewestRows
<1> HIDE DEF R
<1>5. /\ sst' \in Seq(SUBSET Row) /\ Len(sst') = Len(sst) + 1
      /\ Len(sst) \in Nat /\ DOMAIN sst = 1 .. Len(sst)
      /\ DOMAIN sst' = 1 .. Len(sst) + 1 /\ sst'[Len(sst) + 1] = R
      /\ \A i \in DOMAIN sst : sst'[i] = sst[i] /\ i \in DOMAIN sst'
  <2>1. sst \in Seq(SUBSET Row)
    BY DEF StorageInv, TypeOK, StoreType
  <2> HIDE DEF Row
  <2> QED BY <1>1, <1>4, <2>1, AppendFacts
<1>6. worker'.pc = "flush" /\ worker'.gen = g /\ worker'.targets = {}
      /\ worker' \in [pc : {"idle", "flush", "compact", "unlink"}, gen : Nat,
                      targets : SUBSET Nat]
  BY <1>1, <1>3 DEF Idle
<1>7. StoreType'
  BY <1>1, <1>2, <1>5, <1>6 DEF StorageInv, TypeOK, StoreType
<1>8. CallType' /\ TxnType'
  BY <1>1 DEF StorageInv, TypeOK, CallType, TxnType
<1>9. Shape' /\ WriteGateHeld' /\ ViewsExist' /\ WorkAhead'
  BY <1>1, <1>5 DEF StorageInv, Shape, WriteGateHeld, ViewsExist, WorkAhead
<1>10. JobsExist' /\ BarriersWait'
  BY <1>1, <1>2 DEF StorageInv, JobsExist, BarriersWait
<1>11. WorkerKnows'
  <2>1. sst' # <<>>
    BY <1>5, EmptySeq
  <2>2. R = NewestRows(frozen'[g])
    BY <1>1 DEF R, NewestRows
  <2> QED BY <1>1, <1>3, <1>5, <1>6, <2>1, <2>2 DEF WorkerKnows, NewestRows
<1>12. LatestBounds'
  <2>1. \A i \in DOMAIN sst' : i \in DOMAIN sst \/ i = Len(sst) + 1
    BY <1>5
  <2> QED BY <1>1, <1>4, <1>5, <2>1 DEF StorageInv, LatestBounds
<1>13. FrozenIsFinal'
  BY <1>1 DEF StorageInv, FrozenIsFinal
<1>14. NewestPresent'
  <2> SUFFICES ASSUME NEW k \in Keys, latest[k] > 0
               PROVE  [key |-> k, seq |-> latest[k]] \in Contents(version)'
    BY <1>1 DEF NewestPresent
  <2>1. [key |-> k, seq |-> latest[k]] \in Contents(version)
    BY DEF StorageInv, NewestPresent
  <2>2. version.ssts \subseteq DOMAIN sst
    BY DEF StorageInv, Shape
  <2> QED BY <1>1, <1>5, <2>1, <2>2, InContents, InContentsAfter
<1> QED BY <1>7, <1>8, <1>9, <1>10, <1>11, <1>12, <1>13, <1>14 DEF StorageInv, TypeOK

\* The new SST takes the place of the memtable: the newest row of every key
\* that was in the one is in the other.
LEMMA FlushSwapStep ==
    ASSUME StorageInv, FlushSwap
    PROVE  StorageInv'
<1> USE DEF store, back, disk, getter, scan, txn
<1> DEFINE g == worker.gen
<1>1. /\ worker.pc = "flush" /\ worker' = Idle
      /\ version' = [version EXCEPT !.imm = @ \ {g}, !.ssts = @ \cup {Len(sst)}]
      /\ UNCHANGED <<seq, mem, frozen, sst, files, queue, pc, todo, view, key, best, unread, found,
                     barrier, tx, snap, index, writes, latest, seen>>
  BY DEF FlushSwap, WithFlushed
<1>2. /\ g \in DOMAIN frozen /\ sst # <<>> /\ sst[Len(sst)] = NewestRows(frozen[g])
      /\ version \in Version /\ sst \in Seq(SUBSET Row)
  BY <1>1 DEF StorageInv, TypeOK, StoreType, WorkerKnows
<1>3. Len(sst) \in DOMAIN sst /\ Len(sst) \in Nat
  <2> HIDE DEF Row
  <2> QED BY <1>2, LenProperties, EmptySeq
<1> HIDE DEF g
<1>4. /\ version' \in Version /\ version'.active = version.active
      /\ version'.imm = version.imm \ {g} /\ version'.ssts = version.ssts \cup {Len(sst)}
  BY <1>1, <1>2, <1>3
<1>5. StoreType'
  BY <1>1, <1>4 DEF StorageInv, TypeOK, StoreType, Idle
<1>6. CallType' /\ TxnType'
  BY <1>1 DEF StorageInv, TypeOK, CallType, TxnType
<1>7. Shape' /\ WriteGateHeld' /\ ViewsExist' /\ WorkAhead'
  BY <1>1, <1>3, <1>4 DEF StorageInv, Shape, WriteGateHeld, ViewsExist, WorkAhead
<1>8. JobsExist' /\ BarriersWait' /\ LatestBounds' /\ FrozenIsFinal'
  BY <1>1 DEF StorageInv, JobsExist, BarriersWait, LatestBounds, FrozenIsFinal
<1>9. WorkerKnows'
  BY <1>1 DEF WorkerKnows, Idle
<1>10. NewestPresent'
  <2> SUFFICES ASSUME NEW k \in Keys, latest[k] > 0
               PROVE  [key |-> k, seq |-> latest[k]] \in Contents(version)'
    BY <1>1 DEF NewestPresent
  <2>1. [key |-> k, seq |-> latest[k]] \in Contents(version)
    BY DEF StorageInv, NewestPresent
  <2>2. [key |-> k, seq |-> latest[k]] \in frozen[g]
            => [key |-> k, seq |-> latest[k]] \in sst[Len(sst)]
    BY <1>2, BoundedRows, NewestSurvives DEF StorageInv, TypeOK
  <2> QED BY <1>1, <1>4, <2>1, <2>2, InContents, InContentsAfter
<1> QED BY <1>5, <1>6, <1>7, <1>8, <1>9, <1>10 DEF StorageInv, TypeOK

\* Picking what to compact, unlinking what was merged, and answering a Sync
\* touch no row that a Version names.
LEMMA WorkerQuietSteps ==
    ASSUME StorageInv, CompactPick \/ CompactUnlink \/ AnswerSync
    PROVE  StorageInv'
<1> USE DEF store, back, disk, getter, scan, txn, Go
<1>1. CASE CompactPick
  <2>1. /\ Receive("compact")
        /\ UNCHANGED <<seq, mem, frozen, version, sst, files, pc, todo, view, key, best, unread, found,
                       barrier, tx, snap, index, writes, latest, seen>>
    BY <1>1 DEF CompactPick
  <2>2. /\ worker.pc = "idle" /\ queue' \in Seq(JobType)
        /\ \A i \in DOMAIN queue' : /\ i + 1 \in DOMAIN queue /\ i \in Nat \ {0}
                                    /\ queue'[i] = queue[i + 1]
    BY <2>1, ReceiveStep
  <2>3. \/ UNCHANGED worker
        \/ \E w : worker' = [Idle EXCEPT !.pc = "compact", !.targets = Group(w)]
    BY <1>1 DEF CompactPick
  <2>4. \A w : Group(w) \subseteq version.ssts
    BY DEF Group
  <2>5. version.ssts \subseteq DOMAIN sst /\ version.ssts \subseteq Nat
    BY DEF StorageInv, Shape, TypeOK, StoreType
  <2>6. /\ worker' \in [pc : {"idle", "flush", "compact", "unlink"}, gen : Nat,
                        targets : SUBSET Nat]
        /\ worker'.pc # "flush" /\ worker'.targets \subseteq DOMAIN sst
    <3>1. CASE UNCHANGED worker
      BY <2>2, <3>1 DEF StorageInv, TypeOK, StoreType, WorkerKnows
    <3>2. ASSUME NEW w, worker' = [Idle EXCEPT !.pc = "compact", !.targets = Group(w)]
          PROVE  <2>6!1 /\ <2>6!2
      BY <2>4, <2>5, <3>2 DEF Idle
    <3> QED BY <2>3, <3>1, <3>2
  <2>7. TypeOK'
    BY <2>1, <2>2, <2>6 DEF StorageInv, TypeOK, StoreType, CallType, TxnType
  <2>8. Shape' /\ WriteGateHeld' /\ ViewsExist' /\ WorkAhead'
    BY <2>1 DEF StorageInv, Shape, WriteGateHeld, ViewsExist, WorkAhead
  <2>9. JobsExist' /\ BarriersWait'
    BY <2>1, <2>2 DEF StorageInv, JobsExist, BarriersWait
  <2>10. WorkerKnows' /\ LatestBounds' /\ FrozenIsFinal'
    BY <2>1, <2>6 DEF StorageInv, WorkerKnows, LatestBounds, FrozenIsFinal
  <2> QED BY <2>1, <2>7, <2>8, <2>9, <2>10, ContentsFrame DEF StorageInv
<1>2. CASE CompactUnlink
  <2>1. /\ worker.pc = "unlink" /\ worker' = Idle /\ files' = files \ worker.targets
        /\ UNCHANGED <<seq, mem, frozen, version, sst, queue, pc, todo, view, key, best, unread, found,
                       barrier, tx, snap, index, writes, latest, seen>>
    BY <1>2 DEF CompactUnlink
  <2>2. TypeOK'
    BY <2>1 DEF StorageInv, TypeOK, StoreType, CallType, TxnType, Idle
  <2>3. Shape' /\ WriteGateHeld' /\ ViewsExist' /\ WorkAhead'
    BY <2>1 DEF StorageInv, Shape, WriteGateHeld, ViewsExist, WorkAhead
  <2>4. JobsExist' /\ BarriersWait' /\ LatestBounds' /\ FrozenIsFinal'
    BY <2>1 DEF StorageInv, JobsExist, BarriersWait, LatestBounds, FrozenIsFinal
  <2>5. WorkerKnows'
    BY <2>1 DEF WorkerKnows, Idle
  <2> QED BY <2>1, <2>2, <2>3, <2>4, <2>5, ContentsFrame DEF StorageInv
<1>3. CASE AnswerSync
  <2> DEFINE c == Head(queue).client
  <2>1. /\ Receive("sync") /\ pc' = [pc EXCEPT ![c] = "synced"]
        /\ UNCHANGED <<seq, mem, frozen, version, sst, files, worker, todo, view, key,
                       best, unread, found, barrier, tx, snap, index, writes, latest, seen>>
    BY <1>3 DEF AnswerSync
  <2>2. /\ Head(queue) \in JobType /\ Head(queue) = queue[1] /\ 1 \in DOMAIN queue
        /\ queue' \in Seq(JobType) /\ Head(queue).kind = "sync"
        /\ \A i \in DOMAIN queue' : /\ i + 1 \in DOMAIN queue /\ i \in Nat \ {0}
                                    /\ queue'[i] = queue[i + 1]
    BY <2>1, ReceiveStep
  <2>3. c \in Clients /\ pc[c] = "wait"
    BY <2>2 DEF JobType, StorageInv, BarriersWait
  <2>4. \A d \in Clients : pc'[d] = pc[d] \/ (d = c /\ pc'[d] = "synced")
    BY <2>1 DEF StorageInv, TypeOK, CallType
  <2>5. \A i \in DOMAIN queue' : queue'[i].kind = "sync" => queue'[i].client # c
    BY <2>2 DEF StorageInv, BarriersWait
  <2> HIDE DEF c
  <2>6. StoreType'
    BY <2>1, <2>2 DEF StorageInv, TypeOK, StoreType
  <2>7. CallType' /\ TxnType'
    BY <2>1, <2>3 DEF StorageInv, TypeOK, CallType, TxnType
  <2>8. WriteGateHeld' /\ ViewsExist' /\ WorkAhead'
    BY <2>1, <2>3, <2>4 DEF StorageInv, WriteGateHeld, ViewsExist, WorkAhead
  <2>9. JobsExist' /\ BarriersWait'
    <3>1. \A i \in DOMAIN queue' : queue'[i].client \in Clients
      BY <2>2, JobClients
    <3> QED BY <2>1, <2>2, <2>4, <2>5, <3>1 DEF StorageInv, JobsExist, BarriersWait
  <2>10. \A d \in Clients : pc'[d] \in OwnsWrite <=> pc[d] \in OwnsWrite
    BY <2>3, <2>4
  <2> QED BY <2>1, <2>6, <2>7, <2>8, <2>9, <2>10, StorageFrame DEF StorageInv, TypeOK
<1> QED BY <1>1, <1>2, <1>3

\* The merged SST takes the place of its inputs, and keeps the newest row of
\* every key that was in one of them.
LEMMA CompactSwapStep ==
    ASSUME StorageInv, CompactSwap
    PROVE  StorageInv'
<1> USE DEF store, back, disk, getter, scan, txn
<1> DEFINE T == worker.targets
           U == UNION {sst[i] : i \in T}
           R == NewestRows(U)
           n == Len(sst) + 1
<1>1. /\ worker.pc = "compact" /\ worker' = [worker EXCEPT !.pc = "unlink"]
      /\ sst' = Append(sst, R) /\ files' = files \cup {n}
      /\ version' = [version EXCEPT !.ssts = (@ \ T) \cup {n}]
      /\ UNCHANGED <<seq, mem, frozen, queue, pc, todo, view, key, best, unread, found, barrier, tx,
                     snap, index, writes, latest, seen>>
  BY DEF CompactSwap, WithMerged, NextSst
<1>2. T \subseteq DOMAIN sst /\ version \in Version /\ sst \in Seq(SUBSET Row)
  BY DEF StorageInv, WorkerKnows, TypeOK, StoreType
<1>3. \A r : r \in U <=> \E i \in T : r \in sst[i]
  OBVIOUS
<1> HIDE DEF T, U
<1>4. U \in SUBSET Row /\ \A r \in U : r.seq <= latest[r.key]
  <2> HIDE DEF Row
  <2> QED BY <1>2, <1>3, BoundedRows
<1>5. R \in SUBSET Row /\ \A r \in R : r.seq <= latest[r.key]
  BY <1>4 DEF NewestRows
<1> HIDE DEF R
<1>6. /\ sst' \in Seq(SUBSET Row) /\ Len(sst') = n
      /\ Len(sst) \in Nat /\ DOMAIN sst = 1 .. Len(sst)
      /\ DOMAIN sst' = 1 .. n /\ sst'[n] = R
      /\ \A i \in DOMAIN sst : sst'[i] = sst[i] /\ i \in DOMAIN sst'
  <2> HIDE DEF Row
  <2> QED BY <1>1, <1>2, <1>5, AppendFacts
<1>7. /\ version' \in Version /\ version'.active = version.active
      /\ version'.imm = version.imm /\ version'.ssts = (version.ssts \ T) \cup {n}
  <2> DEFINE K == (version.ssts \ T) \cup {n}
  <2>1. n \in Nat
    BY <1>6
  <2> HIDE DEF n
  <2>2. K \in SUBSET Nat
    BY <1>2, <2>1
  <2>3. version' = [version EXCEPT !.ssts = K]
    BY <1>1
  <2> HIDE DEF K
  <2>4. version' \in Version /\ version'.active = version.active
        /\ version'.imm = version.imm /\ version'.ssts = K
    BY <1>2, <2>2, <2>3
  <2> QED BY <2>4 DEF K
<1>8. /\ worker'.pc = "unlink" /\ worker'.targets = T
      /\ worker' \in [pc : {"idle", "flush", "compact", "unlink"}, gen : Nat,
                      targets : SUBSET Nat]
  BY <1>1 DEF StorageInv, TypeOK, StoreType, T
<1>9. StoreType'
  <2>1. files' \subseteq DOMAIN sst'
    BY <1>1, <1>6 DEF StorageInv, TypeOK, StoreType
  <2> HIDE DEF Row, Version, n
  <2> QED BY <1>1, <1>6, <1>7, <1>8, <2>1 DEF StorageInv, TypeOK, StoreType
<1>10. CallType' /\ TxnType'
  BY <1>1 DEF StorageInv, TypeOK, CallType, TxnType
<1>11. Shape' /\ WriteGateHeld' /\ ViewsExist' /\ WorkAhead'
  <2>1. Shape'
    BY <1>1, <1>6, <1>7 DEF StorageInv, Shape
  <2>2. ViewsExist'
    BY <1>1, <1>6 DEF StorageInv, ViewsExist
  <2>3. WriteGateHeld' /\ WorkAhead'
    BY <1>1, <1>7 DEF StorageInv, WriteGateHeld, WorkAhead
  <2> QED BY <2>1, <2>2, <2>3
<1>12. JobsExist' /\ BarriersWait' /\ FrozenIsFinal'
  BY <1>1 DEF StorageInv, JobsExist, BarriersWait, FrozenIsFinal
<1>13. WorkerKnows'
  BY <1>2, <1>6, <1>8 DEF WorkerKnows
<1>14. LatestBounds'
  <2>1. \A i \in DOMAIN sst' : i \in DOMAIN sst \/ i = n
    BY <1>6
  <2> QED BY <1>1, <1>5, <1>6, <2>1 DEF StorageInv, LatestBounds
<1>15. NewestPresent'
  <2> SUFFICES ASSUME NEW k \in Keys, latest[k] > 0
               PROVE  [key |-> k, seq |-> latest[k]] \in Contents(version)'
    BY <1>1 DEF NewestPresent
  <2> DEFINE top == [key |-> k, seq |-> latest[k]]
  <2>1. top \in Contents(version)
    BY DEF StorageInv, NewestPresent
  <2>2. top \in U => top \in R
    BY <1>4, NewestSurvives DEF StorageInv, TypeOK, R
  <2>3. version.ssts \subseteq DOMAIN sst
    BY DEF StorageInv, Shape
  <2> HIDE DEF top, n
  <2>4. CASE \E i \in version.ssts : top \in sst[i]
    <3>1. PICK i \in version.ssts : top \in sst[i]
      BY <2>4
    <3>2. CASE i \in T
      <4>1. top \in sst'[n]
        BY <1>3, <1>6, <2>2, <3>1, <3>2
      <4> QED BY <1>7, <4>1, InContentsAfter DEF top
    <3>3. CASE i \notin T
      <4>1. i \in version'.ssts /\ top \in sst'[i]
        BY <1>6, <1>7, <2>3, <3>1, <3>3
      <4> QED BY <4>1, InContentsAfter DEF top
    <3> QED BY <3>2, <3>3
  <2>5. CASE ~ \E i \in version.ssts : top \in sst[i]
    <3>1. top \in mem[version.active] \/ \E g \in version.imm : top \in frozen[g]
      BY <2>1, <2>5, InContents
    <3> QED BY <1>1, <1>7, <3>1, InContentsAfter DEF top
  <2> QED BY <2>4, <2>5
<1> QED BY <1>9, <1>10, <1>11, <1>12, <1>13, <1>14, <1>15 DEF StorageInv, TypeOK

-----------------------------------------------------------------------------
(* The theorems.                                                           *)

LEMMA StorageInit == Init => StorageInv
<1> SUFFICES ASSUME Init PROVE StorageInv
  OBVIOUS
<1>1. StoreType
  BY DEF Init, StoreType, JobType
<1>2. CallType
  BY NeverTyped DEF Init, CallType, Blank
<1>3. TxnType
  BY NeverTyped DEF Init, TxnType
<1>4. Shape /\ WriteGateHeld /\ ViewsExist /\ WorkAhead
  BY DEF Init, Shape, WriteGateHeld, ViewsExist, WorkAhead, Blank
<1>5. JobsExist /\ BarriersWait /\ WorkerKnows
  BY DEF Init, JobsExist, BarriersWait, WorkerKnows
<1>6. LatestBounds /\ FrozenIsFinal
  BY DEF Init, LatestBounds, FrozenIsFinal
<1>7. NewestPresent
  BY DEF Init, NewestPresent, Never
<1> QED BY <1>1, <1>2, <1>3, <1>4, <1>5, <1>6, <1>7 DEF StorageInv, TypeOK

LEMMA StorageStep ==
    ASSUME StorageInv, [Next]_vars
    PROVE  StorageInv'
<1>1. CASE UNCHANGED vars
  <2>1. TypeOK'
    BY <1>1 DEF StorageInv, TypeOK, StoreType, CallType, TxnType, vars, store, back, disk,
                getter, scan, txn
  <2>2. Shape' /\ WriteGateHeld' /\ ViewsExist' /\ WorkAhead'
    BY <1>1 DEF StorageInv, Shape, WriteGateHeld, ViewsExist, WorkAhead, vars, store, back,
                disk, txn
  <2>3. JobsExist' /\ BarriersWait' /\ LatestBounds' /\ FrozenIsFinal'
    BY <1>1 DEF StorageInv, JobsExist, BarriersWait, LatestBounds, FrozenIsFinal, vars,
                store, back, disk
  <2>4. WorkerKnows' /\ NewestPresent'
    BY <1>1, ContentsFrame DEF StorageInv, WorkerKnows, NewestRows, vars, store, back, disk
  <2> QED BY <2>1, <2>2, <2>3, <2>4 DEF StorageInv
<1>2. CASE Worker
  BY <1>2, FlushBuildStep, FlushSwapStep, WorkerQuietSteps, CompactSwapStep DEF Worker
<1>3. ASSUME NEW c \in Clients, Start(c) PROVE StorageInv'
  BY <1>3, WriterSteps, BeginAndGetSteps, ScanSteps, CommitAndFlushSteps DEF Start
<1>4. ASSUME NEW c \in Clients, Continue(c) PROVE StorageInv'
  BY <1>4, WriterSteps, InsertStep, BeginAndGetSteps, ScanSteps, CommitAndFlushSteps,
     FreezeCopyStep, FreezeSwapStep DEF Continue
<1> QED BY <1>1, <1>2, <1>3, <1>4 DEF Next

\* StorageInv is inductive, so it holds in every reachable state.
THEOREM StorageCorrect == Spec => []StorageInv
BY StorageInit, StorageStep, PTL DEF Spec

\* Every variable keeps its type, whatever the clients and the background
\* thread do in whatever order.
THEOREM TypeCorrect == Spec => []TypeOK
<1>1. StorageInv => TypeOK
  BY DEF StorageInv
<1> QED BY <1>1, StorageCorrect, PTL

\* Freezing, flushing and compacting never take the newest row of a key out of
\* the current Version (memtable.rs:83-96, 168-177, 666-675).
THEOREM NewestRowPresent == Spec => []NewestPresent
<1>1. StorageInv => NewestPresent
  BY DEF StorageInv
<1> QED BY <1>1, StorageCorrect, PTL

\* No writer inserts into a memtable that freeze() has copied: the write gate
\* keeps them apart (memtable.rs:583, 658).
THEOREM FrozenStaysFinal == Spec => []FrozenIsFinal
<1>1. StorageInv => FrozenIsFinal
  BY DEF StorageInv
<1> QED BY <1>1, StorageCorrect, PTL
=============================================================================
