-------------------------- MODULE FlushWorker_proofs --------------------------
(***************************************************************************)
(* Proofs about the background thread, its failures and its end, for any   *)
(* number of clients, any capacity of the channel, any number of calls and *)
(* any number of failures.                                                 *)
(***************************************************************************)
EXTENDS FlushWorkerInv, TLAPS, SequenceTheorems, FiniteSetTheorems

-----------------------------------------------------------------------------
(* Types, in the parts the proofs need, and what sequences do.             *)

QueueTypes ==
    /\ jobs \in Seq(JobType) /\ \A i \in DOMAIN jobs : jobs[i].kind \in Kinds
    /\ out \in [Clients -> JobType] /\ \A c \in Clients : out[c].client = c
    /\ call \in [Clients -> AllCalls \cup {"none"}]
    /\ pc \in [Clients -> Places]
    /\ result \in [Clients -> {"none", "ok", "err", "dropped"}]
LsmTypes ==
    /\ sst \in Seq(SUBSET Gens)
    /\ worker \in [pc : {"idle", "build", "flush_manifest", "flush_remove", "merge",
                         "compact_manifest", "compact_remove"},
                   gen : Gens \cup {0}, old : SUBSET DOMAIN sst]
    /\ (ssts \cup manifest \cup files) \subseteq DOMAIN sst
StoreTypes == active \in Gens /\ imm \subseteq Gens /\ wals \subseteq Gens
Flags ==
    /\ alive \in BOOLEAN /\ handle \in BOOLEAN /\ error \in BOOLEAN
    /\ dirty \in BOOLEAN /\ owned \in BOOLEAN /\ late \in [Clients -> BOOLEAN]
Counts == made \in 0 .. MaxCalls /\ faults \in 0 .. MaxFaults

LEMMA TypesOfShape ==
    ASSUME ShapeInv
    PROVE  QueueTypes /\ LsmTypes /\ StoreTypes /\ Flags /\ Counts
BY DEF ShapeInv, TypeOK, QueueTypes, LsmTypes, StoreTypes, Flags, Counts, JobType

\* What Append makes of a sequence.
LEMMA AppendFacts ==
    ASSUME NEW S, NEW s \in Seq(S), NEW e \in S
    PROVE  /\ Append(s, e) \in Seq(S) /\ Len(Append(s, e)) = Len(s) + 1
           /\ Len(s) \in Nat /\ DOMAIN s = 1 .. Len(s)
           /\ DOMAIN Append(s, e) = 1 .. Len(s) + 1
           /\ Append(s, e)[Len(s) + 1] = e
           /\ \A i \in DOMAIN s : Append(s, e)[i] = s[i] /\ i \in DOMAIN Append(s, e)
BY AppendProperties, LenProperties

\* What Head and Tail are.
LEMMA TailFacts ==
    ASSUME NEW S, NEW s \in Seq(S), s # <<>>
    PROVE  /\ Head(s) \in S /\ Tail(s) \in Seq(S) /\ Head(s) = s[1]
           /\ Len(s) \in Nat \ {0} /\ DOMAIN s = 1 .. Len(s)
           /\ Len(Tail(s)) = Len(s) - 1 /\ DOMAIN Tail(s) = 1 .. Len(s) - 1
           /\ \A i \in DOMAIN Tail(s) : Tail(s)[i] = s[i + 1]
BY HeadTailProperties, LenProperties, EmptySeq

\* The clients leave the files and the worker alone ...
LEMMA ClientsLeave ==
    ASSUME NEW c \in Clients, Start(c) \/ Continue(c)
    PROVE  UNCHANGED <<alive, worker, error, ssts, sst, manifest, files, pending, faults>>
<1> USE DEF store, lsm, thread, session
<1>1. CASE Start(c)
  BY <1>1 DEF Start, WriteCall, FlushCall, CompactCall, CloseCall, DropCall, Begin
<1>2. CASE MaybeFlush(c) \/ Freeze(c) \/ MaybeCompact(c)
  BY <1>2 DEF MaybeFlush, Freeze, MaybeCompact
<1>3. CASE Enqueue(c) \/ Send(c) \/ SendFails(c) \/ BarrierFails(c) \/ BarrierPasses(c)
  BY <1>3 DEF Enqueue, Send, SendFails, BarrierFails, BarrierPasses
<1>4. CASE TakeHandle(c) \/ SendShutdown(c) \/ Join(c) \/ LastCheck(c) \/ Return(c)
  BY <1>4 DEF TakeHandle, SendShutdown, Join, LastCheck, Return
<1> QED BY <1>1, <1>2, <1>3, <1>4 DEF Continue

\* ... and the worker leaves the callers alone, but for an answer.
LEMMA WorkerLeaves ==
    ASSUME Worker
    PROVE  /\ UNCHANGED <<handle, active, dirty, made, owned>>
           /\ UNCHANGED <<call, out, result, before, late>>
           /\ pc' = pc \/ AnswerSync
<1> USE DEF store, lsm, session, client, thread
<1>1. CASE StartFlush \/ FlushSwap \/ StartCompact \/ CompactSwap
  BY <1>1 DEF StartFlush, FlushSwap, StartCompact, CompactSwap
<1>2. CASE WriteManifest \/ Remove \/ JobFailed
  BY <1>2 DEF WriteManifest, Remove, JobFailed
<1>3. CASE AnswerSync \/ Shutdown
  BY <1>3 DEF AnswerSync, Shutdown
<1> QED BY <1>1, <1>2, <1>3 DEF Worker

-----------------------------------------------------------------------------
(* Calls: each is where it can be, with a job it can send.                 *)

LEMMA CallsStep ==
    ASSUME QueueTypes, CallsInOrder, JobsInHand, SendersWait, [Next]_vars
    PROVE  CallsInOrder'
<1> USE DEF QueueTypes, CallsInOrder, JobsInHand, Opening, Closing, Job, NoJob, JobType,
            client, Go
<1>1. CASE Worker
  <2>1. CASE AnswerSync
    <3>1. /\ jobs # <<>> /\ Head(jobs).kind = "sync"
          /\ pc' = [pc EXCEPT ![Head(jobs).client] = "synced"]
      BY <2>1 DEF AnswerSync, Receive
    <3>2. Head(jobs) \in JobType /\ Head(jobs) = jobs[1] /\ 1 \in DOMAIN jobs
      <4> HIDE DEF JobType
      <4> QED BY <3>1, TailFacts
    <3>3. Head(jobs).client \in Clients /\ pc[Head(jobs).client] = "wait"
      BY <3>1, <3>2 DEF SendersWait
    <3> QED BY <1>1, <3>1, <3>3, WorkerLeaves
  <2>2. CASE ~AnswerSync
    BY <1>1, <2>2, WorkerLeaves
  <2> QED BY <2>1, <2>2
<1>2. ASSUME NEW c \in Clients, Start(c) PROVE CallsInOrder'
  BY <1>2 DEF Start, WriteCall, FlushCall, CompactCall, CloseCall, DropCall, Begin, AllCalls
<1>3. ASSUME NEW c \in Clients, MaybeFlush(c) \/ Freeze(c) \/ MaybeCompact(c)
      PROVE  CallsInOrder'
  BY <1>3 DEF MaybeFlush, Freeze, MaybeCompact, Leave
<1>4. ASSUME NEW c \in Clients, Enqueue(c) \/ SendFails(c) PROVE CallsInOrder'
  BY <1>4 DEF Enqueue, SendFails, Fail, Leave
<1>5. ASSUME NEW c \in Clients, Send(c) PROVE CallsInOrder'
  BY <1>5 DEF Send, AfterSend
<1>6. ASSUME NEW c \in Clients, BarrierFails(c) \/ BarrierPasses(c) PROVE CallsInOrder'
  BY <1>6 DEF BarrierFails, BarrierPasses, Fail, Leave
<1>7. ASSUME NEW c \in Clients, TakeHandle(c) \/ SendShutdown(c) \/ Join(c)
      PROVE  CallsInOrder'
  BY <1>7 DEF TakeHandle, SendShutdown, Join
<1>8. ASSUME NEW c \in Clients, LastCheck(c) \/ Return(c) PROVE CallsInOrder'
  BY <1>8 DEF LastCheck, Return, Leave
<1>9. CASE UNCHANGED vars
  BY <1>9 DEF vars
<1> QED BY <1>1, <1>2, <1>3, <1>4, <1>5, <1>6, <1>7, <1>8, <1>9 DEF Next, Continue

LEMMA HandStep ==
    ASSUME QueueTypes, CallsInOrder, JobsInHand, [Next]_vars
    PROVE  JobsInHand'
<1> USE DEF QueueTypes, CallsInOrder, JobsInHand, Job, NoJob, JobType, client, Go
<1>1. CASE Worker
  <2>1. CASE AnswerSync
    BY <2>1, WorkerLeaves DEF AnswerSync
  <2> QED BY <1>1, <2>1, WorkerLeaves
<1>2. ASSUME NEW c \in Clients, Start(c) PROVE JobsInHand'
  BY <1>2 DEF Start, WriteCall, FlushCall, CompactCall, CloseCall, DropCall, Begin, AllCalls
<1>3. ASSUME NEW c \in Clients, MaybeFlush(c) \/ Freeze(c) \/ MaybeCompact(c)
      PROVE  JobsInHand'
  BY <1>3 DEF MaybeFlush, Freeze, MaybeCompact, Leave
<1>4. ASSUME NEW c \in Clients, Enqueue(c) \/ SendFails(c) PROVE JobsInHand'
  BY <1>4 DEF Enqueue, SendFails, Fail, Leave
<1>5. ASSUME NEW c \in Clients, Send(c) PROVE JobsInHand'
  BY <1>5 DEF Send, AfterSend
<1>6. ASSUME NEW c \in Clients, BarrierFails(c) \/ BarrierPasses(c) PROVE JobsInHand'
  BY <1>6 DEF BarrierFails, BarrierPasses, Fail, Leave
<1>7. ASSUME NEW c \in Clients, TakeHandle(c) \/ SendShutdown(c) \/ Join(c)
      PROVE  JobsInHand'
  BY <1>7 DEF TakeHandle, SendShutdown, Join
<1>8. ASSUME NEW c \in Clients, LastCheck(c) \/ Return(c) PROVE JobsInHand'
  BY <1>8 DEF LastCheck, Return, Leave
<1>9. CASE UNCHANGED vars
  BY <1>9 DEF vars
<1> QED BY <1>1, <1>2, <1>3, <1>4, <1>5, <1>6, <1>7, <1>8, <1>9 DEF Next, Continue

\* The worker takes the job at the head of the channel.
LEMMA ReceiveFacts ==
    ASSUME QueueTypes, NEW kind, Receive(kind)
    PROVE  /\ jobs # <<>> /\ Head(jobs).kind = kind /\ alive /\ worker.pc = "idle"
           /\ Head(jobs) \in JobType /\ Head(jobs) = jobs[1] /\ 1 \in DOMAIN jobs
           /\ Tail(jobs) \in Seq(JobType) /\ Len(Tail(jobs)) = Len(jobs) - 1
           /\ Len(jobs) \in Nat /\ DOMAIN jobs = 1 .. Len(jobs)
           /\ DOMAIN Tail(jobs) = 1 .. Len(jobs) - 1
           /\ \A i \in DOMAIN Tail(jobs) : i + 1 \in DOMAIN jobs /\ Tail(jobs)[i] = jobs[i + 1]
<1>1. jobs # <<>> /\ jobs \in Seq(JobType)
  BY DEF Receive, QueueTypes
<1>2. alive /\ worker.pc = "idle" /\ Head(jobs).kind = kind
  BY DEF Receive
<1> QED BY <1>1, <1>2, TailFacts

\* What becomes of the channel in a step.
LEMMA ChannelSteps ==
    ASSUME QueueTypes, JobsInHand, [Next]_vars
    PROVE  \/ jobs' = jobs
           \/ /\ jobs # <<>> /\ jobs' = Tail(jobs)
              /\ StartFlush \/ Head(jobs).kind # "flush"
           \/ Shutdown /\ jobs' = <<>>
           \/ \E c \in Clients : Send(c) /\ out[c].kind \in Kinds \ {"shutdown"}
                                         /\ jobs' = Append(jobs, out[c])
           \/ \E c \in Clients : SendShutdown(c) /\ jobs' = Append(jobs, Job("shutdown", 0, c))
<1>1. CASE Worker
  BY <1>1 DEF Worker, StartFlush, FlushSwap, StartCompact, CompactSwap, WriteManifest,
              Remove, JobFailed, AnswerSync, Shutdown, Receive
<1>2. ASSUME NEW c \in Clients, Send(c)
      PROVE  out[c].kind \in Kinds \ {"shutdown"} /\ jobs' = Append(jobs, out[c])
  BY <1>2 DEF Send, JobsInHand, Kinds
<1>3. ASSUME NEW c \in Clients, SendShutdown(c)
      PROVE  jobs' = Append(jobs, Job("shutdown", 0, c))
  BY <1>3 DEF SendShutdown, ShutdownLast
<1>4. ASSUME NEW c \in Clients, Start(c) \/ Continue(c), ~Send(c), ~SendShutdown(c)
      PROVE  jobs' = jobs
  BY <1>4 DEF Start, WriteCall, FlushCall, CompactCall, CloseCall, DropCall, Begin, Continue,
              MaybeFlush, Freeze, MaybeCompact, Enqueue, SendFails, BarrierFails,
              BarrierPasses, TakeHandle, Join, LastCheck, Return
<1>5. CASE UNCHANGED vars
  BY <1>5 DEF vars
<1> QED BY <1>1, <1>2, <1>3, <1>4, <1>5 DEF Next

\* What a client is about to send stays a job of its own.
LEMMA OutSteps ==
    ASSUME QueueTypes, StoreTypes, NEW c \in Clients, Start(c) \/ Continue(c)
    PROVE  out' = out \/ \E j \in JobType : j.client = c /\ out' = [out EXCEPT ![c] = j]
<1>1. \A kind \in Kinds \cup {"none"}, g \in Gens \cup {0} :
        Job(kind, g, c) \in JobType /\ Job(kind, g, c).client = c
  BY DEF Job, JobType
<1>2. NoJob(c) \in JobType /\ NoJob(c).client = c
  BY <1>1 DEF NoJob
<1> USE <1>1, <1>2 DEF Kinds
<1>3. CASE Start(c)
  BY <1>3 DEF Start, WriteCall, FlushCall, CompactCall, CloseCall, DropCall, Begin
<1>4. CASE Freeze(c)
  BY <1>4 DEF Freeze, StoreTypes
<1>5. CASE MaybeCompact(c)
  BY <1>5 DEF MaybeCompact
<1>6. CASE Send(c)
  BY <1>6 DEF Send
<1>7. CASE MaybeFlush(c) \/ Enqueue(c) \/ SendFails(c) \/ BarrierFails(c) \/ BarrierPasses(c)
  BY <1>7 DEF MaybeFlush, Enqueue, SendFails, BarrierFails, BarrierPasses
<1>8. CASE TakeHandle(c) \/ SendShutdown(c) \/ Join(c) \/ LastCheck(c) \/ Return(c)
  BY <1>8 DEF TakeHandle, SendShutdown, Join, LastCheck, Return
<1> QED BY <1>3, <1>4, <1>5, <1>6, <1>7, <1>8 DEF Continue

\* The calls and the channel keep their types.
LEMMA QueueTypesStep ==
    ASSUME QueueTypes, StoreTypes, JobsInHand, [Next]_vars
    PROVE  QueueTypes'
<1>1. jobs' \in Seq(JobType) /\ \A i \in DOMAIN jobs' : jobs'[i].kind \in Kinds
  <2>1. CASE jobs' = jobs
    BY <2>1 DEF QueueTypes
  <2>2. CASE jobs # <<>> /\ jobs' = Tail(jobs)
    BY <2>2, TailFacts DEF QueueTypes
  <2>3. CASE jobs' = <<>>
    BY <2>3
  <2>4. ASSUME NEW e \in JobType, e.kind \in Kinds, jobs' = Append(jobs, e)
        PROVE  jobs' \in Seq(JobType) /\ \A i \in DOMAIN jobs' : jobs'[i].kind \in Kinds
    BY <2>4, AppendFacts DEF QueueTypes
  <2>5. \A c \in Clients : out[c] \in JobType /\ Job("shutdown", 0, c) \in JobType
                                              /\ Job("shutdown", 0, c).kind \in Kinds
    BY DEF QueueTypes, JobType, Job, Kinds
  <2> QED BY <2>1, <2>2, <2>3, <2>4, <2>5, ChannelSteps
<1>2. out' \in [Clients -> JobType] /\ \A c \in Clients : out'[c].client = c
  <2>1. CASE Worker \/ UNCHANGED vars
    BY <2>1, WorkerLeaves DEF QueueTypes, vars, client
  <2>2. ASSUME NEW c \in Clients, Start(c) \/ Continue(c)
        PROVE  out' \in [Clients -> JobType] /\ \A d \in Clients : out'[d].client = d
    BY <2>2, OutSteps DEF QueueTypes
  <2> QED BY <2>1, <2>2 DEF Next
<1> USE DEF QueueTypes, client, Go
<1>3. CASE Worker
  <2>1. CASE AnswerSync
    <3>1. pc' = [pc EXCEPT ![Head(jobs).client] = "synced"]
      BY <2>1 DEF AnswerSync
    <3> QED BY <1>1, <1>2, <1>3, <3>1, WorkerLeaves DEF Places
  <2> QED BY <1>1, <1>2, <1>3, <2>1, WorkerLeaves
<1>4. ASSUME NEW c \in Clients, Start(c) PROVE QueueTypes'
  BY <1>1, <1>2, <1>4 DEF Start, WriteCall, FlushCall, CompactCall, CloseCall, DropCall, Begin,
                    AllCalls, Places
<1>5. ASSUME NEW c \in Clients, Freeze(c) \/ MaybeFlush(c) PROVE QueueTypes'
  BY <1>1, <1>2, <1>5 DEF Freeze, MaybeFlush, Places
<1>6. ASSUME NEW c \in Clients, Send(c) \/ MaybeCompact(c) PROVE QueueTypes'
  BY <1>1, <1>2, <1>6 DEF Send, AfterSend, MaybeCompact, Leave, Places
<1>7. ASSUME NEW c \in Clients, Enqueue(c) \/ SendFails(c) \/ BarrierFails(c) PROVE QueueTypes'
  BY <1>1, <1>2, <1>7 DEF Enqueue, SendFails, Fail, Leave, BarrierFails, Places
<1>8. ASSUME NEW c \in Clients, BarrierPasses(c) \/ TakeHandle(c) \/ SendShutdown(c)
      PROVE  QueueTypes'
  BY <1>1, <1>2, <1>8 DEF BarrierPasses, Fail, Leave, TakeHandle, SendShutdown, Places
<1>9. ASSUME NEW c \in Clients, Join(c) \/ LastCheck(c) \/ Return(c) PROVE QueueTypes'
  BY <1>1, <1>2, <1>9 DEF Join, LastCheck, Return, Leave, Places
<1>10. CASE UNCHANGED vars
  BY <1>1, <1>2, <1>10 DEF vars
<1> QED BY <1>3, <1>4, <1>5, <1>6, <1>7, <1>8, <1>9, <1>10 DEF Next, Continue

-----------------------------------------------------------------------------
(* Memtables: what is on its way to the worker has been frozen.            *)

\* How the frozen memtables and the worker's memtable change.
LEMMA MemtableSteps ==
    ASSUME LsmTypes, [Next]_vars
    PROVE  /\ \/ active' = active /\ imm' \subseteq imm
              \/ \E c \in Clients : Freeze(c) /\ dirty /\ ~dirty'
                    /\ active' = active + 1 /\ imm' = imm \cup {active}
           /\ \/ worker'.gen \in {0, worker.gen}
              \/ StartFlush /\ worker'.gen = Head(jobs).gen
<1> USE DEF LsmTypes, store, thread
<1>1. CASE Worker
  <2>1. imm' \subseteq imm
    BY <1>1 DEF Worker, StartFlush, FlushSwap, StartCompact, CompactSwap, WriteManifest,
                Remove, JobFailed, AnswerSync, Shutdown
  <2>2. CASE StartFlush
    BY <1>1, <2>1, <2>2, WorkerLeaves DEF StartFlush, Idle
  <2>3. CASE FlushSwap \/ CompactSwap \/ WriteManifest
    <3>1. worker'.gen = worker.gen
      BY <2>3 DEF FlushSwap, CompactSwap, WriteManifest
    <3> QED BY <1>1, <2>1, <3>1, WorkerLeaves
  <2>4. CASE StartCompact \/ Remove \/ JobFailed
    <3>1. worker'.gen = 0
      <4>1. CASE StartCompact
        BY <4>1 DEF StartCompact, Idle
      <4>2. CASE Remove \/ JobFailed
        <5>1. worker' = Idle
          BY <4>2 DEF Remove, JobFailed, JobFails
        <5> QED BY <5>1 DEF Idle
      <4> QED BY <2>4, <4>1, <4>2
    <3> QED BY <1>1, <2>1, <3>1, WorkerLeaves
  <2>5. CASE AnswerSync \/ Shutdown
    BY <1>1, <2>1, <2>5, WorkerLeaves DEF AnswerSync, Shutdown
  <2> QED BY <1>1, <2>2, <2>3, <2>4, <2>5 DEF Worker
<1>2. ASSUME NEW c \in Clients, Freeze(c)
      PROVE  /\ worker' = worker
             /\ \/ active' = active /\ imm' = imm
                \/ dirty /\ ~dirty' /\ active' = active + 1 /\ imm' = imm \cup {active}
  BY <1>2 DEF Freeze
<1>3. ASSUME NEW c \in Clients, Start(c) \/ Continue(c), ~Freeze(c)
      PROVE  active' = active /\ imm' = imm /\ worker' = worker
  BY <1>3, ClientsLeave
     DEF Start, WriteCall, FlushCall, CompactCall, CloseCall, DropCall, Continue,
         MaybeFlush, MaybeCompact, Enqueue, Send, SendFails, BarrierFails,
         BarrierPasses, TakeHandle, SendShutdown, Join, LastCheck, Return
<1>4. CASE UNCHANGED vars
  BY <1>4 DEF vars
<1> QED BY <1>1, <1>2, <1>3, <1>4 DEF Next

LEMMA FrozenStep ==
    ASSUME QueueTypes, LsmTypes, StoreTypes, Flags, Counts, FrozenOnly, CallsInOrder,
           JobsInHand, [Next]_vars
    PROVE  FrozenOnly'
<1>1. /\ active \in Nat /\ made \in Nat /\ imm \subseteq Nat /\ worker.gen \in Nat
      /\ dirty \in BOOLEAN /\ Gens \subseteq Nat
  BY DEF StoreTypes, Counts, LsmTypes, Flags, Gens
<1>2. /\ jobs \in Seq(JobType) /\ out \in [Clients -> JobType]
      /\ \A j \in JobType : j.gen \in Nat
  <2>1. \A j \in JobType : j.gen \in Nat
    BY DEF JobType, Gens
  <2> QED BY <2>1 DEF QueueTypes
<1>3. active' = active \/ active' = active + 1
  BY MemtableSteps
<1>4. (\A g \in imm : g < active)'
  <2>1. \A g \in imm' : g \in imm \/ (g = active /\ active' = active + 1)
    BY MemtableSteps
  <2>2. \A g \in imm : g < active
    BY DEF FrozenOnly
  <2>3. ASSUME NEW g \in imm' PROVE g < active'
    <3>1. CASE g \in imm
      <4>1. g \in Nat /\ g < active
        BY <1>1, <2>2, <3>1
      <4> QED BY <1>1, <1>3, <4>1
    <3>2. CASE g = active /\ active' = active + 1
      BY <1>1, <3>2
    <3> QED BY <2>1, <3>1, <3>2
  <2> QED BY <2>3
<1>5. (worker.gen < active)'
  <2>1. CASE worker'.gen \in {0, worker.gen}
    BY <1>1, <1>3, <2>1 DEF FrozenOnly
  <2>2. CASE StartFlush /\ worker'.gen = Head(jobs).gen
    BY <1>1, <1>2, <1>3, <2>2, ReceiveFacts DEF StartFlush, FrozenOnly
  <2> QED BY <2>1, <2>2, MemtableSteps
<1>6. (\A c \in Clients : out[c].gen < active /\ (out[c].kind = "flush" <=> out[c].gen > 0))'
  <2>1. CASE Worker \/ UNCHANGED vars
    BY <2>1, WorkerLeaves DEF FrozenOnly, vars, client, store
  <2>2. ASSUME NEW c \in Clients, Start(c) \/ Continue(c)
        PROVE  \/ out' = out
               \/ out' = [out EXCEPT ![c] = Job("flush", active, c)] /\ active' = active + 1
               \/ \E kind \in {"none", "compact", "sync"} :
                    out' = [out EXCEPT ![c] = Job(kind, 0, c)]
    <3>1. CASE Start(c)
      BY <3>1 DEF Start, WriteCall, FlushCall, CompactCall, CloseCall, DropCall, Begin, NoJob
    <3>2. CASE Freeze(c) \/ MaybeCompact(c)
      BY <3>2 DEF Freeze, MaybeCompact
    <3>3. CASE Send(c) \/ Return(c)
      BY <3>3 DEF Send, Return, NoJob
    <3>4. CASE MaybeFlush(c) \/ Enqueue(c) \/ SendFails(c) \/ BarrierFails(c)
      BY <3>4 DEF MaybeFlush, Enqueue, SendFails, BarrierFails
    <3>5. CASE BarrierPasses(c) \/ TakeHandle(c) \/ SendShutdown(c) \/ Join(c) \/ LastCheck(c)
      BY <3>5 DEF BarrierPasses, TakeHandle, SendShutdown, Join, LastCheck
    <3> QED BY <2>2, <3>1, <3>2, <3>3, <3>4, <3>5 DEF Continue
  <2>3. active > 0
    BY DEF StoreTypes, Gens
  <2>4. ASSUME NEW c \in Clients, Start(c) \/ Continue(c)
        PROVE  (\A d \in Clients : out[d].gen < active /\ (out[d].kind = "flush" <=> out[d].gen > 0))'
    BY <1>1, <1>2, <1>3, <2>2, <2>3, <2>4 DEF FrozenOnly, Job
  <2> QED BY <2>1, <2>4 DEF Next
<1>7. (\A i \in DOMAIN jobs : jobs[i].gen < active /\ (jobs[i].kind = "flush" <=> jobs[i].gen > 0))'
  <2>1. CASE jobs' = jobs \/ jobs' = <<>> \/ (jobs # <<>> /\ jobs' = Tail(jobs))
    BY <1>1, <1>2, <1>3, <2>1, TailFacts DEF FrozenOnly
  <2>2. ASSUME NEW e \in JobType, e.gen < active, e.kind = "flush" <=> e.gen > 0,
               jobs' = Append(jobs, e)
        PROVE  (\A i \in DOMAIN jobs : jobs[i].gen < active /\ (jobs[i].kind = "flush" <=> jobs[i].gen > 0))'
    BY <1>1, <1>2, <1>3, <2>2, AppendFacts DEF FrozenOnly
  <2>3. \A c \in Clients : /\ out[c].gen < active /\ (out[c].kind = "flush" <=> out[c].gen > 0)
                           /\ out[c] \in JobType /\ Job("shutdown", 0, c) \in JobType
    BY <1>2 DEF FrozenOnly, Job, JobType, Kinds
  <2>4. \A c \in Clients : Job("shutdown", 0, c).gen = 0 /\ Job("shutdown", 0, c).kind # "flush"
    BY DEF Job
  <2>5. active > 0
    BY DEF StoreTypes, Gens
  <2> QED BY <1>1, <2>1, <2>2, <2>3, <2>4, <2>5, ChannelSteps
<1>8. (active + (IF dirty THEN 1 ELSE 0) <= made + 1)'
  <2>1. CASE Worker \/ UNCHANGED vars
    BY <2>1, WorkerLeaves DEF FrozenOnly, vars, store, session
  <2>2. ASSUME NEW c \in Clients, Start(c)
        PROVE  (active + (IF dirty THEN 1 ELSE 0) <= made + 1)'
    <3>1. active' = active /\ made' = made + 1 /\ dirty' \in BOOLEAN
      BY <1>1, <2>2 DEF Start, WriteCall, FlushCall, CompactCall, CloseCall, DropCall, Begin, store
    <3> QED BY <1>1, <3>1 DEF FrozenOnly
  <2>3. ASSUME NEW c \in Clients, Freeze(c)
        PROVE  (active + (IF dirty THEN 1 ELSE 0) <= made + 1)'
    <3>1. /\ made' = made
          /\ \/ dirty /\ active' = active + 1 /\ dirty' = FALSE
             \/ active' = active /\ dirty' = dirty
      BY <2>3 DEF Freeze, store, session
    <3> QED BY <1>1, <3>1 DEF FrozenOnly
  <2>4. ASSUME NEW c \in Clients, Continue(c), ~Freeze(c)
        PROVE  (active + (IF dirty THEN 1 ELSE 0) <= made + 1)'
    <3>1. UNCHANGED <<active, dirty, made>>
      BY <2>4 DEF Continue, MaybeFlush, MaybeCompact, Enqueue, Send, SendFails, BarrierFails,
                  BarrierPasses, TakeHandle, SendShutdown, Join, LastCheck, Return, store, session
    <3> QED BY <3>1 DEF FrozenOnly
  <2> QED BY <2>1, <2>2, <2>3, <2>4 DEF Next
<1> QED BY <1>4, <1>5, <1>6, <1>7, <1>8 DEF FrozenOnly

LEMMA WorkerAtJobStep ==
    ASSUME QueueTypes, LsmTypes, StoreTypes, FrozenOnly, WorkerAtJob, [Next]_vars
    PROVE  WorkerAtJob'
<1> USE DEF LsmTypes, StoreTypes, FrozenOnly, WorkerAtJob, Idle, Gens
<1>1. CASE StartFlush
  <2>1. Head(jobs).gen > 0
    BY <1>1, ReceiveFacts DEF StartFlush
  <2> QED BY <1>1, <2>1 DEF StartFlush
<1>2. CASE FlushSwap
  BY <1>2 DEF FlushSwap
<1>3. CASE StartCompact
  BY <1>3 DEF StartCompact, store
<1>4. CASE CompactSwap
  BY <1>4 DEF CompactSwap, store
<1>5. CASE WriteManifest
  BY <1>5 DEF WriteManifest, store
<1>6. CASE Remove \/ JobFailed
  <2>1. worker' = Idle
    BY <1>6 DEF Remove, JobFailed, JobFails
  <2> QED BY <2>1
<1>7. CASE AnswerSync \/ Shutdown
  BY <1>7 DEF AnswerSync, Shutdown, store, thread
<1>8. ASSUME NEW c \in Clients, Start(c) \/ Continue(c) PROVE WorkerAtJob'
  <2>1. worker' = worker /\ (imm' \subseteq imm \/ imm' = imm \cup {active})
    BY <1>8, ClientsLeave, MemtableSteps DEF Next
  <2> QED BY <2>1
<1>9. CASE UNCHANGED vars
  BY <1>9 DEF vars, thread, store
<1> QED BY <1>1, <1>2, <1>3, <1>4, <1>5, <1>6, <1>7, <1>8, <1>9 DEF Next, Worker

\* The files: what a receive and a removal take, and the types.
LEMMA ReceiveFiles ==
    ASSUME NEW kind, Receive(kind)
    PROVE  /\ files' \subseteq files /\ pending' \subseteq pending /\ wals' \subseteq wals
           /\ \A i \in files \ files' : SstFile(i) \in pending
           /\ \A g \in wals \ wals' : Wal(g) \in pending
BY DEF Receive

LEMMA FileNames ==
    /\ \A g, h : Wal(g) = Wal(h) => g = h
    /\ \A i, j : SstFile(i) = SstFile(j) => i = j
    /\ \A g, i : Wal(g) # SstFile(i)
BY DEF Wal, SstFile

LEMMA RemoveFiles ==
    ASSUME LsmTypes, Remove
    PROVE  /\ files' \subseteq files /\ files \ files' \subseteq worker.old
           /\ wals' \subseteq wals /\ \A g \in wals \ wals' : g = worker.gen /\ worker.gen > 0
           /\ \A g : Wal(g) \in pending' =>
                Wal(g) \in pending \/ (g = worker.gen /\ worker.gen > 0)
           /\ \A i : SstFile(i) \in pending' => SstFile(i) \in pending \/ i \in worker.old
BY FileNames DEF Remove

LEMMA LsmTypesStep ==
    ASSUME QueueTypes, LsmTypes, WorkerAtJob, [Next]_vars
    PROVE  LsmTypes'
<1> USE DEF LsmTypes
<1>0. DOMAIN sst = 1 .. Len(sst) /\ Len(sst) \in Nat
  BY LenProperties
<1>1. CASE StartFlush
  <2>1. files' \subseteq files /\ Head(jobs).gen \in Gens \cup {0}
    BY <1>1, ReceiveFiles, ReceiveFacts DEF StartFlush, JobType
  <2> QED BY <1>1, <2>1 DEF StartFlush, Idle
<1>2. ASSUME NEW R \in SUBSET Gens, sst' = Append(sst, R), alive, worker.pc \in {"build", "merge"},
             files' = files \cup {Len(sst) + 1}, manifest' = manifest,
             ssts' \subseteq ssts \cup {Len(sst) + 1},
             \/ worker' = [worker EXCEPT !.pc = "flush_manifest"]
             \/ worker' = [worker EXCEPT !.pc = "compact_manifest"]
      PROVE  LsmTypes'
  <2>1. sst' \in Seq(SUBSET Gens) /\ DOMAIN sst' = 1 .. Len(sst) + 1
    BY <1>2, AppendFacts
  <2> QED BY <1>0, <1>2, <2>1
<1>3. CASE FlushSwap
  <2>1. worker.gen \in Gens
    BY <1>3 DEF FlushSwap, WorkerAtJob
  <2> QED BY <1>2, <1>3, <2>1 DEF FlushSwap
<1>4. CASE CompactSwap
  <2>1. UNION {sst[i] : i \in worker.old} \in SUBSET Gens
    BY <1>0
  <2> QED BY <1>2, <1>4, <2>1 DEF CompactSwap
<1>5. CASE StartCompact
  BY <1>5, ReceiveFiles DEF StartCompact, Idle
<1>6. CASE WriteManifest
  BY <1>6 DEF WriteManifest
<1>7. CASE Remove \/ JobFailed
  <2>1. worker' = Idle /\ UNCHANGED <<ssts, sst, manifest>> /\ files' \subseteq files
    BY <1>7, RemoveFiles DEF Remove, JobFailed, JobFails, lsm
  <2> QED BY <2>1 DEF Idle
<1>8. CASE AnswerSync \/ Shutdown
  BY <1>8, ReceiveFiles DEF AnswerSync, Shutdown, thread
<1>9. ASSUME NEW c \in Clients, Start(c) \/ Continue(c) PROVE LsmTypes'
  BY <1>9, ClientsLeave
<1>10. CASE UNCHANGED vars
  BY <1>10 DEF vars, thread, lsm
<1> QED BY <1>1, <1>3, <1>4, <1>5, <1>6, <1>7, <1>8, <1>9, <1>10 DEF Next, Worker

LEMMA StoreTypesStep ==
    ASSUME QueueTypes, LsmTypes, StoreTypes, Flags, Counts, FrozenOnly, [Next]_vars
    PROVE  StoreTypes'
<1>1. CASE Worker
  <2>1. wals' \subseteq wals
    BY <1>1, ReceiveFiles, RemoveFiles
       DEF Worker, StartFlush, FlushSwap, StartCompact, CompactSwap, WriteManifest,
           JobFailed, AnswerSync, Shutdown, lsm
  <2>2. active' = active /\ imm' \subseteq imm
    BY <1>1, WorkerLeaves, MemtableSteps
  <2> QED BY <2>1, <2>2 DEF StoreTypes
<1>2. ASSUME NEW c \in Clients, Freeze(c) PROVE StoreTypes'
  <2>1. CASE dirty
    <3>1. active + 1 \in Gens
      BY <2>1, BoundAssumption DEF FrozenOnly, StoreTypes, Counts, Gens
    <3> QED BY <1>2, <2>1, <3>1 DEF Freeze, StoreTypes
  <2>2. CASE ~dirty
    BY <1>2, <2>2 DEF Freeze, StoreTypes, store
  <2> QED BY <2>1, <2>2
<1>3. ASSUME NEW c \in Clients, Start(c) \/ Continue(c), ~Freeze(c) PROVE StoreTypes'
  <2>1. active' = active /\ imm' = imm /\ wals' = wals
    BY <1>3 DEF Start, WriteCall, FlushCall, CompactCall, CloseCall, DropCall, Begin, Continue,
         MaybeFlush, MaybeCompact, Enqueue, Send, SendFails, BarrierFails, BarrierPasses,
         TakeHandle, SendShutdown, Join, LastCheck, Return, store, lsm
  <2> QED BY <2>1 DEF StoreTypes
<1>4. CASE UNCHANGED vars
  BY <1>4 DEF vars, store, lsm, StoreTypes
<1> QED BY <1>1, <1>2, <1>3, <1>4 DEF Next

\* Counters and flags.
LEMMA CountsStep ==
    ASSUME QueueTypes, LsmTypes, Flags, Counts, [Next]_vars
    PROVE  Flags' /\ Counts'
<1> USE DEF Flags, Counts, thread, session, store, client
<1>1. CASE StartFlush \/ FlushSwap \/ StartCompact \/ CompactSwap \/ WriteManifest
  BY <1>1 DEF StartFlush, FlushSwap, StartCompact, CompactSwap, WriteManifest
<1>2. CASE Remove
  <2>1. PICK stuck \in SUBSET ({SstFile(i) : i \in worker.old}
                    \cup (IF worker.gen > 0 THEN {Wal(worker.gen)} ELSE {})) :
            faults + Cardinality(stuck) <= MaxFaults /\ faults' = faults + Cardinality(stuck)
    BY <1>2 DEF Remove
  <2>2. Cardinality(stuck) \in Nat
    <3>1. /\ Len(sst) \in Nat /\ DOMAIN sst = 1 .. Len(sst) /\ worker.old \subseteq DOMAIN sst
      BY LenProperties DEF LsmTypes
    <3>2. IsFiniteSet(worker.old)
      <4>1. IsFiniteSet(1 .. Len(sst))
        BY <3>1, FS_Interval
      <4> QED BY <3>1, <4>1, FS_Subset
    <3>3. IsFiniteSet({SstFile(i) : i \in worker.old})
      <4> DEFINE name == [i \in worker.old |-> SstFile(i)]
      <4>1. name \in Surjection(worker.old, {SstFile(i) : i \in worker.old})
        BY DEF Surjection
      <4> QED BY <3>2, <4>1, FS_Surjection
    <3>4. IsFiniteSet(IF worker.gen > 0 THEN {Wal(worker.gen)} ELSE {})
      BY FS_Singleton, FS_EmptySet
    <3> QED BY <2>1, <3>3, <3>4, FS_Union, FS_Subset, FS_CardinalityType
  <2>3. faults' \in 0 .. MaxFaults
    BY <2>1, <2>2, BoundAssumption
  <2> QED BY <1>2, <2>3 DEF Remove, Latch
<1>3. CASE JobFailed
  BY <1>3, BoundAssumption DEF JobFailed, JobFails, Latch
<1>4. CASE AnswerSync \/ Shutdown
  BY <1>4 DEF AnswerSync, Shutdown
<1>5. ASSUME NEW c \in Clients, Start(c) PROVE Flags' /\ Counts'
  <2>1. /\ made' \in 0 .. MaxCalls /\ late' = [late EXCEPT ![c] = error] /\ faults' = faults
        /\ UNCHANGED <<alive, handle, error>>
    BY <1>5, BoundAssumption
       DEF Start, WriteCall, FlushCall, CompactCall, CloseCall, DropCall, Begin
  <2>2. dirty' \in BOOLEAN /\ owned' \in BOOLEAN
    BY <1>5 DEF Start, WriteCall, FlushCall, CompactCall, CloseCall, DropCall, Begin
  <2> QED BY <2>1, <2>2
<1>6. ASSUME NEW c \in Clients, Freeze(c) \/ TakeHandle(c) \/ Return(c) PROVE Flags' /\ Counts'
  BY <1>6 DEF Freeze, TakeHandle, Return
<1>7. ASSUME NEW c \in Clients, Continue(c), ~Freeze(c), ~TakeHandle(c), ~Return(c)
      PROVE  Flags' /\ Counts'
  BY <1>7 DEF Continue, MaybeFlush, MaybeCompact, Enqueue, Send, SendFails, BarrierFails,
              BarrierPasses, SendShutdown, Join, LastCheck
<1>8. CASE UNCHANGED vars
  BY <1>8 DEF vars
<1> QED BY <1>1, <1>2, <1>3, <1>4, <1>5, <1>6, <1>7, <1>8 DEF Next, Worker

\* What is left of a type once these are known: the limit of the channel, the
\* files that wait for their removal, the flushes a barrier stands behind.
LEMMA TypeStep ==
    ASSUME ShapeInv, [Next]_vars, QueueTypes', LsmTypes', StoreTypes', Flags', Counts'
    PROVE  TypeOK'
<1> USE TypesOfShape
<1>1. Len(jobs') <= QueueCap
  <2>1. jobs \in Seq(JobType) /\ Len(jobs) \in Nat /\ Len(jobs) <= QueueCap
    BY LenProperties DEF ShapeInv, TypeOK
  <2>2. CASE jobs' = jobs
    BY <2>1, <2>2
  <2>3. CASE jobs # <<>> /\ jobs' = Tail(jobs)
    BY <2>1, <2>3, TailFacts, QueueAssumption
  <2>4. CASE jobs' = <<>>
    BY <2>4, QueueAssumption
  <2>5. ASSUME NEW e \in JobType, Room, jobs' = Append(jobs, e) PROVE Len(jobs') <= QueueCap
    BY <2>1, <2>5, AppendFacts, QueueAssumption DEF Room
  <2>6. \A c \in Clients : /\ out[c] \in JobType /\ Job("shutdown", 0, c) \in JobType
                           /\ Send(c) \/ SendShutdown(c) => Room
    BY DEF QueueTypes, JobType, Job, Kinds, Send, SendShutdown
  <2> QED BY <2>2, <2>3, <2>4, <2>5, <2>6, ChannelSteps DEF ShapeInv
<1>2. DOMAIN sst \subseteq DOMAIN sst'
  <2>1. sst' = sst \/ \E R \in SUBSET Gens : sst' = Append(sst, R)
    <3>1. CASE FlushSwap
      <4>1. worker.gen \in Gens
        BY <3>1 DEF FlushSwap, ShapeInv, WorkerAtJob, LsmTypes
      <4> QED BY <3>1, <4>1 DEF FlushSwap
    <3>2. CASE CompactSwap
      <4>1. UNION {sst[i] : i \in worker.old} \in SUBSET Gens
        BY LenProperties DEF LsmTypes
      <4> QED BY <3>2, <4>1 DEF CompactSwap
    <3>3. CASE ~FlushSwap /\ ~CompactSwap
      BY <3>3, ClientsLeave DEF Next, Worker, StartFlush, StartCompact, WriteManifest, Remove,
            JobFailed, AnswerSync, Shutdown, vars, lsm
    <3> QED BY <3>1, <3>2, <3>3
  <2> QED BY <2>1, AppendFacts DEF LsmTypes
<1>3. pending' \subseteq {Wal(g) : g \in Gens} \cup {SstFile(i) : i \in DOMAIN sst'}
  <2>1. pending \subseteq {Wal(g) : g \in Gens} \cup {SstFile(i) : i \in DOMAIN sst}
    BY DEF ShapeInv, TypeOK
  <2>2. CASE Remove
    <3>1. pending' \subseteq pending \cup {SstFile(i) : i \in worker.old}
                      \cup (IF worker.gen > 0 THEN {Wal(worker.gen)} ELSE {})
      BY <2>2 DEF Remove
    <3> QED BY <1>2, <2>1, <3>1 DEF LsmTypes
  <2>3. CASE ~Remove
    <3>1. pending' \subseteq pending
      BY <2>3, ClientsLeave, ReceiveFiles
         DEF Next, Worker, StartFlush, StartCompact, FlushSwap, CompactSwap, WriteManifest,
             JobFailed, AnswerSync, Shutdown, vars, lsm
    <3> QED BY <1>2, <2>1, <3>1
  <2> QED BY <2>2, <2>3
<1>4. before' \in [Clients -> SUBSET Gens]
  <2>1. Sent \subseteq Gens
    <3>1. \A i \in DOMAIN jobs : jobs[i].kind = "flush" => jobs[i].gen \in Gens
      <4>1. ASSUME NEW i \in DOMAIN jobs, jobs[i].kind = "flush"
            PROVE  jobs[i] \in JobType /\ jobs[i].gen > 0
        BY <4>1 DEF ShapeInv, FrozenOnly, QueueTypes
      <4> QED BY <4>1 DEF JobType
    <3>2. worker.gen > 0 => worker.gen \in Gens
      BY DEF LsmTypes
    <3> QED BY <3>1, <3>2 DEF Sent
  <2>2. before \in [Clients -> SUBSET Gens]
    BY DEF ShapeInv, TypeOK
  <2>3. ASSUME NEW c \in Clients, Start(c) \/ Continue(c)
        PROVE  before' = before \/ \E G \in SUBSET Gens : before' = [before EXCEPT ![c] = G]
    <3>1. CASE Send(c)
      <4>1. before' = [before EXCEPT ![c] = IF out[c].kind = "sync" THEN Sent ELSE before[c]]
        BY <3>1 DEF Send
      <4> QED BY <2>1, <2>2, <4>1
    <3>2. CASE Return(c)
      BY <3>2 DEF Return
    <3>3. CASE ~Send(c) /\ ~Return(c)
      BY <2>3, <3>3
         DEF Start, WriteCall, FlushCall, CompactCall, CloseCall, DropCall, Begin, Continue,
             MaybeFlush, Freeze, MaybeCompact, Enqueue, SendFails, BarrierFails,
             BarrierPasses, TakeHandle, SendShutdown, Join, LastCheck
    <3> QED BY <3>1, <3>2, <3>3
  <2> QED BY <2>2, <2>3, WorkerLeaves DEF Next, vars, client
<1>5. \A i \in DOMAIN jobs' :
        jobs'[i] \in [kind : Kinds, gen : Gens \cup {0}, client : Clients]
  <2>1. ASSUME NEW i \in DOMAIN jobs' PROVE jobs'[i] \in JobType /\ jobs'[i].kind \in Kinds
    BY <2>1 DEF QueueTypes
  <2> QED BY <2>1 DEF JobType
<1>6. \A c \in Clients :
        out'[c] \in [kind : Kinds \cup {"none"}, gen : Gens \cup {0}, client : {c}]
  <2>1. ASSUME NEW c \in Clients PROVE out'[c] \in JobType /\ out'[c].client = c
    BY DEF QueueTypes
  <2> QED BY <2>1 DEF JobType
<1>7. \A i \in DOMAIN sst' : sst'[i] \subseteq Gens
  BY DEF LsmTypes
<1> QED BY <1>1, <1>3, <1>4, <1>5, <1>6, <1>7
        DEF TypeOK, QueueTypes, LsmTypes, StoreTypes, Flags, Counts

LEMMA ShapeStep ==
    ASSUME ShapeInv, SendersWait, [Next]_vars
    PROVE  ShapeInv'
<1> USE TypesOfShape DEF ShapeInv
<1>1. QueueTypes' /\ LsmTypes' /\ StoreTypes' /\ Flags' /\ Counts'
  BY QueueTypesStep, LsmTypesStep, StoreTypesStep, CountsStep
<1>2. TypeOK'
  BY <1>1, TypeStep
<1>3. CallsInOrder' /\ JobsInHand' /\ FrozenOnly' /\ WorkerAtJob'
  BY CallsStep, HandStep, FrozenStep, WorkerAtJobStep
<1> QED BY <1>1, <1>2, <1>3 DEF QueueTypes, LsmTypes

-----------------------------------------------------------------------------
(* The channel: who waits for what is in it, and who may still append.     *)

\* How a step moves the clients: one goes on, or the one whose Sync job the
\* worker has taken.
LEMMA SendersStep ==
    ASSUME QueueTypes, JobsInHand, CallsInOrder, SendersWait, OneSyncEach, OneCloser,
           [Next]_vars
    PROVE  SendersWait'
<1> USE DEF SendersWait, QueueTypes, Go
<1>1. CASE AnswerSync
  <2>1. pc' = [pc EXCEPT ![Head(jobs).client] = "synced"] /\ jobs' = Tail(jobs)
        /\ Receive("sync")
    BY <1>1 DEF AnswerSync
  <2>2. \A i \in DOMAIN jobs' : i + 1 \in DOMAIN jobs /\ jobs'[i] = jobs[i + 1] /\ i + 1 # 1
    BY <2>1, ReceiveFacts
  <2>3. /\ Head(jobs) = jobs[1] /\ 1 \in DOMAIN jobs /\ jobs[1].kind = "sync"
        /\ pc[jobs[1].client] = "wait"
    BY <2>1, ReceiveFacts
  <2> QED BY <2>1, <2>2, <2>3 DEF OneSyncEach
<1>2. CASE Worker /\ ~AnswerSync
  <2>1. pc' = pc /\ (jobs' = jobs \/ jobs' = <<>> \/ (jobs # <<>> /\ jobs' = Tail(jobs)))
    BY <1>2, WorkerLeaves
       DEF Worker, StartFlush, FlushSwap, StartCompact, CompactSwap, WriteManifest,
           Remove, JobFailed, Shutdown, Receive
  <2> QED BY <2>1, TailFacts
<1>3. ASSUME NEW c \in Clients, Send(c) PROVE SendersWait'
  <2>1. jobs' = Append(jobs, out[c]) /\ pc[c] = "send" /\ pc' = [pc EXCEPT ![c] = AfterSend(c)]
        /\ out[c] \in JobType /\ out[c].client = c /\ out[c].kind # "shutdown"
    BY <1>3 DEF Send, JobsInHand
  <2>2. out[c].kind = "sync" => pc'[c] = "wait"
    <3>1. out[c].kind = "sync" => AfterSend(c) = "wait"
      BY DEF AfterSend
    <3> QED BY <2>1, <3>1
  <2>3. \A i \in DOMAIN jobs : pc[jobs[i].client] \in {"wait", "join"} => jobs[i].client # c
    BY <2>1
  <2> QED BY <2>1, <2>2, <2>3, AppendFacts
<1>4. ASSUME NEW c \in Clients, SendShutdown(c) PROVE SendersWait'
  <2>1. jobs' = Append(jobs, Job("shutdown", 0, c)) /\ pc[c] = "send_shutdown"
        /\ pc' = [pc EXCEPT ![c] = "join"] /\ Job("shutdown", 0, c) \in JobType
    BY <1>4 DEF SendShutdown, ShutdownLast, Job, JobType, Kinds
  <2>2. \A i \in DOMAIN jobs : pc[jobs[i].client] \in {"wait", "join"} => jobs[i].client # c
    BY <2>1
  <2> QED BY <2>1, <2>2, AppendFacts DEF Job
<1>5. ASSUME NEW c \in Clients, Start(c) \/ Continue(c), ~Send(c), ~SendShutdown(c)
      PROVE  SendersWait'
  <2>1. jobs' = jobs /\ \A d \in Clients \ {c} : pc'[d] = pc[d]
    BY <1>5 DEF Start, WriteCall, FlushCall, CompactCall, CloseCall, DropCall, Begin, Continue,
         MaybeFlush, Freeze, MaybeCompact, Enqueue, SendFails, Fail, Leave, BarrierFails,
         BarrierPasses, TakeHandle, Join, LastCheck, Return
  <2>2. \A i \in DOMAIN jobs : jobs[i].kind \in {"sync", "shutdown"} => jobs[i].client # c
    <3>1. CASE BarrierFails(c)
      BY <3>1 DEF BarrierFails, Abandoned, OneCloser
    <3>2. CASE Join(c)
      BY <3>2 DEF Join, OneCloser
    <3>3. CASE ~BarrierFails(c) /\ ~Join(c)
      <4>1. pc[c] \notin {"wait", "join"}
        BY <1>5, <3>3
           DEF Start, WriteCall, FlushCall, CompactCall, CloseCall, DropCall, Begin, Continue,
               MaybeFlush, Freeze, MaybeCompact, Enqueue, SendFails, BarrierPasses,
               TakeHandle, LastCheck, Return
      <4> QED BY <4>1
    <3> QED BY <3>1, <3>2, <3>3
  <2>3. \A i \in DOMAIN jobs : jobs[i].client \in Clients
    <3>1. \A j \in JobType : j.client \in Clients
      BY DEF JobType
    <3> QED BY <3>1
  <2> QED BY <2>1, <2>2, <2>3
<1>6. CASE UNCHANGED vars
  BY <1>6 DEF vars, client
<1> QED BY <1>1, <1>2, <1>3, <1>4, <1>5, <1>6 DEF Next

LEMMA OneSyncStep ==
    ASSUME QueueTypes, JobsInHand, SendersWait, OneSyncEach, [Next]_vars
    PROVE  OneSyncEach'
<1> USE DEF SendersWait, QueueTypes, OneSyncEach
<1>1. CASE jobs' = jobs \/ jobs' = <<>>
  BY <1>1
<1>2. CASE jobs # <<>> /\ jobs' = Tail(jobs)
  BY <1>2, TailFacts
<1>3. ASSUME NEW c \in Clients, Send(c), jobs' = Append(jobs, out[c]) PROVE OneSyncEach'
  <2>1. \A i \in DOMAIN jobs : jobs[i].kind = "sync" => jobs[i].client # c
    BY <1>3 DEF Send
  <2> QED BY <1>3, <2>1, AppendFacts
<1>4. ASSUME NEW c \in Clients, jobs' = Append(jobs, Job("shutdown", 0, c)) PROVE OneSyncEach'
  <2>1. Job("shutdown", 0, c) \in JobType /\ Job("shutdown", 0, c).kind # "sync"
    BY DEF Job, JobType, Kinds
  <2> QED BY <1>4, <2>1, AppendFacts
<1> QED BY <1>1, <1>2, <1>3, <1>4, ChannelSteps

LEMMA OneCloserStep ==
    ASSUME QueueTypes, Flags, CallsInOrder, SendersWait, OneCloser, [Next]_vars
    PROVE  OneCloser'
<1> USE DEF QueueTypes, Flags, Go, Stopping, OneCloser, thread, client
<1>1. CASE Shutdown
  <2>1. alive' = FALSE /\ jobs' = <<>> /\ UNCHANGED <<handle, pc>>
    BY <1>1 DEF Shutdown
  <2>2. Head(jobs).client \in Clients /\ pc[Head(jobs).client] = "join"
    <3>1. Head(jobs) = jobs[1] /\ 1 \in DOMAIN jobs /\ jobs[1].kind = "shutdown"
          /\ Head(jobs) \in JobType
      BY <1>1, ReceiveFacts DEF Shutdown
    <3> QED BY <3>1 DEF SendersWait, JobType
  <2> QED BY <2>1, <2>2
<1>2. CASE AnswerSync
  <2>1. jobs' = Tail(jobs) /\ pc' = [pc EXCEPT ![Head(jobs).client] = "synced"] /\ alive
        /\ UNCHANGED thread
    BY <1>2 DEF AnswerSync, Receive
  <2> QED BY <2>1
<1>3. CASE Worker /\ ~Shutdown /\ ~AnswerSync
  <2>1. alive /\ UNCHANGED <<alive, handle, pc>>
    BY <1>3, WorkerLeaves
       DEF Worker, StartFlush, FlushSwap, StartCompact, CompactSwap, WriteManifest, Remove,
           JobFailed, JobFails, Receive
  <2> QED BY <2>1
<1>4. ASSUME NEW c \in Clients, TakeHandle(c) PROVE OneCloser'
  BY <1>4 DEF TakeHandle
<1>5. ASSUME NEW c \in Clients, Send(c) \/ SendShutdown(c) PROVE OneCloser'
  BY <1>5 DEF Send, SendShutdown, AfterSend
<1>6. ASSUME NEW c \in Clients, Start(c) PROVE OneCloser'
  BY <1>6 DEF Start, WriteCall, FlushCall, CompactCall, CloseCall, DropCall, Begin
<1>7. ASSUME NEW c \in Clients, Continue(c), ~TakeHandle(c), ~Send(c), ~SendShutdown(c)
      PROVE  OneCloser'
  <2>1. UNCHANGED <<jobs, alive, handle>> /\ \A d \in Clients \ {c} : pc'[d] = pc[d]
    BY <1>7 DEF Continue, MaybeFlush, Freeze, MaybeCompact, Enqueue, SendFails, Fail, Leave,
                BarrierFails, BarrierPasses, Join, LastCheck, Return
  <2>2. pc'[c] \notin Stopping
    BY <1>7 DEF Continue, MaybeFlush, Freeze, MaybeCompact, Enqueue, SendFails, Fail, Leave,
                BarrierFails, BarrierPasses, Join, LastCheck, Return
  <2> QED BY <2>1, <2>2
<1>8. CASE UNCHANGED vars
  BY <1>8 DEF vars
<1> QED BY <1>1, <1>2, <1>3, <1>4, <1>5, <1>6, <1>7, <1>8 DEF Next

\* How one step of a client moves the clients.
LEMMA ClientMoves ==
    ASSUME QueueTypes, NEW c \in Clients, Start(c) \/ Continue(c)
    PROVE  /\ \A d \in Clients \ {c} : pc'[d] = pc[d] /\ call'[d] = call[d]
           /\ Start(c) \/ pc[c] # "idle"
           /\ call'[c] = call[c] \/ Start(c) \/ Return(c)
           /\ owned' = owned \/ DropCall(c)
<1> USE DEF QueueTypes, Go, client, session
<1>1. CASE Start(c)
  BY <1>1 DEF Start, WriteCall, FlushCall, CompactCall, CloseCall, DropCall, Begin
<1>2. CASE Return(c)
  BY <1>2 DEF Return
<1>3. CASE MaybeFlush(c) \/ Freeze(c) \/ MaybeCompact(c) \/ Enqueue(c) \/ Send(c) \/ SendFails(c)
  BY <1>3 DEF MaybeFlush, Freeze, MaybeCompact, Enqueue, Send, SendFails, Fail, Leave
<1>4. CASE BarrierFails(c) \/ BarrierPasses(c) \/ TakeHandle(c) \/ SendShutdown(c) \/ Join(c)
           \/ LastCheck(c)
  BY <1>4 DEF BarrierFails, BarrierPasses, TakeHandle, SendShutdown, Join, LastCheck, Fail, Leave
<1> QED BY <1>1, <1>2, <1>3, <1>4 DEF Continue

LEMMA DropAloneStep ==
    ASSUME QueueTypes, CallsInOrder, SendersWait, DropAlone, [Next]_vars
    PROVE  DropAlone'
<1> USE DEF DropAlone
<1>1. CASE AnswerSync
  <2>1. /\ pc' = [pc EXCEPT ![Head(jobs).client] = "synced"]
        /\ call' = call /\ owned' = owned
        /\ pc[Head(jobs).client] = "wait"
    BY <1>1, ReceiveFacts DEF AnswerSync, SendersWait, session
  <2> QED BY <2>1 DEF QueueTypes
<1>2. CASE Worker /\ ~AnswerSync
  BY <1>2, WorkerLeaves
<1>3. ASSUME NEW c \in Clients, DropCall(c) PROVE DropAlone'
  <2>1. /\ \A d \in Clients : pc[d] = "idle"
        /\ owned' = FALSE
        /\ call' = [call EXCEPT ![c] = "drop"] /\ pc' = [pc EXCEPT ![c] = "enqueue"]
    BY <1>3 DEF DropCall, Begin, Go
  <2>2. \A d \in Clients : call[d] = "none"
    BY <2>1 DEF CallsInOrder
  <2> QED BY <2>1, <2>2 DEF QueueTypes
<1>4. ASSUME NEW c \in Clients, Start(c) \/ Continue(c), ~DropCall(c) PROVE DropAlone'
  <2>1. /\ \A d \in Clients \ {c} : pc'[d] = pc[d] /\ call'[d] = call[d]
        /\ call'[c] = "drop" => call[c] = "drop" /\ ~Start(c)
        /\ owned' = owned
    <3>1. Start(c) => call'[c] # "drop"
      BY <1>4 DEF Start, WriteCall, FlushCall, CompactCall, CloseCall, Begin, QueueTypes
    <3>2. Return(c) => call'[c] = "none"
      BY DEF Return, QueueTypes
    <3> QED BY <1>4, <3>1, <3>2, ClientMoves
  <2>2. ASSUME NEW d \in Clients \ {c}, call[d] = "drop" PROVE FALSE
    <3>1. ~owned /\ pc[c] = "idle"
      BY <2>2
    <3>2. ~Start(c)
      BY <3>1 DEF Start, WriteCall, FlushCall, CompactCall, CloseCall, DropCall, Begin
    <3> QED BY <1>4, <3>1, <3>2, ClientMoves
  <2> QED BY <2>1, <2>2
<1>5. CASE UNCHANGED vars
  BY <1>5 DEF vars, client, session
<1> QED BY <1>1, <1>2, <1>3, <1>4, <1>5 DEF Next

LEMMA DropDrainsStep ==
    ASSUME QueueTypes, CallsInOrder, JobsInHand, SendersWait, OneCloser, DropAlone, DropDrains,
           [Next]_vars
    PROVE  DropDrains'
<1> USE DEF DropDrains
<1>1. \A i \in DOMAIN jobs :
        jobs[i].kind = "shutdown" => /\ jobs[i].client \in Clients
                                     /\ pc[jobs[i].client] = "join"
  <2>1. \A j \in JobType : j.client \in Clients
    BY DEF JobType
  <2> QED BY <2>1 DEF QueueTypes, SendersWait
<1>2. \A i \in DOMAIN jobs :
        jobs[i].kind = "shutdown" => call'[jobs[i].client] = call[jobs[i].client]
  <2>1. CASE Worker
    BY <2>1, WorkerLeaves
  <2>2. ASSUME NEW c \in Clients, Start(c) \/ Continue(c), NEW d \in Clients, pc[d] = "join"
        PROVE  call'[d] = call[d]
    <3>1. Start(c) => pc[c] = "idle"
      BY DEF Start, WriteCall, FlushCall, CompactCall, CloseCall, DropCall, Begin
    <3>2. Return(c) => pc[c] = "done"
      BY DEF Return
    <3> QED BY <2>2, <3>1, <3>2, ClientMoves
  <2>3. CASE UNCHANGED vars
    BY <2>3 DEF vars, client
  <2> QED BY <1>1, <2>1, <2>2, <2>3 DEF Next
<1>3. CASE jobs' = jobs \/ jobs' = <<>>
  BY <1>2, <1>3
<1>4. CASE jobs # <<>> /\ jobs' = Tail(jobs)
  BY <1>2, <1>4, TailFacts DEF QueueTypes
<1>5. ASSUME NEW c \in Clients, Send(c), out[c].kind \in Kinds \ {"shutdown"},
             jobs' = Append(jobs, out[c])
      PROVE  DropDrains'
  <2>1. \A i \in DOMAIN jobs :
            jobs[i].kind = "shutdown" => call[jobs[i].client] # "drop"
    BY <1>1, <1>5 DEF Send, DropAlone
  <2> QED BY <1>2, <1>5, <2>1, AppendFacts DEF QueueTypes
<1>6. ASSUME NEW c \in Clients, SendShutdown(c), jobs' = Append(jobs, Job("shutdown", 0, c))
      PROVE  DropDrains'
  <2>1. \A i \in DOMAIN jobs : jobs[i].kind # "shutdown"
    BY <1>1, <1>6 DEF SendShutdown, OneCloser, Stopping
  <2>2. Job("shutdown", 0, c) \in JobType
    BY DEF Job, JobType, Kinds
  <2> QED BY <1>6, <2>1, <2>2, AppendFacts DEF QueueTypes
<1> QED BY <1>3, <1>4, <1>5, <1>6, ChannelSteps

LEMMA ChannelStep ==
    ASSUME ShapeInv, ChannelInv, [Next]_vars
    PROVE  ChannelInv'
BY TypesOfShape, SendersStep, OneSyncStep, OneCloserStep, DropAloneStep, DropDrainsStep
   DEF ShapeInv, ChannelInv

-----------------------------------------------------------------------------
(* Errors: once there, reported for good.                                  *)

LEMMA ErrorStep ==
    ASSUME QueueTypes, Flags, CallsInOrder, JobsInHand, ErrorInv, [Next]_vars
    PROVE  ErrorInv'
<1> USE DEF QueueTypes, Flags, CallsInOrder, ErrorInv, ErrorIsReported, client, Go
<1>1. CASE Worker
  <2>1. error => error'
    BY <1>1 DEF Worker, StartFlush, FlushSwap, StartCompact, CompactSwap, WriteManifest, Remove,
                JobFailed, JobFails, Latch, AnswerSync, Shutdown, thread
  <2>2. UNCHANGED <<call, result, late>> /\ \A c \in Clients : pc'[c] \in {pc[c], "synced"}
    BY <1>1, WorkerLeaves DEF AnswerSync
  <2> QED BY <2>1, <2>2
<1>2. ASSUME NEW c \in Clients, Start(c) PROVE ErrorInv'
  BY <1>2 DEF Start, WriteCall, FlushCall, CompactCall, CloseCall, DropCall, Begin, thread
<1>3. ASSUME NEW c \in Clients, MaybeFlush(c) \/ Freeze(c) PROVE ErrorInv'
  BY <1>3 DEF MaybeFlush, Freeze, thread
<1>4. ASSUME NEW c \in Clients, MaybeCompact(c) PROVE ErrorInv'
  BY <1>4 DEF MaybeCompact, Leave, thread
<1>5. ASSUME NEW c \in Clients, Enqueue(c) PROVE ErrorInv'
  BY <1>5 DEF Enqueue, Fail, Leave, thread
<1>6. ASSUME NEW c \in Clients, Send(c) PROVE ErrorInv'
  BY <1>6 DEF Send, AfterSend, JobsInHand, thread
<1>7. ASSUME NEW c \in Clients, SendFails(c) \/ BarrierFails(c) PROVE ErrorInv'
  BY <1>7 DEF SendFails, BarrierFails, Fail, Leave, thread
<1>8. ASSUME NEW c \in Clients, BarrierPasses(c) PROVE ErrorInv'
  BY <1>8 DEF BarrierPasses, BarrierSees, Fail, Leave, thread
<1>9. ASSUME NEW c \in Clients, TakeHandle(c) \/ SendShutdown(c) \/ Join(c) PROVE ErrorInv'
  BY <1>9 DEF TakeHandle, SendShutdown, Join, thread
<1>10. ASSUME NEW c \in Clients, LastCheck(c) \/ Return(c) PROVE ErrorInv'
  BY <1>10 DEF LastCheck, Return, Leave, thread
<1>11. CASE UNCHANGED vars
  BY <1>11 DEF vars, thread
<1> QED BY <1>1, <1>2, <1>3, <1>4, <1>5, <1>6, <1>7, <1>8, <1>9, <1>10, <1>11 DEF Next, Continue

-----------------------------------------------------------------------------
(* Files: nothing goes before what replaces it is listed.                  *)

\* The rows that SSTs S hold, if T gives what each was made of and D is on disk.
HeldIn(T, D, S) == UNION {T[i] : i \in S \cap D}

LEMMA HeldIs ==
    /\ HeldBy(ssts) = HeldIn(sst, files, ssts)
    /\ HeldBy(manifest) = HeldIn(sst, files, manifest)
    /\ HeldBy(ssts)' = HeldIn(sst', files', ssts')
    /\ HeldBy(manifest)' = HeldIn(sst', files', manifest')
BY DEF HeldBy, HeldIn

\* A new SST leaves the others as they are, and is on disk itself.
LEMMA NewSst ==
    ASSUME LsmTypes, NEW R, R \subseteq Gens, sst' = Append(sst, R),
           files' = files \cup {Len(sst) + 1}, NEW S, S \subseteq DOMAIN sst
    PROVE  /\ Len(sst) + 1 \notin DOMAIN sst
           /\ HeldIn(sst', files', S) = HeldIn(sst, files, S)
           /\ HeldIn(sst', files', S \cup {Len(sst) + 1}) = HeldIn(sst, files, S) \cup R
<1>1. /\ Len(sst) \in Nat /\ DOMAIN sst = 1 .. Len(sst)
      /\ sst'[Len(sst) + 1] = R /\ \A i \in DOMAIN sst : sst'[i] = sst[i]
  BY AppendFacts DEF LsmTypes
<1>2. Len(sst) + 1 \notin DOMAIN sst
  BY <1>1
<1>3. S \cap files' = S \cap files
  BY <1>2
<1>4. (S \cup {Len(sst) + 1}) \cap files' = (S \cap files) \cup {Len(sst) + 1}
  BY <1>3
<1>5. \A i \in S \cap files : sst'[i] = sst[i]
  BY <1>1
<1>6. HeldIn(sst', files', S) = HeldIn(sst, files, S)
  BY <1>3, <1>5 DEF HeldIn
<1>7. HeldIn(sst', files', S \cup {Len(sst) + 1}) = HeldIn(sst, files, S) \cup R
  BY <1>1, <1>4, <1>5 DEF HeldIn
<1> QED BY <1>2, <1>6, <1>7

\* The two swaps put a new SST into the Version, and lose no rows.
LEMMA SwapFacts ==
    ASSUME LsmTypes, WorkerAtJob, NamedOnDisk, ReplacedFirst, FlushSwap \/ CompactSwap
    PROVE  /\ Len(sst) + 1 \notin DOMAIN sst
           /\ files' = files \cup {Len(sst) + 1} /\ UNCHANGED <<pending, manifest, wals, active>>
           /\ ssts' \subseteq (ssts \ worker.old) \cup {Len(sst) + 1}
           /\ HeldBy(ssts) \subseteq HeldBy(ssts)'
           /\ HeldBy(manifest)' = HeldBy(manifest)
           /\ FlushSwap => worker.gen \in HeldBy(ssts)'
<1> DEFINE R == IF worker.pc = "build" THEN {worker.gen} ELSE UNION {sst[i] : i \in worker.old}
           rest == ssts \ worker.old
           new == Len(sst) + 1
<1>1. /\ sst' = Append(sst, R) /\ files' = files \cup {new} /\ ssts' = rest \cup {new}
      /\ UNCHANGED <<pending, manifest, wals, active>>
      /\ FlushSwap => R = {worker.gen}
  <2>1. CASE FlushSwap
    BY <2>1 DEF FlushSwap, WorkerAtJob, LsmTypes
  <2>2. CASE CompactSwap
    BY <2>2 DEF CompactSwap, FlushSwap, store
  <2> QED BY <2>1, <2>2
<1>2. R \subseteq Gens /\ rest \subseteq DOMAIN sst /\ manifest \subseteq DOMAIN sst
  BY LenProperties DEF LsmTypes, WorkerAtJob
<1>3. HeldIn(sst, files, ssts) \subseteq HeldIn(sst, files, rest) \cup R
  <2>1. CASE FlushSwap
    BY <2>1 DEF FlushSwap, WorkerAtJob, HeldIn
  <2>2. CASE CompactSwap
    BY <2>2 DEF CompactSwap, HeldIn
  <2> QED BY <2>1, <2>2
<1> HIDE DEF R, rest
<1>4. new \notin DOMAIN sst /\ HeldIn(sst', files', manifest) = HeldIn(sst, files, manifest)
  BY <1>1, <1>2, NewSst
<1>5. HeldIn(sst', files', rest \cup {new}) = HeldIn(sst, files, rest) \cup R
  BY <1>1, <1>2, NewSst
<1>6. HeldBy(ssts)' = HeldIn(sst, files, rest) \cup R
  BY <1>1, <1>5, HeldIs
<1> QED BY <1>1, <1>3, <1>4, <1>6, HeldIs DEF rest

\* Taking away files that neither the Version nor the manifest names takes
\* nothing from what they hold.
LEMMA HeldStays ==
    ASSUME NEW S, S \subseteq files', files' \subseteq files, sst' = sst
    PROVE  HeldIn(sst', files', S) = HeldIn(sst, files, S)
<1>1. S \cap files' = S \cap files
  OBVIOUS
<1> QED BY <1>1 DEF HeldIn

LEMMA FilesStep ==
    ASSUME QueueTypes, LsmTypes, WorkerAtJob, NamedOnDisk, ReplacedFirst, [Next]_vars,
           pending \subseteq {Wal(g) : g \in Gens} \cup {SstFile(i) : i \in DOMAIN sst}
    PROVE  /\ NamedOnDisk' /\ ReplacedFirst'
           /\ HeldBy(manifest) \subseteq HeldBy(manifest)'
<1> USE DEF NamedOnDisk, ReplacedFirst
<1>1. CASE FlushSwap \/ CompactSwap
  <2>1. SstFile(Len(sst) + 1) \notin pending
    BY <1>1, SwapFacts, FileNames
  <2> QED BY <1>1, <2>1, SwapFacts DEF FlushSwap, CompactSwap, LsmTypes
<1>2. CASE WriteManifest
  <2>1. UNCHANGED <<ssts, sst, files, pending>> /\ manifest' = ssts
    BY <1>2 DEF WriteManifest
  <2>2. HeldBy(manifest)' = HeldBy(ssts) /\ HeldBy(ssts)' = HeldBy(ssts)
    BY <2>1, HeldIs
  <2>3. /\ worker'.gen = worker.gen /\ worker'.old = worker.old
        /\ \/ worker.pc = "flush_manifest" /\ worker'.pc = "flush_remove"
           \/ worker.pc = "compact_manifest" /\ worker'.pc = "compact_remove"
    BY <1>2 DEF WriteManifest, LsmTypes
  <2> QED BY <2>1, <2>2, <2>3
<1>3. ASSUME files' \subseteq files, UNCHANGED <<ssts, sst, manifest>>,
             ssts \cup manifest \subseteq files'
      PROVE  HeldBy(ssts)' = HeldBy(ssts) /\ HeldBy(manifest)' = HeldBy(manifest)
  BY <1>3, HeldStays, HeldIs
<1>4. CASE Remove
  <2>1. UNCHANGED <<ssts, sst, manifest>> /\ worker' = Idle
        /\ worker.old \cap (ssts \cup manifest) = {}
    BY <1>4 DEF Remove, MayRemove, WorkerAtJob
  <2> QED BY <1>3, <1>4, <2>1, RemoveFiles DEF Idle
<1>5. ASSUME NEW kind, Receive(kind), UNCHANGED <<ssts, sst, manifest>>,
             worker'.pc \in {"idle", "build"} \/ (worker'.pc = "merge" /\ worker'.old = ssts)
      PROVE  /\ NamedOnDisk' /\ ReplacedFirst'
             /\ HeldBy(manifest) \subseteq HeldBy(manifest)'
  BY <1>3, <1>5, ReceiveFiles
<1>6. CASE StartFlush \/ StartCompact \/ AnswerSync \/ Shutdown
  <2>1. UNCHANGED <<ssts, sst, manifest>> /\ \E kind \in Kinds : Receive(kind)
    BY <1>6 DEF StartFlush, StartCompact, AnswerSync, Shutdown, Kinds
  <2>2. worker'.pc \in {"idle", "build"} \/ (worker'.pc = "merge" /\ worker'.old = ssts)
    <3>1. CASE StartCompact
      BY <3>1 DEF StartCompact, Idle
    <3>2. CASE StartFlush \/ AnswerSync \/ Shutdown
      BY <3>2 DEF StartFlush, AnswerSync, Shutdown, Idle, thread, Receive
    <3> QED BY <1>6, <3>1, <3>2
  <2> QED BY <1>5, <2>1, <2>2
<1>7. CASE JobFailed
  <2>1. UNCHANGED lsm /\ worker' = Idle
    BY <1>7 DEF JobFailed, JobFails
  <2> QED BY <2>1, HeldIs DEF lsm, Idle
<1>8. CASE UNCHANGED <<worker, ssts, sst, manifest, files, pending>>
  BY <1>8, HeldIs
<1> QED BY <1>1, <1>2, <1>4, <1>6, <1>7, <1>8, ClientsLeave DEF Next, Worker, vars, thread, lsm

\* A log is put aside for removal, or removed, only at "flush_remove".
LEMMA LogsStep ==
    ASSUME ShapeInv, NamedOnDisk, ReplacedFirst, LogsKept, [Next]_vars,
           HeldBy(manifest) \subseteq HeldBy(manifest)'
    PROVE  LogsKept'
<1> USE TypesOfShape DEF LogsKept, NothingLost
<1>1. \A g : Wal(g) \in pending' =>
        Wal(g) \in pending \/ (worker.pc = "flush_remove" /\ g = worker.gen)
  <2>1. CASE Remove
    BY <2>1, RemoveFiles DEF Remove, MayRemove, ShapeInv, WorkerAtJob
  <2>2. CASE ~Remove
    BY <2>2, ClientsLeave, ReceiveFiles
       DEF Next, Worker, StartFlush, StartCompact, FlushSwap, CompactSwap, WriteManifest,
           JobFailed, AnswerSync, Shutdown, vars, lsm
  <2> QED BY <2>1, <2>2
<1>2. \A g \in wals : g \in wals' \/ Wal(g) \in pending
                      \/ (worker.pc = "flush_remove" /\ g = worker.gen)
  <2>1. CASE Remove
    BY <2>1, RemoveFiles DEF Remove, MayRemove, ShapeInv, WorkerAtJob
  <2>2. CASE Worker /\ ~Remove
    BY <2>2, ReceiveFiles
       DEF Worker, StartFlush, StartCompact, FlushSwap, CompactSwap, WriteManifest,
           JobFailed, AnswerSync, Shutdown, lsm
  <2>3. ASSUME NEW c \in Clients, Start(c) \/ Continue(c) PROVE wals \subseteq wals'
    BY <2>3 DEF Start, WriteCall, FlushCall, CompactCall, CloseCall, DropCall, Begin, Continue,
         MaybeFlush, Freeze, MaybeCompact, Enqueue, Send, SendFails, BarrierFails,
         BarrierPasses, TakeHandle, SendShutdown, Join, LastCheck, Return, lsm
  <2> QED BY <2>1, <2>2, <2>3 DEF Next, vars, lsm
<1>3. active' = active \/ (active' = active + 1 /\ active + 1 \in wals')
  BY MemtableSteps DEF Freeze
<1>4. worker.pc = "flush_remove" => worker.gen \in HeldBy(manifest)'
  BY DEF ReplacedFirst
<1>5. \A g \in Gens : Wal(g) \in pending => g \in HeldBy(manifest)'
  OBVIOUS
<1>6. (\A g \in Gens : Wal(g) \in pending => g \in HeldBy(manifest))'
  BY <1>1, <1>4, <1>5
<1>7. (\A g \in 1 .. active : g \in wals \/ g \in HeldBy(manifest))'
  <2>1. active \in Nat /\ 1 .. active \subseteq Gens
    BY BoundAssumption DEF StoreTypes, Gens
  <2>2. ASSUME NEW g \in 1 .. active PROVE g \in wals' \/ g \in HeldBy(manifest)'
    BY <1>2, <1>4, <1>5, <2>1
  <2>3. CASE active' = active
    BY <2>2, <2>3
  <2>4. CASE active' = active + 1 /\ active + 1 \in wals'
    <3>1. \A g \in 1 .. active' : g \in 1 .. active \/ g = active + 1
      BY <2>1, <2>4
    <3> QED BY <2>2, <2>4, <3>1
  <2> QED BY <1>3, <2>3, <2>4
<1> QED BY <1>6, <1>7

-----------------------------------------------------------------------------
(* Frozen memtables: with the client, in the channel or with the worker.   *)

Queued(g) == \E i \in DOMAIN jobs : jobs[i].kind = "flush" /\ jobs[i].gen = g

LEMMA SentIs ==
    /\ \A g : g \in Sent <=> Queued(g) \/ (worker.gen > 0 /\ g = worker.gen)
    /\ \A g : (g \in Sent)' <=> Queued(g)' \/ (worker'.gen > 0 /\ g = worker'.gen)
BY DEF Sent, Queued

LEMMA QueuedSteps ==
    ASSUME QueueTypes, JobsInHand, [Next]_vars, NEW g, Queued(g)
    PROVE  Queued(g)' \/ Shutdown \/ (StartFlush /\ g = Head(jobs).gen)
<1> USE DEF Queued
<1>1. PICK i \in DOMAIN jobs : jobs[i].kind = "flush" /\ jobs[i].gen = g
  OBVIOUS
<1>2. CASE jobs' = jobs
  BY <1>1, <1>2
<1>3. CASE jobs # <<>> /\ jobs' = Tail(jobs) /\ (StartFlush \/ Head(jobs).kind # "flush")
  <2>1. CASE i = 1
    BY <1>1, <1>3, <2>1, TailFacts DEF QueueTypes
  <2>2. CASE i # 1
    <3>1. i - 1 \in DOMAIN jobs' /\ jobs'[i - 1] = jobs[i]
      BY <1>1, <1>3, <2>2, TailFacts DEF QueueTypes
    <3> QED BY <1>1, <3>1
  <2> QED BY <2>1, <2>2
<1>4. ASSUME NEW e \in JobType, jobs' = Append(jobs, e) PROVE Queued(g)'
  BY <1>1, <1>4, AppendFacts DEF QueueTypes
<1>5. \A c \in Clients : out[c] \in JobType /\ Job("shutdown", 0, c) \in JobType
  BY DEF QueueTypes, Job, JobType, Kinds
<1> QED BY <1>2, <1>3, <1>4, <1>5, ChannelSteps

\* The flushes that have been sent and are not done: a step adds the one it
\* sends, and the one that is taken away is in the Version, failed, or went
\* down with the channel.
LEMMA SentSteps ==
    ASSUME ShapeInv, [Next]_vars, NEW g, g \in Sent
    PROVE  \/ (g \in Sent)' \/ Shutdown \/ JobFailed
           \/ Remove /\ worker.pc = "flush_remove" /\ g = worker.gen
<1> USE TypesOfShape
<1>1. CASE Queued(g)
  <2>1. CASE StartFlush /\ g = Head(jobs).gen
    <3>1. worker'.gen = g /\ g > 0
      BY <1>1, <2>1 DEF StartFlush, Queued, ShapeInv, FrozenOnly, Idle
    <3> QED BY <3>1, SentIs
  <2> QED BY <1>1, <2>1, QueuedSteps, SentIs DEF ShapeInv
<1>2. CASE worker.gen > 0 /\ g = worker.gen
  <2>1. worker.pc \in {"build", "flush_manifest", "flush_remove"}
    BY <1>2 DEF ShapeInv, WorkerAtJob
  <2>2. CASE Remove
    BY <1>2, <2>1, <2>2 DEF Remove, MayRemove
  <2>3. CASE ~Remove /\ ~JobFailed
    <3>1. worker'.gen = worker.gen
      BY <2>1, <2>3, ClientsLeave
         DEF Next, Worker, StartFlush, StartCompact, FlushSwap, CompactSwap, WriteManifest,
             AnswerSync, Shutdown, Receive, vars, thread, LsmTypes
    <3> QED BY <1>2, <3>1, SentIs
  <2> QED BY <2>2, <2>3
<1> QED BY <1>1, <1>2, SentIs

LEMMA ForgottenStep ==
    ASSUME ShapeInv, ChannelInv, FrozenInv, [Next]_vars
    PROVE  FrozenInv'
<1> USE TypesOfShape DEF FrozenInv, ForgottenIsReported
<1>1. (error => error') /\ (~handle => ~handle')
  <2>1. CASE Worker
    <3>1. error => error'
      BY <2>1 DEF Worker, StartFlush, FlushSwap, StartCompact, CompactSwap, WriteManifest, Remove,
                  JobFailed, JobFails, Latch, AnswerSync, Shutdown, thread
    <3> QED BY <2>1, <3>1, WorkerLeaves
  <2>2. ASSUME NEW c \in Clients, Start(c) \/ Continue(c) PROVE ~handle => ~handle'
    BY <2>2 DEF Start, WriteCall, FlushCall, CompactCall, CloseCall, DropCall, Begin, Continue,
         MaybeFlush, Freeze, MaybeCompact, Enqueue, Send, SendFails, BarrierFails,
         BarrierPasses, TakeHandle, SendShutdown, Join, LastCheck, Return, thread
  <2> QED BY <2>1, <2>2, ClientsLeave DEF Next, vars, thread
<1>2. JobFailed => error'
  BY DEF JobFailed, JobFails, Latch
<1>3. Shutdown => ~handle
  <2>1. ASSUME Shutdown PROVE ~handle
    <3>1. jobs[1].kind = "shutdown" /\ 1 \in DOMAIN jobs /\ jobs[1] \in JobType
      BY <2>1, ReceiveFacts DEF Shutdown
    <3>2. jobs[1].client \in Clients /\ pc[jobs[1].client] = "join"
      BY <3>1 DEF ChannelInv, SendersWait, JobType
    <3> QED BY <3>2 DEF ChannelInv, OneCloser, Stopping
  <2> QED BY <2>1
<1>4. ASSUME NEW c \in Clients,
             out'[c].gen > 0 /\ pc'[c] \notin {"enqueue", "send"}
      PROVE  error' \/ ~handle'
  <2>1. CASE Worker
    <3>1. out' = out /\ (pc' = pc \/ AnswerSync)
      BY <2>1, WorkerLeaves
    <3>2. CASE pc' = pc
      BY <1>1, <1>4, <3>1, <3>2
    <3>3. CASE AnswerSync
      <4>1. /\ pc' = [pc EXCEPT ![Head(jobs).client] = "synced"]
            /\ pc[Head(jobs).client] = "wait"
        BY <3>3, ReceiveFacts DEF AnswerSync, ChannelInv, SendersWait
      <4> QED BY <1>1, <1>4, <3>1, <4>1 DEF QueueTypes
    <3> QED BY <3>1, <3>2, <3>3
  <2>2. CASE UNCHANGED vars
    BY <1>4, <2>2 DEF vars, client, thread
  <2>3. ASSUME NEW d \in Clients, d # c, Start(d) \/ Continue(d) PROVE error' \/ ~handle'
    BY <1>1, <1>4, <2>3, ClientMoves, OutSteps DEF QueueTypes
  <2>4. CASE Start(c)
    BY <1>4, <2>4 DEF Start, WriteCall, FlushCall, CompactCall, CloseCall, DropCall, Begin, Go,
                      Job, NoJob, QueueTypes
  <2>5. CASE MaybeFlush(c) \/ Freeze(c) \/ MaybeCompact(c)
    BY <1>4, <2>5 DEF MaybeFlush, Freeze, MaybeCompact, Leave, Go, QueueTypes, ShapeInv,
                      CallsInOrder, Opening, Job
  <2>6. CASE Enqueue(c) \/ SendFails(c)
    BY <1>1, <1>4, <2>6 DEF Enqueue, SendFails, Go, QueueTypes, ChannelInv, OneCloser
  <2>7. CASE Send(c) \/ Return(c)
    BY <1>4, <2>7 DEF Send, Return, Go, QueueTypes, Job, NoJob
  <2>8. CASE BarrierFails(c) \/ BarrierPasses(c) \/ TakeHandle(c) \/ SendShutdown(c) \/ Join(c)
             \/ LastCheck(c)
    BY <1>1, <1>4, <2>8
       DEF BarrierFails, BarrierPasses, TakeHandle, SendShutdown, Join, LastCheck, QueueTypes
  <2> QED BY <2>1, <2>2, <2>3, <2>4, <2>5, <2>6, <2>7, <2>8 DEF Next, Continue
<1>5. ASSUME NEW g \in imm', ~error', handle'
      PROVE  (g \in Sent)' \/ \E c \in Clients : out'[c].gen = g
  <2>1. g \in imm \/ \E c \in Clients : Freeze(c) /\ dirty /\ g = active
    BY <1>5, MemtableSteps
  <2>2. ASSUME NEW c \in Clients, Freeze(c), dirty, g = active PROVE out'[c].gen = g
    BY <2>2 DEF Freeze, Job, QueueTypes
  <2>3. ASSUME g \in Sent, g \in imm PROVE (g \in Sent)'
    <3>1. ~(worker.pc = "flush_remove" /\ g = worker.gen)
      BY <2>3 DEF ShapeInv, WorkerAtJob
    <3> QED BY <1>2, <1>3, <1>1, <1>5, <2>3, <3>1, SentSteps
  <2>4. ASSUME NEW c \in Clients, out[c].gen = g, g \in imm
        PROVE  (g \in Sent)' \/ \E d \in Clients : out'[d].gen = g
    <3>1. g > 0
      BY <2>4 DEF StoreTypes, Gens
    <3>2. pc[c] \in {"enqueue", "send"}
      BY <1>1, <1>5, <2>4, <3>1
    <3>3. CASE Send(c)
      <4>1. out[c].kind = "flush" /\ out[c] \in JobType /\ jobs' = Append(jobs, out[c])
        BY <2>4, <3>1, <3>3 DEF Send, ShapeInv, FrozenOnly, QueueTypes
      <4>2. Queued(g)'
        BY <2>4, <4>1, AppendFacts DEF Queued, QueueTypes
      <4> QED BY <4>2, SentIs
    <3>4. ASSUME Start(c) \/ Continue(c), ~Send(c) PROVE out' = out
      BY <3>2, <3>4 DEF Start, WriteCall, FlushCall, CompactCall, CloseCall, DropCall, Begin,
           Continue, MaybeFlush, Freeze, MaybeCompact, Enqueue, SendFails, BarrierFails,
           BarrierPasses, TakeHandle, SendShutdown, Join, LastCheck, Return
    <3>5. ASSUME NEW d \in Clients, d # c, Start(d) \/ Continue(d) PROVE out'[c] = out[c]
      BY <3>5, OutSteps DEF QueueTypes
    <3>6. CASE Worker \/ UNCHANGED vars
      BY <2>4, <3>6, WorkerLeaves DEF vars, client
    <3> QED BY <2>4, <3>3, <3>4, <3>5, <3>6 DEF Next
  <2>5. g \in imm => g \in Sent \/ \E c \in Clients : out[c].gen = g
    BY <1>1, <1>5
  <2> QED BY <2>1, <2>2, <2>3, <2>4, <2>5
<1> QED BY <1>4, <1>5

-----------------------------------------------------------------------------
(* Barriers: what was sent before a Sync job is done when it is answered.  *)

ErrorStays == error => error'

LEMMA ErrorKept == ASSUME [Next]_vars PROVE ErrorStays
<1>1. CASE Worker
  BY <1>1 DEF Worker, StartFlush, FlushSwap, StartCompact, CompactSwap, WriteManifest, Remove,
              JobFailed, JobFails, Latch, AnswerSync, Shutdown, thread, ErrorStays
<1> QED BY <1>1, ClientsLeave DEF Next, vars, thread, ErrorStays

\* A flush that is ahead of c's Sync job stays ahead of it, or is done.
LEMMA AheadStep ==
    ASSUME ShapeInv, ReplacedFirst, [Next]_vars, HeldBy(manifest) \subseteq HeldBy(manifest)',
           NEW c \in Clients, NEW g, g # 0, Ahead(c, g), alive', ~error'
    PROVE  Ahead(c, g)'
<1> USE TypesOfShape
<1>1. ASSUME g \in HeldBy(manifest) PROVE Ahead(c, g)'
  BY <1>1 DEF Ahead
<1>2. ASSUME g = worker.gen PROVE Ahead(c, g)'
  <2>1. worker.pc \in {"build", "flush_manifest", "flush_remove"} /\ ~JobFailed
    <3>1. worker.gen > 0
      BY <1>2 DEF LsmTypes, Gens
    <3>2. ~JobFailed
      BY DEF JobFailed, JobFails, Latch
    <3> QED BY <3>1, <3>2 DEF ShapeInv, WorkerAtJob
  <2>2. CASE Remove
    <3>1. worker.pc = "flush_remove"
      BY <2>1, <2>2 DEF Remove, MayRemove
    <3> QED BY <1>1, <1>2, <3>1 DEF ReplacedFirst
  <2>3. CASE ~Remove
    <3>1. worker'.gen = worker.gen
      BY <2>1, <2>3, ClientsLeave
         DEF Next, Worker, StartFlush, StartCompact, FlushSwap, CompactSwap, WriteManifest,
             AnswerSync, Shutdown, Receive, vars, thread, LsmTypes
    <3> QED BY <1>2, <3>1 DEF Ahead
  <2> QED BY <2>2, <2>3
<1>3. ASSUME NEW j \in DOMAIN jobs, jobs[j].kind = "flush", jobs[j].gen = g,
             \A i \in DOMAIN jobs : jobs[i].kind = "sync" /\ jobs[i].client = c => j < i
      PROVE  Ahead(c, g)'
  <2>1. jobs \in Seq(JobType)
    BY DEF QueueTypes
  <2>2. CASE jobs' = jobs
    BY <1>3, <2>2 DEF Ahead
  <2>3. CASE jobs # <<>> /\ jobs' = Tail(jobs) /\ (StartFlush \/ Head(jobs).kind # "flush")
    <3>1. CASE j = 1
      <4>1. worker'.gen = g
        BY <1>3, <2>1, <2>3, <3>1, TailFacts DEF StartFlush, Idle
      <4> QED BY <4>1 DEF Ahead
    <3>2. CASE j # 1
      <4>1. /\ j - 1 \in DOMAIN jobs' /\ jobs'[j - 1] = jobs[j]
            /\ \A i \in DOMAIN jobs' : i + 1 \in DOMAIN jobs /\ jobs'[i] = jobs[i + 1]
            /\ j \in Nat /\ DOMAIN jobs' \subseteq Nat
        BY <1>3, <2>1, <2>3, <3>2, TailFacts
      <4>2. \A i \in DOMAIN jobs' : jobs'[i].kind = "sync" /\ jobs'[i].client = c => j - 1 < i
        BY <1>3, <4>1
      <4> QED BY <1>3, <4>1, <4>2 DEF Ahead
    <3> QED BY <3>1, <3>2
  <2>4. ASSUME NEW e \in JobType, jobs' = Append(jobs, e) PROVE Ahead(c, g)'
    <3>1. /\ DOMAIN jobs = 1 .. Len(jobs) /\ DOMAIN jobs' = 1 .. Len(jobs) + 1
          /\ Len(jobs) \in Nat /\ \A i \in DOMAIN jobs : jobs'[i] = jobs[i]
      BY <2>1, <2>4, AppendFacts
    <3>2. /\ j \in DOMAIN jobs' /\ jobs'[j] = jobs[j]
          /\ \A i \in DOMAIN jobs' : i \in DOMAIN jobs \/ j < i
      BY <3>1
    <3>3. \A i \in DOMAIN jobs' : jobs'[i].kind = "sync" /\ jobs'[i].client = c => j < i
      BY <1>3, <3>1, <3>2
    <3> QED BY <1>3, <3>2, <3>3 DEF Ahead
  <2>5. \A d \in Clients : out[d] \in JobType /\ Job("shutdown", 0, d) \in JobType
    BY DEF QueueTypes, Job, JobType, Kinds
  <2>6. ~Shutdown
    BY DEF Shutdown
  <2> QED BY <2>2, <2>3, <2>4, <2>5, <2>6, ChannelSteps DEF ShapeInv
<1> QED BY <1>1, <1>2, <1>3 DEF Ahead

\* BarrierInv, for one client.
BarrierAt(c) ==
    /\ pc[c] \in Opening \cup {"enqueue", "send"} => before[c] = {}
    /\ pc[c] = "wait" /\ alive /\ ~error => \A g \in before[c] : Ahead(c, g)
    /\ pc[c] \in {"synced"} \cup Closing
        => call[c] = "drop" \/ error \/ before[c] \subseteq HeldBy(manifest)
    /\ 0 \notin before[c]
    /\ result[c] = "ok" => before[c] \subseteq HeldBy(manifest)

LEMMA BarrierIs ==
    /\ BarrierInv <=> \A c \in Clients : BarrierAt(c)
    /\ BarrierInv' <=> \A c \in Clients : BarrierAt(c)'
BY DEF BarrierInv, OkMeansWritten, BarrierAt

\* A client that does not move keeps what its barrier stands behind.
LEMMA BarrierStays ==
    ASSUME ShapeInv, ReplacedFirst, [Next]_vars, HeldBy(manifest) \subseteq HeldBy(manifest)',
           NEW c \in Clients, BarrierAt(c), alive' => alive,
           pc'[c] = pc[c], call'[c] = call[c], before'[c] = before[c], result'[c] = result[c]
    PROVE  BarrierAt(c)'
<1>1. error => error'
  BY ErrorKept DEF ErrorStays
<1>2. ASSUME pc'[c] = "wait", alive', ~error', NEW g \in before'[c] PROVE Ahead(c, g)'
  <2>1. g # 0 /\ Ahead(c, g)
    BY <1>1, <1>2 DEF BarrierAt
  <2> QED BY <1>2, <2>1, AheadStep
<1> QED BY <1>1, <1>2 DEF BarrierAt

LEMMA BarrierStep ==
    ASSUME ShapeInv, ChannelInv, ReplacedFirst, BarrierInv, [Next]_vars,
           HeldBy(manifest) \subseteq HeldBy(manifest)'
    PROVE  BarrierInv'
<1> USE TypesOfShape
<1>1. \A c \in Clients : BarrierAt(c)
  BY BarrierIs
<1>2. (error => error') /\ (alive' => alive)
  <2>1. alive' => alive
    BY ClientsLeave
       DEF Next, Worker, StartFlush, FlushSwap, StartCompact, CompactSwap, WriteManifest, Remove,
           JobFailed, JobFails, AnswerSync, Receive, Shutdown, vars, thread
  <2> QED BY <2>1, ErrorKept DEF ErrorStays
<1>3. CASE AnswerSync
  <2>1. /\ Receive("sync") /\ pc' = [pc EXCEPT ![Head(jobs).client] = "synced"]
        /\ UNCHANGED <<call, before, result, error, worker>>
    BY <1>3, WorkerLeaves DEF AnswerSync, thread
  <2>2. /\ jobs[1].kind = "sync" /\ jobs[1].client = Head(jobs).client /\ 1 \in DOMAIN jobs
        /\ Head(jobs).client \in Clients /\ alive /\ worker.pc = "idle"
        /\ \A j \in DOMAIN jobs : ~(j < 1)
    <3>1. Head(jobs) \in JobType /\ \A j \in DOMAIN jobs : ~(j < 1)
      BY <2>1, ReceiveFacts
    <3> QED BY <2>1, <3>1, ReceiveFacts DEF JobType
  <2>3. pc[Head(jobs).client] = "wait" /\ worker.gen = 0
    BY <2>2 DEF ChannelInv, SendersWait, ShapeInv, WorkerAtJob, Idle
  <2>4. ASSUME NEW c \in Clients, c # Head(jobs).client PROVE BarrierAt(c)'
    BY <1>1, <1>2, <2>1, <2>4, BarrierStays DEF QueueTypes
  <2>5. ASSUME NEW c \in Clients, c = Head(jobs).client PROVE BarrierAt(c)'
    <3>1. ~error => before[c] \subseteq HeldBy(manifest)
      BY <1>1, <2>2, <2>3, <2>5 DEF BarrierAt, Ahead
    <3>2. pc'[c] = "synced" /\ before'[c] = before[c] /\ result'[c] = result[c]
      BY <2>1, <2>5 DEF QueueTypes
    <3> QED BY <1>1, <2>1, <3>1, <3>2 DEF BarrierAt, Opening, Closing
  <2> QED BY <2>4, <2>5, BarrierIs
<1>4. CASE (Worker /\ ~AnswerSync) \/ UNCHANGED vars
  <2>1. UNCHANGED <<pc, call, before, result>>
    BY <1>4, WorkerLeaves DEF vars, client
  <2> QED BY <1>1, <1>2, <2>1, BarrierStays, BarrierIs
<1>5. ASSUME NEW c \in Clients, Start(c) \/ Continue(c), NEW d \in Clients, d # c
      PROVE  BarrierAt(d)'
  <2>1. before'[d] = before[d] /\ result'[d] = result[d]
    <3>1. CASE Start(c)
      BY <1>5, <3>1 DEF Start, WriteCall, FlushCall, CompactCall, CloseCall, DropCall, Begin
    <3>2. CASE Continue(c)
      <4> USE DEF ShapeInv, TypeOK
      <4>1. CASE MaybeFlush(c) \/ Freeze(c) \/ MaybeCompact(c)
        BY <1>5, <4>1 DEF MaybeFlush, Freeze, MaybeCompact, Leave
      <4>2. CASE Enqueue(c) \/ Send(c) \/ SendFails(c) \/ BarrierFails(c)
        BY <1>5, <4>2 DEF Enqueue, Send, SendFails, BarrierFails, Fail, Leave
      <4>3. CASE BarrierPasses(c) \/ TakeHandle(c) \/ SendShutdown(c) \/ Join(c)
        BY <1>5, <4>3 DEF BarrierPasses, TakeHandle, SendShutdown, Join, Fail, Leave
      <4>4. CASE LastCheck(c) \/ Return(c)
        BY <1>5, <4>4 DEF LastCheck, Return, Leave
      <4> QED BY <3>2, <4>1, <4>2, <4>3, <4>4 DEF Continue
    <3> QED BY <1>5, <3>1, <3>2
  <2>2. pc'[d] = pc[d] /\ call'[d] = call[d]
    BY <1>5, ClientMoves
  <2> QED BY <1>1, <1>2, <2>1, <2>2, BarrierStays
<1>6. ASSUME NEW c \in Clients, Start(c) \/ Continue(c) PROVE BarrierAt(c)'
  <2>1. before \in [Clients -> SUBSET Gens] /\ BarrierAt(c)
    BY <1>1 DEF ShapeInv, TypeOK
  <2>2. CASE Start(c)
    <3>1. /\ pc[c] = "idle" /\ pc'[c] \in Opening \cup {"enqueue"}
          /\ before' = before /\ result' = result
      BY <2>2 DEF Start, WriteCall, FlushCall, CompactCall, CloseCall, DropCall, Begin, Go,
                  Opening, QueueTypes
    <3> QED BY <2>1, <3>1 DEF BarrierAt, Opening, Closing
  <2>3. CASE Send(c)
    <3>1. /\ pc[c] = "send" /\ pc'[c] = AfterSend(c) /\ jobs' = Append(jobs, out[c])
          /\ before[c] = {} /\ result[c] = "none"
          /\ before'[c] = IF out[c].kind = "sync" THEN Sent ELSE {}
          /\ out[c] \in JobType /\ worker' = worker
      <4>1. pc[c] = "send" /\ worker' = worker /\ out[c] \in JobType
        BY <2>3 DEF Send, QueueTypes, thread
      <4>2. before[c] = {} /\ result[c] = "none"
        BY <2>1, <4>1 DEF BarrierAt, ShapeInv, CallsInOrder
      <4>3. pc'[c] = AfterSend(c) /\ jobs' = Append(jobs, out[c])
        BY <2>3 DEF Send, Go, QueueTypes
      <4>4. before' = [before EXCEPT ![c] = IF out[c].kind = "sync" THEN Sent ELSE @]
        BY <2>3 DEF Send
      <4>5. before'[c] = IF out[c].kind = "sync" THEN Sent ELSE {}
        BY <2>1, <4>2, <4>4
      <4> QED BY <4>1, <4>2, <4>3, <4>5
    <3>2. CASE out[c].kind = "sync"
      <4>1. AfterSend(c) = "wait"
        BY <3>2 DEF AfterSend
      <4>2. 0 \notin Sent
        BY DEF Sent, ShapeInv, FrozenOnly
      <4>3. ASSUME NEW g \in Sent PROVE Ahead(c, g)'
        <5>1. CASE worker.gen > 0 /\ g = worker.gen
          BY <3>1, <5>1 DEF Ahead
        <5>2. CASE Queued(g)
          <6>1. PICK j \in DOMAIN jobs : jobs[j].kind = "flush" /\ jobs[j].gen = g
            BY <5>2 DEF Queued
          <6>2. \A i \in DOMAIN jobs : ~(jobs[i].kind = "sync" /\ jobs[i].client = c)
            BY <3>1 DEF ChannelInv, SendersWait
          <6>3. /\ DOMAIN jobs = 1 .. Len(jobs) /\ DOMAIN jobs' = 1 .. Len(jobs) + 1
                /\ Len(jobs) \in Nat /\ \A i \in DOMAIN jobs : jobs'[i] = jobs[i]
            BY <3>1, AppendFacts DEF QueueTypes
          <6>4. /\ j \in DOMAIN jobs' /\ jobs'[j] = jobs[j]
                /\ \A i \in DOMAIN jobs' : i \in DOMAIN jobs \/ j < i
            BY <6>3
          <6>5. \A i \in DOMAIN jobs' : jobs'[i].kind = "sync" /\ jobs'[i].client = c => j < i
            BY <6>2, <6>3, <6>4
          <6> QED BY <6>1, <6>4, <6>5 DEF Ahead
        <5> QED BY <5>1, <5>2, SentIs
      <4>4. result'[c] = "none"
        BY <2>3, <3>1, <4>1 DEF Send, QueueTypes
      <4> QED BY <3>1, <3>2, <4>1, <4>2, <4>3, <4>4 DEF BarrierAt, Opening, Closing
    <3>3. CASE out[c].kind # "sync"
      <4>1. AfterSend(c) \in {"enqueue", "maybe_compact", "done"}
        BY <3>3 DEF AfterSend
      <4> QED BY <3>1, <3>3, <4>1 DEF BarrierAt, Opening, Closing
    <3> QED BY <3>2, <3>3
  <2>4. CASE Return(c)
    <3>1. pc'[c] = "idle" /\ before'[c] = {} /\ result'[c] = "none"
      BY <2>1, <2>4 DEF Return, Go, QueueTypes
    <3> QED BY <3>1 DEF BarrierAt, Opening, Closing
  <2>5. CASE Continue(c) /\ ~Send(c) /\ ~Return(c)
    <3> USE DEF Go, QueueTypes, Opening, Closing, Leave, Fail
    <3>1. before' = before /\ call' = call
      BY <2>5 DEF Continue, MaybeFlush, Freeze, MaybeCompact, Enqueue, SendFails, BarrierFails,
                  BarrierPasses, TakeHandle, SendShutdown, Join, LastCheck
    <3>2. CASE MaybeFlush(c) \/ Freeze(c) \/ MaybeCompact(c)
      <4>1. before[c] = {} /\ pc'[c] \in Opening \cup {"enqueue", "done"}
        BY <2>1, <3>2 DEF BarrierAt, MaybeFlush, Freeze, MaybeCompact
      <4> QED BY <3>1, <4>1 DEF BarrierAt
    <3>3. CASE Enqueue(c) \/ SendFails(c)
      <4>1. before[c] = {}
        BY <2>1, <3>3 DEF BarrierAt, Enqueue, SendFails
      <4>2. pc'[c] \in {"send", "done", "shutdown"}
        BY <3>3 DEF Enqueue, SendFails
      <4> QED BY <3>1, <4>1, <4>2 DEF BarrierAt
    <3>4. CASE BarrierFails(c)
      <4>1. /\ pc[c] = "wait" /\ result[c] = "none"
            /\ \/ call[c] = "drop" /\ pc'[c] = "shutdown" /\ result' = result
               \/ pc'[c] = "done" /\ result'[c] = "err"
        BY <3>4 DEF BarrierFails, ShapeInv, CallsInOrder
      <4> QED BY <2>1, <3>1, <4>1 DEF BarrierAt
    <3>5. CASE BarrierPasses(c)
      <4>1. pc[c] = "synced" /\ result[c] = "none"
        BY <3>5 DEF BarrierPasses, ShapeInv, CallsInOrder
      <4>2. \/ call[c] = "drop" /\ pc'[c] = "shutdown" /\ result' = result
            \/ pc'[c] = "done" /\ result'[c] = "err"
            \/ ~error /\ pc'[c] = "shutdown" /\ result' = result
            \/ ~error /\ call[c] # "drop" /\ pc'[c] = "done" /\ result'[c] = "ok"
        BY <3>5 DEF BarrierPasses, BarrierSees
      <4>3. call[c] = "drop" \/ error \/ before[c] \subseteq HeldBy(manifest)'
        BY <2>1, <4>1 DEF BarrierAt
      <4>4. 0 \notin before[c]
        BY <2>1 DEF BarrierAt
      <4> QED BY <1>2, <3>1, <4>1, <4>2, <4>3, <4>4 DEF BarrierAt
    <3>6. CASE TakeHandle(c) \/ SendShutdown(c) \/ Join(c)
      <4>1. pc[c] \in Closing /\ pc'[c] \in Closing /\ result' = result
        BY <3>6 DEF TakeHandle, SendShutdown, Join
      <4>2. result[c] = "none"
        BY <4>1 DEF ShapeInv, CallsInOrder
      <4> QED BY <1>2, <2>1, <3>1, <4>1, <4>2 DEF BarrierAt
    <3>7. CASE LastCheck(c)
      <4>1. /\ pc[c] = "last_check" /\ pc'[c] = "done"
            /\ result'[c] = "ok" => call[c] # "drop" /\ ~error
        BY <3>7 DEF LastCheck
      <4> QED BY <2>1, <3>1, <4>1 DEF BarrierAt
    <3> QED BY <2>5, <3>2, <3>3, <3>4, <3>5, <3>6, <3>7 DEF Continue
  <2> QED BY <1>6, <2>2, <2>3, <2>4, <2>5
<1> QED BY <1>3, <1>4, <1>5, <1>6, BarrierIs DEF Next

-----------------------------------------------------------------------------
(* The invariant, and what it says of every behaviour.                     *)

LEMMA WorkerInit == ASSUME Init PROVE WorkerInv
<1> USE BoundAssumption, QueueAssumption DEF Init
<1>1. 1 \in Gens /\ \A i \in DOMAIN jobs : FALSE
  BY DEF Gens
<1>2. Len(jobs) = 0 /\ DOMAIN sst = {} /\ DOMAIN jobs = {} /\ sst \in Seq(SUBSET Gens)
      /\ jobs \in Seq(JobType)
  BY EmptySeq
<1>3. out \in [Clients -> JobType] /\ \A c \in Clients : out[c] = NoJob(c)
  BY DEF NoJob, Job, JobType
<1>4. TypeOK
  <2>1. \A c \in Clients :
          out[c] \in [kind : Kinds \cup {"none"}, gen : Gens \cup {0}, client : {c}]
    BY <1>3 DEF NoJob, Job
  <2>2. worker \in [pc : {"idle", "build", "flush_manifest", "flush_remove", "merge",
                         "compact_manifest", "compact_remove"},
                   gen : Gens \cup {0}, old : SUBSET DOMAIN sst]
    BY DEF Idle
  <2>3. Len(jobs) <= QueueCap /\ made \in 0 .. MaxCalls /\ faults \in 0 .. MaxFaults
    BY <1>2
  <2>4. /\ call \in [Clients -> AllCalls \cup {"none"}]
        /\ pc \in [Clients -> Places]
        /\ result \in [Clients -> {"none", "ok", "err", "dropped"}]
        /\ before \in [Clients -> SUBSET Gens]
        /\ late \in [Clients -> BOOLEAN]
    BY DEF Places
  <2>5. active \in Gens /\ imm \subseteq Gens /\ wals \subseteq Gens
    BY <1>1
  <2> QED BY <1>2, <2>1, <2>2, <2>3, <2>4, <2>5 DEF TypeOK
<1>5. CallsInOrder /\ JobsInHand
  BY <1>3 DEF CallsInOrder, JobsInHand, Opening, Closing, NoJob, Job
<1>6. FrozenOnly /\ WorkerAtJob
  BY <1>1, <1>3 DEF FrozenOnly, WorkerAtJob, Idle, NoJob, Job
<1>7. FilesInv
  BY DEF FilesInv, NamedOnDisk, ReplacedFirst, LogsKept, NothingLost, HeldBy, Idle
<1>8. ChannelInv /\ ErrorInv
  BY <1>1 DEF ChannelInv, SendersWait, OneSyncEach, OneCloser, DropAlone, DropDrains, Stopping,
              ErrorInv, ErrorIsReported
<1>9. FrozenInv /\ BarrierInv
  BY <1>3 DEF FrozenInv, ForgottenIsReported, NoJob, Job, BarrierInv, OkMeansWritten, Closing
<1> QED BY <1>2, <1>3, <1>4, <1>5, <1>6, <1>7, <1>8, <1>9 DEF WorkerInv, ShapeInv

LEMMA WorkerStep == ASSUME WorkerInv, [Next]_vars PROVE WorkerInv'
<1> USE TypesOfShape DEF WorkerInv, FilesInv
<1>1. ShapeInv'
  BY ShapeStep DEF ChannelInv
<1>2. NamedOnDisk' /\ ReplacedFirst' /\ HeldBy(manifest) \subseteq HeldBy(manifest)'
  BY FilesStep DEF ShapeInv, TypeOK
<1>3. LogsKept'
  BY <1>2, LogsStep
<1>4. ChannelInv'
  BY ChannelStep
<1>5. ErrorInv'
  BY ErrorStep DEF ShapeInv
<1>6. FrozenInv'
  BY ForgottenStep
<1>7. BarrierInv'
  BY <1>2, BarrierStep
<1> QED BY <1>1, <1>2, <1>3, <1>4, <1>5, <1>6, <1>7

\* The inductive invariant of the background thread holds throughout
\* (memtable.rs:680-955).
THEOREM WorkerCorrect == Spec => []WorkerInv
<1>1. Init => WorkerInv
  BY WorkerInit
<1>2. WorkerInv /\ [Next]_vars => WorkerInv'
  BY WorkerStep
<1> QED BY <1>1, <1>2, PTL DEF Spec

\* Every variable keeps its type and the channel its limit: a ninth job makes
\* its sender wait (memtable.rs:324, 892-897).
THEOREM WorkerTypes == Spec => []TypeOK
<1>1. WorkerInv => TypeOK
  BY DEF WorkerInv, ShapeInv
<1> QED BY <1>1, WorkerCorrect, PTL

\* An Ok of flush(), compact() or close() vouches for every flush sent before
\* its barrier, however many clients race (memtable.rs:773-783, 884-890, 910-921).
THEOREM OkIsWritten == Spec => []OkMeansWritten
<1>1. WorkerInv => OkMeansWritten
  BY DEF WorkerInv, BarrierInv
<1> QED BY <1>1, WorkerCorrect, PTL

\* The rows of every memtable stay on disk, whatever fails, and however often
\* (memtable.rs:96-97, 181-185, 257-273).
THEOREM RowsStayOnDisk == Spec => []NothingLost
<1>1. WorkerInv => NothingLost
  BY DEF WorkerInv, FilesInv, LogsKept
<1> QED BY <1>1, WorkerCorrect, PTL

\* A call that begins after a job has failed reports it (memtable.rs:62-67, 899-908).
THEOREM ErrorsStay == Spec => []ErrorIsReported
<1>1. WorkerInv => ErrorIsReported
  BY DEF WorkerInv, ErrorInv
<1> QED BY <1>1, WorkerCorrect, PTL

\* Nothing stands behind the Shutdown job of a Drop (memtable.rs:946-955).
THEOREM DropLeavesNothing == Spec => []DropDrains
<1>1. WorkerInv => DropDrains
  BY DEF WorkerInv, ChannelInv
<1> QED BY <1>1, WorkerCorrect, PTL

\* A frozen memtable is on its way to the worker, unless there is an error to
\* report or the worker has been taken away (memtable.rs:680-694, 773-778, 892-897).
THEOREM NoneForgotten == Spec => []ForgottenIsReported
<1>1. WorkerInv => ForgottenIsReported
  BY DEF WorkerInv, FrozenInv
<1> QED BY <1>1, WorkerCorrect, PTL
=============================================================================
