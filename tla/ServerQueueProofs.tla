------------------------- MODULE ServerQueueProofs -------------------------
(***************************************************************************)
(* Proofs about ServerQueue, for every finite set of connections: its      *)
(* inductive invariant, the safety properties that follow from it, and     *)
(* the implementation of RequestService.                                   *)
(***************************************************************************)
EXTENDS ServerQueue, FiniteSetTheorems, SequenceTheorems, TLAPS

-----------------------------------------------------------------------------
(* Counting the client threads. *)

LEMMA ThreadsFinite ==
  /\ IsFiniteSet(Threads)
  /\ Cardinality(Threads) \in Nat
  /\ Cardinality(Threads) = 0 <=> Threads = {}
BY ClientsAssumption, FS_Subset, FS_CardinalityType, FS_EmptySet DEF Threads

\* A thread that starts adds one to the count, one that ends subtracts one.
LEMMA ThreadStarts ==
  ASSUME NEW c \in Clients, c \notin Threads, Threads' = Threads \cup {c}
  PROVE  Cardinality(Threads') = Cardinality(Threads) + 1
BY ThreadsFinite, FS_AddElement

LEMMA ThreadEnds ==
  ASSUME NEW c \in Clients, c \in Threads, Threads' = Threads \ {c}
  PROVE  Cardinality(Threads') = Cardinality(Threads) - 1
BY ThreadsFinite, FS_RemoveElement

-----------------------------------------------------------------------------
(* Steps of the environment and of main(). *)

LEMMA stop_signal_handler_Structure ==
  ASSUME Structure, stop_signal_handler
  PROVE  Structure'
<1> USE DEF stop_signal_handler, StopSignal, Structure
<1>1. TypeOK'
  BY DEF TypeOK
<1>2. JobsHeld' /\ Waiters' /\ Locks' /\ Answered'
  BY DEF JobsHeld, Waiters, Locks, Answered, InQueue
<1>3. Stopping'
  BY DEF Stopping
<1>4. QED
  BY <1>1, <1>2, <1>3

LEMMA Connect_Structure ==
  ASSUME Structure, NEW c \in Clients, Connect(c)
  PROVE  Structure'
BY ClientsAssumption
   DEF Structure, TypeOK, JobsHeld, Waiters, Locks, Answered, Stopping,
       InQueue, Connect, MainPc, ClientPc, WorkerPc, Answers

LEMMA Accept_Structure ==
  ASSUME Structure, NEW c \in Clients, Accept(c)
  PROVE  Structure'
BY ClientsAssumption
   DEF Structure, TypeOK, JobsHeld, Waiters, Locks, Answered, Stopping,
       InQueue, Accept, MainPc, ClientPc, WorkerPc, Answers

LEMMA AcceptStopped_Structure ==
  ASSUME Structure, AcceptStopped
  PROVE  Structure'
BY ClientsAssumption
   DEF Structure, TypeOK, JobsHeld, Waiters, Locks, Answered, Stopping,
       InQueue, AcceptStopped, MainPc, ClientPc, WorkerPc, Answers

LEMMA Spawn_Structure ==
  ASSUME Structure, Spawn
  PROVE  Structure'
BY ClientsAssumption
   DEF Structure, TypeOK, JobsHeld, Waiters, Locks, Answered, Stopping,
       InQueue, Spawn, MainPc, ClientPc, WorkerPc, Answers

LEMMA SpawnFails_Structure ==
  ASSUME Structure, ClientCount, SpawnFails
  PROVE  Structure'
<1>1. clients - 1 \in Nat
  BY ThreadsFinite DEF ClientCount, Structure, Stopping, SpawnFails
<1>2. QED
  BY <1>1, ClientsAssumption
     DEF Structure, TypeOK, JobsHeld, Waiters, Locks, Answered, Stopping,
         InQueue, SpawnFails, MainPc, ClientPc, WorkerPc, Answers

LEMMA SetStopping_Structure ==
  ASSUME Structure, SetStopping
  PROVE  Structure'
BY ClientsAssumption
   DEF Structure, TypeOK, JobsHeld, Waiters, Locks, Answered, Stopping,
       InQueue, SetStopping, MainPc, ClientPc, WorkerPc, Answers

LEMMA JoinWorker_Structure ==
  ASSUME Structure, JoinWorker
  PROVE  Structure'
BY ClientsAssumption
   DEF Structure, TypeOK, JobsHeld, Waiters, Locks, Answered, Stopping,
       InQueue, JoinWorker, MainPc, ClientPc, WorkerPc, Answers

LEMMA WaitClients_Structure ==
  ASSUME Structure, WaitClients
  PROVE  Structure'
BY ClientsAssumption
   DEF Structure, TypeOK, JobsHeld, Waiters, Locks, Answered, Stopping,
       InQueue, WaitClients, MainPc, ClientPc, WorkerPc, Answers

LEMMA ShutdownStep_Structure ==
  ASSUME Structure, ShutdownStep
  PROVE  Structure'
BY ClientsAssumption
   DEF Structure, TypeOK, JobsHeld, Waiters, Locks, Answered, Stopping,
       InQueue, ShutdownStep, MainPc, ClientPc, WorkerPc, Answers

-----------------------------------------------------------------------------
(* Steps of a client thread. *)

LEMMA ReadRequest_Structure ==
  ASSUME Structure, NEW c \in Clients, ReadRequest(c)
  PROVE  Structure'
BY ClientsAssumption
   DEF Structure, TypeOK, JobsHeld, Waiters, Locks, Answered, Stopping,
       InQueue, ReadRequest, MainPc, ClientPc, WorkerPc, Answers

LEMMA ParseRequest_Structure ==
  ASSUME Structure, NEW c \in Clients, ParseRequest(c)
  PROVE  Structure'
<1> USE DEF ParseRequest, Structure
<1>1. TypeOK'
  BY DEF TypeOK, ClientPc, Answers
<1>2. JobsHeld'
  BY ClientsAssumption DEF JobsHeld, TypeOK, WorkerPc
<1>3. Waiters' /\ Answered'
  BY DEF Waiters, Answered, InQueue, TypeOK
<1>4. Locks'
  BY ClientsAssumption DEF Locks, JobsHeld, TypeOK
<1>5. Stopping'
  BY ClientsAssumption DEF Stopping, TypeOK
<1>6. QED
  BY <1>1, <1>2, <1>3, <1>4, <1>5

LEMMA AppendFacts ==
  ASSUME NEW S, NEW q \in Seq(S), NEW e \in S
  PROVE  /\ Len(Append(q, e)) = Len(q) + 1 /\ Append(q, e)[Len(q) + 1] = e
         /\ \A i \in 1..Len(q) : Append(q, e)[i] = q[i]
         /\ Len(q) \in Nat
OBVIOUS

LEMMA Enqueue_Structure ==
  ASSUME Structure, NEW c \in Clients, Enqueue(c)
  PROVE  Structure'
<1>1. CASE stopping
  BY <1>1, ClientsAssumption
     DEF Structure, TypeOK, JobsHeld, Waiters, Locks, Answered, Stopping,
         InQueue, Enqueue, MainPc, ClientPc, WorkerPc, Answers
<1>2. CASE ~stopping
  <2> USE DEF Structure, Enqueue
  <2>1. /\ queue' = Append(queue, c) /\ queue \in Seq(Clients)
        /\ Len(queue') = Len(queue) + 1 /\ queue'[Len(queue) + 1] = c
        /\ \A i \in 1..Len(queue) : queue'[i] = queue[i]
        /\ \A i \in 1..Len(queue) : queue[i] # c
        /\ Len(queue) \in Nat
    <3>1. queue' = Append(queue, c) /\ client[c] = "enqueue"
      BY <1>2
    <3>2. queue \in Seq(Clients)
      BY DEF TypeOK
    <3>3. \A i \in 1..Len(queue) : client[queue[i]] # "enqueue"
      BY DEF JobsHeld
    <3> HIDE DEF Structure, Enqueue
    <3>4. \A i \in 1..Len(queue) : queue[i] # c
      BY <3>1, <3>3
    <3>5. QED
      BY <3>1, <3>2, <3>4, AppendFacts
  <2>2. TypeOK'
    BY <1>2, <2>1 DEF TypeOK, ClientPc, WorkerPc
  <2>3. job # c
    <3>1. worker \in {"generate", "finish", "unlock"} => client[job] # "enqueue"
      BY DEF JobsHeld
    <3>2. worker \notin {"generate", "finish", "unlock"} => job = None
      BY DEF JobsHeld, TypeOK, WorkerPc
    <3>3. QED
      BY <3>1, <3>2, ClientsAssumption
  <2>4. JobsHeld'
    <3>1. \A i \in 1..Len(queue') : i \in 1..Len(queue) \/ i = Len(queue) + 1
      BY <2>1
    <3>2. \A i, j \in 1..Len(queue') : queue'[i] = queue'[j] => i = j
      BY <3>1, <2>1 DEF JobsHeld
    <3>3. \A i \in 1..Len(queue') :
            /\ client'[queue'[i]] \in {"check", "wait"}
            /\ ~done'[queue'[i]] /\ answer'[queue'[i]] = "none"
            /\ queue'[i] # job'
      BY <3>1, <1>2, <2>1, <2>3, ClientsAssumption DEF JobsHeld, Answered, TypeOK
    <3>4. QED
      BY <3>2, <3>3, <1>2, <2>3 DEF JobsHeld, TypeOK, WorkerPc
  <2>5. Waiters'
    <3>1. \A d \in Clients : InQueue(d) => InQueue(d)'
      BY <2>1 DEF InQueue
    <3>2. InQueue(c)'
      BY <2>1 DEF InQueue
    <3>3. QED
      BY <3>1, <3>2, <1>2 DEF Waiters, Answered, TypeOK
  <2>6. Locks' /\ Answered'
    BY <1>2, <2>3 DEF Locks, Answered, TypeOK
  <2>7. Stopping'
    BY <1>2, <2>1, ClientsAssumption DEF Stopping, TypeOK
  <2>8. QED
    BY <2>2, <2>4, <2>5, <2>6, <2>7
<1>3. QED
  BY <1>1, <1>2

LEMMA Refuse_Structure ==
  ASSUME Structure, NEW c \in Clients, Refuse(c)
  PROVE  Structure'
BY ClientsAssumption
   DEF Structure, TypeOK, JobsHeld, Waiters, Locks, Answered, Stopping,
       InQueue, Refuse, MainPc, ClientPc, WorkerPc, Answers

LEMMA CheckDone_Structure ==
  ASSUME Structure, NEW c \in Clients, CheckDone(c)
  PROVE  Structure'
BY ClientsAssumption
   DEF Structure, TypeOK, JobsHeld, Waiters, Locks, Answered, Stopping,
       InQueue, CheckDone, MainPc, ClientPc, WorkerPc, Answers

LEMMA CloseSocket_Structure ==
  ASSUME Structure, NEW c \in Clients, CloseSocket(c)
  PROVE  Structure'
BY ClientsAssumption
   DEF Structure, TypeOK, JobsHeld, Waiters, Locks, Answered, Stopping,
       InQueue, CloseSocket, MainPc, ClientPc, WorkerPc, Answers

LEMMA ClientDone_Structure ==
  ASSUME Structure, NEW c \in Clients, ClientDone(c)
  PROVE  Structure'
BY ClientsAssumption
   DEF Structure, TypeOK, JobsHeld, Waiters, Locks, Answered, Stopping,
       InQueue, ClientDone, MainPc, ClientPc, WorkerPc, Answers

-----------------------------------------------------------------------------
(* Steps of the worker. *)

LEMMA Dequeue_Structure ==
  ASSUME Structure, Dequeue
  PROVE  Structure'
<1>1. CASE queue = <<>>
  BY <1>1, ClientsAssumption
     DEF Structure, TypeOK, JobsHeld, Waiters, Locks, Answered, Stopping,
         InQueue, Dequeue, MainPc, ClientPc, WorkerPc, Answers
<1>2. CASE queue # <<>>
  <2> USE DEF Structure, Dequeue
  <2>a. queue \in Seq(Clients) /\ queue # <<>>
    BY <1>2 DEF TypeOK
  <2>b. queue' = Tail(queue) /\ job' = Head(queue) /\ worker' = "generate"
    BY <1>2
  <2>1. /\ Len(queue) \in Nat /\ Len(queue) > 0
        /\ Len(queue') = Len(queue) - 1
        /\ \A i \in 1..Len(queue') : queue'[i] = queue[i + 1] /\ i + 1 \in 1..Len(queue)
        /\ job' = queue[1] /\ 1 \in 1..Len(queue) /\ job' \in Clients
        /\ queue' \in Seq(Clients)
    <3>1. Len(queue) \in Nat /\ Len(queue) > 0
      BY <2>a, EmptySeq
    <3>2. Head(queue) = queue[1] /\ Head(queue) \in Clients /\ Tail(queue) \in Seq(Clients)
      BY <2>a, <3>1, HeadTailProperties
    <3>3. Len(Tail(queue)) = Len(queue) - 1
          /\ \A i \in 1..Len(Tail(queue)) : Tail(queue)[i] = queue[i + 1]
      BY <2>a, HeadTailProperties
    <3>4. QED
      BY <2>b, <3>1, <3>2, <3>3
  <2>2. TypeOK'
    BY <1>2, <2>1 DEF TypeOK, WorkerPc
  <2>3. JobsHeld'
    <3>1. \A i, j \in 1..Len(queue') : queue'[i] = queue'[j] => i = j
      BY <2>1 DEF JobsHeld
    <3>2. \A i \in 1..Len(queue') : queue'[i] # job'
      BY <2>1 DEF JobsHeld
    <3>3. \A i \in 1..Len(queue') :
            /\ client'[queue'[i]] \in {"check", "wait"}
            /\ ~done'[queue'[i]] /\ answer'[queue'[i]] = "none"
      BY <2>1 DEF JobsHeld
    <3>4. QED
      BY <3>1, <3>2, <3>3, <2>1, <1>2, ClientsAssumption DEF JobsHeld
  <2>4. Waiters'
    <3>1. \A d \in Clients : InQueue(d) => InQueue(d)' \/ job' = d
      <4> SUFFICES ASSUME NEW d \in Clients, NEW i \in 1..Len(queue), queue[i] = d
                   PROVE  InQueue(d)' \/ job' = d
        BY DEF InQueue
      <4>1. CASE i = 1
        BY <4>1, <2>1
      <4>2. CASE i # 1
        <5>1. i - 1 \in 1..Len(queue') /\ queue'[i - 1] = queue[i]
          BY <4>2, <2>1
        <5>2. QED
          BY <5>1 DEF InQueue
      <4>3. QED
        BY <4>1, <4>2
    <3>2. \A d \in Clients : ~(job = d /\ worker \in {"generate", "finish"})
      BY <1>2
    <3>3. worker' = "generate"
      BY <1>2
    <3>4. QED
      BY <3>1, <3>2, <3>3, <1>2 DEF Waiters
  <2>5. Locks' /\ Answered'
    BY <1>2, ClientsAssumption DEF Locks, Answered
  <2>6. Stopping'
    BY <1>2 DEF Stopping
  <2>7. QED
    BY <2>2, <2>3, <2>4, <2>5, <2>6
<1>3. QED
  BY <1>1, <1>2

LEMMA GenerateJob_Structure ==
  ASSUME Structure, GenerateJob
  PROVE  Structure'
BY ClientsAssumption
   DEF Structure, TypeOK, JobsHeld, Waiters, Locks, Answered, Stopping,
       InQueue, GenerateJob, MainPc, ClientPc, WorkerPc, Answers

LEMMA FinishJob_Structure ==
  ASSUME Structure, FinishJob
  PROVE  Structure'
BY ClientsAssumption
   DEF Structure, TypeOK, JobsHeld, Waiters, Locks, Answered, Stopping,
       InQueue, FinishJob, MainPc, ClientPc, WorkerPc, Answers

LEMMA UnlockJob_Structure ==
  ASSUME Structure, UnlockJob
  PROVE  Structure'
BY ClientsAssumption
   DEF Structure, TypeOK, JobsHeld, Waiters, Locks, Answered, Stopping,
       InQueue, UnlockJob, MainPc, ClientPc, WorkerPc, Answers

LEMMA SpuriousWakeup_Structure ==
  ASSUME Structure, SpuriousWakeup
  PROVE  Structure'
BY ClientsAssumption
   DEF Structure, TypeOK, JobsHeld, Waiters, Locks, Answered, Stopping,
       InQueue, SpuriousWakeup, MainPc, ClientPc, WorkerPc, Answers

-----------------------------------------------------------------------------
(* server.clients counts the threads. *)

\* Every step but the creation of a thread and client_done() leaves the set of
\* running client threads alone.
LEMMA SameThreads ==
  ASSUME Structure, process = "running",
         \/ stop_signal_handler \/ AcceptStopped \/ SpawnFails \/ SetStopping
         \/ JoinWorker \/ WaitClients \/ ShutdownStep \/ Worker
         \/ SpuriousWakeup
         \/ \E c \in Clients : Accept(c) \/ Connect(c)
         \/ \E c \in Clients : ReadRequest(c) \/ ParseRequest(c)
              \/ Enqueue(c) \/ Refuse(c) \/ CheckDone(c) \/ CloseSocket(c)
  PROVE  Threads' = Threads
<1>1. CASE \E c \in Clients : Accept(c) \/ Connect(c)
  BY <1>1 DEF Structure, TypeOK, Threads, Running, JobScope, Accept, Connect
<1>2. CASE \E c \in Clients : ReadRequest(c) \/ ParseRequest(c) \/ Enqueue(c)
             \/ Refuse(c) \/ CheckDone(c) \/ CloseSocket(c)
  BY <1>2 DEF Structure, TypeOK, Threads, Running, JobScope, ReadRequest,
              ParseRequest, Enqueue, Refuse, CheckDone, CloseSocket
<1>3. CASE Worker
  BY <1>3 DEF Structure, TypeOK, JobsHeld, Threads, Running, JobScope, Worker,
              Dequeue, GenerateJob, FinishJob, UnlockJob
<1>4. CASE AcceptStopped \/ SpawnFails \/ SpuriousWakeup
  BY <1>4 DEF Structure, TypeOK, Stopping, Threads, Running, JobScope,
              AcceptStopped, SpawnFails, SpuriousWakeup
<1>5. CASE stop_signal_handler \/ SetStopping \/ JoinWorker \/ WaitClients
             \/ ShutdownStep
  BY <1>5 DEF Threads, stop_signal_handler, SetStopping, JoinWorker,
              WaitClients, ShutdownStep
<1>6. QED
  BY <1>1, <1>2, <1>3, <1>4, <1>5

LEMMA ClientCountStep ==
  ASSUME IInv, Live
  PROVE  ClientCount'
<1> USE DEF IInv, Structure
<1>1. CASE Spawn
  <2>1. /\ accepted \in Clients /\ accepted' = None /\ clients' = clients
        /\ client[accepted] = "backlog" /\ client' = [client EXCEPT ![accepted] = "read"]
    BY <1>1 DEF Spawn, Stopping, TypeOK
  <2>2. accepted \notin Threads /\ Threads' = Threads \cup {accepted}
    BY <2>1 DEF TypeOK, Threads, Running, JobScope
  <2>3. Cardinality(Threads') = Cardinality(Threads) + 1
    BY <2>1, <2>2, ThreadStarts
  <2>4. QED
    BY <2>1, <2>3, ThreadsFinite, ClientsAssumption DEF ClientCount
<1>2. ASSUME NEW c \in Clients, ClientDone(c)
      PROVE  ClientCount'
  <2>1. c \in Threads /\ Threads' = Threads \ {c} /\ accepted' = accepted
    BY <1>2 DEF ClientDone, TypeOK, Threads, Running, JobScope
  <2>2. Cardinality(Threads') = Cardinality(Threads) - 1
    BY <2>1, ThreadEnds
  <2>3. Cardinality(Threads) \in Nat /\ Cardinality(Threads) > 0
    BY <2>1, ThreadsFinite
  <2>4. clients > 0 /\ clients' = clients - 1
    BY <1>2, <2>3 DEF ClientCount, ClientDone
  <2>5. QED
    BY <2>1, <2>2, <2>3, <2>4 DEF ClientCount
<1>3. ASSUME NEW c \in Clients, Accept(c)
      PROVE  ClientCount'
  <2>1. Threads' = Threads
    BY <1>3, SameThreads DEF Live
  <2>2. accepted = None /\ accepted' # None /\ clients' = clients + 1
    BY <1>3, ClientsAssumption DEF Accept, Stopping
  <2>3. QED
    BY <2>1, <2>2, ThreadsFinite DEF ClientCount
<1>4. CASE SpawnFails
  <2>1. Threads' = Threads
    BY <1>4, SameThreads DEF Live
  <2>2. accepted # None /\ accepted' = None /\ clients' = clients - 1
    BY <1>4 DEF SpawnFails, Stopping
  <2>3. QED
    BY <2>1, <2>2, ThreadsFinite DEF ClientCount
<1>5. CASE \/ stop_signal_handler \/ AcceptStopped \/ SetStopping \/ JoinWorker
           \/ WaitClients \/ ShutdownStep \/ Worker \/ SpuriousWakeup
           \/ \E c \in Clients : Connect(c) \/ ReadRequest(c) \/ ParseRequest(c)
                \/ Enqueue(c) \/ Refuse(c) \/ CheckDone(c) \/ CloseSocket(c)
  <2>1. Threads' = Threads
    BY <1>5, SameThreads DEF Live
  <2>2. accepted' = accepted /\ clients' = clients
    BY <1>5 DEF stop_signal_handler, AcceptStopped, SetStopping, JoinWorker,
          WaitClients, ShutdownStep, Worker, Dequeue, GenerateJob, FinishJob,
          UnlockJob, SpuriousWakeup, Connect, ReadRequest, ParseRequest,
          Enqueue, Refuse, CheckDone, CloseSocket
  <2>3. QED
    BY <2>1, <2>2 DEF ClientCount
<1>6. QED
  BY <1>1, <1>2, <1>3, <1>4, <1>5 DEF Live, Main, Client

-----------------------------------------------------------------------------
(* The invariant. *)

LEMMA InitIInv == Init => IInv
<1> SUFFICES ASSUME Init PROVE IInv
  OBVIOUS
<1>1. Structure
  <2>1. TypeOK
    <3>1. queue \in Seq(Clients)
      BY DEF Init
    <3>2. /\ client \in [Clients -> ClientPc]
          /\ mu \in [Clients -> {"free", "client", "worker"}]
          /\ done \in [Clients -> BOOLEAN]
          /\ answer \in [Clients -> Answers]
      BY Zenon DEF Init, ClientPc, Answers
    <3>3. QED
      BY <3>1, <3>2 DEF Init, TypeOK, MainPc, WorkerPc
  <2>2. JobsHeld
    BY DEF Init, JobsHeld
  <2>3. Waiters /\ Locks /\ Answered
    BY ClientsAssumption DEF Init, Waiters, Locks, Answered
  <2>4. Stopping
    BY DEF Init, Stopping
  <2>5. QED
    BY <2>1, <2>2, <2>3, <2>4 DEF Structure
<1>2. Threads = {}
  BY DEF Init, Threads, Running, JobScope
<1>3. ClientCount
  BY <1>2, ThreadsFinite DEF Init, ClientCount
<1>4. QED
  BY <1>1, <1>3 DEF IInv

LEMMA LiveIInv == IInv /\ Live => IInv'
<1> SUFFICES ASSUME IInv, Live PROVE IInv'
  OBVIOUS
<1>1. ClientCount'
  BY ClientCountStep
<1>2. Structure /\ ClientCount
  BY DEF IInv
<1>3. CASE Main
  BY <1>2, <1>3, Accept_Structure, AcceptStopped_Structure, Spawn_Structure,
     SpawnFails_Structure, SetStopping_Structure, JoinWorker_Structure,
     WaitClients_Structure, ShutdownStep_Structure, <1>1 DEF Main, IInv
<1>4. CASE Worker
  BY <1>2, <1>4, Dequeue_Structure, GenerateJob_Structure,
     FinishJob_Structure, UnlockJob_Structure, <1>1 DEF Worker, IInv
<1>5. CASE \E c \in Clients : Client(c)
  BY <1>2, <1>5, ReadRequest_Structure, ParseRequest_Structure,
     Enqueue_Structure, Refuse_Structure, CheckDone_Structure,
     CloseSocket_Structure, ClientDone_Structure, <1>1 DEF Client, IInv
<1>6. CASE stop_signal_handler \/ SpuriousWakeup \/ \E c \in Clients : Connect(c)
  BY <1>2, <1>6, stop_signal_handler_Structure, SpuriousWakeup_Structure,
     Connect_Structure, <1>1 DEF IInv
<1>7. QED
  BY <1>3, <1>4, <1>5, <1>6 DEF Live

LEMMA StutterIInv == IInv /\ UNCHANGED vars => IInv'
<1> SUFFICES ASSUME IInv, UNCHANGED vars PROVE IInv'
  OBVIOUS
<1>1. Structure'
  BY DEF IInv, vars, Structure, TypeOK, JobsHeld, Waiters, Locks, Answered,
         Stopping, InQueue
<1>2. Threads' = Threads
  BY DEF vars, Threads
<1>3. ClientCount'
  BY <1>2 DEF IInv, vars, ClientCount
<1>4. QED
  BY <1>1, <1>3 DEF IInv

\* The invariant holds in every reachable state, for any finite set of
\* connections.
THEOREM IInvAlways == Spec => []IInv
<1>1. Init => IInv
  BY InitIInv
<1>2. IInv /\ [Next]_vars => IInv'
  BY LiveIInv, StutterIInv DEF Next, Ended
<1>3. QED
  BY <1>1, <1>2, PTL DEF Spec

\* Type correctness of the server's shared state.
THEOREM TypeCorrect == Spec => []TypeOK
<1>1. IInv => TypeOK
  BY DEF IInv, Structure
<1>2. QED
  BY <1>1, IInvAlways, PTL

\* No job on the stack of a client thread is used after that thread has
\* destroyed it ("Jobs are stack-owned by the client thread").
THEOREM JobsNeverDangle == Spec => []NoDanglingJob
<1>1. IInv => NoDanglingJob
  <2> SUFFICES ASSUME IInv PROVE NoDanglingJob
    OBVIOUS
  <2>1. \A i \in 1..Len(queue) : JobExists(queue[i])
    BY DEF IInv, Structure, JobsHeld, JobExists, JobScope
  <2>2. job # None => worker \in {"generate", "finish", "unlock"}
    BY DEF IInv, Structure, JobsHeld, TypeOK, WorkerPc
  <2>3. job # None => JobExists(job)
    BY <2>2 DEF IInv, Structure, JobsHeld, JobExists, JobScope
  <2>4. QED
    BY <2>1, <2>3 DEF NoDanglingJob
<1>2. QED
  BY <1>1, IInvAlways, PTL

\* The worker does not leave its loop while a client waits for it: enqueue()
\* refuses once dequeue() may return NULL.
THEOREM WorkerAbandonsNobody == Spec => []NobodyAbandoned
<1>1. IInv => NobodyAbandoned
  <2> SUFFICES ASSUME IInv, worker = "stopped", NEW c \in Clients,
                      client[c] \in {"check", "wait"}, ~done[c]
               PROVE  FALSE
    BY DEF NobodyAbandoned
  <2>1. queue = <<>>
    BY DEF IInv, Structure, Stopping
  <2>2. ~InQueue(c)
    BY <2>1 DEF InQueue
  <2>3. QED
    BY <2>2 DEF IInv, Structure, Waiters
<1>2. QED
  BY <1>1, IInvAlways, PTL

\* No thread sleeps on a condition that already holds.
THEOREM WakeupsNotLost == Spec => []NoLostWakeup
<1>1. IInv => NoLostWakeup
  BY DEF IInv, Structure, Stopping, Waiters, NoLostWakeup
<1>2. QED
  BY <1>1, IInvAlways, PTL

\* Session, engine, tool memory and mutexes are released after every other
\* thread has ended.
THEOREM ReleasedLast == Spec => []ResourcesReleasedLast
<1>1. IInv => ResourcesReleasedLast
  <2> SUFFICES ASSUME IInv, main \in {"persist", "close", "return"}
               PROVE  worker = "stopped" /\ Threads = {}
    BY DEF ResourcesReleasedLast
  <2>1. worker = "stopped" /\ clients = 0 /\ accepted = None
    BY DEF IInv, Structure, Stopping
  <2>2. QED
    BY <2>1, ThreadsFinite DEF IInv, ClientCount
<1>2. QED
  BY <1>1, IInvAlways, PTL

\* server.clients is exact in every state.
THEOREM ClientCountExact == Spec => []ClientCount
<1>1. IInv => ClientCount
  BY DEF IInv
<1>2. QED
  BY <1>1, IInvAlways, PTL

\* client_main() closes no socket that was not answered, and a job that is
\* queued or in generate_job() has not been answered before.
THEOREM ClosedAnswered == Spec => []AnsweredBeforeClose
<1>1. IInv => AnsweredBeforeClose
  <2> SUFFICES ASSUME IInv, NEW c \in Clients
               PROVE  /\ client[c] \in {"close", "leave"} => answer[c] # "none"
                      /\ InQueue(c) => answer[c] = "none"
                      /\ job = c /\ worker = "generate" => answer[c] = "none"
    BY DEF AnsweredBeforeClose
  <2>1. client[c] \in {"close", "leave"} => answer[c] # "none"
    BY DEF IInv, Structure, Answered
  <2>2. InQueue(c) => answer[c] = "none"
    BY DEF IInv, Structure, JobsHeld, InQueue
  <2>3. QED
    BY <2>1, <2>2 DEF IInv, Structure, JobsHeld
<1>2. QED
  BY <1>1, IInvAlways, PTL

\* No thread writes a second response over the first: read_http_request() and
\* parse errors answer only before the job is queued, enqueue()'s refusal only a
\* job that never was, and generate_job() a job once.
THEOREM AnsweredOnce == Spec => AnswerWrittenOnce
<1>1. IInv /\ [Next]_vars => [\A c \in Clients : answer[c] # "none" => answer'[c] = answer[c]]_vars
  <2> SUFFICES ASSUME IInv, Next, NEW c \in Clients, answer[c] # "none"
               PROVE  answer'[c] = answer[c]
    BY DEF vars
  <2>1. answer \in [Clients -> Answers] /\ Answered /\ JobsHeld
    BY DEF IInv, Structure, TypeOK
  <2>2. CASE Worker
    <3>1. worker = "generate" => answer[job] = "none"
      BY <2>1 DEF JobsHeld
    <3>2. QED
      BY <2>1, <2>2, <3>1 DEF Worker, Dequeue, GenerateJob, FinishJob, UnlockJob
  <2>3. ASSUME NEW d \in Clients, Client(d) PROVE answer'[c] = answer[c]
    <3>1. client[d] \in {"read", "parse", "refuse"} => answer[d] = "none"
      BY <2>1 DEF Answered
    <3>2. QED
      BY <2>1, <2>3, <3>1 DEF Client, ReadRequest, ParseRequest, Enqueue, Refuse, CheckDone,
         CloseSocket, ClientDone
  <2>4. CASE UNCHANGED answer
    BY <2>4
  <2>5. Next => UNCHANGED answer \/ Worker \/ \E d \in Clients : Client(d)
    BY DEF Next, Live, Ended, vars, stop_signal_handler, Main, AcceptStopped, Spawn, SpawnFails,
       SetStopping, JoinWorker, WaitClients, ShutdownStep, Accept, SpuriousWakeup, Connect
  <2>6. QED
    BY <2>2, <2>3, <2>4, <2>5
<1>2. QED
  BY <1>1, IInvAlways, PTL DEF Spec, AnswerWrittenOnce

-----------------------------------------------------------------------------
(* The implementation of RequestService. *)

\* The mapped state of RequestService, as in the substitution of Service.
serving == IF worker = "generate" THEN job ELSE None
outcome == [c \in Clients |-> CASE answer[c] = "generated" -> "served"
                                [] answer[c] = "refused"   -> "refused"
                                [] OTHER                   -> "none"]
mode == CASE process = "killed" -> "killed"
          [] process = "exited" -> "over"
          [] OTHER -> IF stopping THEN "closing" ELSE "open"

LEMMA OutcomeSame ==
  ASSUME answer' = answer
  PROVE  outcome' = outcome
BY DEF outcome

\* An answer of the client thread itself is no outcome of the service.
LEMMA OutcomeLocal ==
  ASSUME Structure, NEW c \in Clients, answer[c] = "none",
         answer' = [answer EXCEPT ![c] = "local"]
  PROVE  outcome' = outcome
BY DEF outcome, Structure, TypeOK

LEMMA InitRefines == Init => Service!Init
BY DEF Init, Service!Init

LEMMA SubmitRefines ==
  ASSUME Structure, process = "running", NEW c \in Clients, Enqueue(c)
  PROVE  Service!Submit(c) \/ UNCHANGED Service!vars
<1> USE DEF Structure, Enqueue
<1>1. outcome' = outcome
  BY OutcomeSame
<1>2. worker' = "generate" <=> worker = "generate"
  OBVIOUS
<1>3. serving' = serving /\ mode' = mode
  BY <1>2 DEF serving, mode
<1>4. CASE stopping
  BY <1>4, <1>1, <1>3 DEF Service!vars, serving, outcome, mode
<1>5. CASE ~stopping
  <2>1. mode = "open" /\ outcome[c] = "none"
    BY <1>5 DEF mode, outcome, Answered
  <2>2. c # serving
    BY ClientsAssumption DEF serving, JobsHeld
  <2>3. \A k \in 1..Len(queue) : queue[k] # c
    BY DEF JobsHeld
  <2>4. queue' = Append(queue, c)
    BY <1>5
  <2>5. QED
    BY <1>1, <1>3, <2>1, <2>2, <2>3, <2>4
       DEF Service!Submit, serving, outcome, mode
<1>6. QED
  BY <1>4, <1>5

LEMMA RefuseRefines ==
  ASSUME Structure, process = "running", NEW c \in Clients, Refuse(c)
  PROVE  Service!Refuse(c)
<1> USE DEF Structure, Refuse
<1>1. mode = "closing" /\ outcome[c] = "none"
  BY DEF mode, outcome, Answered, Stopping
<1>2. c # serving
  BY ClientsAssumption DEF serving, JobsHeld
<1>3. \A k \in 1..Len(queue) : queue[k] # c
  BY DEF JobsHeld
<1>4. outcome' = [outcome EXCEPT ![c] = "refused"]
  BY DEF outcome, TypeOK
<1>5. serving' = serving /\ mode' = mode /\ queue' = queue
  BY DEF serving, mode
<1>6. QED
  BY <1>1, <1>2, <1>3, <1>4, <1>5 DEF Service!Refuse, serving, outcome, mode

LEMMA WorkerRefines ==
  ASSUME Structure, process = "running", Worker
  PROVE  Service!Start \/ Service!Serve \/ UNCHANGED Service!vars
<1> USE DEF Structure
<1>1. mode' = mode /\ mode \in {"open", "closing"}
  BY DEF Worker, Dequeue, GenerateJob, FinishJob, UnlockJob, mode
<1>2. CASE Dequeue
  <2>1. outcome' = outcome /\ serving = None
    BY <1>2, OutcomeSame DEF Dequeue, serving
  <2>2. CASE queue = <<>>
    BY <1>1, <1>2, <2>1, <2>2 DEF Dequeue, Service!vars, serving, outcome, mode
  <2>3. CASE queue # <<>>
    BY <1>1, <1>2, <2>1, <2>3 DEF Dequeue, Service!Start, serving, outcome, mode
  <2>4. QED
    BY <2>2, <2>3
<1>3. CASE GenerateJob
  <2>1. serving = job /\ serving' = None /\ serving # None
    BY <1>3 DEF GenerateJob, serving, JobsHeld
  <2>2. job \in Clients
    BY <2>1 DEF TypeOK
  <2>3. outcome' = [outcome EXCEPT ![serving] = "served"]
    BY <1>3, <2>1, <2>2 DEF GenerateJob, outcome, TypeOK
  <2>4. QED
    BY <1>1, <1>3, <2>1, <2>3
       DEF GenerateJob, Service!Serve, serving, outcome, mode
<1>4. CASE FinishJob \/ UnlockJob
  <2>1. outcome' = outcome /\ serving' = serving /\ queue' = queue
    BY <1>4, OutcomeSame DEF FinishJob, UnlockJob, serving
  <2>2. QED
    BY <1>1, <2>1 DEF Service!vars, serving, outcome, mode
<1>5. QED
  BY <1>2, <1>3, <1>4 DEF Worker

LEMMA MainRefines ==
  ASSUME Structure, process = "running", Main
  PROVE  Service!Close \/ Service!Over \/ UNCHANGED Service!vars
<1> USE DEF Structure
<1>1. outcome' = outcome /\ queue' = queue
  BY OutcomeSame DEF Main, Accept, AcceptStopped, Spawn, SpawnFails,
       SetStopping, JoinWorker, WaitClients, ShutdownStep
<1>2. serving' = serving
  BY DEF Main, Accept, AcceptStopped, Spawn, SpawnFails, SetStopping,
         JoinWorker, WaitClients, ShutdownStep, serving
<1>3. CASE SetStopping
  <2>1. mode = "open" /\ mode' = "closing"
    BY <1>3 DEF SetStopping, Stopping, mode
  <2>2. QED
    BY <1>1, <1>2, <2>1 DEF Service!Close, serving, outcome, mode
<1>4. CASE ShutdownStep /\ main = "close"
  <2>1. mode = "closing" /\ mode' = "over"
    BY <1>4 DEF ShutdownStep, Stopping, mode
  <2>2. queue = <<>> /\ serving = None
    BY <1>4 DEF Stopping, serving
  <2>3. QED
    BY <1>1, <1>2, <2>1, <2>2 DEF Service!Over, serving, outcome, mode
<1>5. CASE ~SetStopping /\ ~(ShutdownStep /\ main = "close")
  <2>1. mode' = mode
    BY <1>5 DEF Main, Accept, AcceptStopped, Spawn, SpawnFails, JoinWorker,
                WaitClients, ShutdownStep, mode
  <2>2. QED
    BY <1>1, <1>2, <2>1 DEF Service!vars, serving, outcome, mode
<1>6. QED
  BY <1>3, <1>4, <1>5

LEMMA OtherRefines ==
  ASSUME Structure, process = "running",
         \/ SpuriousWakeup
         \/ \E c \in Clients : \/ Connect(c) \/ ReadRequest(c)
                               \/ ParseRequest(c) \/ CheckDone(c)
                               \/ CloseSocket(c) \/ ClientDone(c)
  PROVE  UNCHANGED Service!vars
<1> USE DEF Structure
<1>1. mode' = mode /\ queue' = queue /\ serving' = serving
  BY DEF SpuriousWakeup, Connect, ReadRequest, ParseRequest, CheckDone,
         CloseSocket, ClientDone, mode, serving
<1>2. CASE \E c \in Clients : ReadRequest(c) \/ ParseRequest(c)
  <2>1. PICK c \in Clients : ReadRequest(c) \/ ParseRequest(c)
    BY <1>2
  <2>2. answer' = answer \/ answer' = [answer EXCEPT ![c] = "local"]
    BY <2>1 DEF ReadRequest, ParseRequest
  <2>3. answer[c] = "none"
    BY <2>1 DEF ReadRequest, ParseRequest, Answered
  <2>4. outcome' = outcome
    BY <2>2, <2>3, OutcomeSame, OutcomeLocal
  <2>5. QED
    BY <1>1, <2>4 DEF Service!vars, serving, outcome, mode
<1>3. CASE \/ SpuriousWakeup
           \/ \E c \in Clients : Connect(c) \/ CheckDone(c) \/ CloseSocket(c)
                \/ ClientDone(c)
  <2>1. answer' = answer
    BY <1>3 DEF SpuriousWakeup, Connect, CheckDone, CloseSocket, ClientDone
  <2>2. outcome' = outcome
    BY <2>1, OutcomeSame
  <2>3. QED
    BY <1>1, <2>2 DEF Service!vars, serving, outcome, mode
<1>4. QED
  BY <1>2, <1>3

LEMMA SignalRefines ==
  ASSUME process = "running", stop_signal_handler
  PROVE  Service!Kill \/ UNCHANGED Service!vars
<1> USE DEF stop_signal_handler, StopSignal
<1>1. outcome' = outcome /\ serving' = serving /\ queue' = queue
  BY OutcomeSame DEF serving
<1>2. CASE stopRequested
  BY <1>1, <1>2 DEF Service!Kill, serving, outcome, mode
<1>3. CASE ~stopRequested
  BY <1>1, <1>3 DEF Service!vars, serving, outcome, mode
<1>4. QED
  BY <1>2, <1>3

\* The threads implement RequestService: requests are served one at a time in
\* the order of enqueue(), none is refused before the stop, and an orderly
\* exit leaves no request unanswered.
THEOREM ServiceImplemented == Spec => ImplementsService
<1>1. Init => Service!Init
  BY InitRefines
<1>2. IInv /\ [Next]_vars => [Service!Next]_(Service!vars)
  <2> SUFFICES ASSUME IInv, [Next]_vars
               PROVE  Service!Next \/ UNCHANGED Service!vars
    OBVIOUS
  <2>1. CASE UNCHANGED vars
    BY <2>1 DEF vars, Service!vars
  <2>2. CASE Live
    <3>1. Structure /\ process = "running"
      BY <2>2 DEF IInv, Live
    <3>2. CASE stop_signal_handler
      BY <3>1, <3>2, SignalRefines DEF Service!Next
    <3>3. CASE Main
      BY <3>1, <3>3, MainRefines DEF Service!Next
    <3>4. CASE Worker
      BY <3>1, <3>4, WorkerRefines DEF Service!Next
    <3>5. ASSUME NEW c \in Clients, Enqueue(c)
          PROVE  Service!Next \/ UNCHANGED Service!vars
      BY <3>1, <3>5, SubmitRefines DEF Service!Next
    <3>6. ASSUME NEW c \in Clients, Refuse(c)
          PROVE  Service!Next \/ UNCHANGED Service!vars
      BY <3>1, <3>6, RefuseRefines DEF Service!Next
    <3>7. QED
      BY <2>2, <3>1, <3>2, <3>3, <3>4, <3>5, <3>6, OtherRefines
         DEF Live, Client
  <2>3. QED
    BY <2>1, <2>2 DEF Next, Ended
<1>3. QED
  BY <1>1, <1>2, IInvAlways, PTL DEF Spec, ImplementsService, Service!Spec
=============================================================================
