---------------------------- MODULE ServerQueue ----------------------------
(***************************************************************************)
(* The threads of ds4_server.c: the accept loop of main(), one detached    *)
(* client_main() per connection, the single inference worker, and the two  *)
(* stages of shutdown.                                                     *)
(*                                                                         *)
(* A critical section of server.mu is one action: it is short and nothing  *)
(* blocks inside it.  job.mu is modelled as a lock, because the client     *)
(* holds it across enqueue() until it sleeps.  A thread in                 *)
(* pthread_cond_wait() is in a state of its own ("sleep", "wait",          *)
(* "waiting"); a signal moves it back to re-testing its loop condition,    *)
(* and POSIX lets it wake up spuriously.                                   *)
(*                                                                         *)
(* A struct job lives on the stack of its client thread, so the job of     *)
(* client c exists exactly while client_main is between creating and       *)
(* destroying it (see JobExists).                                          *)
(*                                                                         *)
(* A "faulty variant" is no part of the specification: it is the action    *)
(* below it with one plausible bug, kept to show that a property which     *)
(* holds of the code would notice the bug.                                 *)
(***************************************************************************)
EXTENDS Naturals, Sequences, FiniteSets

CONSTANTS Clients,   \* connections that may arrive, one request each
          None       \* no client

ASSUME ClientsAssumption == IsFiniteSet(Clients) /\ None \notin Clients

VARIABLES
  main,          \* program counter of main() after the listener is up
  accepted,      \* the connection main() is spawning a thread for, or None
  stopRequested, \* g_stop_requested
  stopping,      \* server.stopping
  clients,       \* server.clients
  client,        \* [Clients -> program counter of the connection's thread]
  queue,         \* server.head .. server.tail
  worker,        \* program counter of worker_main()
  job,           \* the job the worker took from the queue, or None
  mu,            \* [Clients -> owner of job.mu: "free", "client", "worker"]
  done,          \* [Clients -> job.done]
  answer,        \* [Clients -> the response written to the socket]
  process        \* "running", "exited" (return 0 of main), "killed" (_exit)

vars == <<main, accepted, stopRequested, stopping, clients, client, queue,
          worker, job, mu, done, answer, process>>

MainPc   == {"accept", "spawn", "stop", "join", "waitClients", "waiting",
             "persist", "close", "return"}
ClientPc == {"none", "backlog", "read", "parse", "enqueue", "check", "wait",
             "refuse", "close", "leave", "gone"}
WorkerPc == {"dequeue", "sleep", "generate", "finish", "unlock", "stopped"}
Answers  == {"none", "local", "generated", "refused"}

\* Program counters of client_main() at which its struct job is alive.
JobScope == {"enqueue", "check", "wait", "refuse"}
\* Program counters at which the client thread runs.
Running  == {"read", "parse", "close", "leave"} \cup JobScope

JobExists(c) == client[c] \in JobScope
InQueue(c)   == \E i \in 1..Len(queue) : queue[i] = c
Threads      == {c \in Clients : client[c] \in Running}

Init == /\ main = "accept"
        /\ accepted = None
        /\ stopRequested = FALSE
        /\ stopping = FALSE
        /\ clients = 0
        /\ client = [c \in Clients |-> "none"]
        /\ queue = <<>>
        /\ worker = "dequeue"
        /\ job = None
        /\ mu = [c \in Clients |-> "free"]
        /\ done = [c \in Clients |-> FALSE]
        /\ answer = [c \in Clients |-> "none"]
        /\ process = "running"

-----------------------------------------------------------------------------
(* The environment: connections and signals. *)

Connect(c) ==
  /\ client[c] = "none"
  /\ main \in {"accept", "spawn"} /\ ~stopRequested    \* the listener is open
  /\ client' = [client EXCEPT ![c] = "backlog"]
  /\ UNCHANGED <<main, accepted, stopRequested, stopping, clients, queue,
                 worker, job, mu, done, answer, process>>

\* SIGINT or SIGTERM.  The first one asks for an orderly stop; a second one
\* ends the process on the spot.
StopSignal ==
  \/ /\ ~stopRequested
     /\ stopRequested' = TRUE
     /\ UNCHANGED process
  \/ /\ stopRequested
     /\ process' = "killed"
     /\ UNCHANGED stopRequested

stop_signal_handler ==
  /\ StopSignal
  /\ UNCHANGED <<main, accepted, stopping, clients, client, queue, worker,
                 job, mu, done, answer>>

-----------------------------------------------------------------------------
(* main() *)

\* Faulty variant: the client is not counted.
AcceptUncounted(c) ==
  /\ main = "accept" /\ ~stopRequested
  /\ client[c] = "backlog"
  /\ main' = "spawn"
  /\ accepted' = c
  /\ UNCHANGED <<stopRequested, stopping, clients, client, queue, worker, job,
                 mu, done, answer, process>>

\* accept() returned a connection and no stop was requested: count the client
\* before its thread exists.
Accept(c) ==
  /\ main = "accept" /\ ~stopRequested
  /\ client[c] = "backlog"
  /\ main' = "spawn"
  /\ accepted' = c
  /\ clients' = clients + 1
  /\ UNCHANGED <<stopRequested, stopping, client, queue, worker, job, mu,
                 done, answer, process>>

\* The loop ends: accept() failed on the closed listener, or it returned a
\* connection that is closed unread because the stop was seen after it.
AcceptStopped ==
  /\ main = "accept" /\ stopRequested
  /\ main' = "stop"
  /\ \/ UNCHANGED client
     \/ \E c \in Clients : /\ client[c] = "backlog"
                           /\ client' = [client EXCEPT ![c] = "gone"]
  /\ UNCHANGED <<accepted, stopRequested, stopping, clients, queue, worker,
                 job, mu, done, answer, process>>

Spawn ==
  /\ main = "spawn"
  /\ client' = [client EXCEPT ![accepted] = "read"]
  /\ main' = "accept"
  /\ accepted' = None
  /\ UNCHANGED <<stopRequested, stopping, clients, queue, worker, job, mu,
                 done, answer, process>>

\* Faulty variant: the client stays counted.
SpawnFailsCounted ==
  /\ main = "spawn"
  /\ client' = [client EXCEPT ![accepted] = "gone"]
  /\ main' = "accept"
  /\ accepted' = None
  /\ UNCHANGED <<stopRequested, stopping, clients, queue, worker, job, mu, done,
                 answer, process>>

\* pthread_create() failed: uncount the client and close its socket.
SpawnFails ==
  /\ main = "spawn"
  /\ client' = [client EXCEPT ![accepted] = "gone"]
  /\ clients' = clients - 1
  /\ main' = "accept"
  /\ accepted' = None
  /\ UNCHANGED <<stopRequested, stopping, queue, worker, job, mu, done,
                 answer, process>>

\* Faulty variant: no broadcast.
SetStoppingSilently ==
  /\ main = "stop"
  /\ stopping' = TRUE
  /\ main' = "join"
  /\ UNCHANGED <<accepted, stopRequested, clients, client, queue, worker, job,
                 mu, done, answer, process>>

\* s.stopping = true and a broadcast that wakes a sleeping worker.
SetStopping ==
  /\ main = "stop"
  /\ stopping' = TRUE
  /\ worker' = IF worker = "sleep" THEN "dequeue" ELSE worker
  /\ main' = "join"
  /\ UNCHANGED <<accepted, stopRequested, clients, client, queue, job, mu,
                 done, answer, process>>

JoinWorker ==
  /\ main = "join" /\ worker = "stopped"
  /\ main' = "waitClients"
  /\ UNCHANGED <<accepted, stopRequested, stopping, clients, client, queue,
                 worker, job, mu, done, answer, process>>

\* Faulty variant: main() does not wait for the client threads.
WaitClientsNot ==
  /\ main = "waitClients"
  /\ main' = "persist"
  /\ UNCHANGED <<accepted, stopRequested, stopping, clients, client, queue,
                 worker, job, mu, done, answer, process>>

\* while (s.clients > 0) pthread_cond_wait(&s.clients_cv, &s.mu)
WaitClients ==
  /\ main = "waitClients"
  /\ main' = IF clients > 0 THEN "waiting" ELSE "persist"
  /\ UNCHANGED <<accepted, stopRequested, stopping, clients, client, queue,
                 worker, job, mu, done, answer, process>>

\* kv_cache_store_current("shutdown") when the session is worth keeping, then
\* server_close_resources(), then return 0.
ShutdownStep ==
  /\ \/ main = "persist" /\ main' = "close"  /\ UNCHANGED process
     \/ main = "close"   /\ main' = "return" /\ process' = "exited"
  /\ UNCHANGED <<accepted, stopRequested, stopping, clients, client, queue,
                 worker, job, mu, done, answer>>

Main == AcceptStopped \/ Spawn \/ SpawnFails \/ SetStopping \/ JoinWorker
          \/ WaitClients \/ ShutdownStep \/ \E c \in Clients : Accept(c)

-----------------------------------------------------------------------------
(* client_main() *)

\* read_http_request(): an unreadable request and the model list are answered
\* here, an unknown endpoint as well.
ReadRequest(c) ==
  /\ client[c] = "read"
  /\ \/ /\ client' = [client EXCEPT ![c] = "parse"]
        /\ UNCHANGED answer
     \/ /\ client' = [client EXCEPT ![c] = "close"]
        /\ answer' = [answer EXCEPT ![c] = "local"]
  /\ UNCHANGED <<main, accepted, stopRequested, stopping, clients, queue,
                 worker, job, mu, done, process>>

\* Faulty variant: after the 400 the handler goes on to create the job.
ParseRequestFallsThrough(c) ==
  /\ client[c] = "parse"
  /\ client' = [client EXCEPT ![c] = "enqueue"]
  /\ mu' = [mu EXCEPT ![c] = "client"]
  /\ answer' \in {answer, [answer EXCEPT ![c] = "local"]}
  /\ UNCHANGED <<main, accepted, stopRequested, stopping, clients, queue,
                 worker, job, done, process>>

\* parse_*_request() reads the engine and the tool memory.  On success the
\* job is created and its mutex taken.
ParseRequest(c) ==
  /\ client[c] = "parse"
  /\ \/ /\ client' = [client EXCEPT ![c] = "enqueue"]
        /\ mu' = [mu EXCEPT ![c] = "client"]
        /\ UNCHANGED answer
     \/ /\ client' = [client EXCEPT ![c] = "close"]
        /\ answer' = [answer EXCEPT ![c] = "local"]
        /\ UNCHANGED mu
  /\ UNCHANGED <<main, accepted, stopRequested, stopping, clients, queue,
                 worker, job, done, process>>

\* Faulty variants: enqueue() does not look at stopping, or does not signal.
EnqueueWhenStopping(c) ==
  /\ client[c] = "enqueue"
  /\ queue' = Append(queue, c)
  /\ worker' = IF worker = "sleep" THEN "dequeue" ELSE worker
  /\ client' = [client EXCEPT ![c] = "check"]
  /\ UNCHANGED <<main, accepted, stopRequested, stopping, clients, job, mu, done,
                 answer, process>>

EnqueueSilently(c) ==
  /\ client[c] = "enqueue"
  /\ \/ /\ stopping
        /\ client' = [client EXCEPT ![c] = "refuse"]
        /\ mu' = [mu EXCEPT ![c] = "free"]
        /\ UNCHANGED queue
     \/ /\ ~stopping
        /\ queue' = Append(queue, c)
        /\ client' = [client EXCEPT ![c] = "check"]
        /\ UNCHANGED mu
  /\ UNCHANGED <<main, accepted, stopRequested, stopping, clients, worker, job,
                 done, answer, process>>

\* enqueue(): refuse when stopping, otherwise append and signal the worker.
Enqueue(c) ==
  /\ client[c] = "enqueue"
  /\ \/ /\ stopping
        /\ client' = [client EXCEPT ![c] = "refuse"]
        /\ mu' = [mu EXCEPT ![c] = "free"]
        /\ UNCHANGED <<queue, worker>>
     \/ /\ ~stopping
        /\ queue' = Append(queue, c)
        /\ worker' = IF worker = "sleep" THEN "dequeue" ELSE worker
        /\ client' = [client EXCEPT ![c] = "check"]
        /\ UNCHANGED mu
  /\ UNCHANGED <<main, accepted, stopRequested, stopping, clients, job, done,
                 answer, process>>

\* 503, then the job is destroyed.
Refuse(c) ==
  /\ client[c] = "refuse"
  /\ answer' = [answer EXCEPT ![c] = "refused"]
  /\ client' = [client EXCEPT ![c] = "close"]
  /\ UNCHANGED <<main, accepted, stopRequested, stopping, clients, queue,
                 worker, job, mu, done, process>>

\* Faulty variant: "if" for "while", done is not tested again after a wakeup.
CheckDoneOnce(c) ==
  /\ client[c] = "check" /\ mu[c] \in {"client", "free"}
  /\ mu' = [mu EXCEPT ![c] = "free"]
  /\ client' = [client EXCEPT ![c] = IF done[c] \/ mu[c] = "free"
                                       THEN "close" ELSE "wait"]
  /\ UNCHANGED <<main, accepted, stopRequested, stopping, clients, queue,
                 worker, job, done, answer, process>>

\* while (!j.done) pthread_cond_wait(&j.cv, &j.mu); then unlock and destroy.
CheckDone(c) ==
  /\ client[c] = "check" /\ mu[c] \in {"client", "free"}
  /\ mu' = [mu EXCEPT ![c] = "free"]
  /\ client' = [client EXCEPT ![c] = IF done[c] THEN "close" ELSE "wait"]
  /\ UNCHANGED <<main, accepted, stopRequested, stopping, clients, queue,
                 worker, job, done, answer, process>>

\* close(fd), then client_done() as a step of its own.
CloseSocket(c) ==
  /\ client[c] = "close"
  /\ client' = [client EXCEPT ![c] = "leave"]
  /\ UNCHANGED <<main, accepted, stopRequested, stopping, clients, queue,
                 worker, job, mu, done, answer, process>>

\* client_done(): uncount and wake main().
ClientDone(c) ==
  /\ client[c] = "leave"
  /\ client' = [client EXCEPT ![c] = "gone"]
  /\ clients' = IF clients > 0 THEN clients - 1 ELSE clients
  /\ main' = IF main = "waiting" THEN "waitClients" ELSE main
  /\ UNCHANGED <<accepted, stopRequested, stopping, queue, worker, job, mu,
                 done, answer, process>>

Client(c) == \/ ReadRequest(c) \/ ParseRequest(c) \/ Enqueue(c) \/ Refuse(c)
             \/ CheckDone(c) \/ CloseSocket(c) \/ ClientDone(c)

-----------------------------------------------------------------------------
(* worker_main() *)

\* Faulty variant: the newest job is served first.
DequeueNewest ==
  /\ worker = "dequeue"
  /\ \/ /\ queue # <<>>
        /\ job' = queue[Len(queue)]
        /\ queue' = SubSeq(queue, 1, Len(queue) - 1)
        /\ worker' = "generate"
     \/ /\ queue = <<>>
        /\ worker' = IF stopping THEN "stopped" ELSE "sleep"
        /\ UNCHANGED <<job, queue>>
  /\ UNCHANGED <<main, accepted, stopRequested, stopping, clients, client, mu,
                 done, answer, process>>

\* dequeue(): sleep only when there is neither a job nor a stop; a stopping
\* server still hands out the jobs that are queued.
Dequeue ==
  /\ worker = "dequeue"
  /\ \/ /\ queue # <<>>
        /\ job' = Head(queue)
        /\ queue' = Tail(queue)
        /\ worker' = "generate"
     \/ /\ queue = <<>>
        /\ worker' = IF stopping THEN "stopped" ELSE "sleep"
        /\ UNCHANGED <<job, queue>>
  /\ UNCHANGED <<main, accepted, stopRequested, stopping, clients, client, mu,
                 done, answer, process>>

\* generate_job(): the response, an error included, is written to j->fd.
GenerateJob ==
  /\ worker = "generate"
  /\ answer' = [answer EXCEPT ![job] = "generated"]
  /\ worker' = "finish"
  /\ UNCHANGED <<main, accepted, stopRequested, stopping, clients, client,
                 queue, job, mu, done, process>>

\* Lock j->mu, set done, signal the client.
FinishJob ==
  /\ worker = "finish" /\ mu[job] = "free"
  /\ mu' = [mu EXCEPT ![job] = "worker"]
  /\ done' = [done EXCEPT ![job] = TRUE]
  /\ client' = [client EXCEPT ![job] = IF @ = "wait" THEN "check" ELSE @]
  /\ worker' = "unlock"
  /\ UNCHANGED <<main, accepted, stopRequested, stopping, clients, queue, job,
                 answer, process>>

\* Unlock j->mu: the last time the worker touches the job.
UnlockJob ==
  /\ worker = "unlock"
  /\ mu' = [mu EXCEPT ![job] = "free"]
  /\ job' = None
  /\ worker' = "dequeue"
  /\ UNCHANGED <<main, accepted, stopRequested, stopping, clients, client,
                 queue, done, answer, process>>

Worker == Dequeue \/ GenerateJob \/ FinishJob \/ UnlockJob

-----------------------------------------------------------------------------
\* pthread_cond_wait() may return without a signal.
SpuriousWakeup ==
  /\ \/ /\ worker = "sleep" /\ worker' = "dequeue"
        /\ UNCHANGED <<client, main>>
     \/ /\ main = "waiting" /\ main' = "waitClients"
        /\ UNCHANGED <<client, worker>>
     \/ /\ \E c \in Clients : /\ client[c] = "wait"
                              /\ client' = [client EXCEPT ![c] = "check"]
        /\ UNCHANGED <<main, worker>>
  /\ UNCHANGED <<accepted, stopRequested, stopping, clients, queue, job, mu,
                 done, answer, process>>

Live == /\ process = "running"
        /\ \/ stop_signal_handler \/ Main \/ Worker \/ SpuriousWakeup
           \/ \E c \in Clients : Connect(c) \/ Client(c)

\* Nothing happens in a process that has ended.
Ended == process # "running" /\ UNCHANGED vars

Next == Live \/ Ended

\* Threads are scheduled; nobody owes the server a connection or a signal, and
\* no wakeup but a signalled one is counted on.
Fairness == /\ WF_vars(process = "running" /\ Main)
            /\ WF_vars(process = "running" /\ Worker)
            /\ \A c \in Clients : WF_vars(process = "running" /\ Client(c))

Spec == Init /\ [][Next]_vars /\ Fairness
-----------------------------------------------------------------------------
(* Properties *)

\* The variables have their types.
TypeOK ==
  /\ main \in MainPc
  /\ accepted \in Clients \cup {None}
  /\ stopRequested \in BOOLEAN
  /\ stopping \in BOOLEAN
  /\ clients \in Nat
  /\ client \in [Clients -> ClientPc]
  /\ queue \in Seq(Clients)
  /\ worker \in WorkerPc
  /\ job \in Clients \cup {None}
  /\ mu \in [Clients -> {"free", "client", "worker"}]
  /\ done \in [Clients -> BOOLEAN]
  /\ answer \in [Clients -> Answers]
  /\ process \in {"running", "exited", "killed"}

\* "Jobs are stack-owned by the client thread": the queue and the worker never
\* refer to a job whose client thread has destroyed it.
NoDanglingJob ==
  /\ \A i \in 1..Len(queue) : JobExists(queue[i])
  /\ job # None => JobExists(job)

\* enqueue() refuses once the server is stopping, so when the worker has left
\* its loop no client is left waiting for it.
NobodyAbandoned ==
  worker = "stopped" =>
    \A c \in Clients : client[c] \in {"check", "wait"} => done[c]

\* A thread sleeps only while the condition it waits for is false and somebody
\* is left who will signal it: no wakeup of dequeue(), client_main() or main()
\* is lost.
NoLostWakeup ==
  /\ worker = "sleep" => queue = <<>> /\ ~stopping
  /\ \A c \in Clients : client[c] = "wait" => ~done[c] /\ (InQueue(c) \/ job = c)
  /\ main = "waiting" => clients > 0

\* server.clients counts the client threads, the one being created included:
\* main() can rely on zero to mean that no thread can touch the server.
ClientCount ==
  clients = Cardinality(Threads) + (IF accepted = None THEN 0 ELSE 1)

\* The shutdown checkpoint is saved, and the session, the engine, the tool
\* memory and the mutexes are released, by the only thread left.
ResourcesReleasedLast ==
  main \in {"persist", "close", "return"} => worker = "stopped" /\ Threads = {}

\* client_main() closes a socket only after a response was written to it, and
\* a request that the worker owns has not been answered by anybody else.
AnsweredBeforeClose ==
  \A c \in Clients :
    /\ client[c] \in {"close", "leave"} => answer[c] # "none"
    /\ (InQueue(c) \/ (job = c /\ worker = "generate")) => answer[c] = "none"

\* A response is written to a connection once: neither the worker nor the
\* client thread writes a second one over the first.
AnswerWrittenOnce ==
  [][\A c \in Clients : answer[c] # "none" => answer'[c] = answer[c]]_vars

\* Every connection whose thread runs is answered and released, unless the
\* process is killed.
ConnectionsReleased ==
  \A c \in Clients :
    (client[c] = "read") ~> (client[c] = "gone" \/ process = "killed")

\* After SIGINT or SIGTERM the process drains and ends.
StopEnds == stopRequested ~> (process # "running")

\* The request service this component implements (module RequestService).
Service ==
  INSTANCE RequestService WITH
    pending <- queue,
    serving <- IF worker = "generate" THEN job ELSE None,
    outcome <- [c \in Clients |-> CASE answer[c] = "generated" -> "served"
                                    [] answer[c] = "refused"   -> "refused"
                                    [] OTHER                   -> "none"],
    mode    <- CASE process = "killed" -> "killed"
                 [] process = "exited" -> "over"
                 [] OTHER -> IF stopping THEN "closing" ELSE "open"

\* The threads implement the service: requests are served one at a time in
\* the order of enqueue(), refused only after the stop, and an orderly end
\* leaves no request behind.
ImplementsService == Service!Spec
-----------------------------------------------------------------------------
(* The inductive invariant of the proofs. *)

\* The queue and the worker's hand hold different jobs, each of a client that
\* waits for it and has no answer yet.
JobsHeld ==
  /\ \A i, j \in 1..Len(queue) : queue[i] = queue[j] => i = j
  /\ \A i \in 1..Len(queue) :
       /\ client[queue[i]] \in {"check", "wait"}
       /\ ~done[queue[i]] /\ answer[queue[i]] = "none"
       /\ queue[i] # job
  /\ worker \in {"dequeue", "sleep", "stopped"} <=> job = None
  /\ worker \in {"generate", "finish"} =>
       client[job] \in {"check", "wait"} /\ ~done[job]
  /\ worker = "generate" => answer[job] = "none"
  /\ worker = "finish" => answer[job] # "none"
  /\ worker = "unlock" => client[job] = "check" /\ done[job] /\ answer[job] # "none"

\* A client waits only for a job that is queued or in the worker's hand.
Waiters ==
  \A c \in Clients :
    /\ client[c] \in {"check", "wait"} /\ ~done[c] =>
         InQueue(c) \/ (job = c /\ worker \in {"generate", "finish"})
    /\ client[c] = "wait" => ~done[c]

\* Who owns job.mu.
Locks ==
  \A c \in Clients :
    /\ mu[c] = "worker" <=> (job = c /\ worker = "unlock")
    /\ client[c] = "enqueue" => mu[c] = "client"
    /\ mu[c] = "client" => client[c] \in {"enqueue", "check"}

\* Answers appear where the program counters say.
Answered ==
  \A c \in Clients :
    /\ client[c] \in {"none", "backlog", "read", "parse", "enqueue", "refuse"} =>
         answer[c] = "none" /\ ~done[c]
    /\ client[c] \in {"close", "leave"} => answer[c] # "none"
    /\ done[c] => answer[c] # "none"

\* How far the shutdown is.
Stopping ==
  /\ stopping <=> main \in {"join", "waitClients", "waiting", "persist", "close", "return"}
  /\ worker = "sleep" => queue = <<>> /\ ~stopping
  /\ worker = "stopped" => queue = <<>> /\ stopping
  /\ main \in {"waitClients", "waiting", "persist", "close", "return"} => worker = "stopped"
  /\ main \in {"persist", "close", "return"} => clients = 0
  /\ main = "waiting" => clients > 0
  /\ main = "spawn" <=> accepted # None
  /\ accepted # None => client[accepted] = "backlog"
  /\ process = "exited" => main = "return"
  /\ \A c \in Clients : client[c] = "refuse" => stopping

Structure == TypeOK /\ JobsHeld /\ Waiters /\ Locks /\ Answered /\ Stopping

\* The strengthening of the safety properties that every step preserves: no
\* safety property above is inductive without all of its parts.
IInv == Structure /\ ClientCount
=============================================================================
