--------------------------- MODULE LocalOrchestrator --------------------------
(***************************************************************************)
(* The in-process orchestrator (internal/adapter/orchestrator/local): a    *)
(* bounded channel of jobs, the goroutines that drain it, the goroutines   *)
(* that enqueue, and main's shutdown sequence (cmd/yaver/main.go), which   *)
(* stops the HTTP server, closes the channel and waits for the workers.    *)
(***************************************************************************)
EXTENDS Integers, Sequences

CONSTANTS
    Workers,     \* the pool's goroutines
    Requests,    \* HTTP handlers that enqueue
    Scheduler,   \* goroutines that enqueue outside any request: RunDue
    Cap,         \* capacity of the channel, 256 in the code
    MaxJobs,     \* bound: jobs accepted and tried
    NoJob

ASSUME LocalAssumption ==
    /\ Workers # {}
    /\ Cap \in Nat \ {0}
    /\ MaxJobs \in Nat
    /\ Requests \cap Scheduler = {}
    /\ NoJob \notin Nat

Senders == Requests \cup Scheduler

VARIABLES
    jobs,        \* the channel's buffer
    chanOpen,    \* FALSE once the channel is closed
    worker,      \* each worker: the job it runs, "idle" or "exited"
    sender,      \* each sender: "idle", "running", or the job it enqueues
    main,        \* "serving", "stopping", "draining", "exited" or "crashed"
    issued,      \* jobs created so far; job n is the n-th
    accepted,    \* history: jobs EnqueuePlaceCall took, in order
    started,     \* history: jobs handed to a worker, in order
    done         \* history: jobs whose run has ended

poolVars == <<jobs, chanOpen, worker, sender, main, issued, accepted, started, done>>

JobIds == 1..MaxJobs
Phases == {"serving", "stopping", "draining", "exited", "crashed"}

Idle == [pc |-> "idle", job |-> NoJob]
Exited == [pc |-> "exited", job |-> NoJob]

LocalTypeOK ==
    /\ jobs \in Seq(JobIds)
    /\ chanOpen \in BOOLEAN
    /\ worker \in [Workers -> {Idle, Exited} \cup [pc : {"run"}, job : JobIds]]
    /\ sender \in [Senders -> [pc : {"idle", "run", "send"}, job : JobIds \cup {NoJob}]]
    /\ main \in Phases
    /\ issued \in 0..MaxJobs
    /\ accepted \in Seq(JobIds)
    /\ started \in Seq(JobIds)
    /\ done \in SUBSET JobIds

(* New: the workers are started and wait on an empty channel.              *)
PoolInit ==
    /\ jobs = <<>>
    /\ chanOpen = TRUE
    /\ worker = [w \in Workers |-> Idle]
    /\ sender = [s \in Senders |-> Idle]
    /\ main = "serving"
    /\ issued = 0
    /\ accepted = <<>>
    /\ started = <<>>
    /\ done = {}

Alive == main \notin {"exited", "crashed"}

-------------------------------------------------------------------------------
(* Senders.                                                                *)

(* A request is accepted while the server serves.  The scheduler looks for *)
(* cancellation only between two ticks, and when a tick and the            *)
(* cancellation are both ready it may take the tick.                       *)
Begin(s) ==
    /\ sender[s].pc = "idle"
    /\ s \in Requests => main = "serving"
    /\ Alive
    /\ sender' = [sender EXCEPT ![s].pc = "run"]
    /\ UNCHANGED <<jobs, chanOpen, worker, main, issued, accepted, started, done>>

(* The handler reaches a call of EnqueuePlaceCall.                         *)
Call(s) ==
    /\ Alive
    /\ sender[s].pc = "run"
    /\ issued < MaxJobs
    /\ issued' = issued + 1
    /\ sender' = [sender EXCEPT ![s] = [pc |-> "send", job |-> issued + 1]]
    /\ UNCHANGED <<jobs, chanOpen, worker, main, accepted, started, done>>

Done(s) ==
    /\ Alive
    /\ sender[s].pc = "run"
    /\ sender' = [sender EXCEPT ![s] = Idle]
    /\ UNCHANGED <<jobs, chanOpen, worker, main, issued, accepted, started, done>>

(* The send: it blocks while the buffer is full.                           *)
EnqueuePlaceCall(s) ==
    /\ Alive
    /\ sender[s].pc = "send"
    /\ chanOpen
    /\ Len(jobs) < Cap
    /\ jobs' = Append(jobs, sender[s].job)
    /\ accepted' = Append(accepted, sender[s].job)
    /\ sender' = [sender EXCEPT ![s] = [pc |-> "run", job |-> NoJob]]
    /\ UNCHANGED <<chanOpen, worker, main, issued, started, done>>

(* A send on the closed channel panics, also one that was blocked when it  *)
(* was closed.  net/http recovers a handler's panic; the scheduler's takes *)
(* the process down.                                                       *)
SendPanics(s) ==
    /\ Alive
    /\ sender[s].pc = "send"
    /\ ~chanOpen
    /\ sender' = [sender EXCEPT ![s] = Idle]
    /\ main' = IF s \in Scheduler THEN "crashed" ELSE main
    /\ UNCHANGED <<jobs, chanOpen, worker, issued, accepted, started, done>>

-------------------------------------------------------------------------------
(* Workers.                                                                *)

\* Mutant: the job is looked at but not taken off the channel.
Peek(w) ==
    /\ Alive
    /\ worker[w].pc = "idle"
    /\ jobs # <<>>
    /\ worker' = [worker EXCEPT ![w] = [pc |-> "run", job |-> Head(jobs)]]
    /\ started' = Append(started, Head(jobs))
    /\ UNCHANGED <<jobs, chanOpen, sender, main, issued, accepted, done>>

\* Mutant: an if in place of the loop; the pool is done after its first job.
ReceiveOnce(w) ==
    /\ Alive
    /\ worker[w].pc = "idle"
    /\ jobs # <<>>
    /\ started = <<>>
    /\ worker' = [worker EXCEPT ![w] = [pc |-> "run", job |-> Head(jobs)]]
    /\ jobs' = Tail(jobs)
    /\ started' = Append(started, Head(jobs))
    /\ UNCHANGED <<chanOpen, sender, main, issued, accepted, done>>

(* range o.jobs: the next job, in the order they were sent.                *)
Receive(w) ==
    /\ Alive
    /\ worker[w].pc = "idle"
    /\ jobs # <<>>
    /\ worker' = [worker EXCEPT ![w] = [pc |-> "run", job |-> Head(jobs)]]
    /\ jobs' = Tail(jobs)
    /\ started' = Append(started, Head(jobs))
    /\ UNCHANGED <<chanOpen, sender, main, issued, accepted, done>>

(* job(): the place_call handler returns; an error is only logged.         *)
Finish(w) ==
    /\ Alive
    /\ worker[w].pc = "run"
    /\ worker' = [worker EXCEPT ![w] = Idle]
    /\ done' = done \cup {worker[w].job}
    /\ UNCHANGED <<jobs, chanOpen, sender, main, issued, accepted, started>>

\* Mutant: a worker leaves as soon as the channel is closed.
LeaveEarly(w) ==
    /\ Alive
    /\ worker[w].pc = "idle"
    /\ ~chanOpen
    /\ worker' = [worker EXCEPT ![w] = Exited]
    /\ UNCHANGED <<jobs, chanOpen, sender, main, issued, accepted, started, done>>

(* The range ends when the channel is closed and drained: wg.Done.         *)
WorkerExit(w) ==
    /\ Alive
    /\ worker[w].pc = "idle"
    /\ ~chanOpen
    /\ jobs = <<>>
    /\ worker' = [worker EXCEPT ![w] = Exited]
    /\ UNCHANGED <<jobs, chanOpen, sender, main, issued, accepted, started, done>>

-------------------------------------------------------------------------------
(* main.                                                                   *)

(* SIGINT or SIGTERM: srv.Shutdown stops accepting requests.               *)
Interrupt ==
    /\ main = "serving"
    /\ main' = "stopping"
    /\ UNCHANGED <<jobs, chanOpen, worker, sender, issued, accepted, started, done>>

(* srv.Shutdown returns, because every request has ended or because its    *)
(* ten seconds are over, and the deferred Shutdown closes the channel.     *)
Close ==
    /\ main = "stopping"
    /\ main' = "draining"
    /\ chanOpen' = FALSE
    /\ UNCHANGED <<jobs, worker, sender, issued, accepted, started, done>>

\* Mutant: wg.Wait is left out.
ExitAtOnce ==
    /\ main = "draining"
    /\ main' = "exited"
    /\ UNCHANGED <<jobs, chanOpen, worker, sender, issued, accepted, started, done>>

(* wg.Wait returns and main with it.                                       *)
Exit ==
    /\ main = "draining"
    /\ \A w \in Workers : worker[w].pc = "exited"
    /\ main' = "exited"
    /\ UNCHANGED <<jobs, chanOpen, worker, sender, issued, accepted, started, done>>

Shutdown == Close \/ Exit

-------------------------------------------------------------------------------
PoolNext ==
    \/ \E s \in Senders : \/ Begin(s) \/ Call(s) \/ Done(s)
                          \/ EnqueuePlaceCall(s) \/ SendPanics(s)
    \/ \E w \in Workers : Receive(w) \/ Finish(w) \/ WorkerExit(w)
    \/ Interrupt
    \/ Shutdown

PoolSpec == PoolInit /\ [][PoolNext]_poolVars

(* Goroutines that can run do run; a sender blocked on the full channel is *)
(* served in turn, for Go queues blocked senders first-in first-out.       *)
PoolFairness ==
    /\ \A w \in Workers : WF_poolVars(Receive(w) \/ Finish(w) \/ WorkerExit(w))
    /\ \A s \in Senders : SF_poolVars(EnqueuePlaceCall(s) \/ SendPanics(s))
    /\ WF_poolVars(Shutdown)

PoolFairSpec == PoolSpec /\ PoolFairness

-------------------------------------------------------------------------------
Elements(s) == {s[i] : i \in 1..Len(s)}
Running == {worker[w].job : w \in {v \in Workers : worker[v].pc = "run"}}

(* The channel never holds more than its capacity, and the jobs handed to  *)
(* workers followed by the jobs still buffered are exactly the accepted    *)
(* jobs in the order EnqueuePlaceCall took them: none is lost, duplicated  *)
(* or overtaken, whatever the interleaving of senders, workers and         *)
(* Shutdown.                                                               *)
FirstInFirstOut == accepted = started \o jobs /\ Len(jobs) <= Cap

(* Every started job is either running on exactly one worker or done.      *)
StartedIsRunOnce ==
    /\ Elements(started) = Running \cup done
    /\ Running \cap done = {}
    /\ \A v, w \in Workers :
           worker[v].pc = "run" /\ worker[v].job = worker[w].job => v = w

(* Every enqueued job is a new one, whoever enqueues it.                   *)
JobsAreDistinct ==
    /\ Elements(accepted) \subseteq 1..issued
    /\ \A i, j \in 1..Len(accepted) : accepted[i] = accepted[j] => i = j
    /\ \A s \in Senders : sender[s].pc = "send" =>
           sender[s].job \in (1..issued) \ Elements(accepted)
    /\ \A s, t \in Senders :
           sender[s].pc = "send" /\ sender[t].pc = "send" /\ sender[s].job = sender[t].job
               => s = t

(* The channel is closed from the deferred Shutdown on, and a worker       *)
(* leaves only a closed and empty channel.                                 *)
ExitIsFinal ==
    /\ chanOpen <=> main \in {"serving", "stopping"}
    /\ \A w \in Workers : worker[w].pc = "exited" => ~chanOpen /\ jobs = <<>>
    /\ main = "exited" => \A w \in Workers : worker[w].pc = "exited"

(* The inductive invariant: what is in the channel, with the workers and   *)
(* done is always the same sequence of distinct jobs.                      *)
LocalInv ==
    /\ LocalTypeOK
    /\ FirstInFirstOut
    /\ JobsAreDistinct
    /\ StartedIsRunOnce
    /\ ExitIsFinal

(* "Shutdown drains in-flight jobs": when main has returned from it, every *)
(* job that EnqueuePlaceCall accepted has been run to its end, although    *)
(* senders may race the closing of the channel.                            *)
ShutdownDrains == main = "exited" => Elements(accepted) \subseteq done

(* Every job EnqueuePlaceCall accepted is eventually run to its end, also  *)
(* when Shutdown begins in between.  The one exception is the process      *)
(* dying of the scheduler's send on the closed channel.                    *)
AcceptedIsRun ==
    \A j \in JobIds : j \in Elements(accepted) ~> j \in done \/ main = "crashed"

(* A sender that blocks on the full channel gets in or meets the closed    *)
(* channel, unless the process is gone, and once the process is asked to   *)
(* stop it stops: neither back-pressure nor Shutdown waits for ever.       *)
NobodyBlocks ==
    /\ \A s \in Senders : sender[s].pc = "send" ~> (sender[s].pc # "send" \/ ~Alive)
    /\ main = "stopping" ~> ~Alive

(* The channel, its workers and main's shutdown sequence, seen as a queue. *)
QueuePhase ==
    IF chanOpen THEN "open"
    ELSE IF main = "draining" THEN "closed"
    ELSE IF main = "exited" THEN "stopped" ELSE "crashed"

QueueSlot == [w \in Workers |-> worker[w].job]

Queue == INSTANCE JobQueue WITH
    Jobs <- JobIds, Slots <- Workers, Free <- NoJob,
    taken <- Len(started), slot <- QueueSlot, ended <- done, phase <- QueuePhase

(* Whatever senders, workers and main's shutdown do to each other, the     *)
(* local orchestrator is a queue of jobs that are run once, in order, on   *)
(* one worker each, and that are all run when Shutdown has returned.       *)
ImplementsQueue == Queue!QueueSpec
===============================================================================
