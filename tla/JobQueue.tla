------------------------------- MODULE JobQueue -------------------------------
(***************************************************************************)
(* What an in-process orchestrator promises, without channel, senders or   *)
(* goroutines: jobs are accepted while the queue is open, started in the   *)
(* order they were accepted, one on each free slot, and run once; a closed *)
(* queue stops only when every accepted job has ended.                     *)
(***************************************************************************)
EXTENDS Integers, Sequences

CONSTANTS Jobs, Slots, Free

VARIABLES accepted, taken, slot, ended, phase

queueVars == <<accepted, taken, slot, ended, phase>>

AcceptedJobs == {accepted[i] : i \in 1..Len(accepted)}
Up == phase \in {"open", "closed"}

QueueInit ==
    /\ accepted = <<>> /\ taken = 0 /\ ended = {}
    /\ slot = [s \in Slots |-> Free]
    /\ phase = "open"

Put(j) ==
    /\ phase = "open"
    /\ j \notin AcceptedJobs
    /\ accepted' = Append(accepted, j)
    /\ UNCHANGED <<taken, slot, ended, phase>>

Take(s) ==
    /\ Up
    /\ slot[s] = Free
    /\ taken < Len(accepted)
    /\ taken' = taken + 1
    /\ slot' = [slot EXCEPT ![s] = accepted[taken + 1]]
    /\ UNCHANGED <<accepted, ended, phase>>

End(s) ==
    /\ Up
    /\ slot[s] \in Jobs \ ended
    /\ ended' = ended \cup {slot[s]}
    /\ slot' = [slot EXCEPT ![s] = Free]
    /\ UNCHANGED <<accepted, taken, phase>>

Close ==
    /\ phase = "open"
    /\ phase' = "closed"
    /\ UNCHANGED <<accepted, taken, slot, ended>>

(* An orderly end, or a sender's panic, which no queue still open has.     *)
Stop ==
    /\ phase = "closed"
    /\ phase' \in {"stopped", "crashed"}
    /\ phase' = "stopped" => ended = AcceptedJobs
    /\ UNCHANGED <<accepted, taken, slot, ended>>

QueueNext ==
    \/ \E j \in Jobs : Put(j)
    \/ \E s \in Slots : Take(s) \/ End(s)
    \/ Close
    \/ Stop

QueueSpec == QueueInit /\ [][QueueNext]_queueVars
===============================================================================
