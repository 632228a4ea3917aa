------------------------------- MODULE Webhooks -------------------------------
(***************************************************************************)
(* Outbound merchant webhooks (internal/service/webhooks and its           *)
(* repository): call outcomes leave a row in the transactional outbox; the *)
(* dispatcher loop drains the outbox into deliveries and POSTs the due     *)
(* ones, retrying with backoff and dead-lettering.  Processes may crash at *)
(* any point and start again from the tables.                              *)
(***************************************************************************)
EXTENDS Integers, Sequences, FiniteSets, SequencesExt

CONSTANTS
    Orgs,
    MaxEvents,    \* bound: outbox rows, ids 1..MaxEvents
    Kinds,        \* event names, e.g. call.completed
    Urls,
    Malformed,    \* URLs no HTTP request can be built for
    Dispatchers,  \* loops running Run: one in each process
    Deployments,  \* the sets of dispatchers that may be started side by side
    DrainLimit,   \* 100 in the code
    DueLimit,     \* 50 in the code
    maxAttempts,  \* 5 in the code
    MaxChanges,   \* bound: SetEndpoint requests
    MaxFaults     \* bound: failed database calls and crashes

ASSUME WebhooksAssumption ==
    /\ MaxEvents \in Nat
    /\ Malformed \subseteq Urls
    /\ Deployments \subseteq SUBSET Dispatchers
    /\ DrainLimit \in Nat \ {0}
    /\ DueLimit \in Nat \ {0}
    /\ maxAttempts \in Nat \ {0}
    /\ MaxChanges \in Nat
    /\ MaxFaults \in Nat

VARIABLES
    running,     \* the dispatchers of this deployment
    endpoint,    \* webhook_endpoints: per org, none or url, subscription and secret
    outbox,      \* webhook_outbox rows in id order, and whether dispatched
    delivery,    \* webhook_deliveries: the row made for each event
    due,         \* pending deliveries with next_retry_at <= now, in its order
    loop,        \* each dispatcher: where it is, its batch of due rows and the
                 \*   secret it signs with
    changes, faults,
    created,     \* history, per event: delivery rows inserted,
    received,    \*   POSTs the merchant's server took in,
    unrecorded,  \*   POSTs taken in whose success was never recorded
    addressed,   \*   the secret of the endpoint its delivery was addressed to
    shared       \* history: events two dispatchers have had in hand at once

tables == <<endpoint, outbox, delivery, due>>
history == <<created, received, unrecorded, addressed, shared>>
vars == <<running, tables, loop, changes, faults, history>>

Events == 1..MaxEvents
NoRow == [status |-> "none", attempts |-> 0, url |-> "none"]
NoEndpoint == [url |-> "none", events |-> {}, secret |-> 0]
Waiting == [pc |-> "drain", batch |-> <<>>, secret |-> 0]

(* Each SetEndpoint draws a new secret: the number of the request.         *)
Secrets == 1..MaxChanges

Endpoint == [url : Urls, events : SUBSET Kinds, secret : Secrets] \cup {NoEndpoint}
Row == [status : {"none", "pending", "delivered", "dead"}, attempts : Nat,
        url : Urls \cup {"none"}]
Due == [event : Events, attempts : Nat, url : Urls]

WebhooksTypeOK ==
    /\ endpoint \in [Orgs -> Endpoint]
    /\ outbox \in Seq([org : Orgs, kind : Kinds, dispatched : BOOLEAN])
    /\ Len(outbox) <= MaxEvents
    /\ delivery \in [Events -> Row]
    /\ due \in Seq(Events)
    /\ loop \in [Dispatchers -> [pc : {"drain", "due", "endpoint", "post", "mark", "fail"},
                                 batch : Seq(Due), secret : Secrets \cup {0}]]
    /\ changes \in 0..MaxChanges /\ faults \in 0..MaxFaults
    /\ {created, received, unrecorded} \subseteq [Events -> Nat]
    /\ addressed \in [Events -> Secrets \cup {0}]
    /\ shared \in SUBSET Events
    /\ running \in Deployments

Init ==
    /\ running \in Deployments
    /\ endpoint = [o \in Orgs |-> NoEndpoint]
    /\ outbox = <<>>
    /\ delivery = [e \in Events |-> NoRow]
    /\ due = <<>>
    /\ loop = [d \in Dispatchers |-> Waiting]
    /\ changes = 0 /\ faults = 0
    /\ created = [e \in Events |-> 0] /\ received = created /\ unrecorded = created
    /\ addressed = created /\ shared = {}

-------------------------------------------------------------------------------
(* The rest of the system.                                                 *)

SetEndpoint(o, url, events) ==
    /\ changes < MaxChanges
    /\ changes' = changes + 1
    /\ endpoint' = [endpoint EXCEPT ![o] = [url |-> url, events |-> events,
                                            secret |-> changes']]
    /\ UNCHANGED <<outbox, delivery, due, loop, faults, history>>

(* RecordCallOutcome of a terminal call (Calls.tla).                       *)
InsertOutbox(o, k) ==
    /\ Len(outbox) < MaxEvents
    /\ outbox' = Append(outbox, [org |-> o, kind |-> k, dispatched |-> FALSE])
    /\ UNCHANGED <<endpoint, delivery, due, loop, changes, faults, history>>

(* now() reaches the next_retry_at of a rescheduled delivery.              *)
Elapse(e) ==
    /\ delivery[e].status = "pending"
    /\ ~Contains(due, e)
    /\ due' = Append(due, e)
    /\ UNCHANGED <<endpoint, outbox, delivery, loop, changes, faults, history>>

-------------------------------------------------------------------------------
(* DrainOutbox, one transaction.                                           *)

ClaimUndispatchedOutbox ==
    LET waiting == SelectSeq([e \in 1..Len(outbox) |-> e],
                             LAMBDA e : ~outbox[e].dispatched)
    IN  ToSet(SubSeq(waiting, 1, IF Len(waiting) < DrainLimit THEN Len(waiting)
                                                              ELSE DrainLimit))

(* No endpoint, no delivery; an empty subscription means every event.  The *)
(* code never clears the endpoint's active flag.                           *)
Subscribed(e) ==
    LET ep == endpoint[outbox[e].org]
    IN  ep # NoEndpoint /\ (ep.events = {} \/ outbox[e].kind \in ep.events)

CreateDelivery(es) ==
    /\ delivery' = [e \in Events |->
           IF e \in es THEN [status |-> "pending", attempts |-> 0,
                             url |-> endpoint[outbox[e].org].url]
                       ELSE delivery[e]]
    /\ due' = due \o SetToSortSeq(es, <)
    /\ created' = [e \in Events |-> IF e \in es THEN created[e] + 1 ELSE created[e]]
    /\ addressed' = [e \in Events |->
           IF e \in es THEN endpoint[outbox[e].org].secret ELSE addressed[e]]

MarkOutboxDispatched(es) ==
    outbox' = [e \in 1..Len(outbox) |-> [outbox[e] EXCEPT !.dispatched = @ \/ e \in es]]

DrainOutbox ==
    LET claimed == ClaimUndispatchedOutbox
    IN  /\ CreateDelivery({e \in claimed : Subscribed(e)})
        /\ MarkOutboxDispatched(claimed)

-------------------------------------------------------------------------------
(* The dispatcher's tick.                                                  *)

At(d, l) == loop[d].pc = l
Goto(d, l) == loop' = [loop EXCEPT ![d].pc = l]
Current(d) == Head(loop[d].batch)

(* The next due delivery of the batch, or the next tick.                   *)
Advance(d) ==
    LET rest == Tail(loop[d].batch)
    IN  loop' = [loop EXCEPT ![d] = IF rest = <<>> THEN Waiting
                                    ELSE [Waiting EXCEPT !.pc = "endpoint", !.batch = rest]]

Drain(d) ==
    /\ At(d, "drain")
    /\ DrainOutbox
    /\ Goto(d, "due")
    /\ UNCHANGED <<endpoint, changes, faults, received, unrecorded, shared>>

\* Mutant: leaves out rows on their last attempt.
NotTheLast ==
    LET rows == SelectSeq(due, LAMBDA e : delivery[e].attempts < maxAttempts - 1)
    IN  [i \in 1..(IF Len(rows) < DueLimit THEN Len(rows) ELSE DueLimit) |->
            [event |-> rows[i], attempts |-> delivery[rows[i]].attempts,
             url |-> delivery[rows[i]].url]]

DueDeliveries ==
    [i \in 1..(IF Len(due) < DueLimit THEN Len(due) ELSE DueLimit) |->
        [event |-> due[i], attempts |-> delivery[due[i]].attempts,
         url |-> delivery[due[i]].url]]

InHand(d) == {loop[d].batch[i].event : i \in DOMAIN loop[d].batch}

(* The rows are not claimed: another dispatcher may read them too, and the *)
(* attempts each goes by are those it read.                                *)
ReadDue(d) ==
    /\ At(d, "due")
    /\ loop' = [loop EXCEPT ![d] = IF DueDeliveries = <<>> THEN Waiting
                                   ELSE [@ EXCEPT !.pc = "endpoint", !.batch = DueDeliveries]]
    /\ shared' = shared \cup {e \in Events : /\ \E i \in DOMAIN DueDeliveries :
                                                      DueDeliveries[i].event = e
                                              /\ \E c \in running \ {d} : e \in InHand(c)}
    /\ UNCHANGED <<tables, changes, faults, created, received, unrecorded, addressed>>

(* GetEndpoint finds the present signing secret of the delivery's org,     *)
(* which has an endpoint for good; the URL is the row's.                   *)
Sign(d) ==
    /\ At(d, "endpoint")
    /\ loop' = [loop EXCEPT ![d] = [@ EXCEPT !.pc = "post",
                   !.secret = endpoint[outbox[Current(d).event].org].secret]]
    /\ UNCHANGED <<tables, changes, faults, history>>

(* The POST: answered with 2xx; refused, unreachable or timed out before   *)
(* the merchant took it in; taken in but answered too late or with an      *)
(* error.                                                                  *)
Post(d) ==
    /\ At(d, "post")
    /\ Current(d).url \notin Malformed
    /\ \/ /\ Goto(d, "mark")
          /\ received' = [received EXCEPT ![Current(d).event] = @ + 1]
          /\ UNCHANGED unrecorded
       \/ /\ Goto(d, "fail")
          /\ UNCHANGED <<received, unrecorded>>
       \/ /\ Goto(d, "fail")
          /\ received' = [received EXCEPT ![Current(d).event] = @ + 1]
          /\ unrecorded' = [unrecorded EXCEPT ![Current(d).event] = @ + 1]
    /\ UNCHANGED <<tables, changes, faults, created, addressed, shared>>

(* The error of NewRequestWithContext is dropped and the nil request       *)
(* dereferenced: the panic ends the process, which is started again.       *)
PostPanics(d) ==
    /\ At(d, "post")
    /\ Current(d).url \in Malformed
    /\ loop' = [loop EXCEPT ![d] = Waiting]
    /\ UNCHANGED <<tables, changes, faults, history>>

\* Mutant: the success is not written.
MarkNothing(d) ==
    /\ At(d, "mark")
    /\ Advance(d)
    /\ UNCHANGED <<tables, changes, faults, history>>

MarkDelivered(d) ==
    /\ At(d, "mark")
    /\ delivery' = [delivery EXCEPT ![Current(d).event] =
                       [@ EXCEPT !.status = "delivered", !.attempts = @ + 1]]
    /\ due' = SelectSeq(due, LAMBDA e : e # Current(d).event)
    /\ Advance(d)
    /\ UNCHANGED <<endpoint, outbox, changes, faults, history>>

Reschedule(e, status) ==
    /\ delivery' = [delivery EXCEPT ![e] = [@ EXCEPT !.status = status, !.attempts = @ + 1]]
    /\ due' = SelectSeq(due, LAMBDA f : f # e)

\* Mutant: dead-letters at the limit only, not past it.
ExactlyLast(attempts) == IF attempts = maxAttempts THEN "dead" ELSE "pending"

Verdict(attempts) == IF attempts >= maxAttempts THEN "dead" ELSE "pending"

(* fail: what happens next is decided by the attempts the batch was read   *)
(* with.                                                                   *)
Fail(d) ==
    /\ At(d, "fail")
    /\ Reschedule(Current(d).event, Verdict(Current(d).attempts + 1))
    /\ Advance(d)
    /\ UNCHANGED <<endpoint, outbox, changes, faults, history>>

-------------------------------------------------------------------------------
(* Failures.                                                               *)

Fault == faults < MaxFaults /\ faults' = faults + 1

(* DrainOutbox rolls back and is logged; DueDeliveries ends the tick.      *)
DrainFails(d) ==
    /\ Fault
    /\ At(d, "drain")
    /\ Goto(d, "due")
    /\ UNCHANGED <<tables, changes, history>>

ReadDueFails(d) ==
    /\ Fault
    /\ At(d, "due")
    /\ loop' = [loop EXCEPT ![d] = Waiting]
    /\ UNCHANGED <<tables, changes, history>>

(* The endpoint cannot be read or its secret not decrypted: that counts as *)
(* a failed attempt.                                                       *)
SignFails(d) ==
    /\ Fault
    /\ At(d, "endpoint")
    /\ Goto(d, "fail")
    /\ UNCHANGED <<tables, changes, history>>

(* The errors of MarkDelivered and Reschedule are dropped: the row stays   *)
(* as it is, pending and due.                                              *)
Unrecorded(d) ==
    unrecorded' = IF At(d, "mark") THEN [unrecorded EXCEPT ![Current(d).event] = @ + 1]
                                   ELSE unrecorded

RecordFails(d) ==
    /\ Fault
    /\ loop[d].pc \in {"mark", "fail"}
    /\ Unrecorded(d)
    /\ Advance(d)
    /\ UNCHANGED <<tables, changes, created, received, addressed, shared>>

Crash(d) ==
    /\ Fault
    /\ Unrecorded(d)
    /\ loop' = [loop EXCEPT ![d] = Waiting]
    /\ UNCHANGED <<tables, changes, created, received, addressed, shared>>

-------------------------------------------------------------------------------
Tick(d) ==
    \/ Drain(d) \/ ReadDue(d) \/ Sign(d) \/ Post(d) \/ PostPanics(d)
    \/ MarkDelivered(d) \/ Fail(d)

Next ==
    /\ \/ \E o \in Orgs, u \in Urls, ks \in SUBSET Kinds : SetEndpoint(o, u, ks)
       \/ \E o \in Orgs, k \in Kinds : InsertOutbox(o, k)
       \/ \E e \in Events : Elapse(e)
       \/ \E d \in running : Tick(d)
       \/ \E d \in running : \/ DrainFails(d) \/ ReadDueFails(d) \/ SignFails(d)
                             \/ RecordFails(d) \/ Crash(d)
    /\ UNCHANGED running

Spec == Init /\ [][Next]_vars

(* The ticker fires, an HTTP call ends within its ten seconds, time goes   *)
(* on and a process that died is started again.                            *)
Fairness ==
    /\ \A d \in Dispatchers : WF_vars(d \in running /\ Tick(d) /\ UNCHANGED running)
    /\ \A e \in Events : WF_vars(Elapse(e) /\ UNCHANGED running)

FairSpec == Spec /\ Fairness

-------------------------------------------------------------------------------
(* DrainOutbox is one transaction, so through crashes and failures an      *)
(* event leads to at most one delivery, and to none before it is marked    *)
(* dispatched.                                                             *)
DrainedOnce ==
    \A e \in Events :
        created[e] <= (IF e <= Len(outbox) /\ outbox[e].dispatched THEN 1 ELSE 0)

(* A delivery is dead exactly when all its attempts are used up, and until *)
(* then it has some left: the batch's copy of the attempts is not stale    *)
(* when fail uses it, unless two dispatchers have had the row in hand at   *)
(* the same time.                                                          *)
AttemptsDecideDeath ==
    \A e \in Events \ shared :
        /\ delivery[e].attempts <= maxAttempts
        /\ delivery[e].status = "pending" => delivery[e].attempts < maxAttempts
        /\ delivery[e].status = "dead" => delivery[e].attempts = maxAttempts

(* A delivery marked delivered was taken in by the merchant's server.  The *)
(* merchant sees an event again only after a success that could not be     *)
(* recorded or when two dispatchers had it in hand at once.                *)
DuplicatesAreExplained ==
    \A e \in Events :
        /\ delivery[e].status = "delivered" => received[e] >= 1
        /\ e \notin shared => received[e] <= 1 + unrecorded[e]

(* Dispatchers that share a row overrun its attempts, and a stale verdict  *)
(* sets a resolved one back to pending, but not for long: whoever reads it *)
(* with its attempts used up resolves it.  Of n dispatchers n - 1 can hold *)
(* a stale copy, and the i-th of them to write adds itself and at most one *)
(* last attempt of each of the i + 1 that hold none.                       *)
OverrunIsBounded ==
    LET n == Cardinality(running)
    IN  \A e \in shared : 2 * (delivery[e].attempts - maxAttempts) <= (n - 1) * (n + 4)

(* deliver signs with the secret the endpoint has at that moment and posts *)
(* to the URL it had when the event was drained.  The two were issued      *)
(* together unless the merchant has set the endpoint anew since, and then  *)
(* the secret is the later one.                                            *)
SignedForReceiver ==
    \A d \in running : At(d, "post") =>
        LET e == Current(d).event
        IN  /\ loop[d].secret >= addressed[e] /\ addressed[e] > 0
            /\ endpoint[outbox[e].org].secret = addressed[e] => loop[d].secret = addressed[e]

(* The due list holds pending deliveries only, each once: what has been    *)
(* delivered or dead-lettered is never read as due again.                  *)
OnlyPendingIsDue ==
    /\ \A i \in 1..Len(due) : delivery[due[i]].status = "pending"
    /\ \A i, j \in 1..Len(due) : due[i] = due[j] => i = j

(* What holds of outbox and deliveries at every moment, through failed     *)
(* statements and crashes of the dispatcher.                               *)
WebhooksInv ==
    /\ WebhooksTypeOK
    /\ DrainedOnce
    /\ AttemptsDecideDeath
    /\ OnlyPendingIsDue
    /\ OverrunIsBounded
    /\ SignedForReceiver

(* The package comment: the dispatcher POSTs each delivery, retrying with  *)
(* backoff and dead-lettering after maxAttempts.  Every outbox row is      *)
(* dispatched in the end, and its delivery, if its org subscribes, is      *)
(* delivered or dead and stays so, unless one to a URL no request can be   *)
(* built for keeps killing the dispatcher.                                 *)
EventResolves ==
    \A e \in Events :
        e <= Len(outbox) ~>
            \/ [](/\ e <= Len(outbox) /\ outbox[e].dispatched
                  /\ delivery[e].status # "pending")
            \/ \E f \in Events : delivery[f].url \in Malformed
===============================================================================
