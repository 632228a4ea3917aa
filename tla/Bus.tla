---------------------------------- MODULE Bus ---------------------------------
(***************************************************************************)
(* The activity bus (internal/platform/bus) behind the dashboard's live    *)
(* feed: publishers fan an event out to an org's subscribers under the     *)
(* read lock and never wait for one; an SSE handler subscribes, receives   *)
(* and cancels.  Every lock, map, sync.Once and channel operation is a     *)
(* step.                                                                   *)
(***************************************************************************)
EXTENDS Integers, Sequences

CONSTANTS
    Orgs,
    Publishers,   \* goroutines that publish
    Subscribers,  \* SSE handlers, one subscription each
    Buffer,       \* capacity of a subscription's channel, 16 in the code
    MaxEvents,    \* bound: events published
    NoOrg

ASSUME BusAssumption ==
    /\ Buffer \in Nat \ {0}
    /\ MaxEvents \in Nat
    /\ NoOrg \notin Orgs

VARIABLES
    readers,  \* RWMutex: the publishers that hold the read lock
    writer,   \* RWMutex: the subscribers that hold the write lock, at most one
    subs,     \* subs[o]: the subscriptions registered for org o
    buf,      \* the buffer of each subscription's channel
    open,     \* the subscriptions whose channel is open
    pub,      \* each publisher: where it is, its event and org, whom it has left
    sub,      \* each SSE handler: where it is and its org
    fired,    \* the subscriptions whose cancel's sync.Once has run
    published,   \* events so far; event n is the n-th published
    sent,     \* history: the org and the publisher of each event
    seen,     \* history: the events each handler wrote to its client
    panicked  \* a send on, or a close of, a closed channel

busVars == <<readers, writer, subs, buf, open, pub, sub, fired, published, sent, seen,
             panicked>>

Events == 1..MaxEvents
NoEvent == 0
IdlePub == [pc |-> "idle", org |-> NoOrg, event |-> NoEvent, todo |-> {}]
IdleSub == [pc |-> "idle", org |-> NoOrg]

PubState == [pc : {"idle", "lock", "send"}, org : Orgs \cup {NoOrg},
             event : Events \cup {NoEvent}, todo : SUBSET Subscribers]
SubState == [pc : {"idle", "lock", "add", "stream", "once", "cancel", "delete", "close",
                  "closed"},
             org : Orgs \cup {NoOrg}]

BusTypeOK ==
    /\ readers \subseteq Publishers
    /\ writer \subseteq Subscribers
    /\ subs \in [Orgs -> SUBSET Subscribers]
    /\ buf \in [Subscribers -> Seq(Events)]
    /\ open \subseteq Subscribers
    /\ pub \in [Publishers -> PubState]
    /\ sub \in [Subscribers -> SubState]
    /\ fired \subseteq Subscribers
    /\ published \in 0..MaxEvents
    /\ sent \in [Events -> (Orgs \X Publishers) \cup {NoOrg}]
    /\ seen \in [Subscribers -> Seq(Events)]
    /\ panicked \in BOOLEAN

BusInit ==
    /\ readers = {} /\ writer = {}
    /\ subs = [o \in Orgs |-> {}]
    /\ buf = [s \in Subscribers |-> <<>>]
    /\ open = {}
    /\ pub = [p \in Publishers |-> IdlePub]
    /\ sub = [s \in Subscribers |-> IdleSub]
    /\ fired = {}
    /\ published = 0
    /\ sent = [e \in Events |-> NoOrg]
    /\ seen = [s \in Subscribers |-> <<>>]
    /\ panicked = FALSE

-------------------------------------------------------------------------------
(* PublishActivity.                                                        *)

Publish(p, o) ==
    /\ pub[p].pc = "idle"
    /\ published < MaxEvents
    /\ published' = published + 1
    /\ sent' = [sent EXCEPT ![published + 1] = <<o, p>>]
    /\ pub' = [pub EXCEPT ![p] = [@ EXCEPT !.pc = "lock", !.org = o, !.event = published + 1]]
    /\ UNCHANGED <<readers, writer, subs, buf, open, sub, fired, seen, panicked>>

\* Mutant: the range is over every org's subscribers.
RLockAll(p) ==
    /\ pub[p].pc = "lock"
    /\ writer = {}
    /\ readers' = readers \cup {p}
    /\ pub' = [pub EXCEPT ![p] = [@ EXCEPT !.pc = "send", !.todo = UNION {subs[o] : o \in Orgs}]]
    /\ UNCHANGED <<writer, subs, buf, open, sub, fired, published, sent, seen, panicked>>

(* RLock, then the range over the org's subscribers begins.                *)
RLock(p) ==
    /\ pub[p].pc = "lock"
    /\ writer = {}
    /\ readers' = readers \cup {p}
    /\ pub' = [pub EXCEPT ![p] = [@ EXCEPT !.pc = "send", !.todo = subs[pub[p].org]]]
    /\ UNCHANGED <<writer, subs, buf, open, sub, fired, published, sent, seen, panicked>>

(* The non-blocking send: dropped when the buffer is full.                 *)
Send(p, s) ==
    /\ pub[p].pc = "send" /\ s \in pub[p].todo
    /\ panicked' = (panicked \/ s \notin open)
    /\ buf' = IF s \in open /\ Len(buf[s]) < Buffer
                THEN [buf EXCEPT ![s] = Append(@, pub[p].event)] ELSE buf
    /\ pub' = [pub EXCEPT ![p].todo = @ \ {s}]
    /\ UNCHANGED <<readers, writer, open, subs, sub, fired, published, sent, seen>>

RUnlock(p) ==
    /\ pub[p].pc = "send" /\ pub[p].todo = {}
    /\ readers' = readers \ {p}
    /\ pub' = [pub EXCEPT ![p] = IdlePub]
    /\ UNCHANGED <<writer, subs, buf, open, sub, fired, published, sent, seen, panicked>>

-------------------------------------------------------------------------------
(* SubscribeActivity and the SSE handler that uses it.                     *)

Subscribe(s, o) ==
    /\ sub[s].pc = "idle"
    /\ open' = open \cup {s}
    /\ sub' = [sub EXCEPT ![s] = [pc |-> "lock", org |-> o]]
    /\ UNCHANGED <<readers, writer, buf, subs, pub, fired, published, sent, seen, panicked>>

(* Lock, to register or to remove the subscription.                        *)
Lock(s) ==
    /\ sub[s].pc \in {"lock", "cancel"}
    /\ readers = {} /\ writer = {}
    /\ writer' = {s}
    /\ sub' = [sub EXCEPT ![s].pc = IF @ = "lock" THEN "add" ELSE "delete"]
    /\ UNCHANGED <<readers, subs, buf, open, pub, fired, published, sent, seen, panicked>>

Register(s) ==
    /\ sub[s].pc = "add"
    /\ subs' = [subs EXCEPT ![sub[s].org] = @ \cup {s}]
    /\ writer' = writer \ {s}
    /\ sub' = [sub EXCEPT ![s].pc = "stream"]
    /\ UNCHANGED <<readers, buf, open, pub, fired, published, sent, seen, panicked>>

(* One event is read from the channel and written to the client.           *)
StreamEvent(s) ==
    /\ sub[s].pc = "stream"
    /\ buf[s] # <<>>
    /\ seen' = [seen EXCEPT ![s] = Append(@, Head(buf[s]))]
    /\ buf' = [buf EXCEPT ![s] = Tail(@)]
    /\ UNCHANGED <<readers, writer, open, subs, pub, sub, fired, published, sent, panicked>>

(* The client is gone or a write to it failed: the deferred cancel.        *)
Disconnect(s) ==
    /\ sub[s].pc = "stream"
    /\ sub' = [sub EXCEPT ![s].pc = "once"]
    /\ UNCHANGED <<readers, writer, subs, buf, open, pub, fired, published, sent, seen, panicked>>

(* cancel is called once more; SubscribeActivity calls it idempotent.      *)
CancelAgain(s) ==
    /\ sub[s].pc = "closed"
    /\ sub' = [sub EXCEPT ![s].pc = "once"]
    /\ UNCHANGED <<readers, writer, subs, buf, open, pub, fired, published, sent, seen, panicked>>

(* once.Do: only the first call goes on to remove and close.               *)
OnceDo(s) ==
    /\ sub[s].pc = "once"
    /\ sub' = [sub EXCEPT ![s].pc = IF s \in fired THEN "closed" ELSE "cancel"]
    /\ UNCHANGED <<readers, writer, subs, buf, open, pub, fired, published, sent, seen, panicked>>

\* Mutant: the subscription stays in the map.
Forget(s) ==
    /\ sub[s].pc = "delete"
    /\ writer' = writer \ {s}
    /\ sub' = [sub EXCEPT ![s].pc = "close"]
    /\ UNCHANGED <<readers, subs, buf, open, pub, fired, published, sent, seen, panicked>>

\* Mutant: an early return keeps the lock.
RemoveLocked(s) ==
    /\ sub[s].pc = "delete"
    /\ subs' = [subs EXCEPT ![sub[s].org] = @ \ {s}]
    /\ sub' = [sub EXCEPT ![s].pc = "close"]
    /\ UNCHANGED <<readers, writer, buf, open, pub, fired, published, sent, seen, panicked>>

Remove(s) ==
    /\ sub[s].pc = "delete"
    /\ subs' = [subs EXCEPT ![sub[s].org] = @ \ {s}]
    /\ writer' = writer \ {s}
    /\ sub' = [sub EXCEPT ![s].pc = "close"]
    /\ UNCHANGED <<readers, buf, open, pub, fired, published, sent, seen, panicked>>

(* The channel is closed outside the lock, and once.Do has run.            *)
CloseChan(s) ==
    /\ sub[s].pc = "close"
    /\ panicked' = (panicked \/ s \notin open)
    /\ open' = open \ {s}
    /\ fired' = fired \cup {s}
    /\ sub' = [sub EXCEPT ![s].pc = "closed"]
    /\ UNCHANGED <<readers, writer, buf, subs, pub, published, sent, seen>>

-------------------------------------------------------------------------------
Deliver(p) == RUnlock(p) \/ \E s \in Subscribers : Send(p, s)
Cancel(s) == Register(s) \/ OnceDo(s) \/ Remove(s) \/ CloseChan(s)

BusNext ==
    \/ \E p \in Publishers, o \in Orgs : Publish(p, o)
    \/ \E p \in Publishers : RLock(p) \/ Deliver(p)
    \/ \E s \in Subscribers, o \in Orgs : Subscribe(s, o)
    \/ \E s \in Subscribers :
           Lock(s) \/ StreamEvent(s) \/ Disconnect(s) \/ CancelAgain(s) \/ Cancel(s)

BusSpec == BusInit /\ [][BusNext]_busVars

-------------------------------------------------------------------------------
(* No publisher ever sends on a channel that a cancel has closed: removing *)
(* under the write lock before closing keeps every publish in flight away  *)
(* from it.  And no channel is closed twice, however often cancel is       *)
(* called: the sync.Once lets the first call through.                      *)
NeverPanics == ~panicked

(* A client is shown only events of its own org.                           *)
FeedIsOwn ==
    \A s \in Subscribers : \A i \in 1..Len(seen[s]) : sent[seen[s][i]][1] = sub[s].org

(* Events may be dropped, but those of one publisher arrive in the order   *)
(* they were published, each at most once.                                 *)
FeedInOrder ==
    \A s \in Subscribers : \A i, j \in 1..Len(seen[s]) :
        i < j /\ sent[seen[s][i]][2] = sent[seen[s][j]][2] => seen[s][i] < seen[s][j]

(* While a publisher walks the subscribers nobody registers or leaves:     *)
(* it holds the lock, and everyone it has left to serve is registered with *)
(* an open channel.                                                        *)
LockProtects ==
    /\ \A p \in Publishers : pub[p].pc = "send" <=> p \in readers
    /\ readers = {} \/ writer = {}
    /\ \A s \in Subscribers : sub[s].pc \in {"add", "delete"} <=> s \in writer
    /\ \A s, t \in writer : s = t
    /\ \A p \in readers : pub[p].todo \subseteq subs[pub[p].org]
    /\ \A p \in Publishers \ readers : pub[p].todo = {}

(* A registered subscription's handler is there to receive, and its        *)
(* channel is open until the first cancel closes it.                       *)
RegisteredIsOpen ==
    /\ \A s \in Subscribers : sub[s].pc # "idle" => (s \in open <=> s \notin fired)
    /\ \A s \in fired : sub[s].pc \in {"closed", "once"}
    /\ \A s \in Subscribers : sub[s].pc = "closed" => s \in fired
    /\ \A o \in Orgs : \A s \in subs[o] : /\ sub[s].org = o /\ s \in open
                                          /\ sub[s].pc \in {"stream", "once", "cancel", "delete"}
    /\ \A p \in Publishers : pub[p].pc # "idle" => pub[p].org \in Orgs /\ pub[p].event \in Events
    /\ \A s \in Subscribers : sub[s].pc # "idle" => sub[s].org \in Orgs

(* The inductive invariant behind NeverPanics.                             *)
BusInv == BusTypeOK /\ LockProtects /\ RegisteredIsOpen /\ NeverPanics

(* Nobody waits for a client: while a publisher is in PublishActivity, or  *)
(* a handler registers or cancels, one of them can take its next step even *)
(* if no client reads from its full buffer and no new event comes.         *)
NeverStalls ==
    (\/ \E p \in Publishers : pub[p].pc # "idle"
     \/ \E s \in Subscribers : sub[s].pc \notin {"idle", "stream", "closed"})
        => ENABLED (\/ \E p \in Publishers : RLock(p) \/ Deliver(p)
                    \/ \E s \in Subscribers : Lock(s) \/ Cancel(s))

(* What an activity feed shows: its own org's events, each publisher's in  *)
(* order and without repetition, although any may be dropped.              *)
FeedIsFaithful == FeedIsOwn /\ FeedInOrder
===============================================================================
