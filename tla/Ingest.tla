-------------------------------- MODULE Ingest --------------------------------
(***************************************************************************)
(* Order intake (internal/service/ingest) and the flow builder             *)
(* (internal/service/flows).  A merchant posts events, and posts one again *)
(* when no 2xx came back; Accept stores the event, upserts the customer    *)
(* and enqueues a call on the flow that handles the event's type.  Every   *)
(* statement is its own transaction.                                       *)
(***************************************************************************)
EXTENDS Integers

CONSTANTS
    Orgs,
    Events,      \* the merchants' event ids
    Phones,      \* E.164 numbers
    NoPhone,     \* the body has no phone
    BadPhone,    \* a phone NormalizeBD rejects
    Sends,       \* for each event id the bodies merchants send under it
    Posts,       \* deliveries of an event, first ones and repeated ones
    Builders,    \* requests that create a flow
    Designs,     \* the flows they ask for
    FlowIds,
    NoFlow,
    NoKey,
    MaxToggles,  \* bound: do-not-disturb changes and flow edits
    MaxFaults    \* bound: failed statements, lost answers, crashes

eventFlow == [order_placed |-> "order_confirm", abandoned_cart |-> "cart_recovery",
              out_for_delivery |-> "delivery_reminder"]

Types == DOMAIN eventFlow \cup {"refunded"}
Bodies == [type : Types, phone : Phones \cup {NoPhone, BadPhone}]
Keys == Orgs \X Events

\* The flow a builder asks for.
FlowTypes == {"ivr", "chat", "agent"}
Specs == {"playable", "broken"}
FlowNames == {eventFlow[t] : t \in DOMAIN eventFlow}
FlowRows == [org : Orgs, name : FlowNames, type : {"ivr", "chat"}, spec : Specs]

ASSUME IngestAssumption ==
    /\ Sends \in [Events -> SUBSET Bodies]
    /\ Designs \subseteq [name : FlowNames, type : FlowTypes, spec : Specs]
    /\ NoPhone \notin Phones /\ BadPhone \notin Phones /\ NoPhone # BadPhone
    /\ NoFlow \notin FlowIds \cup FlowRows /\ NoKey \notin Keys
    /\ MaxToggles \in Nat /\ MaxFaults \in Nat

VARIABLES
    events,    \* events: the keys (org_id, external_event_id) stored
    customer,  \* customers: "none", "ok" or "dnd" for each org and phone
    flow,      \* flows: each active row
    unseeded,  \* the orgs whose EnsureForUser has not inserted their first flow
    post,      \* each delivery: where Accept is, its event and body, the flow
               \*   it found, the HTTP answer, and (history) what it must do
    build,     \* each Create request
    enqueued,  \* history: the deliveries whose call the orchestrator took
    raced,     \* history: the names two Create requests, or one and EnsureForUser,
               \*   inserted unaware of each other
    toggles, faults

bounds == <<toggles, faults>>
history == <<enqueued, raced>>
vars == <<events, customer, flow, unseeded, post, build, history, bounds>>

NewPost == [pc |-> "new", key |-> NoKey, body |-> [type |-> "refunded", phone |-> NoPhone],
            flow |-> NoFlow, code |-> 0, must |-> "free"]
NewBuild == [pc |-> "new", org |-> NoFlow, design |-> NoFlow]
Built == [NewBuild EXCEPT !.pc = "done"]

IngestTypeOK ==
    /\ events \subseteq Keys
    /\ customer \in [Orgs -> [Phones -> {"none", "ok", "dnd"}]]
    /\ flow \in [FlowIds -> {NoFlow} \cup FlowRows] /\ unseeded \subseteq Orgs
    /\ post \in [Posts -> [pc : {"new", "insert", "upsert", "flow", "enqueue", "done"},
                           key : Keys \cup {NoKey}, body : Bodies,
                           flow : FlowIds \cup {NoFlow},
                           code : {0, 200, 202, 400, 500}, must : {"call", "silent", "free"}]]
    /\ build \in [Builders -> [pc : {"new", "check", "insert", "done"},
                               org : Orgs \cup {NoFlow}, design : Designs \cup {NoFlow}]]
    /\ enqueued \subseteq Posts /\ raced \subseteq Orgs \X FlowNames
    /\ toggles \in 0..MaxToggles /\ faults \in 0..MaxFaults

(* The orgs are new, and may have do-not-disturb customers already.        *)
Init ==
    /\ events = {}
    /\ customer \in [Orgs -> [Phones -> {"none", "dnd"}]]
    /\ flow = [f \in FlowIds |-> NoFlow] /\ unseeded = Orgs
    /\ post = [n \in Posts |-> NewPost]
    /\ build = [b \in Builders |-> NewBuild]
    /\ enqueued = {} /\ raced = {}
    /\ toggles = 0 /\ faults = 0

-------------------------------------------------------------------------------
At(n, l) == post[n].pc = l
Goto(n, l) == post' = [post EXCEPT ![n].pc = l]
Answer(n, code) == post' = [post EXCEPT ![n] = [@ EXCEPT !.pc = "done", !.code = code]]
Fault == faults < MaxFaults /\ faults' = faults + 1
Org(n) == post[n].key[1]
Phone(n) == post[n].body.phone

(* GetActiveFlowByName: every row has version 1, so any of them may be the *)
(* first.                                                                  *)
GetActiveFlow(o, name) ==
    {f \in FlowIds : flow[f] # NoFlow /\ flow[f].org = o /\ flow[f].name = name}

(* What the comment on Accept asks of a delivery, given the state it is    *)
(* posted in: a call, no call, or either while the customer or the flows   *)
(* change under it.                                                        *)
Duty(o, body) ==
    IF body.type \notin DOMAIN eventFlow \/ body.phone \notin Phones THEN "silent"
    ELSE IF customer[o][body.phone] = "dnd" THEN "silent"
    ELSE IF GetActiveFlow(o, eventFlow[body.type]) = {} THEN "free"
    ELSE "call"

-------------------------------------------------------------------------------
(* Accept.                                                                 *)

(* postEvent, then NormalizeBD: a phone it rejects is a 400 and nothing is *)
(* stored.                                                                 *)
PostEvent(n, o, e, body) ==
    /\ At(n, "new")
    /\ body \in Sends[e]
    /\ post' = [post EXCEPT ![n] =
                   [@ EXCEPT !.key = <<o, e>>, !.body = body, !.must = Duty(o, body),
                             !.pc = IF body.phone = BadPhone THEN "done" ELSE "insert",
                             !.code = IF body.phone = BadPhone THEN 400 ELSE 0]]
    /\ UNCHANGED <<events, customer, flow, unseeded, build, history, bounds>>

\* Mutant: the dedup key leaves the org out.
DedupAcrossOrgs(n) ==
    /\ At(n, "insert")
    /\ \/ /\ \A k \in events : k[2] # post[n].key[2]
          /\ Goto(n, "upsert")
       \/ /\ \E k \in events : k[2] = post[n].key[2]
          /\ Answer(n, 200)
    /\ events' = events \cup {post[n].key}
    /\ UNCHANGED <<customer, flow, unseeded, build, history, bounds>>

\* Mutant: the dedup key is not looked at.
InsertEvery(n) ==
    /\ At(n, "insert")
    /\ events' = events \cup {post[n].key}
    /\ Goto(n, "upsert")
    /\ UNCHANGED <<customer, flow, unseeded, build, history, bounds>>

(* INSERT ... ON CONFLICT (org_id, external_event_id) DO NOTHING.          *)
InsertEvent(n) ==
    /\ At(n, "insert")
    /\ \/ /\ post[n].key \notin events
          /\ Goto(n, "upsert")
       \/ /\ post[n].key \in events
          /\ Answer(n, 200)
    /\ events' = events \cup {post[n].key}
    /\ UNCHANGED <<customer, flow, unseeded, build, history, bounds>>

\* Mutant: the do-not-disturb flag is not read.
UpsertUnread(n) ==
    /\ At(n, "upsert")
    /\ customer' = IF Phone(n) # NoPhone /\ customer[Org(n)][Phone(n)] = "none"
                     THEN [customer EXCEPT ![Org(n)][Phone(n)] = "ok"] ELSE customer
    /\ IF Phone(n) # NoPhone /\ post[n].body.type \in DOMAIN eventFlow
         THEN Goto(n, "flow") ELSE Answer(n, 202)
    /\ UNCHANGED <<events, flow, unseeded, build, history, bounds>>

(* The customer is upserted, keeping its flag; an unmapped type, no phone  *)
(* or do-not-disturb ends here.                                            *)
UpsertCustomer(n) ==
    /\ At(n, "upsert")
    /\ customer' = IF Phone(n) # NoPhone /\ customer[Org(n)][Phone(n)] = "none"
                     THEN [customer EXCEPT ![Org(n)][Phone(n)] = "ok"] ELSE customer
    /\ IF /\ Phone(n) # NoPhone
          /\ post[n].body.type \in DOMAIN eventFlow
          /\ customer'[Org(n)][Phone(n)] # "dnd"
         THEN Goto(n, "flow") ELSE Answer(n, 202)
    /\ UNCHANGED <<events, flow, unseeded, build, history, bounds>>

(* The flow is looked up; the spec of an IVR flow must parse.              *)
RouteFlow(n) ==
    /\ At(n, "flow")
    /\ LET found == GetActiveFlow(Org(n), eventFlow[post[n].body.type]) IN
       \/ \E f \in found :
             IF flow[f].type = "ivr" /\ flow[f].spec = "broken"
               THEN Answer(n, 500)
               ELSE post' = [post EXCEPT ![n] = [@ EXCEPT !.pc = "enqueue", !.flow = f]]
       \/ found = {} /\ Answer(n, 202)
    /\ UNCHANGED <<events, customer, flow, unseeded, build, history, bounds>>

EnqueuePlaceCall(n) ==
    /\ At(n, "enqueue")
    /\ enqueued' = enqueued \cup {n}
    /\ Answer(n, 202)
    /\ UNCHANGED <<events, customer, flow, unseeded, build, raced, bounds>>

(* A statement or the orchestrator fails: Accept returns the error.        *)
AcceptFails(n) ==
    /\ Fault
    /\ post[n].pc \in {"insert", "upsert", "flow", "enqueue"}
    /\ Answer(n, 500)
    /\ UNCHANGED <<events, customer, flow, unseeded, build, history, toggles>>

(* It fails although the insert or the enqueue took effect.                *)
AnswerLost(n) ==
    /\ Fault
    /\ \/ /\ At(n, "insert")
          /\ events' = events \cup {post[n].key}
          /\ UNCHANGED enqueued
       \/ /\ At(n, "enqueue")
          /\ enqueued' = enqueued \cup {n}
          /\ UNCHANGED events
    /\ Answer(n, 500)
    /\ UNCHANGED <<customer, flow, unseeded, build, raced, toggles>>

(* The process dies or the client is gone: no answer.                      *)
Abandon(n) ==
    /\ Fault
    /\ post[n].pc \notin {"new", "done"}
    /\ Answer(n, 0)
    /\ UNCHANGED <<events, customer, flow, unseeded, build, history, toggles>>

-------------------------------------------------------------------------------
(* The dashboard.                                                          *)

(* SetDND on a customer row; deliveries in flight may see either value.    *)
SetDND(o, p, on) ==
    /\ toggles < MaxToggles
    /\ toggles' = toggles + 1
    /\ customer[o][p] = IF on THEN "ok" ELSE "dnd"
    /\ customer' = [customer EXCEPT ![o][p] = IF on THEN "dnd" ELSE "ok"]
    /\ post' = [n \in Posts |->
                  IF /\ post[n].pc \in {"insert", "upsert"}
                     /\ Org(n) = o /\ Phone(n) = p
                     /\ post[n].body.type \in DOMAIN eventFlow
                    THEN [post[n] EXCEPT !.must = "free"] ELSE post[n]]
    /\ UNCHANGED <<events, flow, unseeded, build, history, faults>>

(* flows.Create: the name, the type and an IVR's spec are validated.       *)
CreateFlow(b, o, d) ==
    /\ build[b].pc = "new"
    /\ build' = [build EXCEPT ![b] =
                    IF d.type \in {"ivr", "chat"} /\ (d.type = "ivr" => d.spec = "playable")
                      THEN [pc |-> "check", org |-> o, design |-> d] ELSE Built]
    /\ UNCHANGED <<events, customer, flow, unseeded, post, history, bounds>>

(* GetActiveFlow: an active flow of that name is a conflict.               *)
CheckName(b) ==
    /\ build[b].pc = "check"
    /\ build' = [build EXCEPT ![b] =
                    IF GetActiveFlow(build[b].org, build[b].design.name) = {}
                      THEN [@ EXCEPT !.pc = "insert"] ELSE Built]
    /\ UNCHANGED <<events, customer, flow, unseeded, post, history, bounds>>

Row(o, d) == [org |-> o, name |-> d.name, type |-> d.type, spec |-> d.spec]

(* The row is inserted under a new id.                                     *)
InsertFlow(b) ==
    /\ build[b].pc = "insert"
    /\ \E f \in FlowIds :
          /\ flow[f] = NoFlow
          /\ flow' = [flow EXCEPT ![f] = Row(build[b].org, build[b].design)]
    /\ raced' = IF \E c \in Builders \ {b} :
                      /\ build[c].pc = "insert"
                      /\ build[c].org = build[b].org
                      /\ build[c].design.name = build[b].design.name
                  THEN raced \cup {<<build[b].org, build[b].design.name>>} ELSE raced
    /\ build' = [build EXCEPT ![b] = Built]
    /\ UNCHANGED <<events, customer, unseeded, post, enqueued, bounds>>

SeedRow(o) == [org |-> o, name |-> "order_confirm", type |-> "ivr", spec |-> "playable"]

(* EnsureForUser inserts a new org's first flow, without a look at the     *)
(* name.  By then other requests of the org may have been let in by their  *)
(* own EnsureForUser, which finds the org.  It may also never come: an     *)
(* error of the insert is dropped.                                         *)
SeedFlow(o) ==
    /\ o \in unseeded
    /\ unseeded' = unseeded \ {o}
    /\ \E f \in FlowIds :
          /\ flow[f] = NoFlow
          /\ flow' = [flow EXCEPT ![f] = SeedRow(o)]
    /\ raced' = IF \/ GetActiveFlow(o, SeedRow(o).name) # {}
                   \/ \E c \in Builders : /\ build[c].pc = "insert" /\ build[c].org = o
                                          /\ build[c].design.name = SeedRow(o).name
                  THEN raced \cup {<<o, SeedRow(o).name>>} ELSE raced
    /\ UNCHANGED <<events, customer, post, build, enqueued, bounds>>

(* flows.UpdateSpec: a flow of another org is not found, a spec without    *)
(* its entry node is refused, whatever the type of the flow.               *)
UpdateSpec(o, f, spec) ==
    /\ toggles < MaxToggles
    /\ toggles' = toggles + 1
    /\ flow[f] # NoFlow /\ flow[f].org = o
    /\ spec = "playable"
    /\ flow' = [flow EXCEPT ![f].spec = spec]
    /\ UNCHANGED <<events, customer, unseeded, post, build, history, faults>>

-------------------------------------------------------------------------------
Step(n) ==
    InsertEvent(n) \/ UpsertCustomer(n) \/ RouteFlow(n) \/ EnqueuePlaceCall(n)

Next ==
    \/ \E n \in Posts, o \in Orgs, e \in Events : \E body \in Sends[e] : PostEvent(n, o, e, body)
    \/ \E n \in Posts : Step(n)
    \/ \E n \in Posts : AcceptFails(n)
    \/ \E n \in Posts : AnswerLost(n)
    \/ \E n \in Posts : Abandon(n)
    \/ \E o \in Orgs, p \in Phones, on \in BOOLEAN : SetDND(o, p, on)
    \/ \E b \in Builders, o \in Orgs, d \in Designs : CreateFlow(b, o, d)
    \/ \E b \in Builders : CheckName(b)
    \/ \E b \in Builders : InsertFlow(b)
    \/ \E o \in Orgs : SeedFlow(o)
    \/ \E o \in Orgs, f \in FlowIds, spec \in Specs : UpdateSpec(o, f, spec)

Spec == Init /\ [][Next]_vars

-------------------------------------------------------------------------------
Settled == \A n \in Posts : post[n].pc \in {"new", "done"}

(* However often and however concurrently a merchant posts an event,       *)
(* Accept enqueues at most one call for it, and one org's event ids never  *)
(* get in the way of another's.                                            *)
CalledAtMostOnce ==
    \A m, n \in enqueued : post[m].key = post[n].key => m = n

(* A customer who was on do-not-disturb when the event was posted, and     *)
(* stayed on it until Accept read the flag, is not called; neither is one  *)
(* for an event type without a flow.                                       *)
SilenceKept == \A n \in enqueued : post[n].must # "silent"

(* A delivery answered 202 has placed its call if it had to.               *)
AcceptedIsCalled ==
    \A n \in Posts : post[n].code = 202 /\ post[n].must = "call" => n \in enqueued

(* The flow a call is routed to is the org's own and the one the event     *)
(* type maps to.                                                           *)
RoutedByType ==
    \A n \in Posts : post[n].flow # NoFlow =>
        post[n].flow \in GetActiveFlow(Org(n), eventFlow[post[n].body.type])

(* Create and UpdateSpec between them keep every IVR flow playable: intake *)
(* and calls parse the spec again when they load the flow.                 *)
IvrIsPlayable ==
    \A f \in FlowIds : flow[f] # NoFlow /\ flow[f].type = "ivr" => flow[f].spec = "playable"

(* The comment on flows.Create: names are unique per org among active      *)
(* flows, so that routing is unambiguous, unless two requests both looked  *)
(* the name up before either inserted it, or the org's seed, which looks   *)
(* nothing up, came after a Create of the same name had.                   *)
NamesAreUnique ==
    \A o \in Orgs, name \in FlowNames :
        <<o, name>> \in raced \/ \A f, g \in GetActiveFlow(o, name) : f = g

(* The comment on Accept: the event is stored idempotently and, when new,  *)
(* its call is enqueued.  While nothing fails, an event that was to be     *)
(* called for at each of its deliveries is called for by one of them, no   *)
(* matter which org shares its id and how the deliveries overlap.          *)
EventIsCalledFor ==
    Settled /\ faults = 0 =>
        \A k \in events :
            (\A n \in Posts : post[n].key = k => post[n].must = "call") =>
                \E n \in enqueued : post[n].key = k

(* How far Accept got with a delivery says what it has read and left: only *)
(* a delivery it is done with has an answer or a call, and past the        *)
(* customer it is one that can be called for.  What was asked of it when   *)
(* it was posted still follows from the state when Accept comes to read it. *)
InOrder(n) ==
    LET pc == post[n].pc
        must == post[n].must
        mapped == post[n].body.type \in DOMAIN eventFlow /\ Phone(n) \in Phones
    IN  /\ pc = "new" <=> post[n].key = NoKey
        /\ pc # "done" => post[n].code = 0 /\ n \notin enqueued
        /\ pc \in {"new", "insert", "upsert", "flow"} => post[n].flow = NoFlow
        /\ pc \in {"insert", "upsert"} =>
              /\ Phone(n) # BadPhone
              /\ must = "silent" /\ mapped => customer[Org(n)][Phone(n)] = "dnd"
              /\ must = "call" => mapped /\ customer[Org(n)][Phone(n)] # "dnd"
        /\ pc \in {"flow", "enqueue"} => mapped /\ must # "silent"
        /\ pc \in {"insert", "upsert", "flow"} /\ must = "call" =>
              GetActiveFlow(Org(n), eventFlow[post[n].body.type]) # {}

PostsInOrder == \A n \in Posts : InOrder(n)

(* The delivery whose insert stored the event: it goes on alone.           *)
Carries(n) == post[n].pc \in {"upsert", "flow", "enqueue"} \/ n \in enqueued

OneCarrier ==
    /\ \A n \in Posts : Carries(n) => post[n].key \in events
    /\ \A m, n \in Posts : Carries(m) /\ Carries(n) /\ post[m].key = post[n].key => m = n

(* While nothing fails, a stored event has a delivery that is still being  *)
(* handled or has done what was asked of it.                               *)
HasCarrier(k) ==
    \E n \in Posts :
        /\ post[n].key = k
        /\ \/ post[n].pc \in {"upsert", "flow", "enqueue"}
           \/ At(n, "done") /\ (post[n].must = "call" => n \in enqueued)

EventIsCarried == faults = 0 => \A k \in events : HasCarrier(k)

(* A builder that passed validation inserts a flow of its org that can be  *)
(* played, under a name that is still free unless another insert raced it. *)
BuildsAreValid ==
    \A b \in Builders :
        /\ build[b].pc \in {"check", "insert"} =>
              /\ build[b].org \in Orgs /\ build[b].design \in Designs
              /\ build[b].design.type \in {"ivr", "chat"}
              /\ build[b].design.type = "ivr" => build[b].design.spec = "playable"
        /\ build[b].pc = "insert" =>
              \/ GetActiveFlow(build[b].org, build[b].design.name) = {}
              \/ <<build[b].org, build[b].design.name>> \in raced

(* What holds of events, calls and flows at every moment, through failures *)
(* and concurrent edits.                                                   *)
IngestInv ==
    /\ IngestTypeOK
    /\ PostsInOrder
    /\ OneCarrier
    /\ EventIsCarried
    /\ BuildsAreValid
    /\ SilenceKept
    /\ AcceptedIsCalled
    /\ RoutedByType
    /\ IvrIsPlayable
    /\ NamesAreUnique
===============================================================================
