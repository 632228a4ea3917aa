------------------------- MODULE IngestRecordsProofs --------------------------
(***************************************************************************)
(* The intake of commerce events, for any orgs, events, deliveries,        *)
(* customers and flows and any number of failures: every accepted event is *)
(* called for at most once, never against a do-not-disturb flag that was   *)
(* up before it came, and always when the flow and the flag let it.  The   *)
(* calls table afterwards, for any calls, requests and retention window:   *)
(* transcripts match their recordings, and no call goes too early.         *)
(***************************************************************************)
EXTENDS Ingest, CallRecords, TLAPS

(* The fields of a delivery, and what the handler's steps write into it.   *)
PCs == {"new", "insert", "upsert", "flow", "enqueue", "done"}
Answers == {0, 200, 202, 400, 500}
Musts == {"call", "silent", "free"}
PostType == [pc : PCs, key : Keys \cup {NoKey}, body : Bodies, flow : FlowIds \cup {NoFlow},
             code : Answers, must : Musts]

Answered(q, c) == [q EXCEPT !.pc = "done", !.code = c]
Moved(q, p) == [q EXCEPT !.pc = p]
Routed(q, f) == [q EXCEPT !.pc = "enqueue", !.flow = f]
Received(q, k, b, m, p, c) == [q EXCEPT !.key = k, !.body = b, !.must = m, !.pc = p, !.code = c]
Freed(q) == [q EXCEPT !.must = "free"]

(* The handler answers: the delivery keeps what it carries.                *)
LEMMA PostAnswered ==
    ASSUME NEW q \in PostType, NEW c \in Answers
    PROVE  LET r == Answered(q, c) IN
           /\ r \in PostType /\ r.pc = "done" /\ r.code = c /\ r.key = q.key
           /\ r.body = q.body /\ r.flow = q.flow /\ r.must = q.must
<1>1. "done" \in PCs
  BY Zenon DEF PCs
<1> QED  BY Zenon, <1>1, Zenon DEF PostType, Answered

(* The handler goes on to its next call.                                   *)
LEMMA PostMoved ==
    ASSUME NEW q \in PostType, NEW p \in PCs
    PROVE  LET r == Moved(q, p) IN
           /\ r \in PostType /\ r.pc = p /\ r.code = q.code /\ r.key = q.key
           /\ r.body = q.body /\ r.flow = q.flow /\ r.must = q.must
BY Zenon DEF PostType, Moved

(* The flow of the event's type is found.                                  *)
LEMMA PostRouted ==
    ASSUME NEW q \in PostType, NEW f \in FlowIds \cup {NoFlow}
    PROVE  LET r == Routed(q, f) IN
           /\ r \in PostType /\ r.pc = "enqueue" /\ r.code = q.code /\ r.key = q.key
           /\ r.body = q.body /\ r.flow = f /\ r.must = q.must
<1>1. "enqueue" \in PCs
  BY Zenon DEF PCs
<1> QED  BY Zenon, <1>1, Zenon DEF PostType, Routed

(* A request arrives: its key, its body and what is owed to it are set.    *)
LEMMA PostReceived ==
    ASSUME NEW q \in PostType, NEW k \in Keys, NEW b \in Bodies, NEW m \in Musts,
           NEW p \in PCs, NEW c \in Answers
    PROVE  LET r == Received(q, k, b, m, p, c) IN
           /\ r \in PostType /\ r.pc = p /\ r.code = c /\ r.key = k
           /\ r.body = b /\ r.flow = q.flow /\ r.must = m
BY Zenon DEF PostType, Received

(* A flag that changes while a delivery is on its way settles nothing for  *)
(* it.                                                                     *)
LEMMA PostFreed ==
    ASSUME NEW q \in PostType
    PROVE  LET r == Freed(q) IN
           /\ r \in PostType /\ r.pc = q.pc /\ r.code = q.code /\ r.key = q.key
           /\ r.body = q.body /\ r.flow = q.flow /\ r.must = "free"
<1>1. "free" \in Musts
  BY Zenon DEF Musts
<1> QED  BY Zenon, <1>1, Zenon DEF PostType, Freed

\* What the invariant says of one delivery.
Good(n) ==
    /\ InOrder(n)
    /\ n \in enqueued => post[n].must # "silent"
    /\ post[n].code = 202 /\ post[n].must = "call" => n \in enqueued
    /\ post[n].flow # NoFlow => post[n].flow \in GetActiveFlow(Org(n), eventFlow[post[n].body.type])

\* The part of the invariant that is about the flows.
GoodFlows == BuildsAreValid /\ IvrIsPlayable /\ NamesAreUnique

(* The types of the state.                                                 *)
BuildType == [pc : {"new", "check", "insert", "done"},
              org : Orgs \cup {NoFlow}, design : Designs \cup {NoFlow}]

TypeOf == /\ events \subseteq Keys /\ customer \in [Orgs -> [Phones -> {"none", "ok", "dnd"}]]
          /\ flow \in [FlowIds -> {NoFlow} \cup FlowRows] /\ unseeded \subseteq Orgs
          /\ post \in [Posts -> PostType]
          /\ build \in [Builders -> BuildType]
          /\ enqueued \subseteq Posts /\ raced \subseteq Orgs \X FlowNames
          /\ toggles \in 0..MaxToggles /\ faults \in 0..MaxFaults

IInv == TypeOf /\ GoodFlows /\ OneCarrier /\ EventIsCarried /\ (\A n \in Posts : Good(n))

(* IngestInv, delivery by delivery. It is inductive as it stands.          *)
LEMMA InvParts == IInv <=> IngestInv
<1>1. IngestTypeOK <=> TypeOf
  BY DEF IngestTypeOK, TypeOf, BuildType, PostType, PCs, Answers, Musts
<1>2. ASSUME TypeOf
      PROVE  PostsInOrder /\ SilenceKept /\ AcceptedIsCalled /\ RoutedByType
                <=> \A n \in Posts : Good(n)
  BY Zenon, <1>2 DEF TypeOf, PostsInOrder, SilenceKept, AcceptedIsCalled, RoutedByType, Good
<1> QED  BY Zenon, <1>1, <1>2 DEF IngestInv, GoodFlows, IInv

(* Steps that leave every do-not-disturb flag as it is, and steps that     *)
(* take no active flow away.                                               *)
SameDND ==
    /\ customer' \in [Orgs -> [Phones -> {"none", "ok", "dnd"}]]
    /\ \A o, p : o \in Orgs /\ p \in Phones => (customer'[o][p] = "dnd" <=> customer[o][p] = "dnd")

FlowsStay == \A o, name : GetActiveFlow(o, name) \subseteq GetActiveFlow(o, name)'

(* A delivery is good as long as nobody writes it, flips its flag or takes *)
(* its flow away.                                                          *)
LEMMA StaysGood ==
    ASSUME NEW n \in Posts, Good(n), post[n] \in PostType, post'[n] = post[n],
           n \in enqueued' <=> n \in enqueued, SameDND, FlowsStay
    PROVE  Good(n)'
<1>1. Org(n)' = Org(n) /\ Phone(n)' = Phone(n)
  BY Zenon DEF Org, Phone
<1>2. post[n].pc # "new" => Org(n) \in Orgs
  BY Zenon DEF Good, InOrder, PostType, Keys, Org
<1>3. InOrder(n)'
  BY <1>1, <1>2 DEF Good, InOrder, SameDND, FlowsStay
<1> QED  BY Zenon, <1>1, <1>3 DEF Good, FlowsStay

(* The requests for calls never touch the flows.                           *)
LEMMA FlowsKept ==
    ASSUME GoodFlows, UNCHANGED <<flow, build, raced>>
    PROVE  /\ GoodFlows' /\ FlowsStay
           /\ \A o, name : GetActiveFlow(o, name)' = GetActiveFlow(o, name)
<1>1. \A o, name : GetActiveFlow(o, name)' = GetActiveFlow(o, name)
  BY Zenon DEF GetActiveFlow
<1> QED  BY Zenon, <1>1 DEF GoodFlows, BuildsAreValid, IvrIsPlayable, NamesAreUnique, FlowsStay

(* The builder's requests never touch the deliveries.                      *)
LEMMA PostsKept ==
    ASSUME IInv, UNCHANGED <<events, customer, post, enqueued, faults>>, FlowsStay
    PROVE  OneCarrier' /\ EventIsCarried' /\ (\A n \in Posts : Good(n)')
<1>1. \A n : Carries(n)' <=> Carries(n)
  BY Zenon DEF Carries
<1>2. \A k : HasCarrier(k)' <=> HasCarrier(k)
  BY Zenon DEF HasCarrier, At
<1>3. OneCarrier' /\ EventIsCarried'
  BY Zenon, <1>1, <1>2 DEF IInv, OneCarrier, EventIsCarried
<1>4. SameDND /\ \A n \in Posts : post[n] \in PostType
  BY Zenon DEF SameDND, IInv, TypeOf
<1> QED  BY Zenon, <1>3, <1>4, StaysGood DEF IInv

(* A delivery whose event was inserted by it and that is still on its way. *)
Handled(q) == q.pc \in {"upsert", "flow", "enqueue"}

\* A step in which one delivery n becomes r.
Becomes(n, r) ==
    /\ r \in PostType /\ post' = [post EXCEPT ![n] = r]
    /\ UNCHANGED <<flow, unseeded, build, raced, toggles>>
    /\ SameDND /\ faults' \in 0..MaxFaults /\ (faults' = 0 => faults = 0)
    /\ r.key \in Keys /\ (post[n].pc # "new" => r.key = post[n].key)
    /\ events' = events \/ events' = events \cup {r.key}
    /\ enqueued' = enqueued \/ enqueued' = enqueued \cup {n}

\* What it leaves of the event it carries.
Carried(n, r) ==
    /\ Handled(r) \/ n \in enqueued' => r.key \in events' /\ (Carries(n) \/ r.key \notin events)
    /\ faults' = 0 /\ r.key \in events' =>
          \/ Handled(r) \/ (r.pc = "done" /\ (r.must = "call" => n \in enqueued'))
          \/ r.key \in events /\ ~Handled(post[n]) /\ post[n].pc # "done"

(* One delivery takes a step: the invariant is left with what that step    *)
(* makes of this delivery, and with the one delivery that carries each     *)
(* stored event.                                                           *)
LEMMA DeliveryStep ==
    ASSUME IInv, NEW n \in Posts, NEW r, Becomes(n, r), Carried(n, r), Good(n)'
    PROVE  IInv'
<1>0. /\ TypeOf /\ GoodFlows /\ OneCarrier /\ EventIsCarried
      /\ \A m \in Posts : Good(m) /\ post[m] \in PostType
  BY Zenon DEF IInv, TypeOf
<1>1. /\ post' \in [Posts -> PostType] /\ post'[n] = r
      /\ \A m \in Posts : m # n => post'[m] = post[m] /\ (m \in enqueued' <=> m \in enqueued)
  BY Zenon, <1>0 DEF TypeOf, Becomes
<1>2. TypeOf'
  BY Zenon, <1>0, <1>1 DEF TypeOf, Becomes, SameDND
<1>3. GoodFlows' /\ FlowsStay /\ SameDND
  BY Zenon, <1>0, FlowsKept DEF Becomes
<1>4. \A m \in Posts : Good(m)'
  BY Zenon, <1>0, <1>1, <1>3, StaysGood
<1>5. OneCarrier'
  <2>1. \A m \in Posts : m # n => (Carries(m)' <=> Carries(m)) /\ post'[m].key = post[m].key
    BY Zenon, <1>1 DEF Carries
  <2>2. Carries(n)' => r.key \in events' /\ (Carries(n) \/ r.key \notin events)
    BY Zenon, <1>1 DEF Carried, Carries, Handled
  <2>3. events \subseteq events' /\ (Carries(n) => post[n].key = r.key)
    BY Zenon, <1>0 DEF Becomes, Good, InOrder, Carries
  <2> QED  BY Zenon, <1>0, <1>1, <2>1, <2>2, <2>3 DEF OneCarrier
<1>6. EventIsCarried'
  <2> SUFFICES ASSUME faults' = 0, NEW k \in events'  PROVE HasCarrier(k)'
    BY Zenon DEF EventIsCarried
  <2>0. faults = 0
    BY Zenon DEF Becomes
  <2>1. CASE k \in events /\ \E m \in Posts : m # n /\
               /\ post[m].key = k
               /\ \/ post[m].pc \in {"upsert", "flow", "enqueue"}
                  \/ At(m, "done") /\ (post[m].must = "call" => m \in enqueued)
    BY Zenon, <1>1, <2>1 DEF HasCarrier, At
  <2>2. CASE k \in events /\ k = post[n].key /\ (Handled(post[n]) \/ post[n].pc = "done")
    <3>1. r.key = k
      BY Zenon, <2>2 DEF Becomes, Handled
    <3> QED  BY Zenon, <1>1, <2>2, <3>1 DEF HasCarrier, At, Carried, Handled
  <2>3. CASE k \notin events
    BY Zenon, <1>1, <2>3 DEF HasCarrier, At, Carried, Handled, Becomes
  <2>4. k \in events => \E m \in Posts :
               /\ post[m].key = k
               /\ \/ post[m].pc \in {"upsert", "flow", "enqueue"}
                  \/ At(m, "done") /\ (post[m].must = "call" => m \in enqueued)
    BY Zenon, <1>0, <2>0 DEF EventIsCarried, HasCarrier
  <2> QED  BY Zenon, <2>1, <2>2, <2>3, <2>4 DEF Handled, At
<1> QED  BY Zenon, <1>2, <1>3, <1>4, <1>5, <1>6 DEF IInv

\* A step in which one delivery n is answered.
Ends(n, code) ==
    /\ Answer(n, code)
    /\ UNCHANGED <<flow, unseeded, build, raced, toggles>>
    /\ SameDND /\ faults' \in 0..MaxFaults /\ (faults' = 0 => faults = 0)
    /\ events' = events \/ (events' = events \cup {post[n].key} /\ faults' # 0)
    /\ enqueued' = enqueued \/ (enqueued' = enqueued \cup {n} /\ post[n].pc = "enqueue")
    /\ code = 202 \/ (faults' = 0 /\ post[n].pc # "insert") =>
          (post[n].must = "call" => n \in enqueued')

(* A delivery is answered, with a success or an error: a call that is owed *)
(* has been enqueued or some call of this run has failed.                  *)
LEMMA AnswerStep ==
    ASSUME IInv, NEW n \in Posts, NEW code \in {0, 200, 202, 500}, Ends(n, code),
           post[n].pc \in {"insert", "upsert", "flow", "enqueue"}
    PROVE  IInv'
<1> DEFINE r == Answered(post[n], code)
<1>0. /\ Good(n) /\ post \in [Posts -> PostType] /\ post[n] \in PostType
      /\ GoodFlows /\ OneCarrier
  BY DEF IInv, TypeOf
<1>1. post' = [post EXCEPT ![n] = r]
  BY Zenon DEF Ends, Answer, Answered
<1>2. /\ r \in PostType /\ r.pc = "done" /\ r.code = code /\ r.key = post[n].key
      /\ r.body = post[n].body /\ r.flow = post[n].flow /\ r.must = post[n].must
  <2>1. code \in Answers
    BY ZenonT(60) DEF Answers
  <2> QED  BY <1>0, <2>1, PostAnswered
<1> HIDE DEF r
<1>3. post'[n] = r /\ post[n].key \in Keys
  BY <1>0, <1>1 DEF Good, InOrder, PostType
<1>4. Becomes(n, r)
  BY <1>1, <1>2, <1>3 DEF Ends, Becomes
<1>5. Carried(n, r)
  BY ZenonT(60), <1>0, <1>2, <1>3 DEF Ends, Carried, Handled, Carries, OneCarrier, Good, InOrder
<1>6. Good(n)'
  <2>1. FlowsStay /\ Org(n)' = Org(n)
    BY Zenon, <1>0, <1>2, <1>3, FlowsKept DEF Ends, Org
  <2> QED  BY SMTT(60), ZenonT(60), <1>0, <1>2, <1>3, <2>1, IngestAssumption DEF Ends, Good, InOrder, FlowsStay
<1> QED  BY Zenon, <1>4, <1>5, <1>6, DeliveryStep

(* ingestEvent: a bad phone is refused, everything else goes on to the     *)
(* insert.                                                                 *)
LEMMA PostEventStep ==
    ASSUME IInv, NEW n \in Posts, NEW o \in Orgs, NEW e \in Events,
           NEW body \in Sends[e], PostEvent(n, o, e, body)
    PROVE  IInv'
<1> DEFINE bad == body.phone = BadPhone
           r == Received(post[n], <<o, e>>, body, Duty(o, body),
                         IF bad THEN "done" ELSE "insert", IF bad THEN 400 ELSE 0)
<1>0. /\ Good(n) /\ TypeOf /\ post \in [Posts -> PostType] /\ post[n] \in PostType
      /\ customer \in [Orgs -> [Phones -> {"none", "ok", "dnd"}]] /\ faults \in 0..MaxFaults
      /\ GoodFlows
  BY Zenon DEF IInv, TypeOf
<1>1. /\ post' = [post EXCEPT ![n] = r] /\ post[n].pc = "new"
      /\ UNCHANGED <<events, customer, flow, unseeded, build, enqueued, raced, toggles, faults>>
  BY Zenon DEF PostEvent, Received, At, history, bounds
<1>2. body \in Bodies /\ Duty(o, body) \in Musts /\ <<o, e>> \in Keys
  BY Zenon, IngestAssumption DEF Duty, Musts, Keys
<1>3. /\ r \in PostType /\ r.pc = IF bad THEN "done" ELSE "insert"
      /\ r.code = IF bad THEN 400 ELSE 0
      /\ r.key = <<o, e>> /\ r.body = body /\ r.must = Duty(o, body) /\ r.flow = post[n].flow
  <2>1. (IF bad THEN "done" ELSE "insert") \in PCs /\ (IF bad THEN 400 ELSE 0) \in Answers
    BY DEF PCs, Answers
  <2> HIDE DEF bad
  <2> QED  BY <1>0, <1>2, <2>1, PostReceived
<1> HIDE DEF r
<1>4. post'[n] = r /\ post[n].flow = NoFlow /\ n \notin enqueued /\ ~Handled(post[n])
  BY Zenon, <1>0, <1>1 DEF Good, InOrder, Handled
<1>5. Becomes(n, r)
  BY Zenon, <1>0, <1>1, <1>2, <1>3 DEF Becomes, SameDND
<1>6. Carried(n, r)
  BY Zenon, <1>1, <1>3, <1>4 DEF Carried, Handled
<1>7. Good(n)'
  <2>1. Org(n)' = o /\ Phone(n)' = body.phone
    BY <1>3, <1>4 DEF Org, Phone
  <2>2. \A x, name : GetActiveFlow(x, name)' = GetActiveFlow(x, name)
    BY Zenon, <1>0, <1>1, FlowsKept
  <2>3. /\ r.key # NoKey
        /\ (r.must = "silent" /\ body.type \in DOMAIN eventFlow /\ body.phone \in Phones
              => customer[o][body.phone] = "dnd")
        /\ (r.must = "call" =>
              /\ body.type \in DOMAIN eventFlow /\ body.phone \in Phones
              /\ customer[o][body.phone] # "dnd" /\ GetActiveFlow(o, eventFlow[body.type]) # {})
    BY Zenon, <1>2, <1>3, IngestAssumption DEF Duty
  <2>4. CASE bad
    <3>1. /\ post'[n].pc = "done" /\ post'[n].code = 400 /\ post'[n].flow = NoFlow
          /\ post'[n].key # NoKey /\ n \notin enqueued'
      BY SMTT(60), ZenonT(60), <1>1, <1>3, <1>4, <2>3, <2>4
    <3> QED  BY SMTT(60), ZenonT(60), <3>1 DEF Good, InOrder
  <2>5. CASE ~bad
    <3>1. /\ post'[n].pc = "insert" /\ post'[n].code = 0 /\ post'[n].flow = NoFlow
          /\ post'[n].key # NoKey /\ n \notin enqueued' /\ customer' = customer
          /\ post'[n].body = body /\ post'[n].must = r.must /\ body.phone # BadPhone
      BY SMTT(60), ZenonT(60), <1>1, <1>3, <1>4, <2>3, <2>5
    <3> QED  BY SMTT(60), ZenonT(60), <2>1, <2>2, <2>3, <3>1 DEF Good, InOrder
  <2> QED  BY Zenon, <2>4, <2>5
<1> QED  BY Zenon, <1>5, <1>6, <1>7, DeliveryStep

(* InsertEvent, ON CONFLICT DO NOTHING: of all deliveries of one event the *)
(* first to insert it carries it, the others are answered as duplicates.   *)
LEMMA InsertEventStep ==
    ASSUME IInv, NEW n \in Posts, InsertEvent(n)
    PROVE  IInv'
<1> DEFINE r == Moved(post[n], "upsert")
<1>0. /\ Good(n) /\ post \in [Posts -> PostType] /\ post[n] \in PostType
      /\ customer \in [Orgs -> [Phones -> {"none", "ok", "dnd"}]] /\ faults \in 0..MaxFaults
      /\ GoodFlows
  BY Zenon DEF IInv, TypeOf
<1>1. /\ post[n].pc = "insert" /\ events' = events \cup {post[n].key}
      /\ UNCHANGED <<customer, flow, unseeded, build, enqueued, raced, toggles, faults>>
      /\ SameDND
  BY Zenon, <1>0 DEF InsertEvent, At, history, bounds, SameDND
<1>2. CASE post[n].key \in events
  <2>1. Ends(n, 200)
    BY <1>0, <1>1, <1>2 DEF InsertEvent, Ends
  <2> QED  BY ZenonT(60), <1>1, <2>1, AnswerStep
<1>3. CASE post[n].key \notin events
  <2>1. post' = [post EXCEPT ![n] = r]
    BY Zenon, <1>1, <1>3 DEF InsertEvent, Goto, Moved
  <2>2. /\ r \in PostType /\ r.pc = "upsert" /\ r.code = post[n].code /\ r.key = post[n].key
        /\ r.body = post[n].body /\ r.flow = post[n].flow /\ r.must = post[n].must
    BY Zenon, <1>0, PostMoved DEF PCs
  <2> HIDE DEF r
  <2>3. post'[n] = r /\ post[n].key \in Keys
    BY Zenon, <1>0, <1>1, <2>1 DEF Good, InOrder, PostType
  <2>4. Becomes(n, r)
    BY Zenon, <1>0, <1>1, <2>1, <2>2, <2>3 DEF Becomes
  <2>5. Carried(n, r)
    BY Zenon, <1>1, <1>3, <2>2 DEF Carried, Handled
  <2>6. Good(n)'
    <3>1. /\ Org(n)' = Org(n) /\ Phone(n)' = Phone(n)
          /\ \A x, name : GetActiveFlow(x, name)' = GetActiveFlow(x, name)
      BY Zenon, <1>0, <1>1, <2>2, <2>3, FlowsKept DEF Org, Phone
    <3> QED  BY SMTT(60), ZenonT(60), <1>0, <1>1, <2>2, <2>3, <3>1 DEF Good, InOrder
  <2> QED  BY Zenon, <2>4, <2>5, <2>6, DeliveryStep
<1> QED  BY Zenon, <1>2, <1>3

(* UpsertCustomer never lifts a do-not-disturb flag; a flagged customer is *)
(* not called.                                                             *)
LEMMA UpsertCustomerStep ==
    ASSUME IInv, NEW n \in Posts, UpsertCustomer(n)
    PROVE  IInv'
<1> DEFINE r == Moved(post[n], "flow")
           called == /\ Phone(n) # NoPhone
                     /\ post[n].body.type \in DOMAIN eventFlow
                     /\ customer'[Org(n)][Phone(n)] # "dnd"
<1>0. /\ Good(n) /\ post \in [Posts -> PostType] /\ post[n] \in PostType
      /\ customer \in [Orgs -> [Phones -> {"none", "ok", "dnd"}]] /\ faults \in 0..MaxFaults
      /\ GoodFlows /\ OneCarrier
  BY Zenon DEF IInv, TypeOf
<1>1. /\ post[n].pc = "upsert"
      /\ UNCHANGED <<events, flow, unseeded, build, enqueued, raced, toggles, faults>>
      /\ IF called THEN post' = [post EXCEPT ![n] = r] ELSE Answer(n, 202)
  BY Zenon DEF UpsertCustomer, Goto, Moved, At, history, bounds
<1>2. /\ post[n].key \in Keys /\ Org(n) \in Orgs
      /\ Phone(n) # NoPhone => Phone(n) \in Phones
  BY Zenon, <1>0, <1>1 DEF Good, InOrder, PostType, Org, Phone, Keys, Bodies
<1>3. SameDND
  BY Zenon, <1>0, <1>2 DEF UpsertCustomer, SameDND
<1>4. CASE called
  <2>1. post' = [post EXCEPT ![n] = r]
    BY Zenon, <1>1, <1>4
  <2>2. /\ r \in PostType /\ r.pc = "flow" /\ r.code = post[n].code /\ r.key = post[n].key
        /\ r.body = post[n].body /\ r.flow = post[n].flow /\ r.must = post[n].must
    BY Zenon, <1>0, PostMoved DEF PCs
  <2>3. post[n].must # "silent"
    BY <1>0, <1>1, <1>2, <1>3, <1>4 DEF Good, InOrder, SameDND
  <2> HIDE DEF r
  <2>4. post'[n] = r
    BY Zenon, <1>0, <2>1
  <2>5. Becomes(n, r)
    BY Zenon, <1>0, <1>1, <1>2, <1>3, <2>1, <2>2 DEF Becomes
  <2>6. Carried(n, r)
    BY Zenon, <1>0, <1>1, <2>2 DEF Carried, Handled, Carries, OneCarrier
  <2>7. Good(n)'
    <3>1. /\ Org(n)' = Org(n) /\ Phone(n)' = Phone(n)
          /\ \A x, name : GetActiveFlow(x, name)' = GetActiveFlow(x, name)
      BY Zenon, <1>0, <1>1, <2>2, <2>4, FlowsKept DEF Org, Phone
    <3> QED  BY ZenonT(60), <1>0, <1>1, <1>2, <1>4, <2>2, <2>3, <2>4, <3>1 DEF Good, InOrder
  <2> QED  BY Zenon, <2>5, <2>6, <2>7, DeliveryStep
<1>5. CASE ~called
  <2>1. post[n].must # "call"
    BY SMTT(60), ZenonT(60), <1>0, <1>1, <1>2, <1>3, <1>5, IngestAssumption DEF Good, InOrder, SameDND
  <2>2. Ends(n, 202)
    BY Zenon, <1>0, <1>1, <1>3, <1>5, <2>1 DEF Ends
  <2> QED  BY ZenonT(60), <1>1, <2>2, AnswerStep
<1> QED  BY Zenon, <1>4, <1>5

(* GetActiveFlow: an event without an active flow is accepted and not      *)
(* called for.                                                             *)
LEMMA RouteFlowStep ==
    ASSUME IInv, NEW n \in Posts, RouteFlow(n)
    PROVE  IInv'
<1> DEFINE found == GetActiveFlow(Org(n), eventFlow[post[n].body.type])
<1>0. /\ Good(n) /\ post \in [Posts -> PostType] /\ post[n] \in PostType
      /\ customer \in [Orgs -> [Phones -> {"none", "ok", "dnd"}]] /\ faults \in 0..MaxFaults
      /\ GoodFlows /\ OneCarrier
  BY Zenon DEF IInv, TypeOf
<1>1. /\ post[n].pc = "flow"
      /\ UNCHANGED <<events, customer, flow, unseeded, build, enqueued, raced, toggles, faults>>
      /\ SameDND
  BY Zenon, <1>0 DEF RouteFlow, At, history, bounds, SameDND
<1>2. ASSUME NEW f \in found,
             IF flow[f].type = "ivr" /\ flow[f].spec = "broken"
               THEN Answer(n, 500)
               ELSE post' = [post EXCEPT ![n] = [@ EXCEPT !.pc = "enqueue", !.flow = f]]
      PROVE  IInv'
  <2> DEFINE r == Routed(post[n], f)
  <2>0. f \in FlowIds /\ ~(flow[f].type = "ivr" /\ flow[f].spec = "broken")
    BY Zenon, <1>0 DEF GetActiveFlow, GoodFlows, IvrIsPlayable
  <2>1. post' = [post EXCEPT ![n] = r]
    BY Zenon, <1>2, <2>0 DEF Routed
  <2>2. /\ r \in PostType /\ r.pc = "enqueue" /\ r.code = post[n].code /\ r.key = post[n].key
        /\ r.body = post[n].body /\ r.flow = f /\ r.must = post[n].must
    BY Zenon, <1>0, <2>0, PostRouted
  <2> HIDE DEF r
  <2>3. post'[n] = r /\ post[n].key \in Keys
    BY Zenon, <1>0, <1>1, <2>1 DEF Good, InOrder, PostType
  <2>4. Becomes(n, r)
    BY Zenon, <1>0, <1>1, <2>1, <2>2, <2>3 DEF Becomes
  <2>5. Carried(n, r)
    BY Zenon, <1>0, <1>1, <2>2 DEF Carried, Handled, Carries, OneCarrier
  <2>6. Good(n)'
    <3>1. /\ Org(n)' = Org(n) /\ Phone(n)' = Phone(n)
          /\ \A x, name : GetActiveFlow(x, name)' = GetActiveFlow(x, name)
      BY Zenon, <1>0, <1>1, <2>2, <2>3, FlowsKept DEF Org, Phone
    <3> QED  BY Zenon, <1>0, <1>1, <2>2, <2>3, <3>1 DEF Good, InOrder
  <2> QED  BY Zenon, <2>4, <2>5, <2>6, DeliveryStep
<1>3. ASSUME found = {}, Answer(n, 202)  PROVE IInv'
  <2>1. post[n].must # "call"
    BY Zenon, <1>0, <1>1, <1>3 DEF Good, InOrder
  <2>2. Ends(n, 202)
    BY Zenon, <1>0, <1>1, <1>3, <2>1 DEF Ends
  <2> QED  BY <1>1, <2>2, AnswerStep
<1> QED  BY Zenon, <1>2, <1>3 DEF RouteFlow

(* EnqueuePlaceCall, and every failed or unanswered call to the store.     *)
LEMMA EndingStep ==
    ASSUME IInv, NEW n \in Posts,
           EnqueuePlaceCall(n) \/ AcceptFails(n) \/ AnswerLost(n) \/ Abandon(n)
    PROVE  IInv'
<1>0. /\ customer \in [Orgs -> [Phones -> {"none", "ok", "dnd"}]] /\ faults \in 0..MaxFaults
      /\ post[n].pc \in PCs
  BY Zenon DEF IInv, TypeOf, PostType
<1>1. SameDND
  BY Zenon, <1>0 DEF SameDND, EnqueuePlaceCall, AcceptFails, AnswerLost, Abandon
<1>2. Fault => faults' \in 0..MaxFaults /\ faults' # 0
  BY <1>0, IngestAssumption DEF Fault
<1>3. CASE EnqueuePlaceCall(n)
  <2>1. Ends(n, 202) /\ post[n].pc = "enqueue"
    BY Zenon, <1>0, <1>1, <1>3 DEF EnqueuePlaceCall, Ends, At, bounds
  <2> QED  BY <2>1, AnswerStep
<1>4. CASE AcceptFails(n)
  <2>1. Ends(n, 500)
    BY <1>1, <1>2, <1>4 DEF AcceptFails, Ends, history
  <2> QED  BY <1>4, <2>1, AnswerStep DEF AcceptFails
<1>5. CASE AnswerLost(n)
  <2>1. Ends(n, 500) /\ post[n].pc \in {"insert", "enqueue"}
    BY <1>1, <1>2, <1>5 DEF AnswerLost, Ends, At
  <2> QED  BY <2>1, AnswerStep
<1>6. CASE Abandon(n)
  <2>1. Ends(n, 0)
    BY <1>1, <1>2, <1>6 DEF Abandon, Ends, history
  <2>2. post[n].pc \in {"insert", "upsert", "flow", "enqueue"}
    BY Zenon, <1>0, <1>6 DEF Abandon, PCs
  <2> QED  BY <2>1, <2>2, AnswerStep
<1> QED  BY Zenon, <1>3, <1>4, <1>5, <1>6

\* The deliveries that SetDND frees.
Waits(n, o, p) ==
    /\ post[n].pc \in {"insert", "upsert"}
    /\ Org(n) = o /\ Phone(n) = p
    /\ post[n].body.type \in DOMAIN eventFlow

\* What SetDND leaves alone of a delivery.
SamePost(q, r) ==
    /\ q \in PostType /\ r \in PostType
    /\ r.pc = q.pc /\ r.key = q.key /\ r.body = q.body /\ r.flow = q.flow /\ r.code = q.code
    /\ r.must \in {q.must, "free"}

(* A flag set or lifted while deliveries of that customer are on their     *)
(* way.                                                                    *)
LEMMA SetDNDStep ==
    ASSUME IInv, NEW o \in Orgs, NEW p \in Phones, NEW on \in BOOLEAN, SetDND(o, p, on)
    PROVE  IInv'
<1>0. TypeOf /\ GoodFlows
  BY Zenon DEF IInv
<1>1. /\ UNCHANGED <<events, flow, unseeded, build, enqueued, raced, faults>> /\ toggles' \in 0..MaxToggles
      /\ customer' = [customer EXCEPT ![o][p] = IF on THEN "dnd" ELSE "ok"]
      /\ post' = [n \in Posts |-> IF Waits(n, o, p) THEN Freed(post[n]) ELSE post[n]]
  BY <1>0, IngestAssumption DEF SetDND, TypeOf, history, Freed, Waits
<1>2. /\ customer' \in [Orgs -> [Phones -> {"none", "ok", "dnd"}]]
      /\ \A x, y : x \in Orgs /\ y \in Phones /\ (x # o \/ y # p) => customer'[x][y] = customer[x][y]
  BY Zenon, <1>0, <1>1 DEF TypeOf
<1>3. \A n \in Posts : post'[n] = IF Waits(n, o, p) THEN Freed(post[n]) ELSE post[n]
  BY Zenon, <1>1
<1>4. \A n \in Posts : SamePost(post[n], post'[n])
  <2>1. \A n \in Posts : post[n] \in PostType
    BY Zenon, <1>0 DEF TypeOf
  <2> QED  BY <1>3, <2>1, PostFreed DEF SamePost
<1>5. TypeOf'
  <2>1. post' \in [Posts -> PostType]
    BY Zenon, <1>1, <1>4 DEF SamePost
  <2> QED  BY Zenon, <1>0, <1>1, <1>2, <2>1 DEF TypeOf
<1>6. GoodFlows' /\ \A x, name : GetActiveFlow(x, name)' = GetActiveFlow(x, name)
  BY Zenon, <1>0, <1>1, FlowsKept
<1>7. ASSUME NEW n \in Posts  PROVE Good(n)'
  <2>1. Good(n) /\ SamePost(post[n], post'[n])
    BY Zenon, <1>4 DEF IInv
  <2>2. Org(n)' = Org(n) /\ Phone(n)' = Phone(n)
    BY Zenon, <2>1 DEF SamePost, Org, Phone
  <2>3. CASE Waits(n, o, p)
    <3>1. post'[n].must = "free" /\ post[n].pc \in {"insert", "upsert"}
      BY SMTT(30), <1>3, <2>1, <2>3, PostFreed DEF SamePost, Waits
    <3> QED  BY Zenon, <1>1, <2>1, <2>2, <3>1 DEF Good, InOrder, SamePost
  <2>4. CASE ~Waits(n, o, p)
    <3>1. post'[n] = post[n]
      BY Zenon, <1>3, <2>4
    <3>2. post[n].pc \in {"insert", "upsert"} => Org(n) \in Orgs
      BY Zenon, <2>1 DEF Good, InOrder, PostType, Org, Keys, SamePost
    <3>3. post[n].pc \in {"insert", "upsert"} /\ Phone(n) \in Phones
            /\ post[n].body.type \in DOMAIN eventFlow
            => customer'[Org(n)][Phone(n)] = customer[Org(n)][Phone(n)]
      BY Zenon, <1>2, <2>4, <3>2 DEF Waits
    <3> QED  BY SMTT(60), ZenonT(60), <1>1, <1>6, <2>1, <2>2, <3>1, <3>3 DEF Good, InOrder
  <2> QED  BY Zenon, <2>3, <2>4
<1>8. OneCarrier'
  <2>1. \A n \in Posts : post'[n].key = post[n].key /\ (Carries(n)' <=> Carries(n))
    BY Zenon, <1>1, <1>4 DEF Carries, SamePost
  <2> QED  BY Zenon, <1>1, <2>1 DEF IInv, OneCarrier
<1>9. EventIsCarried'
  <2>1. \A k : HasCarrier(k) => HasCarrier(k)'
    BY <1>1, <1>4 DEF HasCarrier, At, SamePost
  <2> QED  BY Zenon, <1>1, <2>1 DEF IInv, EventIsCarried
<1> QED  BY Zenon, <1>5, <1>6, <1>7, <1>8, <1>9 DEF IInv

\* What BuildsAreValid says of a request that is r.
Valid(r) ==
    /\ r.pc \in {"check", "insert"} =>
          /\ r.org \in Orgs /\ r.design \in Designs
          /\ r.design.type \in {"ivr", "chat"}
          /\ r.design.type = "ivr" => r.design.spec = "playable"
    /\ r.pc = "insert" => \/ GetActiveFlow(r.org, r.design.name) = {}
                          \/ <<r.org, r.design.name>> \in raced

(* Building a flow: what is checked before the insert holds of the design  *)
(* that is inserted.                                                       *)
LEMMA CreateFlowStep ==
    ASSUME IInv, NEW b \in Builders,
           (\E o \in Orgs, d \in Designs : CreateFlow(b, o, d)) \/ CheckName(b)
    PROVE  IInv'
<1>0. TypeOf /\ GoodFlows /\ build \in [Builders -> BuildType] /\ build[b] \in BuildType
  BY Zenon DEF IInv, TypeOf
<1>1. UNCHANGED <<events, customer, flow, unseeded, post, enqueued, raced, toggles, faults>>
  BY Zenon DEF CreateFlow, CheckName, history, bounds
<1>2. Built \in BuildType /\ Valid(Built)
  BY Zenon DEF Built, NewBuild, BuildType, Valid
<1>3. \E r \in BuildType : Valid(r) /\ build' = [build EXCEPT ![b] = r]
  <2>1. ASSUME NEW o \in Orgs, NEW d \in Designs, CreateFlow(b, o, d)
        PROVE  \E r \in BuildType : Valid(r) /\ build' = [build EXCEPT ![b] = r]
    <3> DEFINE r == [pc |-> "check", org |-> o, design |-> d]
    <3>1. CASE d.type \in {"ivr", "chat"} /\ (d.type = "ivr" => d.spec = "playable")
      <4>1. r \in BuildType /\ Valid(r)
        BY Zenon, <3>1 DEF BuildType, Valid
      <4>2. build' = [build EXCEPT ![b] = r]
        BY Zenon, <2>1, <3>1 DEF CreateFlow
      <4> QED  BY Zenon, <4>1, <4>2
    <3>2. CASE ~(d.type \in {"ivr", "chat"} /\ (d.type = "ivr" => d.spec = "playable"))
      BY Zenon, <1>2, <2>1, <3>2 DEF CreateFlow
    <3> QED  BY Zenon, <3>1, <3>2
  <2>2. ASSUME CheckName(b)
        PROVE  \E r \in BuildType : Valid(r) /\ build' = [build EXCEPT ![b] = r]
    <3> DEFINE r == [build[b] EXCEPT !.pc = "insert"]
    <3>1. CASE GetActiveFlow(build[b].org, build[b].design.name) = {}
      <4>1. Valid(build[b]) /\ build[b].pc = "check"
        BY Zenon, <1>0, <2>2 DEF GoodFlows, BuildsAreValid, Valid, CheckName
      <4>2. r \in BuildType /\ r.pc = "insert" /\ r.org = build[b].org /\ r.design = build[b].design
        BY Zenon, <1>0 DEF BuildType
      <4>3. build' = [build EXCEPT ![b] = r]
        BY Zenon, <2>2, <3>1 DEF CheckName
      <4> HIDE DEF r
      <4>4. Valid(r)
        BY Zenon, <3>1, <4>1, <4>2 DEF Valid
      <4> QED  BY Zenon, <4>2, <4>3, <4>4
    <3>2. CASE GetActiveFlow(build[b].org, build[b].design.name) # {}
      BY Zenon, <1>2, <2>2, <3>2 DEF CheckName
    <3> QED  BY Zenon, <3>1, <3>2
  <2> QED  BY Zenon, <2>1, <2>2
<1>4. PICK r \in BuildType : Valid(r) /\ build' = [build EXCEPT ![b] = r]
  BY Zenon, <1>3
<1>5. TypeOf'
  BY Zenon, <1>0, <1>1, <1>4 DEF TypeOf
<1>6. \A o, name : GetActiveFlow(o, name)' = GetActiveFlow(o, name)
  BY Zenon, <1>1 DEF GetActiveFlow
<1>7. \A c \in Builders : build'[c] = IF c = b THEN r ELSE build[c]
  BY Zenon, <1>0, <1>4
<1>8. GoodFlows'
  BY Zenon, <1>0, <1>1, <1>4, <1>6, <1>7 DEF GoodFlows, BuildsAreValid, Valid, IvrIsPlayable, NamesAreUnique
<1>9. FlowsStay
  BY Zenon, <1>6 DEF FlowsStay
<1> QED  BY Zenon, <1>1, <1>5, <1>8, <1>9, PostsKept DEF IInv

(* A row that can be played is added, under a new name or in a race that   *)
(* was recorded.                                                           *)
LEMMA RowAdded ==
    ASSUME IInv, NEW f \in FlowIds, flow[f] = NoFlow, NEW row \in FlowRows,
           row.type = "ivr" => row.spec = "playable",
           flow' = [flow EXCEPT ![f] = row], raced \subseteq raced',
           GetActiveFlow(row.org, row.name) = {} \/ <<row.org, row.name>> \in raced'
    PROVE  /\ flow' \in [FlowIds -> {NoFlow} \cup FlowRows]
           /\ FlowsStay /\ IvrIsPlayable' /\ NamesAreUnique'
           /\ \A x, name : x # row.org \/ name # row.name =>
                  GetActiveFlow(x, name)' = GetActiveFlow(x, name)
<1>0. /\ IvrIsPlayable /\ NamesAreUnique /\ flow \in [FlowIds -> {NoFlow} \cup FlowRows]
      /\ row # NoFlow
  BY Zenon, IngestAssumption DEF IInv, GoodFlows, TypeOf
<1>1. /\ flow' \in [FlowIds -> {NoFlow} \cup FlowRows] /\ flow'[f] = row
      /\ \A g \in FlowIds : g # f => flow'[g] = flow[g]
  BY Zenon, <1>0
<1>2. ASSUME NEW x, NEW name
      PROVE  GetActiveFlow(x, name)' =
                GetActiveFlow(x, name) \cup (IF x = row.org /\ name = row.name THEN {f} ELSE {})
  <2>1. \A g \in FlowIds : (flow'[g] # NoFlow /\ flow'[g].org = x /\ flow'[g].name = name) <=>
           \/ flow[g] # NoFlow /\ flow[g].org = x /\ flow[g].name = name
           \/ x = row.org /\ name = row.name /\ g = f
    BY Zenon, <1>0, <1>1
  <2> QED  BY Zenon, <2>1 DEF GetActiveFlow
<1>3. FlowsStay
  BY Zenon, <1>2 DEF FlowsStay
<1>4. IvrIsPlayable'
  BY Zenon, <1>0, <1>1 DEF IvrIsPlayable
<1>5. NamesAreUnique'
  <2> SUFFICES ASSUME NEW x \in Orgs, NEW name \in FlowNames, <<x, name>> \notin raced',
                      NEW g \in GetActiveFlow(x, name)', NEW h \in GetActiveFlow(x, name)'
               PROVE  g = h
    BY Zenon DEF NamesAreUnique
  <2>1. \A u, v \in GetActiveFlow(x, name) : u = v
    BY Zenon, <1>0 DEF NamesAreUnique
  <2>2. x = row.org /\ name = row.name => GetActiveFlow(x, name) = {}
    BY Zenon
  <2> QED  BY Zenon, <1>2, <2>1, <2>2
<1>6. \A x, name : x # row.org \/ name # row.name =>
          GetActiveFlow(x, name)' = GetActiveFlow(x, name)
  BY Zenon, <1>2
<1> QED  BY Zenon, <1>1, <1>3, <1>4, <1>5, <1>6

(* A builder's insert.                                                     *)
LEMMA InsertFlowStep ==
    ASSUME IInv, NEW b \in Builders, InsertFlow(b)
    PROVE  IInv'
<1> DEFINE o == build[b].org
           d == build[b].design
           row == Row(o, d)
<1>0. TypeOf /\ BuildsAreValid /\ build \in [Builders -> BuildType]
  BY Zenon DEF IInv, GoodFlows, TypeOf
<1>1. /\ UNCHANGED <<events, customer, unseeded, post, enqueued, toggles, faults>>
      /\ build' = [build EXCEPT ![b] = Built] /\ build[b].pc = "insert"
      /\ raced' = IF \E c \in Builders \ {b} : /\ build[c].pc = "insert" /\ build[c].org = o
                                               /\ build[c].design.name = d.name
                    THEN raced \cup {<<o, d.name>>} ELSE raced
  BY Zenon DEF InsertFlow, bounds
<1>2. PICK f \in FlowIds : flow[f] = NoFlow /\ flow' = [flow EXCEPT ![f] = row]
  BY Zenon DEF InsertFlow
<1>3. /\ o \in Orgs /\ d \in Designs /\ d.type \in {"ivr", "chat"}
      /\ d.type = "ivr" => d.spec = "playable"
      /\ GetActiveFlow(o, d.name) = {} \/ <<o, d.name>> \in raced
  BY Zenon, <1>0, <1>1 DEF BuildsAreValid
<1>4. /\ row \in FlowRows /\ row.org = o /\ row.name = d.name
      /\ row.type = "ivr" => row.spec = "playable"
      /\ d.name \in FlowNames
  <2>1. d \in [name : FlowNames, type : FlowTypes, spec : Specs]
    BY Zenon, <1>3, IngestAssumption
  <2> HIDE DEF o, d
  <2>2. row \in FlowRows
    BY Zenon, <1>3, <2>1 DEF Row, FlowRows
  <2> QED  BY Zenon, <1>3, <2>1, <2>2 DEF Row
<1> HIDE DEF row
<1>5. raced \subseteq raced'
  BY Zenon, <1>1
<1>6. GetActiveFlow(row.org, row.name) = {} \/ <<row.org, row.name>> \in raced'
  BY Zenon, <1>3, <1>4, <1>5
<1>7. /\ flow' \in [FlowIds -> {NoFlow} \cup FlowRows]
      /\ FlowsStay /\ IvrIsPlayable' /\ NamesAreUnique'
      /\ \A x, name : x # row.org \/ name # row.name =>
             GetActiveFlow(x, name)' = GetActiveFlow(x, name)
  BY Zenon, <1>2, <1>4, <1>5, <1>6, RowAdded
<1>8. TypeOf'
  <2>1. raced' \subseteq Orgs \X FlowNames
    BY <1>0, <1>1, <1>3, <1>4 DEF TypeOf
  <2>2. build' \in [Builders -> BuildType]
    BY Zenon, <1>0, <1>1 DEF BuildType, Built, NewBuild
  <2> QED  BY Zenon, <1>0, <1>1, <1>7, <2>1, <2>2 DEF TypeOf
<1>9. BuildsAreValid'
  <2>1. ASSUME NEW c \in Builders, c # b  PROVE BuildsAreValid!(c)'
    <3>1. build'[c] = build[c] /\ BuildsAreValid!(c)
      BY Zenon, <1>0, <1>1, <2>1 DEF BuildsAreValid
    <3>2. CASE build[c].org = o /\ build[c].design.name = d.name /\ build[c].pc = "insert"
      <4> HIDE DEF o, d
      <4> QED  BY <1>1, <2>1, <3>1, <3>2
    <3>3. CASE ~(build[c].org = o /\ build[c].design.name = d.name) \/ build[c].pc # "insert"
      <4> HIDE DEF o, d
      <4> QED  BY Zenon, <1>4, <1>5, <1>7, <3>1, <3>3
    <3> QED  BY Zenon, <3>2, <3>3
  <2>2. build'[b].pc = "done"
    BY Zenon, <1>0, <1>1 DEF Built, NewBuild
  <2> QED  BY Zenon, <2>1, <2>2 DEF BuildsAreValid
<1> QED  BY Zenon, <1>1, <1>7, <1>8, <1>9, PostsKept DEF IInv, GoodFlows

(* The seed's insert, which looks nothing up.                              *)
LEMMA SeedFlowStep ==
    ASSUME IInv, NEW o \in Orgs, SeedFlow(o)
    PROVE  IInv'
<1> DEFINE row == SeedRow(o)
           k == <<o, row.name>>
           met == \/ GetActiveFlow(o, row.name) # {}
                  \/ \E c \in Builders : /\ build[c].pc = "insert" /\ build[c].org = o
                                         /\ build[c].design.name = row.name
<1>0. TypeOf /\ BuildsAreValid
  BY Zenon DEF IInv, GoodFlows
<1>1. /\ UNCHANGED <<events, customer, post, build, enqueued, toggles, faults>>
      /\ unseeded' = unseeded \ {o} /\ raced' = IF met THEN raced \cup {k} ELSE raced
  BY Zenon DEF SeedFlow, bounds
<1>2. PICK f \in FlowIds : flow[f] = NoFlow /\ flow' = [flow EXCEPT ![f] = row]
  BY Zenon DEF SeedFlow
<1>3. /\ row \in FlowRows /\ row.org = o /\ row.spec = "playable" /\ row.name \in FlowNames
  <2>1. "order_confirm" \in FlowNames
    BY Zenon DEF FlowNames, eventFlow
  <2> QED  BY Zenon, <2>1 DEF SeedRow, FlowRows, Specs
<1> HIDE DEF row
<1>4. k \in Orgs \X FlowNames
  BY Zenon, <1>3
<1>5. raced \subseteq raced' /\ (met => k \in raced') /\ raced' \subseteq raced \cup {k}
  BY Zenon, <1>1
<1>6. GetActiveFlow(row.org, row.name) = {} \/ <<row.org, row.name>> \in raced'
  BY Zenon, <1>3, <1>5
<1>7. /\ flow' \in [FlowIds -> {NoFlow} \cup FlowRows]
      /\ FlowsStay /\ IvrIsPlayable' /\ NamesAreUnique'
      /\ \A x, name : x # row.org \/ name # row.name =>
             GetActiveFlow(x, name)' = GetActiveFlow(x, name)
  BY Zenon, <1>2, <1>3, <1>5, <1>6, RowAdded
<1>8. TypeOf'
  <2>1. raced' \subseteq Orgs \X FlowNames /\ unseeded' \subseteq Orgs
    BY Zenon, <1>0, <1>1, <1>4, <1>5 DEF TypeOf
  <2> QED  BY Zenon, <1>0, <1>1, <1>7, <2>1 DEF TypeOf
<1>9. BuildsAreValid'
  <2>1. ASSUME NEW c \in Builders  PROVE BuildsAreValid!(c)'
    <3>1. build'[c] = build[c] /\ BuildsAreValid!(c)
      BY Zenon, <1>0, <1>1 DEF BuildsAreValid
    <3>2. CASE build[c].org = o /\ build[c].design.name = row.name /\ build[c].pc = "insert"
      <4>1. <<build[c].org, build[c].design.name>> \in raced'
        BY Zenon, <1>5, <3>2
      <4> QED  BY Zenon, <3>1, <4>1
    <3>3. CASE ~(build[c].org = o /\ build[c].design.name = row.name) \/ build[c].pc # "insert"
      BY Zenon, <1>3, <1>5, <1>7, <3>1, <3>3
    <3> QED  BY Zenon, <3>2, <3>3
  <2> QED  BY Zenon, <2>1 DEF BuildsAreValid
<1> QED  BY Zenon, <1>1, <1>7, <1>8, <1>9, PostsKept DEF IInv, GoodFlows

(* A flow's spec is replaced: only by one that can be played.              *)
LEMMA UpdateSpecStep ==
    ASSUME IInv, NEW o \in Orgs, NEW f \in FlowIds, NEW spec \in Specs, UpdateSpec(o, f, spec)
    PROVE  IInv'
<1>0. /\ TypeOf /\ BuildsAreValid /\ IvrIsPlayable /\ NamesAreUnique
      /\ flow \in [FlowIds -> {NoFlow} \cup FlowRows]
  BY Zenon DEF IInv, GoodFlows, TypeOf
<1>1. /\ UNCHANGED <<events, customer, unseeded, post, build, enqueued, raced, faults>>
      /\ toggles' \in 0..MaxToggles /\ flow[f] # NoFlow
      /\ flow' = [flow EXCEPT ![f] = [flow[f] EXCEPT !.spec = "playable"]]
  BY <1>0, IngestAssumption DEF UpdateSpec, history, TypeOf
<1> DEFINE row == [flow[f] EXCEPT !.spec = "playable"]
<1>2. /\ row \in FlowRows /\ row.org = flow[f].org /\ row.name = flow[f].name
      /\ row.spec = "playable" /\ row # NoFlow
  BY <1>0, <1>1, IngestAssumption DEF FlowRows, Specs
<1> HIDE DEF row
<1>3. /\ flow' \in [FlowIds -> {NoFlow} \cup FlowRows] /\ flow'[f] = row
      /\ \A g \in FlowIds : g # f => flow'[g] = flow[g]
  BY Zenon, <1>0, <1>1, <1>2 DEF row
<1>4. \A x, name : GetActiveFlow(x, name)' = GetActiveFlow(x, name)
  BY <1>1, <1>2, <1>3 DEF GetActiveFlow
<1>5. TypeOf' /\ FlowsStay
  BY Zenon, <1>0, <1>1, <1>3, <1>4 DEF TypeOf, FlowsStay
<1>6. GoodFlows'
  BY SMTT(60), ZenonT(60), <1>0, <1>1, <1>2, <1>3, <1>4 DEF GoodFlows, BuildsAreValid, IvrIsPlayable, NamesAreUnique
<1> QED  BY Zenon, <1>1, <1>5, <1>6, PostsKept DEF IInv

(* Nothing has been delivered and nothing built.                           *)
LEMMA IngestStart == ASSUME Init PROVE IInv
<1>1. /\ events = {} /\ customer \in [Orgs -> [Phones -> {"none", "dnd"}]]
      /\ flow = [f \in FlowIds |-> NoFlow] /\ unseeded = Orgs
      /\ post = [n \in Posts |-> NewPost] /\ build = [b \in Builders |-> NewBuild]
      /\ enqueued = {} /\ raced = {} /\ toggles = 0 /\ faults = 0
  BY Zenon DEF Init
<1>2. NewPost \in PostType /\ NewPost.pc = "new" /\ NewPost.key = NoKey /\ NewPost.code = 0
      /\ NewPost.flow = NoFlow
  <2>1. [type |-> "refunded", phone |-> NoPhone] \in Bodies
    BY Zenon DEF Bodies, Types
  <2> QED  BY Zenon, <2>1 DEF NewPost, PostType, PCs, Answers, Musts
<1>3. \A n \in Posts : post[n] = NewPost
  BY Zenon, <1>1
<1>4. NewBuild.pc = "new" /\ NewBuild \in BuildType
  BY Zenon DEF NewBuild, BuildType
<1>5. \A f \in FlowIds : flow[f] = NoFlow
  BY Zenon, <1>1
<1>6. TypeOf
  <2>1. /\ post \in [Posts -> PostType] /\ flow \in [FlowIds -> {NoFlow} \cup FlowRows]
        /\ customer \in [Orgs -> [Phones -> {"none", "ok", "dnd"}]]
        /\ toggles \in 0..MaxToggles /\ faults \in 0..MaxFaults
    BY <1>1, <1>2, IngestAssumption
  <2> QED  BY Zenon, <1>1, <1>4, <2>1 DEF TypeOf
<1>7. OneCarrier /\ EventIsCarried
  BY Zenon, <1>1, <1>2, <1>3 DEF OneCarrier, Carries, EventIsCarried
<1>8. \A n \in Posts : Good(n)
  BY <1>1, <1>2, <1>3 DEF Good, InOrder
<1>9. GoodFlows
  <2>1. BuildsAreValid /\ IvrIsPlayable
    BY Zenon, <1>1, <1>4, <1>5 DEF BuildsAreValid, IvrIsPlayable
  <2>2. NamesAreUnique
    BY Zenon, <1>5 DEF NamesAreUnique, GetActiveFlow
  <2> QED  BY Zenon, <2>1, <2>2 DEF GoodFlows
<1> QED  BY Zenon, <1>6, <1>7, <1>8, <1>9 DEF IInv

(* Every step of the deliveries, the builders and the flags keeps the      *)
(* invariant.                                                              *)
LEMMA IngestStep == ASSUME IInv, [Next]_vars  PROVE IInv'
<1>1. CASE UNCHANGED vars
  <2>1. UNCHANGED <<events, customer, flow, unseeded, post, build, enqueued, raced, toggles, faults>>
    BY Zenon, <1>1 DEF vars, history, bounds
  <2>2. TypeOf'
    BY Zenon, <2>1 DEF IInv, TypeOf
  <2> QED  BY Zenon, <2>1, <2>2, FlowsKept, PostsKept DEF IInv
<1>2. CASE Next
  BY Zenon, <1>2, PostEventStep, InsertEventStep, UpsertCustomerStep, RouteFlowStep, EndingStep,
     SetDNDStep, CreateFlowStep, InsertFlowStep, SeedFlowStep, UpdateSpecStep DEF Next, Step
<1> QED  BY Zenon, <1>1, <1>2

(* What the invariant says of calls: one for an event, and one for every   *)
(* event that is owed one.                                                 *)
LEMMA IngestMeaning == ASSUME IInv  PROVE IngestInv /\ CalledAtMostOnce /\ EventIsCalledFor
<1>1. IngestInv
  BY Zenon, InvParts
<1>2. enqueued \subseteq Posts /\ OneCarrier /\ EventIsCarried
  BY Zenon DEF IInv, TypeOf
<1>3. CalledAtMostOnce
  BY Zenon, <1>2 DEF CalledAtMostOnce, OneCarrier, Carries
<1>4. EventIsCalledFor
  BY Zenon, <1>2 DEF EventIsCalledFor, Settled, EventIsCarried, HasCarrier, At
<1> QED  BY Zenon, <1>1, <1>3, <1>4

(* The intake keeps its invariant and its two promises in every run.       *)
THEOREM IntakeIsSound == Spec => [](IngestInv /\ CalledAtMostOnce /\ EventIsCalledFor)
BY IngestStart, IngestStep, IngestMeaning, PTL DEF Spec

(* Through failures, redeliveries and concurrent edits: a customer on      *)
(* do-not-disturb throughout Accept is not called, a delivery answered 202 *)
(* that had to call has called, by the org's own flow for the event's      *)
(* type, and that flow is playable.                                        *)
THEOREM IntakeInvariant == Spec => []IngestInv
BY IntakeIsSound, PTL

(* However often the shop redelivers an event, at most one call is         *)
(* enqueued for it.                                                        *)
THEOREM OneCallPerEvent == Spec => []CalledAtMostOnce
BY IntakeIsSound, PTL

(* Without failures every stored event whose deliveries have all been      *)
(* answered has had its call, if one was owed.                             *)
THEOREM EventsAreCalledFor == Spec => []EventIsCalledFor
BY IntakeIsSound, PTL

-------------------------------------------------------------------------------
(* The calls table.                                                        *)

(* A transcribe request that was let in is about a call of its own org.    *)
TranscriberSound(h) ==
    req[h].pc # "idle" =>
        /\ req[h].call \in CallIds /\ req[h].org \in Merchants /\ req[h].recording \in Recordings
        /\ call[req[h].call] # NoCall /\ call[req[h].call].org = req[h].org

(* A sweep that waits has read a clock that has only gone on since.        *)
CutoffIsPast == sweeper.busy => sweeper.cutoff <= now - RetentionWindow

(* What every step of the calls table keeps.                               *)
TableInv ==
    /\ CallRecordsTypeOK
    /\ TranscriptOfRecording
    /\ MediaFromOwner
    /\ \A h \in Transcribers : TranscriberSound(h)
    /\ CutoffIsPast

(* The empty call and the idle request.                                    *)
LEMMA EmptyRecords ==
    /\ NoCall \in Call /\ NoRequest \in TranscribeReq /\ NoRequest.pc = "idle"
    /\ NoCall.transcript = NoCall.recording /\ NoCall.by = None /\ NoCall.status = "none"
    /\ NoSweep \in [busy : BOOLEAN, cutoff : -RetentionWindow..MaxTime] /\ ~NoSweep.busy
<1>1. 0 \in 0..MaxTime /\ 0 \in 0..MaxCalls /\ 0 \in -RetentionWindow..MaxTime
  BY CallRecordsAssumption
<1> QED  BY Zenon, <1>1 DEF NoCall, NoRequest, NoSweep, Call, TranscribeReq

(* What the invariant says of one call and of one request.                 *)
LEMMA TableFacts ==
    ASSUME TableInv
    PROVE  /\ call \in [CallIds -> Call] /\ req \in [Transcribers -> TranscribeReq]
           /\ now \in Int /\ RetentionWindow \in Int /\ MaxTime \in Int /\ now \in 0..MaxTime
           /\ \A c \in CallIds : /\ call[c] \in Call /\ call[c].transcript = call[c].recording
                                 /\ call[c].by \in {None, call[c].org}
           /\ \A h \in Transcribers : req[h] \in TranscribeReq /\ TranscriberSound(h)
<1>1. MaxTime \in Int /\ RetentionWindow \in Int
  BY CallRecordsAssumption
<1>2. now \in 0..MaxTime
  BY Zenon DEF TableInv, CallRecordsTypeOK
<1>3. now \in Int
  BY <1>1, <1>2
<1> QED
  BY Zenon, <1>1, <1>2, <1>3 DEF TableInv, CallRecordsTypeOK, TranscriptOfRecording, MediaFromOwner

(* Some calls are written, no request moves: a call that somebody is       *)
(* transcribing stays a call of its org.                                   *)
LEMMA WrittenStep ==
    ASSUME TableInv, UNCHANGED req,
           call' \in [CallIds -> Call],
           \A c \in CallIds : /\ call'[c].transcript = call'[c].recording
                              /\ call'[c].by \in {None, call'[c].org}
                              /\ call[c] # NoCall => call'[c] # NoCall /\ call'[c].org = call[c].org
    PROVE  /\ TranscriptOfRecording' /\ MediaFromOwner'
           /\ \A h \in Transcribers : TranscriberSound(h)'
<1>1. TranscriptOfRecording' /\ MediaFromOwner'
  BY Zenon DEF TranscriptOfRecording, MediaFromOwner, CallIds
<1>2. ASSUME NEW h \in Transcribers  PROVE TranscriberSound(h)'
  <2>1. TranscriberSound(h) /\ req'[h] = req[h]
    BY Zenon, TableFacts
  <2> QED  BY Zenon, <2>1 DEF TranscriberSound, CallIds
<1> QED  BY Zenon, <1>1, <1>2

(* One request moves, the table does not change.                           *)
LEMMA RequestStep ==
    ASSUME TableInv, NEW h \in Transcribers, NEW r \in TranscribeReq,
           req' = [req EXCEPT ![h] = r], TranscriberSound(h)',
           requests' \in 0..MaxRequests, UNCHANGED <<now, call, sweeper, sweepFaults>>
    PROVE  TableInv'
<1>1. req' \in [Transcribers -> TranscribeReq] /\ \A g \in Transcribers : g # h => req'[g] = req[g]
  BY Zenon, TableFacts
<1>2. CallRecordsTypeOK'
  BY Zenon, <1>1 DEF TableInv, CallRecordsTypeOK
<1>3. ASSUME NEW g \in Transcribers  PROVE TranscriberSound(g)'
  <2>1. CASE g = h
    BY Zenon, <2>1
  <2>2. CASE g # h
    BY Zenon, <1>1, <2>2, TableFacts DEF TranscriberSound, CallIds
  <2> QED  BY Zenon, <2>1, <2>2
<1> QED
  BY Zenon, <1>2, <1>3 DEF TableInv, TranscriptOfRecording, MediaFromOwner, CutoffIsPast, CallIds

(* A day passes.                                                           *)
LEMMA DayStep ==
    ASSUME TableInv, DayPasses
    PROVE  TableInv'
<1>1. now < MaxTime /\ now' = now + 1 /\ UNCHANGED <<call, req, requests, sweeper, sweepFaults>>
  BY Zenon DEF DayPasses
<1>2. now' \in 0..MaxTime
  BY <1>1, TableFacts
<1>3. CutoffIsPast'
  <2>1. sweeper \in [busy : BOOLEAN, cutoff : -RetentionWindow..MaxTime] /\ CutoffIsPast
    BY Zenon DEF TableInv, CallRecordsTypeOK
  <2>2. sweeper.cutoff \in Int
    BY <2>1, TableFacts
  <2> QED  BY <1>1, <2>1, <2>2, TableFacts DEF CutoffIsPast
<1> QED
  BY Zenon, <1>1, <1>2, <1>3
     DEF TableInv, CallRecordsTypeOK, TranscriptOfRecording, MediaFromOwner, TranscriberSound, CallIds

(* A call is placed.                                                       *)
LEMMA CreateCallStep ==
    ASSUME TableInv, NEW o \in Merchants, CreateCall(o)
    PROVE  TableInv'
<1> DEFINE unused == {c \in CallIds : call[c] = NoCall}
           n == CHOOSE c \in unused : TRUE
           row == [NoCall EXCEPT !.status = "kept", !.org = o, !.created = now]
<1>1. /\ unused # {} /\ call' = [call EXCEPT ![n] = row]
      /\ UNCHANGED <<now, req, requests, sweeper, sweepFaults>>
  BY Zenon DEF CreateCall
<1>2. n \in unused
  BY Zenon, <1>1
<1> HIDE DEF n
<1>3. n \in CallIds /\ call[n] = NoCall
  BY Zenon, <1>2
<1>4. row \in Call /\ row.transcript = row.recording /\ row.by = None
  BY Zenon, TableFacts, EmptyRecords DEF Call
<1> HIDE DEF row
<1>5. /\ call' \in [CallIds -> Call] /\ call'[n] = row
      /\ \A c \in CallIds : c # n => call'[c] = call[c]
  BY Zenon, <1>1, <1>3, <1>4, TableFacts
<1>6. \A c \in CallIds : /\ call'[c].transcript = call'[c].recording
                         /\ call'[c].by \in {None, call'[c].org}
                         /\ call[c] # NoCall => call'[c] # NoCall /\ call'[c].org = call[c].org
  BY Zenon, <1>3, <1>4, <1>5, TableFacts
<1>7. CallRecordsTypeOK'
  BY Zenon, <1>1, <1>5 DEF TableInv, CallRecordsTypeOK
<1>8. CutoffIsPast'
  BY Zenon, <1>1 DEF TableInv, CutoffIsPast
<1> QED  BY Zenon, <1>1, <1>5, <1>6, <1>7, <1>8, WrittenStep DEF TableInv

(* A request is let in, or its text is there.                              *)
LEMMA TranscribeStep ==
    ASSUME TableInv, NEW h \in Transcribers,
           \/ \E o \in Merchants, c \in CallIds, r \in Recordings : TranscribeCall(h, o, c, r)
           \/ Transcribe(h)
           \/ TranscribeFails(h)
    PROVE  TableInv'
<1>0. requests \in 0..MaxRequests
  BY Zenon DEF TableInv, CallRecordsTypeOK
<1>1. ASSUME NEW o \in Merchants, NEW c \in CallIds, NEW r \in Recordings, TranscribeCall(h, o, c, r)
      PROVE  TableInv'
  <2> DEFINE q == [pc |-> "fetch", org |-> o, call |-> c, recording |-> r]
  <2>1. /\ requests < MaxRequests /\ requests' = requests + 1 /\ req' = [req EXCEPT ![h] = q]
        /\ call[c].status = "kept" /\ call[c].org = o
        /\ UNCHANGED <<now, call, sweeper, sweepFaults>>
    BY Zenon, <1>1 DEF TranscribeCall, Get, Found
  <2>2. requests' \in 0..MaxRequests
    BY <1>0, <2>1, CallRecordsAssumption
  <2>3. c \in 0..MaxCalls
    BY DEF CallIds
  <2>4. q \in TranscribeReq /\ q.call = c /\ q.org = o /\ q.recording = r
    BY Zenon, <2>3 DEF TranscribeReq
  <2> HIDE DEF q
  <2>5. req'[h] = q
    BY Zenon, <2>1, TableFacts
  <2>6. TranscriberSound(h)'
    <3>1. call[c] # NoCall
      BY Zenon, <2>1, EmptyRecords
    <3> QED  BY Zenon, <2>1, <2>4, <2>5, <3>1 DEF TranscriberSound, CallIds
  <2> QED  BY Zenon, <2>1, <2>2, <2>4, <2>6, RequestStep
<1>2. ASSUME Transcribe(h)  PROVE TableInv'
  <2> DEFINE q == [req[h] EXCEPT !.pc = "attach"]
  <2>1. /\ req[h].pc = "fetch" /\ req' = [req EXCEPT ![h] = q]
        /\ UNCHANGED <<now, call, requests, sweeper, sweepFaults>>
    BY Zenon, <1>2 DEF Transcribe, RequestAt
  <2>2. /\ q \in TranscribeReq /\ q.call = req[h].call /\ q.org = req[h].org
        /\ q.recording = req[h].recording
    BY Zenon, TableFacts DEF TranscribeReq
  <2> HIDE DEF q
  <2>3. req'[h] = q
    BY Zenon, <2>1, TableFacts
  <2>4. TranscriberSound(h)'
    <3>1. TranscriberSound(h)
      BY Zenon, TableFacts
    <3> QED  BY Zenon, <2>1, <2>2, <2>3, <3>1 DEF TranscriberSound, CallIds
  <2> QED  BY Zenon, <1>0, <2>1, <2>2, <2>4, RequestStep
<1>3. ASSUME TranscribeFails(h)  PROVE TableInv'
  <2>1. req' = [req EXCEPT ![h] = NoRequest] /\ UNCHANGED <<now, call, requests, sweeper, sweepFaults>>
    BY Zenon, <1>3 DEF TranscribeFails
  <2>2. TranscriberSound(h)'
    BY Zenon, <2>1, TableFacts, EmptyRecords DEF TranscriberSound
  <2> QED  BY Zenon, <1>0, <2>1, <2>2, EmptyRecords, RequestStep
<1> QED  BY Zenon, <1>1, <1>2, <1>3

(* The recording and its text are attached in one statement, if the call   *)
(* is still there.                                                         *)
LEMMA AttachStep ==
    ASSUME TableInv, NEW h \in Transcribers, AttachMedia(h)
    PROVE  TableInv'
<1> DEFINE k == req[h].call
           row == [call[k] EXCEPT !.recording = req[h].recording,
                                  !.transcript = req[h].recording, !.by = req[h].org]
<1>1. /\ req[h].pc = "attach" /\ req' = [req EXCEPT ![h] = NoRequest]
      /\ UNCHANGED <<now, requests, sweeper, sweepFaults>>
      /\ \/ UNCHANGED call
         \/ AttachCallMedia(k, req[h].recording, req[h].org)
  BY Zenon DEF AttachMedia, RequestAt
<1>2. /\ k \in CallIds /\ req[h].org \in Merchants /\ req[h].recording \in Recordings
      /\ call[k] # NoCall /\ call[k].org = req[h].org /\ call[k] \in Call
  BY Zenon, <1>1, TableFacts DEF TranscriberSound
<1>3. AttachCallMedia(k, req[h].recording, req[h].org) => call' = [call EXCEPT ![k] = row]
  BY Zenon, <1>2, TableFacts DEF AttachCallMedia
<1>4. /\ row \in Call /\ row.recording = row.transcript /\ row.by = req[h].org
      /\ row.org = call[k].org /\ row.recording = req[h].recording
  BY Zenon, <1>2 DEF Call
<1>5. row # NoCall
  BY Zenon, <1>2, <1>4, CallRecordsAssumption DEF NoCall
<1> HIDE DEF row
<1>6. /\ call' \in [CallIds -> Call]
      /\ \A c \in CallIds : call'[c] = call[c] \/ (c = k /\ call'[c] = row)
  BY Zenon, <1>1, <1>2, <1>3, <1>4, TableFacts
<1>7. \A c \in CallIds : /\ call'[c].transcript = call'[c].recording
                         /\ call'[c].by \in {None, call'[c].org}
                         /\ call[c] # NoCall => call'[c] # NoCall /\ call'[c].org = call[c].org
  <2> TAKE c \in CallIds
  <2>1. CASE call'[c] = call[c]
    BY Zenon, <2>1, TableFacts
  <2>2. CASE c = k /\ call'[c] = row
    BY Zenon, <1>2, <1>4, <1>5, <2>2
  <2> QED  BY Zenon, <1>6, <2>1, <2>2
<1>8. TranscriptOfRecording' /\ MediaFromOwner'
  BY Zenon, <1>7 DEF TranscriptOfRecording, MediaFromOwner, CallIds
<1>9. /\ req' \in [Transcribers -> TranscribeReq] /\ req'[h] = NoRequest
      /\ \A g \in Transcribers : g # h => req'[g] = req[g]
  BY Zenon, <1>1, TableFacts, EmptyRecords
<1>10. ASSUME NEW g \in Transcribers  PROVE TranscriberSound(g)'
  <2>1. CASE g = h
    BY Zenon, <1>9, <2>1, EmptyRecords DEF TranscriberSound
  <2>2. CASE g # h
    <3>1. TranscriberSound(g) /\ req'[g] = req[g]
      BY Zenon, <1>9, <2>2, TableFacts
    <3> QED  BY Zenon, <1>7, <3>1 DEF TranscriberSound, CallIds
  <2> QED  BY Zenon, <2>1, <2>2
<1>11. CallRecordsTypeOK' /\ CutoffIsPast'
  BY Zenon, <1>1, <1>6, <1>9 DEF TableInv, CallRecordsTypeOK, CutoffIsPast
<1> QED  BY Zenon, <1>8, <1>10, <1>11 DEF TableInv

(* The retention loop reads the clock, or gives up.                        *)
LEMMA SweeperStep ==
    ASSUME TableInv, RetentionTick \/ SweepFails
    PROVE  TableInv'
<1>0. sweepFaults \in 0..MaxSweepFaults
  BY Zenon DEF TableInv, CallRecordsTypeOK
<1>1. UNCHANGED <<now, call, req, requests>>
  BY Zenon DEF RetentionTick, SweepFails
<1>2. /\ sweeper' \in [busy : BOOLEAN, cutoff : -RetentionWindow..MaxTime]
      /\ CutoffIsPast' /\ sweepFaults' \in 0..MaxSweepFaults
  <2>1. CASE RetentionTick
    <3>1. now - RetentionWindow \in -RetentionWindow..MaxTime
      BY TableFacts, CallRecordsAssumption
    <3>2. sweeper' = [busy |-> TRUE, cutoff |-> now - RetentionWindow] /\ UNCHANGED <<now, sweepFaults>>
      BY Zenon, <2>1 DEF RetentionTick
    <3>3. /\ sweeper' \in [busy : BOOLEAN, cutoff : -RetentionWindow..MaxTime]
          /\ sweeper'.cutoff = now' - RetentionWindow
      BY Zenon, <3>1, <3>2
    <3>4. now' - RetentionWindow <= now' - RetentionWindow
      BY <1>1, TableFacts
    <3> QED  BY Zenon, <1>0, <3>2, <3>3, <3>4 DEF CutoffIsPast
  <2>2. CASE SweepFails
    <3>1. sweeper' = NoSweep /\ sweepFaults < MaxSweepFaults /\ sweepFaults' = sweepFaults + 1
      BY Zenon, <2>2 DEF SweepFails
    <3>2. sweepFaults' \in 0..MaxSweepFaults
      BY <1>0, <3>1, CallRecordsAssumption
    <3> QED  BY Zenon, <3>1, <3>2, EmptyRecords DEF CutoffIsPast
  <2> QED  BY Zenon, <2>1, <2>2
<1> QED
  BY Zenon, <1>1, <1>2
     DEF TableInv, CallRecordsTypeOK, TranscriptOfRecording, MediaFromOwner, TranscriberSound, CallIds

(* The DELETE takes calls that are older than the window, and only them.   *)
LEMMA DeleteTakesOld ==
    ASSUME TableInv, DeleteBefore
    PROVE  /\ TableInv'
           /\ \A c \in CallIds : call[c].status = "kept" /\ call'[c].status = "deleted" =>
                  now - call[c].created > RetentionWindow
<1>1. /\ call' = [c \in CallIds |->
                     IF CreatedBefore(c) THEN [call[c] EXCEPT !.status = "deleted"] ELSE call[c]]
      /\ sweeper.busy /\ sweeper' = NoSweep /\ UNCHANGED <<now, req, requests, sweepFaults>>
  BY Zenon DEF DeleteBefore
<1>2. ASSUME NEW c \in CallIds
      PROVE  /\ call'[c] \in Call /\ call'[c].transcript = call[c].transcript
             /\ call'[c].recording = call[c].recording /\ call'[c].by = call[c].by
             /\ call'[c].org = call[c].org
             /\ call[c] # NoCall => call'[c] # NoCall
             /\ call'[c] # call[c] => CreatedBefore(c)
  <2>1. call[c] \in Call
    BY Zenon, TableFacts
  <2>2. CASE CreatedBefore(c)
    <3> DEFINE row == [call[c] EXCEPT !.status = "deleted"]
    <3>1. call'[c] = row
      BY Zenon, <1>1, <2>2
    <3>2. /\ row \in Call /\ row.status = "deleted" /\ row.transcript = call[c].transcript
          /\ row.recording = call[c].recording /\ row.by = call[c].by /\ row.org = call[c].org
      BY Zenon, <2>1 DEF Call
    <3> HIDE DEF row
    <3>3. row # NoCall
      BY Zenon, <3>2, EmptyRecords
    <3> QED  BY Zenon, <2>2, <3>1, <3>2, <3>3
  <2>3. CASE ~CreatedBefore(c)
    BY Zenon, <1>1, <2>1, <2>3
  <2> QED  BY Zenon, <2>2, <2>3
<1>3. call' \in [CallIds -> Call]
  BY Zenon, <1>1, <1>2
<1>4. /\ TranscriptOfRecording' /\ MediaFromOwner'
      /\ \A h \in Transcribers : TranscriberSound(h)'
  <2>1. \A c \in CallIds : /\ call'[c].transcript = call'[c].recording
                           /\ call'[c].by \in {None, call'[c].org}
                           /\ call[c] # NoCall => call'[c] # NoCall /\ call'[c].org = call[c].org
    BY Zenon, <1>2, TableFacts
  <2> QED  BY Zenon, <1>1, <1>3, <2>1, WrittenStep
<1>5. CallRecordsTypeOK' /\ CutoffIsPast'
  BY Zenon, <1>1, <1>3, EmptyRecords DEF TableInv, CallRecordsTypeOK, CutoffIsPast
<1>6. ASSUME NEW c \in CallIds, call[c].status = "kept", call'[c].status = "deleted"
      PROVE  now - call[c].created > RetentionWindow
  <2>1. CreatedBefore(c)
    BY Zenon, <1>2, <1>6
  <2>2. /\ call[c].created < sweeper.cutoff /\ sweeper.cutoff <= now - RetentionWindow
    BY Zenon, <1>1, <2>1 DEF CreatedBefore, TableInv, CutoffIsPast
  <2>3. call[c].created \in 0..MaxTime /\ sweeper.cutoff \in -RetentionWindow..MaxTime
    BY Zenon, TableFacts DEF TableInv, CallRecordsTypeOK, Call
  <2> QED  BY <2>2, <2>3, TableFacts
<1> QED  BY Zenon, <1>4, <1>5, <1>6 DEF TableInv

(* No other step deletes a call.                                           *)
LEMMA OnlySweepsDelete ==
    ASSUME TableInv, NEW c \in CallIds, call[c].status = "kept", call'[c].status = "deleted",
           RecordsNext \/ UNCHANGED recordVars
    PROVE  DeleteBefore
<1>1. call' # call
  BY Zenon
<1>2. ASSUME NEW o \in Merchants, CreateCall(o)  PROVE FALSE
  <2> DEFINE unused == {d \in CallIds : call[d] = NoCall}
             n == CHOOSE d \in unused : TRUE
             row == [NoCall EXCEPT !.status = "kept", !.org = o, !.created = now]
  <2>1. call' = [call EXCEPT ![n] = row]
    BY Zenon, <1>2 DEF CreateCall
  <2>2. row.status = "kept"
    BY Zenon, EmptyRecords DEF Call
  <2> HIDE DEF row, n
  <2>3. call'[c] = call[c] \/ call'[c] = row
    BY Zenon, <2>1, TableFacts
  <2> QED  BY Zenon, <2>2, <2>3
<1>3. ASSUME NEW h \in Transcribers, AttachMedia(h)  PROVE FALSE
  <2>1. \/ call' = call
        \/ call' = [call EXCEPT ![req[h].call] =
                        [call[req[h].call] EXCEPT !.recording = req[h].recording,
                              !.transcript = req[h].recording, !.by = req[h].org]]
    <3>1. req[h].call \in CallIds
      BY Zenon, <1>3, TableFacts DEF AttachMedia, RequestAt, TranscriberSound
    <3> QED  BY Zenon, <1>3, <3>1, TableFacts DEF AttachMedia, AttachCallMedia
  <2> DEFINE k == req[h].call
             row == [call[k] EXCEPT !.recording = req[h].recording,
                                    !.transcript = req[h].recording, !.by = req[h].org]
  <2>2. ASSUME c = k  PROVE row.status = call[c].status
    BY Zenon, <2>2, TableFacts DEF Call
  <2> HIDE DEF row
  <2>3. call'[c] = call[c] \/ (c = k /\ call'[c] = row)
    BY Zenon, <2>1, TableFacts DEF row
  <2> QED  BY Zenon, <2>2, <2>3
<1> QED
  BY Zenon, <1>1, <1>2, <1>3
     DEF RecordsNext, recordVars, DayPasses, TranscribeCall, Transcribe, TranscribeFails,
         RetentionTick, SweepFails

(* Every step keeps the invariant of the calls table.                      *)
LEMMA TableStep ==
    ASSUME TableInv, [RecordsNext]_recordVars
    PROVE  TableInv'
<1>1. ASSUME UNCHANGED recordVars  PROVE TableInv'
  BY Zenon, <1>1
     DEF recordVars, TableInv, CallRecordsTypeOK, TranscriptOfRecording, MediaFromOwner,
         TranscriberSound, CutoffIsPast, CallIds
<1> QED
  BY Zenon, <1>1, DayStep, CreateCallStep, TranscribeStep, AttachStep, SweeperStep, DeleteTakesOld
     DEF RecordsNext

(* There are no calls and nobody asks for one.                             *)
LEMMA TableStart ==
    ASSUME RecordsInit
    PROVE  TableInv
<1>1. /\ 0 \in 0..MaxTime /\ 0 \in 0..MaxRequests /\ 0 \in 0..MaxSweepFaults
  BY CallRecordsAssumption
<1>2. CallRecordsTypeOK
  BY Zenon, <1>1, EmptyRecords DEF RecordsInit, CallRecordsTypeOK
<1>3. TranscriptOfRecording /\ MediaFromOwner
  BY Zenon, EmptyRecords DEF RecordsInit, TranscriptOfRecording, MediaFromOwner
<1>4. \A h \in Transcribers : TranscriberSound(h)
  BY Zenon, EmptyRecords DEF RecordsInit, TranscriberSound
<1>5. CutoffIsPast
  BY Zenon, EmptyRecords DEF RecordsInit, CutoffIsPast
<1> QED  BY Zenon, <1>2, <1>3, <1>4, <1>5 DEF TableInv

(* The transcript of a call is that of the recording it names, attached by *)
(* a request of the call's own org, for any calls, orgs and overlapping    *)
(* requests and whenever the retention sweep comes in between.             *)
THEOREM RecordsAreOwned == RecordsSpec => []RecordsInv
<1>1. RecordsInit => TableInv
  BY Zenon, TableStart
<1>2. TableInv /\ [RecordsNext]_recordVars => TableInv'
  BY Zenon, TableStep
<1>3. TableInv => RecordsInv
  BY Zenon DEF TableInv, RecordsInv
<1> QED  BY <1>1, <1>2, <1>3, PTL DEF RecordsSpec

(* Retention deletes no call inside the window, however late the DELETE    *)
(* runs after its clock reading, for every window.                         *)
THEOREM RetentionKeepsWindow == RecordsSpec => KeptForWindow
<1> DEFINE Late == \A c \in CallIds : call[c].status = "kept" /\ call'[c].status = "deleted" =>
                       now - call[c].created > RetentionWindow
<1>1. RecordsInit => TableInv
  BY Zenon, TableStart
<1>2. TableInv /\ [RecordsNext]_recordVars => TableInv'
  BY Zenon, TableStep
<1>3. TableInv /\ [RecordsNext]_recordVars => [Late]_recordVars
  BY Zenon, OnlySweepsDelete, DeleteTakesOld
<1> QED  BY <1>1, <1>2, <1>3, PTL DEF RecordsSpec, KeptForWindow
===============================================================================
