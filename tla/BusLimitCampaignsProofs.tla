----------------------- MODULE BusLimitCampaignsProofs ------------------------
(***************************************************************************)
(* Three parts of one process, for every size.  The activity bus never     *)
(* sends on a closed channel and feeds every subscriber in order, for any  *)
(* number of publishers, subscribers and orgs; the rate limiter holds its  *)
(* rate, and serves a whole burst, for every burst, cost, number of        *)
(* clients and of concurrent requests; campaigns are dispatched in full,   *)
(* disturb nobody who asked not to be, and call each phone once, for any   *)
(* number of campaigns, phones, requests and uploads.                      *)
(***************************************************************************)
EXTENDS Bus, RateLimit, Campaigns, TLAPS

(* What the proofs about channels use of sequences: the empty one, one     *)
(* value sent, one received.                                               *)
LEMMA SeqEmpty == ASSUME NEW S  PROVE <<>> \in Seq(S) /\ Len(<<>>) = 0
OBVIOUS

(* The values in a channel's buffer.                                       *)
LEMMA SeqLength ==
    ASSUME NEW S, NEW s \in Seq(S)
    PROVE  Len(s) \in Nat /\ DOMAIN s = 1..Len(s) /\ \A i \in 1..Len(s) : s[i] \in S
OBVIOUS

(* A send appends one value.                                               *)
LEMMA SeqSent ==
    ASSUME NEW S, NEW s \in Seq(S), NEW e \in S
    PROVE  /\ Append(s, e) \in Seq(S) /\ Append(s, e) # <<>>
           /\ Len(Append(s, e)) = Len(s) + 1
           /\ Append(s, e)[Len(s) + 1] = e
           /\ \A i \in 1..Len(s) : Append(s, e)[i] = s[i]
OBVIOUS

(* A receive takes the oldest value.                                       *)
LEMMA SeqReceived ==
    ASSUME NEW S, NEW s \in Seq(S), s # <<>>
    PROVE  /\ Head(s) \in S /\ Tail(s) \in Seq(S)
           /\ Len(Tail(s)) = Len(s) - 1
           /\ \A i \in 1..(Len(s) - 1) : Tail(s)[i] = s[i + 1]
OBVIOUS

-------------------------------------------------------------------------------
(* The activity bus.                                                       *)

(* The bus starts empty and unlocked.                                      *)
LEMMA InitBus == BusInit => BusInv
<1> SUFFICES ASSUME BusInit PROVE BusInv
  BY Zenon
<1>1. BusTypeOK
  <2>1. <<>> \in Seq(Events)
    BY Zenon, SeqEmpty
  <2>2. buf \in [Subscribers -> Seq(Events)] /\ seen \in [Subscribers -> Seq(Events)]
    BY Zenon, <2>1 DEF BusInit
  <2>3. pub \in [Publishers -> PubState] /\ sub \in [Subscribers -> SubState]
    BY Zenon DEF BusInit, PubState, SubState, IdlePub, IdleSub
  <2>4. published \in 0..MaxEvents
    BY BusAssumption DEF BusInit
  <2>5. sent \in [Events -> (Orgs \X Publishers) \cup {NoOrg}]
    BY Zenon DEF BusInit
  <2> QED
    BY Zenon, <2>2, <2>3, <2>4, <2>5 DEF BusInit, BusTypeOK
<1>2. LockProtects
  BY Zenon DEF BusInit, LockProtects, IdlePub, IdleSub
<1>3. RegisteredIsOpen
  BY Zenon DEF BusInit, RegisteredIsOpen, IdlePub, IdleSub
<1> QED  BY Zenon, <1>1, <1>2, <1>3 DEF BusInit, BusInv, NeverPanics

(* Every step of a publisher or a subscriber keeps the invariant.          *)
LEMMA NextBus == BusInv /\ [BusNext]_busVars => BusInv'
<1> SUFFICES ASSUME BusInv, [BusNext]_busVars PROVE BusInv'
  BY Zenon
<1>0. BusTypeOK /\ LockProtects /\ RegisteredIsOpen /\ NeverPanics
  BY Zenon DEF BusInv
<1>1. ASSUME NEW p \in Publishers, NEW o \in Orgs, Publish(p, o)
      PROVE  BusInv'
  <2>1. BusTypeOK'
    <3>1. published + 1 \in Events /\ published' \in 0..MaxEvents
      BY <1>0, <1>1, BusAssumption DEF Publish, BusTypeOK, Events
    <3>2. pub' \in [Publishers -> PubState]
      BY ZenonT(60), <1>0, <1>1, <3>1 DEF Publish, BusTypeOK, PubState
    <3>3. sent' \in [Events -> (Orgs \X Publishers) \cup {NoOrg}]
      <4>1. <<o, p>> \in (Orgs \X Publishers) \cup {NoOrg}
        BY Zenon
      <4> HIDE DEF Events
      <4> QED  BY Zenon, <1>0, <1>1, <3>1, <4>1, Zenon DEF Publish, BusTypeOK
    <3> QED  BY Zenon, <1>0, <1>1, <3>1, <3>2, <3>3 DEF Publish, BusTypeOK
  <2>2. LockProtects'
    BY <1>0, <1>1 DEF Publish, BusTypeOK, PubState, SubState, LockProtects
  <2>3. RegisteredIsOpen'
    BY <1>0, <1>1, BusAssumption DEF Publish, BusTypeOK, PubState, RegisteredIsOpen, Events
  <2> QED  BY Zenon, <1>0, <1>1, <2>1, <2>2, <2>3 DEF Publish, BusInv, NeverPanics
<1>2. ASSUME NEW p \in Publishers, RLock(p)
      PROVE  BusInv'
  <2>0. pub[p].org \in Orgs
    BY Zenon, <1>0, <1>2 DEF RLock, RegisteredIsOpen
  <2>1. BusTypeOK'
    <3>1. pub' \in [Publishers -> PubState]
      BY ZenonT(60), <1>0, <1>2, <2>0 DEF RLock, BusTypeOK, PubState
    <3> QED  BY Zenon, <1>0, <1>2, <3>1 DEF RLock, BusTypeOK
  <2>2. LockProtects'
    BY <1>0, <1>2, <2>0 DEF RLock, BusTypeOK, PubState, SubState, LockProtects
  <2>3. RegisteredIsOpen'
    BY <1>0, <1>2 DEF RLock, BusTypeOK, PubState, SubState, RegisteredIsOpen
  <2> QED  BY Zenon, <1>0, <1>2, <2>1, <2>2, <2>3 DEF RLock, BusInv, NeverPanics
<1>3. ASSUME NEW p \in Publishers, NEW s \in Subscribers, Send(p, s)
      PROVE  BusInv'
  <2>0. /\ p \in readers /\ s \in subs[pub[p].org] /\ pub[p].org \in Orgs
        /\ pub[p].event \in Events /\ s \in open
    <3>1. pub[p].pc = "send" /\ s \in pub[p].todo
      BY Zenon, <1>3 DEF Send
    <3>2. p \in readers /\ s \in subs[pub[p].org]
      BY Zenon, <1>0, <3>1 DEF LockProtects
    <3>3. pub[p].org \in Orgs /\ pub[p].event \in Events
      BY Zenon, <1>0, <3>1 DEF RegisteredIsOpen
    <3> QED  BY Zenon, <1>0, <3>2, <3>3 DEF RegisteredIsOpen
  <2>1. buf' \in [Subscribers -> Seq(Events)]
    <3>1. Append(buf[s], pub[p].event) \in Seq(Events)
      BY <1>0, <2>0, SeqSent DEF BusTypeOK
    <3> QED  BY Zenon, <1>0, <1>3, <3>1 DEF Send, BusTypeOK
  <2>2. BusTypeOK'
    <3>1. pub' \in [Publishers -> PubState]
      <4>1. \A q \in Publishers : pub'[q] \in PubState
        BY ZenonT(30), <1>0, <1>3 DEF Send, BusTypeOK, PubState
      <4>2. pub' = [q \in Publishers |-> pub'[q]]
        BY Zenon, <1>0, <1>3 DEF Send, BusTypeOK
      <4> QED  BY Zenon, <4>1, <4>2
    <3>2. panicked' \in BOOLEAN
      BY Zenon, <1>3 DEF Send
    <3> QED  BY Zenon, <1>0, <1>3, <2>1, <3>1, <3>2 DEF Send, BusTypeOK
  <2>3. LockProtects'
    BY <1>0, <1>3, <2>0 DEF Send, BusTypeOK, PubState, SubState, LockProtects
  <2>4. RegisteredIsOpen'
    BY <1>0, <1>3, <2>1 DEF Send, BusTypeOK, PubState, SubState, RegisteredIsOpen
  <2>5. NeverPanics'
    BY Zenon, <1>0, <1>3, <2>0 DEF Send, NeverPanics
  <2> QED  BY Zenon, <2>2, <2>3, <2>4, <2>5 DEF BusInv
<1>4. ASSUME NEW p \in Publishers, RUnlock(p)
      PROVE  BusInv'
  <2>1. BusTypeOK'
    BY Zenon, <1>0, <1>4 DEF RUnlock, BusTypeOK, PubState, SubState, IdlePub
  <2>2. LockProtects'
    BY Zenon, <1>0, <1>4 DEF RUnlock, BusTypeOK, PubState, SubState, LockProtects, IdlePub
  <2>3. RegisteredIsOpen'
    BY <1>0, <1>4 DEF RUnlock, BusTypeOK, PubState, SubState, RegisteredIsOpen, IdlePub
  <2> QED  BY Zenon, <1>0, <1>4, <2>1, <2>2, <2>3 DEF RUnlock, BusInv, NeverPanics
<1>5. ASSUME NEW s \in Subscribers, NEW o \in Orgs, Subscribe(s, o)
      PROVE  BusInv'
  <2>2. BusTypeOK'
    BY Zenon, <1>0, <1>5 DEF Subscribe, BusTypeOK, PubState, SubState
  <2>3. LockProtects'
    BY Zenon, <1>0, <1>5 DEF Subscribe, BusTypeOK, PubState, SubState, LockProtects
  <2>4. RegisteredIsOpen'
    BY <1>0, <1>5 DEF Subscribe, BusTypeOK, PubState, SubState, RegisteredIsOpen
  <2> QED  BY Zenon, <1>0, <1>5, <2>2, <2>3, <2>4 DEF Subscribe, BusInv, NeverPanics
<1>6. ASSUME NEW s \in Subscribers, Lock(s)
      PROVE  BusInv'
  <2>1. BusTypeOK'
    <3>1. sub' \in [Subscribers -> SubState]
      BY ZenonT(60), <1>0, <1>6 DEF Lock, BusTypeOK, SubState
    <3> QED  BY Zenon, <1>0, <1>6, <3>1 DEF Lock, BusTypeOK
  <2>2. LockProtects'
    BY ZenonT(60), <1>0, <1>6 DEF Lock, BusTypeOK, PubState, SubState, LockProtects
  <2>3. RegisteredIsOpen'
    BY <1>0, <1>6 DEF Lock, BusTypeOK, PubState, SubState, RegisteredIsOpen
  <2> QED  BY Zenon, <1>0, <1>6, <2>1, <2>2, <2>3 DEF Lock, BusInv, NeverPanics
<1>7. ASSUME NEW s \in Subscribers, Register(s)
      PROVE  BusInv'
  <2>0. sub[s].org \in Orgs /\ s \in writer /\ readers = {}
    BY Zenon, <1>0, <1>7 DEF Register, LockProtects, RegisteredIsOpen
  <2>1. BusTypeOK'
    BY ZenonT(30), <1>0, <1>7, <2>0 DEF Register, BusTypeOK, PubState, SubState
  <2>2. LockProtects'
    BY <1>0, <1>7, <2>0 DEF Register, BusTypeOK, PubState, SubState, LockProtects
  <2>3. RegisteredIsOpen'
    BY <1>0, <1>7, <2>0 DEF Register, BusTypeOK, PubState, SubState, RegisteredIsOpen
  <2> QED  BY Zenon, <1>0, <1>7, <2>1, <2>2, <2>3 DEF Register, BusInv, NeverPanics
<1>8. ASSUME NEW s \in Subscribers, StreamEvent(s)
      PROVE  BusInv'
  <2>1. Head(buf[s]) \in Events /\ Tail(buf[s]) \in Seq(Events)
    BY Zenon, <1>0, <1>8, SeqReceived DEF StreamEvent, BusTypeOK
  <2>2. Append(seen[s], Head(buf[s])) \in Seq(Events)
    BY Zenon, <1>0, <2>1, SeqSent DEF BusTypeOK
  <2> DEFINE t == Tail(buf[s])
             h == Append(seen[s], Head(buf[s]))
  <2>3. /\ t \in Seq(Events) /\ buf' = [buf EXCEPT ![s] = t]
        /\ h \in Seq(Events) /\ seen' = [seen EXCEPT ![s] = h]
        /\ readers' = readers /\ writer' = writer /\ subs' = subs /\ open' = open
        /\ pub' = pub /\ sub' = sub /\ fired' = fired /\ published' = published /\ sent' = sent
        /\ panicked' = panicked
    BY Zenon, <1>8, <2>1, <2>2 DEF StreamEvent
  <2> HIDE DEF t, h
  <2>4. BusTypeOK'
    BY Zenon, <1>0, <2>3 DEF BusTypeOK
  <2>5. LockProtects' /\ RegisteredIsOpen' /\ NeverPanics'
    BY Zenon, <1>0, <2>3 DEF LockProtects, RegisteredIsOpen, NeverPanics
  <2> QED  BY Zenon, <2>4, <2>5 DEF BusInv
<1>9. ASSUME NEW s \in Subscribers, Disconnect(s)
      PROVE  BusInv'
  <2>1. BusTypeOK'
    BY ZenonT(60), <1>0, <1>9 DEF Disconnect, BusTypeOK, PubState, SubState
  <2>2. LockProtects'
    BY Zenon, <1>0, <1>9 DEF Disconnect, BusTypeOK, PubState, SubState, LockProtects
  <2>3. RegisteredIsOpen'
    BY <1>0, <1>9 DEF Disconnect, BusTypeOK, PubState, SubState, RegisteredIsOpen
  <2> QED  BY Zenon, <1>0, <1>9, <2>1, <2>2, <2>3 DEF Disconnect, BusInv, NeverPanics
<1>10. ASSUME NEW s \in Subscribers, Remove(s)
       PROVE  BusInv'
  <2>0. sub[s].org \in Orgs /\ s \in writer /\ readers = {}
    BY Zenon, <1>0, <1>10 DEF Remove, LockProtects, RegisteredIsOpen
  <2>1. BusTypeOK'
    BY ZenonT(30), <1>0, <1>10, <2>0 DEF Remove, BusTypeOK, PubState, SubState
  <2>2. LockProtects'
    BY Zenon, <1>0, <1>10, <2>0 DEF Remove, BusTypeOK, PubState, SubState, LockProtects
  <2>3. RegisteredIsOpen'
    BY <1>0, <1>10, <2>0 DEF Remove, BusTypeOK, PubState, SubState, RegisteredIsOpen
  <2> QED  BY Zenon, <1>0, <1>10, <2>1, <2>2, <2>3 DEF Remove, BusInv, NeverPanics
<1>11. ASSUME NEW s \in Subscribers, CloseChan(s)
       PROVE  BusInv'
  <2>0. s \in open
    BY Zenon, <1>0, <1>11 DEF CloseChan, RegisteredIsOpen
  <2>2. BusTypeOK'
    BY ZenonT(60), <1>0, <1>11 DEF CloseChan, BusTypeOK, PubState, SubState
  <2>3. LockProtects'
    BY Zenon, <1>0, <1>11 DEF CloseChan, BusTypeOK, PubState, SubState, LockProtects
  <2>4. RegisteredIsOpen'
    BY <1>0, <1>11 DEF CloseChan, BusTypeOK, PubState, SubState, RegisteredIsOpen
  <2> QED  BY Zenon, <1>0, <1>11, <2>0, <2>2, <2>3, <2>4 DEF CloseChan, BusInv, NeverPanics
<1>12. ASSUME NEW s \in Subscribers, CancelAgain(s)
       PROVE  BusInv'
  <2>1. BusTypeOK'
    BY ZenonT(60), <1>0, <1>12 DEF CancelAgain, BusTypeOK, PubState, SubState
  <2>2. LockProtects'
    BY ZenonT(60), <1>0, <1>12 DEF CancelAgain, BusTypeOK, PubState, SubState, LockProtects
  <2>3. RegisteredIsOpen'
    BY <1>0, <1>12 DEF CancelAgain, BusTypeOK, PubState, SubState, RegisteredIsOpen
  <2> QED  BY Zenon, <1>0, <1>12, <2>1, <2>2, <2>3 DEF CancelAgain, BusInv, NeverPanics
<1>13. ASSUME NEW s \in Subscribers, OnceDo(s)
       PROVE  BusInv'
  <2>1. BusTypeOK'
    <3> DEFINE l == IF s \in fired THEN "closed" ELSE "cancel"
    <3>0. sub' = [sub EXCEPT ![s].pc = l] /\ l \in {"closed", "cancel"}
      BY Zenon, <1>13 DEF OnceDo
    <3> HIDE DEF l
    <3>1. sub' \in [Subscribers -> SubState]
      BY Zenon, <1>0, <3>0 DEF BusTypeOK, SubState
    <3> QED  BY Zenon, <1>0, <1>13, <3>1 DEF OnceDo, BusTypeOK
  <2>2. LockProtects'
    BY <1>0, <1>13 DEF OnceDo, BusTypeOK, PubState, SubState, LockProtects
  <2>3. RegisteredIsOpen'
    BY <1>0, <1>13 DEF OnceDo, BusTypeOK, PubState, SubState, RegisteredIsOpen
  <2> QED  BY Zenon, <1>0, <1>13, <2>1, <2>2, <2>3 DEF OnceDo, BusInv, NeverPanics
<1>14. ASSUME UNCHANGED busVars
       PROVE  BusInv'
  BY Zenon, <1>0, <1>14 DEF busVars, BusInv, BusTypeOK, LockProtects, RegisteredIsOpen, NeverPanics
<1> QED
  BY Zenon, <1>1, <1>2, <1>3, <1>4, <1>5, <1>6, <1>7, <1>8, <1>9, <1>10, <1>11, <1>12, <1>13,
     <1>14 DEF BusNext, Deliver, Cancel

-------------------------------------------------------------------------------
(* The lock discipline of PublishActivity, SubscribeActivity and cancel    *)
(* holds in every run of the bus.                                          *)
THEOREM BusInvariant == BusSpec => []BusInv
  BY InitBus, NextBus, PTL DEF BusSpec

(* PublishActivity never sends on, and cancel never closes again, a        *)
(* channel that cancel has closed.                                         *)
THEOREM BusNeverPanics == BusSpec => []NeverPanics
<1>1. BusInv => NeverPanics
  BY Zenon DEF BusInv
<1> QED  BY <1>1, BusInvariant, PTL

-------------------------------------------------------------------------------
(* What a handler has shown (x) and still has to show (b): the events, and *)
(* that those of one publisher, by f, are in order.                        *)
HeldIn(x, b) == {x[i] : i \in 1..Len(x)} \cup {b[i] : i \in 1..Len(b)}

Ordered(x, b, f) ==
    /\ \A i, j \in 1..Len(x) : i < j /\ f[x[i]][2] = f[x[j]][2] => x[i] < x[j]
    /\ \A i, j \in 1..Len(b) : i < j /\ f[b[i]][2] = f[b[j]][2] => b[i] < b[j]
    /\ \A i \in 1..Len(x), j \in 1..Len(b) : f[x[i]][2] = f[b[j]][2] => x[i] < b[j]

(* Behind FeedIsFaithful.  An event held belongs to the handler's org and  *)
(* has been published; a publisher's event is its own, and comes after all *)
(* of its events a handler holds that it has yet to serve.                 *)
FeedInv ==
    /\ \A s \in Subscribers : Ordered(seen[s], buf[s], sent)
    /\ \A s \in Subscribers : \A e \in HeldIn(seen[s], buf[s]) :
          e <= published /\ sent[e][1] = sub[s].org /\ sub[s].pc # "idle"
    /\ \A p \in Publishers : pub[p].pc # "idle" =>
          pub[p].event <= published /\ sent[pub[p].event] = <<pub[p].org, p>>
    /\ \A p \in Publishers, s \in Subscribers : pub[p].pc # "idle" =>
          \A e \in HeldIn(seen[s], buf[s]) : sent[e][2] = p =>
              /\ e <= pub[p].event
              /\ pub[p].pc = "lock" \/ s \in pub[p].todo => e < pub[p].event

(* An event moves from the buffer to the client.                           *)
LEMMA TakeKeepsOrder ==
    ASSUME NEW x \in Seq(Events), NEW b \in Seq(Events), b # <<>>, NEW f, Ordered(x, b, f)
    PROVE  /\ Ordered(Append(x, Head(b)), Tail(b), f)
           /\ HeldIn(Append(x, Head(b)), Tail(b)) = HeldIn(x, b)
<1> DEFINE h == Append(x, Head(b))
           t == Tail(b)
<1>1. /\ Len(x) \in Nat /\ Len(b) \in Nat /\ Len(b) > 0
      /\ Len(h) = Len(x) + 1 /\ h[Len(x) + 1] = b[1] /\ \A i \in 1..Len(x) : h[i] = x[i]
      /\ Len(t) = Len(b) - 1 /\ \A i \in 1..Len(t) : t[i] = b[i + 1]
  <2>1. Head(b) = b[1] /\ Head(b) \in Events
    BY SeqReceived
  <2> QED  BY <2>1, SeqSent, SeqReceived
<1> HIDE DEF h, t
<1>2. Ordered(h, t, f)
  <2>1. ASSUME NEW i \in 1..Len(h), NEW j \in 1..Len(h), i < j, f[h[i]][2] = f[h[j]][2]
        PROVE  h[i] < h[j]
    <3>1. i \in 1..Len(x) /\ h[i] = x[i] /\ 1 \in 1..Len(b)
      BY <1>1, <2>1
    <3>2. CASE j \in 1..Len(x)
      <4>1. h[j] = x[j]
        BY Zenon, <1>1, <3>2
      <4> QED  BY Zenon, <2>1, <3>1, <3>2, <4>1 DEF Ordered
    <3>3. CASE j = Len(x) + 1
      <4>1. h[j] = b[1]
        BY Zenon, <1>1, <3>3
      <4> QED  BY Zenon, <2>1, <3>1, <4>1 DEF Ordered
    <3> QED  BY <1>1, <3>2, <3>3
  <2>2. \A i, j \in 1..Len(t) : i < j /\ f[t[i]][2] = f[t[j]][2] => t[i] < t[j]
    BY SMTT(30), <1>1 DEF Ordered
  <2>3. ASSUME NEW i \in 1..Len(h), NEW j \in 1..Len(t), f[h[i]][2] = f[t[j]][2]
        PROVE  h[i] < t[j]
    <3>1. j + 1 \in 1..Len(b) /\ t[j] = b[j + 1] /\ 1 \in 1..Len(b) /\ 1 < j + 1
      BY <1>1
    <3>2. CASE i \in 1..Len(x)
      <4>1. h[i] = x[i]
        BY Zenon, <1>1, <3>2
      <4> QED  BY Zenon, <2>3, <3>1, <3>2, <4>1 DEF Ordered
    <3>3. CASE i = Len(x) + 1
      <4>1. h[i] = b[1]
        BY Zenon, <1>1, <3>3
      <4> QED  BY Zenon, <2>3, <3>1, <4>1 DEF Ordered
    <3> QED  BY <1>1, <3>2, <3>3
  <2> QED  BY Zenon, <2>1, <2>2, <2>3 DEF Ordered
<1>3. HeldIn(h, t) = HeldIn(x, b)
  <2>1. ASSUME NEW e \in HeldIn(h, t) PROVE e \in HeldIn(x, b)
    <3>1. CASE \E i \in 1..Len(h) : e = h[i]
      <4>1. PICK i \in 1..Len(h) : e = h[i]
        BY Zenon, <3>1
      <4>2. i \in 1..Len(x) \/ (i = Len(x) + 1 /\ 1 \in 1..Len(b))
        BY <1>1
      <4> QED  BY Zenon, <1>1, <4>1, <4>2 DEF HeldIn
    <3>2. CASE \E i \in 1..Len(t) : e = t[i]
      <4>1. PICK i \in 1..Len(t) : e = t[i]
        BY Zenon, <3>2
      <4>2. i + 1 \in 1..Len(b) /\ e = b[i + 1]
        BY <1>1, <4>1
      <4> QED  BY Zenon, <4>2 DEF HeldIn
    <3> QED  BY Zenon, <2>1, <3>1, <3>2 DEF HeldIn
  <2>2. ASSUME NEW e \in HeldIn(x, b) PROVE e \in HeldIn(h, t)
    <3>1. CASE \E i \in 1..Len(x) : e = x[i]
      BY <1>1, <3>1 DEF HeldIn
    <3>2. CASE \E i \in 1..Len(b) : e = b[i]
      <4>1. PICK i \in 1..Len(b) : e = b[i]
        BY Zenon, <3>2
      <4>2. CASE i = 1
        BY <1>1, <4>1, <4>2 DEF HeldIn
      <4>3. CASE i # 1
        <5>1. i - 1 \in 1..Len(t) /\ t[i - 1] = e
          BY <1>1, <4>1, <4>3
        <5> QED  BY Zenon, <5>1 DEF HeldIn
      <4> QED  BY Zenon, <4>2, <4>3
    <3> QED  BY Zenon, <2>2, <3>1, <3>2 DEF HeldIn
  <2> QED  BY Zenon, <2>1, <2>2
<1> QED  BY Zenon, <1>2, <1>3 DEF h, t

(* A publisher's event enters the buffer after all it has sent before.     *)
LEMMA SendKeepsOrder ==
    ASSUME NEW x \in Seq(Events), NEW b \in Seq(Events), NEW f, Ordered(x, b, f), NEW e \in Events,
           \A d \in HeldIn(x, b) : f[d][2] = f[e][2] => d < e
    PROVE  Ordered(x, Append(b, e), f) /\ HeldIn(x, Append(b, e)) = HeldIn(x, b) \cup {e}
<1> DEFINE a == Append(b, e)
<1>1. /\ Len(x) \in Nat /\ Len(b) \in Nat
      /\ Len(a) = Len(b) + 1 /\ a[Len(b) + 1] = e /\ \A i \in 1..Len(b) : a[i] = b[i]
  BY SeqSent
<1> HIDE DEF a
<1>2. /\ \A i \in 1..Len(x) : f[x[i]][2] = f[e][2] => x[i] < e
      /\ \A i \in 1..Len(b) : f[b[i]][2] = f[e][2] => b[i] < e
  BY Zenon DEF HeldIn
<1>3. Ordered(x, a, f)
  <2>0. \A i \in 1..Len(a) : (i \in 1..Len(b) /\ a[i] = b[i]) \/ (i = Len(b) + 1 /\ a[i] = e)
    BY <1>1
  <2>1. ASSUME NEW i \in 1..Len(a), NEW j \in 1..Len(a), i < j, f[a[i]][2] = f[a[j]][2]
        PROVE  a[i] < a[j]
    <3>1. i \in 1..Len(b) /\ a[i] = b[i]
      BY <1>1, <2>0, <2>1
    <3> QED  BY Zenon, <1>2, <2>0, <2>1, <3>1 DEF Ordered
  <2>2. ASSUME NEW i \in 1..Len(x), NEW j \in 1..Len(a), f[x[i]][2] = f[a[j]][2]
        PROVE  x[i] < a[j]
    BY Zenon, <1>2, <2>0, <2>2 DEF Ordered
  <2> QED  BY Zenon, <2>1, <2>2 DEF Ordered
<1>4. HeldIn(x, a) = HeldIn(x, b) \cup {e}
  <2>1. ASSUME NEW d \in HeldIn(x, a) PROVE d \in HeldIn(x, b) \cup {e}
    BY <1>1, <2>1 DEF HeldIn
  <2>2. ASSUME NEW d \in HeldIn(x, b) \cup {e} PROVE d \in HeldIn(x, a)
    <3>1. Len(b) + 1 \in 1..Len(a)
      BY <1>1
    <3> QED  BY <1>1, <2>2, <3>1 DEF HeldIn
  <2> QED  BY Zenon, <2>1, <2>2
<1> QED  BY Zenon, <1>3, <1>4 DEF a

(* Every step keeps the feeds faithful.                                    *)
LEMMA NextFeed ==
    ASSUME BusInv, FeedInv, BusNext
    PROVE  FeedInv'
<1>0. BusTypeOK /\ LockProtects /\ RegisteredIsOpen /\ published \in Nat
  BY BusAssumption DEF BusInv, BusTypeOK
<1>1. /\ \A s \in Subscribers : seen[s] \in Seq(Events) /\ buf[s] \in Seq(Events)
      /\ \A p \in Publishers : pub[p].pc # "idle" => pub[p].org \in Orgs /\ pub[p].event \in Events
  BY Zenon, <1>0 DEF BusTypeOK, RegisteredIsOpen
<1>2. \A s \in Subscribers : \A e \in HeldIn(seen[s], buf[s]) : e \in Events /\ e \in Nat
  <2>1. \A q \in Seq(Events) : \A i \in 1..Len(q) : q[i] \in Events
    BY Zenon, SeqLength
  <2>2. \A e \in Events : e \in Nat
    BY DEF Events
  <2> QED  BY Zenon, <1>1, <2>1, <2>2 DEF HeldIn
<1>3. ASSUME NEW p \in Publishers, NEW o \in Orgs, Publish(p, o)
      PROVE  FeedInv'
  <2> DEFINE n == published + 1
  <2>1. /\ UNCHANGED <<seen, buf, sub>> /\ published' = n /\ n \in Events
        /\ sent' = [sent EXCEPT ![n] = <<o, p>>]
    <3>1. published < MaxEvents /\ published' = published + 1
      BY Zenon, <1>3 DEF Publish
    <3>2. n \in Events
      BY <1>0, <3>1, BusAssumption DEF Events
    <3> QED  BY Zenon, <1>3, <3>2 DEF Publish
  <2>2. \A e \in Events : e # n => sent'[e] = sent[e]
    BY Zenon, <1>0, <2>1 DEF BusTypeOK
  <2>3. \A s \in Subscribers : \A e \in HeldIn(seen[s], buf[s]) :
            sent'[e] = sent[e] /\ e < n /\ e <= published'
    BY <1>0, <1>2, <2>1, <2>2 DEF FeedInv
  <2>4. pub'[p].pc = "lock" /\ pub'[p].event = n /\ pub'[p].org = o /\ sent'[n] = <<o, p>>
    <3>1. pub[p] \in PubState
      BY Zenon, <1>0 DEF BusTypeOK
    <3>2. pub'[p] = [pub[p] EXCEPT !.pc = "lock", !.org = o, !.event = n]
      BY Zenon, <1>0, <1>3 DEF Publish, BusTypeOK
    <3> QED  BY Zenon, <1>0, <2>1, <3>1, <3>2 DEF PubState, BusTypeOK
  <2>5. \A q \in Publishers \ {p} : pub'[q] = pub[q]
    BY Zenon, <1>0, <1>3 DEF Publish, BusTypeOK
  <2>6. ASSUME NEW s \in Subscribers PROVE Ordered(seen[s], buf[s], sent')
    <3>1. /\ \A i \in 1..Len(seen[s]) : sent'[seen[s][i]] = sent[seen[s][i]]
          /\ \A i \in 1..Len(buf[s]) : sent'[buf[s][i]] = sent[buf[s][i]]
      BY Zenon, <2>3 DEF HeldIn
    <3>2. Ordered(seen[s], buf[s], sent)
      BY Zenon DEF FeedInv
    <3> QED  BY Zenon, <3>1, <3>2 DEF Ordered
  <2>7. \A q \in Publishers : pub'[q].pc # "idle" =>
            pub'[q].event <= published' /\ sent'[pub'[q].event] = <<pub'[q].org, q>>
    <3>1. ASSUME NEW q \in Publishers \ {p}, pub[q].pc # "idle"
          PROVE  pub[q].event <= n /\ sent'[pub[q].event] = <<pub[q].org, q>>
      <4>1. pub[q].event \in Events /\ pub[q].event <= published /\ pub[q].event # n
            /\ sent[pub[q].event] = <<pub[q].org, q>>
        BY <1>0, <1>1, <3>1 DEF FeedInv, Events
      <4> QED  BY <1>0, <2>2, <4>1 DEF Events
    <3>2. n <= n
      BY <1>0
    <3> QED  BY ZenonT(60), <2>1, <2>4, <2>5, <3>1, <3>2
  <2>8. \A q \in Publishers, s \in Subscribers : pub'[q].pc # "idle" =>
            \A e \in HeldIn(seen[s], buf[s]) : sent'[e][2] = q =>
                /\ e <= pub'[q].event
                /\ pub'[q].pc = "lock" \/ s \in pub'[q].todo => e < pub'[q].event
    <3>1. \A s \in Subscribers : \A e \in HeldIn(seen[s], buf[s]) : e <= n /\ e < n
      BY Zenon, <2>1, <2>3
    <3> QED  BY ZenonT(60), <2>3, <2>4, <2>5, <3>1 DEF FeedInv
  <2>9. \A s \in Subscribers : \A e \in HeldIn(seen[s], buf[s]) :
            e <= published' /\ sent'[e][1] = sub'[s].org /\ sub'[s].pc # "idle"
    BY <2>1, <2>3 DEF FeedInv
  <2> HIDE DEF n
  <2> QED  BY Zenon, <2>1, <2>6, <2>7, <2>8, <2>9 DEF FeedInv
<1>4. ASSUME NEW p \in Publishers, RLock(p) \/ RUnlock(p)
      PROVE  FeedInv'
  <2>1. UNCHANGED <<seen, buf, sub, published, sent>> /\ \A q \in Publishers \ {p} : pub'[q] = pub[q]
    BY Zenon, <1>0, <1>4 DEF RLock, RUnlock, BusTypeOK
  <2>2. \/ pub'[p].pc = "idle"
        \/ /\ pub[p].pc = "lock" /\ pub'[p].pc = "send" /\ pub'[p].event = pub[p].event
           /\ pub'[p].org = pub[p].org
    <3>1. CASE RLock(p)
      <4>1. pub[p] \in PubState /\ pub[p].pc = "lock"
        BY Zenon, <1>0, <3>1 DEF RLock, BusTypeOK
      <4>2. pub'[p] = [pub[p] EXCEPT !.pc = "send", !.todo = subs[pub[p].org]]
        BY Zenon, <1>0, <3>1 DEF RLock, BusTypeOK
      <4> QED  BY Zenon, <4>1, <4>2 DEF PubState
    <3>2. CASE RUnlock(p)
      BY Zenon, <1>0, <3>2 DEF RUnlock, BusTypeOK, IdlePub
    <3> QED  BY Zenon, <1>4, <3>1, <3>2
  <2> QED  BY SMTT(60), ZenonT(60), <2>1, <2>2 DEF FeedInv
<1>5. ASSUME NEW p \in Publishers, NEW s \in Subscribers, Send(p, s)
      PROVE  FeedInv'
  <2>0. /\ p \in readers /\ s \in subs[pub[p].org] /\ pub[p].org \in Orgs /\ pub[p].pc = "send"
        /\ pub[p].event \in Events /\ s \in pub[p].todo
    BY Zenon, <1>0, <1>5 DEF Send, LockProtects, RegisteredIsOpen
  <2>1. sub[s].org = pub[p].org /\ sub[s].pc # "idle"
    BY ZenonT(60), <1>0, <2>0 DEF RegisteredIsOpen
  <2>2. UNCHANGED <<seen, sub, published, sent>> /\ \A q \in Publishers \ {p} : pub'[q] = pub[q]
    BY Zenon, <1>0, <1>5 DEF Send, BusTypeOK
  <2>3. /\ pub'[p].pc = "send" /\ pub'[p].event = pub[p].event /\ pub'[p].org = pub[p].org
        /\ pub'[p].todo = pub[p].todo \ {s}
    BY Zenon, <1>0, <1>5 DEF Send, BusTypeOK, PubState
  <2> DEFINE e == pub[p].event
             held == HeldIn(seen[s], buf[s])
  <2>4. /\ sent[e] = <<pub[p].org, p>> /\ e <= published /\ e \in Nat
        /\ \A d \in held : sent[d][2] = sent[e][2] => d < e
    BY SMTT(30), <2>0 DEF FeedInv, Events
  <2>5. \A t \in Subscribers \ {s} : buf'[t] = buf[t]
    BY Zenon, <1>0, <1>5 DEF Send, BusTypeOK
  <2>6. buf'[s] = buf[s] \/ buf'[s] = Append(buf[s], e)
    BY Zenon, <1>0, <1>5 DEF Send, BusTypeOK
  <2>7. Ordered(seen[s], buf'[s], sent) /\ HeldIn(seen[s], buf'[s]) \in {held, held \cup {e}}
    <3>1. Ordered(seen[s], buf[s], sent) /\ seen[s] \in Seq(Events) /\ buf[s] \in Seq(Events)
      BY Zenon, <1>1 DEF FeedInv
    <3>2. CASE buf'[s] = buf[s]
      BY Zenon, <3>1, <3>2
    <3>3. CASE buf'[s] = Append(buf[s], e)
      BY SMTT(30), <2>0, <2>4, <3>1, <3>3, SendKeepsOrder
    <3> QED  BY Zenon, <2>6, <3>2, <3>3
  <2>8. /\ \A t \in Subscribers : Ordered(seen[t], buf'[t], sent)
        /\ \A t \in Subscribers : HeldIn(seen[t], buf'[t]) = HeldIn(seen[t], buf[t])
              \/ (t = s /\ HeldIn(seen[t], buf'[t]) = HeldIn(seen[t], buf[t]) \cup {e})
    BY Zenon, <2>5, <2>7 DEF FeedInv
  <2>9. sent[e][1] = sub[s].org /\ sent[e][2] = p
    BY SMTT(30), <2>1, <2>4
  <2>10. e <= e /\ s \notin pub'[p].todo /\ pub'[p].pc # "lock"
    BY <2>3, <2>4
  <2> HIDE DEF e, held
  <2>11. \A t \in Subscribers : \A d \in HeldIn(seen[t], buf'[t]) :
             d \in HeldIn(seen[t], buf[t]) \/ (t = s /\ d = e)
    BY SMTT(30), <2>8
  <2>12. \A t \in Subscribers : \A d \in HeldIn(seen[t], buf'[t]) :
             d <= published /\ sent[d][1] = sub[t].org /\ sub[t].pc # "idle"
    BY Zenon, <2>1, <2>4, <2>9, <2>11 DEF FeedInv
  <2>13. \A q \in Publishers, t \in Subscribers : pub'[q].pc # "idle" =>
             \A d \in HeldIn(seen[t], buf'[t]) : sent[d][2] = q =>
                 /\ d <= pub'[q].event
                 /\ pub'[q].pc = "lock" \/ t \in pub'[q].todo => d < pub'[q].event
    <3>1. ASSUME NEW q \in Publishers, NEW t \in Subscribers, pub'[q].pc # "idle",
                 NEW d \in HeldIn(seen[t], buf'[t]), sent[d][2] = q
          PROVE  /\ d <= pub'[q].event
                 /\ pub'[q].pc = "lock" \/ t \in pub'[q].todo => d < pub'[q].event
      <4>1. pub[q].pc # "idle" /\ pub'[q].event = pub[q].event /\ pub'[q].todo \subseteq pub[q].todo
            /\ (pub'[q].pc = "lock" => pub[q].pc = "lock")
        BY Zenon, <2>0, <2>2, <2>3, <3>1
      <4>2. CASE d \in HeldIn(seen[t], buf[t])
        BY Zenon, <3>1, <4>1, <4>2 DEF FeedInv
      <4>3. CASE t = s /\ d = e
        BY Zenon, <2>3, <2>9, <2>10, <3>1, <4>3 DEF e
      <4> QED  BY Zenon, <2>11, <4>2, <4>3
    <3> QED  BY Zenon, <3>1
  <2>14. \A q \in Publishers : pub'[q].pc # "idle" =>
             pub'[q].event <= published /\ sent[pub'[q].event] = <<pub'[q].org, q>>
    BY ZenonT(30), <2>0, <2>2, <2>3 DEF FeedInv
  <2> QED  BY Zenon, <2>2, <2>8, <2>12, <2>13, <2>14 DEF FeedInv
<1>6. ASSUME NEW s \in Subscribers, StreamEvent(s)
      PROVE  FeedInv'
  <2>1. /\ UNCHANGED <<sub, published, sent, pub>> /\ buf[s] # <<>>
        /\ \A t \in Subscribers \ {s} : seen'[t] = seen[t] /\ buf'[t] = buf[t]
        /\ seen'[s] = Append(seen[s], Head(buf[s])) /\ buf'[s] = Tail(buf[s])
    BY Zenon, <1>0, <1>6 DEF StreamEvent, BusTypeOK
  <2>2. Ordered(seen[s], buf[s], sent) /\ seen[s] \in Seq(Events) /\ buf[s] \in Seq(Events)
    BY Zenon, <1>1 DEF FeedInv
  <2>3. Ordered(seen'[s], buf'[s], sent) /\ HeldIn(seen'[s], buf'[s]) = HeldIn(seen[s], buf[s])
    BY Zenon, <2>1, <2>2, TakeKeepsOrder
  <2>4. \A t \in Subscribers : /\ Ordered(seen'[t], buf'[t], sent)
                               /\ HeldIn(seen'[t], buf'[t]) = HeldIn(seen[t], buf[t])
    BY Zenon, <2>1, <2>3 DEF FeedInv
  <2> QED  BY Zenon, <2>1, <2>4 DEF FeedInv
<1>7. ASSUME UNCHANGED <<seen, buf, published, sent, pub>>,
             \A s \in Subscribers :
                 sub[s].pc # "idle" => sub'[s].pc # "idle" /\ sub'[s].org = sub[s].org
      PROVE  FeedInv'
  BY Zenon, <1>7 DEF FeedInv
<1>8. ASSUME NEW s \in Subscribers, NEW o \in Orgs, Subscribe(s, o)
      PROVE  FeedInv'
  BY Zenon, <1>0, <1>7, <1>8 DEF Subscribe, BusTypeOK
<1>9. ASSUME NEW s \in Subscribers, Lock(s) \/ Disconnect(s) \/ CancelAgain(s) \/ Cancel(s)
      PROVE  FeedInv'
  <2>1. UNCHANGED <<seen, buf, published, sent, pub>>
    BY Zenon, <1>9 DEF Lock, Disconnect, CancelAgain, Cancel, Register, OnceDo, Remove, CloseChan
  <2>2. \E l \in {"add", "delete", "stream", "once", "cancel", "close", "closed"} :
            sub' = [sub EXCEPT ![s].pc = l]
    BY Zenon, <1>0, <1>9 DEF Lock, Disconnect, CancelAgain, Cancel, Register, OnceDo, Remove, CloseChan,
       BusTypeOK, SubState
  <2>3. \A t \in Subscribers : sub[t].pc # "idle" => sub'[t].pc # "idle" /\ sub'[t].org = sub[t].org
    BY <1>0, <2>2 DEF BusTypeOK, SubState
  <2> QED  BY Zenon, <1>7, <2>1, <2>3
<1> QED
  BY Zenon, <1>3, <1>4, <1>5, <1>6, <1>8, <1>9 DEF BusNext, Deliver

(* A dashboard's feed: its own org's events only, each publisher's in the  *)
(* order it published them and none twice, whatever is dropped from full   *)
(* buffers (bus.go, activity.go).                                          *)
THEOREM FeedsAreFaithful == BusSpec => []FeedIsFaithful
<1>1. BusInit => FeedInv
  BY DEF BusInit, FeedInv, HeldIn, Ordered, IdlePub
<1>2. BusInv /\ FeedInv /\ [BusNext]_busVars => FeedInv'
  <2>1. ASSUME FeedInv, UNCHANGED busVars PROVE FeedInv'
    BY Zenon, <2>1 DEF FeedInv, busVars
  <2> QED  BY Zenon, <2>1, NextFeed
<1>3. FeedInv => FeedIsFaithful
  BY Zenon DEF FeedInv, FeedIsFaithful, FeedIsOwn, FeedInOrder, Ordered, HeldIn
<1> QED  BY <1>1, <1>2, <1>3, BusInvariant, PTL DEF BusSpec

-------------------------------------------------------------------------------
(* The rate limiter.                                                       *)

(* A fresh limiter satisfies the invariant: nobody has spent anything.     *)
LEMMA InitRate == RateInit => RateInv
<1> SUFFICES ASSUME RateInit PROVE RateInv
  BY Zenon
<1> USE RateLimitAssumption
<1>1. RateLimitTypeOK
  <2>1. 0 \in Times
    BY DEF Times
  <2>2. NoBucket \in Bucket
    BY <2>1 DEF NoBucket, Bucket
  <2>3. NoRequest \in Request
    BY Zenon, <2>1 DEF NoRequest, Request
  <2>4. NoSweep \in Sweeper
    BY DEF NoSweep, Sweeper
  <2>5. spent \in [Clients -> [Times \X Times -> Nat]]
    BY Zenon DEF RateInit
  <2> QED
    BY Zenon, <2>1, <2>2, <2>3, <2>4, <2>5 DEF RateInit, RateLimitTypeOK
<1>2. \A k \in Clients : \A w \in Times \X Times : spent[k][w] = 0
  BY Zenon DEF RateInit
<1>3. \A a, b \in Times : <<a, b>> \in Times \X Times
  BY Zenon
<1>4. MaxTime \in Times
  BY DEF Times
<1>5. ReadingsAreRecent
  BY Zenon DEF RateInit, ReadingsAreRecent, Pending, NoRequest, NoSweep
<1>6. WindowsNest /\ DebtIsSmall /\ BucketPays /\ AbsentIsPaid
  BY <1>2, <1>3, <1>4 DEF RateInit, NoBucket, WindowsNest, DebtIsSmall, BucketPays, AbsentIsPaid, Since
<1>7. RateHeld /\ NothingWithheld /\ BurstServed
  BY <1>2, <1>3 DEF RateHeld, Times, RateInit, NoBucket, NothingWithheld, BurstServed
<1> QED
  BY Zenon, <1>1, <1>5, <1>6, <1>7 DEF RateInv

(* What a client has spent only changes in Allow; a step that touches      *)
(* neither it nor the buckets keeps the invariant if readings stay recent. *)
LEMMA QuietStep ==
    ASSUME RateInv, UNCHANGED <<bucket, spent, hasty>>, now' \in Times, now' >= now
    PROVE  /\ WindowsNest' /\ DebtIsSmall' /\ BucketPays' /\ AbsentIsPaid' /\ RateHeld'
           /\ NothingWithheld' /\ BurstServed'
<1> USE RateLimitAssumption
<1>1. MaxTime \in Times /\ \A a, b \in Times : <<a, b>> \in Times \X Times
  BY DEF Times
<1>2. \A k \in Clients : \A a \in Times : Since(k, a) \in Nat
  BY <1>1 DEF RateInv, RateLimitTypeOK, Since
<1>3. \A k \in Clients : bucket[k] \in Bucket
  BY Zenon DEF RateInv, RateLimitTypeOK
<1>4. WindowsNest' /\ RateHeld' /\ BucketPays'
  BY Zenon DEF RateInv, WindowsNest, RateHeld, BucketPays, Since
<1>5. DebtIsSmall'
  BY <1>3 DEF RateInv, RateLimitTypeOK, DebtIsSmall, Bucket, Times
<1>6. AbsentIsPaid'
  BY <1>2 DEF RateInv, RateLimitTypeOK, AbsentIsPaid, Since, Times
<1>7. NothingWithheld' /\ BurstServed'
  <2>1. \A k \in Clients : /\ Since(k, 0)' = Since(k, 0) /\ Since(k, 0) \in Nat
                            /\ bucket[k].tokens \in Int /\ bucket[k].last \in Int
    BY <1>2, <1>3 DEF Since, Bucket, Times
  <2>2. now \in Int /\ now' \in Int /\ Full \in Int
    BY DEF RateInv, RateLimitTypeOK, Times
  <2> QED
    BY <2>1, <2>2 DEF RateInv, NothingWithheld, BurstServed
<1> QED
  BY Zenon, <1>4, <1>5, <1>6, <1>7

(* Refilling never overfills, never gives more than the ticks since last,  *)
(* and leaves too little for a request only in a bucket that exists.       *)
LEMMA RefillBounds ==
    ASSUME NEW b \in Bucket, NEW t \in Times
    PROVE  /\ Refill(b, t) \in Int /\ Refill(b, t) <= Full
           /\ b.present => Refill(b, t) <= b.tokens + (t - b.last)
           /\ Refill(b, t) < Cost => b.present /\ Refill(b, t) = b.tokens + (t - b.last)
           /\ Refill(b, t) = Full \/ (b.present /\ Refill(b, t) = b.tokens + (t - b.last))
BY RateLimitAssumption DEF Refill, Bucket, Times

(* A request that reaches the mutex, refused or let through.               *)
LEMMA AllowStep ==
    ASSUME RateInv, NEW h \in Handlers, NEW k \in Clients, Allow(h, k)
    PROVE  RateInv'
<1> DEFINE t == req[h].now
           tk == Refill(bucket[k], t)
<1> USE RateLimitAssumption
<1>1. /\ MaxTime \in Times
      /\ \A a, b \in Times : <<a, b>> \in Times \X Times
      /\ \A w \in Times \X Times : w[1] \in Times /\ w[2] \in Times
  BY DEF Times
<1>2. t \in Times /\ t <= now /\ now <= t + MaxStall /\ now \in Times
  BY Zenon DEF RateInv, RateLimitTypeOK, ReadingsAreRecent, Request, Allow, Pending
<1>3. bucket \in [Clients -> Bucket] /\ spent \in [Clients -> [Times \X Times -> Nat]]
  BY Zenon DEF RateInv, RateLimitTypeOK
<1>4. /\ tk \in Int /\ tk <= Full
      /\ bucket[k].present => tk <= bucket[k].tokens + (t - bucket[k].last)
      /\ tk < Cost => /\ bucket[k].present
                      /\ tk = bucket[k].tokens + (t - bucket[k].last)
      /\ tk = Full \/ (bucket[k].present /\ tk = bucket[k].tokens + (t - bucket[k].last))
  BY Zenon, <1>2, <1>3, RefillBounds
<1>5. \A c \in Clients : \A a \in Times : Since(c, a) \in Nat
  BY SMTT(30), <1>1, <1>3 DEF Since
<1>6. now' = now /\ sweeper' = sweeper /\ req' = [req EXCEPT ![h] = NoRequest]
  BY Zenon DEF Allow
<1>7. ReadingsAreRecent'
  BY Zenon, <1>6 DEF RateInv, RateLimitTypeOK, ReadingsAreRecent, Pending, NoRequest
<1>8. req' \in [Handlers -> Request]
  <2>1. NoRequest \in Request
    BY DEF NoRequest, Request, Times
  <2> QED
    BY Zenon, <1>6, <2>1 DEF RateInv, RateLimitTypeOK
<1>9. hasty' \in SUBSET Clients
  BY DEF Allow, RateInv, RateLimitTypeOK
<1> HIDE DEF t, tk
<1>0. 0 \in Times /\ \A c \in Clients : Since(c, 0) \in Nat
  BY <1>5 DEF Times
<1>10. CASE /\ tk < Cost
            /\ bucket' = [bucket EXCEPT ![k] = [present |-> TRUE, tokens |-> tk, last |-> t]]
            /\ spent' = spent
            /\ hasty' = IF Since(k, 0) + Cost + MaxStall <= Full THEN hasty \cup {k} ELSE hasty
  <2>1. bucket' \in [Clients -> Bucket]
    <3>1. [present |-> TRUE, tokens |-> tk, last |-> t] \in Bucket
      BY Zenon, <1>2, <1>4 DEF Bucket
    <3> QED
      BY Zenon, <1>3, <1>10, <3>1
  <2>2. bucket'[k].present /\ bucket'[k].tokens = tk /\ bucket'[k].last = t
    BY Zenon, <1>3, <1>10
  <2>3. \A c \in Clients \ {k} : bucket'[c] = bucket[c]
    BY Zenon, <1>3, <1>10
  <2>4. \A c \in Clients : \A a \in Times : Since(c, a)' = Since(c, a)
    BY Zenon, <1>10 DEF Since
  <2>5. RateLimitTypeOK'
    BY Zenon, <1>3, <1>6, <1>8, <1>9, <1>10, <2>1 DEF RateInv, RateLimitTypeOK
  <2>6. WindowsNest' /\ RateHeld'
    BY Zenon, <1>10 DEF RateInv, WindowsNest, RateHeld, Since
  <2>7. bucket[k].tokens \in Int /\ bucket[k].last \in Int
    BY SMTT(30), <1>3 DEF Bucket, Times
  <2>8. DebtIsSmall'
    <3>1. bucket[k].last - bucket[k].tokens <= now
      BY Zenon, <1>4, <1>10 DEF RateInv, DebtIsSmall
    <3>2. t <= now /\ t - tk <= now /\ tk >= -MaxStall
      BY <1>2, <1>4, <1>10, <2>7, <3>1 DEF Times
    <3> QED
      BY Zenon, <1>6, <2>2, <2>3, <3>2 DEF RateInv, DebtIsSmall
  <2>9. BucketPays'
    <3>1. \A a \in Times : Since(k, a) > 0 => Since(k, a) + tk - t <= Full - a
      BY SMTT(30), <1>2, <1>4, <1>5, <1>10, <2>7 DEF RateInv, BucketPays, Times
    <3> QED
      BY <2>2, <2>3, <2>4, <3>1 DEF RateInv, BucketPays
  <2>10. AbsentIsPaid'
    BY Zenon, <1>6, <2>2, <2>3, <2>4 DEF RateInv, AbsentIsPaid
  <2>11. Since(k, 0) + tk - t >= Full - now
    BY SMTT(30), <1>0, <1>2, <1>4, <1>10, <2>7 DEF RateInv, NothingWithheld, Times
  <2>12. NothingWithheld'
    BY <1>0, <1>6, <2>2, <2>3, <2>4, <2>11 DEF RateInv, NothingWithheld
  <2>13. Since(k, 0) + Cost + MaxStall > Full
    BY <1>0, <1>2, <1>4, <1>10, <2>11 DEF Times
  <2>14. BurstServed'
    BY <1>0, <1>10, <2>13 DEF RateInv, BurstServed
  <2> QED
    BY Zenon, <1>7, <2>5, <2>6, <2>8, <2>9, <2>10, <2>12, <2>14 DEF RateInv
<1>11. CASE /\ tk >= Cost
            /\ bucket' = [bucket EXCEPT ![k] =
                             [present |-> TRUE, tokens |-> tk - Cost, last |-> t]]
            /\ Spend(k, t) /\ hasty' = hasty
  <2>1. bucket' \in [Clients -> Bucket]
    <3>1. [present |-> TRUE, tokens |-> tk - Cost, last |-> t] \in Bucket
      BY <1>2, <1>4 DEF Bucket
    <3> QED
      BY Zenon, <1>3, <1>11, <3>1
  <2>2. bucket'[k].present /\ bucket'[k].tokens = tk - Cost /\ bucket'[k].last = t
    BY Zenon, <1>3, <1>11
  <2>3. \A c \in Clients \ {k} : bucket'[c] = bucket[c] /\ spent'[c] = spent[c]
    BY Zenon, <1>3, <1>11 DEF Spend
  <2>4. \A w \in Times \X Times :
            spent'[k][w] = IF w[1] <= t /\ t <= w[2] THEN spent[k][w] + Cost ELSE spent[k][w]
    BY Zenon, <1>3, <1>11 DEF Spend
  <2>5. \A c \in Clients \ {k} : \A a \in Times : Since(c, a)' = Since(c, a)
    BY Zenon, <2>3 DEF Since
  <2>6. \A a, b \in Times :
            spent'[k][<<a, b>>] = IF a <= t /\ t <= b THEN spent[k][<<a, b>>] + Cost
                                  ELSE spent[k][<<a, b>>]
    BY Zenon, <1>1, <2>4
  <2>7. \A a \in Times : Since(k, a)' = IF a <= t THEN Since(k, a) + Cost ELSE Since(k, a)
    BY <1>1, <1>2, <2>6 DEF Since, Times
  <2>8. \A a, b \in Times : spent[k][<<a, b>>] \in Nat
    <3>1. spent[k] \in [Times \X Times -> Nat]
      BY Zenon, <1>3
    <3> QED
      BY Zenon, <1>1, <3>1
  <2>9. bucket[k].tokens \in Int /\ bucket[k].last \in Int
    BY <1>3 DEF Bucket, Times
  <2>10. RateLimitTypeOK'
    <3>1. spent' \in [Clients -> [Times \X Times -> Nat]]
      <4>1. \A w \in Times \X Times :
               (IF w[1] <= t /\ t <= w[2] THEN spent[k][w] + Cost ELSE spent[k][w]) \in Nat
        BY <1>3
      <4>2. [w \in Times \X Times |->
               IF w[1] <= t /\ t <= w[2] THEN spent[k][w] + Cost ELSE spent[k][w]]
                 \in [Times \X Times -> Nat]
        BY Zenon, <4>1
      <4> QED
        BY Zenon, <1>3, <1>11, <4>2 DEF Spend
    <3> QED
      BY Zenon, <1>6, <1>8, <1>9, <2>1, <3>1 DEF RateInv, RateLimitTypeOK
  <2>11. WindowsNest'
    <3>1. \A a, b \in Times : spent[k][<<a, b>>] <= Since(k, a)
      BY Zenon DEF RateInv, WindowsNest
    <3>2. \A a, b \in Times : spent'[k][<<a, b>>] <= Since(k, a)'
      <4> SUFFICES ASSUME NEW a \in Times, NEW b \in Times
                   PROVE  spent'[k][<<a, b>>] <= Since(k, a)'
        BY Zenon
      <4>1. spent[k][<<a, b>>] \in Nat /\ Since(k, a) \in Nat
        BY Zenon, <1>5, <2>8
      <4>2. spent'[k][<<a, b>>] = IF a <= t /\ t <= b THEN spent[k][<<a, b>>] + Cost
                                  ELSE spent[k][<<a, b>>]
        BY Zenon, <2>6
      <4>3. Since(k, a)' = IF a <= t THEN Since(k, a) + Cost ELSE Since(k, a)
        BY Zenon, <2>7
      <4> QED
        BY <3>1, <4>1, <4>2, <4>3
    <3> QED
      BY Zenon, <2>3, <2>5, <3>2 DEF RateInv, WindowsNest
  <2>12. DebtIsSmall'
    <3>1. t <= now /\ t - (tk - Cost) <= now /\ tk - Cost >= -MaxStall
      BY <1>2, <1>4, <1>11 DEF Times
    <3> QED
      BY Zenon, <1>6, <2>2, <2>3, <3>1 DEF RateInv, DebtIsSmall
  <2>13. \A a \in Times : Since(k, a)' > 0 => Since(k, a)' + (tk - Cost) - t <= Full - a
    <3> SUFFICES ASSUME NEW a \in Times, Since(k, a)' > 0
                 PROVE  Since(k, a)' + (tk - Cost) - t <= Full - a
      BY Zenon
    <3>1. Since(k, a) \in Nat
      BY Zenon, <1>5
    <3>2. Since(k, a)' = IF a <= t THEN Since(k, a) + Cost ELSE Since(k, a)
      BY Zenon, <2>7
    <3>3. CASE Since(k, a) = 0
      BY <1>2, <1>4, <3>1, <3>2, <3>3 DEF Times
    <3>4. CASE Since(k, a) > 0 /\ bucket[k].present
      <4>1. Since(k, a) + bucket[k].tokens - bucket[k].last <= Full - a
        BY Zenon, <3>4 DEF RateInv, BucketPays
      <4> QED
        BY <1>2, <1>4, <2>9, <3>1, <3>2, <3>4, <4>1 DEF Times
    <3>5. CASE Since(k, a) > 0 /\ ~bucket[k].present
      <4>1. Since(k, a) + a <= now - MaxStall
        BY Zenon, <3>5 DEF RateInv, AbsentIsPaid
      <4> QED
        BY <1>2, <1>4, <3>1, <3>2, <3>5, <4>1 DEF Times
    <3> QED
      BY <3>1, <3>3, <3>4, <3>5
  <2>14. BucketPays'
    BY Zenon, <2>2, <2>3, <2>5, <2>13 DEF RateInv, BucketPays
  <2>15. AbsentIsPaid'
    BY Zenon, <1>6, <2>2, <2>3, <2>5 DEF RateInv, AbsentIsPaid
  <2>16. RateHeld'
    <3>1. \A a, b \in Times : a <= b => spent'[k][<<a, b>>] <= Full + (b - a)
      <4> SUFFICES ASSUME NEW a \in Times, NEW b \in Times, a <= b
                   PROVE  spent'[k][<<a, b>>] <= Full + (b - a)
        BY Zenon
      <4>1. CASE a <= t /\ t <= b
        <5>1. Since(k, a)' = Since(k, a) + Cost /\ Since(k, a) \in Nat
          BY Zenon, <1>5, <2>7, <4>1
        <5>2. Since(k, a)' + (tk - Cost) - t <= Full - a
          BY <2>13, <5>1
        <5>3. spent'[k][<<a, b>>] <= Since(k, a)'
          BY Zenon, <2>11 DEF WindowsNest
        <5>4. spent'[k][<<a, b>>] \in Int
          BY <2>6, <2>8
        <5> QED
          BY <1>2, <1>4, <1>11, <4>1, <5>1, <5>2, <5>3, <5>4 DEF Times
      <4>2. CASE ~(a <= t /\ t <= b)
        BY Zenon, <2>6, <4>2 DEF RateInv, RateHeld
      <4> QED
        BY Zenon, <4>1, <4>2
    <3> QED
      BY Zenon, <2>3, <3>1 DEF RateInv, RateHeld
  <2>17. NothingWithheld' /\ BurstServed'
    <3>1. Since(k, 0)' = Since(k, 0) + Cost
      BY SMTT(30), <1>0, <1>2, <2>7 DEF Times
    <3>2. Since(k, 0) + tk - t >= Full - now
      BY <1>0, <1>2, <1>4, <2>9 DEF RateInv, NothingWithheld, Times
    <3>3. Since(k, 0)' + (tk - Cost) - t >= Full - now
      BY <1>0, <1>2, <1>4, <3>1, <3>2 DEF Times
    <3> QED
      BY <1>0, <1>6, <1>11, <2>2, <2>3, <2>5, <3>3 DEF RateInv, NothingWithheld, BurstServed
  <2> QED
    BY Zenon, <1>7, <2>10, <2>11, <2>12, <2>14, <2>15, <2>16, <2>17 DEF RateInv
<1> QED
  BY Zenon, <1>10, <1>11 DEF Allow, Since, t, tk

(* The sweeper: a bucket it drops has been idle for so long that a full    *)
(* one gives nothing away.                                                 *)
LEMMA SweepStep ==
    ASSUME RateInv, Sweep
    PROVE  RateInv'
<1> USE RateLimitAssumption
<1>1. MaxTime \in Times /\ \A a, b \in Times : <<a, b>> \in Times \X Times
  BY DEF Times
<1>2. bucket \in [Clients -> Bucket] /\ now \in Times
  BY Zenon DEF RateInv, RateLimitTypeOK
<1>3. \A c \in Clients : \A a \in Times : Since(c, a) \in Nat /\ Since(c, a)' = Since(c, a)
  BY <1>1 DEF RateInv, RateLimitTypeOK, Since, Sweep
<1>4. \A k \in Clients :
          bucket'[k] = IF Stale(bucket[k], sweeper.cutoff) THEN NoBucket ELSE bucket[k]
  BY Zenon DEF Sweep
<1>5. NoBucket \in Bucket /\ ~NoBucket.present
  BY DEF NoBucket, Bucket, Times
<1>6. RateLimitTypeOK'
  <2>1. bucket' \in [Clients -> Bucket]
    BY Zenon, <1>2, <1>5 DEF Sweep
  <2>2. NoSweep \in Sweeper
    BY DEF NoSweep, Sweeper
  <2> QED
    BY Zenon, <2>1, <2>2 DEF RateInv, RateLimitTypeOK, Sweep
<1>7. ReadingsAreRecent'
  BY Zenon DEF RateInv, ReadingsAreRecent, Sweep, NoSweep, Pending
<1>8. WindowsNest' /\ RateHeld'
  BY Zenon DEF RateInv, WindowsNest, RateHeld, Since, Sweep
<1>9. DebtIsSmall'
  BY Zenon, <1>4, <1>5 DEF RateInv, DebtIsSmall, Sweep
<1>10. BucketPays'
  BY Zenon, <1>3, <1>4, <1>5 DEF RateInv, BucketPays
<1>11. AbsentIsPaid'
  <2> SUFFICES ASSUME NEW k \in Clients, ~bucket'[k].present,
                      NEW a \in Times, Since(k, a) > 0
               PROVE  Since(k, a) + a <= now - MaxStall
    BY Zenon, <1>3 DEF AbsentIsPaid, Sweep
  <2>1. CASE ~bucket[k].present
    BY Zenon, <2>1 DEF RateInv, AbsentIsPaid
  <2>2. CASE bucket[k].present
    <3>1. bucket[k].last < sweeper.cutoff /\ sweeper.busy
      BY Zenon, <1>4, <2>2 DEF Stale, Sweep
    <3>2. sweeper.cutoff <= now - IdleAfter /\ sweeper.cutoff \in Int
      BY Zenon, <3>1 DEF RateInv, RateLimitTypeOK, ReadingsAreRecent, Sweeper
    <3>3. bucket[k].tokens >= -MaxStall
      BY Zenon, <2>2 DEF RateInv, DebtIsSmall
    <3>4. Since(k, a) + bucket[k].tokens - bucket[k].last <= Full - a
      BY Zenon, <2>2 DEF RateInv, BucketPays
    <3>5. bucket[k].tokens \in Int /\ bucket[k].last \in Int
      BY SMTT(30), <1>2 DEF Bucket, Times
    <3> QED
      BY <1>2, <1>3, <3>1, <3>2, <3>3, <3>4, <3>5 DEF Times
  <2> QED
    BY Zenon, <2>1, <2>2
<1>12. NothingWithheld' /\ BurstServed'
  <2>1. 0 \in Times
    BY DEF Times
  <2> QED
    BY Zenon, <1>3, <1>4, <1>5, <2>1 DEF RateInv, NothingWithheld, BurstServed, Sweep
<1> QED
  BY Zenon, <1>6, <1>7, <1>8, <1>9, <1>10, <1>11, <1>12 DEF RateInv

(* Every step of the limiter keeps the invariant.                          *)
LEMMA NextRate == RateInv /\ [RateNext]_rateVars => RateInv'
<1> SUFFICES ASSUME RateInv, [RateNext]_rateVars PROVE RateInv'
  BY Zenon
<1> USE RateLimitAssumption
<1>1. now \in Times /\ RateLimitTypeOK /\ ReadingsAreRecent
  BY Zenon DEF RateInv, RateLimitTypeOK
<1>2. CASE Tick
  <2>1. now' = now + 1 /\ now' \in Times
    BY <1>1, <1>2 DEF Tick, Times
  <2>2. UNCHANGED <<bucket, req, sweeper, spent, hasty>>
    BY Zenon, <1>2 DEF Tick
  <2>3. now' >= now
    BY <1>1, <2>1 DEF Times
  <2>4. WindowsNest' /\ DebtIsSmall' /\ BucketPays' /\ AbsentIsPaid' /\ RateHeld'
        /\ NothingWithheld' /\ BurstServed'
    BY Zenon, <2>1, <2>2, <2>3, QuietStep
  <2>5. RateLimitTypeOK'
    BY Zenon, <1>1, <2>1, <2>2 DEF RateLimitTypeOK
  <2>6. \A h \in Handlers : req[h].now \in Times
    BY Zenon, <1>1 DEF RateLimitTypeOK, Request
  <2>7. sweeper.cutoff \in Int
    BY Zenon, <1>1 DEF RateLimitTypeOK, Sweeper
  <2>8. ReadingsAreRecent'
    BY <1>1, <1>2, <2>1, <2>2, <2>6, <2>7 DEF ReadingsAreRecent, Pending, Tick, Times
  <2> QED
    BY Zenon, <2>4, <2>5, <2>8 DEF RateInv
<1>3. ASSUME NEW h \in Handlers, NEW k \in Clients, ReadClock(h, k) PROVE RateInv'
  <2>1. now' = now /\ UNCHANGED <<bucket, sweeper, spent, hasty>>
    BY Zenon, <1>3 DEF ReadClock
  <2>2. [key |-> k, now |-> now] \in Request
    BY Zenon, <1>1 DEF Request
  <2>3. req' \in [Handlers -> Request]
    BY Zenon, <1>1, <1>3, <2>2 DEF RateLimitTypeOK, ReadClock
  <2>4. now' >= now
    BY <1>1, <2>1 DEF Times
  <2>5. WindowsNest' /\ DebtIsSmall' /\ BucketPays' /\ AbsentIsPaid' /\ RateHeld'
        /\ NothingWithheld' /\ BurstServed'
    BY Zenon, <1>1, <2>1, <2>4, QuietStep
  <2>6. RateLimitTypeOK'
    BY Zenon, <1>1, <2>1, <2>3 DEF RateLimitTypeOK
  <2>7. ReadingsAreRecent'
    <3>1. now <= now + MaxStall /\ now <= now
      BY <1>1 DEF Times
    <3> QED
      BY Zenon, <1>1, <1>3, <2>1, <3>1 DEF RateLimitTypeOK, ReadingsAreRecent, Pending, ReadClock
  <2> QED
    BY Zenon, <2>5, <2>6, <2>7 DEF RateInv
<1>4. ASSUME NEW h \in Handlers, NEW k \in Clients, Allow(h, k) PROVE RateInv'
  BY Zenon, <1>4, AllowStep
<1>5. CASE SweepReads
  <2>1. now' = now /\ UNCHANGED <<bucket, req, spent, hasty>>
    BY Zenon, <1>5 DEF SweepReads
  <2>2. sweeper' = [busy |-> TRUE, cutoff |-> now - IdleAfter]
    BY Zenon, <1>5 DEF SweepReads
  <2>3. now - IdleAfter \in Int /\ now - IdleAfter <= now - IdleAfter /\ now' >= now
    BY <1>1, <2>1 DEF Times
  <2>4. sweeper' \in Sweeper
    BY Zenon, <2>2, <2>3 DEF Sweeper
  <2>5. WindowsNest' /\ DebtIsSmall' /\ BucketPays' /\ AbsentIsPaid' /\ RateHeld'
        /\ NothingWithheld' /\ BurstServed'
    BY Zenon, <1>1, <2>1, <2>3, QuietStep
  <2>6. RateLimitTypeOK'
    BY Zenon, <1>1, <2>1, <2>4 DEF RateLimitTypeOK
  <2>7. ReadingsAreRecent'
    BY Zenon, <1>1, <2>1, <2>2, <2>3 DEF ReadingsAreRecent, Pending
  <2> QED
    BY Zenon, <2>5, <2>6, <2>7 DEF RateInv
<1>6. CASE Sweep
  BY Zenon, <1>6, SweepStep
<1>7. CASE UNCHANGED rateVars
  <2>1. UNCHANGED <<now, bucket, req, sweeper, spent, hasty>>
    BY Zenon, <1>7 DEF rateVars
  <2>2. now' >= now /\ now' \in Times
    BY <1>1, <2>1 DEF Times
  <2>3. WindowsNest' /\ DebtIsSmall' /\ BucketPays' /\ AbsentIsPaid' /\ RateHeld'
        /\ NothingWithheld' /\ BurstServed'
    BY Zenon, <2>1, <2>2, QuietStep
  <2>4. RateLimitTypeOK' /\ ReadingsAreRecent'
    BY Zenon, <1>1, <2>1 DEF RateLimitTypeOK, ReadingsAreRecent, Pending
  <2> QED
    BY Zenon, <2>3, <2>4 DEF RateInv
<1> QED
  BY Zenon, <1>2, <1>3, <1>4, <1>5, <1>6, <1>7 DEF RateNext

(* RateInv is an invariant of the limiter.                                 *)
THEOREM RateInvariant == RateSpec => []RateInv
BY InitRate, NextRate, PTL DEF RateSpec

(* The limiter keeps its promise: in any window of clock readings a client *)
(* is let through at most burst times plus the window's refill, however    *)
(* requests overtake one another before the mutex and whatever buckets the *)
(* sweeper drops.                                                          *)
THEOREM LimiterHoldsRate == RateSpec => []RateHeld
<1>1. RateInv => RateHeld
  BY Zenon DEF RateInv
<1> QED
  BY <1>1, RateInvariant, PTL

(* And it is no stricter than it says: a client is not refused before it   *)
(* has had its burst, less what one stalled request can cost it.           *)
THEOREM BurstIsServed == RateSpec => []BurstServed
<1>1. RateInv => BurstServed
  BY Zenon DEF RateInv
<1> QED
  BY <1>1, RateInvariant, PTL

-------------------------------------------------------------------------------
(* Campaigns.                                                              *)

(* A run that is dispatching.                                              *)
Busy(r) == run[r].pc \notin {"idle", "get"}
BusyAt(r, c) == Busy(r) /\ Camp(r) = c

(* Of each run: its campaigns are there; a phone it owes a call is still   *)
(* to be upserted, a target or sent; it has enqueued a call for every      *)
(* phone it counts as sent and for none that was do-not-disturb all along. *)
RunSound(r) ==
    /\ run[r].pc = "idle" => run[r] = Idle
    /\ run[r].pc # "idle" => Camp(r) \in Campaigns /\ Exists(Camp(r))
    /\ \A c \in run[r].rest : Exists(c)
    /\ Camp(r) \notin run[r].rest
    /\ run[r].pc \notin {"enqueue", "mark"} => run[r].sent = {}
    /\ run[r].sent \cap run[r].targets = {}
    /\ run[r].pc # "upsert" => run[r].todo = {}
    /\ run[r].todo \cap run[r].targets = {}
    /\ run[r].pc \notin {"upsert", "enqueue"} => run[r].targets = {}
    /\ run[r].owed = run[r].todo \cup run[r].targets \cup run[r].sent
    /\ run[r].barred \subseteq dnd
    /\ (run[r].sent \cup run[r].targets) \cap run[r].barred = {}
    /\ \A p \in run[r].sent : calls[Camp(r)][p] >= 1

(* An import under way has rows left.                                      *)
ImportSound(i) == import[i] # NoImport => import[i].rows # <<>>

(* Without a failure or a second dispatch: one run is at the campaign, it  *)
(* has called nobody twice, and nobody is called before one is.            *)
OneRun(c) ==
    /\ \A q, r \in Runs : BusyAt(q, c) /\ BusyAt(r, c) => q = r
    /\ \A r \in Runs : BusyAt(r, c) =>
           /\ campaign[c].status # "completed"
           /\ \A p \in Phones : p \notin run[r].sent => calls[c][p] = 0
    /\ campaign[c].status # "completed" /\ (\A r \in Runs : ~BusyAt(r, c)) =>
           \A p \in Phones : calls[c][p] = 0
    /\ \A p \in Phones : calls[c][p] <= 1

(* What every step of the campaigns keeps.                                 *)
DispatchInv ==
    /\ CampaignsTypeOK
    /\ CompletedIsDispatched
    /\ \A r \in Runs : RunSound(r)
    /\ \A i \in Importers : ImportSound(i)
    /\ faults = 0 => \A c \in Campaigns \ again : OneRun(c)

(* What the invariant says of one run.                                     *)
LEMMA RunFacts ==
    ASSUME DispatchInv, NEW r \in Runs
    PROVE  /\ run \in [Runs -> Run] /\ run[r] \in Run /\ RunSound(r)
           /\ run[r].rest \in SUBSET Campaigns /\ run[r].todo \in SUBSET Phones
           /\ run[r].targets \in SUBSET Phones /\ run[r].sent \in SUBSET Phones
           /\ run[r].owed \in SUBSET Phones /\ run[r].barred \in SUBSET Phones /\ dnd \in SUBSET Phones
<1>1. run \in [Runs -> Run] /\ RunSound(r)
  BY Zenon DEF DispatchInv, CampaignsTypeOK
<1>2. run[r] \in Run
  BY Zenon, <1>1
<1>3. customers \in Seq(Phones) /\ dnd \in SUBSET Range(customers)
  BY Zenon DEF DispatchInv, CampaignsTypeOK
<1>4. Range(customers) \subseteq Phones
  BY <1>3 DEF Range
<1> QED  BY Zenon, <1>1, <1>2, <1>3, <1>4 DEF Run

(* An idle run.                                                            *)
LEMMA IdleRun ==
    /\ Idle \in Run /\ Idle.pc = "idle" /\ Idle.camp = NoCampaign /\ Idle.rest = {} /\ Idle.todo = {}
    /\ Idle.targets = {} /\ Idle.sent = {} /\ Idle.owed = {} /\ Idle.barred = {}
BY Zenon DEF Idle, Run

(* A run that begins to dispatch.                                          *)
LEMMA DispatchRun ==
    ASSUME DispatchInv, NEW c, NEW R
    PROVE  /\ Dispatch(c, R).pc = "recipients" /\ Dispatch(c, R).camp = c
           /\ Dispatch(c, R).rest = R /\ Dispatch(c, R).todo = {} /\ Dispatch(c, R).targets = {}
           /\ Dispatch(c, R).sent = {} /\ Dispatch(c, R).owed = {} /\ Dispatch(c, R).barred = dnd
           /\ c \in Campaigns /\ R \subseteq Campaigns => Dispatch(c, R) \in Run
<1>1. dnd \in SUBSET Phones
  <2>1. customers \in Seq(Phones) /\ dnd \in SUBSET Range(customers)
    BY Zenon DEF DispatchInv, CampaignsTypeOK
  <2> QED  BY <2>1 DEF Range
<1>2. c \in Campaigns /\ R \subseteq Campaigns => Dispatch(c, R) \in Run
  BY Zenon, <1>1 DEF Dispatch, Run
<1> QED  BY Zenon, <1>2 DEF Dispatch

(* A run that does not move stays sound while the flags stay up, campaigns *)
(* do not vanish and calls are not taken back.                             *)
OthersFare ==
    /\ dnd \subseteq dnd'
    /\ \A c \in Campaigns : Exists(c) => Exists(c)'
    /\ \A c \in Campaigns, p \in Phones : calls[c][p] >= 1 => calls'[c][p] >= 1

(* One run that stands still.                                              *)
LEMMA StandsStill ==
    ASSUME DispatchInv, OthersFare, NEW r \in Runs, run'[r] = run[r]
    PROVE  RunSound(r)'
<1>1. /\ RunSound(r) /\ run[r].rest \in SUBSET Campaigns /\ run[r].sent \in SUBSET Phones
  BY Zenon, RunFacts
<1>2. Camp(r)' = Camp(r)
  BY Zenon DEF Camp
<1>3. \A c \in run[r].rest : Exists(c)'
  BY Zenon, <1>1 DEF RunSound, OthersFare
<1>4. run[r].pc # "idle" => Camp(r) \in Campaigns /\ campaign'[Camp(r)].status # "none"
  BY Zenon, <1>1 DEF RunSound, OthersFare, Exists
<1>5. run[r].barred \subseteq dnd'
  BY Zenon, <1>1 DEF RunSound, OthersFare
<1>6. \A p \in run[r].sent : calls'[Camp(r)][p] >= 1
  <2> TAKE p \in run[r].sent
  <2>1. run[r].pc # "idle" /\ Camp(r) \in Campaigns
    BY Zenon, <1>1, IdleRun DEF RunSound
  <2> QED  BY Zenon, <1>1, <2>1 DEF RunSound, OthersFare
<1> QED
  BY Zenon, <1>1, <1>2, <1>3, <1>4, <1>5, <1>6 DEF RunSound, Camp, Exists

(* A run that goes back to idle.                                           *)
LEMMA IdleIsSound ==
    ASSUME NEW r \in Runs, run'[r] = Idle
    PROVE  RunSound(r)' /\ ~Busy(r)'
BY Zenon, IdleRun DEF RunSound, Camp, Busy

(* A campaign that no run joins, leaves or calls for.                      *)
LEMMA UntouchedStep ==
    ASSUME DispatchInv, NEW c \in Campaigns, c \notin again, faults = 0,
           \A r \in Runs : BusyAt(r, c)' <=> BusyAt(r, c),
           \A r \in Runs : BusyAt(r, c) => run'[r].sent = run[r].sent,
           campaign'[c].status = "completed" <=> campaign[c].status = "completed",
           calls' = calls
    PROVE  OneRun(c)'
<1>1. OneRun(c)
  BY Zenon DEF DispatchInv
<1>2. \A q, r \in Runs : BusyAt(q, c)' /\ BusyAt(r, c)' => q = r
  BY Zenon, <1>1 DEF OneRun
<1>3. \A r \in Runs : BusyAt(r, c)' =>
           /\ campaign'[c].status # "completed"
           /\ \A p \in Phones : p \notin run'[r].sent => calls'[c][p] = 0
  BY Zenon, <1>1 DEF OneRun
<1>4. campaign'[c].status # "completed" /\ (\A r \in Runs : ~BusyAt(r, c)') =>
           \A p \in Phones : calls'[c][p] = 0
  BY Zenon, <1>1 DEF OneRun
<1> QED  BY Zenon, <1>1, <1>2, <1>3, <1>4 DEF OneRun

(* A run takes up a campaign that no other run is at, and that is not      *)
(* completed.                                                              *)
LEMMA JoinStep ==
    ASSUME DispatchInv, NEW c \in Campaigns, c \notin again, faults = 0, NEW r \in Runs,
           \A s \in Runs : ~BusyAt(s, c),
           \A s \in Runs : s # r => ~BusyAt(s, c)',
           run'[r].sent = {}, campaign[c].status # "completed",
           campaign'[c].status = campaign[c].status, calls' = calls
    PROVE  OneRun(c)'
<1>1. \A p \in Phones : calls[c][p] = 0
  BY Zenon DEF DispatchInv, OneRun
<1>2. \A p \in Phones : calls'[c][p] = 0 /\ calls'[c][p] <= 1
  BY <1>1
<1> QED  BY Zenon, <1>2 DEF OneRun

(* Campaigns do not vanish, and none is completed or counted anew.         *)
PlansKept ==
    /\ campaign' \in [Campaigns -> Campaign]
    /\ \A c \in Campaigns :
           /\ Exists(c) => Exists(c)'
           /\ campaign'[c].status = "completed" <=> campaign[c].status = "completed"
           /\ campaign'[c].target = campaign[c].target

(* No run moves: what is left to show is about the step's own data.        *)
LEMMA NoRunMoves ==
    ASSUME DispatchInv, CampaignsTypeOK', \A i \in Importers : ImportSound(i)',
           UNCHANGED <<run, dnd, calls, audience, again>>, faults' = 0 => faults = 0, PlansKept
    PROVE  DispatchInv'
<1>1. OthersFare
  BY Zenon DEF OthersFare, PlansKept
<1>2. \A r \in Runs : RunSound(r)'
  BY Zenon, <1>1, StandsStill
<1>3. CompletedIsDispatched'
  BY Zenon DEF DispatchInv, CompletedIsDispatched, PlansKept
<1>4. ASSUME faults' = 0, NEW c \in Campaigns \ again'  PROVE OneRun(c)'
  <2>1. \A r \in Runs : (BusyAt(r, c)' <=> BusyAt(r, c)) /\ run'[r].sent = run[r].sent
    BY Zenon DEF BusyAt, Busy, Camp
  <2> QED  BY Zenon, <1>4, <2>1, UntouchedStep DEF PlansKept
<1> QED  BY Zenon, <1>2, <1>3, <1>4 DEF DispatchInv

(* The customers with one more.                                            *)
LEMMA UpsertedFacts ==
    ASSUME DispatchInv, NEW p \in Phones
    PROVE  /\ Upserted(p) \in Seq(Phones) /\ IsInjective(Upserted(p))
           /\ Range(customers) \subseteq Range(Upserted(p))
<1>1. customers \in Seq(Phones) /\ IsInjective(customers)
  BY Zenon DEF DispatchInv, CampaignsTypeOK
<1>2. CASE p \in Range(customers)
  BY Zenon, <1>1, <1>2 DEF Upserted
<1>3. CASE p \notin Range(customers)
  <2>1. Upserted(p) = Append(customers, p)
    BY Zenon, <1>3 DEF Upserted
  <2>2. /\ Append(customers, p) \in Seq(Phones) /\ Len(customers) \in Nat
        /\ Len(Append(customers, p)) = Len(customers) + 1
        /\ \A i \in 1..Len(customers) : Append(customers, p)[i] = customers[i]
        /\ Append(customers, p)[Len(customers) + 1] = p
    BY <1>1
  <2>3. \A i \in 1..Len(customers) : customers[i] # p
    BY <1>1, <1>3 DEF Range
  <2>4. DOMAIN customers = 1..Len(customers) /\ DOMAIN Append(customers, p) = 1..(Len(customers) + 1)
    BY <1>1, <2>2
  <2> DEFINE s == Append(customers, p)
  <2> HIDE DEF s
  <2>5. IsInjective(s)
    <3>1. \A i, j \in 1..Len(customers) : customers[i] = customers[j] => i = j
      BY Zenon, <1>1, <2>4 DEF IsInjective
    <3>2. ASSUME NEW i \in 1..(Len(customers) + 1), NEW j \in 1..(Len(customers) + 1), s[i] = s[j]
          PROVE  i = j
      <4>1. i \in 1..Len(customers) \/ i = Len(customers) + 1
        BY <2>2
      <4>2. j \in 1..Len(customers) \/ j = Len(customers) + 1
        BY <2>2
      <4> QED  BY Zenon, <2>2, <2>3, <3>1, <3>2, <4>1, <4>2 DEF s
    <3>3. DOMAIN s = 1..(Len(customers) + 1)
      BY Zenon, <2>4 DEF s
    <3> QED  BY Zenon, <3>2, <3>3 DEF IsInjective
  <2>6. Range(customers) \subseteq Range(s)
    <3>1. 1..Len(customers) \subseteq 1..(Len(customers) + 1)
      BY <2>2
    <3> QED  BY Zenon, <2>2, <2>4, <3>1 DEF Range, s
  <2> QED  BY Zenon, <2>1, <2>2, <2>5, <2>6 DEF s
<1> QED  BY Zenon, <1>2, <1>3

(* A customer is added.                                                    *)
LEMMA UpsertStep ==
    ASSUME DispatchInv, NEW p \in Phones, Upsert(p)
    PROVE  DispatchInv'
<1>1. /\ customers' = Upserted(p)
      /\ UNCHANGED <<campaign, recipients, dnd, run, import, clock, requests, toggles, faults, calls,
                     audience, again>>
  BY Zenon DEF Upsert, reqVars, history
<1>2. CampaignsTypeOK'
  <2>1. dnd \in SUBSET Range(customers)
    BY Zenon DEF DispatchInv, CampaignsTypeOK
  <2>2. customers' \in Seq(Phones) /\ IsInjective(customers') /\ dnd' \in SUBSET Range(customers')
    BY Zenon, <1>1, <2>1, UpsertedFacts
  <2> QED  BY Zenon, <1>1, <2>2 DEF DispatchInv, CampaignsTypeOK
<1>3. \A i \in Importers : ImportSound(i)'
  BY Zenon, <1>1 DEF DispatchInv, ImportSound
<1>4. PlansKept
  BY Zenon, <1>1 DEF DispatchInv, CampaignsTypeOK, PlansKept, Exists
<1> QED  BY Zenon, <1>1, <1>2, <1>3, <1>4, NoRunMoves

(* A campaign is created or scheduled, or a minute passes.                 *)
LEMMA PlanStep ==
    ASSUME DispatchInv,
           \/ MinutePasses
           \/ \E c \in Campaigns : Create(c)
           \/ \E c \in Campaigns, at \in 1..LastMinute : Schedule(c, at)
    PROVE  DispatchInv'
<1>0. UNCHANGED <<recipients, customers, dnd, run, import, requests, toggles, faults, calls, audience, again>>
  BY Zenon DEF MinutePasses, Create, Schedule, reqVars, history
<1>1. campaign \in [Campaigns -> Campaign] /\ clock \in 0..LastMinute
  BY Zenon DEF DispatchInv, CampaignsTypeOK
<1>2. PlansKept /\ clock' \in 0..LastMinute
  <2>1. CASE MinutePasses
    <3>1. campaign' = campaign /\ clock < LastMinute /\ clock' = clock + 1
      BY Zenon, <2>1 DEF MinutePasses
    <3>2. clock' \in 0..LastMinute
      BY <1>1, <3>1, CampaignsAssumption
    <3> QED  BY Zenon, <1>1, <3>1, <3>2 DEF PlansKept, Exists
  <2>2. ASSUME NEW c \in Campaigns, NEW row \in Campaign, row.target = campaign[c].target,
               campaign' = [campaign EXCEPT ![c] = row], clock' = clock,
               campaign[c].status \in {"none", "draft"}, row.status \in {"draft", "scheduled"}
        PROVE  PlansKept /\ clock' \in 0..LastMinute
    <3>1. /\ campaign' \in [Campaigns -> Campaign] /\ campaign'[c] = row
          /\ \A d \in Campaigns : d # c => campaign'[d] = campaign[d]
      BY Zenon, <1>1, <2>2
    <3> QED  BY Zenon, <1>1, <2>2, <3>1 DEF PlansKept, Exists
  <2>3. ASSUME NEW c \in Campaigns, Create(c)
        PROVE  PlansKept /\ clock' \in 0..LastMinute
    <3> DEFINE row == [campaign[c] EXCEPT !.status = "draft"]
    <3>1. campaign' = [campaign EXCEPT ![c] = row] /\ clock' = clock /\ campaign[c].status = "none"
      BY Zenon, <2>3 DEF Create
    <3>2. row \in Campaign /\ row.target = campaign[c].target /\ row.status = "draft"
      BY Zenon, <1>1 DEF Campaign
    <3> HIDE DEF row
    <3> QED  BY Zenon, <2>2, <3>1, <3>2
  <2>4. ASSUME NEW c \in Campaigns, NEW at \in 1..LastMinute, Schedule(c, at)
        PROVE  PlansKept /\ clock' \in 0..LastMinute
    <3> DEFINE row == [campaign[c] EXCEPT !.status = "scheduled", !.fire = at]
    <3>0. clock' = clock
      BY Zenon, <2>4 DEF Schedule
    <3>1. CASE campaign[c].status = "draft"
      <4>1. campaign' = [campaign EXCEPT ![c] = row]
        BY Zenon, <2>4, <3>1 DEF Schedule, ScheduleCampaign
      <4>2. at \in 0..LastMinute
        OBVIOUS
      <4>3. row \in Campaign /\ row.target = campaign[c].target /\ row.status = "scheduled"
        BY Zenon, <1>1, <4>2 DEF Campaign
      <4> HIDE DEF row
      <4> QED  BY Zenon, <2>2, <3>0, <3>1, <4>1, <4>3
    <3>2. CASE campaign[c].status # "draft"
      <4>1. campaign' = campaign
        BY Zenon, <2>4, <3>2 DEF Schedule, ScheduleCampaign
      <4> QED  BY Zenon, <1>1, <3>0, <4>1 DEF PlansKept, Exists
    <3> QED  BY Zenon, <3>1, <3>2
  <2> QED  BY Zenon, <2>1, <2>3, <2>4
<1>3. CampaignsTypeOK'
  BY Zenon, <1>0, <1>2 DEF DispatchInv, CampaignsTypeOK, PlansKept
<1>4. \A i \in Importers : ImportSound(i)'
  BY Zenon, <1>0 DEF DispatchInv, ImportSound
<1> QED  BY Zenon, <1>0, <1>2, <1>3, <1>4, NoRunMoves

(* An import begins, takes a row or fails.                                 *)
LEMMA ImportStep ==
    ASSUME DispatchInv, NEW i \in Importers,
           \/ \E c \in Campaigns, f \in Files : ImportRecipients(i, c, f)
           \/ ImportRow(i)
           \/ ImportFails(i)
    PROVE  DispatchInv'
<1>0. UNCHANGED <<campaign, customers, dnd, run, clock, toggles, calls, audience, again>>
  BY Zenon DEF ImportRecipients, ImportRow, ImportFails, reqVars, history
<1>1. /\ import \in [Importers -> Import] /\ import[i] \in Import /\ ImportSound(i)
      /\ recipients \in [Campaigns -> SUBSET Phones]
      /\ requests \in 0..MaxRequests /\ faults \in 0..MaxFaults
  BY Zenon DEF DispatchInv, CampaignsTypeOK
<1>2. NoImport \in Import
  <2>1. <<>> \in Seq(Rows)
    OBVIOUS
  <2> QED  BY Zenon, <2>1 DEF NoImport, Import
<1>3. /\ recipients' \in [Campaigns -> SUBSET Phones] /\ requests' \in 0..MaxRequests
      /\ faults' \in 0..MaxFaults /\ (faults' = 0 => faults = 0)
      /\ \E n \in Import : import' = [import EXCEPT ![i] = n] /\ (n = NoImport \/ n.rows # <<>>)
  <2>1. ASSUME NEW c \in Campaigns, NEW f \in Files, ImportRecipients(i, c, f)
        PROVE  /\ recipients' \in [Campaigns -> SUBSET Phones] /\ requests' \in 0..MaxRequests
               /\ faults' \in 0..MaxFaults /\ (faults' = 0 => faults = 0)
               /\ \E n \in Import : import' = [import EXCEPT ![i] = n] /\ (n = NoImport \/ n.rows # <<>>)
    <3> DEFINE n == [camp |-> c, rows |-> f, seen |-> {}]
    <3>1. /\ import' = [import EXCEPT ![i] = n] /\ f # <<>> /\ UNCHANGED <<recipients, faults>>
          /\ requests < MaxRequests /\ requests' = requests + 1
      BY Zenon, <2>1 DEF ImportRecipients
    <3>2. requests' \in 0..MaxRequests
      BY <1>1, <3>1, CampaignsAssumption
    <3>3. n \in Import /\ n.rows # <<>>
      BY Zenon, <3>1, CampaignsAssumption DEF Import
    <3> HIDE DEF n
    <3> QED  BY Zenon, <1>1, <3>1, <3>2, <3>3
  <2>2. CASE ImportRow(i)
    <3> DEFINE p == NormalizeBD[Head(import[i].rows)]
               rest == Tail(import[i].rows)
               ended == p = "malformed" \/ rest = <<>>
               fresh == p \in Phones \ import[i].seen
               met == IF fresh THEN import[i].seen \cup {p} ELSE import[i].seen
               next == [import[i] EXCEPT !.rows = rest, !.seen = met]
               n == IF ended THEN NoImport ELSE next
    <3>1. /\ import[i] # NoImport /\ UNCHANGED <<requests, faults>>
          /\ fresh => AddRecipient(import[i].camp, p)
          /\ ~fresh => UNCHANGED recipients
          /\ import' = [import EXCEPT ![i] = n]
      BY Zenon, <2>2 DEF ImportRow, reqVars
    <3>2. import[i].rows \in Seq(Rows) /\ import[i].rows # <<>> /\ import[i].seen \in SUBSET Phones
      BY Zenon, <1>1, <3>1 DEF Import, ImportSound
    <3>3. rest \in Seq(Rows)
      BY <3>2
    <3>4. met \in SUBSET Phones
      BY Zenon, <3>2
    <3> HIDE DEF rest, met
    <3>5. next \in Import /\ next.rows = rest
      BY Zenon, <1>1, <3>3, <3>4 DEF Import
    <3> HIDE DEF next
    <3>6. n \in Import /\ (n = NoImport \/ n.rows # <<>>)
      BY Zenon, <1>2, <3>5
    <3>7. recipients' \in [Campaigns -> SUBSET Phones]
      <4>1. CASE fresh
        <5>1. recipients' = [recipients EXCEPT ![import[i].camp] = recipients[import[i].camp] \cup {p}]
          BY Zenon, <3>1, <4>1 DEF AddRecipient
        <5>2. p \in Phones
          BY Zenon, <4>1
        <5> HIDE DEF p
        <5> QED  BY Zenon, <1>1, <5>1, <5>2
      <4>2. CASE ~fresh
        BY Zenon, <1>1, <3>1, <4>2
      <4> QED  BY Zenon, <4>1, <4>2
    <3> HIDE DEF n
    <3> QED  BY Zenon, <1>1, <3>1, <3>6, <3>7
  <2>3. CASE ImportFails(i)
    <3>1. /\ import' = [import EXCEPT ![i] = NoImport] /\ UNCHANGED <<recipients, requests>>
          /\ faults < MaxFaults /\ faults' = faults + 1
      BY Zenon, <2>3 DEF ImportFails, Fault, history
    <3>2. faults' \in 0..MaxFaults /\ faults' # 0
      BY <1>1, <3>1, CampaignsAssumption
    <3> QED  BY Zenon, <1>1, <1>2, <3>1, <3>2
  <2> QED  BY Zenon, <2>1, <2>2, <2>3
<1>4. PICK n \in Import : import' = [import EXCEPT ![i] = n] /\ (n = NoImport \/ n.rows # <<>>)
  BY Zenon, <1>3
<1>5. /\ import' \in [Importers -> Import] /\ import'[i] = n
      /\ \A j \in Importers : j # i => import'[j] = import[j]
  BY Zenon, <1>1, <1>4
<1>6. \A j \in Importers : ImportSound(j)'
  BY Zenon, <1>4, <1>5 DEF DispatchInv, ImportSound
<1>7. CampaignsTypeOK'
  BY Zenon, <1>0, <1>3, <1>5 DEF DispatchInv, CampaignsTypeOK
<1>8. PlansKept
  BY Zenon, <1>0 DEF DispatchInv, CampaignsTypeOK, PlansKept, Exists
<1> QED  BY Zenon, <1>0, <1>3, <1>6, <1>7, <1>8, NoRunMoves

(* A customer asks not to be disturbed, or no longer does.                 *)
LEMMA FlagStep ==
    ASSUME DispatchInv, NEW p \in Phones, NEW on \in BOOLEAN, SetDND(p, on)
    PROVE  DispatchInv'
<1> DEFINE keep(B) == IF on THEN B ELSE B \ {p}
<1>1. /\ p \in Range(customers) /\ toggles < MaxToggles /\ toggles' = toggles + 1
      /\ dnd' = (IF on THEN dnd \cup {p} ELSE dnd \ {p})
      /\ run' = [r \in Runs |-> [run[r] EXCEPT !.barred = keep(run[r].barred)]]
      /\ UNCHANGED <<campaign, recipients, customers, import, clock, requests, faults, calls, audience,
                     again>>
  BY Zenon DEF SetDND, history
<1>2. /\ toggles \in 0..MaxToggles /\ dnd \in SUBSET Range(customers)
      /\ run \in [Runs -> Run]
  BY Zenon DEF DispatchInv, CampaignsTypeOK
<1>3. toggles' \in 0..MaxToggles
  BY <1>1, <1>2, CampaignsAssumption
<1>4. dnd' \in SUBSET Range(customers)
  BY Zenon, <1>1, <1>2
<1>5. ASSUME NEW r \in Runs
      PROVE  /\ run'[r] \in Run /\ run'[r].pc = run[r].pc /\ run'[r].camp = run[r].camp
             /\ run'[r].rest = run[r].rest /\ run'[r].targets = run[r].targets
             /\ run'[r].todo = run[r].todo /\ run'[r].owed = run[r].owed
             /\ run'[r].sent = run[r].sent /\ run'[r].barred = keep(run[r].barred)
             /\ run[r] = Idle => run'[r] = Idle
  <2> DEFINE b == keep(run[r].barred)
             q == [run[r] EXCEPT !.barred = b]
  <2>1. run[r] \in Run /\ run[r].barred \in SUBSET Phones
    BY Zenon, RunFacts
  <2>2. b \in SUBSET Phones
    BY Zenon, <2>1
  <2>3. run[r] = Idle => b = {} /\ run[r].barred = {}
    BY Zenon, IdleRun
  <2>4. run'[r] = q
    BY Zenon, <1>1
  <2> HIDE DEF keep, b
  <2>5. /\ q \in Run /\ q.pc = run[r].pc /\ q.camp = run[r].camp /\ q.rest = run[r].rest
        /\ q.targets = run[r].targets /\ q.sent = run[r].sent /\ q.barred = b
        /\ q.todo = run[r].todo /\ q.owed = run[r].owed
        /\ b = run[r].barred => q = run[r]
    BY Zenon, <2>1, <2>2 DEF Run
  <2> HIDE DEF q
  <2> QED  BY Zenon, <2>3, <2>4, <2>5 DEF b
<1>6. run' \in [Runs -> Run]
  BY Zenon, <1>1, <1>5
<1>7. ASSUME NEW r \in Runs  PROVE RunSound(r)'
  <2>1. RunSound(r)
    BY Zenon, RunFacts
  <2>2. keep(run[r].barred) \subseteq dnd' /\ keep(run[r].barred) \subseteq run[r].barred
    BY Zenon, <1>1, <2>1 DEF RunSound
  <2> HIDE DEF keep
  <2>3. (run[r].sent \cup run[r].targets) \cap keep(run[r].barred) = {}
    BY Zenon, <2>1, <2>2 DEF RunSound
  <2> QED  BY Zenon, <1>1, <1>5, <2>1, <2>2, <2>3 DEF RunSound, Camp, Exists
<1>8. ASSUME faults' = 0, NEW c \in Campaigns \ again'  PROVE OneRun(c)'
  <2>1. \A r \in Runs : (BusyAt(r, c)' <=> BusyAt(r, c)) /\ run'[r].sent = run[r].sent
    BY Zenon, <1>5 DEF BusyAt, Busy, Camp
  <2> QED  BY Zenon, <1>1, <1>8, <2>1, UntouchedStep
<1>9. CampaignsTypeOK'
  BY Zenon, <1>1, <1>3, <1>4, <1>6 DEF DispatchInv, CampaignsTypeOK
<1>10. CompletedIsDispatched' /\ \A i \in Importers : ImportSound(i)'
  BY Zenon, <1>1 DEF DispatchInv, CompletedIsDispatched, ImportSound
<1> QED  BY Zenon, <1>7, <1>8, <1>9, <1>10 DEF DispatchInv

(* One run moves on; the others stand still.                               *)
LEMMA OneMoves ==
    ASSUME DispatchInv, OthersFare, NEW r \in Runs, NEW q \in Run, run' = [run EXCEPT ![r] = q]
    PROVE  /\ run' \in [Runs -> Run] /\ run'[r] = q
           /\ \A s \in Runs : s # r => run'[s] = run[s] /\ RunSound(s)'
                                        /\ \A c : BusyAt(s, c)' <=> BusyAt(s, c)
<1>1. /\ run' \in [Runs -> Run] /\ run'[r] = q /\ \A s \in Runs : s # r => run'[s] = run[s]
  BY Zenon, RunFacts
<1>2. ASSUME NEW s \in Runs, s # r
      PROVE  RunSound(s)' /\ \A c : BusyAt(s, c)' <=> BusyAt(s, c)
  <2>1. RunSound(s)'
    BY Zenon, <1>1, <1>2, StandsStill
  <2>2. \A c : BusyAt(s, c)' <=> BusyAt(s, c)
    BY Zenon, <1>1, <1>2 DEF BusyAt, Busy, Camp
  <2> QED  BY Zenon, <2>1, <2>2
<1> QED  BY Zenon, <1>1, <1>2

(* A run goes on with its campaign and calls nobody yet.                   *)
LEMMA WorkStep ==
    ASSUME DispatchInv, NEW r \in Runs, NEW q \in Run, run' = [run EXCEPT ![r] = q],
           Busy(r), q.pc \notin {"idle", "get"}, q.camp = run[r].camp, q.rest = run[r].rest,
           q.sent = run[r].sent, q.barred = run[r].barred,
           q.pc \notin {"enqueue", "mark"} => run[r].pc \notin {"enqueue", "mark"},
           q.sent \cap q.targets = {}, q.targets \cap dnd \subseteq run[r].targets,
           q.pc # "upsert" => q.todo = {}, q.todo \cap q.targets = {},
           q.pc \notin {"upsert", "enqueue"} => q.targets = {},
           q.owed = q.todo \cup q.targets \cup q.sent,
           customers' \in Seq(Phones), IsInjective(customers'),
           Range(customers) \subseteq Range(customers'),
           UNCHANGED <<campaign, recipients, dnd, import, clock, requests, toggles, faults, calls,
                       audience, again>>
    PROVE  DispatchInv'
<1>1. OthersFare
  BY Zenon DEF OthersFare, Exists
<1>2. /\ run' \in [Runs -> Run] /\ run'[r] = q
      /\ \A s \in Runs : s # r => run'[s] = run[s] /\ RunSound(s)'
                                   /\ \A c : BusyAt(s, c)' <=> BusyAt(s, c)
  BY Zenon, <1>1, OneMoves
<1>3. RunSound(r)'
  <2>1. RunSound(r) /\ run[r].pc # "idle"
    BY Zenon, RunFacts DEF Busy
  <2>2. (q.sent \cup q.targets) \cap q.barred = {}
    BY Zenon, <2>1 DEF RunSound
  <2> QED  BY Zenon, <1>2, <2>1, <2>2 DEF RunSound, Camp, Exists
<1>4. ASSUME faults' = 0, NEW c \in Campaigns \ again'  PROVE OneRun(c)'
  <2>1. \A s \in Runs : (BusyAt(s, c)' <=> BusyAt(s, c)) /\ run'[s].sent = run[s].sent
    BY Zenon, <1>2 DEF BusyAt, Busy, Camp
  <2> QED  BY Zenon, <1>4, <2>1, UntouchedStep
<1>5. CampaignsTypeOK'
  <2>1. dnd' \in SUBSET Range(customers')
    BY Zenon DEF DispatchInv, CampaignsTypeOK
  <2> QED  BY Zenon, <1>2, <2>1 DEF DispatchInv, CampaignsTypeOK
<1>6. CompletedIsDispatched' /\ \A i \in Importers : ImportSound(i)'
  BY Zenon DEF DispatchInv, CompletedIsDispatched, ImportSound
<1> QED  BY Zenon, <1>2, <1>3, <1>4, <1>5, <1>6 DEF DispatchInv

(* The recipients are read, made customers one by one, or the customers    *)
(* listed instead, up to the first job.                                    *)
LEMMA TargetsStep ==
    ASSUME DispatchInv, NEW r \in Runs, Recipients(r) \/ UpsertRecipient(r) \/ ListCustomers(r)
    PROVE  DispatchInv'
<1>0. /\ run[r] \in Run /\ run[r].todo \in SUBSET Phones /\ run[r].targets \in SUBSET Phones
      /\ RunSound(r) /\ recipients \in [Campaigns -> SUBSET Phones] /\ customers \in Seq(Phones)
      /\ IsInjective(customers)
  BY Zenon, RunFacts DEF DispatchInv, CampaignsTypeOK
<1>1. /\ UNCHANGED <<campaign, recipients, dnd, import, clock, requests, toggles, faults, calls,
                      audience, again>>
      /\ run[r].pc \in {"recipients", "upsert", "list"}
  BY Zenon DEF Recipients, UpsertRecipient, ListCustomers, At, reqVars, history
<1>2. /\ Busy(r) /\ run[r].pc \notin {"enqueue", "mark"} /\ Camp(r) \in Campaigns /\ run[r].sent = {}
      /\ run[r].sent \cap run[r].targets = {} /\ run[r].owed = run[r].todo \cup run[r].targets
      /\ run[r].pc # "upsert" => run[r].todo = {} /\ run[r].targets = {}
  BY Zenon, <1>0, <1>1 DEF Busy, RunSound
<1>3. ASSUME NEW l \in {"upsert", "list", "enqueue"}, NEW T \in SUBSET Phones, NEW U \in SUBSET Phones,
             NEW O \in SUBSET Phones,
             run' = [run EXCEPT ![r] =
                        [run[r] EXCEPT !.pc = l, !.todo = T, !.targets = U, !.owed = O]],
             l # "upsert" => T = {}, l = "list" => U = {}, O = T \cup U, T \cap U = {},
             U \cap dnd \subseteq run[r].targets,
             customers' \in Seq(Phones), IsInjective(customers'),
             Range(customers) \subseteq Range(customers')
      PROVE  DispatchInv'
  <2> DEFINE q == [run[r] EXCEPT !.pc = l, !.todo = T, !.targets = U, !.owed = O]
  <2>1. /\ q \in Run /\ q.pc = l /\ q.camp = run[r].camp /\ q.rest = run[r].rest
        /\ q.sent = run[r].sent /\ q.barred = run[r].barred /\ q.targets = U /\ q.todo = T
        /\ q.owed = O
    BY Zenon, <1>0 DEF Run
  <2>2. l \notin {"idle", "get"}
    BY Zenon
  <2>3. run' = [run EXCEPT ![r] = q]
    BY Zenon, <1>3
  <2> HIDE DEF q
  <2>4. q.sent \cap q.targets = {} /\ q.owed = q.todo \cup q.targets \cup q.sent
    BY Zenon, <1>2, <1>3, <2>1
  <2>5. /\ q.pc # "upsert" => q.todo = {}
        /\ q.todo \cap q.targets = {}
        /\ q.pc \notin {"upsert", "enqueue"} => q.targets = {}
    BY Zenon, <1>3, <2>1
  <2> QED  BY Zenon, <1>1, <1>2, <1>3, <2>1, <2>2, <2>3, <2>4, <2>5, WorkStep
<1>4. CASE Recipients(r)
  <2> DEFINE l == IF recipients[Camp(r)] # {} THEN "upsert" ELSE "list"
             T == recipients[Camp(r)]
             U == run[r].targets
  <2>1. /\ run' = [run EXCEPT ![r] = [run[r] EXCEPT !.pc = l, !.todo = T, !.owed = T]]
        /\ customers' = customers /\ run[r].pc = "recipients"
    BY Zenon, <1>4 DEF Recipients, At
  <2>2. l \in {"upsert", "list", "enqueue"} /\ (l # "upsert" => T = {})
    BY Zenon
  <2>3. T \in SUBSET Phones /\ U \in SUBSET Phones /\ U = {} /\ T = T \cup U /\ T \cap U = {}
    BY Zenon, <1>0, <1>2, <2>1
  <2> HIDE DEF l, T
  <2>4. [run[r] EXCEPT !.pc = l, !.todo = T, !.owed = T]
          = [run[r] EXCEPT !.pc = l, !.todo = T, !.targets = U, !.owed = T]
    BY Zenon, <1>0 DEF Run
  <2> HIDE DEF U
  <2>5. U \cap dnd \subseteq run[r].targets /\ Range(customers) \subseteq Range(customers')
    BY Zenon, <2>1, <2>3
  <2> QED  BY Zenon, <1>0, <1>3, <2>1, <2>2, <2>3, <2>4, <2>5
<1>5. CASE UpsertRecipient(r)
  <2>1. PICK p \in run[r].todo :
          /\ customers' = Upserted(p)
          /\ run' = [run EXCEPT ![r] = [run[r] EXCEPT
                         !.pc = IF run[r].todo = {p} THEN "enqueue" ELSE "upsert",
                         !.todo = run[r].todo \ {p},
                         !.targets = run[r].targets \cup ({p} \ dnd),
                         !.owed = run[r].owed \ ({p} \cap dnd)]]
    BY Zenon, <1>5 DEF UpsertRecipient
  <2> DEFINE l == IF run[r].todo = {p} THEN "enqueue" ELSE "upsert"
             T == run[r].todo \ {p}
             U == run[r].targets \cup ({p} \ dnd)
             O == run[r].owed \ ({p} \cap dnd)
  <2>2. l \in {"upsert", "list", "enqueue"} /\ l # "list" /\ (l # "upsert" => T = {})
    BY Zenon
  <2>3. p \in Phones /\ T \in SUBSET Phones /\ U \in SUBSET Phones /\ U \cap dnd \subseteq run[r].targets
    BY Zenon, <1>0
  <2>4. /\ customers' \in Seq(Phones) /\ IsInjective(customers')
        /\ Range(customers) \subseteq Range(customers')
    BY Zenon, <2>1, <2>3, UpsertedFacts
  <2>5. run' = [run EXCEPT ![r] = [run[r] EXCEPT !.pc = l, !.todo = T, !.targets = U, !.owed = O]]
    BY Zenon, <2>1
  <2>6. O = T \cup U /\ T \cap U = {}
    BY Zenon, <1>0, <1>2, <2>1 DEF RunSound
  <2>7. O \in SUBSET Phones
    BY Zenon, <2>3, <2>6
  <2> HIDE DEF l, T, U, O
  <2> QED  BY Zenon, <1>3, <2>2, <2>3, <2>4, <2>5, <2>6, <2>7
<1>6. CASE ListCustomers(r)
  <2> DEFINE U == ListByOrg \ dnd
             T == run[r].todo
  <2>1. /\ run' = [run EXCEPT ![r] = [run[r] EXCEPT !.pc = "enqueue", !.targets = U, !.owed = U]]
        /\ customers' = customers /\ run[r].pc = "list"
    BY Zenon, <1>6 DEF ListCustomers, At
  <2>2. ListByOrg \subseteq Phones
    BY <1>0, CampaignsAssumption DEF ListByOrg
  <2>3. U \in SUBSET Phones /\ U \cap dnd \subseteq run[r].targets
    BY Zenon, <2>2
  <2>4. T = {} /\ U = T \cup U /\ T \cap U = {}
    BY Zenon, <1>2, <2>1
  <2> HIDE DEF U
  <2>5. [run[r] EXCEPT !.pc = "enqueue", !.targets = U, !.owed = U]
          = [run[r] EXCEPT !.pc = "enqueue", !.todo = T, !.targets = U, !.owed = U]
    BY Zenon, <1>0 DEF Run
  <2>6. /\ "enqueue" \in {"upsert", "list", "enqueue"} /\ Range(customers) \subseteq Range(customers')
        /\ T \in SUBSET Phones
    BY Zenon, <1>0, <2>1
  <2> HIDE DEF T
  <2> QED  BY Zenon, <1>0, <1>3, <2>1, <2>3, <2>4, <2>5, <2>6
<1> QED  BY Zenon, <1>4, <1>5, <1>6

(* A job is enqueued for one of the targets, or none is left.              *)
LEMMA EnqueueStep ==
    ASSUME DispatchInv, NEW r \in Runs, EnqueuePlaceCall(r)
    PROVE  DispatchInv'
<1>0. /\ run[r] \in Run /\ run[r].targets \in SUBSET Phones /\ run[r].sent \in SUBSET Phones
      /\ RunSound(r) /\ calls \in [Campaigns -> [Phones -> Nat]] /\ customers \in Seq(Phones)
      /\ IsInjective(customers) /\ run[r].pc = "enqueue"
  BY Zenon, RunFacts DEF DispatchInv, CampaignsTypeOK, EnqueuePlaceCall, At
<1>1. UNCHANGED <<campaign, recipients, customers, dnd, import, clock, requests, toggles, faults,
                  audience, again>>
  BY Zenon DEF EnqueuePlaceCall, reqVars
<1>2. Busy(r) /\ Camp(r) \in Campaigns
  BY Zenon, <1>0 DEF Busy, RunSound
<1>3. ASSUME run[r].targets = {}, run' = [run EXCEPT ![r].pc = "mark"], UNCHANGED calls
      PROVE  DispatchInv'
  <2> DEFINE q == [run[r] EXCEPT !.pc = "mark"]
  <2>1. /\ q \in Run /\ q.pc = "mark" /\ q.camp = run[r].camp /\ q.rest = run[r].rest
        /\ q.sent = run[r].sent /\ q.barred = run[r].barred /\ q.targets = run[r].targets
        /\ q.todo = run[r].todo /\ q.owed = run[r].owed
    BY Zenon, <1>0 DEF Run
  <2>2. run' = [run EXCEPT ![r] = q]
    BY Zenon, <1>3
  <2> HIDE DEF q
  <2>3. /\ q.pc \notin {"idle", "get"} /\ q.pc \in {"enqueue", "mark"} /\ q.sent \cap q.targets = {}
        /\ q.targets \cap dnd \subseteq run[r].targets /\ q.targets = {}
    BY Zenon, <1>3, <2>1
  <2>4. q.todo = {} /\ q.todo \cap q.targets = {} /\ q.owed = q.todo \cup q.targets \cup q.sent
    BY Zenon, <1>0, <2>1 DEF RunSound
  <2> QED  BY Zenon, <1>0, <1>1, <1>2, <1>3, <2>1, <2>2, <2>3, <2>4, WorkStep
<1>4. ASSUME NEW p \in run[r].targets, calls' = [calls EXCEPT ![Camp(r)][p] = @ + 1],
             run' = [run EXCEPT ![r] = [run[r] EXCEPT !.targets = run[r].targets \ {p},
                                                      !.sent = run[r].sent \cup {p}]]
      PROVE  DispatchInv'
  <2> DEFINE k == Camp(r)
             T == run[r].targets \ {p}
             S == run[r].sent \cup {p}
             q == [run[r] EXCEPT !.targets = T, !.sent = S]
  <2>1. p \in Phones /\ p \notin run[r].sent /\ T \in SUBSET Phones /\ S \in SUBSET Phones
        /\ S \cap T = {} /\ (S \cup T) \cap run[r].barred = {}
        /\ run[r].todo = {} /\ run[r].owed = run[r].todo \cup T \cup S
    BY Zenon, <1>0 DEF RunSound
  <2>2. run' = [run EXCEPT ![r] = q]
    BY Zenon, <1>4
  <2> HIDE DEF T, S
  <2>3. /\ q \in Run /\ q.pc = "enqueue" /\ q.camp = run[r].camp /\ q.rest = run[r].rest
        /\ q.sent = S /\ q.barred = run[r].barred /\ q.targets = T
        /\ q.todo = run[r].todo /\ q.owed = run[r].owed
    BY Zenon, <1>0, <2>1 DEF Run
  <2> HIDE DEF q
  <2>4. /\ calls' \in [Campaigns -> [Phones -> Nat]] /\ calls'[k][p] = calls[k][p] + 1
        /\ \A c \in Campaigns, s \in Phones : c # k \/ s # p => calls'[c][s] = calls[c][s]
        /\ \A c \in Campaigns, s \in Phones : calls[c][s] \in Nat
    BY <1>0, <1>2, <1>4, <2>1
  <2> HIDE DEF k
  <2>5. /\ calls'[k][p] >= 1
        /\ \A c \in Campaigns, s \in Phones : calls[c][s] >= 1 => calls'[c][s] >= 1
    BY <1>2, <2>1, <2>4 DEF k
  <2>6. OthersFare
    BY Zenon, <1>1, <2>5 DEF OthersFare, Exists
  <2>7. /\ run' \in [Runs -> Run] /\ run'[r] = q
        /\ \A s \in Runs : s # r => run'[s] = run[s] /\ RunSound(s)'
                                     /\ \A c : BusyAt(s, c)' <=> BusyAt(s, c)
    BY Zenon, <2>2, <2>3, <2>6, OneMoves
  <2>8. RunSound(r)'
    <3>1. \A s \in S : calls'[run'[r].camp][s] >= 1
      BY Zenon, <1>0, <1>2, <2>3, <2>5, <2>7 DEF S, k, RunSound, Camp
    <3>2. /\ run'[r].pc = "enqueue" /\ run'[r].camp = Camp(r) /\ run'[r].rest = run[r].rest
          /\ run'[r].sent = S /\ run'[r].targets = T /\ run'[r].barred = run[r].barred
          /\ run'[r].todo = run[r].todo /\ run'[r].owed = run[r].owed
      BY Zenon, <2>3, <2>7 DEF Camp
    <3>3. /\ Exists(Camp(r)) /\ (\A c \in run[r].rest : Exists(c)) /\ Camp(r) \notin run[r].rest
          /\ run[r].barred \subseteq dnd'
      BY Zenon, <1>0, <1>1 DEF RunSound
    <3> QED  BY Zenon, <1>1, <1>2, <2>1, <3>1, <3>2, <3>3 DEF RunSound, Camp, Exists
  <2>9. ASSUME faults' = 0, NEW c \in Campaigns \ again'  PROVE OneRun(c)'
    <3>1. OneRun(c)
      BY Zenon, <1>1, <2>9 DEF DispatchInv
    <3>2. \A s \in Runs : BusyAt(s, c)' <=> BusyAt(s, c)
      <4>1. BusyAt(r, c)' <=> BusyAt(r, c)
        BY Zenon, <1>0, <2>3, <2>7 DEF BusyAt, Busy, Camp
      <4> QED  BY Zenon, <2>7, <4>1
    <3>3. CASE c # k
      <4>1. /\ \A s \in Phones : calls'[c][s] = calls[c][s]
            /\ \A s \in Runs : BusyAt(s, c) => run'[s].sent = run[s].sent
        BY Zenon, <2>4, <2>7, <3>3 DEF BusyAt, k
      <4>2. campaign' = campaign
        BY Zenon, <1>1
      <4>3. \A q1, q2 \in Runs : BusyAt(q1, c)' /\ BusyAt(q2, c)' => q1 = q2
        BY Zenon, <3>1, <3>2 DEF OneRun
      <4>4. \A s \in Runs : BusyAt(s, c)' =>
               /\ campaign'[c].status # "completed"
               /\ \A x \in Phones : x \notin run'[s].sent => calls'[c][x] = 0
        BY Zenon, <3>1, <3>2, <4>1, <4>2 DEF OneRun
      <4>5. campaign'[c].status # "completed" /\ (\A s \in Runs : ~BusyAt(s, c)') =>
               \A x \in Phones : calls'[c][x] = 0
        BY Zenon, <3>1, <3>2, <4>1, <4>2 DEF OneRun
      <4>6. \A x \in Phones : calls'[c][x] <= 1
        BY Zenon, <3>1, <4>1 DEF OneRun
      <4> QED  BY Zenon, <4>3, <4>4, <4>5, <4>6 DEF OneRun
    <3>4. CASE c = k
      <4>1. BusyAt(r, c) /\ BusyAt(r, c)'
        BY Zenon, <1>2, <3>2, <3>4 DEF BusyAt, k
      <4>2. \A s \in Runs : BusyAt(s, c)' => s = r
        BY Zenon, <3>1, <3>2, <4>1 DEF OneRun
      <4>3. /\ campaign[c].status # "completed"
            /\ \A x \in Phones : x \notin run[r].sent => calls[c][x] = 0
            /\ \A x \in Phones : calls[c][x] <= 1
        BY Zenon, <3>1, <4>1 DEF OneRun
      <4>4. calls'[c][p] = 1
        BY <2>1, <2>4, <3>4, <4>3
      <4>5. \A x \in Phones : x \notin S => calls'[c][x] = 0
        BY Zenon, <2>4, <4>3 DEF S
      <4>6. \A x \in Phones : calls'[c][x] <= 1
        BY <2>4, <4>3, <4>4
      <4>7. campaign'[c].status # "completed" /\ run'[r].sent = S
        BY Zenon, <1>1, <2>3, <2>7, <4>3
      <4>8. \A s \in Runs : BusyAt(s, c)' =>
               /\ campaign'[c].status # "completed"
               /\ \A x \in Phones : x \notin run'[s].sent => calls'[c][x] = 0
        BY Zenon, <4>2, <4>5, <4>7
      <4> QED  BY Zenon, <4>1, <4>2, <4>6, <4>8 DEF OneRun
    <3> QED  BY Zenon, <3>3, <3>4
  <2>10. CampaignsTypeOK'
    BY Zenon, <1>1, <2>4, <2>7 DEF DispatchInv, CampaignsTypeOK
  <2>11. CompletedIsDispatched'
    <3>1. \A c \in Campaigns, s \in Phones : calls[c][s] >= 1 => calls'[c][s] >= 1
      BY Zenon, <2>5
    <3>2. audience \in [Campaigns -> SUBSET Phones] /\ CompletedIsDispatched
      BY Zenon DEF DispatchInv, CampaignsTypeOK
    <3> QED  BY Zenon, <1>1, <3>1, <3>2 DEF CompletedIsDispatched
  <2>12. \A i \in Importers : ImportSound(i)'
    BY Zenon, <1>1 DEF DispatchInv, ImportSound
  <2> QED  BY Zenon, <2>7, <2>8, <2>9, <2>10, <2>11, <2>12 DEF DispatchInv
<1> QED  BY Zenon, <1>3, <1>4 DEF EnqueuePlaceCall

(* A run takes up a campaign that, unless this is noted, is nobody else's  *)
(* and not completed.                                                      *)
Takes(r, c, q) ==
    /\ q.pc = "recipients" /\ q.camp = c /\ q.sent = {}
    /\ c \notin again' => /\ campaign[c].status # "completed"
                          /\ \A s \in Runs : s # r => ~BusyAt(s, c)

(* What Note writes down.                                                  *)
LEMMA NoteFacts ==
    ASSUME DispatchInv, NEW r \in Runs, NEW c \in Campaigns, Note(r, c)
    PROVE  /\ again \subseteq again' /\ again' \in SUBSET Campaigns
           /\ c \notin again' => /\ c \in run[r].rest => campaign[c].status # "completed"
                                 /\ \A s \in Runs : s # r => ~BusyAt(s, c)
<1>1. again \in SUBSET Campaigns
  BY Zenon DEF DispatchInv, CampaignsTypeOK
<1>2. CASE \/ \E q \in Runs \ {r} : Camp(q) = c /\ ~At(q, "get")
           \/ c \in run[r].rest /\ campaign[c].status = "completed"
  BY Zenon, <1>1, <1>2 DEF Note
<1>3. CASE ~(\/ \E q \in Runs \ {r} : Camp(q) = c /\ ~At(q, "get")
             \/ c \in run[r].rest /\ campaign[c].status = "completed")
  <2>1. again' = again
    BY Zenon, <1>3 DEF Note
  <2>2. \A s \in Runs : s # r => ~BusyAt(s, c)
    BY Zenon, <1>3 DEF BusyAt, Busy, At
  <2> QED  BY Zenon, <1>1, <1>3, <2>1, <2>2
<1> QED  BY Zenon, <1>2, <1>3

(* A run that begins a dispatch is sound.                                  *)
LEMMA TakesIsSound ==
    ASSUME DispatchInv, NEW r \in Runs, NEW c \in Campaigns, NEW R,
           c \notin R, Exists(c)', \A d \in R : Exists(d)', UNCHANGED dnd,
           run'[r] = Dispatch(c, R)
    PROVE  RunSound(r)'
<1>1. /\ run'[r].pc = "recipients" /\ run'[r].camp = c /\ run'[r].rest = R /\ run'[r].targets = {}
      /\ run'[r].todo = {} /\ run'[r].sent = {} /\ run'[r].owed = {} /\ run'[r].barred = dnd'
  BY SMTT(60), DispatchRun
<1> QED  BY Zenon, <1>1 DEF RunSound, Camp, Exists

(* A run is through with its campaign.                                     *)
LEMMA ReturnFacts ==
    ASSUME DispatchInv, OthersFare, UNCHANGED dnd, NEW r \in Runs, Return(r)
    PROVE  /\ again \subseteq again' /\ again' \in SUBSET Campaigns /\ RunSound(r)'
           /\ \E q \in Run : /\ run' = [run EXCEPT ![r] = q]
                             /\ q.pc = "idle" \/ (q.camp \in run[r].rest /\ Takes(r, q.camp, q))
<1>0. /\ run \in [Runs -> Run] /\ run[r].rest \in SUBSET Campaigns /\ RunSound(r)
      /\ again \in SUBSET Campaigns
  BY Zenon, RunFacts DEF DispatchInv, CampaignsTypeOK
<1>1. CASE run[r].rest = {} /\ run' = [run EXCEPT ![r] = Idle] /\ UNCHANGED again
  <2>1. run'[r] = Idle
    BY Zenon, <1>0, <1>1
  <2> QED  BY Zenon, <1>0, <1>1, <2>1, IdleRun, IdleIsSound
<1>2. ASSUME NEW c \in run[r].rest,
             run' = [run EXCEPT ![r] = Dispatch(c, run[r].rest \ {c})], Note(r, c)
      PROVE  /\ again \subseteq again' /\ again' \in SUBSET Campaigns /\ RunSound(r)'
             /\ \E q \in Run : /\ run' = [run EXCEPT ![r] = q]
                               /\ q.pc = "idle" \/ (q.camp \in run[r].rest /\ Takes(r, q.camp, q))
  <2> DEFINE R == run[r].rest \ {c}
             q == Dispatch(c, R)
  <2>1. c \in Campaigns /\ R \in SUBSET Campaigns /\ c \notin R
    BY Zenon, <1>0
  <2>2. run' = [run EXCEPT ![r] = q]
    BY Zenon, <1>2
  <2>3. Exists(c)' /\ \A d \in R : Exists(d)'
    BY Zenon, <1>0, <2>1 DEF RunSound, OthersFare
  <2> HIDE DEF R
  <2>4. q \in Run /\ q.pc = "recipients" /\ q.camp = c /\ q.sent = {}
    <3>1. q.pc = "recipients" /\ q.camp = c /\ q.sent = {}
      BY Zenon DEF Dispatch
    <3>2. Dispatch(c, R) \in Run
      BY ZenonT(60), <2>1, DispatchRun
    <3> QED  BY Zenon, <3>1, <3>2
  <2>5. run'[r] = q
    BY Zenon, <1>0, <2>2
  <2>6. RunSound(r)'
    BY Zenon, <2>1, <2>3, <2>5, TakesIsSound
  <2> HIDE DEF q
  <2>7. /\ again \subseteq again' /\ again' \in SUBSET Campaigns
        /\ c \notin again' => /\ campaign[c].status # "completed"
                              /\ \A s \in Runs : s # r => ~BusyAt(s, c)
    BY Zenon, <1>2, <2>1, NoteFacts
  <2>8. Takes(r, q.camp, q)
    BY Zenon, <2>4, <2>7 DEF Takes
  <2> QED  BY Zenon, <2>2, <2>4, <2>6, <2>7, <2>8
<1> QED  BY Zenon, <1>1, <1>2 DEF Return

(* A run turns to another campaign, or to none: the campaign it was not at *)
(* before keeps its one run.                                               *)
LEMMA TurnStep ==
    ASSUME DispatchInv, OthersFare, NEW r \in Runs, NEW q \in Run, run' = [run EXCEPT ![r] = q],
           q.pc \in {"idle", "get"} \/ Takes(r, q.camp, q),
           NEW c \in Campaigns, c \notin again', again \subseteq again', faults = 0, calls' = calls,
           ~BusyAt(r, c), campaign'[c].status = campaign[c].status
    PROVE  OneRun(c)'
<1>1. /\ run'[r] = q
      /\ \A s \in Runs : s # r => run'[s] = run[s] /\ (BusyAt(s, c)' <=> BusyAt(s, c))
  BY Zenon, OneMoves
<1>2. c \notin again
  BY Zenon
<1>3. CASE q.pc \in {"idle", "get"} \/ q.camp # c
  <2>1. ~BusyAt(r, c)'
    BY Zenon, <1>1, <1>3 DEF BusyAt, Busy, Camp
  <2>2. \A s \in Runs : BusyAt(s, c)' <=> BusyAt(s, c)
    BY Zenon, <1>1, <2>1
  <2>3. \A s \in Runs : BusyAt(s, c) => run'[s].sent = run[s].sent
    BY Zenon, <1>1
  <2> QED  BY Zenon, <1>2, <2>2, <2>3, UntouchedStep
<1>4. CASE q.pc \notin {"idle", "get"} /\ q.camp = c
  <2>1. /\ q.sent = {} /\ campaign[c].status # "completed"
        /\ \A s \in Runs : s # r => ~BusyAt(s, c)
    BY Zenon, <1>4 DEF Takes
  <2>2. \A s \in Runs : ~BusyAt(s, c)
    BY Zenon, <2>1
  <2>3. \A s \in Runs : s # r => ~BusyAt(s, c)'
    BY Zenon, <1>1, <2>1
  <2> QED  BY Zenon, <1>1, <1>2, <2>1, <2>2, <2>3, JoinStep
<1> QED  BY Zenon, <1>3, <1>4

(* A run that is at no campaign turns to one, or to none.                  *)
LEMMA FreeTurns ==
    ASSUME DispatchInv, NEW r \in Runs, NEW q \in Run, run' = [run EXCEPT ![r] = q], ~Busy(r),
           q.pc \in {"idle", "get"} \/ Takes(r, q.camp, q), RunSound(r)',
           again \subseteq again', again' \in SUBSET Campaigns, requests' \in 0..MaxRequests,
           UNCHANGED <<campaign, recipients, customers, dnd, import, clock, toggles, faults, calls,
                       audience>>
    PROVE  DispatchInv'
<1>1. OthersFare
  BY Zenon DEF OthersFare, Exists
<1>2. /\ run' \in [Runs -> Run] /\ \A s \in Runs : s # r => RunSound(s)'
  BY Zenon, <1>1, OneMoves
<1>3. ASSUME faults' = 0, NEW c \in Campaigns \ again'  PROVE OneRun(c)'
  BY Zenon, <1>1, <1>3, TurnStep DEF BusyAt
<1>4. CampaignsTypeOK'
  BY Zenon, <1>2 DEF DispatchInv, CampaignsTypeOK
<1>5. CompletedIsDispatched' /\ \A i \in Importers : ImportSound(i)'
  BY Zenon DEF DispatchInv, CompletedIsDispatched, ImportSound
<1> QED  BY Zenon, <1>2, <1>3, <1>4, <1>5 DEF DispatchInv

(* Start lets a request in; Get sends it away from a completed campaign.   *)
LEMMA StartStep ==
    ASSUME DispatchInv, NEW s \in Starters, Get(s) \/ \E c \in Campaigns : Start(s, c)
    PROVE  DispatchInv'
<1>0. /\ s \in Runs /\ run[s] \in Run /\ RunSound(s) /\ requests \in 0..MaxRequests
      /\ again \in SUBSET Campaigns /\ run \in [Runs -> Run]
  <2>1. s \in Runs
    BY Zenon DEF Runs
  <2> QED  BY Zenon, <2>1, RunFacts DEF DispatchInv, CampaignsTypeOK
<1>1. ASSUME NEW c \in Campaigns, Start(s, c)  PROVE DispatchInv'
  <2> DEFINE q == [Idle EXCEPT !.pc = "get", !.camp = c]
  <2>1. /\ run[s].pc = "idle" /\ requests < MaxRequests /\ requests' = requests + 1 /\ Exists(c)
        /\ run' = [run EXCEPT ![s] = q]
        /\ UNCHANGED <<campaign, recipients, customers, dnd, import, clock, toggles, faults, calls,
                       audience, again>>
    BY Zenon, <1>1 DEF Start, At, history
  <2>2. requests' \in 0..MaxRequests
    BY <1>0, <2>1, CampaignsAssumption
  <2>3. /\ q \in Run /\ q.pc = "get" /\ q.camp = c /\ q.rest = {} /\ q.targets = {} /\ q.sent = {}
        /\ q.barred = {} /\ q.todo = {} /\ q.owed = {}
    BY Zenon, IdleRun DEF Run
  <2> HIDE DEF q
  <2>4. run'[s] = q /\ ~Busy(s)
    BY Zenon, <1>0, <2>1 DEF Busy
  <2>5. RunSound(s)'
    BY Zenon, <2>1, <2>3, <2>4 DEF RunSound, Camp, Exists
  <2>6. q.pc \in {"idle", "get"}
    BY Zenon, <2>3
  <2> QED  BY Zenon, <1>0, <2>1, <2>2, <2>3, <2>4, <2>5, <2>6, FreeTurns
<1>2. ASSUME Get(s)  PROVE DispatchInv'
  <2>1. /\ run[s].pc = "get"
        /\ UNCHANGED <<campaign, recipients, customers, dnd, import, clock, requests, toggles, faults,
                       calls, audience>>
    BY Zenon, <1>2 DEF Get, At, reqVars
  <2>2. ~Busy(s) /\ Camp(s) \in Campaigns /\ Exists(Camp(s))
    BY Zenon, <1>0, <2>1 DEF Busy, RunSound
  <2>3. ASSUME run' = [run EXCEPT ![s] = Idle], UNCHANGED again  PROVE DispatchInv'
    <3>1. RunSound(s)' /\ Idle.pc \in {"idle", "get"}
      BY Zenon, <1>0, <2>3, IdleIsSound, IdleRun
    <3> QED  BY Zenon, <1>0, <2>1, <2>2, <2>3, <3>1, IdleRun, FreeTurns
  <2>4. ASSUME campaign[Camp(s)].status # "completed",
               run' = [run EXCEPT ![s] = Dispatch(Camp(s), {})], Note(s, Camp(s))
        PROVE  DispatchInv'
    <3> DEFINE q == Dispatch(Camp(s), {})
    <3>1. q \in Run /\ q.pc = "recipients" /\ q.camp = Camp(s) /\ q.sent = {}
      <4>1. q.pc = "recipients" /\ q.camp = Camp(s) /\ q.sent = {}
        BY Zenon DEF Dispatch
      <4>2. Dispatch(Camp(s), {}) \in Run
        BY ZenonT(60), <2>2, DispatchRun
      <4> QED  BY Zenon, <4>1, <4>2
    <3>2. run'[s] = q /\ Exists(Camp(s)) /\ UNCHANGED <<campaign, dnd>>
      BY Zenon, <1>0, <2>1, <2>2, <2>4
    <3>3. RunSound(s)'
      <4>1. \A d \in Campaigns : Exists(d) => Exists(d)'
        BY Zenon, <3>2 DEF Exists
      <4>2. PICK c \in Campaigns : c = Camp(s)
        BY Zenon, <2>2
      <4>3. Exists(c)' /\ run'[s] = Dispatch(c, {})
        BY Zenon, <3>2, <4>1, <4>2
      <4>4. c \notin {} /\ \A d \in {} : Exists(d)'
        BY Zenon
      <4> QED  BY <1>0, <3>2, <4>3, <4>4, TakesIsSound
    <3> HIDE DEF q
    <3>4. /\ again \subseteq again' /\ again' \in SUBSET Campaigns
          /\ Camp(s) \notin again' => \A r \in Runs : r # s => ~BusyAt(r, Camp(s))
      BY Zenon, <1>0, <2>2, <2>4, NoteFacts
    <3>6. Takes(s, q.camp, q)
      BY Zenon, <2>4, <3>1, <3>4 DEF Takes
    <3>5. run' = [run EXCEPT ![s] = q]
      BY Zenon, <2>4 DEF q
    <3> QED  BY Zenon, <1>0, <2>1, <2>2, <3>1, <3>3, <3>4, <3>5, <3>6, FreeTurns
  <2> QED  BY Zenon, <1>2, <2>3, <2>4 DEF Get
<1> QED  BY Zenon, <1>1, <1>2

(* The sweep lists the campaigns that are due and takes up one.            *)
LEMMA RunDueStep ==
    ASSUME DispatchInv, RunDue
    PROVE  DispatchInv'
<1> DEFINE s == Scheduler
<1>0. /\ s \in Runs /\ requests \in 0..MaxRequests /\ run \in [Runs -> Run] /\ RunSound(s)
  <2>1. s \in Runs
    BY Zenon DEF Runs
  <2> QED  BY Zenon, <2>1 DEF DispatchInv, CampaignsTypeOK
<1>1. PICK c \in DueCampaigns :
        run' = [run EXCEPT ![s] = Dispatch(c, DueCampaigns \ {c})] /\ Note(s, c)
  BY Zenon DEF RunDue
<1>2. /\ run[s].pc = "idle"
      /\ UNCHANGED <<campaign, recipients, customers, dnd, import, clock, requests, toggles, faults,
                     calls, audience>>
  BY Zenon DEF RunDue, At, reqVars
<1> DEFINE R == DueCampaigns \ {c}
           q == Dispatch(c, R)
<1>3. /\ c \in Campaigns /\ R \subseteq Campaigns /\ c \notin R /\ campaign[c].status # "completed"
      /\ Exists(c)' /\ \A d \in R : Exists(d)'
  BY Zenon, <1>2 DEF DueCampaigns, Exists
<1> HIDE DEF R
<1>4. q \in Run /\ q.pc = "recipients" /\ q.camp = c /\ q.sent = {}
  <2>1. q.pc = "recipients" /\ q.camp = c /\ q.sent = {}
    BY Zenon DEF Dispatch
  <2>2. Dispatch(c, R) \in Run
    BY ZenonT(60), <1>3, DispatchRun
  <2> QED  BY Zenon, <2>1, <2>2
<1>5. run'[s] = q /\ run' = [run EXCEPT ![s] = q]
  BY Zenon, <1>0, <1>1 DEF R
<1>6. RunSound(s)'
  BY Zenon, <1>0, <1>2, <1>3, <1>5, TakesIsSound
<1>7. /\ again \subseteq again' /\ again' \in SUBSET Campaigns
      /\ c \notin again' => \A r \in Runs : r # s => ~BusyAt(r, c)
  BY Zenon, <1>0, <1>1, <1>3, NoteFacts
<1> HIDE DEF q
<1>8. Takes(s, q.camp, q)
  BY Zenon, <1>3, <1>4, <1>7 DEF Takes
<1>9. ~Busy(s)
  BY Zenon, <1>2 DEF Busy
<1> QED  BY Zenon, <1>0, <1>2, <1>4, <1>5, <1>6, <1>7, <1>8, <1>9, FreeTurns

(* A run marks its campaign completed, with the number of its calls, which *)
(* are all it owed, and turns to the next.                                 *)
LEMMA MarkStep ==
    ASSUME DispatchInv, NEW r \in Runs, MarkStarted(r)
    PROVE  DispatchInv'
<1> DEFINE k == Camp(r)
           row == [campaign[k] EXCEPT !.status = "completed", !.target = Cardinality(run[r].sent)]
<1>0. /\ run[r] \in Run /\ run[r].sent \in SUBSET Phones /\ RunSound(r) /\ run[r].pc = "mark"
      /\ campaign \in [Campaigns -> Campaign] /\ audience \in [Campaigns -> SUBSET Phones]
      /\ Return(r) /\ CompletedIsDispatched
      /\ UNCHANGED <<recipients, customers, dnd, import, clock, requests, toggles, faults, calls>>
  BY Zenon, RunFacts DEF DispatchInv, CampaignsTypeOK, MarkStarted, At, reqVars
<1>1. /\ k \in Campaigns /\ Exists(k) /\ k \notin run[r].rest /\ Busy(r)
      /\ \A p \in run[r].sent : calls[k][p] >= 1
      /\ run[r].owed = run[r].sent
  BY Zenon, <1>0 DEF RunSound, Busy
<1>2. Cardinality(run[r].sent) \in {Cardinality(P) : P \in SUBSET Phones}
  BY Zenon, <1>0
<1>3. row \in Campaign /\ row.status = "completed" /\ row.target = Cardinality(run[r].sent)
  <2>1. \A x \in Campaign, n \in {Cardinality(P) : P \in SUBSET Phones} :
           /\ [x EXCEPT !.status = "completed", !.target = n] \in Campaign
           /\ [x EXCEPT !.status = "completed", !.target = n].status = "completed"
           /\ [x EXCEPT !.status = "completed", !.target = n].target = n
    BY Zenon DEF Campaign
  <2>2. campaign[k] \in Campaign
    BY Zenon, <1>0, <1>1
  <2> QED  BY Zenon, <1>2, <2>1, <2>2
<1>4. \/ /\ campaign' = [campaign EXCEPT ![k] = row]
         /\ audience' = [audience EXCEPT ![k] = run[r].sent]
         /\ campaign[k].status \in {"draft", "scheduled"}
      \/ UNCHANGED <<campaign, audience>> /\ campaign[k].status \notin {"draft", "scheduled"}
  BY Zenon, <1>1 DEF MarkStarted
<1> HIDE DEF row
<1>5. /\ campaign' \in [Campaigns -> Campaign] /\ audience' \in [Campaigns -> SUBSET Phones]
      /\ \A c \in Campaigns : c # k => campaign'[c] = campaign[c] /\ audience'[c] = audience[c]
      /\ \/ campaign'[k] = row /\ audience'[k] = run[r].sent
         \/ campaign'[k] = campaign[k] /\ audience'[k] = audience[k]
  BY Zenon, <1>0, <1>1, <1>3, <1>4
<1>6. campaign'[k].status = "completed"
  <2>1. campaign[k].status \in {"none", "draft", "scheduled", "completed"}
    BY Zenon, <1>0, <1>1 DEF Campaign
  <2>2. campaign[k].status \in {"draft", "scheduled", "completed"}
    BY Zenon, <1>1, <2>1 DEF Exists
  <2>3. campaign[k].status = "completed" => campaign'[k].status = "completed"
    BY Zenon, <1>3, <1>5
  <2>4. campaign[k].status \in {"draft", "scheduled"} => campaign'[k] = row
    BY Zenon, <1>0, <1>1, <1>4
  <2> QED  BY Zenon, <1>3, <2>2, <2>3, <2>4
<1>7. CompletedIsDispatched'
  <2>1. ASSUME NEW c \in Campaigns, campaign'[c].status = "completed"
        PROVE  /\ campaign'[c].target = Cardinality(audience'[c])
               /\ \A p \in audience'[c] : calls'[c][p] >= 1
    <3>1. CASE campaign'[c] = campaign[c] /\ audience'[c] = audience[c]
      BY Zenon, <1>0, <2>1, <3>1 DEF CompletedIsDispatched
    <3>2. CASE c = k /\ campaign'[k] = row /\ audience'[k] = run[r].sent
      BY Zenon, <1>0, <1>1, <1>3, <3>2
    <3> QED  BY Zenon, <1>5, <3>1, <3>2
  <2> QED  BY Zenon, <2>1 DEF CompletedIsDispatched
<1>8. OthersFare
  <2>1. \A c \in Campaigns : campaign[c].status # "none" => campaign'[c].status # "none"
    BY Zenon, <1>3, <1>5
  <2> QED  BY Zenon, <1>0, <2>1 DEF OthersFare, Exists
<1>9. /\ again \subseteq again' /\ again' \in SUBSET Campaigns /\ RunSound(r)'
      /\ \E q \in Run : /\ run' = [run EXCEPT ![r] = q]
                        /\ q.pc = "idle" \/ (q.camp \in run[r].rest /\ Takes(r, q.camp, q))
  BY Zenon, <1>0, <1>8, ReturnFacts
<1>10. PICK q \in Run : /\ run' = [run EXCEPT ![r] = q]
                        /\ q.pc = "idle" \/ (q.camp \in run[r].rest /\ Takes(r, q.camp, q))
  BY Zenon, <1>9
<1>11. /\ run' \in [Runs -> Run] /\ run'[r] = q
       /\ \A s \in Runs : s # r => RunSound(s)' /\ \A c : BusyAt(s, c)' <=> BusyAt(s, c)
  BY Zenon, <1>8, <1>10, OneMoves
<1>12. ASSUME faults' = 0, NEW c \in Campaigns \ again'  PROVE OneRun(c)'
  <2>1. c \notin again /\ faults = 0 /\ OneRun(c)
    BY Zenon, <1>0, <1>9, <1>12 DEF DispatchInv
  <2>2. CASE c = k
    <3>1. \A s \in Runs : ~BusyAt(s, c)'
      <4>1. ~BusyAt(r, c)'
        BY Zenon, <1>1, <1>10, <1>11, <2>2 DEF BusyAt, Busy, Camp
      <4>2. \A s \in Runs : s # r => ~BusyAt(s, c)
        BY Zenon, <1>1, <2>1, <2>2 DEF OneRun, BusyAt
      <4> QED  BY Zenon, <1>11, <4>1, <4>2
    <3>2. \A p \in Phones : calls'[c][p] <= 1
      BY Zenon, <1>0, <2>1 DEF OneRun
    <3> QED  BY Zenon, <1>6, <2>2, <3>1, <3>2 DEF OneRun
  <2>3. CASE c # k
    <3>1. ~BusyAt(r, c) /\ campaign'[c].status = campaign[c].status
      BY Zenon, <1>5, <2>3 DEF BusyAt
    <3>2. q.pc \in {"idle", "get"} \/ Takes(r, q.camp, q)
      BY Zenon, <1>10
    <3> QED  BY Zenon, <1>0, <1>8, <1>9, <1>10, <1>12, <2>1, <3>1, <3>2, TurnStep
  <2> QED  BY Zenon, <2>2, <2>3
<1>13. CampaignsTypeOK'
  BY Zenon, <1>0, <1>5, <1>9, <1>11 DEF DispatchInv, CampaignsTypeOK
<1>14. \A i \in Importers : ImportSound(i)'
  BY Zenon, <1>0 DEF DispatchInv, ImportSound
<1> QED  BY Zenon, <1>7, <1>9, <1>11, <1>12, <1>13, <1>14 DEF DispatchInv

(* A dispatch fails, or the process does.                                  *)
LEMMA FailStep ==
    ASSUME DispatchInv, Crash \/ \E r \in Runs : RunFails(r)
    PROVE  DispatchInv'
<1>0. /\ faults < MaxFaults /\ faults' = faults + 1 /\ faults \in 0..MaxFaults
      /\ again \in SUBSET Campaigns
      /\ UNCHANGED <<campaign, recipients, customers, dnd, clock, requests, toggles, calls, audience>>
  BY Zenon DEF Crash, RunFails, Fault, history, DispatchInv, CampaignsTypeOK
<1>1. faults' \in 0..MaxFaults /\ faults' # 0
  BY <1>0, CampaignsAssumption
<1>2. OthersFare
  BY Zenon, <1>0 DEF OthersFare, Exists
<1>3. /\ again' \in SUBSET Campaigns /\ run' \in [Runs -> Run] /\ \A r \in Runs : RunSound(r)'
      /\ import' \in [Importers -> Import] /\ \A i \in Importers : ImportSound(i)'
  <2>1. CASE Crash
    <3>1. /\ run' = [r \in Runs |-> Idle] /\ import' = [i \in Importers |-> NoImport] /\ again' = again
      BY Zenon, <2>1 DEF Crash, history
    <3>2. NoImport \in Import
      <4>1. <<>> \in Seq(Rows)
        OBVIOUS
      <4> QED  BY Zenon, <4>1 DEF NoImport, Import
    <3>3. import' \in [Importers -> Import] /\ \A i \in Importers : ImportSound(i)'
      BY Zenon, <3>1, <3>2 DEF ImportSound
    <3>4. run' \in [Runs -> Run] /\ \A r \in Runs : run'[r] = Idle
      BY Zenon, <3>1, IdleRun
    <3> QED  BY Zenon, <1>0, <3>1, <3>3, <3>4, IdleIsSound
  <2>2. ASSUME NEW r \in Runs, RunFails(r)
        PROVE  /\ again' \in SUBSET Campaigns /\ run' \in [Runs -> Run]
               /\ \A s \in Runs : RunSound(s)'
               /\ import' \in [Importers -> Import] /\ \A i \in Importers : ImportSound(i)'
    <3>1. Return(r) /\ UNCHANGED <<import, dnd>>
      BY Zenon, <2>2 DEF RunFails
    <3>2. /\ again' \in SUBSET Campaigns /\ RunSound(r)'
          /\ \E q \in Run : run' = [run EXCEPT ![r] = q]
      BY Zenon, <1>2, <3>1, ReturnFacts
    <3>3. PICK q \in Run : run' = [run EXCEPT ![r] = q]
      BY Zenon, <3>2
    <3>4. run' \in [Runs -> Run] /\ \A s \in Runs : s # r => RunSound(s)'
      BY Zenon, <1>2, <3>3, OneMoves
    <3>5. import' \in [Importers -> Import] /\ \A i \in Importers : ImportSound(i)'
      BY Zenon, <3>1 DEF DispatchInv, CampaignsTypeOK, ImportSound
    <3> QED  BY Zenon, <3>2, <3>4, <3>5
  <2> QED  BY Zenon, <2>1, <2>2
<1>4. CampaignsTypeOK'
  BY Zenon, <1>0, <1>1, <1>3 DEF DispatchInv, CampaignsTypeOK
<1>5. CompletedIsDispatched'
  BY Zenon, <1>0 DEF DispatchInv, CompletedIsDispatched
<1> QED  BY Zenon, <1>1, <1>3, <1>4, <1>5 DEF DispatchInv

(* Nothing has been imported, planned or dispatched.                       *)
LEMMA DispatchStart ==
    ASSUME Init
    PROVE  DispatchInv
<1> DEFINE none == [status |-> "none", target |-> 0, fire |-> 0]
<1>1. /\ 0 \in 0..LastMinute /\ 0 \in 0..MaxRequests /\ 0 \in 0..MaxToggles /\ 0 \in 0..MaxFaults
      /\ 0 \in Nat /\ 0 <= 1 /\ <<>> \in Seq(Rows) /\ <<>> \in Seq(Phones)
  BY CampaignsAssumption
<1>2. 0 \in {0} \cup {Cardinality(P) : P \in SUBSET Phones}
  BY Zenon
<1>3. none \in Campaign /\ none.status = "none"
  BY Zenon, <1>1, <1>2 DEF Campaign
<1> HIDE DEF none
<1>4. NoImport \in Import
  BY Zenon, <1>1 DEF NoImport, Import
<1>5. IsInjective(customers) /\ dnd \in SUBSET Range(customers) /\ customers \in Seq(Phones)
  BY <1>1 DEF Init, IsInjective, Range
<1>6. campaign = [c \in Campaigns |-> none]
  BY Zenon DEF Init, none
<1>7. CampaignsTypeOK
  BY Zenon, <1>1, <1>3, <1>4, <1>5, <1>6, IdleRun DEF Init, CampaignsTypeOK
<1>8. \A c \in Campaigns : campaign[c].status = "none"
  BY Zenon, <1>3, <1>6
<1>9. CompletedIsDispatched
  BY Zenon, <1>8 DEF CompletedIsDispatched
<1>10. ASSUME NEW r \in Runs  PROVE RunSound(r) /\ ~Busy(r)
  <2>1. run[r] = Idle
    BY Zenon DEF Init
  <2> QED  BY Zenon, <2>1, IdleRun DEF RunSound, Camp, Busy
<1>11. \A i \in Importers : ImportSound(i)
  BY Zenon DEF Init, ImportSound
<1>12. \A c \in Campaigns, p \in Phones : calls[c][p] = 0 /\ calls[c][p] <= 1
  BY Zenon, <1>1 DEF Init
<1>13. \A c \in Campaigns : OneRun(c)
  BY Zenon, <1>10, <1>12 DEF OneRun, BusyAt
<1> QED  BY Zenon, <1>7, <1>9, <1>10, <1>11, <1>13 DEF DispatchInv

(* Every step keeps the invariant of the campaigns.                        *)
LEMMA DispatchStep ==
    ASSUME DispatchInv, [Next]_vars
    PROVE  DispatchInv'
<1>1. ASSUME UNCHANGED vars  PROVE DispatchInv'
  <2>1. UNCHANGED <<campaign, recipients, customers, dnd, run, import, clock, requests, toggles, faults,
                    calls, audience, again>>
    BY Zenon, <1>1 DEF vars, reqVars, history
  <2>2. CampaignsTypeOK' /\ \A i \in Importers : ImportSound(i)'
    BY Zenon, <2>1 DEF DispatchInv, CampaignsTypeOK, ImportSound
  <2>3. PlansKept
    BY Zenon, <2>1 DEF DispatchInv, CampaignsTypeOK, PlansKept, Exists
  <2> QED  BY Zenon, <2>1, <2>2, <2>3, NoRunMoves
<1>2. ASSUME \/ \E p \in Phones : Upsert(p)
             \/ \E p \in Phones, on \in BOOLEAN : SetDND(p, on)
      PROVE  DispatchInv'
  BY Zenon, <1>2, UpsertStep, FlagStep
<1>3. ASSUME \/ \E c \in Campaigns : Create(c)
             \/ \E c \in Campaigns, at \in 1..LastMinute : Schedule(c, at)
             \/ MinutePasses
      PROVE  DispatchInv'
  BY Zenon, <1>3, PlanStep
<1>4. ASSUME \/ \E i \in Importers, c \in Campaigns, f \in Files : ImportRecipients(i, c, f)
             \/ \E i \in Importers : ImportRow(i) \/ ImportFails(i)
      PROVE  DispatchInv'
  BY Zenon, <1>4, ImportStep
<1>5. ASSUME \/ \E s \in Starters, c \in Campaigns : Start(s, c)
             \/ \E s \in Starters : Get(s)
             \/ RunDue
      PROVE  DispatchInv'
  BY Zenon, <1>5, StartStep, RunDueStep
<1>6. ASSUME NEW r \in Runs, Step(r)  PROVE DispatchInv'
  BY Zenon, <1>6, TargetsStep, EnqueueStep, MarkStep DEF Step
<1>7. ASSUME Crash \/ \E r \in Runs : RunFails(r)  PROVE DispatchInv'
  BY Zenon, <1>7, FailStep
<1> QED  BY Zenon, <1>1, <1>2, <1>3, <1>4, <1>5, <1>6, <1>7 DEF Next

(* A completed campaign was dispatched in full: every phone that the run   *)
(* that completed it owed a call, by what it read, has a job, and          *)
(* target_count is their number; for any campaigns, phones, requests and   *)
(* files, whatever fails and whoever dispatches at the same time.          *)
THEOREM CompletedInFull == Spec => []CampaignsInv
<1>1. Init => DispatchInv
  BY Zenon, DispatchStart
<1>2. DispatchInv /\ [Next]_vars => DispatchInv'
  BY Zenon, DispatchStep
<1>3. DispatchInv => CampaignsInv
  BY Zenon DEF DispatchInv, CampaignsInv
<1> QED  BY <1>1, <1>2, <1>3, PTL DEF Spec

(* No dispatch calls a customer who was do-not-disturb all the while,      *)
(* however many run and whenever flags change.                             *)
THEOREM NobodyDisturbed == Spec => []DndHonoured
<1>1. Init => DispatchInv
  BY Zenon, DispatchStart
<1>2. DispatchInv /\ [Next]_vars => DispatchInv'
  BY Zenon, DispatchStep
<1>3. DispatchInv => DndHonoured
  BY Zenon DEF DispatchInv, RunSound, DndHonoured
<1> QED  BY <1>1, <1>2, <1>3, PTL DEF Spec

(* A campaign calls each phone once, except where a dispatch failed or met *)
(* another: for any number of requests besides the sweep.                  *)
THEOREM NobodyCalledTwice == Spec => []CalledOnce
<1>1. Init => DispatchInv
  BY Zenon, DispatchStart
<1>2. DispatchInv /\ [Next]_vars => DispatchInv'
  BY Zenon, DispatchStep
<1>3. DispatchInv => CalledOnce
  BY Zenon DEF DispatchInv, OneRun, CalledOnce
<1> QED  BY <1>1, <1>2, <1>3, PTL DEF Spec
===============================================================================
