------------------------------ MODULE ChatProofs ------------------------------
(***************************************************************************)
(* Conversations, for any number of users, visitors, requests, agents and  *)
(* failures: the assistant keeps out of a thread a human handles, and a    *)
(* message goes into its sender's thread or the one it names.              *)
(* The insight of a conversation, for any length of it and number of       *)
(* requests: it is the verdict on one moment.  API keys, for any orgs,     *)
(* keys, requests and failures: who is served has a key of their own.      *)
(***************************************************************************)
EXTENDS Chat, Insights, ApiKeys, TLAPS

(* Of each inbound request: a busy one is somebody's, one past the lookup  *)
(* has a thread, theirs or the one whose id it carried, it is quiet only   *)
(* while an agent handles that thread, and without a failure a request     *)
(* that carried an id of the org is in that thread.                        *)
ReqSound(h) ==
    /\ req[h].pc = "idle" => req[h] = IdleReq
    /\ req[h].pc # "idle" => req[h].who \in People
    /\ req[h].pc \in {"store", "status", "model", "answer", "send"} => req[h].conv # 0
    /\ req[h].conv # 0 =>
           /\ thread[req[h].conv] # NoThread
           /\ \/ thread[req[h].conv].who = req[h].who
              \/ req[h].who \in Visitors /\ req[h].conv = req[h].own
    /\ req[h].quiet => req[h].pc = "status" /\ thread[req[h].conv].status = "handling"
    /\ faults = 0 /\ req[h].own # 0 =>
           req[h].conv = req[h].own /\ req[h].pc \notin {"find", "create"}

(* An agent answers in a thread that is there.                             *)
AgentSound(a) ==
    agent[a].pc # "idle" => agent[a].conv \in Threads /\ thread[agent[a].conv] # NoThread

Counted ==
    /\ said \in [Threads -> [Roles -> Nat]]
    /\ connected \in BOOLEAN
    /\ inbound \in 0..MaxInbound /\ moves \in 0..MaxMoves
    /\ replies \in 0..MaxReplies /\ faults \in 0..MaxFaults
    /\ sent \in [Users -> Nat] /\ agentSent \in Nat

Typed ==
    /\ thread \in [Threads -> Thread] /\ req \in [Handlers -> InboundReq]
    /\ agent \in [Agents -> AgentReq]

(* What every step of a conversation keeps.                                *)
ThreadsInv ==
    /\ Typed
    /\ Counted
    /\ \A h \in Handlers : ReqSound(h)
    /\ \A a \in Agents : AgentSound(a)

(* The rows conversations and requests start from.                         *)
LEMMA RowFacts ==
    /\ NoThread \in Thread /\ NoThread.who = Nobody
    /\ IdleReq \in InboundReq /\ IdleReq.pc = "idle" /\ IdleReq.conv = 0 /\ IdleReq.own = 0
    /\ ~IdleReq.quiet
    /\ IdleAgent \in AgentReq /\ IdleAgent.pc = "idle"
    /\ \A w \in People, s \in Statuses :
           [who |-> w, status |-> s] \in Thread /\ [who |-> w, status |-> s] # NoThread
    /\ \A t \in Thread : t # NoThread <=> t.who \in People
<1>1. MaxThreads \in Nat /\ Nobody \notin People
  BY Zenon, ChatAssumption DEF People
<1>2. 0 \in 0..MaxThreads
  BY <1>1
<1> QED  BY <1>1, <1>2 DEF NoThread, Thread, IdleReq, InboundReq, IdleAgent, AgentReq, People, Statuses

(* The ids of conversations.                                               *)
LEMMA ThreadIds == \A c : c \in 0..MaxThreads <=> c = 0 \/ c \in Threads
BY ChatAssumption DEF Threads

(* One request goes on, and no existing thread is touched: the others and  *)
(* the agents are where they were.                                         *)
LEMMA OthersStay ==
    ASSUME ThreadsInv, NEW h \in Handlers, NEW r \in InboundReq,
           req' = [req EXCEPT ![h] = r],
           \A c \in Threads : thread[c] # NoThread => thread'[c] = thread[c],
           faults' = 0 => faults = 0
    PROVE  /\ req' \in [Handlers -> InboundReq] /\ req'[h] = r
           /\ \A g \in Handlers : g # h => ReqSound(g)'
           /\ agent' = agent => \A a \in Agents : AgentSound(a)'
<1>1. /\ req \in [Handlers -> InboundReq] /\ thread \in [Threads -> Thread]
  BY Zenon DEF ThreadsInv, Typed
<1>2. req' \in [Handlers -> InboundReq] /\ req'[h] = r
  BY Zenon, <1>1
<1>3. ASSUME NEW g \in Handlers, g # h  PROVE ReqSound(g)'
  <2>1. req'[g] = req[g] /\ req[g] \in InboundReq /\ ReqSound(g)
    BY Zenon, <1>1, <1>3 DEF ThreadsInv
  <2>2. req[g].conv # 0 => thread'[req[g].conv] = thread[req[g].conv]
    <3>1. req[g].conv \in 0..MaxThreads
      BY Zenon, <2>1 DEF InboundReq
    <3>2. req[g].conv # 0 => thread[req[g].conv] # NoThread
      BY Zenon, <2>1 DEF ReqSound
    <3> QED  BY Zenon, <3>1, <3>2, ThreadIds
  <2>3. req[g].quiet => req[g].conv # 0
    BY Zenon, <2>1 DEF ReqSound
  <2> QED  BY Zenon, <2>1, <2>2, <2>3 DEF ReqSound
<1>4. agent' = agent => \A a \in Agents : AgentSound(a)'
  BY Zenon DEF ThreadsInv, AgentSound
<1> QED  BY Zenon, <1>2, <1>3, <1>4

(* A step of one request that leaves the agents alone.                     *)
LEMMA RequestStep ==
    ASSUME ThreadsInv, NEW h \in Handlers, NEW r \in InboundReq,
           req' = [req EXCEPT ![h] = r],
           thread' \in [Threads -> Thread],
           \A c \in Threads : thread[c] # NoThread => thread'[c] = thread[c],
           faults' = 0 => faults = 0,
           agent' = agent,
           Counted', ReqSound(h)'
    PROVE  ThreadsInv'
<1>1. /\ req' \in [Handlers -> InboundReq]
      /\ \A g \in Handlers : g # h => ReqSound(g)'
      /\ \A a \in Agents : AgentSound(a)'
  BY Zenon, OthersStay
<1>2. Typed'
  BY Zenon, <1>1 DEF ThreadsInv, Typed
<1> QED  BY Zenon, <1>1, <1>2 DEF ThreadsInv

(* What the invariant says of one request.                                 *)
LEMMA ReqFacts ==
    ASSUME ThreadsInv, NEW h \in Handlers
    PROVE  /\ req \in [Handlers -> InboundReq] /\ req[h] \in InboundReq /\ ReqSound(h)
           /\ thread \in [Threads -> Thread] /\ Counted
BY Zenon DEF ThreadsInv, Typed

(* A message comes in over the channel or from the widget.                 *)
LEMMA InboundStep ==
    ASSUME ThreadsInv, NEW h \in Handlers,
           \/ \E u \in Users : HandleInbound(h, u)
           \/ \E v \in Visitors, c \in 0..MaxThreads : ChatSend(h, v, c)
    PROVE  ThreadsInv'
<1>1. Counted'
  <2>1. inbound' \in 0..MaxInbound
    <3>1. inbound < MaxInbound /\ inbound' = inbound + 1
      BY Zenon DEF HandleInbound, ChatSend
    <3>2. inbound \in 0..MaxInbound
      BY Zenon, ReqFacts DEF Counted
    <3> QED  BY <3>1, <3>2, ChatAssumption
  <2> QED  BY Zenon, <2>1, ReqFacts DEF Counted, HandleInbound, ChatSend, history
<1>2. ASSUME NEW u \in Users, HandleInbound(h, u)  PROVE ThreadsInv'
  <2> DEFINE r == [IdleReq EXCEPT !.pc = "find", !.who = u]
  <2>1. /\ r \in InboundReq /\ r.pc = "find" /\ r.who = u /\ r.conv = 0 /\ r.own = 0 /\ ~r.quiet
    BY Zenon, RowFacts DEF IdleReq, InboundReq, People
  <2>2. req'[h] = r
    BY Zenon, <1>2, ReqFacts DEF HandleInbound
  <2>3. ReqSound(h)'
    BY Zenon, <2>1, <2>2 DEF ReqSound, People
  <2> QED  BY Zenon, <1>1, <1>2, <2>1, <2>3, ReqFacts, RequestStep DEF HandleInbound, history
<1>3. ASSUME NEW v \in Visitors, NEW c \in 0..MaxThreads, ChatSend(h, v, c)  PROVE ThreadsInv'
  <2> DEFINE own == IF Exists(c) THEN c ELSE 0
             l == IF Exists(c) THEN "store" ELSE "create"
             b == c # own
             r == [IdleReq EXCEPT !.pc = l, !.who = v, !.conv = own, !.own = own, !.retried = b]
  <2>1. /\ own \in 0..MaxThreads /\ (own # 0 => thread[own] # NoThread)
        /\ (l = "store" /\ own # 0) \/ (l = "create" /\ own = 0)
        /\ b \in BOOLEAN
    <3>1. 0 \notin Threads /\ 0 \in 0..MaxThreads
      BY ChatAssumption DEF Threads
    <3>2. CASE Exists(c)
      <4>1. c \in Threads /\ thread[c] # NoThread
        BY Zenon, <3>2 DEF Exists
      <4>2. own = c /\ l = "store"
        BY Zenon, <3>2
      <4> HIDE DEF own, l
      <4> QED  BY <3>1, <4>1, <4>2
    <3>3. CASE ~Exists(c)
      BY Zenon, <3>1, <3>3
    <3> QED  BY Zenon, <3>2, <3>3
  <2>2. req' = [req EXCEPT ![h] = r] /\ thread' = thread
    BY Zenon, <1>3 DEF ChatSend
  <2> HIDE DEF own, l, b
  <2>3. /\ r \in InboundReq /\ r.pc = l /\ r.who = v /\ r.conv = own /\ r.own = own /\ ~r.quiet
    <3>1. l \in {"store", "create"}
      BY Zenon, <2>1
    <3> QED  BY Zenon, <2>1, <3>1, RowFacts DEF IdleReq, InboundReq, People
  <2> HIDE DEF r
  <2>4. req'[h] = r
    BY Zenon, <2>2, ReqFacts
  <2>5. ReqSound(h)'
    BY Zenon, <2>1, <2>2, <2>3, <2>4 DEF ReqSound, People
  <2> QED  BY ZenonT(60), <1>1, <1>3, <2>2, <2>3, <2>5, ReqFacts, RequestStep DEF ChatSend
<1> QED  BY Zenon, <1>2, <1>3

(* A request finds its user's open thread.                                 *)
LEMMA FindStep ==
    ASSUME ThreadsInv, NEW h \in Handlers, FindOpenChannelConversation(h)
    PROVE  ThreadsInv'
<1>1. Counted' /\ thread' = thread /\ UNCHANGED <<agent, faults>>
  BY Zenon, ReqFacts DEF Counted, FindOpenChannelConversation, bounds, history
<1>2. CASE Goto(h, "create")
  <2> DEFINE r == [req[h] EXCEPT !.pc = "create"]
  <2>1. /\ r \in InboundReq /\ r.pc = "create" /\ r.who = req[h].who /\ r.conv = req[h].conv
        /\ r.own = req[h].own /\ r.quiet = req[h].quiet
    BY Zenon, ReqFacts DEF InboundReq
  <2>2. req' = [req EXCEPT ![h] = r] /\ req'[h] = r
    BY Zenon, <1>2, ReqFacts DEF Goto
  <2>3. ReqSound(h)'
    <3>1. req[h].pc = "find" /\ req[h].who \in People /\ ReqSound(h)
      BY Zenon, ReqFacts DEF ReqSound, FindOpenChannelConversation, At
    <3> HIDE DEF r
    <3> QED  BY Zenon, <1>1, <2>1, <2>2, <3>1 DEF ReqSound
  <2> QED  BY Zenon, <1>1, <2>1, <2>2, <2>3, ReqFacts, RequestStep
<1>3. ASSUME NEW c \in Open(req[h].who),
             req' = [req EXCEPT ![h] = [@ EXCEPT !.pc = "store", !.conv = c]]
      PROVE  ThreadsInv'
  <2> DEFINE r == [req[h] EXCEPT !.pc = "store", !.conv = c]
  <2>1. c \in Threads /\ c \in 0..MaxThreads /\ c # 0 /\ thread[c].who = req[h].who
        /\ thread[c] # NoThread
    <3>1. c \in Threads /\ thread[c] = [who |-> req[h].who, status |-> "open"]
      BY Zenon DEF Open
    <3>2. req[h].who \in People /\ "open" \in Statuses
      BY Zenon, ReqFacts DEF ReqSound, FindOpenChannelConversation, At, Statuses
    <3> QED  BY <3>1, <3>2, RowFacts, ChatAssumption DEF Threads
  <2>2. /\ r \in InboundReq /\ r.pc = "store" /\ r.who = req[h].who /\ r.conv = c
        /\ r.own = req[h].own /\ r.quiet = req[h].quiet
    BY Zenon, <2>1, ReqFacts DEF InboundReq
  <2>3. req' = [req EXCEPT ![h] = r] /\ req'[h] = r
    BY Zenon, <1>3, ReqFacts
  <2>4. ReqSound(h)'
    BY Zenon, <1>1, <2>1, <2>2, <2>3, ReqFacts DEF ReqSound, FindOpenChannelConversation, At
  <2> QED  BY Zenon, <1>1, <2>2, <2>3, <2>4, ReqFacts, RequestStep
<1> QED  BY Zenon, <1>2, <1>3 DEF FindOpenChannelConversation

(* A request creates a thread for itself.                                  *)
LEMMA CreateStep ==
    ASSUME ThreadsInv, NEW h \in Handlers, Create(h)
    PROVE  ThreadsInv'
<1>1. Counted' /\ UNCHANGED <<agent, faults>>
  BY Zenon, ReqFacts DEF Counted, Create, bounds, history
<1>2. Fresh \in Threads /\ thread[Fresh] = NoThread
  <2>1. Fresh \in Unused
    BY Zenon DEF Create, CreateConversation, Fresh
  <2> QED  BY Zenon, <2>1 DEF Unused
<1>3. /\ req[h].who \in People /\ req[h].pc = "create" /\ ~req[h].quiet
      /\ faults = 0 => req[h].own = 0
  BY Zenon, ReqFacts DEF Create, At, ReqSound
<1>4. /\ thread' \in [Threads -> Thread] /\ thread'[Fresh].who = req[h].who
      /\ thread'[Fresh] # NoThread
      /\ \A c \in Threads : thread[c] # NoThread => thread'[c] = thread[c]
  <2> DEFINE t == [who |-> req[h].who, status |-> "open"]
  <2>1. t \in Thread /\ t.who = req[h].who /\ t # NoThread
    BY Zenon, <1>3, RowFacts DEF Statuses
  <2>2. thread' = [thread EXCEPT ![Fresh] = t]
    BY Zenon DEF Create, CreateConversation
  <2> QED  BY Zenon, <1>2, <2>1, <2>2, ReqFacts
<1> DEFINE r == [req[h] EXCEPT !.pc = "store", !.conv = Fresh]
<1>5. Fresh \in 0..MaxThreads /\ Fresh # 0
  BY <1>2, ChatAssumption DEF Threads
<1>6. /\ r \in InboundReq /\ r.pc = "store" /\ r.who = req[h].who /\ r.conv = Fresh
      /\ r.own = req[h].own /\ r.quiet = req[h].quiet
  BY Zenon, <1>5, ReqFacts DEF InboundReq
<1>7. req' = [req EXCEPT ![h] = r] /\ req'[h] = r
  BY Zenon, ReqFacts DEF Create
<1> HIDE DEF r
<1>8. ReqSound(h)'
  BY Zenon, <1>1, <1>3, <1>4, <1>5, <1>6, <1>7 DEF ReqSound
<1> QED  BY Zenon, <1>1, <1>4, <1>6, <1>7, <1>8, RequestStep

(* Where the steps of reply take a request; its thread stays the same.     *)
LEMMA ReplyStep ==
    ASSUME ThreadsInv, NEW h \in Handlers, CheckStatus(h) \/ AskModel(h)
    PROVE  ThreadsInv'
<1>1. /\ Counted' /\ thread' = thread /\ UNCHANGED <<agent, faults>>
      /\ req[h].pc \in {"status", "model"}
  BY Zenon, ReqFacts DEF Counted, CheckStatus, AskModel, At, bounds, history
<1>2. CASE Return(h)
  <2>1. req' = [req EXCEPT ![h] = IdleReq] /\ req'[h] = IdleReq
    BY Zenon, <1>2, ReqFacts DEF Return
  <2>2. ReqSound(h)'
    BY Zenon, <2>1, RowFacts DEF ReqSound
  <2> QED  BY Zenon, <1>1, <2>1, <2>2, RowFacts, ReqFacts, RequestStep
<1>3. ASSUME NEW l \in {"model", "answer"}, Goto(h, l), ~req[h].quiet  PROVE ThreadsInv'
  <2> DEFINE r == [req[h] EXCEPT !.pc = l]
  <2>1. /\ r \in InboundReq /\ r.pc = l /\ r.who = req[h].who /\ r.conv = req[h].conv
        /\ r.own = req[h].own /\ r.quiet = req[h].quiet
    BY Zenon, ReqFacts DEF InboundReq
  <2>2. req' = [req EXCEPT ![h] = r] /\ req'[h] = r
    BY Zenon, <1>3, ReqFacts DEF Goto
  <2>3. ReqSound(h)'
    BY <1>1, <1>3, <2>1, <2>2, ReqFacts DEF ReqSound
  <2> QED  BY Zenon, <1>1, <2>1, <2>2, <2>3, ReqFacts, RequestStep
<1>4. CheckStatus(h) /\ ~Return(h) => Goto(h, "model") /\ ~req[h].quiet
  BY Zenon, ReqFacts DEF CheckStatus, Suppressed, ReqSound
<1>5. AskModel(h) => Goto(h, "answer") /\ ~req[h].quiet
  BY Zenon, ReqFacts DEF AskModel, At, ReqSound
<1> QED  BY Zenon, <1>2, <1>3, <1>4, <1>5

(* Adding a message keeps the counts of messages counts.                   *)
LEMMA MessageAdded ==
    ASSUME said \in [Threads -> [Roles -> Nat]], NEW c, NEW role \in Roles, AddMessage(c, role)
    PROVE  said' \in [Threads -> [Roles -> Nat]]
<1>1. CASE c \in Threads
  <2>1. said[c] \in [Roles -> Nat] /\ said[c][role] + 1 \in Nat
    BY <1>1
  <2>2. [said[c] EXCEPT ![role] = said[c][role] + 1] \in [Roles -> Nat]
    BY Zenon, <2>1
  <2> QED  BY Zenon, <2>2 DEF AddMessage
<1>2. CASE c \notin Threads
  BY Zenon, <1>2 DEF AddMessage
<1> QED  BY Zenon, <1>1, <1>2

(* The message is stored, and whether an agent handles its thread is seen. *)
LEMMA StoreStep ==
    ASSUME ThreadsInv, NEW h \in Handlers, StoreMessage(h)
    PROVE  ThreadsInv'
<1>1. thread' = thread /\ UNCHANGED <<agent, faults>>
  BY Zenon DEF StoreMessage, bounds, history
<1>2. Counted'
  <2>1. said' \in [Threads -> [Roles -> Nat]]
    <3>1. said \in [Threads -> [Roles -> Nat]]
      BY Zenon, ReqFacts DEF Counted
    <3> QED  BY Zenon, <3>1, MessageAdded DEF StoreMessage, Roles
  <2> QED  BY Zenon, <2>1, ReqFacts DEF Counted, StoreMessage, bounds, history
<1> DEFINE q == thread[req[h].conv].status = "handling"
           r == [req[h] EXCEPT !.pc = "status", !.quiet = q]
<1>3. /\ r \in InboundReq /\ r.pc = "status" /\ r.who = req[h].who /\ r.conv = req[h].conv
      /\ r.own = req[h].own /\ r.quiet = q
  BY Zenon, ReqFacts DEF InboundReq
<1>4. req' = [req EXCEPT ![h] = r] /\ req'[h] = r
  BY Zenon, ReqFacts DEF StoreMessage
<1>5. ReqSound(h)'
  <2>1. /\ req[h].pc = "store" /\ req[h].who \in People /\ req[h].conv # 0
        /\ thread[req[h].conv] # NoThread
        /\ \/ thread[req[h].conv].who = req[h].who
           \/ req[h].who \in Visitors /\ req[h].conv = req[h].own
        /\ faults = 0 /\ req[h].own # 0 => req[h].conv = req[h].own
    BY Zenon, ReqFacts DEF ReqSound, StoreMessage, At
  <2>2. r.quiet => thread[req[h].conv].status = "handling"
    BY Zenon, <1>3
  <2> HIDE DEF r
  <2> QED  BY <1>1, <1>3, <1>4, <2>1, <2>2 DEF ReqSound
<1> QED  BY Zenon, <1>1, <1>2, <1>3, <1>4, <1>5, ReqFacts, RequestStep

(* The channel's reply is sent.                                            *)
LEMMA SendStep ==
    ASSUME ThreadsInv, NEW h \in Handlers, SendReply(h)
    PROVE  ThreadsInv'
<1>1. thread' = thread /\ UNCHANGED <<agent, faults>>
  BY Zenon DEF SendReply, bounds
<1>2. Counted'
  <2>1. sent' \in [Users -> Nat]
    <3>1. sent \in [Users -> Nat]
      BY Zenon, ReqFacts DEF Counted
    <3>2. sent' = [sent EXCEPT ![req[h].who] = @ + 1]
      BY Zenon DEF SendReply
    <3>3. req[h].who \in Users => sent[req[h].who] + 1 \in Nat
      BY <3>1
    <3> QED  BY Zenon, <3>1, <3>2, <3>3
  <2> QED  BY Zenon, <2>1, ReqFacts DEF Counted, SendReply, bounds
<1>3. req' = [req EXCEPT ![h] = IdleReq] /\ req'[h] = IdleReq
  BY Zenon, ReqFacts DEF Return, SendReply
<1>4. ReqSound(h)'
  BY Zenon, <1>3, RowFacts DEF ReqSound
<1> QED  BY Zenon, <1>1, <1>2, <1>3, <1>4, RowFacts, ReqFacts, RequestStep

(* A call of a request fails: the widget's starts over, once.              *)
LEMMA InboundFailsStep ==
    ASSUME ThreadsInv, NEW h \in Handlers, InboundFails(h)
    PROVE  ThreadsInv'
<1>1. thread' = thread /\ agent' = agent /\ faults' # 0 /\ faults' \in 0..MaxFaults
  <2>1. faults' = faults + 1 /\ faults < MaxFaults /\ faults \in 0..MaxFaults
    BY Zenon, ReqFacts DEF InboundFails, Fault, Counted
  <2>2. faults' # 0 /\ faults' \in 0..MaxFaults
    BY <2>1, ChatAssumption
  <2> QED  BY Zenon, <2>2 DEF InboundFails, history
<1>2. Counted'
  BY Zenon, <1>1, ReqFacts DEF Counted, InboundFails, history
<1>3. CASE req' = [req EXCEPT ![h] = IdleReq]
  <2>1. req'[h] = IdleReq
    BY Zenon, <1>3, ReqFacts
  <2>2. ReqSound(h)'
    BY Zenon, <2>1, RowFacts DEF ReqSound
  <2> QED  BY Zenon, <1>1, <1>2, <1>3, <2>2, RowFacts, ReqFacts, RequestStep
<1>4. CASE req' = [req EXCEPT ![h] = [@ EXCEPT !.pc = "create", !.conv = 0, !.retried = TRUE,
                                                !.quiet = FALSE]]
  <2> DEFINE r == [req[h] EXCEPT !.pc = "create", !.conv = 0, !.retried = TRUE, !.quiet = FALSE]
  <2>1. 0 \in 0..MaxThreads
    BY Zenon, ThreadIds
  <2>2. /\ r \in InboundReq /\ r.pc = "create" /\ r.who = req[h].who /\ r.conv = 0 /\ ~r.quiet
    <3>1. req[h] \in InboundReq
      BY Zenon, ReqFacts
    <3> QED  BY Zenon, <2>1, <3>1 DEF InboundReq
  <2>3. req' = [req EXCEPT ![h] = r] /\ req'[h] = r
    BY Zenon, <1>4, ReqFacts
  <2>4. ReqSound(h)'
    BY Zenon, <1>1, <2>2, <2>3, ReqFacts DEF ReqSound, InboundFails, At
  <2> QED  BY Zenon, <1>1, <1>2, <2>2, <2>3, <2>4, ReqFacts, RequestStep
<1> QED  BY Zenon, <1>3, <1>4 DEF InboundFails

(* The reply is stored, and the widget's request is answered.              *)
LEMMA StoreReplyStep ==
    ASSUME ThreadsInv, NEW h \in Handlers, StoreReply(h)
    PROVE  ThreadsInv'
<1>1. thread' = thread /\ UNCHANGED <<agent, faults, connected, bounds, sent, agentSent>>
  BY Zenon DEF StoreReply, bounds, history
<1>2. Counted'
  <2>1. said' \in [Threads -> [Roles -> Nat]]
    BY Zenon, ReqFacts, MessageAdded DEF StoreReply, Counted, Roles
  <2> QED  BY Zenon, <1>1, <2>1, ReqFacts DEF Counted, bounds
<1>3. CASE Return(h)
  <2>1. req' = [req EXCEPT ![h] = IdleReq] /\ req'[h] = IdleReq
    BY Zenon, <1>3, ReqFacts DEF Return
  <2>2. ReqSound(h)'
    BY Zenon, <2>1, RowFacts DEF ReqSound
  <2> QED  BY Zenon, <1>1, <1>2, <2>1, <2>2, RowFacts, ReqFacts, RequestStep
<1>4. CASE Goto(h, "send")
  <2> DEFINE r == [req[h] EXCEPT !.pc = "send"]
  <2>1. /\ r \in InboundReq /\ r.pc = "send" /\ r.who = req[h].who /\ r.conv = req[h].conv
        /\ r.own = req[h].own /\ r.quiet = req[h].quiet
    BY Zenon, ReqFacts DEF InboundReq
  <2>2. req' = [req EXCEPT ![h] = r] /\ req'[h] = r
    BY Zenon, <1>4, ReqFacts DEF Goto
  <2>3. req[h].pc = "answer"
    BY Zenon DEF StoreReply, At
  <2> HIDE DEF r
  <2>4. ReqSound(h)'
    BY <1>1, <2>1, <2>2, <2>3, ReqFacts DEF ReqSound
  <2> QED  BY Zenon, <1>1, <1>2, <2>1, <2>2, <2>4, ReqFacts, RequestStep
<1> QED  BY Zenon, <1>3, <1>4 DEF StoreReply

(* A thread's status is set, by a merchant or by an agent who takes over.  *)
LEMMA StatusStep ==
    ASSUME ThreadsInv, NEW c \in Threads, thread[c] # NoThread, NEW s \in Statuses,
           SetConversationStatus(c, s), faults' = faults
    PROVE  /\ thread' \in [Threads -> Thread] /\ req' \in [Handlers -> InboundReq]
           /\ \A h \in Handlers : ReqSound(h)'
           /\ \A d \in Threads : thread[d] # NoThread => thread'[d] # NoThread
<1>1. /\ req \in [Handlers -> InboundReq] /\ thread \in [Threads -> Thread]
      /\ thread[c].who \in People
  BY Zenon, RowFacts DEF ThreadsInv, Typed
<1>2. thread' = [thread EXCEPT ![c] = [who |-> thread[c].who, status |-> s]]
  <2>1. thread[c] \in [who : People, status : Statuses]
    BY Zenon, <1>1 DEF Thread
  <2>2. [thread[c] EXCEPT !.status = s] = [who |-> thread[c].who, status |-> s]
    BY <2>1
  <2> QED  BY Zenon, <2>2 DEF SetConversationStatus
<1>3. /\ thread' \in [Threads -> Thread]
      /\ \A d \in Threads : /\ thread'[d].who = thread[d].who
                            /\ d # c => thread'[d] = thread[d]
                            /\ thread[d] # NoThread => thread'[d] # NoThread
      /\ thread'[c].status = s
  <2> DEFINE t == [who |-> thread[c].who, status |-> s]
  <2>1. t \in Thread /\ t # NoThread /\ t.who = thread[c].who /\ t.status = s
    BY Zenon, <1>1, RowFacts
  <2> HIDE DEF t
  <2>2. thread' = [thread EXCEPT ![c] = t]
    BY Zenon, <1>2 DEF t
  <2> QED  BY Zenon, <1>1, <2>1, <2>2
<1>4. ASSUME NEW h \in Handlers  PROVE req'[h] \in InboundReq /\ ReqSound(h)'
  <2> DEFINE q == req[h].quiet /\ (req[h].conv = c => s = "handling")
             r == [req[h] EXCEPT !.quiet = q]
  <2>1. req[h] \in InboundReq /\ ReqSound(h) /\ req[h].conv \in 0..MaxThreads
    BY Zenon, <1>1 DEF ThreadsInv, InboundReq
  <2>2. /\ r \in InboundReq /\ r.pc = req[h].pc /\ r.who = req[h].who /\ r.conv = req[h].conv
        /\ r.own = req[h].own /\ r.retried = req[h].retried /\ (r.quiet <=> q)
    BY Zenon, <2>1 DEF InboundReq
  <2>3. req'[h] = r
    BY Zenon DEF SetConversationStatus
  <2>4. r.pc = "idle" => r = IdleReq
    <3>1. ASSUME r.pc = "idle"  PROVE r = req[h]
      <4>1. ~req[h].quiet /\ ~q
        BY Zenon, <2>1, <2>2, <3>1 DEF ReqSound
      <4> QED  BY Zenon, <2>1, <4>1 DEF InboundReq
    <3> QED  BY Zenon, <2>1, <2>2, <3>1 DEF ReqSound
  <2>5. r.quiet => req[h].quiet /\ (req[h].conv = c => s = "handling")
    BY Zenon, <2>2
  <2> HIDE DEF r, q
  <2>6. r.conv # 0 => /\ r.conv \in Threads /\ thread'[r.conv] # NoThread
                      /\ \/ thread'[r.conv].who = r.who
                         \/ r.who \in Visitors /\ r.conv = r.own
    <3>1. req[h].conv # 0 =>
             /\ req[h].conv \in Threads /\ thread[req[h].conv] # NoThread
             /\ \/ thread[req[h].conv].who = req[h].who
                \/ req[h].who \in Visitors /\ req[h].conv = req[h].own
      BY Zenon, <2>1, ThreadIds DEF ReqSound
    <3> QED  BY Zenon, <1>3, <2>2, <3>1
  <2>7. r.quiet => r.pc = "status" /\ thread'[r.conv].status = "handling"
    BY Zenon, <1>3, <2>1, <2>2, <2>5, <2>6 DEF ReqSound
  <2> QED  BY Zenon, <2>1, <2>2, <2>3, <2>4, <2>6, <2>7 DEF ReqSound
<1>5. req' \in [Handlers -> InboundReq]
  BY Zenon, <1>4 DEF SetConversationStatus
<1> QED  BY Zenon, <1>3, <1>4, <1>5 DEF ThreadsInv

(* The merchant sets a status, connects or disconnects the channel.        *)
LEMMA MerchantStep ==
    ASSUME ThreadsInv,
           (\E c \in Threads, s \in Statuses : SetStatus(c, s)) \/ Connect \/ Disconnect
    PROVE  ThreadsInv'
<1>1. moves' \in 0..MaxMoves
  <2>1. moves' = moves + 1 /\ moves < MaxMoves /\ moves \in 0..MaxMoves
    BY Zenon DEF SetStatus, Connect, Disconnect, Move, ThreadsInv, Counted
  <2> QED  BY <2>1, ChatAssumption
<1>2. Counted' /\ UNCHANGED <<agent, faults>>
  BY Zenon, <1>1 DEF SetStatus, Connect, Disconnect, ThreadsInv, Counted, history
<1>3. CASE Connect \/ Disconnect
  <2>1. thread' = thread /\ req' = req
    BY Zenon, <1>3 DEF Connect, Disconnect
  <2> QED  BY Zenon, <1>2, <2>1 DEF ThreadsInv, Typed, ReqSound, AgentSound
<1>4. ASSUME NEW c \in Threads, NEW s \in Statuses, SetStatus(c, s)  PROVE ThreadsInv'
  <2>1. thread[c] # NoThread /\ SetConversationStatus(c, s)
    BY Zenon, <1>4 DEF SetStatus, Exists
  <2>2. /\ thread' \in [Threads -> Thread] /\ req' \in [Handlers -> InboundReq]
        /\ \A h \in Handlers : ReqSound(h)'
        /\ \A d \in Threads : thread[d] # NoThread => thread'[d] # NoThread
    BY Zenon, <1>2, <2>1, StatusStep
  <2> QED  BY Zenon, <1>2, <2>2 DEF ThreadsInv, Typed, AgentSound
<1> QED  BY Zenon, <1>3, <1>4

(* What an agent's reply goes through; the threads stay where they are.    *)
LEMMA AgentStep ==
    ASSUME ThreadsInv, NEW a \in Agents,
           \/ \E c \in Threads : AgentReply(a, c)
           \/ StoreAgentMessage(a) \/ Deliver(a) \/ AgentFails(a)
    PROVE  ThreadsInv'
<1>1. UNCHANGED <<thread, req, connected, inbound, moves, sent>>
  BY Zenon DEF AgentReply, StoreAgentMessage, Deliver, AgentFails, bounds, history
<1>2. agent \in [Agents -> AgentReq] /\ agent[a] \in AgentReq /\ AgentSound(a) /\ Counted
  BY Zenon DEF ThreadsInv, Typed
<1>3. Counted'
  <2>1. said' \in [Threads -> [Roles -> Nat]]
    <3>1. "agent" \in Roles /\ said \in [Threads -> [Roles -> Nat]]
      BY Zenon, <1>2 DEF Roles, Counted
    <3>2. StoreAgentMessage(a) => AddMessage(agent[a].conv, "agent")
      BY Zenon DEF StoreAgentMessage
    <3> QED  BY Zenon, <3>1, <3>2, MessageAdded DEF AgentReply, Deliver, AgentFails
  <2>2. replies' \in 0..MaxReplies
    <3>1. replies \in 0..MaxReplies /\ (replies' = replies \/ (replies < MaxReplies /\ replies' = replies + 1))
      BY Zenon, <1>2 DEF AgentReply, StoreAgentMessage, Deliver, AgentFails, bounds, Counted
    <3> QED  BY <3>1, ChatAssumption
  <2>3. faults' \in 0..MaxFaults
    <3>1. faults \in 0..MaxFaults /\ (faults' = faults \/ (faults < MaxFaults /\ faults' = faults + 1))
      BY Zenon, <1>2 DEF AgentReply, StoreAgentMessage, Deliver, AgentFails, Fault, bounds, Counted
    <3> QED  BY <3>1, ChatAssumption
  <2>4. agentSent' \in Nat
    <3>1. agentSent \in Nat /\ (agentSent' = agentSent \/ agentSent' = agentSent + 1)
      BY Zenon, <1>2 DEF AgentReply, StoreAgentMessage, Deliver, AgentFails, history, Counted
    <3> QED  BY <3>1
  <2> QED  BY Zenon, <1>1, <1>2, <2>1, <2>2, <2>3, <2>4 DEF Counted
<1>4. faults' = 0 => faults = 0
  <2>1. faults \in 0..MaxFaults /\ (faults' = faults \/ faults' = faults + 1)
    BY Zenon, <1>2 DEF AgentReply, StoreAgentMessage, Deliver, AgentFails, Fault, bounds, Counted
  <2> QED  BY <2>1, ChatAssumption
<1>5. PICK b \in AgentReq :
          /\ agent' = [agent EXCEPT ![a] = b]
          /\ b.pc # "idle" => b.conv \in Threads /\ thread[b.conv] # NoThread
  <2>1. CASE Deliver(a) \/ AgentFails(a)
    BY Zenon, <2>1, RowFacts DEF Deliver, AgentFails
  <2>2. ASSUME NEW c \in Threads, AgentReply(a, c)
        PROVE  \E b \in AgentReq :
                   /\ agent' = [agent EXCEPT ![a] = b]
                   /\ b.pc # "idle" => b.conv \in Threads /\ thread[b.conv] # NoThread
    <3> DEFINE b == [pc |-> "take", conv |-> c]
    <3>1. b \in AgentReq /\ b.conv = c
      BY Zenon, ThreadIds DEF AgentReq
    <3> QED  BY Zenon, <2>2, <3>1 DEF AgentReply, Exists
  <2>3. CASE StoreAgentMessage(a)
    <3> DEFINE b == [agent[a] EXCEPT !.pc = "deliver"]
    <3>1. b \in AgentReq /\ b.conv = agent[a].conv
      BY Zenon, <1>2 DEF AgentReq
    <3>2. agent' = [agent EXCEPT ![a] = b] /\ agent[a].pc = "store"
      BY Zenon, <2>3 DEF StoreAgentMessage, AgentGoto, AgentAt
    <3> HIDE DEF b
    <3> QED  BY Zenon, <1>2, <3>1, <3>2 DEF AgentSound
  <2> QED  BY Zenon, <2>1, <2>2, <2>3
<1>6. agent' \in [Agents -> AgentReq] /\ \A e \in Agents : AgentSound(e)'
  BY Zenon, <1>1, <1>2, <1>5 DEF ThreadsInv, AgentSound
<1>7. \A h \in Handlers : ReqSound(h)'
  BY Zenon, <1>1, <1>4 DEF ThreadsInv, ReqSound
<1> QED  BY Zenon, <1>1, <1>3, <1>6, <1>7 DEF ThreadsInv, Typed

(* An agent takes a thread over.                                           *)
LEMMA TakeOverStep ==
    ASSUME ThreadsInv, NEW a \in Agents, TakeOver(a)
    PROVE  ThreadsInv'
<1>1. agent \in [Agents -> AgentReq] /\ agent[a] \in AgentReq /\ AgentSound(a) /\ agent[a].pc = "take"
  BY Zenon DEF ThreadsInv, Typed, TakeOver, AgentAt
<1>2. Counted' /\ faults' = faults
  BY Zenon DEF TakeOver, ThreadsInv, Counted, bounds, history
<1>3. agent[a].conv \in Threads /\ thread[agent[a].conv] # NoThread
  BY Zenon, <1>1 DEF AgentSound
<1>4. /\ thread' \in [Threads -> Thread] /\ req' \in [Handlers -> InboundReq]
      /\ \A h \in Handlers : ReqSound(h)'
      /\ \A d \in Threads : thread[d] # NoThread => thread'[d] # NoThread
  <2>1. "handling" \in Statuses /\ SetConversationStatus(agent[a].conv, "handling")
    BY Zenon DEF Statuses, TakeOver
  <2> QED  BY Zenon, <1>2, <1>3, <2>1, StatusStep
<1> DEFINE b == [agent[a] EXCEPT !.pc = "store"]
<1>5. b \in AgentReq /\ b.conv = agent[a].conv
  BY Zenon, <1>1 DEF AgentReq
<1>6. agent' = [agent EXCEPT ![a] = b]
  BY Zenon DEF TakeOver, AgentGoto
<1> HIDE DEF b
<1>7. agent' \in [Agents -> AgentReq] /\ \A e \in Agents : AgentSound(e)'
  BY Zenon, <1>1, <1>3, <1>4, <1>5, <1>6 DEF ThreadsInv, AgentSound
<1> QED  BY Zenon, <1>2, <1>4, <1>7 DEF ThreadsInv, Typed

(* Nobody has written anything at the start.                               *)
LEMMA ThreadsStart == Init => ThreadsInv
<1> SUFFICES ASSUME Init  PROVE ThreadsInv
  BY Zenon
<1>1. Counted
  BY ChatAssumption DEF Init, Counted
<1>2. Typed
  BY Zenon, RowFacts, ThreadIds DEF Init, Typed
<1> QED  BY Zenon, <1>1, <1>2, RowFacts DEF Init, ThreadsInv, ReqSound, AgentSound

(* Every step keeps the invariant.                                         *)
LEMMA ThreadsStep == ThreadsInv /\ [Next]_vars => ThreadsInv'
<1>1. ASSUME ThreadsInv, UNCHANGED vars  PROVE ThreadsInv'
  BY Zenon, <1>1 DEF vars, bounds, history, ThreadsInv, Typed, Counted, ReqSound, AgentSound
<1> QED  BY Zenon, <1>1, InboundStep, FindStep, CreateStep, StoreStep, ReplyStep, StoreReplyStep,
            SendStep, InboundFailsStep, MerchantStep, AgentStep, TakeOverStep DEF Next

(* The invariant says what conversations promise.                          *)
LEMMA ThreadsSay == ThreadsInv => ChatInv
<1> SUFFICES ASSUME ThreadsInv  PROVE ChatInv
  BY Zenon
<1>1. ChatTypeOK
  BY Zenon DEF ThreadsInv, Typed, Counted, ChatTypeOK
<1>2. AssistantYields
  BY Zenon DEF ThreadsInv, ReqSound, AssistantYields
<1>3. ThreadsAreNotShared
  <2>1. \A h \in Handlers : req[h].conv \in 0..MaxThreads
    BY Zenon DEF ThreadsInv, Typed, InboundReq
  <2> QED  BY Zenon, <2>1, ThreadIds DEF ThreadsInv, ReqSound, ThreadsAreNotShared, IsWeb, Exists
<1>4. VisitorKeepsThread
  BY Zenon DEF ThreadsInv, ReqSound, VisitorKeepsThread
<1> QED  BY Zenon, <1>1, <1>2, <1>3, <1>4 DEF ChatInv

(* In every run the assistant keeps out of a thread while a human handles  *)
(* it; a channel user's message goes into a thread of theirs, a visitor's  *)
(* into one of theirs or the one of the org its request named; and only a  *)
(* failure takes a request away from the thread it named.                  *)
THEOREM ConversationsAreKept == Spec => []ChatInv
<1>1. ThreadsInv => ChatInv
  BY Zenon, ThreadsSay
<1> QED  BY <1>1, ThreadsStart, ThreadsStep, PTL DEF Spec

(* Chat's reply: a message that comes into a thread a human handles is not *)
(* answered by the assistant while it stays so.                            *)
THEOREM HumansTakeOver == Spec => []AssistantYields
<1>1. ChatInv => AssistantYields
  BY Zenon DEF ChatInv
<1> QED  BY <1>1, ConversationsAreKept, PTL

-------------------------------------------------------------------------------
(* The insight of a conversation.                                          *)

(* i is the verdict on the conversation as it stood at a moment, no        *)
(* earlier than after the first n turns.                                   *)
VerdictSince(i, n) ==
    \E m \in n..Len(transcript) : i = Summary(SubSeq(transcript, 1, m))

(* Of each summarize request: what it has drawn, and what it is about to   *)
(* read back if it is alone, is a verdict since it began.                  *)
JobSound(h) ==
    /\ job[h].begun <= Len(transcript)
    /\ job[h].pc = "save" => VerdictSince(job[h].drawn, job[h].begun)
    /\ job[h].alone /\ job[h].pc # "idle" =>
           \A k \in Summarizers : k # h => job[k].pc = "idle"
    /\ job[h].alone /\ job[h].pc = "reread" => VerdictSince(insight, job[h].begun)
    /\ job[h].alone /\ job[h].answer # NoInsight => VerdictSince(job[h].answer, job[h].begun)

(* What every step of summarizing keeps.                                   *)
VerdictsInv ==
    /\ InsightsTypeOK
    /\ insight # NoInsight => VerdictSince(insight, 0)
    /\ \A h \in Summarizers : JobSound(h)

(* A turn that is added leaves the conversation before it as it was.       *)
LEMMA PrefixKept ==
    ASSUME NEW s \in Seq(Turn), NEW e \in Turn, NEW n \in 0..Len(s)
    PROVE  SubSeq(Append(s, e), 1, n) = SubSeq(s, 1, n)
OBVIOUS

(* A prefix of the conversation.                                           *)
LEMMA PrefixFacts ==
    ASSUME NEW s \in Seq(Turn), NEW n \in 0..Len(s)
    PROVE  /\ SubSeq(s, 1, n) \in Seq(Turn) /\ Len(SubSeq(s, 1, n)) = n
           /\ \A i \in 1..n : SubSeq(s, 1, n)[i] = s[i]
OBVIOUS

(* What the summarizer makes of a conversation is an insight.              *)
LEMMA SummaryType ==
    ASSUME NEW s \in Seq(Turn), Len(s) <= MaxTurns
    PROVE  Summary(s) \in Insight
<1>1. UserTurns(s) \in SUBSET (1..MaxTurns)
  BY InsightsAssumption DEF UserTurns
<1>2. \A w : Sentiment(w) \in {"neutral", "positive", "negative"}
  BY Zenon DEF Sentiment
<1>3. \A w : /\ Verdict(w)[1] \in {"unknown", "pending", "needs_human", "sale", "resolved"}
             /\ Verdict(w)[2] \in {"wait", "assign", "confirm", "nothing", "reach_out", "follow_up"}
  BY Zenon DEF Verdict
<1> QED  BY Zenon, <1>1, <1>2, <1>3 DEF Summary, Insight

(* A request for a person outweighs whatever else was said.                *)
LEMMA PersonFirst ==
    ASSUME NEW s, "human" \in Said(s)
    PROVE  Summary(s).action = "assign"
<1>1. UserTurns(s) # {}
  BY Zenon DEF Said
<1>2. Verdict(Said(s))[2] = "assign"
  BY Zenon DEF Verdict
<1> QED  BY Zenon, <1>1, <1>2 DEF Summary

(* What was said stays said.                                               *)
LEMMA SaidStays ==
    ASSUME NEW s \in Seq(Turn), NEW n \in 0..Len(s), NEW m \in n..Len(s)
    PROVE  Said(SubSeq(s, 1, n)) \subseteq Said(SubSeq(s, 1, m))
<1>1. m \in 0..Len(s)
  OBVIOUS
<1>2. UserTurns(SubSeq(s, 1, n)) \subseteq UserTurns(SubSeq(s, 1, m))
  BY <1>1, PrefixFacts DEF UserTurns, FromUser
<1>3. \A i \in UserTurns(SubSeq(s, 1, n)) : SubSeq(s, 1, n)[i] = SubSeq(s, 1, m)[i]
  BY <1>1, PrefixFacts DEF UserTurns
<1> QED  BY Zenon, <1>2, <1>3 DEF Said

(* A step that leaves the conversation alone leaves verdicts on it alone.  *)
LEMMA VerdictStays ==
    ASSUME NEW i, NEW n, VerdictSince(i, n), transcript' = transcript
    PROVE  VerdictSince(i, n)'
BY Zenon DEF VerdictSince

(* The customer writes on: a verdict on the past stays one.                *)
LEMMA AddTurnStep ==
    ASSUME VerdictsInv, NEW role \in {"user", "assistant"}, NEW signals \in Words,
           AddTurn(role, signals)
    PROVE  VerdictsInv'
<1> DEFINE e == [role |-> role, signals |-> signals]
<1>1. e \in Turn /\ transcript \in Seq(Turn) /\ transcript' = Append(transcript, e)
  BY Zenon DEF Turn, VerdictsInv, InsightsTypeOK, AddTurn
<1> HIDE DEF e
<1>2. transcript' \in Seq(Turn) /\ Len(transcript') = Len(transcript) + 1
  BY <1>1
<1>3. UNCHANGED <<insight, job, runs>> /\ Len(transcript) < MaxTurns /\ Len(transcript) \in Nat
  BY <1>1 DEF AddTurn
<1>4. ASSUME NEW i, NEW n \in 0..MaxTurns, VerdictSince(i, n)  PROVE VerdictSince(i, n)'
  <2>1. PICK m \in n..Len(transcript) : i = Summary(SubSeq(transcript, 1, m))
    BY Zenon, <1>4 DEF VerdictSince
  <2>2. m \in 0..Len(transcript) /\ m \in n..Len(transcript')
    BY <1>2, <1>3, <2>1
  <2>3. SubSeq(transcript', 1, m) = SubSeq(transcript, 1, m)
    BY Zenon, <1>1, <2>2, PrefixKept
  <2> QED  BY Zenon, <2>1, <2>2, <2>3 DEF VerdictSince
<1>5. InsightsTypeOK'
  <2>1. Len(transcript') <= MaxTurns
    BY <1>2, <1>3, InsightsAssumption
  <2> QED  BY Zenon, <1>2, <1>3, <2>1 DEF VerdictsInv, InsightsTypeOK
<1>6. insight' # NoInsight => VerdictSince(insight, 0)'
  <2>1. 0 \in 0..MaxTurns
    BY InsightsAssumption
  <2> QED  BY Zenon, <1>3, <1>4, <2>1 DEF VerdictsInv
<1>7. ASSUME NEW h \in Summarizers  PROVE JobSound(h)'
  <2>1. job[h].begun \in 0..MaxTurns /\ JobSound(h)
    BY Zenon DEF VerdictsInv, InsightsTypeOK, JobRow
  <2>2. job[h].begun <= Len(transcript')
    BY <1>2, <1>3, <2>1 DEF JobSound
  <2> QED  BY Zenon, <1>3, <1>4, <2>1, <2>2 DEF JobSound
<1> QED  BY Zenon, <1>5, <1>6, <1>7 DEF VerdictsInv

(* What the invariant says of one request.                                 *)
LEMMA JobFacts ==
    ASSUME VerdictsInv, NEW h \in Summarizers
    PROVE  /\ job \in [Summarizers -> JobRow] /\ job[h] \in JobRow /\ JobSound(h)
           /\ transcript \in Seq(Turn) /\ Len(transcript) \in 0..MaxTurns
           /\ insight \in Insight \cup {NoInsight} /\ runs \in 0..MaxRuns
<1>1. transcript \in Seq(Turn) /\ Len(transcript) <= MaxTurns
  BY Zenon DEF VerdictsInv, InsightsTypeOK
<1>2. Len(transcript) \in 0..MaxTurns
  BY <1>1, InsightsAssumption
<1> QED  BY Zenon, <1>1, <1>2 DEF VerdictsInv, InsightsTypeOK

(* The row of a request that has not begun.                                *)
LEMMA NoJobFacts ==
    /\ NoJob \in JobRow /\ NoJob.pc = "idle" /\ NoJob.begun = 0 /\ ~NoJob.alone
    /\ NoJob.answer = NoInsight
BY InsightsAssumption DEF NoJob, JobRow

(* A request goes on or fails, and what is cached stays.                   *)
LEMMA JobStep ==
    ASSUME VerdictsInv, NEW h \in Summarizers, NEW r \in JobRow, job' = [job EXCEPT ![h] = r],
           UNCHANGED <<transcript, insight, runs>>,
           r.alone => job[h].alone, job[h].pc = "idle" => r.pc = "idle", JobSound(h)'
    PROVE  VerdictsInv'
<1>1. job' \in [Summarizers -> JobRow] /\ job'[h] = r
  BY Zenon, JobFacts
<1>2. InsightsTypeOK'
  BY Zenon, <1>1 DEF VerdictsInv, InsightsTypeOK
<1>3. ASSUME NEW g \in Summarizers, g # h  PROVE JobSound(g)'
  <2>1. job'[g] = job[g] /\ JobSound(g)
    BY Zenon, <1>3, JobFacts
  <2>2. \A k \in Summarizers : job[k].pc = "idle" => job'[k].pc = "idle"
    BY Zenon, <1>1, JobFacts
  <2> QED  BY Zenon, <2>1, <2>2, VerdictStays DEF JobSound
<1> QED  BY Zenon, <1>2, <1>3, VerdictStays DEF VerdictsInv

(* A request draws its summary, reads the insight back, or fails.          *)
LEMMA SummarizeStep ==
    ASSUME VerdictsInv, NEW h \in Summarizers,
           Summarize(h) \/ GetInsight(h) \/ SummarizeFails(h)
    PROVE  VerdictsInv'
<1>1. CASE Summarize(h)
  <2> DEFINE r == [job[h] EXCEPT !.pc = "save", !.drawn = Summary(transcript)]
  <2>1. Summary(transcript) \in Insight
    BY JobFacts, SummaryType, InsightsAssumption
  <2>2. /\ r \in JobRow /\ r.pc = "save" /\ r.begun = job[h].begun /\ r.alone = job[h].alone
        /\ r.drawn = Summary(transcript) /\ r.answer = job[h].answer
    BY Zenon, <2>1, JobFacts DEF JobRow
  <2>3. /\ job' = [job EXCEPT ![h] = r] /\ UNCHANGED <<transcript, insight, runs>>
        /\ job[h].pc = "read"
    BY Zenon, <1>1, JobFacts DEF Summarize
  <2> HIDE DEF r
  <2>4. VerdictSince(Summary(transcript), job[h].begun)
    <3>1. /\ Len(transcript) \in job[h].begun..Len(transcript)
          /\ SubSeq(transcript, 1, Len(transcript)) = transcript
      BY JobFacts, InsightsAssumption DEF JobSound, JobRow
    <3> QED  BY Zenon, <3>1 DEF VerdictSince
  <2>5. \A k \in Summarizers : k # h => job'[k] = job[k]
    BY Zenon, <2>3, JobFacts
  <2>6. JobSound(h)'
    <3>1. job'[h] = r
      BY Zenon, <2>3, JobFacts
    <3> QED  BY Zenon, <2>2, <2>3, <2>4, <2>5, <3>1, VerdictStays, JobFacts DEF JobSound
  <2> QED  BY Zenon, <2>2, <2>3, <2>6, JobStep
<1>2. CASE GetInsight(h)
  <2> DEFINE r == [job[h] EXCEPT !.pc = "idle", !.answer = insight]
  <2>1. /\ r \in JobRow /\ r.pc = "idle" /\ r.begun = job[h].begun /\ r.alone = job[h].alone
        /\ r.answer = insight
    BY Zenon, JobFacts DEF JobRow
  <2>2. /\ job' = [job EXCEPT ![h] = r] /\ UNCHANGED <<transcript, insight, runs>>
        /\ job[h].pc = "reread"
    BY Zenon, <1>2, JobFacts DEF GetInsight
  <2> HIDE DEF r
  <2>3. JobSound(h)'
    <3>1. job'[h] = r
      BY Zenon, <2>2, JobFacts
    <3> QED  BY Zenon, <2>1, <2>2, <3>1, VerdictStays, JobFacts DEF JobSound
  <2> QED  BY Zenon, <2>1, <2>2, <2>3, JobStep
<1>3. CASE SummarizeFails(h)
  <2>1. /\ job' = [job EXCEPT ![h] = NoJob] /\ UNCHANGED <<transcript, insight, runs>>
        /\ job'[h] = NoJob /\ job[h].pc # "idle"
    BY Zenon, <1>3, JobFacts DEF SummarizeFails
  <2>2. 0 <= Len(transcript)
    BY JobFacts
  <2>3. JobSound(h)'
    BY Zenon, <2>1, <2>2, NoJobFacts DEF JobSound
  <2> QED  BY Zenon, <2>1, <2>3, NoJobFacts, JobStep
<1> QED  BY Zenon, <1>1, <1>2, <1>3

(* A request begins: it is alone if no other is under way, and no longer   *)
(* are those that are.                                                     *)
LEMMA OwnsStep ==
    ASSUME VerdictsInv, NEW h \in Summarizers, Owns(h)
    PROVE  VerdictsInv'
<1>1. UNCHANGED <<transcript, insight>> /\ runs' \in 0..MaxRuns
  <2>1. runs < MaxRuns /\ runs' = runs + 1 /\ runs \in 0..MaxRuns
    BY Zenon, JobFacts DEF Owns
  <2>2. runs' \in 0..MaxRuns
    BY <2>1, InsightsAssumption
  <2> QED  BY Zenon, <2>2 DEF Owns
<1>2. ASSUME NEW g \in Summarizers  PROVE job'[g] \in JobRow /\ JobSound(g)'
  <2>1. CASE g = h
    <3> DEFINE a == \A k \in Summarizers : job[k].pc = "idle"
               r == [NoJob EXCEPT !.pc = "read", !.begun = Len(transcript), !.alone = a]
    <3>1. job'[g] = r
      BY Zenon, <2>1 DEF Owns
    <3>2. /\ r \in JobRow /\ r.pc = "read" /\ r.begun = Len(transcript) /\ (r.alone <=> a)
          /\ r.answer = NoInsight
      BY Zenon, JobFacts, NoJobFacts DEF NoJob, JobRow
    <3>3. a => \A k \in Summarizers : k # h => job'[k].pc = "idle"
      <4>1. ASSUME a, NEW k \in Summarizers, k # h  PROVE job'[k].pc = "idle"
        <5>1. job'[k] = [job[k] EXCEPT !.alone = @ /\ job[k].pc = "idle"]
          BY Zenon, <4>1 DEF Owns
        <5>2. job[k] \in JobRow /\ job[k].pc = "idle"
          BY Zenon, <4>1, JobFacts
        <5> QED  BY Zenon, <5>1, <5>2 DEF JobRow
      <4> QED  BY Zenon, <4>1
    <3>4. Len(transcript) <= Len(transcript)
      BY JobFacts
    <3> HIDE DEF a, r
    <3> QED  BY Zenon, <1>1, <2>1, <3>1, <3>2, <3>3, <3>4 DEF JobSound
  <2>2. CASE g # h
    <3> DEFINE a == job[g].alone /\ job[g].pc = "idle"
               r == [job[g] EXCEPT !.alone = a]
    <3>1. job'[g] = r /\ job[g] \in JobRow /\ JobSound(g)
      BY Zenon, <2>2, JobFacts DEF Owns
    <3>2. /\ r \in JobRow /\ r.pc = job[g].pc /\ r.begun = job[g].begun /\ (r.alone <=> a)
          /\ r.drawn = job[g].drawn /\ r.answer = job[g].answer
      BY Zenon, <3>1 DEF JobRow
    <3>3. r.alone => job[g].alone /\ job[g].pc = "idle"
      BY Zenon, <3>2
    <3> HIDE DEF a, r
    <3> QED  BY Zenon, <1>1, <3>1, <3>2, <3>3, VerdictStays DEF JobSound
  <2> QED  BY Zenon, <2>1, <2>2
<1>3. InsightsTypeOK'
  <2>1. job' \in [Summarizers -> JobRow]
    BY Zenon, <1>2 DEF Owns
  <2> QED  BY Zenon, <1>1, <2>1 DEF VerdictsInv, InsightsTypeOK
<1> QED  BY Zenon, <1>1, <1>2, <1>3, VerdictStays DEF VerdictsInv

(* The verdict is saved, whole.                                            *)
LEMMA SaveStep ==
    ASSUME VerdictsInv, NEW h \in Summarizers, Save(h)
    PROVE  VerdictsInv'
<1> DEFINE r == [job[h] EXCEPT !.pc = "reread"]
<1>1. /\ r \in JobRow /\ r.pc = "reread" /\ r.begun = job[h].begun /\ r.alone = job[h].alone
      /\ r.drawn = job[h].drawn /\ r.answer = job[h].answer
  BY Zenon, JobFacts DEF JobRow
<1>2. /\ job' = [job EXCEPT ![h] = r] /\ UNCHANGED <<transcript, runs>>
      /\ job[h].pc = "save" /\ insight' = job[h].drawn
  BY Zenon, JobFacts DEF Save, UpsertInsight
<1> HIDE DEF r
<1>3. job' \in [Summarizers -> JobRow] /\ job'[h] = r
  BY Zenon, <1>1, <1>2, JobFacts
<1>4. VerdictSince(insight, job[h].begun)'
  <2>1. VerdictSince(job[h].drawn, job[h].begun)
    BY Zenon, <1>2, JobFacts DEF JobSound
  <2> QED  BY Zenon, <1>2, <1>3, <1>1, <2>1 DEF VerdictSince
<1>5. VerdictSince(insight, 0)'
  <2>1. \A m \in job[h].begun..Len(transcript) : m \in 0..Len(transcript)
    BY JobFacts DEF JobRow
  <2>2. VerdictSince(job[h].drawn, job[h].begun)
    BY Zenon, <1>2, JobFacts DEF JobSound
  <2> QED  BY Zenon, <1>2, <2>1, <2>2 DEF VerdictSince
<1>6. ASSUME NEW g \in Summarizers  PROVE JobSound(g)'
  <2>1. CASE g = h
    <3>1. \A k \in Summarizers : k # h => job'[k] = job[k]
      BY Zenon, <1>2, JobFacts
    <3> QED  BY ZenonT(60), <1>1, <1>2, <1>3, <1>4, <2>1, <3>1, VerdictStays, JobFacts DEF JobSound
  <2>2. CASE g # h
    <3>1. job'[g] = job[g] /\ JobSound(g)
      BY Zenon, <1>2, <2>2, JobFacts
    <3>2. job[g].alone => job[g].pc = "idle"
      BY Zenon, <1>2, <2>2, <3>1 DEF JobSound
    <3> QED  BY Zenon, <1>2, <3>1, <3>2, VerdictStays DEF JobSound
  <2> QED  BY Zenon, <2>1, <2>2
<1>7. InsightsTypeOK'
  <2>1. insight' \in Insight \cup {NoInsight}
    BY Zenon, <1>2, JobFacts DEF JobRow
  <2> QED  BY Zenon, <1>2, <1>3, <2>1 DEF VerdictsInv, InsightsTypeOK
<1> QED  BY Zenon, <1>5, <1>6, <1>7 DEF VerdictsInv

(* There is no insight at the start.                                       *)
LEMMA VerdictsStart == InsightsInit => VerdictsInv
<1> SUFFICES ASSUME InsightsInit  PROVE VerdictsInv
  BY Zenon
<1>1. transcript = <<>> /\ Len(transcript) = 0 /\ transcript \in Seq(Turn)
  BY DEF InsightsInit
<1>2. InsightsTypeOK
  BY <1>1, NoJobFacts, InsightsAssumption DEF InsightsInit, InsightsTypeOK
<1>3. 0 <= Len(transcript)
  BY <1>1
<1> QED  BY Zenon, <1>2, <1>3, NoJobFacts DEF InsightsInit, VerdictsInv, JobSound

(* Every step keeps the invariant.                                         *)
LEMMA VerdictsStep == VerdictsInv /\ [InsightsNext]_insightVars => VerdictsInv'
<1>1. ASSUME VerdictsInv, UNCHANGED insightVars  PROVE VerdictsInv'
  BY Zenon, <1>1 DEF insightVars, VerdictsInv, InsightsTypeOK, JobSound, VerdictSince
<1> QED  BY Zenon, <1>1, AddTurnStep, OwnsStep, SummarizeStep, SaveStep DEF InsightsNext

(* The invariant says what an insight promises.                            *)
LEMMA VerdictsSay == VerdictsInv => InsightsInv
<1> SUFFICES ASSUME VerdictsInv  PROVE InsightsInv
  BY Zenon
<1>1. AnswerIsFresh
  BY Zenon DEF VerdictsInv, JobSound, VerdictSince, AnswerIsFresh
<1>2. AskedForPerson
  <2> SUFFICES ASSUME NEW h \in Summarizers, job[h].answer # NoInsight, job[h].alone,
                      "human" \in Said(SubSeq(transcript, 1, job[h].begun))
               PROVE  job[h].answer.action = "assign"
    BY Zenon DEF AskedForPerson
  <2>1. PICK m \in job[h].begun..Len(transcript) : job[h].answer = Summary(SubSeq(transcript, 1, m))
    BY Zenon, <1>1 DEF AnswerIsFresh
  <2>2. job[h].begun \in 0..Len(transcript)
    BY JobFacts DEF JobRow, JobSound
  <2>3. "human" \in Said(SubSeq(transcript, 1, m))
    BY Zenon, <2>1, <2>2, JobFacts, SaidStays
  <2> QED  BY Zenon, <2>1, <2>3, PersonFirst
<1>3. InsightIsOfOneMoment
  BY Zenon DEF VerdictsInv, VerdictSince, InsightIsOfOneMoment
<1> QED  BY Zenon, <1>1, <1>2, <1>3 DEF VerdictsInv, InsightsInv

(* Summaries keep InsightsInv in every run: the cached insight is the      *)
(* verdict on one moment, and the answer to a request that was alone is    *)
(* one since it began, with a person asked for first of all.               *)
THEOREM VerdictsAreWhole == InsightsSpec => []InsightsInv
<1>1. VerdictsInv => InsightsInv
  BY Zenon, VerdictsSay
<1> QED  BY <1>1, VerdictsStart, VerdictsStep, PTL DEF InsightsSpec

-------------------------------------------------------------------------------
(* API keys.                                                               *)

(* The key a row was made for.                                             *)
KeyOf(p, row) == [scheme |-> p.scheme, head |-> p.head, tail |-> row.tail]

(* A stored row is that of a key that was issued, to the org and of the    *)
(* kind it says.                                                           *)
RowSound(p) ==
    keyRow[p] # NoKeyRow =>
        /\ keyRow[p].kind = KindOf(p.scheme)
        /\ [key |-> KeyOf(p, keyRow[p]), org |-> keyRow[p].org, kind |-> keyRow[p].kind] \in issued

(* The row of a key.                                                       *)
Stored(k) == keyRow[Prefix(k)] # NoKeyRow /\ keyRow[Prefix(k)].tail = k.tail

(* Of each request: past the lookup it has found the row of its own key,   *)
(* which is marked used before the door unless that failed; and what its   *)
(* answer promises.                                                        *)
ClientSound(c) ==
    /\ client[c].pc # "idle" =>
           /\ client[c].key \in Keys /\ client[c].door \in Doors
           /\ client[c].answer = Nothing /\ client[c].view = Nothing
    /\ client[c].known => client[c].key \in shown
    /\ client[c].pc \in {"touch", "door", "settings"} =>
           /\ Stored(client[c].key)
           /\ keyRow[Prefix(client[c].key)].org = client[c].org
           /\ keyRow[Prefix(client[c].key)].kind = client[c].kind
    /\ client[c].pc \in {"door", "settings"} =>
           keyFaults > 0 \/ keyRow[Prefix(client[c].key)].used
    /\ client[c].pc = "settings" => client[c].kind = DoorKind(client[c].door)
    /\ client[c].answer = "ok" =>
           /\ [key |-> client[c].key, org |-> client[c].org, kind |-> DoorKind(client[c].door)]
                  \in issued
           /\ Stored(client[c].key)
           /\ keyFaults > 0 \/ keyRow[Prefix(client[c].key)].used
    /\ client[c].known /\ client[c].answer = "refused" =>
           KindOf(client[c].key.scheme) # DoorKind(client[c].door)
    /\ client[c].view # Nothing => client[c].org \in Merchants /\ client[c].view \in looks[client[c].org]

LooksSound ==
    \A o \in Merchants : DefaultLook \in looks[o] /\ (look[o] # Nothing => look[o] \in looks[o])

(* What every step of the keys keeps.                                      *)
DoorsInv ==
    /\ KeysTypeOK
    /\ \A p \in LookupPrefixes : RowSound(p)
    /\ \A k \in shown : Stored(k)
    /\ \A c \in Clients : ClientSound(c)
    /\ LooksSound

(* Keys, their prefixes and rows.                                          *)
LEMMA KeyFacts ==
    /\ \A k \in Keys : /\ Prefix(k) \in LookupPrefixes /\ Prefix(k).scheme = k.scheme
                       /\ \A row : row.tail = k.tail => KeyOf(Prefix(k), row) = k
    /\ \A row \in KeyRow : row # NoKeyRow => /\ row.org \in Merchants /\ row.kind \in Kinds
                                             /\ row.tail \in Tails /\ row.used \in BOOLEAN
    /\ \A row : row.org \in Merchants => row # NoKeyRow
    /\ NoKeyRow \in KeyRow
    /\ \A s \in Schemes : KindOf(s) \in Kinds
    /\ \A d \in Doors : DoorKind(d) \in Kinds
<1>1. ASSUME NEW k \in Keys
      PROVE  /\ Prefix(k) \in LookupPrefixes /\ Prefix(k).scheme = k.scheme
             /\ \A row : row.tail = k.tail => KeyOf(Prefix(k), row) = k
  BY Zenon DEF Keys, Prefix, LookupPrefixes, KeyOf
<1>2. \A row : row.org \in Merchants => row # NoKeyRow
  BY ApiKeysAssumption DEF NoKeyRow
<1>3. \A row \in KeyRow : row # NoKeyRow => /\ row.org \in Merchants /\ row.kind \in Kinds
                                            /\ row.tail \in Tails /\ row.used \in BOOLEAN
  BY Zenon DEF KeyRow
<1>4. \A s \in Schemes : KindOf(s) \in Kinds
  BY Zenon DEF Schemes, KindOf, Kinds
<1>5. \A d \in Doors : DoorKind(d) \in Kinds
  BY Zenon DEF Doors, DoorKind, Kinds
<1>6. NoKeyRow \in KeyRow
  BY Zenon DEF KeyRow
<1> QED  BY Zenon, <1>1, <1>2, <1>3, <1>4, <1>5, <1>6

(* What the invariant says of one request.                                 *)
LEMMA ClientFacts ==
    ASSUME DoorsInv, NEW c \in Clients
    PROVE  /\ client \in [Clients -> Client] /\ client[c] \in Client /\ ClientSound(c)
           /\ keyRow \in [LookupPrefixes -> KeyRow] /\ shown \in SUBSET Keys
BY Zenon DEF DoorsInv, KeysTypeOK

(* Rows are never dropped or given to another key, and the rest only       *)
(* grows: then a request that waits is as well off as before.              *)
OnlyGrows ==
    /\ \A p \in LookupPrefixes : keyRow[p] # NoKeyRow =>
           /\ keyRow'[p] # NoKeyRow /\ keyRow'[p].org = keyRow[p].org
           /\ keyRow'[p].kind = keyRow[p].kind /\ keyRow'[p].tail = keyRow[p].tail
           /\ keyRow[p].used => keyRow'[p].used
    /\ issued \subseteq issued' /\ shown \subseteq shown'
    /\ keyFaults > 0 => keyFaults' > 0
    /\ \A o \in Merchants : looks[o] \subseteq looks'[o]

LEMMA WaitingStays ==
    ASSUME DoorsInv, OnlyGrows, NEW c \in Clients, client'[c] = client[c]
    PROVE  ClientSound(c)'
<1> DEFINE k == client[c].key
           p == Prefix(client[c].key)
<1>1. ClientSound(c) /\ client[c] \in Client /\ shown \in SUBSET Keys
  BY Zenon, ClientFacts
<1>2. ASSUME k \in Keys, Stored(k)
      PROVE  /\ keyRow'[p] # NoKeyRow /\ keyRow'[p].tail = k.tail
             /\ keyRow'[p].org = keyRow[p].org /\ keyRow'[p].kind = keyRow[p].kind
             /\ keyRow[p].used => keyRow'[p].used
  BY Zenon, <1>2, KeyFacts DEF OnlyGrows, Stored
<1>3. client[c].answer = "ok" => k \in Keys
  <2>1. issued \subseteq [key : Keys, org : Merchants, kind : Kinds]
    BY Zenon DEF DoorsInv, KeysTypeOK
  <2> QED  BY Zenon, <1>1, <2>1 DEF ClientSound
<1>4. client[c].pc \in {"touch", "door", "settings"} =>
          /\ Stored(k)' /\ keyRow'[p].org = client[c].org /\ keyRow'[p].kind = client[c].kind
  BY Zenon, <1>1, <1>2 DEF ClientSound, Stored
<1>5. client[c].pc \in {"door", "settings"} => keyFaults' > 0 \/ keyRow'[p].used
  BY Zenon, <1>1, <1>2 DEF ClientSound, OnlyGrows
<1>6. client[c].answer = "ok" =>
          /\ [key |-> k, org |-> client[c].org, kind |-> DoorKind(client[c].door)] \in issued'
          /\ Stored(k)' /\ (keyFaults' > 0 \/ keyRow'[p].used)
  BY Zenon, <1>1, <1>2, <1>3 DEF ClientSound, OnlyGrows, Stored
<1>7. client[c].known => k \in shown'
  BY Zenon, <1>1 DEF ClientSound, OnlyGrows
<1>8. client[c].view # Nothing => client[c].org \in Merchants /\ client[c].view \in looks'[client[c].org]
  BY Zenon, <1>1 DEF ClientSound, OnlyGrows
<1> QED  BY <1>1, <1>4, <1>5, <1>6, <1>7, <1>8 DEF ClientSound

(* One request goes on, and nothing is stored.                             *)
LEMMA ClientStep ==
    ASSUME DoorsInv, NEW c \in Clients, NEW r \in Client, client' = [client EXCEPT ![c] = r],
           UNCHANGED <<keyRow, look, mints, saves, keyHistory>>,
           visits' \in 0..MaxVisits, keyFaults' \in 0..MaxKeyFaults,
           keyFaults > 0 => keyFaults' > 0,
           ClientSound(c)'
    PROVE  DoorsInv'
<1>1. UNCHANGED <<keyRow, look, mints, saves, issued, shown, looks>>
  BY Zenon DEF keyHistory
<1>2. client' \in [Clients -> Client] /\ \A d \in Clients : d # c => client'[d] = client[d]
  BY Zenon, ClientFacts
<1>3. OnlyGrows
  BY Zenon, <1>1 DEF OnlyGrows
<1>4. \A d \in Clients : ClientSound(d)'
  BY Zenon, <1>2, <1>3, WaitingStays
<1>5. KeysTypeOK'
  BY Zenon, <1>1, <1>2 DEF DoorsInv, KeysTypeOK
<1> QED  BY Zenon, <1>1, <1>4, <1>5 DEF DoorsInv, RowSound, Stored, LooksSound

(* The faults of a step, and the counters it leaves alone.                 *)
LEMMA KeyFaultKept ==
    ASSUME DoorsInv
    PROVE  /\ visits \in 0..MaxVisits /\ keyFaults \in 0..MaxKeyFaults
           /\ KeyFault => keyFaults' \in 0..MaxKeyFaults /\ keyFaults' > 0
<1>1. visits \in 0..MaxVisits /\ keyFaults \in 0..MaxKeyFaults
  BY Zenon DEF DoorsInv, KeysTypeOK
<1>2. KeyFault => keyFaults' \in 0..MaxKeyFaults /\ keyFaults' > 0
  BY <1>1, ApiKeysAssumption DEF KeyFault
<1> QED  BY Zenon, <1>1, <1>2

(* A request that has not begun.                                           *)
LEMMA IdleClientFacts ==
    /\ IdleClient \in Client
    /\ IdleClient.org = Nothing /\ IdleClient.kind = Nothing /\ IdleClient.view = Nothing
    /\ Nothing \notin Keys /\ Nothing # "ok" /\ Nothing # "refused"
BY Zenon, ApiKeysAssumption DEF IdleClient, Client

(* A key is presented at a door.                                           *)
LEMMA PresentStep ==
    ASSUME DoorsInv, NEW c \in Clients, NEW d \in Doors, NEW k \in Keys \cup {Nothing},
           Present(c, d, k)
    PROVE  DoorsInv'
<1>1. /\ UNCHANGED <<keyRow, look, mints, saves, keyHistory>> /\ keyFaults' = keyFaults
      /\ visits' \in 0..MaxVisits
  <2>1. visits < MaxVisits /\ visits' = visits + 1
    BY Zenon DEF Present
  <2>2. visits' \in 0..MaxVisits
    BY <2>1, KeyFaultKept, ApiKeysAssumption
  <2> QED  BY Zenon, <2>2 DEF Present
<1> DEFINE l == IF k = Nothing THEN "idle" ELSE "lookup"
           a == IF k = Nothing THEN "refused" ELSE Nothing
           b == k \in shown
           r == [IdleClient EXCEPT !.pc = l, !.answer = a, !.door = d, !.key = k, !.known = b]
<1>2. /\ r \in Client /\ r.pc = l /\ r.answer = a /\ r.door = d /\ r.key = k
      /\ r.known = b /\ r.view = Nothing
  <2>1. l \in {"idle", "lookup"} /\ a \in {"refused", Nothing} /\ b \in BOOLEAN
    OBVIOUS
  <2> HIDE DEF l, a, b
  <2> QED  BY Zenon, <2>1 DEF IdleClient, Client
<1>3. client' = [client EXCEPT ![c] = r]
  BY Zenon DEF Present
<1> HIDE DEF r
<1>4. client'[c] = r /\ shown' = shown /\ shown \in SUBSET Keys
  BY Zenon, <1>1, <1>3, ClientFacts DEF keyHistory
<1>5. /\ r.pc \in {"idle", "lookup"} /\ (r.pc # "idle" => k \in Keys /\ r.answer = Nothing)
      /\ r.answer # "ok" /\ (r.known => k \in shown) /\ ~(r.known /\ r.answer = "refused")
  BY Zenon, <1>2, <1>4, IdleClientFacts
<1>6. ClientSound(c)'
  BY Zenon, <1>2, <1>4, <1>5 DEF ClientSound
<1> QED  BY Zenon, <1>1, <1>2, <1>3, <1>6, KeyFaultKept, ClientStep

(* The key is looked up, and what the row says is taken along.             *)
LEMMA LookupStep ==
    ASSUME DoorsInv, NEW c \in Clients, Lookup(c)
    PROVE  DoorsInv'
<1>1. /\ UNCHANGED <<keyRow, look, mints, saves, keyHistory, visits, keyFaults>>
      /\ client[c].pc = "lookup"
  BY Zenon DEF Lookup, ClientAt, keyBounds
<1> DEFINE k == client[c].key
           row == keyRow[Prefix(client[c].key)]
<1>2. /\ k \in Keys /\ client[c].door \in Doors /\ client[c].answer = Nothing
      /\ client[c].view = Nothing /\ (client[c].known => k \in shown)
  BY Zenon, <1>1, ClientFacts DEF ClientSound
<1>3. CASE row # NoKeyRow /\ row.tail = k.tail
  <2> DEFINE r == [client[c] EXCEPT !.pc = "touch", !.org = row.org, !.kind = row.kind]
  <2>1. row.org \in Merchants /\ row.kind \in Kinds
    BY Zenon, <1>2, <1>3, ClientFacts, KeyFacts
  <2>2. /\ r \in Client /\ r.pc = "touch" /\ r.org = row.org /\ r.kind = row.kind /\ r.key = k
        /\ r.door = client[c].door /\ r.known = client[c].known /\ r.answer = client[c].answer
        /\ r.view = client[c].view
    BY <2>1, ClientFacts DEF Client
  <2>3. client' = [client EXCEPT ![c] = r]
    BY Zenon, <1>3 DEF Lookup, ByPrefix, Verify
  <2> HIDE DEF r
  <2>4. client'[c] = r
    BY Zenon, <2>3, ClientFacts
  <2>5. ClientSound(c)'
    BY ZenonT(60), <1>1, <1>2, <1>3, <2>2, <2>4, IdleClientFacts DEF ClientSound, Stored, keyHistory
  <2> QED  BY Zenon, <1>1, <2>2, <2>3, <2>5, KeyFaultKept, ClientStep
<1>4. CASE row = NoKeyRow \/ row.tail # k.tail
  <2> DEFINE r == [client[c] EXCEPT !.pc = "idle", !.answer = "refused"]
  <2>1. /\ r \in Client /\ r.pc = "idle" /\ r.key = k /\ r.known = client[c].known /\ r.answer = "refused"
        /\ r.view = client[c].view
    BY ClientFacts DEF Client
  <2>2. client' = [client EXCEPT ![c] = r]
    BY Zenon, <1>4 DEF Lookup, ByPrefix, Verify, Answer
  <2> HIDE DEF r
  <2>3. client'[c] = r
    BY Zenon, <2>2, ClientFacts
  <2>4. ~client[c].known
    BY Zenon, <1>2, <1>4 DEF DoorsInv, Stored
  <2>5. r.answer # "ok" /\ r.view = Nothing /\ ~r.known
    BY Zenon, <1>2, <2>1, <2>4
  <2>6. ClientSound(c)'
    BY Zenon, <2>1, <2>3, <2>5 DEF ClientSound
  <2> QED  BY Zenon, <1>1, <2>1, <2>2, <2>6, KeyFaultKept, ClientStep
<1> QED  BY Zenon, <1>3, <1>4

(* Marking the key used fails, which is not noticed.                       *)
LEMMA TouchFailsStep ==
    ASSUME DoorsInv, NEW c \in Clients, TouchFails(c)
    PROVE  DoorsInv'
<1>1. /\ UNCHANGED <<keyRow, look, mints, saves, keyHistory, visits>>
      /\ client[c].pc = "touch" /\ KeyFault
  BY Zenon DEF TouchFails, ClientAt
<1> DEFINE r == [client[c] EXCEPT !.pc = "door"]
<1>2. /\ r \in Client /\ r.pc = "door" /\ r.key = client[c].key /\ r.known = client[c].known
      /\ r.answer = client[c].answer /\ r.view = client[c].view /\ r.org = client[c].org
      /\ r.kind = client[c].kind /\ r.door = client[c].door
  BY Zenon, ClientFacts DEF Client
<1>3. client' = [client EXCEPT ![c] = r]
  BY Zenon DEF TouchFails, ClientGoto
<1> HIDE DEF r
<1>4. client'[c] = r /\ keyFaults' > 0 /\ shown' = shown
  BY Zenon, <1>1, <1>3, ClientFacts, KeyFaultKept DEF keyHistory
<1>5. ClientSound(c)'
  <2>1. /\ client[c].key \in Keys /\ client[c].door \in Doors
        /\ client[c].answer = Nothing /\ client[c].view = Nothing
        /\ client[c].known => client[c].key \in shown
        /\ Stored(client[c].key)
        /\ keyRow[Prefix(client[c].key)].org = client[c].org
        /\ keyRow[Prefix(client[c].key)].kind = client[c].kind
    BY Zenon, <1>1, ClientFacts DEF ClientSound
  <2>2. Stored(client[c].key)'
    BY Zenon, <1>1, <1>2, <1>4, <2>1 DEF Stored
  <2> QED  BY ZenonT(60), <1>1, <1>2, <1>4, <2>1, <2>2, IdleClientFacts DEF ClientSound, Stored
<1> QED  BY Zenon, <1>1, <1>2, <1>3, <1>5, KeyFaultKept, ClientStep

(* The row of a key says whose the key is and of what kind.                *)
LEMMA OwnRow ==
    ASSUME DoorsInv, NEW k \in Keys, Stored(k)
    PROVE  LET row == keyRow[Prefix(k)]
           IN  /\ row.kind = KindOf(k.scheme) /\ row.org \in Merchants
               /\ [key |-> k, org |-> row.org, kind |-> row.kind] \in issued
<1>1. Prefix(k) \in LookupPrefixes /\ Prefix(k).scheme = k.scheme
  BY Zenon, KeyFacts
<1>2. keyRow[Prefix(k)] \in KeyRow /\ keyRow[Prefix(k)] # NoKeyRow /\ RowSound(Prefix(k))
  BY Zenon, <1>1 DEF DoorsInv, KeysTypeOK, Stored
<1>3. KeyOf(Prefix(k), keyRow[Prefix(k)]) = k
  BY Zenon, KeyFacts DEF Stored
<1> QED  BY Zenon, <1>1, <1>2, <1>3, KeyFacts DEF RowSound

(* At the door a key of the other kind is refused.                         *)
LEMMA DoorStep ==
    ASSUME DoorsInv, NEW c \in Clients, Door(c)
    PROVE  DoorsInv'
<1>1. /\ UNCHANGED <<keyRow, look, mints, saves, keyHistory, visits, keyFaults>>
      /\ UNCHANGED <<issued, shown>> /\ client[c].pc = "door"
  BY Zenon DEF Door, ClientAt, keyBounds, keyHistory
<1> DEFINE k == client[c].key
           row == keyRow[Prefix(client[c].key)]
<1>2. /\ k \in Keys /\ client[c].door \in Doors /\ client[c].answer = Nothing
      /\ client[c].view = Nothing /\ (client[c].known => k \in shown)
      /\ Stored(k) /\ row.org = client[c].org /\ row.kind = client[c].kind
      /\ keyFaults > 0 \/ row.used
  BY Zenon, <1>1, ClientFacts DEF ClientSound
<1>3. /\ client[c].kind = KindOf(k.scheme)
      /\ [key |-> k, org |-> client[c].org, kind |-> client[c].kind] \in issued
  BY Zenon, <1>2, OwnRow
<1>4. ASSUME NEW s \in {"ok", "refused"}, Answer(c, s),
             s = "ok" <=> client[c].kind = DoorKind(client[c].door)
      PROVE  DoorsInv'
  <2> DEFINE r == [client[c] EXCEPT !.pc = "idle", !.answer = s]
  <2>1. /\ r \in Client /\ r.pc = "idle" /\ r.key = k /\ r.known = client[c].known /\ r.answer = s
        /\ r.view = client[c].view /\ r.org = client[c].org /\ r.door = client[c].door
    BY ZenonT(60), ClientFacts DEF Client
  <2>2. client' = [client EXCEPT ![c] = r]
    BY Zenon, <1>4 DEF Answer
  <2> HIDE DEF r
  <2>3. client'[c] = r
    BY Zenon, <2>2, ClientFacts
  <2>4. ClientSound(c)'
    BY <1>1, <1>2, <1>3, <1>4, <2>1, <2>3 DEF ClientSound, Stored
  <2> QED  BY Zenon, <1>1, <2>1, <2>2, <2>4, KeyFaultKept, ClientStep
<1>5. ASSUME ClientGoto(c, "settings"), client[c].kind = DoorKind(client[c].door)
      PROVE  DoorsInv'
  <2> DEFINE r == [client[c] EXCEPT !.pc = "settings"]
  <2>1. /\ r \in Client /\ r.pc = "settings" /\ r.key = k /\ r.known = client[c].known
        /\ r.answer = client[c].answer /\ r.view = client[c].view /\ r.org = client[c].org
        /\ r.kind = client[c].kind /\ r.door = client[c].door
    BY Zenon, ClientFacts DEF Client
  <2>2. client' = [client EXCEPT ![c] = r]
    BY Zenon, <1>5 DEF ClientGoto
  <2> HIDE DEF r
  <2>3. client'[c] = r
    BY Zenon, <2>2, ClientFacts
  <2>4. ClientSound(c)'
    BY ZenonT(60), <1>1, <1>2, <1>5, <2>1, <2>3, IdleClientFacts DEF ClientSound, Stored
  <2> QED  BY Zenon, <1>1, <2>1, <2>2, <2>4, KeyFaultKept, ClientStep
<1> QED  BY Zenon, <1>4, <1>5 DEF Door

(* The widget is told what it looks like.                                  *)
LEMMA SettingsStep ==
    ASSUME DoorsInv, NEW c \in Clients, GetChatSettings(c)
    PROVE  DoorsInv'
<1>1. /\ UNCHANGED <<keyRow, look, mints, saves, keyHistory, visits, keyFaults>>
      /\ UNCHANGED <<issued, shown, looks>> /\ client[c].pc = "settings"
  BY Zenon DEF GetChatSettings, ClientAt, keyBounds, keyHistory
<1> DEFINE k == client[c].key
           row == keyRow[Prefix(client[c].key)]
           o == client[c].org
           l == IF look[o] = Nothing THEN DefaultLook ELSE look[o]
           r == [client[c] EXCEPT !.pc = "idle", !.answer = "ok", !.view = l]
<1>2. /\ k \in Keys /\ (client[c].known => k \in shown)
      /\ Stored(k) /\ row.org = o /\ row.kind = client[c].kind
      /\ keyFaults > 0 \/ row.used
      /\ client[c].kind = DoorKind(client[c].door)
  BY Zenon, <1>1, ClientFacts DEF ClientSound
<1>3. /\ o \in Merchants
      /\ [key |-> k, org |-> o, kind |-> client[c].kind] \in issued
  BY Zenon, <1>2, OwnRow
<1>4. l \in looks[o] /\ l \in Looks
  BY Zenon, <1>3 DEF DoorsInv, LooksSound, KeysTypeOK
<1>5. /\ r \in Client /\ r.pc = "idle" /\ r.key = k /\ r.known = client[c].known
      /\ r.answer = "ok" /\ r.view = l /\ r.org = o /\ r.door = client[c].door
  <2> HIDE DEF l
  <2> QED  BY <1>4, ClientFacts DEF Client
<1>6. client' = [client EXCEPT ![c] = r]
  BY Zenon DEF GetChatSettings
<1> HIDE DEF r, l
<1>7. client'[c] = r
  BY Zenon, <1>6, ClientFacts
<1>8. ClientSound(c)'
  BY Zenon, <1>1, <1>2, <1>3, <1>4, <1>5, <1>7 DEF ClientSound, Stored
<1> QED  BY Zenon, <1>1, <1>5, <1>6, <1>8, KeyFaultKept, ClientStep

(* A read fails.                                                           *)
LEMMA ReadFailsStep ==
    ASSUME DoorsInv, NEW c \in Clients, ReadFails(c)
    PROVE  DoorsInv'
<1>1. /\ UNCHANGED <<keyRow, look, mints, saves, keyHistory, visits>> /\ shown' = shown
      /\ KeyFault /\ client[c].pc \in {"lookup", "settings"}
  BY Zenon DEF ReadFails, keyHistory
<1> DEFINE r == [client[c] EXCEPT !.pc = "idle", !.answer = "failed"]
<1>2. /\ r \in Client /\ r.pc = "idle" /\ r.key = client[c].key /\ r.known = client[c].known
      /\ r.answer = "failed" /\ r.view = client[c].view
  BY ClientFacts DEF Client
<1>3. client' = [client EXCEPT ![c] = r]
  BY Zenon DEF ReadFails, Answer
<1> HIDE DEF r
<1>4. client'[c] = r /\ client[c].view = Nothing /\ (client[c].known => client[c].key \in shown)
  BY Zenon, <1>1, <1>3, ClientFacts DEF ClientSound
<1>5. ClientSound(c)'
  BY Zenon, <1>1, <1>2, <1>4 DEF ClientSound
<1> QED  BY Zenon, <1>1, <1>2, <1>3, <1>5, KeyFaultKept, ClientStep

(* The key is marked used.                                                 *)
LEMMA TouchStep ==
    ASSUME DoorsInv, NEW c \in Clients, Touch(c)
    PROVE  DoorsInv'
<1>1. /\ UNCHANGED <<look, mints, saves, visits, keyFaults, issued, shown, looks>>
      /\ client[c].pc = "touch"
  BY Zenon DEF Touch, ClientAt, keyBounds, keyHistory
<1> DEFINE k == client[c].key
           p == Prefix(client[c].key)
           row == [keyRow[p] EXCEPT !.used = TRUE]
           r == [client[c] EXCEPT !.pc = "door"]
<1>2. /\ k \in Keys /\ p \in LookupPrefixes /\ Stored(k) /\ ClientSound(c)
      /\ keyRow \in [LookupPrefixes -> KeyRow] /\ keyRow[p] \in KeyRow
      /\ keyRow[p].org = client[c].org /\ keyRow[p].kind = client[c].kind
  BY Zenon, <1>1, ClientFacts, KeyFacts DEF ClientSound
<1>3. /\ row \in KeyRow /\ row # NoKeyRow /\ row.org = keyRow[p].org /\ row.kind = keyRow[p].kind
      /\ row.tail = keyRow[p].tail /\ row.used
  <2>1. keyRow[p] \in [org : Merchants, kind : Kinds, tail : Tails, used : BOOLEAN]
    BY Zenon, <1>2 DEF Stored, KeyRow
  <2>2. /\ row \in [org : Merchants, kind : Kinds, tail : Tails, used : BOOLEAN]
        /\ row.org = keyRow[p].org /\ row.kind = keyRow[p].kind
        /\ row.tail = keyRow[p].tail /\ row.used
    BY Zenon, <2>1
  <2> HIDE DEF row
  <2> QED  BY Zenon, <2>1, <2>2, KeyFacts DEF KeyRow
<1>4. /\ r \in Client /\ r.pc = "door" /\ r.key = k /\ r.known = client[c].known
      /\ r.answer = client[c].answer /\ r.view = client[c].view /\ r.org = client[c].org
      /\ r.kind = client[c].kind /\ r.door = client[c].door
  BY Zenon, ClientFacts DEF Client
<1>5. keyRow' = [keyRow EXCEPT ![p] = row] /\ client' = [client EXCEPT ![c] = r]
  BY Zenon DEF Touch, ClientGoto
<1> HIDE DEF row, r
<1>6. /\ keyRow' \in [LookupPrefixes -> KeyRow] /\ keyRow'[p] = row
      /\ \A q \in LookupPrefixes : q # p => keyRow'[q] = keyRow[q]
  BY Zenon, <1>2, <1>3, <1>5
<1>7. /\ client' \in [Clients -> Client] /\ client'[c] = r
      /\ \A d \in Clients : d # c => client'[d] = client[d]
  BY Zenon, <1>4, <1>5, ClientFacts
<1>8. OnlyGrows
  BY Zenon, <1>1, <1>3, <1>6 DEF OnlyGrows
<1>9. ClientSound(c)'
  <2>1. /\ client[c].door \in Doors /\ client[c].answer = Nothing /\ client[c].view = Nothing
        /\ client[c].known => k \in shown
    BY Zenon, <1>1, <1>2 DEF ClientSound
  <2>2. /\ keyRow'[p] # NoKeyRow /\ keyRow'[p].tail = k.tail
        /\ keyRow'[p].org = r.org /\ keyRow'[p].kind = r.kind /\ keyRow'[p].used
    BY Zenon, <1>2, <1>3, <1>4, <1>6 DEF Stored
  <2>3. /\ client'[c].key = k /\ Prefix(client'[c].key) = p
        /\ client'[c].pc = "door" /\ client'[c].door \in Doors /\ client'[c].answer = Nothing
        /\ client'[c].view = Nothing /\ (client'[c].known => k \in shown')
        /\ keyRow'[p].org = client'[c].org /\ keyRow'[p].kind = client'[c].kind
    BY Zenon, <1>1, <1>4, <1>7, <2>1, <2>2
  <2> HIDE DEF k, p
  <2> QED  BY <1>2, <2>2, <2>3, IdleClientFacts DEF ClientSound, Stored
<1>10. \A d \in Clients : ClientSound(d)'
  BY Zenon, <1>7, <1>8, <1>9, WaitingStays
<1>11. KeysTypeOK'
  BY Zenon, <1>1, <1>6, <1>7 DEF DoorsInv, KeysTypeOK
<1>12. ASSUME NEW q \in LookupPrefixes  PROVE RowSound(q)'
  <2>1. RowSound(q)
    BY Zenon DEF DoorsInv
  <2>2. /\ keyRow'[q] # NoKeyRow => keyRow[q] # NoKeyRow
        /\ keyRow'[q].org = keyRow[q].org /\ keyRow'[q].kind = keyRow[q].kind
        /\ keyRow'[q].tail = keyRow[q].tail
    BY Zenon, <1>2, <1>3, <1>6 DEF Stored
  <2> QED  BY Zenon, <1>1, <2>1, <2>2 DEF RowSound, KeyOf
<1>13. \A j \in shown' : Stored(j)'
  BY Zenon, <1>1, <1>8, KeyFacts, ClientFacts DEF DoorsInv, Stored, OnlyGrows
<1> QED  BY Zenon, <1>1, <1>10, <1>11, <1>12, <1>13 DEF DoorsInv, LooksSound

(* A key is stored under a prefix nobody has.                              *)
LEMMA MintStep ==
    ASSUME DoorsInv, NEW k \in Keys, NEW o \in Merchants, MintKey(k, o) \/ MintAnswerLost(k, o)
    PROVE  DoorsInv'
<1> DEFINE p == Prefix(k)
           row == [org |-> o, kind |-> KindOf(k.scheme), tail |-> k.tail, used |-> FALSE]
           i == [key |-> k, org |-> o, kind |-> KindOf(k.scheme)]
<1>1. /\ keyRow[p] = NoKeyRow /\ keyRow' = [keyRow EXCEPT ![p] = row] /\ issued' = issued \cup {i}
      /\ UNCHANGED <<look, client, saves, visits, looks>>
      /\ shown' = shown \/ shown' = shown \cup {k}
      /\ keyFaults' = keyFaults \/ KeyFault
      /\ mints < MaxMints /\ mints' = mints + 1
  BY Zenon DEF MintKey, MintAnswerLost, CreateAPIKey
<1>2. mints' \in 0..MaxMints
  <2>1. mints \in 0..MaxMints
    BY Zenon DEF DoorsInv, KeysTypeOK
  <2> QED  BY <1>1, <2>1, ApiKeysAssumption
<1>3. /\ keyRow \in [LookupPrefixes -> KeyRow] /\ issued \subseteq [key : Keys, org : Merchants, kind : Kinds]
      /\ shown \in SUBSET Keys
  BY Zenon DEF DoorsInv, KeysTypeOK
<1>4. k.scheme \in Schemes /\ k.tail \in Tails /\ p \in LookupPrefixes /\ p.scheme = k.scheme
  BY Zenon, KeyFacts DEF Keys
<1>5. row \in KeyRow /\ row # NoKeyRow /\ row.tail = k.tail /\ row.org = o /\ row.kind = KindOf(k.scheme)
  BY Zenon, <1>4, KeyFacts DEF KeyRow
<1>6. i \in [key : Keys, org : Merchants, kind : Kinds]
  BY Zenon, <1>4, KeyFacts
<1>7. KeyOf(p, row) = k
  BY Zenon, <1>5, KeyFacts
<1> HIDE DEF row
<1>8. /\ keyRow' \in [LookupPrefixes -> KeyRow] /\ keyRow'[p] = row
      /\ \A q \in LookupPrefixes : q # p => keyRow'[q] = keyRow[q]
  BY Zenon, <1>1, <1>3, <1>4, <1>5
<1>9. OnlyGrows
  <2>1. keyFaults > 0 => keyFaults' > 0
    BY Zenon, <1>1, KeyFaultKept
  <2>2. \A q \in LookupPrefixes : keyRow[q] # NoKeyRow => keyRow'[q] = keyRow[q]
    BY Zenon, <1>1, <1>8
  <2> QED  BY Zenon, <1>1, <2>1, <2>2 DEF OnlyGrows
<1>10. \A c \in Clients : ClientSound(c)'
  BY Zenon, <1>1, <1>9, WaitingStays
<1>11. KeysTypeOK'
  <2>1. keyFaults' \in 0..MaxKeyFaults
    BY Zenon, <1>1, KeyFaultKept
  <2>2. issued' \subseteq [key : Keys, org : Merchants, kind : Kinds] /\ shown' \subseteq Keys
    BY Zenon, <1>1, <1>3, <1>6
  <2> QED  BY Zenon, <1>1, <1>2, <1>8, <2>1, <2>2 DEF DoorsInv, KeysTypeOK
<1>12. ASSUME NEW q \in LookupPrefixes  PROVE RowSound(q)'
  <2>1. CASE q = p
    BY Zenon, <1>1, <1>4, <1>5, <1>7, <1>8, <2>1 DEF RowSound
  <2>2. CASE q # p
    <3>1. keyRow'[q] = keyRow[q] /\ RowSound(q)
      BY Zenon, <1>8, <2>2 DEF DoorsInv
    <3>2. issued \subseteq issued'
      BY Zenon, <1>1
    <3> QED  BY <3>1, <3>2 DEF RowSound, KeyOf
  <2> QED  BY Zenon, <2>1, <2>2
<1>13. \A j \in shown' : Stored(j)'
  <2>1. Stored(k)'
    BY Zenon, <1>5, <1>8 DEF Stored
  <2>2. \A j \in shown : Stored(j)'
    BY Zenon, <1>3, <1>9, KeyFacts DEF DoorsInv, Stored, OnlyGrows
  <2> QED  BY Zenon, <1>1, <2>1, <2>2
<1> QED  BY Zenon, <1>1, <1>10, <1>11, <1>12, <1>13 DEF DoorsInv, LooksSound

(* A key that is not stored leaves nothing behind.                         *)
LEMMA MintRefusedStep ==
    ASSUME DoorsInv, NEW k \in Keys, MintRefused(k)
    PROVE  DoorsInv'
<1>1. /\ UNCHANGED <<keyRow, look, client, saves, visits, issued, shown, looks>>
      /\ keyFaults' = keyFaults \/ KeyFault
      /\ mints < MaxMints /\ mints' = mints + 1 /\ mints \in 0..MaxMints
  BY Zenon DEF MintRefused, keyHistory, DoorsInv, KeysTypeOK
<1>2. mints' \in 0..MaxMints /\ keyFaults' \in 0..MaxKeyFaults /\ (keyFaults > 0 => keyFaults' > 0)
  <2>1. mints' \in 0..MaxMints
    BY <1>1, ApiKeysAssumption
  <2> QED  BY Zenon, <1>1, <2>1, KeyFaultKept
<1>3. OnlyGrows
  BY Zenon, <1>1, <1>2 DEF OnlyGrows
<1>4. \A c \in Clients : ClientSound(c)'
  BY Zenon, <1>1, <1>3, WaitingStays
<1>5. KeysTypeOK'
  BY Zenon, <1>1, <1>2 DEF DoorsInv, KeysTypeOK
<1> QED  BY Zenon, <1>1, <1>4, <1>5 DEF DoorsInv, RowSound, Stored, LooksSound

(* An org saves how its widget looks, its blanks filled in.                *)
LEMMA SaveSettingsStep ==
    ASSUME DoorsInv, NEW o \in Merchants, NEW body \in [Display -> Texts \cup {Blank}],
           SaveSettings(o, body)
    PROVE  DoorsInv'
<1> DEFINE l == Completed(body)
<1>1. /\ UNCHANGED <<keyRow, client, mints, visits, keyFaults, issued, shown>>
      /\ look' = [look EXCEPT ![o] = l] /\ looks' = [looks EXCEPT ![o] = @ \cup {look'[o]}]
      /\ saves < MaxSaves /\ saves' = saves + 1
  BY Zenon DEF SaveSettings, UpsertChatSettings
<1>2. /\ look \in [Merchants -> Looks \cup {Nothing}] /\ looks \in [Merchants -> SUBSET Looks]
      /\ saves \in 0..MaxSaves
  BY Zenon DEF DoorsInv, KeysTypeOK
<1>3. saves' \in 0..MaxSaves
  BY <1>1, <1>2, ApiKeysAssumption
<1>4. l \in Looks
  BY Zenon DEF Completed, Looks
<1> HIDE DEF l
<1>5. /\ look' \in [Merchants -> Looks \cup {Nothing}] /\ look'[o] = l
      /\ \A q \in Merchants : q # o => look'[q] = look[q]
  BY Zenon, <1>1, <1>2, <1>4
<1>6. looks' = [looks EXCEPT ![o] = looks[o] \cup {l}]
  BY Zenon, <1>1, <1>5
<1>7. /\ looks' \in [Merchants -> SUBSET Looks] /\ looks'[o] = looks[o] \cup {l}
      /\ \A q \in Merchants : q # o => looks'[q] = looks[q]
  BY Zenon, <1>2, <1>4, <1>6
<1>8. OnlyGrows
  BY Zenon, <1>1, <1>7 DEF OnlyGrows
<1>9. \A c \in Clients : ClientSound(c)'
  BY Zenon, <1>1, <1>8, WaitingStays
<1>10. LooksSound'
  BY Zenon, <1>5, <1>7 DEF DoorsInv, LooksSound, DefaultLook
<1>11. KeysTypeOK'
  BY Zenon, <1>1, <1>3, <1>5, <1>7 DEF DoorsInv, KeysTypeOK
<1> QED  BY Zenon, <1>1, <1>9, <1>10, <1>11 DEF DoorsInv, RowSound, Stored

(* No key is stored and nobody has asked.                                  *)
LEMMA DoorsStart ==
    ASSUME KeysInit
    PROVE  DoorsInv
<1>1. IdleClient \in Client /\ NoKeyRow \in KeyRow /\ DefaultLook \in Looks
  BY Zenon DEF IdleClient, Client, KeyRow, DefaultLook, Looks
<1>2. /\ IdleClient.pc = "idle" /\ IdleClient.known = FALSE /\ IdleClient.answer = Nothing
      /\ IdleClient.view = Nothing /\ Nothing # "ok" /\ Nothing # "refused"
  BY Zenon, ApiKeysAssumption DEF IdleClient
<1>3. 0 \in 0..MaxMints /\ 0 \in 0..MaxSaves /\ 0 \in 0..MaxVisits /\ 0 \in 0..MaxKeyFaults
  BY ApiKeysAssumption
<1>4. KeysTypeOK
  BY Zenon, <1>1, <1>3 DEF KeysInit, KeysTypeOK
<1>5. \A p \in LookupPrefixes : RowSound(p)
  BY Zenon DEF KeysInit, RowSound
<1>6. \A k \in shown : Stored(k)
  BY Zenon DEF KeysInit
<1>7. ASSUME NEW c \in Clients  PROVE ClientSound(c)
  <2>1. client[c] = IdleClient
    BY Zenon DEF KeysInit
  <2> QED  BY Zenon, <1>2, <2>1 DEF ClientSound
<1>8. LooksSound
  BY Zenon DEF KeysInit, LooksSound
<1> QED  BY Zenon, <1>4, <1>5, <1>6, <1>7, <1>8 DEF DoorsInv

(* Every step keeps the invariant of the keys.                             *)
LEMMA DoorsStep ==
    ASSUME DoorsInv, [KeysNext]_keyVars
    PROVE  DoorsInv'
<1>1. ASSUME UNCHANGED keyVars  PROVE DoorsInv'
  <2>1. UNCHANGED <<keyRow, look, client, mints, saves, visits, keyFaults, issued, shown, looks>>
    BY Zenon, <1>1 DEF keyVars, keyBounds, keyHistory
  <2>2. OnlyGrows
    BY Zenon, <2>1 DEF OnlyGrows
  <2>3. \A c \in Clients : ClientSound(c)'
    BY Zenon, <2>1, <2>2, WaitingStays
  <2> QED  BY Zenon, <2>1, <2>3 DEF DoorsInv, KeysTypeOK, RowSound, Stored, LooksSound
<1>2. ASSUME NEW k \in Keys, NEW o \in Merchants, MintKey(k, o) \/ MintAnswerLost(k, o)
      PROVE  DoorsInv'
  BY Zenon, <1>2, MintStep
<1>3. ASSUME NEW k \in Keys, MintRefused(k)  PROVE DoorsInv'
  BY Zenon, <1>3, MintRefusedStep
<1>4. ASSUME NEW c \in Clients, NEW d \in Doors, NEW k \in Keys \cup {Nothing}, Present(c, d, k)
      PROVE  DoorsInv'
  BY Zenon, <1>4, PresentStep
<1>5. ASSUME NEW c \in Clients, Lookup(c) \/ Touch(c) \/ TouchFails(c)  PROVE DoorsInv'
  BY Zenon, <1>5, LookupStep, TouchStep, TouchFailsStep
<1>6. ASSUME NEW c \in Clients, Door(c) \/ GetChatSettings(c) \/ ReadFails(c)  PROVE DoorsInv'
  BY Zenon, <1>6, DoorStep, SettingsStep, ReadFailsStep
<1>7. ASSUME NEW o \in Merchants, NEW body \in [Display -> Texts \cup {Blank}], SaveSettings(o, body)
      PROVE  DoorsInv'
  BY Zenon, <1>7, SaveSettingsStep
<1> QED  BY Zenon, <1>1, <1>2, <1>3, <1>4, <1>5, <1>6, <1>7 DEF KeysNext

(* The invariant of the keys says what is promised of them.                *)
LEMMA DoorsSay ==
    ASSUME DoorsInv
    PROVE  KeysInv
<1>1. ServedByOwnKey
  BY Zenon, ClientFacts DEF ServedByOwnKey, ClientSound
<1>2. ShownKeyWorks
  BY Zenon, ClientFacts DEF ShownKeyWorks, ClientSound
<1>3. UseIsRecorded
  BY Zenon, ClientFacts DEF UseIsRecorded, ClientSound
<1>4. ASSUME NEW c \in Clients, client[c].view # Nothing
      PROVE  /\ client[c].view \in looks[client[c].org]
             /\ \A f \in Display : client[c].view[f] # Blank
  <2>1. client[c].org \in Merchants /\ client[c].view \in looks[client[c].org]
    BY Zenon, <1>4, ClientFacts DEF ClientSound
  <2>2. looks[client[c].org] \in SUBSET Looks
    BY Zenon, <2>1 DEF DoorsInv, KeysTypeOK
  <2>3. client[c].view \in [Display -> Texts \cup {Default}]
    BY Zenon, <2>1, <2>2 DEF Looks
  <2>4. \A f \in Display : client[c].view[f] \in Texts \cup {Default}
    BY Zenon, <2>3
  <2> QED  BY Zenon, <2>1, <2>4, ApiKeysAssumption
<1>5. WidgetIsComplete
  BY Zenon, <1>4 DEF WidgetIsComplete
<1> QED  BY Zenon, <1>1, <1>2, <1>3, <1>5 DEF DoorsInv, KeysInv

(* Whoever is served presented a key that was issued to that org for that  *)
(* door; a key that was shown is never refused at its own door, a key that *)
(* was let through is listed as used unless a statement failed, and the    *)
(* widget shows a complete look its org once chose: for any number of      *)
(* orgs, keys and concurrent requests, and whatever fails.                 *)
THEOREM KeysOpenTheirDoor == KeysSpec => []KeysInv
<1>1. KeysInit => DoorsInv
  BY Zenon, DoorsStart
<1>2. DoorsInv /\ [KeysNext]_keyVars => DoorsInv'
  BY Zenon, DoorsStep
<1>3. DoorsInv => KeysInv
  BY Zenon, DoorsSay
<1> QED  BY <1>1, <1>2, <1>3, PTL DEF KeysSpec
===============================================================================
