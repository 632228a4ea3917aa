--------------------------------- MODULE Chat ---------------------------------
(***************************************************************************)
(* Conversations of one org (internal/service/chat and messaging and their *)
(* HTTP handlers): messages come in from the web widget and from messaging *)
(* channels, the assistant answers, and a human agent may take a thread    *)
(* over.  Every handler is a sequence of database and provider calls, and  *)
(* handlers run concurrently.                                              *)
(***************************************************************************)
EXTENDS Integers

CONSTANTS
    Users,       \* users of the messaging channel
    Visitors,    \* visitors of the web widget
    MaxThreads,  \* bound: conversations, ids 1..MaxThreads
    Handlers,    \* concurrent inbound requests
    Agents,      \* concurrent agent replies
    MaxInbound,  \* bound: inbound messages
    MaxMoves,    \* bound: SetStatus, Connect and Disconnect requests
    MaxReplies,  \* bound: agent replies
    MaxFaults,   \* bound: failed database, model or messaging calls
    Nobody

ASSUME ChatAssumption ==
    /\ Users \cap Visitors = {}
    /\ Nobody \notin Users \cup Visitors
    /\ {MaxThreads, MaxInbound, MaxMoves, MaxReplies, MaxFaults} \subseteq Nat

VARIABLES
    thread,      \* conversations: whose it is and its status
    said,        \* messages per conversation and role
    connected,   \* whether the org has connected the channel
    req,         \* each inbound request; history: the org's conversation whose id it
                 \*   carried (own), and whether a human had the thread when its
                 \*   message came, and has kept it (quiet)
    agent,       \* each agent reply
    inbound, moves, replies, faults,
    sent,        \* history: assistant replies sent to each channel user,
    agentSent    \*   agent replies sent over the channel

bounds == <<inbound, moves, replies, faults>>
history == <<sent, agentSent>>
vars == <<thread, said, connected, req, agent, bounds, history>>

People == Users \cup Visitors
Threads == 1..MaxThreads
NoThread == [who |-> Nobody, status |-> "none"]
Roles == {"user", "assistant", "agent"}
IdleReq == [pc |-> "idle", who |-> Nobody, conv |-> 0, own |-> 0, retried |-> FALSE,
            quiet |-> FALSE]
IdleAgent == [pc |-> "idle", conv |-> 0]

Statuses == {"open", "handling", "closed"}
Thread == [who : People, status : Statuses] \cup {NoThread}
InboundReq == [pc : {"idle", "find", "create", "store", "status", "model", "answer", "send"},
               who : People \cup {Nobody}, conv : 0..MaxThreads, own : 0..MaxThreads,
               retried : BOOLEAN, quiet : BOOLEAN]
AgentReq == [pc : {"idle", "take", "store", "deliver"}, conv : 0..MaxThreads]

ChatTypeOK ==
    /\ thread \in [Threads -> Thread]
    /\ said \in [Threads -> [Roles -> Nat]]
    /\ connected \in BOOLEAN
    /\ req \in [Handlers -> InboundReq]
    /\ agent \in [Agents -> AgentReq]
    /\ inbound \in 0..MaxInbound /\ moves \in 0..MaxMoves
    /\ replies \in 0..MaxReplies /\ faults \in 0..MaxFaults
    /\ sent \in [Users -> Nat]
    /\ agentSent \in Nat

Init ==
    /\ thread = [c \in Threads |-> NoThread]
    /\ said = [c \in Threads |-> [r \in Roles |-> 0]]
    /\ connected = TRUE
    /\ req = [h \in Handlers |-> IdleReq]
    /\ agent = [a \in Agents |-> IdleAgent]
    /\ inbound = 0 /\ moves = 0 /\ replies = 0 /\ faults = 0
    /\ sent = [u \in Users |-> 0]
    /\ agentSent = 0

-------------------------------------------------------------------------------
(* The repository.                                                         *)

Exists(c) == c \in Threads /\ thread[c] # NoThread
Unused == {c \in Threads : thread[c] = NoThread}

Fresh == CHOOSE c \in Unused : TRUE

CreateConversation(who) ==
    /\ Unused # {}
    /\ thread' = [thread EXCEPT ![Fresh] = [who |-> who, status |-> "open"]]

(* FindOpenChannelConversation answers one of them, the last touched; the  *)
(* order is left open.                                                     *)
Open(u) == {c \in Threads : thread[c] = [who |-> u, status |-> "open"]}

AddMessage(c, role) == said' = [said EXCEPT ![c][role] = @ + 1]

(* SetConversationStatus; a request that began under an agent's eyes is    *)
(* noted as such only as long as the thread stays with the agent.          *)
SetConversationStatus(c, s) ==
    /\ thread' = [thread EXCEPT ![c].status = s]
    /\ req' = [h \in Handlers |->
                  [req[h] EXCEPT !.quiet = @ /\ (req[h].conv = c => s = "handling")]]

-------------------------------------------------------------------------------
(* Inbound messages.                                                       *)

At(h, l) == req[h].pc = l
Goto(h, l) == req' = [req EXCEPT ![h].pc = l]
Return(h) == req' = [req EXCEPT ![h] = IdleReq]
IsWeb(h) == req[h].who \in Visitors

(* HandleInbound: a message for a channel nobody has connected is dropped. *)
HandleInbound(h, u) ==
    /\ At(h, "idle")
    /\ inbound < MaxInbound
    /\ inbound' = inbound + 1
    /\ connected
    /\ req' = [req EXCEPT ![h] = [IdleReq EXCEPT !.pc = "find", !.who = u]]
    /\ UNCHANGED <<thread, said, connected, agent, moves, replies, faults,
                   history>>

(* SendChannel: FindOrCreateChannelConversation, two statements.           *)
FindOpenChannelConversation(h) ==
    /\ At(h, "find")
    /\ \/ /\ Open(req[h].who) = {}
          /\ Goto(h, "create")
       \/ \E c \in Open(req[h].who) :
              req' = [req EXCEPT ![h] = [@ EXCEPT !.pc = "store", !.conv = c]]
    /\ UNCHANGED <<thread, said, connected, agent, bounds, history>>

(* chatSend: the request names a conversation, as the widget does with the *)
(* id of the last reply it showed, or none (0), as it does on a page just  *)
(* loaded.  owns asks whether the org has it, not whose it is; for an id   *)
(* the org does not have, Send fails and is called again for a fresh       *)
(* conversation.                                                           *)
ChatSend(h, v, c) ==
    LET own == IF Exists(c) THEN c ELSE 0 IN
    /\ At(h, "idle")
    /\ inbound < MaxInbound
    /\ inbound' = inbound + 1
    /\ req' = [req EXCEPT ![h] = [IdleReq EXCEPT
                  !.pc = IF Exists(c) THEN "store" ELSE "create",
                  !.who = v, !.conv = own, !.own = own, !.retried = c # own]]
    /\ UNCHANGED <<thread, said, connected, agent, moves, replies, faults, history>>

Create(h) ==
    /\ At(h, "create")
    /\ CreateConversation(req[h].who)
    /\ req' = [req EXCEPT ![h] = [@ EXCEPT !.pc = "store", !.conv = Fresh]]
    /\ UNCHANGED <<said, connected, agent, bounds, history>>

(* reply: store the message,                                               *)
StoreMessage(h) ==
    /\ At(h, "store")
    /\ AddMessage(req[h].conv, "user")
    /\ req' = [req EXCEPT ![h] = [@ EXCEPT !.pc = "status",
                  !.quiet = thread[req[h].conv].status = "handling"]]
    /\ UNCHANGED <<thread, connected, agent, bounds, history>>

\* Mutant: only a closed thread keeps the assistant quiet.
IgnoreTakeover(h) ==
    /\ At(h, "status")
    /\ IF thread[req[h].conv].status = "closed" THEN Return(h) ELSE Goto(h, "model")
    /\ UNCHANGED <<thread, said, connected, agent, bounds, history>>

(* stay silent in a thread a human handles, else                           *)
Suppressed(h) == thread[req[h].conv].status = "handling"

CheckStatus(h) ==
    /\ At(h, "status")
    /\ IF Suppressed(h) THEN Return(h) ELSE Goto(h, "model")
    /\ UNCHANGED <<thread, said, connected, agent, bounds, history>>

(* read the history and ask the model, which takes a while,                *)
AskModel(h) ==
    /\ At(h, "model")
    /\ Goto(h, "answer")
    /\ UNCHANGED <<thread, said, connected, agent, bounds, history>>

\* Mutant: the reply goes out without being stored.
ReplyUnstored(h) ==
    /\ At(h, "answer")
    /\ IF IsWeb(h) THEN Return(h) ELSE Goto(h, "send")
    /\ UNCHANGED <<thread, said, connected, agent, bounds, sent, agentSent>>

(* and store the reply.                                                    *)
StoreReply(h) ==
    /\ At(h, "answer")
    /\ AddMessage(req[h].conv, "assistant")
    /\ IF IsWeb(h) THEN Return(h) ELSE Goto(h, "send")
    /\ UNCHANGED <<thread, connected, agent, bounds, sent, agentSent>>

(* HandleInbound sends it with the token read at the start.                *)
SendReply(h) ==
    /\ At(h, "send")
    /\ sent' = [sent EXCEPT ![req[h].who] = @ + 1]
    /\ Return(h)
    /\ UNCHANGED <<thread, said, connected, agent, bounds, agentSent>>

-------------------------------------------------------------------------------
(* The merchant.                                                           *)

Move == moves < MaxMoves /\ moves' = moves + 1

SetStatus(c, s) ==
    /\ Exists(c)
    /\ Move
    /\ SetConversationStatus(c, s)
    /\ UNCHANGED <<said, connected, agent, inbound, replies, faults, history>>

Connect ==
    /\ Move
    /\ connected' = TRUE
    /\ UNCHANGED <<thread, said, req, agent, inbound, replies, faults, history>>

Disconnect ==
    /\ Move
    /\ connected' = FALSE
    /\ UNCHANGED <<thread, said, req, agent, inbound, replies, faults, history>>

AgentAt(a, l) == agent[a].pc = l
AgentGoto(a, l) == agent' = [agent EXCEPT ![a].pc = l]

(* agentReply: take the thread over, store the message, deliver it.        *)
AgentReply(a, c) ==
    /\ AgentAt(a, "idle")
    /\ replies < MaxReplies
    /\ replies' = replies + 1
    /\ Exists(c)
    /\ agent' = [agent EXCEPT ![a] = [pc |-> "take", conv |-> c]]
    /\ UNCHANGED <<thread, said, connected, req, inbound, moves, faults, history>>

TakeOver(a) ==
    /\ AgentAt(a, "take")
    /\ SetConversationStatus(agent[a].conv, "handling")
    /\ AgentGoto(a, "store")
    /\ UNCHANGED <<said, connected, bounds, history>>

StoreAgentMessage(a) ==
    /\ AgentAt(a, "store")
    /\ AddMessage(agent[a].conv, "agent")
    /\ AgentGoto(a, "deliver")
    /\ UNCHANGED <<thread, connected, req, bounds, history>>

(* SendOutbound does nothing for a channel that is not connected, though   *)
(* the answer is "delivered" all the same.  A web thread has no transport. *)
Deliver(a) ==
    /\ AgentAt(a, "deliver")
    /\ agent' = [agent EXCEPT ![a] = IdleAgent]
    /\ agentSent' = IF connected /\ thread[agent[a].conv].who \in Users
                      THEN agentSent + 1 ELSE agentSent
    /\ UNCHANGED <<thread, said, connected, req, bounds, sent>>

-------------------------------------------------------------------------------
(* Failures.                                                               *)

Fault == faults < MaxFaults /\ faults' = faults + 1

(* An error ends a channel message; Meta is answered 200 in any case.  The *)
(* widget's handler tries again in a fresh conversation, once.             *)
InboundFails(h) ==
    /\ Fault
    /\ ~At(h, "idle")
    /\ req' = [req EXCEPT ![h] =
                  IF IsWeb(h) /\ ~@.retried
                    THEN [@ EXCEPT !.pc = "create", !.conv = 0, !.retried = TRUE,
                                   !.quiet = FALSE]
                    ELSE IdleReq]
    /\ UNCHANGED <<thread, said, connected, agent, inbound, moves, replies,
                   history>>

(* An agent's reply that cannot be delivered is answered as only stored.   *)
AgentFails(a) ==
    /\ Fault
    /\ ~AgentAt(a, "idle")
    /\ agent' = [agent EXCEPT ![a] = IdleAgent]
    /\ UNCHANGED <<thread, said, connected, req, inbound, moves, replies,
                   history>>

-------------------------------------------------------------------------------
Next ==
    \/ \E h \in Handlers, u \in Users : HandleInbound(h, u)
    \/ \E h \in Handlers, v \in Visitors, c \in 0..MaxThreads : ChatSend(h, v, c)
    \/ \E h \in Handlers :
           \/ FindOpenChannelConversation(h) \/ Create(h) \/ StoreMessage(h)
           \/ CheckStatus(h) \/ AskModel(h) \/ StoreReply(h) \/ SendReply(h)
           \/ InboundFails(h)
    \/ \E c \in Threads, s \in Statuses : SetStatus(c, s)
    \/ Connect
    \/ Disconnect
    \/ \E a \in Agents, c \in Threads : AgentReply(a, c)
    \/ \E a \in Agents : TakeOver(a) \/ StoreAgentMessage(a) \/ Deliver(a) \/ AgentFails(a)

Spec == Init /\ [][Next]_vars

-------------------------------------------------------------------------------
(* A message that comes into a thread a human handles, and goes on         *)
(* handling, is stored but neither shown to the model nor answered.        *)
AssistantYields ==
    \A h \in Handlers : req[h].quiet => req[h].pc \notin {"model", "answer", "send"}

(* A channel user's messages go to a thread of their own, whoever else     *)
(* writes or fails meanwhile; a visitor's to one of their own or to the    *)
(* one whose id the request carried, which owns takes for any conversation *)
(* of the org.                                                             *)
ThreadsAreNotShared ==
    \A h \in Handlers : req[h].conv # 0 =>
        \/ thread[req[h].conv].who = req[h].who
        \/ IsWeb(h) /\ Exists(req[h].conv) /\ req[h].conv = req[h].own

(* The comment in chatSend: a fresh conversation is started for a bad or   *)
(* foreign conversation id.  A request with the id of one the org has is   *)
(* answered there, unless a call fails.                                    *)
VisitorKeepsThread ==
    \A h \in Handlers : faults = 0 /\ req[h].own # 0 => req[h].conv = req[h].own

(* What holds of conversations at every moment, through failures and       *)
(* whoever writes at the same time: the assistant keeps out of threads a   *)
(* human handles, a message goes where its sender or its id says, and only *)
(* a failure moves a visitor to another thread.                            *)
ChatInv == ChatTypeOK /\ AssistantYields /\ ThreadsAreNotShared /\ VisitorKeepsThread

(* README.md: "auto-reply is suppressed while a human is handling it".     *)
(* The check in reply finds so for a channel user whom a human handles.    *)
Handled(u) == \E c \in Threads : thread[c] = [who |-> u, status |-> "handling"]
TakeoverIsHonoured ==
    \A h \in Handlers :
        At(h, "status") /\ req[h].who \in Users /\ Handled(req[h].who) => Suppressed(h)
===============================================================================
