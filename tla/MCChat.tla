-------------------------------- MODULE MCChat --------------------------------
(***************************************************************************)
(* Conversations, the insight drawn from one, and the API keys and widget  *)
(* settings in front of them.  Summarize only reads the messages, and a    *)
(* request has been authenticated before it touches a conversation, so a   *)
(* behaviour exercises one of the three.                                   *)
(***************************************************************************)
EXTENDS Chat, Insights, ApiKeys, FiniteSetsExt, TLC

VARIABLE part

MCInit == part \in {"threads", "insight", "keys"} /\ Init /\ InsightsInit /\ KeysInit

MCNext ==
    /\ \/ part = "threads" /\ Next /\ UNCHANGED <<insightVars, keyVars>>
       \/ part = "insight" /\ InsightsNext /\ UNCHANGED <<vars, keyVars>>
       \/ part = "keys" /\ KeysNext /\ UNCHANGED <<vars, insightVars>>
    /\ UNCHANGED part

MCSpec == MCInit /\ [][MCNext]_<<vars, insightVars, keyVars, part>>

(* The assistant answers each message at most once, and a channel user is  *)
(* sent only replies, the assistant's or an agent's, that are in one of    *)
(* their threads: what the merchant reads in the inbox is what the         *)
(* customer was told.                                                      *)
RepliesAreStored ==
    /\ \A c \in Threads : said[c]["assistant"] <= said[c]["user"]
    /\ \A u \in Users :
           sent[u] <= MapThenSumSet(LAMBDA c : said[c]["assistant"],
                                    {c \in Threads : thread[c].who = u})
    /\ agentSent <= MapThenSumSet(LAMBDA c : said[c]["agent"],
                                  {c \in Threads : thread[c].who \in Users})

Symmetry == Permutations(Handlers) \cup Permutations(Summarizers) \cup Permutations(Clients)
===============================================================================
