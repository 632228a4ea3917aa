------------------------------- MODULE Insights -------------------------------
(***************************************************************************)
(* The AI insight of one conversation: Service.Summarize reads the turns,  *)
(* runs the built-in summarizer over them, upserts the cached row and      *)
(* reads it back, while the customer goes on writing.  A turn is the set   *)
(* of keyword lists it has a word of; an insight is the verdict and the    *)
(* customer turns it was drawn from (the recap text is left out).          *)
(***************************************************************************)
EXTENDS Integers, Sequences

CONSTANTS
    Summarizers,  \* concurrent summarize requests
    Words,     \* the sets of keyword lists that turns touch
    MaxTurns,  \* bound: turns
    MaxRuns,   \* bound: summarize requests
    NoInsight

VARIABLES
    transcript,   \* messages of the conversation, oldest first
    insight,   \* its row of conversation_insights, NoInsight if there is none
    job,       \* each summarize request; history: the turns there were when it
               \*   began, and whether it has had no other beside it
    runs

insightVars == <<transcript, insight, job, runs>>

Signals == {"negative", "positive", "human", "sale", "resolved"}

ASSUME InsightsAssumption ==
    /\ MaxTurns \in Nat /\ MaxRuns \in Nat
    /\ Words \subseteq SUBSET Signals

Turn == [role : {"user", "assistant"}, signals : Words]

Insight == [turns : SUBSET (1..MaxTurns),
            outcome : {"unknown", "pending", "needs_human", "sale", "resolved"},
            sentiment : {"neutral", "positive", "negative"},
            action : {"wait", "assign", "confirm", "nothing", "reach_out", "follow_up"}]

NoJob == [pc |-> "idle", begun |-> 0, alone |-> FALSE, drawn |-> NoInsight,
          answer |-> NoInsight]

JobRow == [pc : {"idle", "read", "save", "reread"}, begun : 0..MaxTurns, alone : BOOLEAN,
           drawn : Insight \cup {NoInsight}, answer : Insight \cup {NoInsight}]

InsightsTypeOK ==
    /\ transcript \in Seq(Turn) /\ Len(transcript) <= MaxTurns
    /\ insight \in Insight \cup {NoInsight}
    /\ job \in [Summarizers -> JobRow]
    /\ runs \in 0..MaxRuns

InsightsInit ==
    /\ transcript = <<>>
    /\ insight = NoInsight
    /\ job = [h \in Summarizers |-> NoJob]
    /\ runs = 0

-------------------------------------------------------------------------------
(* The built-in summarizer.                                                *)

FromUser(t) == t.role = "user"
UserTurns(hist) == {i \in 1..Len(hist) : FromUser(hist[i])}

(* containsAny over the customer's words.                                  *)
Said(hist) == UNION {hist[i].signals : i \in UserTurns(hist)}

Sentiment(said) ==
    CASE "negative" \in said -> "negative"
      [] "negative" \notin said /\ "positive" \in said -> "positive"
      [] OTHER -> "neutral"

(* The outcome and the next action, most actionable first.                 *)
Verdict(said) ==
    IF "human" \in said THEN <<"needs_human", "assign">>
    ELSE IF "sale" \in said THEN <<"sale", "confirm">>
    ELSE IF "resolved" \in said THEN <<"resolved", "nothing">>
    ELSE IF Sentiment(said) = "negative" THEN <<"needs_human", "reach_out">>
    ELSE <<"pending", "follow_up">>

Summary(hist) ==
    LET turns == UserTurns(hist)
        said == Said(hist)
    IN IF turns = {}
         THEN [turns |-> {}, outcome |-> "unknown", sentiment |-> "neutral", action |-> "wait"]
         ELSE [turns |-> turns, outcome |-> Verdict(said)[1],
               sentiment |-> Sentiment(said), action |-> Verdict(said)[2]]

-------------------------------------------------------------------------------
AddTurn(role, signals) ==
    /\ Len(transcript) < MaxTurns
    /\ transcript' = Append(transcript, [role |-> role, signals |-> signals])
    /\ UNCHANGED <<insight, job, runs>>

(* The conversation is the caller's own.                                   *)
Owns(h) ==
    /\ job[h].pc = "idle"
    /\ runs < MaxRuns
    /\ runs' = runs + 1
    /\ job' = [g \in Summarizers |->
                  IF g = h
                    THEN [NoJob EXCEPT !.pc = "read", !.begun = Len(transcript),
                                       !.alone = \A k \in Summarizers : job[k].pc = "idle"]
                    ELSE [job[g] EXCEPT !.alone = @ /\ job[g].pc = "idle"]]
    /\ UNCHANGED <<transcript, insight>>

(* Messages, then the summarizer over what it returned.                    *)
Summarize(h) ==
    /\ job[h].pc = "read"
    /\ job' = [job EXCEPT ![h].pc = "save", ![h].drawn = Summary(transcript)]
    /\ UNCHANGED <<transcript, insight, runs>>

\* Mutant: ON CONFLICT DO NOTHING.
InsertOnce(h) == insight' = IF insight = NoInsight THEN job[h].drawn ELSE insight

UpsertInsight(h) == insight' = job[h].drawn

Save(h) ==
    /\ job[h].pc = "save"
    /\ UpsertInsight(h)
    /\ job' = [job EXCEPT ![h].pc = "reread"]
    /\ UNCHANGED <<transcript, runs>>

GetInsight(h) ==
    /\ job[h].pc = "reread"
    /\ job' = [job EXCEPT ![h].pc = "idle", ![h].answer = insight]
    /\ UNCHANGED <<transcript, insight, runs>>

(* A failed statement fails the request; a failed re-read leaves the       *)
(* insight saved.                                                          *)
SummarizeFails(h) ==
    /\ job[h].pc # "idle"
    /\ job' = [job EXCEPT ![h] = NoJob]
    /\ UNCHANGED <<transcript, insight, runs>>

InsightsNext ==
    \/ \E role \in {"user", "assistant"}, signals \in Words : AddTurn(role, signals)
    \/ \E h \in Summarizers : Owns(h)
    \/ \E h \in Summarizers : Summarize(h)
    \/ \E h \in Summarizers : Save(h)
    \/ \E h \in Summarizers : GetInsight(h)
    \/ \E h \in Summarizers : SummarizeFails(h)

InsightsSpec == InsightsInit /\ [][InsightsNext]_insightVars

-------------------------------------------------------------------------------
(* However requests overlap, the cached insight is the whole verdict on    *)
(* the conversation as it stood at one moment, never a blend of two runs.  *)
InsightIsOfOneMoment ==
    insight # NoInsight => \E n \in 0..Len(transcript) : insight = Summary(SubSeq(transcript, 1, n))

(* The comment in the summarizer: "a human ask trumps everything".  Once   *)
(* the customer has asked for a person, a summary started afterwards, with *)
(* no other beside it, answers that a team member is to be assigned.       *)
AskedForPerson ==
    \A h \in Summarizers :
        /\ job[h].answer # NoInsight /\ job[h].alone
        /\ "human" \in Said(SubSeq(transcript, 1, job[h].begun))
        => job[h].answer.action = "assign"

(* The comment on summarize: it regenerates the insight and returns it.    *)
(* The answer is the verdict on the conversation as it stood at a moment   *)
(* since the request began; only another request beside it can save an     *)
(* older verdict in between.                                               *)
AnswerIsFresh ==
    \A h \in Summarizers :
        job[h].answer # NoInsight /\ job[h].alone =>
            \E n \in job[h].begun..Len(transcript) :
                job[h].answer = Summary(SubSeq(transcript, 1, n))

(* What holds of the cached insight and the answers at every moment.       *)
InsightsInv == InsightsTypeOK /\ InsightIsOfOneMoment /\ AskedForPerson /\ AnswerIsFresh
===============================================================================
