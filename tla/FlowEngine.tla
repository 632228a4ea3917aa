------------------------------ MODULE FlowEngine ------------------------------
(***************************************************************************)
(* The keypad runtime (internal/flowengine): a live session driving a call *)
(* leg through an IVR graph (RunSession), and the builder's simulator      *)
(* (Simulate) fed the same inputs.  The flow is any the builder accepts:   *)
(* its graph may be cyclic, have dangling edges and nodes without keys.    *)
(***************************************************************************)

CONSTANTS
    Nodes,    \* names of the nodes a flow defines
    Missing,  \* a name no flow defines
    Digits,   \* keys of the keypad
    Results,  \* results a node may carry; "" is none
    Flows     \* the flows submitted to the builder

OnKeys == Digits \cup {"timeout", "invalid"}
NoNode == "none"

\* A node: on[k] = NoNode where its On map lacks the key.
Node == [end : BOOLEAN, result : Results \cup {""}, gather : BOOLEAN,
         on : [OnKeys -> Nodes \cup {Missing, NoNode}]]

Flow == [entry : Nodes \cup {Missing}, nodes : [Nodes -> Node]]

ASSUME FlowEngineAssumption ==
    /\ Missing \notin Nodes /\ NoNode \notin Nodes \cup {Missing}
    /\ "" \notin Results
    /\ {"timeout", "invalid"} \cap Digits = {}
    /\ Flows \subseteq Flow

VARIABLES
    flow,     \* the flow being run
    session,  \* RunSession: node, directive, outcome, and how it returned
    sim       \* Simulate: the node and directive of its last step, its outcome

flowVars == <<flow, session, sim>>

NoOutcome == [result |-> "", status |-> "none"]
Outcomes == [result : Results \cup {"", "no_answer"}, status : {"completed", "no_answer", "none"}]

FlowEngineTypeOK ==
    /\ flow \in Flow
    /\ session \in [pc : {"run", "returned", "failed"}, node : Nodes \cup {Missing},
                    d : {"hangup", "say", "say_gather"}, out : Outcomes]
    /\ sim \in [node : Nodes \cup {Missing}, d : {"hangup", "say", "say_gather"},
                out : Outcomes]

-------------------------------------------------------------------------------
(* flows.validateIVR: the entry node exists.  Nothing else is asked.       *)
validateIVR(f) == f.entry \in DOMAIN f.nodes

(* Looking a name up in the Nodes map: the zero node when it is missing.   *)
NodeOf(n) ==
    IF n \in Nodes THEN flow.nodes[n]
    ELSE [end |-> FALSE, result |-> "", gather |-> FALSE, on |-> [k \in OnKeys |-> NoNode]]

(* The directive of the node moved to, with the outcome if it is terminal. *)
emit(n) ==
    LET terminal == NodeOf(n).end \/ NodeOf(n).result # "" IN
    [node |-> n,
     d |-> IF terminal THEN "hangup"
           ELSE IF NodeOf(n).gather THEN "say_gather" ELSE "say",
     out |-> IF terminal
               THEN [result |-> NodeOf(n).result, status |-> "completed"] ELSE NoOutcome]

noAnswer(n) == [node |-> n, d |-> "hangup",
                out |-> [result |-> "no_answer", status |-> "no_answer"]]

\* Mutant: a key without a branch starts the flow over.
OnInvalidRestart(n, digit) ==
    LET on == NodeOf(n).on IN
    IF on[digit] # NoNode THEN emit(on[digit])
    ELSE IF on["invalid"] # NoNode THEN emit(on["invalid"])
    ELSE emit(flow.entry)

OnDTMF(n, digit) ==
    LET on == NodeOf(n).on IN
    IF on[digit] # NoNode THEN emit(on[digit])
    ELSE IF on["invalid"] # NoNode THEN emit(on["invalid"])
    ELSE noAnswer(n)

\* Mutant: hangs up without saying how the call ended.
OnTimeoutSilent(n) ==
    IF NodeOf(n).on["timeout"] # NoNode THEN emit(NodeOf(n).on["timeout"])
    ELSE [node |-> n, d |-> "hangup", out |-> NoOutcome]

OnTimeout(n) ==
    IF NodeOf(n).on["timeout"] # NoNode THEN emit(NodeOf(n).on["timeout"])
    ELSE noAnswer(n)

Inputs == Digits \cup {"timeout"}

Apply(n, in) == IF in = "timeout" THEN OnTimeout(n) ELSE OnDTMF(n, in)

Start(e) == [pc |-> "run", node |-> e.node, d |-> e.d, out |-> e.out]

FlowInit ==
    /\ flow \in {f \in Flows : validateIVR(f)}
    /\ session = Start(emit(flow.entry))
    /\ sim = emit(flow.entry)

-------------------------------------------------------------------------------
Ended == sim.out # NoOutcome

\* Mutant: a timeout is looked up like a key.
SimTimeoutAsKey(in) == IF Ended THEN sim ELSE
    IF in = "timeout" /\ NodeOf(sim.node).on["timeout"] = NoNode
       /\ NodeOf(sim.node).on["invalid"] # NoNode
      THEN emit(NodeOf(sim.node).on["invalid"]) ELSE Apply(sim.node, in)

(* One more input for the simulator: it stops at the first outcome.        *)
SimInput(in) == IF Ended THEN sim ELSE Apply(sim.node, in)

(* The leg plays the prompt of a gather and collects a key or times out.   *)
SayGather(in) ==
    /\ session.pc = "run" /\ session.d = "say_gather"
    /\ session' = Start(Apply(session.node, in))
    /\ sim' = SimInput(in)
    /\ UNCHANGED flow

(* The leg fails: RunSession returns the error and no outcome.             *)
LegFails ==
    /\ session.pc = "run"
    /\ session' = [session EXCEPT !.pc = "failed", !.out = NoOutcome]
    /\ UNCHANGED <<flow, sim>>

Hangup ==
    /\ session.pc = "run" /\ session.d = "hangup"
    /\ session' = [session EXCEPT !.pc = "returned"]
    /\ UNCHANGED <<flow, sim>>

(* A plain say node has no keypad transition; the call ends there.         *)
Play ==
    /\ session.pc = "run" /\ session.d = "say"
    /\ session' = [session EXCEPT !.pc = "returned",
                                  !.out = [result |-> "", status |-> "completed"]]
    /\ UNCHANGED <<flow, sim>>

(* The simulator is given more keys than the call used.                    *)
MoreInput(in) ==
    /\ session.pc = "returned"
    /\ ~Ended
    /\ sim' = SimInput(in)
    /\ UNCHANGED <<flow, session>>

Step == Hangup \/ Play \/ \E in \in Inputs : SayGather(in)

FlowNext == Step \/ LegFails \/ \E in \in Inputs : MoreInput(in)

FlowSpec == FlowInit /\ [][FlowNext]_flowVars

(* A gather ends with a key or by its timeout; prompts end.                *)
FairSpec == FlowSpec /\ WF_flowVars(Step)

-------------------------------------------------------------------------------
(* RunSession drives the flow to a terminal outcome: when it returns       *)
(* without an error there is one, whatever the graph and the keys.         *)
SessionHasOutcome == session.pc = "returned" => session.out # NoOutcome

(* What the builder's simulator shows is what the call does: when a call   *)
(* has ended, Simulate over the keys it took has ended the same way, except *)
(* at a plain say node, where the call completes and the simulator goes on. *)
SimAgrees == session.pc = "returned" => sim.out = session.out \/ session.d = "say"

(* A terminal node ends the call with its own result, in whatever order    *)
(* nodes were visited: no call runs past a node that carries a result.     *)
ResultEndsCall ==
    \A n \in Nodes : session.node = n /\ (NodeOf(n).end \/ NodeOf(n).result # "")
        /\ session.pc = "returned"
            => session.out = [result |-> NodeOf(n).result, status |-> "completed"]

Edges == {e \in Nodes \X Nodes : \E k \in OnKeys : flow.nodes[e[1]].on[k] = e[2]}

\* In every set of nodes some node has no branch into the set.
Acyclic ==
    \A S \in (SUBSET Nodes) \ {{}} : \E n \in S : \A m \in S : <<n, m>> \notin Edges

(* A session over a graph without cycles returns, whatever keys are        *)
(* pressed: RunSession has no bound of its own.                            *)
AcyclicSessionEnds == Acyclic ~> session.pc # "run"

(* A running session stands at the node it last moved to, with that node's *)
(* own directive, or hangs up unanswered at a node that is not terminal;   *)
(* and the simulator, fed the same keys, stands there too.                 *)
SessionFollowsFlow ==
    LET n == session.node
        terminal == NodeOf(n).end \/ NodeOf(n).result # ""
        at == [node |-> n, d |-> session.d, out |-> session.out]
    IN  session.pc = "run" =>
            /\ at = emit(n) \/ (at = noAnswer(n) /\ ~terminal)
            /\ sim = at

(* What holds of a session over any flow the validator accepts.            *)
FlowEngineInv ==
    /\ FlowEngineTypeOK
    /\ SessionHasOutcome
    /\ ResultEndsCall
    /\ SessionFollowsFlow
===============================================================================
