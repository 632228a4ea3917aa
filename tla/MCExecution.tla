------------------------------ MODULE MCExecution -----------------------------
(***************************************************************************)
(* The two machines behind a call: the session that plays a flow on the    *)
(* call leg, and the pool of workers that place calls.  They share no      *)
(* state, so instead of every interleaving of the two a behaviour plays a  *)
(* session, and after the shortest one the pool goes through its jobs.     *)
(***************************************************************************)
EXTENDS FlowEngine, LocalOrchestrator, TLC

NoKeys == [k \in OnKeys |-> NoNode]

Terminal == {[end |-> e, result |-> r, gather |-> FALSE, on |-> NoKeys] :
               e \in BOOLEAN, r \in Results} \cup
            {[end |-> TRUE, result |-> "", gather |-> FALSE, on |-> NoKeys]}

Say(targets) == {[end |-> FALSE, result |-> "", gather |-> FALSE, on |-> [NoKeys EXCEPT !["1"] = m]] :
                   m \in targets \cup {NoNode}}

Gather(targets) == [end : {FALSE}, result : {""}, gather : {TRUE},
                    on : [OnKeys -> targets \cup {NoNode}]]

\* Every graph over the nodes, dangling edges and say nodes included.
AnyFlows == [entry : Nodes \cup {Missing},
             nodes : [Nodes -> Terminal \cup Say(Nodes) \cup Gather(Nodes \cup {Missing})]]

\* The flow of one node that says goodbye.
Goodbye == [end |-> TRUE, result |-> "", gather |-> FALSE, on |-> NoKeys]
Shortest == [entry |-> CHOOSE n \in Nodes : TRUE, nodes |-> [n \in Nodes |-> Goodbye]]

MCInit == FlowInit /\ PoolInit

MCNext ==
    \/ FlowNext /\ UNCHANGED poolVars
    \/ flow = Shortest /\ session.pc = "returned" /\ PoolNext /\ UNCHANGED flowVars

MCSpec ==
    /\ MCInit /\ [][MCNext]_<<flowVars, poolVars>>
    /\ WF_flowVars(Step) /\ PoolFairness
===============================================================================
