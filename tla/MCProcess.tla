------------------------------- MODULE MCProcess -------------------------------
(***************************************************************************)
(* The activity bus and the rate limiter of one API process.  They share   *)
(* no state: a behaviour exercises one of them while the other stays as it *)
(* was created.                                                            *)
(***************************************************************************)
EXTENDS Bus, RateLimit, TLC

VARIABLE part

Init == part \in {"bus", "limiter"} /\ BusInit /\ RateInit

Next ==
    /\ \/ part = "bus" /\ BusNext /\ UNCHANGED rateVars
       \/ part = "limiter" /\ RateNext /\ UNCHANGED busVars
    /\ UNCHANGED part

Spec == Init /\ [][Next]_<<busVars, rateVars, part>>

Symmetry ==
    Permutations(Publishers) \cup Permutations(Subscribers) \cup Permutations(Handlers)
===============================================================================
