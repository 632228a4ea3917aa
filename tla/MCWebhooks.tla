------------------------------ MODULE MCWebhooks ------------------------------
(***************************************************************************)
(* One dispatcher over all the events, or two over the first few: what two *)
(* do to each other they do over a single delivery.                        *)
(***************************************************************************)
EXTENDS Webhooks

CONSTANTS
    PairEvents,   \* bound: events of a deployment of two
    PairChanges   \* bound: its SetEndpoint requests

MCNext ==
    /\ Next
    /\ Cardinality(running) > 1 => Len(outbox') <= PairEvents /\ changes' <= PairChanges

MCSpec == Init /\ [][MCNext]_vars /\ Fairness
===============================================================================
