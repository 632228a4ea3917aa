------------------------------- MODULE MCIngest -------------------------------
EXTENDS Ingest, TLC

CONSTANTS e1, p1

\* An order, the same event sent without a phone, with a wrong one and with
\* other types.
Merchants ==
    e1 :> {[type |-> "order_placed", phone |-> p1], [type |-> "refunded", phone |-> p1],
           [type |-> "abandoned_cart", phone |-> p1],
           [type |-> "order_placed", phone |-> NoPhone],
           [type |-> "order_placed", phone |-> BadPhone]}

\* A chat flow beside the IVR flow an org is seeded with, and two that Create
\* refuses.
Drafts == {[name |-> "order_confirm", type |-> "chat", spec |-> "broken"],
           [name |-> "cart_recovery", type |-> "ivr", spec |-> "broken"],
           [name |-> "cart_recovery", type |-> "agent", spec |-> "playable"]}

Symmetry == Permutations(Posts) \cup Permutations(Builders) \cup Permutations(FlowIds)
            \cup Permutations(Orgs)
===============================================================================
