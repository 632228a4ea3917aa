------------------------------- MODULE MCBilling ------------------------------
EXTENDS Billing, FiniteSetsExt, TLC

\* Production with SSLCommerz, and development with the mock gateway.
Deployments == {[gateway |-> "sslcommerz", dev |-> FALSE], [gateway |-> "mock", dev |-> TRUE]}

\* Two payments of different orgs.
CONSTANTS o1, o2, p1, p2
TwoOrgs == [p \in {p1, p2} |-> IF p = p1 THEN o1 ELSE o2]

(* The ledger's top-ups are exactly the credits of the payments granted    *)
(* and the dev top-ups: nothing is granted twice, short or to another org. *)
TopUpsAccountedFor ==
    \A o \in Orgs :
        ledger[o]["topup"] =
            topups[o] + MapThenSumSet(LAMBDA p : grants[p] * credits[p],
                                      {p \in Payments : OrgOf[p] = o})

Symmetry == Permutations(Handlers)
===============================================================================
