---------------------------- MODULE TopUpContract -----------------------------
(***************************************************************************)
(* What billing promises a merchant, without callbacks, handlers, gateway  *)
(* or failures: a payment is opened, settles once as paid or failed, and a *)
(* paid payment is credited at most once, with its own amount and to its   *)
(* own org.  Outside development nothing else raises a balance, and a      *)
(* metered call takes one credit the org has.                              *)
(***************************************************************************)
EXTENDS Integers

CONSTANTS Orgs, Payments, OrgOf

VARIABLES dev, pay, amount, credit

contractVars == <<dev, pay, amount, credit>>

ContractInit ==
    /\ dev \in BOOLEAN
    /\ pay = [p \in Payments |-> "none"]
    /\ amount = [p \in Payments |-> 0]
    /\ credit \in [Orgs -> Nat]

Open(p) ==
    /\ pay[p] = "none"
    /\ pay' = [pay EXCEPT ![p] = "pending"]
    /\ amount'[p] > 0
    /\ amount' = [amount EXCEPT ![p] = amount'[p]]
    /\ UNCHANGED credit

Settle(p) ==
    /\ pay[p] = "pending"
    /\ \E s \in {"paid", "failed"} : pay' = [pay EXCEPT ![p] = s]
    /\ UNCHANGED <<amount, credit>>

Credit(p) ==
    /\ pay[p] = "paid"
    /\ pay' = [pay EXCEPT ![p] = "credited"]
    /\ credit' = [credit EXCEPT ![OrgOf[p]] = @ + amount[p]]
    /\ UNCHANGED amount

TopUp(o) ==
    /\ dev
    /\ credit'[o] > credit[o]
    /\ credit' = [credit EXCEPT ![o] = credit'[o]]
    /\ UNCHANGED <<pay, amount>>

Meter(o) ==
    /\ credit[o] > 0
    /\ credit' = [credit EXCEPT ![o] = @ - 1]
    /\ UNCHANGED <<pay, amount>>

ContractNext ==
    /\ \/ \E p \in Payments : Open(p) \/ Settle(p) \/ Credit(p)
       \/ \E o \in Orgs : TopUp(o) \/ Meter(o)
    /\ UNCHANGED dev

ContractSpec == ContractInit /\ [][ContractNext]_contractVars
===============================================================================
