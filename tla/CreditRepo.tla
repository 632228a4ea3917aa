------------------------------ MODULE CreditRepo ------------------------------
(***************************************************************************)
(* The prepaid credit store (internal/adapter/postgres/credits.go): one    *)
(* org_credits row and the credit_ledger rows of every org.  A transaction *)
(* is one step.  The ledger is only ever appended to and summed, so its    *)
(* rows are kept as the sum of their deltas per org and reason.            *)
(***************************************************************************)
EXTENDS Integers

CONSTANTS
    Orgs,
    MaxBalance   \* org_credits.balance is an INT: a larger value is an error

ASSUME MaxBalanceAssumption == MaxBalance \in Nat

VARIABLES
    account,     \* account[o]: org o has an org_credits row
    balance,     \* org_credits.balance (0 while there is no row)
    ledger       \* ledger[o][r]: sum of credit_ledger.delta with reason r

creditVars == <<account, balance, ledger>>

Reasons == {"signup_grant", "topup", "call"}

LedgerSum(o) ==
    ledger[o]["signup_grant"] + ledger[o]["topup"] + ledger[o]["call"]

CreditTypeOK ==
    /\ account \in [Orgs -> BOOLEAN]
    /\ balance \in [Orgs -> Int]
    /\ ledger \in [Orgs -> [Reasons -> Int]]

-------------------------------------------------------------------------------
(* Single statements of queries/credits.sql.                               *)

EnsureCreditAccount(o) ==
    account' = [account EXCEPT ![o] = TRUE]

Fits(o, n) == balance[o] + n <= MaxBalance

AdjustBalance(o, n) ==
    /\ Fits(o, n)
    /\ balance' = [balance EXCEPT ![o] = @ + n]

AddLedger(o, delta, reason) ==
    ledger' = [ledger EXCEPT ![o][reason] = @ + delta]

(* TryDeductBalance finds no row to update when the org has no account or  *)
(* the balance does not cover the amount.                                  *)
Covers(o, n) == account[o] /\ balance[o] >= n

TryDeductBalance(o, n) ==
    /\ Covers(o, n)
    /\ balance' = [balance EXCEPT ![o] = @ - n]

-------------------------------------------------------------------------------
(* The repository's transactions.  TryDeduct is disabled when it would     *)
(* answer ok = FALSE and change nothing; Grant is disabled when the UPDATE *)
(* overflows the column and the transaction rolls back.                    *)

TryDeduct(o, n, reason) ==
    /\ TryDeductBalance(o, n)
    /\ AddLedger(o, -n, reason)
    /\ UNCHANGED account

Grant(o, n, reason) ==
    /\ EnsureCreditAccount(o)
    /\ AdjustBalance(o, n)
    /\ AddLedger(o, n, reason)

(* An org that was provisioned with g starter credits, and one whose       *)
(* seeding failed before the account was created.                          *)
Seeded(g) ==
    /\ account = [o \in Orgs |-> TRUE]
    /\ balance = [o \in Orgs |-> g]
    /\ ledger = [o \in Orgs |->
                   [r \in Reasons |-> IF r = "signup_grant" THEN g ELSE 0]]

Unseeded ==
    /\ account = [o \in Orgs |-> FALSE]
    /\ balance = [o \in Orgs |-> 0]
    /\ ledger = [o \in Orgs |-> [r \in Reasons |-> 0]]

-------------------------------------------------------------------------------
(* No interleaving of deductions and grants drives a balance below zero:   *)
(* TryDeduct's WHERE balance >= amount is evaluated by the UPDATE itself.  *)
NeverOverdrawn == \A o \in Orgs : balance[o] >= 0

(* The balance is the sum of the org's ledger: both move in one            *)
(* transaction in TryDeduct and in Grant.                                  *)
LedgerExplainsBalance == \A o \in Orgs : balance[o] = LedgerSum(o)

(* All that the store promises to the components that share it.            *)
CreditInv == CreditTypeOK /\ NeverOverdrawn /\ LedgerExplainsBalance
===============================================================================
