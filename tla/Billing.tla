------------------------------- MODULE Billing --------------------------------
(***************************************************************************)
(* Top-ups (internal/service/billing, adapter/payment, PaymentRepo):       *)
(* checkout creates a pending payment, the gateway calls back (IPN) any    *)
(* number of times, and the callback that moves the payment from pending   *)
(* to paid grants its credits.  Callbacks are handled concurrently.  Every *)
(* database or gateway call may fail, a committed statement's answer may   *)
(* be lost, and the process may crash between any two calls.               *)
(***************************************************************************)
EXTENDS CreditRepo

CONSTANTS
    Payments,      \* payment ids; a checkout takes a fresh one
    OrgOf,         \* OrgOf[p]: the org that checks out payment p
    Handlers,      \* concurrent requests to /webhooks/payment and /v1/dev/pay
    Configs,       \* the configurations the process may be started with
    Requests,      \* credit amounts clients ask for
    DefaultTopUp,  \* 100 in the code
    MaxTopUp,      \* 100000 in the code
    SignupGrant,   \* starter credits
    MaxCallbacks,  \* bound: callbacks posted
    MaxFaults,     \* bound: failures and crashes
    MaxDevCredits, \* bound: credits an org takes through dev top-ups
    NoPayment

ASSUME BillingAssumption ==
    /\ OrgOf \in [Payments -> Orgs]
    /\ Configs \subseteq [gateway : {"mock", "sslcommerz"}, dev : BOOLEAN]
    /\ Requests \subseteq Int
    /\ DefaultTopUp \in Nat \ {0}
    /\ MaxTopUp \in Nat \ {0}
    /\ DefaultTopUp <= MaxTopUp
    /\ SignupGrant \in Nat
    /\ MaxCallbacks \in Nat
    /\ MaxFaults \in Nat
    /\ MaxDevCredits \in Nat
    /\ NoPayment \notin Payments

VARIABLES
    config,     \* the payment gateway, and whether this is development mode,
                \* in which /v1/dev/pay and instant top-ups exist
    status,     \* payments.status, "absent" before the row exists
    credits,    \* payments.credits
    gw,         \* the gateway's own record of the transaction
    req,        \* each request handler: where it is, the tran_id and form it
                \* was called with, the status VerifyIPN returned
    callbacks,  \* callbacks posted so far
    faults,     \* failures so far
    grants,     \* history: Grant transactions committed for each payment
    topups,     \* history: credits granted to each org by dev top-ups
    acked       \* history: payments with a genuine callback answered 200

payVars == <<status, credits, gw>>
histVars == <<grants, topups, acked>>
vars == <<config, creditVars, payVars, req, callbacks, faults, histVars>>

Forms == {"paid", "failed", "bogus", "devpay"}
Genuine == {"paid", "failed"}

Request == [pc : {"idle", "verify", "settle", "grant"},
            ref : Payments \cup {NoPayment},
            form : Forms,
            res : {"paid", "failed"}]

NoRequest == [pc |-> "idle", ref |-> NoPayment, form |-> "bogus", res |-> "failed"]

BillingTypeOK ==
    /\ config \in Configs
    /\ CreditTypeOK
    /\ status \in [Payments -> {"absent", "pending", "paid", "failed"}]
    /\ credits \in [Payments -> 0..MaxTopUp]
    /\ gw \in [Payments -> {"none", "open", "charged", "declined"}]
    /\ req \in [Handlers -> Request]
    /\ callbacks \in 0..MaxCallbacks
    /\ faults \in 0..MaxFaults
    /\ grants \in [Payments -> Nat]
    /\ topups \in [Orgs -> Nat]
    /\ acked \in SUBSET Payments

Init ==
    /\ config \in Configs
    /\ Seeded(SignupGrant) \/ Unseeded
    /\ status = [p \in Payments |-> "absent"]
    /\ credits = [p \in Payments |-> 0]
    /\ gw = [p \in Payments |-> "none"]
    /\ req = [h \in Handlers |-> NoRequest]
    /\ callbacks = 0
    /\ faults = 0
    /\ grants = [p \in Payments |-> 0]
    /\ topups = [o \in Orgs |-> 0]
    /\ acked = {}

-------------------------------------------------------------------------------
(* Checkout and the customer at the gateway.                               *)

ClampCheckout(n) ==
    CASE n <= 0 -> DefaultTopUp
      [] n > MaxTopUp -> MaxTopUp
      [] OTHER -> n

(* PaymentRepo.Create.                                                     *)
Create(p, n) ==
    /\ status[p] = "absent"
    /\ status' = [status EXCEPT ![p] = "pending"]
    /\ credits' = [credits EXCEPT ![p] = n]

(* The hosted session; when the gateway refuses it the pending row stays.  *)
MockCheckout(p) == config.gateway = "mock" /\ UNCHANGED gw

SSLCheckout(p) ==
    /\ config.gateway = "sslcommerz"
    /\ \/ gw' = [gw EXCEPT ![p] = "open"]
       \/ UNCHANGED gw

Checkout(p, n) ==
    /\ Create(p, ClampCheckout(n))
    /\ MockCheckout(p) \/ SSLCheckout(p)
    /\ UNCHANGED <<creditVars, req, callbacks, faults, histVars>>

(* The customer's attempt to pay at the hosted page (external).            *)
CustomerPays(p) ==
    /\ gw[p] = "open"
    /\ gw' \in {[gw EXCEPT ![p] = o] : o \in {"charged", "declined"}}
    /\ UNCHANGED <<creditVars, status, credits, req, callbacks, faults,
                   histVars>>

-------------------------------------------------------------------------------
(* The callback handlers.                                                  *)

Begin(h, p, f) ==
    /\ req[h].pc = "idle"
    /\ callbacks < MaxCallbacks
    /\ callbacks' = callbacks + 1
    /\ req' = [req EXCEPT ![h] = [@ EXCEPT !.pc = "verify", !.ref = p, !.form = f]]
    /\ UNCHANGED <<creditVars, payVars, faults, histVars>>

(* ipn.  A val_id exists once the gateway has an outcome for the           *)
(* transaction; "bogus" is a callback without one, or with that of another *)
(* transaction.  The mock gateway's form is whatever the developer posts.  *)
IPN(h, p, f) ==
    /\ f # "devpay"
    /\ (config.gateway = "sslcommerz" /\ f \in Genuine) => gw[p] \in {"charged", "declined"}
    /\ Begin(h, p, f)

DevPay(h, p) ==
    /\ config.dev
    /\ Begin(h, p, "devpay")

(* The response.  ipn answers 200 whatever SettlePayment returned; devPay   *)
(* answers the developer's browser, not the gateway.                       *)
Reply(h) ==
    /\ req' = [req EXCEPT ![h] = NoRequest]
    /\ acked' = IF req[h].form \in Genuine THEN acked \cup {req[h].ref} ELSE acked

(* VerifyIPN of the two gateways: <<authentic, status>>.                   *)
MockVerifyIPN(h) ==
    <<TRUE, IF req[h].form = "failed" THEN "failed" ELSE "paid">>

SSLVerifyIPN(h) ==
    <<req[h].form \in Genuine, IF gw[req[h].ref] = "charged" THEN "paid" ELSE "failed">>

Verdict(h) == IF config.gateway = "mock" THEN MockVerifyIPN(h) ELSE SSLVerifyIPN(h)

VerifyIPN(h) ==
    /\ req[h].pc = "verify"
    /\ \/ /\ Verdict(h)[1]
          /\ req' = [req EXCEPT ![h] = [@ EXCEPT !.pc = "settle", !.res = Verdict(h)[2]]]
          /\ UNCHANGED acked
       \/ /\ ~Verdict(h)[1]
          /\ Reply(h)
    /\ UNCHANGED <<creditVars, payVars, callbacks, faults, grants,
                   topups>>

(* PaymentRepo.Settle: one UPDATE ... WHERE status = 'pending'.  When it   *)
(* matches no row the payment is settled already or unknown.               *)
\* Mutant: an UPDATE that forgets AND status = 'pending'.
Resettle(h) ==
    /\ status[req[h].ref] # "absent"
    /\ status' = [status EXCEPT ![req[h].ref] = req[h].res]

Transition(h) ==
    /\ status[req[h].ref] = "pending"
    /\ status' = [status EXCEPT ![req[h].ref] = req[h].res]

\* Mutant: grants whenever the row is paid, not only on the transition.
GrantOnReplay(h) ==
    /\ req[h].pc = "settle"
    /\ \/ Transition(h)
       \/ status[req[h].ref] = req[h].res /\ UNCHANGED status
    /\ IF req[h].res = "paid"
         THEN req' = [req EXCEPT ![h].pc = "grant"] /\ UNCHANGED acked
         ELSE Reply(h)
    /\ UNCHANGED <<creditVars, credits, gw, callbacks, faults,
                   grants, topups>>

\* Mutant: settles but never grants.
SettleOnly(h) ==
    /\ req[h].pc = "settle"
    /\ Transition(h) \/ (status[req[h].ref] # "pending" /\ UNCHANGED status)
    /\ Reply(h)
    /\ UNCHANGED <<creditVars, credits, gw, callbacks, faults,
                   grants, topups>>

SettlePayment(h) ==
    /\ req[h].pc = "settle"
    /\ \/ /\ Transition(h)
          /\ req[h].res = "paid"
          /\ req' = [req EXCEPT ![h].pc = "grant"]
          /\ UNCHANGED acked
       \/ /\ Transition(h)
          /\ req[h].res # "paid"
          /\ Reply(h)
       \/ /\ status[req[h].ref] # "pending"
          /\ Reply(h)
          /\ UNCHANGED status
    /\ UNCHANGED <<creditVars, credits, gw, callbacks, faults,
                   grants, topups>>

\* Mutant: grants the default pack instead of the payment's credits.
GrantDefault(h) ==
    /\ req[h].pc = "grant"
    /\ Grant(OrgOf[req[h].ref], DefaultTopUp, "topup")
    /\ grants' = [grants EXCEPT ![req[h].ref] = @ + 1]
    /\ Reply(h)
    /\ UNCHANGED <<payVars, callbacks, faults, topups>>

GrantCredits(h) ==
    /\ req[h].pc = "grant"
    /\ LET p == req[h].ref
           o == OrgOf[p]
       IN \/ /\ Grant(o, credits[p], "topup")
             /\ grants' = [grants EXCEPT ![p] = @ + 1]
          \/ /\ ~Fits(o, credits[p])
             /\ UNCHANGED <<creditVars, grants>>
    /\ Reply(h)
    /\ UNCHANGED <<payVars, callbacks, faults, topups>>

-------------------------------------------------------------------------------
(* Failures.  A failed call makes SettlePayment return the error, which    *)
(* ipn logs and acknowledges.  The mock gateway makes no call to fail.     *)

Fault == faults < MaxFaults /\ faults' = faults + 1

CallFails(h) ==
    /\ Fault
    /\ req[h].pc \in {"settle", "grant"} \/ (req[h].pc = "verify" /\ config.gateway = "sslcommerz")
    /\ Reply(h)
    /\ UNCHANGED <<creditVars, payVars, callbacks, grants, topups>>

(* The UPDATE of Settle commits but its answer is lost.                    *)
SettleAnswerLost(h) ==
    /\ Fault
    /\ req[h].pc = "settle"
    /\ Transition(h)
    /\ Reply(h)
    /\ UNCHANGED <<creditVars, credits, gw, callbacks, grants,
                   topups>>

Crash ==
    /\ Fault
    /\ \E h \in Handlers : req[h].pc # "idle"
    /\ req' = [h \in Handlers |-> NoRequest]
    /\ UNCHANGED <<creditVars, payVars, callbacks, histVars>>

-------------------------------------------------------------------------------
(* The other users of the credit store.                                    *)

ClampTopUp(n) == IF n <= 0 \/ n > MaxTopUp THEN DefaultTopUp ELSE n

TopUp(o, n) ==
    /\ config.dev
    /\ topups[o] + ClampTopUp(n) <= MaxDevCredits
    /\ Grant(o, ClampTopUp(n), "topup")
    /\ topups' = [topups EXCEPT ![o] = @ + ClampTopUp(n)]
    /\ UNCHANGED <<payVars, req, callbacks, faults, grants, acked>>

(* A call being metered (Calls.tla has the callers).                       *)
Spend(o) ==
    /\ TryDeduct(o, 1, "call")
    /\ UNCHANGED <<payVars, req, callbacks, faults, histVars>>

-------------------------------------------------------------------------------
Next ==
    /\ \/ \E p \in Payments, n \in Requests : Checkout(p, n)
       \/ \E p \in Payments : CustomerPays(p)
       \/ \E h \in Handlers, p \in Payments, f \in Forms : IPN(h, p, f)
       \/ \E h \in Handlers, p \in Payments : DevPay(h, p)
       \/ \E h \in Handlers : VerifyIPN(h)
       \/ \E h \in Handlers : SettlePayment(h)
       \/ \E h \in Handlers : GrantCredits(h)
       \/ \E h \in Handlers : CallFails(h)
       \/ \E h \in Handlers : SettleAnswerLost(h)
       \/ Crash
       \/ \E o \in Orgs, n \in Requests : TopUp(o, n)
       \/ \E o \in Orgs : Spend(o)
    /\ UNCHANGED config

Spec == Init /\ [][Next]_vars

-------------------------------------------------------------------------------
(* What the merchant is promised (TopUpContract): a payment whose Grant    *)
(* committed is credited; the handlers, the gateway and the failures       *)
(* disappear.                                                              *)
ContractPay ==
    [p \in Payments |-> CASE grants[p] > 0 -> "credited"
                          [] status[p] = "absent" -> "none"
                          [] OTHER -> status[p]]

Contract == INSTANCE TopUpContract
                WITH dev <- config.dev, pay <- ContractPay, amount <- credits, credit <- balance

(* Billing implements the contract: with any interleaving of callbacks and *)
(* failures a balance only ever rises by crediting a paid payment once.    *)
ImplementsContract == Contract!ContractSpec

-------------------------------------------------------------------------------
(* However many callbacks arrive, repeat or race, a payment's credits are  *)
(* granted at most once, and only for a payment that settled as paid       *)
(* (SettlePayment's transitioned check).                                   *)
CreditedAtMostOnce ==
    \A p \in Payments : grants[p] <= 1 /\ (grants[p] = 1 => status[p] = "paid")

(* With SSLCommerz, a payment settles as paid only if the customer was     *)
(* charged: VerifyIPN asks the gateway and never trusts the form.          *)
PaidOnlyIfCharged ==
    config.gateway = "sslcommerz" =>
        \A p \in Payments : status[p] = "paid" => gw[p] = "charged"

(* Between the UPDATE that settles a payment as paid and the Grant, the    *)
(* credit is in the hands of exactly one request, and has not been given   *)
(* before.                                                                 *)
GrantIsOwned ==
    /\ \A h \in Handlers : req[h].pc = "grant" =>
           status[req[h].ref] = "paid" /\ grants[req[h].ref] = 0
    /\ \A g, h \in Handlers :
           req[g].pc = "grant" /\ req[h].pc = "grant" /\ req[g].ref = req[h].ref => g = h

(* What VerifyIPN found out stays true until it is used: a request about   *)
(* to settle as paid is one whose customer was charged.                    *)
VerdictIsCurrent ==
    config.gateway = "sslcommerz" =>
        \A h \in Handlers :
            req[h].pc = "settle" /\ req[h].res = "paid" => gw[req[h].ref] = "charged"

RequestsAreNamed == \A h \in Handlers : req[h].pc # "idle" => req[h].ref \in Payments

AbsentIsUnknown == \A p \in Payments : status[p] = "absent" => gw[p] = "none"

(* The inductive invariant: with the credit's owner, the standing of the   *)
(* verdict and the gateway's ignorance of payments that do not exist, each *)
(* callback, failure or spend preserves what the store promises.           *)
BillingInv ==
    /\ BillingTypeOK
    /\ RequestsAreNamed
    /\ AbsentIsUnknown
    /\ GrantIsOwned
    /\ VerdictIsCurrent
    /\ CreditedAtMostOnce
    /\ PaidOnlyIfCharged
    /\ NeverOverdrawn
    /\ LedgerExplainsBalance

(* A settled payment never changes status or amount again, whatever        *)
(* callbacks come later.                                                   *)
SettledIsFinal ==
    [][\A p \in Payments : status[p] \in {"paid", "failed"} =>
            status'[p] = status[p] /\ credits'[p] = credits[p]]_vars

(* The comment on SettlePayment: the first callback that confirms a        *)
(* successful payment grants the credits.  Once no request is at work, a   *)
(* paid payment has its credits.                                           *)
PaidIsCredited ==
    (\A h \in Handlers : req[h].pc = "idle") =>
        \A p \in Payments : status[p] = "paid" => grants[p] = 1

(* A paid payment is left without its credits only by a failure or a crash *)
(* between Settle and Grant, or by a balance that would not fit the column *)
(* (Grant's rollback): until then a request has it in hand.  And a genuine *)
(* callback that ipn answered with 200, so that the gateway stops          *)
(* retrying, has settled its payment.                                      *)
InHand(p) == \E h \in Handlers : req[h].pc = "grant" /\ req[h].ref = p
Taken(o) == ledger[o]["signup_grant"] + ledger[o]["topup"]
Outgrown(p) == Taken(OrgOf[p]) + credits[p] > MaxBalance

LostOnlyByFailure ==
    faults = 0 =>
        \A p \in Payments :
            /\ config.gateway = "sslcommerz" /\ p \in acked => status[p] \in {"paid", "failed"}
            /\ status[p] = "paid" => grants[p] = 1 \/ InHand(p) \/ Outgrown(p)
===============================================================================
