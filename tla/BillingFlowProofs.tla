--------------------------- MODULE BillingFlowProofs --------------------------
(***************************************************************************)
(* Payments and flows.  The billing part: for any payments, orgs, handlers *)
(* and number of failures, a payment is credited at most once and only if  *)
(* it was charged, it is left without its credits only by a failure or for *)
(* lack of room, and billing implements its contract.  The flow part:      *)
(* sessions and the simulator, for every flow the builder accepts.         *)
(***************************************************************************)
EXTENDS Billing, FlowEngine, TLAPS

(* What the credit store's transactions preserve, for any orgs, amounts    *)
(* and column width.                                                       *)

(* A store as Seeded or Unseeded leaves it satisfies CreditInv.            *)
LEMMA CreditInit ==
    ASSUME NEW g \in Nat, Seeded(g) \/ Unseeded
    PROVE  CreditInv
<1>1. account \in [Orgs -> BOOLEAN]
  BY Zenon DEF Seeded, Unseeded
<1>2. CASE Seeded(g)
  <2>1. balance \in [Orgs -> Int] /\ ledger \in [Orgs -> [Reasons -> Int]]
    BY <1>2 DEF Seeded, Reasons
  <2>2. ASSUME NEW o \in Orgs
        PROVE  balance[o] = g /\ LedgerSum(o) = g
    <3>1. balance[o] = g /\ ledger[o] = [r \in Reasons |-> IF r = "signup_grant" THEN g ELSE 0]
      BY Zenon, <1>2 DEF Seeded
    <3>2. /\ ledger[o]["signup_grant"] = g
          /\ ledger[o]["topup"] = 0
          /\ ledger[o]["call"] = 0
      BY Zenon, <3>1 DEF Reasons
    <3>3. QED BY <3>1, <3>2 DEF LedgerSum
  <2>3. QED
    BY <1>1, <2>1, <2>2 DEF CreditInv, CreditTypeOK, NeverOverdrawn, LedgerExplainsBalance
<1>3. CASE Unseeded
  <2>1. balance \in [Orgs -> Int] /\ ledger \in [Orgs -> [Reasons -> Int]]
    BY <1>3 DEF Unseeded, Reasons
  <2>2. ASSUME NEW o \in Orgs
        PROVE  balance[o] = 0 /\ LedgerSum(o) = 0
    <3>1. balance[o] = 0 /\ ledger[o] = [r \in Reasons |-> 0]
      BY Zenon, <1>3 DEF Unseeded
    <3>2. /\ ledger[o]["signup_grant"] = 0
          /\ ledger[o]["topup"] = 0
          /\ ledger[o]["call"] = 0
      BY Zenon, <3>1 DEF Reasons
    <3>3. QED BY <3>1, <3>2 DEF LedgerSum
  <2>3. QED
    BY <1>1, <2>1, <2>2 DEF CreditInv, CreditTypeOK, NeverOverdrawn, LedgerExplainsBalance
<1>4. QED BY Zenon, <1>2, <1>3

(* AddLedger moves the sum of one org's ledger by the delta, and no other. *)
LEMMA AddLedgerSum ==
    ASSUME CreditTypeOK, NEW o \in Orgs, NEW d \in Int, NEW r \in Reasons,
           AddLedger(o, d, r)
    PROVE  /\ ledger' \in [Orgs -> [Reasons -> Int]]
           /\ \A q \in Orgs : LedgerSum(q)' = LedgerSum(q) + (IF q = o THEN d ELSE 0)
<1>1. ledger' \in [Orgs -> [Reasons -> Int]]
  BY DEF CreditTypeOK, AddLedger
<1>2. ASSUME NEW q \in Orgs
      PROVE  LedgerSum(q)' = LedgerSum(q) + (IF q = o THEN d ELSE 0)
  <2>1. CASE q # o
    <3>1. ledger'[q] = ledger[q]
      BY Zenon, <2>1 DEF CreditTypeOK, AddLedger
    <3>2. ledger[q] \in [Reasons -> Int]
      BY Zenon DEF CreditTypeOK
    <3>3. QED BY <2>1, <3>1, <3>2 DEF LedgerSum, Reasons
  <2>2. CASE q = o
    <3>1. ledger'[o] = [ledger[o] EXCEPT ![r] = @ + d]
      BY Zenon DEF CreditTypeOK, AddLedger
    <3>2. ledger[o] \in [Reasons -> Int]
      BY Zenon DEF CreditTypeOK
    <3>3. QED BY <2>2, <3>1, <3>2 DEF LedgerSum, Reasons
  <2>3. QED BY Zenon, <2>1, <2>2
<1>3. QED BY Zenon, <1>1, <1>2

(* Grant keeps balances covered and explained.                             *)
LEMMA GrantPreserves ==
    ASSUME CreditInv, NEW o \in Orgs, NEW n \in Nat, NEW r \in Reasons, Grant(o, n, r)
    PROVE  CreditInv'
<1>1. \A q \in Orgs : LedgerSum(q)' = LedgerSum(q) + (IF q = o THEN n ELSE 0)
  BY AddLedgerSum DEF CreditInv, Grant
<1>2. CreditTypeOK'
  BY AddLedgerSum DEF CreditInv, CreditTypeOK, Grant, EnsureCreditAccount, AdjustBalance
<1>3. \A q \in Orgs : balance'[q] = balance[q] + (IF q = o THEN n ELSE 0)
  BY DEF CreditInv, CreditTypeOK, Grant, AdjustBalance
<1>4. \A q \in Orgs : balance[q] \in Int
  BY Zenon DEF CreditInv, CreditTypeOK
<1>5. NeverOverdrawn'
  BY <1>3, <1>4 DEF CreditInv, NeverOverdrawn
<1>6. LedgerExplainsBalance'
  BY Zenon, <1>1, <1>3 DEF CreditInv, LedgerExplainsBalance
<1>7. QED BY Zenon, <1>2, <1>5, <1>6 DEF CreditInv

(* TryDeduct keeps balances covered and explained: the amount is checked   *)
(* by the UPDATE itself.                                                   *)
LEMMA TryDeductPreserves ==
    ASSUME CreditInv, NEW o \in Orgs, NEW n \in Nat, NEW r \in Reasons, TryDeduct(o, n, r)
    PROVE  CreditInv'
<1>1. \A q \in Orgs : LedgerSum(q)' = LedgerSum(q) + (IF q = o THEN -n ELSE 0)
  <2>1. -n \in Int
    OBVIOUS
  <2>2. QED BY Zenon, <2>1, AddLedgerSum DEF CreditInv, TryDeduct
<1>2. CreditTypeOK'
  <2>1. -n \in Int
    OBVIOUS
  <2>2. QED BY <2>1, AddLedgerSum DEF CreditInv, CreditTypeOK, TryDeduct, TryDeductBalance
<1>3. \A q \in Orgs : balance'[q] = balance[q] + (IF q = o THEN -n ELSE 0)
  BY DEF CreditInv, CreditTypeOK, TryDeduct, TryDeductBalance
<1>4. \A q \in Orgs : balance[q] \in Int
  BY Zenon DEF CreditInv, CreditTypeOK
<1>5. NeverOverdrawn'
  BY <1>3, <1>4 DEF CreditInv, NeverOverdrawn, TryDeduct, TryDeductBalance, Covers
<1>6. LedgerExplainsBalance'
  BY Zenon, <1>1, <1>3 DEF CreditInv, LedgerExplainsBalance
<1>7. QED BY Zenon, <1>2, <1>5, <1>6 DEF CreditInv

(* CreditInv speaks of nothing but the store.                              *)
LEMMA CreditUnchanged ==
    ASSUME CreditInv, UNCHANGED creditVars
    PROVE  CreditInv'
BY Zenon DEF CreditInv, CreditTypeOK, NeverOverdrawn, LedgerExplainsBalance, LedgerSum, creditVars

-------------------------------------------------------------------------------
(* The rest of BillingInv, beside what the credit store keeps.             *)
PayTypeOK ==
    /\ status \in [Payments -> {"absent", "pending", "paid", "failed"}]
    /\ credits \in [Payments -> 0..MaxTopUp]
    /\ gw \in [Payments -> {"none", "open", "charged", "declined"}]
    /\ grants \in [Payments -> Nat]

ReqTypeOK ==
    /\ req \in [Handlers -> Request]
    /\ acked \in SUBSET Payments

CountTypeOK ==
    /\ config \in Configs
    /\ callbacks \in 0..MaxCallbacks
    /\ faults \in 0..MaxFaults
    /\ topups \in [Orgs -> Nat]

PayInv ==
    /\ AbsentIsUnknown
    /\ GrantIsOwned
    /\ VerdictIsCurrent
    /\ CreditedAtMostOnce
    /\ PaidOnlyIfCharged

(* BillingInv is the store's invariant and those parts.                    *)
LEMMA BillingInvParts ==
    BillingInv <=> /\ CreditInv
                   /\ PayTypeOK /\ ReqTypeOK /\ CountTypeOK
                   /\ RequestsAreNamed
                   /\ PayInv
BY Zenon DEF BillingInv, BillingTypeOK, CreditInv, PayTypeOK, ReqTypeOK, CountTypeOK, PayInv

(* Checkout and TopUp only ever deal in a positive amount within limits.   *)
LEMMA ClampRange ==
    ASSUME NEW n \in Requests
    PROVE  /\ ClampCheckout(n) \in 1..MaxTopUp
           /\ ClampTopUp(n) \in 1..MaxTopUp
<1>1. n \in Int /\ DefaultTopUp \in 1..MaxTopUp /\ MaxTopUp \in Nat \ {0}
  BY BillingAssumption
<1>2. QED BY <1>1 DEF ClampCheckout, ClampTopUp

(* The reply of a request at work frees its handler and acknowledges at    *)
(* most its own payment.                                                   *)
LEMMA ReplyFrees ==
    ASSUME ReqTypeOK, RequestsAreNamed, NEW h \in Handlers, req[h].pc # "idle", Reply(h)
    PROVE  /\ ReqTypeOK'
           /\ RequestsAreNamed'
           /\ req'[h].pc = "idle"
           /\ \A g \in Handlers : g # h => req'[g] = req[g]
<1>1. NoRequest \in Request /\ NoRequest.pc = "idle"
  BY Zenon DEF NoRequest, Request, Forms
<1>2. req' = [req EXCEPT ![h] = NoRequest]
  BY Zenon DEF Reply
<1>3. req' \in [Handlers -> Request]
  BY Zenon, <1>1, <1>2 DEF ReqTypeOK
<1>4. req'[h].pc = "idle" /\ \A g \in Handlers : g # h => req'[g] = req[g]
  BY Zenon, <1>1, <1>2 DEF ReqTypeOK
<1>5. acked' \in SUBSET Payments
  BY Zenon DEF Reply, ReqTypeOK, RequestsAreNamed
<1>6. RequestsAreNamed'
  BY Zenon, <1>4 DEF RequestsAreNamed
<1>7. QED BY Zenon, <1>3, <1>4, <1>5, <1>6 DEF ReqTypeOK

(* Moving a request's label, or its label and verdict, leaves a request    *)
(* for the same payment.                                                   *)
LEMMA RequestFields ==
    ASSUME NEW q \in Request, NEW l \in {"verify", "settle", "grant"},
           NEW r \in {"paid", "failed"}
    PROVE  LET m == [q EXCEPT !.pc = l]
               n == [q EXCEPT !.pc = l, !.res = r]
           IN  /\ m \in Request /\ m.pc = l /\ m.ref = q.ref /\ m.res = q.res
               /\ n \in Request /\ n.pc = l /\ n.ref = q.ref /\ n.res = r
BY Zenon DEF Request

(* A request that becomes another one for a known payment disturbs no      *)
(* other.                                                                  *)
LEMMA GoesOn ==
    ASSUME ReqTypeOK, RequestsAreNamed, NEW h \in Handlers,
           NEW q \in Request, q.ref \in Payments,
           req' = [req EXCEPT ![h] = q], UNCHANGED acked
    PROVE  /\ ReqTypeOK'
           /\ RequestsAreNamed'
           /\ req'[h] = q
           /\ \A g \in Handlers : g # h => req'[g] = req[g]
<1>1. req'[h] = q /\ \A g \in Handlers : g # h => req'[g] = req[g]
  BY Zenon DEF ReqTypeOK
<1>2. ReqTypeOK'
  BY Zenon DEF ReqTypeOK
<1>3. RequestsAreNamed'
  BY Zenon, <1>1 DEF RequestsAreNamed
<1>4. QED BY Zenon, <1>1, <1>2, <1>3

(* Requests that end, or that have not come to settle, do not matter to    *)
(* the payments.                                                           *)
LEMMA PayInvKept ==
    ASSUME PayInv, UNCHANGED <<config, status, gw, grants>>,
           \A g \in Handlers : req'[g] = req[g] \/ req'[g].pc \in {"idle", "verify"}
    PROVE  PayInv'
<1>1. AbsentIsUnknown' /\ CreditedAtMostOnce' /\ PaidOnlyIfCharged'
  BY Zenon DEF PayInv, AbsentIsUnknown, CreditedAtMostOnce, PaidOnlyIfCharged
<1>2. GrantIsOwned'
  BY DEF PayInv, GrantIsOwned
<1>3. VerdictIsCurrent'
  BY Zenon DEF PayInv, VerdictIsCurrent
<1>4. QED BY Zenon, <1>1, <1>2, <1>3 DEF PayInv

(* The UPDATE of Settle, by a request that then ends or goes on to grant.  *)
LEMMA TransitionPreserves ==
    ASSUME PayTypeOK, ReqTypeOK, PayInv, NEW h \in Handlers,
           req[h].ref \in Payments, req[h].pc = "settle",
           Transition(h), UNCHANGED <<config, credits, gw, grants>>,
           \A g \in Handlers : g # h => req'[g] = req[g],
           \/ req'[h].pc = "idle"
           \/ req[h].res = "paid" /\ req'[h].pc = "grant" /\ req'[h].ref = req[h].ref
    PROVE  PayTypeOK' /\ PayInv'
<1> DEFINE p == req[h].ref
<1>0. p \in Payments /\ req[h].res \in {"paid", "failed"}
  BY Zenon DEF ReqTypeOK, Request
<1>1. /\ status[p] = "pending" /\ status'[p] = req[h].res
      /\ \A q \in Payments : q # p => status'[q] = status[q]
  BY Zenon, <1>0 DEF Transition, PayTypeOK
<1>2. PayTypeOK'
  BY Zenon, <1>0 DEF Transition, PayTypeOK
<1>3. \A g \in Handlers : req[g].pc = "grant" => req[g].ref # p
  BY Zenon, <1>1 DEF PayInv, GrantIsOwned
<1>4. grants[p] = 0
  BY <1>0, <1>1 DEF PayInv, CreditedAtMostOnce, PayTypeOK
<1> HIDE DEF p
<1>5. AbsentIsUnknown'
  BY Zenon, <1>0, <1>1 DEF PayInv, AbsentIsUnknown
<1>6. GrantIsOwned'
  <2>1. ASSUME NEW g \in Handlers, req'[g].pc = "grant"
        PROVE  status'[req'[g].ref] = "paid" /\ grants'[req'[g].ref] = 0
    <3>1. CASE g = h
      BY Zenon, <2>1, <3>1, <1>1, <1>4 DEF p
    <3>2. CASE g # h
      <4>1. req'[g] = req[g] /\ req[g].ref # p
        BY Zenon, <2>1, <3>2, <1>3
      <4>2. status[req[g].ref] = "paid" /\ grants[req[g].ref] = 0
        BY Zenon, <2>1, <4>1 DEF PayInv, GrantIsOwned
      <4>3. status'[req[g].ref] = status[req[g].ref]
        BY <4>1 DEF Transition, PayTypeOK, p
      <4>4. QED BY Zenon, <4>1, <4>2, <4>3
    <3>3. QED BY Zenon, <3>1, <3>2
  <2>2. ASSUME NEW f \in Handlers, NEW g \in Handlers,
               req'[f].pc = "grant", req'[g].pc = "grant", req'[f].ref = req'[g].ref
        PROVE  f = g
    BY <2>2, <1>3 DEF PayInv, GrantIsOwned, p
  <2>3. QED BY Zenon, <2>1, <2>2 DEF GrantIsOwned
<1>7. VerdictIsCurrent'
  BY Zenon DEF PayInv, VerdictIsCurrent
<1>8. CreditedAtMostOnce'
  BY Zenon, <1>0, <1>1, <1>4 DEF PayInv, CreditedAtMostOnce
<1>9. PaidOnlyIfCharged'
  BY Zenon, <1>0, <1>1 DEF PayInv, PaidOnlyIfCharged, VerdictIsCurrent, p
<1>10. QED BY Zenon, <1>2, <1>5, <1>6, <1>7, <1>8, <1>9 DEF PayInv

-------------------------------------------------------------------------------
(* The initial states satisfy the invariant.                               *)
LEMMA InitBilling == Init => BillingInv
<1> SUFFICES ASSUME Init PROVE BillingInv
  BY Zenon
<1>1. CreditInv
  BY Zenon, CreditInit, BillingAssumption DEF Init
<1>2. NoRequest \in Request /\ NoRequest.pc = "idle"
  BY Zenon DEF NoRequest, Request, Forms
<1>3. PayTypeOK /\ CountTypeOK
  BY BillingAssumption DEF Init, PayTypeOK, CountTypeOK
<1>4. ReqTypeOK /\ RequestsAreNamed
  BY Zenon, <1>2 DEF Init, ReqTypeOK, RequestsAreNamed
<1>5. PayInv
  BY <1>2 DEF Init, PayInv, AbsentIsUnknown, GrantIsOwned, VerdictIsCurrent,
              CreditedAtMostOnce, PaidOnlyIfCharged
<1>6. QED BY Zenon, <1>1, <1>3, <1>4, <1>5, BillingInvParts

(* Every step preserves the invariant.                                     *)
LEMMA NextBilling == BillingInv /\ [Next]_vars => BillingInv'
<1> SUFFICES ASSUME BillingInv, [Next]_vars PROVE BillingInv'
  BY Zenon
<1>0. /\ CreditInv /\ PayTypeOK /\ ReqTypeOK /\ CountTypeOK /\ RequestsAreNamed /\ PayInv
      /\ config' = config
  BY Zenon, BillingInvParts DEF Next, vars
<1> DEFINE Goal == /\ CreditInv' /\ PayTypeOK' /\ ReqTypeOK' /\ CountTypeOK'
                   /\ RequestsAreNamed' /\ PayInv'
<1>1. ASSUME NEW p \in Payments, NEW n \in Requests, Checkout(p, n) PROVE Goal
  <2>1. /\ status[p] = "absent" /\ status'[p] = "pending" /\ gw[p] = "none"
        /\ \A q \in Payments : q # p => status'[q] = status[q] /\ gw'[q] = gw[q]
    BY Zenon, <1>0, <1>1 DEF Checkout, Create, MockCheckout, SSLCheckout, PayTypeOK, PayInv,
                      AbsentIsUnknown
  <2>2. CreditInv'
    BY Zenon, <1>0, <1>1, CreditUnchanged DEF Checkout
  <2>3. PayTypeOK'
    BY <1>0, <1>1, ClampRange DEF Checkout, Create, MockCheckout, SSLCheckout, PayTypeOK,
                                  histVars
  <2>4. ReqTypeOK' /\ CountTypeOK' /\ RequestsAreNamed'
    BY Zenon, <1>0, <1>1 DEF Checkout, histVars, ReqTypeOK, CountTypeOK, RequestsAreNamed
  <2>5. UNCHANGED <<req, grants>>
    BY Zenon, <1>1 DEF Checkout, histVars
  <2>6. AbsentIsUnknown' /\ CreditedAtMostOnce' /\ PaidOnlyIfCharged'
    BY Zenon, <1>0, <2>1, <2>5 DEF PayInv, AbsentIsUnknown, CreditedAtMostOnce, PaidOnlyIfCharged
  <2>7. GrantIsOwned' /\ VerdictIsCurrent'
    BY Zenon, <1>0, <2>1, <2>5 DEF PayInv, GrantIsOwned, VerdictIsCurrent, RequestsAreNamed
  <2>8. QED BY Zenon, <2>2, <2>3, <2>4, <2>6, <2>7 DEF PayInv
<1>2. ASSUME NEW p \in Payments, CustomerPays(p) PROVE Goal
  <2>1. /\ gw[p] = "open"
        /\ \A q \in Payments : q # p => gw'[q] = gw[q]
    BY Zenon, <1>0, <1>2 DEF CustomerPays, PayTypeOK
  <2>2. CreditInv'
    BY Zenon, <1>0, <1>2, CreditUnchanged DEF CustomerPays
  <2>3. PayTypeOK' /\ ReqTypeOK' /\ CountTypeOK' /\ RequestsAreNamed'
    BY Zenon, <1>0, <1>2 DEF CustomerPays, histVars, PayTypeOK, ReqTypeOK, CountTypeOK,
                      RequestsAreNamed
  <2>4. UNCHANGED <<status, req, grants>>
    BY Zenon, <1>2 DEF CustomerPays, histVars
  <2>5. AbsentIsUnknown' /\ CreditedAtMostOnce' /\ PaidOnlyIfCharged'
    BY Zenon, <1>0, <2>1, <2>4 DEF PayInv, AbsentIsUnknown, CreditedAtMostOnce, PaidOnlyIfCharged
  <2>6. GrantIsOwned' /\ VerdictIsCurrent'
    BY Zenon, <1>0, <2>1, <2>4 DEF PayInv, GrantIsOwned, VerdictIsCurrent, RequestsAreNamed
  <2>7. QED BY Zenon, <2>2, <2>3, <2>5, <2>6 DEF PayInv
<1>3. ASSUME NEW h \in Handlers, NEW p \in Payments, NEW f \in Forms, Begin(h, p, f)
      PROVE  Goal
  <2> DEFINE q == [req[h] EXCEPT !.pc = "verify", !.ref = p, !.form = f]
  <2>1. q \in Request /\ q.pc = "verify" /\ q.ref = p
    BY Zenon, <1>0 DEF ReqTypeOK, Request
  <2>2. req' = [req EXCEPT ![h] = q] /\ UNCHANGED acked
    BY Zenon, <1>3 DEF Begin, histVars
  <2> HIDE DEF q
  <2>3. /\ ReqTypeOK' /\ RequestsAreNamed' /\ req'[h] = q
        /\ \A g \in Handlers : g # h => req'[g] = req[g]
    BY Zenon, <1>0, <2>1, <2>2, GoesOn
  <2>4. CreditInv'
    BY Zenon, <1>0, <1>3, CreditUnchanged DEF Begin
  <2>5. PayTypeOK' /\ CountTypeOK'
    BY <1>0, <1>3, BillingAssumption DEF Begin, payVars, histVars, PayTypeOK, CountTypeOK
  <2>6. PayInv'
    <3>1. UNCHANGED <<status, gw, grants>>
      BY Zenon, <1>3 DEF Begin, payVars, histVars
    <3>2. \A g \in Handlers : req'[g] = req[g] \/ req'[g].pc \in {"idle", "verify"}
      BY Zenon, <2>1, <2>3
    <3>3. QED BY Zenon, <1>0, <3>1, <3>2, PayInvKept
  <2>7. QED BY Zenon, <2>3, <2>4, <2>5, <2>6
<1>4. ASSUME NEW h \in Handlers, VerifyIPN(h) PROVE Goal
  <2>1. CreditInv'
    BY Zenon, <1>0, <1>4, CreditUnchanged DEF VerifyIPN
  <2>2. PayTypeOK' /\ CountTypeOK' /\ UNCHANGED <<status, gw, grants>>
    BY Zenon, <1>0, <1>4 DEF VerifyIPN, payVars, PayTypeOK, CountTypeOK
  <2>3. CASE Verdict(h)[1]
    <3> DEFINE v == Verdict(h)[2]
               q == [req[h] EXCEPT !.pc = "settle", !.res = v]
    <3>1. req' = [req EXCEPT ![h] = q] /\ UNCHANGED acked /\ req[h].pc = "verify"
      BY Zenon, <1>4, <2>3 DEF VerifyIPN
    <3>2. /\ v \in {"paid", "failed"}
          /\ config.gateway = "sslcommerz" /\ v = "paid" => gw[req[h].ref] = "charged"
      BY Zenon DEF Verdict, MockVerifyIPN, SSLVerifyIPN
    <3> HIDE DEF v
    <3>3. q \in Request /\ q.pc = "settle" /\ q.ref = req[h].ref /\ q.res = v
      <4>1. req[h] \in Request
        BY Zenon, <1>0 DEF ReqTypeOK
      <4>2. QED BY Zenon, <3>2, <4>1 DEF Request
    <3>4. req[h].ref \in Payments
      BY Zenon, <1>0, <3>1 DEF RequestsAreNamed
    <3> HIDE DEF q
    <3>5. /\ ReqTypeOK' /\ RequestsAreNamed' /\ req'[h] = q
          /\ \A g \in Handlers : g # h => req'[g] = req[g]
      BY Zenon, <1>0, <3>1, <3>3, <3>4, GoesOn
    <3>6. AbsentIsUnknown' /\ CreditedAtMostOnce' /\ PaidOnlyIfCharged'
      BY Zenon, <1>0, <2>2 DEF PayInv, AbsentIsUnknown, CreditedAtMostOnce, PaidOnlyIfCharged
    <3>7. GrantIsOwned'
      BY <1>0, <2>2, <3>3, <3>5 DEF PayInv, GrantIsOwned
    <3>8. VerdictIsCurrent'
      BY Zenon, <1>0, <2>2, <3>2, <3>3, <3>5 DEF PayInv, VerdictIsCurrent
    <3>9. QED BY Zenon, <2>1, <2>2, <3>5, <3>6, <3>7, <3>8 DEF PayInv
  <2>4. CASE ~Verdict(h)[1]
    <3>1. Reply(h) /\ req[h].pc = "verify"
      BY Zenon, <1>4, <2>4 DEF VerifyIPN
    <3>2. QED BY Zenon, <1>0, <2>1, <2>2, <3>1, ReplyFrees, PayInvKept
  <2>5. QED BY Zenon, <2>3, <2>4
<1>5. ASSUME NEW h \in Handlers, SettlePayment(h) PROVE Goal
  <2>1. req[h].pc = "settle" /\ req[h].ref \in Payments /\ req[h] \in Request
    BY Zenon, <1>0, <1>5 DEF SettlePayment, RequestsAreNamed, ReqTypeOK
  <2>2. CreditInv' /\ CountTypeOK' /\ UNCHANGED <<credits, gw, grants>>
    BY Zenon, <1>0, <1>5, CreditUnchanged DEF SettlePayment, CountTypeOK
  <2>3. CASE Transition(h) /\ req[h].res = "paid"
             /\ req' = [req EXCEPT ![h].pc = "grant"] /\ UNCHANGED acked
    <3> DEFINE q == [req[h] EXCEPT !.pc = "grant"]
    <3>1. q \in Request /\ q.pc = "grant" /\ q.ref = req[h].ref
      BY Zenon, <2>1 DEF Request
    <3>2. req' = [req EXCEPT ![h] = q]
      BY Zenon, <2>3
    <3> HIDE DEF q
    <3>3. /\ ReqTypeOK' /\ RequestsAreNamed' /\ req'[h] = q
          /\ \A g \in Handlers : g # h => req'[g] = req[g]
      BY Zenon, <1>0, <2>1, <2>3, <3>1, <3>2, GoesOn
    <3>4. PayTypeOK' /\ PayInv'
      BY Zenon, <1>0, <2>1, <2>2, <2>3, <3>1, <3>3, TransitionPreserves
    <3>5. QED BY Zenon, <2>2, <3>3, <3>4
  <2>4. CASE Transition(h) /\ Reply(h)
    <3>1. /\ ReqTypeOK' /\ RequestsAreNamed' /\ req'[h].pc = "idle"
          /\ \A g \in Handlers : g # h => req'[g] = req[g]
      BY Zenon, <1>0, <2>1, <2>4, ReplyFrees
    <3>2. PayTypeOK' /\ PayInv'
      BY Zenon, <1>0, <2>1, <2>2, <2>4, <3>1, TransitionPreserves
    <3>3. QED BY Zenon, <2>2, <3>1, <3>2
  <2>5. CASE Reply(h) /\ UNCHANGED status
    <3>1. PayTypeOK'
      BY Zenon, <1>0, <2>2, <2>5 DEF PayTypeOK
    <3>2. QED BY Zenon, <1>0, <2>1, <2>2, <2>5, <3>1, ReplyFrees, PayInvKept
  <2>6. QED BY Zenon, <1>5, <2>3, <2>4, <2>5 DEF SettlePayment
<1>6. ASSUME NEW h \in Handlers, GrantCredits(h) PROVE Goal
  <2> DEFINE p == req[h].ref
  <2>1. req[h].pc = "grant" /\ p \in Payments /\ status[p] = "paid" /\ grants[p] = 0
    BY Zenon, <1>0, <1>6 DEF GrantCredits, RequestsAreNamed, PayInv, GrantIsOwned
  <2>2. OrgOf[p] \in Orgs /\ credits[p] \in Nat /\ "topup" \in Reasons
    BY <1>0, <2>1, BillingAssumption DEF PayTypeOK, Reasons
  <2>3. /\ ReqTypeOK' /\ RequestsAreNamed' /\ req'[h].pc = "idle"
        /\ \A g \in Handlers : g # h => req'[g] = req[g]
    BY Zenon, <1>0, <1>6, <2>1, ReplyFrees DEF GrantCredits
  <2>4. CountTypeOK' /\ UNCHANGED <<status, credits, gw>>
    BY Zenon, <1>0, <1>6 DEF GrantCredits, payVars, CountTypeOK
  <2>5. CASE Grant(OrgOf[p], credits[p], "topup") /\ grants' = [grants EXCEPT ![p] = @ + 1]
    <3>1. CreditInv'
      BY Zenon, <1>0, <2>2, <2>5, GrantPreserves
    <3>2. PayTypeOK'
      BY <1>0, <2>1, <2>4, <2>5 DEF PayTypeOK
    <3>3. grants'[p] = 1 /\ \A q \in Payments : q # p => grants'[q] = grants[q]
      BY <1>0, <2>1, <2>5 DEF PayTypeOK
    <3> HIDE DEF p
    <3>4. AbsentIsUnknown' /\ CreditedAtMostOnce' /\ PaidOnlyIfCharged'
      BY <1>0, <2>1, <2>4, <3>3 DEF PayInv, AbsentIsUnknown, CreditedAtMostOnce,
                                    PaidOnlyIfCharged
    <3>5. \A g \in Handlers : g # h /\ req[g].pc = "grant" => req[g].ref # p
      BY Zenon, <1>0, <2>1 DEF PayInv, GrantIsOwned, p
    <3>6. GrantIsOwned'
      BY <1>0, <2>3, <2>4, <3>3, <3>5 DEF PayInv, GrantIsOwned, RequestsAreNamed
    <3>7. VerdictIsCurrent'
      BY Zenon, <1>0, <2>3, <2>4 DEF PayInv, VerdictIsCurrent
    <3>8. QED BY Zenon, <2>3, <2>4, <3>1, <3>2, <3>4, <3>6, <3>7 DEF PayInv
  <2>6. CASE UNCHANGED <<creditVars, grants>>
    <3>1. CreditInv' /\ PayTypeOK'
      BY Zenon, <1>0, <2>4, <2>6, CreditUnchanged DEF PayTypeOK
    <3>2. QED BY Zenon, <1>0, <2>3, <2>4, <2>6, <3>1, PayInvKept
  <2>7. QED BY Zenon, <1>6, <2>5, <2>6 DEF GrantCredits
<1>7. ASSUME NEW h \in Handlers, CallFails(h) PROVE Goal
  <2>1. req[h].pc # "idle" /\ Reply(h)
    BY Zenon, <1>7 DEF CallFails
  <2>2. CreditInv' /\ PayTypeOK' /\ CountTypeOK' /\ UNCHANGED <<status, gw, grants>>
    BY <1>0, <1>7, CreditUnchanged, BillingAssumption
       DEF CallFails, Fault, payVars, PayTypeOK, CountTypeOK
  <2>3. QED BY Zenon, <1>0, <2>1, <2>2, ReplyFrees, PayInvKept
<1>8. ASSUME NEW h \in Handlers, SettleAnswerLost(h) PROVE Goal
  <2>1. /\ req[h].pc = "settle" /\ req[h].ref \in Payments
        /\ Transition(h) /\ Reply(h)
    BY Zenon, <1>0, <1>8 DEF SettleAnswerLost, RequestsAreNamed
  <2>2. CreditInv' /\ CountTypeOK' /\ UNCHANGED <<credits, gw, grants>>
    BY <1>0, <1>8, CreditUnchanged, BillingAssumption DEF SettleAnswerLost, Fault, CountTypeOK
  <2>3. /\ ReqTypeOK' /\ RequestsAreNamed' /\ req'[h].pc = "idle"
        /\ \A g \in Handlers : g # h => req'[g] = req[g]
    BY Zenon, <1>0, <2>1, ReplyFrees
  <2>4. PayTypeOK' /\ PayInv'
    BY Zenon, <1>0, <2>1, <2>2, <2>3, TransitionPreserves
  <2>5. QED BY Zenon, <2>2, <2>3, <2>4
<1>9. ASSUME Crash PROVE Goal
  <2>1. NoRequest \in Request /\ NoRequest.pc = "idle"
    BY Zenon DEF NoRequest, Request, Forms
  <2>2. ReqTypeOK' /\ RequestsAreNamed' /\ \A g \in Handlers : req'[g].pc = "idle"
    BY Zenon, <1>0, <1>9, <2>1 DEF Crash, histVars, ReqTypeOK, RequestsAreNamed
  <2>3. CreditInv' /\ PayTypeOK' /\ CountTypeOK' /\ UNCHANGED <<status, gw, grants>>
    BY <1>0, <1>9, CreditUnchanged, BillingAssumption
       DEF Crash, Fault, payVars, histVars, PayTypeOK, CountTypeOK
  <2>4. QED BY Zenon, <1>0, <2>2, <2>3, PayInvKept
<1>10. ASSUME NEW o \in Orgs, NEW n \in Requests, TopUp(o, n) PROVE Goal
  <2>1. ClampTopUp(n) \in Nat /\ "topup" \in Reasons
    BY ClampRange DEF Reasons
  <2>2. CreditInv'
    BY Zenon, <1>0, <1>10, <2>1, GrantPreserves DEF TopUp
  <2>3. PayTypeOK' /\ ReqTypeOK' /\ RequestsAreNamed' /\ CountTypeOK'
    BY <1>0, <1>10, <2>1
       DEF TopUp, payVars, PayTypeOK, ReqTypeOK, RequestsAreNamed, CountTypeOK
  <2>4. UNCHANGED <<status, gw, grants, req>>
    BY Zenon, <1>10 DEF TopUp, payVars
  <2>5. QED BY Zenon, <1>0, <2>2, <2>3, <2>4, PayInvKept
<1>11. ASSUME NEW o \in Orgs, Spend(o) PROVE Goal
  <2>1. CreditInv'
    BY Zenon, <1>0, <1>11, TryDeductPreserves DEF Spend, Reasons
  <2>2. UNCHANGED <<status, credits, gw, grants, req, callbacks, faults, topups, acked>>
    BY Zenon, <1>11 DEF Spend, payVars, histVars
  <2>3. PayTypeOK' /\ ReqTypeOK' /\ RequestsAreNamed' /\ CountTypeOK'
    BY Zenon, <1>0, <2>2 DEF PayTypeOK, ReqTypeOK, RequestsAreNamed, CountTypeOK
  <2>4. QED BY Zenon, <1>0, <2>1, <2>2, <2>3, PayInvKept
<1>12. ASSUME UNCHANGED vars PROVE Goal
  <2>1. UNCHANGED <<status, credits, gw, grants, req, callbacks, faults, topups, acked>>
    BY Zenon, <1>12 DEF vars, payVars, histVars
  <2>2. CreditInv'
    BY Zenon, <1>0, <1>12, CreditUnchanged DEF vars
  <2>3. PayTypeOK' /\ ReqTypeOK' /\ RequestsAreNamed' /\ CountTypeOK'
    BY Zenon, <1>0, <2>1 DEF PayTypeOK, ReqTypeOK, RequestsAreNamed, CountTypeOK
  <2>4. QED BY Zenon, <1>0, <2>1, <2>2, <2>3, PayInvKept
<1>13. Goal
  <2>1. ASSUME NEW h \in Handlers, NEW p \in Payments, NEW f \in Forms, IPN(h, p, f)
        PROVE  Goal
    BY Zenon, <1>3, <2>1 DEF IPN
  <2>2. ASSUME NEW h \in Handlers, NEW p \in Payments, DevPay(h, p) PROVE Goal
    BY Zenon, <1>3, <2>2 DEF DevPay, Forms
  <2>3. QED BY Zenon, <1>1, <1>2, <1>4, <1>5, <1>6, <1>7, <1>8, <1>9, <1>10, <1>11, <1>12,
               <2>1, <2>2 DEF Next
<1>14. BillingInv' <=> Goal
  BY BillingInvParts, PTL
<1>15. QED BY Zenon, <1>13, <1>14

-------------------------------------------------------------------------------
(* The inductive invariant holds in every reachable state.                 *)
THEOREM BillingInvariant == Spec => []BillingInv
<1>1. QED BY InitBilling, NextBilling, PTL DEF Spec

(* Billing never leaves its types, in particular an amount on order never  *)
(* exceeds the limit Checkout clamps it to.                                *)
THEOREM BillingTypes == Spec => []BillingTypeOK
<1>1. BillingInv => BillingTypeOK
  BY Zenon DEF BillingInv
<1>2. QED BY <1>1, BillingInvariant, PTL

(* A payment's credits are granted at most once, and only when it settled  *)
(* as paid: SettlePayment under any interleaving of callbacks, failures    *)
(* and crashes.                                                            *)
THEOREM CreditsOnce == Spec => []CreditedAtMostOnce
<1>1. BillingInv => CreditedAtMostOnce
  BY Zenon DEF BillingInv
<1>2. QED BY <1>1, BillingInvariant, PTL

(* With SSLCommerz nothing settles as paid without a charge: VerifyIPN's   *)
(* answer is still true when Settle uses it.                               *)
THEOREM NoFreeCredits == Spec => []PaidOnlyIfCharged
<1>1. BillingInv => PaidOnlyIfCharged
  BY Zenon DEF BillingInv
<1>2. QED BY <1>1, BillingInvariant, PTL

(* No balance is ever negative, with top-ups and metered calls racing in   *)
(* TryDeduct and Grant.                                                    *)
THEOREM Solvent == Spec => []NeverOverdrawn
<1>1. BillingInv => NeverOverdrawn
  BY Zenon DEF BillingInv
<1>2. QED BY <1>1, BillingInvariant, PTL

(* Every balance is the sum of its ledger.                                 *)
THEOREM Audited == Spec => []LedgerExplainsBalance
<1>1. BillingInv => LedgerExplainsBalance
  BY Zenon DEF BillingInv
<1>2. QED BY <1>1, BillingInvariant, PTL

(* Create takes a fresh id, and Settle's UPDATE matches pending rows only. *)
LEMMA SettledKept ==
    ASSUME BillingTypeOK, [Next]_vars
    PROVE  \A p \in Payments : status[p] \in {"paid", "failed"} =>
               status'[p] = status[p] /\ credits'[p] = credits[p]
<1> DEFINE Kept == \A p \in Payments : status[p] \in {"paid", "failed"} =>
                       status'[p] = status[p] /\ credits'[p] = credits[p]
<1>1. ASSUME NEW p \in Payments, NEW n \in Requests, Checkout(p, n) PROVE Kept
  BY Zenon, <1>1 DEF Checkout, Create, BillingTypeOK
<1>2. ASSUME NEW h \in Handlers, Transition(h), UNCHANGED credits PROVE Kept
  BY Zenon, <1>2 DEF Transition, BillingTypeOK
<1>3. ASSUME NEW h \in Handlers, SettlePayment(h) PROVE Kept
  BY Zenon, <1>2, <1>3 DEF SettlePayment
<1>4. ASSUME NEW h \in Handlers, SettleAnswerLost(h) PROVE Kept
  BY Zenon, <1>2, <1>4 DEF SettleAnswerLost
<1>5. ASSUME UNCHANGED <<status, credits>> PROVE Kept
  BY Zenon, <1>5
<1> HIDE DEF Kept
<1>6. Kept
  BY Zenon, <1>1, <1>3, <1>4, <1>5
     DEF Next, vars, CustomerPays, IPN, DevPay, Begin, VerifyIPN, GrantCredits, CallFails,
         Crash, TopUp, Spend, payVars
<1> QED  BY Zenon, <1>6 DEF Kept

(* What a settled payment may never do: change its status or its amount.   *)
THEOREM SettledStays == Spec => SettledIsFinal
<1>1. BillingTypeOK /\ [Next]_vars =>
          [\A p \in Payments : status[p] \in {"paid", "failed"} =>
               status'[p] = status[p] /\ credits'[p] = credits[p]]_vars
  BY Zenon, SettledKept
<1> QED  BY <1>1, BillingTypes, PTL DEF Spec, SettledIsFinal

-------------------------------------------------------------------------------
(* ContractPay and the store, as functions on payments and orgs.           *)
LEMMA ContractPayValue ==
    ASSUME BillingInv, NEW p \in Payments
    PROVE  /\ grants[p] \in {0, 1}
           /\ grants[p] = 1 => ContractPay[p] = "credited" /\ status[p] = "paid"
           /\ grants[p] = 0 /\ status[p] = "absent" => ContractPay[p] = "none"
           /\ grants[p] = 0 /\ status[p] # "absent" => ContractPay[p] = status[p]
<1>1. grants[p] \in {0, 1} /\ (grants[p] = 1 => status[p] = "paid")
  BY DEF BillingInv, BillingTypeOK, CreditedAtMostOnce
<1>2. QED BY <1>1 DEF ContractPay

(* A step of the contract that moves one payment.                          *)
LEMMA OnePayment ==
    ASSUME BillingTypeOK, BillingTypeOK', NEW p \in Payments,
           \A q \in Payments : q # p => status'[q] = status[q] /\ grants'[q] = grants[q]
    PROVE  ContractPay' = [ContractPay EXCEPT ![p] = ContractPay'[p]]
<1>1. \A q \in Payments : q # p => ContractPay'[q] = ContractPay[q]
  BY DEF ContractPay
<1>2. /\ ContractPay = [q \in Payments |-> ContractPay[q]]
      /\ ContractPay' = [q \in Payments |-> ContractPay'[q]]
  BY DEF ContractPay
<1>3. QED BY Zenon, <1>1, <1>2

(* Every step of Billing is a step of the contract or invisible to it.     *)
LEMMA ContractStep ==
    BillingInv /\ BillingInv' /\ [Next]_vars => [Contract!ContractNext]_(Contract!contractVars)
<1> SUFFICES ASSUME BillingInv, BillingInv', [Next]_vars
             PROVE  [Contract!ContractNext]_(Contract!contractVars)
  BY Zenon
<1> DEFINE Goal == [Contract!ContractNext]_(Contract!contractVars)
<1>0. BillingTypeOK /\ BillingTypeOK' /\ config' = config
  BY Zenon DEF BillingInv, Next, vars
<1>1. ASSUME UNCHANGED <<status, credits, grants, balance>> PROVE Goal
  BY <1>0, <1>1 DEF Contract!contractVars, ContractPay
<1>2. ASSUME NEW p \in Payments, NEW n \in Requests, Checkout(p, n) PROVE Goal
  <2>1. /\ status[p] = "absent" /\ status'[p] = "pending"
        /\ grants' = grants /\ balance' = balance
        /\ \A q \in Payments : q # p => status'[q] = status[q]
        /\ credits' = [credits EXCEPT ![p] = ClampCheckout(n)]
    BY Zenon, <1>0, <1>2 DEF Checkout, Create, BillingTypeOK, histVars, creditVars
  <2>2. ContractPay[p] = "none" /\ ContractPay'[p] = "pending"
    <3>1. grants[p] = 0 /\ grants'[p] = 0
      BY Zenon, <2>1, ContractPayValue
    <3>2. QED BY <2>1, <3>1, ContractPayValue DEF ContractPay
  <2>3. ContractPay' = [ContractPay EXCEPT ![p] = "pending"]
    BY Zenon, <1>0, <2>1, <2>2, OnePayment
  <2>4. credits'[p] > 0 /\ credits' = [credits EXCEPT ![p] = credits'[p]]
    BY <1>0, <2>1, ClampRange DEF BillingTypeOK
  <2>5. Contract!Open(p)
    BY Zenon, <2>1, <2>2, <2>3, <2>4 DEF Contract!Open
  <2>6. QED BY Zenon, <1>0, <2>5 DEF Contract!ContractNext
<1>3. ASSUME NEW h \in Handlers, req[h].ref \in Payments, req[h].res \in {"paid", "failed"},
             Transition(h), UNCHANGED <<credits, grants, balance>>
      PROVE  Goal
  <2> DEFINE p == req[h].ref
  <2>1. /\ status[p] = "pending" /\ status'[p] = req[h].res
        /\ \A q \in Payments : q # p => status'[q] = status[q]
    BY Zenon, <1>0, <1>3 DEF Transition, BillingTypeOK
  <2>2. ContractPay[p] = "pending" /\ ContractPay'[p] = req[h].res
    <3>1. grants[p] = 0 /\ grants'[p] = 0
      BY Zenon, <1>3, <2>1, ContractPayValue
    <3>2. QED BY Zenon, <1>3, <2>1, <3>1, ContractPayValue DEF ContractPay
  <2>3. ContractPay' = [ContractPay EXCEPT ![p] = req[h].res]
    BY Zenon, <1>0, <1>3, <2>1, <2>2, OnePayment
  <2>4. Contract!Settle(p)
    BY Zenon, <1>3, <2>2, <2>3 DEF Contract!Settle
  <2>5. QED BY Zenon, <1>0, <1>3, <2>4 DEF Contract!ContractNext
<1>4. ASSUME NEW h \in Handlers, req[h].pc \in {"settle", "grant"}
      PROVE  req[h].ref \in Payments /\ req[h].res \in {"paid", "failed"}
  BY Zenon, <1>0, <1>4 DEF BillingInv, RequestsAreNamed, BillingTypeOK, Request
<1>5. ASSUME NEW h \in Handlers, SettlePayment(h) PROVE Goal
  <2>1. UNCHANGED <<credits, grants, balance>> /\ req[h].pc = "settle"
    BY Zenon, <1>5 DEF SettlePayment, creditVars
  <2>2. Transition(h) \/ UNCHANGED status
    BY Zenon, <1>5 DEF SettlePayment
  <2> HIDE DEF Goal
  <2>3. QED BY Zenon, <1>1, <1>3, <1>4, <2>1, <2>2
<1>6. ASSUME NEW h \in Handlers, SettleAnswerLost(h) PROVE Goal
  <2> HIDE DEF Goal
  <2>1. QED BY Zenon, <1>3, <1>4, <1>6 DEF SettleAnswerLost, creditVars
<1>7. ASSUME NEW h \in Handlers, GrantCredits(h) PROVE Goal
  <2> DEFINE p == req[h].ref
  <2>1. p \in Payments /\ status[p] = "paid" /\ grants[p] = 0 /\ OrgOf[p] \in Orgs
    BY Zenon, <1>4, <1>7, BillingAssumption DEF GrantCredits, BillingInv, GrantIsOwned
  <2>2. UNCHANGED <<status, credits>>
    BY Zenon, <1>7 DEF GrantCredits, payVars
  <2>3. CASE Grant(OrgOf[p], credits[p], "topup") /\ grants' = [grants EXCEPT ![p] = @ + 1]
    <3>1. grants'[p] = 1 /\ \A q \in Payments : q # p => grants'[q] = grants[q]
      <4>1. grants \in [Payments -> Nat]
        BY Zenon, <1>0 DEF BillingTypeOK
      <4> QED  BY <2>1, <2>3, <4>1
    <3>2. ContractPay[p] = "paid" /\ ContractPay'[p] = "credited"
      <4>1. ContractPay[p] = "paid"
        BY Zenon, <2>1, ContractPayValue
      <4>2. ContractPay'[p] = "credited"
        BY <2>1, <2>2, <3>1 DEF ContractPay
      <4>3. QED BY Zenon, <4>1, <4>2
    <3>3. ContractPay' = [ContractPay EXCEPT ![p] = "credited"]
      BY Zenon, <1>0, <2>1, <2>2, <3>1, <3>2, OnePayment
    <3>4. balance' = [balance EXCEPT ![OrgOf[p]] = @ + credits[p]]
      BY Zenon, <2>3 DEF Grant, AdjustBalance
    <3>5. Contract!Credit(p)
      BY Zenon, <2>2, <3>2, <3>3, <3>4 DEF Contract!Credit
    <3>6. QED BY Zenon, <1>0, <2>1, <3>5 DEF Contract!ContractNext
  <2>4. CASE UNCHANGED <<creditVars, grants>>
    BY Zenon, <1>1, <2>2, <2>4 DEF creditVars
  <2> HIDE DEF Goal
  <2>5. QED BY Zenon, <1>7, <2>3, <2>4 DEF GrantCredits
<1>8. ASSUME NEW o \in Orgs, NEW n \in Requests, TopUp(o, n) PROVE Goal
  <2>1. config.dev /\ UNCHANGED <<status, credits, grants>>
    BY Zenon, <1>8 DEF TopUp, payVars
  <2>2. balance' = [balance EXCEPT ![o] = @ + ClampTopUp(n)] /\ balance[o] \in Int
        /\ ClampTopUp(n) \in 1..MaxTopUp /\ MaxTopUp \in Nat
    BY Zenon, <1>0, <1>8, ClampRange, BillingAssumption
       DEF TopUp, Grant, AdjustBalance, BillingTypeOK, CreditTypeOK
  <2>3. balance'[o] > balance[o] /\ balance' = [balance EXCEPT ![o] = balance'[o]]
    BY <1>0, <2>2 DEF BillingTypeOK, CreditTypeOK
  <2>4. ContractPay' = ContractPay
    BY <2>1 DEF ContractPay
  <2>5. Contract!TopUp(o)
    BY Zenon, <2>1, <2>3, <2>4 DEF Contract!TopUp
  <2>6. QED BY Zenon, <1>0, <2>5 DEF Contract!ContractNext
<1>9. ASSUME NEW o \in Orgs, Spend(o) PROVE Goal
  <2>1. UNCHANGED <<status, credits, grants>>
    BY Zenon, <1>9 DEF Spend, payVars, histVars
  <2>2. balance[o] >= 1 /\ balance[o] \in Int /\ balance' = [balance EXCEPT ![o] = @ - 1]
    BY Zenon, <1>0, <1>9 DEF Spend, TryDeduct, TryDeductBalance, Covers, BillingTypeOK, CreditTypeOK
  <2>3. ContractPay' = ContractPay
    BY <2>1 DEF ContractPay
  <2>4. Contract!Meter(o)
    BY <2>1, <2>2, <2>3 DEF Contract!Meter
  <2>5. QED BY Zenon, <1>0, <2>4 DEF Contract!ContractNext
<1>10. QED
  <2> HIDE DEF Goal
  <2>1. Goal
    BY Zenon, <1>1, <1>2, <1>5, <1>6, <1>7, <1>8, <1>9
       DEF Next, CustomerPays, IPN, DevPay, Begin, VerifyIPN, CallFails, Crash, vars,
           payVars, histVars, creditVars
  <2>2. QED BY Zenon, <2>1 DEF Goal

(* Billing implements TopUpContract under the mapping ContractPay: seen    *)
(* from the merchant, a payment opens, settles once and is credited at     *)
(* most once, with its own amount, whatever callbacks and failures do.     *)
THEOREM BillingImplementsContract == Spec => ImplementsContract
<1>1. Init => Contract!ContractInit
  <2> SUFFICES ASSUME Init PROVE Contract!ContractInit
    BY Zenon
  <2>1. ContractPay = [p \in Payments |-> "none"]
    BY DEF Init, ContractPay
  <2>2. balance \in [Orgs -> Nat]
    BY BillingAssumption DEF Init, Seeded, Unseeded
  <2>3. config.dev \in BOOLEAN
    BY Zenon, BillingAssumption DEF Init
  <2>4. QED BY Zenon, <2>1, <2>2, <2>3 DEF Contract!ContractInit, Init
<1>2. QED
  BY <1>1, ContractStep, BillingInvariant, PTL DEF Spec, ImplementsContract, Contract!ContractSpec

-------------------------------------------------------------------------------
(* What LostOnlyByFailure rests on: a request that came with a transaction *)
(* of the gateway is about one that has an outcome, and calls only ever    *)
(* cost credits.                                                           *)
GenuineHasOutcome ==
    config.gateway = "sslcommerz" =>
        \A h \in Handlers : req[h].pc # "idle" /\ req[h].form \in Genuine =>
            gw[req[h].ref] \in {"charged", "declined"}
CallsOnlyCost == \A o \in Orgs : ledger[o]["call"] <= 0
NothingForgotten == GenuineHasOutcome /\ CallsOnlyCost /\ LostOnlyByFailure

(* AddLedger adds to one sum of one org's ledger.                          *)
LEMMA AddLedgerRow ==
    ASSUME CreditTypeOK, NEW o \in Orgs, NEW d \in Int, NEW r \in Reasons, AddLedger(o, d, r)
    PROVE  \A q \in Orgs, s \in Reasons :
               /\ ledger[q][s] \in Int
               /\ ledger'[q][s] = ledger[q][s] + (IF q = o /\ s = r THEN d ELSE 0)
<1>1. ledger \in [Orgs -> [Reasons -> Int]] /\ ledger' = [ledger EXCEPT ![o] = [ledger[o] EXCEPT ![r] = @ + d]]
  BY Zenon DEF CreditTypeOK, AddLedger
<1>2. \A q \in Orgs : q # o => ledger'[q] = ledger[q]
  BY Zenon, <1>1
<1>3. ledger'[o] = [ledger[o] EXCEPT ![r] = @ + d] /\ ledger[o] \in [Reasons -> Int]
  BY Zenon, <1>1
<1> QED  BY <1>1, <1>2, <1>3

(* What an org was ever given only grows, and its calls only cost.         *)
LEMMA TakenGrows ==
    ASSUME BillingInv, CallsOnlyCost, [Next]_vars
    PROVE  /\ \A o \in Orgs : Taken(o) \in Int /\ Taken(o)' \in Int /\ Taken(o) <= Taken(o)'
           /\ CallsOnlyCost'
<1>0. CreditTypeOK /\ \A o \in Orgs, r \in Reasons : ledger[o][r] \in Int
  BY Zenon DEF BillingInv, BillingTypeOK, CreditTypeOK
<1> DEFINE Goal == /\ \A o \in Orgs : Taken(o) \in Int /\ Taken(o)' \in Int /\ Taken(o) <= Taken(o)'
                   /\ CallsOnlyCost'
<1>1. ASSUME UNCHANGED ledger PROVE Goal
  BY <1>0, <1>1 DEF Taken, CallsOnlyCost, Reasons
<1>2. ASSUME NEW o \in Orgs, NEW n \in Nat, Grant(o, n, "topup") PROVE Goal
  <2>1. \A q \in Orgs, s \in Reasons :
            ledger'[q][s] = ledger[q][s] + (IF q = o /\ s = "topup" THEN n ELSE 0)
    BY <1>0, <1>2, AddLedgerRow DEF Grant, Reasons
  <2> QED  BY <1>0, <2>1 DEF Taken, CallsOnlyCost, Reasons
<1>3. ASSUME NEW o \in Orgs, TryDeduct(o, 1, "call") PROVE Goal
  <2>1. \A q \in Orgs, s \in Reasons :
            ledger'[q][s] = ledger[q][s] + (IF q = o /\ s = "call" THEN -1 ELSE 0)
    BY <1>0, <1>3, AddLedgerRow DEF TryDeduct, Reasons
  <2> QED  BY <1>0, <2>1 DEF Taken, CallsOnlyCost, Reasons
<1> HIDE DEF Goal
<1>4. ASSUME NEW h \in Handlers, GrantCredits(h) PROVE Goal
  <2>1. req[h].ref \in Payments
    BY Zenon, <1>4 DEF BillingInv, RequestsAreNamed, GrantCredits
  <2>2. OrgOf[req[h].ref] \in Orgs /\ credits[req[h].ref] \in Nat
    BY <2>1, BillingAssumption DEF BillingInv, BillingTypeOK
  <2> QED  BY Zenon, <1>1, <1>2, <1>4, <2>2 DEF GrantCredits, creditVars
<1>5. ASSUME NEW o \in Orgs, NEW n \in Requests, TopUp(o, n) PROVE Goal
  BY <1>2, <1>5, ClampRange DEF TopUp
<1>6. ASSUME NEW o \in Orgs, Spend(o) PROVE Goal
  BY Zenon, <1>3, <1>6 DEF Spend
<1>7. ASSUME UNCHANGED creditVars PROVE Goal
  BY Zenon, <1>1, <1>7 DEF creditVars
<1>8. Goal
  BY Zenon, <1>4, <1>5, <1>6, <1>7 DEF Next, vars, Checkout, CustomerPays, IPN, DevPay, Begin, VerifyIPN,
     SettlePayment, CallFails, SettleAnswerLost, Crash
<1> QED  BY Zenon, <1>8 DEF Goal

(* A settled payment keeps its status and amount, and a grant stays.       *)
LEMMA GrantStays ==
    ASSUME BillingInv, [Next]_vars
    PROVE  \A p \in Payments : grants[p] = 1 => grants'[p] = 1
<1> DEFINE Goal == \A p \in Payments : grants[p] = 1 => grants'[p] = 1
<1>1. ASSUME NEW h \in Handlers, GrantCredits(h) PROVE Goal
  <2>1. grants[req[h].ref] = 0 /\ grants \in [Payments -> Nat]
    BY Zenon, <1>1 DEF BillingInv, BillingTypeOK, GrantIsOwned, GrantCredits
  <2> QED  BY <1>1, <2>1 DEF GrantCredits
<1>2. ASSUME UNCHANGED grants PROVE Goal
  BY Zenon, <1>2
<1> HIDE DEF Goal
<1>3. Goal
  BY Zenon, <1>1, <1>2 DEF Next, vars, histVars, Checkout, CustomerPays, IPN, DevPay, Begin, VerifyIPN,
     SettlePayment, CallFails, SettleAnswerLost, Crash, TopUp, Spend
<1> QED  BY Zenon, <1>3 DEF Goal

(* While nothing fails, a request that does not settle or grant leaves     *)
(* every paid payment as it was: granted, in hand or outgrown.             *)
LEMMA PaidStays ==
    ASSUME BillingInv, NothingForgotten, [Next]_vars, faults = 0, NEW p \in Payments, status[p] = "paid",
           \A h \in Handlers : req[h].pc = "grant" /\ req[h].ref = p => req'[h] = req[h]
    PROVE  (grants[p] = 1 \/ InHand(p) \/ Outgrown(p))'
<1>1. grants[p] = 1 \/ InHand(p) \/ Outgrown(p)
  BY Zenon DEF NothingForgotten, LostOnlyByFailure
<1>2. CASE grants[p] = 1
  BY Zenon, <1>2, GrantStays
<1>3. CASE InHand(p)
  BY Zenon, <1>3 DEF InHand
<1>4. CASE Outgrown(p)
  <2>1. BillingTypeOK
    BY Zenon DEF BillingInv
  <2>2. credits'[p] = credits[p] /\ credits[p] \in Int /\ OrgOf[p] \in Orgs
    BY <2>1, SettledKept, BillingAssumption DEF BillingTypeOK
  <2>3. Taken(OrgOf[p]) \in Int /\ Taken(OrgOf[p])' \in Int /\ Taken(OrgOf[p]) <= Taken(OrgOf[p])'
    BY Zenon, <2>2, TakenGrows DEF NothingForgotten
  <2> QED  BY <1>4, <2>2, <2>3, MaxBalanceAssumption DEF Outgrown
<1> QED  BY Zenon, <1>1, <1>2, <1>3, <1>4

(* A transaction with an outcome keeps it.                                 *)
LEMMA OutcomeStays ==
    ASSUME BillingInv, [Next]_vars
    PROVE  \A p \in Payments : gw[p] \in {"charged", "declined"} => gw'[p] = gw[p]
<1> DEFINE Goal == \A p \in Payments : gw[p] \in {"charged", "declined"} => gw'[p] = gw[p]
<1>0. gw \in [Payments -> {"none", "open", "charged", "declined"}] /\ AbsentIsUnknown
  BY Zenon DEF BillingInv, BillingTypeOK
<1>1. ASSUME NEW p \in Payments, NEW n \in Requests, Checkout(p, n) PROVE Goal
  BY Zenon, <1>0, <1>1 DEF Checkout, Create, MockCheckout, SSLCheckout, AbsentIsUnknown
<1>2. ASSUME NEW p \in Payments, CustomerPays(p) PROVE Goal
  BY Zenon, <1>0, <1>2 DEF CustomerPays
<1>3. ASSUME UNCHANGED gw PROVE Goal
  BY Zenon, <1>3
<1> HIDE DEF Goal
<1>4. Goal
  BY Zenon, <1>1, <1>2, <1>3 DEF Next, vars, payVars, IPN, DevPay, Begin, VerifyIPN,
     SettlePayment, GrantCredits, CallFails, SettleAnswerLost, Crash, TopUp, Spend
<1> QED  BY Zenon, <1>4 DEF Goal

(* A reply acknowledges at most the payment of its request.                *)
LEMMA ReplyAcks ==
    ASSUME BillingInv, NEW h \in Handlers, req[h].pc # "idle", Reply(h)
    PROVE  /\ req[h].ref \in Payments /\ req'[h].pc = "idle"
           /\ \A g \in Handlers : g # h => req'[g] = req[g]
           /\ acked' \subseteq acked \cup {req[h].ref}
           /\ req[h].form \notin Genuine => acked' = acked
<1>1. ReqTypeOK /\ RequestsAreNamed
  BY Zenon, BillingInvParts
<1> QED  BY Zenon, <1>1, ReplyFrees DEF Reply, RequestsAreNamed

(* Requests that end, go on with the same form, or begin with an outcome   *)
(* keep GenuineHasOutcome.                                                 *)
LEMMA GenuineStays ==
    ASSUME BillingInv, NothingForgotten, [Next]_vars,
           \A g \in Handlers :
               \/ req'[g].pc = "idle"
               \/ req[g].pc # "idle" /\ req'[g].form = req[g].form /\ req'[g].ref = req[g].ref
               \/ config.gateway = "sslcommerz" /\ req'[g].form \in Genuine =>
                     req'[g].ref \in Payments /\ gw[req'[g].ref] \in {"charged", "declined"}
    PROVE  GenuineHasOutcome'
<1>1. config' = config
  BY Zenon DEF Next, vars
<1>2. \A g \in Handlers : req[g].pc # "idle" => req[g].ref \in Payments
  BY Zenon DEF BillingInv, RequestsAreNamed
<1>3. \A p \in Payments : gw[p] \in {"charged", "declined"} => gw'[p] = gw[p]
  BY Zenon, OutcomeStays
<1> QED  BY <1>1, <1>2, <1>3 DEF NothingForgotten, GenuineHasOutcome

(* While nothing fails: new acknowledgements are of settled payments, and  *)
(* what becomes paid comes into a request's hands.                         *)
LEMMA LostStays ==
    ASSUME BillingInv, NothingForgotten, [Next]_vars, faults = 0,
           config.gateway = "sslcommerz" =>
               \A p \in Payments : p \in acked' => p \in acked \/ status'[p] \in {"paid", "failed"},
           \A p \in Payments : status'[p] = "paid" =>
               \/ status[p] = "paid" /\ \A h \in Handlers : req[h].pc = "grant" /\ req[h].ref = p => req'[h] = req[h]
               \/ (grants[p] = 1 \/ InHand(p) \/ Outgrown(p))'
    PROVE  LostOnlyByFailure'
<1>1. config' = config /\ BillingTypeOK
  BY Zenon DEF Next, vars, BillingInv
<1>2. \A p \in Payments : status[p] \in {"paid", "failed"} => status'[p] = status[p]
  BY Zenon, <1>1, SettledKept
<1>3. ASSUME NEW p \in Payments, config.gateway = "sslcommerz", p \in acked'
      PROVE  status'[p] \in {"paid", "failed"}
  BY Zenon, <1>2, <1>3 DEF NothingForgotten, LostOnlyByFailure
<1>4. ASSUME NEW p \in Payments, status'[p] = "paid"
      PROVE  (grants[p] = 1 \/ InHand(p) \/ Outgrown(p))'
  BY Zenon, <1>4, PaidStays
<1> QED  BY Zenon, <1>1, <1>3, <1>4 DEF LostOnlyByFailure

(* What every step of the callback handler knows of its request.           *)
LEMMA AtWork ==
    ASSUME BillingInv, NothingForgotten, NEW h \in Handlers, req[h].pc # "idle"
    PROVE  /\ req \in [Handlers -> Request] /\ grants \in [Payments -> Nat]
           /\ status \in [Payments -> {"absent", "pending", "paid", "failed"}]
           /\ req[h] \in Request /\ req[h].ref \in Payments
           /\ config.gateway = "sslcommerz" /\ req[h].form \in Genuine => status[req[h].ref] # "absent"
<1>1. req \in [Handlers -> Request] /\ req[h].ref \in Payments
  BY Zenon DEF BillingInv, BillingTypeOK, RequestsAreNamed
<1>2. config.gateway = "sslcommerz" /\ req[h].form \in Genuine => status[req[h].ref] # "absent"
  BY Zenon, <1>1 DEF NothingForgotten, GenuineHasOutcome, BillingInv, AbsentIsUnknown
<1> QED  BY Zenon, <1>1, <1>2 DEF BillingInv, BillingTypeOK

(* VerifyIPN acknowledges only what the gateway did not send.              *)
LEMMA VerifyForgetsNothing ==
    ASSUME BillingInv, NothingForgotten, [Next]_vars, NEW h \in Handlers, VerifyIPN(h)
    PROVE  GenuineHasOutcome' /\ (faults = 0 => LostOnlyByFailure')
<1>0. /\ req \in [Handlers -> Request] /\ grants \in [Payments -> Nat]
      /\ status \in [Payments -> {"absent", "pending", "paid", "failed"}]
      /\ req[h] \in Request /\ req[h].ref \in Payments /\ req[h].pc # "idle"
      /\ config.gateway = "sslcommerz" /\ req[h].form \in Genuine => status[req[h].ref] # "absent"
  BY Zenon, AtWork DEF VerifyIPN
<1>1. UNCHANGED <<status, grants>> /\ req[h].pc = "verify"
  BY Zenon DEF VerifyIPN, payVars
<1>2. CASE Verdict(h)[1]
  <2> DEFINE q == [req[h] EXCEPT !.pc = "settle", !.res = Verdict(h)[2]]
  <2>1. req' = [req EXCEPT ![h] = q] /\ acked' = acked
    BY Zenon, <1>2 DEF VerifyIPN
  <2>2. q.form = req[h].form /\ q.ref = req[h].ref
    BY Zenon, <1>0 DEF Request
  <2> HIDE DEF q
  <2>3. req'[h] = q /\ \A g \in Handlers : g # h => req'[g] = req[g]
    BY Zenon, <1>0, <2>1
  <2>4. GenuineHasOutcome'
    BY Zenon, <1>0, <2>2, <2>3, GenuineStays
  <2>5. faults = 0 => LostOnlyByFailure'
    BY Zenon, <1>1, <2>1, <2>3, LostStays
  <2> QED  BY Zenon, <2>4, <2>5
<1>3. CASE ~Verdict(h)[1]
  <2>1. Reply(h)
    BY Zenon, <1>3 DEF VerifyIPN
  <2>2. config.gateway = "sslcommerz" => acked' = acked
    BY Zenon, <1>0, <1>3, <2>1, ReplyAcks DEF Verdict, SSLVerifyIPN
  <2>3. req'[h].pc = "idle" /\ \A g \in Handlers : g # h => req'[g] = req[g]
    BY Zenon, <1>0, <2>1, ReplyAcks
  <2>4. GenuineHasOutcome'
    BY Zenon, <2>3, GenuineStays
  <2>5. faults = 0 => LostOnlyByFailure'
    BY Zenon, <1>1, <2>2, <2>3, LostStays
  <2> QED  BY Zenon, <2>4, <2>5
<1> QED  BY Zenon, <1>2, <1>3

(* SettlePayment keeps what it settles as paid, and acknowledges what is   *)
(* settled.                                                                *)
LEMMA SettleForgetsNothing ==
    ASSUME BillingInv, NothingForgotten, [Next]_vars, NEW h \in Handlers, SettlePayment(h)
    PROVE  GenuineHasOutcome' /\ (faults = 0 => LostOnlyByFailure')
<1>0. /\ req \in [Handlers -> Request] /\ grants \in [Payments -> Nat]
      /\ status \in [Payments -> {"absent", "pending", "paid", "failed"}]
      /\ req[h] \in Request /\ req[h].ref \in Payments /\ req[h].pc # "idle"
      /\ config.gateway = "sslcommerz" /\ req[h].form \in Genuine => status[req[h].ref] # "absent"
  BY Zenon, AtWork DEF SettlePayment
<1> DEFINE p == req[h].ref
<1>1. req[h].pc = "settle" /\ req[h].res \in {"paid", "failed"}
  BY Zenon, <1>0 DEF SettlePayment, Request
<1>2. CASE Transition(h) /\ req' = [req EXCEPT ![h].pc = "grant"] /\ UNCHANGED acked
  <2> DEFINE q == [req[h] EXCEPT !.pc = "grant"]
  <2>1. req' = [req EXCEPT ![h] = q]
    BY Zenon, <1>2
  <2>2. q.form = req[h].form /\ q.ref = p /\ q.pc = "grant"
    BY Zenon, <1>0 DEF Request
  <2> HIDE DEF q
  <2>3. req'[h] = q /\ \A g \in Handlers : g # h => req'[g] = req[g]
    BY Zenon, <1>0, <2>1
  <2>4. GenuineHasOutcome'
    BY Zenon, <1>0, <2>2, <2>3, GenuineStays
  <2>5. InHand(p)'
    BY Zenon, <2>2, <2>3 DEF InHand
  <2>6. \A s \in Payments : s # p => status'[s] = status[s]
    BY Zenon, <1>0, <1>2 DEF Transition
  <2>7. faults = 0 => LostOnlyByFailure'
    BY <1>1, <1>2, <2>3, <2>5, <2>6, LostStays
  <2> QED  BY Zenon, <2>4, <2>7
<1>3. CASE Reply(h) /\ ((Transition(h) /\ req[h].res # "paid") \/ (status[p] # "pending" /\ UNCHANGED status))
  <2>1. /\ req'[h].pc = "idle" /\ \A g \in Handlers : g # h => req'[g] = req[g]
        /\ acked' \subseteq acked \cup {p} /\ (req[h].form \notin Genuine => acked' = acked)
    BY Zenon, <1>0, <1>3, ReplyAcks
  <2>2. /\ \A s \in Payments : status'[s] = "paid" => status[s] = "paid"
        /\ status[p] # "absent" => status'[p] \in {"paid", "failed"}
    BY Zenon, <1>0, <1>1, <1>3 DEF Transition
  <2>3. GenuineHasOutcome'
    BY Zenon, <2>1, GenuineStays
  <2>4. faults = 0 => LostOnlyByFailure'
    BY Zenon, <1>0, <1>1, <2>1, <2>2, LostStays
  <2> QED  BY Zenon, <2>3, <2>4
<1> QED  BY Zenon, <1>2, <1>3 DEF SettlePayment

(* GrantCredits grants what it has in hand, unless it would not fit.       *)
LEMMA GrantForgetsNothing ==
    ASSUME BillingInv, NothingForgotten, [Next]_vars, NEW h \in Handlers, GrantCredits(h)
    PROVE  GenuineHasOutcome' /\ (faults = 0 => LostOnlyByFailure')
<1>0. /\ req \in [Handlers -> Request] /\ grants \in [Payments -> Nat]
      /\ status \in [Payments -> {"absent", "pending", "paid", "failed"}]
      /\ req[h] \in Request /\ req[h].ref \in Payments /\ req[h].pc # "idle"
      /\ config.gateway = "sslcommerz" /\ req[h].form \in Genuine => status[req[h].ref] # "absent"
  BY Zenon, AtWork DEF GrantCredits
<1>1. PICK p \in Payments : p = req[h].ref
  BY Zenon, <1>0
<1>2. /\ status[p] = "paid" /\ grants[p] = 0 /\ req[h].pc = "grant" /\ UNCHANGED <<status, credits>>
  BY Zenon, <1>1 DEF GrantCredits, BillingInv, GrantIsOwned, payVars
<1>3. /\ req'[h].pc = "idle" /\ \A g \in Handlers : g # h => req'[g] = req[g]
      /\ acked' \subseteq acked \cup {p}
  BY Zenon, <1>0, <1>1, ReplyAcks DEF GrantCredits
<1>4. GenuineHasOutcome'
  BY Zenon, <1>3, GenuineStays
<1>5. (grants[p] = 1 \/ Outgrown(p))'
  <2>1. CASE grants' = [grants EXCEPT ![p] = @ + 1]
    BY <1>0, <1>2, <2>1
  <2>2. CASE ~Fits(OrgOf[p], credits[p]) /\ UNCHANGED creditVars
    <3>1. OrgOf[p] \in Orgs /\ credits[p] \in Int
      BY BillingAssumption DEF BillingInv, BillingTypeOK
    <3>2. /\ balance[OrgOf[p]] = Taken(OrgOf[p]) + ledger[OrgOf[p]]["call"]
          /\ ledger[OrgOf[p]]["call"] \in Int /\ Taken(OrgOf[p]) \in Int
      BY <3>1 DEF BillingInv, BillingTypeOK, CreditTypeOK, LedgerExplainsBalance, LedgerSum, Taken, Reasons
    <3>3. ledger[OrgOf[p]]["call"] <= 0
      BY Zenon, <3>1 DEF NothingForgotten, CallsOnlyCost
    <3>4. Outgrown(p)
      BY <2>2, <3>1, <3>2, <3>3, MaxBalanceAssumption DEF Outgrown, Fits
    <3> QED  BY Zenon, <1>2, <2>2, <3>4 DEF Outgrown, Taken, creditVars
  <2> QED  BY Zenon, <1>1, <2>1, <2>2 DEF GrantCredits
<1>6. faults = 0 => LostOnlyByFailure'
  BY Zenon, <1>1, <1>2, <1>3, <1>5, LostStays
<1> QED  BY Zenon, <1>4, <1>6

(* Every step keeps track of what is paid and what is acknowledged.        *)
LEMMA NothingForgottenStep ==
    ASSUME BillingInv, NothingForgotten, [Next]_vars
    PROVE  NothingForgotten'
<1>0. /\ req \in [Handlers -> Request] /\ status \in [Payments -> {"absent", "pending", "paid", "failed"}]
      /\ faults \in Nat
  BY DEF BillingInv, BillingTypeOK
<1>1. CallsOnlyCost'
  BY Zenon, TakenGrows DEF NothingForgotten
<1> DEFINE Goal == GenuineHasOutcome' /\ LostOnlyByFailure'
<1>2. ASSUME NEW h \in Handlers, VerifyIPN(h) \/ SettlePayment(h) \/ GrantCredits(h) PROVE Goal
  <2>1. faults' = faults
    BY Zenon, <1>2 DEF VerifyIPN, SettlePayment, GrantCredits
  <2> QED  BY Zenon, <1>2, <2>1, VerifyForgetsNothing, SettleForgetsNothing, GrantForgetsNothing
           DEF LostOnlyByFailure
<1>3. ASSUME NEW h \in Handlers, CallFails(h) \/ SettleAnswerLost(h) PROVE Goal
  <2>1. Reply(h) /\ req[h].pc # "idle" /\ faults' # 0
    BY <1>0, <1>3 DEF CallFails, SettleAnswerLost, Fault
  <2>2. req'[h].pc = "idle" /\ \A g \in Handlers : g # h => req'[g] = req[g]
    BY Zenon, <2>1, ReplyAcks
  <2> QED  BY Zenon, <2>1, <2>2, GenuineStays DEF LostOnlyByFailure
<1>4. ASSUME Crash PROVE Goal
  <2>1. faults' # 0 /\ \A g \in Handlers : req'[g].pc = "idle"
    BY <1>0, <1>4 DEF Crash, Fault, NoRequest
  <2> QED  BY Zenon, <2>1, GenuineStays DEF LostOnlyByFailure
<1>5. ASSUME NEW p \in Payments, NEW n \in Requests, Checkout(p, n) PROVE Goal
  <2>1. UNCHANGED <<req, acked, faults>> /\ \A q \in Payments : status'[q] = "paid" => status[q] = "paid"
    BY Zenon, <1>0, <1>5 DEF Checkout, Create, histVars
  <2> QED  BY Zenon, <2>1, GenuineStays, LostStays DEF LostOnlyByFailure
<1>6. ASSUME NEW h \in Handlers, NEW p \in Payments, NEW f \in Forms, Begin(h, p, f),
             config.gateway = "sslcommerz" /\ f \in Genuine => gw[p] \in {"charged", "declined"}
      PROVE  Goal
  <2> DEFINE q == [req[h] EXCEPT !.pc = "verify", !.ref = p, !.form = f]
  <2>1. req' = [req EXCEPT ![h] = q] /\ req[h].pc = "idle" /\ UNCHANGED <<status, acked, faults>>
    BY Zenon, <1>6 DEF Begin, payVars, histVars
  <2>2. q.ref = p /\ q.form = f
    BY Zenon, <1>0, <1>6 DEF Request
  <2> HIDE DEF q
  <2>3. req'[h] = q /\ \A g \in Handlers : g # h => req'[g] = req[g]
    BY Zenon, <1>0, <2>1
  <2>4. GenuineHasOutcome'
    BY Zenon, <1>6, <2>2, <2>3, GenuineStays
  <2>5. faults = 0 => LostOnlyByFailure'
    BY Zenon, <2>1, <2>3, LostStays
  <2> QED  BY Zenon, <2>1, <2>4, <2>5 DEF LostOnlyByFailure
<1>7. ASSUME UNCHANGED <<req, acked, status, faults>> PROVE Goal
  BY Zenon, <1>7, GenuineStays, LostStays DEF LostOnlyByFailure
<1> HIDE DEF Goal
<1>8. ASSUME NEW h \in Handlers, NEW p \in Payments, NEW f \in Forms, IPN(h, p, f) PROVE Goal
  BY Zenon, <1>6, <1>8 DEF IPN
<1>9. ASSUME NEW h \in Handlers, NEW p \in Payments, DevPay(h, p) PROVE Goal
  <2>1. "devpay" \in Forms \ Genuine
    BY Zenon DEF Forms, Genuine
  <2> QED  BY Zenon, <1>6, <1>9, <2>1 DEF DevPay
<1>10. Goal
  BY Zenon, <1>2, <1>3, <1>4, <1>5, <1>7, <1>8, <1>9 DEF Next, vars, payVars, histVars, CustomerPays, TopUp, Spend
<1> QED  BY Zenon, <1>1, <1>10 DEF NothingForgotten, Goal

(* A paid payment is without its credits only while a request has it in    *)
(* hand, after a failure, or because the balance would outgrow its column; *)
(* and what ipn acknowledged has been settled.                             *)
THEOREM PaymentsAreNotLost == Spec => []LostOnlyByFailure
<1>1. Init => NothingForgotten
  <2> SUFFICES ASSUME Init PROVE NothingForgotten
    BY Zenon
  <2>1. GenuineHasOutcome /\ LostOnlyByFailure
    BY Zenon DEF Init, GenuineHasOutcome, NoRequest, LostOnlyByFailure
  <2>2. CallsOnlyCost
    <3> SUFFICES ASSUME NEW o \in Orgs PROVE ledger[o]["call"] <= 0
      BY Zenon DEF CallsOnlyCost
    <3>1. \/ ledger[o] = [r \in Reasons |-> IF r = "signup_grant" THEN SignupGrant ELSE 0]
          \/ ledger[o] = [r \in Reasons |-> 0]
      BY Zenon DEF Init, Seeded, Unseeded
    <3>2. ledger[o]["call"] = 0
      BY Zenon, <3>1 DEF Reasons
    <3> QED  BY <3>2
  <2> QED  BY Zenon, <2>1, <2>2 DEF NothingForgotten
<1>2. BillingInv /\ NothingForgotten /\ [Next]_vars => NothingForgotten'
  BY Zenon, NothingForgottenStep
<1>3. NothingForgotten => LostOnlyByFailure
  BY Zenon DEF NothingForgotten
<1> QED  BY <1>1, <1>2, <1>3, BillingInvariant, PTL DEF Spec

-------------------------------------------------------------------------------
(* The flow engine.                                                        *)

(* The nodes at which emit hangs up.                                       *)
Terminal(n) == NodeOf(n).end \/ NodeOf(n).result # ""

(* A name outside the flow is looked up as the zero node.                  *)
LEMMA NodeOfType ==
    ASSUME flow \in Flow, NEW n \in Nodes \cup {Missing}
    PROVE  NodeOf(n) \in Node
BY Zenon DEF NodeOf, Flow, Node

(* emit answers a directive of the node it is given: a terminal node hangs *)
(* up with its own result, any other speaks and has no outcome yet.        *)
LEMMA EmitFacts ==
    ASSUME flow \in Flow, NEW n \in Nodes \cup {Missing}
    PROVE  /\ emit(n) \in [node : Nodes \cup {Missing}, d : {"hangup", "say", "say_gather"},
                           out : Outcomes]
           /\ emit(n).node = n
           /\ Terminal(n) => /\ emit(n).d = "hangup"
                             /\ emit(n).out = [result |-> NodeOf(n).result, status |-> "completed"]
           /\ ~Terminal(n) => emit(n).d \in {"say", "say_gather"} /\ emit(n).out = NoOutcome
<1>1. NodeOf(n) \in Node
  BY Zenon, NodeOfType
<1>2. NodeOf(n).result \in Results \cup {""}
  BY Zenon, <1>1 DEF Node
<1> QED  BY Zenon, <1>2 DEF emit, Terminal, Outcomes, NoOutcome

(* Whatever the key, a session moves to some node, which need not exist,   *)
(* or gives the call up as unanswered.                                     *)
LEMMA ApplyFacts ==
    ASSUME flow \in Flow, NEW n \in Nodes \cup {Missing}, NEW in \in Inputs, FlowEngineAssumption
    PROVE  \/ \E m \in Nodes \cup {Missing} : Apply(n, in) = emit(m)
           \/ Apply(n, in) = noAnswer(n)
<1>1. /\ NodeOf(n).on \in [OnKeys -> Nodes \cup {Missing, NoNode}]
  BY Zenon, NodeOfType DEF Node
<1>2. in \in OnKeys /\ "timeout" \in OnKeys /\ "invalid" \in OnKeys
  BY Zenon DEF Inputs, OnKeys
<1>3. \A k \in OnKeys : NodeOf(n).on[k] # NoNode => NodeOf(n).on[k] \in Nodes \cup {Missing}
  BY Zenon, <1>1
<1> QED  BY Zenon, <1>2, <1>3 DEF Apply, OnTimeout, OnDTMF

(* An outcome that was reached is told from none by its status.            *)
LEMMA NoOutcomeStatus == NoOutcome.status = "none"
BY Zenon DEF NoOutcome

(* Every step of the session, of the leg that fails, and of the simulator. *)
LEMMA SessionStep ==
    ASSUME FlowEngineInv, SimAgrees, [FlowNext]_flowVars
    PROVE  FlowEngineInv' /\ SimAgrees'
<1> DEFINE Names == Nodes \cup {Missing}
           At(s) == [node |-> s.node, d |-> s.d, out |-> s.out]
<1>0. /\ flow \in Flow /\ session.node \in Names /\ sim.node \in Names
      /\ session.out \in Outcomes /\ sim.out \in Outcomes
      /\ session.d \in {"hangup", "say", "say_gather"}
      /\ session = [pc |-> session.pc, node |-> session.node, d |-> session.d, out |-> session.out]
      /\ session.pc \in {"run", "returned", "failed"}
  BY Zenon DEF FlowEngineInv, FlowEngineTypeOK
<1>1. ASSUME session.pc = "run"
      PROVE  /\ sim = At(session)
             /\ At(session) = emit(session.node)
                \/ (At(session) = noAnswer(session.node) /\ ~Terminal(session.node))
  BY Zenon, <1>1 DEF FlowEngineInv, SessionFollowsFlow, Terminal
<1>e. /\ Terminal(session.node) =>
            /\ emit(session.node).d = "hangup"
            /\ emit(session.node).out = [result |-> NodeOf(session.node).result, status |-> "completed"]
      /\ ~Terminal(session.node) =>
            emit(session.node).d \in {"say", "say_gather"} /\ emit(session.node).out = NoOutcome
  BY Zenon, <1>0, EmitFacts
<1>r. ASSUME session.pc = "run"
      PROVE  /\ sim.node = session.node /\ sim.out = session.out
             /\ Terminal(session.node) =>
                   /\ session.d = "hangup"
                   /\ session.out = [result |-> NodeOf(session.node).result, status |-> "completed"]
             /\ ~Terminal(session.node) =>
                   \/ session.d \in {"say", "say_gather"} /\ session.out = NoOutcome
                   \/ session.d = "hangup" /\ session.out = [result |-> "no_answer", status |-> "no_answer"]
  <2>1. sim = At(session)
    BY Zenon, <1>1, <1>r
  <2>2. CASE At(session) = emit(session.node)
    BY <1>e, <2>1, <2>2
  <2>3. CASE At(session) = noAnswer(session.node) /\ ~Terminal(session.node)
    BY Zenon, <2>1, <2>3 DEF noAnswer
  <2> QED  BY Zenon, <1>1, <1>r, <2>2, <2>3
<1>2. CASE UNCHANGED flowVars
  BY Zenon, <1>2 DEF flowVars, FlowEngineInv, FlowEngineTypeOK, SessionHasOutcome, ResultEndsCall,
              SessionFollowsFlow, SimAgrees, NodeOf, emit, noAnswer
<1>3. ASSUME NEW in \in Inputs, SayGather(in)  PROVE FlowEngineInv' /\ SimAgrees'
  <2> DEFINE next == Apply(session.node, in)
  <2>1. /\ session.pc = "run" /\ session.d = "say_gather" /\ flow' = flow
        /\ session' = Start(next)
        /\ sim' = SimInput(in)
    BY Zenon, <1>3 DEF SayGather
  <2>2. ~Terminal(session.node) /\ session.out = NoOutcome
    BY Zenon, <1>r, <2>1
  <2>3. sim' = next
    BY Zenon, <1>r, <2>1, <2>2 DEF SimInput, Ended
  <2>4. \/ \E m \in Names : next = emit(m)
        \/ next = noAnswer(session.node)
    BY Zenon, <1>0, ApplyFacts, FlowEngineAssumption
  <2>5. next \in [node : Names, d : {"hangup", "say", "say_gather"}, out : Outcomes]
    <3>1. noAnswer(session.node) \in [node : Names, d : {"hangup", "say", "say_gather"}, out : Outcomes]
      BY Zenon, <1>0 DEF noAnswer, Outcomes
    <3>2. \A m \in Names : emit(m) \in [node : Names, d : {"hangup", "say", "say_gather"}, out : Outcomes]
      BY Zenon, <1>0, EmitFacts
    <3> HIDE DEF next
    <3> QED  BY Zenon, <2>4, <3>1, <3>2
  <2>6. next = emit(next.node) \/ (next = noAnswer(next.node) /\ ~Terminal(next.node))
    <3>1. noAnswer(session.node).node = session.node
      BY Zenon DEF noAnswer
    <3>2. \A m \in Names : emit(m).node = m
      BY Zenon, <1>0, EmitFacts
    <3> HIDE DEF next
    <3> QED  BY Zenon, <2>2, <2>4, <3>1, <3>2
  <2> HIDE DEF next
  <2>7. /\ session'.pc = "run" /\ session'.node = next.node /\ session'.d = next.d
        /\ session'.out = next.out
        /\ [node |-> next.node, d |-> next.d, out |-> next.out] = next
        /\ FlowEngineTypeOK'
    BY Zenon, <1>0, <2>1, <2>3, <2>5 DEF Start, FlowEngineTypeOK
  <2>8. SessionFollowsFlow'
    BY Zenon, <2>1, <2>3, <2>6, <2>7 DEF SessionFollowsFlow, Terminal, NodeOf, emit, noAnswer
  <2> QED  BY Zenon, <2>7, <2>8 DEF FlowEngineInv, SessionHasOutcome, ResultEndsCall, SimAgrees
<1>4. CASE LegFails
  <2>1. /\ session' = [session EXCEPT !.pc = "failed", !.out = NoOutcome]
        /\ flow' = flow /\ sim' = sim
    BY Zenon, <1>4 DEF LegFails
  <2>2. session'.pc = "failed" /\ FlowEngineTypeOK'
    BY Zenon, <1>0, <2>1 DEF FlowEngineInv, FlowEngineTypeOK, Outcomes, NoOutcome
  <2> QED  BY Zenon, <2>2 DEF FlowEngineInv, SessionHasOutcome, ResultEndsCall, SessionFollowsFlow, SimAgrees
<1>5. CASE Hangup
  <2>1. /\ session.pc = "run" /\ session.d = "hangup" /\ flow' = flow /\ sim' = sim
        /\ session' = [session EXCEPT !.pc = "returned"]
    BY Zenon, <1>5 DEF Hangup
  <2>2. /\ session'.pc = "returned" /\ session'.node = session.node /\ session'.d = session.d
        /\ session'.out = session.out /\ FlowEngineTypeOK'
    BY Zenon, <1>0, <2>1 DEF FlowEngineInv, FlowEngineTypeOK
  <2>3. /\ session.out # NoOutcome
        /\ Terminal(session.node) =>
              session.out = [result |-> NodeOf(session.node).result, status |-> "completed"]
    <3>1. session.out.status # "none"
      BY <1>r, <2>1
    <3> QED  BY Zenon, <1>r, <2>1, <3>1, NoOutcomeStatus
  <2>4. ResultEndsCall'
    BY Zenon, <2>1, <2>2, <2>3 DEF ResultEndsCall, Terminal, NodeOf
  <2>5. SessionHasOutcome' /\ SimAgrees'
    <3>1. NoOutcome' = NoOutcome
      BY Zenon DEF NoOutcome
    <3>2. sim'.out = session'.out /\ session'.out # NoOutcome
      BY Zenon, <1>r, <2>1, <2>2, <2>3
    <3> QED  BY Zenon, <3>1, <3>2 DEF SessionHasOutcome, SimAgrees
  <2>6. SessionFollowsFlow'
    BY Zenon, <2>2 DEF SessionFollowsFlow
  <2> QED  BY Zenon, <2>2, <2>4, <2>5, <2>6 DEF FlowEngineInv
<1>6. CASE Play
  <2> DEFINE o == [result |-> "", status |-> "completed"]
  <2>1. /\ session.pc = "run" /\ session.d = "say" /\ flow' = flow /\ sim' = sim
        /\ session' = [session EXCEPT !.pc = "returned", !.out = o]
    BY Zenon, <1>6 DEF Play
  <2>2. /\ session'.pc = "returned" /\ session'.node = session.node /\ session'.d = session.d
        /\ session'.out = o /\ FlowEngineTypeOK'
    BY Zenon, <1>0, <2>1 DEF FlowEngineInv, FlowEngineTypeOK, Outcomes
  <2>3. ~Terminal(session.node)
    BY Zenon, <1>r, <2>1
  <2>4. ResultEndsCall'
    BY Zenon, <2>1, <2>2, <2>3 DEF ResultEndsCall, Terminal, NodeOf
  <2>5. SessionHasOutcome' /\ SimAgrees'
    <3>1. NoOutcome' = NoOutcome
      BY Zenon DEF NoOutcome
    <3>2. session'.out # NoOutcome
      <4>1. session'.out.status = "completed"
        <5>1. o.status = "completed"
          BY Zenon
        <5> HIDE DEF o
        <5> QED  BY Zenon, <2>2, <5>1
      <4> QED  BY Zenon, <4>1, NoOutcomeStatus
    <3> QED  BY Zenon, <2>1, <2>2, <3>1, <3>2 DEF SessionHasOutcome, SimAgrees
  <2>6. SessionFollowsFlow'
    BY Zenon, <2>2 DEF SessionFollowsFlow
  <2> QED  BY Zenon, <2>2, <2>4, <2>5, <2>6 DEF FlowEngineInv
<1>7. ASSUME NEW in \in Inputs, MoreInput(in)  PROVE FlowEngineInv' /\ SimAgrees'
  <2>1. /\ session.pc = "returned" /\ sim.out = NoOutcome /\ flow' = flow /\ session' = session
        /\ sim' = Apply(sim.node, in)
    BY Zenon, <1>7 DEF MoreInput, SimInput, Ended
  <2>2. session.d = "say"
    BY Zenon, <2>1 DEF SimAgrees, FlowEngineInv, SessionHasOutcome
  <2>3. sim' \in [node : Names, d : {"hangup", "say", "say_gather"}, out : Outcomes]
    <3>1. noAnswer(sim.node) \in [node : Names, d : {"hangup", "say", "say_gather"}, out : Outcomes]
      BY Zenon, <1>0 DEF noAnswer, Outcomes
    <3>2. \A m \in Names : emit(m) \in [node : Names, d : {"hangup", "say", "say_gather"}, out : Outcomes]
      BY Zenon, <1>0, EmitFacts
    <3>3. \/ \E m \in Names : sim' = emit(m)
          \/ sim' = noAnswer(sim.node)
      BY Zenon, <1>0, <2>1, ApplyFacts, FlowEngineAssumption
    <3> QED  BY Zenon, <3>1, <3>2, <3>3
  <2> QED  BY Zenon, <2>1, <2>2, <2>3 DEF FlowEngineInv, FlowEngineTypeOK, SessionHasOutcome,
              ResultEndsCall, SessionFollowsFlow, SimAgrees, NodeOf
<1> QED  BY Zenon, <1>2, <1>3, <1>4, <1>5, <1>6, <1>7 DEF FlowNext, Step

(* For every graph the builder accepts, cyclic, dangling or without keys:  *)
(* a session that returns has an outcome, a terminal node ends the call    *)
(* with its own result, and Simulate shows the outcome RunSession reaches. *)
THEOREM FlowEngineInvariant == FlowSpec => [](FlowEngineInv /\ SimAgrees)
<1>1. FlowInit => FlowEngineInv /\ SimAgrees
  <2> SUFFICES ASSUME FlowInit PROVE FlowEngineInv /\ SimAgrees
    BY Zenon
  <2>1. flow \in Flow /\ flow.entry \in Nodes
    BY Zenon, FlowEngineAssumption DEF FlowInit, validateIVR, Flow
  <2>2. /\ session = Start(emit(flow.entry)) /\ sim = emit(flow.entry)
        /\ emit(flow.entry).node = flow.entry
        /\ emit(flow.entry) \in [node : Nodes \cup {Missing}, d : {"hangup", "say", "say_gather"},
                                 out : Outcomes]
    BY Zenon, <2>1, EmitFacts DEF FlowInit
  <2>3. /\ session.pc = "run" /\ session.node = flow.entry /\ FlowEngineTypeOK
        /\ [node |-> session.node, d |-> session.d, out |-> session.out] = emit(flow.entry)
    BY Zenon, <2>1, <2>2 DEF Start, FlowEngineTypeOK
  <2> QED  BY Zenon, <2>2, <2>3 DEF FlowEngineInv, SessionHasOutcome, ResultEndsCall,
              SessionFollowsFlow, SimAgrees
<1> QED  BY <1>1, SessionStep, PTL DEF FlowSpec

(* What the builder's Simulate shows is what a call does: over the keys a  *)
(* call took it ends with the call's outcome, except at a plain say node.  *)
THEOREM SimulationAgrees == FlowSpec => []SimAgrees
BY FlowEngineInvariant, PTL

(* The caller's session has one outcome when it ends, the terminal's own.  *)
THEOREM SessionsEndWell == FlowSpec => []FlowEngineInv
BY FlowEngineInvariant, PTL
===============================================================================
