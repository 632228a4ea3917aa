------------------------------ MODULE CallsSteps ------------------------------
(***************************************************************************)
(* What the steps of metered calling do, for any number of jobs, workers   *)
(* and test calls: how the runs at some point of the handler are counted,  *)
(* and what each step changes, by where the run was and where it goes.     *)
(***************************************************************************)
EXTENDS Calls, FiniteSetTheorems, TLAPS

(* What the credit store's transactions preserve, for any orgs and amounts. *)

(* A store as Seeded leaves it satisfies CreditInv.                        *)
LEMMA CreditInit ==
    ASSUME NEW g \in Nat, Seeded(g)
    PROVE  CreditInv
<1>1. account \in [Orgs -> BOOLEAN]
  BY Zenon DEF Seeded
<1>2. balance \in [Orgs -> Int] /\ ledger \in [Orgs -> [Reasons -> Int]]
  BY DEF Seeded, Reasons
<1>3. ASSUME NEW o \in Orgs
      PROVE  balance[o] = g /\ LedgerSum(o) = g
  <2>1. balance[o] = g /\ ledger[o] = [r \in Reasons |-> IF r = "signup_grant" THEN g ELSE 0]
    BY Zenon DEF Seeded
  <2>2. /\ ledger[o]["signup_grant"] = g
        /\ ledger[o]["topup"] = 0
        /\ ledger[o]["call"] = 0
    BY <2>1 DEF Reasons
  <2> QED  BY <2>1, <2>2 DEF LedgerSum
<1> QED  BY <1>1, <1>2, <1>3 DEF CreditInv, CreditTypeOK, NeverOverdrawn, LedgerExplainsBalance

(* AddLedger moves the sum of one org's ledger by the delta, and no other. *)
LEMMA AddLedgerSum ==
    ASSUME CreditTypeOK, NEW o \in Orgs, NEW d \in Int, NEW r \in Reasons,
           AddLedger(o, d, r)
    PROVE  /\ ledger' \in [Orgs -> [Reasons -> Int]]
           /\ \A q \in Orgs : LedgerSum(q)' = LedgerSum(q) + (IF q = o THEN d ELSE 0)
<1>1. ledger' \in [Orgs -> [Reasons -> Int]]
  BY DEF CreditTypeOK, AddLedger
<1>2. ASSUME NEW q \in Orgs
      PROVE  LedgerSum(q)' = LedgerSum(q) + (IF q = o THEN d ELSE 0)
  <2>1. CASE q # o
    <3>1. ledger'[q] = ledger[q]
      BY <2>1 DEF CreditTypeOK, AddLedger
    <3>2. ledger[q] \in [Reasons -> Int]
      BY DEF CreditTypeOK
    <3>3. QED BY <2>1, <3>1, <3>2 DEF LedgerSum, Reasons
  <2>2. CASE q = o
    <3>1. ledger'[o] = [ledger[o] EXCEPT ![r] = @ + d]
      BY DEF CreditTypeOK, AddLedger
    <3>2. ledger[o] \in [Reasons -> Int]
      BY DEF CreditTypeOK
    <3>3. QED BY <2>2, <3>1, <3>2 DEF LedgerSum, Reasons
  <2>3. QED BY <2>1, <2>2
<1>3. QED BY <1>1, <1>2

(* Grant keeps balances covered and explained.                             *)
LEMMA GrantPreserves ==
    ASSUME CreditInv, NEW o \in Orgs, NEW n \in Nat, NEW r \in Reasons, Grant(o, n, r)
    PROVE  CreditInv'
<1>1. \A q \in Orgs : LedgerSum(q)' = LedgerSum(q) + (IF q = o THEN n ELSE 0)
  BY AddLedgerSum DEF CreditInv, Grant
<1>2. CreditTypeOK'
  BY AddLedgerSum DEF CreditInv, CreditTypeOK, Grant, EnsureCreditAccount, AdjustBalance
<1>3. \A q \in Orgs : balance'[q] = balance[q] + (IF q = o THEN n ELSE 0)
  BY DEF CreditInv, CreditTypeOK, Grant, AdjustBalance
<1>4. \A q \in Orgs : balance[q] \in Int
  BY DEF CreditInv, CreditTypeOK
<1>5. NeverOverdrawn'
  BY <1>3, <1>4 DEF CreditInv, NeverOverdrawn
<1>6. LedgerExplainsBalance'
  BY <1>1, <1>3 DEF CreditInv, LedgerExplainsBalance
<1>7. QED BY <1>2, <1>5, <1>6 DEF CreditInv

(* TryDeduct keeps balances covered and explained: the amount is checked   *)
(* by the UPDATE itself.                                                   *)
LEMMA TryDeductPreserves ==
    ASSUME CreditInv, NEW o \in Orgs, NEW n \in Nat, NEW r \in Reasons, TryDeduct(o, n, r)
    PROVE  CreditInv'
<1>1. \A q \in Orgs : LedgerSum(q)' = LedgerSum(q) + (IF q = o THEN -n ELSE 0)
  <2>1. -n \in Int
    OBVIOUS
  <2>2. QED BY <2>1, AddLedgerSum DEF CreditInv, TryDeduct
<1>2. CreditTypeOK'
  <2>1. -n \in Int
    OBVIOUS
  <2>2. QED BY <2>1, AddLedgerSum DEF CreditInv, CreditTypeOK, TryDeduct, TryDeductBalance
<1>3. \A q \in Orgs : balance'[q] = balance[q] + (IF q = o THEN -n ELSE 0)
  BY DEF CreditInv, CreditTypeOK, TryDeduct, TryDeductBalance
<1>4. \A q \in Orgs : balance[q] \in Int
  BY DEF CreditInv, CreditTypeOK
<1>5. NeverOverdrawn'
  BY <1>3, <1>4 DEF CreditInv, NeverOverdrawn, TryDeduct, TryDeductBalance, Covers
<1>6. LedgerExplainsBalance'
  BY <1>1, <1>3 DEF CreditInv, LedgerExplainsBalance
<1>7. QED BY <1>2, <1>5, <1>6 DEF CreditInv

(* CreditInv speaks of nothing but the store.                              *)
LEMMA CreditUnchanged ==
    ASSUME CreditInv, UNCHANGED creditVars
    PROVE  CreditInv'
BY DEF CreditInv, CreditTypeOK, NeverOverdrawn, LedgerExplainsBalance, LedgerSum, creditVars

-------------------------------------------------------------------------------
(* A set that changes in one element only.                                 *)
LEMMA CountMoves ==
    ASSUME NEW S, IsFiniteSet(S), NEW x \in S, NEW A \in SUBSET S, NEW B \in SUBSET S,
           A \ {x} = B \ {x}
    PROVE  /\ Cardinality(A) \in Nat /\ Cardinality(B) \in Nat
           /\ Cardinality(B) = Cardinality(A) + (IF x \in B THEN 1 ELSE 0)
                                              - (IF x \in A THEN 1 ELSE 0)
<1>1. IsFiniteSet(A) /\ IsFiniteSet(B)
  BY Zenon, FS_Subset
<1>2. Cardinality(A) \in Nat /\ Cardinality(B) \in Nat
  BY Zenon, <1>1, FS_CardinalityType
<1>3. CASE x \in A /\ x \notin B
  <2>1. B = A \ {x}
    BY Zenon, <1>3
  <2> QED  BY <1>1, <1>2, <1>3, <2>1, FS_RemoveElement
<1>4. CASE x \notin A /\ x \in B
  <2>1. A = B \ {x}
    BY Zenon, <1>4
  <2> QED  BY <1>1, <1>2, <1>4, <2>1, FS_RemoveElement
<1>5. CASE (x \in A) = (x \in B)
  <2>1. A = B
    BY <1>5
  <2> QED  BY <1>2, <2>1
<1> QED  BY <1>3, <1>4, <1>5

(* The same sets of a given assignment of runs to workers or testers, and  *)
(* what a run counts for in them.                                          *)
RunsOf(f, j, pcs) == {w \in Workers : f[w].job = j /\ f[w].pc \in pcs}
OrgRunsOf(f, o, pcs) ==
    {w \in Workers : f[w].job # NoJob /\ JobOrg[f[w].job] = o /\ f[w].pc \in pcs}
TestsOf(f, o) == {t \in Testers : f[t].org = o /\ f[t].pc \in {"dial", "record"}}

InRuns(p, j, pcs) == IF p.job = j /\ p.pc \in pcs THEN 1 ELSE 0
InOrgRuns(p, o, pcs) ==
    IF p.job # NoJob /\ JobOrg[p.job] = o /\ p.pc \in pcs THEN 1 ELSE 0
InTests(p, o) == IF p.org = o /\ p.pc \in {"dial", "record"} THEN 1 ELSE 0

(* How the runs of a job are counted when one worker goes on.             *)
LEMMA RunMoves ==
    \A f, g, j, pcs : \A x \in Workers :
        (\A v \in Workers \ {x} : g[v] = f[v]) =>
            /\ Cardinality(RunsOf(f, j, pcs)) \in Nat /\ Cardinality(RunsOf(g, j, pcs)) \in Nat
            /\ Cardinality(RunsOf(g, j, pcs))
                 = Cardinality(RunsOf(f, j, pcs)) + InRuns(g[x], j, pcs) - InRuns(f[x], j, pcs)
<1> SUFFICES ASSUME NEW f, NEW g, NEW j, NEW pcs, NEW x \in Workers,
                    \A v \in Workers \ {x} : g[v] = f[v]
             PROVE  /\ Cardinality(RunsOf(f, j, pcs)) \in Nat /\ Cardinality(RunsOf(g, j, pcs)) \in Nat
                    /\ Cardinality(RunsOf(g, j, pcs))
                         = Cardinality(RunsOf(f, j, pcs)) + InRuns(g[x], j, pcs) - InRuns(f[x], j, pcs)
  BY Zenon
<1>1. RunsOf(f, j, pcs) \in SUBSET Workers /\ RunsOf(g, j, pcs) \in SUBSET Workers
  BY Zenon DEF RunsOf
<1>2. RunsOf(f, j, pcs) \ {x} = RunsOf(g, j, pcs) \ {x}
  BY Zenon DEF RunsOf
<1>3. /\ InRuns(g[x], j, pcs) = IF x \in RunsOf(g, j, pcs) THEN 1 ELSE 0
      /\ InRuns(f[x], j, pcs) = IF x \in RunsOf(f, j, pcs) THEN 1 ELSE 0
  BY Zenon DEF RunsOf, InRuns
<1> QED  BY <1>1, <1>2, <1>3, CountMoves, CallsAssumption

(* The same for the runs of an org's jobs.                                 *)
LEMMA OrgRunMoves ==
    \A f, g, o, pcs : \A x \in Workers :
        (\A v \in Workers \ {x} : g[v] = f[v]) =>
            /\ Cardinality(OrgRunsOf(f, o, pcs)) \in Nat /\ Cardinality(OrgRunsOf(g, o, pcs)) \in Nat
            /\ Cardinality(OrgRunsOf(g, o, pcs))
                 = Cardinality(OrgRunsOf(f, o, pcs)) + InOrgRuns(g[x], o, pcs) - InOrgRuns(f[x], o, pcs)
<1> SUFFICES ASSUME NEW f, NEW g, NEW o, NEW pcs, NEW x \in Workers,
                    \A v \in Workers \ {x} : g[v] = f[v]
             PROVE  /\ Cardinality(OrgRunsOf(f, o, pcs)) \in Nat /\ Cardinality(OrgRunsOf(g, o, pcs)) \in Nat
                    /\ Cardinality(OrgRunsOf(g, o, pcs))
                         = Cardinality(OrgRunsOf(f, o, pcs)) + InOrgRuns(g[x], o, pcs) - InOrgRuns(f[x], o, pcs)
  BY Zenon
<1>1. OrgRunsOf(f, o, pcs) \in SUBSET Workers /\ OrgRunsOf(g, o, pcs) \in SUBSET Workers
  BY Zenon DEF OrgRunsOf
<1>2. OrgRunsOf(f, o, pcs) \ {x} = OrgRunsOf(g, o, pcs) \ {x}
  BY Zenon DEF OrgRunsOf
<1>3. /\ InOrgRuns(g[x], o, pcs) = IF x \in OrgRunsOf(g, o, pcs) THEN 1 ELSE 0
      /\ InOrgRuns(f[x], o, pcs) = IF x \in OrgRunsOf(f, o, pcs) THEN 1 ELSE 0
  BY Zenon DEF OrgRunsOf, InOrgRuns
<1> QED  BY <1>1, <1>2, <1>3, CountMoves, CallsAssumption

(* And for the test calls underway.                                        *)
LEMMA TestMoves ==
    \A f, g, o : \A x \in Testers :
        (\A v \in Testers \ {x} : g[v] = f[v]) =>
            /\ Cardinality(TestsOf(f, o)) \in Nat /\ Cardinality(TestsOf(g, o)) \in Nat
            /\ Cardinality(TestsOf(g, o))
                 = Cardinality(TestsOf(f, o)) + InTests(g[x], o) - InTests(f[x], o)
<1> SUFFICES ASSUME NEW f, NEW g, NEW o, NEW x \in Testers,
                    \A v \in Testers \ {x} : g[v] = f[v]
             PROVE  /\ Cardinality(TestsOf(f, o)) \in Nat /\ Cardinality(TestsOf(g, o)) \in Nat
                    /\ Cardinality(TestsOf(g, o))
                         = Cardinality(TestsOf(f, o)) + InTests(g[x], o) - InTests(f[x], o)
  BY Zenon
<1>1. TestsOf(f, o) \in SUBSET Testers /\ TestsOf(g, o) \in SUBSET Testers
  BY Zenon DEF TestsOf
<1>2. TestsOf(f, o) \ {x} = TestsOf(g, o) \ {x}
  BY Zenon DEF TestsOf
<1>3. /\ InTests(g[x], o) = IF x \in TestsOf(g, o) THEN 1 ELSE 0
      /\ InTests(f[x], o) = IF x \in TestsOf(f, o) THEN 1 ELSE 0
  BY Zenon DEF TestsOf, InTests
<1> QED  BY <1>1, <1>2, <1>3, CountMoves, CallsAssumption

(* So for a step in which one run goes on.                                 *)
LEMMA RunGoes ==
    ASSUME NEW w \in Workers, NEW r, work'[w] = r,
           \A y \in Workers \ {w} : work'[y] = work[y]
    PROVE  \A j, pcs : /\ Cardinality(RunsOf(work, j, pcs)) \in Nat /\ Cardinality(RunsOf(work', j, pcs)) \in Nat
                       /\ Cardinality(RunsOf(work', j, pcs))
                            = Cardinality(RunsOf(work, j, pcs)) + InRuns(r, j, pcs) - InRuns(work[w], j, pcs)
<1>1. \A j, pcs : /\ Cardinality(RunsOf(work, j, pcs)) \in Nat /\ Cardinality(RunsOf(work', j, pcs)) \in Nat
                  /\ Cardinality(RunsOf(work', j, pcs))
                       = Cardinality(RunsOf(work, j, pcs)) + InRuns(work'[w], j, pcs) - InRuns(work[w], j, pcs)
  BY RunMoves, SMT
<1> QED  BY Zenon, <1>1

(* The same for the runs of an org.                                        *)
LEMMA OrgRunGoes ==
    ASSUME NEW w \in Workers, NEW r, work'[w] = r,
           \A y \in Workers \ {w} : work'[y] = work[y]
    PROVE  \A o, pcs : /\ Cardinality(OrgRunsOf(work, o, pcs)) \in Nat /\ Cardinality(OrgRunsOf(work', o, pcs)) \in Nat
                       /\ Cardinality(OrgRunsOf(work', o, pcs))
                            = Cardinality(OrgRunsOf(work, o, pcs)) + InOrgRuns(r, o, pcs) - InOrgRuns(work[w], o, pcs)
<1>1. \A o, pcs : /\ Cardinality(OrgRunsOf(work, o, pcs)) \in Nat /\ Cardinality(OrgRunsOf(work', o, pcs)) \in Nat
                  /\ Cardinality(OrgRunsOf(work', o, pcs))
                       = Cardinality(OrgRunsOf(work, o, pcs)) + InOrgRuns(work'[w], o, pcs) - InOrgRuns(work[w], o, pcs)
  BY OrgRunMoves, SMT
<1> QED  BY Zenon, <1>1

(* The same for an org's test calls.                                       *)
LEMMA TestGoes ==
    ASSUME NEW t \in Testers, NEW r, test'[t] = r,
           \A y \in Testers \ {t} : test'[y] = test[y]
    PROVE  \A o : /\ Cardinality(TestsOf(test, o)) \in Nat /\ Cardinality(TestsOf(test', o)) \in Nat
                  /\ Cardinality(TestsOf(test', o))
                       = Cardinality(TestsOf(test, o)) + InTests(r, o) - InTests(test[t], o)
<1>1. \A o : Cardinality(TestsOf(test, o)) \in Nat /\ Cardinality(TestsOf(test', o)) \in Nat
  BY Zenon, TestMoves, SMT
<1>2. \A o : Cardinality(TestsOf(test', o))
               = Cardinality(TestsOf(test, o)) + InTests(test'[t], o) - InTests(test[t], o)
  BY TestMoves, SMT
<1> QED  BY Zenon, <1>1, <1>2

(* In the properties these are the sets of the present state.              *)
LEMMA SetsNow ==
    /\ \A j, pcs : RunsAt(j, pcs) = RunsOf(work, j, pcs)
    /\ \A o, pcs : OrgRunsAt(o, pcs) = OrgRunsOf(work, o, pcs)
    /\ \A o : Underway(o) = TestsOf(test, o)
  BY Zenon DEF RunsAt, RunsOf, OrgRunsAt, OrgRunsOf, OrgAt, Underway, TestsOf

(* The inductive invariant: the properties together.                       *)
CallsIInv == CallsInv /\ PaidBeforeDialed /\ EveryCrossingWarned /\ CalledInsideWindow

(* The step of one run, whatever it does: worker w goes on to some r.      *)
WorkerAct(w) ==
    \/ Run(w) \/ RunFails(w) \/ ChargeAnswerLost(w) \/ DialAnswerLost(w) \/ NotifyFails(w)

TestAct(t) == Test(t) \/ TestFails(t) \/ TestChargeAnswerLost(t)

(* Which steps there are, by what they move.                               *)
LEMMA StepKinds ==
    ASSUME Next
    PROVE  \/ \E o \in Orgs, p \in Policies : SavePolicy(o, p)
           \/ Tick
           \/ \E o \in Orgs : TopUp(o)
           \/ \E w \in Workers, j \in Jobs : Deliver(w, j)
           \/ \E w \in Workers : WorkerAct(w)
           \/ \E t \in Testers, o \in Orgs : RunTestCall(t, o)
           \/ \E t \in Testers : TestAct(t)
           \/ Crash
  BY Zenon DEF Next, WorkerAct, TestAct

(* The store changes by TryDeduct and Grant only.                          *)
LEMMA CreditStep ==
    ASSUME CallsIInv, Next
    PROVE  CreditInv'
<1>0. CreditInv /\ CallsTypeOK /\ RunsHaveJobs
  BY Zenon DEF CallsIInv, CallsInv, CreditInv, CallsTypeOK
<1>1. creditsPerCall \in Nat /\ 1 \in Nat /\ "call" \in Reasons /\ "topup" \in Reasons
  BY Zenon DEF creditsPerCall, Reasons
<1>2. CASE UNCHANGED creditVars
  BY Zenon, <1>0, <1>2, CreditUnchanged
<1>3. ASSUME NEW o \in Orgs, TopUp(o) PROVE CreditInv'
  BY Zenon, <1>0, <1>1, <1>3, GrantPreserves DEF TopUp
<1>4. ASSUME NEW o \in Orgs, TryDeduct(o, creditsPerCall, "call") PROVE CreditInv'
  BY Zenon, <1>0, <1>1, <1>4, TryDeductPreserves
<1>5. ASSUME NEW w \in Workers, WorkerAct(w) PROVE CreditInv'
  <2>1. At(w, "charge") => OrgAt(w) \in Orgs
    BY Zenon, <1>0, CallsAssumption DEF RunsHaveJobs, CallsTypeOK, Work, At, OrgAt
  <2>2. UNCHANGED creditVars \/ (OrgAt(w) \in Orgs /\ TryDeduct(OrgAt(w), creditsPerCall, "call"))
    BY Zenon, <1>5, <2>1, Zenon DEF WorkerAct, Run, ReadPolicy, CheckWindow, Charge, Notify, Dial,
       RecordQueued, RunFails, ChargeAnswerLost, DialAnswerLost, NotifyFails
  <2> QED  BY Zenon, <1>2, <1>4, <2>2
<1>6. ASSUME NEW t \in Testers, TestAct(t) PROVE CreditInv'
  <2>1. TestAt(t, "charge") => test[t].org \in Orgs
    BY Zenon, <1>0 DEF RunsHaveJobs, CallsTypeOK, TestRun, TestAt
  <2>2. UNCHANGED creditVars \/ (test[t].org \in Orgs /\ TryDeduct(test[t].org, creditsPerCall, "call"))
    BY Zenon, <1>6, <2>1, Zenon DEF TestAct, Test, TestFlow, TestCharge, TestDial, RecordOutcome, TestFails,
       TestChargeAnswerLost
  <2> QED  BY Zenon, <1>2, <1>4, <2>2
<1>7. CASE \/ \E o \in Orgs, p \in Policies : SavePolicy(o, p)
           \/ Tick
           \/ \E w \in Workers, j \in Jobs : Deliver(w, j)
           \/ \E t \in Testers, o \in Orgs : RunTestCall(t, o)
           \/ Crash
  <2>1. UNCHANGED creditVars
    BY Zenon, <1>7 DEF SavePolicy, Tick, Deliver, RunTestCall, Crash
  <2> QED  BY Zenon, <1>2, <2>1
<1> QED  BY Zenon, <1>3, <1>5, <1>6, <1>7, StepKinds

(* Worker w goes on to r: with its job, or done, and then the job is       *)
(* closed.                                                                 *)
Onward(w, r) ==
    /\ work' = [work EXCEPT ![w] = r]
    /\ r.pc = "idle" <=> r.job = NoJob
    /\ r.job = NoJob => ~r.fresh
    /\ \/ r.job = work[w].job /\ closed' = closed
       \/ r.job = NoJob /\ closed' = closed \cup {work[w].job}

(* Where a run can go.                                                     *)
LEMMA WorkerGoes ==
    ASSUME CallsIInv, NEW w \in Workers, WorkerAct(w)
    PROVE  /\ work[w].job \in Jobs /\ work[w] \in Work /\ ~At(w, "idle")
           /\ \E r \in Work : Onward(w, r)
           /\ UNCHANGED <<settingVars, testVars, delivered, grants>>
<1> USE DEF WorkerAct, Run
<1>0. work \in [Workers -> Work] /\ work[w] \in Work
  BY Zenon DEF CallsIInv, CallsInv, CallsTypeOK
<1>1. ~At(w, "idle")
  BY Zenon DEF ReadPolicy, CheckWindow, Charge, Notify, Dial, RecordQueued, RunFails, ChargeAnswerLost,
     DialAnswerLost, NotifyFails, At
<1>2. work[w].job \in Jobs
  BY Zenon, <1>0, <1>1 DEF CallsIInv, CallsInv, RunsHaveJobs, Work
<1>3. IdleWork \in Work /\ IdleWork.job = NoJob /\ IdleWork.pc = "idle" /\ ~IdleWork.fresh
  BY Zenon, CallsAssumption DEF IdleWork, Work
<1>4. work[w].job # NoJob
  BY Zenon, <1>2, CallsAssumption
<1>5. ASSUME NEW l \in {"charge", "notify", "dial", "record"}, Goto(w, l), closed' = closed
      PROVE  \E r \in Work : Onward(w, r)
  <2> DEFINE r == [work[w] EXCEPT !.pc = l]
  <2>1. r \in Work /\ r.pc = l /\ r.job = work[w].job
    BY Zenon, <1>0 DEF Work
  <2>2. Onward(w, r)
    BY Zenon, <1>4, <1>5, <2>1 DEF Goto, Onward
  <2> QED  BY Zenon, <2>1, <2>2
<1>6. ASSUME Finish(w)
      PROVE  \E r \in Work : Onward(w, r)
  <2>1. Onward(w, IdleWork)
    BY Zenon, <1>3, <1>6 DEF Finish, Onward
  <2> QED  BY Zenon, <1>3, <2>1
<1>7. ASSUME ReadPolicy(w)
      PROVE  \E r \in Work : Onward(w, r)
  <2>1. policy[OrgAt(w)] \in Window
    BY Zenon, <1>2, CallsAssumption DEF CallsIInv, CallsInv, CallsTypeOK, OrgAt
  <2> DEFINE r == [work[w] EXCEPT !.pc = "window", !.pol = policy[OrgAt(w)], !.fresh = TRUE]
  <2>2. r \in Work /\ r.pc = "window" /\ r.job = work[w].job
    BY Zenon, <1>0, <2>1 DEF Work
  <2>3. Onward(w, r)
    BY Zenon, <1>4, <1>7, <2>2 DEF ReadPolicy, Onward, jobVars
  <2> QED  BY Zenon, <2>2, <2>3
<1>8. \/ ReadPolicy(w)
      \/ Finish(w)
      \/ closed' = closed /\ \E l \in {"charge", "notify", "dial", "record"} : Goto(w, l)
  BY Zenon DEF CheckWindow, Charge, Notify, Dial, RecordQueued, RunFails, ChargeAnswerLost,
     DialAnswerLost, NotifyFails, jobVars
<1>9. UNCHANGED <<settingVars, testVars, delivered, grants>>
  BY Zenon DEF ReadPolicy, CheckWindow, Charge, Notify, Dial, RecordQueued, RunFails, ChargeAnswerLost,
     DialAnswerLost, NotifyFails, jobVars
<1> QED  BY Zenon, <1>0, <1>1, <1>2, <1>5, <1>6, <1>7, <1>8, <1>9

(* Where a test call can go.                                               *)
LEMMA TesterGoes ==
    ASSUME CallsIInv, NEW t \in Testers, TestAct(t)
    PROVE  /\ test[t].org \in Orgs /\ test[t] \in TestRun /\ ~TestAt(t, "idle")
           /\ \E r \in TestRun : /\ test' = [test EXCEPT ![t] = r]
                                 /\ r.pc = "idle" <=> r.org = NoOrg
           /\ UNCHANGED <<settingVars, work, jobVars, tests, grants, warnVars>>
<1> USE DEF TestAct, Test
<1>0. test \in [Testers -> TestRun] /\ test[t] \in TestRun
  BY Zenon DEF CallsIInv, CallsInv, CallsTypeOK
<1>1. ~TestAt(t, "idle")
  BY Zenon DEF TestFlow, TestCharge, TestDial, RecordOutcome, TestFails, TestChargeAnswerLost, TestAt
<1>2. test[t].org \in Orgs /\ test[t].org # NoOrg
  BY Zenon, <1>0, <1>1 DEF CallsIInv, CallsInv, RunsHaveJobs, TestRun
<1>3. IdleTest \in TestRun /\ IdleTest.org = NoOrg /\ IdleTest.pc = "idle"
  BY Zenon DEF IdleTest, TestRun, Flows
<1>4. UNCHANGED <<settingVars, work, jobVars, tests, grants, warnVars>>
  BY Zenon DEF TestFlow, TestCharge, TestDial, RecordOutcome, TestFails, TestChargeAnswerLost
<1>5. \/ TestReturn(t)
      \/ \E l \in {"dial", "record"} : TestGoto(t, l)
      \/ \E f \in Flows : test' = [test EXCEPT ![t] = [@ EXCEPT !.pc = "charge", !.flow = f]]
  BY Zenon DEF TestFlow, TestCharge, TestDial, RecordOutcome, TestFails, TestChargeAnswerLost
<1>6. \E r \in TestRun : test' = [test EXCEPT ![t] = r] /\ (r.pc = "idle" <=> r.org = NoOrg)
  <2>1. CASE TestReturn(t)
    BY Zenon, <1>3, <2>1 DEF TestReturn
  <2>2. ASSUME NEW l \in {"dial", "record"}, TestGoto(t, l)
        PROVE  \E r \in TestRun : test' = [test EXCEPT ![t] = r] /\ (r.pc = "idle" <=> r.org = NoOrg)
    <3> DEFINE r == [test[t] EXCEPT !.pc = l]
    <3>1. r \in TestRun /\ r.pc = l /\ r.org = test[t].org
      BY Zenon, <1>0 DEF TestRun
    <3> QED  BY Zenon, <1>2, <2>2, <3>1 DEF TestGoto
  <2>3. ASSUME NEW f \in Flows, test' = [test EXCEPT ![t] = [@ EXCEPT !.pc = "charge", !.flow = f]]
        PROVE  \E r \in TestRun : test' = [test EXCEPT ![t] = r] /\ (r.pc = "idle" <=> r.org = NoOrg)
    <3> DEFINE r == [test[t] EXCEPT !.pc = "charge", !.flow = f]
    <3>1. r \in TestRun /\ r.pc = "charge" /\ r.org = test[t].org
      BY Zenon, <1>0 DEF TestRun
    <3> QED  BY Zenon, <1>2, <2>3, <3>1
  <2> QED  BY Zenon, <1>5, <2>1, <2>2, <2>3
<1> QED  BY Zenon, <1>0, <1>1, <1>2, <1>4, <1>6

(* Outdating runs changes neither where they are nor what they do.         *)
LEMMA OutdateKeeps ==
    ASSUME CallsTypeOK, NEW ws \in SUBSET Workers, Outdate(ws)
    PROVE  /\ work' \in [Workers -> Work]
           /\ \A w \in Workers :
                 /\ work'[w].pc = work[w].pc /\ work'[w].job = work[w].job
                 /\ work'[w].pol = work[w].pol
                 /\ work'[w].fresh <=> work[w].fresh /\ w \notin ws
<1>1. \A w \in Workers : work[w] \in Work
  BY Zenon DEF CallsTypeOK
<1>2. ASSUME NEW w \in Workers
      PROVE  /\ work'[w] \in Work
             /\ work'[w].pc = work[w].pc /\ work'[w].job = work[w].job
             /\ work'[w].pol = work[w].pol
             /\ work'[w].fresh <=> work[w].fresh /\ w \notin ws
  BY Zenon, <1>1 DEF Outdate, Work
<1>3. work' = [w \in Workers |-> work'[w]]
  BY Zenon DEF Outdate
<1> QED  BY Zenon, <1>2, <1>3

(* A job's counters, and the counters of test calls, stay numbers.         *)
LEMMA CountersStep ==
    ASSUME CallsIInv, Next
    PROVE  /\ delivered' \in [Jobs -> 0..MaxDeliveries] /\ closed' \in SUBSET Jobs
           /\ {charges', dials', calls'} \subseteq [Jobs -> Nat]
           /\ {outbox', testRows', tested', cut', crossings', warned'} \subseteq [Orgs -> Nat]
           /\ grants' \in 0..MaxGrants /\ tests' \in 0..MaxTests /\ faults' \in 0..MaxFaults
           /\ faults' = 0 => faults = 0
<1> USE CallsAssumption
<1>0. CallsTypeOK
  BY Zenon DEF CallsIInv, CallsInv
<1>1. CASE UNCHANGED <<testVars, jobVars, faults, warnVars>> /\ grants' \in 0..MaxGrants
  BY Zenon, <1>0, <1>1 DEF CallsTypeOK, testVars, jobVars, warnVars
<1>2. ASSUME NEW w \in Workers, NEW j \in Jobs, Deliver(w, j)
      PROVE  /\ delivered' \in [Jobs -> 0..MaxDeliveries]
             /\ UNCHANGED <<testVars, closed, charges, dials, calls, grants, faults, warnVars>>
  BY <1>0, <1>2 DEF CallsTypeOK, Deliver
<1>3. ASSUME NEW w \in Workers, WorkerAct(w)
      PROVE  /\ closed' \in SUBSET Jobs /\ {charges', dials', calls'} \subseteq [Jobs -> Nat]
             /\ {crossings', warned'} \subseteq [Orgs -> Nat]
             /\ faults' \in 0..MaxFaults /\ (faults' = 0 => faults = 0)
             /\ UNCHANGED <<testVars, delivered, grants>>
  <2>1. work[w].job \in Jobs /\ closed' \in SUBSET Jobs /\ UNCHANGED <<testVars, delivered, grants>>
    BY Zenon, <1>0, <1>3, WorkerGoes DEF CallsTypeOK, Onward
  <2>2. OrgAt(w) \in Orgs
    BY Zenon, <2>1 DEF OrgAt
  <2>3. {charges', dials', calls'} \subseteq [Jobs -> Nat]
    BY SMTT(60), ZenonT(60), <1>0, <1>3, <2>1 DEF CallsTypeOK, WorkerAct, Run, ReadPolicy, CheckWindow, Charge, Notify,
       Dial, RecordQueued, RunFails, ChargeAnswerLost, DialAnswerLost, NotifyFails, jobVars
  <2>4. {crossings', warned'} \subseteq [Orgs -> Nat]
    BY SMTT(60), ZenonT(60), <1>0, <1>3, <2>2 DEF CallsTypeOK, WorkerAct, Run, ReadPolicy, CheckWindow, Charge, Notify,
       Dial, RecordQueued, RunFails, ChargeAnswerLost, DialAnswerLost, NotifyFails, warnVars, Cross
  <2>5. faults' \in 0..MaxFaults /\ (faults' = 0 => faults = 0)
    BY SMTT(60), ZenonT(60), <1>0, <1>3 DEF CallsTypeOK, WorkerAct, Run, ReadPolicy, CheckWindow, Charge, Notify,
       Dial, RecordQueued, RunFails, ChargeAnswerLost, DialAnswerLost, NotifyFails, Fault
  <2> QED  BY Zenon, <2>1, <2>3, <2>4, <2>5
<1>4. ASSUME NEW t \in Testers, NEW o \in Orgs, RunTestCall(t, o)
      PROVE  tests' \in 0..MaxTests
             /\ UNCHANGED <<tested, cut, testRows, outbox, jobVars, grants, faults, warnVars>>
  BY <1>0, <1>4 DEF CallsTypeOK, RunTestCall
<1>5. ASSUME NEW t \in Testers, TestAct(t)
      PROVE  /\ {outbox', testRows', tested', cut'} \subseteq [Orgs -> Nat]
             /\ faults' \in 0..MaxFaults /\ (faults' = 0 => faults = 0)
             /\ UNCHANGED <<tests, jobVars, grants, warnVars>>
  <2>1. test[t].org \in Orgs /\ UNCHANGED <<tests, jobVars, grants, warnVars>>
    BY Zenon, <1>5, TesterGoes
  <2>2. /\ outbox' = outbox \/ outbox' = [outbox EXCEPT ![test[t].org] = @ + 1]
        /\ testRows' = testRows \/ testRows' = [testRows EXCEPT ![test[t].org] = @ + 1]
        /\ tested' = tested \/ tested' = [tested EXCEPT ![test[t].org] = @ + 1]
        /\ cut' = cut \/ cut' = [cut EXCEPT ![test[t].org] = @ + 1]
        /\ faults' = faults \/ Fault
    BY Zenon, <1>5, Zenon DEF TestAct, Test, TestFlow, TestCharge, TestDial,
       RecordOutcome, TestFails, TestChargeAnswerLost
  <2>3. {outbox', testRows', tested', cut'} \subseteq [Orgs -> Nat]
    BY <1>0, <2>1, <2>2 DEF CallsTypeOK
  <2>4. faults' \in 0..MaxFaults /\ (faults' = 0 => faults = 0)
    BY <1>0, <2>2 DEF CallsTypeOK, Fault
  <2> QED  BY Zenon, <2>1, <2>3, <2>4
<1>6. CASE Crash
  <2>1. faults' \in 0..MaxFaults /\ (faults' = 0 => faults = 0)
    BY <1>0, <1>6 DEF CallsTypeOK, Crash, Fault
  <2>2. closed' \in SUBSET Jobs
    BY Zenon, <1>0, <1>6 DEF CallsTypeOK, Crash
  <2>3. UNCHANGED <<tests, tested, cut, testRows, outbox, delivered, charges, dials, calls,
                    grants, warnVars>>
    BY Zenon, <1>6 DEF Crash
  <2> QED  BY Zenon, <1>0, <2>1, <2>2, <2>3 DEF CallsTypeOK, warnVars
<1>7. CASE \/ \E o \in Orgs, p \in Policies : SavePolicy(o, p)
           \/ Tick
           \/ \E o \in Orgs : TopUp(o)
  <2>1. /\ UNCHANGED <<testVars, jobVars, faults, warnVars>>
        /\ grants' = grants \/ (grants < MaxGrants /\ grants' = grants + 1)
    BY Zenon, <1>7, Zenon DEF SavePolicy, Tick, TopUp
  <2>2. grants' \in 0..MaxGrants
    BY <1>0, <2>1 DEF CallsTypeOK
  <2> QED  BY Zenon, <1>1, <2>1, <2>2
<1>8. CASE \E w \in Workers, j \in Jobs : Deliver(w, j)
  BY <1>0, <1>2, <1>8 DEF CallsTypeOK, testVars, warnVars
<1>9. CASE \E w \in Workers : WorkerAct(w)
  BY <1>0, <1>3, <1>9 DEF CallsTypeOK, testVars
<1>10. CASE \E t \in Testers, o \in Orgs : RunTestCall(t, o)
  BY Zenon, <1>0, <1>4, <1>10 DEF CallsTypeOK, jobVars, warnVars
<1>11. CASE \E t \in Testers : TestAct(t)
  BY <1>0, <1>5, <1>11 DEF CallsTypeOK, jobVars, warnVars
<1> QED  BY Zenon, <1>6, <1>7, <1>8, <1>9, <1>10, <1>11, StepKinds

(* Whatever the zone, some hour of the day is the first of the window.     *)
LEMMA WindowHasHour ==
    ASSUME NEW p \in Window, p.start < p.end
    PROVE  \E h \in 0..(DayHours - 1) : Allows(p, h)
<1> DEFINE z == Zone[p.tz]
           h == IF p.start >= z THEN p.start - z ELSE p.start - z + DayHours
<1>1. /\ DayHours \in Nat \ {0} /\ z \in 0..(DayHours - 1) /\ p.tz \in DOMAIN Zone
      /\ p.start \in 0..(DayHours - 1) /\ p.end \in 1..DayHours
  BY Zenon, CallsAssumption DEF Window
<1>2. h \in 0..(DayHours - 1) /\ (h + z = p.start \/ h + z = p.start + DayHours)
  BY <1>1
<1>3. p.start % DayHours = p.start /\ (p.start + DayHours) % DayHours = p.start
  BY <1>1
<1>4. LocalHour(p, h) = p.start
  <2> HIDE DEF h
  <2> QED  BY Zenon, <1>1, <1>2, <1>3 DEF LocalHour
<1>5. Allows(p, h)
  BY SMTT(30), <1>1, <1>4 DEF Allows
<1> QED  BY Zenon, <1>2, <1>5

(* What the step of a run does to the counters of its job, by where the    *)
(* run was and where it goes.                                              *)
LEMMA WorkerCounts ==
    ASSUME CallsIInv, NEW w \in Workers, WorkerAct(w), NEW r \in Work, Onward(w, r)
    PROVE  LET j == work[w].job
           IN  \/ /\ UNCHANGED <<charges, dials, calls>>
                  /\ \/ r.job = NoJob
                     \/ At(w, "policy") /\ r.pc = "window"
                     \/ At(w, "window") /\ r.pc = "charge"
                     \/ At(w, "notify") /\ r.pc = "dial"
               \/ /\ At(w, "charge") /\ (r.job = NoJob \/ r.pc \in {"notify", "dial"})
                  /\ charges' = [charges EXCEPT ![j] = @ + 1] /\ UNCHANGED <<dials, calls>>
               \/ /\ At(w, "dial") /\ (r.job = NoJob \/ r.pc = "record")
                  /\ dials' = [dials EXCEPT ![j] = @ + 1] /\ UNCHANGED <<charges, calls>>
               \/ /\ At(w, "record") /\ r.job = NoJob
                  /\ calls' = [calls EXCEPT ![j] = @ + 1] /\ UNCHANGED <<charges, dials>>
<1>0. work \in [Workers -> Work] /\ work[w] \in Work
  BY Zenon DEF CallsIInv, CallsInv, CallsTypeOK
<1>1. work'[w] = r
  BY Zenon, <1>0 DEF Onward
<1>2. IdleWork.job = NoJob
  BY Zenon DEF IdleWork
<1>3. Finish(w) => r.job = NoJob
  BY Zenon, <1>0, <1>1, <1>2 DEF Finish
<1>4. ASSUME NEW l, Goto(w, l) PROVE r.pc = l
  BY Zenon, <1>0, <1>1, <1>4 DEF Goto, Work
<1>5. ASSUME ReadPolicy(w) PROVE r.pc = "window"
  <2>1. r = [work[w] EXCEPT !.pc = "window", !.pol = policy[OrgAt(w)], !.fresh = TRUE]
    BY Zenon, <1>0, <1>1, <1>5 DEF ReadPolicy
  <2> QED  BY Zenon, <1>0, <2>1 DEF Work
<1>6. CASE ReadPolicy(w)
  BY Zenon, <1>5, <1>6 DEF ReadPolicy, jobVars
<1>7. CASE CheckWindow(w)
  BY Zenon, <1>3, <1>4, <1>7 DEF CheckWindow
<1>8. CASE Charge(w)
  BY Zenon, <1>3, <1>4, <1>8 DEF Charge
<1>9. CASE Notify(w) \/ NotifyFails(w)
  BY Zenon, <1>4, <1>9 DEF Notify, NotifyFails, jobVars
<1>10. CASE Dial(w)
  BY Zenon, <1>4, <1>10 DEF Dial
<1>11. CASE RecordQueued(w) \/ RunFails(w) \/ ChargeAnswerLost(w) \/ DialAnswerLost(w)
  BY Zenon, <1>3, <1>11 DEF RecordQueued, RunFails, ChargeAnswerLost, DialAnswerLost
<1> QED  BY Zenon, <1>6, <1>7, <1>8, <1>9, <1>10, <1>11 DEF WorkerAct, Run

(* Runs that stay where they are count as before; idle ones do not count.  *)
LEMMA SamePlaces ==
    ASSUME \A w \in Workers : work'[w].pc = work[w].pc /\ work'[w].job = work[w].job
    PROVE  /\ \A j, pcs : RunsOf(work', j, pcs) = RunsOf(work, j, pcs)
           /\ \A o, pcs : OrgRunsOf(work', o, pcs) = OrgRunsOf(work, o, pcs)
  BY Zenon DEF RunsOf, OrgRunsOf

(* After a restart nobody is at work on anything.                          *)
LEMMA NobodyAtWork ==
    ASSUME \A w \in Workers : work'[w].pc = "idle" /\ work'[w].job = NoJob
    PROVE  /\ \A j, pcs : j \in Jobs => Cardinality(RunsOf(work', j, pcs)) = 0
           /\ \A o, pcs : Cardinality(OrgRunsOf(work', o, pcs)) = 0
<1>1. \A j, pcs : j \in Jobs => RunsOf(work', j, pcs) = {}
  BY Zenon, CallsAssumption DEF RunsOf
<1>2. \A o, pcs : OrgRunsOf(work', o, pcs) = {}
  BY Zenon DEF OrgRunsOf
<1> QED  BY Zenon, <1>1, <1>2, FS_EmptySet

(* Cardinalities are numbers.                                              *)
LEMMA RunsAreFinite ==
    /\ \A j, pcs : Cardinality(RunsOf(work, j, pcs)) \in Nat
    /\ \A o, pcs : Cardinality(OrgRunsOf(work, o, pcs)) \in Nat
    /\ \A o : Cardinality(TestsOf(test, o)) \in Nat
<1>1. \A j, pcs : RunsOf(work, j, pcs) \in SUBSET Workers
  BY Zenon DEF RunsOf
<1>2. \A o, pcs : OrgRunsOf(work, o, pcs) \in SUBSET Workers
  BY Zenon DEF OrgRunsOf
<1>3. \A o : TestsOf(test, o) \in SUBSET Testers
  BY Zenon DEF TestsOf
<1>4. \A S \in SUBSET Workers : Cardinality(S) \in Nat
  BY Zenon, CallsAssumption, FS_Subset, FS_CardinalityType
<1>5. \A S \in SUBSET Testers : Cardinality(S) \in Nat
  BY Zenon, CallsAssumption, FS_Subset, FS_CardinalityType
<1> QED  BY Zenon, <1>1, <1>2, <1>3, <1>4, <1>5

(* What the step of a run does to the warnings of its org, by where the    *)
(* run was and where it goes.  The charge that crosses is recognised by    *)
(* the balance the deduction leaves.                                       *)
LEMMA WorkerWarns ==
    ASSUME CallsIInv, NEW w \in Workers, WorkerAct(w), NEW r \in Work, Onward(w, r)
    PROVE  LET o == OrgAt(w)
           IN  \/ ~At(w, "notify") /\ r.pc # "notify" /\ UNCHANGED warnVars
               \/ /\ At(w, "charge") /\ warned' = warned
                  /\ crossings' = [crossings EXCEPT ![o] = @ + 1]
                  /\ r.pc = "notify" \/ (r.pc = "idle" /\ faults' # 0)
               \/ /\ At(w, "notify") /\ r.pc = "dial" /\ crossings' = crossings
                  /\ \/ warned' = warned /\ (faults' # 0 \/ o \notin Emailable)
                     \/ warned' = [warned EXCEPT ![o] = @ + 1]
<1>0. work \in [Workers -> Work] /\ work[w] \in Work /\ faults \in Nat /\ CreditTypeOK
  BY CallsAssumption DEF CallsIInv, CallsInv, CallsTypeOK
<1>1. work'[w] = r
  BY Zenon, <1>0 DEF Onward
<1>2. IdleWork.pc = "idle"
  BY Zenon DEF IdleWork
<1>3. Finish(w) => r.pc = "idle"
  BY Zenon, <1>0, <1>1, <1>2 DEF Finish
<1>4. ASSUME NEW l, Goto(w, l) PROVE r.pc = l
  BY Zenon, <1>0, <1>1, <1>4 DEF Goto, Work
<1>5. OrgAt(w) \in Orgs
  BY Zenon, WorkerGoes, CallsAssumption DEF OrgAt
<1>6. ASSUME TryDeduct(OrgAt(w), creditsPerCall, "call")
      PROVE  Crosses(balance'[OrgAt(w)])
               <=> balance[OrgAt(w)] > Threshold /\ balance'[OrgAt(w)] <= Threshold
  <2>1. balance[OrgAt(w)] \in Int /\ balance'[OrgAt(w)] = balance[OrgAt(w)] - 1
    BY Zenon, <1>0, <1>5, <1>6 DEF TryDeduct, TryDeductBalance, CreditTypeOK, creditsPerCall
  <2> QED  BY <2>1, CallsAssumption DEF Crosses, creditsPerCall
<1>7. CASE ReadPolicy(w)
  <2>1. r = [work[w] EXCEPT !.pc = "window", !.pol = policy[OrgAt(w)], !.fresh = TRUE]
    BY Zenon, <1>0, <1>1, <1>7 DEF ReadPolicy
  <2>2. r.pc = "window"
    BY Zenon, <1>0, <2>1 DEF Work
  <2> QED  BY Zenon, <1>7, <2>2 DEF ReadPolicy, At
<1>8. CASE CheckWindow(w) \/ Dial(w) \/ RecordQueued(w) \/ RunFails(w) \/ DialAnswerLost(w)
  BY Zenon, <1>3, <1>4, <1>8 DEF CheckWindow, Dial, RecordQueued, RunFails, DialAnswerLost, At
<1>9. CASE Charge(w)
  <2>1. CASE ~Covers(OrgAt(w), creditsPerCall) /\ Finish(w) /\ UNCHANGED <<crossings, warned>>
    BY Zenon, <1>3, <1>9, <2>1 DEF Charge, At, warnVars
  <2>2. CASE /\ TryDeduct(OrgAt(w), creditsPerCall, "call") /\ Cross(OrgAt(w))
             /\ Goto(w, IF Crosses(balance'[OrgAt(w)]) THEN "notify" ELSE "dial")
    <3>1. warned' = warned /\ At(w, "charge")
      BY Zenon, <1>9 DEF Charge
    <3>2. CASE Crosses(balance'[OrgAt(w)])
      BY Zenon, <1>4, <1>6, <2>2, <3>1, <3>2 DEF Cross
    <3>3. CASE ~Crosses(balance'[OrgAt(w)])
      BY Zenon, <1>4, <1>6, <2>2, <3>1, <3>3 DEF Cross, At, warnVars
    <3> QED  BY Zenon, <3>2, <3>3
  <2> QED  BY Zenon, <1>9, <2>1, <2>2 DEF Charge
<1>10. CASE ChargeAnswerLost(w)
  <2>1. faults' # 0
    BY <1>0, <1>10 DEF ChargeAnswerLost, Fault
  <2>2. At(w, "charge") /\ Cross(OrgAt(w)) /\ warned' = warned /\ r.pc = "idle"
    BY Zenon, <1>3, <1>10 DEF ChargeAnswerLost
  <2> QED  BY Zenon, <2>1, <2>2 DEF Cross, At, warnVars
<1>11. CASE Notify(w)
  BY Zenon, <1>4, <1>11 DEF Notify
<1>12. CASE NotifyFails(w)
  <2>1. faults' # 0
    BY SMTT(30), <1>0, <1>12 DEF NotifyFails, Fault
  <2> QED  BY Zenon, <1>4, <1>12, <2>1 DEF NotifyFails, warnVars
<1> QED  BY Zenon, <1>7, <1>8, <1>9, <1>10, <1>11, <1>12 DEF WorkerAct, Run

(* The window a run goes by, and the clock, change by SavePolicy and Tick  *)
(* only, and these mark the runs they concern.                             *)
LEMMA WorkerInWindow ==
    ASSUME CallsIInv, NEW w \in Workers, WorkerAct(w), NEW r \in Work, Onward(w, r), r.fresh
    PROVE  /\ r.job = work[w].job /\ r.pol = policy[OrgAt(w)]
           /\ r.pc \in {"charge", "notify", "dial"} => Allows(policy[OrgAt(w)], hour)
<1>0. /\ work \in [Workers -> Work] /\ work[w] \in Work /\ work'[w] = r
      /\ FreshIsCurrent /\ CalledInsideWindow
  BY Zenon DEF CallsIInv, CallsInv, CallsTypeOK, Onward
<1>1. ~Finish(w) /\ r.job = work[w].job
  <2>1. IdleWork.fresh = FALSE
    BY Zenon DEF IdleWork
  <2> QED  BY Zenon, <1>0, <2>1 DEF Finish, Onward
<1>2. ASSUME NEW l, Goto(w, l) PROVE r.pc = l /\ r.fresh = work[w].fresh /\ r.pol = work[w].pol
  BY Zenon, <1>0, <1>2 DEF Goto, Work
<1>3. CASE ReadPolicy(w)
  <2>1. r = [work[w] EXCEPT !.pc = "window", !.pol = policy[OrgAt(w)], !.fresh = TRUE]
    BY Zenon, <1>0, <1>3 DEF ReadPolicy
  <2>2. r.pc = "window" /\ r.pol = policy[OrgAt(w)]
    BY Zenon, <1>0, <2>1 DEF Work
  <2> QED  BY Zenon, <1>1, <2>2
<1>4. CASE CheckWindow(w)
  <2>1. Goto(w, "charge") /\ Allows(work[w].pol, hour)
    BY Zenon, <1>1, <1>4 DEF CheckWindow
  <2>2. work[w].fresh /\ r.pol = work[w].pol
    BY Zenon, <1>2, <2>1
  <2> QED  BY Zenon, <1>0, <1>1, <2>1, <2>2 DEF FreshIsCurrent
<1>5. CASE Charge(w) \/ Notify(w) \/ NotifyFails(w) \/ Dial(w)
  <2>1. \E l : Goto(w, l)
    BY Zenon, <1>1, <1>5 DEF Charge, Notify, NotifyFails, Dial
  <2>2. work[w].fresh /\ r.pol = work[w].pol
    BY Zenon, <1>2, <2>1
  <2>3. work[w].pc \in {"charge", "notify", "dial"}
    BY Zenon, <1>5 DEF Charge, Notify, NotifyFails, Dial, At
  <2>4. Allows(policy[OrgAt(w)], hour)
    BY Zenon, <1>0, <2>2, <2>3 DEF CalledInsideWindow
  <2> QED  BY Zenon, <1>0, <1>1, <2>2, <2>4 DEF FreshIsCurrent
<1>6. CASE RecordQueued(w) \/ RunFails(w) \/ ChargeAnswerLost(w) \/ DialAnswerLost(w)
  BY Zenon, <1>1, <1>6 DEF RecordQueued, RunFails, ChargeAnswerLost, DialAnswerLost
<1> QED  BY Zenon, <1>3, <1>4, <1>5, <1>6 DEF WorkerAct, Run

(* What the step of a test call does to the counters of its org.           *)
LEMMA TesterCounts ==
    ASSUME CallsIInv, NEW t \in Testers, TestAct(t)
    PROVE  LET o == test[t].org
               r == test'[t]
               live == {"dial", "record"}
           IN  \/ /\ UNCHANGED <<tested, cut, testRows, outbox>>
                  /\ \/ test[t].pc \notin live /\ r.pc \notin live
                     \/ test[t].pc \in live /\ r.pc \in live /\ r.org = o
                     \/ r.pc = "idle" /\ faults' # 0
               \/ /\ tested' = [tested EXCEPT ![o] = @ + 1] /\ UNCHANGED <<cut, testRows, outbox>>
                  /\ test[t].pc \notin live
                  /\ (r.pc \in live /\ r.org = o) \/ (r.pc = "idle" /\ faults' # 0)
               \/ /\ cut' = [cut EXCEPT ![o] = @ + 1] /\ UNCHANGED <<tested, testRows, outbox>>
                  /\ test[t].pc \in live /\ r.pc = "idle"
               \/ /\ testRows' = [testRows EXCEPT ![o] = @ + 1]
                  /\ outbox' = [outbox EXCEPT ![o] = @ + 1] /\ UNCHANGED <<tested, cut>>
                  /\ test[t].pc \in live /\ r.pc = "idle"
<1>0. test \in [Testers -> TestRun] /\ test[t] \in TestRun /\ faults \in Nat
  BY CallsAssumption DEF CallsIInv, CallsInv, CallsTypeOK
<1>1. TestReturn(t) => test'[t].pc = "idle"
  BY <1>0 DEF TestReturn, IdleTest
<1>2. ASSUME NEW l, TestGoto(t, l) PROVE test'[t].pc = l /\ test'[t].org = test[t].org
  BY Zenon, <1>0, <1>2 DEF TestGoto, TestRun
<1>3. Fault => faults' # 0
  BY SMTT(30), <1>0 DEF Fault
<1>4. CASE TestFlow(t)
  <2>1. ASSUME NEW f \in Flows, test' = [test EXCEPT ![t] = [@ EXCEPT !.pc = "charge", !.flow = f]]
        PROVE  test'[t].pc = "charge"
    <3>1. test'[t] = [test[t] EXCEPT !.pc = "charge", !.flow = f]
      BY Zenon, <1>0, <2>1
    <3> QED  BY Zenon, <1>0, <3>1 DEF TestRun
  <2>2. test'[t].pc \in {"idle", "charge"}
    BY Zenon, <1>1, <1>4, <2>1 DEF TestFlow
  <2> QED  BY Zenon, <1>4, <2>2 DEF TestFlow, TestAt
<1>5. CASE TestCharge(t)
  BY Zenon, <1>1, <1>2, <1>5 DEF TestCharge, TestAt
<1>6. CASE TestDial(t)
  BY Zenon, <1>1, <1>2, <1>6 DEF TestDial, TestAt
<1>7. CASE RecordOutcome(t)
  BY Zenon, <1>1, <1>7 DEF RecordOutcome, TestAt
<1>8. CASE TestFails(t) \/ TestChargeAnswerLost(t)
  BY Zenon, <1>1, <1>3, <1>8 DEF TestFails, TestChargeAnswerLost, TestAt
<1> QED  BY Zenon, <1>4, <1>5, <1>6, <1>7, <1>8 DEF TestAct, Test

-------------------------------------------------------------------------------
(* Only valid policies are saved.                                          *)
LEMMA SettingsStep ==
    ASSUME CallsIInv, Next
    PROVE  policy' \in [Orgs -> Window] /\ hour' \in 0..(DayHours - 1) /\ SomeHourAllowed'
<1>0. CallsTypeOK /\ SomeHourAllowed
  BY Zenon DEF CallsIInv, CallsInv
<1>1. CASE UNCHANGED settingVars
  BY Zenon, <1>0, <1>1 DEF CallsTypeOK, SomeHourAllowed, settingVars
<1>2. ASSUME NEW o \in Orgs, NEW p \in Policies, SavePolicy(o, p)
      PROVE  policy' \in [Orgs -> Window] /\ hour' = hour /\ SomeHourAllowed'
  <2>1. p \in Window /\ p.start < p.end /\ policy' = [policy EXCEPT ![o] = p] /\ hour' = hour
    BY Zenon, <1>2 DEF SavePolicy, Valid, UpsertCallPolicy
  <2>2. \E h \in 0..(DayHours - 1) : Allows(p, h)
    BY Zenon, <2>1, WindowHasHour
  <2> QED  BY Zenon, <1>0, <2>1, <2>2 DEF CallsTypeOK, SomeHourAllowed
<1>3. CASE Tick
  <2>1. policy' = policy /\ hour' = (hour + 1) % DayHours
    BY Zenon, <1>3 DEF Tick
  <2>2. hour' \in 0..(DayHours - 1)
    BY <1>0, <2>1, CallsAssumption DEF CallsTypeOK
  <2> QED  BY Zenon, <1>0, <2>1, <2>2 DEF CallsTypeOK, SomeHourAllowed
<1>4. CASE \/ \E o \in Orgs : TopUp(o)
           \/ \E w \in Workers, j \in Jobs : Deliver(w, j)
           \/ \E t \in Testers, o \in Orgs : RunTestCall(t, o)
           \/ Crash
  BY Zenon, <1>1, <1>4, Zenon DEF TopUp, Deliver, RunTestCall, Crash
<1>5. CASE \E w \in Workers : WorkerAct(w)
  BY Zenon, <1>1, <1>5, WorkerGoes
<1>6. CASE \E t \in Testers : TestAct(t)
  BY Zenon, <1>1, <1>6, TesterGoes
<1> QED  BY Zenon, <1>0, <1>2, <1>3, <1>4, <1>5, <1>6, StepKinds DEF CallsTypeOK

(* Runs and test calls stay well formed, and no job is forgotten.          *)
LEMMA RunsStep ==
    ASSUME CallsIInv, Next
    PROVE  /\ work' \in [Workers -> Work] /\ test' \in [Testers -> TestRun]
           /\ RunsHaveJobs' /\ NoJobForgotten'
<1> USE CallsAssumption
<1>0. CallsTypeOK /\ RunsHaveJobs /\ NoJobForgotten /\ faults \in Nat
  BY DEF CallsIInv, CallsInv, CallsTypeOK
<1>1. IdleWork \in Work /\ IdleWork.job = NoJob /\ IdleWork.pc = "idle"
  BY Zenon DEF IdleWork, Work
<1>2. IdleTest \in TestRun /\ IdleTest.org = NoOrg /\ IdleTest.pc = "idle"
  BY Zenon DEF IdleTest, TestRun, Flows
<1>3. ASSUME NEW ws \in SUBSET Workers, Outdate(ws), UNCHANGED <<test, delivered, closed, faults>>
      PROVE  /\ work' \in [Workers -> Work] /\ test' \in [Testers -> TestRun]
             /\ RunsHaveJobs' /\ NoJobForgotten'
  BY SMTT(60), ZenonT(60), <1>0, <1>3, OutdateKeeps DEF CallsTypeOK, RunsHaveJobs, NoJobForgotten, At, TestAt
<1>4. CASE UNCHANGED <<work, test, delivered, closed, faults>>
  BY Zenon, <1>0, <1>4 DEF CallsTypeOK, RunsHaveJobs, NoJobForgotten, At, TestAt
<1>5. ASSUME NEW w \in Workers, NEW j \in Jobs, Deliver(w, j)
      PROVE  /\ work' \in [Workers -> Work] /\ test' \in [Testers -> TestRun]
             /\ RunsHaveJobs' /\ NoJobForgotten'
  <2> DEFINE r == [work[w] EXCEPT !.pc = "policy", !.job = j]
  <2>0. work[w] \in Work /\ j # NoJob
    BY Zenon, <1>0 DEF CallsTypeOK
  <2>1. r \in Work /\ r.pc = "policy" /\ r.job = j /\ j # NoJob
    BY Zenon, <2>0 DEF Work
  <2>2. work' = [work EXCEPT ![w] = r] /\ UNCHANGED <<test, closed, faults>>
    BY Zenon, <1>5 DEF Deliver, testVars
  <2>3. work[w].pc = "idle" /\ work[w].job = NoJob
    BY Zenon, <1>0, <1>5 DEF Deliver, RunsHaveJobs, At
  <2>4. delivered' = [delivered EXCEPT ![j] = @ + 1]
    BY Zenon, <1>5 DEF Deliver
  <2> HIDE DEF r
  <2>5. work' \in [Workers -> Work] /\ test' \in [Testers -> TestRun] /\ RunsHaveJobs'
    BY Zenon, <1>0, <2>1, <2>2 DEF CallsTypeOK, RunsHaveJobs, At, TestAt
  <2>6. NoJobForgotten'
    BY <1>0, <2>1, <2>2, <2>3, <2>4 DEF CallsTypeOK, NoJobForgotten
  <2> QED  BY Zenon, <2>5, <2>6
<1>6. ASSUME NEW w \in Workers, WorkerAct(w)
      PROVE  /\ work' \in [Workers -> Work] /\ test' \in [Testers -> TestRun]
             /\ RunsHaveJobs' /\ NoJobForgotten'
  <2>1. PICK r \in Work : Onward(w, r)
    BY Zenon, <1>6, WorkerGoes
  <2>2. UNCHANGED <<test, delivered>> /\ work[w].job \in Jobs
    BY Zenon, <1>6, WorkerGoes DEF testVars
  <2>3. faults' = 0 => faults = 0
    BY Zenon, CountersStep
  <2>4. work' \in [Workers -> Work] /\ test' \in [Testers -> TestRun] /\ RunsHaveJobs'
    BY Zenon, <1>0, <2>1, <2>2 DEF CallsTypeOK, RunsHaveJobs, At, TestAt, Onward
  <2>5. NoJobForgotten'
    <3>0. faults' > 0 \/ faults = 0
      BY <2>3, CountersStep
    <3> SUFFICES ASSUME NEW j \in Jobs, j \notin closed', delivered'[j] # 0, faults = 0
                 PROVE  \E v \in Workers : work'[v].job = j
      BY Zenon, <3>0 DEF NoJobForgotten
    <3>1. j \notin closed /\ delivered[j] # 0
      BY Zenon, <2>1, <2>2 DEF Onward
    <3>2. PICK v \in Workers : work[v].job = j
      BY <1>0, <3>1 DEF NoJobForgotten
    <3>3. CASE v = w
      <4>1. r.job = j
        BY Zenon, <2>1, <3>2, <3>3 DEF Onward
      <4> QED  BY Zenon, <1>0, <2>1, <4>1 DEF CallsTypeOK, Onward
    <3>4. CASE v # w
      BY Zenon, <1>0, <2>1, <3>2, <3>4 DEF CallsTypeOK, Onward
    <3> QED  BY Zenon, <3>3, <3>4
  <2> QED  BY Zenon, <2>4, <2>5
<1>7. ASSUME NEW t \in Testers, NEW r \in TestRun, test' = [test EXCEPT ![t] = r],
             r.pc = "idle" <=> r.org = NoOrg, UNCHANGED <<work, delivered, closed>>
      PROVE  /\ work' \in [Workers -> Work] /\ test' \in [Testers -> TestRun]
             /\ RunsHaveJobs' /\ NoJobForgotten'
  <2>1. faults' > 0 \/ faults = 0
    BY CountersStep
  <2>2. NoJobForgotten'
    BY <1>0, <1>7, <2>1 DEF NoJobForgotten
  <2> QED  BY Zenon, <1>0, <1>7, <2>2 DEF CallsTypeOK, RunsHaveJobs, At, TestAt
<1>8. ASSUME NEW t \in Testers, NEW o \in Orgs, RunTestCall(t, o)
      PROVE  /\ work' \in [Workers -> Work] /\ test' \in [Testers -> TestRun]
             /\ RunsHaveJobs' /\ NoJobForgotten'
  <2> DEFINE r == [IdleTest EXCEPT !.pc = "flow", !.org = o]
  <2>1. r \in TestRun /\ (r.pc = "idle" <=> r.org = NoOrg)
    BY Zenon DEF TestRun, IdleTest, Flows
  <2> HIDE DEF r
  <2>2. test' = [test EXCEPT ![t] = r] /\ UNCHANGED <<work, delivered, closed>>
    BY Zenon, <1>8 DEF RunTestCall, jobVars, r
  <2> QED  BY Zenon, <1>7, <2>1, <2>2
<1>9. ASSUME NEW t \in Testers, TestAct(t)
      PROVE  /\ work' \in [Workers -> Work] /\ test' \in [Testers -> TestRun]
             /\ RunsHaveJobs' /\ NoJobForgotten'
  <2>1. PICK r \in TestRun : test' = [test EXCEPT ![t] = r] /\ (r.pc = "idle" <=> r.org = NoOrg)
    BY Zenon, <1>9, TesterGoes
  <2>2. UNCHANGED <<work, delivered, closed>>
    BY Zenon, <1>9, TesterGoes DEF jobVars
  <2> QED  BY Zenon, <1>7, <2>1, <2>2
<1>10. CASE Crash
  <2>1. work' = [w \in Workers |-> IdleWork] /\ test' = [t \in Testers |-> IdleTest]
    BY Zenon, <1>10 DEF Crash
  <2>2. faults' > 0
    BY <1>0, <1>10 DEF Crash, Fault
  <2> QED  BY Zenon, <1>1, <1>2, <2>1, <2>2 DEF RunsHaveJobs, NoJobForgotten, At, TestAt
<1>11. CASE (\E o \in Orgs, p \in Policies : SavePolicy(o, p)) \/ Tick
  <2>1. \E ws \in SUBSET Workers : Outdate(ws)
    BY Zenon, <1>11 DEF SavePolicy, Tick
  <2>2. UNCHANGED <<test, delivered, closed, faults>>
    BY Zenon, <1>11 DEF SavePolicy, Tick, testVars, jobVars
  <2> QED  BY Zenon, <1>3, <2>1, <2>2
<1>12. CASE \E o \in Orgs : TopUp(o)
  BY Zenon, <1>4, <1>12 DEF TopUp, testVars, jobVars
<1> QED  BY Zenon, <1>5, <1>6, <1>8, <1>9, <1>10, <1>11, <1>12, StepKinds
===============================================================================
