-------------------------------- MODULE Calls ---------------------------------
(***************************************************************************)
(* Metered calling (internal/service/calls): the place_call job handler,   *)
(* run by concurrent workers, and the dashboard's test calls, over the     *)
(* shared credit store, the calling window and the clock.  The             *)
(* orchestrator hands a job out at most once (the local pool) or until a   *)
(* run of it has closed (Hatchet).                                         *)
(***************************************************************************)
EXTENDS CreditRepo, FiniteSets

CONSTANTS
    Jobs,          \* enqueued place_call inputs
    JobOrg,        \* JobOrg[j]: the merchant the call is for
    Workers,       \* concurrent runs of the handler
    Testers,       \* concurrent RunTestCall requests
    Orchestrators, \* those the process may be started with
    MaxDeliveries, \* bound: times the engine hands one job out
    Policies,      \* calling windows merchants try to save
    Default,       \* DefaultCallPolicy
    DayHours,      \* 24 in the code
    Zone,          \* offset from UTC of each time zone LoadLocation knows
    Threshold,     \* LowBalanceThreshold
    SignupGrant,
    Emailable,     \* orgs whose owner has an email address
    MaxGrants,     \* bound: top-ups
    MaxTests,      \* bound: test calls
    MaxFaults,     \* bound: failed calls, lost answers and crashes
    NoJob,
    NoOrg

Window == [start : 0..(DayHours - 1), end : 1..DayHours, tz : DOMAIN Zone]

ASSUME CallsAssumption ==
    /\ JobOrg \in [Jobs -> Orgs]
    /\ Orchestrators \subseteq {"local", "hatchet"}
    /\ IsFiniteSet(Workers) /\ IsFiniteSet(Testers)
    /\ MaxDeliveries \in Nat \ {0}
    /\ DayHours \in Nat \ {0}
    /\ Zone \in [DOMAIN Zone -> 0..(DayHours - 1)]
    /\ Default \in Window /\ Default.start < Default.end
    /\ Threshold \in Nat
    /\ SignupGrant \in Nat
    /\ Emailable \subseteq Orgs
    /\ MaxGrants \in Nat /\ MaxTests \in Nat /\ MaxFaults \in Nat
    /\ NoJob \notin Jobs
    /\ NoOrg \notin Orgs

VARIABLES
    orchestrator,
    policy,      \* call_policies: each org's calling window
    hour,        \* the clock (UTC)
    work,        \* each worker: where it is, its job, the policy it read, and
                 \*   (history) whether policy and hour have been as they were since
    test,        \* each test call: where it is, its org, the flow it read
    delivered,   \* times each job has been handed out
    closed,      \* jobs the orchestrator will not hand out (again)
    grants,      \* top-ups so far
    tests,       \* test calls so far
    faults,
    charges,     \* history, per job: committed deductions,
    dials,       \*   calls placed with the voice provider,
    calls,       \*   queued calls recorded
    outbox,      \* webhook_outbox rows per org
    testRows,    \* calls rows of test calls per org
    tested,      \* history: test calls charged per org,
    cut,         \*   and those whose flow was not over after the one keypress
    crossings,   \* history: charges of jobs that took an org to the threshold
    warned       \* history: low-balance emails sent to an org

jobVars == <<delivered, closed, charges, dials, calls>>
testVars == <<test, tests, tested, cut, testRows, outbox>>
settingVars == <<policy, hour>>
warnVars == <<crossings, warned>>
vars == <<orchestrator, creditVars, settingVars, work, testVars, jobVars, grants, faults, warnVars>>

creditsPerCall == 1

IdleWork == [pc |-> "idle", job |-> NoJob, pol |-> Default, fresh |-> FALSE]
IdleTest == [pc |-> "idle", org |-> NoOrg, flow |-> "none"]

(* What GetActiveFlow returns, as far as a test call can tell: no flow, a  *)
(* flow that ends by its first keypress, or one that asks for more.        *)
Flows == {"none", "one_key", "longer"}

Work == [pc : {"idle", "policy", "window", "charge", "notify", "dial", "record"},
         job : Jobs \cup {NoJob}, pol : Window, fresh : BOOLEAN]
TestRun == [pc : {"idle", "flow", "charge", "dial", "record"},
            org : Orgs \cup {NoOrg}, flow : Flows]

CallsTypeOK ==
    /\ orchestrator \in Orchestrators
    /\ CreditTypeOK
    /\ policy \in [Orgs -> Window]
    /\ hour \in 0..(DayHours - 1)
    /\ work \in [Workers -> Work]
    /\ test \in [Testers -> TestRun]
    /\ delivered \in [Jobs -> 0..MaxDeliveries]
    /\ closed \in SUBSET Jobs
    /\ {charges, dials, calls} \subseteq [Jobs -> Nat]
    /\ {outbox, testRows, tested, cut, crossings, warned} \subseteq [Orgs -> Nat]
    /\ grants \in 0..MaxGrants /\ tests \in 0..MaxTests /\ faults \in 0..MaxFaults

Init ==
    /\ orchestrator \in Orchestrators
    /\ Seeded(SignupGrant)
    /\ policy = [o \in Orgs |-> Default]
    /\ hour = 0
    /\ work = [w \in Workers |-> IdleWork]
    /\ test = [t \in Testers |-> IdleTest]
    /\ delivered = [j \in Jobs |-> 0]
    /\ closed = {}
    /\ charges = [j \in Jobs |-> 0] /\ dials = charges /\ calls = charges
    /\ outbox = [o \in Orgs |-> 0] /\ testRows = outbox /\ tested = outbox /\ cut = outbox
    /\ crossings = outbox /\ warned = outbox
    /\ grants = 0 /\ tests = 0 /\ faults = 0

-------------------------------------------------------------------------------
(* Settings and clock.                                                     *)

(* The window is evaluated in the policy's time zone, an unknown zone      *)
(* being read as UTC.                                                      *)
LocalHour(p, h) ==
    (h + IF p.tz \in DOMAIN Zone THEN Zone[p.tz] ELSE 0) % DayHours

Allows(p, h) == LocalHour(p, h) >= p.start /\ LocalHour(p, h) < p.end

(* Valid: fields in range, a known zone, a non-empty window that does not  *)
(* wrap around.                                                            *)
Valid(p) == p \in Window /\ p.start < p.end

UpsertCallPolicy(o, p) == policy' = [policy EXCEPT ![o] = p]

(* What these runs have read or checked may no longer be so.               *)
Outdate(ws) ==
    work' = [w \in Workers |-> IF w \in ws THEN [work[w] EXCEPT !.fresh = FALSE] ELSE work[w]]

SavePolicy(o, p) ==
    /\ Valid(p)
    /\ UpsertCallPolicy(o, p)
    /\ Outdate({w \in Workers : work[w].job # NoJob /\ JobOrg[work[w].job] = o})
    /\ UNCHANGED <<creditVars, hour, testVars, jobVars, grants, faults,
                   warnVars>>

Tick ==
    /\ hour' = (hour + 1) % DayHours
    /\ Outdate(Workers)
    /\ UNCHANGED <<creditVars, policy, testVars, jobVars, grants,
                   faults, warnVars>>

(* A top-up settles (Billing.tla).                                         *)
TopUp(o) ==
    /\ grants < MaxGrants
    /\ grants' = grants + 1
    /\ Grant(o, 1, "topup")
    /\ UNCHANGED <<settingVars, work, testVars, jobVars, faults, warnVars>>

-------------------------------------------------------------------------------
(* Metering.                                                               *)

\* Mutant: warns only below the threshold.
BelowThreshold(bal) == bal < Threshold /\ bal + creditsPerCall >= Threshold

Crosses(bal) == bal <= Threshold /\ bal + creditsPerCall > Threshold

Cross(o) ==
    crossings' = IF balance[o] > Threshold /\ balance'[o] <= Threshold
                  THEN [crossings EXCEPT ![o] = @ + 1] ELSE crossings

-------------------------------------------------------------------------------
(* The place_call handler.                                                 *)

At(w, l) == work[w].pc = l
Goto(w, l) == work' = [work EXCEPT ![w].pc = l]
OrgAt(w) == JobOrg[work[w].job]

(* The handler returns, with or without an error: Hatchet is told, the     *)
(* local pool logs it.  Neither runs the job again.                        *)
Finish(w) ==
    /\ work' = [work EXCEPT ![w] = IdleWork]
    /\ closed' = closed \cup {work[w].job}

(* The local pool takes a job off its channel once.  Hatchet hands a job   *)
(* out again as long as no run of it has reported back.                    *)
Deliver(w, j) ==
    /\ At(w, "idle")
    /\ j \notin closed
    /\ delivered[j] = 0 \/ (orchestrator = "hatchet" /\ delivered[j] < MaxDeliveries)
    /\ delivered' = [delivered EXCEPT ![j] = @ + 1]
    /\ work' = [work EXCEPT ![w] = [@ EXCEPT !.pc = "policy", !.job = j]]
    /\ UNCHANGED <<creditVars, settingVars, testVars, closed, charges, dials,
                   calls, grants, faults, warnVars>>

ReadPolicy(w) ==
    /\ At(w, "policy")
    /\ work' = [work EXCEPT ![w] = [@ EXCEPT !.pc = "window", !.pol = policy[OrgAt(w)],
                                               !.fresh = TRUE]]
    /\ UNCHANGED <<creditVars, settingVars, testVars, jobVars, grants, faults,
                   warnVars>>

\* Mutant: the last hour of the window is one too many.
CheckThroughEnd(w) ==
    /\ At(w, "window")
    /\ LET h == LocalHour(work[w].pol, hour)
       IN  IF h >= work[w].pol.start /\ h <= work[w].pol.end
             THEN Goto(w, "charge") /\ UNCHANGED closed
             ELSE Finish(w)
    /\ UNCHANGED <<creditVars, settingVars, testVars, delivered, charges, dials,
                   calls, grants, faults, warnVars>>

CheckWindow(w) ==
    /\ At(w, "window")
    /\ \/ /\ Allows(work[w].pol, hour)
          /\ Goto(w, "charge")
          /\ UNCHANGED closed
       \/ /\ ~Allows(work[w].pol, hour)   \* ErrOutsideCallWindow
          /\ Finish(w)
    /\ UNCHANGED <<creditVars, settingVars, testVars, delivered, charges, dials,
                   calls, grants, faults, warnVars>>

\* Mutant: dials when the deduction was refused too.
ChargeIgnored(w) ==
    /\ At(w, "charge")
    /\ \/ /\ TryDeduct(OrgAt(w), creditsPerCall, "call") /\ Cross(OrgAt(w))
          /\ charges' = [charges EXCEPT ![work[w].job] = @ + 1]
       \/ /\ ~Covers(OrgAt(w), creditsPerCall)
          /\ UNCHANGED <<creditVars, charges, crossings>>
    /\ Goto(w, "dial")
    /\ UNCHANGED <<settingVars, testVars, delivered, closed, dials, calls, grants,
                   faults, warned>>

Charge(w) ==
    /\ At(w, "charge")
    /\ \/ /\ TryDeduct(OrgAt(w), creditsPerCall, "call") /\ Cross(OrgAt(w))
          /\ charges' = [charges EXCEPT ![work[w].job] = @ + 1]
          /\ Goto(w, IF Crosses(balance'[OrgAt(w)]) THEN "notify" ELSE "dial")
          /\ UNCHANGED closed
       \/ /\ ~Covers(OrgAt(w), creditsPerCall)   \* ErrInsufficientCredits
          /\ Finish(w)
          /\ UNCHANGED <<creditVars, charges, crossings>>
    /\ UNCHANGED <<settingVars, testVars, delivered, dials, calls, grants, faults,
                   warned>>

(* LowBalance: best effort, nothing is sent to an owner without an email.  *)
Notify(w) ==
    /\ At(w, "notify")
    /\ warned' = IF OrgAt(w) \in Emailable
                   THEN [warned EXCEPT ![OrgAt(w)] = @ + 1] ELSE warned
    /\ Goto(w, "dial")
    /\ UNCHANGED <<creditVars, settingVars, testVars, jobVars, grants, faults,
                   crossings>>

Dial(w) ==
    /\ At(w, "dial")
    /\ dials' = [dials EXCEPT ![work[w].job] = @ + 1]
    /\ Goto(w, "record")
    /\ UNCHANGED <<creditVars, settingVars, testVars, delivered, closed, charges,
                   calls, grants, faults, warnVars>>

(* A queued call: the row alone, no outbox event.                          *)
RecordQueued(w) ==
    /\ At(w, "record")
    /\ calls' = [calls EXCEPT ![work[w].job] = @ + 1]
    /\ Finish(w)
    /\ UNCHANGED <<creditVars, settingVars, testVars, delivered, charges, dials,
                   grants, faults, warnVars>>

-------------------------------------------------------------------------------
(* RunTestCall.                                                            *)

TestAt(t, l) == test[t].pc = l
TestGoto(t, l) == test' = [test EXCEPT ![t].pc = l]
TestReturn(t) == test' = [test EXCEPT ![t] = IdleTest]

RunTestCall(t, o) ==
    /\ TestAt(t, "idle")
    /\ tests < MaxTests
    /\ tests' = tests + 1
    /\ test' = [test EXCEPT ![t] = [IdleTest EXCEPT !.pc = "flow", !.org = o]]
    /\ UNCHANGED <<creditVars, settingVars, work, jobVars, tested, cut, testRows, outbox,
                   grants, faults, warnVars>>

TestFlow(t) ==
    /\ TestAt(t, "flow")
    /\ \/ TestReturn(t)   \* ErrNotFound
       \/ \E f \in Flows \ {"none"} :
              test' = [test EXCEPT ![t] = [@ EXCEPT !.pc = "charge", !.flow = f]]
    /\ UNCHANGED <<creditVars, settingVars, work, jobVars, tests, tested, cut, testRows,
                   outbox, grants, faults, warnVars>>

TestCharge(t) ==
    /\ TestAt(t, "charge")
    /\ \/ /\ TryDeduct(test[t].org, creditsPerCall, "call")
          /\ tested' = [tested EXCEPT ![test[t].org] = @ + 1]
          /\ TestGoto(t, "dial")
       \/ /\ ~Covers(test[t].org, creditsPerCall)
          /\ TestReturn(t)
          /\ UNCHANGED <<creditVars, tested>>
    /\ UNCHANGED <<settingVars, work, jobVars, tests, cut, testRows, outbox, grants,
                   faults, warnVars>>

(* The call is placed and one keypress driven through the flow.  A flow    *)
(* that is not over by then leaves no outcome, and reading its status      *)
(* panics: net/http recovers and the request ends there.                   *)
TestDial(t) ==
    /\ TestAt(t, "dial")
    /\ \/ /\ test[t].flow # "longer"
          /\ TestGoto(t, "record")
          /\ UNCHANGED cut
       \/ /\ test[t].flow = "longer"
          /\ TestReturn(t)
          /\ cut' = [cut EXCEPT ![test[t].org] = @ + 1]
    /\ UNCHANGED <<creditVars, settingVars, work, jobVars, tests, tested, testRows,
                   outbox, grants, faults, warnVars>>

\* Mutant: the call and its outbox row in two transactions, the second lost.
RecordWithoutEvent(t) ==
    /\ TestAt(t, "record")
    /\ testRows' = [testRows EXCEPT ![test[t].org] = @ + 1]
    /\ TestReturn(t)
    /\ UNCHANGED <<creditVars, settingVars, work, jobVars, tests, tested, cut, outbox,
                   grants, faults, warnVars>>

(* RecordCallOutcome: the call and its webhook outbox row in one           *)
(* transaction.                                                            *)
RecordOutcome(t) ==
    /\ TestAt(t, "record")
    /\ testRows' = [testRows EXCEPT ![test[t].org] = @ + 1]
    /\ outbox' = [outbox EXCEPT ![test[t].org] = @ + 1]
    /\ TestReturn(t)
    /\ UNCHANGED <<creditVars, settingVars, work, jobVars, tests, tested, cut, grants,
                   faults, warnVars>>

-------------------------------------------------------------------------------
(* Failures.                                                               *)

Fault == faults < MaxFaults /\ faults' = faults + 1

(* A failed call to the database or the voice provider ends the run with   *)
(* that error.                                                             *)
RunFails(w) ==
    /\ Fault
    /\ work[w].pc \in {"policy", "charge", "dial", "record"}
    /\ Finish(w)
    /\ UNCHANGED <<creditVars, settingVars, testVars, delivered, charges, dials,
                   calls, grants, warnVars>>

(* The deduction commits, or the call is placed, but the answer is lost.   *)
ChargeAnswerLost(w) ==
    /\ Fault
    /\ At(w, "charge")
    /\ TryDeduct(OrgAt(w), creditsPerCall, "call") /\ Cross(OrgAt(w))
    /\ charges' = [charges EXCEPT ![work[w].job] = @ + 1]
    /\ Finish(w)
    /\ UNCHANGED <<settingVars, testVars, delivered, dials, calls, grants, warned>>

DialAnswerLost(w) ==
    /\ Fault
    /\ At(w, "dial")
    /\ dials' = [dials EXCEPT ![work[w].job] = @ + 1]
    /\ Finish(w)
    /\ UNCHANGED <<creditVars, settingVars, testVars, delivered, charges, calls,
                   grants, warnVars>>

(* The owner's address cannot be read or the email is refused: logged.     *)
NotifyFails(w) ==
    /\ Fault
    /\ At(w, "notify")
    /\ Goto(w, "dial")
    /\ UNCHANGED <<creditVars, settingVars, testVars, jobVars, grants, warnVars>>

TestFails(t) ==
    /\ Fault
    /\ ~TestAt(t, "idle")
    /\ TestReturn(t)
    /\ UNCHANGED <<creditVars, settingVars, work, jobVars, tests, tested, cut, testRows,
                   outbox, grants, warnVars>>

TestChargeAnswerLost(t) ==
    /\ Fault
    /\ TestAt(t, "charge")
    /\ TryDeduct(test[t].org, creditsPerCall, "call")
    /\ tested' = [tested EXCEPT ![test[t].org] = @ + 1]
    /\ TestReturn(t)
    /\ UNCHANGED <<settingVars, work, jobVars, tests, cut, testRows, outbox, grants,
                   warnVars>>

(* The process dies.  The local pool's queue is memory and goes with it.   *)
Crash ==
    /\ Fault
    /\ work' = [w \in Workers |-> IdleWork]
    /\ test' = [t \in Testers |-> IdleTest]
    /\ closed' = IF orchestrator = "hatchet" THEN closed ELSE Jobs
    /\ UNCHANGED <<creditVars, settingVars, tests, tested, cut, testRows, outbox,
                   delivered, charges, dials, calls, grants, warnVars>>

-------------------------------------------------------------------------------
Run(w) ==
    \/ ReadPolicy(w) \/ CheckWindow(w) \/ Charge(w) \/ Notify(w) \/ Dial(w)
    \/ RecordQueued(w)

Test(t) == TestFlow(t) \/ TestCharge(t) \/ TestDial(t) \/ RecordOutcome(t)

Next ==
    /\ \/ \E o \in Orgs, p \in Policies : SavePolicy(o, p)
       \/ Tick
       \/ \E o \in Orgs : TopUp(o)
       \/ \E w \in Workers, j \in Jobs : Deliver(w, j)
       \/ \E w \in Workers : Run(w)
       \/ \E w \in Workers : RunFails(w) \/ ChargeAnswerLost(w) \/ DialAnswerLost(w)
                              \/ NotifyFails(w)
       \/ \E t \in Testers, o \in Orgs : RunTestCall(t, o)
       \/ \E t \in Testers : Test(t) \/ TestFails(t) \/ TestChargeAnswerLost(t)
       \/ Crash
    /\ UNCHANGED orchestrator

Spec == Init /\ [][Next]_vars

-------------------------------------------------------------------------------
(* The runs of a job, and of an org's jobs, that are at one of these       *)
(* points.                                                                 *)
RunsAt(j, pcs) == {w \in Workers : work[w].job = j /\ work[w].pc \in pcs}
OrgRunsAt(o, pcs) ==
    {w \in Workers : work[w].job # NoJob /\ OrgAt(w) = o /\ work[w].pc \in pcs}

(* Every call recorded, or about to be, was placed; every call placed, or  *)
(* about to be, was charged for; and every charge, made or to come,        *)
(* belongs to a delivery of its own, through failures, lost answers and    *)
(* redelivery: a customer is never rung for free.                          *)
PaidBeforeDialed ==
    \A j \in Jobs :
        /\ calls[j] + Cardinality(RunsAt(j, {"record"})) <= dials[j]
        /\ dials[j] + Cardinality(RunsAt(j, {"notify", "dial"})) <= charges[j]
        /\ charges[j] + Cardinality(RunsAt(j, {"policy", "window", "charge"})) <= delivered[j]

(* A run has a job, and a test call an org, from start to end.             *)
RunsHaveJobs ==
    /\ \A w \in Workers : At(w, "idle") <=> work[w].job = NoJob
    /\ \A t \in Testers : TestAt(t, "idle") <=> test[t].org = NoOrg

(* The test calls of an org that have been charged and not yet recorded.   *)
Underway(o) == {t \in Testers : test[t].org = o /\ test[t].pc \in {"dial", "record"}}

(* RunTestCall charges first and may then find the flow not over after its *)
(* one keypress: the nil outcome panics and the credit is gone.  Every     *)
(* test call recorded, so cut off, or on its way has been paid for, and    *)
(* while nothing else fails these are all that have been.                  *)
TestsAreExplained ==
    \A o \in Orgs :
        LET explained == testRows[o] + cut[o] + Cardinality(Underway(o))
        IN  explained <= tested[o] /\ (faults = 0 => explained = tested[o])

(* PlaceCall's comment: no dialing customers outside allowed local hours.  *)
(* The window is checked before the charge and the warning email, and is   *)
(* not looked at again: whoever is charged, warned or rung is inside the   *)
(* org's present window unless, since the run read the policy, the hour    *)
(* has changed or the merchant has.                                        *)
CalledInsideWindow ==
    \A w \in Workers :
        work[w].pc \in {"charge", "notify", "dial"} /\ work[w].fresh =>
            Allows(policy[OrgAt(w)], hour)

(* Until then the policy a run goes by is the org's.                       *)
FreshIsCurrent ==
    \A w \in Workers :
        work[w].fresh => ~At(w, "idle") /\ work[w].pol = policy[OrgAt(w)]

(* SavePolicy stores no window that is closed all day long, in whatever    *)
(* zone: a merchant's settings never block every call.                     *)
SomeHourAllowed == \A o \in Orgs : \E h \in 0..(DayHours - 1) : Allows(policy[o], h)

(* A call outcome and its webhook event are stored together, so every      *)
(* terminal call has exactly one outbox row.                               *)
OutcomeHasEvent == \A o \in Orgs : outbox[o] = testRows[o]

(* The comment in PlaceCall: the merchant is warned exactly once, on the   *)
(* charge that crosses the threshold.  Concurrent charges, test calls and  *)
(* top-ups notwithstanding, there are never more warnings, sent or about   *)
(* to be, than charges of jobs that crossed it: the check uses the balance *)
(* the deduction itself returned.  While nothing fails there are as many.  *)
EveryCrossingWarned ==
    \A o \in Orgs :
        LET due == Cardinality(OrgRunsAt(o, {"notify"}))
        IN  /\ warned[o] + due <= crossings[o]
            /\ faults = 0 /\ o \in Emailable => warned[o] + due = crossings[o]

(* Unless something fails, a job that has been handed out is in the hands  *)
(* of a worker until a run of it has reported back: none is forgotten.     *)
NoJobForgotten ==
    \A j \in Jobs :
        \/ j \in closed
        \/ delivered[j] = 0
        \/ \E w \in Workers : work[w].job = j
        \/ faults > 0

(* The local pool's at-most-once delivery rings a job's customer at most   *)
(* once.  Under Hatchet PlaceCall has no guard of its own against a second *)
(* run, and only PaidBeforeDialed's bound holds: a call per delivery.      *)
RungAtMostOnce ==
    orchestrator = "local" => \A j \in Jobs : delivered[j] <= 1 /\ dials[j] <= 1

(* What holds of calling at every moment, through redelivery, crashes and  *)
(* lost answers: credits add up, outcomes have their events, policies      *)
(* leave an open hour, and no job is lost or, by the local pool, dialled   *)
(* twice.                                                                  *)
CallsInv ==
    /\ CallsTypeOK
    /\ RunsHaveJobs
    /\ NeverOverdrawn /\ LedgerExplainsBalance
    /\ OutcomeHasEvent
    /\ TestsAreExplained
    /\ SomeHourAllowed
    /\ NoJobForgotten
    /\ RungAtMostOnce
    /\ FreshIsCurrent
===============================================================================
