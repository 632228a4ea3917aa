------------------------------ MODULE CallsProofs -----------------------------
(***************************************************************************)
(* Metered calling for any number of jobs, workers and test calls, under   *)
(* either orchestrator and any number of failures: what is dialled was     *)
(* paid for, every crossing of the threshold is warned of once, and calls  *)
(* are made inside the window the run has read.                            *)
(***************************************************************************)
EXTENDS CallsSteps

(* The chain from delivery to record keeps its order, job by job.          *)
LEMMA WorkerPays ==
    ASSUME CallsIInv, NEW w \in Workers, WorkerAct(w)
    PROVE  PaidBeforeDialed'
<1>0. CallsTypeOK /\ PaidBeforeDialed
  BY Zenon DEF CallsIInv, CallsInv
<1>1. PICK r \in Work : Onward(w, r)
  BY Zenon, WorkerGoes
<1>2. work[w].job \in Jobs /\ delivered' = delivered
  BY Zenon, WorkerGoes
<1>3. /\ work' = [work EXCEPT ![w] = r] /\ r.job \in {work[w].job, NoJob}
      /\ r.pc = "idle" <=> r.job = NoJob
  BY Zenon, <1>1 DEF Onward
<1> SUFFICES ASSUME NEW j \in Jobs
             PROVE  /\ calls'[j] + Cardinality(RunsOf(work', j, {"record"})) <= dials'[j]
                    /\ dials'[j] + Cardinality(RunsOf(work', j, {"notify", "dial"})) <= charges'[j]
                    /\ charges'[j] + Cardinality(RunsOf(work', j, {"policy", "window", "charge"}))
                         <= delivered'[j]
  BY Zenon DEF PaidBeforeDialed, RunsAt, RunsOf
<1> DEFINE in(p, pcs) == InRuns(p, j, pcs)
           card(pcs) == Cardinality(RunsOf(work, j, pcs))
           cardNext(pcs) == Cardinality(RunsOf(work', j, pcs))
           R == {"record"}
           N == {"notify", "dial"}
           P == {"policy", "window", "charge"}
<1>4. /\ calls[j] + card(R) <= dials[j]
      /\ dials[j] + card(N) <= charges[j]
      /\ charges[j] + card(P) <= delivered[j]
  BY Zenon, <1>0, SetsNow DEF PaidBeforeDialed
<1>5. /\ calls[j] \in Nat /\ dials[j] \in Nat /\ charges[j] \in Nat /\ delivered[j] \in Nat
      /\ calls \in [Jobs -> Nat] /\ dials \in [Jobs -> Nat] /\ charges \in [Jobs -> Nat]
  BY <1>0 DEF CallsTypeOK
<1>6. ASSUME NEW pcs
      PROVE  /\ card(pcs) \in Nat /\ cardNext(pcs) \in Nat
             /\ cardNext(pcs) = card(pcs) + in(r, pcs) - in(work[w], pcs)
  <2>1. work'[w] = r /\ \A y \in Workers \ {w} : work'[y] = work[y]
    BY Zenon, <1>0, <1>3 DEF CallsTypeOK
  <2> QED  BY <2>1, RunGoes
<1>7. j # NoJob
  BY Zenon, CallsAssumption
<1>8. CASE j # work[w].job
  <2>1. calls'[j] = calls[j] /\ dials'[j] = dials[j] /\ charges'[j] = charges[j]
    BY Zenon, <1>1, <1>5, <1>8, WorkerCounts
  <2>2. \A pcs : in(r, pcs) = 0 /\ in(work[w], pcs) = 0
    BY Zenon, <1>3, <1>7, <1>8 DEF InRuns
  <2>3. \A pcs : cardNext(pcs) = card(pcs)
    <3> HIDE DEF in, card, cardNext
    <3> QED  BY <1>6, <2>2
  <2> QED  BY Zenon, <1>2, <1>4, <2>1, <2>3
<1>9. CASE j = work[w].job
  <2> DEFINE dR == in(r, R) - in(work[w], R)
             dN == in(r, N) - in(work[w], N)
             dP == in(r, P) - in(work[w], P)
  <2>1. /\ calls'[j] + dR + dials[j] <= dials'[j] + calls[j]
        /\ dials'[j] + dN + charges[j] <= charges'[j] + dials[j]
        /\ charges'[j] + dP <= charges[j]
        /\ calls'[j] \in Nat /\ dials'[j] \in Nat /\ charges'[j] \in Nat
    <3>1. r.job = NoJob => in(r, R) = 0 /\ in(r, N) = 0 /\ in(r, P) = 0
      BY Zenon, <1>7 DEF InRuns
    <3>2. r.job = j \/ r.job = NoJob
      BY Zenon, <1>3, <1>9
    <3> QED  BY <1>1, <1>3, <1>5, <1>7, <1>9, <3>1, <3>2, WorkerCounts DEF At, InRuns
  <2>2. /\ cardNext(R) = card(R) + dR /\ cardNext(N) = card(N) + dN /\ cardNext(P) = card(P) + dP
        /\ dR \in Int /\ dN \in Int /\ dP \in Int
        /\ card(R) \in Nat /\ card(N) \in Nat /\ card(P) \in Nat
    <3>1. \A p, pcs : in(p, pcs) \in {0, 1}
      BY Zenon DEF InRuns
    <3> HIDE DEF in, card, cardNext
    <3> QED  BY <1>6, <3>1
  <2> HIDE DEF dR, dN, dP
  <2> QED  BY SMTT(30), <1>2, <1>4, <1>5, <2>1, <2>2
<1> QED  BY Zenon, <1>8, <1>9

(* A delivery adds a run that is yet to charge.                            *)
LEMMA DeliverPays ==
    ASSUME CallsIInv, NEW w \in Workers, NEW k \in Jobs, Deliver(w, k)
    PROVE  PaidBeforeDialed'
<1>0. CallsTypeOK /\ PaidBeforeDialed /\ work[w] \in Work
  BY Zenon DEF CallsIInv, CallsInv, CallsTypeOK
<1> DEFINE r == [work[w] EXCEPT !.pc = "policy", !.job = k]
<1>1. r.pc = "policy" /\ r.job = k /\ work[w].pc = "idle"
  BY Zenon, <1>0 DEF Work, Deliver, At
<1>2. work'[w] = r /\ \A y \in Workers \ {w} : work'[y] = work[y]
  BY Zenon, <1>0 DEF CallsTypeOK, Deliver
<1>3. UNCHANGED <<charges, dials, calls>> /\ delivered' = [delivered EXCEPT ![k] = @ + 1]
  BY Zenon DEF Deliver
<1> HIDE DEF r
<1> SUFFICES ASSUME NEW j \in Jobs
             PROVE  /\ calls'[j] + Cardinality(RunsOf(work', j, {"record"})) <= dials'[j]
                    /\ dials'[j] + Cardinality(RunsOf(work', j, {"notify", "dial"})) <= charges'[j]
                    /\ charges'[j] + Cardinality(RunsOf(work', j, {"policy", "window", "charge"}))
                         <= delivered'[j]
  BY Zenon DEF PaidBeforeDialed, RunsAt, RunsOf
<1> DEFINE card(pcs) == Cardinality(RunsOf(work, j, pcs))
           cardNext(pcs) == Cardinality(RunsOf(work', j, pcs))
           R == {"record"}
           N == {"notify", "dial"}
           P == {"policy", "window", "charge"}
<1>4. /\ calls[j] + card(R) <= dials[j]
      /\ dials[j] + card(N) <= charges[j]
      /\ charges[j] + card(P) <= delivered[j]
  BY Zenon, <1>0, SetsNow DEF PaidBeforeDialed
<1>5. \A pcs : /\ card(pcs) \in Nat
               /\ cardNext(pcs) = card(pcs) + InRuns(r, j, pcs) - InRuns(work[w], j, pcs)
  BY <1>2, RunGoes
<1>6. /\ \A pcs \in {R, N, P} : InRuns(work[w], j, pcs) = 0
      /\ InRuns(r, j, R) = 0 /\ InRuns(r, j, N) = 0
      /\ InRuns(r, j, P) = IF j = k THEN 1 ELSE 0
  BY Zenon, <1>1 DEF InRuns
<1> HIDE DEF card, cardNext
<1>7. /\ cardNext(R) = card(R) /\ cardNext(N) = card(N) /\ card(P) \in Nat
      /\ cardNext(P) = card(P) + IF j = k THEN 1 ELSE 0
  BY <1>5, <1>6
<1>8. delivered'[j] = delivered[j] + (IF j = k THEN 1 ELSE 0) /\ delivered[j] \in Nat /\ charges[j] \in Nat
  BY <1>0, <1>3 DEF CallsTypeOK
<1>9. charges'[j] + cardNext(P) <= delivered'[j]
  BY <1>3, <1>4, <1>7, <1>8
<1> QED  BY Zenon, <1>3, <1>4, <1>7, <1>9 DEF card, cardNext

(* No step of the workers dials a call before its charge: PaidBeforeDialed *)
(* is kept.                                                                *)
LEMMA PaidStep ==
    ASSUME CallsIInv, Next
    PROVE  PaidBeforeDialed'
<1>0. CallsTypeOK /\ PaidBeforeDialed
  BY Zenon DEF CallsIInv, CallsInv
<1>1. ASSUME \A j, pcs : RunsOf(work', j, pcs) = RunsOf(work, j, pcs), UNCHANGED jobVars
      PROVE  PaidBeforeDialed'
  <2> SUFFICES ASSUME NEW j \in Jobs
               PROVE  /\ calls'[j] + Cardinality(RunsOf(work', j, {"record"})) <= dials'[j]
                      /\ dials'[j] + Cardinality(RunsOf(work', j, {"notify", "dial"})) <= charges'[j]
                      /\ charges'[j] + Cardinality(RunsOf(work', j, {"policy", "window", "charge"}))
                           <= delivered'[j]
    BY Zenon DEF PaidBeforeDialed, RunsAt, RunsOf
  <2>1. UNCHANGED <<delivered, charges, dials, calls>>
    BY Zenon, <1>1 DEF jobVars
  <2>2. /\ calls[j] + Cardinality(RunsOf(work, j, {"record"})) <= dials[j]
        /\ dials[j] + Cardinality(RunsOf(work, j, {"notify", "dial"})) <= charges[j]
        /\ charges[j] + Cardinality(RunsOf(work, j, {"policy", "window", "charge"})) <= delivered[j]
    BY Zenon, <1>0, SetsNow DEF PaidBeforeDialed
  <2> QED  BY Zenon, <1>1, <2>1, <2>2
<1>2. CASE UNCHANGED <<work, jobVars>>
  BY Zenon, <1>1, <1>2
<1>3. ASSUME NEW ws \in SUBSET Workers, Outdate(ws), UNCHANGED jobVars
      PROVE  PaidBeforeDialed'
  <2>1. \A w \in Workers : work'[w].pc = work[w].pc /\ work'[w].job = work[w].job
    BY Zenon, <1>0, <1>3, OutdateKeeps
  <2>2. \A j, pcs : RunsOf(work', j, pcs) = RunsOf(work, j, pcs)
    BY Zenon, <2>1, SamePlaces
  <2> QED  BY Zenon, <1>1, <1>3, <2>2
<1>4. CASE Crash
  <2>1. \A w \in Workers : work'[w].pc = "idle" /\ work'[w].job = NoJob
    BY Zenon, <1>4 DEF Crash, IdleWork
  <2>2. \A j, pcs : j \in Jobs => Cardinality(RunsOf(work', j, pcs)) = 0
    BY Zenon, <2>1, NobodyAtWork
  <2>3. UNCHANGED <<delivered, charges, dials, calls>>
    BY <1>4 DEF Crash
  <2> SUFFICES ASSUME NEW j \in Jobs
               PROVE  /\ calls'[j] + Cardinality(RunsOf(work', j, {"record"})) <= dials'[j]
                      /\ dials'[j] + Cardinality(RunsOf(work', j, {"notify", "dial"})) <= charges'[j]
                      /\ charges'[j] + Cardinality(RunsOf(work', j, {"policy", "window", "charge"}))
                           <= delivered'[j]
    BY Zenon DEF PaidBeforeDialed, RunsAt, RunsOf
  <2>4. /\ calls[j] + Cardinality(RunsOf(work, j, {"record"})) <= dials[j]
        /\ dials[j] + Cardinality(RunsOf(work, j, {"notify", "dial"})) <= charges[j]
        /\ charges[j] + Cardinality(RunsOf(work, j, {"policy", "window", "charge"})) <= delivered[j]
    BY Zenon, <1>0, SetsNow DEF PaidBeforeDialed
  <2>5. calls[j] \in Nat /\ dials[j] \in Nat /\ charges[j] \in Nat /\ delivered[j] \in Nat
    BY <1>0 DEF CallsTypeOK
  <2>6. calls[j] <= dials[j] /\ dials[j] <= charges[j] /\ charges[j] <= delivered[j]
    BY <2>4, <2>5, RunsAreFinite
  <2> QED  BY <2>2, <2>3, <2>5, <2>6
<1>5. CASE (\E o \in Orgs, p \in Policies : SavePolicy(o, p)) \/ Tick
  <2>1. \E ws \in SUBSET Workers : Outdate(ws)
    BY Zenon, <1>5 DEF SavePolicy, Tick
  <2>2. UNCHANGED jobVars
    BY Zenon, <1>5 DEF SavePolicy, Tick
  <2> QED  BY Zenon, <1>3, <2>1, <2>2
<1>6. CASE (\E o \in Orgs : TopUp(o)) \/ (\E t \in Testers, o \in Orgs : RunTestCall(t, o))
  BY Zenon, <1>2, <1>6 DEF TopUp, RunTestCall
<1>7. CASE \E t \in Testers : TestAct(t)
  BY Zenon, <1>2, <1>7, TesterGoes
<1> QED  BY Zenon, <1>4, <1>5, <1>6, <1>7, DeliverPays, WorkerPays, StepKinds

(* So crossings and warnings move together.                                *)
LEMMA WorkerKeepsWarning ==
    ASSUME CallsIInv, NEW w \in Workers, WorkerAct(w), faults' = 0 => faults = 0
    PROVE  EveryCrossingWarned'
<1>0. CallsTypeOK /\ EveryCrossingWarned
  BY Zenon DEF CallsIInv, CallsInv
<1>1. PICK r \in Work : Onward(w, r)
  BY Zenon, WorkerGoes
<1>2. work[w].job \in Jobs /\ work[w].job # NoJob /\ OrgAt(w) \in Orgs
  BY Zenon, WorkerGoes, CallsAssumption DEF OrgAt
<1>3. r.job \in {work[w].job, NoJob} /\ (r.pc = "idle" <=> r.job = NoJob)
  BY Zenon, <1>1 DEF Onward
<1>4. work'[w] = r /\ \A y \in Workers \ {w} : work'[y] = work[y]
  BY Zenon, <1>0, <1>1 DEF CallsTypeOK, Onward
<1> SUFFICES ASSUME NEW o \in Orgs
             PROVE  LET due == Cardinality(OrgRunsOf(work', o, {"notify"}))
                    IN  /\ warned'[o] + due <= crossings'[o]
                        /\ faults' = 0 /\ o \in Emailable => warned'[o] + due = crossings'[o]
  BY Zenon DEF EveryCrossingWarned, OrgRunsAt, OrgRunsOf, OrgAt
<1> DEFINE due == Cardinality(OrgRunsOf(work, o, {"notify"}))
           dueNext == Cardinality(OrgRunsOf(work', o, {"notify"}))
<1>5. /\ warned[o] + due <= crossings[o]
      /\ faults = 0 /\ o \in Emailable => warned[o] + due = crossings[o]
  BY Zenon, <1>0, SetsNow DEF EveryCrossingWarned
<1>6. /\ due \in Nat /\ dueNext \in Nat
      /\ dueNext = due + InOrgRuns(r, o, {"notify"}) - InOrgRuns(work[w], o, {"notify"})
  BY <1>4, OrgRunGoes
<1>7. /\ InOrgRuns(work[w], o, {"notify"}) = IF OrgAt(w) = o /\ At(w, "notify") THEN 1 ELSE 0
      /\ InOrgRuns(r, o, {"notify"}) = IF OrgAt(w) = o /\ r.pc = "notify" THEN 1 ELSE 0
  BY Zenon, <1>2, <1>3 DEF InOrgRuns, OrgAt, At
<1>8. warned[o] \in Nat /\ crossings[o] \in Nat /\ warned \in [Orgs -> Nat] /\ crossings \in [Orgs -> Nat]
  BY Zenon, <1>0 DEF CallsTypeOK
<1> HIDE DEF due, dueNext
<1>9. \/ dueNext = due /\ warned'[o] = warned[o] /\ crossings'[o] = crossings[o]
      \/ dueNext = due + 1 /\ warned'[o] = warned[o] /\ crossings'[o] = crossings[o] + 1
      \/ dueNext = due /\ warned'[o] = warned[o] /\ crossings'[o] = crossings[o] + 1 /\ faults' # 0
      \/ dueNext = due - 1 /\ warned'[o] = warned[o] + 1 /\ crossings'[o] = crossings[o]
      \/ /\ dueNext = due - 1 /\ warned'[o] = warned[o] /\ crossings'[o] = crossings[o]
         /\ faults' # 0 \/ o \notin Emailable
  <2>1. CASE OrgAt(w) # o
    <3>1. dueNext = due
      BY <1>6, <1>7, <2>1
    <3>2. warned'[o] = warned[o] /\ crossings'[o] = crossings[o]
      BY Zenon, <1>1, <1>2, <1>8, <2>1, WorkerWarns DEF warnVars
    <3> QED  BY Zenon, <3>1, <3>2
  <2>2. CASE OrgAt(w) = o
    <3>1. dueNext = due + (IF r.pc = "notify" THEN 1 ELSE 0) - (IF At(w, "notify") THEN 1 ELSE 0)
      BY Zenon, <1>6, <1>7, <2>2
    <3>2. \/ ~At(w, "notify") /\ r.pc # "notify" /\ warned'[o] = warned[o] /\ crossings'[o] = crossings[o]
          \/ /\ ~At(w, "notify") /\ warned'[o] = warned[o] /\ crossings'[o] = crossings[o] + 1
             /\ r.pc = "notify" \/ (r.pc # "notify" /\ faults' # 0)
          \/ /\ At(w, "notify") /\ r.pc # "notify" /\ crossings'[o] = crossings[o]
             /\ \/ warned'[o] = warned[o] /\ (faults' # 0 \/ o \notin Emailable)
                \/ warned'[o] = warned[o] + 1
      BY Zenon, <1>1, <1>8, <2>2, WorkerWarns DEF warnVars, At
    <3> QED  BY <1>6, <3>1, <3>2
  <2> QED  BY Zenon, <2>1, <2>2
<1>10. /\ warned'[o] + dueNext <= crossings'[o]
       /\ faults' = 0 /\ o \in Emailable => warned'[o] + dueNext = crossings'[o]
  <2>1. due \in Nat
    BY Zenon, <1>6
  <2> QED  BY <1>5, <1>8, <1>9, <2>1
<1> QED  BY Zenon, <1>10 DEF dueNext

(* Every crossing of the low-balance mark is warned of or about to be,     *)
(* after every step.                                                       *)
LEMMA WarnStep ==
    ASSUME CallsIInv, Next
    PROVE  EveryCrossingWarned'
<1>0. CallsTypeOK /\ EveryCrossingWarned
  BY Zenon DEF CallsIInv, CallsInv
<1>1. faults' = 0 => faults = 0
  BY Zenon, CountersStep
<1>2. ASSUME \A o, pcs : OrgRunsOf(work', o, pcs) = OrgRunsOf(work, o, pcs), UNCHANGED warnVars
      PROVE  EveryCrossingWarned'
  <2> SUFFICES ASSUME NEW o \in Orgs
               PROVE  LET due == Cardinality(OrgRunsOf(work', o, {"notify"}))
                      IN  /\ warned'[o] + due <= crossings'[o]
                          /\ faults' = 0 /\ o \in Emailable => warned'[o] + due = crossings'[o]
    BY Zenon DEF EveryCrossingWarned, OrgRunsAt, OrgRunsOf, OrgAt
  <2>1. LET due == Cardinality(OrgRunsOf(work, o, {"notify"}))
        IN  /\ warned[o] + due <= crossings[o]
            /\ faults = 0 /\ o \in Emailable => warned[o] + due = crossings[o]
    BY SMTT(30), <1>0, SetsNow DEF EveryCrossingWarned
  <2> QED  BY Zenon, <1>1, <1>2, <2>1 DEF warnVars
<1>3. CASE UNCHANGED <<work, warnVars>>
  BY Zenon, <1>2, <1>3
<1>4. ASSUME NEW ws \in SUBSET Workers, Outdate(ws), UNCHANGED warnVars
      PROVE  EveryCrossingWarned'
  <2>1. \A w \in Workers : work'[w].pc = work[w].pc /\ work'[w].job = work[w].job
    BY Zenon, <1>0, <1>4, OutdateKeeps
  <2>2. \A o, pcs : OrgRunsOf(work', o, pcs) = OrgRunsOf(work, o, pcs)
    BY Zenon, <2>1, SamePlaces
  <2> QED  BY Zenon, <1>2, <1>4, <2>2
<1>5. CASE Crash
  <2>1. \A w \in Workers : work'[w].pc = "idle" /\ work'[w].job = NoJob
    BY Zenon, <1>5 DEF Crash, IdleWork
  <2>2. \A o, pcs : Cardinality(OrgRunsOf(work', o, pcs)) = 0
    BY Zenon, <2>1, NobodyAtWork
  <2>3. UNCHANGED <<crossings, warned>> /\ faults' # 0
    BY SMTT(30), <1>0, <1>5, CallsAssumption DEF Crash, warnVars, Fault, CallsTypeOK
  <2> SUFFICES ASSUME NEW o \in Orgs
               PROVE  LET due == Cardinality(OrgRunsOf(work', o, {"notify"}))
                      IN  /\ warned'[o] + due <= crossings'[o]
                          /\ faults' = 0 /\ o \in Emailable => warned'[o] + due = crossings'[o]
    BY Zenon DEF EveryCrossingWarned, OrgRunsAt, OrgRunsOf, OrgAt
  <2>4. /\ warned[o] + Cardinality(OrgRunsOf(work, o, {"notify"})) <= crossings[o]
        /\ Cardinality(OrgRunsOf(work, o, {"notify"})) \in Nat
        /\ warned[o] \in Nat /\ crossings[o] \in Nat
    BY Zenon, <1>0, SetsNow, RunsAreFinite DEF EveryCrossingWarned, CallsTypeOK
  <2> QED  BY <2>2, <2>3, <2>4
<1>6. ASSUME NEW w \in Workers, NEW j \in Jobs, Deliver(w, j)
      PROVE  EveryCrossingWarned'
  <2> DEFINE r == [work[w] EXCEPT !.pc = "policy", !.job = j]
  <2>1. work[w] \in Work /\ work[w].pc = "idle"
    BY Zenon, <1>0, <1>6 DEF CallsTypeOK, Deliver, At
  <2>2. r.pc = "policy" /\ r.job = j
    BY Zenon, <2>1 DEF Work
  <2>3. work'[w] = r /\ \A y \in Workers \ {w} : work'[y] = work[y]
    BY Zenon, <1>0, <1>6 DEF CallsTypeOK, Deliver
  <2>4. UNCHANGED <<crossings, warned, faults>>
    BY Zenon, <1>6 DEF Deliver, warnVars
  <2> HIDE DEF r
  <2> SUFFICES ASSUME NEW o \in Orgs
               PROVE  LET due == Cardinality(OrgRunsOf(work', o, {"notify"}))
                      IN  /\ warned'[o] + due <= crossings'[o]
                          /\ faults' = 0 /\ o \in Emailable => warned'[o] + due = crossings'[o]
    BY Zenon DEF EveryCrossingWarned, OrgRunsAt, OrgRunsOf, OrgAt
  <2>5. Cardinality(OrgRunsOf(work', o, {"notify"})) = Cardinality(OrgRunsOf(work, o, {"notify"}))
    <3>1. InOrgRuns(r, o, {"notify"}) = 0 /\ InOrgRuns(work[w], o, {"notify"}) = 0
      BY Zenon, <2>1, <2>2 DEF InOrgRuns
    <3> QED  BY <2>3, <3>1, OrgRunGoes
  <2>6. LET due == Cardinality(OrgRunsOf(work, o, {"notify"}))
        IN  /\ warned[o] + due <= crossings[o]
            /\ faults = 0 /\ o \in Emailable => warned[o] + due = crossings[o]
    BY Zenon, <1>0, SetsNow DEF EveryCrossingWarned
  <2> QED  BY Zenon, <2>4, <2>5, <2>6
<1>7. CASE (\E o \in Orgs, p \in Policies : SavePolicy(o, p)) \/ Tick
  <2>1. (\E ws \in SUBSET Workers : Outdate(ws)) /\ UNCHANGED warnVars
    BY Zenon, <1>7 DEF SavePolicy, Tick
  <2> QED  BY Zenon, <1>4, <2>1
<1>8. CASE (\E o \in Orgs : TopUp(o)) \/ (\E t \in Testers, o \in Orgs : RunTestCall(t, o))
  BY Zenon, <1>3, <1>8 DEF TopUp, RunTestCall
<1>9. CASE \E t \in Testers : TestAct(t)
  BY Zenon, <1>3, <1>9, TesterGoes
<1> QED  BY <1>1, <1>5, <1>6, <1>7, <1>8, <1>9, WorkerKeepsWarning, StepKinds

(* A tester's own step records the call it makes or is cut short.          *)
LEMMA TesterExplains ==
    ASSUME CallsIInv, NEW t \in Testers, TestAct(t), faults' = 0 => faults = 0
    PROVE  TestsAreExplained' /\ OutcomeHasEvent'
<1>0. CallsTypeOK /\ TestsAreExplained /\ OutcomeHasEvent
  BY Zenon DEF CallsIInv, CallsInv
<1>1. test[t].org \in Orgs
  BY Zenon, TesterGoes
<1> DEFINE r == test'[t]
<1>2. \A y \in Testers \ {t} : test'[y] = test[y]
  BY Zenon, <1>0, TesterGoes DEF CallsTypeOK
<1> SUFFICES ASSUME NEW o \in Orgs
             PROVE  LET explained == testRows'[o] + cut'[o] + Cardinality(TestsOf(test', o))
                    IN  /\ explained <= tested'[o] /\ (faults' = 0 => explained = tested'[o])
                        /\ outbox'[o] = testRows'[o]
  BY Zenon DEF TestsAreExplained, OutcomeHasEvent, Underway, TestsOf
<1> DEFINE n == Cardinality(TestsOf(test, o))
           nNext == Cardinality(TestsOf(test', o))
<1>3. /\ testRows[o] + cut[o] + n <= tested[o] /\ outbox[o] = testRows[o]
      /\ faults = 0 => testRows[o] + cut[o] + n = tested[o]
  BY Zenon, <1>0, SetsNow DEF TestsAreExplained, OutcomeHasEvent
<1>4. n \in Nat /\ nNext \in Nat /\ nNext = n + InTests(r, o) - InTests(test[t], o)
  BY Zenon, <1>2, TestGoes
<1>5. /\ testRows \in [Orgs -> Nat] /\ cut \in [Orgs -> Nat] /\ tested \in [Orgs -> Nat]
      /\ outbox \in [Orgs -> Nat]
      /\ testRows[o] \in Nat /\ cut[o] \in Nat /\ tested[o] \in Nat
  BY Zenon, <1>0 DEF CallsTypeOK
<1>6. outbox'[o] = testRows'[o]
  <2>1. \/ outbox' = outbox /\ testRows' = testRows
        \/ /\ testRows' = [testRows EXCEPT ![test[t].org] = @ + 1]
           /\ outbox' = [outbox EXCEPT ![test[t].org] = @ + 1]
    BY Zenon, TesterCounts
  <2> QED  BY SMTT(30), <1>3, <1>5, <2>1
<1> DEFINE Moves ==
      \/ testRows'[o] = testRows[o] /\ cut'[o] = cut[o] /\ tested'[o] = tested[o] /\ nNext = n
      \/ /\ testRows'[o] = testRows[o] /\ cut'[o] = cut[o] /\ tested'[o] = tested[o]
         /\ nNext \in {n, n - 1} /\ faults' # 0
      \/ testRows'[o] = testRows[o] /\ cut'[o] = cut[o] /\ tested'[o] = tested[o] + 1 /\ nNext = n + 1
      \/ /\ testRows'[o] = testRows[o] /\ cut'[o] = cut[o] /\ tested'[o] = tested[o] + 1
         /\ nNext = n /\ faults' # 0
      \/ testRows'[o] = testRows[o] /\ cut'[o] = cut[o] + 1 /\ tested'[o] = tested[o] /\ nNext = n - 1
      \/ testRows'[o] = testRows[o] + 1 /\ cut'[o] = cut[o] /\ tested'[o] = tested[o] /\ nNext = n - 1
<1>7. Moves
  <2>1. r.pc = "idle" => r.org = NoOrg
    BY Zenon, <1>0, TesterGoes DEF CallsTypeOK
  <2>2. r.org \in {test[t].org, NoOrg} \/ r.pc \notin {"dial", "record"}
    BY Zenon, <2>1, TesterCounts
  <2> HIDE DEF n, nNext, r
  <2>3. CASE o # test[t].org
    <3>1. InTests(r, o) = 0 /\ InTests(test[t], o) = 0
      BY Zenon, <2>2, <2>3, CallsAssumption DEF InTests
    <3>2. testRows'[o] = testRows[o] /\ cut'[o] = cut[o] /\ tested'[o] = tested[o]
      <4>1. testRows' = testRows \/ testRows' = [testRows EXCEPT ![test[t].org] = @ + 1]
        BY Zenon, TesterCounts
      <4>2. cut' = cut \/ cut' = [cut EXCEPT ![test[t].org] = @ + 1]
        BY Zenon, TesterCounts
      <4>3. tested' = tested \/ tested' = [tested EXCEPT ![test[t].org] = @ + 1]
        BY Zenon, TesterCounts
      <4> QED  BY Zenon, <1>5, <2>3, <4>1, <4>2, <4>3
    <3>3. nNext = n
      BY <1>4, <3>1
    <3> QED  BY Zenon, <3>2, <3>3
  <2>4. CASE o = test[t].org
    <3>1. InTests(test[t], o) = IF test[t].pc \in {"dial", "record"} THEN 1 ELSE 0
      BY Zenon, <2>4 DEF InTests
    <3>2. InTests(r, o) = IF r.org = o /\ r.pc \in {"dial", "record"} THEN 1 ELSE 0
      BY Zenon DEF InTests
    <3>3. r.pc = "idle" => InTests(r, o) = 0
      BY Zenon, <3>2
    <3> DEFINE live == {"dial", "record"}
    <3>4. CASE /\ UNCHANGED <<tested, cut, testRows, outbox>>
               /\ \/ test[t].pc \notin live /\ r.pc \notin live
                  \/ test[t].pc \in live /\ r.pc \in live /\ r.org = o
                  \/ r.pc = "idle" /\ faults' # 0
      <4>1. nNext = n \/ (nNext \in {n, n - 1} /\ faults' # 0)
        BY <1>4, <3>1, <3>2, <3>3, <3>4
      <4> QED  BY Zenon, <3>4, <4>1
    <3>5. CASE /\ tested' = [tested EXCEPT ![o] = @ + 1] /\ UNCHANGED <<cut, testRows, outbox>>
               /\ test[t].pc \notin live
               /\ (r.pc \in live /\ r.org = o) \/ (r.pc = "idle" /\ faults' # 0)
      <4>1. tested'[o] = tested[o] + 1
        BY Zenon, <1>5, <3>5
      <4>2. nNext = n + 1 \/ (nNext = n /\ faults' # 0)
        BY <1>4, <3>1, <3>2, <3>3, <3>5
      <4> QED  BY Zenon, <3>5, <4>1, <4>2
    <3>6. CASE /\ cut' = [cut EXCEPT ![o] = @ + 1] /\ UNCHANGED <<tested, testRows, outbox>>
               /\ test[t].pc \in live /\ r.pc = "idle"
      <4>1. cut'[o] = cut[o] + 1
        BY Zenon, <1>5, <3>6
      <4>2. nNext = n - 1
        BY <1>4, <3>1, <3>3, <3>6
      <4> QED  BY Zenon, <3>6, <4>1, <4>2
    <3>7. CASE /\ testRows' = [testRows EXCEPT ![o] = @ + 1]
               /\ outbox' = [outbox EXCEPT ![o] = @ + 1] /\ UNCHANGED <<tested, cut>>
               /\ test[t].pc \in live /\ r.pc = "idle"
      <4>1. testRows'[o] = testRows[o] + 1
        BY Zenon, <1>5, <3>7
      <4>2. nNext = n - 1
        BY <1>4, <3>1, <3>3, <3>7
      <4> QED  BY Zenon, <3>7, <4>1, <4>2
    <3> QED  BY Zenon, <2>4, <3>4, <3>5, <3>6, <3>7, TesterCounts DEF r
  <2> HIDE DEF Moves
  <2> QED  BY Zenon, <2>3, <2>4
<1>8. /\ testRows'[o] + cut'[o] + nNext <= tested'[o]
      /\ faults' = 0 => testRows'[o] + cut'[o] + nNext = tested'[o]
  <2>1. n \in Nat
    BY Zenon, <1>4
  <2> HIDE DEF n, nNext
  <2> QED  BY <1>3, <1>5, <1>7, <2>1
<1> QED  BY Zenon, <1>6, <1>8

(* Every test call is explained after every step, whoever takes it.        *)
LEMMA TestsStep ==
    ASSUME CallsIInv, Next
    PROVE  TestsAreExplained' /\ OutcomeHasEvent'
<1>0. CallsTypeOK /\ TestsAreExplained /\ OutcomeHasEvent
  BY Zenon DEF CallsIInv, CallsInv
<1>1. faults' = 0 => faults = 0
  BY Zenon, CountersStep
<1>2. ASSUME \A o \in Orgs : Cardinality(TestsOf(test', o)) = Cardinality(TestsOf(test, o)),
             UNCHANGED <<tested, cut, testRows, outbox>>
      PROVE  TestsAreExplained' /\ OutcomeHasEvent'
  <2>1. OutcomeHasEvent'
    BY Zenon, <1>0, <1>2 DEF OutcomeHasEvent
  <2> SUFFICES ASSUME NEW o \in Orgs
               PROVE  LET explained == testRows'[o] + cut'[o] + Cardinality(TestsOf(test', o))
                      IN  explained <= tested'[o] /\ (faults' = 0 => explained = tested'[o])
    BY Zenon, <2>1 DEF TestsAreExplained, Underway, TestsOf
  <2>2. LET explained == testRows[o] + cut[o] + Cardinality(TestsOf(test, o))
        IN  explained <= tested[o] /\ (faults = 0 => explained = tested[o])
    BY Zenon, <1>0, SetsNow DEF TestsAreExplained
  <2> QED  BY Zenon, <1>1, <1>2, <2>2
<1>3. CASE UNCHANGED testVars
  BY Zenon, <1>2, <1>3 DEF testVars
<1>4. ASSUME NEW t \in Testers, NEW o \in Orgs, RunTestCall(t, o)
      PROVE  TestsAreExplained' /\ OutcomeHasEvent'
  <2> DEFINE r == [IdleTest EXCEPT !.pc = "flow", !.org = o]
  <2>1. r.pc = "flow" /\ test[t].pc = "idle"
    BY Zenon, <1>4 DEF IdleTest, RunTestCall, TestAt
  <2>2. test'[t] = r /\ \A y \in Testers \ {t} : test'[y] = test[y]
    BY Zenon, <1>0, <1>4 DEF CallsTypeOK, RunTestCall
  <2> HIDE DEF r
  <2>3. ASSUME NEW x \in Orgs
        PROVE  Cardinality(TestsOf(test', x)) = Cardinality(TestsOf(test, x))
    <3>1. InTests(r, x) = 0 /\ InTests(test[t], x) = 0
      BY Zenon, <2>1 DEF InTests
    <3> QED  BY <2>2, <3>1, TestGoes
  <2> QED  BY Zenon, <1>2, <1>4, <2>3 DEF RunTestCall
<1>5. CASE Crash
  <2>1. \A o \in Orgs : TestsOf(test', o) = {}
    BY Zenon, <1>5 DEF Crash, IdleTest, TestsOf
  <2>2. \A o \in Orgs : Cardinality(TestsOf(test', o)) = 0
    BY Zenon, <2>1, FS_EmptySet
  <2>3. UNCHANGED <<tested, cut, testRows, outbox>> /\ faults' # 0
    BY <1>0, <1>5, CallsAssumption DEF Crash, Fault, CallsTypeOK
  <2>4. OutcomeHasEvent'
    BY Zenon, <1>0, <2>3 DEF OutcomeHasEvent
  <2> SUFFICES ASSUME NEW o \in Orgs
               PROVE  LET explained == testRows'[o] + cut'[o] + Cardinality(TestsOf(test', o))
                      IN  explained <= tested'[o] /\ (faults' = 0 => explained = tested'[o])
    BY Zenon, <2>4 DEF TestsAreExplained, Underway, TestsOf
  <2>5. /\ testRows[o] + cut[o] + Cardinality(TestsOf(test, o)) <= tested[o]
        /\ testRows[o] \in Nat /\ cut[o] \in Nat /\ tested[o] \in Nat
        /\ Cardinality(TestsOf(test, o)) \in Nat
    BY Zenon, <1>0, SetsNow, RunsAreFinite DEF TestsAreExplained, CallsTypeOK
  <2> QED  BY <2>2, <2>3, <2>5
<1>6. CASE \/ \E o \in Orgs, p \in Policies : SavePolicy(o, p)
           \/ Tick
           \/ \E o \in Orgs : TopUp(o)
           \/ \E w \in Workers, j \in Jobs : Deliver(w, j)
  BY Zenon, <1>3, <1>6, Zenon DEF SavePolicy, Tick, TopUp, Deliver
<1>7. CASE \E w \in Workers : WorkerAct(w)
  BY Zenon, <1>3, <1>7, WorkerGoes
<1> QED  BY <1>1, <1>4, <1>5, <1>6, <1>7, TesterExplains, StepKinds

-------------------------------------------------------------------------------
(* A policy that was checked is current until it is saved anew: calls      *)
(* start inside the window.                                                *)
LEMMA WindowStep ==
    ASSUME CallsIInv, Next
    PROVE  FreshIsCurrent' /\ CalledInsideWindow'
<1>0. CallsTypeOK /\ FreshIsCurrent /\ CalledInsideWindow /\ RunsHaveJobs /\ work \in [Workers -> Work]
  BY Zenon DEF CallsIInv, CallsInv, CallsTypeOK
<1>1. CASE UNCHANGED <<work, settingVars>>
  BY Zenon, <1>0, <1>1 DEF FreshIsCurrent, CalledInsideWindow, At, OrgAt, settingVars
<1>2. ASSUME NEW w \in Workers, WorkerAct(w)
      PROVE  FreshIsCurrent' /\ CalledInsideWindow'
  <2>1. PICK r \in Work : Onward(w, r)
    BY Zenon, <1>2, WorkerGoes
  <2>2. UNCHANGED <<policy, hour>>
    BY Zenon, <1>2, WorkerGoes DEF settingVars
  <2>3. work'[w] = r /\ \A y \in Workers \ {w} : work'[y] = work[y]
    BY Zenon, <1>0, <2>1 DEF Onward
  <2>4. r.fresh => /\ r.pc # "idle" /\ r.pol = policy[JobOrg[r.job]]
                   /\ r.pc \in {"charge", "notify", "dial"} => Allows(policy[JobOrg[r.job]], hour)
    BY Zenon, <1>2, <2>1, WorkerInWindow DEF Onward, OrgAt
  <2> QED  BY <1>0, <2>2, <2>3, <2>4 DEF FreshIsCurrent, CalledInsideWindow, At, OrgAt
<1>3. ASSUME NEW w \in Workers, NEW j \in Jobs, Deliver(w, j)
      PROVE  FreshIsCurrent' /\ CalledInsideWindow'
  <2> DEFINE r == [work[w] EXCEPT !.pc = "policy", !.job = j]
  <2>1. work[w] \in Work /\ ~work[w].fresh
    BY Zenon, <1>0, <1>3 DEF CallsTypeOK, Deliver, FreshIsCurrent
  <2>2. ~r.fresh
    BY Zenon, <2>1 DEF Work
  <2>3. work'[w] = r /\ \A y \in Workers \ {w} : work'[y] = work[y]
    BY Zenon, <1>0, <1>3 DEF Deliver
  <2>4. UNCHANGED <<policy, hour>>
    BY Zenon, <1>3 DEF Deliver, settingVars
  <2> HIDE DEF r
  <2> QED  BY Zenon, <1>0, <2>2, <2>3, <2>4 DEF FreshIsCurrent, CalledInsideWindow, At, OrgAt
<1>4. ASSUME NEW o \in Orgs, NEW p \in Policies, SavePolicy(o, p)
      PROVE  FreshIsCurrent' /\ CalledInsideWindow'
  <2> DEFINE ws == {w \in Workers : work[w].job # NoJob /\ JobOrg[work[w].job] = o}
  <2>1. Outdate(ws) /\ ws \in SUBSET Workers /\ hour' = hour /\ policy' = [policy EXCEPT ![o] = p]
    BY Zenon, <1>4 DEF SavePolicy, UpsertCallPolicy
  <2>2. \A w \in Workers : /\ work'[w].pc = work[w].pc /\ work'[w].job = work[w].job
                           /\ work'[w].pol = work[w].pol
                           /\ work'[w].fresh <=> work[w].fresh /\ w \notin ws
    <3> HIDE DEF ws
    <3> QED  BY Zenon, <1>0, <2>1, OutdateKeeps
  <2>3. ASSUME NEW w \in Workers, work'[w].fresh
        PROVE  work[w].fresh /\ policy'[JobOrg[work[w].job]] = policy[JobOrg[work[w].job]]
    <3>1. work[w].fresh /\ w \notin ws
      BY Zenon, <2>2, <2>3
    <3>2. work[w].job # NoJob
      BY Zenon, <1>0, <3>1 DEF FreshIsCurrent, RunsHaveJobs
    <3> QED  BY <1>0, <2>1, <3>1, <3>2 DEF CallsTypeOK
  <2> HIDE DEF ws
  <2> QED  BY SMTT(30), <1>0, <2>1, <2>2, <2>3 DEF FreshIsCurrent, CalledInsideWindow, At, OrgAt
<1>5. CASE Tick
  <2>1. Outdate(Workers)
    BY Zenon, <1>5 DEF Tick
  <2>2. \A w \in Workers : ~work'[w].fresh
    BY Zenon, <1>0, <2>1, OutdateKeeps
  <2> QED  BY Zenon, <2>2 DEF FreshIsCurrent, CalledInsideWindow
<1>6. CASE Crash
  <2>1. \A w \in Workers : ~work'[w].fresh
    BY Zenon, <1>6 DEF Crash, IdleWork
  <2> QED  BY Zenon, <2>1 DEF FreshIsCurrent, CalledInsideWindow
<1>7. CASE (\E o \in Orgs : TopUp(o)) \/ (\E t \in Testers, o \in Orgs : RunTestCall(t, o))
  BY Zenon, <1>1, <1>7 DEF TopUp, RunTestCall
<1>8. CASE \E t \in Testers : TestAct(t)
  BY Zenon, <1>1, <1>8, TesterGoes
<1> QED  BY Zenon, <1>2, <1>3, <1>4, <1>5, <1>6, <1>7, <1>8, StepKinds

(* The local pool delivers once, and dials never outnumber deliveries.     *)
LEMMA RungStep ==
    ASSUME CallsIInv, Next, PaidBeforeDialed'
    PROVE  RungAtMostOnce'
<1>0. CallsTypeOK /\ RungAtMostOnce /\ orchestrator' = orchestrator
  BY Zenon DEF CallsIInv, CallsInv, Next
<1>1. orchestrator = "local" => \A j \in Jobs : delivered'[j] <= 1
  <2>1. CASE delivered' = delivered
    BY Zenon, <1>0, <2>1 DEF RungAtMostOnce
  <2>2. ASSUME NEW w \in Workers, NEW j \in Jobs, Deliver(w, j), orchestrator = "local"
        PROVE  \A k \in Jobs : delivered'[k] <= 1
    <3>1. delivered' = [delivered EXCEPT ![j] = @ + 1] /\ delivered[j] = 0
      BY Zenon, <2>2 DEF Deliver
    <3> QED  BY <1>0, <2>2, <3>1 DEF RungAtMostOnce, CallsTypeOK
  <2>3. CASE \/ \E o \in Orgs, p \in Policies : SavePolicy(o, p)
             \/ Tick
             \/ \E o \in Orgs : TopUp(o)
             \/ \E t \in Testers, o \in Orgs : RunTestCall(t, o)
             \/ Crash
    BY Zenon, <2>1, <2>3 DEF SavePolicy, Tick, TopUp, RunTestCall, Crash, jobVars
  <2>4. CASE \E w \in Workers : WorkerAct(w)
    BY Zenon, <2>1, <2>4, WorkerGoes
  <2>5. CASE \E t \in Testers : TestAct(t)
    BY Zenon, <2>1, <2>5, TesterGoes DEF jobVars
  <2> QED  BY Zenon, <2>2, <2>3, <2>4, <2>5, StepKinds
<1>2. ASSUME NEW j \in Jobs PROVE dials'[j] <= delivered'[j]
  <2>1. /\ dials'[j] + Cardinality(RunsOf(work', j, {"notify", "dial"})) <= charges'[j]
        /\ charges'[j] + Cardinality(RunsOf(work', j, {"policy", "window", "charge"})) <= delivered'[j]
    BY Zenon DEF PaidBeforeDialed, RunsAt, RunsOf
  <2>2. dials'[j] \in Nat /\ charges'[j] \in Nat /\ delivered'[j] \in Nat
    BY CountersStep
  <2>3. \A pcs : Cardinality(RunsOf(work', j, pcs)) \in Nat
    <3>1. \A pcs : RunsOf(work', j, pcs) \in SUBSET Workers
      BY Zenon DEF RunsOf
    <3>2. \A S \in SUBSET Workers : Cardinality(S) \in Nat
      BY Zenon, CallsAssumption, FS_Subset, FS_CardinalityType
    <3> QED  BY Zenon, <3>1, <3>2
  <2> QED  BY <2>1, <2>2, <2>3
<1>3. \A j \in Jobs : dials'[j] \in Nat /\ delivered'[j] \in Nat
  BY CountersStep
<1> QED  BY <1>0, <1>1, <1>2, <1>3 DEF RungAtMostOnce

(* Before any delivery the invariant holds.                                *)
LEMMA CallsInitial ==
    ASSUME Init
    PROVE  CallsIInv
<1> USE CallsAssumption
<1>1. CreditInv
  BY Zenon, CreditInit DEF Init
<1>2. IdleWork \in Work /\ IdleWork.pc = "idle" /\ IdleWork.job = NoJob /\ ~IdleWork.fresh
  BY Zenon DEF IdleWork, Work
<1>3. IdleTest \in TestRun /\ IdleTest.pc = "idle" /\ IdleTest.org = NoOrg
  BY Zenon DEF IdleTest, TestRun, Flows
<1>4. CallsTypeOK
  BY <1>1, <1>2, <1>3 DEF Init, CallsTypeOK, CreditInv
<1>5. \A w \in Workers : work[w] = IdleWork
  BY Zenon DEF Init
<1>6. \A t \in Testers : test[t] = IdleTest
  BY Zenon DEF Init
<1>7. RunsHaveJobs /\ FreshIsCurrent /\ CalledInsideWindow
  BY Zenon, <1>2, <1>3, <1>5, <1>6 DEF RunsHaveJobs, FreshIsCurrent, CalledInsideWindow, At, TestAt
<1>8. OutcomeHasEvent /\ NoJobForgotten /\ RungAtMostOnce
  BY DEF Init, OutcomeHasEvent, NoJobForgotten, RungAtMostOnce
<1>9. SomeHourAllowed
  <2>1. \E h \in 0..(DayHours - 1) : Allows(Default, h)
    BY Zenon, WindowHasHour
  <2> QED  BY Zenon, <2>1 DEF Init, SomeHourAllowed
<1>10. TestsAreExplained
  <2> SUFFICES ASSUME NEW o \in Orgs
               PROVE  LET explained == testRows[o] + cut[o] + Cardinality(TestsOf(test, o))
                      IN  explained <= tested[o] /\ (faults = 0 => explained = tested[o])
    BY Zenon, SetsNow DEF TestsAreExplained
  <2>1. TestsOf(test, o) = {}
    BY Zenon, <1>3, <1>6 DEF TestsOf
  <2>2. Cardinality(TestsOf(test, o)) = 0 /\ testRows[o] = 0 /\ cut[o] = 0 /\ tested[o] = 0
    BY Zenon, <2>1, FS_EmptySet DEF Init
  <2> QED  BY <2>2
<1>11. PaidBeforeDialed
  <2>1. ASSUME NEW j \in Jobs, NEW pcs PROVE Cardinality(RunsAt(j, pcs)) = 0
    <3>1. RunsAt(j, pcs) = {}
      BY Zenon, <1>2, <1>5 DEF RunsAt
    <3> QED  BY Zenon, <3>1, FS_EmptySet
  <2>2. \A j \in Jobs : calls[j] = 0 /\ dials[j] = 0 /\ charges[j] = 0 /\ delivered[j] = 0
    BY Zenon DEF Init
  <2> QED  BY <2>1, <2>2 DEF PaidBeforeDialed
<1>12. EveryCrossingWarned
  <2> SUFFICES ASSUME NEW o \in Orgs
               PROVE  LET due == Cardinality(OrgRunsOf(work, o, {"notify"}))
                      IN  /\ warned[o] + due <= crossings[o]
                          /\ faults = 0 /\ o \in Emailable => warned[o] + due = crossings[o]
    BY Zenon, SetsNow DEF EveryCrossingWarned
  <2>1. OrgRunsOf(work, o, {"notify"}) = {}
    BY Zenon, <1>2, <1>5 DEF OrgRunsOf
  <2>2. Cardinality(OrgRunsOf(work, o, {"notify"})) = 0 /\ warned[o] = 0 /\ crossings[o] = 0
    BY Zenon, <2>1, FS_EmptySet DEF Init
  <2> QED  BY <2>2
<1> QED  BY Zenon, <1>1, <1>4, <1>7, <1>8, <1>9, <1>10, <1>11, <1>12 DEF CallsIInv, CallsInv, CreditInv

(* Every step keeps the inductive invariant.                               *)
LEMMA CallsStep == CallsIInv /\ [Next]_vars => CallsIInv'
<1> SUFFICES ASSUME CallsIInv, [Next]_vars PROVE CallsIInv'
  BY Zenon
<1>1. CASE Next
  <2>1. CallsTypeOK'
    <3>1. orchestrator' \in Orchestrators
      BY Zenon, <1>1 DEF Next, CallsIInv, CallsInv, CallsTypeOK
    <3>2. CreditTypeOK'
      BY Zenon, <1>1, CreditStep DEF CreditInv
    <3> QED  BY Zenon, <1>1, <3>1, <3>2, CountersStep, SettingsStep, RunsStep DEF CallsTypeOK
  <2>2. NeverOverdrawn' /\ LedgerExplainsBalance'
    BY Zenon, <1>1, CreditStep DEF CreditInv
  <2>3. RungAtMostOnce'
    BY Zenon, <1>1, PaidStep, RungStep
  <2> QED  BY Zenon, <1>1, <2>1, <2>2, <2>3, SettingsStep, RunsStep, PaidStep, WarnStep, WindowStep, TestsStep
           DEF CallsIInv, CallsInv
<1>2. CASE UNCHANGED vars
  <2> USE <1>2 DEF vars, settingVars, testVars, jobVars, warnVars, creditVars
  <2>1. CallsTypeOK' /\ NeverOverdrawn' /\ LedgerExplainsBalance'
    BY Zenon DEF CallsIInv, CallsInv, CallsTypeOK, CreditTypeOK, NeverOverdrawn, LedgerExplainsBalance,
       LedgerSum
  <2>2. RunsHaveJobs' /\ OutcomeHasEvent' /\ SomeHourAllowed' /\ RungAtMostOnce'
    BY Zenon DEF CallsIInv, CallsInv, RunsHaveJobs, OutcomeHasEvent, SomeHourAllowed, RungAtMostOnce, At,
       TestAt
  <2>3. NoJobForgotten' /\ FreshIsCurrent' /\ CalledInsideWindow'
    BY Zenon DEF CallsIInv, CallsInv, NoJobForgotten, FreshIsCurrent, CalledInsideWindow, At, OrgAt
  <2>4. TestsAreExplained' /\ PaidBeforeDialed' /\ EveryCrossingWarned'
    BY Zenon DEF CallsIInv, CallsInv, TestsAreExplained, Underway, PaidBeforeDialed, RunsAt,
       EveryCrossingWarned, OrgRunsAt, OrgAt
  <2> QED  BY Zenon, <2>1, <2>2, <2>3, <2>4 DEF CallsIInv, CallsInv
<1> QED  BY Zenon, <1>1, <1>2

(* The properties of metered calling are invariants, whatever the jobs,    *)
(* workers, test calls, policies and bounds.                               *)
THEOREM CallsInductive == Spec => []CallsIInv
  BY CallsInitial, CallsStep, PTL DEF Spec

(* What CallsInv says of credits, events, policies and jobs (calls.go,     *)
(* callpolicy.go).                                                         *)
THEOREM CallsInvariant == Spec => []CallsInv
<1>1. CallsIInv => CallsInv
  BY Zenon DEF CallsIInv
<1> QED  BY <1>1, CallsInductive, PTL

(* PlaceCall deducts before it dials: for any number of redeliveries, no   *)
(* customer is rung and no call recorded that was not paid for.            *)
THEOREM NeverRungForFree == Spec => []PaidBeforeDialed
<1>1. CallsIInv => PaidBeforeDialed
  BY Zenon DEF CallsIInv
<1> QED  BY <1>1, CallsInductive, PTL

(* The low-balance email of PlaceCall: at most one per crossing, and       *)
(* exactly one while nothing fails.                                        *)
THEOREM WarnedOncePerCrossing == Spec => []EveryCrossingWarned
<1>1. CallsIInv => EveryCrossingWarned
  BY Zenon DEF CallsIInv
<1> QED  BY <1>1, CallsInductive, PTL

(* PlaceCall's window check: nobody is charged, warned or dialled outside  *)
(* the window unless hour or policy changed under the run.                 *)
THEOREM CallsInsideWindow == Spec => []CalledInsideWindow
<1>1. CallsIInv => CalledInsideWindow
  BY Zenon DEF CallsIInv
<1> QED  BY <1>1, CallsInductive, PTL
===============================================================================
