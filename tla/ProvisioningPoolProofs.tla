------------------------ MODULE ProvisioningPoolProofs ------------------------
(***************************************************************************)
(* What is done once.  Provisioning, for any number of users, concurrent   *)
(* requests and failures: one org for a user, seeded at most once, under   *)
(* the name its user chose.  The local orchestrator, for any pool size,    *)
(* channel capacity and set of senders: an accepted job is run once, in    *)
(* the order of acceptance, and the pool implements a queue.               *)
(***************************************************************************)
EXTENDS Provisioning, LocalOrchestrator, TLAPS

(* A store without accounts satisfies CreditInv.                           *)
LEMMA CreditInit ==
    ASSUME Unseeded
    PROVE  CreditInv
<1>1. account \in [Orgs -> BOOLEAN]
  BY Zenon DEF Unseeded
<1>2. balance \in [Orgs -> Int] /\ ledger \in [Orgs -> [Reasons -> Int]]
  BY DEF Unseeded, Reasons
<1>3. ASSUME NEW o \in Orgs
      PROVE  balance[o] = 0 /\ LedgerSum(o) = 0
  <2>1. balance[o] = 0 /\ ledger[o] = [r \in Reasons |-> 0]
    BY Zenon DEF Unseeded
  <2>2. /\ ledger[o]["signup_grant"] = 0
        /\ ledger[o]["topup"] = 0
        /\ ledger[o]["call"] = 0
    BY <2>1 DEF Reasons
  <2> QED  BY <2>1, <2>2 DEF LedgerSum
<1> QED  BY <1>1, <1>2, <1>3 DEF CreditInv, CreditTypeOK, NeverOverdrawn, LedgerExplainsBalance

Request == [pc : Labels, user : Users \cup {NoUser}, org : Orgs \cup {NoOrg}]

(* What the request h may go on to, by where it is.                        *)
Onward(h, r) ==
    \/ r = NoRequest
    \/ /\ At(h, "idle") /\ r.pc = "get" /\ r.user \in Users /\ r.org = NoOrg
    \/ /\ At(h, "get") /\ r.pc = "create" /\ r.user = req[h].user
       /\ r.org \in Orgs /\ Fresh(r.org)
    \/ /\ r.user = req[h].user /\ r.org = req[h].org
       /\ \/ At(h, "create") /\ r.pc = "reread"
          \/ At(h, "reread") /\ r.pc = "flow" /\ owned[r.user] = r.org
          \/ At(h, "flow") /\ r.pc = "account"
          \/ At(h, "account") /\ r.pc = "adjust"
          \/ At(h, "adjust") /\ r.pc = "ledger"

(* The step of one request, whatever it does.                              *)
RequestAct(h) ==
    \/ \E u \in Users : RequireAuth(h, u)
    \/ Step(h)
    \/ LookupFails(h) \/ CreateAnswerLost(h) \/ SeedFails(h) \/ AdjustAnswerLost(h)
    \/ Abandon(h)

OwnerAct == \E u \in Users, o \in Orgs : Spend(u, o) \/ Rename(u, o)

(* A step is one of a request or one of an owner.                          *)
LEMMA StepKinds ==
    ASSUME Next PROVE (\E h \in Handlers : RequestAct(h)) \/ OwnerAct
BY Zenon DEF Next, RequestAct, OwnerAct

(* A request goes on from where it is, and no other request moves.         *)
LEMMA RequestGoes ==
    ASSUME ProvisioningInv, NEW h \in Handlers, RequestAct(h)
    PROVE  /\ Onward(h, req'[h]) /\ req'[h] \in Request
           /\ \A g \in Handlers \ {h} : req'[g] = req[g]
           /\ req' \in [Handlers -> Request]
<1>0. req \in [Handlers -> Request] /\ req[h] \in Request
  BY Zenon DEF ProvisioningInv, ProvisioningTypeOK, Request
<1>1. ASSUME NEW r \in Request, Onward(h, r), req' = [req EXCEPT ![h] = r]
      PROVE  /\ Onward(h, req'[h]) /\ req'[h] \in Request
             /\ \A g \in Handlers \ {h} : req'[g] = req[g]
             /\ req' \in [Handlers -> Request]
  <2>1. req'[h] = r
    BY Zenon, <1>0, <1>1
  <2>2. \A g \in Handlers \ {h} : req'[g] = req[g]
    BY Zenon, <1>0, <1>1
  <2>3. req' \in [Handlers -> Request]
    BY Zenon, <1>0, <1>1
  <2> QED  BY Zenon, <1>1, <2>1, <2>2, <2>3
<1>2. NoRequest \in Request /\ Onward(h, NoRequest)
  BY Zenon DEF NoRequest, Request, Labels, Onward
<1>3. ASSUME NEW u \in Users, RequireAuth(h, u)
      PROVE  \E r \in Request : Onward(h, r) /\ req' = [req EXCEPT ![h] = r]
  <2> DEFINE r == [req[h] EXCEPT !.pc = "get", !.user = u]
  <2>1. At(h, "idle") /\ req' = [req EXCEPT ![h] = r]
    BY Zenon, <1>0, <1>3 DEF RequireAuth
  <2>2. r \in Request /\ r.pc = "get" /\ r.user = u /\ r.org = req[h].org
    BY Zenon, <1>0 DEF Request, Labels
  <2>3. req[h].org = NoOrg
    BY <2>1 DEF ProvisioningInv, EachHoldsItsOwn, NoRequest
  <2> HIDE DEF r
  <2> QED  BY Zenon, <2>1, <2>2, <2>3 DEF Onward
<1>4. ASSUME NEW l \in Labels, Goto(h, l),
             \/ At(h, "create") /\ l = "reread"
             \/ At(h, "reread") /\ l = "flow" /\ owned[req[h].user] = req[h].org
             \/ At(h, "flow") /\ l = "account"
             \/ At(h, "account") /\ l = "adjust"
             \/ At(h, "adjust") /\ l = "ledger"
      PROVE  \E r \in Request : Onward(h, r) /\ req' = [req EXCEPT ![h] = r]
  <2> DEFINE r == [req[h] EXCEPT !.pc = l]
  <2>1. req' = [req EXCEPT ![h] = r]
    BY Zenon, <1>0, <1>4 DEF Goto
  <2>2. r \in Request /\ r.pc = l /\ r.user = req[h].user /\ r.org = req[h].org
    BY Zenon, <1>0 DEF Request
  <2> HIDE DEF r
  <2> QED  BY Zenon, <1>4, <2>1, <2>2 DEF Onward
<1>5. ASSUME NEW o \in Orgs, At(h, "get"), Fresh(o),
             req' = [req EXCEPT ![h] = [@ EXCEPT !.pc = "create", !.org = o]]
      PROVE  \E r \in Request : Onward(h, r) /\ req' = [req EXCEPT ![h] = r]
  <2> DEFINE r == [req[h] EXCEPT !.pc = "create", !.org = o]
  <2>1. req' = [req EXCEPT ![h] = r]
    BY Zenon, <1>0, <1>5
  <2>2. r \in Request /\ r.pc = "create" /\ r.user = req[h].user /\ r.org = o
    BY Zenon, <1>0 DEF Request, Labels
  <2> HIDE DEF r
  <2> QED  BY Zenon, <1>5, <2>1, <2>2 DEF Onward
<1>6. {"reread", "flow", "account", "adjust", "ledger"} \subseteq Labels
  BY Zenon DEF Labels
<1>7. ASSUME req' = [req EXCEPT ![h] = NoRequest]
      PROVE  \E r \in Request : Onward(h, r) /\ req' = [req EXCEPT ![h] = r]
  BY Zenon, <1>2, <1>7
<1>8. Step(h) => \E r \in Request : Onward(h, r) /\ req' = [req EXCEPT ![h] = r]
  <2>1. GetOrgByOwner(h) => \E r \in Request : Onward(h, r) /\ req' = [req EXCEPT ![h] = r]
    BY Zenon, <1>5, <1>7 DEF GetOrgByOwner, Return
  <2>2. CreateOrg(h) => \E r \in Request : Onward(h, r) /\ req' = [req EXCEPT ![h] = r]
    BY Zenon, <1>4, <1>6 DEF CreateOrg
  <2>3. Reread(h) => \E r \in Request : Onward(h, r) /\ req' = [req EXCEPT ![h] = r]
    BY Zenon, <1>4, <1>6, <1>7 DEF Reread, Return
  <2>4. SeedFlow(h) \/ SeedAccount(h) => \E r \in Request : Onward(h, r) /\ req' = [req EXCEPT ![h] = r]
    BY Zenon, <1>4, <1>6 DEF SeedFlow, SeedAccount
  <2>5. SeedBalance(h) \/ SeedLedger(h) => \E r \in Request : Onward(h, r) /\ req' = [req EXCEPT ![h] = r]
    BY Zenon, <1>4, <1>6, <1>7 DEF SeedBalance, SeedLedger, Return
  <2> QED  BY Zenon, <2>1, <2>2, <2>3, <2>4, <2>5 DEF Step
<1>9. LookupFails(h) \/ CreateAnswerLost(h) \/ SeedFails(h) \/ AdjustAnswerLost(h) \/ Abandon(h)
      => \E r \in Request : Onward(h, r) /\ req' = [req EXCEPT ![h] = r]
  BY Zenon, <1>4, <1>6, <1>7
     DEF LookupFails, CreateAnswerLost, SeedFails, AdjustAnswerLost, Abandon, Abort, Return
<1>10. \E r \in Request : Onward(h, r) /\ req' = [req EXCEPT ![h] = r]
  BY Zenon, <1>3, <1>8, <1>9 DEF RequestAct
<1> QED  BY Zenon, <1>1, <1>10

(* Only a request that creates changes the orgs: it inserts the row of its *)
(* own user, if there is none, and is then past its INSERT.                *)
LEMMA RequestOrgs ==
    ASSUME ProvisioningInv, NEW h \in Handlers, RequestAct(h)
    PROVE  \/ /\ UNCHANGED orgVars
              /\ req'[h].pc = "reread" => At(h, "create") /\ owned[req[h].user] # NoOrg
           \/ /\ At(h, "create") /\ owned[req[h].user] = NoOrg
              /\ owned' = [owned EXCEPT ![req[h].user] = req[h].org]
              /\ name' = [name EXCEPT ![req[h].org] = "given"] /\ UNCHANGED renamed
              /\ req'[h].pc \in {"idle", "reread"}
<1>0. req \in [Handlers -> Request]
  BY Zenon DEF ProvisioningInv, ProvisioningTypeOK, Request
<1>1. CASE CreateOrg(h)
  <2>1. req'[h].pc = "reread"
    BY Zenon, <1>0, <1>1 DEF CreateOrg, Goto, Request
  <2> QED  BY Zenon, <1>1, <2>1 DEF CreateOrg, InsertOrg, orgVars
<1>2. CASE CreateAnswerLost(h)
  <2>1. req'[h].pc = "idle"
    BY Zenon, <1>0, <1>2 DEF CreateAnswerLost, Abort, NoRequest
  <2> QED  BY Zenon, <1>2, <2>1 DEF CreateAnswerLost, InsertOrg, orgVars
<1>3. req'[h].pc = "reread" => At(h, "create")
  BY RequestGoes DEF Onward, NoRequest
<1>4. CASE GetOrgByOwner(h) \/ Reread(h) \/ SeedFlow(h) \/ SeedAccount(h) \/ SeedBalance(h)
           \/ SeedLedger(h)
  BY Zenon, <1>3, <1>4
     DEF GetOrgByOwner, Reread, SeedFlow, SeedAccount, SeedBalance, SeedLedger, At
<1>5. CASE \E u \in Users : RequireAuth(h, u)
  BY Zenon, <1>3, <1>5 DEF RequireAuth, At
<1>6. CASE LookupFails(h) \/ Abandon(h)
  <2>1. req'[h].pc = "idle"
    BY <1>0, <1>6 DEF LookupFails, Abandon, Abort, NoRequest
  <2> QED  BY Zenon, <1>6, <2>1 DEF LookupFails, Abandon
<1>7. CASE SeedFails(h) \/ AdjustAnswerLost(h)
  BY Zenon, <1>3, <1>7 DEF SeedFails, AdjustAnswerLost, At
<1> QED  BY Zenon, <1>1, <1>2, <1>4, <1>5, <1>6, <1>7 DEF RequestAct, Step

(* Requests keep holding what is their own.                                *)
LEMMA HoldsStep ==
    ASSUME ProvisioningInv, Next
    PROVE  EachHoldsItsOwn'
<1>0. /\ EachHoldsItsOwn /\ owned \in [Users -> Orgs \cup {NoOrg}]
      /\ NoOrg \notin Orgs /\ NoUser \notin Users
  BY Zenon, ProvisioningAssumption DEF ProvisioningInv, ProvisioningTypeOK
<1>1. CASE OwnerAct
  <2>1. UNCHANGED <<req, owned>>
    BY Zenon, <1>1 DEF OwnerAct, Spend, Rename, orgVars
  <2> QED  BY Zenon, <1>0, <2>1 DEF EachHoldsItsOwn, At
<1>2. ASSUME NEW h \in Handlers, RequestAct(h)
      PROVE  EachHoldsItsOwn'
  <2> DEFINE r == req'[h]
  <2>1. /\ Onward(h, r) /\ r \in Request
        /\ \A g \in Handlers \ {h} : req'[g] = req[g]
    BY Zenon, <1>2, RequestGoes
  <2>2. \/ /\ owned' = owned
           /\ r.pc = "reread" => At(h, "create") /\ owned[req[h].user] # NoOrg
        \/ /\ At(h, "create") /\ owned[req[h].user] = NoOrg
           /\ owned' = [owned EXCEPT ![req[h].user] = req[h].org]
           /\ r.pc \in {"idle", "reread"}
    BY Zenon, <1>2, RequestOrgs DEF orgVars
  <2>3. At(h, "create") => req[h].user \in Users /\ req[h].org \in Orgs
    BY Zenon, <1>0 DEF EachHoldsItsOwn, At
  <2>4. \A u \in Users : \/ owned'[u] = owned[u]
                         \/ /\ u = req[h].user /\ owned[u] = NoOrg /\ owned'[u] = req[h].org
                            /\ At(h, "create") /\ r.pc \in {"idle", "reread"}
    BY Zenon, <1>0, <2>2, <2>3
  <2>4a. r.pc = "reread" => At(h, "create") /\ owned'[req[h].user] # NoOrg
    BY Zenon, <1>0, <2>2, <2>3
  <2> HIDE DEF r
  <2>5. /\ r.pc = "idle" => r = NoRequest
        /\ r.pc = "get" => r.user \in Users /\ r.org = NoOrg
        /\ r.pc \notin {"idle", "get"} => r.user \in Users /\ r.org \in Orgs
    BY <1>0, <2>1 DEF EachHoldsItsOwn, Onward, At, NoRequest, Seeding
  <2>6. ASSUME NEW u \in Users, owned'[u] = r.org, r.pc \notin {"idle", "get"}
        PROVE  u = r.user /\ r.pc # "create"
    BY <1>0, <2>1, <2>4, <2>6 DEF EachHoldsItsOwn, Onward, At, NoRequest, Fresh
  <2>7. /\ r.pc \in Seeding => owned'[r.user] = r.org
        /\ r.pc = "reread" => owned'[r.user] # NoOrg
    BY <1>0, <2>1, <2>4, <2>4a DEF EachHoldsItsOwn, Onward, At, NoRequest, Seeding
  <2>8. ASSUME NEW g \in Handlers \ {h}
        PROVE  req[g].org = r.org => r.org = NoOrg
    BY <1>0, <2>1 DEF EachHoldsItsOwn, Onward, At, NoRequest, Fresh
  <2>9. ASSUME NEW g \in Handlers \ {h}, req[g].pc \notin {"idle", "get"}, NEW u \in Users,
               owned'[u] = req[g].org
        PROVE  u = req[g].user /\ ~At(g, "create")
    BY <1>0, <2>4, <2>9 DEF EachHoldsItsOwn, At
  <2>10. ASSUME NEW g \in Handlers \ {h}
         PROVE  /\ req[g].pc \in Seeding => owned'[req[g].user] = req[g].org
                /\ At(g, "reread") => owned'[req[g].user] # NoOrg
    BY <1>0, <2>3, <2>4 DEF EachHoldsItsOwn, At, Seeding
  <2>11. \A u, v \in Users : owned'[u] = owned'[v] => u = v \/ owned'[u] = NoOrg
    BY <1>0, <2>3, <2>4 DEF EachHoldsItsOwn, At
  <2>12. ASSUME NEW g \in Handlers
         PROVE  /\ req'[g].pc = "idle" => req'[g] = NoRequest
                /\ req'[g].pc = "get" => req'[g].user \in Users /\ req'[g].org = NoOrg
                /\ req'[g].pc \notin {"idle", "get"} =>
                       /\ req'[g].user \in Users /\ req'[g].org \in Orgs
                       /\ \A u \in Users : owned'[u] = req'[g].org =>
                              u = req'[g].user /\ req'[g].pc # "create"
                /\ req'[g].pc = "reread" => owned'[req'[g].user] # NoOrg
                /\ req'[g].pc \in Seeding => owned'[req'[g].user] = req'[g].org
    <3>1. CASE g = h
      BY Zenon, <2>5, <2>6, <2>7, <3>1 DEF r
    <3>2. CASE g # h
      <4>1. req'[g] = req[g]
        BY Zenon, <2>1, <3>2
      <4> QED  BY <1>0, <2>9, <2>10, <3>2, <4>1 DEF EachHoldsItsOwn, At
    <3> QED  BY Zenon, <3>1, <3>2
  <2>13. ASSUME NEW g \in Handlers, NEW k \in Handlers, req'[g].org = req'[k].org
         PROVE  g = k \/ req'[k].org = NoOrg
    BY <1>0, <2>1, <2>8, <2>13 DEF EachHoldsItsOwn, r
  <2> QED  BY Zenon, <2>11, <2>12, <2>13 DEF EachHoldsItsOwn, At
<1> QED  BY Zenon, <1>1, <1>2, StepKinds

(* A request hands its user the org they own, or nothing.                  *)
LEMMA RequestReturns ==
    ASSUME ProvisioningInv, NEW h \in Handlers, RequestAct(h)
    PROVE  \/ returned' = returned
           \/ /\ req[h].user \in Users /\ owned[req[h].user] \in Orgs
              /\ UNCHANGED orgVars
              /\ returned' = [returned EXCEPT ![req[h].user] = @ \cup {owned[req[h].user]}]
<1>0. /\ EachHoldsItsOwn /\ owned \in [Users -> Orgs \cup {NoOrg}]
      /\ req \in [Handlers -> Request]
  BY Zenon DEF ProvisioningInv, ProvisioningTypeOK, Request
<1>1. CASE GetOrgByOwner(h)
  <2>1. req[h].user \in Users
    BY Zenon, <1>0, <1>1 DEF GetOrgByOwner, EachHoldsItsOwn, At
  <2>2. owned[req[h].user] \in Orgs \cup {NoOrg}
    BY Zenon, <1>0, <2>1
  <2> QED  BY Zenon, <1>1, <2>1, <2>2 DEF GetOrgByOwner, Return
<1>2. CASE Reread(h)
  <2>1. req[h].user \in Users /\ owned[req[h].user] # NoOrg
    BY Zenon, <1>0, <1>2 DEF Reread, EachHoldsItsOwn, At
  <2>2. owned[req[h].user] \in Orgs
    BY Zenon, <1>0, <2>1
  <2> QED  BY Zenon, <1>2, <2>1, <2>2 DEF Reread, Return
<1>3. CASE SeedBalance(h) \/ SeedLedger(h) \/ SeedFails(h) \/ AdjustAnswerLost(h)
  <2>1. /\ req[h].user \in Users /\ req[h].org \in Orgs
        /\ owned[req[h].user] = req[h].org
    <3>1. req[h].pc \in Seeding
      BY Zenon, <1>3 DEF SeedBalance, SeedLedger, SeedFails, AdjustAnswerLost, At, Seeding
    <3> QED  BY Zenon, <1>0, <3>1 DEF EachHoldsItsOwn, At, Seeding
  <2> QED  BY Zenon, <1>3, <2>1 DEF SeedBalance, SeedLedger, SeedFails, AdjustAnswerLost, Return
<1>4. CASE CreateOrg(h) \/ SeedFlow(h) \/ SeedAccount(h) \/ \E u \in Users : RequireAuth(h, u)
  BY Zenon, <1>4 DEF CreateOrg, SeedFlow, SeedAccount, RequireAuth
<1>5. CASE LookupFails(h) \/ CreateAnswerLost(h) \/ Abandon(h)
  BY Zenon, <1>5 DEF LookupFails, CreateAnswerLost, Abandon, Abort
<1> QED  BY Zenon, <1>1, <1>2, <1>3, <1>4, <1>5 DEF RequestAct, Step

(* Users keep their one org and the name they chose for it.                *)
LEMMA OrgsStep ==
    ASSUME ProvisioningInv, Next
    PROVE  /\ owned' \in [Users -> Orgs \cup {NoOrg}]
           /\ name' \in [Orgs -> {"none", "given", "chosen"}]
           /\ returned' \in [Users -> SUBSET Orgs] /\ renamed' \subseteq Orgs
           /\ OneOrgPerUser' /\ ChosenNameStays'
<1>0. /\ EachHoldsItsOwn /\ OneOrgPerUser /\ ChosenNameStays
      /\ owned \in [Users -> Orgs \cup {NoOrg}]
      /\ name \in [Orgs -> {"none", "given", "chosen"}]
      /\ returned \in [Users -> SUBSET Orgs] /\ renamed \subseteq Orgs /\ NoOrg \notin Orgs
  BY Zenon, ProvisioningAssumption DEF ProvisioningInv, ProvisioningTypeOK
<1>1. CASE UNCHANGED <<orgVars, returned>>
  BY Zenon, <1>0, <1>1 DEF orgVars, OneOrgPerUser, ChosenNameStays
<1>2. ASSUME NEW u \in Users, NEW o \in Orgs, o \in returned[u],
             name' = [name EXCEPT ![o] = "chosen"], renamed' = renamed \cup {o},
             UNCHANGED <<owned, returned>>
      PROVE  /\ owned' \in [Users -> Orgs \cup {NoOrg}]
             /\ name' \in [Orgs -> {"none", "given", "chosen"}]
             /\ returned' \in [Users -> SUBSET Orgs] /\ renamed' \subseteq Orgs
             /\ OneOrgPerUser' /\ ChosenNameStays'
  <2>1. owned[u] = o
    BY Zenon, <1>0, <1>2 DEF OneOrgPerUser
  <2>2. \A q \in Orgs : name'[q] = IF q = o THEN "chosen" ELSE name[q]
    BY Zenon, <1>0, <1>2
  <2>3. ChosenNameStays'
    BY <1>0, <1>2, <2>1, <2>2 DEF ChosenNameStays
  <2>4. OneOrgPerUser'
    BY Zenon, <1>0, <1>2 DEF OneOrgPerUser
  <2> QED  BY Zenon, <1>0, <1>2, <2>3, <2>4
<1>3. ASSUME NEW u \in Users, owned[u] \in Orgs, UNCHANGED orgVars,
             returned' = [returned EXCEPT ![u] = @ \cup {owned[u]}]
      PROVE  /\ owned' \in [Users -> Orgs \cup {NoOrg}]
             /\ name' \in [Orgs -> {"none", "given", "chosen"}]
             /\ returned' \in [Users -> SUBSET Orgs] /\ renamed' \subseteq Orgs
             /\ OneOrgPerUser' /\ ChosenNameStays'
  <2>1. returned' \in [Users -> SUBSET Orgs] /\ OneOrgPerUser'
    BY Zenon, <1>0, <1>3 DEF OneOrgPerUser, orgVars
  <2>2. ChosenNameStays'
    BY Zenon, <1>0, <1>3 DEF ChosenNameStays, orgVars
  <2> QED  BY Zenon, <1>0, <1>3, <2>1, <2>2 DEF orgVars
<1>4. ASSUME NEW u \in Users, NEW o \in Orgs, owned[u] = NoOrg, \A v \in Users : owned[v] # o,
             owned' = [owned EXCEPT ![u] = o], name' = [name EXCEPT ![o] = "given"],
             UNCHANGED <<renamed, returned>>
      PROVE  /\ owned' \in [Users -> Orgs \cup {NoOrg}]
             /\ name' \in [Orgs -> {"none", "given", "chosen"}]
             /\ returned' \in [Users -> SUBSET Orgs] /\ renamed' \subseteq Orgs
             /\ OneOrgPerUser' /\ ChosenNameStays'
  <2>1. \A v \in Users : owned'[v] = IF v = u THEN o ELSE owned[v]
    BY Zenon, <1>0, <1>4
  <2>2. \A q \in Orgs : name'[q] = IF q = o THEN "given" ELSE name[q]
    BY Zenon, <1>0, <1>4
  <2>3. o \notin renamed
    BY Zenon, <1>0, <1>4 DEF ChosenNameStays
  <2>4. ChosenNameStays'
    BY <1>0, <1>4, <2>1, <2>2, <2>3 DEF ChosenNameStays
  <2>5. returned[u] = {}
    BY <1>0, <1>4 DEF OneOrgPerUser
  <2>6. OneOrgPerUser'
    BY Zenon, <1>4, <2>1, <2>5, <1>0 DEF OneOrgPerUser
  <2> QED  BY Zenon, <1>0, <1>4, <2>4, <2>6
<1>5. CASE OwnerAct
  BY Zenon, <1>1, <1>2, <1>5 DEF OwnerAct, Spend, Rename
<1>6. ASSUME NEW h \in Handlers, RequestAct(h)
      PROVE  /\ owned' \in [Users -> Orgs \cup {NoOrg}]
             /\ name' \in [Orgs -> {"none", "given", "chosen"}]
             /\ returned' \in [Users -> SUBSET Orgs] /\ renamed' \subseteq Orgs
             /\ OneOrgPerUser' /\ ChosenNameStays'
  <2>1. At(h, "create") =>
            /\ req[h].user \in Users /\ req[h].org \in Orgs
            /\ \A v \in Users : owned[v] # req[h].org
    BY Zenon, <1>0 DEF EachHoldsItsOwn, At
  <2>2. CASE returned' = returned
    BY Zenon, <1>1, <1>4, <1>6, <2>1, <2>2, RequestOrgs
  <2>3. CASE returned' # returned
    BY Zenon, <1>3, <1>6, <2>3, RequestReturns
  <2> QED  BY Zenon, <2>2, <2>3
<1> QED  BY Zenon, <1>5, <1>6, StepKinds

(* A request gives the starter credits at one point and logs them at the   *)
(* next; it skips the log only if something failed.                        *)
LEMMA RequestGives ==
    ASSUME ProvisioningInv, NEW h \in Handlers, RequestAct(h)
    PROVE  /\ \/ /\ UNCHANGED <<balance, ledger>>
                 /\ req'[h].pc # "ledger" /\ (At(h, "ledger") => faults' > 0)
              \/ /\ At(h, "adjust") /\ UNCHANGED ledger
                 /\ balance' = [balance EXCEPT ![req[h].org] = @ + SignupGrant]
                 /\ req'[h].pc = "ledger" \/ (req'[h] = NoRequest /\ faults' > 0)
              \/ /\ At(h, "ledger") /\ UNCHANGED balance /\ req'[h] = NoRequest
                 /\ AddLedger(req[h].org, SignupGrant, "signup_grant")
           /\ faults' \in {faults, faults + 1} /\ faults' \in 0..MaxFaults
           /\ account' \in [Orgs -> BOOLEAN] /\ flow' \in [Orgs -> BOOLEAN]
<1>0. /\ req \in [Handlers -> Request] /\ faults \in 0..MaxFaults /\ MaxFaults \in Nat
      /\ account \in [Orgs -> BOOLEAN] /\ flow \in [Orgs -> BOOLEAN]
  BY Zenon, ProvisioningAssumption DEF ProvisioningInv, ProvisioningTypeOK, CreditTypeOK, Request
<1>1. Fault => faults' = faults + 1 /\ faults' > 0 /\ faults' \in 0..MaxFaults
  BY <1>0 DEF Fault
<1>2. req'[h].pc = "ledger" => At(h, "adjust")
  BY RequestGoes DEF Onward, NoRequest
<1>3. req' = [req EXCEPT ![h] = NoRequest] => req'[h] = NoRequest /\ req'[h].pc # "ledger"
  BY <1>0 DEF NoRequest
<1>4. ASSUME NEW l, Goto(h, l) PROVE req'[h].pc = l
  BY Zenon, <1>0, <1>4 DEF Goto, Request
<1>5. CASE SeedBalance(h)
  BY Zenon, <1>0, <1>3, <1>4, <1>5 DEF SeedBalance, Return, AdjustBalance, At
<1>6. CASE SeedLedger(h)
  BY Zenon, <1>0, <1>3, <1>6 DEF SeedLedger, Return
<1>7. CASE AdjustAnswerLost(h)
  BY Zenon, <1>0, <1>1, <1>3, <1>7 DEF AdjustAnswerLost, Return, AdjustBalance
<1>8. CASE SeedFails(h)
  <2>1. req'[h].pc # "ledger"
    BY Zenon, <1>2, <1>3, <1>8 DEF SeedFails, Return, At
  <2> QED  BY Zenon, <1>0, <1>1, <1>8, <2>1 DEF SeedFails, creditVars
<1>9. CASE LookupFails(h) \/ CreateAnswerLost(h) \/ Abandon(h)
  <2>1. req'[h].pc # "ledger"
    BY Zenon, <1>3, <1>9 DEF LookupFails, CreateAnswerLost, Abandon, Abort
  <2> QED  BY Zenon, <1>0, <1>1, <1>9, <2>1 DEF LookupFails, CreateAnswerLost, Abandon, creditVars
<1>10. CASE GetOrgByOwner(h) \/ CreateOrg(h) \/ Reread(h) \/ \E u \in Users : RequireAuth(h, u)
  BY Zenon, <1>0, <1>2, <1>10 DEF GetOrgByOwner, CreateOrg, Reread, RequireAuth, creditVars, At
<1>11. CASE SeedFlow(h)
  <2>1. flow' \in [Orgs -> BOOLEAN]
    BY Zenon, <1>0, <1>11 DEF SeedFlow
  <2> QED  BY Zenon, <1>0, <1>2, <1>11, <2>1 DEF SeedFlow, creditVars, At
<1>12. CASE SeedAccount(h)
  <2>1. account' \in [Orgs -> BOOLEAN]
    BY Zenon, <1>0, <1>12 DEF SeedAccount, EnsureCreditAccount
  <2> QED  BY Zenon, <1>0, <1>2, <1>12, <2>1 DEF SeedAccount, At
<1> QED  BY Zenon, <1>5, <1>6, <1>7, <1>8, <1>9, <1>10, <1>11, <1>12 DEF RequestAct, Step

(* The entry for the starter credits, pointwise.                           *)
LEMMA LogsOne ==
    ASSUME CreditTypeOK, NEW o \in Orgs, NEW d \in Int, NEW s \in Reasons, AddLedger(o, d, s)
    PROVE  /\ ledger' \in [Orgs -> [Reasons -> Int]]
           /\ \A q \in Orgs, r \in Reasons :
                  ledger'[q][r] = ledger[q][r] + (IF q = o /\ r = s THEN d ELSE 0)
<1>1. ledger \in [Orgs -> [Reasons -> Int]] /\ \A q \in Orgs : ledger[q] \in [Reasons -> Int]
  BY Zenon DEF CreditTypeOK
<1>2. ledger' = [ledger EXCEPT ![o] = [ledger[o] EXCEPT ![s] = @ + d]]
  BY Zenon, <1>1 DEF AddLedger
<1>3. [ledger[o] EXCEPT ![s] = @ + d] \in [Reasons -> Int]
  BY <1>1
<1>4. ledger'[o] = [ledger[o] EXCEPT ![s] = @ + d] /\ \A q \in Orgs \ {o} : ledger'[q] = ledger[q]
  BY Zenon, <1>1, <1>2
<1>5. ASSUME NEW q \in Orgs, NEW r \in Reasons
      PROVE  ledger'[q][r] = ledger[q][r] + (IF q = o /\ r = s THEN d ELSE 0)
  <2>1. ledger[q][r] \in Int
    BY Zenon, <1>1
  <2>2. CASE q = o
    BY <1>1, <1>4, <2>1, <2>2
  <2>3. CASE q # o
    BY <1>4, <2>1, <2>3
  <2> QED  BY Zenon, <2>2, <2>3
<1>6. ledger' \in [Orgs -> [Reasons -> Int]]
  BY Zenon, <1>1, <1>2, <1>3
<1> QED  BY Zenon, <1>5, <1>6

(* Starter credits that were given but are not in the ledger.              *)
Unlogged(o) == GivenOnce(o) /\ ledger[o]["signup_grant"] = 0

AboutToLog(o) == \E h \in Handlers : At(h, "ledger") /\ req[h].org = o

(* What the invariant says of the credits of one org.                      *)
LEMMA CreditsOf ==
    ASSUME ProvisioningInv, NEW o \in Orgs
    PROVE  /\ NotYetGiven(o) \/ GivenOnce(o)
           /\ Unlogged(o) => faults > 0 \/ AboutToLog(o)
           /\ balance[o] \in Int /\ \A r \in Reasons : ledger[o][r] \in Int
           /\ {"signup_grant", "topup", "call"} = Reasons
           /\ SignupGrant \in Nat /\ SignupGrant > 0
           /\ ~(NotYetGiven(o) /\ GivenOnce(o))
<1>1. NotYetGiven(o) \/ GivenOnce(o)
  BY Zenon DEF ProvisioningInv, OnlyCreatorGives
<1>2. balance[o] \in Int /\ \A r \in Reasons : ledger[o][r] \in Int
  BY Zenon DEF ProvisioningInv, ProvisioningTypeOK, CreditTypeOK
<1>3. {"signup_grant", "topup", "call"} = Reasons
  BY Zenon DEF Reasons
<1>4. SignupGrant \in Nat /\ SignupGrant > 0
  BY ProvisioningAssumption
<1>5. Unlogged(o) => balance[o] # LedgerSum(o)
  BY <1>2, <1>3, <1>4 DEF Unlogged, GivenOnce, LedgerSum
<1>6. Unlogged(o) => faults > 0 \/ AboutToLog(o)
  BY Zenon, <1>5 DEF ProvisioningInv, LedgerLagsOnlyWhileSeeding, AboutToLog
<1>7. ~(NotYetGiven(o) /\ GivenOnce(o))
  BY <1>2, <1>3, <1>4 DEF NotYetGiven, GivenOnce
<1> QED  BY Zenon, <1>1, <1>2, <1>3, <1>4, <1>6, <1>7

(* What OnlyCreatorGives says of one org.                                  *)
GivesTo(o) ==
    /\ NotYetGiven(o) \/ GivenOnce(o)
    /\ (\A u \in Users : owned[u] # o) => NotYetGiven(o)
    /\ \A h \in Handlers : req[h].org = o =>
           IF At(h, "ledger") THEN Unlogged(o) ELSE NotYetGiven(o)

(* The owner's calls are paid from credits that were given.                *)
LEMMA OwnerGives ==
    ASSUME ProvisioningInv, OwnerAct, NEW q \in Orgs
    PROVE  GivesTo(q)' /\ (Unlogged(q)' => faults' > 0 \/ AboutToLog(q)') /\ CreditTypeOK'
<1>0. /\ CreditTypeOK /\ OnlyCreatorGives /\ OneOrgPerUser
  BY Zenon DEF ProvisioningInv, ProvisioningTypeOK
<1>1. UNCHANGED <<req, owned, faults>>
  BY Zenon DEF OwnerAct, Spend, Rename, orgVars
<1>2. GivesTo(q) /\ (Unlogged(q) => faults > 0 \/ AboutToLog(q))
  BY Zenon, <1>0, CreditsOf DEF OnlyCreatorGives, GivesTo, Unlogged
<1>3. AboutToLog(q)' <=> AboutToLog(q)
  BY Zenon, <1>1 DEF AboutToLog, At
<1>4. CASE UNCHANGED creditVars
  <2>1. CreditTypeOK'
    BY Zenon, <1>0, <1>4 DEF creditVars, CreditTypeOK
  <2> QED  BY Zenon, <1>1, <1>2, <1>3, <1>4, <2>1
              DEF creditVars, GivesTo, Unlogged, NotYetGiven, GivenOnce, At
<1>5. ASSUME NEW u \in Users, NEW o \in Orgs, o \in returned[u], TryDeduct(o, 1, "call")
      PROVE  GivesTo(q)' /\ (Unlogged(q)' => faults' > 0 \/ AboutToLog(q)') /\ CreditTypeOK'
  <2>1. /\ ledger' \in [Orgs -> [Reasons -> Int]]
        /\ \A p \in Orgs, r \in Reasons :
               ledger'[p][r] = ledger[p][r] + (IF p = o /\ r = "call" THEN -1 ELSE 0)
    <3>1. -1 \in Int /\ "call" \in Reasons /\ AddLedger(o, -1, "call")
      BY <1>5 DEF TryDeduct, Reasons
    <3> QED  BY <1>0, <3>1, LogsOne
  <2>2. /\ balance' \in [Orgs -> Int] /\ balance[o] >= 1
        /\ \A p \in Orgs : balance'[p] = balance[p] - (IF p = o THEN 1 ELSE 0)
    BY <1>0, <1>5 DEF CreditTypeOK, TryDeduct, TryDeductBalance, Covers
  <2>3. CreditTypeOK'
    BY Zenon, <1>0, <1>5, <2>1, <2>2 DEF CreditTypeOK, TryDeduct
  <2>4. owned[u] = o
    BY Zenon, <1>0, <1>5 DEF OneOrgPerUser
  <2>5. CASE q # o
    <3>1. balance'[q] = balance[q] /\ \A r \in Reasons : ledger'[q][r] = ledger[q][r]
      BY <2>1, <2>2, <2>5, CreditsOf
    <3>2. (NotYetGiven(q)' <=> NotYetGiven(q)) /\ (GivenOnce(q)' <=> GivenOnce(q))
          /\ (Unlogged(q)' <=> Unlogged(q))
      BY Zenon, <3>1, CreditsOf DEF NotYetGiven, GivenOnce, Unlogged
    <3> QED  BY Zenon, <1>1, <1>2, <1>3, <2>3, <3>2 DEF GivesTo, At
  <2>6. CASE q = o
    <3>1. ~NotYetGiven(q) /\ GivenOnce(q)
      BY <1>2, <2>2, <2>6 DEF NotYetGiven, GivesTo
    <3>0. /\ balance[q] \in Int /\ \A r \in Reasons : ledger[q][r] \in Int
          /\ {"signup_grant", "topup", "call"} = Reasons
      BY Zenon, CreditsOf
    <3>a. \A r \in Reasons : ledger'[q][r] = ledger[q][r] + (IF r = "call" THEN -1 ELSE 0)
      BY Zenon, <2>1, <2>6
    <3>2. /\ balance'[q] = balance[q] - 1 /\ ledger'[q]["call"] = ledger[q]["call"] - 1
          /\ ledger'[q]["topup"] = ledger[q]["topup"]
          /\ ledger'[q]["signup_grant"] = ledger[q]["signup_grant"]
      BY <2>2, <2>6, <3>0, <3>a
    <3>3. GivenOnce(q)' /\ (Unlogged(q)' <=> Unlogged(q))
      BY <3>1, <3>2, CreditsOf DEF GivenOnce, Unlogged
    <3> QED  BY Zenon, <1>1, <1>2, <1>3, <2>3, <2>4, <2>6, <3>1, <3>3 DEF GivesTo, At
  <2> QED  BY Zenon, <2>5, <2>6
<1> QED  BY Zenon, <1>4, <1>5 DEF OwnerAct, Spend, Rename

(* A request gives credits to no org but the one it created, once.         *)
LEMMA RequestCredits ==
    ASSUME ProvisioningInv, NEW h \in Handlers, RequestAct(h), NEW q \in Orgs
    PROVE  GivesTo(q)' /\ (Unlogged(q)' => faults' > 0 \/ AboutToLog(q)') /\ CreditTypeOK'
<1> DEFINE o == req[h].org
           r == req'[h]
<1>0. /\ CreditTypeOK /\ OnlyCreatorGives /\ EachHoldsItsOwn
      /\ owned \in [Users -> Orgs \cup {NoOrg}] /\ NoOrg \notin Orgs
      /\ faults \in Nat /\ faults' \in Nat /\ (faults > 0 => faults' > 0)
      /\ account' \in [Orgs -> BOOLEAN]
  <2>1. faults \in Nat
    BY ProvisioningAssumption DEF ProvisioningInv, ProvisioningTypeOK
  <2> QED  BY <2>1, ProvisioningAssumption, RequestGives DEF ProvisioningInv, ProvisioningTypeOK
<1>1. GivesTo(q) /\ (Unlogged(q) => faults > 0 \/ AboutToLog(q))
  BY Zenon, <1>0, CreditsOf DEF OnlyCreatorGives, GivesTo, Unlogged
<1>2. Onward(h, r) /\ \A g \in Handlers \ {h} : req'[g] = req[g]
  BY Zenon, RequestGoes
<1>3. (\A u \in Users : owned'[u] # q) => (\A u \in Users : owned[u] # q)
  <2>1. At(h, "create") => req[h].user \in Users
    BY Zenon, <1>0 DEF EachHoldsItsOwn, At
  <2>2. \/ owned' = owned
        \/ At(h, "create") /\ owned[req[h].user] = NoOrg /\ owned' = [owned EXCEPT ![req[h].user] = o]
    BY Zenon, RequestOrgs DEF orgVars
  <2> QED  BY Zenon, <1>0, <2>1, <2>2
<1>4. req[h].pc \in Seeding => o \in Orgs /\ \E u \in Users : owned'[u] = o
  <2>1. req[h].pc \in Seeding =>
            o \in Orgs /\ req[h].user \in Users /\ owned[req[h].user] = o
    BY Zenon, <1>0 DEF EachHoldsItsOwn, Seeding, At
  <2>2. req[h].pc \in Seeding => owned' = owned
    BY Zenon, RequestOrgs DEF orgVars, At, Seeding
  <2> QED  BY Zenon, <2>1, <2>2
<1>5. ASSUME NEW g \in Handlers \ {h}, req[g].org = o, o \in Orgs PROVE FALSE
  BY Zenon, <1>0, <1>5 DEF EachHoldsItsOwn
<1>6. AboutToLog(q)' \/ ~AboutToLog(q) \/ (At(h, "ledger") /\ o = q)
  BY Zenon, <1>2 DEF AboutToLog, At
<1> HIDE DEF r
<1>7. r.org = q /\ r.pc # "ledger" => NotYetGiven(q)
  BY <1>0, <1>1, <1>2 DEF Onward, At, NoRequest, GivesTo, Fresh
<1>8. r.org = q => r.org = NoOrg \/ At(h, "get") \/ o = q
  BY <1>2 DEF Onward, NoRequest
<1>9. CASE /\ UNCHANGED <<balance, ledger>>
           /\ r.pc # "ledger" /\ (At(h, "ledger") => faults' > 0)
  <2>1. (NotYetGiven(q)' <=> NotYetGiven(q)) /\ (GivenOnce(q)' <=> GivenOnce(q))
        /\ (Unlogged(q)' <=> Unlogged(q))
    BY Zenon, <1>9 DEF NotYetGiven, GivenOnce, Unlogged
  <2>2. ASSUME NEW g \in Handlers, req'[g].org = q
        PROVE  IF At(g, "ledger")' THEN Unlogged(q) ELSE NotYetGiven(q)
    <3>1. CASE g = h
      BY Zenon, <1>7, <1>9, <2>2, <3>1 DEF r, At
    <3>2. CASE g # h
      <4>1. req'[g] = req[g]
        BY Zenon, <1>2, <3>2
      <4> QED  BY Zenon, <1>1, <2>2, <4>1 DEF GivesTo, At
    <3> QED  BY Zenon, <3>1, <3>2
  <2>3. GivesTo(q)'
    BY Zenon, <1>1, <1>3, <2>1, <2>2 DEF GivesTo
  <2>4. CreditTypeOK'
    BY Zenon, <1>0, <1>9 DEF CreditTypeOK
  <2> QED  BY Zenon, <1>0, <1>1, <1>6, <1>9, <2>1, <2>3, <2>4
<1>10. ASSUME q # o, req[h].pc \in Seeding, r.org \in {o, NoOrg},
              balance'[q] = balance[q], \A s \in Reasons : ledger'[q][s] = ledger[q][s]
       PROVE  GivesTo(q)' /\ (Unlogged(q)' => faults' > 0 \/ AboutToLog(q)')
  <2>1. (NotYetGiven(q)' <=> NotYetGiven(q)) /\ (GivenOnce(q)' <=> GivenOnce(q))
        /\ (Unlogged(q)' <=> Unlogged(q))
    BY Zenon, <1>10, CreditsOf DEF NotYetGiven, GivenOnce, Unlogged
  <2>2. ASSUME NEW g \in Handlers, req'[g].org = q
        PROVE  IF At(g, "ledger")' THEN Unlogged(q) ELSE NotYetGiven(q)
    <3>1. g # h
      BY Zenon, <1>0, <1>10, <2>2 DEF r
    <3>2. req'[g] = req[g]
      BY Zenon, <1>2, <3>1
    <3> QED  BY Zenon, <1>1, <2>2, <3>2 DEF GivesTo, At
  <2>3. GivesTo(q)'
    BY Zenon, <1>1, <1>3, <2>1, <2>2 DEF GivesTo
  <2> QED  BY Zenon, <1>0, <1>1, <1>6, <1>10, <2>1, <2>3
<1>11. ASSUME q = o, req[h].pc \in Seeding, GivenOnce(q)',
              r.pc = "ledger" => Unlogged(q)', r.pc = "ledger" \/ r = NoRequest,
              Unlogged(q)' => faults' > 0 \/ (r.pc = "ledger" /\ r.org = q)
       PROVE  GivesTo(q)' /\ (Unlogged(q)' => faults' > 0 \/ AboutToLog(q)')
  <2>1. ASSUME NEW g \in Handlers, req'[g].org = q
        PROVE  At(g, "ledger")' /\ Unlogged(q)'
    <3>1. CASE g = h
      BY <1>0, <1>11, <2>1, <3>1 DEF r, At, NoRequest
    <3>2. CASE g # h
      <4>1. req'[g] = req[g]
        BY Zenon, <1>2, <3>2
      <4> QED  BY Zenon, <1>5, <1>11, <2>1, <3>2, <4>1
    <3> QED  BY Zenon, <3>1, <3>2
  <2>2. GivesTo(q)'
    BY Zenon, <1>4, <1>11, <2>1 DEF GivesTo
  <2> QED  BY Zenon, <1>11, <2>2 DEF r, AboutToLog, At
<1>12. CASE /\ At(h, "adjust") /\ UNCHANGED ledger
            /\ balance' = [balance EXCEPT ![req[h].org] = @ + SignupGrant]
            /\ r.pc = "ledger" \/ (r = NoRequest /\ faults' > 0)
  <2>1. /\ CreditTypeOK' /\ o \in Orgs /\ req[h].pc \in Seeding
        /\ \A p \in Orgs : balance'[p] = balance[p] + (IF p = o THEN SignupGrant ELSE 0)
    <3>1. req[h].pc \in Seeding
      BY Zenon, <1>12 DEF At, Seeding
    <3>2. /\ o \in Orgs /\ balance \in [Orgs -> Int] /\ SignupGrant \in Int
          /\ ledger' \in [Orgs -> [Reasons -> Int]]
      BY <1>0, <1>4, <1>12, <3>1, CreditsOf DEF CreditTypeOK
    <3>3. balance' \in [Orgs -> Int]
      BY <1>12, <3>2
    <3> QED  BY <1>0, <1>12, <3>1, <3>2, <3>3 DEF CreditTypeOK
  <2>2. r.org \in {o, NoOrg} /\ (r.pc = "ledger" => r.org = o)
    BY <1>2, <1>12 DEF Onward, At, NoRequest
  <2>3. CASE q # o
    BY <1>10, <1>12, <2>1, <2>2, <2>3, CreditsOf
  <2>4. CASE q = o
    <3>1. NotYetGiven(q)
      BY Zenon, <1>1, <1>12, <2>4 DEF GivesTo, At
    <3>2. /\ balance'[q] = SignupGrant /\ ledger'[q]["call"] = 0
          /\ ledger'[q]["topup"] = 0 /\ ledger'[q]["signup_grant"] = 0
      BY <1>12, <2>1, <2>4, <3>1, CreditsOf DEF NotYetGiven
    <3>3. GivenOnce(q)' /\ Unlogged(q)'
      BY <3>2, CreditsOf DEF GivenOnce, Unlogged
    <3> QED  BY Zenon, <1>11, <1>12, <2>1, <2>2, <2>4, <3>3
  <2> QED  BY Zenon, <2>3, <2>4
<1>13. CASE /\ At(h, "ledger") /\ UNCHANGED balance /\ r = NoRequest
            /\ AddLedger(req[h].org, SignupGrant, "signup_grant")
  <2>1. req[h].pc \in Seeding /\ o \in Orgs
    BY Zenon, <1>4, <1>13 DEF At, Seeding
  <2>2. /\ ledger' \in [Orgs -> [Reasons -> Int]]
        /\ \A p \in Orgs, s \in Reasons :
               ledger'[p][s] = ledger[p][s] + (IF p = o /\ s = "signup_grant" THEN SignupGrant ELSE 0)
    <3>1. SignupGrant \in Int /\ "signup_grant" \in Reasons
      BY CreditsOf
    <3> QED  BY <1>0, <1>13, <2>1, <3>1, LogsOne
  <2>3. CreditTypeOK'
    BY Zenon, <1>0, <1>13, <2>2 DEF CreditTypeOK
  <2>4. r.org = NoOrg /\ r.pc # "ledger"
    BY Zenon, <1>13 DEF NoRequest
  <2>5. CASE q # o
    BY <1>10, <1>13, <2>1, <2>2, <2>3, <2>4, <2>5, CreditsOf
  <2>6. CASE q = o
    <3>1. Unlogged(q)
      BY Zenon, <1>1, <1>13, <2>6 DEF GivesTo, At
    <3>2. /\ balance'[q] = balance[q] /\ ledger'[q]["call"] = ledger[q]["call"]
          /\ ledger'[q]["topup"] = ledger[q]["topup"]
          /\ ledger'[q]["signup_grant"] = SignupGrant
      BY <1>13, <2>2, <2>6, <3>1, CreditsOf DEF Unlogged
    <3>3. GivenOnce(q)' /\ ~Unlogged(q)'
      BY <3>1, <3>2, CreditsOf DEF GivenOnce, Unlogged
    <3> QED  BY Zenon, <1>11, <1>13, <2>1, <2>3, <2>4, <2>6, <3>3
  <2> QED  BY Zenon, <2>5, <2>6
<1> QED  BY Zenon, <1>9, <1>12, <1>13, RequestGives DEF r

(* Nobody has an org and nothing has been given at the start.              *)
LEMMA ProvisioningInitial == Init => ProvisioningInv
<1> SUFFICES ASSUME Init PROVE ProvisioningInv
  BY Zenon
<1> USE ProvisioningAssumption
<1>1. CreditInv
  BY Zenon, CreditInit DEF Init
<1>2. NoRequest \in Request /\ NoRequest.pc = "idle" /\ NoRequest.org = NoOrg
  BY Zenon DEF NoRequest, Request, Labels
<1>3. \A h \in Handlers : req[h] = NoRequest
  BY Zenon DEF Init
<1>4. ProvisioningTypeOK
  <2>1. req \in [Handlers -> Request]
    BY Zenon, <1>2 DEF Init
  <2>2. CreditTypeOK
    BY Zenon, <1>1 DEF CreditInv
  <2> QED  BY <2>1, <2>2 DEF Init, ProvisioningTypeOK, Request
<1>5. EachHoldsItsOwn
  BY Zenon, <1>2, <1>3 DEF Init, EachHoldsItsOwn, At, Seeding
<1>6. \A o \in Orgs : NotYetGiven(o)
  BY Zenon DEF Init, Unseeded, NotYetGiven
<1>7. OnlyCreatorGives
  BY Zenon, <1>2, <1>3, <1>6 DEF OnlyCreatorGives
<1>8. OneOrgPerUser /\ ChosenNameStays
  BY Zenon DEF Init, OneOrgPerUser, ChosenNameStays
<1>9. ASSUME NEW o \in Orgs
      PROVE  /\ ledger[o]["signup_grant"] = 0 /\ balance[o] - ledger[o]["call"] = 0
             /\ balance[o] = LedgerSum(o)
  BY <1>1, <1>6 DEF NotYetGiven, Reasons, CreditInv, LedgerExplainsBalance
<1>10. SeededAtMostOnce /\ LedgerLagsOnlyWhileSeeding
  BY Zenon, <1>9 DEF SeededAtMostOnce, LedgerLagsOnlyWhileSeeding
<1> QED  BY Zenon, <1>4, <1>5, <1>7, <1>8, <1>10 DEF ProvisioningInv

(* Every step keeps the invariant.                                         *)
LEMMA ProvisioningStep == ProvisioningInv /\ [Next]_vars => ProvisioningInv'
<1> SUFFICES ASSUME ProvisioningInv, [Next]_vars PROVE ProvisioningInv'
  BY Zenon
<1>1. CASE Next
  <2>1. EachHoldsItsOwn'
    BY Zenon, <1>1, HoldsStep
  <2>2. /\ owned' \in [Users -> Orgs \cup {NoOrg}]
        /\ name' \in [Orgs -> {"none", "given", "chosen"}]
        /\ returned' \in [Users -> SUBSET Orgs] /\ renamed' \subseteq Orgs
        /\ OneOrgPerUser' /\ ChosenNameStays'
    BY Zenon, <1>1, OrgsStep
  <2>3. ASSUME NEW o \in Orgs
        PROVE  GivesTo(o)' /\ (Unlogged(o)' => faults' > 0 \/ AboutToLog(o)') /\ CreditTypeOK'
    BY Zenon, <1>1, OwnerGives, RequestCredits, StepKinds
  <2>4. /\ req' \in [Handlers -> Request] /\ flow' \in [Orgs -> BOOLEAN]
        /\ faults' \in 0..MaxFaults
    <3>1. CASE OwnerAct
      <4>1. UNCHANGED <<req, flow, faults>>
        BY Zenon, <3>1 DEF OwnerAct, Spend, Rename
      <4> QED  BY Zenon, <4>1 DEF ProvisioningInv, ProvisioningTypeOK, Request
    <3>2. ASSUME NEW h \in Handlers, RequestAct(h)
          PROVE  /\ req' \in [Handlers -> Request] /\ flow' \in [Orgs -> BOOLEAN]
                 /\ faults' \in 0..MaxFaults
      BY Zenon, <3>2, RequestGoes, RequestGives
    <3> QED  BY Zenon, <1>1, <3>1, <3>2, StepKinds
  <2>5. CreditTypeOK'
    <3>1. CASE Orgs = {}
      <4>1. OwnerAct => FALSE
        BY Zenon, <3>1 DEF OwnerAct
      <4>2. ASSUME NEW h \in Handlers, RequestAct(h) PROVE CreditTypeOK'
        <5>1. /\ account' \in [Orgs -> BOOLEAN] /\ balance \in [Orgs -> Int]
              /\ ledger \in [Orgs -> [Reasons -> Int]]
          BY Zenon, <4>2, RequestGives DEF ProvisioningInv, ProvisioningTypeOK, CreditTypeOK
        <5>2. req[h].pc \notin {"adjust", "ledger"}
          BY Zenon, <3>1 DEF ProvisioningInv, EachHoldsItsOwn
        <5>3. UNCHANGED <<balance, ledger>>
          BY Zenon, <4>2, <5>2, RequestGives DEF At
        <5> QED  BY Zenon, <5>1, <5>3 DEF CreditTypeOK
      <4> QED  BY Zenon, <1>1, <4>1, <4>2, StepKinds
    <3>2. CASE Orgs # {}
      BY Zenon, <2>3, <3>2
    <3> QED  BY Zenon, <3>1, <3>2
  <2>6. ProvisioningTypeOK'
    BY Zenon, <2>2, <2>4, <2>5 DEF ProvisioningTypeOK, Request
  <2>7. OnlyCreatorGives'
    BY Zenon, <2>3 DEF OnlyCreatorGives, GivesTo, Unlogged
  <2>8. ASSUME NEW o \in Orgs
        PROVE  /\ ledger'[o]["signup_grant"] \in {0, SignupGrant}
               /\ balance'[o] - ledger'[o]["call"] \in {0, SignupGrant}
               /\ \/ balance'[o] = LedgerSum(o)'
                  \/ balance'[o] = LedgerSum(o)' + SignupGrant /\ (faults' > 0 \/ AboutToLog(o)')
    <3>1. /\ balance'[o] \in Int /\ SignupGrant \in Nat
          /\ ledger'[o]["signup_grant"] \in Int /\ ledger'[o]["topup"] \in Int
          /\ ledger'[o]["call"] \in Int
      BY <2>5, ProvisioningAssumption DEF CreditTypeOK, Reasons
    <3>2. CASE NotYetGiven(o)'
      BY <3>1, <3>2 DEF NotYetGiven, LedgerSum, Reasons
    <3>3. CASE GivenOnce(o)' /\ ~Unlogged(o)'
      BY <3>1, <3>3 DEF GivenOnce, LedgerSum, Unlogged
    <3>4. CASE Unlogged(o)'
      <4>1. faults' > 0 \/ AboutToLog(o)'
        BY Zenon, <2>3, <3>4
      <4> QED  BY <3>1, <3>4, <4>1 DEF GivenOnce, LedgerSum, Unlogged
    <3> QED  BY Zenon, <2>3, <3>2, <3>3, <3>4 DEF GivesTo
  <2>9. SeededAtMostOnce' /\ LedgerLagsOnlyWhileSeeding'
    BY Zenon, <2>8 DEF SeededAtMostOnce, LedgerLagsOnlyWhileSeeding, AboutToLog
  <2> QED  BY Zenon, <2>1, <2>2, <2>6, <2>7, <2>9 DEF ProvisioningInv
<1>2. CASE UNCHANGED vars
  <2> USE <1>2 DEF vars, orgVars, creditVars
  <2>1. ProvisioningTypeOK'
    BY Zenon DEF ProvisioningInv, ProvisioningTypeOK, CreditTypeOK
  <2>2. OneOrgPerUser' /\ ChosenNameStays' /\ EachHoldsItsOwn'
    BY ZenonT(60) DEF ProvisioningInv, OneOrgPerUser, ChosenNameStays, EachHoldsItsOwn, At
  <2>3. SeededAtMostOnce' /\ LedgerLagsOnlyWhileSeeding'
    BY Zenon DEF ProvisioningInv, SeededAtMostOnce, LedgerLagsOnlyWhileSeeding, LedgerSum, At
  <2>4. OnlyCreatorGives'
    BY Zenon DEF ProvisioningInv, OnlyCreatorGives, NotYetGiven, GivenOnce, At
  <2> QED  BY Zenon, <2>1, <2>2, <2>3, <2>4 DEF ProvisioningInv
<1> QED  BY Zenon, <1>1, <1>2

(* EnsureForUser, for any users, requests and failures: everything the run *)
(* checks of orgs and their starter credits.                               *)
THEOREM ProvisioningInvariant == Spec => []ProvisioningInv
  BY ProvisioningInitial, ProvisioningStep, PTL DEF Spec

(* The comment on EnsureForUser, race-safe via the unique index: a user is *)
(* handed one org only, and the starter credits of an org are given and    *)
(* logged at most once.                                                    *)
THEOREM SeededOnce == Spec => [](OneOrgPerUser /\ SeededAtMostOnce)
<1>1. ProvisioningInv => OneOrgPerUser /\ SeededAtMostOnce
  BY Zenon DEF ProvisioningInv
<1> QED  BY <1>1, ProvisioningInvariant, PTL

-------------------------------------------------------------------------------
(* The local orchestrator.                                                 *)

(* What the proofs about channels use of sequences: the empty one, one     *)
(* value sent, one received.                                               *)
LEMMA SeqEmpty == ASSUME NEW S  PROVE <<>> \in Seq(S) /\ Len(<<>>) = 0
OBVIOUS

(* The values in a channel's buffer.                                       *)
LEMMA SeqLength ==
    ASSUME NEW S, NEW s \in Seq(S)
    PROVE  Len(s) \in Nat /\ DOMAIN s = 1..Len(s) /\ \A i \in 1..Len(s) : s[i] \in S
OBVIOUS

(* A send appends one value.                                               *)
LEMMA SeqSent ==
    ASSUME NEW S, NEW s \in Seq(S), NEW e \in S
    PROVE  /\ Append(s, e) \in Seq(S) /\ Append(s, e) # <<>>
           /\ Len(Append(s, e)) = Len(s) + 1
           /\ Append(s, e)[Len(s) + 1] = e
           /\ \A i \in 1..Len(s) : Append(s, e)[i] = s[i]
OBVIOUS

(* A receive takes the oldest value.                                       *)
LEMMA SeqReceived ==
    ASSUME NEW S, NEW s \in Seq(S), s # <<>>
    PROVE  /\ Head(s) \in S /\ Tail(s) \in Seq(S)
           /\ Len(Tail(s)) = Len(s) - 1
           /\ \A i \in 1..(Len(s) - 1) : Tail(s)[i] = s[i + 1]
OBVIOUS

(* Nothing before or after an empty buffer.                                *)
LEMMA SeqJoinedToNone == ASSUME NEW S, NEW s \in Seq(S)  PROVE s \o <<>> = s /\ <<>> \o s = s
OBVIOUS

(* What a send adds to the jobs of a sequence.                             *)
LEMMA AppendElements ==
    ASSUME NEW s \in Seq(JobIds), NEW e \in JobIds
    PROVE  /\ Append(s, e) \in Seq(JobIds)
           /\ Len(Append(s, e)) = Len(s) + 1
           /\ \A i \in 1..Len(s) : Append(s, e)[i] = s[i]
           /\ Append(s, e)[Len(s) + 1] = e
           /\ Elements(Append(s, e)) = Elements(s) \cup {e}
<1>1. /\ Append(s, e) \in Seq(JobIds)
      /\ Len(Append(s, e)) = Len(s) + 1
      /\ \A i \in 1..Len(s) : Append(s, e)[i] = s[i]
      /\ Append(s, e)[Len(s) + 1] = e
      /\ Len(s) \in Nat
  BY SeqSent, SeqLength
<1> DEFINE t == Append(s, e)
<1> HIDE DEF t
<1>2. ASSUME NEW x \in Elements(t)
      PROVE  x \in Elements(s) \cup {e}
  BY <1>1, <1>2 DEF Elements, t
<1>3. ASSUME NEW x \in Elements(s)
      PROVE  x \in Elements(t)
  <2>1. PICK i \in 1..Len(s) : x = s[i]
    BY Zenon, <1>3 DEF Elements
  <2>2. i \in 1..Len(t) /\ x = t[i]
    BY <1>1, <2>1 DEF t
  <2> QED  BY Zenon, <2>2 DEF Elements
<1>4. e \in Elements(t)
  <2>1. Len(s) + 1 \in 1..Len(t) /\ t[Len(s) + 1] = e
    BY <1>1 DEF t
  <2> QED  BY Zenon, <2>1 DEF Elements
<1>5. Elements(t) = Elements(s) \cup {e}
  BY Zenon, <1>2, <1>3, <1>4
<1> QED  BY Zenon, <1>1, <1>5 DEF t

(* A send at the back of the channel keeps the order of acceptance.        *)
LEMMA SendKeepsOrder ==
    ASSUME NEW s \in Seq(JobIds), NEW q \in Seq(JobIds), NEW e \in JobIds
    PROVE  Append(s \o q, e) = s \o Append(q, e)
OBVIOUS

(* A receive moves the channel's head to the end of the started jobs.      *)
LEMMA ReceiveKeepsOrder ==
    ASSUME NEW s \in Seq(JobIds), NEW q \in Seq(JobIds), q # <<>>
    PROVE  /\ Head(q) \in JobIds /\ Tail(q) \in Seq(JobIds) /\ Len(Tail(q)) <= Len(q)
           /\ Append(s, Head(q)) \o Tail(q) = s \o q
           /\ Len(s) + 1 \in 1..Len(s \o q) /\ (s \o q)[Len(s) + 1] = Head(q)
           /\ \A i \in 1..Len(s) : i \in 1..Len(s \o q) /\ (s \o q)[i] = s[i]
<1>1. Head(q) \in JobIds /\ Tail(q) \in Seq(JobIds) /\ Len(Tail(q)) <= Len(q)
  OBVIOUS
<1>2. Append(s, Head(q)) \o Tail(q) = s \o q
  OBVIOUS
<1>3. Len(s) + 1 \in 1..Len(s \o q) /\ (s \o q)[Len(s) + 1] = Head(q)
  OBVIOUS
<1>4. \A i \in 1..Len(s) : i \in 1..Len(s \o q) /\ (s \o q)[i] = s[i]
  OBVIOUS
<1> QED  BY Zenon, <1>1, <1>2, <1>3, <1>4

-------------------------------------------------------------------------------
(* The pool starts in the invariant.                                       *)
LEMMA InitLocal == PoolInit => LocalInv
<1> SUFFICES ASSUME PoolInit PROVE LocalInv
  BY Zenon
<1>0. <<>> \in Seq(JobIds) /\ Len(<<>>) = 0 /\ Elements(<<>>) = {}
  BY SeqEmpty DEF Elements
<1>1. LocalTypeOK
  BY <1>0, LocalAssumption DEF PoolInit, LocalTypeOK, Idle, Exited, Phases, JobIds
<1>2. FirstInFirstOut
  BY <1>0, SeqJoinedToNone, LocalAssumption DEF PoolInit, FirstInFirstOut
<1>3. JobsAreDistinct
  BY <1>0 DEF PoolInit, JobsAreDistinct, Idle
<1>4. StartedIsRunOnce
  BY Zenon, <1>0 DEF PoolInit, StartedIsRunOnce, Running, Idle
<1>5. ExitIsFinal
  BY Zenon DEF PoolInit, ExitIsFinal, Idle
<1> QED  BY Zenon, <1>1, <1>2, <1>3, <1>4, <1>5 DEF LocalInv

(* FirstInFirstOut depends on the channel and the two histories alone.     *)
LEMMA OrderKept ==
    ASSUME FirstInFirstOut, accepted' = accepted, started' = started, jobs' = jobs
    PROVE  FirstInFirstOut'
  BY Zenon DEF FirstInFirstOut

(* JobsAreDistinct depends on who sends and on what EnqueuePlaceCall took. *)
LEMMA DistinctKept ==
    ASSUME JobsAreDistinct, accepted' = accepted, issued' = issued, sender' = sender
    PROVE  JobsAreDistinct'
  BY DEF JobsAreDistinct, Elements

(* StartedIsRunOnce depends on the workers and the jobs handed to them.    *)
LEMMA RunOnceKept ==
    ASSUME StartedIsRunOnce, started' = started, worker' = worker, done' = done
    PROVE  StartedIsRunOnce'
  BY DEF StartedIsRunOnce, Running, Elements

(* A step that leaves the channel, the workers and the histories alone and *)
(* gives no sender a job keeps what the invariant says of them.            *)
LEMMA SenderStep ==
    ASSUME LocalInv, NEW s \in Senders, NEW r \in [pc : {"idle", "run"}, job : JobIds \cup {NoJob}],
           sender' = [sender EXCEPT ![s] = r],
           UNCHANGED <<jobs, chanOpen, worker, issued, accepted, started, done>>,
           main' \in Phases, ExitIsFinal'
    PROVE  LocalInv'
<1>1. LocalTypeOK'
  BY Zenon DEF LocalInv, LocalTypeOK
<1>2. FirstInFirstOut' /\ StartedIsRunOnce'
  BY Zenon, OrderKept, RunOnceKept DEF LocalInv
<1>3. JobsAreDistinct'
  BY DEF LocalInv, LocalTypeOK, JobsAreDistinct, Elements
<1> QED  BY Zenon, <1>1, <1>2, <1>3 DEF LocalInv

(* Every step of a sender, a worker or main keeps the invariant.           *)
LEMMA NextLocal == LocalInv /\ [PoolNext]_poolVars => LocalInv'
<1> SUFFICES ASSUME LocalInv, [PoolNext]_poolVars PROVE LocalInv'
  BY Zenon
<1>0. LocalTypeOK /\ FirstInFirstOut /\ JobsAreDistinct /\ StartedIsRunOnce /\ ExitIsFinal
  BY Zenon DEF LocalInv
<1>1. ASSUME NEW s \in Senders, Begin(s)
      PROVE  LocalInv'
  <2> DEFINE r == [sender[s] EXCEPT !.pc = "run"]
  <2>1. sender' = [sender EXCEPT ![s] = r] /\ r \in [pc : {"idle", "run"}, job : JobIds \cup {NoJob}]
    BY Zenon, <1>0, <1>1 DEF Begin, LocalTypeOK
  <2>2. ExitIsFinal' /\ main' \in Phases
    BY Zenon, <1>0, <1>1 DEF Begin, LocalTypeOK, ExitIsFinal
  <2> QED  BY Zenon, <1>1, <2>1, <2>2, SenderStep DEF Begin
<1>2. ASSUME NEW s \in Senders, Call(s)
      PROVE  LocalInv'
  <2>1. LocalTypeOK' /\ issued' = issued + 1 /\ issued \in Nat
    BY <1>0, <1>2, LocalAssumption DEF Call, LocalTypeOK, JobIds
  <2>2. FirstInFirstOut' /\ StartedIsRunOnce' /\ ExitIsFinal'
    BY ZenonT(30), <1>0, <1>2 DEF Call, FirstInFirstOut, StartedIsRunOnce, Running, Elements, ExitIsFinal
  <2>3. Elements(accepted)' = Elements(accepted) /\ accepted' = accepted
    BY Zenon, <1>2 DEF Call, Elements
  <2>4. Elements(accepted) \subseteq 1..issued /\ issued + 1 \notin Elements(accepted)
    BY <1>0, <2>1 DEF JobsAreDistinct
  <2>5. \A t \in Senders : sender'[t] = IF t = s THEN [pc |-> "send", job |-> issued + 1]
                                                  ELSE sender[t]
    BY Zenon, <1>0, <1>2 DEF Call, LocalTypeOK
  <2>6. JobsAreDistinct'
    <3>1. \A t \in Senders : sender'[t].pc = "send" =>
              sender'[t].job \in (1..issued') \ Elements(accepted)
      BY SMTT(60), ZenonT(60), <1>0, <2>1, <2>4, <2>5 DEF JobsAreDistinct
    <3>2. \A t, u \in Senders :
             sender'[t].pc = "send" /\ sender'[u].pc = "send" /\ sender'[t].job = sender'[u].job
                 => t = u
      BY <1>0, <2>1, <2>5 DEF JobsAreDistinct
    <3> QED  BY <1>0, <2>1, <2>3, <2>4, <3>1, <3>2 DEF JobsAreDistinct
  <2> QED  BY Zenon, <2>1, <2>2, <2>6 DEF LocalInv
<1>3. ASSUME NEW s \in Senders, Done(s)
      PROVE  LocalInv'
  <2>1. ExitIsFinal' /\ main' \in Phases
    BY Zenon, <1>0, <1>3 DEF Done, LocalTypeOK, ExitIsFinal
  <2> QED  BY Zenon, <1>3, <2>1, SenderStep DEF Done, Idle
<1>4. ASSUME NEW s \in Senders, EnqueuePlaceCall(s)
      PROVE  LocalInv'
  <2> DEFINE e == sender[s].job
  <2>1. /\ e \in 1..issued /\ e \notin Elements(accepted) /\ e \in JobIds
        /\ accepted' = Append(accepted, e) /\ jobs' = Append(jobs, e)
        /\ started' = started /\ worker' = worker /\ done' = done /\ issued' = issued
        /\ chanOpen /\ chanOpen' = chanOpen /\ main' = main /\ Len(jobs) < Cap
        /\ sender' = [sender EXCEPT ![s] = [pc |-> "run", job |-> NoJob]]
    BY <1>0, <1>4, LocalAssumption DEF EnqueuePlaceCall, LocalTypeOK, JobsAreDistinct, JobIds
  <2> HIDE DEF e
  <2>2. /\ accepted' \in Seq(JobIds) /\ jobs' \in Seq(JobIds)
        /\ Len(accepted') = Len(accepted) + 1 /\ Len(jobs') = Len(jobs) + 1
        /\ \A i \in 1..Len(accepted) : accepted'[i] = accepted[i]
        /\ accepted'[Len(accepted) + 1] = e
        /\ Elements(accepted') = Elements(accepted) \cup {e}
        /\ Len(accepted) \in Nat /\ Len(jobs) \in Nat
    BY <1>0, <2>1, AppendElements, SeqLength DEF LocalTypeOK
  <2>3. LocalTypeOK'
    BY Zenon, <1>0, <2>1, <2>2 DEF LocalTypeOK
  <2>4. FirstInFirstOut'
    <3>1. Append(started \o jobs, e) = started \o Append(jobs, e)
      BY Zenon, <1>0, <2>1, SendKeepsOrder DEF LocalTypeOK
    <3>2. Len(jobs') <= Cap
      BY <2>1, <2>2, LocalAssumption
    <3> QED  BY Zenon, <1>0, <2>1, <3>1, <3>2, Zenon DEF FirstInFirstOut
  <2>5. JobsAreDistinct'
    <3>1. ASSUME NEW i \in 1..Len(accepted'), NEW j \in 1..Len(accepted'),
                 accepted'[i] = accepted'[j]
          PROVE  i = j
      <4>1. \A k \in 1..Len(accepted) : accepted[k] # e
        BY Zenon, <2>1 DEF Elements
      <4>2. (i \in 1..Len(accepted) \/ i = Len(accepted) + 1)
            /\ (j \in 1..Len(accepted) \/ j = Len(accepted) + 1)
        BY <2>2
      <4> QED  BY Zenon, <1>0, <2>2, <3>1, <4>1, <4>2 DEF JobsAreDistinct
    <3>2. \A t \in Senders : sender'[t].pc = "send" =>
              t # s /\ sender'[t] = sender[t]
      BY Zenon, <1>0, <2>1 DEF LocalTypeOK
    <3>3. \A t \in Senders : sender'[t].pc = "send" => sender[t].job # e
      BY Zenon, <1>0, <1>4, <3>2 DEF JobsAreDistinct, EnqueuePlaceCall, e
    <3>4. \A t \in Senders : sender'[t].pc = "send" =>
              sender'[t].job \in (1..issued') \ Elements(accepted')
      BY Zenon, <1>0, <2>1, <2>2, <3>2, <3>3 DEF JobsAreDistinct
    <3>5. \A t, u \in Senders :
             sender'[t].pc = "send" /\ sender'[u].pc = "send" /\ sender'[t].job = sender'[u].job
                 => t = u
      BY Zenon, <1>0, <3>2 DEF JobsAreDistinct
    <3>6. Elements(accepted') \subseteq 1..issued'
      BY Zenon, <1>0, <2>1, <2>2 DEF JobsAreDistinct
    <3>7. Elements(accepted)' = Elements(accepted')
      BY Zenon DEF Elements
    <3> QED  BY Zenon, <3>1, <3>4, <3>5, <3>6, <3>7 DEF JobsAreDistinct
  <2>6. StartedIsRunOnce'
    BY Zenon, <1>0, <2>1, RunOnceKept
  <2>7. ExitIsFinal'
    BY Zenon, <1>0, <2>1 DEF ExitIsFinal
  <2> QED  BY Zenon, <2>3, <2>4, <2>5, <2>6, <2>7 DEF LocalInv
<1>5. ASSUME NEW s \in Senders, SendPanics(s)
      PROVE  LocalInv'
  <2>1. ExitIsFinal' /\ main' \in Phases
    BY Zenon, <1>0, <1>5 DEF SendPanics, LocalTypeOK, ExitIsFinal, Phases, Alive
  <2> QED  BY Zenon, <1>5, <2>1, SenderStep DEF SendPanics, Idle
<1>6. ASSUME NEW w \in Workers, Receive(w)
      PROVE  LocalInv'
  <2> DEFINE e == Head(jobs)
             n == Len(started)
  <2>1. /\ worker[w].pc = "idle" /\ jobs # <<>>
        /\ worker' = [worker EXCEPT ![w] = [pc |-> "run", job |-> e]]
        /\ jobs' = Tail(jobs) /\ started' = Append(started, e)
        /\ chanOpen' = chanOpen /\ sender' = sender /\ main' = main
        /\ issued' = issued /\ accepted' = accepted /\ done' = done
    BY Zenon, <1>6 DEF Receive
  <2>2. /\ e \in JobIds /\ jobs' \in Seq(JobIds) /\ Len(jobs') <= Len(jobs)
        /\ started' \o jobs' = started \o jobs
        /\ n + 1 \in 1..Len(accepted) /\ accepted[n + 1] = e
        /\ \A i \in 1..n : i \in 1..Len(accepted) /\ accepted[i] = started[i]
        /\ n \in Nat /\ Len(jobs) \in Nat /\ Len(jobs') \in Nat
    <3>1. started \in Seq(JobIds) /\ jobs \in Seq(JobIds) /\ accepted = started \o jobs
      BY Zenon, <1>0 DEF LocalTypeOK, FirstInFirstOut
    <3>2. /\ e \in JobIds /\ Tail(jobs) \in Seq(JobIds) /\ Len(Tail(jobs)) <= Len(jobs)
          /\ Append(started, e) \o Tail(jobs) = started \o jobs
          /\ n + 1 \in 1..Len(started \o jobs) /\ (started \o jobs)[n + 1] = e
          /\ \A i \in 1..n :
                 i \in 1..Len(started \o jobs) /\ (started \o jobs)[i] = started[i]
      BY Zenon, <2>1, <3>1, ReceiveKeepsOrder
    <3>3. n \in Nat /\ Len(jobs) \in Nat /\ Len(Tail(jobs)) \in Nat
      BY Zenon, <3>1, <3>2, SeqLength
    <3> HIDE DEF e, n
    <3> QED  BY Zenon, <2>1, <3>1, <3>2, <3>3
  <2>3. started' \in Seq(JobIds) /\ Elements(started') = Elements(started) \cup {e}
    BY Zenon, <1>0, <2>1, <2>2, AppendElements DEF LocalTypeOK
  <2>4. e \notin Elements(started)
    <3> SUFFICES ASSUME NEW i \in 1..n, e = started[i] PROVE FALSE
      BY Zenon DEF Elements
    <3>1. i = n + 1
      <4> HIDE DEF e, n
      <4> QED  BY Zenon, <1>0, <2>2 DEF JobsAreDistinct
    <3> QED  BY <2>2, <3>1
  <2> HIDE DEF e, n
  <2>5. LocalTypeOK'
    BY Zenon, <1>0, <2>1, <2>2, <2>3 DEF LocalTypeOK
  <2>6. FirstInFirstOut'
    <3>1. Len(jobs') <= Cap
      BY <1>0, <2>2, LocalAssumption DEF FirstInFirstOut
    <3> QED  BY Zenon, <1>0, <2>1, <2>2, <3>1, Zenon DEF FirstInFirstOut
  <2>7. JobsAreDistinct'
    BY Zenon, <1>0, <2>1, DistinctKept
  <2>8. \A v \in Workers : worker'[v] = IF v = w THEN [pc |-> "run", job |-> e] ELSE worker[v]
    BY Zenon, <1>0, <2>1 DEF LocalTypeOK
  <2>9. Running' = Running \cup {e}
    BY <2>1, <2>8 DEF Running
  <2>10. \A v \in Workers : worker[v].job # e
    <3>1. \A v \in Workers : worker[v].pc = "run" => worker[v].job \in Elements(started)
      BY Zenon, <1>0 DEF StartedIsRunOnce, Running
    <3>2. \A v \in Workers : worker[v].pc = "run" \/ worker[v].job = NoJob
      BY <1>0 DEF LocalTypeOK, Idle, Exited
    <3>3. e # NoJob
      BY <2>2, LocalAssumption DEF JobIds
    <3> QED  BY Zenon, <2>4, <3>1, <3>2, <3>3
  <2>11. StartedIsRunOnce'
    <3>1. Elements(started)' = Running' \cup done' /\ Running' \cap done' = {}
      BY Zenon, <1>0, <2>1, <2>3, <2>4, <2>9 DEF StartedIsRunOnce, Elements
    <3>2. \A v, u \in Workers :
             worker'[v].pc = "run" /\ worker'[v].job = worker'[u].job => v = u
      BY <1>0, <2>8, <2>10 DEF StartedIsRunOnce
    <3> QED  BY Zenon, <3>1, <3>2 DEF StartedIsRunOnce
  <2>12. ExitIsFinal'
    BY <1>0, <1>6, <2>1, <2>8 DEF ExitIsFinal, Alive, Receive
  <2> QED  BY Zenon, <2>5, <2>6, <2>7, <2>11, <2>12 DEF LocalInv
<1>7. ASSUME NEW w \in Workers, Finish(w)
      PROVE  LocalInv'
  <2> DEFINE e == worker[w].job
  <2>1. /\ worker[w].pc = "run" /\ e \in JobIds
        /\ done' = done \cup {e}
        /\ jobs' = jobs /\ chanOpen' = chanOpen /\ sender' = sender /\ main' = main
        /\ issued' = issued /\ accepted' = accepted /\ started' = started
        /\ \A v \in Workers : worker'[v] = IF v = w THEN Idle ELSE worker[v]
        /\ worker' \in [Workers -> {Idle, Exited} \cup [pc : {"run"}, job : JobIds]]
    BY <1>0, <1>7 DEF Finish, LocalTypeOK, Idle, Exited
  <2>2. LocalTypeOK'
    BY Zenon, <1>0, <2>1 DEF LocalTypeOK
  <2>3. FirstInFirstOut' /\ JobsAreDistinct'
    BY Zenon, <1>0, <2>1, OrderKept, DistinctKept
  <2>4. \A v \in Workers : v # w => worker[v].job # e
    BY Zenon, <1>0, <2>1 DEF StartedIsRunOnce
  <2>5. Running' = Running \ {e} /\ e \in Running
    BY <2>1, <2>4 DEF Running, Idle
  <2>6. StartedIsRunOnce'
    <3>1. Elements(started)' = Running' \cup done' /\ Running' \cap done' = {}
      BY <1>0, <2>1, <2>5 DEF StartedIsRunOnce, Elements
    <3>2. e # NoJob
      BY <2>1, LocalAssumption DEF JobIds
    <3>3. \A v \in Workers : worker[v].pc = "run" => worker[v].job # NoJob
      BY SMTT(30), <1>0, LocalAssumption DEF LocalTypeOK, Idle, Exited, JobIds
    <3>4. \A v, u \in Workers :
             worker'[v].pc = "run" /\ worker'[v].job = worker'[u].job => v = u
      BY <1>0, <2>1, <3>3 DEF StartedIsRunOnce, Idle
    <3> QED  BY Zenon, <3>1, <3>4 DEF StartedIsRunOnce
  <2>7. ExitIsFinal'
    BY <1>0, <1>7, <2>1 DEF ExitIsFinal, Alive, Finish, Idle
  <2> QED  BY Zenon, <2>2, <2>3, <2>6, <2>7 DEF LocalInv
<1>8. ASSUME NEW w \in Workers, WorkerExit(w)
      PROVE  LocalInv'
  <2>1. /\ worker[w].pc = "idle" /\ ~chanOpen /\ jobs = <<>> /\ Alive
        /\ jobs' = jobs /\ chanOpen' = chanOpen /\ sender' = sender /\ main' = main
        /\ issued' = issued /\ accepted' = accepted /\ started' = started /\ done' = done
        /\ \A v \in Workers : worker'[v] = IF v = w THEN Exited ELSE worker[v]
        /\ worker' \in [Workers -> {Idle, Exited} \cup [pc : {"run"}, job : JobIds]]
    BY Zenon, <1>0, <1>8 DEF WorkerExit, LocalTypeOK, Alive
  <2>2. LocalTypeOK'
    BY Zenon, <1>0, <2>1 DEF LocalTypeOK
  <2>3. FirstInFirstOut' /\ JobsAreDistinct'
    BY Zenon, <1>0, <2>1, OrderKept, DistinctKept
  <2>4. StartedIsRunOnce'
    <3>1. Running' = Running
      BY SMTT(30), <2>1 DEF Running, Exited
    <3>2. \A v \in Workers : worker[v].pc = "run" => worker[v].job # NoJob
      BY <1>0, LocalAssumption DEF LocalTypeOK, Idle, Exited, JobIds
    <3>3. \A v, u \in Workers :
             worker'[v].pc = "run" /\ worker'[v].job = worker'[u].job => v = u
      BY SMTT(30), <1>0, <2>1, <3>2 DEF StartedIsRunOnce, Exited
    <3> QED  BY <1>0, <2>1, <3>1, <3>3 DEF StartedIsRunOnce, Elements
  <2>5. ExitIsFinal'
    BY Zenon, <1>0, <2>1 DEF ExitIsFinal, Exited
  <2> QED  BY Zenon, <2>2, <2>3, <2>4, <2>5 DEF LocalInv
<1>9. ASSUME Interrupt \/ Shutdown
      PROVE  LocalInv'
  <2>1. /\ jobs' = jobs /\ worker' = worker /\ sender' = sender /\ issued' = issued
        /\ accepted' = accepted /\ started' = started /\ done' = done
    BY Zenon, <1>9 DEF Interrupt, Shutdown, Close, Exit
  <2>2. LocalTypeOK'
    BY Zenon, <1>0, <1>9 DEF Interrupt, Shutdown, Close, Exit, LocalTypeOK, Phases
  <2>3. FirstInFirstOut' /\ JobsAreDistinct' /\ StartedIsRunOnce'
    BY Zenon, <1>0, <2>1, OrderKept, DistinctKept, RunOnceKept
  <2>4. ExitIsFinal'
    BY <1>0, <1>9 DEF Interrupt, Shutdown, Close, Exit, ExitIsFinal
  <2> QED  BY Zenon, <2>2, <2>3, <2>4 DEF LocalInv
<1>10. ASSUME UNCHANGED poolVars
       PROVE  LocalInv'
  <2>1. /\ jobs' = jobs /\ chanOpen' = chanOpen /\ worker' = worker /\ sender' = sender
        /\ main' = main /\ issued' = issued /\ accepted' = accepted
        /\ started' = started /\ done' = done
    BY Zenon, <1>10 DEF poolVars
  <2>2. LocalTypeOK' /\ ExitIsFinal'
    BY Zenon, <1>0, <2>1 DEF LocalTypeOK, ExitIsFinal
  <2>3. FirstInFirstOut' /\ JobsAreDistinct' /\ StartedIsRunOnce'
    BY Zenon, <1>0, <2>1, OrderKept, DistinctKept, RunOnceKept
  <2> QED  BY Zenon, <2>2, <2>3 DEF LocalInv
<1> QED
  BY Zenon, <1>1, <1>2, <1>3, <1>4, <1>5, <1>6, <1>7, <1>8, <1>9, <1>10 DEF PoolNext

-------------------------------------------------------------------------------
(* LocalInv holds throughout every run of the pool (worker, the enqueuers  *)
(* and Shutdown of local.go), whatever the pool's size and capacity.       *)
THEOREM LocalInvariant == PoolSpec => []LocalInv
  BY InitLocal, NextLocal, PTL DEF PoolSpec

(* The channel loses, repeats and reorders nothing: jobs are handed to     *)
(* workers in the order EnqueuePlaceCall accepted them.                    *)
THEOREM PoolIsFirstInFirstOut == PoolSpec => []FirstInFirstOut
<1>1. LocalInv => FirstInFirstOut
  BY Zenon DEF LocalInv
<1> QED  BY <1>1, LocalInvariant, PTL

(* Every job a worker goroutine has received is running on exactly one     *)
(* worker or done: no job is run twice.                                    *)
THEOREM JobsRunOnce == PoolSpec => []StartedIsRunOnce
<1>1. LocalInv => StartedIsRunOnce
  BY Zenon DEF LocalInv
<1> QED  BY <1>1, LocalInvariant, PTL

(* Shutdown drains: when main has returned from it every job that          *)
(* EnqueuePlaceCall accepted has been run, whoever was sending when the    *)
(* channel was closed.                                                     *)
THEOREM DrainsAtShutdown == PoolSpec => []ShutdownDrains
<1>1. LocalInv => ShutdownDrains
  <2> SUFFICES ASSUME LocalInv, main = "exited" PROVE Elements(accepted) \subseteq done
    BY Zenon DEF ShutdownDrains
  <2>1. \A w \in Workers : worker[w].pc = "exited"
    BY Zenon DEF LocalInv, ExitIsFinal
  <2>2. jobs = <<>> /\ Running = {}
    BY Zenon, <2>1, LocalAssumption DEF LocalInv, ExitIsFinal, Running
  <2>3. accepted = started
    BY Zenon, <2>2, SeqJoinedToNone DEF LocalInv, FirstInFirstOut, LocalTypeOK
  <2> QED  BY Zenon, <2>2, <2>3 DEF LocalInv, StartedIsRunOnce
<1> QED  BY <1>1, LocalInvariant, PTL

(* What the queue's variables are, and when they stay.                     *)
LEMMA QueueStutters ==
    ASSUME UNCHANGED <<accepted, started, worker, done, chanOpen>>,
           main' = main \/ chanOpen
    PROVE  UNCHANGED Queue!queueVars
<1>1. QueuePhase' = QueuePhase
  BY Zenon DEF QueuePhase
<1>2. QueueSlot' = QueueSlot
  BY Zenon DEF QueueSlot
<1> QED  BY Zenon, <1>1, <1>2 DEF Queue!queueVars

(* A process that is alive is a queue that is up.                          *)
LEMMA QueueIsUp ==
    ASSUME LocalInv, Alive
    PROVE  /\ Queue!Up
           /\ chanOpen => QueuePhase = "open"
           /\ ~chanOpen => main = "draining" /\ QueuePhase = "closed"
<1>1. chanOpen \/ main = "draining"
  BY Zenon DEF LocalInv, LocalTypeOK, Phases, ExitIsFinal, Alive
<1>2. QueuePhase = IF chanOpen THEN "open" ELSE "closed"
  BY Zenon, <1>1 DEF QueuePhase
<1> QED  BY Zenon, <1>1, <1>2 DEF Queue!Up

(* A send is a Put, a receive a Take, the end of a job an End, closing the *)
(* channel a Close and main's end a Stop; the rest is not seen.            *)
LEMMA QueueStep == LocalInv /\ LocalInv' /\ [PoolNext]_poolVars => [Queue!QueueNext]_(Queue!queueVars)
<1> SUFFICES ASSUME LocalInv, LocalInv', [PoolNext]_poolVars
             PROVE  [Queue!QueueNext]_(Queue!queueVars)
  BY Zenon
<1> DEFINE Goal == [Queue!QueueNext]_(Queue!queueVars)
<1>0. /\ LocalTypeOK /\ FirstInFirstOut /\ JobsAreDistinct /\ StartedIsRunOnce /\ ExitIsFinal
      /\ worker \in [Workers -> {Idle, Exited} \cup [pc : {"run"}, job : JobIds]]
  BY Zenon DEF LocalInv, LocalTypeOK
<1>1. CASE UNCHANGED poolVars
  BY Zenon, <1>1, QueueStutters DEF poolVars
<1>2. ASSUME NEW s \in Senders, Begin(s) \/ Call(s) \/ Done(s)  PROVE Goal
  BY Zenon, <1>2, QueueStutters DEF Begin, Call, Done
<1>3. ASSUME NEW w \in Workers, WorkerExit(w)  PROVE Goal
  <2>1. worker' = [worker EXCEPT ![w] = Exited] /\ worker[w].pc = "idle"
    BY Zenon, <1>3 DEF WorkerExit
  <2>2. worker[w] = Idle
    BY SMTT(30), <1>0, <2>1 DEF Idle, Exited
  <2>3. QueueSlot' = QueueSlot
    BY <1>0, <2>1, <2>2 DEF QueueSlot, Idle, Exited
  <2>4. QueuePhase' = QueuePhase
    BY Zenon, <1>3 DEF WorkerExit, QueuePhase
  <2> QED  BY Zenon, <1>3, <2>3, <2>4 DEF WorkerExit, Queue!queueVars
<1>4. ASSUME Interrupt  PROVE Goal
  <2>1. chanOpen
    BY Zenon, <1>0, <1>4 DEF Interrupt, ExitIsFinal
  <2> QED  BY Zenon, <1>4, <2>1, QueueStutters DEF Interrupt
<1>5. ASSUME NEW s \in Senders, EnqueuePlaceCall(s)  PROVE Goal
  <2>1. /\ accepted' = Append(accepted, sender[s].job)
        /\ started' = started /\ worker' = worker /\ done' = done
        /\ chanOpen' = chanOpen /\ main' = main /\ chanOpen
    BY Zenon, <1>5 DEF EnqueuePlaceCall
  <2>2. sender[s].job \in JobIds /\ sender[s].job \notin Elements(accepted)
    <3>1. sender[s].job \in 1..issued /\ sender[s].job \notin Elements(accepted)
      BY Zenon, <1>0, <1>5 DEF EnqueuePlaceCall, JobsAreDistinct
    <3>2. issued \in 0..MaxJobs
      BY Zenon, <1>0 DEF LocalTypeOK
    <3> QED  BY <3>1, <3>2, LocalAssumption DEF JobIds
  <2>3. QueuePhase = "open" /\ QueuePhase' = QueuePhase /\ QueueSlot' = QueueSlot
    BY Zenon, <2>1 DEF QueuePhase, QueueSlot
  <2>4. Queue!Put(sender[s].job)
    BY Zenon, <2>1, <2>2, <2>3 DEF Queue!Put, Queue!AcceptedJobs, Elements
  <2> QED  BY Zenon, <2>2, <2>4 DEF Queue!QueueNext
<1>6. ASSUME NEW s \in Senders, SendPanics(s)  PROVE Goal
  <2>1. /\ main = "draining" /\ QueuePhase = "closed" /\ ~chanOpen
    BY Zenon, <1>6, QueueIsUp DEF SendPanics
  <2>2. CASE s \notin Scheduler
    BY Zenon, <1>6, <2>2, QueueStutters DEF SendPanics
  <2>3. CASE s \in Scheduler
    <3>1. QueuePhase' = "crashed" /\ QueueSlot' = QueueSlot
      BY Zenon, <1>6, <2>1, <2>3 DEF SendPanics, QueuePhase, QueueSlot
    <3>2. Queue!Stop
      BY Zenon, <1>6, <2>1, <3>1 DEF SendPanics, Queue!Stop
    <3> QED  BY Zenon, <3>2 DEF Queue!QueueNext
  <2> QED  BY Zenon, <2>2, <2>3
<1>7. ASSUME NEW w \in Workers, Receive(w)  PROVE Goal
  <2> DEFINE e == Head(jobs)
             n == Len(started)
  <2>1. /\ worker[w].pc = "idle" /\ jobs # <<>> /\ Alive
        /\ worker' = [worker EXCEPT ![w] = [pc |-> "run", job |-> e]]
        /\ started' = Append(started, e) /\ chanOpen' = chanOpen /\ main' = main
        /\ accepted' = accepted /\ done' = done
    BY Zenon, <1>7 DEF Receive
  <2>2. started \in Seq(JobIds) /\ jobs \in Seq(JobIds) /\ accepted = started \o jobs
    BY Zenon, <1>0 DEF LocalTypeOK, FirstInFirstOut
  <2>3. n + 1 \in 1..Len(accepted) /\ accepted[n + 1] = e /\ e \in JobIds
    BY Zenon, <2>1, <2>2, ReceiveKeepsOrder
  <2>4. n \in Nat /\ Len(accepted) \in Nat /\ Len(started') = n + 1
    BY Zenon, <1>0, <2>1, <2>2, <2>3, AppendElements, SeqLength DEF LocalTypeOK
  <2> HIDE DEF e
  <2>5. worker[w] = Idle
    BY <1>0, <2>1 DEF Idle, Exited
  <2>6. QueueSlot[w] = NoJob /\ QueueSlot' = [QueueSlot EXCEPT ![w] = e]
    <3>1. \A v \in Workers : worker'[v].job = IF v = w THEN e ELSE worker[v].job
      BY Zenon, <1>0, <2>1
    <3>2. QueueSlot' = [v \in Workers |-> IF v = w THEN e ELSE worker[v].job]
      BY Zenon, <3>1 DEF QueueSlot
    <3>3. /\ QueueSlot \in [Workers -> {QueueSlot[v] : v \in Workers}]
          /\ \A v \in Workers : QueueSlot[v] = worker[v].job
      BY Zenon DEF QueueSlot
    <3>4. QueueSlot' = [v \in Workers |-> IF v = w THEN e ELSE QueueSlot[v]]
      BY Zenon, <3>2, <3>3
    <3>5. QueueSlot[w] = NoJob
      BY <2>5, <3>3 DEF Idle
    <3> QED  BY Zenon, <3>3, <3>4, <3>5
  <2>7. QueuePhase' = QueuePhase /\ Queue!Up
    BY Zenon, <2>1, QueueIsUp DEF QueuePhase
  <2>8. Queue!Take(w)
    BY <2>1, <2>3, <2>4, <2>6, <2>7 DEF Queue!Take
  <2> QED  BY Zenon, <2>8 DEF Queue!QueueNext
<1>8. ASSUME NEW w \in Workers, Finish(w)  PROVE Goal
  <2>1. /\ worker[w].pc = "run" /\ Alive /\ worker' = [worker EXCEPT ![w] = Idle]
        /\ done' = done \cup {worker[w].job} /\ started' = started /\ accepted' = accepted
        /\ chanOpen' = chanOpen /\ main' = main
    BY Zenon, <1>8 DEF Finish
  <2>2. worker[w].job \in JobIds
    BY <1>0, <2>1 DEF Idle, Exited
  <2>3. worker[w].job \notin done
    BY Zenon, <1>0, <2>1 DEF StartedIsRunOnce, Running
  <2>4. QueueSlot[w] = worker[w].job /\ QueueSlot' = [QueueSlot EXCEPT ![w] = NoJob]
    BY Zenon, <1>0, <2>1 DEF QueueSlot, Idle
  <2>5. QueuePhase' = QueuePhase /\ Queue!Up
    BY Zenon, <2>1, QueueIsUp DEF QueuePhase
  <2>6. Queue!End(w)
    BY Zenon, <2>1, <2>2, <2>3, <2>4, <2>5 DEF Queue!End
  <2> QED  BY Zenon, <2>6 DEF Queue!QueueNext
<1>9. ASSUME Close  PROVE Goal
  <2>1. chanOpen /\ QueuePhase = "open"
    BY Zenon, <1>0, <1>9 DEF Close, ExitIsFinal, QueuePhase
  <2>2. QueuePhase' = "closed" /\ QueueSlot' = QueueSlot
    BY Zenon, <1>9 DEF Close, QueuePhase, QueueSlot
  <2>3. Queue!Close
    BY Zenon, <1>9, <2>1, <2>2 DEF Close, Queue!Close
  <2> QED  BY Zenon, <2>3 DEF Queue!QueueNext
<1>10. ASSUME Exit  PROVE Goal
  <2>1. main = "draining" /\ ~chanOpen /\ QueuePhase = "closed"
    BY Zenon, <1>0, <1>10 DEF Exit, ExitIsFinal, QueuePhase
  <2>2. QueuePhase' = "stopped" /\ QueueSlot' = QueueSlot
    BY Zenon, <1>10, <2>1 DEF Exit, QueuePhase, QueueSlot
  <2>3. done = Elements(accepted)
    <3>1. jobs = <<>> /\ Running = {}
      BY Zenon, <1>0, <1>10, LocalAssumption DEF Exit, ExitIsFinal, Running
    <3>2. accepted = started
      BY Zenon, <1>0, <3>1, SeqJoinedToNone DEF FirstInFirstOut, LocalTypeOK
    <3> QED  BY Zenon, <1>0, <3>1, <3>2 DEF StartedIsRunOnce
  <2>4. Queue!Stop
    BY Zenon, <1>10, <2>1, <2>2, <2>3 DEF Exit, Queue!Stop, Queue!AcceptedJobs, Elements
  <2> QED  BY Zenon, <2>4 DEF Queue!QueueNext
<1> QED
  BY Zenon, <1>1, <1>2, <1>3, <1>4, <1>5, <1>6, <1>7, <1>8, <1>9, <1>10 DEF PoolNext, Shutdown

(* The pool implements the queue, for any number of workers and senders    *)
(* and any capacity of the channel.                                        *)
THEOREM PoolImplementsQueue == PoolSpec => ImplementsQueue
<1>1. PoolInit => Queue!QueueInit
  <2> SUFFICES ASSUME PoolInit PROVE Queue!QueueInit
    BY Zenon
  <2>1. QueueSlot = [w \in Workers |-> NoJob] /\ QueuePhase = "open" /\ Len(started) = 0
    BY Zenon DEF PoolInit, QueueSlot, QueuePhase, Idle
  <2> QED  BY Zenon, <2>1 DEF PoolInit, Queue!QueueInit
<1> QED
  BY <1>1, QueueStep, LocalInvariant, PTL DEF PoolSpec, ImplementsQueue, Queue!QueueSpec
===============================================================================
