----------------------------- MODULE Provisioning -----------------------------
(***************************************************************************)
(* OrgRepo.EnsureForUser, called by requireAuth on every authenticated     *)
(* request: look the user's org up, create it if there is none, and seed   *)
(* it with a default flow and starter credits.  Each statement is its own  *)
(* transaction; the errors of the seeding statements are discarded.        *)
(***************************************************************************)
EXTENDS CreditRepo

CONSTANTS
    Users,
    Handlers,     \* concurrent authenticated requests
    SignupGrant,  \* 500 in the code
    MaxFaults,    \* bound: failed statements, lost answers and crashes
    NoUser,
    NoOrg

ASSUME ProvisioningAssumption ==
    /\ SignupGrant \in Nat \ {0}
    /\ SignupGrant <= MaxBalance
    /\ MaxFaults \in Nat
    /\ NoUser \notin Users
    /\ NoOrg \notin Orgs

VARIABLES
    owned,      \* orgs: the org whose owner_user_id is u, NoOrg if no row
    name,       \* orgs.name: the one given at creation or one the user chose
    flow,       \* flow[o]: org o has its order_confirm flow
    req,        \* each request: where it is, its user, the uuid it drew
    faults,
    returned,   \* history: the orgs EnsureForUser has returned to each user
    renamed     \* history: the orgs whose owner has renamed them

orgVars == <<owned, name, renamed>>
vars == <<creditVars, orgVars, flow, req, faults, returned>>

Labels == {"idle", "get", "create", "reread", "flow", "account", "adjust", "ledger"}

NoRequest == [pc |-> "idle", user |-> NoUser, org |-> NoOrg]

ProvisioningTypeOK ==
    /\ CreditTypeOK
    /\ owned \in [Users -> Orgs \cup {NoOrg}]
    /\ name \in [Orgs -> {"none", "given", "chosen"}]
    /\ flow \in [Orgs -> BOOLEAN]
    /\ req \in [Handlers -> [pc : Labels, user : Users \cup {NoUser},
                             org : Orgs \cup {NoOrg}]]
    /\ faults \in 0..MaxFaults
    /\ returned \in [Users -> SUBSET Orgs]
    /\ renamed \subseteq Orgs

Init ==
    /\ Unseeded
    /\ owned = [u \in Users |-> NoOrg]
    /\ name = [o \in Orgs |-> "none"]
    /\ flow = [o \in Orgs |-> FALSE]
    /\ req = [h \in Handlers |-> NoRequest]
    /\ faults = 0
    /\ returned = [u \in Users |-> {}]
    /\ renamed = {}

-------------------------------------------------------------------------------
At(h, l) == req[h].pc = l
Goto(h, l) == req' = [req EXCEPT ![h].pc = l]
Fault == faults < MaxFaults /\ faults' = faults + 1
Abort(h) == req' = [req EXCEPT ![h] = NoRequest] /\ UNCHANGED returned

Return(h, o) ==
    /\ req' = [req EXCEPT ![h] = NoRequest]
    /\ returned' = [returned EXCEPT ![req[h].user] = @ \cup {o}]

(* uuid.New: an id no other request has drawn.                             *)
Fresh(o) ==
    /\ \A u \in Users : owned[u] # o
    /\ \A h \in Handlers : req[h].org # o

(* requireAuth has resolved the session to user u.                         *)
RequireAuth(h, u) ==
    /\ At(h, "idle")
    /\ req' = [req EXCEPT ![h] = [@ EXCEPT !.pc = "get", !.user = u]]
    /\ UNCHANGED <<creditVars, orgVars, flow, faults, returned>>

GetOrgByOwner(h) ==
    /\ At(h, "get")
    /\ LET o == owned[req[h].user] IN
       \/ o # NoOrg /\ Return(h, o)
       \/ /\ o = NoOrg
          /\ \E new \in Orgs :
                /\ Fresh(new)
                /\ req' = [req EXCEPT ![h] = [@ EXCEPT !.pc = "create", !.org = new]]
          /\ UNCHANGED returned
    /\ UNCHANGED <<creditVars, orgVars, flow, faults>>

(* INSERT ... ON CONFLICT (owner_user_id) DO NOTHING.                      *)
InsertOrg(h) ==
    /\ \/ /\ owned[req[h].user] = NoOrg
          /\ owned' = [owned EXCEPT ![req[h].user] = req[h].org]
          /\ name' = [name EXCEPT ![req[h].org] = "given"]
       \/ owned[req[h].user] # NoOrg /\ UNCHANGED <<owned, name>>
    /\ UNCHANGED renamed

CreateOrg(h) ==
    /\ At(h, "create")
    /\ InsertOrg(h)
    /\ Goto(h, "reread")
    /\ UNCHANGED <<creditVars, flow, faults, returned>>

\* Mutant: every request that missed the first read seeds the org it finds.
SeedAlways(h) ==
    /\ At(h, "reread")
    /\ req' = [req EXCEPT ![h] = [@ EXCEPT !.pc = "flow", !.org = owned[req[h].user]]]
    /\ UNCHANGED <<creditVars, orgVars, flow, faults, returned>>

Reread(h) ==
    /\ At(h, "reread")
    /\ LET o == owned[req[h].user] IN
       \/ o = req[h].org /\ Goto(h, "flow") /\ UNCHANGED returned
       \/ o # req[h].org /\ Return(h, o)
    /\ UNCHANGED <<creditVars, orgVars, flow, faults>>

-------------------------------------------------------------------------------
(* The seeding statements.                                                 *)

SeedFlow(h) ==
    /\ At(h, "flow")
    /\ flow' = [flow EXCEPT ![req[h].org] = TRUE]
    /\ Goto(h, "account")
    /\ UNCHANGED <<creditVars, orgVars, faults, returned>>

SeedAccount(h) ==
    /\ At(h, "account")
    /\ EnsureCreditAccount(req[h].org)
    /\ Goto(h, "adjust")
    /\ UNCHANGED <<balance, ledger, orgVars, flow, faults, returned>>

\* Mutant: returns as soon as the balance is adjusted.
SeedUnlogged(h) ==
    /\ At(h, "adjust")
    /\ AdjustBalance(req[h].org, SignupGrant)
    /\ Return(h, req[h].org)
    /\ UNCHANGED <<account, ledger, orgVars, flow, faults>>

(* Without an account the UPDATE matches no row, an error that skips the   *)
(* ledger entry.                                                           *)
SeedBalance(h) ==
    /\ At(h, "adjust")
    /\ \/ /\ account[req[h].org]
          /\ AdjustBalance(req[h].org, SignupGrant)
          /\ Goto(h, "ledger")
          /\ UNCHANGED returned
       \/ /\ ~account[req[h].org]
          /\ Return(h, req[h].org)
          /\ UNCHANGED balance
    /\ UNCHANGED <<account, ledger, orgVars, flow, faults>>

SeedLedger(h) ==
    /\ At(h, "ledger")
    /\ AddLedger(req[h].org, SignupGrant, "signup_grant")
    /\ Return(h, req[h].org)
    /\ UNCHANGED <<account, balance, orgVars, flow, faults>>

-------------------------------------------------------------------------------
(* Failures.                                                               *)

(* A failed lookup or insert fails the request.                            *)
LookupFails(h) ==
    /\ Fault
    /\ req[h].pc \in {"get", "create", "reread"}
    /\ Abort(h)
    /\ UNCHANGED <<creditVars, orgVars, flow>>

(* The insert commits but its answer is lost.                              *)
CreateAnswerLost(h) ==
    /\ Fault
    /\ At(h, "create")
    /\ InsertOrg(h)
    /\ Abort(h)
    /\ UNCHANGED <<creditVars, flow>>

(* A failed seeding statement is passed over; after a failed AdjustBalance *)
(* the ledger entry is skipped.                                            *)
SeedFails(h) ==
    /\ Fault
    /\ \/ At(h, "flow") /\ Goto(h, "account") /\ UNCHANGED returned
       \/ At(h, "account") /\ Goto(h, "adjust") /\ UNCHANGED returned
       \/ req[h].pc \in {"adjust", "ledger"} /\ Return(h, req[h].org)
    /\ UNCHANGED <<creditVars, orgVars, flow>>

(* AdjustBalance commits but reports an error.                             *)
AdjustAnswerLost(h) ==
    /\ Fault
    /\ At(h, "adjust")
    /\ account[req[h].org]
    /\ AdjustBalance(req[h].org, SignupGrant)
    /\ Return(h, req[h].org)
    /\ UNCHANGED <<account, ledger, orgVars, flow>>

(* The process dies, or the client disconnects and its cancelled context   *)
(* fails every later statement.                                            *)
Abandon(h) ==
    /\ Fault
    /\ ~At(h, "idle")
    /\ Abort(h)
    /\ UNCHANGED <<creditVars, orgVars, flow>>

(* The user's calls are metered as soon as a request has the org.          *)
Spend(u, o) ==
    /\ o \in returned[u]
    /\ TryDeduct(o, 1, "call")
    /\ UNCHANGED <<orgVars, flow, req, faults, returned>>

(* renameOrg: one UPDATE, by a request that has the org.                   *)
Rename(u, o) ==
    /\ o \in returned[u]
    /\ name' = [name EXCEPT ![o] = "chosen"]
    /\ renamed' = renamed \cup {o}
    /\ UNCHANGED <<creditVars, owned, flow, req, faults, returned>>

Step(h) ==
    \/ GetOrgByOwner(h) \/ CreateOrg(h) \/ Reread(h)
    \/ SeedFlow(h) \/ SeedAccount(h) \/ SeedBalance(h) \/ SeedLedger(h)

Next ==
    \/ \E h \in Handlers, u \in Users : RequireAuth(h, u)
    \/ \E h \in Handlers : Step(h)
    \/ \E h \in Handlers : LookupFails(h)
    \/ \E h \in Handlers : CreateAnswerLost(h)
    \/ \E h \in Handlers : SeedFails(h)
    \/ \E h \in Handlers : AdjustAnswerLost(h)
    \/ \E h \in Handlers : Abandon(h)
    \/ \E u \in Users, o \in Orgs : Spend(u, o) \/ Rename(u, o)

Spec == Init /\ [][Next]_vars

(* A request runs until it returns.                                        *)
FairSpec == Spec /\ \A h \in Handlers : WF_vars(Step(h))

-------------------------------------------------------------------------------
HasStarter(o) == flow[o] /\ ledger[o]["signup_grant"] = SignupGrant

(* Concurrent first requests never give one user two orgs: every request   *)
(* of a user is handed the org the unique index kept.                      *)
OneOrgPerUser == \A u \in Users : returned[u] \subseteq {owned[u]}

(* The name a user chose for their org stays: a first request that is late *)
(* with its INSERT does not put the given name back.                       *)
ChosenNameStays ==
    \A o \in Orgs :
        /\ o \in renamed => name[o] = "chosen"
        /\ name[o] # "none" <=> \E u \in Users : owned[u] = o

(* However many requests race, and whatever fails, the starter credits of  *)
(* an org are given and logged at most once.                               *)
SeededAtMostOnce ==
    \A o \in Orgs :
        /\ ledger[o]["signup_grant"] \in {0, SignupGrant}
        /\ balance[o] - ledger[o]["call"] \in {0, SignupGrant}

(* The balance differs from the ledger only by starter credits that were   *)
(* never logged; without a failure, only while a request is about to log   *)
(* them.                                                                   *)
LedgerLagsOnlyWhileSeeding ==
    \A o \in Orgs :
        \/ balance[o] = LedgerSum(o)
        \/ /\ balance[o] = LedgerSum(o) + SignupGrant
           /\ faults > 0 \/ \E h \in Handlers : At(h, "ledger") /\ req[h].org = o

(* The comment on EnsureForUser: the first call creates the org and seeds  *)
(* it.  An org that has been created gets its starter flow and credits,    *)
(* even if other requests of the user overtake, unless a statement fails   *)
(* or the request is abandoned.                                            *)
EventuallySeeded ==
    \A o \in Orgs : (\E u \in Users : owned[u] = o) ~> HasStarter(o) \/ faults > 0

Seeding == {"flow", "account", "adjust", "ledger"}

(* Every request holds its own uuid: no other request has it, no other     *)
(* user's row has it, and whoever seeds an org won its INSERT.             *)
EachHoldsItsOwn ==
    /\ \A h \in Handlers :
           /\ At(h, "idle") => req[h] = NoRequest
           /\ At(h, "get") => req[h].user \in Users /\ req[h].org = NoOrg
           /\ req[h].pc \notin {"idle", "get"} =>
                  /\ req[h].user \in Users /\ req[h].org \in Orgs
                  /\ \A u \in Users : owned[u] = req[h].org =>
                         u = req[h].user /\ ~At(h, "create")
           /\ At(h, "reread") => owned[req[h].user] # NoOrg
           /\ req[h].pc \in Seeding => owned[req[h].user] = req[h].org
           /\ \A g \in Handlers : req[g].org = req[h].org => g = h \/ req[h].org = NoOrg
    /\ \A u, v \in Users : owned[u] = owned[v] => u = v \/ owned[u] = NoOrg

NotYetGiven(o) == balance[o] = 0 /\ \A r \in Reasons : ledger[o][r] = 0

GivenOnce(o) ==
    /\ balance[o] = SignupGrant + ledger[o]["call"]
    /\ ledger[o]["topup"] = 0
    /\ ledger[o]["signup_grant"] \in {0, SignupGrant}

(* Nothing is given to an org before its creator adjusts the balance, and  *)
(* nothing is logged before that creator logs it.                          *)
OnlyCreatorGives ==
    \A o \in Orgs :
        /\ NotYetGiven(o) \/ GivenOnce(o)
        /\ (\A u \in Users : owned[u] # o) => NotYetGiven(o)
        /\ \A h \in Handlers : req[h].org = o =>
               IF At(h, "ledger") THEN GivenOnce(o) /\ ledger[o]["signup_grant"] = 0
                                  ELSE NotYetGiven(o)

(* What holds of orgs and their starter credits at every moment, whatever  *)
(* fails and whoever overtakes: one org for a user, under the name they    *)
(* chose, seeded at most once, and a balance the ledger explains up to a   *)
(* grant not yet logged.                                                   *)
ProvisioningInv ==
    /\ ProvisioningTypeOK
    /\ OneOrgPerUser
    /\ ChosenNameStays
    /\ SeededAtMostOnce
    /\ LedgerLagsOnlyWhileSeeding
    /\ EachHoldsItsOwn
    /\ OnlyCreatorGives
===============================================================================
