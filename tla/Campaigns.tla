------------------------------- MODULE Campaigns ------------------------------
(***************************************************************************)
(* Batch calling (internal/service/campaigns): one org's campaigns, their  *)
(* imported recipients and the customers table; Start requests and the     *)
(* minute sweep RunDue, which run concurrently and both dispatch.  A       *)
(* request of another org ends at Get, without effect.                     *)
(***************************************************************************)
EXTENDS Integers, Sequences, FiniteSets, Functions

CONSTANTS
    Campaigns,
    Phones,       \* E.164 numbers
    Rows,         \* rows of an uploaded CSV
    NormalizeBD,  \* the phone a row's first field normalizes to, "invalid" or,
                  \*   for a row the CSV reader rejects, "malformed"
    Files,        \* CSV uploads: sequences of rows
    Starters,     \* concurrent Start requests
    Scheduler,    \* the goroutine of RunDue
    Importers,    \* concurrent ImportRecipients requests
    LastMinute,   \* bound: the clock
    ListLimit,    \* customers a dispatch lists, 500 in the code
    MaxRequests,  \* bound: Start and import requests
    MaxToggles,   \* bound: do-not-disturb changes
    MaxFaults     \* bound: failed database or orchestrator calls, crashes

ASSUME CampaignsAssumption ==
    /\ NormalizeBD \in [Rows -> Phones \cup {"invalid", "malformed"}]
    /\ Files \subseteq Seq(Rows)
    /\ Scheduler \notin Starters
    /\ {ListLimit, LastMinute, MaxRequests, MaxToggles, MaxFaults} \subseteq Nat

VARIABLES
    campaign,    \* campaigns: status, target_count and scheduled_at
    recipients,  \* campaign_recipients
    customers,   \* customers, in the order they were created
    dnd,         \* the phones marked do-not-disturb
    run,         \* each Start request and the sweep: where it is, the phones
                 \*   still to upsert, to call and called, and (history) those
                 \*   it owes a call by what it read, and those that are
                 \*   do-not-disturb since it began to dispatch
    import,      \* each import: its campaign, the rows left, the phones seen
    clock, requests, toggles, faults,
    calls,       \* history: place_call jobs enqueued, per campaign and phone
    audience,    \* history: the phones the run that completed a campaign owed a call
    again        \* history: campaigns dispatched while another run was at it, or
                 \*   from the sweep's list when already completed

reqVars == <<requests, toggles, faults>>
history == <<calls, audience, again>>
vars == <<campaign, recipients, customers, dnd, run, import, clock, reqVars, history>>

NoCampaign == "none"
Idle == [pc |-> "idle", camp |-> NoCampaign, rest |-> {}, todo |-> {}, targets |-> {},
         sent |-> {}, owed |-> {}, barred |-> {}]
NoImport == [camp |-> NoCampaign, rows |-> <<>>, seen |-> {}]
Runs == Starters \cup {Scheduler}

Campaign == [status : {"none", "draft", "scheduled", "completed"},
             target : {0} \cup {Cardinality(P) : P \in SUBSET Phones}, fire : 0..LastMinute]
Run == [pc : {"idle", "get", "recipients", "upsert", "list", "enqueue", "mark"},
        camp : Campaigns \cup {NoCampaign}, rest : SUBSET Campaigns,
        todo : SUBSET Phones, targets : SUBSET Phones,
        sent : SUBSET Phones, owed : SUBSET Phones, barred : SUBSET Phones]
Import == [camp : Campaigns \cup {NoCampaign}, rows : Seq(Rows), seen : SUBSET Phones]

CampaignsTypeOK ==
    /\ campaign \in [Campaigns -> Campaign]
    /\ recipients \in [Campaigns -> SUBSET Phones]
    /\ customers \in Seq(Phones) /\ IsInjective(customers)
    /\ dnd \in SUBSET Range(customers)
    /\ run \in [Runs -> Run]
    /\ import \in [Importers -> Import]
    /\ clock \in 0..LastMinute
    /\ requests \in 0..MaxRequests /\ toggles \in 0..MaxToggles /\ faults \in 0..MaxFaults
    /\ calls \in [Campaigns -> [Phones -> Nat]]
    /\ audience \in [Campaigns -> SUBSET Phones]
    /\ again \in SUBSET Campaigns

Init ==
    /\ campaign = [c \in Campaigns |-> [status |-> "none", target |-> 0, fire |-> 0]]
    /\ recipients = [c \in Campaigns |-> {}]
    /\ customers = <<>>
    /\ dnd = {}
    /\ run = [r \in Runs |-> Idle]
    /\ import = [i \in Importers |-> NoImport]
    /\ clock = 0 /\ requests = 0 /\ toggles = 0 /\ faults = 0
    /\ calls = [c \in Campaigns |-> [p \in Phones |-> 0]]
    /\ audience = recipients
    /\ again = {}

-------------------------------------------------------------------------------
(* Customers.                                                              *)

Upserted(p) == IF p \in Range(customers) THEN customers ELSE Append(customers, p)

(* Another part of the system, such as order intake, upserts a customer.   *)
Upsert(p) ==
    /\ customers' = Upserted(p)
    /\ customers' # customers
    /\ UNCHANGED <<campaign, recipients, dnd, run, import, clock, reqVars, history>>

SetDND(p, on) ==
    /\ p \in Range(customers)
    /\ toggles < MaxToggles
    /\ toggles' = toggles + 1
    /\ dnd' = IF on THEN dnd \cup {p} ELSE dnd \ {p}
    /\ run' = [r \in Runs |-> [run[r] EXCEPT !.barred = IF on THEN @ ELSE @ \ {p}]]
    /\ UNCHANGED <<campaign, recipients, customers, import, clock, requests, faults,
                   history>>

(* ListCustomersByOrg: the newest come first, and the rest is cut off.     *)
ListByOrg ==
    LET skipped == IF Len(customers) > ListLimit THEN Len(customers) - ListLimit ELSE 0
    IN  {customers[i] : i \in (skipped + 1)..Len(customers)}

-------------------------------------------------------------------------------
(* Campaigns.                                                              *)

Create(c) ==
    /\ campaign[c].status = "none"
    /\ campaign' = [campaign EXCEPT ![c].status = "draft"]
    /\ UNCHANGED <<recipients, customers, dnd, run, import, clock, reqVars, history>>

Exists(c) == campaign[c].status # "none"

(* The UPDATE touches drafts only.                                         *)
ScheduleCampaign(c, at) ==
    campaign' = IF campaign[c].status = "draft"
                  THEN [campaign EXCEPT ![c] = [@ EXCEPT !.status = "scheduled", !.fire = at]]
                  ELSE campaign

(* Schedule: the time must lie in the future; the request is answered with *)
(* success whether or not a row was updated.                               *)
Schedule(c, at) ==
    /\ at > clock
    /\ Exists(c)
    /\ ScheduleCampaign(c, at)
    /\ UNCHANGED <<recipients, customers, dnd, run, import, clock, reqVars, history>>

MinutePasses ==
    /\ clock < LastMinute
    /\ clock' = clock + 1
    /\ UNCHANGED <<campaign, recipients, customers, dnd, run, import, reqVars, history>>

-------------------------------------------------------------------------------
(* ImportRecipients: one row at a time, each insert a statement of its own. *)

ImportRecipients(i, c, file) ==
    /\ import[i] = NoImport
    /\ requests < MaxRequests
    /\ requests' = requests + 1
    /\ Exists(c)
    /\ file # <<>>
    /\ import' = [import EXCEPT ![i] = [camp |-> c, rows |-> file, seen |-> {}]]
    /\ UNCHANGED <<campaign, recipients, customers, dnd, run, clock, toggles, faults, history>>

(* ON CONFLICT DO NOTHING: a phone is a campaign's recipient once.         *)
AddRecipient(c, p) == recipients' = [recipients EXCEPT ![c] = @ \cup {p}]

ImportRow(i) ==
    /\ import[i] # NoImport
    /\ LET p == NormalizeBD[Head(import[i].rows)]
           rest == Tail(import[i].rows)
           ended == p = "malformed" \/ rest = <<>>
           fresh == p \in Phones \ import[i].seen
           seen == IF fresh THEN import[i].seen \cup {p} ELSE import[i].seen
       IN  /\ IF fresh THEN AddRecipient(import[i].camp, p) ELSE UNCHANGED recipients
           /\ import' = [import EXCEPT ![i] =
                  IF ended THEN NoImport
                  ELSE [@ EXCEPT !.rows = rest, !.seen = seen]]
    /\ UNCHANGED <<campaign, customers, dnd, run, clock, reqVars, history>>

-------------------------------------------------------------------------------
(* Start and RunDue.                                                       *)

At(r, l) == run[r].pc = l
Camp(r) == run[r].camp

Dispatch(c, rest) ==
    [pc |-> "recipients", camp |-> c, rest |-> rest, todo |-> {}, targets |-> {},
     sent |-> {}, owed |-> {}, barred |-> dnd]

Note(r, c) ==
    again' = IF \/ \E q \in Runs \ {r} : Camp(q) = c /\ ~At(q, "get")
                \/ c \in run[r].rest /\ campaign[c].status = "completed"
               THEN again \cup {c} ELSE again

(* A run is through with its campaign: the request returns, the sweep goes *)
(* on to the next due one.                                                 *)
Return(r) ==
    \/ run[r].rest = {} /\ run' = [run EXCEPT ![r] = Idle] /\ UNCHANGED again
    \/ \E c \in run[r].rest :
           /\ run' = [run EXCEPT ![r] = Dispatch(c, run[r].rest \ {c})]
           /\ Note(r, c)

Start(s, c) ==
    /\ At(s, "idle")
    /\ requests < MaxRequests
    /\ requests' = requests + 1
    /\ Exists(c)
    /\ run' = [run EXCEPT ![s] = [Idle EXCEPT !.pc = "get", !.camp = c]]
    /\ UNCHANGED <<campaign, recipients, customers, dnd, import, clock, toggles, faults,
                   history>>

(* A completed campaign is not dispatched again.                           *)
Get(s) ==
    /\ At(s, "get")
    /\ \/ /\ campaign[Camp(s)].status = "completed"
          /\ run' = [run EXCEPT ![s] = Idle]
          /\ UNCHANGED again
       \/ /\ campaign[Camp(s)].status # "completed"
          /\ run' = [run EXCEPT ![s] = Dispatch(Camp(s), {})]
          /\ Note(s, Camp(s))
    /\ UNCHANGED <<campaign, recipients, customers, dnd, import, clock, reqVars, calls,
                   audience>>

\* Mutant: drafts with a time behind them are due as well.
DraftsToo == {c \in Campaigns : campaign[c].status # "none" /\ campaign[c].fire <= clock}

DueCampaigns == {c \in Campaigns : campaign[c].status = "scheduled" /\ campaign[c].fire <= clock}

RunDue ==
    /\ At(Scheduler, "idle")
    /\ \E c \in DueCampaigns :
           /\ run' = [run EXCEPT ![Scheduler] = Dispatch(c, DueCampaigns \ {c})]
           /\ Note(Scheduler, c)
    /\ UNCHANGED <<campaign, recipients, customers, dnd, import, clock, reqVars, calls,
                   audience>>

Recipients(r) ==
    /\ At(r, "recipients")
    /\ run' = [run EXCEPT ![r] = [@ EXCEPT
                  !.pc = IF recipients[Camp(r)] # {} THEN "upsert" ELSE "list",
                  !.todo = recipients[Camp(r)],
                  !.owed = recipients[Camp(r)]]]
    /\ UNCHANGED <<campaign, recipients, customers, dnd, import, clock, reqVars, history>>

\* Mutant: the recipients' do-not-disturb flag is not looked at.
UpsertIgnoresDND(r) ==
    /\ At(r, "upsert")
    /\ \E p \in run[r].todo :
           /\ customers' = Upserted(p)
           /\ run' = [run EXCEPT ![r] = [@ EXCEPT
                  !.pc = IF run[r].todo = {p} THEN "enqueue" ELSE "upsert",
                  !.todo = run[r].todo \ {p},
                  !.targets = run[r].targets \cup {p}]]
    /\ UNCHANGED <<campaign, recipients, dnd, import, clock, reqVars, history>>

(* Each recipient becomes a customer; the upsert answers whether it is     *)
(* do-not-disturb.                                                         *)
UpsertRecipient(r) ==
    /\ At(r, "upsert")
    /\ \E p \in run[r].todo :
           /\ customers' = Upserted(p)
           /\ run' = [run EXCEPT ![r] = [@ EXCEPT
                  !.pc = IF run[r].todo = {p} THEN "enqueue" ELSE "upsert",
                  !.todo = run[r].todo \ {p},
                  !.targets = run[r].targets \cup ({p} \ dnd),
                  !.owed = run[r].owed \ ({p} \cap dnd)]]
    /\ UNCHANGED <<campaign, recipients, dnd, import, clock, reqVars, history>>

ListCustomers(r) ==
    /\ At(r, "list")
    /\ run' = [run EXCEPT ![r] = [@ EXCEPT !.pc = "enqueue", !.targets = ListByOrg \ dnd,
                                           !.owed = ListByOrg \ dnd]]
    /\ UNCHANGED <<campaign, recipients, customers, dnd, import, clock, reqVars, history>>

(* One job for each target, then the campaign is marked.                   *)
EnqueuePlaceCall(r) ==
    /\ At(r, "enqueue")
    /\ \/ \E p \in run[r].targets :
              /\ calls' = [calls EXCEPT ![Camp(r)][p] = @ + 1]
              /\ run' = [run EXCEPT ![r] = [@ EXCEPT !.targets = run[r].targets \ {p},
                                                     !.sent = run[r].sent \cup {p}]]
       \/ /\ run[r].targets = {}
          /\ run' = [run EXCEPT ![r].pc = "mark"]
          /\ UNCHANGED calls
    /\ UNCHANGED <<campaign, recipients, customers, dnd, import, clock, reqVars, audience,
                   again>>

(* StartCampaign: a campaign completed meanwhile keeps its target count.   *)
MarkStarted(r) ==
    /\ At(r, "mark")
    /\ IF campaign[Camp(r)].status \in {"draft", "scheduled"}
         THEN /\ campaign' = [campaign EXCEPT ![Camp(r)] =
                     [@ EXCEPT !.status = "completed", !.target = Cardinality(run[r].sent)]]
              /\ audience' = [audience EXCEPT ![Camp(r)] = run[r].owed]
         ELSE UNCHANGED <<campaign, audience>>
    /\ Return(r)
    /\ UNCHANGED <<recipients, customers, dnd, import, clock, reqVars, calls>>

-------------------------------------------------------------------------------
(* Failures.                                                               *)

Fault == faults < MaxFaults /\ faults' = faults + 1

\* Mutant: a job that cannot be enqueued is passed over.
SkipTarget(r) ==
    /\ Fault
    /\ At(r, "enqueue")
    /\ \E p \in run[r].targets :
           run' = [run EXCEPT ![r].targets = @ \ {p}]
    /\ UNCHANGED <<campaign, recipients, customers, dnd, import, clock, requests, toggles,
                   history>>

\* Mutant: a dispatch that fails takes the campaign back to draft.
BackToDraft(r) ==
    /\ Fault
    /\ ~At(r, "idle")
    /\ campaign' = [campaign EXCEPT ![Camp(r)].status = IF @ = "completed" THEN @ ELSE "draft"]
    /\ Return(r)
    /\ UNCHANGED <<recipients, customers, dnd, import, clock, requests, toggles, calls, audience>>

(* A failed call ends the dispatch, whatever it has enqueued by then; the  *)
(* sweep goes on with the next campaign.                                   *)
RunFails(r) ==
    /\ Fault
    /\ ~At(r, "idle")
    /\ Return(r)
    /\ UNCHANGED <<campaign, recipients, customers, dnd, import, clock, requests, toggles,
                   calls, audience>>

ImportFails(i) ==
    /\ Fault
    /\ import[i] # NoImport
    /\ import' = [import EXCEPT ![i] = NoImport]
    /\ UNCHANGED <<campaign, recipients, customers, dnd, run, clock, requests, toggles,
                   history>>

Crash ==
    /\ Fault
    /\ run' = [r \in Runs |-> Idle]
    /\ import' = [i \in Importers |-> NoImport]
    /\ UNCHANGED <<campaign, recipients, customers, dnd, clock, requests, toggles, history>>

-------------------------------------------------------------------------------
Step(r) ==
    \/ Recipients(r) \/ UpsertRecipient(r) \/ ListCustomers(r) \/ EnqueuePlaceCall(r)
    \/ MarkStarted(r)

Next ==
    \/ \E p \in Phones : Upsert(p)
    \/ \E p \in Phones, on \in BOOLEAN : SetDND(p, on)
    \/ \E c \in Campaigns : Create(c)
    \/ \E c \in Campaigns, at \in 1..LastMinute : Schedule(c, at)
    \/ MinutePasses
    \/ \E i \in Importers, c \in Campaigns, f \in Files : ImportRecipients(i, c, f)
    \/ \E i \in Importers : ImportRow(i) \/ ImportFails(i)
    \/ \E s \in Starters, c \in Campaigns : Start(s, c)
    \/ \E s \in Starters : Get(s)
    \/ RunDue
    \/ \E r \in Runs : Step(r) \/ RunFails(r)
    \/ Crash

Spec == Init /\ [][Next]_vars

(* The ticker fires and the sweep runs; time goes on.                      *)
FairSpec == Spec /\ WF_vars(MinutePasses) /\ WF_vars(RunDue) /\ WF_vars(Step(Scheduler))

-------------------------------------------------------------------------------
(* A completed campaign was dispatched in full by the run that completed   *)
(* it.  What that run owes is settled as it reads: the recipients it found *)
(* less those the upsert called do-not-disturb, or the customers it listed *)
(* less the flagged.  A job was enqueued for each of these, and            *)
(* target_count is their number, however many enqueues failed, whichever   *)
(* runs were given up or retried and whatever was imported meanwhile.      *)
CompletedIsDispatched ==
    \A c \in Campaigns : campaign[c].status = "completed" =>
        /\ campaign[c].target = Cardinality(audience[c])
        /\ \A p \in audience[c] : calls[c][p] >= 1

(* dispatch enqueues no call to a customer who was do-not-disturb when it  *)
(* began and has been since, whether imported or listed.  (A flag set      *)
(* while a dispatch is under way may come too late for it.)                *)
DndHonoured == \A r \in Runs : run[r].sent \cap run[r].barred = {}

(* Start's comment: it is idempotent.  A campaign calls each of its        *)
(* targets once, except where a dispatch of it fails half way or starts    *)
(* while another is under way or, from the sweep's list, after one.        *)
CalledOnce ==
    faults = 0 => \A c \in Campaigns \ again : \A p \in Phones : calls[c][p] <= 1

(* What holds of campaigns at every moment.                                *)
CampaignsInv == CampaignsTypeOK /\ CompletedIsDispatched

(* A scheduled campaign is eventually dispatched and completed by the      *)
(* sweep, which takes it up again after a failure or a crash, and stays    *)
(* completed whoever else starts, schedules or sweeps it.                  *)
ScheduledIsRun ==
    \A c \in Campaigns :
        campaign[c].status = "scheduled" ~> [](campaign[c].status = "completed")
===============================================================================
