# Yaver API: TLA+ specifications

Yaver is a Go service that calls, writes to and answers the customers of
merchants (its *orgs*). One process serves HTTP, runs a pool of workers that
place phone calls, a dispatcher that posts webhooks, a scheduler that starts
campaigns and a retention sweep; it keeps its state in PostgreSQL and a little
of it in memory. These modules model the parts of it that change state, TLC
checks them on small instances, and TLAPS proves the most important results for
every value of the constants. Paths below are relative to `src/`.

## 1. The system

| Part | State | Operations that change it | Modelled in |
|---|---|---|---|
| Credit store (`adapter/postgres/credits.go`) | accounts, balances, ledger | TryDeduct, Grant, EnsureCreditAccount, AdjustBalance | CreditRepo |
| Billing and gateways (`service/billing`, `adapter/payment`, `transport/http/billing.go`) | payments, the gateway's own view | top-up, checkout, IPN callback, dev payment, settle, grant | Billing, TopUpContract |
| Org provisioning (`adapter/postgres/orgs.go`) | orgs, their default flow and starter credits | EnsureForUser, Rename | Provisioning |
| Calls (`service/calls`, `service/notify`, `domain/callpolicy.go`) | jobs, policies, outcomes, outbox, warnings | PlaceCall, RunTestCall, SavePolicy | Calls |
| Call records (`adapter/postgres/calls.go`, `service/transcription`, retention in `cmd/yaver/main.go`) | the calls table | create, attach media, prune | CallRecords |
| In-process orchestrator (`adapter/orchestrator/local`) | a channel, goroutines | EnqueuePlaceCall, worker loop, Shutdown | LocalOrchestrator, JobQueue |
| Hatchet orchestrator (`adapter/orchestrator/hatchet`) | external engine | at-least-once delivery | Calls (`Deliver`) |
| Webhooks (`service/webhooks`, `adapter/postgres/webhooks.go`) | endpoints, outbox, deliveries | set endpoint, drain, post, mark, reschedule | Webhooks |
| Campaigns and customers (`service/campaigns`, `service/customers`) | campaigns, recipients, do-not-disturb | create, schedule, import, start, sweep | Campaigns |
| Chat and channels (`service/chat`, `service/messaging`) | conversations, messages, connections | inbound, assistant reply, takeover, agent reply, widget send | Chat |
| API keys and widget settings (`service/apikeys`, `pkg/apikey`, `adapter/postgres/chatsettings.go`) | api_keys, chat_settings | mint, authenticate, mark used, save settings | ApiKeys |
| Conversation insights (`service/chat`, `adapter/chat/builtin/summarize.go`) | cached insight | Summarize | Insights |
| Ingest and flows (`service/ingest`, `service/flows`) | events, customers, flows | Accept, Create, UpdateSpec, an org's first flow | Ingest |
| Flow engine (`flowengine`) | a session, a simulation | Start, OnDTMF, OnTimeout, OnHangup | FlowEngine |
| Activity bus (`platform/bus`) | subscriptions under an RWMutex | Publish, Subscribe, cancel | Bus |
| Rate limiter (`platform/ratelimit`) | token buckets under a mutex | allow, sweep | RateLimit |
| Authentication (`service/auth`) | codes, users, sessions | request and verify a code, register, log in, log out | Auth |

How they interact. An event (Ingest) or a campaign (Campaigns) enqueues a job;
an orchestrator (LocalOrchestrator, or Hatchet) hands it to PlaceCall (Calls),
which charges the credit store (CreditRepo) that Billing fills and Provisioning
seeds, and runs the flow the merchant drew (FlowEngine). A finished call is
stored with an outbox row, which Webhooks delivers, and is later transcribed or
pruned (CallRecords). Every request passes the rate limiter and the
authentication, or brings an API key (ApiKeys); a finished test call and an inbound
chat message are published on the bus.

What is hard about it: each operation is several transactions, and requests,
workers, ticks and callbacks interleave between any two of them; merchants and
gateways repeat and race their calls; errors of some statements are dropped;
the process may die anywhere; the two structures in memory are shared by all
goroutines and closed under load. `PROJECT.json` lists these hazards line by
line with the property that would catch each.

Not modelled, because they change no state that anything else reads, or are
code of others: analytics, reports and onboarding (read-only queries), flow
templates (constant data), the adapters to external services (each call to one
may succeed or fail wherever it is made), configuration, database and telemetry
plumbing, utility packages other than `pkg/apikey` (pure functions, abstracted
to values), and the generated queries as such (each is part of the action that
issues it). Of the Hatchet orchestrator only its at-least-once delivery is
modelled: the engine is not part of this repository. Reads that serve a page
(lists, dashboards, `OwnerEmail`, webhook verification of a channel) are left
out of the modelled components.

## 2. The modules

Every module models one component: its tables and its requests in flight are
variables, and each *transaction or lock-protected section* of the code is one
action. A request is a record with a `pc`; the steps of a handler follow the
order of its statements, with an action for each early return or error path.
`Fault` marks failures (a statement fails, an answer is lost, the process dies),
and `MaxFaults` bounds them. History variables (`grants`, `dials`, `received`,
`sent`, `spent`, `again`, `owed`, `shared`, `raced`, ...) record what happened for the
properties; no handler reads them.

* **CreditRepo** is a library of store operations used by three modules
  (Billing, Calls, Provisioning), so that the three share one meaning of a
  charge. The balance is an integer column: a grant past `MaxBalance` fails and
  rolls back, as `int4` does.
* **Billing** has the payments table, the gateway's record of each payment and
  the handlers of callbacks. `config`, chosen in `Init` and constant from then
  on, is the gateway and the dev mode a deployment runs with.
  **TopUpContract** is the abstract specification of a top-up: a payment is
  created, settles once, and a paid one is credited at most once. Billing
  implements it (`ImplementsContract`) with handlers, gateway and failures hidden.
* **Provisioning** takes EnsureForUser statement by statement, beside an owner
  who already spends the credits and renames the org. A name is the one *given*
  at creation or one the owner has *chosen*.
* **Calls** has jobs in the hands of workers, test calls, policies and the
  clock of the day; a run is `fresh` until the hour or its org's policy changes
  after it read the policy. `orchestrator`, chosen in `Init`, decides whether a job is
  handed out once or again after a crash. **CallRecords** is what happens to
  the stored row afterwards.
* **LocalOrchestrator** models the buffered channel with Go's rules (a send
  blocks on a full buffer and panics on a closed channel, `range` drains a
  closed one) together with main's shutdown sequence and the campaign scheduler,
  whose goroutine main does not wait for. **JobQueue** is the abstract
  specification: jobs are accepted while the queue is open, started in that
  order on free slots and run once, and a closed queue stops in order only when
  all have ended. LocalOrchestrator implements it (`ImplementsQueue`).
* **Webhooks**: due rows are the sequence `due`, since the query orders by
  time; the length of a backoff is abstracted to *not yet due* and `Elapse`.
  `running`, chosen in `Init`, is the dispatchers of a deployment: each process
  starts one. A secret is the number of the request that drew it.
* **Campaigns**: an uploaded file is a sequence of rows, each of which
  normalises to a phone, to nothing or to a parse error. Start requests and the
  sweep (`Scheduler`) are *runs* that go through the same dispatch. The history
  `owed` of a run is whom it must call by what it has read, kept apart from the
  `targets` and the `sent` it works with.
* **Chat** and **Insights**: messages are counted by role per thread; for the
  summarizer a message is the set of keyword classes it contains. A visitor's
  request carries no conversation id, that of any conversation of the org, or
  one the org does not have; what the widget script remembers is left open.
* **ApiKeys**: a key is its scheme, its lookup prefix and the rest; whole keys
  are drawn fresh and hashed injectively, prefixes may repeat.
* **Ingest**: a delivery carries an event id, a type and a phone (valid, absent
  or invalid). Flow names, types and specs are those the builder tells apart.
  Orgs start without a flow: EnsureForUser's insert of the first one comes at any
  moment, beside requests that found the org, or never.
* **FlowEngine**: `Flows` is a set of graphs; the run enumerates every graph
  the validator accepts over two nodes. The simulator walks beside the session,
  over the same keys.
* **Bus** has the RWMutex (readers, writer), the subscribers' channels and the
  publishers' walk through them; a cancelled subscription may be cancelled again,
  which `sync.Once` absorbs. **RateLimit** has the bucket arithmetic with a
  token scaled to `Cost` units, so that a unit of time refills one.
* **Auth**: hashing is injective, ids and tokens are drawn fresh, expiry is a
  comparison with a bounded clock. A request and the session it opens keep what
  was presented (`given`) and when the code was read (`at`).

`MC*` modules give constants their values, define symmetry sets, state the two
properties that sum over a set (`TopUpsAccountedFor`, `RepliesAreStored`), and
put components that share no state side by side in one run (`MCProcess`: bus and
limiter; `MCCalls`: calls and call records; `MCChat`: chat, insights and API
keys). In these, `part`, chosen in `Init`, says which one the behaviour
exercises. `MCExecution` has the flow engine and the worker pool one after the
other: after the session of one short flow the pool starts. `MCWebhooks` bounds
what a deployment of two dispatchers works on. A definition commented *Mutant*
is a plausible mistake in the definition after it, and `PROJECT.json` says which
property it breaks.

## 3. The runs

Each run is `tlc -config <run>.cfg <module>`.

| Run | Module | Distinct states | Question |
|---|---|---|---|
| billing | MCBilling | 227 k | Do repeated, forged and racing callbacks, failures and crashes credit a payment twice, or one that was not charged? |
| billing_lost_grant | MCBilling | (violation) | Does every paid payment get its credits? |
| provisioning | Provisioning | 161 k | Do racing first requests share one org, seeded once, under the name its owner gave it? |
| calls | MCCalls | 1.4 M | Is a call paid before it is dialled, inside the window, warned of once, never forgotten, stored with its event? Are transcription and retention safe? |
| webhooks | MCWebhooks | 378 k | Is an event drained once, and every delivery resolved, by one dispatcher or by two? |
| campaigns | MCCampaigns | 679 k | Does a campaign call everyone it should, once, and nobody it must not? |
| chat | MCChat | 1.3 M | Does the assistant yield in a thread a human has, and does a message go where it belongs? Is an insight consistent? Does a key open its own door only? |
| chat_takeover | MCChat | (violation) | Does the assistant stay silent towards a channel user whom a human is handling? |
| ingest | MCIngest | 1.6 M | Does an event lead to exactly one call, of the right flow? |
| execution | MCExecution | 123 k | Does every session have an outcome, which the simulator foretells? Is every accepted job run once, through a shutdown? |
| process | MCProcess | 806 k | Are the bus and the limiter right under every lock order? |
| auth | MCAuth | 1.5 M | Is a session earned, a code spent, a logout final? |

The plain safety properties of a module are the named parts of one invariant
(`BillingInv`, `CallsInv`, ...), which is also the candidate for the inductive
invariant of a proof; properties that span several steps or several parts
stand by themselves.

* **billing**, under both deployments (SSLCommerz in production, the mock
  gateway in development). `BillingInv` has `CreditedAtMostOnce`,
  `PaidOnlyIfCharged`, `NeverOverdrawn` and `LedgerExplainsBalance` among its
  parts: they hold with callbacks before, during and after the charge and next
  to concurrent spending. `TopUpsAccountedFor` ties the ledger's top-ups to the
  payments granted. `LostOnlyByFailure` says when a paid payment may stay
  uncredited, only after a failure or when the balance would overflow, and
  justifies the unconditional 200 where nothing failed. `ImplementsContract` is
  the refinement of TopUpContract.
* **billing_lost_grant** shows that SettlePayment's promise does not survive a
  failure between Settle and Grant (section 6).
* **provisioning**: `ProvisioningInv` (`OneOrgPerUser`, `SeededAtMostOnce`, and
  `LedgerLagsOnlyWhileSeeding`, which bounds the window in which a balance is
  ahead of its ledger, `ChosenNameStays`, and what makes them inductive:
  `EachHoldsItsOwn`, `OnlyCreatorGives`) with failures at every statement;
  `EventuallySeeded` without failures.
* **calls**, under both orchestrators: `PaidBeforeDialed` chains deliveries,
  charges, dials and records; `CalledInsideWindow` says that whoever is charged,
  warned or rung is inside the window while the run is `fresh`;
  `EveryCrossingWarned` that there are never more warnings than crossings and as
  many while nothing fails, although charges and top-ups interleave between a
  deduction and its warning; `CallsInv` adds the store's invariant,
  `OutcomeHasEvent`, `SomeHourAllowed`, `NoJobForgotten`, `TestsAreExplained`
  (the charges of test calls, those that panic included) and, under the local
  pool, `RungAtMostOnce`. For the table of calls: `RecordsInv`
  (`TranscriptOfRecording`, `MediaFromOwner`) and `KeptForWindow`.
* **webhooks**, with one dispatcher and with two: `WebhooksInv` (`DrainedOnce`,
  `AttemptsDecideDeath` for rows only one dispatcher had in hand and
  `OverrunIsBounded` for the others, `OnlyPendingIsDue`, `SignedForReceiver`);
  `DuplicatesAreExplained` says a merchant sees an event again only after a
  success that could not be recorded or from a second dispatcher;
  `EventResolves` is the liveness half, from the outbox row to a delivery
  resolved for good, which holds with two dispatchers too.
* **campaigns**: `CampaignsInv` (`CompletedIsDispatched`: whoever the run that
  completed the campaign read as free to call has a job, and `target_count`
  counts them) through failed enqueues, given-up and overlapping runs,
  `DndHonoured`, `CalledOnce` unless runs overlap or fail, and `ScheduledIsRun`,
  which the sweep guarantees through failures.
* **chat**: `ChatInv` (`AssistantYields`, `ThreadsAreNotShared`,
  `VisitorKeepsThread`) and `RepliesAreStored`, which ties what was sent to what
  the threads hold; for insights `InsightsInv`
  (`InsightIsOfOneMoment`, `AskedForPerson`, `AnswerIsFresh`); for keys `KeysInv`
  (`ServedByOwnKey` and `ShownKeyWorks` although prefixes collide and answers
  are lost, `UseIsRecorded`, `WidgetIsComplete`).
* **chat_takeover** shows that a channel user whose thread a human handles gets
  automatic answers in another (section 6).
* **ingest**: `CalledAtMostOnce` and, while nothing fails, `EventIsCalledFor`;
  `IngestInv` (`AcceptedIsCalled`, `SilenceKept`, `RoutedByType`,
  `IvrIsPlayable`, `NamesAreUnique`).
* **execution**, flow engine: `FlowEngineInv` (`SessionHasOutcome`,
  `ResultEndsCall`), `AcyclicSessionEnds`, and `SimAgrees` except at a plain
  prompt. Worker pool: `LocalInv` (`FirstInFirstOut`, `StartedIsRunOnce`),
  `AcceptedIsRun`, `NobodyBlocks`, and `ImplementsQueue`, the refinement of
  JobQueue.
* **process**: `BusInv` (with `NeverPanics`), `FeedIsFaithful` and `NeverStalls`
  for the bus; `RateInv` for the limiter, with `RateHeld` about every window and
  `BurstServed` about a key's first burst.
* **auth**: `SessionIsEarned`, by what each request presented and not only by
  whose row it ended with; `CodeIsSingleUse` unless two requests hold the
  code at once, and `AuthInv` (`OneUserPerIdentity`; `AttemptsBounded`, the cap
  plus the requests in flight; `ConsumedLogsIn`; `LogoutIsFinal`,
  unless the DELETE failed).

### Bounds

Two actors of each racing kind (handlers, workers, publishers, deliveries,
summarizers, builders) are the fewest that interleave, and the properties relate
two of them at a time. One fault places a failure or a crash at every step of
every handler; the properties that a second fault could threaten speak of
`faults > 0` as a whole. Two payments of different orgs, two events and two
campaigns show that operations on one leave the other alone. The numeric
constants are scaled so that each boundary is met: a balance of 0..3 with the
threshold at 1; `MaxBalance = 2` in billing, so that a grant overflows;
`maxAttempts = 2`, so that a row is retried and then dies; `DrainLimit` and
`DueLimit` of 1 against two events, so that a tick leaves some over (two
dispatchers work on one event, with two settings of its endpoint: what they do
to each other they do over a single row); one lookup prefix of each scheme for
two keys, so that every second mint of a kind collides; `ListLimit = 2` for a
list of two customers; a channel of two places for four jobs, so that senders
block; two conversations and one channel user and visitor, so that either may
have a second one and the visitor may carry the id of the other's; a bus buffer
of two for three events, so that one is dropped; an eight-tick clock with an
idle limit of six, so that the sweeper drops a bucket that has been used. A day
has two hours and two zones; an open and a closed hour exist in each.
FlowEngine's graphs have two nodes and one digit, which suffices for cycles,
self-loops, missing nodes and dead ends. Symmetry is used for interchangeable
values only (handlers and codes in auth), never in a run with a liveness
property.

`CHECK_DEADLOCK FALSE` stands where a behaviour really ends: the process exits
(pool), the call ends (flow engine), or the bounded requests, callbacks, events
or clock ticks are used up (billing, campaigns, chat, ingest, process, auth).
The first two are in the run execution.
Provisioning, calls and webhooks go on for ever and are checked for deadlock.

### Fairness

* execution, pool: workers and main's shutdown are weakly fair, since goroutines
  that can run do; a blocked send is strongly fair, for Go queues blocked
  senders first-in first-out. Nothing is assumed of requests or of the signal.
* webhooks: weak fairness of the dispatcher's tick (its ticker fires, an HTTP
  call ends within its timeout) and of time. A crashed process is
  restarted by its supervisor.
* campaigns: weak fairness of the clock and the scheduler's sweep, which is a
  ticker in main; none of users' requests.
* provisioning; execution, flow engine: a request or session that can take a
  step takes it. A caller's silence is a timeout, hence a step too.

## 4. What is proved

Every component but Webhooks has proofs. They are in eight modules, some of
which hold the proofs of several components; check one with `tlapm <module>.tla`.
The results hold for every value of the constants that satisfies the named
assumption of the component's module (`BillingAssumption` etc.); no bound of a
run enters them except as an arbitrary constant.

| Module | Component | Theorems |
|---|---|---|
| BillingFlowProofs | Billing, CreditRepo | BillingInvariant, BillingTypes, CreditsOnce, NoFreeCredits, Solvent, Audited, SettledStays, PaymentsAreNotLost, BillingImplementsContract |
| | FlowEngine | FlowEngineInvariant, SessionsEndWell, SimulationAgrees |
| CallsSteps, CallsProofs | Calls, CreditRepo | CallsInductive, CallsInvariant, NeverRungForFree, WarnedOncePerCrossing, CallsInsideWindow |
| ProvisioningPoolProofs | Provisioning | ProvisioningInvariant, SeededOnce |
| | LocalOrchestrator | LocalInvariant, PoolIsFirstInFirstOut, JobsRunOnce, DrainsAtShutdown, PoolImplementsQueue |
| AuthProofs | Auth | LoginIsSound, LoginInvariant, SessionsAreEarned, CodesAreSingleUse |
| IngestRecordsProofs | Ingest | IntakeIsSound, IntakeInvariant, OneCallPerEvent, EventsAreCalledFor |
| | CallRecords | RecordsAreOwned, RetentionKeepsWindow |
| ChatProofs | Chat | ConversationsAreKept, HumansTakeOver |
| | Insights | VerdictsAreWhole |
| | ApiKeys | KeysOpenTheirDoor |
| BusLimitCampaignsProofs | Bus | BusInvariant, BusNeverPanics, FeedsAreFaithful |
| | RateLimit | RateInvariant, LimiterHoldsRate, BurstIsServed |
| | Campaigns | CompletedInFull, NobodyDisturbed, NobodyCalledTwice |

The arguments:

* **Credit store**: Grant and TryDeduct, by whomever they are called, preserve
  `CreditInv` (typing, `NeverOverdrawn`, `LedgerExplainsBalance`): the balance
  and the sum of the ledger move by the same amount in one step
  (`AddLedgerSum`).
* **Billing**: `CreditedAtMostOnce` is not inductive: a grant is safe because of
  *who* makes it. `GrantIsOwned` adds that between the UPDATE that settles a
  payment and its grant, exactly one request holds the right to credit it;
  `VerdictIsCurrent` that what VerifyIPN learnt of the gateway still holds when
  it is used (a charge is never taken back), and `AbsentIsUnknown` that the
  gateway knows no payment before its row exists. `PaymentsAreNotLost` is the
  other direction, that nothing is forgotten. `LostOnlyByFailure` becomes
  inductive (`NothingForgotten`) with two facts: a callback that names a
  transaction of the gateway names one with an outcome (`GenuineHasOutcome`),
  and calls only ever cost credits (`CallsOnlyCost`), so that what an org has
  taken in never shrinks and a grant that once overflowed always would. The
  refinement maps a handler's Settle and Grant to the contract's Settle and
  Credit and every other step to a stutter, an opening, a top-up or a charge.
* **Flow engine**: `SessionFollowsFlow` ties three things together: the node a
  running session is at, the directive it was given there, and the simulator,
  which was fed the same keys. Each key or timeout moves both by the same lookup.
* **Calls**: the inductive invariant `CallsIInv` is the four properties
  together; none is inductive alone, for the accounts of a job
  (`PaidBeforeDialed`) count the runs that *are about to* charge, dial or
  record, and where a run is depends on `RunsHaveJobs`. Every property is an
  inequality between counters and the number of runs at some point of the
  handler. CallsSteps therefore classifies a step by the one run it moves
  (`StepKinds`) and says how it changes the cardinalities (`CountMoves`, for
  arbitrary finite sets of workers and testers) and the counters
  (`CountersStep`); CallsProofs shows that both change by the same amount, for
  job charges, warnings and test calls, and adds jobs, windows and policies.
  `WindowHasHour` is the arithmetic of `SomeHourAllowed`: a valid window
  contains an hour in every zone.
* **Provisioning**: `SeededAtMostOnce` rests on *who* seeds: `EachHoldsItsOwn`
  says that ids in flight are distinct and that only the request whose INSERT
  won is seeding, and `OnlyCreatorGives` that an org has nothing before that
  request adjusts its balance and, from then on, the grant less what its owner
  has spent. The exception of `LedgerLagsOnlyWhileSeeding` is located by the
  same facts.
* **Worker pool**: *started, then buffered* is always the sequence of accepted
  jobs (`FirstInFirstOut`), jobs are distinct, and workers leave only a closed,
  empty channel (`ExitIsFinal`). When main exits, all workers have left, so the
  buffer is empty and nobody runs a job: all accepted jobs are done. In the
  refinement a send is a Put, a receive a Take, a finished job an End, closing
  the channel a Close, and main's return or the scheduler's panic a Stop; every
  other step is a stutter.
* **Authentication**: `SessionIsEarned` speaks of what a request presented, which
  is several steps old when the session is stored. `RequestIsEarned` therefore says
  of a request after each comparison what that established: before the code is
  consumed, that it is the one sent to the phone and was read in time; from then
  on all of `Proven`. Nothing takes a proof back (`Kept`: a code's row, a consumed
  mark, a stored password and a user stay), and a password is only ever set
  together with its row (`PasswordHasUser`), so no second registration replaces
  the one a session was opened with. A code's attempts and the requests
  between comparing and counting together stay below the cap plus the number of
  handlers (`GuessesReserved`); and while a code is not `shared`, one request
  at most holds it (`SoleHolder`).
* **Ingest**: the delivery whose INSERT stored an event goes on alone
  (`OneCarrier`), hence at most one call. While nothing fails there is always
  such a delivery, under way or done (`EventIsCarried`), hence a call for every
  event that is owed one. An org's first flow may be inserted between any two of
  these steps.
* **Call records**: a transcribe request is about a call of its own org
  (`TranscriberSound`) and media are attached as a pair; a waiting sweep has a
  cutoff the clock has left behind by a window or more (`CutoffIsPast`), so what
  it deletes, however late, is old enough. `KeptForWindow` is an action property.
* **Chat**: of each request (`ReqSound`), one past the lookup has a thread, its
  sender's or for a visitor the one whose id it carried; it is `quiet` only while
  an agent handles that thread and it has not looked; and without a failure a
  request that carried the id of a conversation is in it.
* **Insights**: a verdict is that on a prefix of the conversation
  (`VerdictSince`), which later turns do not change. What a request has drawn,
  and what it is about to read back if it was alone, is one no older than the
  request (`JobSound`).
* **API keys**: a stored row is that of a key that was issued (`RowSound`); rows
  are never replaced, so a request past the lookup has before it, to the end,
  the row of its own key, and a key that was shown stays stored (`ClientSound`).
* **Bus**: a channel is closed only after its subscription was removed under the
  write lock, and a publisher sends only to subscriptions it found under the
  read lock, which it still holds (`LockProtects`, `RegisteredIsOpen`). A second
  cancel finds the `Once` fired and touches neither.
  `FeedsAreFaithful` is proved from it and `FeedInv`: what a subscriber has
  shown and still buffers is of its own org and, publisher by publisher, in
  order, and an event still being published comes after all those of its
  publisher that the subscriber holds.
* **Rate limiter**: `tokens - last` falls by the cost of each admitted request
  and never rises (`BucketPays`), so what was spent since any moment is bounded
  by the burst and the time since; overtaking on the way to the mutex leaves a
  bucket in debt by at most the stall (`DebtIsSmall`); and a bucket the sweeper
  drops had refilled all that was spent (`AbsentIsPaid`). That needs
  `IdleAfter >= Full + 2 * MaxStall`, which the code's ten minutes satisfy for
  every limiter it builds. In the other direction a bucket is short of full by
  no more than was spent and has yet to refill (`NothingWithheld`), so nobody is
  refused before the burst is used.
* **Campaigns**: of each run (`RunSound`), whoever it owes a call is still to be
  upserted, among its targets or sent, and what it counts as sent was enqueued:
  when nothing is left to upsert or enqueue, everyone owed has a job. Its targets
  and what it has sent avoid whoever is barred since it began, and those are still
  do-not-disturb. `CalledOnce` is not inductive: `OneRun` adds
  that, without failures, a campaign outside `again` has one dispatch at most,
  which is at work on a campaign that is not completed and has called only the
  phones it counts as sent, and that nobody was called before there was one.

Only model-checked:

* liveness (`AcceptedIsRun`, `NobodyBlocks`, `EventResolves`, `ScheduledIsRun`,
  `EventuallySeeded`, `AcyclicSessionEnds`) and `NeverStalls`, which is about
  ENABLED: out of the prover's reach;
* `TopUpsAccountedFor` (in MCBilling) and `RepliesAreStored` (in MCChat): they
  sum over a set, and what a fold computes needs an induction the provers cannot
  instantiate;
* Webhooks: its batches are filtered and sorted sequences (`SelectSeq`,
  `SetToSortSeq`), whose values need the same induction.

## 5. Exceptions written into properties

Some properties name the case in which the code does not give what one would
wish, and are checked to hold outside exactly that case. The exceptions are
part of what the runs show:

* `CalledOnce` excepts campaigns in `again`: Start reads the status, dispatches
  every call and only then marks the campaign completed
  (`internal/service/campaigns/campaigns.go:116`), so a second Start or the
  sweep may dispatch it meanwhile. The comment at lines 110-111 says Start is
  idempotent.
* `CodeIsSingleUse` excepts codes in `shared`: VerifyOTP reads and consumes a
  code in two statements (`internal/service/auth/auth.go:65-76`), so requests that
  hold it at once each open a session. `AttemptsBounded` allows each such request
  one guess past the cap.
* `LogoutIsFinal` excepts a logout whose DELETE failed: the handler drops the error,
  clears the cookie and answers that the user is logged out, and the session stays
  good until it expires (`internal/transport/http/auth.go:157`).
* `NamesAreUnique` excepts names in `raced`: Create looks a name up and inserts
  it in two statements (`internal/service/flows/flows.go:60`), and EnsureForUser
  inserts the first flow of a new org without a look at the names
  (`internal/adapter/postgres/orgs.go:47`), when a second request of the owner may
  already have created one called `order_confirm`.
* `DndHonoured` and `SilenceKept` except a flag that is set while the dispatch or the
  delivery is under way: it is read once, and not again before the call is enqueued
  (`internal/service/campaigns/campaigns.go:173`,
  `internal/service/ingest/ingest.go:73`).
* `AnswerIsFresh` and `AskedForPerson` except summaries with another beside
  them: the older history may be saved last (`internal/service/chat/chat.go:145`).
* `SimAgrees` excepts a prompt that gathers nothing and has no result: the
  session completes there, the simulator asks for input
  (`internal/flowengine/simulate.go:47`).
* `RungAtMostOnce` holds under the local pool only: PlaceCall has no memory of
  a job it has already dialled, although its comment
  (`internal/service/calls/calls.go:146-147`) calls it safe under at-least-once
  delivery. `PaidBeforeDialed` says what holds then: one call per delivery.
* `EveryCrossingWarned` speaks of jobs: a test call charges the same balance and
  warns nobody (`internal/service/calls/calls.go:86`).
* `EventResolves` excepts stored URLs no request can be built for, on which
  the dispatcher panics (`internal/service/webhooks/webhooks.go:111`).
* `AttemptsDecideDeath` and `DuplicatesAreExplained` except rows in `shared`:
  DueDeliveries claims nothing, so the dispatchers of two processes read the
  same due rows, post both and decide from the attempts they read
  (`internal/service/webhooks/webhooks.go:84`); a stale verdict can even set a
  delivered row back to pending. `OverrunIsBounded` says how far that goes.
* `SignedForReceiver` allows a secret newer than the URL: a delivery keeps the
  URL of the time it was drained and is signed with the secret of the time it is
  posted (`internal/service/webhooks/webhooks.go:95`).
* `CalledInsideWindow` excepts runs during which the hour or the policy changed:
  the window is checked before the charge and the warning email and not again
  (`internal/service/calls/calls.go:155`).
* `TestsAreExplained` counts test calls that were charged and cut off: a flow
  that is not over after one keypress has no outcome, and the handler panics on
  it (`internal/service/calls/calls.go:108`).
* `AcceptedIsRun` and `ImplementsQueue` except a process that dies of the
  campaign scheduler's send on the closed channel
  (`internal/adapter/orchestrator/local/local.go:48`).
* `EventuallySeeded` and `EventIsCalledFor` hold while nothing fails: seeding
  errors are dropped (`internal/adapter/postgres/orgs.go:58`), and an event
  stored by a delivery that then fails is a duplicate when it is sent again
  (`internal/service/ingest/ingest.go:66`).
* `ThreadsAreNotShared` lets a visitor's request into any conversation of the org
  whose id it carries: `owns` compares the org only
  (`internal/service/chat/chat.go:196`).
* `VisitorKeepsThread` holds while nothing fails: any error in a visitor's own
  thread is retried in a new one (`internal/transport/http/public.go:57`).
* `BurstServed` is about the first burst of a key, not about each one after a rest,
  and allows for one overtaken clock reading, whose negative elapsed
  time takes tokens away (`internal/platform/ratelimit/ratelimit.go:42`).
* `AssistantYields` speaks of a thread a human had when the message came in: a
  takeover during the model call is not seen (`internal/service/chat/chat.go:96`).
  It speaks of the thread and not of the person; a channel user's messages do not
  come into a handled thread at all (section 6).

## 6. Disagreements with the repository's own words

`billing_lost_grant` violates `PaidIsCredited`. SettlePayment commits Settle and
then calls Grant (`internal/service/billing/billing.go:98`); if Grant fails, or
the process dies in between, every repeated callback finds the payment settled
and grants nothing. The comment at lines 80-82 says that it, "the first time it
confirms a successful payment, grants the credits. Safe to call repeatedly".

`chat_takeover` violates `TakeoverIsHonoured`. An inbound channel message goes to
the sender's conversation with `status = 'open'`
(`internal/adapter/postgres/gen/chat.sql.go:50`). After an agent has replied the
status is `handling`, so the user's next message does not find the thread; a new
open one is created, the check in `reply` reads that one, and the assistant
answers. `README.md:20-21` says "agents can take over an AI conversation;
auto-reply is suppressed while a human is handling it", and the comment in
HandleInbound (`internal/service/messaging/messaging.go:93`) expects an inbound
message to reach the handled thread. For widget visitors, whose requests carry the
conversation id, it is as the README says.

## 7. Plan

In order, what this development has still to gain:

1. Compositions: LocalOrchestrator feeding Calls (a shutdown while a call is
   being charged), and Billing with Calls on one balance.
2. Proofs for Webhooks (`DrainedOnce`, `OverrunIsBounded`), whose batches would
   first have to be described without filters and sorts.
3. An abstract specification of the outbox, once per event, that Webhooks
   implements outside the cases of section 5.
