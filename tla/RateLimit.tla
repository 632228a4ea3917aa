------------------------------- MODULE RateLimit -------------------------------
(***************************************************************************)
(* The in-process token-bucket limiter (internal/platform/ratelimit).      *)
(* allow reads the clock before it takes the mutex, so requests may reach  *)
(* a bucket in another order than their clock readings; the sweeper drops  *)
(* buckets nobody has used for a while.                                    *)
(*                                                                         *)
(* Tokens are counted in clock ticks: one tick refills one unit, a request *)
(* costs Cost units (60 / perMinute seconds in the code).  The rounding of *)
(* float64 is left out.                                                    *)
(***************************************************************************)
EXTENDS Integers

CONSTANTS
    Clients,    \* client IPs
    Handlers,   \* concurrent requests
    Cost,       \* ticks it takes to refill one token
    Burst,      \* tokens of a full bucket
    IdleAfter,  \* 10 minutes in the code
    MaxStall,   \* bound: ticks between time.Now and the mutex
    MaxTime,    \* bound: the clock
    NoClient

Full == Burst * Cost
Times == 0..MaxTime

(* An idle bucket is full again before the sweeper may drop it; with       *)
(* 10 requests a minute and a burst of 5 that takes half a minute.         *)
ASSUME RateLimitAssumption ==
    /\ Cost \in Nat \ {0} /\ Burst \in Nat \ {0} /\ Full \in Nat /\ Full >= Cost
    /\ IdleAfter \in Nat /\ MaxStall \in Nat /\ MaxTime \in Nat
    /\ IdleAfter >= Full + 2 * MaxStall
    /\ NoClient \notin Clients

VARIABLES
    now,
    bucket,   \* bucket[k]: tokens and last; present is FALSE if the map lacks k
    req,      \* a request between time.Now and the mutex: its client and reading
    sweeper,  \* the sweeper between time.Now and the mutex: its cutoff
    spent,    \* history: units spent by k with readings in a..b
    hasty     \* history: clients refused before they had spent a burst

rateVars == <<now, bucket, req, sweeper, spent, hasty>>

NoBucket == [present |-> FALSE, tokens |-> 0, last |-> 0]
NoRequest == [key |-> NoClient, now |-> 0]
NoSweep == [busy |-> FALSE, cutoff |-> 0]

Bucket == [present : BOOLEAN, tokens : {n \in Int : n <= Full}, last : Times]
Request == [key : Clients \cup {NoClient}, now : Times]
Sweeper == [busy : BOOLEAN, cutoff : Int]

RateLimitTypeOK ==
    /\ now \in Times
    /\ bucket \in [Clients -> Bucket]
    /\ req \in [Handlers -> Request]
    /\ sweeper \in Sweeper
    /\ spent \in [Clients -> [Times \X Times -> Nat]]
    /\ hasty \in SUBSET Clients

RateInit ==
    /\ now = 0
    /\ bucket = [k \in Clients |-> NoBucket]
    /\ req = [h \in Handlers |-> NoRequest]
    /\ sweeper = NoSweep
    /\ spent = [k \in Clients |-> [w \in Times \X Times |-> 0]]
    /\ hasty = {}

-------------------------------------------------------------------------------
Pending(h) == req[h].key # NoClient

(* A request is not held up for more than MaxStall ticks before the mutex. *)
Tick ==
    /\ now < MaxTime
    /\ \A h \in Handlers : Pending(h) => now < req[h].now + MaxStall
    /\ now' = now + 1
    /\ UNCHANGED <<bucket, req, sweeper, spent, hasty>>

ReadClock(h, k) ==
    /\ ~Pending(h)
    /\ req' = [req EXCEPT ![h] = [key |-> k, now |-> now]]
    /\ UNCHANGED <<now, bucket, sweeper, spent, hasty>>

(* The tokens of bucket b for a request whose reading is t.                *)
Refill(b, t) ==
    IF ~b.present THEN Full
    ELSE IF b.tokens + (t - b.last) > Full THEN Full
    ELSE b.tokens + (t - b.last)

Spend(k, t) ==
    spent' = [spent EXCEPT ![k] =
                 [w \in Times \X Times |->
                     IF w[1] <= t /\ t <= w[2] THEN @[w] + Cost ELSE @[w]]]

Allow(h, k) ==
    /\ req[h].key = k
    /\ LET t == req[h].now
           tokens == Refill(bucket[k], t)
       IN  \/ /\ tokens < Cost
              /\ bucket' = [bucket EXCEPT ![k] =
                               [present |-> TRUE, tokens |-> tokens, last |-> t]]
              /\ hasty' = IF spent[k][<<0, MaxTime>>] + Cost + MaxStall <= Full
                           THEN hasty \cup {k} ELSE hasty
              /\ UNCHANGED spent
           \/ /\ tokens >= Cost
              /\ bucket' = [bucket EXCEPT ![k] =
                               [present |-> TRUE, tokens |-> tokens - Cost, last |-> t]]
              /\ Spend(k, t)
              /\ UNCHANGED hasty
    /\ req' = [req EXCEPT ![h] = NoRequest]
    /\ UNCHANGED <<now, sweeper>>

-------------------------------------------------------------------------------
SweepReads ==
    /\ ~sweeper.busy
    /\ sweeper' = [busy |-> TRUE, cutoff |-> now - IdleAfter]
    /\ UNCHANGED <<now, bucket, req, spent, hasty>>

\* Mutant: drops the buckets that are in use.
Fresh(b, cutoff) == b.present /\ b.last >= cutoff

Stale(b, cutoff) == b.present /\ b.last < cutoff

Sweep ==
    /\ sweeper.busy
    /\ bucket' = [k \in Clients |->
                     IF Stale(bucket[k], sweeper.cutoff) THEN NoBucket ELSE bucket[k]]
    /\ sweeper' = NoSweep
    /\ UNCHANGED <<now, req, spent, hasty>>

RateNext ==
    \/ Tick
    \/ \E h \in Handlers, k \in Clients : ReadClock(h, k)
    \/ \E h \in Handlers, k \in Clients : Allow(h, k)
    \/ SweepReads
    \/ Sweep

RateSpec == RateInit /\ [][RateNext]_rateVars

-------------------------------------------------------------------------------
(* The limit: in every window of clock readings a client is let through at *)
(* most burst times plus what the window refills, although requests may    *)
(* overtake one another on the way to the mutex and the sweeper replaces   *)
(* a used bucket by a full one.                                            *)
RateHeld ==
    \A k \in Clients : \A a, b \in Times :
        a <= b => spent[k][<<a, b>>] <= Full + (b - a)

(* The parts of the invariant behind it.  A clock reading is at most       *)
(* MaxStall old, and a cutoff at least IdleAfter.                          *)
ReadingsAreRecent ==
    /\ \A h \in Handlers : Pending(h) => req[h].now <= now /\ now <= req[h].now + MaxStall
    /\ sweeper.busy => sweeper.cutoff <= now - IdleAfter

(* What was spent since a, whatever the window's end.                      *)
Since(k, a) == spent[k][<<a, MaxTime>>]

WindowsNest ==
    \A k \in Clients : \A a, b \in Times : spent[k][<<a, b>>] <= Since(k, a)

(* Overtaking takes a bucket below zero by no more than the stall.         *)
DebtIsSmall ==
    \A k \in Clients : bucket[k].present =>
        /\ bucket[k].last <= now
        /\ bucket[k].last - bucket[k].tokens <= now
        /\ bucket[k].tokens >= -MaxStall

(* tokens - last falls by Cost with every request let through, and never   *)
(* rises.                                                                  *)
BucketPays ==
    \A k \in Clients : bucket[k].present =>
        \A a \in Times : Since(k, a) > 0 =>
            Since(k, a) + bucket[k].tokens - bucket[k].last <= Full - a

(* A client without a bucket has been refilled for all it spent.           *)
AbsentIsPaid ==
    \A k \in Clients : ~bucket[k].present =>
        \A a \in Times : Since(k, a) > 0 => Since(k, a) + a <= now - MaxStall

(* A bucket is short of full by no more than the client has spent and the  *)
(* time that is still to come.                                             *)
NothingWithheld ==
    \A k \in Clients : bucket[k].present =>
        Since(k, 0) + bucket[k].tokens - bucket[k].last >= Full - now

(* The comment on New: a limiter allows burst requests immediately.  No    *)
(* client is refused before it has been let through burst times, short     *)
(* only of what one overtaken clock reading can cost it.                   *)
BurstServed == hasty = {}

(* The limiter keeps to its rate, and nobody is refused too early: the     *)
(* inductive invariant.                                                    *)
RateInv ==
    /\ RateLimitTypeOK
    /\ ReadingsAreRecent
    /\ WindowsNest
    /\ DebtIsSmall
    /\ BucketPays
    /\ AbsentIsPaid
    /\ NothingWithheld
    /\ RateHeld
    /\ BurstServed
===============================================================================
