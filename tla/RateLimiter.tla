---------------------------- MODULE RateLimiter ----------------------------
(***************************************************************************)
(* The token bucket of src/ratelimit/rate-limiter.ts: one bucket in Redis, *)
(* that of one client on one route, shared by gateways whose clocks differ.*)
(*                                                                         *)
(* consumeRateLimit reads its own clock and sends it to the script, which  *)
(* Redis runs atomically some time later.  ioredis sends a command again   *)
(* when the connection was lost before its answer (maxRetriesPerRequest    *)
(* null, src/database/redis.ts), so a script may run more than once.       *)
(*                                                                         *)
(* The limit and the window of a call are those of the route its gateway   *)
(* has cached, or the defaults of src/config/env.ts, which may be any      *)
(* positive numbers, so they may change from call to call and back, and    *)
(* are not whole.  Tokens are counted in units of 1/Scale of a token and   *)
(* times in units of 1/Milli of a millisecond, both so fine that limits,   *)
(* windows and what accrues in a unit of time are whole, which finitely    *)
(* many fractions always allow: the rounding of doubles is left out.       *)
(***************************************************************************)
EXTENDS Integers, Sequences, FiniteSets

CONSTANTS
    Calls,      \* calls of consumeRateLimit in flight at the same time
    Policies,   \* the limits and windowMs calls may be given, in units
    Scale,      \* units of a token
    Milli,      \* units of a millisecond
    Skews,      \* by how much the gateways' clocks are ahead of Redis's
    MaxDelay,   \* bound: from a call's reading its clock to its answer
    MaxTime,    \* bound: Redis's clock
    MaxRuns,    \* bound: runs of the script in one behaviour
    None        \* no bucket, no call, no expiry

ASSUME RateLimiterAssumption ==
    /\ Policies \subseteq [limit : Nat \ {0}, window : Nat \ {0}]
    /\ Scale \in Nat \ {0} /\ Milli \in Nat \ {0}
    /\ \A p \in Policies : p.limit % p.window = 0
    /\ Skews \subseteq Int
    /\ \E slow, fast \in Skews : \A skew \in Skews : slow <= skew /\ skew <= fast
    /\ MaxDelay \in Nat /\ MaxTime \in Nat /\ MaxRuns \in Nat
    /\ None \notin Nat
    /\ None \notin [tokens : Nat, timestamp : Int, expires : Nat \union {None}]
    /\ None \notin [policy : Policies, now : Int, at : Nat]

VARIABLES
    clock,    \* Redis's clock
    bucket,   \* the hash at the key, and the time it expires, if it does
    calls,    \* the arguments each call in flight was sent with, and when
    runs      \* history: every run of the script, when, and whether it took
              \* a token

vars == <<clock, bucket, calls, runs>>

Init ==
    /\ clock = 0
    /\ bucket = None
    /\ calls = [c \in Calls |-> None]
    /\ runs = <<>>

-----------------------------------------------------------------------------
(* The script.                                                             *)

(* A key is gone once its expiry has passed.                               *)
Live == bucket # None /\ (bucket.expires = None \/ clock <= bucket.expires)

(* What HMGET finds, or a full bucket.                                     *)
Found(call) ==
    IF Live
    THEN [tokens |-> bucket.tokens, timestamp |-> bucket.timestamp]
    ELSE [tokens |-> call.policy.limit, timestamp |-> call.now]

Capped(tokens, policy) ==
    IF tokens > policy.limit THEN policy.limit ELSE tokens

(* What accrues in a time, at max_tokens / window.                          *)
Accrued(time, policy) == time * (policy.limit \div policy.window)

(* Mutant: a call from a clock behind the bucket's rewinds it.              *)
RewindingRefill(b, call) ==
    [tokens |-> IF call.now > b.timestamp
                THEN Capped(b.tokens + Accrued(call.now - b.timestamp, call.policy),
                            call.policy)
                ELSE b.tokens,
     timestamp |-> call.now]

(* Mutant: math.min is forgotten.                                           *)
UncappedRefill(b, call) ==
    IF call.now > b.timestamp
    THEN [tokens |-> b.tokens + Accrued(call.now - b.timestamp, call.policy),
          timestamp |-> call.now]
    ELSE b

(* Tokens accrue with the time since the timestamp, which never goes back. *)
Refilled(b, call) ==
    IF call.now > b.timestamp
    THEN [tokens |-> Capped(b.tokens + Accrued(call.now - b.timestamp, call.policy),
                            call.policy),
          timestamp |-> call.now]
    ELSE b

(* Mutant: the last token is kept.                                          *)
MoreThanOne(tokens) == tokens > Scale

Enough(tokens) == tokens >= Scale

(* Mutant: PEXPIRE is forgotten; the key outlives the bounds of any run.    *)
NoExpiry(window) == clock + window + MaxTime

(* PEXPIRE wants a whole number of milliseconds.                           *)
Expirable(window) == window % Milli = 0

(* ... and raises an error otherwise: what HMSET did stays done, and so    *)
(* does the expiry the key had, if there was a key.                        *)
Expiry(window) ==
    IF Expirable(window) THEN clock + window
    ELSE IF Live THEN bucket.expires ELSE None

(* The script runs with the arguments of a call.                           *)
Consume(call) ==
    LET b == Refilled(Found(call), call)
        allowed == Enough(b.tokens)
    IN  /\ bucket' = [tokens |-> IF allowed THEN b.tokens - Scale ELSE b.tokens,
                      timestamp |-> b.timestamp,
                      expires |-> Expiry(call.policy.window)]
        /\ runs' = Append(runs, [at |-> clock, policy |-> call.policy,
                                 allowed |-> allowed])
-----------------------------------------------------------------------------
(* consumeRateLimit up to its await, on a gateway whose cached route has   *)
(* some limit and window and whose clock is off by some skew.              *)
Send(c) ==
    /\ calls[c] = None
    /\ \E policy \in Policies, skew \in Skews :
          calls' = [calls EXCEPT ![c] =
                       [policy |-> policy, now |-> clock + skew, at |-> clock]]
    /\ UNCHANGED <<clock, bucket, runs>>

(* The script runs and its answer, or error, arrives ...                   *)
Decide(c) ==
    /\ calls[c] # None /\ Len(runs) < MaxRuns
    /\ Consume(calls[c])
    /\ calls' = [calls EXCEPT ![c] = None]
    /\ UNCHANGED clock

(* ... or its answer is lost with the connection: it will be run again.    *)
DecideUnheard(c) ==
    /\ calls[c] # None /\ Len(runs) < MaxRuns
    /\ Consume(calls[c])
    /\ UNCHANGED <<clock, calls>>

Tick ==
    /\ clock + Milli <= MaxTime
    /\ \A c \in Calls : calls[c] # None => clock + Milli <= calls[c].at + MaxDelay
    /\ clock' = clock + Milli
    /\ UNCHANGED <<bucket, calls, runs>>

Next ==
    \/ Tick
    \/ \E c \in Calls : Send(c) \/ Decide(c) \/ DecideUnheard(c)

Spec == Init /\ [][Next]_vars
-----------------------------------------------------------------------------
(* Properties.                                                             *)

Largest(S) == CHOOSE x \in S : \A y \in S : y <= x
Smallest(S) == CHOOSE x \in S : \A y \in S : x <= y

(* By how much the times two calls carry may be out of order: the spread   *)
(* of the clocks and the delay of a call.                                  *)
Drift == Largest(Skews) - Smallest(Skews) + MaxDelay

(* The limits and windows the first n runs were given.                     *)
LimitsOf(n) == {runs[k].policy.limit : k \in 1..n}
WindowsOf(n) == {runs[k].policy.window : k \in 1..n}

(* Those of the runs `these` that took a token, and those of them that     *)
(* told their caller so: a run that ends in PEXPIRE's error admits nobody. *)
Spent(these) == {i \in these : runs[i].allowed}
Answered(run) == Expirable(run.policy.window)
Granted(these) == {i \in Spent(these) : Answered(runs[i])}

(* Type invariant; the bucket never holds more than the largest limit.     *)
TypeOK ==
    /\ clock \in 0..MaxTime
    /\ bucket \in [tokens : Nat, timestamp : Int, expires : Nat \union {None}]
                     \union {None}
    /\ bucket # None => \E p \in Policies : bucket.tokens <= p.limit
    /\ calls \in [Calls -> [policy : Policies, now : Int, at : 0..MaxTime] \union {None}]
    /\ runs \in Seq([at : 0..MaxTime, policy : Policies, allowed : BOOLEAN])

(* The limit is enforced by all gateways together: between any two moments *)
(* the bucket grants no more than a full one and what accrues meanwhile,   *)
(* at the largest limit per shortest window in use, where clocks that      *)
(* drift apart add what accrues in the drift, once, and again each time    *)
(* the key may have expired and forgotten its timestamp.                   *)
GrantsBounded ==
    \A i, j \in DOMAIN runs : i <= j =>
        LET elapsed == runs[j].at - runs[i].at
            window == Smallest(WindowsOf(j)) IN
        window * (Scale * Cardinality(Granted(i..j)))
            <= Largest(LimitsOf(j)) *
                   (window + elapsed + Drift * (1 + elapsed \div window))

(* No client is refused that stays below the limit: a refusal means that   *)
(* one more token than went within a window and the drift before it would  *)
(* be more than the limit.                                                 *)
RefusalsJustified ==
    \A i \in DOMAIN runs : ~runs[i].allowed =>
        LET since == Largest(WindowsOf(i)) + Drift
            spent == Spent({k \in 1..i : runs[i].at - runs[k].at < since}) IN
        Smallest(LimitsOf(i)) < Scale * (Cardinality(spent) + 1)

(* `retry-after` and `x-ratelimit-reset` (README.md) can be relied upon: a *)
(* client that is silent for longer than the window it was told of is      *)
(* given a token, by whichever gateway, however its clock differs from the *)
(* last one's and whatever limit and window it has come to use, unless the *)
(* limit is less than one: no wait helps against such a limit, which       *)
(* src/config/env.ts lets through.                                         *)
RetryAfterHonoured ==
    \A i \in DOMAIN runs :
        /\ i > 1 /\ Answered(runs[i - 1])
        /\ runs[i].at - runs[i - 1].at > runs[i - 1].policy.window
        => runs[i].allowed \/ runs[i].policy.limit < Scale

(* The policy, if there is one only.                                       *)
Policy == CHOOSE p \in Policies : TRUE

(* What the bucket has come to hold by now.                                *)
Level ==
    IF bucket = None THEN Policy.limit
    ELSE Capped(bucket.tokens
                    + Accrued(clock + Smallest(Skews) - bucket.timestamp, Policy),
                Policy)

Taken == [i \in DOMAIN runs |-> IF runs[i].allowed THEN Scale ELSE 0]

(* With clocks that agree, no delays and one policy the script decides as  *)
(* a bucket would that is refilled all the time: that tokens are counted   *)
(* only when a request comes, and that the key expires, makes no           *)
(* difference to anyone.                                                   *)
Ideal == INSTANCE IdealBucket WITH
    Capacity <- Policy.limit, Rate <- Accrued(Milli, Policy), Step <- Milli,
    Token <- Scale, time <- clock, level <- Level, taken <- Taken

ImplementsIdealBucket == Ideal!Spec
=============================================================================
