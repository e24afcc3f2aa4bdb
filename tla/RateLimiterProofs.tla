-------------------------- MODULE RateLimiterProofs --------------------------
(***************************************************************************)
(* Proofs about RateLimiter, for any policies, any clocks that differ by a *)
(* bounded amount and any number of runs.  The inductive invariant is      *)
(* IInv.  Its core are two potentials, kept at every run of the script:    *)
(* what the bucket has granted and holds never exceeds a full bucket and   *)
(* what accrued (NeverTooMany), and never falls short of what accrued or a *)
(* full bucket (NeverTooFew).  The bucket's timestamp stands for the time  *)
(* that has been accounted for; it follows Redis's clock within the drift. *)
(***************************************************************************)
EXTENDS RateLimiter, SequenceTheorems, FiniteSetTheorems, TLAPS

Slowest == Smallest(Skews)
Fastest == Largest(Skews)
Last == runs[Len(runs)]

(* The time a call carries is off by its gateway's skew, and at most       *)
(* MaxDelay old.                                                           *)
CallsSound ==
    \A c \in Calls : calls[c] # None =>
        /\ calls[c].at <= clock /\ clock <= calls[c].at + MaxDelay
        /\ calls[c].at + Slowest <= calls[c].now /\ calls[c].now <= calls[c].at + Fastest

RunsOrdered ==
    /\ \A k \in DOMAIN runs : runs[k].at <= clock
    /\ \A k, l \in DOMAIN runs : k <= l => runs[k].at <= runs[l].at

(* The bucket is as the last run left it.                                  *)
BucketSound ==
    /\ bucket = None <=> Len(runs) = 0
    /\ bucket # None =>
          /\ Answered(Last) => bucket.expires = Last.at + Last.policy.window
          /\ bucket.expires # None => \E k \in DOMAIN runs : Answered(runs[k])
          /\ Last.at + Slowest - MaxDelay <= bucket.timestamp
          /\ bucket.timestamp <= Last.at + Fastest
          /\ \E k \in DOMAIN runs : bucket.tokens <= runs[k].policy.limit
          /\ ~Last.allowed => bucket.tokens < Scale

(* The largest and the smallest limit and window so far exist.             *)
Bounds(S) == \E lo, hi \in S : \A x \in S : lo <= x /\ x <= hi

Extremal == \A n \in DOMAIN runs : Bounds(LimitsOf(n)) /\ Bounds(WindowsOf(n))

(* However many times the key expired since the i-th run, each time no     *)
(* sooner than a window later, the grants since are paid for by a full     *)
(* bucket, the time accounted for, and a drift for each expiry.  A run     *)
(* that ends in PEXPIRE's error puts the expiry off no further, but grants *)
(* nothing either: the grants are paid for by the time the key expires,    *)
(* which is a window later again if there are any.                         *)
Used(i) == Scale * Cardinality(Granted(i..Len(runs)))

Afforded(i, window, expiries) ==
    window + (bucket.timestamp + MaxDelay - Slowest - runs[i].at) + Drift * expiries

Paid(i, limit, window, expiries) ==
    /\ expiries * window <= Last.at - runs[i].at
    /\ window * (Used(i) + bucket.tokens) <= limit * Afforded(i, window, expiries)

PaidInTime(i, limit, window, expiries) ==
    bucket.expires # None =>
        /\ Used(i) = 0 \/ (expiries + 1) * window <= bucket.expires - runs[i].at
        /\ window * Used(i)
              <= limit * (bucket.expires - runs[i].at + Drift * (expiries + 1))

NeverTooMany ==
    bucket # None =>
        \A i \in DOMAIN runs, limit, window \in Nat :
            (\A k \in DOMAIN runs : /\ runs[k].policy.limit <= limit
                                    /\ window <= runs[k].policy.window) =>
            \E expiries \in Nat :
                /\ Paid(i, limit, window, expiries)
                /\ PaidInTime(i, limit, window, expiries)

(* The tokens taken after a time and what is left make up for what accrued *)
(* since then, or for a full bucket.                                       *)
After(time) == {k \in DOMAIN runs : time < runs[k].at}
UsedAfter(time) == Scale * Cardinality(Spent(After(time)))

NeverTooFew ==
    bucket # None =>
        \A time \in Int, limit, window \in Nat :
            (\A k \in DOMAIN runs : /\ limit <= runs[k].policy.limit
                                    /\ runs[k].policy.window <= window) =>
            \/ limit * window
                   <= window * (bucket.tokens + UsedAfter(time))
            \/ limit * (bucket.timestamp - time - Fastest)
                   <= window * (bucket.tokens + UsedAfter(time))

IInv ==
    /\ TypeOK /\ CallsSound /\ RunsOrdered /\ BucketSound /\ Extremal
    /\ NeverTooMany /\ NeverTooFew
-----------------------------------------------------------------------------
(* Arithmetic.                                                             *)
LEMMA TimesMonotone ==
    \A a, b \in Int, c \in Nat : a <= b => c * a <= c * b /\ a * c <= b * c
OBVIOUS

LEMMA Distributes ==
    \A a, b, c \in Nat : /\ a * b \in Nat /\ a * c \in Nat
                         /\ a * (b + c) = a * b + a * c
OBVIOUS

(* The tokens per time of a policy, which the units make exact.            *)
LEMMA Rate ==
    ASSUME NEW p \in Policies
    PROVE  /\ p.limit \in Nat \ {0} /\ p.window \in Nat \ {0}
           /\ p.limit \div p.window \in Nat
           /\ (p.limit \div p.window) * p.window = p.limit
<1>1. p.limit \in Nat \ {0} /\ p.window \in Nat \ {0} /\ p.limit % p.window = 0
  BY RateLimiterAssumption
<1>. QED
  BY <1>1

(* What accrues is at most the rate of a larger limit per shorter window,  *)
(* and at least that of a smaller limit per longer window.                 *)
LEMMA AccruedBounds ==
    ASSUME NEW p \in Policies, NEW time \in Nat, NEW limit \in Nat, NEW window \in Nat
    PROVE  /\ Accrued(time, p) \in Nat
           /\ p.limit <= limit /\ window <= p.window =>
                 window * Accrued(time, p) <= limit * time
           /\ limit <= p.limit /\ p.window <= window =>
                 limit * time <= window * Accrued(time, p)
<1>1. PICK rate \in Nat : rate = p.limit \div p.window
  BY Rate
<1>2. /\ p.limit \in Nat /\ p.window \in Nat /\ rate * p.window = p.limit
      /\ Accrued(time, p) = time * rate
  BY <1>1, Rate DEF Accrued
<1>3. Accrued(time, p) \in Nat
  BY <1>2
<1>4. window * Accrued(time, p) = (rate * window) * time
  BY <1>2
<1>5. ASSUME p.limit <= limit, window <= p.window
      PROVE  window * Accrued(time, p) <= limit * time
  <2>1. rate * window <= p.limit /\ rate * window \in Nat
    BY <1>2, <1>5, TimesMonotone
  <2>2. rate * window <= limit
    BY <1>2, <1>5, <2>1
  <2>. QED
    BY <1>4, <2>1, <2>2, TimesMonotone
<1>6. ASSUME limit <= p.limit, p.window <= window
      PROVE  limit * time <= window * Accrued(time, p)
  <2>1. p.limit <= rate * window /\ rate * window \in Nat
    BY <1>2, <1>6, TimesMonotone
  <2>2. limit <= rate * window
    BY <1>2, <1>6, <2>1
  <2>. QED
    BY <1>4, <2>1, <2>2, TimesMonotone
<1>. QED
  BY <1>3, <1>5, <1>6

(* Both smallest and largest are what they say, where they exist.          *)
LEMMA Extremes ==
    ASSUME NEW S \in SUBSET Int, Bounds(S)
    PROVE  /\ Smallest(S) \in S /\ Largest(S) \in S
           /\ \A x \in S : Smallest(S) <= x /\ x <= Largest(S)
BY DEF Bounds, Smallest, Largest

LEMMA DriftType ==
    /\ Slowest \in Int /\ Fastest \in Int /\ Slowest <= Fastest
    /\ \A skew \in Skews : Slowest <= skew /\ skew <= Fastest
    /\ Drift = Fastest - Slowest + MaxDelay /\ Drift \in Nat
<1>1. /\ Slowest \in Skews /\ Fastest \in Skews
      /\ \A skew \in Skews : Slowest <= skew /\ skew <= Fastest
  BY RateLimiterAssumption, Extremes DEF Bounds, Slowest, Fastest
<1>2. Slowest \in Int /\ Fastest \in Int /\ MaxDelay \in Nat /\ Slowest <= Fastest
  BY <1>1, RateLimiterAssumption
<1>3. Drift = Fastest - Slowest + MaxDelay
  BY DEF Drift, Slowest, Fastest
<1>. QED
  BY <1>1, <1>2, <1>3
-----------------------------------------------------------------------------
LEMMA RunsType ==
    ASSUME TypeOK
    PROVE  /\ Len(runs) \in Nat /\ DOMAIN runs = 1..Len(runs)
           /\ \A k \in 1..Len(runs) :
                 /\ runs[k] \in [at : 0..MaxTime, policy : Policies, allowed : BOOLEAN]
                 /\ runs[k].at \in Nat /\ runs[k].policy \in Policies
                 /\ runs[k].policy.limit \in Nat \ {0}
                 /\ runs[k].policy.window \in Nat \ {0}
<1>1. runs \in Seq([at : 0..MaxTime, policy : Policies, allowed : BOOLEAN])
  BY DEF TypeOK
<1>2. \A k \in 1..Len(runs) :
          runs[k] \in [at : 0..MaxTime, policy : Policies, allowed : BOOLEAN]
  BY <1>1, ElementOfSeq
<1>3. Len(runs) \in Nat /\ DOMAIN runs = 1..Len(runs)
  BY <1>1, LenProperties
<1>4. MaxTime \in Nat
  BY RateLimiterAssumption
<1>5. \A k \in 1..Len(runs) :
          /\ runs[k].at \in Nat /\ runs[k].policy \in Policies
          /\ runs[k].policy.limit \in Nat \ {0}
          /\ runs[k].policy.window \in Nat \ {0}
  BY <1>2, <1>4, Rate
<1>. QED
  BY <1>2, <1>3, <1>5

LEMMA RunsCounted ==
    ASSUME IInv
    PROVE  \E n \in Nat : n = Len(runs) /\ DOMAIN runs = 1..n
<1>1. Len(runs) \in Nat /\ DOMAIN runs = 1..Len(runs)
  BY RunsType DEF IInv
<1>. QED
  BY <1>1, Zenon

LEMMA CallType ==
    ASSUME TypeOK, NEW c \in Calls, calls[c] # None
    PROVE  calls[c] \in [policy : Policies, now : Int, at : 0..MaxTime]
BY DEF TypeOK

LEMMA BucketType ==
    ASSUME TypeOK, bucket # None
    PROVE  bucket \in [tokens : Nat, timestamp : Int, expires : Nat \union {None}]
BY DEF TypeOK

LEMMA InitIInv == Init => IInv
<1>. SUFFICES ASSUME Init PROVE IInv
  OBVIOUS
<1>1. /\ runs \in Seq([at : 0..MaxTime, policy : Policies, allowed : BOOLEAN])
      /\ Len(runs) = 0 /\ DOMAIN runs = {}
  <2>1. runs = <<>>
    BY DEF Init
  <2>. QED
    BY <2>1, EmptySeq
<1>2. TypeOK
  BY <1>1, RateLimiterAssumption DEF Init, TypeOK
<1>3. CallsSound
  BY DEF Init, CallsSound
<1>4. RunsOrdered /\ BucketSound /\ Extremal
  BY <1>1 DEF Init, RunsOrdered, BucketSound, Extremal
<1>5. NeverTooMany /\ NeverTooFew
  BY DEF Init, NeverTooMany, NeverTooFew
<1>. QED
  BY <1>2, <1>3, <1>4, <1>5 DEF IInv

(* What is said of the runs and the bucket stays while they stay.          *)
LEMMA RunsUnchanged ==
    ASSUME IInv, UNCHANGED <<bucket, runs>>
    PROVE  BucketSound' /\ Extremal' /\ NeverTooMany' /\ NeverTooFew'
<1>. USE DEF IInv
<1>1. BucketSound' /\ Extremal'
  <2>1. BucketSound'
    BY DEF BucketSound, Last, Answered
  <2>2. \A n : LimitsOf(n)' = LimitsOf(n) /\ WindowsOf(n)' = WindowsOf(n)
    BY DEF LimitsOf, WindowsOf
  <2>3. Extremal'
    BY <2>2 DEF Extremal, Bounds
  <2>. QED
    BY <2>1, <2>3
<1>2. bucket' = bucket /\ runs' = runs
  OBVIOUS
<1>3. /\ \A i : Used(i)' = Used(i)
      /\ \A i, limit, window, expiries :
             /\ Paid(i, limit, window, expiries)' = Paid(i, limit, window, expiries)
             /\ PaidInTime(i, limit, window, expiries)'
                   = PaidInTime(i, limit, window, expiries)
  BY <1>2 DEF Used, Afforded, Granted, Spent, Answered, Paid, PaidInTime, Last
<1>4. NeverTooMany'
  BY <1>2, <1>3, Zenon DEF NeverTooMany
<1>5. NeverTooFew'
  BY <1>2, Zenon DEF NeverTooFew, After, UsedAfter, Spent
<1>. QED
  BY <1>1, <1>4, <1>5

LEMMA TickIInv == IInv /\ Tick => IInv'
<1>. SUFFICES ASSUME IInv, Tick PROVE IInv'
  OBVIOUS
<1>. USE DEF IInv
<1>1. /\ clock' = clock + Milli /\ clock' <= MaxTime /\ clock' \in Nat
      /\ clock \in Nat /\ Milli \in Nat
      /\ UNCHANGED <<bucket, calls, runs>>
  BY RateLimiterAssumption DEF Tick, TypeOK
<1>2. TypeOK'
  BY <1>1, RateLimiterAssumption DEF TypeOK
<1>3. CallsSound'
  <2>1. \A c \in Calls : calls[c] # None =>
            clock + Milli <= calls[c].at + MaxDelay /\ calls[c].at \in Nat
    BY CallType, RateLimiterAssumption DEF Tick
  <2>. QED
    BY <1>1, <2>1, RateLimiterAssumption DEF CallsSound
<1>4. RunsOrdered'
  BY <1>1, RunsType DEF RunsOrdered
<1>. QED
  BY <1>1, <1>2, <1>3, <1>4, RunsUnchanged

LEMMA SendIInv ==
    ASSUME IInv, NEW c \in Calls, Send(c)
    PROVE  IInv'
<1>. USE DEF IInv
<1>1. PICK policy \in Policies, skew \in Skews :
          calls' = [calls EXCEPT ![c] =
                       [policy |-> policy, now |-> clock + skew, at |-> clock]]
  BY DEF Send
<1>2. UNCHANGED <<clock, bucket, runs>>
  BY DEF Send
<1>3. PICK call : call = [policy |-> policy, now |-> clock + skew, at |-> clock]
  OBVIOUS
<1>4. /\ call \in [policy : Policies, now : Int, at : 0..MaxTime]
      /\ call.at = clock /\ call.now = clock + skew /\ clock \in Nat /\ skew \in Int
  BY <1>3, RateLimiterAssumption DEF TypeOK
<1>5. TypeOK'
  BY <1>1, <1>2, <1>3, <1>4 DEF TypeOK
<1>6. CallsSound'
  <2>1. \A d \in Calls : calls'[d] = IF d = c THEN call ELSE calls[d]
    BY <1>1, <1>3 DEF TypeOK
  <2>2. /\ call.at <= clock /\ clock <= call.at + MaxDelay
        /\ call.at + Slowest <= call.now /\ call.now <= call.at + Fastest
    BY <1>4, DriftType, RateLimiterAssumption
  <2>. QED
    BY <1>2, <2>1, <2>2 DEF CallsSound
<1>7. RunsOrdered'
  BY <1>2 DEF RunsOrdered
<1>. QED
  BY <1>2, <1>5, <1>6, <1>7, RunsUnchanged
-----------------------------------------------------------------------------
(* A run of the script, for a policy, that finds the bucket refilled to    *)
(* `tokens` and accounted for up to `timestamp`.                           *)
Refill(p, tokens, timestamp) ==
    /\ clock + Slowest - MaxDelay <= timestamp /\ timestamp <= clock + Fastest
    /\ \/ ~Live /\ tokens = p.limit
       \/ Live /\ timestamp = bucket.timestamp /\ tokens = bucket.tokens
       \/ /\ Live /\ bucket.timestamp < timestamp
          /\ LET full == bucket.tokens + Accrued(timestamp - bucket.timestamp, p) IN
             /\ tokens <= full /\ tokens <= p.limit
             /\ tokens = full \/ tokens = p.limit

Ran(p, tokens, timestamp) ==
    /\ runs' = Append(runs, [at |-> clock, policy |-> p, allowed |-> Enough(tokens)])
    /\ bucket' = [tokens |-> IF tokens >= Scale THEN tokens - Scale ELSE tokens,
                  timestamp |-> timestamp, expires |-> Expiry(p.window)]

LEMMA ConsumeRuns ==
    ASSUME IInv, NEW c \in Calls, calls[c] # None, Consume(calls[c])
    PROVE  \E p \in Policies, tokens \in Nat, timestamp \in Int :
               Refill(p, tokens, timestamp) /\ Ran(p, tokens, timestamp)
<1>. USE DEF IInv
<1>1. PICK call, p, b : /\ call = calls[c] /\ p = call.policy
                        /\ b = Refilled(Found(call), call)
  OBVIOUS
<1>2. /\ p \in Policies /\ call.now \in Int /\ call.at \in Nat
      /\ call.at <= clock /\ clock <= call.at + MaxDelay
      /\ call.at + Slowest <= call.now /\ call.now <= call.at + Fastest
      /\ clock \in Nat /\ MaxDelay \in Nat
  <2>1. call \in [policy : Policies, now : Int, at : 0..MaxTime]
    BY <1>1, CallType
  <2>2. /\ call.at <= clock /\ clock <= call.at + MaxDelay
        /\ call.at + Slowest <= call.now /\ call.now <= call.at + Fastest
    BY <1>1 DEF CallsSound
  <2>3. clock \in Nat /\ MaxDelay \in Nat /\ call.at \in Nat
    BY <2>1, RateLimiterAssumption DEF TypeOK
  <2>. QED
    BY <1>1, <2>1, <2>2, <2>3
<1>3. p.limit \in Nat
  BY <1>2, Rate
<1>4. Ran(p, b.tokens, b.timestamp)
  BY <1>1 DEF Consume, Ran, Enough
<1>5. /\ b.tokens \in Nat /\ b.timestamp \in Int
      /\ Refill(p, b.tokens, b.timestamp)
  <2>1. clock + Slowest - MaxDelay <= call.now /\ call.now <= clock + Fastest
    BY <1>2, DriftType
  <2>2. CASE ~Live
    <3>1. Found(call) = [tokens |-> p.limit, timestamp |-> call.now]
      BY <1>1, <2>2 DEF Found
    <3>2. b = [tokens |-> p.limit, timestamp |-> call.now]
      BY <1>1, <1>2, <3>1 DEF Refilled
    <3>. QED
      BY <1>2, <1>3, <2>1, <2>2, <3>2 DEF Refill
  <2>3. CASE Live
    <3>1. PICK tokens, timestamp :
              tokens = bucket.tokens /\ timestamp = bucket.timestamp
      OBVIOUS
    <3>2. /\ tokens \in Nat /\ timestamp \in Int
          /\ timestamp <= clock + Fastest
      <4>1. bucket # None /\ Len(runs) \in 1..Len(runs)
        BY <2>3, RunsType DEF Live, BucketSound
      <4>2. Last.at \in Nat /\ Last.at <= clock /\ timestamp <= Last.at + Fastest
        BY <3>1, <4>1, RunsType DEF BucketSound, RunsOrdered, Last
      <4>. QED
        BY <1>2, <3>1, <4>1, <4>2, BucketType, DriftType
    <3>3. Found(call) = [tokens |-> tokens, timestamp |-> timestamp]
      BY <2>3, <3>1 DEF Found
    <3>4. CASE call.now > timestamp
      <4>1. PICK gain : gain = Accrued(call.now - timestamp, p)
        OBVIOUS
      <4>2. call.now - timestamp \in Nat
        BY <1>2, <3>2, <3>4
      <4>3. gain \in Nat
        BY <1>2, <4>1, <4>2, AccruedBounds
      <4>4. b = [tokens |-> Capped(tokens + gain, p), timestamp |-> call.now]
        BY <1>1, <3>3, <3>4, <4>1 DEF Refilled
      <4>5. /\ Capped(tokens + gain, p) \in Nat
            /\ Capped(tokens + gain, p) <= tokens + gain
            /\ Capped(tokens + gain, p) <= p.limit
            /\ Capped(tokens + gain, p) \in {tokens + gain, p.limit}
        BY <1>3, <3>2, <4>3 DEF Capped
      <4>. QED
        BY <1>2, <2>1, <2>3, <3>1, <3>4, <4>1, <4>4, <4>5 DEF Refill
    <3>5. CASE ~(call.now > timestamp)
      <4>1. b.tokens = tokens /\ b.timestamp = timestamp
        BY <1>1, <3>3, <3>5 DEF Refilled
      <4>2. clock + Slowest - MaxDelay <= timestamp
        BY <1>2, <2>1, <3>2, <3>5, DriftType
      <4>. QED
        BY <2>3, <3>1, <3>2, <4>1, <4>2 DEF Refill
    <3>. QED
      BY <3>4, <3>5
  <2>. QED
    BY <2>2, <2>3
<1>. QED
  BY <1>2, <1>4, <1>5

(* What a run adds to the history.                                         *)
LEMMA RunAdded ==
    ASSUME IInv, NEW p \in Policies, NEW tokens \in Nat, NEW timestamp \in Int,
           Ran(p, tokens, timestamp), NEW n \in Nat, n = Len(runs)
    PROVE  /\ Len(runs') = n + 1 /\ DOMAIN runs' = 1..(n + 1) /\ DOMAIN runs = 1..n
           /\ \A k \in 1..n : runs'[k] = runs[k]
           /\ runs'[n + 1].at = clock /\ runs'[n + 1].policy = p
           /\ runs'[n + 1].allowed = Enough(tokens)
           /\ runs' \in Seq([at : 0..MaxTime, policy : Policies, allowed : BOOLEAN])
<1>. USE DEF IInv
<1>1. PICK run : run = [at |-> clock, policy |-> p, allowed |-> Enough(tokens)]
  OBVIOUS
<1>2. run \in [at : 0..MaxTime, policy : Policies, allowed : BOOLEAN]
  <2>1. Enough(tokens) \in BOOLEAN
    BY DEF Enough
  <2>. QED
    BY <1>1, <2>1 DEF TypeOK
<1>3. runs \in Seq([at : 0..MaxTime, policy : Policies, allowed : BOOLEAN])
  BY DEF TypeOK
<1>4. runs' = Append(runs, run)
  BY <1>1 DEF Ran
<1>5. /\ runs' \in Seq([at : 0..MaxTime, policy : Policies, allowed : BOOLEAN])
      /\ Len(runs') = n + 1 /\ DOMAIN runs = 1..n
      /\ \A k \in 1..n : runs'[k] = runs[k]
      /\ runs'[n + 1] = run
  BY <1>2, <1>3, <1>4, AppendProperties, LenProperties
<1>6. DOMAIN runs' = 1..(n + 1)
  BY <1>5, LenProperties
<1>. QED
  BY <1>1, <1>5, <1>6

(* What it leaves in the bucket.                                           *)
LEMMA BucketLeft ==
    ASSUME IInv, NEW p \in Policies, NEW tokens \in Nat, NEW timestamp \in Int,
           Ran(p, tokens, timestamp)
    PROVE  /\ bucket' \in [tokens : Nat, timestamp : Int, expires : Nat \union {None}]
           /\ bucket' # None /\ bucket'.timestamp = timestamp
           /\ bucket'.expires = Expiry(p.window)
           /\ bucket'.tokens = IF tokens >= Scale THEN tokens - Scale ELSE tokens
<1>1. PICK left : left = IF tokens >= Scale THEN tokens - Scale ELSE tokens
  OBVIOUS
<1>2. left \in Nat /\ Expiry(p.window) \in Nat \union {None}
  <2>1. p.window \in Nat /\ clock \in Nat /\ Scale \in Nat
    BY Rate, RateLimiterAssumption DEF TypeOK, IInv
  <2>2. Live => bucket.expires \in Nat \union {None}
    BY BucketType DEF Live, IInv
  <2>3. Expiry(p.window) \in Nat \union {None}
    BY <2>1, <2>2 DEF Expiry
  <2>. QED
    BY <1>1, <2>1, <2>3
<1>3. bucket' = [tokens |-> left, timestamp |-> timestamp, expires |-> Expiry(p.window)]
  BY <1>1 DEF Ran
<1>4. /\ bucket' \in [tokens : Nat, timestamp : Int, expires : Nat \union {None}]
      /\ bucket' # None
  BY <1>2, <1>3, RateLimiterAssumption
<1>. QED
  BY <1>1, <1>3, <1>4

LEMMA SetGrows ==
    ASSUME NEW n \in Nat, NEW S \in SUBSET (1..n)
    PROVE  /\ Cardinality(S) \in Nat
           /\ Cardinality(S \union {n + 1}) = Cardinality(S) + 1
<1>1. IsFiniteSet(S)
  <2>1. IsFiniteSet(1..n)
    BY FS_Interval
  <2>. QED
    BY <2>1, FS_Subset
<1>2. Cardinality(S) \in Nat
  BY <1>1, FS_CardinalityType
<1>3. n + 1 \notin S
  OBVIOUS
<1>4. Cardinality(S \union {n + 1}) = Cardinality(S) + 1
  BY <1>1, <1>3, FS_AddElement
<1>. QED
  BY <1>2, <1>4

(* What it adds to the tokens taken and to the grants.                     *)
LEMMA GrantAdded ==
    ASSUME IInv, NEW p \in Policies, NEW tokens \in Nat, NEW timestamp \in Int,
           Ran(p, tokens, timestamp), NEW n \in Nat, n = Len(runs),
           NEW S \in SUBSET (1..n)
    PROVE  /\ Cardinality(Spent(S)) \in Nat
           /\ Spent(S)' = Spent(S)
           /\ Cardinality(Spent(S \union {n + 1})') =
                 Cardinality(Spent(S)) + (IF tokens >= Scale THEN 1 ELSE 0)
           /\ Cardinality(Granted(S)) \in Nat
           /\ Granted(S)' = Granted(S)
           /\ Cardinality(Granted(S \union {n + 1})') =
                 Cardinality(Granted(S))
                     + (IF tokens >= Scale /\ Expirable(p.window) THEN 1 ELSE 0)
<1>1. /\ \A k \in 1..n : runs'[k] = runs[k]
      /\ runs'[n + 1].allowed = Enough(tokens) /\ runs'[n + 1].policy = p
  BY RunAdded
<1>2. PICK took \in BOOLEAN : took <=> tokens >= Scale
  OBVIOUS
<1>3. PICK told \in BOOLEAN : told <=> Expirable(p.window)
  OBVIOUS
<1>4. /\ runs'[n + 1].allowed <=> took
      /\ Answered(runs'[n + 1]) <=> told
  BY <1>1, <1>2, <1>3 DEF Enough, Answered
<1>5. S \subseteq 1..n /\ n + 1 \notin S
  OBVIOUS
<1>6. /\ Spent(S)' = Spent(S) /\ Spent(S) \in SUBSET (1..n)
      /\ Spent(S \union {n + 1})' = IF took THEN Spent(S) \union {n + 1} ELSE Spent(S)
  BY <1>1, <1>4, <1>5 DEF Spent
<1>7. \A k \in 1..n : Answered(runs'[k]) = Answered(runs[k])
  BY <1>1
<1>8. /\ Granted(S)' = Granted(S) /\ Granted(S) \in SUBSET (1..n)
      /\ Granted(S \union {n + 1})' = IF took /\ told THEN Granted(S) \union {n + 1}
                                      ELSE Granted(S)
  <2>1. /\ \A T : Granted(T)' = {i \in Spent(T)' : Answered(runs'[i])}
        /\ \A T : Granted(T) = {i \in Spent(T) : Answered(runs[i])}
    BY DEF Granted, Answered
  <2>. QED
    BY <1>4, <1>5, <1>6, <1>7, <2>1
<1>9. /\ Cardinality(Spent(S)) \in Nat
      /\ Cardinality(Spent(S \union {n + 1})') =
            Cardinality(Spent(S)) + (IF took THEN 1 ELSE 0)
  <2>1. PICK before \in SUBSET (1..n) : before = Spent(S)
    BY <1>6
  <2>2. /\ Cardinality(before) \in Nat
        /\ Cardinality(before \union {n + 1}) = Cardinality(before) + 1
    BY SetGrows
  <2>. QED
    BY <1>6, <2>1, <2>2
<1>10. /\ Cardinality(Granted(S)) \in Nat
       /\ Cardinality(Granted(S \union {n + 1})') =
             Cardinality(Granted(S)) + (IF took /\ told THEN 1 ELSE 0)
  <2>1. PICK before \in SUBSET (1..n) : before = Granted(S)
    BY <1>8
  <2>2. /\ Cardinality(before) \in Nat
        /\ Cardinality(before \union {n + 1}) = Cardinality(before) + 1
    BY SetGrows
  <2>. QED
    BY <1>8, <2>1, <2>2
<1>. QED
  BY <1>2, <1>3, <1>6, <1>8, <1>9, <1>10

(* The run pays for the token it takes, and so for what it grants, with    *)
(* what it takes from the bucket.                                          *)
LEMMA UsedAdded ==
    ASSUME IInv, NEW p \in Policies, NEW tokens \in Nat, NEW timestamp \in Int,
           Ran(p, tokens, timestamp), NEW n \in Nat, n = Len(runs)
    PROVE  /\ bucket'.tokens \in Nat
           /\ \A i \in 1..n :
                 /\ Used(i) \in Nat /\ Used(i)' \in Nat
                 /\ Used(i)' + bucket'.tokens <= Used(i) + tokens
                 /\ ~Expirable(p.window) => Used(i)' = Used(i)
           /\ Used(n + 1)' \in Nat /\ Used(n + 1)' + bucket'.tokens <= tokens
           /\ ~Expirable(p.window) => Used(n + 1)' = 0
           /\ \A time \in Int :
                 /\ UsedAfter(time) \in Nat /\ UsedAfter(time)' \in Nat
                 /\ time < clock =>
                       UsedAfter(time)' + bucket'.tokens = UsedAfter(time) + tokens
<1>. DEFINE took == IF tokens >= Scale THEN 1 ELSE 0
            granted == IF tokens >= Scale /\ Expirable(p.window) THEN 1 ELSE 0
<1>1. /\ Len(runs') = n + 1 /\ DOMAIN runs' = 1..(n + 1)
      /\ \A k \in 1..n : runs'[k] = runs[k]
      /\ runs'[n + 1].at = clock
      /\ bucket'.tokens = IF tokens >= Scale THEN tokens - Scale ELSE tokens
  BY RunAdded, BucketLeft
<1>2. PICK left \in Nat : left = bucket'.tokens
  BY BucketLeft
<1>3. /\ Scale \in Nat /\ took \in Nat /\ Scale * took + left = tokens
      /\ granted \in Nat /\ Scale * granted + left <= tokens
      /\ ~Expirable(p.window) => granted = 0
      /\ DOMAIN runs = 1..n
  <2>1. Scale \in Nat /\ DOMAIN runs = 1..n
    BY RateLimiterAssumption, RunAdded
  <2>2. CASE tokens >= Scale
    BY <1>1, <1>2, <2>1, <2>2
  <2>3. CASE ~(tokens >= Scale)
    BY <1>1, <1>2, <2>1, <2>3
  <2>. QED
    BY <2>2, <2>3
<1>4. \A S \in SUBSET (1..n) :
          /\ Cardinality(Spent(S)) \in Nat
          /\ Spent(S)' = Spent(S)
          /\ Cardinality(Spent(S \union {n + 1})') = Cardinality(Spent(S)) + took
          /\ Cardinality(Granted(S)) \in Nat
          /\ Cardinality(Granted(S \union {n + 1})') = Cardinality(Granted(S)) + granted
  <2>. SUFFICES ASSUME NEW S \in SUBSET (1..n)
                PROVE  /\ Cardinality(Spent(S)) \in Nat
                       /\ Spent(S)' = Spent(S)
                       /\ Cardinality(Spent(S \union {n + 1})')
                             = Cardinality(Spent(S)) + took
                       /\ Cardinality(Granted(S)) \in Nat
                       /\ Cardinality(Granted(S \union {n + 1})')
                             = Cardinality(Granted(S)) + granted
    OBVIOUS
  <2>1. /\ Cardinality(Spent(S)) \in Nat /\ Spent(S)' = Spent(S)
        /\ Cardinality(Spent(S \union {n + 1})') = Cardinality(Spent(S)) + took
    BY GrantAdded, ZenonT(30)
  <2>2. /\ Cardinality(Granted(S)) \in Nat
        /\ Cardinality(Granted(S \union {n + 1})') = Cardinality(Granted(S)) + granted
    BY GrantAdded, ZenonT(30)
  <2>. QED
    BY <2>1, <2>2
<1>. HIDE DEF took, granted
<1>5. \A some, more \in Nat : /\ Scale * some \in Nat /\ Scale * (some + more) \in Nat
                              /\ Scale * (some + more) = Scale * some + Scale * more
  BY <1>3, Distributes
<1>6. ASSUME NEW i \in 1..n
      PROVE  /\ Used(i) \in Nat /\ Used(i)' \in Nat /\ Used(i)' + left <= Used(i) + tokens
             /\ ~Expirable(p.window) => Used(i)' = Used(i)
  <2>1. PICK S \in SUBSET (1..n) : S = i..n
    OBVIOUS
  <2>2. S \union {n + 1} = i..(n + 1)
    BY <2>1
  <2>3. PICK grants \in Nat : grants = Cardinality(Granted(S))
    BY <1>4
  <2>4. Used(i) = Scale * grants
    BY <2>1, <2>3 DEF Used
  <2>5. Used(i)' = Scale * Cardinality(Granted(S \union {n + 1})')
    BY <1>1, <2>2 DEF Used, Granted, Spent, Answered
  <2>6. Used(i)' = Scale * (grants + granted)
    BY <1>4, <2>3, <2>5
  <2>7. Used(i) \in Nat /\ Used(i)' \in Nat /\ Used(i)' = Used(i) + Scale * granted
    BY <1>3, <1>5, <2>4, <2>6
  <2>. QED
    BY <1>3, <1>5, <2>7
<1>7. /\ Used(n + 1)' \in Nat /\ Used(n + 1)' + left <= tokens
      /\ ~Expirable(p.window) => Used(n + 1)' = 0
  <2>1. PICK S \in SUBSET (1..n) : S = {}
    OBVIOUS
  <2>2. S \union {n + 1} = (n + 1)..(n + 1)
    BY <2>1
  <2>3. Cardinality(Granted(S)) = 0
    BY <2>1, FS_EmptySet DEF Granted, Spent
  <2>4. Used(n + 1)' = Scale * Cardinality(Granted(S \union {n + 1})')
    BY <1>1, <2>2 DEF Used, Granted, Spent, Answered
  <2>5. Cardinality(Granted(S \union {n + 1})') = 0 + granted
    BY <1>4, <2>3
  <2>6. Used(n + 1)' = Scale * granted
    BY <1>3, <2>4, <2>5
  <2>. QED
    BY <1>3, <1>5, <2>6
<1>8. ASSUME NEW time \in Int
      PROVE  /\ UsedAfter(time) \in Nat /\ UsedAfter(time)' \in Nat
             /\ time < clock => UsedAfter(time)' + left = UsedAfter(time) + tokens
  <2>1. PICK S \in SUBSET (1..n) : S = After(time)
    BY <1>3 DEF After
  <2>2. PICK spent \in Nat : spent = Cardinality(Spent(S))
    BY <1>4
  <2>3. UsedAfter(time) = Scale * spent
    BY <2>1, <2>2 DEF UsedAfter
  <2>4. CASE time < clock
    <3>1. After(time)' = S \union {n + 1}
      BY <1>1, <1>3, <2>1, <2>4 DEF After
    <3>2. UsedAfter(time)' = Scale * Cardinality(Spent(S \union {n + 1})')
      BY <3>1 DEF UsedAfter, Spent
    <3>3. UsedAfter(time)' = Scale * (spent + took)
      BY <1>4, <2>2, <3>2
    <3>4. /\ UsedAfter(time) \in Nat /\ UsedAfter(time)' \in Nat
          /\ UsedAfter(time)' = UsedAfter(time) + Scale * took
      BY <1>3, <1>5, <2>3, <3>3
    <3>. QED
      BY <1>3, <1>5, <3>4
  <2>5. CASE ~(time < clock)
    <3>1. After(time)' = S
      BY <1>1, <1>3, <2>1, <2>5 DEF After
    <3>2. UsedAfter(time)' = Scale * Cardinality(Spent(S)')
      BY <3>1 DEF UsedAfter, Spent
    <3>3. UsedAfter(time)' = Scale * spent
      BY <1>4, <2>2, <3>2
    <3>. QED
      BY <1>5, <2>3, <2>5, <3>3
  <2>. QED
    BY <2>4, <2>5
<1>. QED
  BY <1>2, <1>6, <1>7, <1>8

(* The bucket is never fuller than the largest limit so far allows.        *)
LEMMA Affordable ==
    ASSUME IInv, NEW p \in Policies, NEW tokens \in Nat, NEW timestamp \in Int,
           Refill(p, tokens, timestamp)
    PROVE  \/ tokens <= p.limit
           \/ \E k \in DOMAIN runs : tokens <= runs[k].policy.limit
<1>1. p.limit \in Nat
  BY Rate
<1>2. CASE Live /\ timestamp = bucket.timestamp /\ tokens = bucket.tokens
  BY <1>2 DEF Live, IInv, BucketSound
<1>. QED
  BY <1>1, <1>2 DEF Refill

LEMMA BoundsAdded ==
    ASSUME NEW S \in SUBSET Int, S = {} \/ Bounds(S), NEW x \in Int
    PROVE  Bounds(S \union {x})
<1>1. CASE S = {}
  BY <1>1 DEF Bounds
<1>2. CASE Bounds(S)
  <2>1. PICK lo, hi \in S : \A y \in S : lo <= y /\ y <= hi
    BY <1>2 DEF Bounds
  <2>2. PICK low, high \in S \union {x} :
            /\ low = IF x < lo THEN x ELSE lo
            /\ high = IF hi < x THEN x ELSE hi
    OBVIOUS
  <2>3. \A y \in S \union {x} : low <= y /\ y <= high
    BY <2>1, <2>2
  <2>. QED
    BY <2>3 DEF Bounds
<1>. QED
  BY <1>1, <1>2

LEMMA HistoryKept ==
    ASSUME IInv, NEW p \in Policies, NEW tokens \in Nat, NEW timestamp \in Int,
           Refill(p, tokens, timestamp), Ran(p, tokens, timestamp), UNCHANGED clock
    PROVE  RunsOrdered' /\ BucketSound' /\ Extremal'
<1>. USE DEF IInv
<1>1. PICK n \in Nat : n = Len(runs)
  BY RunsCounted
<1>2. /\ Len(runs') = n + 1 /\ DOMAIN runs' = 1..(n + 1) /\ DOMAIN runs = 1..n
      /\ \A k \in 1..n : runs'[k] = runs[k]
      /\ runs'[n + 1].at = clock /\ runs'[n + 1].policy = p
      /\ bucket' # None
      /\ bucket'.timestamp = timestamp /\ bucket'.expires = Expiry(p.window)
      /\ bucket'.tokens = IF tokens >= Scale THEN tokens - Scale ELSE tokens
  <2>1. /\ Len(runs') = n + 1 /\ DOMAIN runs' = 1..(n + 1) /\ DOMAIN runs = 1..n
        /\ \A k \in 1..n : runs'[k] = runs[k]
        /\ runs'[n + 1].at = clock /\ runs'[n + 1].policy = p
    BY <1>1, RunAdded
  <2>2. /\ bucket' # None
        /\ bucket'.timestamp = timestamp /\ bucket'.expires = Expiry(p.window)
        /\ bucket'.tokens = IF tokens >= Scale THEN tokens - Scale ELSE tokens
    BY BucketLeft
  <2>. QED
    BY <2>1, <2>2
<1>3. /\ \A k \in 1..n : /\ runs[k].at \in Nat
                         /\ runs[k].policy.limit \in Nat /\ runs[k].policy.window \in Nat
      /\ p.limit \in Nat /\ p.window \in Nat /\ clock \in Nat
      /\ Scale \in Nat \ {0}
  <2>1. \A k \in 1..n : /\ runs[k].at \in Nat
                        /\ runs[k].policy.limit \in Nat /\ runs[k].policy.window \in Nat
    BY <1>1, RunsType
  <2>2. p.limit \in Nat /\ p.window \in Nat /\ clock \in Nat /\ Scale \in Nat \ {0}
    BY Rate, RateLimiterAssumption DEF TypeOK
  <2>. QED
    BY <2>1, <2>2
<1>4. RunsOrdered'
  <2>1. \A k \in 1..n : runs[k].at <= clock /\ runs'[k].at = runs[k].at
    BY <1>2 DEF RunsOrdered
  <2>2. \A k \in 1..(n + 1) : k \in 1..n \/ k = n + 1
    OBVIOUS
  <2>3. \A k \in 1..(n + 1) : runs'[k].at <= clock
    BY <1>2, <1>3, <2>1, <2>2
  <2>4. ASSUME NEW k \in 1..(n + 1), NEW l \in 1..(n + 1), k <= l
        PROVE  runs'[k].at <= runs'[l].at
    <3>1. CASE l = n + 1
      BY <1>2, <2>3, <3>1
    <3>2. CASE l \in 1..n
      <4>1. k \in 1..n
        BY <2>4, <3>2
      <4>. QED
        BY <1>2, <2>1, <2>4, <3>2, <4>1 DEF RunsOrdered
    <3>. QED
      BY <2>2, <3>1, <3>2
  <2>. QED
    BY <1>2, <2>3, <2>4 DEF RunsOrdered
<1>5. BucketSound'
  <2>1. \E k \in 1..(n + 1) : bucket'.tokens <= runs'[k].policy.limit
    <3>1. bucket'.tokens <= tokens /\ bucket'.tokens \in Int
      BY <1>2, <1>3
    <3>2. CASE tokens <= p.limit
      <4>1. bucket'.tokens <= runs'[n + 1].policy.limit
        BY <1>2, <1>3, <3>1, <3>2
      <4>. QED
        BY <4>1
    <3>3. CASE \E k \in DOMAIN runs : tokens <= runs[k].policy.limit
      <4>1. PICK k \in 1..n : tokens <= runs[k].policy.limit
        BY <1>2, <3>3
      <4>2. bucket'.tokens <= runs'[k].policy.limit
        <5>1. runs'[k] = runs[k]
          BY <1>2
        <5>2. PICK most \in Int : most = runs[k].policy.limit
          BY <1>3
        <5>. QED
          BY <1>3, <3>1, <4>1, <5>1, <5>2
      <4>. QED
        BY <4>2
    <3>. QED
      BY <3>2, <3>3, Affordable
  <2>2. /\ Last'.at = clock /\ Last'.policy = p
        /\ ~Last'.allowed => bucket'.tokens < Scale
    <3>1. runs'[n + 1].allowed <=> tokens >= Scale
      BY <1>1, RunAdded DEF Enough
    <3>. QED
      BY <1>2, <1>3, <3>1 DEF Last
  <2>3. clock + Slowest - MaxDelay <= timestamp /\ timestamp <= clock + Fastest
    BY DEF Refill
  <2>4. Answered(Last') => bucket'.expires = clock + p.window
    BY <1>2, <2>2 DEF Answered, Expiry
  <2>5. ASSUME bucket'.expires # None
        PROVE  \E k \in 1..(n + 1) : Answered(runs'[k])
    <3>1. CASE Expirable(p.window)
      BY <1>2, <3>1 DEF Answered
    <3>2. CASE ~Expirable(p.window)
      <4>1. bucket # None /\ bucket.expires # None
        BY <1>2, <2>5, <3>2 DEF Expiry, Live
      <4>2. PICK k \in 1..n : Answered(runs[k])
        BY <1>2, <4>1 DEF BucketSound
      <4>3. k \in 1..(n + 1) /\ runs'[k] = runs[k]
        BY <1>2
      <4>. QED
        BY <4>2, <4>3
    <3>. QED
      BY <3>1, <3>2
  <2>. QED
    BY <1>2, <2>1, <2>2, <2>3, <2>4, <2>5 DEF BucketSound, Answered, Expirable
<1>6. Extremal'
  <2>1. /\ \A k \in 1..n : LimitsOf(k)' = LimitsOf(k) /\ WindowsOf(k)' = WindowsOf(k)
        /\ LimitsOf(n + 1)' = LimitsOf(n) \union {p.limit}
        /\ WindowsOf(n + 1)' = WindowsOf(n) \union {p.window}
    <3>1. \A k \in 1..n : LimitsOf(k)' = LimitsOf(k) /\ WindowsOf(k)' = WindowsOf(k)
      BY <1>2 DEF LimitsOf, WindowsOf
    <3>2. 1..(n + 1) = (1..n) \union {n + 1}
      OBVIOUS
    <3>3. LimitsOf(n + 1)' = LimitsOf(n) \union {p.limit}
      BY <1>2, <3>2 DEF LimitsOf
    <3>4. WindowsOf(n + 1)' = WindowsOf(n) \union {p.window}
      BY <1>2, <3>2 DEF WindowsOf
    <3>. QED
      BY <3>1, <3>3, <3>4
  <2>2. LimitsOf(n) \subseteq Int /\ WindowsOf(n) \subseteq Int
    BY <1>3 DEF LimitsOf, WindowsOf
  <2>3. /\ LimitsOf(n) = {} \/ Bounds(LimitsOf(n))
        /\ WindowsOf(n) = {} \/ Bounds(WindowsOf(n))
    <3>1. CASE n = 0
      BY <3>1 DEF LimitsOf, WindowsOf
    <3>2. CASE n # 0
      BY <1>2, <3>2 DEF Extremal
    <3>. QED
      BY <3>1, <3>2
  <2>4. Bounds(LimitsOf(n) \union {p.limit}) /\ Bounds(WindowsOf(n) \union {p.window})
    <3>1. p.limit \in Int /\ p.window \in Int
      BY <1>3
    <3>. QED
      BY <2>2, <2>3, <3>1, BoundsAdded
  <2>5. \A k \in 1..(n + 1) : Bounds(LimitsOf(k)') /\ Bounds(WindowsOf(k)')
    <3>1. \A k \in 1..n : Bounds(LimitsOf(k)') /\ Bounds(WindowsOf(k)')
      BY <1>2, <2>1 DEF Extremal
    <3>2. Bounds(LimitsOf(n + 1)') /\ Bounds(WindowsOf(n + 1)')
      BY <2>1, <2>4
    <3>3. \A k \in 1..(n + 1) : k \in 1..n \/ k = n + 1
      OBVIOUS
    <3>. QED
      BY <3>1, <3>2, <3>3
  <2>. QED
    BY <1>2, <2>5 DEF Extremal, Bounds
<1>. QED
  BY <1>4, <1>5, <1>6

LEMMA TypeKept ==
    ASSUME IInv, NEW p \in Policies, NEW tokens \in Nat, NEW timestamp \in Int,
           Refill(p, tokens, timestamp), Ran(p, tokens, timestamp), UNCHANGED clock,
           calls' \in [Calls -> [policy : Policies, now : Int, at : 0..MaxTime]
                                \union {None}]
    PROVE  TypeOK'
<1>1. PICK n \in Nat : n = Len(runs)
  BY RunsCounted
<1>2. runs' \in Seq([at : 0..MaxTime, policy : Policies, allowed : BOOLEAN])
  BY <1>1, RunAdded
<1>3. /\ bucket' \in [tokens : Nat, timestamp : Int, expires : Nat \union {None}]
      /\ bucket'.tokens = IF tokens >= Scale THEN tokens - Scale ELSE tokens
  BY BucketLeft
<1>4. \E q \in Policies : tokens <= q.limit
  <2>1. \A k \in DOMAIN runs : runs[k].policy \in Policies
    BY RunsType DEF IInv
  <2>. QED
    BY <2>1, Affordable
<1>5. PICK q \in Policies : tokens <= q.limit
  BY <1>4
<1>6. bucket'.tokens <= q.limit
  <2>1. Scale \in Nat /\ q.limit \in Nat
    BY Rate, RateLimiterAssumption
  <2>. QED
    BY <1>3, <1>5, <2>1
<1>. QED
  BY <1>2, <1>3, <1>6 DEF TypeOK, IInv

LEMMA PayMore ==
    ASSUME NEW window \in Nat, NEW limit \in Nat, NEW used \in Nat, NEW old \in Nat,
           NEW gain \in Nat, NEW tokens \in Nat, NEW x \in Int, NEW t \in Int,
           window * (used + old) <= limit * x, window * gain <= limit * t,
           tokens <= old + gain
    PROVE  window * (used + tokens) <= limit * (x + t)
<1>1. window * (used + tokens) <= window * (used + (old + gain))
  BY TimesMonotone
<1>2. window * (used + (old + gain)) = window * (used + old) + window * gain
  OBVIOUS
<1>3. limit * (x + t) = limit * x + limit * t
  OBVIOUS
<1>. QED
  BY <1>1, <1>2, <1>3

LEMMA PayFull ==
    ASSUME NEW window \in Nat, NEW limit \in Nat, NEW used \in Nat,
           NEW tokens \in Nat, NEW x \in Int, NEW y \in Int,
           window * used <= limit * x, tokens <= limit, x + window <= y
    PROVE  window * (used + tokens) <= limit * y
<1>1. window * tokens <= window * limit
  BY TimesMonotone
<1>2. limit * (x + window) <= limit * y
  BY TimesMonotone
<1>3. /\ window * (used + tokens) = window * used + window * tokens
      /\ limit * (x + window) = limit * x + window * limit
  OBVIOUS
<1>. QED
  BY <1>1, <1>2, <1>3

LEMMA PayLess ==
    ASSUME NEW window \in Nat, NEW limit \in Nat, NEW more \in Nat, NEW less \in Nat,
           NEW x \in Int, NEW y \in Int,
           window * more <= limit * x, less <= more, x <= y
    PROVE  window * less <= limit * y
<1>1. window * less <= window * more /\ window * less \in Int /\ window * more \in Int
  BY TimesMonotone
<1>2. limit * x <= limit * y /\ limit * x \in Int /\ limit * y \in Int
  BY TimesMonotone
<1>. QED
  BY <1>1, <1>2

(* The bucket is no fuller than a limit above all in use.                  *)
LEMMA Within ==
    ASSUME IInv, NEW p \in Policies, NEW tokens \in Nat, NEW timestamp \in Int,
           Refill(p, tokens, timestamp), NEW limit \in Nat, p.limit <= limit,
           \A k \in DOMAIN runs : runs[k].policy.limit <= limit
    PROVE  tokens <= limit
<1>1. \A k \in DOMAIN runs : runs[k].policy.limit \in Nat
  BY RunsType DEF IInv
<1>2. p.limit \in Nat
  BY Rate
<1>. QED
  BY <1>1, <1>2, Affordable

LEMMA PayAhead ==
    ASSUME NEW window \in Nat, NEW limit \in Nat, NEW used \in Nat, NEW left \in Nat,
           NEW expiries \in Nat, NEW drift \in Nat, NEW x \in Int, NEW y \in Int,
           window * (used + left) <= limit * (window + x + drift * expiries),
           window + x <= y + drift
    PROVE  window * used <= limit * (y + drift * (expiries + 1))
<1>1. PICK drifted \in Nat : drifted = drift * expiries
  OBVIOUS
<1>2. drift * (expiries + 1) = drifted + drift
  BY <1>1
<1>3. window + x + drifted <= y + (drifted + drift) /\ used <= used + left
  OBVIOUS
<1>. QED
  BY <1>1, <1>2, <1>3, PayLess

LEMMA OneMore ==
    ASSUME NEW window \in Nat, NEW expiries \in Nat, NEW x \in Int, NEW y \in Int,
           expiries * window <= x, x + window <= y
    PROVE  (expiries + 1) * window <= y
<1>1. (expiries + 1) * window = expiries * window + window /\ expiries * window \in Nat
  OBVIOUS
<1>. QED
  BY <1>1

(* Where a run that answers leaves the grants paid for, they are paid for  *)
(* by the time the key expires, which is a window later at least.          *)
Lasts(window) == bucket'.expires \in Nat /\ clock + window <= bucket'.expires

LEMMA PaidAhead ==
    ASSUME IInv, NEW p \in Policies, NEW tokens \in Nat, NEW timestamp \in Int,
           Refill(p, tokens, timestamp), Ran(p, tokens, timestamp), UNCHANGED clock,
           NEW n \in Nat, n = Len(runs), NEW i \in 1..(n + 1),
           NEW limit \in Nat, NEW window \in Nat, NEW expiries \in Nat,
           Paid(i, limit, window, expiries)', Lasts(window)
    PROVE  PaidInTime(i, limit, window, expiries)'
<1>1. /\ Len(runs') = n + 1 /\ DOMAIN runs' = 1..(n + 1)
      /\ \A k \in 1..n : runs'[k] = runs[k]
      /\ runs'[n + 1].at = clock /\ bucket'.timestamp = timestamp
  <2>1. bucket'.timestamp = timestamp
    BY BucketLeft
  <2>. QED
    BY <2>1, RunAdded
<1>2. i \in 1..n \/ i = n + 1
  OBVIOUS
<1>3. PICK used \in Nat, left \in Nat : used = Used(i)' /\ left = bucket'.tokens
  BY <1>2, UsedAdded
<1>4. /\ clock \in Nat /\ MaxDelay \in Nat /\ Drift \in Nat
      /\ Drift = Fastest - Slowest + MaxDelay /\ Slowest \in Int /\ Fastest \in Int
      /\ timestamp <= clock + Fastest
  BY DriftType, RateLimiterAssumption DEF Refill, IInv, TypeOK
<1>5. PICK at \in Nat : at = runs'[i].at
  BY <1>1, <1>2, <1>4, RunsType DEF IInv
<1>6. PICK expires \in Nat : expires = bucket'.expires /\ clock + window <= expires
  BY DEF Lasts
<1>7. PICK x \in Int, y \in Int : x = timestamp + MaxDelay - Slowest - at /\ y = expires - at
  BY <1>4
<1>8. window + x <= y + Drift /\ (clock - at) + window <= y
  <2>0. clock + window <= expires
    BY <1>6
  <2>1. PICK last \in Int : last = clock + Fastest /\ timestamp <= last
    BY <1>4
  <2>2. last + window <= expires + Fastest
    BY <1>4, <2>0, <2>1
  <2>3. window + x <= y + Drift
    BY <1>4, <1>7, <2>1, <2>2
  <2>4. (clock - at) + window <= y
    BY <1>4, <1>7, <2>0
  <2>. QED
    BY <2>3, <2>4
<1>9. /\ expiries * window <= clock - at
      /\ window * (used + left) <= limit * (window + x + Drift * expiries)
  BY <1>1, <1>3, <1>5, <1>7 DEF Paid, Afforded, Last
<1>10. window * used <= limit * (y + Drift * (expiries + 1))
  BY <1>4, <1>8, <1>9, PayAhead
<1>11. (expiries + 1) * window <= y
  BY <1>4, <1>8, <1>9, OneMore
<1>. QED
  BY <1>3, <1>5, <1>6, <1>7, <1>10, <1>11 DEF PaidInTime

LEMMA NeverTooManyKept ==
    ASSUME IInv, NEW p \in Policies, NEW tokens \in Nat, NEW timestamp \in Int,
           Refill(p, tokens, timestamp), Ran(p, tokens, timestamp), UNCHANGED clock
    PROVE  NeverTooMany'
<1>1. PICK n \in Nat : n = Len(runs)
  BY RunsCounted
<1>2. /\ Len(runs') = n + 1 /\ DOMAIN runs' = 1..(n + 1) /\ DOMAIN runs = 1..n
      /\ \A k \in 1..n : runs'[k] = runs[k]
      /\ runs'[n + 1].at = clock /\ runs'[n + 1].policy = p
  BY <1>1, RunAdded
<1>3. bucket' # None /\ bucket'.expires = Expiry(p.window)
  BY BucketLeft
<1>4. SUFFICES ASSUME NEW i \in 1..(n + 1), NEW limit \in Nat, NEW window \in Nat,
                      \A k \in 1..(n + 1) : /\ runs'[k].policy.limit <= limit
                                            /\ window <= runs'[k].policy.window
               PROVE  \E expiries \in Nat :
                          /\ Paid(i, limit, window, expiries)'
                          /\ PaidInTime(i, limit, window, expiries)'
  BY <1>2 DEF NeverTooMany
<1>5. /\ p.limit <= limit /\ window <= p.window
      /\ \A k \in 1..n : runs[k].policy.limit <= limit /\ window <= runs[k].policy.window
  <2>1. n + 1 \in 1..(n + 1) /\ \A k \in 1..n : k \in 1..(n + 1)
    OBVIOUS
  <2>. QED
    BY <1>2, <1>4, <2>1
<1>6. tokens <= limit
  BY <1>2, <1>5, Within
<1>7. /\ clock \in Nat /\ MaxDelay \in Nat /\ Drift \in Nat
      /\ Drift = Fastest - Slowest + MaxDelay /\ Slowest \in Int /\ Fastest \in Int
      /\ clock + Slowest - MaxDelay <= timestamp /\ timestamp <= clock + Fastest
  BY DriftType, RateLimiterAssumption DEF Refill, IInv, TypeOK
<1>8. PICK later \in Nat, left \in Nat : later = Used(i)' /\ left = bucket'.tokens
  <2>1. i \in 1..n \/ i = n + 1
    OBVIOUS
  <2>. QED
    BY <1>1, <2>1, UsedAdded
<1>9. PICK at \in Nat : at = runs'[i].at /\ at <= clock
  <2>1. CASE i = n + 1
    BY <1>2, <1>7, <2>1
  <2>2. CASE i \in 1..n
    BY <1>1, <1>2, <2>2, RunsType DEF IInv, RunsOrdered
  <2>. QED
    BY <2>1, <2>2
<1>10. ASSUME NEW expiries \in Nat, expiries * window <= clock - at,
              window * (later + left)
                  <= limit * (window + (timestamp + MaxDelay - Slowest - at)
                                + Drift * expiries),
              ~Expirable(p.window) => PaidInTime(i, limit, window, expiries)'
       PROVE  Paid(i, limit, window, expiries)' /\ PaidInTime(i, limit, window, expiries)'
  <2>1. bucket'.timestamp = timestamp
    BY BucketLeft
  <2>2. Paid(i, limit, window, expiries)'
    BY <1>2, <1>8, <1>9, <1>10, <2>1 DEF Paid, Afforded, Last
  <2>3. Expirable(p.window) => PaidInTime(i, limit, window, expiries)'
    <3>1. ASSUME Expirable(p.window)
          PROVE  Lasts(window)
      <4>1. PICK wide \in Nat : wide = p.window /\ window <= wide
        BY <1>5, Rate
      <4>. QED
        BY <1>3, <1>7, <3>1, <4>1 DEF Expiry, Lasts
    <3>. QED
      BY <1>1, <2>2, <3>1, PaidAhead
  <2>. QED
    BY <1>10, <2>2, <2>3
(* Nothing was granted before, and the bucket may be full.                 *)
<1>11. ASSUME later + left <= tokens, ~Expirable(p.window) => later = 0
       PROVE  Paid(i, limit, window, 0)' /\ PaidInTime(i, limit, window, 0)'
  <2>1. PICK x \in Nat : x = timestamp + MaxDelay - Slowest - at
    BY <1>7, <1>9
  <2>2. window * (later + left) <= limit * (window + x)
    <3>1. window * 0 <= limit * 0 /\ 0 + window <= window + x
      OBVIOUS
    <3>2. window * (0 + tokens) <= limit * (window + x)
      BY <1>6, <3>1, PayFull
    <3>. QED
      BY <1>11, <3>2, PayLess
  <2>3. 0 * window <= clock - at /\ window + x + Drift * 0 = window + x
    BY <1>7, <1>9
  <2>4. ~Expirable(p.window) => PaidInTime(i, limit, window, 0)'
    <3>. SUFFICES ASSUME ~Expirable(p.window), bucket'.expires # None
                  PROVE  /\ Used(i)' = 0
                         /\ window * Used(i)'
                               <= limit * (bucket'.expires - at + Drift * (0 + 1))
      BY <1>9 DEF PaidInTime
    <3>1. Used(i)' = 0
      BY <1>8, <1>11
    <3>2. bucket'.expires \in Nat /\ clock <= bucket'.expires
      <4>1. /\ Live /\ bucket'.expires = bucket.expires
            /\ bucket # None /\ bucket.expires # None
        BY <1>3 DEF Expiry, Live
      <4>2. bucket.expires \in Nat
        BY <4>1, BucketType DEF IInv
      <4>. QED
        BY <4>1, <4>2 DEF Live
    <3>3. PICK y \in Nat : y = bucket'.expires - at + Drift * (0 + 1)
      BY <1>7, <1>9, <3>2
    <3>4. window * 0 <= limit * y
      OBVIOUS
    <3>. QED
      BY <3>1, <3>3, <3>4
  <2>. QED
    BY <1>10, <2>1, <2>2, <2>3, <2>4
<1>12. CASE i = n + 1
  <2>1. later + left <= tokens /\ (~Expirable(p.window) => later = 0)
    BY <1>1, <1>8, <1>12, UsedAdded
  <2>. QED
    BY <1>11, <2>1
<1>13. CASE i \in 1..n
  <2>1. PICK used \in Nat : used = Used(i)
    BY <1>1, <1>13, UsedAdded
  <2>2. /\ later + left <= used + tokens /\ runs[i].at = at
        /\ ~Expirable(p.window) => later = used
    BY <1>1, <1>2, <1>8, <1>9, <1>13, <2>1, UsedAdded
  <2>3. bucket # None
    BY <1>1, <1>13 DEF IInv, BucketSound
  <2>4. PICK old \in Nat, before \in Int :
            old = bucket.tokens /\ before = bucket.timestamp
    BY <2>3, BucketType DEF IInv
  <2>5. PICK expiries \in Nat :
            Paid(i, limit, window, expiries) /\ PaidInTime(i, limit, window, expiries)
    BY <1>2, <1>5, <1>13, <2>3 DEF IInv, NeverTooMany
  <2>6. PICK drifted \in Nat : drifted = Drift * expiries
    BY <1>7
  <2>7. PICK x \in Int : x = window + (before + MaxDelay - Slowest - at) + drifted
    BY <1>7
  <2>8. expiries * window <= clock - at /\ window * (used + old) <= limit * x
    <3>1. /\ expiries * window <= Last.at - at /\ expiries * window \in Nat
          /\ window * (used + old) <= limit * x
      BY <2>1, <2>2, <2>4, <2>5, <2>6, <2>7 DEF Paid, Afforded
    <3>2. Last.at \in Nat /\ Last.at <= clock
      <4>1. n \in 1..n
        BY <1>13
      <4>. QED
        BY <1>1, <1>2, <4>1, RunsType DEF IInv, RunsOrdered, Last
    <3>. QED
      BY <1>7, <3>1, <3>2
  <2>9. CASE Live
    <3>1. PICK gain \in Nat : /\ before <= timestamp /\ tokens <= old + gain
                              /\ window * gain <= limit * (timestamp - before)
      <4>1. CASE timestamp = before /\ tokens = old
        <5>1. /\ before <= timestamp /\ tokens <= old + 0
              /\ window * 0 <= limit * (timestamp - before)
          BY <4>1
        <5>. QED
          BY <5>1
      <4>2. CASE before < timestamp /\ tokens <= old + Accrued(timestamp - before, p)
        <5>1. PICK t \in Nat : t = timestamp - before
          BY <4>2
        <5>2. PICK gain \in Nat : gain = Accrued(t, p)
          BY AccruedBounds
        <5>3. window * gain <= limit * t
          BY <1>5, <5>2, AccruedBounds
        <5>4. before <= timestamp /\ tokens <= old + gain
          BY <4>2, <5>1, <5>2
        <5>. QED
          BY <5>1, <5>3, <5>4
      <4>. QED
        BY <2>4, <2>9, <4>1, <4>2 DEF Refill
    <3>2. window * (used + tokens) <= limit * (x + (timestamp - before))
      BY <2>8, <3>1, PayMore
    <3>3. x + (timestamp - before)
            = window + (timestamp + MaxDelay - Slowest - at) + Drift * expiries
      BY <1>7, <2>6, <2>7
    <3>4. window * (later + left)
            <= limit * (window + (timestamp + MaxDelay - Slowest - at) + Drift * expiries)
      <4>1. x + (timestamp - before) \in Int
        OBVIOUS
      <4>. QED
        BY <2>2, <3>2, <3>3, <4>1, PayLess
    <3>5. ~Expirable(p.window) => PaidInTime(i, limit, window, expiries)'
      <4>1. SUFFICES ASSUME ~Expirable(p.window)
                     PROVE  PaidInTime(i, limit, window, expiries)'
        OBVIOUS
      <4>2. bucket'.expires = bucket.expires /\ Used(i)' = Used(i)
        BY <1>3, <1>8, <2>1, <2>2, <2>9, <4>1 DEF Expiry
      <4>. QED
        BY <1>9, <2>2, <2>5, <4>2 DEF PaidInTime
    <3>. QED
      BY <1>10, <2>8, <3>4, <3>5
  <2>10. CASE ~Live /\ used = 0
    <3>1. later + left <= tokens /\ (~Expirable(p.window) => later = 0)
      BY <2>2, <2>10
    <3>. QED
      BY <1>11, <3>1
  <2>11. CASE ~Live /\ used # 0
    <3>1. bucket.expires # None /\ ~(clock <= bucket.expires)
      BY <2>3, <2>11 DEF Live
    <3>2. PICK expires \in Nat : expires = bucket.expires /\ expires < clock
      BY <1>7, <2>3, <3>1, BucketType DEF IInv
    <3>3. PICK again \in Nat : again = expiries + 1
      OBVIOUS
    <3>4. PICK drift \in Nat : drift = Drift * again
      BY <1>7
    <3>5. /\ again * window <= expires - at
          /\ window * used <= limit * (expires - at + drift)
      BY <2>1, <2>2, <2>5, <2>11, <3>1, <3>2, <3>3, <3>4 DEF PaidInTime
    <3>6. PICK y \in Int :
              y = window + (timestamp + MaxDelay - Slowest - at) + Drift * again
      BY <1>7, <3>4
    <3>7. (expires - at + drift) + window <= y
      BY <1>7, <3>2, <3>4, <3>6
    <3>8. window * (used + tokens) <= limit * y
      BY <1>6, <3>5, <3>7, PayFull
    <3>9. window * (later + left) <= limit * y
      BY <2>2, <3>8, PayLess
    <3>10. again * window <= clock - at
      <4>1. again * window \in Nat
        OBVIOUS
      <4>. QED
        BY <1>7, <3>2, <3>5, <4>1
    <3>11. ~Expirable(p.window) => PaidInTime(i, limit, window, again)'
      BY <1>3, <2>11 DEF PaidInTime, Expiry
    <3>. QED
      BY <1>10, <3>6, <3>9, <3>10, <3>11
  <2>. QED
    BY <2>9, <2>10, <2>11
<1>. QED
  BY <1>12, <1>13

LEMMA NeverTooFewKept ==
    ASSUME IInv, NEW p \in Policies, NEW tokens \in Nat, NEW timestamp \in Int,
           Refill(p, tokens, timestamp), Ran(p, tokens, timestamp), UNCHANGED clock
    PROVE  NeverTooFew'
<1>1. PICK n \in Nat : n = Len(runs)
  BY RunsCounted
<1>2. /\ Len(runs') = n + 1 /\ DOMAIN runs' = 1..(n + 1) /\ DOMAIN runs = 1..n
      /\ \A k \in 1..n : runs'[k] = runs[k]
      /\ runs'[n + 1].policy = p
  BY <1>1, RunAdded
<1>3. PICK left \in Nat : left = bucket'.tokens
  BY BucketLeft
<1>4. bucket' # None /\ bucket'.timestamp = timestamp
  BY BucketLeft
<1>5. SUFFICES ASSUME NEW time \in Int, NEW limit \in Nat, NEW window \in Nat,
                      \A k \in 1..(n + 1) : /\ limit <= runs'[k].policy.limit
                                            /\ runs'[k].policy.window <= window
               PROVE  \/ limit * window <= window * (left + UsedAfter(time)')
                      \/ limit * (timestamp - time - Fastest)
                             <= window * (left + UsedAfter(time)')
  BY <1>2, <1>3, <1>4 DEF NeverTooFew
<1>6. /\ limit <= p.limit /\ p.window <= window
      /\ \A k \in 1..n : limit <= runs[k].policy.limit /\ runs[k].policy.window <= window
  <2>1. n + 1 \in 1..(n + 1) /\ \A k \in 1..n : k \in 1..(n + 1)
    OBVIOUS
  <2>. QED
    BY <1>2, <1>5, <2>1
<1>7. PICK used \in Nat, later \in Nat :
          /\ used = UsedAfter(time) /\ later = UsedAfter(time)'
          /\ time < clock => later + left = used + tokens
  <2>1. /\ UsedAfter(time) \in Nat /\ UsedAfter(time)' \in Nat
        /\ time < clock => UsedAfter(time)' + left = UsedAfter(time) + tokens
    BY <1>1, <1>3, UsedAdded
  <2>. QED
    BY <2>1
<1>8. /\ clock \in Nat /\ Fastest \in Int /\ timestamp <= clock + Fastest
  BY DriftType DEF Refill, IInv, TypeOK
<1>. SUFFICES \/ limit * window <= window * (left + later)
              \/ limit * (timestamp - time - Fastest) <= window * (left + later)
  BY <1>7
<1>9. CASE ~(time < clock)
  <2>1. timestamp - time - Fastest <= 0
    BY <1>8, <1>9
  <2>2. limit * (timestamp - time - Fastest) <= limit * 0
    BY <1>8, <2>1, TimesMonotone
  <2>3. window * (left + later) \in Nat /\ limit * (timestamp - time - Fastest) \in Int
    BY <1>8
  <2>. QED
    BY <2>2, <2>3
<1>10. CASE time < clock /\ tokens = p.limit
  <2>1. limit <= tokens
    BY <1>6, <1>10
  <2>2. left + later \in Nat /\ limit <= left + later
    BY <1>7, <1>10, <2>1
  <2>3. window * limit <= window * (left + later)
    BY <2>2, TimesMonotone
  <2>. QED
    BY <2>3
<1>11. CASE time < clock /\ Live /\ tokens # p.limit
  <2>1. bucket # None
    BY <1>11 DEF Live
  <2>2. PICK old \in Nat, before \in Int :
            old = bucket.tokens /\ before = bucket.timestamp
    BY <2>1, BucketType DEF IInv
  <2>3. \/ limit * window <= window * (old + used)
        \/ limit * (before - time - Fastest) <= window * (old + used)
    BY <1>2, <1>6, <1>7, <2>1, <2>2 DEF IInv, NeverTooFew
  <2>4. PICK gain \in Nat, t \in Nat : /\ t = timestamp - before
                                       /\ tokens = old + gain
                                       /\ limit * t <= window * gain
    <3>1. CASE timestamp = before /\ tokens = old
      <4>1. 0 = timestamp - before /\ tokens = old + 0 /\ limit * 0 <= window * 0
        BY <3>1
      <4>. QED
        BY <4>1
    <3>2. CASE before < timestamp /\ tokens = old + Accrued(timestamp - before, p)
      <4>1. PICK t \in Nat : t = timestamp - before
        BY <3>2
      <4>2. PICK gain \in Nat : gain = Accrued(t, p)
        BY AccruedBounds
      <4>3. limit * t <= window * gain
        BY <1>6, <4>2, AccruedBounds
      <4>. QED
        BY <3>2, <4>1, <4>2, <4>3
    <3>. QED
      BY <1>11, <2>2, <3>1, <3>2 DEF Refill
  <2>5. left + later = (old + used) + gain
    BY <1>7, <1>11, <2>4
  <2>6. window * (left + later) = window * (old + used) + window * gain
    BY <2>5
  <2>7. CASE limit * window <= window * (old + used)
    BY <2>6, <2>7
  <2>8. CASE limit * (before - time - Fastest) <= window * (old + used)
    <3>1. limit * (timestamp - time - Fastest) = limit * (before - time - Fastest) + limit * t
      BY <1>8, <2>4
    <3>2. limit * (before - time - Fastest) \in Int /\ limit * t \in Int
      BY <1>8
    <3>. QED
      BY <2>4, <2>6, <2>8, <3>1, <3>2
  <2>. QED
    BY <2>3, <2>7, <2>8
<1>. QED
  BY <1>9, <1>10, <1>11 DEF Refill

LEMMA RunsIInv ==
    ASSUME IInv, NEW c \in Calls, Decide(c) \/ DecideUnheard(c)
    PROVE  IInv'
<1>1. /\ calls[c] # None /\ Consume(calls[c]) /\ UNCHANGED clock
      /\ calls' \in {calls, [calls EXCEPT ![c] = None]}
  BY DEF Decide, DecideUnheard
<1>2. PICK p \in Policies, tokens \in Nat, timestamp \in Int :
          Refill(p, tokens, timestamp) /\ Ran(p, tokens, timestamp)
  BY <1>1, ConsumeRuns
<1>3. calls' \in [Calls -> [policy : Policies, now : Int, at : 0..MaxTime]
                           \union {None}]
  BY <1>1 DEF IInv, TypeOK
<1>4. TypeOK'
  BY <1>1, <1>2, <1>3, TypeKept
<1>5. CallsSound'
  <2>1. \A d \in Calls : calls'[d] # None => calls'[d] = calls[d]
    BY <1>1 DEF IInv, TypeOK
  <2>. QED
    BY <1>1, <2>1 DEF IInv, CallsSound
<1>6. RunsOrdered' /\ BucketSound' /\ Extremal'
  BY <1>1, <1>2, HistoryKept
<1>7. NeverTooMany' /\ NeverTooFew'
  BY <1>1, <1>2, NeverTooManyKept, NeverTooFewKept
<1>. QED
  BY <1>4, <1>5, <1>6, <1>7 DEF IInv

LEMMA StutterIInv == IInv /\ UNCHANGED vars => IInv'
<1>. SUFFICES ASSUME IInv, UNCHANGED vars PROVE IInv'
  OBVIOUS
<1>1. TypeOK' /\ CallsSound' /\ RunsOrdered'
  BY DEF vars, IInv, TypeOK, CallsSound, RunsOrdered
<1>2. UNCHANGED <<bucket, runs>>
  BY DEF vars
<1>. QED
  BY <1>1, <1>2, RunsUnchanged DEF IInv

(* IInv holds in every reachable state.                                    *)
THEOREM Invariance == Spec => []IInv
<1>1. IInv /\ [Next]_vars => IInv'
  BY TickIInv, SendIInv, RunsIInv, StutterIInv DEF Next
<1>. QED
  BY <1>1, InitIInv, PTL DEF Spec
-----------------------------------------------------------------------------
(* The three safety properties are about all runs so far.  Each is shown   *)
(* of the last run in every state, and then of all, as a run once made     *)
(* stays in the history.                                                   *)
LEMMA HistoryGrows ==
    ASSUME IInv, [Next]_vars
    PROVE  \/ runs' = runs
           \/ \E n \in Nat : /\ n = Len(runs) /\ Len(runs') = n + 1
                             /\ DOMAIN runs = 1..n /\ DOMAIN runs' = 1..(n + 1)
                             /\ \A k \in 1..n : runs'[k] = runs[k]
<1>1. ASSUME NEW c \in Calls, Decide(c) \/ DecideUnheard(c)
      PROVE  \E n \in Nat : /\ n = Len(runs) /\ Len(runs') = n + 1
                            /\ DOMAIN runs = 1..n /\ DOMAIN runs' = 1..(n + 1)
                            /\ \A k \in 1..n : runs'[k] = runs[k]
  <2>1. PICK p \in Policies, tokens \in Nat, timestamp \in Int :
            Ran(p, tokens, timestamp)
    BY <1>1, ConsumeRuns DEF Decide, DecideUnheard
  <2>2. PICK n \in Nat : n = Len(runs)
    BY RunsCounted
  <2>. QED
    BY <2>1, <2>2, RunAdded
<1>2. ASSUME Tick \/ (\E c \in Calls : Send(c)) \/ UNCHANGED vars
      PROVE  runs' = runs
  BY <1>2 DEF Tick, Send, vars
<1>. QED
  BY <1>1, <1>2 DEF Next

BoundedBetween(i, j) ==
    LET elapsed == runs[j].at - runs[i].at
        window == Smallest(WindowsOf(j)) IN
    window * (Scale * Cardinality(Granted(i..j)))
        <= Largest(LimitsOf(j)) *
               (window + elapsed + Drift * (1 + elapsed \div window))

LatestBounded == \A i \in DOMAIN runs : BoundedBetween(i, Len(runs))

LEMMA Quotient ==
    ASSUME NEW a \in Nat, NEW b \in Nat \ {0}, NEW e \in Nat, e * b <= a
    PROVE  a \div b \in Nat /\ e <= a \div b
<1>1. PICK q \in Nat : q = a \div b
  OBVIOUS
<1>2. a < (q + 1) * b
  BY <1>1
<1>3. CASE e >= q + 1
  <2>1. (q + 1) * b <= e * b /\ e * b \in Nat /\ (q + 1) * b \in Nat
    BY <1>3, TimesMonotone
  <2>. QED
    BY <1>2, <2>1
<1>. QED
  BY <1>1, <1>3

LEMMA Cancel ==
    ASSUME NEW a \in Int, NEW b \in Int, NEW c \in Nat \ {0}, a * c <= b * c
    PROVE  a <= b
<1>1. CASE b + 1 <= a
  <2>1. (b + 1) * c <= a * c
    BY <1>1, TimesMonotone
  <2>2. (b + 1) * c = b * c + c /\ b * c \in Int /\ a * c \in Int
    OBVIOUS
  <2>. QED
    BY <2>1, <2>2
<1>. QED
  BY <1>1

LEMMA IInvLatestBounded == IInv => LatestBounded
<1>. SUFFICES ASSUME IInv, NEW i \in DOMAIN runs
              PROVE  BoundedBetween(i, Len(runs))
  BY DEF LatestBounded
<1>1. PICK n \in Nat : n = Len(runs)
  BY RunsCounted
<1>2. DOMAIN runs = 1..n /\ i \in 1..n /\ n \in 1..n /\ bucket # None
  BY <1>1, RunsType DEF IInv, BucketSound
<1>3. PICK limit \in Nat, window \in Nat \ {0} :
          /\ limit = Largest(LimitsOf(n)) /\ window = Smallest(WindowsOf(n))
          /\ \A k \in 1..n : /\ runs[k].policy.limit <= limit
                             /\ window <= runs[k].policy.window
  <2>1. Bounds(LimitsOf(n)) /\ Bounds(WindowsOf(n))
    BY <1>2 DEF IInv, Extremal
  <2>2. LimitsOf(n) \subseteq Nat \ {0} /\ WindowsOf(n) \subseteq Nat \ {0}
    BY <1>1, RunsType DEF IInv, LimitsOf, WindowsOf
  <2>3. LimitsOf(n) \in SUBSET Int /\ WindowsOf(n) \in SUBSET Int
    BY <2>2
  <2>4. /\ Largest(LimitsOf(n)) \in LimitsOf(n) /\ Smallest(WindowsOf(n)) \in WindowsOf(n)
        /\ \A x \in LimitsOf(n) : x <= Largest(LimitsOf(n))
        /\ \A x \in WindowsOf(n) : Smallest(WindowsOf(n)) <= x
    BY <2>1, <2>3, Extremes
  <2>5. \A k \in 1..n : /\ runs[k].policy.limit \in LimitsOf(n)
                        /\ runs[k].policy.window \in WindowsOf(n)
    BY DEF LimitsOf, WindowsOf
  <2>. QED
    BY <2>2, <2>4, <2>5
<1>4. PICK tokens \in Nat, timestamp \in Int :
          tokens = bucket.tokens /\ timestamp = bucket.timestamp
  BY <1>2, BucketType DEF IInv
<1>5. PICK used \in Nat : used = Scale * Cardinality(Granted(i..n)) /\ used = Used(i)
  <2>1. IsFiniteSet(1..n) /\ Granted(i..n) \subseteq 1..n
    BY <1>2, FS_Interval DEF Granted, Spent
  <2>2. Cardinality(Granted(i..n)) \in Nat
    BY <2>1, FS_Subset, FS_CardinalityType
  <2>3. Scale * Cardinality(Granted(i..n)) \in Nat
    BY <2>2, RateLimiterAssumption
  <2>. QED
    BY <1>1, <2>3 DEF Used
<1>6. PICK expiries \in Nat :
          /\ expiries * window <= runs[n].at - runs[i].at
          /\ window * (used + tokens)
               <= limit * (window + (timestamp + MaxDelay - Slowest - runs[i].at)
                             + Drift * expiries)
  BY <1>1, <1>2, <1>3, <1>4, <1>5 DEF IInv, NeverTooMany, Paid, Afforded, Last
<1>7. PICK elapsed \in Nat : elapsed = runs[n].at - runs[i].at
  <2>1. runs[n].at \in Nat /\ runs[i].at \in Nat /\ runs[i].at <= runs[n].at
    BY <1>1, <1>2, RunsType DEF IInv, RunsOrdered
  <2>. QED
    BY <2>1
<1>8. /\ timestamp <= runs[n].at + Fastest
      /\ runs[n].at \in Nat /\ runs[i].at \in Nat
      /\ Drift = Fastest - Slowest + MaxDelay /\ Drift \in Nat
      /\ Slowest \in Int /\ Fastest \in Int /\ MaxDelay \in Nat
  BY <1>1, <1>2, <1>4, RunsType, DriftType, RateLimiterAssumption
  DEF IInv, BucketSound, Last
<1>9. PICK times \in Nat : times = elapsed \div window /\ expiries <= times
  BY <1>6, <1>7, Quotient
<1>10. PICK share \in Nat : share = window + elapsed + Drift * (1 + times)
  BY <1>8
<1>11. PICK x \in Int :
           x = window + (timestamp + MaxDelay - Slowest - runs[i].at) + Drift * expiries
  BY <1>8
<1>12. x <= share
  <2>1. Drift * expiries <= Drift * times /\ Drift * expiries \in Nat
    BY <1>8, <1>9, TimesMonotone
  <2>2. share = window + elapsed + Drift + Drift * times /\ Drift * times \in Nat
    BY <1>8, <1>10
  <2>. QED
    BY <1>7, <1>8, <1>11, <2>1, <2>2
<1>13. window * used <= limit * share
  <2>1. window * (used + tokens) <= limit * x /\ used <= used + tokens
    BY <1>6, <1>11
  <2>. QED
    BY <1>12, <2>1, PayLess
<1>. QED
  BY <1>1, <1>3, <1>5, <1>7, <1>9, <1>10, <1>13 DEF BoundedBetween

(* What was granted before the n-th run and what it was given stays.       *)
LEMMA PrefixKept ==
    ASSUME NEW n \in Nat, \A k \in 1..n : runs'[k] = runs[k]
    PROVE  /\ \A j \in 1..n : LimitsOf(j)' = LimitsOf(j) /\ WindowsOf(j)' = WindowsOf(j)
           /\ \A S \in SUBSET (1..n) : Granted(S)' = Granted(S) /\ Spent(S)' = Spent(S)
<1>1. ASSUME NEW j \in 1..n
      PROVE  LimitsOf(j)' = LimitsOf(j) /\ WindowsOf(j)' = WindowsOf(j)
  <2>1. \A k \in 1..j : runs'[k] = runs[k]
    OBVIOUS
  <2>. QED
    BY <2>1 DEF LimitsOf, WindowsOf
<1>2. ASSUME NEW S \in SUBSET (1..n)
      PROVE  Granted(S)' = Granted(S) /\ Spent(S)' = Spent(S)
  <2>1. Spent(S)' = Spent(S)
    BY DEF Spent
  <2>2. Granted(S)' = Granted(S)
    BY <2>1 DEF Granted, Spent, Answered
  <2>. QED
    BY <2>1, <2>2
<1>. QED
  BY <1>1, <1>2

LEMMA GrantsBoundedKept ==
    IInv /\ [Next]_vars /\ GrantsBounded /\ LatestBounded' => GrantsBounded'
<1>. SUFFICES ASSUME IInv, [Next]_vars, GrantsBounded, LatestBounded'
              PROVE  GrantsBounded'
  OBVIOUS
<1>1. ASSUME NEW n \in Nat, DOMAIN runs = 1..n, \A k \in 1..n : runs'[k] = runs[k],
             NEW i \in 1..n, NEW j \in 1..n, i <= j
      PROVE  BoundedBetween(i, j)'
  <2>1. BoundedBetween(i, j)
    BY <1>1 DEF GrantsBounded, BoundedBetween
  <2>2. PICK S \in SUBSET (1..n) : S = i..j
    OBVIOUS
  <2>3. /\ LimitsOf(j)' = LimitsOf(j) /\ WindowsOf(j)' = WindowsOf(j)
        /\ Granted(S)' = Granted(S)
        /\ runs'[i] = runs[i] /\ runs'[j] = runs[j]
    BY <1>1, PrefixKept
  <2>4. Granted(i..j)' = Granted(i..j)
    BY <2>2, <2>3
  <2>. QED
    BY <2>1, <2>3, <2>4 DEF BoundedBetween
<1>2. CASE runs' = runs
  <2>1. PICK n \in Nat : DOMAIN runs = 1..n
    BY RunsCounted
  <2>2. \A i, j \in 1..n : i <= j => BoundedBetween(i, j)'
    BY <1>1, <1>2, <2>1
  <2>. QED
    BY <1>2, <2>1, <2>2 DEF GrantsBounded, BoundedBetween
<1>3. CASE \E n \in Nat : /\ n = Len(runs) /\ Len(runs') = n + 1
                          /\ DOMAIN runs = 1..n /\ DOMAIN runs' = 1..(n + 1)
                          /\ \A k \in 1..n : runs'[k] = runs[k]
  <2>1. PICK n \in Nat : /\ Len(runs') = n + 1
                         /\ DOMAIN runs = 1..n /\ DOMAIN runs' = 1..(n + 1)
                         /\ \A k \in 1..n : runs'[k] = runs[k]
    BY <1>3
  <2>2. \A i, j \in 1..n : i <= j => BoundedBetween(i, j)'
    BY <1>1, <2>1
  <2>3. ASSUME NEW i \in 1..(n + 1)
        PROVE  BoundedBetween(i, n + 1)'
    BY <2>1 DEF LatestBounded, BoundedBetween
  <2>4. ASSUME NEW i \in 1..(n + 1), NEW j \in 1..(n + 1), i <= j
        PROVE  BoundedBetween(i, j)'
    <3>1. CASE j = n + 1
      BY <2>3, <3>1
    <3>2. CASE j \in 1..n
      <4>1. i \in 1..n
        BY <2>4, <3>2
      <4>. QED
        BY <2>2, <2>4, <3>2, <4>1
    <3>. QED
      BY <3>1, <3>2
  <2>. QED
    BY <2>1, <2>4 DEF GrantsBounded, BoundedBetween
<1>. QED
  BY <1>2, <1>3, HistoryGrows

JustifiedAt(i) ==
    ~runs[i].allowed =>
        LET since == Largest(WindowsOf(i)) + Drift IN
        Smallest(LimitsOf(i)) <
            Scale * (Cardinality(Spent({k \in 1..i : runs[i].at - runs[k].at < since})) + 1)

LatestJustified == \A i \in DOMAIN runs : i = Len(runs) => JustifiedAt(i)

LEMMA IInvLatestJustified == IInv => LatestJustified
<1>. SUFFICES ASSUME IInv, NEW n \in DOMAIN runs, n = Len(runs), ~runs[n].allowed
              PROVE  JustifiedAt(n)
  BY DEF LatestJustified, JustifiedAt
<1>1. n \in Nat /\ DOMAIN runs = 1..n
  BY RunsType DEF IInv
<1>2. /\ DOMAIN runs = 1..n /\ n \in 1..n /\ bucket # None /\ ~runs[n].allowed
      /\ \A k \in 1..n : runs[k].at \in Nat
  BY <1>1, RunsType DEF IInv, BucketSound
<1>3. PICK limit \in Nat, window \in Nat \ {0} :
          /\ limit = Smallest(LimitsOf(n)) /\ window = Largest(WindowsOf(n))
          /\ \A k \in 1..n : /\ limit <= runs[k].policy.limit
                             /\ runs[k].policy.window <= window
  <2>1. Bounds(LimitsOf(n)) /\ Bounds(WindowsOf(n))
    BY <1>2 DEF IInv, Extremal
  <2>2. LimitsOf(n) \subseteq Nat \ {0} /\ WindowsOf(n) \subseteq Nat \ {0}
    BY <1>1, RunsType DEF IInv, LimitsOf, WindowsOf
  <2>3. LimitsOf(n) \in SUBSET Int /\ WindowsOf(n) \in SUBSET Int
    BY <2>2
  <2>4. /\ Smallest(LimitsOf(n)) \in LimitsOf(n) /\ Largest(WindowsOf(n)) \in WindowsOf(n)
        /\ \A x \in LimitsOf(n) : Smallest(LimitsOf(n)) <= x
        /\ \A x \in WindowsOf(n) : x <= Largest(WindowsOf(n))
    BY <2>1, <2>3, Extremes
  <2>5. \A k \in 1..n : /\ runs[k].policy.limit \in LimitsOf(n)
                        /\ runs[k].policy.window \in WindowsOf(n)
    BY DEF LimitsOf, WindowsOf
  <2>. QED
    BY <2>2, <2>4, <2>5
<1>4. PICK tokens \in Nat, timestamp \in Int :
          tokens = bucket.tokens /\ timestamp = bucket.timestamp
  BY <1>2, BucketType DEF IInv
<1>5. /\ Drift = Fastest - Slowest + MaxDelay /\ Drift \in Nat
      /\ Slowest \in Int /\ Fastest \in Int /\ MaxDelay \in Nat /\ Scale \in Nat \ {0}
  BY DriftType, RateLimiterAssumption
<1>6. PICK at \in Nat : at = runs[n].at
  BY <1>2
<1>7. at + Slowest - MaxDelay <= timestamp /\ tokens < Scale
  BY <1>1, <1>2, <1>4, <1>6 DEF IInv, BucketSound, Last
<1>8. PICK time \in Int : time = at - (window + Drift)
  BY <1>5
<1>9. After(time) = {k \in 1..n : runs[n].at - runs[k].at < window + Drift}
  <2>1. \A x \in Nat : time < x <=> at - x < window + Drift
    BY <1>5, <1>8
  <2>2. \A k \in 1..n : time < runs[k].at <=> runs[n].at - runs[k].at < window + Drift
    BY <1>2, <1>6, <2>1
  <2>. QED
    BY <1>2, <2>2 DEF After
<1>10. PICK taken \in Nat : taken = Cardinality(Spent(After(time)))
  <2>1. IsFiniteSet(1..n) /\ Spent(After(time)) \subseteq 1..n
    BY <1>2, FS_Interval DEF Spent, After
  <2>. QED
    BY <2>1, FS_Subset, FS_CardinalityType
<1>11. PICK paid \in Nat : paid = Scale * taken
  BY <1>5
<1>12. limit * window <= window * (tokens + paid)
  <2>1. PICK passed \in Int : passed = timestamp - time - Fastest
    BY <1>5
  <2>2. \/ limit * window <= window * (tokens + paid)
        \/ limit * passed <= window * (tokens + paid)
    BY <1>2, <1>3, <1>4, <1>10, <1>11, <2>1 DEF IInv, NeverTooFew, UsedAfter
  <2>3. window <= passed
    BY <1>5, <1>7, <1>8, <2>1
  <2>4. limit * window <= limit * passed
    BY <2>3, TimesMonotone
  <2>5. /\ limit * window \in Int /\ limit * passed \in Int
        /\ window * (tokens + paid) \in Int
    OBVIOUS
  <2>. QED
    BY <2>2, <2>4, <2>5
<1>13. limit <= tokens + paid
  <2>1. limit * window <= (tokens + paid) * window
    BY <1>12
  <2>. QED
    BY <2>1, Cancel
<1>14. limit < Scale * (taken + 1)
  <2>1. Scale * (taken + 1) = paid + Scale
    BY <1>5, <1>11
  <2>. QED
    BY <1>5, <1>7, <1>13, <2>1
<1>. QED
  BY <1>1, <1>3, <1>9, <1>10, <1>14 DEF JustifiedAt

LEMMA RefusalsJustifiedKept ==
    IInv /\ [Next]_vars /\ RefusalsJustified /\ LatestJustified' => RefusalsJustified'
<1>. SUFFICES ASSUME IInv, [Next]_vars, RefusalsJustified, LatestJustified'
              PROVE  RefusalsJustified'
  OBVIOUS
<1>1. ASSUME NEW n \in Nat, DOMAIN runs = 1..n, \A k \in 1..n : runs'[k] = runs[k],
             NEW i \in 1..n
      PROVE  JustifiedAt(i)'
  <2>1. JustifiedAt(i)
    BY <1>1 DEF RefusalsJustified, JustifiedAt
  <2>2. PICK S \in SUBSET (1..n) :
            S = {k \in 1..i : runs[i].at - runs[k].at < Largest(WindowsOf(i)) + Drift}
    <3>1. {k \in 1..i : runs[i].at - runs[k].at < Largest(WindowsOf(i)) + Drift}
            \in SUBSET (1..n)
      BY <1>1
    <3>. QED
      BY <3>1
  <2>3. /\ LimitsOf(i)' = LimitsOf(i) /\ WindowsOf(i)' = WindowsOf(i)
        /\ Spent(S)' = Spent(S) /\ runs'[i] = runs[i]
        /\ \A k \in 1..i : runs'[k] = runs[k]
    <3>1. /\ LimitsOf(i)' = LimitsOf(i) /\ WindowsOf(i)' = WindowsOf(i)
          /\ Spent(S)' = Spent(S)
      BY <1>1, PrefixKept
    <3>. QED
      BY <1>1, <3>1
  <2>4. S = {k \in 1..i : runs'[i].at - runs'[k].at < Largest(WindowsOf(i)') + Drift}
    BY <2>2, <2>3
  <2>5. ~runs[i].allowed => Smallest(LimitsOf(i)) < Scale * (Cardinality(Spent(S)) + 1)
    BY <2>1, <2>2 DEF JustifiedAt
  <2>6. ~runs'[i].allowed => Smallest(LimitsOf(i)') < Scale * (Cardinality(Spent(S)') + 1)
    BY <2>3, <2>5
  <2>. QED
    BY <2>4, <2>6 DEF JustifiedAt, Spent
<1>2. CASE runs' = runs
  <2>1. PICK n \in Nat : DOMAIN runs = 1..n
    BY RunsCounted
  <2>2. \A i \in 1..n : JustifiedAt(i)'
    BY <1>1, <1>2, <2>1
  <2>. QED
    BY <1>2, <2>1, <2>2 DEF RefusalsJustified, JustifiedAt
<1>3. CASE \E n \in Nat : /\ n = Len(runs) /\ Len(runs') = n + 1
                          /\ DOMAIN runs = 1..n /\ DOMAIN runs' = 1..(n + 1)
                          /\ \A k \in 1..n : runs'[k] = runs[k]
  <2>1. PICK n \in Nat : /\ Len(runs') = n + 1
                         /\ DOMAIN runs = 1..n /\ DOMAIN runs' = 1..(n + 1)
                         /\ \A k \in 1..n : runs'[k] = runs[k]
    BY <1>3
  <2>2. \A i \in 1..n : JustifiedAt(i)'
    BY <1>1, <2>1
  <2>3. JustifiedAt(n + 1)'
    BY <2>1 DEF LatestJustified, JustifiedAt
  <2>4. \A i \in 1..(n + 1) : i \in 1..n \/ i = n + 1
    OBVIOUS
  <2>5. \A i \in 1..(n + 1) : JustifiedAt(i)'
    BY <2>2, <2>3, <2>4
  <2>. QED
    BY <2>1, <2>5 DEF RefusalsJustified, JustifiedAt
<1>. QED
  BY <1>2, <1>3, HistoryGrows

(* A key that is gone is a full bucket, which has a token if any has.      *)
LEMMA RetryAfterHonouredKept ==
    IInv /\ [Next]_vars /\ RetryAfterHonoured => RetryAfterHonoured'
<1>. SUFFICES ASSUME IInv, [Next]_vars, RetryAfterHonoured
              PROVE  RetryAfterHonoured'
  OBVIOUS
<1>1. ASSUME NEW c \in Calls, Decide(c) \/ DecideUnheard(c)
      PROVE  RetryAfterHonoured'
  <2>1. PICK p \in Policies, tokens \in Nat, timestamp \in Int :
            Refill(p, tokens, timestamp) /\ Ran(p, tokens, timestamp)
    BY <1>1, ConsumeRuns DEF Decide, DecideUnheard
  <2>2. PICK n \in Nat : n = Len(runs)
    BY RunsCounted
  <2>3. /\ DOMAIN runs' = 1..(n + 1) /\ DOMAIN runs = 1..n
        /\ \A k \in 1..n : runs'[k] = runs[k]
        /\ runs'[n + 1].at = clock /\ runs'[n + 1].policy = p
        /\ runs'[n + 1].allowed = Enough(tokens)
    BY <2>1, <2>2, RunAdded
  <2>4. ASSUME n > 0, Answered(runs[n]), clock - runs[n].at > runs[n].policy.window
        PROVE  runs'[n + 1].allowed \/ p.limit < Scale
    <3>1. n \in 1..n /\ runs[n].at \in Nat /\ runs[n].policy.window \in Nat /\ clock \in Nat
      BY <2>2, <2>4, RunsType, RateLimiterAssumption DEF IInv, TypeOK
    <3>2. ~Live
      <4>1. bucket.expires = runs[n].at + runs[n].policy.window
        BY <2>2, <2>4, <3>1 DEF IInv, BucketSound, Last
      <4>2. bucket.expires \in Nat /\ bucket.expires # None /\ ~(clock <= bucket.expires)
        BY <2>4, <3>1, <4>1, RateLimiterAssumption
      <4>. QED
        BY <4>2 DEF Live
    <3>3. tokens = p.limit
      BY <2>1, <3>2 DEF Refill
    <3>4. PICK limit \in Nat : limit = p.limit
      BY Rate
    <3>5. limit >= Scale \/ limit < Scale
      BY RateLimiterAssumption
    <3>. QED
      BY <2>3, <3>3, <3>4, <3>5 DEF Enough
  <2>5. ASSUME NEW i \in 1..(n + 1), i > 1, Answered(runs'[i - 1]),
               runs'[i].at - runs'[i - 1].at > runs'[i - 1].policy.window
        PROVE  runs'[i].allowed \/ runs'[i].policy.limit < Scale
    <3>1. i - 1 \in 1..n /\ runs'[i - 1] = runs[i - 1]
      BY <2>3, <2>5
    <3>2. CASE i = n + 1
      <4>1. i - 1 = n /\ n > 0
        BY <2>5, <3>2
      <4>. QED
        BY <2>3, <2>4, <2>5, <3>1, <3>2, <4>1
    <3>3. CASE i \in 1..n
      BY <2>3, <2>5, <3>1, <3>3 DEF RetryAfterHonoured, Answered
    <3>. QED
      BY <3>2, <3>3
  <2>. QED
    BY <2>3, <2>5 DEF RetryAfterHonoured, Answered
<1>2. ASSUME Tick \/ (\E c \in Calls : Send(c)) \/ UNCHANGED vars
      PROVE  RetryAfterHonoured'
  <2>1. runs' = runs
    BY <1>2 DEF Tick, Send, vars
  <2>. QED
    BY <2>1 DEF RetryAfterHonoured, Answered
<1>. QED
  BY <1>1, <1>2 DEF Next
-----------------------------------------------------------------------------
(* Every variable has its type, and the bucket of src/ratelimit/           *)
(* rate-limiter.ts never holds more than some limit in use.                *)
THEOREM TypeCorrect == Spec => []TypeOK
<1>1. IInv => TypeOK
  BY DEF IInv
<1>. QED
  BY <1>1, Invariance, PTL

(* The script grants no more than a full bucket and what accrues, for any  *)
(* positive limits and windows, whole or not and long enough for PEXPIRE   *)
(* or not, any number of gateways and calls, any delays, repeated runs and *)
(* clocks that differ by a bounded amount.                                 *)
THEOREM LimitEnforced == Spec => []GrantsBounded
<1>1. Init => GrantsBounded
  <2>1. SUFFICES ASSUME Init PROVE GrantsBounded
    OBVIOUS
  <2>2. DOMAIN runs = {}
    BY <2>1 DEF Init
  <2>. QED
    BY <2>2 DEF GrantsBounded
<1>. QED
  BY <1>1, GrantsBoundedKept, IInvLatestBounded, Invariance, PTL DEF Spec

(* The script refuses only a client that has taken so many tokens lately   *)
(* that one more would be more than the limit, under the same              *)
(* circumstances.                                                          *)
THEOREM RefusedForCause == Spec => []RefusalsJustified
<1>1. Init => RefusalsJustified
  <2>1. SUFFICES ASSUME Init PROVE RefusalsJustified
    OBVIOUS
  <2>2. DOMAIN runs = {}
    BY <2>1 DEF Init
  <2>. QED
    BY <2>2 DEF RefusalsJustified
<1>. QED
  BY <1>1, RefusalsJustifiedKept, IInvLatestJustified, Invariance, PTL DEF Spec

(* The window a client is told to wait for (`retry-after`) is enough, for  *)
(* every limit of one or more: after it the client is given a token.       *)
THEOREM RetryAfterHolds == Spec => []RetryAfterHonoured
<1>1. Init => RetryAfterHonoured
  <2>1. SUFFICES ASSUME Init PROVE RetryAfterHonoured
    OBVIOUS
  <2>2. DOMAIN runs = {}
    BY <2>1 DEF Init
  <2>. QED
    BY <2>2 DEF RetryAfterHonoured
<1>. QED
  BY <1>1, RetryAfterHonouredKept, Invariance, PTL DEF Spec
-----------------------------------------------------------------------------
(* Clocks that agree, and one policy.                                      *)
InStep == (\E p : Policies = {p}) /\ Drift = 0

LEMMA InStepFacts ==
    ASSUME InStep
    PROVE  /\ Policies = {Policy} /\ Policy \in Policies
           /\ Fastest = Slowest /\ MaxDelay = 0
<1>1. Policies = {Policy}
  BY DEF InStep, Policy
<1>2. Fastest = Slowest /\ MaxDelay = 0
  BY DriftType, RateLimiterAssumption DEF InStep
<1>. QED
  BY <1>1, <1>2

(* What accrues accrues evenly, a full bucket in every window.             *)
LEMMA AccruedEvenly ==
    ASSUME NEW p \in Policies, NEW time \in Nat, NEW step \in Nat
    PROVE  /\ Accrued(time, p) \in Nat /\ Accrued(step, p) \in Nat /\ Accrued(0, p) = 0
           /\ Accrued(time + step, p) = Accrued(time, p) + Accrued(step, p)
           /\ p.window <= time => p.limit <= Accrued(time, p)
<1>1. PICK rate \in Nat : rate = p.limit \div p.window
  BY Rate
<1>2. /\ p.window \in Nat /\ rate * p.window = p.limit
      /\ \A t : Accrued(t, p) = t * rate
  BY <1>1, Rate DEF Accrued
<1>3. \A t \in Nat : Accrued(t, p) = rate * t
  BY <1>2
<1>4. /\ Accrued(time, p) = rate * time /\ Accrued(step, p) = rate * step
      /\ Accrued(0, p) = 0 /\ Accrued(time + step, p) = rate * (time + step)
  BY <1>3
<1>5. p.window <= time => rate * p.window <= rate * time
  BY <1>2, TimesMonotone
<1>6. /\ rate * (time + step) = rate * time + rate * step
      /\ rate * time \in Nat /\ rate * step \in Nat
  BY Distributes
<1>. QED
  BY <1>2, <1>4, <1>5, <1>6

(* The key expires a window after the last run, or never.                  *)
ExpiresIn(time) ==
    IF Expirable(Policy.window) THEN bucket.expires + time = clock + Policy.window
    ELSE bucket.expires = None

(* The bucket's timestamp is that of the last run, on the gateways' clock, *)
(* and its level what it held then and what has accrued.                   *)
LEMMA LevelIs ==
    ASSUME IInv, InStep
    PROVE  /\ Policy.limit \in Nat
           /\ bucket = None => Level = Policy.limit
           /\ bucket # None =>
                 \E time \in Nat :
                    /\ clock + Slowest = bucket.timestamp + time
                    /\ ExpiresIn(time)
                    /\ bucket.tokens <= Policy.limit
                    /\ Level = Capped(bucket.tokens + Accrued(time, Policy), Policy)
<1>. USE DEF IInv
<1>1. Policies = {Policy} /\ Policy \in Policies /\ Fastest = Slowest /\ MaxDelay = 0
  BY InStepFacts
<1>2. Policy.limit \in Nat /\ Policy.window \in Nat
  BY <1>1, Rate
<1>3. bucket = None => Level = Policy.limit
  BY DEF Level
<1>4. ASSUME bucket # None
      PROVE  \E time \in Nat :
                 /\ clock + Slowest = bucket.timestamp + time
                 /\ ExpiresIn(time)
                 /\ bucket.tokens <= Policy.limit
                 /\ Level = Capped(bucket.tokens + Accrued(time, Policy), Policy)
  <2>1. Len(runs) \in 1..Len(runs) /\ Len(runs) \in DOMAIN runs
    BY <1>4, RunsType DEF BucketSound
  <2>2. PICK at \in Nat : at = Last.at /\ at <= clock
    BY <2>1, RunsType DEF Last, RunsOrdered
  <2>3. Last.policy = Policy
    BY <1>1, <2>1, RunsType DEF Last
  <2>4. /\ at + Slowest - MaxDelay <= bucket.timestamp /\ bucket.timestamp <= at + Fastest
        /\ bucket.timestamp \in Int /\ Slowest \in Int /\ clock \in Nat
    BY <1>4, <2>2, BucketType, DriftType DEF BucketSound, TypeOK
  <2>5. bucket.timestamp = at + Slowest
    BY <1>1, <2>2, <2>4
  <2>6. PICK time \in Nat : clock = at + time
    <3>1. clock - at \in Nat
      BY <2>2, <2>4
    <3>. QED
      BY <2>2, <2>4, <3>1
  <2>7. clock + Slowest = bucket.timestamp + time /\ clock + Slowest - bucket.timestamp = time
    BY <2>2, <2>4, <2>5, <2>6
  <2>8. ExpiresIn(time)
    <3>1. CASE Expirable(Policy.window)
      <4>1. bucket.expires = at + Policy.window
        BY <1>4, <2>2, <2>3, <3>1 DEF BucketSound, Answered
      <4>. QED
        BY <1>2, <2>6, <3>1, <4>1 DEF ExpiresIn
    <3>2. CASE ~Expirable(Policy.window)
      <4>1. \A k \in DOMAIN runs : ~Answered(runs[k])
        BY <1>1, <3>2, RunsType DEF Answered
      <4>. QED
        BY <1>4, <3>2, <4>1 DEF BucketSound, ExpiresIn
    <3>. QED
      BY <3>1, <3>2
  <2>9. bucket.tokens <= Policy.limit
    BY <1>1, <1>4 DEF TypeOK
  <2>10. Level = Capped(bucket.tokens + Accrued(time, Policy), Policy)
    BY <1>4, <2>7 DEF Level, Slowest
  <2>. QED
    BY <2>7, <2>8, <2>9, <2>10
<1>. QED
  BY <1>2, <1>3, <1>4

LEMMA TickAccrues ==
    ASSUME IInv, InStep, Tick
    PROVE  Ideal!Accrue
<1>1. Milli \in Nat
  BY RateLimiterAssumption
<1>2. clock' = clock + Milli /\ UNCHANGED <<bucket, runs>>
  BY DEF Tick
<1>3. Taken' = Taken
  BY <1>2 DEF Taken
<1>4. PICK full, gain : full = Policy.limit /\ gain = Accrued(Milli, Policy)
  OBVIOUS
<1>5. full \in Nat /\ gain \in Nat
  BY <1>1, <1>4, LevelIs, InStepFacts, AccruedEvenly
<1>6. Level' = IF Level + gain > full THEN full ELSE Level + gain
  <2>1. CASE bucket = None
    <3>1. Level = full /\ Level' = full
      BY <1>2, <1>4, <2>1 DEF Level
    <3>. QED
      BY <1>5, <3>1
  <2>2. CASE bucket # None
    <3>1. PICK time \in Nat :
              /\ clock + Slowest = bucket.timestamp + time
              /\ bucket.tokens <= full
              /\ Level = Capped(bucket.tokens + Accrued(time, Policy), Policy)
      BY <1>4, <2>2, LevelIs
    <3>2. /\ bucket.timestamp \in Int /\ bucket.tokens \in Nat /\ clock \in Nat
          /\ Slowest \in Int
      BY <2>2, BucketType, DriftType DEF IInv, TypeOK
    <3>3. clock' + Slowest - bucket'.timestamp = time + Milli
      BY <1>1, <1>2, <3>1, <3>2
    <3>4. Level' = Capped(bucket.tokens + Accrued(time + Milli, Policy), Policy)
      BY <1>2, <2>2, <3>3 DEF Level, Slowest
    <3>5. /\ Accrued(time, Policy) \in Nat
          /\ Accrued(time + Milli, Policy) = Accrued(time, Policy) + gain
      BY <1>1, <1>4, InStepFacts, AccruedEvenly
    <3>6. PICK held \in Nat : held = bucket.tokens + Accrued(time, Policy)
      BY <3>2, <3>5
    <3>7. bucket.tokens + Accrued(time + Milli, Policy) = held + gain
      BY <1>5, <3>2, <3>5, <3>6
    <3>8. /\ Level = IF held > full THEN full ELSE held
          /\ Level' = IF held + gain > full THEN full ELSE held + gain
      BY <1>4, <3>1, <3>4, <3>6, <3>7 DEF Capped
    <3>. QED
      BY <1>5, <3>6, <3>8
  <2>. QED
    BY <2>1, <2>2
<1>. QED
  BY <1>2, <1>3, <1>4, <1>6 DEF Ideal!Accrue

(* A run finds the bucket at its level, expired or not.                    *)
LEMMA RunFindsLevel ==
    ASSUME IInv, InStep, NEW tokens \in Nat, NEW timestamp \in Int,
           Refill(Policy, tokens, timestamp)
    PROVE  tokens = Level /\ timestamp = clock + Slowest /\ tokens <= Policy.limit
<1>1. PICK full \in Nat : full = Policy.limit
  BY LevelIs
<1>2. timestamp = clock + Slowest /\ clock \in Nat /\ Slowest \in Int
  <2>1. clock + Slowest - MaxDelay <= timestamp /\ timestamp <= clock + Fastest
    BY DEF Refill
  <2>2. clock \in Nat /\ Slowest \in Int
    BY DriftType, RateLimiterAssumption DEF IInv, TypeOK
  <2>. QED
    BY <2>1, <2>2, InStepFacts
<1>3. CASE bucket = None
  <2>1. ~Live
    BY <1>3 DEF Live
  <2>. QED
    BY <1>1, <1>2, <1>3, <2>1, LevelIs DEF Refill
<1>4. CASE bucket # None
  <2>1. PICK time \in Nat :
            /\ clock + Slowest = bucket.timestamp + time
            /\ ExpiresIn(time)
            /\ bucket.tokens <= full
            /\ Level = Capped(bucket.tokens + Accrued(time, Policy), Policy)
    BY <1>1, <1>4, LevelIs
  <2>2. PICK gain \in Nat : /\ gain = Accrued(time, Policy)
                            /\ time = 0 => gain = 0
                            /\ Policy.window <= time => full <= gain
    BY <1>1, InStepFacts, AccruedEvenly
  <2>3. bucket.tokens \in Nat /\ bucket.timestamp \in Int
    BY <1>4, BucketType DEF IInv
  <2>4. Level = IF bucket.tokens + gain > full THEN full ELSE bucket.tokens + gain
    BY <1>1, <2>1, <2>2 DEF Capped
  <2>5. CASE ~Live
    <3>1. bucket.expires # None /\ ~(clock <= bucket.expires)
      BY <1>4, <2>5 DEF Live
    <3>2. PICK expires \in Nat, window \in Nat :
              expires = bucket.expires /\ window = Policy.window
      BY <1>4, <3>1, BucketType, InStepFacts, Rate DEF IInv
    <3>3. Policy.window <= time
      <4>1. expires < clock
        BY <1>2, <3>1, <3>2
      <4>2. expires + time = clock + window
        BY <2>1, <3>1, <3>2 DEF ExpiresIn
      <4>3. window <= time
        BY <1>2, <4>1, <4>2
      <4>. QED
        BY <3>2, <4>3
    <3>4. tokens = full
      BY <1>1, <2>5 DEF Refill
    <3>. QED
      BY <1>1, <1>2, <2>2, <2>3, <2>4, <3>3, <3>4
  <2>6. CASE Live /\ timestamp = bucket.timestamp /\ tokens = bucket.tokens
    <3>1. time = 0
      BY <1>2, <2>1, <2>3, <2>6
    <3>. QED
      BY <1>1, <1>2, <2>1, <2>2, <2>3, <2>4, <2>6, <3>1
  <2>7. CASE /\ Live /\ bucket.timestamp < timestamp
             /\ LET all == bucket.tokens + Accrued(timestamp - bucket.timestamp, Policy) IN
                /\ tokens <= all /\ tokens <= full
                /\ tokens = all \/ tokens = full
    <3>1. timestamp - bucket.timestamp = time
      BY <1>2, <2>1, <2>3
    <3>2. /\ tokens <= bucket.tokens + gain /\ tokens <= full
          /\ tokens = bucket.tokens + gain \/ tokens = full
      BY <2>2, <2>7, <3>1
    <3>. QED
      BY <1>1, <1>2, <2>2, <2>3, <2>4, <3>2
  <2>. QED
    BY <1>1, <2>5, <2>6, <2>7 DEF Refill
<1>. QED
  BY <1>3, <1>4

LEMMA RunDecides ==
    ASSUME IInv, InStep, NEW c \in Calls, Decide(c) \/ DecideUnheard(c)
    PROVE  Ideal!Admit \/ Ideal!Refuse
<1>1. calls[c] # None /\ Consume(calls[c]) /\ clock' = clock
  BY DEF Decide, DecideUnheard
<1>2. PICK tokens \in Nat, timestamp \in Int :
          Refill(Policy, tokens, timestamp) /\ Ran(Policy, tokens, timestamp)
  BY <1>1, ConsumeRuns, InStepFacts
<1>3. PICK full \in Nat : full = Policy.limit
  BY LevelIs
<1>4. tokens = Level /\ timestamp = clock + Slowest /\ tokens <= full
  BY <1>2, <1>3, RunFindsLevel
<1>5. /\ bucket' # None /\ bucket'.timestamp = timestamp
      /\ bucket'.tokens = IF tokens >= Scale THEN tokens - Scale ELSE tokens
      /\ Policy \in Policies /\ Scale \in Nat
  BY <1>2, BucketLeft, InStepFacts, RateLimiterAssumption
<1>6. Level' = IF Level >= Scale THEN Level - Scale ELSE Level
  <2>1. clock' + Slowest - bucket'.timestamp = 0
    BY <1>1, <1>4, <1>5, DriftType DEF IInv, TypeOK
  <2>2. Level' = Capped(bucket'.tokens + Accrued(0, Policy), Policy)
    BY <1>5, <2>1 DEF Level, Slowest
  <2>3. Accrued(0, Policy) = 0
    BY <1>5, AccruedEvenly
  <2>4. bucket'.tokens \in Nat /\ bucket'.tokens <= full
    BY <1>3, <1>4, <1>5
  <2>5. Level' = bucket'.tokens
    BY <1>3, <2>2, <2>3, <2>4 DEF Capped
  <2>. QED
    BY <1>4, <1>5, <2>5
<1>7. Taken' = Append(Taken, IF Level >= Scale THEN Scale ELSE 0)
  <2>1. PICK n \in Nat : n = Len(runs)
    BY RunsCounted
  <2>2. /\ DOMAIN runs' = 1..(n + 1) /\ DOMAIN runs = 1..n
        /\ \A k \in 1..n : runs'[k] = runs[k]
        /\ runs'[n + 1].allowed = Enough(tokens)
    <3>1. PICK p \in Policies : Ran(p, tokens, timestamp)
      BY <1>2, <1>5
    <3>2. /\ DOMAIN runs' = 1..(n + 1) /\ DOMAIN runs = 1..n
          /\ \A k \in 1..n : runs'[k] = runs[k]
      BY <2>1, <3>1, RunAdded
    <3>3. runs'[n + 1].allowed = Enough(tokens)
      BY <2>1, <3>1, RunAdded
    <3>. QED
      BY <3>2, <3>3, Zenon
  <2>3. PICK new \in Nat : new = IF Level >= Scale THEN Scale ELSE 0
    BY <1>5
  <2>4. /\ Taken \in Seq(Nat) /\ Len(Taken) = n
        /\ \A k \in 1..n : Taken[k] = IF runs[k].allowed THEN Scale ELSE 0
    BY <1>5, <2>2 DEF Taken
  <2>5. /\ Taken' \in Seq(Nat) /\ Len(Taken') = n + 1
        /\ \A k \in 1..n : Taken'[k] = IF runs[k].allowed THEN Scale ELSE 0
        /\ Taken'[n + 1] = IF Enough(tokens) THEN Scale ELSE 0
    BY <1>5, <2>2 DEF Taken
  <2>6. Taken'[n + 1] = new
    BY <1>4, <2>3, <2>5 DEF Enough
  <2>7. /\ Append(Taken, new) \in Seq(Nat) /\ Len(Append(Taken, new)) = n + 1
        /\ \A k \in 1..n : Append(Taken, new)[k] = Taken[k]
        /\ Append(Taken, new)[n + 1] = new
    BY <2>4, AppendProperties
  <2>8. \A k \in 1..(n + 1) : Taken'[k] = Append(Taken, new)[k]
    BY <2>4, <2>5, <2>6, <2>7
  <2>9. Taken' = Append(Taken, new)
    BY <2>5, <2>7, <2>8, SeqEqual
  <2>. QED
    BY <2>3, <2>9
<1>8. CASE Level >= Scale
  BY <1>1, <1>6, <1>7, <1>8 DEF Ideal!Admit
<1>9. CASE ~(Level >= Scale)
  <2>1. Level < Scale
    BY <1>4, <1>5, <1>9
  <2>. QED
    BY <1>1, <1>6, <1>7, <1>9, <2>1 DEF Ideal!Refuse
<1>. QED
  BY <1>8, <1>9

(* With clocks that agree and one policy the script is an ideal bucket: it *)
(* grants what a bucket would that is refilled all the time, so counting   *)
(* tokens only when a request comes, rerunning a script whose answer was   *)
(* lost and letting the key expire are all invisible.                      *)
THEOREM Ideality ==
    ASSUME InStep
    PROVE  Spec => ImplementsIdealBucket
<1>1. Init => Ideal!Init
  <2>. SUFFICES ASSUME Init PROVE Ideal!Init
    OBVIOUS
  <2>1. clock = 0 /\ Level = Policy.limit
    BY DEF Init, Level
  <2>2. Taken = <<>>
    BY DEF Init, Taken
  <2>. QED
    BY <2>1, <2>2 DEF Ideal!Init
<1>2. IInv /\ [Next]_vars => [Ideal!Next]_(Ideal!vars)
  <2>. SUFFICES ASSUME IInv, [Next]_vars
                PROVE  Ideal!Next \/ UNCHANGED Ideal!vars
    OBVIOUS
  <2>1. CASE Tick
    BY <2>1, TickAccrues DEF Ideal!Next
  <2>2. ASSUME NEW c \in Calls, Decide(c) \/ DecideUnheard(c)
        PROVE  Ideal!Next
    BY <2>2, RunDecides DEF Ideal!Next
  <2>3. ASSUME UNCHANGED <<clock, bucket, runs>>
        PROVE  UNCHANGED Ideal!vars
    BY <2>3 DEF Ideal!vars, Level, Taken
  <2>. QED
    BY <2>1, <2>2, <2>3 DEF Next, Send, vars
<1>. QED
  BY <1>1, <1>2, Invariance, PTL DEF Spec, ImplementsIdealBucket, Ideal!Spec
=============================================================================
