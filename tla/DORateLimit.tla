------------------------------ MODULE DORateLimit ------------------------------
(***************************************************************************)
(* The rate limiter in a Durable Object                                    *)
(* (worker/services/rate-limit/DORateLimitStore.ts), one object per key.   *)
(*                                                                         *)
(* The weights of accepted requests are kept in buckets of BucketSize      *)
(* ticks.  The object handles one event at a time: while it waits for its  *)
(* storage no other event is delivered, so a call is one action.  The      *)
(* object may be evicted between two events; it is loaded again from its   *)
(* storage by the next one.                                                *)
(***************************************************************************)
EXTENDS Integers, Functions

CONSTANTS
  Limit, Period,             \* main window
  Burst, BurstWindow,        \* Burst = 0: no burst window
  DailyLimit, DailyWindow,   \* DailyLimit = 0: no daily window
  BucketSize,
  CleanupPeriod,             \* five minutes
  Weights,                   \* incrementBy
  MaxTime                    \* bound: ticks of the clock

RateLimitAssumption ==
  /\ {Limit, Period, BucketSize} \subseteq Nat \ {0}
  /\ {Burst, BurstWindow, DailyLimit, DailyWindow, CleanupPeriod, MaxTime} \subseteq Nat
  /\ Weights \subseteq Nat

VARIABLES
  now,
  buckets,        \* from the start of a bucket to its count and timestamp
  lastCleanup,
  initialized,
  stored,         \* the object's storage
  answer,         \* success of the last increment
  remaining,      \* remainingLimit of the last answer
  accepted        \* history: the weight accepted at every tick

vars == <<now, buckets, lastCleanup, initialized, stored, answer, remaining, accepted>>

Time == 0..MaxTime
Bucket == [count : Nat, timestamp : Time]
Buckets == UNION {[S -> Bucket] : S \in SUBSET Time}

NoBuckets == [b \in {} |-> [count |-> 0, timestamp |-> 0]]

TypeOK ==
  /\ now \in Time
  /\ DOMAIN buckets \subseteq Time
  /\ \A b \in DOMAIN buckets :
       /\ buckets[b] \in Bucket
       /\ b % BucketSize = 0 /\ b <= buckets[b].timestamp
       /\ buckets[b].timestamp < b + BucketSize
  /\ lastCleanup \in Time
  /\ initialized \in BOOLEAN
  /\ stored.lastCleanup \in Time
  /\ initialized /\ stored.saved => stored.buckets = buckets
  /\ answer \in BOOLEAN
  /\ remaining \in 0..Limit
  /\ accepted \in [Time -> Nat]

Init ==
  /\ now = 0
  /\ buckets = NoBuckets /\ lastCleanup = 0 /\ initialized = FALSE
  /\ stored = [saved |-> FALSE, buckets |-> NoBuckets, lastCleanup |-> 0]
  /\ answer = TRUE /\ remaining = Limit
  /\ accepted = [t \in Time |-> 0]

(* ensureInitialized: the state the event works on.                        *)
Loaded ==
  IF initialized \/ ~stored.saved
    THEN [buckets |-> buckets, lastCleanup |-> lastCleanup]
    ELSE [buckets |-> stored.buckets, lastCleanup |-> stored.lastCleanup]

(* getBucketsInWindow: from the bucket the window begins in.               *)
Count(bs, length) ==
  LET first == ((now - length) \div BucketSize) * BucketSize
  IN SumFunction([b \in {c \in DOMAIN bs : c >= first} |-> bs[b].count])

Bigger(a, b) == IF a >= b THEN a ELSE b
Smaller(a, b) == IF a <= b THEN a ELSE b

MaxWindow == Bigger(Bigger(Period, BurstWindow), IF DailyLimit = 0 THEN 0 ELSE DailyWindow)

(* cleanup, when it is due: it counts as done only if it found anything.   *)
Cleaned(state) ==
  LET kept == {b \in DOMAIN state.buckets : state.buckets[b].timestamp >= now - MaxWindow}
  IN IF now - state.lastCleanup <= CleanupPeriod \/ kept = DOMAIN state.buckets
       THEN state
       ELSE [buckets |-> [b \in kept |-> state.buckets[b]], lastCleanup |-> now]

Full(bs) ==
  \/ Count(bs, Period) >= Limit
  \/ Burst # 0 /\ Count(bs, BurstWindow) >= Burst
  \/ DailyLimit # 0 /\ Count(bs, DailyWindow) >= DailyLimit

Remaining(bs, weight) ==
  LET main == Limit - Count(bs, Period) - weight
      daily == DailyLimit - Count(bs, DailyWindow) - weight
  IN Bigger(0, IF DailyLimit = 0 THEN main ELSE Smaller(main, daily))

\* Mutant: the timestamp of the bucket is that of its first request.
Added_FirstTimestamp(bs, weight) ==
  LET b == (now \div BucketSize) * BucketSize
  IN IF b \in DOMAIN bs
       THEN [bs EXCEPT ![b].count = @ + weight]
       ELSE [c \in DOMAIN bs \cup {b} |->
               IF c = b THEN [count |-> weight, timestamp |-> now] ELSE bs[c]]

(* The current bucket with the request.                                    *)
Added(bs, weight) ==
  LET b == (now \div BucketSize) * BucketSize
  IN [c \in DOMAIN bs \cup {b} |->
        IF c = b
          THEN [count |-> (IF b \in DOMAIN bs THEN bs[b].count ELSE 0) + weight,
                timestamp |-> now]
          ELSE bs[c]]

Saved(state) == [saved |-> TRUE, buckets |-> state.buckets, lastCleanup |-> state.lastCleanup]

Increment(weight) ==
  LET state == Cleaned(Loaded)
      added == [state EXCEPT !.buckets = Added(@, weight)]
  IN /\ initialized' = TRUE
     /\ lastCleanup' = state.lastCleanup
     /\ answer' = ~Full(state.buckets)
     /\ IF Full(state.buckets)
          THEN /\ buckets' = state.buckets
               /\ stored' = IF state # Loaded THEN Saved(state) ELSE stored
               /\ remaining' = 0
               /\ UNCHANGED accepted
          ELSE /\ buckets' = added.buckets
               /\ stored' = Saved(added)
               /\ remaining' = Remaining(state.buckets, weight)
               /\ accepted' = [accepted EXCEPT ![now] = @ + weight]
     /\ UNCHANGED now

GetRemainingLimit ==
  /\ initialized' = TRUE
  /\ buckets' = Loaded.buckets /\ lastCleanup' = Loaded.lastCleanup
  /\ remaining' = Remaining(Loaded.buckets, 0)
  /\ UNCHANGED <<now, stored, answer, accepted>>

(* resetLimit: the object holds the buckets of one key only.               *)
ResetLimit ==
  /\ initialized' = TRUE
  /\ buckets' = NoBuckets /\ lastCleanup' = Loaded.lastCleanup
  /\ stored' = Saved([buckets |-> NoBuckets, lastCleanup |-> Loaded.lastCleanup])
  /\ accepted' = [t \in Time |-> 0]
  /\ UNCHANGED <<now, answer, remaining>>

Evicted ==
  /\ initialized' = FALSE /\ buckets' = NoBuckets /\ lastCleanup' = now
  /\ UNCHANGED <<now, stored, answer, remaining, accepted>>

Tick ==
  /\ now < MaxTime
  /\ now' = now + 1
  /\ UNCHANGED <<buckets, lastCleanup, initialized, stored, answer, remaining, accepted>>

Next ==
  \/ \E weight \in Weights : Increment(weight)
  \/ GetRemainingLimit \/ ResetLimit \/ Evicted \/ Tick

Spec == Init /\ [][Next]_vars

-----------------------------------------------------------------------------
Limits ==
  {[limit |-> Limit, length |-> Period]}
    \cup (IF Burst = 0 THEN {} ELSE {[limit |-> Burst, length |-> BurstWindow]})
    \cup (IF DailyLimit = 0 THEN {} ELSE {[limit |-> DailyLimit, length |-> DailyWindow]})

Sliding == INSTANCE SlidingWindow WITH Windows <- Limits, Slack <- BucketSize - 1

(* Buckets, cleanup and evictions implement sliding windows: no accepted   *)
(* request that is still in a window is forgotten, and none is refused for *)
(* requests older than a bucket before the window.                         *)
ImplementsSlidingWindow == Sliding!Spec
================================================================================
