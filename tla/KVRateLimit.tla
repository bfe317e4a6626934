------------------------------ MODULE KVRateLimit ------------------------------
(***************************************************************************)
(* The rate limiter in the KV store                                        *)
(* (worker/services/rate-limit/KVRateLimitStore.ts): the same buckets, but *)
(* every access is a call of its own, and requests are served              *)
(* concurrently.  A request reads the buckets of its windows, and, if it   *)
(* is accepted, reads the current bucket again and writes it back.  KV is  *)
(* taken to be consistent; it may refuse a call.                           *)
(***************************************************************************)
EXTENDS KVBuckets, Functions

CONSTANTS
  Requests,             \* slots for requests in progress
  Weights,              \* incrementBy
  KVFails,              \* may a call of KV fail?
  MaxDelay,             \* ticks a request takes at most
  MaxTime,              \* bound: ticks of the clock
  MaxAccepted           \* bound: then only requests of weight 0 arrive

RateLimitAssumption ==
  /\ {Limit, Period, BucketSize} \subseteq Nat \ {0}
  /\ {Burst, BurstWindow, MaxDelay, MaxTime, MaxAccepted} \subseteq Nat
  /\ Weights \subseteq Nat
  /\ KVFails \in BOOLEAN

VARIABLES
  requests,
  answer,     \* success of the last request
  accepted    \* history: the weight accepted at every tick

vars == <<clock, kv, requests, answer, accepted>>

Time == 0..MaxTime

Request ==
  [pc : {"off", "count", "get", "put", "backoff"},
   time : Time,      \* when it arrived
   weight : Weights,
   attempt : Nat,    \* of incrementBucketWithRetry
   read : Nat]       \* what it read from the current bucket

Off == [pc |-> "off", time |-> 0, weight |-> CHOOSE w \in Weights : TRUE,
        attempt |-> 0, read |-> 0]

TypeOK ==
  /\ clock \in Time
  /\ DOMAIN kv \subseteq Time
  /\ \A b \in DOMAIN kv : kv[b] \in [count : Nat, expires : Nat] /\ b % BucketSize = 0
  /\ requests \in [Requests -> Request]
  /\ \A r \in Requests : requests[r].pc # "off" =>
       requests[r].time \in clock - MaxDelay..clock
  /\ \A r \in Requests : requests[r].pc \in {"get", "put", "backoff"} =>
       requests[r].attempt < requests[r].weight
  /\ answer \in BOOLEAN
  /\ accepted \in [Time -> Nat]

Init ==
  /\ clock = 0
  /\ kv = [b \in {} |-> [count |-> 0, expires |-> 0]]
  /\ requests = [r \in Requests |-> Off]
  /\ answer = TRUE
  /\ accepted = [t \in Time |-> 0]

Bigger(a, b) == IF a >= b THEN a ELSE b

Stored(b) == IF b \in DOMAIN kv THEN kv[b].count ELSE 0

(* generateBucketKeys: from the bucket the window begins in, up to the     *)
(* arrival of the request.                                                 *)
Count(time, length) ==
  SumFunction([b \in {c \in DOMAIN kv : BucketOf(time - length) <= c /\ c <= time}
                 |-> kv[b].count])

Ttl == Bigger(Period, BurstWindow) + BucketSize

InProgress == {r \in Requests : requests[r].pc # "off"}

(* The request is over.                                                    *)
Answered(r, success) ==
  /\ requests' = [requests EXCEPT ![r] = Off]
  /\ answer' = success
  /\ accepted' = IF success
                   THEN [accepted EXCEPT ![requests[r].time] = @ + requests[r].weight]
                   ELSE accepted

Arrive(r) ==
  /\ requests[r].pc = "off"
  /\ \E weight \in Weights :
       /\ weight = 0 \/ SumFunction(accepted) < MaxAccepted
       /\ requests' = [requests EXCEPT ![r] =
            [Off EXCEPT !.pc = "count", !.time = clock, !.weight = weight]]
  /\ UNCHANGED <<clock, kv, answer, accepted>>

(* The parameters of incrementBucketWithRetry: incrementBy takes the place *)
(* of maxRetries, so that a request of weight 0 makes no attempt and is    *)
(* done at once, and every other one adds 1.                               *)
MaxRetries(request) == request.weight
IncrementBy == 1

Counted(r) ==
  LET request == requests[r]
      full == \/ Count(request.time, Period) >= Limit
              \/ Burst # 0 /\ Count(request.time, BurstWindow) >= Burst
  IN /\ request.pc = "count"
     /\ IF full
          THEN Answered(r, FALSE)
        ELSE IF MaxRetries(request) = 0
          THEN Answered(r, TRUE)
          ELSE /\ requests' = [requests EXCEPT ![r].pc = "get"]
               /\ UNCHANGED <<answer, accepted>>
     /\ UNCHANGED <<clock, kv>>

Get(r) ==
  /\ requests[r].pc = "get"
  /\ requests' = [requests EXCEPT ![r].pc = "put",
                                  ![r].read = Stored(BucketOf(requests[r].time))]
  /\ UNCHANGED <<clock, kv, answer, accepted>>

\* Mutant: the bucket expires with the window it was written in.
Put_ShortTtl(r) ==
  LET b == BucketOf(requests[r].time)
      bucket == [count |-> requests[r].read + IncrementBy, expires |-> clock + Bigger(Period, BurstWindow)]
  IN /\ requests[r].pc = "put"
     /\ kv' = [c \in DOMAIN kv \cup {b} |-> IF c = b THEN bucket ELSE kv[c]]
     /\ Answered(r, TRUE)
     /\ UNCHANGED clock

Put(r) ==
  LET b == BucketOf(requests[r].time)
      bucket == [count |-> requests[r].read + IncrementBy, expires |-> clock + Ttl]
  IN /\ requests[r].pc = "put"
     /\ kv' = [c \in DOMAIN kv \cup {b} |-> IF c = b THEN bucket ELSE kv[c]]
     /\ Answered(r, TRUE)
     /\ UNCHANGED clock

\* Mutant: the call that is tried again did write.
TooManyRequests_Written(r) ==
  LET b == BucketOf(requests[r].time)
      bucket == [count |-> requests[r].read + IncrementBy, expires |-> clock + Ttl]
  IN /\ KVFails
     /\ requests[r].pc = "put"
     /\ requests[r].attempt < MaxRetries(requests[r]) - 1
     /\ requests' = [requests EXCEPT ![r].pc = "backoff", ![r].attempt = @ + 1]
     /\ kv' = [c \in DOMAIN kv \cup {b} |-> IF c = b THEN bucket ELSE kv[c]]
     /\ UNCHANGED <<clock, answer, accepted>>

(* KV refuses a call: with 429 while there are attempts left, the request  *)
(* tries again; otherwise it is accepted without being counted.            *)
TooManyRequests(r) ==
  /\ KVFails
  /\ requests[r].pc \in {"get", "put"}
  /\ requests[r].attempt < MaxRetries(requests[r]) - 1
  /\ requests' = [requests EXCEPT ![r].pc = "backoff", ![r].attempt = @ + 1]
  /\ UNCHANGED <<clock, kv, answer, accepted>>

BackoffOver(r) ==
  /\ requests[r].pc = "backoff"
  /\ requests' = [requests EXCEPT ![r].pc = "get"]
  /\ UNCHANGED <<clock, kv, answer, accepted>>

FailOpen(r) ==
  /\ KVFails
  /\ requests[r].pc \in {"count", "get", "put"}
  /\ Answered(r, TRUE)
  /\ UNCHANGED <<clock, kv>>

(* External: an entry vanishes when it expires.                            *)
Expire(b) ==
  /\ b \in DOMAIN kv /\ kv[b].expires <= clock
  /\ kv' = [c \in DOMAIN kv \ {b} |-> kv[c]]
  /\ UNCHANGED <<clock, requests, answer, accepted>>

Tick ==
  /\ clock < MaxTime
  /\ \A r \in InProgress : clock - requests[r].time < MaxDelay
  /\ clock' = clock + 1
  /\ UNCHANGED <<kv, requests, answer, accepted>>

Next ==
  \/ \E r \in Requests :
       \/ Arrive(r) \/ Counted(r) \/ Get(r) \/ Put(r)
       \/ TooManyRequests(r) \/ BackoffOver(r) \/ FailOpen(r)
  \/ \E b \in Time : Expire(b)
  \/ Tick

Spec == Init /\ [][Next]_vars

-----------------------------------------------------------------------------
(* Whatever updates are lost to concurrent requests or failures, the       *)
(* buckets hold no more than was accepted: a request is refused only when  *)
(* the buckets of some window were filled by accepted requests.            *)
AcceptedSince(time, length) ==
  SumFunctionOnSet(accepted, {t \in Time : t >= BucketOf(time - length)})

RefusedOnlyWhenFull ==
  [][\A r \in Requests :
       Counted(r) /\ requests'[r].pc = "off" /\ ~answer' =>
         \E w \in Limits : AcceptedSince(requests[r].time, w.length) >= w.limit]_vars

(* config.ts:91: a request counts with the weight of its model.            *)
WeightCounted ==
  [][\A r \in Requests : Put(r) =>
       LET b == BucketOf(requests[r].time)
       IN kv'[b].count = requests[r].read + requests[r].weight]_vars
================================================================================
