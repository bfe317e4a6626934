------------------------------- MODULE KVBuckets -------------------------------
(***************************************************************************)
(* The buckets of one limit in the KV store                                *)
(* (worker/services/rate-limit/KVRateLimitStore.ts), and what the store    *)
(* may forget of them.  KVRateLimit is how they are filled.                *)
(***************************************************************************)
EXTENDS Integers

CONSTANTS
  Limit, Period,        \* main window
  Burst, BurstWindow,   \* Burst = 0: no burst window
  BucketSize

VARIABLES
  clock,
  kv          \* from the start of a bucket to its count and expiration

BucketOf(time) == (time \div BucketSize) * BucketSize

Limits ==
  {[limit |-> Limit, length |-> Period]}
    \cup (IF Burst = 0 THEN {} ELSE {[limit |-> Burst, length |-> BurstWindow]})

(* A bucket is kept as long as a request that arrives now or later could   *)
(* count it in any of its windows, however early in the bucket the last    *)
(* write was.  (One that arrived before and is slow may miss it.)          *)
ExpiredOutOfReach ==
  [][\A b \in DOMAIN kv \ DOMAIN kv' : \A w \in Limits :
       b < BucketOf(clock - w.length)]_kv
================================================================================
