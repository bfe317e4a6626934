---------------------------- MODULE MCWorkerServices ----------------------------
(***************************************************************************)
(* The services of the worker that keep rows and counters: sign-ins and    *)
(* sessions, credits, and the two stores of the rate limits, of which the  *)
(* settings of a limit choose one (rateLimits.ts).  They share no state,   *)
(* so every behaviour is one of one service.                               *)
(***************************************************************************)
EXTENDS Accounts, KVBuckets, TLC

CONSTANTS
  DailyFree, Monthly, Rollover, Cycle, MaxDay, MaxEvents, MaxCrashes,
  DOPeriod, DailyLimit, DailyWindow, CleanupPeriod, DOWeights, DOTime,
  KVWeights, KVFails, MaxDelay, KVTime, MaxAccepted

VARIABLES
  service,
  plan, credits, lastDailyReset, nextMonthlyReset, ledger, payments, today, cut, unlogged,
  daily, monthly, events, crashes,
  doNow, buckets, lastCleanup, initialized, stored, answer, remaining, accepted,
  calls, kvAnswer, kvAccepted

billingVars == <<plan, credits, lastDailyReset, nextMonthlyReset, ledger, payments, today,
                 cut, unlogged, daily, monthly, events, crashes>>
doVars == <<doNow, buckets, lastCleanup, initialized, stored, answer, remaining, accepted>>
kvVars == <<clock, kv, calls, kvAnswer, kvAccepted>>

billing == INSTANCE Credits WITH requests <- payments
DO == INSTANCE DORateLimit WITH
  Period <- DOPeriod, Weights <- DOWeights, MaxTime <- DOTime, now <- doNow
KV == INSTANCE KVRateLimit WITH
  Weights <- KVWeights, MaxTime <- KVTime,
  requests <- calls, answer <- kvAnswer, accepted <- kvAccepted

ASSUME AccountsAssumption /\ billing!CreditsAssumption /\ DO!RateLimitAssumption /\ KV!RateLimitAssumption

(* laterFirst is of no matter to the others.                               *)
ServicesInit ==
  /\ service \in {"accounts", "billing", "DO", "KV"}
  /\ Init /\ billing!Init /\ DO!Init /\ KV!Init
  /\ service # "accounts" => ~laterFirst

ServicesNext ==
  \/ service = "accounts" /\ Next /\ UNCHANGED <<service, billingVars, doVars, kvVars>>
  \/ service = "billing" /\ billing!Next /\ UNCHANGED <<service, vars, doVars, kvVars>>
  \/ service = "DO" /\ DO!Next /\ UNCHANGED <<service, vars, billingVars, kvVars>>
  \/ service = "KV" /\ KV!Next /\ UNCHANGED <<service, vars, billingVars, doVars>>

ServicesSpec ==
  ServicesInit /\ [][ServicesNext]_<<service, vars, billingVars, doVars, kvVars>>

Symmetry == Permutations(Requests)

MCMonthly == [pro |-> 1, business |-> 2]

(* The ledger accounts for the balance: Credits.                           *)
LedgerAddsUp == billing!LedgerAddsUp

(* Few grants for a day or a date: Credits.                                *)
GrantsBounded == billing!GrantsBounded

(* A sliding window, to the width of a bucket: DORateLimit.                *)
ImplementsSlidingWindow == DO!ImplementsSlidingWindow

(* A request is refused for a reason: KVRateLimit.                         *)
RefusedOnlyWhenFull == KV!RefusedOnlyWhenFull
=================================================================================
