--------------------------------- MODULE Credits ---------------------------------
(***************************************************************************)
(* The credits of one user (worker/database/services/CreditService.ts):    *)
(* grants when the user looks (whopController.getMe) and purchases when    *)
(* the shop calls (webhook).  Every statement is awaited, there is no      *)
(* transaction, and balance and ledger are two tables.                     *)
(***************************************************************************)
EXTENDS Integers, FiniteSets, Functions

CONSTANTS
  Requests,   \* slots for requests in progress
  DailyFree,  \* dailyFreeCredits of the free plan
  Monthly,    \* monthlyCredits of the paid plans
  Rollover,   \* rolloverLimit of the paid plans
  Cycle,      \* resetCycleDays
  MaxDay, MaxEvents, MaxCrashes   \* bounds

Paid == DOMAIN Monthly
Plans == {"free"} \cup Paid

CreditsAssumption ==
  /\ IsFiniteSet(Requests)
  /\ {DailyFree, MaxDay, MaxEvents, MaxCrashes} \subseteq Nat /\ Cycle \in Nat \ {0}
  /\ "free" \notin Paid /\ \A p \in Paid : Monthly[p] \in Nat /\ Rollover[p] \in Nat

VARIABLES
  plan, credits, lastDailyReset, nextMonthlyReset,   \* columns of users
  ledger,      \* sum of the amounts in creditTransactions
  requests, today,
  cut,         \* history: credits beyond the rollover cap
  unlogged,    \* history: amounts whose entry was lost in a crash
  daily,       \* history: daily grants by the day they were for
  monthly,     \* history: monthly grants by the date they were due
  events, crashes

user == <<plan, credits, lastDailyReset, nextMonthlyReset>>
vars == <<user, ledger, requests, today, cut, unlogged, daily, monthly, events, crashes>>

Null == -1   \* no date yet, which counts as long ago
Off == [pc |-> "off", plan |-> "free", day |-> Null, amount |-> 0]

TypeOK ==
  /\ plan \in Plans /\ credits \in Nat /\ ledger \in Nat
  /\ lastDailyReset \in Null..MaxDay
  /\ nextMonthlyReset \in {Null} \cup Cycle..MaxDay + Cycle
  /\ requests \in [Requests ->
       [pc : {"off", "daily", "dailyEntry", "look", "monthly", "monthlyEntry", "plan",
              "topUp", "entry"}, plan : Plans, day : Null..MaxDay + Cycle, amount : Nat]]
  /\ today \in 0..MaxDay /\ events \in 0..MaxEvents /\ crashes \in 0..MaxCrashes

(* A user that has just registered.                                        *)
Init ==
  /\ plan = "free" /\ credits = 0 /\ lastDailyReset = Null /\ nextMonthlyReset = Null
  /\ ledger = 0 /\ requests = [r \in Requests |-> Off] /\ today = 0
  /\ cut = 0 /\ unlogged = 0
  /\ daily = [d \in 0..MaxDay |-> 0]
  /\ monthly = [d \in Null..MaxDay + Cycle |-> 0]
  /\ events = 0 /\ crashes = 0

Go(r, pc) == requests' = [requests EXCEPT ![r].pc = pc]
Rest == <<cut, unlogged, daily, monthly, events, crashes>>

-----------------------------------------------------------------------------
(* getMe: ensureDailyReset reads the user ...                              *)
EnsureDailyReset(r) ==
  /\ requests[r].pc = "off"
  /\ requests' = [requests EXCEPT ![r] =
       IF plan = "free" /\ lastDailyReset < today
         THEN [Off EXCEPT !.pc = "daily", !.day = today, !.amount = DailyFree]
         ELSE [Off EXCEPT !.pc = "look"]]
  /\ UNCHANGED <<user, ledger, today, Rest>>

\* Mutant: the date is not kept.
AddDaily_NoDate(r) ==
  /\ requests[r].pc = "daily"
  /\ credits' = credits + DailyFree
  /\ daily' = [daily EXCEPT ![requests[r].day] = @ + 1]
  /\ Go(r, "dailyEntry")
  /\ UNCHANGED <<plan, lastDailyReset, nextMonthlyReset, ledger, today, cut, unlogged, monthly,
                 events, crashes>>

\* Mutant: the daily credits replace the balance.
AddDaily_Reset(r) ==
  /\ requests[r].pc = "daily"
  /\ credits' = DailyFree
  /\ lastDailyReset' = requests[r].day
  /\ daily' = [daily EXCEPT ![requests[r].day] = @ + 1]
  /\ Go(r, "dailyEntry")
  /\ UNCHANGED <<plan, nextMonthlyReset, ledger, today, cut, unlogged, monthly, events, crashes>>

(* ... and grants what is due, later.                                      *)
AddDaily(r) ==
  /\ requests[r].pc = "daily"
  /\ credits' = credits + DailyFree
  /\ lastDailyReset' = requests[r].day
  /\ daily' = [daily EXCEPT ![requests[r].day] = @ + 1]
  /\ Go(r, "dailyEntry")
  /\ UNCHANGED <<plan, nextMonthlyReset, ledger, today, cut, unlogged, monthly, events, crashes>>

(* The entry in creditTransactions is a statement of its own.              *)
AfterEntry(pc) == CASE pc = "dailyEntry" -> "look" [] pc \in {"monthlyEntry", "entry"} -> "off"

InsertEntry(r) ==
  /\ requests[r].pc \in {"dailyEntry", "monthlyEntry", "entry"}
  /\ ledger' = ledger + requests[r].amount
  /\ requests' = [requests EXCEPT ![r] = [Off EXCEPT !.pc = AfterEntry(requests[r].pc)]]
  /\ UNCHANGED <<user, today, Rest>>

(* ensureMonthlyReset reads the user again.                                *)
EnsureMonthlyReset(r) ==
  /\ requests[r].pc = "look"
  /\ requests' = [requests EXCEPT ![r] =
       IF plan \in Paid /\ nextMonthlyReset <= today
         THEN [pc |-> "monthly", plan |-> plan, day |-> nextMonthlyReset, amount |-> Monthly[plan]]
         ELSE Off]
  /\ UNCHANGED <<user, ledger, today, Rest>>

(* The sum is capped at the allowance of the plan that was read and its    *)
(* rollover; the entry has the whole allowance.                            *)
AddMonthly(r) ==
  LET cap == Monthly[requests[r].plan] + Rollover[requests[r].plan]
      sum == credits + requests[r].amount
  IN /\ requests[r].pc = "monthly"
     /\ credits' = IF sum < cap THEN sum ELSE cap
     /\ cut' = cut + (IF sum < cap THEN 0 ELSE sum - cap)
     /\ nextMonthlyReset' = today + Cycle
     /\ monthly' = [monthly EXCEPT ![requests[r].day] = @ + 1]
     /\ Go(r, "monthlyEntry")
     /\ UNCHANGED <<plan, lastDailyReset, ledger, today, unlogged, daily, events, crashes>>

(* webhook: a purchase or renewal of a plan, a cancellation, or credits.   *)
(* The shop may deliver an event again.                                    *)
Webhook(r) ==
  /\ requests[r].pc = "off" /\ events < MaxEvents
  /\ events' = events + 1
  /\ \/ \E p \in Plans : requests' = [requests EXCEPT ![r] = [Off EXCEPT !.pc = "plan", !.plan = p]]
     \/ requests' = [requests EXCEPT ![r] = [Off EXCEPT !.pc = "topUp", !.amount = 1]]
  /\ UNCHANGED <<user, ledger, today, cut, unlogged, daily, monthly, crashes>>

(* setUserPlan: a paid plan starts a cycle and is followed by its credits. *)
SetUserPlan(r) ==
  LET p == requests[r].plan
  IN /\ requests[r].pc = "plan"
     /\ plan' = p
     /\ nextMonthlyReset' = IF p = "free" THEN Null ELSE today + Cycle
     /\ requests' = [requests EXCEPT ![r] =
          IF p = "free" THEN Off ELSE [Off EXCEPT !.pc = "topUp", !.amount = Monthly[p]]]
     /\ UNCHANGED <<credits, lastDailyReset, ledger, today, Rest>>

ApplyTopUp(r) ==
  /\ requests[r].pc = "topUp"
  /\ credits' = credits + requests[r].amount
  /\ Go(r, "entry")
  /\ UNCHANGED <<plan, lastDailyReset, nextMonthlyReset, ledger, today, Rest>>

(* The request ends between two statements: one of them fails, or the      *)
(* Worker does.                                                            *)
RequestFails(r) ==
  /\ requests[r].pc # "off" /\ crashes < MaxCrashes
  /\ crashes' = crashes + 1
  /\ unlogged' = IF requests[r].pc \in {"dailyEntry", "monthlyEntry", "entry"}
                   THEN unlogged + requests[r].amount ELSE unlogged
  /\ requests' = [requests EXCEPT ![r] = Off]
  /\ UNCHANGED <<user, ledger, today, cut, daily, monthly, events>>

Midnight ==
  /\ today < MaxDay /\ today' = today + 1
  /\ UNCHANGED <<user, ledger, requests, Rest>>

Next ==
  \/ \E r \in Requests :
       \/ EnsureDailyReset(r) \/ AddDaily(r) \/ InsertEntry(r) \/ EnsureMonthlyReset(r)
       \/ AddMonthly(r) \/ Webhook(r) \/ SetUserPlan(r) \/ ApplyTopUp(r) \/ RequestFails(r)
  \/ Midnight

Spec == Init /\ [][Next]_vars

-----------------------------------------------------------------------------
Unwritten(request) ==
  IF request.pc \in {"dailyEntry", "monthlyEntry", "entry"} THEN request.amount ELSE 0
Pending == SumFunctionOnSet([r \in Requests |-> Unwritten(requests[r])], Requests)

(* The balance is what the ledger says, but for what the cap cut off and   *)
(* for the entries that are still to be written or were lost in a crash;   *)
(* no interleaving of requests loses or doubles an amount.                 *)
LedgerAddsUp == credits + cut = ledger + Pending + unlogged

(* Requests that look at once may all get the grant of the day.  One that  *)
(* spans midnight sets the date back, so that the others may get it again; *)
(* with n requests no more than n + (n-1) + ... + 1 grants are for a day.  *)
(* An allowance that is due is granted at most once per request.           *)
GrantsBounded ==
  LET n == Cardinality(Requests)
  IN /\ \A d \in DOMAIN daily : 2 * daily[d] <= n * (n + 1)
     /\ \A d \in DOMAIN monthly : monthly[d] <= n
==================================================================================
