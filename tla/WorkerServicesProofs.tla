-------------------------- MODULE WorkerServicesProofs --------------------------
(***************************************************************************)
(* Theorems about the services that MCWorkerServices composes, for every   *)
(* number of requests at once, every bound, window, weight and failure.    *)
(* Their invariants are about sums over finite sets (Sums): of what is     *)
(* still to be entered in the ledger, and of what was accepted in the      *)
(* ticks of a bucket.                                                      *)
(***************************************************************************)
EXTENDS MCWorkerServices, Sums

-----------------------------------------------------------------------------
(* Credits.                                                                *)

(* The operators of the library are the same in the instance.              *)
LEMMA BillingSum ==
  ASSUME NEW f, NEW S PROVE billing!SumFunctionOnSet(f, S) = Sum(f, S)
BY Zenon DEF billing!SumFunctionOnSet, SumFunctionOnSet, billing!FoldFunctionOnSet,
  FoldFunctionOnSet, billing!MapThenFoldSet, MapThenFoldSet, Sum

LEMMA PaymentsFinite ==
  ASSUME billing!CreditsAssumption
  PROVE  IsFiniteSet(Requests) /\ billing!Cardinality(Requests) = Cardinality(Requests)
<1>1. billing!IsFiniteSet(Requests) <=> IsFiniteSet(Requests)
  BY Zenon DEF billing!IsFiniteSet, IsFiniteSet
<1>2. billing!Cardinality(Requests) = Cardinality(Requests)
  BY Zenon DEF billing!Cardinality, Cardinality
<1> QED BY <1>1, <1>2 DEF billing!CreditsAssumption

Payment ==
  [pc : {"off", "daily", "dailyEntry", "look", "monthly", "monthlyEntry", "plan", "topUp", "entry"},
   plan : billing!Plans, day : billing!Null..MaxDay + Cycle, amount : Nat]

(* A daily grant is for a day that has come, a monthly one for a date that *)
(* has, of a paid plan; a paid plan has a date.                            *)
Due(request) ==
  /\ request.pc = "daily" => request.day \in 0..today /\ request.amount = DailyFree
  /\ request.pc = "monthly" => request.day \in Cycle..today /\ request.plan \in billing!Paid

UserRow ==
  /\ plan \in billing!Plans /\ credits \in Nat /\ ledger \in Nat /\ cut \in Nat /\ unlogged \in Nat
  /\ today \in 0..MaxDay /\ lastDailyReset \in billing!Null..today
  /\ nextMonthlyReset \in {billing!Null} \cup Cycle..today + Cycle
  /\ plan \in billing!Paid => nextMonthlyReset # billing!Null

CreditsType ==
  UserRow /\ payments \in [Requests -> Payment] /\ \A r \in Requests : Due(payments[r])

LEMMA NoPayment ==
  ASSUME billing!CreditsAssumption PROVE billing!Off \in Payment /\ billing!Unwritten(billing!Off) = 0 /\ billing!Off.pc = "off"
BY DEF billing!Off, Payment, billing!Null, billing!Plans, billing!CreditsAssumption, billing!Unwritten

LEMMA UnwrittenNat == ASSUME NEW slot \in Payment PROVE billing!Unwritten(slot) \in Nat
BY DEF Payment, billing!Unwritten

LEMMA PendingNat ==
  ASSUME billing!CreditsAssumption, CreditsType PROVE billing!Pending \in Nat
<1> DEFINE f == [r \in Requests |-> billing!Unwritten(payments[r])]
<1>1. \A r \in Requests : f[r] \in Nat
  BY UnwrittenNat DEF CreditsType
<1> HIDE DEF f
<1>2. Sum(f, Requests) \in Nat
  BY <1>1, SumNat, PaymentsFinite DEF billing!CreditsAssumption
<1> QED BY <1>2, BillingSum DEF f, billing!Pending

(* What is still to be written changes with the one request that moves.    *)
LEMMA PendingChange ==
  ASSUME billing!CreditsAssumption, CreditsType, NEW r \in Requests, NEW slot \in Payment,
         payments' = [payments EXCEPT ![r] = slot]
  PROVE  billing!Pending' = billing!Pending - billing!Unwritten(payments[r]) + billing!Unwritten(slot)
<1> DEFINE f == [q \in Requests |-> billing!Unwritten(payments[q])]
           g == [q \in Requests |-> billing!Unwritten(payments'[q])]
<1>1. /\ IntegerOn(f, Requests) /\ g[r] = billing!Unwritten(slot) /\ f[r] = billing!Unwritten(payments[r])
      /\ g[r] \in Int /\ \A q \in Requests \ {r} : g[q] = f[q]
  <2>1. payments \in [Requests -> Payment]
    BY DEF CreditsType
  <2>2. \A q \in Requests : payments[q] \in Payment /\ payments'[q] = IF q = r THEN slot ELSE payments[q]
    BY <2>1
  <2> QED BY <2>2, UnwrittenNat DEF IntegerOn
<1>2. billing!Pending = Sum(f, Requests) /\ billing!Pending' = Sum(g, Requests)
  BY BillingSum DEF billing!Pending
<1> HIDE DEF f, g
<1> QED BY <1>1, <1>2, SumChange, PaymentsFinite DEF billing!CreditsAssumption

LEMMA PaymentMoved ==
  ASSUME billing!CreditsAssumption, CreditsType, billing!LedgerAddsUp, UserRow', today' = today,
         NEW r \in Requests, NEW slot \in Payment, Due(slot),
         payments' = [payments EXCEPT ![r] = slot],
         NEW before \in Int, NEW after \in Int,
         before = billing!Unwritten(payments[r]), after = billing!Unwritten(slot),
         credits' + cut' + ledger + unlogged + before = credits + cut + ledger' + unlogged' + after
  PROVE  CreditsType' /\ billing!LedgerAddsUp'
<1>1. CreditsType'
  BY DEF CreditsType, Due
<1>2. billing!Pending' = billing!Pending - billing!Unwritten(payments[r]) + billing!Unwritten(slot)
  BY PendingChange
<1>3. payments[r] \in Payment
  BY DEF CreditsType
<1>4. billing!Pending \in Int /\ billing!Unwritten(payments[r]) \in Int /\ billing!Unwritten(slot) \in Int
  BY <1>3, PendingNat, UnwrittenNat
<1>5. /\ credits \in Int /\ cut \in Int /\ ledger \in Int /\ unlogged \in Int
      /\ credits' \in Int /\ cut' \in Int /\ ledger' \in Int /\ unlogged' \in Int
  BY DEF CreditsType, UserRow
<1>6. credits' + cut' = ledger' + billing!Pending' + unlogged'
  <2>1. credits + cut = ledger + billing!Pending + unlogged
    BY DEF billing!LedgerAddsUp
  <2>2. billing!Pending' = billing!Pending - before + after /\ billing!Pending \in Int
    BY <1>2, <1>4
  <2> QED BY <1>5, <2>1, <2>2
<1> QED BY <1>1, <1>6 DEF billing!LedgerAddsUp

LEMMA CreditsStep ==
  ASSUME billing!CreditsAssumption, CreditsType, billing!LedgerAddsUp, [billing!Next]_(billing!vars)
  PROVE  CreditsType' /\ billing!LedgerAddsUp'
<1>1. /\ UserRow /\ payments \in [Requests -> Payment]
      /\ \A r \in Requests : payments[r] \in Payment /\ Due(payments[r])
      /\ billing!Off \in Payment /\ billing!Unwritten(billing!Off) = 0 /\ billing!Off.pc = "off"
      /\ credits \in Int /\ cut \in Int /\ ledger \in Int /\ unlogged \in Int
      /\ today \in Int /\ lastDailyReset \in Int /\ nextMonthlyReset \in Int
      /\ \A r \in Requests : billing!Unwritten(payments[r]) \in Int /\ payments[r].amount \in Nat
      /\ DailyFree \in Nat /\ Cycle \in Nat \ {0} /\ MaxDay \in Nat
  BY NoPayment, UnwrittenNat DEF CreditsType, UserRow, billing!CreditsAssumption, billing!Null, Payment
<1>2. ASSUME NEW r \in Requests, billing!EnsureDailyReset(r) PROVE CreditsType' /\ billing!LedgerAddsUp'
  <2> DEFINE slot == IF plan = "free" /\ lastDailyReset < today
                       THEN [billing!Off EXCEPT !.pc = "daily", !.day = today, !.amount = DailyFree]
                       ELSE [billing!Off EXCEPT !.pc = "look"]
  <2>1. slot \in Payment /\ Due(slot) /\ billing!Unwritten(slot) = 0
    <3>1. CASE plan = "free" /\ lastDailyReset < today
      <4>1. today \in billing!Null..MaxDay + Cycle /\ today \in 0..today
        BY <1>1 DEF UserRow, billing!Null
      <4> QED BY <1>1, <3>1, <4>1 DEF Payment, Due, billing!Unwritten
    <3>2. CASE ~(plan = "free" /\ lastDailyReset < today)
      BY <1>1, <3>2 DEF Payment, Due, billing!Unwritten
    <3> QED BY <3>1, <3>2
  <2>2. billing!Unwritten(payments[r]) = 0 /\ payments' = [payments EXCEPT ![r] = slot]
    BY <1>1, <1>2 DEF billing!EnsureDailyReset, billing!Unwritten
  <2> HIDE DEF slot
  <2>3. UserRow' /\ today' = today
    BY <1>1, <1>2 DEF billing!EnsureDailyReset, UserRow, billing!user, billing!Rest, Due, billing!Null, billing!CreditsAssumption
  <2>4. UNCHANGED <<credits, cut, ledger, unlogged>>
    BY <1>1, <1>2 DEF billing!EnsureDailyReset, billing!user, billing!Rest
  <2> DEFINE before == billing!Unwritten(payments[r])
             after == billing!Unwritten(slot)
  <2>5. /\ before \in Int /\ after \in Int
        /\ credits' + cut' + ledger + unlogged + before = credits + cut + ledger' + unlogged' + after
    BY <1>1, <2>1, <2>2, <2>4
  <2> QED BY <2>1, <2>2, <2>3, <2>5, PaymentMoved
<1>3. ASSUME NEW r \in Requests, billing!AddDaily(r) PROVE CreditsType' /\ billing!LedgerAddsUp'
  <2> DEFINE slot == [payments[r] EXCEPT !.pc = "dailyEntry"]
  <2>1. slot \in Payment /\ Due(slot) /\ billing!Unwritten(slot) = DailyFree
    BY <1>1, <1>3 DEF billing!AddDaily, Payment, Due, billing!Unwritten
  <2>2. billing!Unwritten(payments[r]) = 0 /\ payments' = [payments EXCEPT ![r] = slot]
    BY <1>1, <1>3 DEF billing!AddDaily, billing!Unwritten, billing!Go
  <2> HIDE DEF slot
  <2>3. UserRow' /\ today' = today
    BY <1>1, <1>3 DEF billing!AddDaily, UserRow, billing!user, billing!Rest, Due, billing!Null, billing!CreditsAssumption
  <2>4. credits' = credits + DailyFree /\ UNCHANGED <<cut, ledger, unlogged>>
    BY <1>1, <1>3 DEF billing!AddDaily, billing!user, billing!Rest
  <2> DEFINE before == billing!Unwritten(payments[r])
             after == billing!Unwritten(slot)
  <2>5. /\ before \in Int /\ after \in Int
        /\ credits' + cut' + ledger + unlogged + before = credits + cut + ledger' + unlogged' + after
    BY <1>1, <2>1, <2>2, <2>4
  <2> QED BY <2>1, <2>2, <2>3, <2>5, PaymentMoved
<1>4. ASSUME NEW r \in Requests, billing!InsertEntry(r) PROVE CreditsType' /\ billing!LedgerAddsUp'
  <2> DEFINE slot == [billing!Off EXCEPT !.pc = billing!AfterEntry(payments[r].pc)]
  <2>1. slot \in Payment /\ Due(slot) /\ billing!Unwritten(slot) = 0
    BY <1>1, <1>4 DEF billing!InsertEntry, Payment, Due, billing!Unwritten, billing!AfterEntry
  <2>2. billing!Unwritten(payments[r]) = payments[r].amount /\ payments' = [payments EXCEPT ![r] = slot]
    BY <1>1, <1>4 DEF billing!InsertEntry, billing!Unwritten
  <2> HIDE DEF slot
  <2>3. UserRow' /\ today' = today
    BY <1>1, <1>4 DEF billing!InsertEntry, UserRow, billing!user, billing!Rest, Due, billing!Null, billing!CreditsAssumption
  <2>4. ledger' = ledger + payments[r].amount /\ payments[r].amount \in Nat /\ UNCHANGED <<cut, credits, unlogged>>
    BY <1>1, <1>4 DEF billing!InsertEntry, billing!user, billing!Rest
  <2> DEFINE before == billing!Unwritten(payments[r])
             after == billing!Unwritten(slot)
  <2>5. /\ before \in Int /\ after \in Int
        /\ credits' + cut' + ledger + unlogged + before = credits + cut + ledger' + unlogged' + after
    BY <1>1, <2>1, <2>2, <2>4
  <2> QED BY <2>1, <2>2, <2>3, <2>5, PaymentMoved
<1>5. ASSUME NEW r \in Requests, billing!EnsureMonthlyReset(r) PROVE CreditsType' /\ billing!LedgerAddsUp'
  <2> DEFINE slot == IF plan \in billing!Paid /\ nextMonthlyReset <= today
                       THEN [pc |-> "monthly", plan |-> plan, day |-> nextMonthlyReset,
                             amount |-> Monthly[plan]]
                       ELSE billing!Off
  <2>1. slot \in Payment /\ Due(slot) /\ billing!Unwritten(slot) = 0
    BY <1>1, <1>5 DEF billing!EnsureMonthlyReset, Payment, Due, billing!Unwritten, UserRow, billing!Null, billing!CreditsAssumption
  <2>2. billing!Unwritten(payments[r]) = 0 /\ payments' = [payments EXCEPT ![r] = slot]
    BY <1>1, <1>5 DEF billing!EnsureMonthlyReset, billing!Unwritten
  <2> HIDE DEF slot
  <2>3. UserRow' /\ today' = today
    BY <1>1, <1>5 DEF billing!EnsureMonthlyReset, UserRow, billing!user, billing!Rest, Due, billing!Null, billing!CreditsAssumption
  <2>4. UNCHANGED <<credits, cut, ledger, unlogged>>
    BY <1>1, <1>5 DEF billing!EnsureMonthlyReset, billing!user, billing!Rest
  <2> DEFINE before == billing!Unwritten(payments[r])
             after == billing!Unwritten(slot)
  <2>5. /\ before \in Int /\ after \in Int
        /\ credits' + cut' + ledger + unlogged + before = credits + cut + ledger' + unlogged' + after
    BY <1>1, <2>1, <2>2, <2>4
  <2> QED BY <2>1, <2>2, <2>3, <2>5, PaymentMoved
<1>6. ASSUME NEW r \in Requests, billing!AddMonthly(r) PROVE CreditsType' /\ billing!LedgerAddsUp'
  <2> DEFINE slot == [payments[r] EXCEPT !.pc = "monthlyEntry"]
  <2>1. slot \in Payment /\ Due(slot) /\ billing!Unwritten(slot) = payments[r].amount
    BY <1>1, <1>6 DEF billing!AddMonthly, Payment, Due, billing!Unwritten
  <2>2. billing!Unwritten(payments[r]) = 0 /\ payments' = [payments EXCEPT ![r] = slot]
    BY <1>1, <1>6 DEF billing!AddMonthly, billing!Unwritten, billing!Go
  <2> HIDE DEF slot
  <2>3. UserRow' /\ today' = today
    BY <1>1, <1>6 DEF billing!AddMonthly, UserRow, billing!user, billing!Rest, Due, billing!Null, billing!CreditsAssumption
  <2>4. credits' + cut' = credits + cut + payments[r].amount /\ payments[r].amount \in Nat /\ UNCHANGED <<ledger, unlogged>>
    <3>1. Monthly[payments[r].plan] \in Nat /\ Rollover[payments[r].plan] \in Nat
      BY <1>1, <1>6 DEF billing!AddMonthly, Due, billing!CreditsAssumption
    <3> QED BY <1>1, <1>6, <3>1 DEF billing!AddMonthly, billing!user
  <2> DEFINE before == billing!Unwritten(payments[r])
             after == billing!Unwritten(slot)
  <2>5. /\ before \in Int /\ after \in Int
        /\ credits' + cut' + ledger + unlogged + before = credits + cut + ledger' + unlogged' + after
    BY <1>1, <2>1, <2>2, <2>4
  <2> QED BY <2>1, <2>2, <2>3, <2>5, PaymentMoved
<1>7. ASSUME NEW r \in Requests, billing!Webhook(r) PROVE CreditsType' /\ billing!LedgerAddsUp'
  <2>1. PICK slot \in Payment : payments' = [payments EXCEPT ![r] = slot] /\ Due(slot) /\ billing!Unwritten(slot) = 0
    <3> DEFINE bought(p) == [billing!Off EXCEPT !.pc = "plan", !.plan = p]
               topUp == [billing!Off EXCEPT !.pc = "topUp", !.amount = 1]
    <3>1. \A p \in billing!Plans : bought(p) \in Payment /\ Due(bought(p)) /\ billing!Unwritten(bought(p)) = 0
      BY <1>1 DEF Payment, Due, billing!Unwritten
    <3>2. topUp \in Payment /\ Due(topUp) /\ billing!Unwritten(topUp) = 0
      BY <1>1 DEF Payment, Due, billing!Unwritten
    <3>3. \/ \E p \in billing!Plans : payments' = [payments EXCEPT ![r] = bought(p)]
          \/ payments' = [payments EXCEPT ![r] = topUp]
      BY <1>7 DEF billing!Webhook
    <3> HIDE DEF bought, topUp
    <3> QED BY <3>1, <3>2, <3>3
  <2>2. billing!Unwritten(payments[r]) = 0
    BY <1>7 DEF billing!Webhook, billing!Unwritten
  <2>3. UserRow' /\ today' = today
    BY <1>1, <1>7 DEF billing!Webhook, UserRow, billing!user
  <2>4. UNCHANGED <<credits, cut, ledger, unlogged>>
    BY <1>7 DEF billing!Webhook, billing!user
  <2> DEFINE before == billing!Unwritten(payments[r])
             after == billing!Unwritten(slot)
  <2>5. /\ before \in Int /\ after \in Int
        /\ credits' + cut' + ledger + unlogged + before = credits + cut + ledger' + unlogged' + after
    BY <1>1, <2>1, <2>2, <2>4
  <2> QED BY <2>1, <2>2, <2>3, <2>5, PaymentMoved
<1>8. ASSUME NEW r \in Requests, billing!SetUserPlan(r) PROVE CreditsType' /\ billing!LedgerAddsUp'
  <2> DEFINE slot == IF payments[r].plan = "free" THEN billing!Off
                       ELSE [billing!Off EXCEPT !.pc = "topUp", !.amount = Monthly[payments[r].plan]]
  <2>1. slot \in Payment /\ Due(slot) /\ billing!Unwritten(slot) = 0
    BY <1>1, <1>8 DEF billing!SetUserPlan, Payment, Due, billing!Unwritten, billing!Plans, billing!CreditsAssumption
  <2>2. billing!Unwritten(payments[r]) = 0 /\ payments' = [payments EXCEPT ![r] = slot]
    BY <1>1, <1>8 DEF billing!SetUserPlan, billing!Unwritten
  <2> HIDE DEF slot
  <2>3. UserRow' /\ today' = today
    <3>1. payments[r].plan \in billing!Plans /\ (payments[r].plan \in billing!Paid => payments[r].plan # "free")
      BY <1>1 DEF Payment, billing!CreditsAssumption
    <3>2. today + Cycle \in Cycle..today + Cycle /\ today + Cycle # billing!Null
      BY <1>1 DEF billing!Null, UserRow
    <3> QED BY <1>1, <1>8, <3>1, <3>2 DEF billing!SetUserPlan, UserRow, billing!user, billing!Rest
  <2>4. UNCHANGED <<credits, cut, ledger, unlogged>>
    BY <1>1, <1>8 DEF billing!SetUserPlan, billing!user, billing!Rest
  <2> DEFINE before == billing!Unwritten(payments[r])
             after == billing!Unwritten(slot)
  <2>5. /\ before \in Int /\ after \in Int
        /\ credits' + cut' + ledger + unlogged + before = credits + cut + ledger' + unlogged' + after
    BY <1>1, <2>1, <2>2, <2>4
  <2> QED BY <2>1, <2>2, <2>3, <2>5, PaymentMoved
<1>9. ASSUME NEW r \in Requests, billing!ApplyTopUp(r) PROVE CreditsType' /\ billing!LedgerAddsUp'
  <2> DEFINE slot == [payments[r] EXCEPT !.pc = "entry"]
  <2>1. slot \in Payment /\ Due(slot) /\ billing!Unwritten(slot) = payments[r].amount
    BY <1>1, <1>9 DEF billing!ApplyTopUp, Payment, Due, billing!Unwritten
  <2>2. billing!Unwritten(payments[r]) = 0 /\ payments' = [payments EXCEPT ![r] = slot]
    BY <1>1, <1>9 DEF billing!ApplyTopUp, billing!Unwritten, billing!Go
  <2> HIDE DEF slot
  <2>3. UserRow' /\ today' = today
    BY <1>1, <1>9 DEF billing!ApplyTopUp, UserRow, billing!user, billing!Rest, Due, billing!Null, billing!CreditsAssumption
  <2>4. credits' = credits + payments[r].amount /\ payments[r].amount \in Nat /\ UNCHANGED <<cut, ledger, unlogged>>
    BY <1>1, <1>9 DEF billing!ApplyTopUp, billing!user, billing!Rest
  <2> DEFINE before == billing!Unwritten(payments[r])
             after == billing!Unwritten(slot)
  <2>5. /\ before \in Int /\ after \in Int
        /\ credits' + cut' + ledger + unlogged + before = credits + cut + ledger' + unlogged' + after
    BY <1>1, <2>1, <2>2, <2>4
  <2> QED BY <2>1, <2>2, <2>3, <2>5, PaymentMoved
<1>10. ASSUME NEW r \in Requests, billing!RequestFails(r) PROVE CreditsType' /\ billing!LedgerAddsUp'
  <2> DEFINE slot == billing!Off
  <2>1. slot \in Payment /\ Due(slot) /\ billing!Unwritten(slot) = 0
    BY <1>1 DEF Due
  <2>2. billing!Unwritten(payments[r]) \in Nat /\ payments' = [payments EXCEPT ![r] = slot]
    BY <1>1, <1>10 DEF billing!RequestFails, billing!Unwritten
  <2> HIDE DEF slot
  <2>3. UserRow' /\ today' = today
    BY <1>1, <1>10 DEF billing!RequestFails, UserRow, billing!user, Payment, billing!Null
  <2>4. unlogged' = unlogged + billing!Unwritten(payments[r]) /\ UNCHANGED <<credits, cut, ledger>>
    BY <1>1, <1>10 DEF billing!RequestFails, billing!user, billing!Rest, billing!Unwritten
  <2> DEFINE before == billing!Unwritten(payments[r])
             after == billing!Unwritten(slot)
  <2>5. /\ before \in Int /\ after \in Int
        /\ credits' + cut' + ledger + unlogged + before = credits + cut + ledger' + unlogged' + after
    BY <1>1, <2>1, <2>2, <2>4
  <2> QED BY <2>1, <2>2, <2>3, <2>5, PaymentMoved
<1>11. ASSUME billing!Midnight PROVE CreditsType' /\ billing!LedgerAddsUp'
  <2>1. today' = today + 1 /\ today' \in 0..MaxDay /\ UNCHANGED <<billing!user, ledger, payments, cut, unlogged>>
    BY <1>1, <1>11 DEF billing!Midnight, billing!Rest, UserRow
  <2>2. UserRow'
    BY <1>1, <2>1 DEF UserRow, billing!user, billing!Null
  <2>3. \A r \in Requests : Due(payments[r])'
    BY <1>1, <2>1 DEF Due
  <2> QED BY <2>1, <2>2, <2>3 DEF CreditsType, billing!LedgerAddsUp, billing!Pending, billing!user
<1>12. CASE UNCHANGED billing!vars
  BY <1>1, <1>12 DEF CreditsType, UserRow, Due, billing!LedgerAddsUp, billing!Pending, billing!vars, billing!user
<1> QED
  BY <1>2, <1>3, <1>4, <1>5, <1>6, <1>7, <1>8, <1>9, <1>10, <1>11, <1>12 DEF billing!Next

LEMMA CreditsInit == ASSUME billing!CreditsAssumption, billing!Init PROVE CreditsType /\ billing!LedgerAddsUp
<1>1. billing!Off \in Payment /\ billing!Unwritten(billing!Off) = 0 /\ billing!Off.pc = "off"
  BY NoPayment
<1>2. CreditsType
  BY <1>1 DEF billing!Init, CreditsType, UserRow, Due, billing!Plans, billing!Null, billing!CreditsAssumption
<1> DEFINE f == [r \in Requests |-> billing!Unwritten(payments[r])]
<1>3. \A r \in Requests : f[r] = 0
  BY <1>1 DEF billing!Init
<1> HIDE DEF f
<1>4. Sum(f, Requests) = 0
  BY <1>3, SumZero, PaymentsFinite DEF billing!CreditsAssumption
<1>5. billing!Pending = 0
  BY <1>4, BillingSum DEF f, billing!Pending
<1> QED BY <1>2, <1>5 DEF billing!Init, billing!LedgerAddsUp

(* Whatever requests overlap and wherever one is cut off, the balance is   *)
(* what the ledger says, but for the entries not yet or never written.     *)
THEOREM LedgerAlwaysAddsUp == ASSUME billing!CreditsAssumption PROVE billing!Spec => []LedgerAddsUp
<1> DEFINE Inv == CreditsType /\ billing!LedgerAddsUp
<1>1. billing!Init => Inv
  BY CreditsInit
<1>2. Inv /\ [billing!Next]_(billing!vars) => Inv'
  BY CreditsStep
<1>3. Inv => billing!LedgerAddsUp
  OBVIOUS
<1> QED BY <1>1, <1>2, <1>3, PTL DEF billing!Spec, LedgerAddsUp

-----------------------------------------------------------------------------
AtOnce == Cardinality(Requests)

(* How many requests have read that a grant of these days is due.          *)
Reads(request, pc, days) == IF request.pc = pc /\ request.day \in days THEN 1 ELSE 0
Readers(pc, days) == Sum([r \in Requests |-> Reads(payments[r], pc, days)], Requests)

(* k requests that set the date back to before a day can let all n have the *)
(* grant of the day, then n - 1, and so on: twice the sum.                 *)
Again(k) == k * (2 * AtOnce - k + 1)

DailyBounded(d) ==
  LET ready == Readers("daily", {d})
      late == Readers("daily", billing!Null..d - 1)
  IN IF d > today THEN daily[d] = 0
     ELSE IF d <= lastDailyReset THEN 2 * (daily[d] + ready) + Again(late) <= AtOnce * (AtOnce + 1)
     ELSE 2 * daily[d] + Again(late + 1) <= AtOnce * (AtOnce + 1)

MonthlyBounded(d) ==
  /\ monthly[d] + Readers("monthly", {d}) <= AtOnce
  /\ monthly[d] > 0 => d <= today /\ (nextMonthlyReset = billing!Null \/ d < nextMonthlyReset)

GrantsInv ==
  /\ daily \in [0..MaxDay -> Nat] /\ monthly \in [billing!Null..MaxDay + Cycle -> Nat]
  /\ \A d \in 0..MaxDay : DailyBounded(d)
  /\ \A d \in billing!Null..MaxDay + Cycle : MonthlyBounded(d)

LEMMA ReadersCounted ==
  ASSUME billing!CreditsAssumption, NEW pc, NEW days
  PROVE  Readers(pc, days) \in 0..AtOnce /\ Readers(pc, days)' \in 0..AtOnce /\ AtOnce \in Nat
<1>1. ASSUME NEW held
      PROVE  Sum([r \in Requests |-> Reads(held[r], pc, days)], Requests) \in 0..AtOnce
  <2> DEFINE f == [r \in Requests |-> Reads(held[r], pc, days)]
  <2>1. \A r \in Requests : f[r] \in 0..1
    BY DEF Reads
  <2> HIDE DEF f
  <2>2. Sum(f, Requests) \in 0..AtOnce
    BY <2>1, SumCounts, PaymentsFinite DEF AtOnce, billing!CreditsAssumption
  <2> QED BY <2>2 DEF f
<1>2. Readers(pc, days) \in 0..AtOnce
  BY <1>1 DEF Readers
<1>3. Readers(pc, days)' \in 0..AtOnce
  BY <1>1 DEF Readers
<1> QED BY <1>2, <1>3, FS_CardinalityType, PaymentsFinite DEF AtOnce, billing!CreditsAssumption

LEMMA ReadersApart ==
  ASSUME billing!CreditsAssumption, NEW pc, NEW A, NEW B, A \cap B = {}
  PROVE  Readers(pc, A) + Readers(pc, B) <= AtOnce
<1> DEFINE f == [r \in Requests |-> Reads(payments[r], pc, A)]
           g == [r \in Requests |-> Reads(payments[r], pc, B)]
           h == [r \in Requests |-> f[r] + g[r]]
<1>1. \A r \in Requests : f[r] \in Int /\ g[r] \in Int /\ h[r] = f[r] + g[r] /\ h[r] \in 0..1
  BY DEF Reads
<1>2. Readers(pc, A) = Sum(f, Requests) /\ Readers(pc, B) = Sum(g, Requests)
  BY DEF Readers
<1> HIDE DEF f, g, h
<1>3. IsFiniteSet(Requests) /\ IntegerOn(f, Requests) /\ IntegerOn(g, Requests)
  BY <1>1, PaymentsFinite DEF billing!CreditsAssumption, IntegerOn
<1>4. Sum(h, Requests) = Sum(f, Requests) + Sum(g, Requests)
  BY <1>1, <1>3, SumPlus
<1>5. Sum(h, Requests) <= AtOnce
  BY <1>1, <1>3, SumCounts, FS_CardinalityType DEF AtOnce
<1> QED BY <1>2, <1>4, <1>5

LEMMA ReadersChange ==
  ASSUME billing!CreditsAssumption, CreditsType, NEW pc, NEW days, NEW r \in Requests, NEW slot,
         payments' = [payments EXCEPT ![r] = slot]
  PROVE  Readers(pc, days)' = Readers(pc, days) - Reads(payments[r], pc, days) + Reads(slot, pc, days)
<1> DEFINE f == [q \in Requests |-> Reads(payments[q], pc, days)]
           g == [q \in Requests |-> Reads(payments'[q], pc, days)]
<1>1. /\ IntegerOn(f, Requests) /\ g[r] = Reads(slot, pc, days)
      /\ f[r] = Reads(payments[r], pc, days) /\ g[r] \in Int
      /\ \A q \in Requests \ {r} : g[q] = f[q]
  BY DEF CreditsType, Reads, IntegerOn
<1>2. Readers(pc, days) = Sum(f, Requests) /\ Readers(pc, days)' = Sum(g, Requests)
  BY DEF Readers
<1> HIDE DEF f, g
<1> QED BY <1>1, <1>2, SumChange, PaymentsFinite DEF billing!CreditsAssumption

LEMMA AgainStep ==
  ASSUME billing!CreditsAssumption, NEW k \in 0..AtOnce
  PROVE  /\ Again(k) \in Int /\ Again(k + 1) \in Int
         /\ Again(k + 1) = Again(k) + 2 * (AtOnce - k)
         /\ Again(k) <= Again(k + 1) /\ Again(k + 1) <= AtOnce * (AtOnce + 1)
         /\ Again(k - 1) \in Int /\ Again(k - 1) <= Again(k)
<1>1. AtOnce \in Nat /\ k \in Nat
  BY FS_CardinalityType, PaymentsFinite DEF AtOnce, billing!CreditsAssumption
<1> DEFINE m == AtOnce - k
<1>2. m \in Nat /\ k = AtOnce - m
  BY <1>1
<1>3. AtOnce * (AtOnce + 1) - Again(k + 1) = m * (m - 1)
  BY <1>1 DEF Again
<1>4. m * (m - 1) >= 0
  BY <1>2
<1>5. Again(k) \in Int /\ Again(k + 1) \in Int /\ Again(k + 1) = Again(k) + 2 * (AtOnce - k) /\ Again(k - 1) \in Int
      /\ Again(k) = Again(k - 1) + 2 * (AtOnce - k + 1)
  BY <1>1 DEF Again
<1> QED BY <1>1, <1>3, <1>4, <1>5

LEMMA Below ==
  ASSUME NEW g \in Int, NEW p \in Int, NEW q \in Int, NEW a \in Int, NEW b \in Int, NEW m \in Int,
         q <= p, b <= a, 2 * (g + p) + a <= m
  PROVE  2 * (g + q) + b <= m
OBVIOUS

(* A request that is not given a grant, or gives one up, leaves the bound. *)
LEMMA DailyKept ==
  ASSUME billing!CreditsAssumption, CreditsType, GrantsInv, NEW r \in Requests, NEW slot,
         payments' = [payments EXCEPT ![r] = slot], UNCHANGED <<daily, lastDailyReset, today>>,
         NEW d \in 0..MaxDay,
         d <= lastDailyReset => Reads(slot, "daily", {d}) <= Reads(payments[r], "daily", {d}),
         d <= today => Reads(slot, "daily", billing!Null..d - 1) <= Reads(payments[r], "daily", billing!Null..d - 1)
  PROVE  DailyBounded(d)'
<1> DEFINE ready == Readers("daily", {d})
           late == Readers("daily", billing!Null..d - 1)
<1>1. /\ ready \in 0..AtOnce /\ late \in 0..AtOnce /\ AtOnce \in Nat /\ ready' \in 0..AtOnce /\ late' \in 0..AtOnce
  BY ReadersCounted
<1>2. /\ ready' = ready - Reads(payments[r], "daily", {d}) + Reads(slot, "daily", {d})
      /\ late' = late - Reads(payments[r], "daily", billing!Null..d - 1) + Reads(slot, "daily", billing!Null..d - 1)
  BY ReadersChange
<1>3. /\ Reads(slot, "daily", {d}) \in 0..1 /\ Reads(payments[r], "daily", {d}) \in 0..1
      /\ Reads(slot, "daily", billing!Null..d - 1) \in 0..1 /\ Reads(payments[r], "daily", billing!Null..d - 1) \in 0..1
  BY DEF Reads
<1>4. DailyBounded(d) /\ daily[d] \in Nat /\ today \in Int /\ lastDailyReset \in Int /\ d \in Int
  BY DEF GrantsInv, CreditsType, UserRow, billing!Null
<1>5. /\ (daily[d])' = daily[d] /\ today' = today /\ lastDailyReset' = lastDailyReset
  OBVIOUS
<1> HIDE DEF ready, late
<1>6. CASE d > today
  BY <1>4, <1>5, <1>6 DEF DailyBounded
<1>7. CASE d <= today
  <2>1. late' = late \/ (late > 0 /\ late' = late - 1)
    BY <1>1, <1>2, <1>3, <1>7
  <2>2. /\ Again(late) \in Int /\ Again(late + 1) \in Int
        /\ Again(late - 1) \in Int /\ Again(late - 1) <= Again(late) /\ Again(late) <= Again(late + 1)
    BY <1>1, AgainStep
  <2>3. Again(late') \in Int /\ Again(late') <= Again(late)
    BY <1>1, <2>1, <2>2
  <2>4. Again(late' + 1) \in Int /\ Again(late' + 1) <= Again(late + 1)
    <3>1. CASE late' = late
      BY <2>2, <3>1
    <3>2. CASE late > 0 /\ late' = late - 1
      <4>1. late' + 1 = late
        BY <1>1, <3>2
      <4> QED BY <1>1, <2>2, <4>1
    <3> QED BY <2>1, <3>1, <3>2
  <2>5. AtOnce * (AtOnce + 1) \in Int
    BY <1>1
  <2>6. CASE d <= lastDailyReset
    <3>1. ready' <= ready
      BY <1>1, <1>2, <1>3, <2>6
    <3>2. 2 * (daily[d] + ready) + Again(late) <= AtOnce * (AtOnce + 1)
      BY <1>4, <1>7, <2>6 DEF DailyBounded, ready, late
    <3>3. 2 * (daily[d] + ready') + Again(late') <= AtOnce * (AtOnce + 1)
      <4>1. daily[d] \in Int /\ ready \in Int /\ ready' \in Int
        BY <1>1, <1>4
      <4> QED BY <2>2, <2>3, <2>5, <3>1, <3>2, <4>1, Below
    <3> QED BY <1>4, <1>5, <1>7, <2>6, <3>3 DEF DailyBounded, ready, late, AtOnce
  <2>7. CASE ~ d <= lastDailyReset
    <3>2. 2 * daily[d] + Again(late + 1) <= AtOnce * (AtOnce + 1)
      BY <1>4, <1>7, <2>7 DEF DailyBounded, late
    <3>3. 2 * daily[d] + Again(late' + 1) <= AtOnce * (AtOnce + 1)
      <4>1. 2 * daily[d] \in Int
        BY <1>4
      <4> QED BY <2>2, <2>4, <2>5, <3>2, <4>1
    <3> QED BY <1>4, <1>5, <1>7, <2>7, <3>3 DEF DailyBounded, late, AtOnce
  <2> QED BY <2>6, <2>7
<1> QED BY <1>4, <1>6, <1>7

(* A grant sets the date to its day: it closes the days up to it and       *)
(* opens the later ones again.                                             *)
LEMMA DailyGranted ==
  ASSUME billing!CreditsAssumption, CreditsType, GrantsInv, NEW r \in Requests, billing!AddDaily(r),
         NEW d \in 0..MaxDay
  PROVE  DailyBounded(d)'
<1> DEFINE ready == Readers("daily", {d})
           late == Readers("daily", billing!Null..d - 1)
           slot == [payments[r] EXCEPT !.pc = "dailyEntry"]
           day == payments[r].day
<1>1. /\ ready \in 0..AtOnce /\ late \in 0..AtOnce /\ AtOnce \in Nat /\ ready' \in 0..AtOnce /\ late' \in 0..AtOnce
  BY ReadersCounted
<1>2. /\ ready' = ready - Reads(payments[r], "daily", {d}) + Reads(slot, "daily", {d})
      /\ late' = late - Reads(payments[r], "daily", billing!Null..d - 1) + Reads(slot, "daily", billing!Null..d - 1)
  <2>1. payments' = [payments EXCEPT ![r] = slot]
    BY DEF billing!AddDaily, billing!Go
  <2> HIDE DEF slot
  <2> QED BY <2>1, ReadersChange
<1>3. day \in 0..today /\ payments[r].pc = "daily" /\ payments[r] \in Payment
  BY DEF billing!AddDaily, CreditsType, Due
<1>4. DailyBounded(d) /\ daily[d] \in Nat /\ today \in Int /\ lastDailyReset \in Int /\ d \in Int /\ day \in Int
  BY <1>3 DEF GrantsInv, CreditsType, UserRow, billing!Null
<1>5. /\ Reads(slot, "daily", {d}) = 0 /\ Reads(slot, "daily", billing!Null..d - 1) = 0
      /\ Reads(payments[r], "daily", {d}) = (IF day = d THEN 1 ELSE 0)
      /\ Reads(payments[r], "daily", billing!Null..d - 1) = (IF day < d THEN 1 ELSE 0)
  <2>1. slot.pc = "dailyEntry"
    BY <1>3 DEF Payment
  <2> QED BY <1>3, <1>4, <2>1 DEF Reads, billing!Null
<1>6. /\ (daily[d])' = daily[d] + (IF day = d THEN 1 ELSE 0)
      /\ today' = today /\ lastDailyReset' = day
  BY <1>4 DEF billing!AddDaily, GrantsInv
<1>7. ready + late <= AtOnce
  <2>1. {d} \cap (billing!Null..d - 1) = {}
    BY <1>4
  <2> QED BY <2>1, ReadersApart
<1> HIDE DEF ready, late, slot, day
<1>8. CASE d > today
  BY <1>3, <1>4, <1>6, <1>8 DEF DailyBounded
<1>9. CASE d <= today
  <2>1. /\ Again(late) \in Int /\ Again(late + 1) \in Int /\ AtOnce * (AtOnce + 1) \in Int
        /\ Again(late + 1) = Again(late) + 2 * (AtOnce - late)
    BY <1>1, AgainStep
  <2>2. 2 * (daily[d] + ready) + Again(late) <= AtOnce * (AtOnce + 1)
    <3>1. CASE d <= lastDailyReset
      BY <1>4, <1>9, <3>1 DEF DailyBounded, ready, late
    <3>2. CASE ~ d <= lastDailyReset
      <4>1. 2 * daily[d] + Again(late + 1) <= AtOnce * (AtOnce + 1)
        BY <1>4, <1>9, <3>2 DEF DailyBounded, late
      <4> QED BY <1>1, <1>4, <1>7, <2>1, <4>1
    <3> QED BY <3>1, <3>2
  <2>3. CASE d <= day
    <3>1. late' = late /\ (daily[d])' + ready' = daily[d] + ready
      BY <1>1, <1>2, <1>4, <1>5, <1>6, <2>3
    <3>2. (daily[d])' \in Nat
      BY <1>4, <1>6
    <3>3. 2 * ((daily[d])' + ready') + Again(late') <= AtOnce * (AtOnce + 1)
      BY <2>2, <3>1
    <3> QED BY <1>4, <1>6, <1>9, <2>3, <3>3 DEF DailyBounded, ready, late, AtOnce
  <2>4. CASE day < d
    <3>1. late' = late - 1 /\ (daily[d])' = daily[d] /\ late' + 1 = late
      BY <1>1, <1>2, <1>4, <1>5, <1>6, <2>4
    <3>2. 2 * daily[d] + Again(late' + 1) <= AtOnce * (AtOnce + 1)
      BY <1>1, <1>4, <2>1, <2>2, <3>1
    <3> QED BY <1>4, <1>6, <1>9, <2>4, <3>1, <3>2 DEF DailyBounded, late, AtOnce
  <2> QED BY <1>4, <2>3, <2>4
<1> QED BY <1>4, <1>8, <1>9

LEMMA MonthlyKept ==
  ASSUME billing!CreditsAssumption, CreditsType, GrantsInv, NEW r \in Requests, NEW slot,
         payments' = [payments EXCEPT ![r] = slot], UNCHANGED <<monthly, today>>,
         NEW d \in billing!Null..MaxDay + Cycle,
         Reads(slot, "monthly", {d}) <= Reads(payments[r], "monthly", {d}),
         nextMonthlyReset' \in {nextMonthlyReset, billing!Null, today + Cycle}
  PROVE  MonthlyBounded(d)'
<1> DEFINE due == Readers("monthly", {d})
<1>1. due \in Int /\ due' \in Int /\ AtOnce \in Int
  BY ReadersCounted
<1>2. due' = due - Reads(payments[r], "monthly", {d}) + Reads(slot, "monthly", {d})
  BY ReadersChange
<1>3. Reads(slot, "monthly", {d}) \in Int /\ Reads(payments[r], "monthly", {d}) \in Int
  BY DEF Reads
<1>4. monthly[d] \in Nat /\ monthly[d] + due <= AtOnce
  BY DEF GrantsInv, MonthlyBounded
<1>5. monthly[d] > 0 => d <= today /\ (nextMonthlyReset = billing!Null \/ d < nextMonthlyReset)
  BY DEF GrantsInv, MonthlyBounded
<1> HIDE DEF due
<1>6. monthly[d] + due' <= AtOnce
  BY <1>1, <1>2, <1>3, <1>4
<1>7. /\ today \in Int /\ Cycle \in Int /\ Cycle > 0 /\ d \in Int
  BY DEF CreditsType, UserRow, billing!CreditsAssumption, billing!Null
<1>8. monthly[d] > 0 => d <= today /\ (nextMonthlyReset' = billing!Null \/ d < nextMonthlyReset')
  BY <1>5, <1>7
<1> QED BY <1>6, <1>8 DEF MonthlyBounded, due, AtOnce

(* Its date is after every date that has been granted.                     *)
LEMMA MonthlyGranted ==
  ASSUME billing!CreditsAssumption, CreditsType, GrantsInv, NEW r \in Requests, billing!AddMonthly(r),
         NEW d \in billing!Null..MaxDay + Cycle
  PROVE  MonthlyBounded(d)'
<1> DEFINE due == Readers("monthly", {d})
           slot == [payments[r] EXCEPT !.pc = "monthlyEntry"]
           day == payments[r].day
<1>1. due \in Int /\ due' \in Int /\ AtOnce \in Int
  BY ReadersCounted
<1>2. due' = due - Reads(payments[r], "monthly", {d}) + Reads(slot, "monthly", {d})
  <2>1. payments' = [payments EXCEPT ![r] = slot]
    BY DEF billing!AddMonthly, billing!Go
  <2> HIDE DEF slot
  <2> QED BY <2>1, ReadersChange
<1>3. day \in Cycle..today /\ payments[r].pc = "monthly" /\ payments[r] \in Payment
  BY DEF billing!AddMonthly, CreditsType, Due
<1>4. /\ Reads(slot, "monthly", {d}) = 0
      /\ Reads(payments[r], "monthly", {d}) = (IF day = d THEN 1 ELSE 0)
  <2>1. slot.pc = "monthlyEntry"
    BY <1>3 DEF Payment
  <2> QED BY <1>3, <2>1 DEF Reads
<1>5. /\ monthly[d] \in Nat /\ monthly[d] + due <= AtOnce
      /\ monthly[d] > 0 => d <= today
  BY DEF GrantsInv, MonthlyBounded
<1>6. /\ (monthly[d])' = monthly[d] + (IF day = d THEN 1 ELSE 0)
      /\ today' = today /\ nextMonthlyReset' = today + Cycle
  BY DEF billing!AddMonthly, GrantsInv
<1>7. /\ today \in Int /\ Cycle \in Int /\ Cycle > 0 /\ d \in Int
  BY DEF CreditsType, UserRow, billing!CreditsAssumption, billing!Null
<1> HIDE DEF due, slot, day
<1>8. (monthly[d])' + due' <= AtOnce
  BY <1>1, <1>2, <1>4, <1>5, <1>6
<1>9. (monthly[d])' > 0 => d <= today /\ d < today + Cycle
  BY <1>3, <1>5, <1>6, <1>7
<1> QED BY <1>6, <1>8, <1>9 DEF MonthlyBounded, due, AtOnce

(* A request that holds no grant after its step.                           *)
LEMMA GrantsKept ==
  ASSUME billing!CreditsAssumption, CreditsType, GrantsInv, NEW r \in Requests, NEW slot,
         slot.pc \notin {"daily", "monthly"}, payments' = [payments EXCEPT ![r] = slot],
         UNCHANGED <<daily, monthly, lastDailyReset, today>>,
         nextMonthlyReset' \in {nextMonthlyReset, billing!Null, today + Cycle}
  PROVE  GrantsInv'
<1>1. \A pc \in {"daily", "monthly"} : \A days :
        Reads(slot, pc, days) <= Reads(payments[r], pc, days)
  BY DEF Reads
<1>2. \A d \in 0..MaxDay : DailyBounded(d)'
  BY <1>1, DailyKept
<1>3. \A d \in billing!Null..MaxDay + Cycle : MonthlyBounded(d)'
  BY <1>1, MonthlyKept
<1> QED BY <1>2, <1>3 DEF GrantsInv

LEMMA GrantsStep ==
  ASSUME billing!CreditsAssumption, CreditsType, GrantsInv, [billing!Next]_(billing!vars)
  PROVE  GrantsInv'
<1>1. /\ billing!Off.pc = "off" /\ today \in 0..MaxDay /\ lastDailyReset \in billing!Null..today
      /\ \A r \in Requests : payments[r] \in Payment /\ Due(payments[r])
      /\ MaxDay \in Nat /\ Cycle \in Nat \ {0} /\ DailyFree \in Nat
  BY DEF billing!Off, CreditsType, UserRow, billing!CreditsAssumption
<1>2. ASSUME NEW r \in Requests, billing!EnsureDailyReset(r) PROVE GrantsInv'
  <2> DEFINE grant == [billing!Off EXCEPT !.pc = "daily", !.day = today, !.amount = DailyFree]
             look == [billing!Off EXCEPT !.pc = "look"]
  <2>1. UNCHANGED <<daily, monthly, lastDailyReset, nextMonthlyReset, today>>
    BY <1>2 DEF billing!EnsureDailyReset, billing!user, billing!Rest
  <2>2. grant.pc = "daily" /\ grant.day = today /\ look.pc = "look"
    BY DEF billing!Off
  <2>3. \/ payments' = [payments EXCEPT ![r] = look]
        \/ payments' = [payments EXCEPT ![r] = grant] /\ lastDailyReset < today
    BY <1>2 DEF billing!EnsureDailyReset
  <2> HIDE DEF grant, look
  <2>4. CASE payments' = [payments EXCEPT ![r] = look]
    BY <2>1, <2>2, <2>4, GrantsKept
  <2>5. CASE payments' = [payments EXCEPT ![r] = grant] /\ lastDailyReset < today
    <3>1. ASSUME NEW d \in 0..MaxDay PROVE DailyBounded(d)'
      <4>1. d <= lastDailyReset => Reads(grant, "daily", {d}) <= Reads(payments[r], "daily", {d})
        BY <1>1, <2>2, <2>5 DEF Reads, billing!Null
      <4>2. d <= today => Reads(grant, "daily", billing!Null..d - 1) <= Reads(payments[r], "daily", billing!Null..d - 1)
        BY <1>1, <2>2 DEF Reads, billing!Null
      <4> QED BY <2>1, <2>5, <4>1, <4>2, DailyKept
    <3>2. ASSUME NEW d \in billing!Null..MaxDay + Cycle PROVE MonthlyBounded(d)'
      <4>1. Reads(grant, "monthly", {d}) <= Reads(payments[r], "monthly", {d})
        BY <2>2 DEF Reads
      <4> QED BY <2>1, <2>5, <4>1, MonthlyKept
    <3> QED BY <2>1, <3>1, <3>2 DEF GrantsInv
  <2> QED BY <2>3, <2>4, <2>5
<1>3. ASSUME NEW r \in Requests, billing!AddDaily(r) PROVE GrantsInv'
  <2> DEFINE slot == [payments[r] EXCEPT !.pc = "dailyEntry"]
  <2>1. \A d \in 0..MaxDay : DailyBounded(d)'
    BY <1>3, DailyGranted
  <2>2. payments' = [payments EXCEPT ![r] = slot] /\ slot.pc = "dailyEntry"
    BY <1>1, <1>3 DEF billing!AddDaily, billing!Go, Payment
  <2>3. UNCHANGED <<monthly, nextMonthlyReset, today>>
    BY <1>3 DEF billing!AddDaily
  <2>4. daily' \in [0..MaxDay -> Nat]
    <3> DEFINE day == payments[r].day
    <3>1. day \in 0..MaxDay /\ daily \in [0..MaxDay -> Nat]
      BY <1>1, <1>3 DEF billing!AddDaily, Due, GrantsInv
    <3>2. daily' = [daily EXCEPT ![day] = daily[day] + 1]
      BY <1>3 DEF billing!AddDaily
    <3> HIDE DEF day
    <3>3. daily[day] + 1 \in Nat
      BY <3>1
    <3> QED BY <3>1, <3>2, <3>3
  <2> HIDE DEF slot
  <2>5. \A d \in billing!Null..MaxDay + Cycle : Reads(slot, "monthly", {d}) <= Reads(payments[r], "monthly", {d})
    BY <2>2 DEF Reads
  <2>6. \A d \in billing!Null..MaxDay + Cycle : MonthlyBounded(d)'
    BY <2>2, <2>3, <2>5, MonthlyKept
  <2> QED BY <2>1, <2>3, <2>4, <2>6 DEF GrantsInv
<1>4. ASSUME NEW r \in Requests, billing!InsertEntry(r) PROVE GrantsInv'
  <2> DEFINE slot == [billing!Off EXCEPT !.pc = billing!AfterEntry(payments[r].pc)]
  <2>1. slot.pc \notin {"daily", "monthly"} /\ payments' = [payments EXCEPT ![r] = slot]
    BY <1>4 DEF billing!InsertEntry, billing!AfterEntry, billing!Off
  <2>2. UNCHANGED <<daily, monthly, lastDailyReset, nextMonthlyReset, today>>
    BY <1>4 DEF billing!InsertEntry, billing!user, billing!Rest
  <2> HIDE DEF slot
  <2> QED BY <2>1, <2>2, GrantsKept
<1>5. ASSUME NEW r \in Requests, billing!EnsureMonthlyReset(r) PROVE GrantsInv'
  <2> DEFINE grant == [pc |-> "monthly", plan |-> plan, day |-> nextMonthlyReset,
                       amount |-> Monthly[plan]]
  <2>1. UNCHANGED <<daily, monthly, lastDailyReset, nextMonthlyReset, today>>
    BY <1>5 DEF billing!EnsureMonthlyReset, billing!user, billing!Rest
  <2>2. grant.pc = "monthly" /\ grant.day = nextMonthlyReset
    OBVIOUS
  <2>3. \/ payments' = [payments EXCEPT ![r] = billing!Off]
        \/ payments' = [payments EXCEPT ![r] = grant] /\ plan \in billing!Paid
    BY <1>5 DEF billing!EnsureMonthlyReset
  <2> HIDE DEF grant
  <2>4. CASE payments' = [payments EXCEPT ![r] = billing!Off]
    BY <1>1, <2>1, <2>4, GrantsKept
  <2>5. CASE payments' = [payments EXCEPT ![r] = grant] /\ plan \in billing!Paid
    <3>1. ASSUME NEW d \in 0..MaxDay PROVE DailyBounded(d)'
      <4>1. \A days : Reads(grant, "daily", days) <= Reads(payments[r], "daily", days)
        BY <2>2 DEF Reads
      <4> QED BY <2>1, <2>5, <4>1, DailyKept
    <3>2. ASSUME NEW d \in billing!Null..MaxDay + Cycle PROVE MonthlyBounded(d)'
      <4>1. CASE d # nextMonthlyReset
        <5>1. Reads(grant, "monthly", {d}) <= Reads(payments[r], "monthly", {d})
          BY <2>2, <4>1 DEF Reads
        <5> QED BY <2>1, <2>5, <5>1, MonthlyKept
      <4>2. CASE d = nextMonthlyReset
        <5>1. nextMonthlyReset # billing!Null /\ d \in Int
          BY <2>5 DEF CreditsType, UserRow, billing!Null
        <5>2. monthly[d] = 0 /\ (monthly[d])' = 0
          <6>1. monthly[d] \in Nat /\ MonthlyBounded(d)
            BY DEF GrantsInv
          <6>2. ~ monthly[d] > 0
            BY <4>2, <5>1, <6>1 DEF MonthlyBounded
          <6> QED BY <2>1, <6>1, <6>2
        <5>3. Readers("monthly", {d})' \in 0..AtOnce /\ AtOnce \in Nat
          BY ReadersCounted
        <5>4. (monthly[d] + Readers("monthly", {d}) <= AtOnce)'
          BY <5>2, <5>3 DEF AtOnce
        <5>5. ~ (monthly[d] > 0)'
          BY <5>2
        <5> QED BY <5>4, <5>5 DEF MonthlyBounded
      <4> QED BY <4>1, <4>2
    <3> QED BY <2>1, <3>1, <3>2 DEF GrantsInv
  <2> QED BY <2>3, <2>4, <2>5
<1>6. ASSUME NEW r \in Requests, billing!AddMonthly(r) PROVE GrantsInv'
  <2> DEFINE slot == [payments[r] EXCEPT !.pc = "monthlyEntry"]
  <2>1. \A d \in billing!Null..MaxDay + Cycle : MonthlyBounded(d)'
    BY <1>6, MonthlyGranted
  <2>2. payments' = [payments EXCEPT ![r] = slot] /\ slot.pc = "monthlyEntry"
    BY <1>1, <1>6 DEF billing!AddMonthly, billing!Go, Payment
  <2>3. UNCHANGED <<daily, lastDailyReset, today>>
    BY <1>6 DEF billing!AddMonthly
  <2>4. monthly' \in [billing!Null..MaxDay + Cycle -> Nat]
    <3> DEFINE day == payments[r].day
    <3>1. day \in billing!Null..MaxDay + Cycle /\ monthly \in [billing!Null..MaxDay + Cycle -> Nat]
      BY <1>1, <1>6 DEF billing!AddMonthly, Payment, GrantsInv
    <3>2. monthly' = [monthly EXCEPT ![day] = monthly[day] + 1]
      BY <1>6 DEF billing!AddMonthly
    <3> HIDE DEF day
    <3>3. monthly[day] + 1 \in Nat
      BY <3>1
    <3> QED BY <3>1, <3>2, <3>3
  <2> HIDE DEF slot
  <2>5. \A days : Reads(slot, "daily", days) <= Reads(payments[r], "daily", days)
    BY <2>2 DEF Reads
  <2>6. \A d \in 0..MaxDay : DailyBounded(d)'
    BY <2>2, <2>3, <2>5, DailyKept
  <2> QED BY <2>1, <2>3, <2>4, <2>6 DEF GrantsInv
<1>7. ASSUME NEW r \in Requests, billing!Webhook(r) PROVE GrantsInv'
  <2>1. UNCHANGED <<daily, monthly, lastDailyReset, nextMonthlyReset, today>>
    BY <1>7 DEF billing!Webhook, billing!user
  <2>2. PICK slot : slot.pc \notin {"daily", "monthly"} /\ payments' = [payments EXCEPT ![r] = slot]
    <3> DEFINE bought(p) == [billing!Off EXCEPT !.pc = "plan", !.plan = p]
               topUp == [billing!Off EXCEPT !.pc = "topUp", !.amount = 1]
    <3>1. topUp.pc = "topUp" /\ \A p \in billing!Plans : bought(p).pc = "plan"
      BY DEF billing!Off
    <3>2. \/ \E p \in billing!Plans : payments' = [payments EXCEPT ![r] = bought(p)]
          \/ payments' = [payments EXCEPT ![r] = topUp]
      BY <1>7 DEF billing!Webhook
    <3> HIDE DEF bought, topUp
    <3> QED BY <3>1, <3>2
  <2> QED BY <2>1, <2>2, GrantsKept
<1>8. ASSUME NEW r \in Requests, billing!SetUserPlan(r) PROVE GrantsInv'
  <2> DEFINE slot == IF payments[r].plan = "free" THEN billing!Off
                       ELSE [billing!Off EXCEPT !.pc = "topUp", !.amount = Monthly[payments[r].plan]]
  <2>1. slot.pc \notin {"daily", "monthly"} /\ payments' = [payments EXCEPT ![r] = slot]
    BY <1>8 DEF billing!SetUserPlan, billing!Off
  <2>2. /\ UNCHANGED <<daily, monthly, lastDailyReset, today>>
        /\ nextMonthlyReset' \in {nextMonthlyReset, billing!Null, today + Cycle}
    BY <1>8 DEF billing!SetUserPlan, billing!Rest
  <2> HIDE DEF slot
  <2> QED BY <2>1, <2>2, GrantsKept
<1>9. ASSUME NEW r \in Requests, billing!ApplyTopUp(r) PROVE GrantsInv'
  <2> DEFINE slot == [payments[r] EXCEPT !.pc = "entry"]
  <2>1. slot.pc = "entry" /\ payments' = [payments EXCEPT ![r] = slot]
    BY <1>1, <1>9 DEF billing!ApplyTopUp, billing!Go, Payment
  <2>2. UNCHANGED <<daily, monthly, lastDailyReset, nextMonthlyReset, today>>
    BY <1>9 DEF billing!ApplyTopUp, billing!Rest
  <2> HIDE DEF slot
  <2> QED BY <2>1, <2>2, GrantsKept
<1>10. ASSUME NEW r \in Requests, billing!RequestFails(r) PROVE GrantsInv'
  <2>1. /\ payments' = [payments EXCEPT ![r] = billing!Off]
        /\ UNCHANGED <<daily, monthly, lastDailyReset, nextMonthlyReset, today>>
    BY <1>10 DEF billing!RequestFails, billing!user
  <2> QED BY <1>1, <2>1, GrantsKept
<1>11. ASSUME billing!Midnight PROVE GrantsInv'
  <2>1. /\ today' = today + 1
        /\ UNCHANGED <<daily, monthly, lastDailyReset, nextMonthlyReset, payments>>
    BY <1>11 DEF billing!Midnight, billing!user, billing!Rest
  <2>2. ASSUME NEW d \in 0..MaxDay PROVE DailyBounded(d)'
    <3> DEFINE ready == Readers("daily", {d})
               late == Readers("daily", billing!Null..d - 1)
    <3>1. ready' = ready /\ late' = late /\ (daily[d])' = daily[d]
      BY <2>1 DEF Readers
    <3>2. late \in 0..AtOnce /\ AtOnce \in Nat
      BY ReadersCounted
    <3>3. DailyBounded(d) /\ daily[d] \in Nat
      BY DEF GrantsInv
    <3> HIDE DEF ready, late
    <3>4. CASE d <= today
      BY <1>1, <2>1, <3>1, <3>3, <3>4 DEF DailyBounded, ready, late, AtOnce, billing!Null
    <3>5. CASE d > today + 1
      BY <1>1, <2>1, <3>1, <3>3, <3>5 DEF DailyBounded, AtOnce, billing!Null
    <3>6. CASE d = today + 1
      <4>1. daily[d] = 0
        BY <1>1, <3>3, <3>6 DEF DailyBounded
      <4>2. 2 * daily[d] + Again(late + 1) <= AtOnce * (AtOnce + 1)
        BY <3>2, <4>1, AgainStep
      <4>3. ~ d > today' /\ ~ d <= lastDailyReset'
        BY <1>1, <2>1, <3>6 DEF billing!Null
      <4> QED BY <3>1, <4>2, <4>3 DEF DailyBounded, late, AtOnce
    <3> QED BY <1>1, <3>4, <3>5, <3>6
  <2>3. ASSUME NEW d \in billing!Null..MaxDay + Cycle PROVE MonthlyBounded(d)'
    <3>1. MonthlyBounded(d)
      BY DEF GrantsInv
    <3>2. /\ monthly' = monthly /\ nextMonthlyReset' = nextMonthlyReset
          /\ Readers("monthly", {d})' = Readers("monthly", {d}) /\ AtOnce' = AtOnce
          /\ today \in Int /\ d \in Int
      BY <1>1, <2>1 DEF Readers, AtOnce, billing!Null
    <3>3. (monthly[d] > 0 => d <= today /\ (nextMonthlyReset = billing!Null \/ d < nextMonthlyReset))'
      BY <2>1, <3>1, <3>2 DEF MonthlyBounded
    <3>4. (monthly[d] + Readers("monthly", {d}) <= AtOnce)'
      BY <3>1, <3>2 DEF MonthlyBounded
    <3> QED BY <3>3, <3>4 DEF MonthlyBounded
  <2> QED BY <2>1, <2>2, <2>3 DEF GrantsInv
<1>12. CASE UNCHANGED billing!vars
  BY <1>12 DEF GrantsInv, DailyBounded, MonthlyBounded, Readers, AtOnce, billing!vars, billing!user
<1> QED
  BY <1>2, <1>3, <1>4, <1>5, <1>6, <1>7, <1>8, <1>9, <1>10, <1>11, <1>12 DEF billing!Next

LEMMA GrantsInit == ASSUME billing!CreditsAssumption, billing!Init PROVE GrantsInv
<1>1. billing!Off.pc = "off" /\ MaxDay \in Nat /\ Cycle \in Nat
  BY DEF billing!Off, billing!CreditsAssumption
<1>2. ASSUME NEW pc, pc # "off", NEW days PROVE Readers(pc, days) = 0
  <2> DEFINE f == [r \in Requests |-> Reads(payments[r], pc, days)]
  <2>1. \A r \in Requests : f[r] = 0
    BY <1>1, <1>2 DEF billing!Init, Reads
  <2> HIDE DEF f
  <2>2. Sum(f, Requests) = 0
    BY <2>1, SumZero, PaymentsFinite DEF billing!CreditsAssumption
  <2> QED BY <2>2 DEF f, Readers
<1>3. AtOnce \in Nat /\ Again(1) <= AtOnce * (AtOnce + 1) /\ 0 \in 0..AtOnce
  <2>1. AtOnce \in Nat /\ 0 \in 0..AtOnce
    BY FS_CardinalityType, PaymentsFinite DEF AtOnce, billing!CreditsAssumption
  <2>2. 0 + 1 = 1
    OBVIOUS
  <2> QED BY <2>1, <2>2, AgainStep
<1>4. ASSUME NEW d \in 0..MaxDay PROVE DailyBounded(d)
  <2>1. Readers("daily", {d}) = 0 /\ Readers("daily", billing!Null..d - 1) = 0
    BY <1>2
  <2>2. daily[d] = 0 /\ today = 0 /\ lastDailyReset = -1 /\ 0 + 1 = 1
    BY <1>1 DEF billing!Init, billing!Null
  <2>3. 2 * daily[d] + Again(Readers("daily", billing!Null..d - 1) + 1) <= AtOnce * (AtOnce + 1)
    <3>1. Again(1) \in Int
      BY <1>3 DEF Again
    <3> QED BY <1>3, <2>1, <2>2, <3>1
  <2> QED BY <2>2, <2>3 DEF DailyBounded
<1>5. ASSUME NEW d \in billing!Null..MaxDay + Cycle PROVE MonthlyBounded(d)
  <2>1. Readers("monthly", {d}) = 0 /\ monthly[d] = 0
    BY <1>2 DEF billing!Init
  <2> QED BY <1>3, <2>1 DEF MonthlyBounded
<1> QED BY <1>4, <1>5 DEF billing!Init, GrantsInv

(* However the reads and writes of concurrent requests interleave, a day   *)
(* or a date is granted no more often than requests can have read it.      *)
THEOREM GrantsAlwaysBounded == ASSUME billing!CreditsAssumption PROVE billing!Spec => []GrantsBounded
<1> DEFINE Inv == CreditsType /\ billing!LedgerAddsUp /\ GrantsInv
<1>1. billing!Init => Inv
  BY CreditsInit, GrantsInit
<1>2. Inv /\ [billing!Next]_(billing!vars) => Inv'
  BY CreditsStep, GrantsStep
<1>3. Inv => billing!GrantsBounded
  <2> SUFFICES ASSUME CreditsType, GrantsInv PROVE billing!GrantsBounded
    OBVIOUS
  <2>1. ASSUME NEW d \in 0..MaxDay PROVE 2 * daily[d] <= AtOnce * (AtOnce + 1)
    <3> DEFINE ready == Readers("daily", {d})
               late == Readers("daily", billing!Null..d - 1)
    <3>1. ready \in 0..AtOnce /\ late \in 0..AtOnce /\ AtOnce \in Nat /\ AtOnce * (AtOnce + 1) >= 0
      BY ReadersCounted
    <3>2. Again(late) \in Int /\ Again(late) >= 0 /\ Again(late + 1) \in Int /\ Again(late) <= Again(late + 1)
      <4>1. Again(late) >= 0
        BY <3>1 DEF Again
      <4> QED BY <3>1, <4>1, AgainStep
    <3>3. daily[d] \in Nat /\ DailyBounded(d)
      BY DEF GrantsInv
    <3> HIDE DEF ready, late
    <3>4. \/ daily[d] = 0
          \/ 2 * (daily[d] + ready) + Again(late) <= AtOnce * (AtOnce + 1)
          \/ 2 * daily[d] + Again(late + 1) <= AtOnce * (AtOnce + 1)
      BY <3>3 DEF DailyBounded, ready, late
    <3> QED BY <3>1, <3>2, <3>3, <3>4
  <2>2. ASSUME NEW d \in billing!Null..MaxDay + Cycle PROVE monthly[d] <= AtOnce
    <3>1. monthly[d] \in Nat /\ monthly[d] + Readers("monthly", {d}) <= AtOnce
      BY DEF GrantsInv, MonthlyBounded
    <3>2. Readers("monthly", {d}) \in Nat /\ AtOnce \in Nat
      BY ReadersCounted
    <3> QED BY <3>1, <3>2
  <2>3. DOMAIN daily = 0..MaxDay /\ DOMAIN monthly = billing!Null..MaxDay + Cycle
    BY DEF GrantsInv
  <2> QED BY <2>1, <2>2, <2>3, PaymentsFinite DEF billing!GrantsBounded, AtOnce
<1> QED BY <1>1, <1>2, <1>3, PTL DEF billing!Spec, GrantsBounded

-----------------------------------------------------------------------------
(* DORateLimit.  The library's sum is the same in the instance.            *)
LEMMA DOSum ==
  ASSUME NEW f, NEW S PROVE DO!SumFunctionOnSet(f, S) = Sum(f, S)
BY Zenon DEF DO!SumFunctionOnSet, SumFunctionOnSet, DO!FoldFunctionOnSet,
  FoldFunctionOnSet, DO!MapThenFoldSet, MapThenFoldSet, Sum

StartOf(time) == (time \div BucketSize) * BucketSize
InBucket(b) == {t \in DO!Time : StartOf(t) = b}
InReach(b) == {t \in InBucket(b) : t >= doNow - DO!MaxWindow}
CountOf(bs, b) == IF b \in DOMAIN bs THEN bs[b].count ELSE 0

(* A bucket may have been cleaned up and begun again: it counts at least   *)
(* what some window can still reach, and at most what was accepted in it.  *)
CountsRight(bs, b) ==
  /\ bs[b].count \in Nat /\ bs[b].timestamp \in Int
  /\ \A t \in InBucket(b) : accepted[t] > 0 => t <= bs[b].timestamp
  /\ bs[b].count <= Sum(accepted, InBucket(b))

Accounted(bs) ==
  /\ DOMAIN bs \subseteq DO!Time
  /\ \A b \in DOMAIN bs : CountsRight(bs, b)
  /\ \A b \in DO!Time : Sum(accepted, InReach(b)) <= CountOf(bs, b)

DOInv ==
  /\ doNow \in DO!Time /\ accepted \in [DO!Time -> Nat]
  /\ \A t \in DO!Time : t > doNow => accepted[t] = 0
  /\ initialized /\ stored.saved => stored.buckets = buckets
  /\ ~stored.saved => buckets = DO!NoBuckets
  /\ Accounted(DO!Loaded.buckets)

LEMMA DOTimeFinite == ASSUME DO!RateLimitAssumption PROVE IsFiniteSet(DO!Time) /\ DO!Time \subseteq Nat
<1>1. DOTime \in Nat
  BY DEF DO!RateLimitAssumption
<1> QED BY <1>1, FS_Interval DEF DO!Time

LEMMA DOStart ==
  ASSUME DO!RateLimitAssumption, NEW time \in Int
  PROVE  /\ StartOf(time) \in Int
         /\ StartOf(time) <= time /\ time < StartOf(time) + BucketSize
         /\ time >= 0 => StartOf(time) >= 0
         /\ time \in DO!Time => StartOf(time) \in DO!Time
<1>1. BucketSize \in Nat \ {0} /\ DOTime \in Nat
  BY DEF DO!RateLimitAssumption
<1>2. /\ StartOf(time) \in Int
      /\ StartOf(time) <= time /\ time < StartOf(time) + BucketSize
  BY <1>1, Z3 DEF StartOf
<1>3. time >= 0 => StartOf(time) >= 0
  <2>1. time >= 0 => time \div BucketSize \in Nat
    BY <1>1, Z3
  <2> QED BY <1>1, <2>1 DEF StartOf
<1>4. time \in DO!Time => StartOf(time) \in DO!Time
  BY <1>1, <1>2, <1>3 DEF DO!Time
<1> QED BY <1>2, <1>3, <1>4

LEMMA DOStartInOrder ==
  ASSUME DO!RateLimitAssumption, NEW a \in Int, NEW b \in Int, a <= b
  PROVE  StartOf(a) <= StartOf(b)
<1> DEFINE i == a \div BucketSize
           j == b \div BucketSize
<1>1. BucketSize \in Nat \ {0} /\ i \in Int /\ j \in Int
  BY Z3 DEF DO!RateLimitAssumption
<1>2. i * BucketSize <= a /\ b < j * BucketSize + BucketSize
  BY DOStart DEF StartOf
<1> HIDE DEF i, j
<1>3. i <= j
  <2>1. SUFFICES ASSUME j + 1 <= i PROVE FALSE
    BY <1>1
  <2>2. (j + 1) * BucketSize <= i * BucketSize
    BY <1>1, <2>1
  <2>3. (j + 1) * BucketSize = j * BucketSize + BucketSize
    BY <1>1
  <2> QED BY <1>1, <1>2, <2>2, <2>3
<1>4. i * BucketSize <= j * BucketSize
  BY <1>1, <1>3
<1> QED BY <1>4 DEF i, j, StartOf

LEMMA DOWindowLengths ==
  ASSUME DO!RateLimitAssumption
  PROVE  /\ DO!MaxWindow \in Nat
         /\ \A w \in DO!Limits : w.length \in Nat /\ w.length <= DO!MaxWindow /\ w.limit \in Nat
         /\ DOPeriod <= DO!MaxWindow /\ DOPeriod \in Nat /\ BurstWindow \in Nat /\ DailyWindow \in Nat
         /\ BucketSize \in Nat \ {0}
BY DEF DO!RateLimitAssumption, DO!MaxWindow, DO!Bigger, DO!Limits

(* Finite sums of what was accepted.                                       *)
LEMMA DOAcceptedSum ==
  ASSUME DO!RateLimitAssumption, NEW f \in [DO!Time -> Nat], NEW A \in SUBSET DO!Time
  PROVE  /\ IsFiniteSet(A) /\ IntegerOn(f, A) /\ Sum(f, A) \in Nat
         /\ \A B \in SUBSET A : Sum(f, B) <= Sum(f, A)
<1>1. IsFiniteSet(A) /\ \A t \in A : f[t] \in Nat
  BY DOTimeFinite, FS_Subset
<1>2. IntegerOn(f, A)
  BY <1>1 DEF IntegerOn
<1> QED BY <1>1, <1>2, SumNat, SumPart

(* The sum of the abstract specification is the same operator.             *)
LEMMA DOSlidingSum ==
  ASSUME NEW f, NEW S PROVE DO!Sliding!SumFunctionOnSet(f, S) = Sum(f, S)
BY Zenon DEF DO!Sliding!SumFunctionOnSet, SumFunctionOnSet, DO!Sliding!FoldFunctionOnSet,
  FoldFunctionOnSet, DO!Sliding!MapThenFoldSet, MapThenFoldSet, Sum

LEMMA DOUsedCounted ==
  ASSUME DO!RateLimitAssumption, DOInv, NEW bs, Accounted(bs), NEW length \in Nat, length <= DO!MaxWindow
  PROVE  /\ DO!Sliding!Used(length) \in Nat /\ DO!Count(bs, length) \in Int
         /\ DO!Sliding!Used(length) <= DO!Count(bs, length)
<1> DEFINE W == {t \in 0..doNow : t >= doNow - length}
           first == StartOf(doNow - length)
           S == {b \in DO!Time : b >= first}
           P == [b \in S |-> {t \in W : StartOf(t) = b}]
           g == [b \in S |-> Sum(accepted, P[b])]
           c == [b \in S |-> CountOf(bs, b)]
           D == {b \in DOMAIN bs : b >= first}
           h == [b \in D |-> bs[b].count]
<1>1. doNow \in Nat /\ doNow <= DOTime /\ DOTime \in Nat /\ DO!MaxWindow \in Nat
  BY DOWindowLengths DEF DOInv, DO!Time, DO!RateLimitAssumption
<1>2. DO!Sliding!Used(length) = Sum(accepted, W)
  BY DOSlidingSum DEF DO!Sliding!Used
<1>3. DO!Count(bs, length) = Sum(h, D)
  BY DOSum DEF DO!Count, DO!SumFunction, StartOf
<1>4. W \in SUBSET DO!Time /\ S \in SUBSET DO!Time
  BY <1>1 DEF DO!Time
<1>5. IsFiniteSet(W) /\ IsFiniteSet(S)
  <2> HIDE DEF W, S
  <2> QED BY <1>4, DOTimeFinite, FS_Subset
<1>6. UNION {P[b] : b \in S} = W
  <2>1. ASSUME NEW t \in W PROVE StartOf(t) \in S /\ t \in P[StartOf(t)]
    <3>1. t \in Int /\ t \in DO!Time /\ doNow - length \in Int /\ doNow - length <= t
      BY <1>1, <1>4
    <3>2. StartOf(t) \in DO!Time /\ StartOf(t) >= first
      BY <3>1, DOStart, DOStartInOrder
    <3> QED BY <3>2
  <2>2. \A b \in S : P[b] \subseteq W
    OBVIOUS
  <2> QED BY <2>1, <2>2
<1>7. /\ \A t \in W : accepted[t] \in Nat
      /\ \A b \in S : P[b] \subseteq W /\ g[b] = Sum(accepted, P[b])
      /\ \A b, d \in S : b # d => P[b] \cap P[d] = {}
  BY <1>4 DEF DOInv
<1>8. ASSUME NEW b \in S PROVE g[b] <= c[b] /\ c[b] \in Nat
  <2>1. P[b] \in SUBSET InReach(b) /\ InReach(b) \in SUBSET DO!Time
    BY <1>1, <1>4 DEF InReach, InBucket
  <2>2. Sum(accepted, P[b]) <= Sum(accepted, InReach(b)) /\ Sum(accepted, InReach(b)) \in Nat
    <3> HIDE DEF P
    <3> QED BY <2>1, DOAcceptedSum DEF DOInv
  <2>3. Sum(accepted, InReach(b)) <= CountOf(bs, b) /\ CountOf(bs, b) \in Nat
    BY DEF Accounted, CountsRight, CountOf
  <2>4. Sum(accepted, P[b]) \in Nat
    <3>1. P[b] \in SUBSET DO!Time
      BY <2>1
    <3> HIDE DEF P
    <3> QED BY <3>1, DOAcceptedSum DEF DOInv
  <2> QED BY <2>2, <2>3, <2>4
<1>9. /\ D \in SUBSET S /\ \A b \in D : h[b] = c[b] /\ c[b] \in Nat
      /\ \A b \in S \ D : c[b] = 0
  <2>1. D \in SUBSET S
    BY DEF Accounted, CountsRight
  <2> QED BY <1>8, <2>1 DEF CountOf
<1> HIDE DEF W, S, P, g, c, D, h
<1>10. Sum(g, S) = Sum(accepted, W) /\ IntegerOn(g, S)
  BY <1>5, <1>6, <1>7, SumParts
<1>11. Sum(g, S) <= Sum(c, S)
  BY <1>5, <1>8, <1>10, SumAtMost DEF IntegerOn
<1>12. Sum(c, S) = Sum(c, D) + Sum(c, S \ D)
  BY <1>5, <1>8, <1>9, SumSplit DEF IntegerOn
<1>13. IsFiniteSet(D) /\ IsFiniteSet(S \ D)
  BY <1>5, <1>9, FS_Subset
<1>14. Sum(c, S \ D) = 0 /\ Sum(h, D) = Sum(c, D) /\ Sum(c, D) \in Nat
  BY <1>9, <1>13, SumZero, SumSame, SumNat
<1>15. Sum(accepted, W) \in Nat
  BY <1>4, DOAcceptedSum DEF DOInv
<1> QED BY <1>2, <1>3, <1>10, <1>11, <1>12, <1>14, <1>15

LEMMA DOCountedUsed ==
  ASSUME DO!RateLimitAssumption, DOInv, NEW bs, Accounted(bs), NEW length \in Nat
  PROVE  /\ DO!Count(bs, length) \in Int /\ DO!Sliding!Used(length + (BucketSize - 1)) \in Nat
         /\ DO!Count(bs, length) <= DO!Sliding!Used(length + (BucketSize - 1))
<1> DEFINE W == {t \in 0..doNow : t >= doNow - (length + (BucketSize - 1))}
           first == StartOf(doNow - length)
           D == {b \in DOMAIN bs : b >= first}
           h == [b \in D |-> bs[b].count]
           P == [b \in D |-> InBucket(b)]
           g == [b \in D |-> Sum(accepted, P[b])]
           V == UNION {P[b] : b \in D}
<1>1. doNow \in Nat /\ doNow <= DOTime /\ DOTime \in Nat /\ BucketSize \in Nat \ {0}
  BY DOWindowLengths DEF DOInv, DO!Time, DO!RateLimitAssumption
<1>2. DO!Sliding!Used(length + (BucketSize - 1)) = Sum(accepted, W)
  BY DOSlidingSum DEF DO!Sliding!Used
<1>3. DO!Count(bs, length) = Sum(h, D)
  BY DOSum DEF DO!Count, DO!SumFunction, StartOf
<1>4. W \in SUBSET DO!Time /\ D \in SUBSET DO!Time
  BY <1>1 DEF DO!Time, Accounted, CountsRight
<1>5. IsFiniteSet(D)
  <2> HIDE DEF D
  <2> QED BY <1>4, DOTimeFinite, FS_Subset
<1>6. /\ \A t \in DO!Time : accepted[t] \in Nat
      /\ \A b \in D : P[b] \subseteq DO!Time /\ g[b] = Sum(accepted, P[b])
      /\ \A b, d \in D : b # d => P[b] \cap P[d] = {}
  BY DEF DOInv, InBucket
<1>7. \A b \in D : h[b] <= g[b] /\ h[b] \in Nat
  BY DEF Accounted, CountsRight
<1>8. V \in SUBSET DO!Time
  BY <1>6
<1>9. \A t \in V \ W : accepted[t] = 0
  <2>1. ASSUME NEW t \in V \ W PROVE accepted[t] = 0
    <3>1. t \in DO!Time /\ StartOf(t) >= first /\ t \in Int
      BY DOTimeFinite DEF InBucket
    <3>2. StartOf(t) <= t /\ StartOf(t) \in Int
      BY <3>1, DOStart
    <3>3. doNow - length < first + BucketSize /\ first \in Int
      BY <1>1, DOStart
    <3>4. t >= doNow - (length + (BucketSize - 1))
      BY <1>1, <3>1, <3>2, <3>3
    <3>5. t > doNow
      BY <1>1, <2>1, <3>1, <3>4, DOTimeFinite
    <3> QED BY <3>1, <3>5 DEF DOInv
  <2> QED BY <2>1
<1> HIDE DEF W, P, g, D, h, V
<1>10. Sum(g, D) = Sum(accepted, V) /\ IntegerOn(g, D)
  <2>1. IsFiniteSet(DO!Time)
    BY DOTimeFinite
  <2>2. UNION {P[b] : b \in D} = V
    BY DEF V
  <2> QED BY <1>5, <1>6, <2>1, <2>2, SumPartsOf
<1>11. Sum(h, D) <= Sum(g, D) /\ Sum(h, D) \in Nat
  BY <1>5, <1>7, <1>10, SumAtMost, SumNat DEF IntegerOn
<1>12. Sum(accepted, V) = Sum(accepted, V \cap W) + Sum(accepted, V \ W)
  <2>1. V \cap W \in SUBSET V /\ V \ (V \cap W) = V \ W /\ IsFiniteSet(V) /\ IntegerOn(accepted, V)
    BY <1>8, DOAcceptedSum DEF DOInv
  <2> QED BY <2>1, SumSplit
<1>13. Sum(accepted, V \ W) = 0
  <2>1. IsFiniteSet(V \ W)
    <3>1. V \ W \in SUBSET DO!Time
      BY <1>8
    <3> QED BY <3>1, DOTimeFinite, FS_Subset
  <2> QED BY <1>9, <2>1, SumZero
<1>14. Sum(accepted, V \cap W) <= Sum(accepted, W) /\ Sum(accepted, W) \in Nat /\ Sum(accepted, V \cap W) \in Nat
  <2>1. V \cap W \in SUBSET W /\ V \cap W \in SUBSET DO!Time
    BY <1>4
  <2> QED BY <1>4, <2>1, DOAcceptedSum DEF DOInv
<1> QED BY <1>2, <1>3, <1>10, <1>11, <1>12, <1>13, <1>14
(* Nothing is accounted for but these variables.                           *)
LEMMA DOAccountsSame ==
  ASSUME NEW bs, Accounted(bs), UNCHANGED <<doNow, accepted>>
  PROVE  Accounted(bs)'
BY DEF Accounted, CountsRight, InBucket, InReach, CountOf, DO!Time, StartOf, DO!MaxWindow, DO!Bigger

LEMMA DOAccountsNext ==
  ASSUME NEW bs, DOMAIN bs \subseteq DO!Time,
         \A c \in DOMAIN bs : CountsRight(bs, c)',
         \A c \in DO!Time : (Sum(accepted, InReach(c)) <= CountOf(bs, c))'
  PROVE  Accounted(bs)'
BY Zenon DEF Accounted

LEMMA DOAccountsEmpty ==
  ASSUME DO!RateLimitAssumption, NEW history \in [DO!Time -> Nat], \A t \in DO!Time : history[t] = 0, NEW A \in SUBSET DO!Time
  PROVE  Sum(history, A) = 0
<1>1. IsFiniteSet(A) /\ \A t \in A : history[t] = 0
  BY DOTimeFinite, FS_Subset
<1> QED BY <1>1, SumZero

(* The cleanup drops only buckets that are out of the reach of every       *)
(* window.                                                                 *)
LEMMA DOCleanedAccounts ==
  ASSUME DO!RateLimitAssumption, DOInv
  PROVE  Accounted(DO!Cleaned(DO!Loaded).buckets)
<1> DEFINE bs == DO!Loaded.buckets
           kept == {b \in DOMAIN bs : bs[b].timestamp >= doNow - DO!MaxWindow}
           rest == [b \in kept |-> bs[b]]
<1>1. Accounted(bs)
  BY DEF DOInv
<1>2. DO!Cleaned(DO!Loaded).buckets = bs \/ DO!Cleaned(DO!Loaded).buckets = rest
  BY DEF DO!Cleaned
<1>3. Accounted(rest)
  <2> HIDE DEF bs
  <2>1. DOMAIN rest = kept /\ \A b \in kept : b \in DOMAIN bs /\ rest[b] = bs[b]
    OBVIOUS
  <2>2. ASSUME NEW b \in DO!Time PROVE Sum(accepted, InReach(b)) <= CountOf(rest, b)
    <3>1. Sum(accepted, InReach(b)) <= CountOf(bs, b)
      BY <1>1 DEF Accounted, CountsRight
    <3>2. CASE b \in kept \/ b \notin DOMAIN bs
      BY <2>1, <3>1, <3>2 DEF CountOf
    <3>3. CASE b \in DOMAIN bs /\ b \notin kept
      <4>1. InReach(b) \in SUBSET DO!Time /\ IsFiniteSet(InReach(b))
        <5>1. InReach(b) \in SUBSET DO!Time
          BY DEF InReach, InBucket
        <5> QED BY <5>1, DOTimeFinite, FS_Subset
      <4>2. \A t \in InReach(b) : accepted[t] = 0
        <5>1. ASSUME NEW t \in InReach(b) PROVE accepted[t] = 0
          <6>1. /\ t \in InBucket(b) /\ t >= doNow - DO!MaxWindow /\ t \in DO!Time /\ t \in Int
                /\ accepted[t] \in Nat
            BY DOTimeFinite DEF InReach, InBucket, DOInv
          <6>2. bs[b].timestamp \in Int /\ (accepted[t] > 0 => t <= bs[b].timestamp)
            BY <1>1, <3>3, <6>1 DEF Accounted, CountsRight
          <6>3. doNow - DO!MaxWindow \in Int /\ ~ bs[b].timestamp >= doNow - DO!MaxWindow
            BY <3>3, DOWindowLengths, DOTimeFinite DEF DOInv
          <6> QED BY <6>1, <6>2, <6>3
        <5> QED BY <5>1
      <4>3. Sum(accepted, InReach(b)) = 0
        BY <4>1, <4>2, SumZero
      <4>4. CountOf(rest, b) = 0
        BY <2>1, <3>3 DEF CountOf
      <4> QED BY <4>3, <4>4
    <3> QED BY <3>2, <3>3
  <2> QED BY <1>1, <2>1, <2>2 DEF Accounted, CountsRight
<1> QED BY <1>1, <1>2, <1>3

(* The current bucket takes the weight.                                    *)
LEMMA DOAddedAccounts ==
  ASSUME DO!RateLimitAssumption, DOInv, NEW bs, Accounted(bs), NEW weight \in Nat,
         accepted' = [accepted EXCEPT ![doNow] = @ + weight], doNow' = doNow,
         NEW other, other = DO!Added(bs, weight)
  PROVE  Accounted(other)' /\ accepted' \in [DO!Time -> Nat]
<1> DEFINE current == StartOf(doNow)
           as == DO!Added(bs, weight)
<1>1. doNow \in DO!Time /\ doNow \in Int /\ current \in DO!Time /\ doNow \in InBucket(current) /\ doNow \in InReach(current)
  <2>1. doNow \in DO!Time /\ doNow \in Int /\ DO!MaxWindow \in Nat
    BY DOTimeFinite, DOWindowLengths DEF DOInv
  <2>2. current \in DO!Time
    BY <2>1, DOStart
  <2> QED BY <2>1, <2>2 DEF InBucket, InReach
<1>2. /\ accepted' \in [DO!Time -> Nat] /\ accepted'[doNow] = accepted[doNow] + weight
      /\ accepted \in [DO!Time -> Nat] /\ accepted[doNow] \in Nat
      /\ \A t \in DO!Time \ {doNow} : accepted'[t] = accepted[t]
  <2>1. accepted \in [DO!Time -> Nat] /\ accepted[doNow] \in Nat /\ accepted[doNow] + weight \in Nat
    BY <1>1 DEF DOInv
  <2> QED BY <1>1, <2>1
<1>3. /\ DOMAIN as = DOMAIN bs \cup {current}
      /\ as[current].count = CountOf(bs, current) + weight /\ as[current].timestamp = doNow
      /\ \A c \in DOMAIN bs \ {current} : as[c] = bs[c]
  BY DEF DO!Added, CountOf, StartOf
<1>4. ASSUME NEW A \in SUBSET DO!Time
      PROVE  /\ Sum(accepted, A) \in Nat /\ Sum(accepted', A) \in Nat
             /\ doNow \in A => Sum(accepted', A) = Sum(accepted, A) + weight
             /\ doNow \notin A => Sum(accepted', A) = Sum(accepted, A)
  <2> DEFINE f == accepted
             g == accepted'
  <2>1. f \in [DO!Time -> Nat] /\ g \in [DO!Time -> Nat] /\ IsFiniteSet(A) /\ IntegerOn(f, A)
        /\ Sum(f, A) \in Nat /\ Sum(g, A) \in Nat
    BY <1>2, DOAcceptedSum
  <2>2. /\ g[doNow] = f[doNow] + weight /\ f[doNow] \in Nat /\ g[doNow] \in Int
        /\ \A t \in A \ {doNow} : g[t] = f[t]
    BY <1>2
  <2> HIDE DEF f, g
  <2>3. CASE doNow \in A
    <3>1. Sum(g, A) = Sum(f, A) - f[doNow] + g[doNow]
      BY <2>1, <2>2, <2>3, SumChange
    <3>2. Sum(g, A) = Sum(f, A) + weight
      BY <2>1, <2>2, <3>1
    <3> QED BY <2>1, <2>3, <3>2 DEF f, g
  <2>4. CASE doNow \notin A
    <3>1. \A t \in A : f[t] = g[t]
      BY <2>2, <2>4
    <3>2. Sum(f, A) = Sum(g, A)
      BY <2>1, <3>1, SumSame
    <3> QED BY <2>1, <2>4, <3>2 DEF f, g
  <2> QED BY <2>3, <2>4
<1>5. \A c : InBucket(c) \in SUBSET DO!Time /\ InReach(c) \in SUBSET DO!Time
             /\ (c # current => doNow \notin InBucket(c) /\ doNow \notin InReach(c))
  BY DEF InBucket, InReach
<1>6. CountOf(bs, current) \in Nat /\ (current \notin DOMAIN bs => CountOf(bs, current) = 0)
  BY DEF Accounted, CountsRight, CountOf
<1> HIDE DEF current, as
<1>7. ASSUME NEW c \in DOMAIN as
      PROVE  /\ c \in DO!Time /\ as[c].count \in Nat /\ as[c].timestamp \in Int
             /\ \A t \in InBucket(c) : accepted'[t] > 0 => t <= as[c].timestamp
             /\ as[c].count <= Sum(accepted', InBucket(c))
  <2>1. CASE c = current
    <3>1. \A t \in InBucket(c) : accepted'[t] > 0 => t <= doNow
      <4>1. ASSUME NEW t \in InBucket(c), accepted'[t] > 0 PROVE t <= doNow
        <5>1. t \in DO!Time /\ t \in Int
          BY <1>5, DOTimeFinite
        <5>2. CASE t = doNow
          BY <1>1, <5>2
        <5>3. CASE t # doNow
          <6>1. accepted[t] # 0
            BY <1>2, <4>1, <5>1, <5>3
          <6> QED BY <1>1, <5>1, <6>1 DEF DOInv
        <5> QED BY <5>2, <5>3
      <4> QED BY <4>1
    <3>2. CountOf(bs, current) <= Sum(accepted, InBucket(current))
      <4>1. Sum(accepted, InBucket(current)) \in Nat
        BY <1>4, <1>5
      <4> QED BY <4>1 DEF Accounted, CountsRight, CountOf
    <3>3. Sum(accepted', InBucket(current)) = Sum(accepted, InBucket(current)) + weight /\ Sum(accepted, InBucket(current)) \in Nat
      BY <1>1, <1>4, <1>5
    <3>4. as[current].count \in Nat /\ as[current].count <= Sum(accepted', InBucket(current))
      BY <1>3, <1>6, <3>2, <3>3
    <3>5. as[current].timestamp = doNow /\ current \in DO!Time /\ doNow \in Int
      BY <1>1, <1>3
    <3> QED BY <2>1, <3>1, <3>4, <3>5
  <2>2. CASE c # current
    <3>1. c \in DOMAIN bs /\ as[c] = bs[c] /\ doNow \notin InBucket(c)
      BY <1>3, <1>5, <2>2
    <3>2. \A t \in InBucket(c) : accepted'[t] = accepted[t]
      BY <1>2, <1>5, <3>1
    <3>3. Sum(accepted', InBucket(c)) = Sum(accepted, InBucket(c))
      <4>1. InBucket(c) \in SUBSET DO!Time
        BY <1>5
      <4> QED BY <1>4, <3>1, <4>1
    <3>4. /\ c \in DO!Time /\ bs[c].count \in Nat /\ bs[c].timestamp \in Int
          /\ \A t \in InBucket(c) : accepted[t] > 0 => t <= bs[c].timestamp
          /\ bs[c].count <= Sum(accepted, InBucket(c))
      BY <3>1 DEF Accounted, CountsRight
    <3> QED BY <3>1, <3>2, <3>3, <3>4
  <2> QED BY <2>1, <2>2
<1>8. ASSUME NEW c \in DO!Time PROVE Sum(accepted', InReach(c)) <= CountOf(as, c)
  <2>1. Sum(accepted, InReach(c)) <= CountOf(bs, c) /\ CountOf(bs, c) \in Nat
    BY DEF Accounted, CountsRight, CountOf
  <2>2. CASE c = current
    <3>1. Sum(accepted', InReach(current)) = Sum(accepted, InReach(current)) + weight /\ Sum(accepted, InReach(current)) \in Nat
      BY <1>1, <1>4, <1>5
    <3>2. CountOf(as, current) = CountOf(bs, current) + weight
      BY <1>3 DEF CountOf
    <3> QED BY <2>1, <2>2, <3>1, <3>2
  <2>3. CASE c # current
    <3>1. Sum(accepted', InReach(c)) = Sum(accepted, InReach(c))
      <4>1. InReach(c) \in SUBSET DO!Time /\ doNow \notin InReach(c)
        BY <1>5, <2>3
      <4> QED BY <1>4, <4>1
    <3>2. CountOf(as, c) = CountOf(bs, c)
      BY <1>3, <2>3 DEF CountOf
    <3> QED BY <2>1, <3>1, <3>2
  <2> QED BY <2>2, <2>3
<1>9. other = as
  BY DEF as
<1>10. \A c : InReach(c)' = InReach(c)
  BY DEF InReach, InBucket, DO!Time, StartOf, DO!MaxWindow, DO!Bigger
<1>11. DOMAIN as \subseteq DO!Time
  BY <1>7
<1>12. Accounted(other)'
  <2>1. \A c \in DO!Time : Sum(accepted', InReach(c)') <= CountOf(as, c)
    BY <1>8, <1>10
  <2>2. \A c \in DO!Time : (Sum(accepted, InReach(c)) <= CountOf(other, c))'
    BY <1>9, <2>1 DEF CountOf
  <2>3. \A c \in DOMAIN other : CountsRight(other, c)'
    BY <1>7, <1>9 DEF CountsRight, InBucket, DO!Time, StartOf
  <2>4. DOMAIN other \subseteq DO!Time
    BY <1>9, <1>11
  <2> QED BY <2>2, <2>3, <2>4, DOAccountsNext
<1> QED BY <1>2, <1>12
(* The clock takes only what is older out of reach.                        *)
LEMMA DOTickAccounts ==
  ASSUME DO!RateLimitAssumption, DOInv, NEW bs, Accounted(bs), accepted' = accepted, doNow' = doNow + 1
  PROVE  Accounted(bs)'
<1>1. doNow \in Int /\ DO!MaxWindow \in Nat /\ accepted \in [DO!Time -> Nat]
  BY DOTimeFinite, DOWindowLengths DEF DOInv
<1> DEFINE later(c) == {t \in InBucket(c) : t >= doNow' - DO!MaxWindow}
<1>2. ASSUME NEW c \in DO!Time PROVE Sum(accepted, later(c)) <= CountOf(bs, c)
  <2>1. later(c) \in SUBSET InReach(c) /\ InReach(c) \in SUBSET DO!Time /\ later(c) \in SUBSET DO!Time
    BY <1>1, DOTimeFinite DEF InReach, InBucket
  <2> HIDE DEF later
  <2>2. /\ Sum(accepted, later(c)) <= Sum(accepted, InReach(c))
        /\ Sum(accepted, later(c)) \in Nat /\ Sum(accepted, InReach(c)) \in Nat
    BY <1>1, <2>1, DOAcceptedSum
  <2>3. Sum(accepted, InReach(c)) <= CountOf(bs, c) /\ CountOf(bs, c) \in Nat
    BY DEF Accounted, CountsRight, CountOf
  <2> QED BY <2>2, <2>3
<1>3. \A c : InReach(c)' = later(c) /\ InBucket(c)' = InBucket(c)
  BY DEF InReach, InBucket, DO!Time, StartOf, DO!MaxWindow, DO!Bigger
<1>4. \A c \in DO!Time : (Sum(accepted, InReach(c)) <= CountOf(bs, c))'
  BY <1>2, <1>3 DEF CountOf
<1>5. \A c \in DOMAIN bs : CountsRight(bs, c)'
  BY <1>3 DEF Accounted, CountsRight
<1>6. DOMAIN bs \subseteq DO!Time
  BY DEF Accounted, CountsRight
<1> QED BY <1>4, <1>5, <1>6, DOAccountsNext

LEMMA DONoBucketsAccount ==
  ASSUME DO!RateLimitAssumption, NEW history \in [DO!Time -> Nat], \A t \in DO!Time : history[t] = 0, NEW time
  PROVE  /\ DOMAIN DO!NoBuckets = {}
         /\ \A b \in DO!Time : Sum(history, {t \in InBucket(b) : t >= time - DO!MaxWindow}) <= CountOf(DO!NoBuckets, b)
<1>1. ASSUME NEW b \in DO!Time
      PROVE  Sum(history, {t \in InBucket(b) : t >= time - DO!MaxWindow}) <= CountOf(DO!NoBuckets, b)
  <2> DEFINE A == {t \in InBucket(b) : t >= time - DO!MaxWindow}
  <2>1. A \in SUBSET DO!Time
    BY DEF InBucket
  <2> HIDE DEF A
  <2>2. Sum(history, A) = 0
    BY <2>1, DOAccountsEmpty
  <2>3. CountOf(DO!NoBuckets, b) = 0
    BY DEF DO!NoBuckets, CountOf
  <2> QED BY <2>2, <2>3 DEF A
<1> QED BY <1>1 DEF DO!NoBuckets

(* What the next event will work on, whether the object stays or not.      *)
DOHeld ==
  /\ initialized /\ stored.saved => stored.buckets = buckets
  /\ ~stored.saved => buckets = DO!NoBuckets

LEMMA DOLoadedIs ==
  ASSUME DOHeld
  PROVE  /\ DO!Loaded.buckets = (IF stored.saved THEN stored.buckets ELSE DO!NoBuckets)
BY DEF DOHeld, DO!Loaded

(* The answer of an increment, and what the object keeps of it.            *)
LEMMA DOIncrementHolds ==
  ASSUME DO!RateLimitAssumption, DOInv, NEW weight \in DOWeights, DO!Increment(weight)
  PROVE  DOInv' /\ (DO!Sliding!Refuse \/ DO!Sliding!Accept(weight))
<1> DEFINE bs == DO!Cleaned(DO!Loaded).buckets
<1>1. Accounted(bs) /\ weight \in Nat /\ doNow \in DO!Time /\ doNow' = doNow /\ DOHeld /\ initialized' = TRUE
      /\ accepted \in [DO!Time -> Nat]
  BY DOCleanedAccounts DEF DOInv, DOHeld, DO!RateLimitAssumption, DO!Increment
<1>2. doNow' \in doNow..DOTime
  BY <1>1 DEF DO!Time
<1>3. \A w \in DO!Limits : /\ w.length \in Nat /\ w.length <= DO!MaxWindow /\ w.limit \in Nat
                           /\ DO!Sliding!Used(w.length) \in Nat /\ DO!Count(bs, w.length) \in Int
                           /\ DO!Sliding!Used(w.length) <= DO!Count(bs, w.length)
                           /\ DO!Sliding!Used(w.length + (BucketSize - 1)) \in Nat
                           /\ DO!Count(bs, w.length) <= DO!Sliding!Used(w.length + (BucketSize - 1))
  BY <1>1, DOWindowLengths, DOUsedCounted, DOCountedUsed
<1>4. DO!Full(bs) <=> \E w \in DO!Limits : DO!Count(bs, w.length) >= w.limit
  <2> HIDE DEF bs
  <2> DEFINE main == [limit |-> Limit, length |-> DOPeriod]
             burst == [limit |-> Burst, length |-> BurstWindow]
             whole == [limit |-> DailyLimit, length |-> DailyWindow]
  <2>1. \A w : w \in DO!Limits <=> w = main \/ (Burst # 0 /\ w = burst) \/ (DailyLimit # 0 /\ w = whole)
    BY DEF DO!Limits
  <2>2. /\ main.limit = Limit /\ main.length = DOPeriod /\ burst.limit = Burst
        /\ burst.length = BurstWindow /\ whole.limit = DailyLimit /\ whole.length = DailyWindow
    OBVIOUS
  <2> HIDE DEF main, burst, whole
  <2> QED BY <2>1, <2>2, Zenon DEF DO!Full
<1>5. CASE DO!Full(bs)
  <2>1. accepted' = accepted /\ answer' = FALSE /\ buckets' = bs
        /\ stored' = IF DO!Cleaned(DO!Loaded) # DO!Loaded THEN DO!Saved(DO!Cleaned(DO!Loaded)) ELSE stored
    BY <1>5 DEF DO!Increment
  <2>2. DO!Sliding!Refuse
    <3>1. \E w \in DO!Limits : DO!Sliding!Used(w.length + (BucketSize - 1)) >= w.limit
      <4>1. PICK w \in DO!Limits : DO!Count(bs, w.length) >= w.limit
        BY <1>4, <1>5
      <4> DEFINE c == DO!Count(bs, w.length)
                 u == DO!Sliding!Used(w.length + (BucketSize - 1))
      <4>2. c \in Int /\ u \in Nat /\ c <= u /\ c >= w.limit /\ w.limit \in Nat
        BY <1>3, <4>1
      <4> HIDE DEF c, u
      <4>3. u >= w.limit
        BY <4>2
      <4> QED BY <4>3 DEF u
    <3> QED BY <1>2, <2>1, <3>1 DEF DO!Sliding!Refuse
  <2>3. DOHeld' /\ DO!Loaded'.buckets = bs
    <3>1. DO!Loaded.buckets = IF stored.saved THEN stored.buckets ELSE DO!NoBuckets
      BY <1>1, DOLoadedIs
    <3>2. CASE DO!Cleaned(DO!Loaded) # DO!Loaded
      <4>1. stored'.saved /\ stored'.buckets = bs
        BY <2>1, <3>2 DEF DO!Saved
      <4> QED BY <1>1, <2>1, <4>1 DEF DOHeld, DO!Loaded
    <3>3. CASE DO!Cleaned(DO!Loaded) = DO!Loaded
      <4>1. stored' = stored /\ bs = DO!Loaded.buckets
        BY <2>1, <3>3
      <4> QED BY <1>1, <2>1, <3>1, <4>1 DEF DOHeld, DO!Loaded
    <3> QED BY <3>2, <3>3
  <2>4. PICK x : x = bs
    OBVIOUS
  <2>5. Accounted(x)'
    BY <1>1, <2>1, <2>4, DOAccountsSame
  <2>6. Accounted(DO!Loaded.buckets)'
    BY <2>3, <2>4, <2>5, Zenon DEF Accounted, CountsRight, CountOf
  <2> QED BY <1>1, <2>1, <2>2, <2>3, <2>6 DEF DOInv, DOHeld
<1>6. CASE ~DO!Full(bs)
  <2>1. /\ accepted' = [accepted EXCEPT ![doNow] = @ + weight] /\ answer' = TRUE
        /\ buckets' = DO!Added(bs, weight)
        /\ stored'.saved /\ stored'.buckets = DO!Added(bs, weight)
    <3>1. "buckets" \in DOMAIN DO!Cleaned(DO!Loaded)
      BY DEF DO!Cleaned, DO!Loaded
    <3>2. [DO!Cleaned(DO!Loaded) EXCEPT !.buckets = DO!Added(@, weight)].buckets = DO!Added(bs, weight)
      BY <3>1
    <3>3. /\ accepted' = [accepted EXCEPT ![doNow] = @ + weight] /\ answer' = TRUE
          /\ buckets' = [DO!Cleaned(DO!Loaded) EXCEPT !.buckets = DO!Added(@, weight)].buckets
          /\ stored' = DO!Saved([DO!Cleaned(DO!Loaded) EXCEPT !.buckets = DO!Added(@, weight)])
      BY <1>6, Zenon DEF DO!Increment
    <3> QED BY <3>2, <3>3 DEF DO!Saved
  <2>2. DO!Sliding!Accept(weight)
    <3>1. ASSUME NEW w \in DO!Limits PROVE DO!Sliding!Used(w.length) < w.limit
      <4> DEFINE c == DO!Count(bs, w.length)
                 u == DO!Sliding!Used(w.length)
      <4>1. c \in Int /\ u \in Nat /\ u <= c /\ ~ c >= w.limit /\ w.limit \in Nat
        BY <1>3, <1>4, <1>6
      <4> HIDE DEF c, u
      <4>2. u < w.limit
        BY <4>1
      <4> QED BY <4>2 DEF u
    <3> QED BY <1>2, <2>1, <3>1 DEF DO!Sliding!Accept
  <2>3. DOHeld' /\ DO!Loaded'.buckets = DO!Added(bs, weight)
    BY <1>1, <2>1 DEF DOHeld, DO!Loaded
  <2>4. PICK x, y : x = bs /\ y = DO!Added(x, weight)
    OBVIOUS
  <2>5. Accounted(y)' /\ accepted' \in [DO!Time -> Nat]
    <3> HIDE DEF bs
    <3> QED BY <1>1, <2>1, <2>4, DOAddedAccounts
  <2>6. Accounted(DO!Loaded.buckets)'
    <3>1. DO!Loaded'.buckets = y
      BY <2>3, <2>4
    <3> QED BY <2>5, <3>1, Zenon DEF Accounted, CountsRight, CountOf
  <2>7. \A t \in DO!Time : t > doNow' => accepted'[t] = 0
    <3>1. ASSUME NEW t \in DO!Time, t > doNow PROVE accepted'[t] = 0
      <4>1. t # doNow
        BY <1>1, <3>1, DOTimeFinite
      <4>2. accepted[t] = 0
        BY <3>1 DEF DOInv
      <4> QED BY <1>1, <2>1, <4>1, <4>2
    <3> QED BY <1>1, <3>1
  <2> QED BY <1>1, <2>2, <2>3, <2>5, <2>6, <2>7 DEF DOInv, DOHeld
<1> QED BY <1>5, <1>6
LEMMA DOStep ==
  ASSUME DO!RateLimitAssumption, DOInv, [DO!Next]_(DO!vars)
  PROVE  DOInv' /\ [DO!Sliding!Next]_<<doNow, accepted, answer>>
<1>1. /\ DOHeld /\ doNow \in DO!Time /\ DO!Time \subseteq Nat /\ DOTime \in Nat
      /\ DO!Loaded.buckets = (IF stored.saved THEN stored.buckets ELSE DO!NoBuckets)
      /\ Accounted(DO!Loaded.buckets)
  BY DOTimeFinite, DOLoadedIs DEF DOInv, DOHeld, DO!RateLimitAssumption
<1>2. ASSUME NEW weight \in DOWeights, DO!Increment(weight)
      PROVE  DOInv' /\ [DO!Sliding!Next]_<<doNow, accepted, answer>>
  BY <1>2, DOIncrementHolds DEF DO!Sliding!Next
<1>3. ASSUME UNCHANGED <<doNow, accepted, answer, stored>>, DOHeld'
      PROVE  DOInv' /\ [DO!Sliding!Next]_<<doNow, accepted, answer>>
  <2>1. DO!Loaded'.buckets = DO!Loaded.buckets
    BY <1>1, <1>3 DEF DOHeld, DO!Loaded
  <2>2. PICK x : x = DO!Loaded.buckets
    OBVIOUS
  <2>3. Accounted(x)'
    BY <1>1, <1>3, <2>2, DOAccountsSame
  <2>4. Accounted(DO!Loaded.buckets)'
    BY <2>1, <2>2, <2>3, Zenon DEF Accounted, CountsRight, CountOf
  <2> QED BY <1>3, <2>4 DEF DOInv, DOHeld
<1>4. CASE DO!GetRemainingLimit
  <2>1. DOHeld'
    BY <1>1, <1>4 DEF DO!GetRemainingLimit, DOHeld, DO!Loaded
  <2> QED BY <1>3, <1>4, <2>1 DEF DO!GetRemainingLimit
<1>5. CASE DO!Evicted
  <2>1. DOHeld'
    BY <1>1, <1>5 DEF DO!Evicted, DOHeld
  <2> QED BY <1>3, <1>5, <2>1 DEF DO!Evicted
<1>6. CASE DO!ResetLimit
  <2>1. /\ accepted' = [t \in DO!Time |-> 0] /\ UNCHANGED <<doNow, answer>>
        /\ buckets' = DO!NoBuckets /\ stored'.saved /\ stored'.buckets = DO!NoBuckets
    BY <1>6 DEF DO!ResetLimit, DO!Saved
  <2>2. DOHeld' /\ DO!Loaded'.buckets = DO!NoBuckets
    BY <2>1 DEF DOHeld, DO!Loaded
  <2>3. PICK x : x = DO!NoBuckets
    OBVIOUS
  <2>4. accepted' \in [DO!Time -> Nat] /\ \A t \in DO!Time : accepted'[t] = 0
    BY <2>1
  <2>5. Accounted(x)'
    <3>1. DOMAIN x = {}
      BY <2>3, DONoBucketsAccount, <2>4
    <3>2. \A b \in DO!Time : Sum(accepted', {t \in InBucket(b) : t >= doNow' - DO!MaxWindow}) <= CountOf(x, b)
      BY <2>3, DONoBucketsAccount, <2>4
    <3>3. \A b \in DO!Time : (Sum(accepted, InReach(b)) <= CountOf(x, b))'
      BY <3>2 DEF InReach, InBucket, DO!Time, StartOf, DO!MaxWindow, DO!Bigger, CountOf
    <3> QED BY <3>1, <3>3, DOAccountsNext
  <2>6. Accounted(DO!Loaded.buckets)'
    BY <2>2, <2>3, <2>5, Zenon DEF Accounted, CountsRight, CountOf
  <2>7. DO!Sliding!Reset
    BY <2>1 DEF DO!Sliding!Reset, DO!Time
  <2> QED BY <1>1, <2>1, <2>2, <2>4, <2>6, <2>7 DEF DOInv, DOHeld, DO!Sliding!Next
<1>7. CASE DO!Tick
  <2>1. /\ doNow' = doNow + 1 /\ doNow' \in DO!Time /\ doNow' \in doNow + 1..DOTime /\ doNow + 1 > doNow
        /\ UNCHANGED <<buckets, lastCleanup, initialized, stored, answer, accepted>>
    BY <1>1, <1>7 DEF DO!Tick, DO!Time
  <2>2. DOHeld' /\ DO!Loaded'.buckets = DO!Loaded.buckets
    BY <1>1, <2>1 DEF DOHeld, DO!Loaded
  <2>3. PICK x : x = DO!Loaded.buckets
    OBVIOUS
  <2>4. Accounted(x)'
    BY <1>1, <2>1, <2>3, DOTickAccounts
  <2>5. Accounted(DO!Loaded.buckets)'
    BY <2>2, <2>3, <2>4, Zenon DEF Accounted, CountsRight, CountOf
  <2>6. DO!Sliding!Tick
    BY <2>1 DEF DO!Sliding!Tick
  <2>7. \A t \in DO!Time : t > doNow' => accepted'[t] = 0
    <3>1. \A t \in DO!Time : t > doNow + 1 => t > doNow
      BY <1>1
    <3> QED BY <2>1, <3>1 DEF DOInv
  <2>8. accepted' \in [DO!Time -> Nat]
    BY <2>1 DEF DOInv
  <2> QED BY <2>1, <2>2, <2>5, <2>6, <2>7, <2>8 DEF DOInv, DOHeld, DO!Sliding!Next
<1>8. CASE UNCHANGED DO!vars
  <2>1. DOHeld' /\ UNCHANGED <<doNow, accepted, answer, stored>>
    BY <1>1, <1>8 DEF DO!vars, DOHeld
  <2> QED BY <1>3, <2>1
<1> QED BY <1>2, <1>4, <1>5, <1>6, <1>7, <1>8 DEF DO!Next

LEMMA DOInit ==
  ASSUME DO!RateLimitAssumption, DO!Init
  PROVE  DOInv /\ DO!Sliding!Init
<1>1. /\ 0 \in DO!Time /\ accepted \in [DO!Time -> Nat] /\ \A t \in DO!Time : accepted[t] = 0
      /\ DOHeld /\ DO!Loaded.buckets = DO!NoBuckets
  BY DEF DO!Init, DO!Time, DO!RateLimitAssumption, DOHeld, DO!Loaded
<1>2. DOMAIN DO!NoBuckets = {}
      /\ \A b \in DO!Time : Sum(accepted, {t \in InBucket(b) : t >= doNow - DO!MaxWindow}) <= CountOf(DO!NoBuckets, b)
  BY <1>1, DONoBucketsAccount
<1>3. Accounted(DO!NoBuckets)
  BY <1>2 DEF Accounted, InReach
<1>4. DO!Sliding!Init
  BY DEF DO!Init, DO!Sliding!Init, DO!Time
<1> QED BY <1>1, <1>3, <1>4 DEF DOInv, DOHeld, DO!Init

(* Every step of the limiter is a step of a sliding window, or none.       *)
THEOREM SlidesToABucket ==
  ASSUME DO!RateLimitAssumption
  PROVE  DO!Spec => ImplementsSlidingWindow
<1>1. DO!Init => DOInv /\ DO!Sliding!Init
  BY DOInit
<1>2. DOInv /\ [DO!Next]_(DO!vars) => DOInv' /\ [DO!Sliding!Next]_<<doNow, accepted, answer>>
  BY DOStep
<1> QED BY <1>1, <1>2, PTL DEF DO!Spec, ImplementsSlidingWindow, DO!ImplementsSlidingWindow, DO!Sliding!Spec

-----------------------------------------------------------------------------
(* KVRateLimit.  The library's sum is the same in the instance.            *)
LEMMA KVSum ==
  ASSUME NEW f, NEW S PROVE KV!SumFunctionOnSet(f, S) = Sum(f, S)
BY Zenon DEF KV!SumFunctionOnSet, SumFunctionOnSet, KV!FoldFunctionOnSet,
  FoldFunctionOnSet, KV!MapThenFoldSet, MapThenFoldSet, Sum

(* A bucket begins less than its width before every time in it.            *)
LEMMA KVBucketStart ==
  ASSUME KV!RateLimitAssumption, NEW time \in Int
  PROVE  /\ KV!BucketOf(time) \in Int
         /\ KV!BucketOf(time) <= time /\ time < KV!BucketOf(time) + BucketSize
BY Z3 DEF KV!BucketOf, KV!RateLimitAssumption

(* A slot for a request; Weights may be empty.                             *)
Call == [pc : {"off", "count", "get", "put", "backoff"}, time : Nat,
         weight : KVWeights \cup {KV!Off.weight}, attempt : Nat, read : Nat]

(* The clock goes forward, so no request arrived later than now.  A bucket *)
(* was last written when or after it began, whatever request wrote it and  *)
(* however late, so it is kept until every window has passed it.           *)
KVKept ==
  \A b \in DOMAIN kv : b \in Int /\ kv[b] \in [count : Nat, expires : Int]
                       /\ kv[b].expires >= b + KV!Ttl

KVInv ==
  /\ clock \in Nat
  /\ calls \in [Requests -> Call] /\ \A r \in Requests : calls[r].time <= clock
  /\ KVKept

LEMMA KVTtlCovers ==
  ASSUME KV!RateLimitAssumption
  PROVE  KV!Ttl \in Int /\ \A w \in KV!Limits : w.length \in Nat /\ w.length + BucketSize <= KV!Ttl
BY DEF KV!RateLimitAssumption, KV!Ttl, KV!Bigger, KV!Limits

LEMMA KVOffSlot == KV!Off \in Call /\ KV!Off.time = 0 /\ KV!Off.pc = "off"
BY DEF KV!Off, Call

(* A step of a request that leaves the buckets alone.                      *)
LEMMA KVRequestHolds ==
  ASSUME KVInv, NEW r \in Requests, NEW slot \in Call, slot.time <= clock,
         calls' = [calls EXCEPT ![r] = slot], UNCHANGED clock
  PROVE  /\ clock' \in Nat /\ calls' \in [Requests -> Call]
         /\ \A q \in Requests : calls'[q].time <= clock'
BY DEF KVInv

LEMMA KVInit == ASSUME KV!RateLimitAssumption PROVE KV!Init => KVInv
BY KVOffSlot DEF KV!Init, KVInv, KVKept

LEMMA KVStep ==
  ASSUME KV!RateLimitAssumption, KVInv, [KV!Next]_(KV!vars)
  PROVE  KVInv'
<1>1. /\ clock \in Nat /\ calls \in [Requests -> Call]
      /\ \A r \in Requests : calls[r] \in Call /\ calls[r].time <= clock
      /\ KV!Off.time <= clock
  BY KVOffSlot DEF KVInv
<1>2. ASSUME NEW r \in Requests, KV!Arrive(r) PROVE KVInv'
  <2>1. PICK weight \in KVWeights :
          calls' = [calls EXCEPT ![r] =
            [KV!Off EXCEPT !.pc = "count", !.time = clock, !.weight = weight]]
    BY <1>2 DEF KV!Arrive
  <2>2. /\ [KV!Off EXCEPT !.pc = "count", !.time = clock, !.weight = weight] \in Call
        /\ [KV!Off EXCEPT !.pc = "count", !.time = clock, !.weight = weight].time <= clock
    <3> DEFINE slot == [KV!Off EXCEPT !.pc = "count", !.time = clock, !.weight = weight]
    <3>1. slot.time = clock /\ clock \in Nat
      BY <1>1, KVOffSlot DEF Call
    <3>2. slot \in Call
      BY <1>1, KVOffSlot DEF Call
    <3> QED
      BY <3>1, <3>2
  <2> QED
    BY <1>2, <2>1, <2>2, KVRequestHolds DEF KV!Arrive, KVInv, KVKept, KV!Ttl
<1>3. ASSUME NEW r \in Requests, NEW success, KV!Answered(r, success), UNCHANGED <<clock, kv>>
      PROVE  KVInv'
  BY <1>1, <1>3, KVOffSlot, KVRequestHolds DEF KV!Answered, KVInv, KVKept, KV!Ttl
<1>4. ASSUME NEW r \in Requests, KV!Counted(r) PROVE KVInv'
  <2>1. CASE calls' = [calls EXCEPT ![r].pc = "get"]
    <3>1. [calls[r] EXCEPT !.pc = "get"] \in Call
          /\ [calls[r] EXCEPT !.pc = "get"].time <= clock
      BY <1>1 DEF Call
    <3>2. calls' = [calls EXCEPT ![r] = [calls[r] EXCEPT !.pc = "get"]]
      BY <2>1
    <3> QED
      BY <1>4, <3>1, <3>2, KVRequestHolds DEF KV!Counted, KVInv, KVKept, KV!Ttl
  <2>2. CASE calls' # [calls EXCEPT ![r].pc = "get"]
    BY <1>3, <1>4, <2>2 DEF KV!Counted
  <2> QED
    BY <2>1, <2>2
<1>5. ASSUME NEW r \in Requests, KV!Get(r) PROVE KVInv'
  <2> DEFINE slot == [calls[r] EXCEPT !.pc = "put", !.read = KV!Stored(KV!BucketOf(calls[r].time))]
  <2>1. KV!Stored(KV!BucketOf(calls[r].time)) \in Nat
    BY DEF KVInv, KVKept, KV!Stored
  <2>2. slot \in Call /\ slot.time <= clock
    BY <1>1, <2>1 DEF Call
  <2>3. calls' = [calls EXCEPT ![r] = slot]
    BY <1>5 DEF KV!Get
  <2> QED
    BY <1>5, <2>2, <2>3, KVRequestHolds DEF KV!Get, KVInv, KVKept, KV!Ttl
<1>6. ASSUME NEW r \in Requests, KV!Put(r) PROVE KVInv'
  <2> DEFINE b == KV!BucketOf(calls[r].time)
             bucket == [count |-> calls[r].read + KV!IncrementBy, expires |-> clock + KV!Ttl]
  <2>1. kv' = [c \in DOMAIN kv \cup {b} |-> IF c = b THEN bucket ELSE kv[c]]
        /\ UNCHANGED clock /\ KV!Answered(r, TRUE)
    BY <1>6 DEF KV!Put
  <2>2. b \in Int /\ b <= calls[r].time /\ calls[r].time \in Int
        /\ calls[r].read \in Nat
    BY <1>1, KVBucketStart DEF Call
  <2>3. KV!Ttl \in Int
    BY KVTtlCovers
  <2> HIDE DEF b
  <2>4. bucket \in [count : Nat, expires : Int] /\ bucket.expires >= b + KV!Ttl
    BY <1>1, <2>2, <2>3 DEF KV!IncrementBy
  <2> HIDE DEF bucket
  <2>5. KVKept'
    BY <2>1, <2>2, <2>4 DEF KVInv, KVKept, KV!Ttl
  <2> QED
    BY <1>1, <2>1, <2>5, KVOffSlot, KVRequestHolds DEF KV!Answered, KVInv
<1>7. ASSUME NEW r \in Requests, KV!TooManyRequests(r) \/ KV!BackoffOver(r) PROVE KVInv'
  <2> DEFINE waits == [calls[r] EXCEPT !.pc = "backoff", !.attempt = @ + 1]
             again == [calls[r] EXCEPT !.pc = "get"]
  <2>1. calls' = [calls EXCEPT ![r] = waits] \/ calls' = [calls EXCEPT ![r] = again]
    BY <1>7 DEF KV!TooManyRequests, KV!BackoffOver
  <2>2. waits \in Call /\ waits.time <= clock
    <3>1. calls[r].attempt + 1 \in Nat
      BY <1>1 DEF Call
    <3> QED
      BY <1>1, <3>1 DEF Call
  <2>3. again \in Call /\ again.time <= clock
    BY <1>1 DEF Call
  <2> HIDE DEF waits, again
  <2> QED
    BY <1>7, <2>1, <2>2, <2>3, KVRequestHolds DEF KV!TooManyRequests, KV!BackoffOver, KVInv, KVKept, KV!Ttl
<1>8. ASSUME NEW r \in Requests, KV!FailOpen(r) PROVE KVInv'
  BY <1>3, <1>8 DEF KV!FailOpen
<1>9. ASSUME NEW b, KV!Expire(b) PROVE KVInv'
  BY <1>9 DEF KV!Expire, KVInv, KVKept, KV!Ttl
<1>10. CASE KV!Tick
  BY <1>1, <1>10 DEF KV!Tick, KVInv, KVKept, KV!Ttl, Call
<1>11. CASE UNCHANGED KV!vars
  BY <1>11 DEF KV!vars, KVInv, KVKept, KV!Ttl
<1> QED
  BY <1>2, <1>4, <1>5, <1>6, <1>7, <1>8, <1>9, <1>10, <1>11 DEF KV!Next

(* Only an expiry takes a bucket away, and by then the bucket in which any *)
(* window of a request begins is a later one.                              *)
LEMMA KVExpiryLate ==
  ASSUME KV!RateLimitAssumption, KVInv, [KV!Next]_(KV!vars), NEW b \in DOMAIN kv \ DOMAIN kv',
         NEW w \in KV!Limits
  PROVE  b < KV!BucketOf(clock - w.length)
<1>1. b \in Int /\ kv[b].expires \in Int /\ kv[b].expires >= b + KV!Ttl
  BY DEF KVInv, KVKept
<1>2. \E c \in KV!Time : KV!Expire(c)
  BY DEF KV!Next, KV!vars, KV!Arrive, KV!Counted, KV!Get, KV!Put, KV!TooManyRequests, KV!BackoffOver, KV!FailOpen, KV!Tick
<1>3. kv[b].expires <= clock
  BY <1>2 DEF KV!Expire
<1>4. w.length \in Nat /\ w.length + BucketSize <= KV!Ttl /\ KV!Ttl \in Int
      /\ clock \in Nat /\ BucketSize \in Nat
  BY KVTtlCovers DEF KVInv, KV!RateLimitAssumption
<1>5. /\ KV!BucketOf(clock - w.length) \in Int
      /\ clock - w.length < KV!BucketOf(clock - w.length) + BucketSize
  BY <1>4, KVBucketStart
<1> QED
  BY <1>1, <1>3, <1>4, <1>5

(* A bucket expires when no window of a request that arrives by then       *)
(* reaches it, however requests are delayed and retried.                   *)
THEOREM ExpiryOutOfReach ==
  ASSUME KV!RateLimitAssumption
  PROVE  KV!Spec => ExpiredOutOfReach
<1>1. KV!Init => KVInv
  BY KVInit
<1>2. KVInv /\ [KV!Next]_(KV!vars) => KVInv'
  BY KVStep
<1>3. KVInv /\ [KV!Next]_(KV!vars) =>
        [\A b \in DOMAIN kv \ DOMAIN kv' : \A w \in Limits :
           b < BucketOf(clock - w.length)]_kv
  BY KVExpiryLate DEF BucketOf, KV!BucketOf, Limits, KV!Limits
<1> QED
  BY <1>1, <1>2, <1>3, PTL DEF KV!Spec, ExpiredOutOfReach

(* The weight accepted in the ticks of a bucket.                           *)
AcceptedIn(b) == Sum(kvAccepted, {t \in KV!Time : KV!BucketOf(t) = b})

(* What a bucket holds, and what a request has read of it and is about to  *)
(* write back with 1 more, was accepted; the one that writes weighs 1 or   *)
(* more.                                                                   *)
Backed ==
  /\ clock \in KV!Time /\ kvAccepted \in [KV!Time -> Nat]
  /\ \A b \in DOMAIN kv : b \in KV!Time /\ kv[b].count <= AcceptedIn(b)
  /\ \A r \in Requests :
       /\ calls[r].pc # "off" => calls[r].weight \in Nat
       /\ calls[r].pc \in {"get", "put", "backoff"} => calls[r].weight > 0
       /\ calls[r].pc = "put" => calls[r].read <= AcceptedIn(KV!BucketOf(calls[r].time))

LEMMA KVTimeFinite == ASSUME KV!RateLimitAssumption PROVE IsFiniteSet(KV!Time) /\ KV!Time \subseteq Nat
BY FS_Interval DEF KV!RateLimitAssumption, KV!Time

LEMMA KVAcceptedInNat ==
  ASSUME KV!RateLimitAssumption, NEW history \in [KV!Time -> Nat], NEW b
  PROVE  Sum(history, {t \in KV!Time : KV!BucketOf(t) = b}) \in Nat
<1> DEFINE P == {t \in KV!Time : KV!BucketOf(t) = b}
<1>1. P \subseteq KV!Time
  OBVIOUS
<1> HIDE DEF P
<1>2. IsFiniteSet(P) /\ \A t \in P : history[t] \in Nat
  BY <1>1, KVTimeFinite, FS_Subset
<1>3. Sum(history, P) \in Nat
  BY <1>2, SumNat
<1> QED BY <1>3 DEF P

(* A request that is accepted adds its weight to its bucket alone.         *)
LEMMA KVAcceptedGrows ==
  ASSUME KV!RateLimitAssumption, kvAccepted \in [KV!Time -> Nat], NEW time \in KV!Time, NEW weight \in Nat,
         kvAccepted' = [kvAccepted EXCEPT ![time] = @ + weight], NEW b
  PROVE  AcceptedIn(b)' = AcceptedIn(b) + (IF KV!BucketOf(time) = b THEN weight ELSE 0)
<1> DEFINE P == {t \in KV!Time : KV!BucketOf(t) = b}
<1>1. /\ IsFiniteSet(P) /\ IntegerOn(kvAccepted, P) /\ P \subseteq KV!Time
      /\ time \in P <=> KV!BucketOf(time) = b
  <2>1. P \subseteq KV!Time /\ (time \in P <=> KV!BucketOf(time) = b)
    OBVIOUS
  <2> HIDE DEF P
  <2> QED BY <2>1, KVTimeFinite, FS_Subset DEF IntegerOn
<1>2. /\ kvAccepted'[time] = kvAccepted[time] + weight /\ kvAccepted[time] \in Nat /\ kvAccepted'[time] \in Int
      /\ \A t \in P \ {time} : kvAccepted'[t] = kvAccepted[t]
  BY <1>1
<1>3. AcceptedIn(b) = Sum(kvAccepted, P) /\ AcceptedIn(b)' = Sum(kvAccepted', P)
  BY DEF AcceptedIn, KV!Time, KV!BucketOf
<1> HIDE DEF P
<1>4. Sum(kvAccepted, P) \in Int
  BY <1>1, SumInt
<1>5. CASE KV!BucketOf(time) = b
  <2>1. Sum(kvAccepted', P) = Sum(kvAccepted, P) - kvAccepted[time] + kvAccepted'[time]
    <3> DEFINE f == kvAccepted
               g == kvAccepted'
    <3>1. IsFiniteSet(P) /\ time \in P /\ IntegerOn(f, P) /\ g[time] \in Int /\ \A t \in P \ {time} : g[t] = f[t]
      BY <1>1, <1>2, <1>5
    <3> HIDE DEF f, g
    <3>2. Sum(g, P) = Sum(f, P) - f[time] + g[time]
      BY <3>1, SumChange
    <3> QED BY <3>2 DEF f, g
  <2> QED BY <1>2, <1>3, <1>4, <1>5, <2>1
<1>6. CASE KV!BucketOf(time) # b
  <2>1. \A t \in P : kvAccepted'[t] = kvAccepted[t]
    BY <1>1, <1>2, <1>6
  <2>2. Sum(kvAccepted', P) = Sum(kvAccepted, P)
    BY <1>1, <2>1, SumSame
  <2> QED BY <1>3, <1>4, <1>6, <2>2
<1> QED BY <1>5, <1>6

LEMMA KVAnsweredBacked ==
  ASSUME KV!RateLimitAssumption, KVInv, Backed, NEW r \in Requests, calls[r].pc # "off",
         NEW success \in BOOLEAN, KV!Answered(r, success)
  PROVE  /\ kvAccepted' \in [KV!Time -> Nat]
         /\ \A b : AcceptedIn(b) \in Nat /\ AcceptedIn(b)' \in Nat /\ AcceptedIn(b) <= AcceptedIn(b)'
         /\ calls' = [calls EXCEPT ![r] = KV!Off]
         /\ success /\ calls[r].weight > 0 =>
              \A b : b = KV!BucketOf(calls[r].time) => AcceptedIn(b) + 1 <= AcceptedIn(b)'
<1> DEFINE time == calls[r].time
           weight == calls[r].weight
<1>1. time \in KV!Time /\ weight \in Nat /\ kvAccepted \in [KV!Time -> Nat]
  <2>1. calls[r] \in Call /\ calls[r].time <= clock /\ clock \in 0..KVTime
    BY DEF KVInv, Backed, KV!Time
  <2>2. time \in KV!Time
    <3>1. KVTime \in Int
      BY DEF KV!RateLimitAssumption
    <3> QED BY <2>1, <3>1 DEF Call, KV!Time
  <2> QED BY <2>2 DEF Backed
<1>2. \/ kvAccepted' = [kvAccepted EXCEPT ![time] = @ + weight]
      \/ ~success /\ kvAccepted' = kvAccepted
  BY DEF KV!Answered
<1>3. calls' = [calls EXCEPT ![r] = KV!Off]
  BY DEF KV!Answered
<1> HIDE DEF time, weight
<1>4. kvAccepted' \in [KV!Time -> Nat]
  <2>1. kvAccepted[time] + weight \in Nat
    BY <1>1
  <2> QED BY <1>1, <1>2, <2>1
<1>5. \A b : AcceptedIn(b) \in Nat
  BY <1>1, KVAcceptedInNat DEF AcceptedIn
<1>6. CASE kvAccepted' = [kvAccepted EXCEPT ![time] = @ + weight]
  <2>1. \A b : AcceptedIn(b)' = AcceptedIn(b) + (IF KV!BucketOf(time) = b THEN weight ELSE 0)
    BY <1>1, <1>6, KVAcceptedGrows
  <2>2. \A b : AcceptedIn(b)' \in Nat /\ AcceptedIn(b) <= AcceptedIn(b)'
    BY <1>1, <1>5, <2>1
  <2>3. weight > 0 => \A b : b = KV!BucketOf(time) => AcceptedIn(b) + 1 <= AcceptedIn(b)'
    <3>1. ASSUME NEW b, b = KV!BucketOf(time), weight > 0 PROVE AcceptedIn(b) + 1 <= AcceptedIn(b)'
      <4>1. AcceptedIn(b)' = AcceptedIn(b) + weight /\ AcceptedIn(b) \in Nat
        BY <1>5, <2>1, <3>1
      <4> QED BY <1>1, <3>1, <4>1
    <3> QED BY <3>1
  <2> QED BY <1>3, <1>4, <1>5, <2>2, <2>3 DEF time, weight
<1>7. CASE ~success /\ kvAccepted' = kvAccepted
  <2>1. \A b : AcceptedIn(b)' = AcceptedIn(b)
    BY <1>7 DEF AcceptedIn, KV!Time, KV!BucketOf
  <2> QED BY <1>3, <1>4, <1>5, <1>7, <2>1
<1> QED BY <1>2, <1>6, <1>7

(* A step of a request that accepts nothing.                               *)
LEMMA KVBackedHolds ==
  ASSUME KV!RateLimitAssumption, Backed, NEW r \in Requests, NEW slot,
         calls \in [Requests -> Call], calls' = [calls EXCEPT ![r] = slot],
         UNCHANGED <<clock, kv, kvAccepted>>,
         slot.pc # "off" => slot.weight \in Nat,
         slot.pc \in {"get", "put", "backoff"} => slot.weight > 0,
         slot.pc = "put" => slot.read <= AcceptedIn(KV!BucketOf(slot.time))
  PROVE  Backed'
<1>1. \A b : AcceptedIn(b)' = AcceptedIn(b)
  BY DEF AcceptedIn, KV!Time, KV!BucketOf
<1>2. \A q \in Requests : calls'[q] = IF q = r THEN slot ELSE calls[q]
  OBVIOUS
<1>3. ASSUME NEW q \in Requests
      PROVE  calls'[q].pc = "put" =>
               calls'[q].read <= Sum(kvAccepted', {t \in KV!Time : KV!BucketOf(t) = KV!BucketOf(calls'[q].time)})
  BY <1>2 DEF Backed, AcceptedIn
<1> QED BY <1>1, <1>2, <1>3 DEF Backed, AcceptedIn, KV!Time, KV!BucketOf

LEMMA KVAnsweredHolds ==
  ASSUME KV!RateLimitAssumption, KVInv, Backed, NEW r \in Requests, calls[r].pc # "off",
         NEW success \in BOOLEAN, KV!Answered(r, success), UNCHANGED clock,
         \A b \in DOMAIN kv' : \/ b \in DOMAIN kv /\ kv'[b].count = kv[b].count
                               \/ /\ success /\ calls[r].weight > 0 /\ b = KV!BucketOf(calls[r].time)
                                  /\ b \in KV!Time /\ kv'[b].count \in Int
                                  /\ kv'[b].count <= AcceptedIn(b) + 1
  PROVE  Backed'
<1>1. /\ kvAccepted' \in [KV!Time -> Nat]
      /\ \A b : AcceptedIn(b) \in Nat /\ AcceptedIn(b)' \in Nat /\ AcceptedIn(b) <= AcceptedIn(b)'
      /\ calls' = [calls EXCEPT ![r] = KV!Off]
      /\ success /\ calls[r].weight > 0 =>
           \A b : b = KV!BucketOf(calls[r].time) => AcceptedIn(b) + 1 <= AcceptedIn(b)'
  BY KVAnsweredBacked
<1>2. ASSUME NEW b \in DOMAIN kv' PROVE b \in KV!Time /\ kv'[b].count <= AcceptedIn(b)'
  <2>1. CASE b \in DOMAIN kv /\ kv'[b].count = kv[b].count
    <3>1. b \in KV!Time /\ kv[b].count <= AcceptedIn(b) /\ kv[b].count \in Int
      BY <2>1 DEF Backed, KVInv, KVKept
    <3> QED BY <1>1, <2>1, <3>1
  <2>2. CASE ~ (b \in DOMAIN kv /\ kv'[b].count = kv[b].count)
    <3>1. /\ b \in KV!Time /\ kv'[b].count \in Int /\ kv'[b].count <= AcceptedIn(b) + 1
          /\ AcceptedIn(b) + 1 <= AcceptedIn(b)'
      BY <1>1, <2>2
    <3> QED BY <1>1, <3>1
  <2> QED BY <2>1, <2>2
<1>3. \A q \in Requests : calls'[q] = IF q = r THEN KV!Off ELSE calls[q]
  BY <1>1 DEF KVInv
<1>4. ASSUME NEW q \in Requests, calls'[q].pc = "put"
      PROVE  calls'[q].read <= Sum(kvAccepted', {t \in KV!Time : KV!BucketOf(t) = KV!BucketOf(calls'[q].time)})
  <2>1. calls'[q] = calls[q] /\ calls[q].pc = "put"
    BY <1>3, <1>4, KVOffSlot
  <2>2. PICK b : b = KV!BucketOf(calls[q].time)
    OBVIOUS
  <2>3. calls[q].read <= AcceptedIn(b) /\ calls[q].read \in Nat
    BY <2>1, <2>2 DEF Backed, KVInv, Call
  <2>4. calls[q].read <= AcceptedIn(b)'
    BY <1>1, <2>3
  <2> QED BY <2>1, <2>2, <2>4 DEF AcceptedIn, KV!Time, KV!BucketOf
<1>5. ASSUME NEW q \in Requests
      PROVE  /\ calls'[q].pc # "off" => calls'[q].weight \in Nat
             /\ calls'[q].pc \in {"get", "put", "backoff"} => calls'[q].weight > 0
  BY <1>3, KVOffSlot DEF Backed
<1> QED BY <1>1, <1>2, <1>4, <1>5 DEF Backed, AcceptedIn, KV!Time, KV!BucketOf

LEMMA StepBacked ==
  ASSUME KV!RateLimitAssumption, KVInv, Backed, [KV!Next]_(KV!vars)
  PROVE  Backed'
<1>1. /\ clock \in KV!Time /\ calls \in [Requests -> Call] /\ KVTime \in Nat /\ KVWeights \subseteq Nat
      /\ \A r \in Requests : calls[r] \in Call /\ calls[r].time <= clock
      /\ KV!Off.pc = "off"
  BY KVOffSlot DEF KVInv, Backed, KV!RateLimitAssumption
<1>2. ASSUME NEW r \in Requests, KV!Arrive(r) PROVE Backed'
  <2>1. PICK weight \in KVWeights :
          calls' = [calls EXCEPT ![r] =
            [KV!Off EXCEPT !.pc = "count", !.time = clock, !.weight = weight]]
    BY <1>2 DEF KV!Arrive
  <2> DEFINE slot == [KV!Off EXCEPT !.pc = "count", !.time = clock, !.weight = weight]
  <2>2. slot.pc = "count" /\ slot.weight = weight /\ weight \in Nat
    BY <1>1 DEF KV!Off
  <2>3. calls' = [calls EXCEPT ![r] = slot] /\ UNCHANGED <<clock, kv, kvAccepted>>
    BY <1>2, <2>1 DEF KV!Arrive
  <2> HIDE DEF slot
  <2> QED BY <1>1, <2>2, <2>3, KVBackedHolds
<1>3. ASSUME NEW r \in Requests, NEW success \in BOOLEAN, calls[r].pc # "off",
             KV!Answered(r, success), UNCHANGED <<clock, kv>>
      PROVE  Backed'
  BY <1>3, KVAnsweredHolds
<1>4. ASSUME NEW r \in Requests, KV!Counted(r) PROVE Backed'
  <2>1. CASE \E success \in BOOLEAN : KV!Answered(r, success)
    BY <1>3, <1>4, <2>1 DEF KV!Counted
  <2>2. CASE calls' = [calls EXCEPT ![r].pc = "get"] /\ KV!MaxRetries(calls[r]) # 0
             /\ UNCHANGED kvAccepted
    <3> DEFINE slot == [calls[r] EXCEPT !.pc = "get"]
    <3>1. slot.pc = "get" /\ slot.weight \in Nat /\ slot.weight > 0
      <4>1. calls[r].weight \in Nat /\ calls[r].weight # 0
        BY <1>4, <2>2 DEF KV!Counted, KV!MaxRetries, Backed
      <4>2. slot.pc = "get" /\ slot.weight = calls[r].weight
        BY <1>1 DEF Call
      <4> QED BY <4>1, <4>2
    <3>2. calls' = [calls EXCEPT ![r] = slot] /\ UNCHANGED <<clock, kv, kvAccepted>>
      BY <1>4, <2>2 DEF KV!Counted
    <3> HIDE DEF slot
    <3> QED BY <1>1, <3>1, <3>2, KVBackedHolds
  <2> QED BY <1>4, <2>1, <2>2 DEF KV!Counted
<1>5. ASSUME NEW r \in Requests, KV!Get(r) PROVE Backed'
  <2> DEFINE slot == [calls[r] EXCEPT !.pc = "put", !.read = KV!Stored(KV!BucketOf(calls[r].time))]
  <2>1. KV!Stored(KV!BucketOf(calls[r].time)) <= AcceptedIn(KV!BucketOf(calls[r].time))
    <3> DEFINE b == KV!BucketOf(calls[r].time)
    <3> HIDE DEF b
    <3>1. AcceptedIn(b) \in Nat
      BY KVAcceptedInNat DEF AcceptedIn, Backed
    <3>2. KV!Stored(b) <= AcceptedIn(b)
      BY <3>1 DEF KV!Stored, Backed
    <3> QED BY <3>2 DEF b
  <2>2. /\ slot.pc = "put" /\ slot.weight = calls[r].weight /\ slot.time = calls[r].time
        /\ slot.read = KV!Stored(KV!BucketOf(calls[r].time))
        /\ calls[r].weight \in Nat /\ calls[r].weight > 0
    BY <1>1, <1>5 DEF Call, KV!Get, Backed
  <2>3. calls' = [calls EXCEPT ![r] = slot] /\ UNCHANGED <<clock, kv, kvAccepted>>
    BY <1>5 DEF KV!Get
  <2> HIDE DEF slot
  <2> QED BY <1>1, <2>1, <2>2, <2>3, KVBackedHolds
<1>6. ASSUME NEW r \in Requests, KV!Put(r) PROVE Backed'
  <2> DEFINE b == KV!BucketOf(calls[r].time)
             bucket == [count |-> calls[r].read + KV!IncrementBy, expires |-> clock + KV!Ttl]
  <2>1. kv' = [c \in DOMAIN kv \cup {b} |-> IF c = b THEN bucket ELSE kv[c]]
        /\ UNCHANGED clock /\ KV!Answered(r, TRUE) /\ calls[r].pc = "put"
    BY <1>6 DEF KV!Put
  <2>2. b \in KV!Time
    <3>1. calls[r].time \in Nat /\ clock \in Nat /\ clock <= KVTime /\ BucketSize \in Nat \ {0}
      BY <1>1 DEF Call, KV!Time, KV!RateLimitAssumption
    <3>2. /\ KV!BucketOf(calls[r].time) \in Int /\ KV!BucketOf(calls[r].time) <= calls[r].time
      BY <3>1, KVBucketStart
    <3>3. calls[r].time \div BucketSize \in Nat
      BY <3>1, Z3
    <3>4. KV!BucketOf(calls[r].time) >= 0
      BY <3>1, <3>3 DEF KV!BucketOf
    <3> QED BY <1>1, <3>1, <3>2, <3>4 DEF KV!Time
  <2>3. /\ bucket.count = calls[r].read + 1 /\ calls[r].read \in Nat
        /\ calls[r].read <= AcceptedIn(b) /\ calls[r].weight > 0
    BY <1>1, <2>1 DEF KV!IncrementBy, Call, Backed
  <2>4. AcceptedIn(b) \in Nat
    BY KVAcceptedInNat DEF AcceptedIn, Backed
  <2>5. b = KV!BucketOf(calls[r].time)
    OBVIOUS
  <2> HIDE DEF b, bucket
  <2>6. bucket.count \in Int /\ bucket.count <= AcceptedIn(b) + 1
    BY <2>3, <2>4
  <2>7. \A c \in DOMAIN kv' : \/ c \in DOMAIN kv /\ kv'[c].count = kv[c].count
                              \/ c = b /\ kv'[c] = bucket
    BY <2>1
  <2> QED BY <2>1, <2>2, <2>3, <2>5, <2>6, <2>7, KVAnsweredHolds
<1>7. ASSUME NEW r \in Requests, KV!TooManyRequests(r) \/ KV!BackoffOver(r) PROVE Backed'
  <2> DEFINE waits == [calls[r] EXCEPT !.pc = "backoff", !.attempt = @ + 1]
             again == [calls[r] EXCEPT !.pc = "get"]
  <2>1. \/ calls' = [calls EXCEPT ![r] = waits] \/ calls' = [calls EXCEPT ![r] = again]
    BY <1>7 DEF KV!TooManyRequests, KV!BackoffOver
  <2>2. /\ waits.pc = "backoff" /\ waits.weight = calls[r].weight
        /\ again.pc = "get" /\ again.weight = calls[r].weight
    BY <1>1 DEF Call
  <2>3. calls[r].weight \in Nat /\ calls[r].weight > 0 /\ UNCHANGED <<clock, kv, kvAccepted>>
    BY <1>7 DEF Backed, KV!TooManyRequests, KV!BackoffOver
  <2> HIDE DEF waits, again
  <2> QED BY <1>1, <2>1, <2>2, <2>3, KVBackedHolds
<1>8. ASSUME NEW r \in Requests, KV!FailOpen(r) PROVE Backed'
  BY <1>3, <1>8 DEF KV!FailOpen
<1>9. ASSUME NEW b, KV!Expire(b) PROVE Backed'
  BY <1>9 DEF KV!Expire, Backed, AcceptedIn, KV!Time, KV!BucketOf
<1>10. CASE KV!Tick
  <2>1. clock' \in KV!Time /\ UNCHANGED <<kv, calls, kvAccepted>>
    BY <1>1, <1>10 DEF KV!Tick, KV!Time
  <2> QED BY <2>1 DEF Backed, AcceptedIn, KV!Time, KV!BucketOf
<1>11. CASE UNCHANGED KV!vars
  BY <1>11 DEF KV!vars, Backed, AcceptedIn, KV!Time, KV!BucketOf
<1> QED
  BY <1>2, <1>4, <1>5, <1>6, <1>7, <1>8, <1>9, <1>10, <1>11 DEF KV!Next

LEMMA KVCountBacked ==
  ASSUME KV!RateLimitAssumption, KVInv, Backed, NEW time \in Nat, NEW length \in Nat
  PROVE  /\ KV!Count(time, length) \in Int /\ KV!AcceptedSince(time, length) \in Int
         /\ KV!Count(time, length) <= KV!AcceptedSince(time, length)
<1> DEFINE S == {c \in DOMAIN kv : KV!BucketOf(time - length) <= c /\ c <= time}
           T == {t \in KV!Time : t >= KV!BucketOf(time - length)}
           counts == [b \in S |-> kv[b].count]
           P == [b \in S |-> {t \in KV!Time : KV!BucketOf(t) = b}]
           g == [b \in S |-> AcceptedIn(b)]
           covered == UNION {P[b] : b \in S}
<1>1. KV!Count(time, length) = Sum(counts, S) /\ KV!AcceptedSince(time, length) = Sum(kvAccepted, T)
  BY KVSum DEF KV!Count, KV!AcceptedSince, KV!SumFunction
<1>2. IsFiniteSet(S) /\ IsFiniteSet(T) /\ S \subseteq KV!Time
  <2>1. S \subseteq KV!Time /\ T \subseteq KV!Time
    BY DEF Backed
  <2> HIDE DEF S, T
  <2> QED BY <2>1, KVTimeFinite, FS_Subset
<1>3. /\ \A t \in T : kvAccepted[t] \in Nat
      /\ \A b \in S : P[b] \subseteq T /\ g[b] = Sum(kvAccepted, P[b])
      /\ \A b, c \in S : b # c => P[b] \cap P[c] = {}
  <2>1. ASSUME NEW b \in S, NEW t \in P[b] PROVE t \in T
    <3>1. t \in KV!Time /\ KV!BucketOf(t) = b /\ t \in Int /\ KV!BucketOf(time - length) <= b
      BY <2>1, KVTimeFinite
    <3>2. KV!BucketOf(t) <= t /\ KV!BucketOf(t) \in Int /\ KV!BucketOf(time - length) \in Int
      BY <3>1, KVBucketStart
    <3> QED BY <3>1, <3>2
  <2>2. \A b \in S : g[b] = Sum(kvAccepted, P[b])
    BY DEF AcceptedIn
  <2>3. \A t \in T : kvAccepted[t] \in Nat
    BY DEF Backed
  <2>4. \A b, c \in S : b # c => P[b] \cap P[c] = {}
    OBVIOUS
  <2> QED BY <2>1, <2>2, <2>3, <2>4
<1>4. IntegerOn(counts, S) /\ \A b \in S : counts[b] <= g[b]
  BY DEF IntegerOn, KVInv, KVKept, Backed
<1>5. covered \in SUBSET T
  BY <1>3
<1> HIDE DEF S, T, counts, P, g
<1>6. Sum(g, S) = Sum(kvAccepted, covered) /\ IntegerOn(g, S)
  <2>1. UNION {P[b] : b \in S} = covered
    BY DEF covered
  <2> HIDE DEF covered
  <2> QED BY <1>2, <1>3, <2>1, SumPartsOf, SMTT(90)
<1> HIDE DEF covered
<1>7. Sum(kvAccepted, covered) <= Sum(kvAccepted, T) /\ Sum(kvAccepted, T) \in Nat
  BY <1>2, <1>3, <1>5, SumPart, SumNat
<1>8. Sum(counts, S) <= Sum(g, S) /\ Sum(counts, S) \in Int /\ Sum(g, S) \in Int
  BY <1>2, <1>4, <1>6, SumAtMost, SumInt
<1> QED BY <1>1, <1>6, <1>7, <1>8

(* However many updates are lost to concurrent requests and failures, the  *)
(* buckets hold no more than was accepted.                                 *)
THEOREM RefusedForAReason ==
  ASSUME KV!RateLimitAssumption
  PROVE  KV!Spec => RefusedOnlyWhenFull
<1> DEFINE Inv == KVInv /\ Backed
           A == \A r \in Requests : KV!Counted(r) /\ calls'[r].pc = "off" /\ ~kvAnswer' =>
                  \E w \in KV!Limits : KV!AcceptedSince(calls[r].time, w.length) >= w.limit
<1>1. KV!Init => Inv
  <2>1. ASSUME KV!Init PROVE Backed
    <3>1. 0 \in KV!Time /\ \A r \in Requests : calls[r] = KV!Off
      BY <2>1 DEF KV!Init, KV!Time, KV!RateLimitAssumption
    <3> QED BY <2>1, <3>1, KVOffSlot DEF KV!Init, Backed
  <2> QED BY <2>1, KVInit
<1>2. Inv /\ [KV!Next]_(KV!vars) => Inv'
  BY KVStep, StepBacked
<1>3. Inv => A
  <2> SUFFICES ASSUME KVInv, Backed, NEW r \in Requests, KV!Counted(r), calls'[r].pc = "off", ~kvAnswer'
               PROVE \E w \in KV!Limits : KV!AcceptedSince(calls[r].time, w.length) >= w.limit
    OBVIOUS
  <2> DEFINE time == calls[r].time
  <2>1. time \in Nat /\ calls[r].pc = "count"
    BY DEF KVInv, Call, KV!Counted
  <2>2. \/ KV!Count(time, Period) >= Limit
        \/ Burst # 0 /\ KV!Count(time, BurstWindow) >= Burst
    <3>1. calls' # [calls EXCEPT ![r].pc = "get"]
      BY DEF KVInv, Call
    <3> QED BY <3>1 DEF KV!Counted, KV!Answered
  <2> HIDE DEF time
  <2>3. Period \in Nat /\ BurstWindow \in Nat /\ Limit \in Int /\ Burst \in Int
    BY DEF KV!RateLimitAssumption
  <2>4. CASE KV!Count(time, Period) >= Limit
    <3>1. KV!AcceptedSince(time, Period) >= Limit
      BY <2>1, <2>3, <2>4, KVCountBacked
    <3> DEFINE w == [limit |-> Limit, length |-> Period]
    <3>2. w \in KV!Limits /\ w.limit = Limit /\ w.length = Period
      BY DEF KV!Limits
    <3> HIDE DEF w
    <3> QED BY <3>1, <3>2 DEF time
  <2>5. CASE Burst # 0 /\ KV!Count(time, BurstWindow) >= Burst
    <3>1. KV!AcceptedSince(time, BurstWindow) >= Burst
      BY <2>1, <2>3, <2>5, KVCountBacked
    <3> DEFINE w == [limit |-> Burst, length |-> BurstWindow]
    <3>2. w \in KV!Limits /\ w.limit = Burst /\ w.length = BurstWindow
      BY <2>5 DEF KV!Limits
    <3> HIDE DEF w
    <3> QED BY <3>1, <3>2 DEF time
  <2> QED BY <2>2, <2>4, <2>5
<1>4. Inv /\ [KV!Next]_(KV!vars) => [A]_(KV!vars)
  BY <1>3
<1> QED
  BY <1>1, <1>2, <1>4, PTL DEF KV!Spec, RefusedOnlyWhenFull, KV!RefusedOnlyWhenFull

-----------------------------------------------------------------------------
(* What runs beside each other are these services, so what is proved of    *)
(* one holds of the whole.                                                 *)
LEMMA RunsEachService ==
  ServicesSpec => Spec /\ billing!Spec /\ DO!Spec /\ KV!Spec
<1> DEFINE all == <<service, vars, billingVars, doVars, kvVars>>
<1>1. ServicesInit => Init /\ billing!Init /\ DO!Init /\ KV!Init
  BY DEF ServicesInit
<1>2. [ServicesNext]_all =>
        [Next]_vars /\ [billing!Next]_(billing!vars) /\ [DO!Next]_(DO!vars) /\ [KV!Next]_(KV!vars)
  <2>1. UNCHANGED billingVars => UNCHANGED (billing!vars)
    BY DEF billing!vars, billing!user, billingVars
  <2>2. /\ UNCHANGED doVars => UNCHANGED (DO!vars)
        /\ UNCHANGED kvVars => UNCHANGED (KV!vars)
    BY DEF DO!vars, doVars, KV!vars, kvVars
  <2>3. CASE UNCHANGED all
    BY <2>1, <2>2, <2>3
  <2>4. CASE ServicesNext
    BY <2>1, <2>2, <2>4 DEF ServicesNext
  <2> QED BY <2>3, <2>4
<1> HIDE DEF all
<1> QED BY <1>1, <1>2, PTL DEF ServicesSpec, Spec, billing!Spec, DO!Spec, KV!Spec, all

(* All of it, of the services as they run together.                        *)
THEOREM ServicesKeepTheirWord ==
  ASSUME billing!CreditsAssumption, DO!RateLimitAssumption, KV!RateLimitAssumption
  PROVE  ServicesSpec => /\ [](LedgerAddsUp /\ GrantsBounded)
                         /\ ImplementsSlidingWindow /\ ExpiredOutOfReach /\ RefusedOnlyWhenFull
<1>1. billing!Spec => []LedgerAddsUp
  BY LedgerAlwaysAddsUp
<1>2. billing!Spec => []GrantsBounded
  BY GrantsAlwaysBounded
<1>3. DO!Spec => ImplementsSlidingWindow
  BY SlidesToABucket
<1>4. KV!Spec => ExpiredOutOfReach /\ RefusedOnlyWhenFull
  BY ExpiryOutOfReach, RefusedForAReason
<1> QED BY <1>1, <1>2, <1>3, <1>4, RunsEachService, PTL
=================================================================================
