--------------------------- MODULE AgentStorageProofs ---------------------------
(***************************************************************************)
(* Theorems about what an agent keeps: its conversation, for every length  *)
(* of the histories, every number of turns at once and of evictions; its   *)
(* files, for every number of them, of saves, resets, syncs and failures.  *)
(***************************************************************************)
EXTENDS MCAgentStorage, SequenceTheorems, Sums

-----------------------------------------------------------------------------
(* Conversation.                                                           *)

-----------------------------------------------------------------------------
(* The user's messages of a history: a bound from where they can be.       *)
Asks(s) == {i \in 1..Len(s) : s[i].part = "user"}

LEMMA AsksFinite ==
  ASSUME NEW s \in Seq(Message)
  PROVE  Users(s) = Cardinality(Asks(s)) /\ Users(s) \in Nat /\ IsFiniteSet(Asks(s))
<1>1. IsFiniteSet(1..Len(s))
  BY FS_Interval
<1>2. Asks(s) \in SUBSET (1..Len(s))
  BY DEF Asks
<1> QED
  BY <1>1, <1>2, FS_Subset, FS_CardinalityType DEF Users, Asks

(* An interval and the positions of a set beside it.                       *)
LEMMA AsksWithin ==
  ASSUME NEW s \in Seq(Message), NEW a \in Int, NEW b \in Int, b >= a - 1,
         NEW beside, IsFiniteSet(beside),
         Asks(s) \subseteq beside \cup a..b
  PROVE  Users(s) <= Cardinality(beside) + (b - a + 1)
<1>1. IsFiniteSet(a..b) /\ Cardinality(a..b) = b - a + 1
  BY FS_Interval
<1>2. /\ IsFiniteSet(beside \cup a..b)
      /\ Cardinality(beside \cup a..b)
           = Cardinality(beside) + (b - a + 1) - Cardinality(beside \cap a..b)
  BY <1>1, FS_Union
<1>3. Cardinality(beside \cap a..b) \in Nat
  BY FS_Intersection, FS_CardinalityType
<1>4. Cardinality(Asks(s)) <= Cardinality(beside \cup a..b)
  BY <1>2, FS_Subset
<1>5. Cardinality(beside) \in Nat /\ Cardinality(beside \cup a..b) \in Nat
  BY <1>2, FS_CardinalityType
<1> QED
  BY <1>2, <1>3, <1>4, <1>5, AsksFinite

(* A turn adds one message of the user.                                    *)
LEMMA TurnAdds ==
  ASSUME NEW s \in Seq(Message), NEW said \in Seq(Message),
         \A i \in 1..Len(said) : said[i].part = "user" => i = 1
  PROVE  s \o said \in Seq(Message) /\ Users(s \o said) <= Users(s) + 1
<1>1. s \o said \in Seq(Message)
  OBVIOUS
<1>2. Asks(s \o said) \subseteq Asks(s) \cup {Len(s) + 1}
  BY DEF Asks
<1>3. IsFiniteSet(Asks(s)) /\ Cardinality(Asks(s)) \in Nat
  BY AsksFinite
<1> DEFINE more == Asks(s) \cup {Len(s) + 1}
<1>4. IsFiniteSet(more) /\ Cardinality(more) \in Nat
      /\ (Cardinality(more) = Cardinality(Asks(s))
            \/ Cardinality(more) = Cardinality(Asks(s)) + 1)
  BY <1>3, FS_AddElement, FS_CardinalityType
<1>5. Cardinality(Asks(s \o said)) <= Cardinality(more)
  BY <1>2, <1>4, FS_Subset
<1>6. Users(s) = Cardinality(Asks(s))
      /\ Users(s \o said) = Cardinality(Asks(s \o said)) /\ Users(s \o said) \in Nat
  BY <1>1, AsksFinite
<1> QED
  BY <1>1, <1>3, <1>4, <1>5, <1>6

-----------------------------------------------------------------------------
(* A set of naturals below a bound has a greatest element.                 *)
LEMMA Greatest ==
  ASSUME NEW n \in Nat, NEW S, S \subseteq 1..n, S # {}
  PROVE  \E j \in S : \A k \in S : k <= j
<1> DEFINE R == {ss \in Nat \X Nat : ss[1] < ss[2]}
           T == {n - k : k \in S}
<1>1. IsWellFoundedOn(R, Nat)
  BY NatLessThanWellFounded DEF OpToRel
<1>2. \A k \in S : k \in Nat /\ n - k \in Nat
  <2>1. \A k \in 1..n : k \in Nat /\ n - k \in Nat
    OBVIOUS
  <2> QED
    BY <2>1
<1>3. T \subseteq Nat /\ T # {}
  BY <1>2
<1>4. PICK x \in T : \A y \in T : <<y, x>> \notin R
  <2> HIDE DEF R, T
  <2> QED
    BY <1>1, <1>3, WFMin
<1>5. PICK j \in S : x = n - j
  BY <1>4
<1>6. ASSUME NEW k \in S PROVE k <= j
  <2>1. <<n - k, n - j>> \notin R
    BY <1>4, <1>5
  <2>2. n - k \in Nat /\ n - j \in Nat /\ k \in Nat /\ j \in Nat
    BY <1>2
  <2>3. ~(n - k < n - j)
    BY <2>1, <2>2
  <2> QED
    BY <2>2, <2>3
<1> QED
  BY <1>6

(* Where findTurnBoundary splits: behind it there is one turn and the      *)
(* messages to preserve.                                                   *)
Boundary(s, split) ==
  /\ 0 < split /\ split < Len(s) /\ split <= Len(s) - Preserve
  /\ \A i \in split + 2..Len(s) - Preserve + 1 : s[i].part # "user"

LEMMA BoundaryFound ==
  ASSUME ConversationAssumption, NEW s \in Seq(Message)
  PROVE  /\ TurnBoundary(s) \in Nat
         /\ TurnBoundary(s) > 0 => Boundary(s, TurnBoundary(s))
         /\ TurnBoundary(s) = 0 => Users(s) < MaxTurns
<1> DEFINE n == Len(s)
           before == {i \in 1..n : s[i].part = "user" /\ i - 1 <= n - Preserve}
<1>1. n \in Nat /\ Preserve \in Nat /\ MaxTurns \in Nat /\ 0 < Preserve /\ Preserve < MaxTurns
  BY DEF ConversationAssumption
<1>2. CASE n <= Preserve
  <2>1. TurnBoundary(s) = 0
    BY <1>2 DEF TurnBoundary
  <2>2. Users(s) <= n
    <3> DEFINE e == {i \in Nat : FALSE}
    <3>1. IsFiniteSet(e) /\ Cardinality(e) = 0
      BY FS_EmptySet
    <3>2. Asks(s) \subseteq e \cup 1..n
      BY DEF Asks
    <3> HIDE DEF e
    <3>3. 1 \in Int /\ n \in Int /\ n >= 1 - 1
      BY <1>1
    <3>4. Users(s) <= Cardinality(e) + (n - 1 + 1)
      <4> HIDE DEF n, before
      <4> QED
        BY <3>1, <3>2, <3>3, AsksWithin, Zenon
    <3> QED
      BY <1>1, <3>1, <3>4, AsksFinite
  <2> QED
    BY <1>1, <1>2, <2>1, <2>2, AsksFinite
<1>3. CASE n > Preserve /\ before = {}
  <2>1. TurnBoundary(s) = 0
    BY <1>3 DEF TurnBoundary
  <2> DEFINE e == {i \in Nat : FALSE}
             a == n - Preserve + 2
  <2>2. IsFiniteSet(e) /\ Cardinality(e) = 0
    BY FS_EmptySet
  <2>3. Asks(s) \subseteq e \cup a..n
    BY <1>1, <1>3 DEF Asks
  <2>4. a \in Int /\ n \in Int /\ n >= a - 1 /\ n - a + 1 = Preserve - 1
    BY <1>1
  <2> HIDE DEF e, a
  <2>5. Users(s) <= Cardinality(e) + (n - a + 1)
    <3> HIDE DEF n, before
    <3> QED
      BY <2>2, <2>3, <2>4, AsksWithin, Zenon
  <2> QED
    BY <1>1, <2>1, <2>2, <2>4, <2>5, AsksFinite
<1>4. CASE n > Preserve /\ before # {}
  <2> DEFINE i == CHOOSE j \in before : \A k \in before : k <= j
  <2>1. \E j \in before : \A k \in before : k <= j
    <3>1. before \subseteq 1..n
      OBVIOUS
    <3> HIDE DEF before
    <3> QED
      BY <1>1, <1>4, <3>1, Greatest
  <2>2. i \in before /\ \A k \in before : k <= i
    BY <2>1
  <2>3. TurnBoundary(s) = i - 1
    <3>1. ~(Len(s) <= Preserve)
      BY <1>1, <1>4
    <3> QED
      BY <1>4, <3>1, Zenon DEF TurnBoundary
  <2> HIDE DEF i
  <2>4. i \in 1..n /\ i - 1 <= n - Preserve /\ i \in Nat
    BY <1>1, <2>2
  <2>5. \A k \in Asks(s) : k <= i \/ k \in (n - Preserve + 2)..n
    BY <1>1, <2>2 DEF Asks
  <2>6. CASE i = 1
    <3> DEFINE e == {1}
               a == n - Preserve + 2
    <3>1. Asks(s) \subseteq e \cup a..n
      BY <1>1, <2>5, <2>6 DEF Asks
    <3>2. IsFiniteSet(e) /\ Cardinality(e) = 1
      BY FS_Singleton
    <3>3. a \in Int /\ n \in Int /\ n >= a - 1 /\ n - a + 1 = Preserve - 1
      BY <1>1
    <3> HIDE DEF e, a
    <3>4. Users(s) <= Cardinality(e) + (n - a + 1)
      <4> HIDE DEF n, before
      <4> QED
        BY <3>1, <3>2, <3>3, AsksWithin, Zenon
    <3> QED
      BY <1>1, <2>3, <2>6, <3>2, <3>3, <3>4, AsksFinite
  <2>7. CASE i # 1
    <3>1. 0 < i - 1 /\ i - 1 < n /\ i - 1 \in Nat
      BY <2>4, <2>7
    <3>2. \A k \in (i - 1) + 2..n - Preserve + 1 : s[k].part # "user"
      <4> SUFFICES ASSUME NEW k \in (i - 1) + 2..n - Preserve + 1 PROVE s[k].part # "user"
        OBVIOUS
      <4>1. k \in 1..n /\ k - 1 <= n - Preserve /\ ~(k <= i)
        <5> HIDE DEF n, before
        <5> QED
          BY <1>1, <2>4
      <4>2. k \notin before
        BY <2>2, <4>1
      <4> QED
        BY <4>1, <4>2
    <3> QED
      BY <2>3, <2>4, <3>1, <3>2 DEF Boundary
  <2> QED
    BY <2>6, <2>7
<1> QED
  BY <1>1, <1>2, <1>3, <1>4

-----------------------------------------------------------------------------
(* The invariant: what a turn that waits for the summary or the model has  *)
(* decided still fits the history it carries.                              *)
Split(turn) ==
  turn.pc \in {"summary", "inference"} =>
    /\ turn.split = 0 => Users(turn.running) < MaxTurns
    /\ turn.split > 0 => Boundary(turn.running, turn.split)

IInv == TypeOK /\ \A t \in Turns : Split(turns[t])

LEMMA SaidType ==
  ASSUME NEW n \in 0..MaxNumber, NEW kind \in Parts
  PROVE  Said(n, kind) \in Message
BY DEF Said, Message

(* What a turn says is well formed and has one message of the user, first. *)
LEMMA TurnSays ==
  ASSUME NEW turn, turn.number \in 0..MaxNumber, NEW said \in {Answered(turn), Aborted(turn)}
  PROVE  said \in Seq(Message) /\ \A i \in 1..Len(said) : said[i].part = "user" => i = 1
<1> DEFINE S(kind) == Said(turn.number, kind)
<1>1. /\ S("user") \in Message /\ S("call") \in Message /\ S("result") \in Message
      /\ S("answer") \in Message
  BY SaidType DEF Parts
<1>2. S("call").part = "call" /\ S("result").part = "result" /\ S("answer").part = "answer"
  BY DEF Said
<1> HIDE DEF S
<1>3. CASE said = Answered(turn)
  <2>1. said = <<S("user"), S("answer")>>
    BY <1>3 DEF Answered, S
  <2> QED
    BY <1>1, <1>2, <2>1
<1>4. CASE said = Aborted(turn)
  <2>1. said = <<S("user"), S("call"), S("result"), S("answer")>>
    BY <1>4 DEF Aborted, S
  <2> QED
    BY <1>1, <1>2, <2>1
<1> QED
  BY <1>3, <1>4

LEMMA StorageType ==
  ASSUME TypeOK, NEW t \in Turns
  PROVE  /\ CompactHistory(turns[t]) \in Seq(Message)
         /\ StorageRunning(turns[t]) \in Seq(Message)
<1> DEFINE turn == turns[t]
<1>1. /\ turn.running \in Seq(Message) /\ turn.split \in Nat /\ turn.split <= Len(turn.running)
      /\ turn.number \in 0..MaxNumber
  BY DEF TypeOK
<1>2. Said(turn.number, "summary") \in Message
  BY <1>1, SaidType DEF Parts
<1> HIDE DEF turn
<1>3. SubSeq(turn.running, turn.split + 1, Len(turn.running)) \in Seq(Message)
  BY <1>1
<1>4. CompactHistory(turn) \in Seq(Message)
  BY <1>1, <1>2, <1>3 DEF CompactHistory
<1> QED
  BY <1>1, <1>4 DEF StorageRunning, turn

(* The rows after setConversationState.                                    *)
LEMMA RowsType ==
  ASSUME TypeOK, NEW running \in Seq(Message), NEW whole \in Seq(Message),
         SetConversationState(running, whole)
  PROVE  compact' \in Seq(Message) /\ full' \in Seq(Message) /\ refused' \in BOOLEAN
<1>1. compact' \in {running, compact} /\ full' \in {whole, full}
  BY DEF SetConversationState
<1>2. refused' \in BOOLEAN
  BY Zenon DEF SetConversationState
<1> QED
  BY <1>1, <1>2 DEF TypeOK

LEMMA InitInv ==
  ASSUME ConversationAssumption, Init
  PROVE  IInv
<1>1. Legacy \in Nat /\ MaxNumber \in Nat /\ MaxCrashes \in Nat
  BY Zenon DEF ConversationAssumption
<1>2. legacy \in Seq(Message)
  <2> DEFINE said(i) == Said(0, IF i % 2 = 1 THEN "user" ELSE "answer")
  <2>1. \A i \in 1..Legacy : said(i) \in Message
    <3>1. Said(0, "user") \in Message /\ Said(0, "answer") \in Message
      BY <1>1, SaidType DEF Parts
    <3>2. \A i \in 1..Legacy : said(i) = Said(0, "user") \/ said(i) = Said(0, "answer")
      BY Zenon
    <3> QED
      BY <3>1, <3>2
  <2>2. legacy = << >> \/ legacy = [i \in 1..Legacy |-> said(i)]
    BY DEF Init
  <2>3. [i \in 1..Legacy |-> said(i)] \in Seq(Message)
    <3> HIDE DEF said
    <3> QED
      BY <1>1, <2>1
  <2>4. << >> \in Seq(Message)
    OBVIOUS
  <2> QED
    BY <2>2, <2>3, <2>4, Zenon
<1>3. << >> \in Seq(Message) /\ Len(<< >>) = 0
  OBVIOUS
<1>4. \A t \in Turns : turns[t] = Idle
  BY DEF Init
<1>5. /\ Idle \in [pc : {"off", "preparing", "summary", "inference"}, number : 0..MaxNumber,
                   running : Seq(Message), full : Seq(Message), split : Nat]
      /\ Idle.split <= Len(Idle.running) /\ Idle.pc = "off"
  BY <1>1, <1>3 DEF Idle
<1> QED
  <2>1. /\ compact \in Seq(Message) /\ full \in Seq(Message)
        /\ number \in 0..MaxNumber /\ crashes \in 0..MaxCrashes
        /\ asked \in BOOLEAN /\ refused \in BOOLEAN
    <3>1. /\ compact = << >> /\ full = << >> /\ number = 0 /\ crashes = 0
          /\ asked = FALSE /\ refused = FALSE
      BY DEF Init
    <3>2. number \in 0..MaxNumber /\ crashes \in 0..MaxCrashes
      BY <1>1, <3>1
    <3>3. compact \in Seq(Message) /\ full \in Seq(Message)
      BY <1>3, <3>1
    <3>4. asked \in BOOLEAN /\ refused \in BOOLEAN
      BY <3>1, Zenon
    <3> QED
      BY <3>2, <3>3, <3>4, Zenon
  <2>2. /\ turns \in [Turns -> [pc : {"off", "preparing", "summary", "inference"},
                                number : 0..MaxNumber, running : Seq(Message),
                                full : Seq(Message), split : Nat]]
        /\ \A t \in Turns : turns[t].split <= Len(turns[t].running)
    BY <1>4, <1>5 DEF Init
  <2>3. \A t \in Turns : Split(turns[t])
    BY <1>4, <1>5 DEF Split
  <2> QED
    BY <1>2, <2>1, <2>2, <2>3 DEF IInv, TypeOK

-----------------------------------------------------------------------------
(* The steps keep it.  A turn changes itself only.                         *)
LEMMA TurnKeeps ==
  ASSUME IInv, NEW t \in Turns, NEW turn,
         turn \in [pc : {"off", "preparing", "summary", "inference"}, number : 0..MaxNumber,
                   running : Seq(Message), full : Seq(Message), split : Nat],
         turn.split <= Len(turn.running), Split(turn),
         turns' = [turns EXCEPT ![t] = turn],
         compact' \in Seq(Message), full' \in Seq(Message), legacy' \in Seq(Message),
         number' \in 0..MaxNumber, crashes' \in 0..MaxCrashes,
         asked' \in BOOLEAN, refused' \in BOOLEAN
  PROVE  IInv'
<1>1. /\ turns' \in [Turns -> [pc : {"off", "preparing", "summary", "inference"},
                               number : 0..MaxNumber, running : Seq(Message),
                               full : Seq(Message), split : Nat]]
      /\ \A u \in Turns : turns'[u] = IF u = t THEN turn ELSE turns[u]
  BY DEF IInv, TypeOK
<1>2. \A u \in Turns : turns'[u].split <= Len(turns'[u].running) /\ Split(turns'[u])
  BY <1>1 DEF IInv, TypeOK
<1> QED
  BY <1>1, <1>2 DEF IInv, TypeOK

(* The same when no turn changes.                                          *)
LEMMA RowsKeep ==
  ASSUME IInv, turns' = turns,
         compact' \in Seq(Message), full' \in Seq(Message), legacy' \in Seq(Message),
         number' \in 0..MaxNumber, crashes' \in 0..MaxCrashes,
         asked' \in BOOLEAN, refused' \in BOOLEAN
  PROVE  IInv'
BY DEF IInv, TypeOK

LEMMA IdleType ==
  ASSUME ConversationAssumption
  PROVE  /\ Idle \in [pc : {"off", "preparing", "summary", "inference"}, number : 0..MaxNumber,
                      running : Seq(Message), full : Seq(Message), split : Nat]
         /\ Idle.split <= Len(Idle.running) /\ Split(Idle)
<1>1. MaxNumber \in Nat
  BY Zenon DEF ConversationAssumption
<1>2. << >> \in Seq(Message) /\ Len(<< >>) = 0
  OBVIOUS
<1> QED
  BY <1>1, <1>2 DEF Idle, Split

LEMMA NumberGrows ==
  ASSUME ConversationAssumption, TypeOK, number < MaxNumber
  PROVE  number + 1 \in 0..MaxNumber
<1>1. MaxNumber \in Nat
  BY Zenon DEF ConversationAssumption
<1> QED
  BY <1>1 DEF TypeOK

LEMMA NextInv ==
  ASSUME ConversationAssumption, IInv, [Next]_vars
  PROVE  IInv'
<1> USE DEF IInv
<1>1. ASSUME NEW t \in Turns, StartTurn(t) PROVE IInv'
  <2> DEFINE turn == [pc |-> "preparing", number |-> number + 1, running |-> RunningHistory,
                      full |-> FullHistory, split |-> 0]
  <2>1. RunningHistory \in Seq(Message) /\ FullHistory \in Seq(Message)
    BY DEF TypeOK, RunningHistory, FullHistory
  <2>2. number + 1 \in 0..MaxNumber
    BY <1>1, NumberGrows DEF StartTurn
  <2>3. /\ turn \in [pc : {"off", "preparing", "summary", "inference"}, number : 0..MaxNumber,
                     running : Seq(Message), full : Seq(Message), split : Nat]
        /\ turn.split <= Len(turn.running) /\ Split(turn)
    BY <2>1, <2>2 DEF Split
  <2>4. /\ turns' = [turns EXCEPT ![t] = turn] /\ number' = number + 1
        /\ UNCHANGED <<compact, full, legacy, asked, crashes, refused>>
    BY <1>1 DEF StartTurn
  <2> HIDE DEF turn
  <2> QED
    BY <2>2, <2>3, <2>4, TurnKeeps DEF TypeOK
<1>2. ASSUME NEW t \in Turns, Prepared(t) PROVE IInv'
  <2>1. PICK tokens \in BOOLEAN :
          LET split == IF Users(turns[t].running) >= MaxTurns \/ tokens
                         THEN TurnBoundary(turns[t].running) ELSE 0
          IN turns' = [turns EXCEPT ![t].split = split,
                                    ![t].pc = IF split > 0 THEN "summary" ELSE "inference"]
    BY <1>2 DEF Prepared
  <2> DEFINE s == turns[t].running
             split == IF Users(s) >= MaxTurns \/ tokens THEN TurnBoundary(s) ELSE 0
             turn == [turns[t] EXCEPT !.split = split,
                                      !.pc = IF split > 0 THEN "summary" ELSE "inference"]
  <2>2. turns' = [turns EXCEPT ![t] = turn]
    BY <2>1 DEF TypeOK
  <2>3. s \in Seq(Message)
    BY DEF TypeOK
  <2>4. /\ split \in Nat /\ split <= Len(s)
        /\ split = 0 => Users(s) < MaxTurns
        /\ split > 0 => Boundary(s, split)
    <3>1. MaxTurns \in Nat /\ Users(s) \in Nat
      BY <2>3, AsksFinite, Zenon DEF ConversationAssumption
    <3>2. TurnBoundary(s) > 0 => TurnBoundary(s) <= Len(s)
      BY <2>3, BoundaryFound DEF Boundary
    <3> QED
      BY <2>3, <3>1, <3>2, BoundaryFound
  <2>5. /\ turn \in [pc : {"off", "preparing", "summary", "inference"}, number : 0..MaxNumber,
                     running : Seq(Message), full : Seq(Message), split : Nat]
        /\ turn.running = s /\ turn.split = split
    <3> HIDE DEF split
    <3> QED
      BY <2>4 DEF TypeOK
  <2>6. turn.split <= Len(turn.running) /\ Split(turn)
    <3> HIDE DEF split, turn, s
    <3> QED
      BY <2>4, <2>5 DEF Split
  <2> HIDE DEF turn
  <2> QED
    BY <1>2, <2>2, <2>5, <2>6, TurnKeeps DEF Prepared, TypeOK
<1>3. ASSUME NEW t \in Turns, Summarized(t) PROVE IInv'
  <2> DEFINE turn == [turns[t] EXCEPT !.pc = "inference"]
  <2>1. turns' = [turns EXCEPT ![t] = turn]
    BY <1>3 DEF Summarized
  <2>2. /\ turn \in [pc : {"off", "preparing", "summary", "inference"}, number : 0..MaxNumber,
                     running : Seq(Message), full : Seq(Message), split : Nat]
        /\ turn.running = turns[t].running /\ turn.split = turns[t].split
    BY DEF TypeOK
  <2>3. turn.split <= Len(turn.running) /\ Split(turn)
    BY <1>3, <2>2 DEF Summarized, TypeOK, Split
  <2> HIDE DEF turn
  <2> QED
    BY <1>3, <2>1, <2>2, <2>3, TurnKeeps DEF Summarized, TypeOK
<1>4. ASSUME NEW t \in Turns, TurnAnswered(t) \/ TurnFails(t) PROVE IInv'
  <2>1. turns[t].number \in 0..MaxNumber /\ turns[t].running \in Seq(Message)
        /\ turns[t].full \in Seq(Message)
    BY DEF TypeOK
  <2>2. PICK running \in Seq(Message), whole \in Seq(Message) :
          SetConversationState(running, whole)
    <3>1. \A said \in {Answered(turns[t]), Aborted(turns[t])} :
            /\ StorageRunning(turns[t]) \o said \in Seq(Message)
            /\ turns[t].running \o said \in Seq(Message)
            /\ turns[t].full \o said \in Seq(Message)
      BY <2>1, TurnSays, StorageType
    <3> QED
      BY <1>4, <3>1 DEF TurnAnswered, TurnFails, Store
  <2>3. compact' \in Seq(Message) /\ full' \in Seq(Message) /\ refused' \in BOOLEAN
    BY <2>2, RowsType
  <2>4. turns' = [turns EXCEPT ![t] = Idle] /\ UNCHANGED <<legacy, number, asked, crashes>>
    BY <1>4 DEF TurnAnswered, TurnFails
  <2> QED
    BY <2>3, <2>4, IdleType, TurnKeeps DEF TypeOK
<1>5. ASSUME NEW t \in Turns, TurnRefused(t) PROVE IInv'
  BY <1>5, IdleType, TurnKeeps DEF TurnRefused, TypeOK
<1>6. CASE AskReview
  <2>1. number + 1 \in 0..MaxNumber
    BY <1>6, NumberGrows DEF AskReview
  <2>2. Said(number + 1, "question") \in Message
    BY <2>1, SaidType DEF Parts
  <2>3. /\ Append(RunningHistory, Said(number + 1, "question")) \in Seq(Message)
        /\ Append(FullHistory, Said(number + 1, "question")) \in Seq(Message)
    BY <2>2 DEF TypeOK, RunningHistory, FullHistory
  <2>4. compact' \in Seq(Message) /\ full' \in Seq(Message) /\ refused' \in BOOLEAN
    BY <1>6, <2>3, RowsType DEF AskReview, AddConversationMessage
  <2>5. /\ asked' \in BOOLEAN /\ number' = number + 1 /\ UNCHANGED <<legacy, turns, crashes>>
    BY <1>6 DEF AskReview
  <2> QED
    BY <2>1, <2>4, <2>5, RowsKeep DEF TypeOK
<1>7. CASE ClearConversation
  BY <1>7, RowsKeep DEF ClearConversation, TypeOK
<1>8. CASE Evict
  <2>1. MaxCrashes \in Nat
    BY Zenon DEF ConversationAssumption
  <2>2. crashes' \in 0..MaxCrashes
    BY <1>8, <2>1 DEF Evict, TypeOK
  <2>3. \A t \in Turns : turns'[t] = Idle
    BY <1>8 DEF Evict
  <2>4. /\ turns' \in [Turns -> [pc : {"off", "preparing", "summary", "inference"},
                                number : 0..MaxNumber, running : Seq(Message),
                                full : Seq(Message), split : Nat]]
        /\ \A t \in Turns : turns'[t].split <= Len(turns'[t].running) /\ Split(turns'[t])
    BY <1>8, <2>3, IdleType DEF Evict
  <2> QED
    BY <1>8, <2>2, <2>4 DEF Evict, TypeOK
<1>9. CASE UNCHANGED vars
  BY <1>9, RowsKeep DEF vars, TypeOK
<1> QED
  BY <1>1, <1>2, <1>3, <1>4, <1>5, <1>6, <1>7, <1>8, <1>9 DEF Next

-----------------------------------------------------------------------------
LEMMA Prefixed ==
  ASSUME NEW first \in Message, NEW rest \in Seq(Message)
  PROVE  /\ <<first>> \o rest \in Seq(Message)
         /\ Len(<<first>> \o rest) = Len(rest) + 1
         /\ (<<first>> \o rest)[1] = first
         /\ \A i \in 2..Len(rest) + 1 : (<<first>> \o rest)[i] = rest[i - 1]
OBVIOUS

(* What a summary and the messages behind a boundary hold of the user's.   *)
LEMMA Compacted ==
  ASSUME ConversationAssumption, NEW s \in Seq(Message), NEW split \in Nat,
         NEW first \in Message, first.part = "summary", Boundary(s, split)
  PROVE  LET c == <<first>> \o SubSeq(s, split + 1, Len(s))
         IN /\ c \in Seq(Message) /\ Len(c) = Len(s) - split + 1
            /\ Users(c) <= Preserve
<1> DEFINE n == Len(s)
           rest == SubSeq(s, split + 1, n)
           c == <<first>> \o rest
           e == {2}
           a == n - split - Preserve + 3
           b == n - split + 1
<1>1. n \in Nat /\ Preserve \in Nat /\ 0 < Preserve
  <2>1. n \in Nat
    OBVIOUS
  <2> QED
    BY <2>1, Zenon DEF ConversationAssumption
<1>2. /\ 0 < split /\ split < n /\ split <= n - Preserve
      /\ \A i \in split + 2..n - Preserve + 1 : s[i].part # "user"
  BY DEF Boundary
<1>3. /\ rest \in Seq(Message) /\ Len(rest) = n - split
      /\ \A i \in 1..n - split : rest[i] = s[split + i]
  BY <1>1, <1>2
<1>4. /\ c \in Seq(Message) /\ Len(c) = b /\ c[1] = first
      /\ \A i \in 2..b : c[i] = rest[i - 1]
  <2>1. Len(rest) + 1 = b
    <3> HIDE DEF rest, n
    <3> QED
      BY <1>1, <1>3
  <2> HIDE DEF rest, n, b
  <2> QED
    BY <1>3, <2>1, Prefixed
<1>5. \A i \in 2..b : c[i] = s[split + i - 1]
  <2> SUFFICES ASSUME NEW i \in 2..b PROVE c[i] = s[split + i - 1]
    OBVIOUS
  <2> HIDE DEF c, rest
  <2>1. i - 1 \in 1..n - split /\ split + (i - 1) = split + i - 1
    BY <1>1
  <2> QED
    BY <1>3, <1>4, <2>1
<1>6. Asks(c) \subseteq e \cup a..b
  <2> HIDE DEF c, rest
  <2> SUFFICES ASSUME NEW i \in 1..b, c[i].part = "user", i # 2
               PROVE  i \in a..b
    BY <1>4 DEF Asks
  <2>1. i \in 3..b
    BY <1>1, <1>4
  <2>2. c[i] = s[split + i - 1]
    BY <1>5, <2>1
  <2>3. split + i - 1 \notin split + 2..n - Preserve + 1
    BY <1>2, <2>2
  <2> HIDE DEF n
  <2> QED
    BY <1>1, <1>2, <2>1, <2>3
<1>7. IsFiniteSet(e) /\ Cardinality(e) = 1
  BY FS_Singleton
<1>8. a \in Int /\ b \in Int /\ b >= a - 1 /\ b - a + 1 = Preserve - 1
  <2> HIDE DEF n
  <2> QED
    BY <1>1
<1> HIDE DEF c, e, a, b
<1>9. Users(c) <= Cardinality(e) + (b - a + 1)
  <2>1. c \in Seq(Message)
    BY <1>4
  <2>2. \A w \in Seq(Message) :
          Asks(w) \subseteq e \cup a..b => Users(w) <= Cardinality(e) + (b - a + 1)
    BY <1>7, <1>8, AsksWithin, Zenon
  <2> QED
    BY <1>6, <2>1, <2>2, Zenon
<1>10. Users(c) \in Nat
  BY <1>4, AsksFinite
<1>11. Users(c) <= Preserve
  BY <1>1, <1>7, <1>8, <1>9, <1>10
<1> QED
  BY <1>4, <1>11 DEF c, b

(* The same when the summary replaces one message and nothing is stored.   *)
LEMMA NotCompacted ==
  ASSUME ConversationAssumption, NEW s \in Seq(Message), Boundary(s, 1)
  PROVE  Users(s) <= Preserve + 1
<1> DEFINE n == Len(s)
           e == {1, 2}
           a == n - Preserve + 2
<1>1. n \in Nat /\ Preserve \in Nat /\ 0 < Preserve
  <2>1. n \in Nat
    OBVIOUS
  <2> QED
    BY <2>1, Zenon DEF ConversationAssumption
<1>2. \A i \in 3..n - Preserve + 1 : s[i].part # "user"
  <2>1. 1 + 2 = 3
    OBVIOUS
  <2> QED
    BY <2>1 DEF Boundary
<1>3. Asks(s) \subseteq e \cup a..n
  BY <1>1, <1>2 DEF Asks
<1>4. IsFiniteSet(e) /\ Cardinality(e) = 2
  <2> DEFINE one == {1}
  <2>1. IsFiniteSet(one) /\ Cardinality(one) = 1
    BY FS_Singleton
  <2>2. e = one \cup {2} /\ 2 \notin one
    OBVIOUS
  <2> HIDE DEF one, e
  <2>3. IsFiniteSet(one \cup {2}) /\ Cardinality(one \cup {2}) = Cardinality(one) + 1
    BY <2>1, <2>2, FS_AddElement
  <2> QED
    BY <2>1, <2>2, <2>3
<1>5. a \in Int /\ n \in Int /\ n >= a - 1 /\ n - a + 1 = Preserve - 1
  BY <1>1
<1> HIDE DEF e, a, n
<1>6. Users(s) <= Cardinality(e) + (n - a + 1)
  BY <1>3, <1>4, <1>5, AsksWithin, Zenon
<1>7. Users(s) \in Nat
  BY AsksFinite
<1> QED
  BY <1>1, <1>4, <1>5, <1>6, <1>7

(* What is stored after a turn leaves room for the turn's own message.     *)
LEMMA RoomForTurn ==
  ASSUME ConversationAssumption, Preserve + 1 < MaxTurns, IInv, NEW t \in Turns,
         turns[t].pc = "inference"
  PROVE  Users(StorageRunning(turns[t])) < MaxTurns
<1> DEFINE turn == turns[t]
           s == turn.running
           split == turn.split
           first == Said(turn.number, "summary")
           c == <<first>> \o SubSeq(s, split + 1, Len(s))
<1>1. s \in Seq(Message) /\ split \in Nat /\ turn.number \in 0..MaxNumber
  BY DEF IInv, TypeOK
<1>2. MaxTurns \in Nat /\ Preserve \in Nat
  BY Zenon DEF ConversationAssumption
<1>3. /\ split = 0 => Users(s) < MaxTurns
      /\ split > 0 => Boundary(s, split)
  BY DEF IInv, Split
<1>4. first \in Message /\ first.part = "summary"
  BY <1>1, SaidType DEF Parts, Said
<1>5. StorageRunning(turn) = IF split # 0 /\ Len(c) # Len(s) THEN c ELSE s
  BY DEF StorageRunning, CompactHistory
<1>6. Users(s) \in Nat /\ Len(s) \in Nat
  BY <1>1, AsksFinite
<1> HIDE DEF s, split, first, turn
<1>7. ASSUME split = 0 PROVE Users(StorageRunning(turn)) < MaxTurns
  BY <1>3, <1>5, <1>7
<1>8. ASSUME split > 0 PROVE Users(StorageRunning(turn)) < MaxTurns
  <2>1. c \in Seq(Message) /\ Len(c) = Len(s) - split + 1 /\ Users(c) <= Preserve
    BY <1>1, <1>3, <1>4, <1>8, ConversationAssumption, Compacted
  <2>2. Users(c) \in Nat
    BY <2>1, AsksFinite
  <2> HIDE DEF c
  <2>3. CASE Len(c) # Len(s)
    BY <1>2, <1>5, <1>8, <2>1, <2>2, <2>3
  <2>4. CASE Len(c) = Len(s)
    <3>1. split = 1
      BY <1>1, <1>6, <2>1, <2>4
    <3>2. Users(s) <= Preserve + 1
      BY <1>1, <1>3, <3>1, ConversationAssumption, NotCompacted
    <3> QED
      BY <1>2, <1>5, <1>6, <2>4, <3>2
  <2> QED
    BY <2>3, <2>4
<1>9. Users(StorageRunning(turn)) < MaxTurns
  BY <1>1, <1>7, <1>8
<1> QED
  BY <1>9 DEF turn

(* A turn that is answered leaves no more turns to the next one than the   *)
(* limit, for every number of turns at once, of failed turns before it and *)
(* of evictions (UserConversationProcessor.ts: shouldCompactify and        *)
(* findTurnBoundary), if the limit exceeds the messages to preserve by two *)
(* at least (COMPACTIFICATION_CONFIG: 40 and 10).                          *)
THEOREM RunningStaysBounded ==
  ASSUME Preserve + 1 < MaxTurns
  PROVE  Spec => RunningBounded
<1>1. ASSUME IInv, Next
      PROVE  \A t \in Turns :
               TurnAnswered(t) /\ compact' # compact => Users(compact') <= MaxTurns
  <2> SUFFICES ASSUME NEW t \in Turns, TurnAnswered(t), compact' # compact
               PROVE  Users(compact') <= MaxTurns
    OBVIOUS
  <2> DEFINE kept == StorageRunning(turns[t])
  <2>1. turns[t].number \in 0..MaxNumber /\ turns[t].pc = "inference"
    BY <1>1 DEF IInv, TypeOK, TurnAnswered
  <2>2. PICK said \in {Answered(turns[t]), Aborted(turns[t])} : Store(turns[t], said)
    BY DEF TurnAnswered
  <2>3. compact' = kept \o said
    BY <2>2 DEF Store, SetConversationState
  <2>4. said \in Seq(Message) /\ \A i \in 1..Len(said) : said[i].part = "user" => i = 1
    BY <2>1, TurnSays
  <2>5. kept \in Seq(Message)
    BY <1>1, StorageType DEF IInv
  <2>6. Users(kept) < MaxTurns
    BY <1>1, <2>1, ConversationAssumption, RoomForTurn
  <2> HIDE DEF kept
  <2>7. kept \o said \in Seq(Message) /\ Users(kept \o said) <= Users(kept) + 1
    BY <2>4, <2>5, TurnAdds
  <2>8. Users(kept) \in Nat /\ Users(kept \o said) \in Nat /\ MaxTurns \in Nat
    BY <2>5, <2>7, AsksFinite, ConversationAssumption, Zenon DEF ConversationAssumption
  <2> QED
    BY <2>3, <2>6, <2>7, <2>8
<1> QED
  BY <1>1, InitInv, NextInv, ConversationAssumption, PTL DEF Spec, RunningBounded

-----------------------------------------------------------------------------
(* A message leaves the full history only when a turn that took its        *)
(* snapshot before the message was stored writes it back, for every number *)
(* of turns at once (simpleGeneratorAgent.ts:2791-2820).                   *)
THEOREM SnapshotOnlyLoses == Spec => LostToSnapshot
<1>1. ASSUME IInv, Next
      PROVE  \A m \in ToSet(full) \ ToSet(full') :
               \E t \in Turns : turns[t].pc # "off" /\ turns'[t].pc = "off"
                                /\ m \notin ToSet(turns[t].full)
  <2> SUFFICES ASSUME NEW m, m \in ToSet(full), m \notin ToSet(full')
               PROVE  \E t \in Turns : turns[t].pc # "off" /\ turns'[t].pc = "off"
                                       /\ m \notin ToSet(turns[t].full)
    OBVIOUS
  <2>1. full' # full
    OBVIOUS
  <2>2. PICK i \in 1..Len(full) : m = full[i]
    BY <1>1 DEF ToSet, IInv, TypeOK
  <2>3. ASSUME NEW t \in Turns, TurnAnswered(t) \/ TurnFails(t)
        PROVE  turns[t].pc # "off" /\ turns'[t].pc = "off" /\ m \notin ToSet(turns[t].full)
    <3>1. turns[t].number \in 0..MaxNumber /\ turns[t].full \in Seq(Message)
      BY <1>1 DEF IInv, TypeOK
    <3>2. PICK said \in {Answered(turns[t]), Aborted(turns[t])} :
            full' = turns[t].full \o said
      BY <2>1, <2>3 DEF TurnAnswered, TurnFails, Store, SetConversationState
    <3>3. said \in Seq(Message)
      BY <3>1, TurnSays
    <3>4. ToSet(turns[t].full) \subseteq ToSet(full')
      <4> DEFINE kept == turns[t].full
      <4>1. \A k \in DOMAIN kept : k \in DOMAIN full' /\ full'[k] = kept[k]
        <5> HIDE DEF kept
        <5> QED
          BY <3>1, <3>2, <3>3 DEF kept
      <4> QED
        BY <4>1 DEF ToSet
    <3>5. turns' = [turns EXCEPT ![t] = Idle]
      BY <2>3 DEF TurnAnswered, TurnFails
    <3>6. turns'[t].pc = "off"
      BY <1>1, <3>5 DEF IInv, TypeOK, Idle
    <3>7. turns[t].pc # "off"
      BY <2>3 DEF TurnAnswered, TurnFails
    <3> QED
      BY <3>4, <3>6, <3>7
  <2>4. CASE AskReview
    <3>1. full' = Append(FullHistory, Said(number + 1, "question"))
      BY <2>1, <2>4 DEF AskReview, AddConversationMessage, SetConversationState
    <3>2. FullHistory = full
      BY <2>2 DEF FullHistory
    <3>3. full \in Seq(Message)
      BY <1>1 DEF IInv, TypeOK
    <3>4. full'[i] = full[i] /\ i \in DOMAIN full'
      BY <2>2, <3>1, <3>2, <3>3
    <3> QED
      BY <2>2, <3>4 DEF ToSet
  <2> QED
    BY <1>1, <2>1, <2>3, <2>4
       DEF Next, StartTurn, Prepared, Summarized, TurnRefused, ClearConversation, Evict
<1> QED
  BY <1>1, InitInv, NextInv, ConversationAssumption, PTL DEF Spec, LostToSnapshot

-----------------------------------------------------------------------------
(* A running history after the start of the full one that was compacted:   *)
(* no message of a later number than n, in the order of their numbers, the *)
(* user's first in each turn, and no turn on both sides of the cut.        *)
Shift(s, w) == Len(w) - Len(s)
Summed(s) == s # << >> /\ s[1].part = "summary"
Cut(s, w) == IF Summed(s) THEN Shift(s, w) + 1 ELSE Shift(s, w)

Recent(s, w) ==
  \A i \in 1..Len(s) :
    \/ i = 1 /\ s[1].part = "summary"
    \/ i + Shift(s, w) \in 1..Len(w) /\ s[i] = w[i + Shift(s, w)]

Ordered(w, n) ==
  /\ \A i \in 1..Len(w) : w[i].number <= n /\ w[i].part # "summary"
  /\ \A i, j \in 1..Len(w) : i < j =>
       /\ w[i].number <= w[j].number
       /\ w[j].part = "user" => w[i].number = 0 \/ w[i].number < w[j].number

NotCut(s, w) ==
  \A i, j \in 1..Len(w) : i <= Cut(s, w) /\ Cut(s, w) < j =>
    w[i].number # w[j].number \/ w[i].number = 0

Agree(s, w, n) == Recent(s, w) /\ Ordered(w, n) /\ NotCut(s, w)

NewTurn(s, split) == split \in 1..Len(s) - 1 /\ s[split + 1].part = "user"

RowsAgree ==
  (compact = << >> <=> full = << >>) /\ Agree(RunningHistory, FullHistory, number)

(* A turn holds such a pair, all of it from earlier turns.                 *)
TurnAgrees(turn, n) ==
  turn.pc # "off" =>
    /\ turn.number \in 1..n
    /\ Agree(turn.running, turn.full, turn.number - 1)
    /\ turn.pc # "preparing" /\ turn.split > 0 => NewTurn(turn.running, turn.split)

Together == RowsAgree /\ \A t \in Turns : TurnAgrees(turns[t], number)

HInv == IInv /\ (refused \/ Together)

-----------------------------------------------------------------------------
(* The messages of one turn: the user's is the first.                      *)
Says(m, n) ==
  /\ m \in Seq(Message) /\ m # << >>
  /\ \A i \in 1..Len(m) : /\ m[i].number = n /\ m[i].part # "summary"
                          /\ m[i].part = "user" => i = 1

(* More messages of one turn, all of a later number, go behind both.       *)
LEMMA SaidToBoth ==
  ASSUME ConversationAssumption, NEW s \in Seq(Message), NEW w \in Seq(Message), NEW n \in Int,
         Agree(s, w, n), NEW k \in Int, n < k, NEW m, Says(m, k)
  PROVE  Agree(s \o m, w \o m, k) /\ s \o m # << >> /\ w \o m # << >>
<1> DEFINE ls == Len(s)
           lw == Len(w)
           lm == Len(m)
           ss == s \o m
           ww == w \o m
<1>0. /\ m \in Seq(Message) /\ m # << >>
      /\ \A i \in 1..Len(m) : /\ m[i].number = k /\ m[i].part # "summary"
                              /\ m[i].part = "user" => i = 1
  BY DEF Says
<1>1. ls \in Nat /\ lw \in Nat /\ lm \in Nat /\ lm > 0
  BY <1>0
<1>2. /\ Len(ss) = ls + lm /\ Len(ww) = lw + lm
      /\ \A i \in 1..ls : ss[i] = s[i]
      /\ \A i \in 1..lw : ww[i] = w[i]
      /\ \A i \in ls + 1..ls + lm : ss[i] = m[i - ls]
      /\ \A i \in lw + 1..lw + lm : ww[i] = m[i - lw]
  BY <1>0
<1>3. ss \in Seq(Message) /\ ww \in Seq(Message)
  BY <1>0
<1>4. \A i \in 1..lw : w[i].number \in Int /\ w[i].number <= n /\ w[i].part # "summary"
  <2>1. \A i \in 1..lw : w[i] \in Message
    OBVIOUS
  <2>2. \A x \in Message : x.number \in Int
    <3>1. MaxNumber \in Nat
      BY Zenon DEF ConversationAssumption
    <3> QED BY <3>1 DEF Message
  <2> QED BY <2>1, <2>2 DEF Agree, Ordered
<1>5. \A i \in lw + 1..lw + lm : ww[i].number = k /\ ww[i].part # "summary"
                                 /\ (ww[i].part = "user" => i = lw + 1)
  <2> SUFFICES ASSUME NEW i \in lw + 1..lw + lm
               PROVE  ww[i].number = k /\ ww[i].part # "summary" /\ (ww[i].part = "user" => i = lw + 1)
    OBVIOUS
  <2>1. i - lw \in 1..lm /\ ww[i] = m[i - lw]
    BY <1>1, <1>2
  <2>2. i - lw = 1 => i = lw + 1
    BY <1>1
  <2>3. PICK x \in 1..lm : x = i - lw
    BY <2>1
  <2>4. m[x].number = k /\ m[x].part # "summary" /\ (m[x].part = "user" => x = 1)
    BY <1>0, <2>3
  <2> QED BY <2>1, <2>2, <2>3, <2>4
<1>6. Shift(ss, ww) = Shift(s, w) /\ Shift(s, w) = lw - ls
  BY <1>1, <1>2 DEF Shift
<1>7. Summed(ss) <=> Summed(s)
  <2>1. CASE s = << >>
    <3>1. ls = 0 /\ 1 \in ls + 1..ls + lm /\ 1 - ls = 1 /\ 1 \in 1..lm
      BY <1>1, <2>1
    <3>2. ss[1] = m[1] /\ m[1].part # "summary"
      <4>1. m[1].part # "summary"
        BY <1>0, <3>1
      <4>2. ss[1] = m[1 - ls]
        BY <1>2, <3>1
      <4> QED BY <3>1, <4>1, <4>2
    <3> QED BY <2>1, <3>2 DEF Summed
  <2>2. CASE s # << >>
    <3>1. 1 \in 1..ls /\ ss # << >>
      BY <1>1, <2>2
    <3>2. ss[1] = s[1]
      BY <1>2, <3>1
    <3> QED BY <2>2, <3>1, <3>2 DEF Summed
  <2> QED BY <2>1, <2>2
<1>8. Cut(ss, ww) = Cut(s, w)
  BY <1>6, <1>7 DEF Cut
<1>9. Cut(s, w) \in Int /\ Cut(s, w) <= lw
  <2>1. Summed(s) => ls > 0
    BY <1>1 DEF Summed
  <2> QED BY <1>1, <1>6, <2>1 DEF Cut
<1> HIDE DEF ss, ww, ls, lw, lm
<1>10. Recent(ss, ww)
  <2> SUFFICES ASSUME NEW i \in 1..ls + lm
               PROVE  \/ i = 1 /\ ss[1].part = "summary"
                      \/ i + (lw - ls) \in 1..lw + lm /\ ss[i] = ww[i + (lw - ls)]
    BY <1>2, <1>6 DEF Recent
  <2>1. CASE i \in 1..ls
    <3>1. \/ i = 1 /\ s[1].part = "summary"
          \/ i + (lw - ls) \in 1..lw /\ s[i] = w[i + (lw - ls)]
      BY <1>6, <2>1 DEF Agree, Recent, ls, lw
    <3>2. ss[i] = s[i]
      BY <1>2, <2>1
    <3>3. CASE i = 1 /\ s[1].part = "summary"
      BY <3>2, <3>3
    <3>4. CASE i + (lw - ls) \in 1..lw /\ s[i] = w[i + (lw - ls)]
      BY <1>1, <1>2, <3>2, <3>4
    <3> QED BY <3>1, <3>3, <3>4
  <2>2. CASE i \in ls + 1..ls + lm
    <3>1. i + (lw - ls) \in lw + 1..lw + lm /\ i + (lw - ls) - lw = i - ls
          /\ i + (lw - ls) \in 1..lw + lm
      BY <1>1, <2>2
    <3>2. PICK q : q = i + (lw - ls)
      OBVIOUS
    <3>3. ww[q] = m[i - ls]
      <4>1. q \in lw + 1..lw + lm /\ q - lw = i - ls
        BY <1>1, <2>2, <3>2
      <4> HIDE <3>2
      <4>2. ww[q] = m[q - lw]
        BY <1>2, <4>1
      <4> QED BY <4>1, <4>2
    <3>4. ss[i] = m[i - ls]
      BY <1>2, <2>2
    <3> QED BY <3>1, <3>2, <3>3, <3>4
  <2> QED BY <1>1, <2>1, <2>2
<1>11. Ordered(ww, k)
  <2>1. \A i \in 1..lw + lm : ww[i].number <= k /\ ww[i].part # "summary"
    <3> SUFFICES ASSUME NEW i \in 1..lw + lm PROVE ww[i].number <= k /\ ww[i].part # "summary"
      OBVIOUS
    <3>1. CASE i \in 1..lw
      <4>1. ww[i].number \in Int /\ ww[i].number <= n /\ ww[i].part # "summary"
        BY <1>2, <1>4, <3>1
      <4> QED BY <4>1
    <3>2. CASE i \in lw + 1..lw + lm
      BY <1>5, <3>2
    <3> QED BY <1>1, <3>1, <3>2
  <2>2. ASSUME NEW i \in 1..lw + lm, NEW j \in 1..lw + lm, i < j
        PROVE  /\ ww[i].number <= ww[j].number
               /\ ww[j].part = "user" => ww[i].number = 0 \/ ww[i].number < ww[j].number
    <3>1. CASE j \in 1..lw
      <4>1. i \in 1..lw
        BY <1>1, <2>2, <3>1
      <4>2. ww[i] = w[i] /\ ww[j] = w[j]
        BY <1>2, <3>1, <4>1
      <4> QED BY <2>2, <3>1, <4>1, <4>2 DEF Agree, Ordered, lw
    <3>2. CASE j \in lw + 1..lw + lm /\ i \in 1..lw
      <4>1. ww[i].number \in Int /\ ww[i].number <= n /\ ww[j].number = k
        BY <1>2, <1>4, <1>5, <3>2
      <4> QED BY <4>1
    <3>3. CASE j \in lw + 1..lw + lm /\ i \in lw + 1..lw + lm
      <4>1. ww[i].number = k /\ ww[j].number = k
        BY <1>5, <3>3
      <4>2. j # lw + 1
        BY <1>1, <2>2, <3>3
      <4> QED BY <1>5, <3>3, <4>1, <4>2
    <3> QED BY <1>1, <3>1, <3>2, <3>3
  <2> QED BY <1>2, <2>1, <2>2 DEF Ordered
<1>12. NotCut(ss, ww)
  <2> SUFFICES ASSUME NEW i \in 1..lw + lm, NEW j \in 1..lw + lm, i <= Cut(s, w), Cut(s, w) < j
               PROVE  ww[i].number # ww[j].number \/ ww[i].number = 0
    BY <1>2, <1>8 DEF NotCut
  <2>1. i \in 1..lw
    BY <1>1, <1>9
  <2>2. CASE j \in 1..lw
    <3>1. ww[i] = w[i] /\ ww[j] = w[j]
      BY <1>2, <2>1, <2>2
    <3> QED BY <2>1, <2>2, <3>1 DEF Agree, NotCut, lw
  <2>3. CASE j \in lw + 1..lw + lm
    <3>1. ww[i].number \in Int /\ ww[i].number <= n /\ ww[j].number = k
      BY <1>2, <1>4, <1>5, <2>1, <2>3
    <3> QED BY <3>1
  <2> QED BY <1>1, <2>2, <2>3
<1>13. ss # << >> /\ ww # << >>
  BY <1>1, <1>2, <1>3
<1> QED BY <1>10, <1>11, <1>12, <1>13 DEF Agree, ss, ww

(* A compaction at the start of a turn.                                    *)
LEMMA CompactedAgrees ==
  ASSUME ConversationAssumption, NEW s \in Seq(Message), NEW w \in Seq(Message), NEW n \in Int,
         Agree(s, w, n), NEW split \in Nat, NewTurn(s, split), NEW first \in Message,
         first.part = "summary"
  PROVE  Agree(<<first>> \o SubSeq(s, split + 1, Len(s)), w, n)
<1> DEFINE ls == Len(s)
           lw == Len(w)
           rest == SubSeq(s, split + 1, ls)
           c == <<first>> \o rest
<1>1. ls \in Nat /\ lw \in Nat /\ split \in 1..ls - 1
  BY DEF NewTurn
<1>0. s[split + 1].part = "user"
  BY DEF NewTurn
<1>2. /\ rest \in Seq(Message) /\ Len(rest) = ls - split
      /\ \A i \in 1..ls - split : rest[i] = s[split + i]
  <2> DEFINE a == split + 1
  <2>1. a \in Int /\ a <= ls /\ ls - a + 1 = ls - split
    <3> HIDE DEF ls
    <3> QED BY <1>1
  <2>2. \A i \in a..ls : s[i] \in Message
    BY <1>1
  <2>3. \A i : i \in 1..ls - split => a + i - 1 = split + i
    <3> HIDE DEF ls
    <3> QED BY <1>1
  <2> HIDE DEF a, ls
  <2>4. /\ SubSeq(s, a, ls) \in Seq(Message) /\ Len(SubSeq(s, a, ls)) = ls - a + 1
        /\ \A i \in 1..ls - a + 1 : SubSeq(s, a, ls)[i] = s[a + i - 1]
    BY <1>1, <2>1, <2>2, SubSeqProperties
  <2> QED BY <2>1, <2>3, <2>4 DEF a
<1>3. /\ c \in Seq(Message) /\ Len(c) = ls - split + 1 /\ c[1] = first
      /\ \A i \in 2..ls - split + 1 : c[i] = rest[i - 1]
  <2> HIDE DEF rest, ls
  <2> QED BY <1>2, Prefixed
<1>4. \A i \in 2..ls - split + 1 : c[i] = s[split + i - 1]
  <2> HIDE DEF c, rest, ls
  <2> SUFFICES ASSUME NEW i \in 2..ls - split + 1 PROVE c[i] = s[split + i - 1]
    OBVIOUS
  <2>1. i - 1 \in 1..ls - split /\ split + (i - 1) = split + i - 1
    BY <1>1
  <2> QED BY <1>2, <1>3, <2>1
<1> DEFINE d == lw - ls
<1>5. d \in Int /\ Shift(s, w) = d /\ Shift(c, w) = d + split - 1
  <2>1. Shift(s, w) = lw - ls /\ Shift(c, w) = lw - (ls - split + 1)
    BY <1>3 DEF Shift
  <2> HIDE DEF c, ls, lw
  <2> QED BY <1>1, <2>1
<1>6. Summed(c)
  <2>1. Len(c) > 0
    <3> HIDE DEF c, ls
    <3> QED BY <1>1, <1>3
  <2>2. c # << >>
    <3> HIDE DEF c
    <3> QED BY <2>1
  <2> HIDE DEF c
  <2> QED BY <1>3, <2>2 DEF Summed
<1> HIDE DEF c, rest, d
<1>7. \A i \in 2..ls : i + d \in 1..lw /\ s[i] = w[i + d]
  BY <1>1, <1>5 DEF Agree, Recent
<1> HIDE DEF ls, lw
<1>8. Cut(c, w) = d + split
  BY <1>1, <1>5, <1>6 DEF Cut
<1>9. Recent(c, w)
  <2> SUFFICES ASSUME NEW i \in 1..ls - split + 1, i # 1
               PROVE  i + (d + split - 1) \in 1..lw /\ c[i] = w[i + (d + split - 1)]
    BY <1>3, <1>5 DEF Recent, lw
  <2>1. split + i - 1 \in 2..ls /\ (split + i - 1) + d = i + (d + split - 1) /\ i \in 2..ls - split + 1
    <3>1. i \in Int /\ d \in Int /\ ls \in Int /\ split \in Int
      BY <1>1, <1>5
    <3>2. 2 <= i /\ i <= ls - split + 1 /\ 1 <= split
      BY <1>1, <3>1
    <3> QED BY <3>1, <3>2
  <2> QED BY <1>4, <1>7, <2>1
<1>10. NotCut(c, w)
  <2> DEFINE p == split + 1 + d
  <2>1. split + 1 \in 2..ls
    BY <1>1
  <2>2. p \in 1..lw /\ w[p].part = "user"
    BY <1>0, <1>1, <1>7, <2>1
  <2>3. \A i \in 1..lw : w[i].number \in Int
    <3>1. MaxNumber \in Nat
      BY Zenon DEF ConversationAssumption
    <3>2. \A x \in Message : x.number \in Int
      BY <3>1 DEF Message
    <3>3. \A i \in 1..lw : w[i] \in Message
      BY DEF lw
    <3> QED BY <3>2, <3>3
  <2> HIDE DEF p
  <2> SUFFICES ASSUME NEW i \in 1..lw, NEW j \in 1..lw, i <= d + split, d + split < j
               PROVE  w[i].number # w[j].number \/ w[i].number = 0
    BY <1>8 DEF NotCut, lw
  <2>4. i < p /\ (p = j \/ p < j)
    <3>1. i \in Int /\ j \in Int /\ d \in Int /\ split \in Int
      BY <1>1, <1>5
    <3> QED BY <3>1 DEF p
  <2>5. w[i].number = 0 \/ w[i].number < w[p].number
    BY <2>2, <2>4 DEF Agree, Ordered, lw
  <2>6. w[p].number <= w[j].number
    <3>1. CASE p = j
      BY <2>2, <2>3, <3>1
    <3>2. CASE p < j
      BY <2>2, <3>2 DEF Agree, Ordered, lw
    <3> QED BY <2>4, <3>1, <3>2
  <2>7. w[i].number \in Int /\ w[j].number \in Int /\ w[p].number \in Int
    BY <2>2, <2>3
  <2>8. PICK a \in Int : a = w[i].number
    BY <2>7
  <2>9. PICK b \in Int : b = w[j].number
    BY <2>7
  <2>10. PICK u \in Int : u = w[p].number
    BY <2>7
  <2>11. (a = 0 \/ a < u) /\ u <= b
    BY <2>5, <2>6, <2>8, <2>9, <2>10
  <2>12. a # b \/ a = 0
    BY <2>11
  <2> QED BY <2>8, <2>9, <2>12
<1> QED BY <1>9, <1>10 DEF Agree, c, rest, ls

LEMMA NumberInt ==
  ASSUME ConversationAssumption, NEW s \in Seq(Message)
  PROVE  \A i \in 1..Len(s) : s[i] \in Message /\ s[i].number \in Int
<1>1. MaxNumber \in Nat
  BY Zenon DEF ConversationAssumption
<1>2. \A x \in Message : x.number \in Int
  BY <1>1 DEF Message
<1>3. \A i \in 1..Len(s) : s[i] \in Message
  OBVIOUS
<1> QED BY <1>2, <1>3

LEMMA LaterAgrees ==
  ASSUME ConversationAssumption, NEW s \in Seq(Message), NEW w \in Seq(Message),
         NEW n \in Int, Agree(s, w, n), NEW k \in Int, n <= k
  PROVE  Agree(s, w, k)
<1>1. \A i \in 1..Len(w) : w[i].number \in Int /\ w[i].number <= n
  BY NumberInt DEF Agree, Ordered
<1>2. \A i \in 1..Len(w) : w[i].number <= k
  <2> SUFFICES ASSUME NEW i \in 1..Len(w) PROVE w[i].number <= k
    OBVIOUS
  <2>1. w[i].number \in Int /\ w[i].number <= n
    BY <1>1
  <2> QED BY <2>1
<1> QED BY <1>2 DEF Agree, Ordered

(* What is left of a summary is the end of the full history.               *)
LEMMA EndOfFull ==
  ASSUME NEW s \in Seq(Message), NEW w \in Seq(Message), Recent(s, w)
  PROVE  LET r == WithoutSummary(s)
         IN /\ r \in Seq(Message) /\ Len(r) <= Len(w) /\ Len(w) - Len(r) = Cut(s, w)
            /\ \A i \in 1..Len(r) : r[i] = w[Len(w) - Len(r) + i]
<1> DEFINE ls == Len(s)
           lw == Len(w)
           r == WithoutSummary(s)
<1>1. ls \in Nat /\ lw \in Nat /\ Shift(s, w) = lw - ls
  BY DEF Shift
<1>2. \A i \in 1..ls : \/ i = 1 /\ s[1].part = "summary"
                       \/ i + (lw - ls) \in 1..lw /\ s[i] = w[i + (lw - ls)]
  BY <1>1 DEF Recent
<1>3. CASE Summed(s)
  <2>1. r = Tail(s) /\ s # << >> /\ Cut(s, w) = lw - ls + 1
    BY <1>1, <1>3, Zenon DEF Summed, WithoutSummary, Cut
  <2>2. /\ ls > 0 /\ r \in Seq(Message) /\ Len(r) = ls - 1
        /\ \A i \in 1..ls - 1 : r[i] = s[i + 1]
    BY <2>1
  <2> HIDE DEF ls, lw, r
  <2>3. \A i \in 1..ls - 1 : r[i] = w[lw - (ls - 1) + i]
    <3> SUFFICES ASSUME NEW i \in 1..ls - 1 PROVE r[i] = w[lw - (ls - 1) + i]
      OBVIOUS
    <3>1. i + 1 \in 1..ls /\ i + 1 # 1 /\ (i + 1) + (lw - ls) = lw - (ls - 1) + i
      BY <1>1
    <3>2. s[i + 1] = w[(i + 1) + (lw - ls)]
      BY <1>2, <3>1
    <3> QED BY <2>2, <3>1, <3>2
  <2>4. ls - 1 <= lw
    <3>1. CASE ls = 1
      BY <1>1, <3>1
    <3>2. CASE ls > 1
      <4>1. 2 \in 1..ls
        BY <1>1, <3>2
      <4>2. 2 + (lw - ls) \in 1..lw
        BY <1>2, <4>1
      <4> QED BY <1>1, <4>2
    <3> QED BY <1>1, <2>2, <3>1, <3>2
  <2>5. lw - (ls - 1) = lw - ls + 1
    BY <1>1
  <2> QED BY <2>1, <2>2, <2>3, <2>4, <2>5 DEF r, lw
<1>4. CASE ~Summed(s)
  <2>1. r = s /\ Cut(s, w) = lw - ls
    BY <1>1, <1>4, Zenon DEF Summed, WithoutSummary, Cut
  <2>2. s # << >> => s[1].part # "summary"
    BY <1>4 DEF Summed
  <2>3. ls # 0 => s # << >>
    OBVIOUS
  <2> HIDE DEF ls, lw, r
  <2>4. \A i \in 1..ls : i + (lw - ls) \in 1..lw /\ s[i] = w[i + (lw - ls)]
    <3>1. \A i \in 1..ls : ls # 0
      BY <1>1
    <3> QED BY <1>2, <2>2, <2>3, <3>1
  <2>5. \A i \in 1..ls : s[i] = w[lw - ls + i]
    <3> SUFFICES ASSUME NEW i \in 1..ls PROVE s[i] = w[lw - ls + i]
      OBVIOUS
    <3>1. i + (lw - ls) = lw - ls + i
      BY <1>1
    <3> QED BY <2>4, <3>1
  <2>6. ls <= lw
    <3>1. CASE ls = 0
      BY <1>1, <3>1
    <3>2. CASE ls > 0
      <4>1. 1 \in 1..ls
        BY <1>1, <3>2
      <4>2. 1 + (lw - ls) \in 1..lw
        BY <2>4, <4>1
      <4> QED BY <1>1, <4>2
    <3> QED BY <1>1, <3>1, <3>2
  <2> QED BY <2>1, <2>5, <2>6 DEF r, ls, lw
<1> QED BY <1>3, <1>4

LEMMA SuffixIs ==
  ASSUME NEW r \in Seq(Message), NEW w \in Seq(Message), Len(r) <= Len(w),
         \A i \in 1..Len(r) : r[i] = w[Len(w) - Len(r) + i]
  PROVE  IsSuffix(r, w)
<1> DEFINE lr == Len(r)
           lw == Len(w)
           br == [i \in 1..lr |-> r[(lr - i) + 1]]
           bw == [i \in 1..lw |-> w[(lw - i) + 1]]
<1>1. lr \in Nat /\ lw \in Nat
  OBVIOUS
<1>2. Reverse(r) = br /\ Reverse(w) = bw
  BY DEF Reverse
<1>3. \A i \in 1..lr : (lr - i) + 1 \in 1..lr
  BY <1>1
<1>4. \A i \in 1..lw : (lw - i) + 1 \in 1..lw
  BY <1>1
<1>5. \A k \in 1..lr : r[k] \in Message
  OBVIOUS
<1>6. \A k \in 1..lw : w[k] \in Message
  OBVIOUS
<1> HIDE DEF lr, lw
<1>7. br \in Seq(Message) /\ Len(br) = lr /\ bw \in Seq(Message) /\ Len(bw) = lw
  <2>1. br \in [1..lr -> Message] /\ bw \in [1..lw -> Message]
    BY <1>3, <1>4, <1>5, <1>6
  <2> HIDE DEF br, bw
  <2> QED BY <1>1, <2>1
<1>8. \A i \in 1..lr : br[i] = bw[i]
  <2> SUFFICES ASSUME NEW i \in 1..lr PROVE br[i] = bw[i]
    OBVIOUS
  <2>1. i \in 1..lw /\ (lr - i) + 1 \in 1..lr
    BY <1>1, <1>3 DEF lr, lw
  <2>2. lw - lr + ((lr - i) + 1) = (lw - i) + 1
    BY <1>1
  <2>3. r[(lr - i) + 1] = w[lw - lr + ((lr - i) + 1)]
    BY <2>1 DEF lr, lw
  <2> QED BY <2>1, <2>2, <2>3
<1>9. lr <= lw
  BY DEF lr, lw
<1> HIDE DEF br, bw
<1>10. SubSeq(br, 1, lr) = SubSeq(bw, 1, lr)
  <2> DEFINE a == SubSeq(br, 1, lr)
             b == SubSeq(bw, 1, lr)
  <2>1. /\ a \in Seq(Message) /\ Len(a) = lr /\ \A i \in 1..lr : a[i] = br[i]
        /\ b \in Seq(Message) /\ Len(b) = lr /\ \A i \in 1..lr : b[i] = bw[i]
    BY <1>1, <1>7, <1>9
  <2> HIDE DEF a, b
  <2>2. \A i \in 1..Len(a) : a[i] = b[i]
    BY <1>8, <2>1
  <2>3. a = b
    BY <2>1, <2>2, SeqEqual
  <2> QED BY <2>3 DEF a, b
<1>11. IsPrefix(br, bw)
  BY <1>7, <1>9, <1>10 DEF IsPrefix
<1> QED BY <1>2, <1>11 DEF IsSuffix

LEMMA TogetherAgrees ==
  ASSUME HInv
  PROVE  HistoriesAgree
<1> SUFFICES ASSUME ~refused
             PROVE  /\ IsSuffix(WithoutSummary(RunningHistory), FullHistory)
                    /\ LET cut == Len(FullHistory) - Len(WithoutSummary(RunningHistory))
                       IN \A i \in 1..cut, j \in cut + 1..Len(FullHistory) :
                            \/ FullHistory[i].number # FullHistory[j].number
                            \/ FullHistory[i].number = 0
  BY DEF HistoriesAgree, RunningIsRecent, TurnsWhole
<1>1. PICK s \in Seq(Message) : s = RunningHistory
  BY DEF HInv, IInv, TypeOK, RunningHistory
<1>2. PICK w \in Seq(Message) : w = FullHistory
  BY DEF HInv, IInv, TypeOK, FullHistory
<1>3. Recent(s, w) /\ NotCut(s, w)
  BY <1>1, <1>2 DEF HInv, Together, RowsAgree, Agree
<1>4. PICK r : r = WithoutSummary(s)
  OBVIOUS
<1>5. /\ r \in Seq(Message) /\ Len(r) <= Len(w) /\ Len(w) - Len(r) = Cut(s, w)
      /\ \A i \in 1..Len(r) : r[i] = w[Len(w) - Len(r) + i]
  BY <1>3, <1>4, EndOfFull
<1>6. IsSuffix(r, w)
  BY <1>5, SuffixIs
<1>7. PICK cut : cut = Len(w) - Len(r)
  OBVIOUS
<1>8. \A i \in 1..cut, j \in cut + 1..Len(w) : w[i].number # w[j].number \/ w[i].number = 0
  <2> SUFFICES ASSUME NEW i \in 1..cut, NEW j \in cut + 1..Len(w)
               PROVE  w[i].number # w[j].number \/ w[i].number = 0
    OBVIOUS
  <2>1. Len(r) \in Nat /\ Len(w) \in Nat
    BY <1>5
  <2>2. i \in 1..Len(w) /\ j \in 1..Len(w) /\ i <= cut /\ cut < j
    BY <1>5, <1>7, <2>1
  <2> QED BY <1>3, <1>5, <1>7, <2>2 DEF NotCut
<1> QED BY <1>1, <1>2, <1>4, <1>6, <1>7, <1>8

(* findTurnBoundary splits where the user speaks.                          *)
LEMMA SplitAtTurn ==
  ASSUME ConversationAssumption, NEW s \in Seq(Message), TurnBoundary(s) > 0
  PROVE  NewTurn(s, TurnBoundary(s))
<1> DEFINE n == Len(s)
           before == {i \in 1..n : s[i].part = "user" /\ i - 1 <= n - Preserve}
           i == CHOOSE j \in before : \A k \in before : k <= j
<1>1. n \in Nat /\ Preserve \in Nat /\ 0 < Preserve
  <2>1. n \in Nat
    OBVIOUS
  <2> QED BY <2>1, Zenon DEF ConversationAssumption
<1>2. TurnBoundary(s) = IF n <= Preserve \/ before = {} THEN 0 ELSE i - 1
  BY Zenon DEF TurnBoundary
<1>3. n > Preserve /\ before # {} /\ TurnBoundary(s) = i - 1
  <2> HIDE DEF before, i, n
  <2> QED BY <1>1, <1>2
<1>4. \E j \in before : \A k \in before : k <= j
  <2>1. before \subseteq 1..n
    OBVIOUS
  <2> HIDE DEF before
  <2> QED BY <1>1, <1>3, <2>1, Greatest
<1>5. i \in before
  BY <1>4
<1> HIDE DEF i
<1>6. i \in 1..n /\ i - 1 <= n - Preserve /\ s[i].part = "user"
  BY <1>5
<1> HIDE DEF before, n
<1>7. i - 1 \in 1..n - 1 /\ (i - 1) + 1 = i
  BY <1>1, <1>3, <1>6
<1> QED BY <1>3, <1>6, <1>7 DEF NewTurn, n

LEMMA StorageAgrees ==
  ASSUME ConversationAssumption, TypeOK, NEW t \in Turns, turns[t].pc = "inference",
         TurnAgrees(turns[t], number)
  PROVE  /\ StorageRunning(turns[t]) \in Seq(Message)
         /\ Agree(StorageRunning(turns[t]), turns[t].full, turns[t].number - 1)
<1> DEFINE turn == turns[t]
<1>1. /\ turn.running \in Seq(Message) /\ turn.full \in Seq(Message) /\ turn.split \in Nat
      /\ turn.number \in 0..MaxNumber /\ turn.number \in 1..number /\ number \in 0..MaxNumber
      /\ Agree(turn.running, turn.full, turn.number - 1)
      /\ turn.split > 0 => NewTurn(turn.running, turn.split)
  BY DEF TypeOK, TurnAgrees
<1>2. turn.number - 1 \in Int
  <2>1. MaxNumber \in Nat
    BY Zenon DEF ConversationAssumption
  <2> QED BY <1>1, <2>1
<1>3. Said(turn.number, "summary") \in Message /\ Said(turn.number, "summary").part = "summary"
  BY <1>1, SaidType DEF Parts, Said
<1>4. StorageRunning(turn) = turn.running \/
      /\ turn.split # 0
      /\ StorageRunning(turn) = <<Said(turn.number, "summary")>>
                                  \o SubSeq(turn.running, turn.split + 1, Len(turn.running))
  BY Zenon DEF StorageRunning, CompactHistory
<1>5. StorageRunning(turn) \in Seq(Message)
  BY StorageType
<1> HIDE DEF turn
<1>6. CASE StorageRunning(turn) = turn.running
  BY <1>1, <1>5, <1>6 DEF turn
<1>7. CASE /\ turn.split # 0
           /\ StorageRunning(turn) = <<Said(turn.number, "summary")>>
                                       \o SubSeq(turn.running, turn.split + 1, Len(turn.running))
  <2>1. turn.split > 0
    BY <1>1, <1>7
  <2>2. Agree(StorageRunning(turn), turn.full, turn.number - 1)
    BY <1>1, <1>2, <1>3, <1>7, <2>1, CompactedAgrees
  <2> QED BY <1>5, <2>2 DEF turn
<1> QED BY <1>4, <1>6, <1>7

(* What a turn says is of its number and has no summary.                   *)
LEMMA TurnSaysItsNumber ==
  ASSUME NEW turn, turn.number \in 0..MaxNumber, NEW said \in {Answered(turn), Aborted(turn)}
  PROVE  Says(said, turn.number)
<1> DEFINE S(kind) == Said(turn.number, kind)
<1>1. /\ S("user") \in Message /\ S("call") \in Message /\ S("result") \in Message
      /\ S("answer") \in Message
  BY SaidType DEF Parts
<1>2. /\ S("call").part = "call" /\ S("result").part = "result" /\ S("answer").part = "answer"
      /\ S("user").part = "user"
      /\ S("call").number = turn.number /\ S("result").number = turn.number
      /\ S("answer").number = turn.number /\ S("user").number = turn.number
  BY DEF Said
<1> HIDE DEF S
<1>3. CASE said = Answered(turn)
  <2>1. said = <<S("user"), S("answer")>>
    BY <1>3 DEF Answered, S
  <2> QED
    BY <1>1, <1>2, <2>1 DEF Says
<1>4. CASE said = Aborted(turn)
  <2>1. said = <<S("user"), S("call"), S("result"), S("answer")>>
    BY <1>4 DEF Aborted, S
  <2> QED
    BY <1>1, <1>2, <2>1 DEF Says
<1> QED
  BY <1>3, <1>4

LEMMA RowsStored ==
  ASSUME NEW s \in Seq(Message), NEW w \in Seq(Message), s # << >>, w # << >>,
         Agree(s, w, number'), SetConversationState(s, w), ~refused'
  PROVE  RowsAgree'
<1>1. Fits(s) /\ Fits(w)
  BY Zenon DEF SetConversationState
<1>2. compact' = s /\ full' = w
  BY <1>1, Zenon DEF SetConversationState
<1>3. RunningHistory' = s /\ FullHistory' = w
  BY <1>2, Zenon DEF RunningHistory, FullHistory
<1> QED BY <1>2, <1>3 DEF RowsAgree

LEMMA RefusedStays ==
  ASSUME [Next]_vars, ~refused' PROVE ~refused
BY Zenon DEF Next, vars, StartTurn, Prepared, Summarized, TurnAnswered, TurnFails, TurnRefused,
       AskReview, ClearConversation, Evict, Store, AddConversationMessage, SetConversationState

LEMMA NumbersInt ==
  ASSUME ConversationAssumption, TypeOK
  PROVE  number \in Nat /\ \A t \in Turns : turns[t].number \in Nat
<1>1. MaxNumber \in Nat
  BY Zenon DEF ConversationAssumption
<1> QED BY <1>1 DEF TypeOK

LEMMA TogetherInit ==
  ASSUME ConversationAssumption, Init
  PROVE  HInv
<1>1. IInv
  BY InitInv
<1>2. legacy \in Seq(Message) /\ number = 0 /\ compact = << >> /\ full = << >>
  BY <1>1 DEF Init, IInv, TypeOK
<1>3. RunningHistory = legacy /\ FullHistory = legacy
  BY <1>2, Zenon DEF RunningHistory, FullHistory
<1>4. Legacy \in Nat
  BY Zenon DEF ConversationAssumption
<1>5. \A i \in 1..Len(legacy) : legacy[i].number = 0 /\ legacy[i].part # "summary"
  <2> DEFINE said(i) == Said(0, IF i % 2 = 1 THEN "user" ELSE "answer")
  <2>1. \A i \in 1..Legacy : said(i).number = 0 /\ said(i).part # "summary"
    <3>1. \A i \in 1..Legacy : said(i) = Said(0, "user") \/ said(i) = Said(0, "answer")
      BY Zenon
    <3>2. /\ Said(0, "user").number = 0 /\ Said(0, "user").part # "summary"
          /\ Said(0, "answer").number = 0 /\ Said(0, "answer").part # "summary"
      BY DEF Said
    <3> HIDE DEF said
    <3> QED BY <3>1, <3>2
  <2>2. legacy = << >> \/ legacy = [i \in 1..Legacy |-> said(i)]
    BY DEF Init
  <2>3. CASE legacy = << >>
    BY <2>3
  <2>4. CASE legacy = [i \in 1..Legacy |-> said(i)]
    <3> HIDE DEF said
    <3>1. Len(legacy) = Legacy
      BY <1>2, <1>4, <2>4
    <3> QED BY <2>1, <2>4, <3>1
  <2> QED BY <2>2, <2>3, <2>4
<1> DEFINE n == Len(legacy)
<1>6. n \in Nat /\ Shift(legacy, legacy) = 0
  BY <1>2 DEF Shift
<1>7. ~Summed(legacy)
  <2>1. legacy # << >> => 1 \in 1..Len(legacy)
    BY <1>2
  <2> QED BY <1>5, <2>1 DEF Summed
<1>8. Recent(legacy, legacy)
  <2>1. \A i \in 1..n : i + 0 \in 1..n /\ i + 0 = i
    BY <1>6
  <2> QED BY <1>6, <2>1 DEF Recent
<1>9. Ordered(legacy, 0)
  BY <1>5 DEF Ordered
<1>10. NotCut(legacy, legacy)
  BY <1>5 DEF NotCut
<1>11. RowsAgree
  BY <1>2, <1>3, <1>8, <1>9, <1>10 DEF RowsAgree, Agree
<1>12. \A t \in Turns : TurnAgrees(turns[t], number)
  BY DEF Init, Idle, TurnAgrees
<1> QED BY <1>1, <1>11, <1>12 DEF HInv, Together

LEMMA TogetherKept ==
  ASSUME ConversationAssumption, IInv, Together, Next, ~refused', IInv'
  PROVE  Together'
<1>0. number \in Nat /\ number' \in Nat /\ \A t \in Turns : turns[t].number \in Nat
  <2>1. MaxNumber \in Nat
    BY Zenon DEF ConversationAssumption
  <2>2. number' \in 0..MaxNumber
    BY DEF IInv, TypeOK
  <2> QED BY <2>1, <2>2, NumbersInt DEF IInv
<1>1. ASSUME NEW turn, TurnAgrees(turn, number), number <= number' PROVE TurnAgrees(turn, number')
  <2>1. turn.number \in 1..number => turn.number \in 1..number'
    BY <1>0, <1>1
  <2> QED BY <1>1, <2>1 DEF TurnAgrees
<1>2. TurnAgrees(Idle, number')
  BY DEF TurnAgrees, Idle
<1>3. /\ RunningHistory \in Seq(Message) /\ FullHistory \in Seq(Message)
      /\ Agree(RunningHistory, FullHistory, number)
  BY DEF IInv, TypeOK, RunningHistory, FullHistory, Together, RowsAgree
<1>4. \A t \in Turns : TurnAgrees(turns[t], number)
  BY DEF Together
<1>5. ASSUME NEW t \in Turns, NEW turn, turns' = [turns EXCEPT ![t] = turn],
             TurnAgrees(turn, number'), number <= number'
      PROVE  \A u \in Turns : TurnAgrees(turns'[u], number')
  <2>1. \A u \in Turns : turns'[u] = IF u = t THEN turn ELSE turns[u]
    BY <1>5 DEF IInv, TypeOK
  <2> QED BY <1>1, <1>4, <1>5, <2>1
<1>6. ASSUME UNCHANGED <<compact, full, legacy, number>> PROVE RowsAgree'
  BY <1>6 DEF Together, RowsAgree, RunningHistory, FullHistory
<1>7. ASSUME NEW t \in Turns, StartTurn(t) PROVE Together'
  <2> DEFINE turn == [pc |-> "preparing", number |-> number + 1, running |-> RunningHistory,
                      full |-> FullHistory, split |-> 0]
  <2>1. /\ turns' = [turns EXCEPT ![t] = turn] /\ number' = number + 1
        /\ UNCHANGED <<compact, full, legacy>>
    BY <1>7 DEF StartTurn
  <2>2. /\ turn.pc = "preparing" /\ turn.number = number + 1 /\ turn.running = RunningHistory
        /\ turn.full = FullHistory
    OBVIOUS
  <2> HIDE DEF turn
  <2>3. (number + 1) - 1 = number /\ number + 1 \in 1..number'
    BY <1>0, <2>1
  <2>4. TurnAgrees(turn, number')
    BY <1>3, <2>2, <2>3 DEF TurnAgrees
  <2>5. number <= number'
    BY <1>0, <2>1
  <2>6. \A u \in Turns : TurnAgrees(turns'[u], number')
    BY <1>5, <2>1, <2>4, <2>5
  <2>7. Agree(RunningHistory, FullHistory, number')
    BY <1>0, <1>3, <2>5, LaterAgrees
  <2>8. RunningHistory' = RunningHistory /\ FullHistory' = FullHistory
    BY <2>1 DEF RunningHistory, FullHistory
  <2>9. RowsAgree'
    BY <2>1, <2>7, <2>8 DEF Together, RowsAgree
  <2> QED BY <2>6, <2>9 DEF Together
<1>8. ASSUME NEW t \in Turns, Prepared(t) PROVE Together'
  <2>1. PICK tokens \in BOOLEAN :
          LET split == IF Users(turns[t].running) >= MaxTurns \/ tokens
                         THEN TurnBoundary(turns[t].running) ELSE 0
          IN turns' = [turns EXCEPT ![t].split = split,
                                    ![t].pc = IF split > 0 THEN "summary" ELSE "inference"]
    BY <1>8 DEF Prepared
  <2> DEFINE s == turns[t].running
             split == IF Users(s) >= MaxTurns \/ tokens THEN TurnBoundary(s) ELSE 0
             turn == [turns[t] EXCEPT !.split = split,
                                      !.pc = IF split > 0 THEN "summary" ELSE "inference"]
  <2>2. turns' = [turns EXCEPT ![t] = turn]
    BY <2>1 DEF IInv, TypeOK
  <2>3. s \in Seq(Message)
    BY DEF IInv, TypeOK
  <2>4. UNCHANGED <<compact, full, legacy, number>> /\ turns[t].pc = "preparing"
    BY <1>8 DEF Prepared
  <2>5. split > 0 => NewTurn(s, split)
    BY <2>3, SplitAtTurn
  <2>6. /\ turn.number = turns[t].number /\ turn.running = s /\ turn.full = turns[t].full
        /\ turn.split = split
    <3> HIDE DEF split
    <3> QED BY DEF IInv, TypeOK
  <2> HIDE DEF turn, split
  <2>7. TurnAgrees(turn, number')
    <3>1. turns[t].number \in 1..number /\ Agree(s, turns[t].full, turns[t].number - 1)
      BY <1>4, <2>4 DEF TurnAgrees
    <3> QED BY <2>4, <2>5, <2>6, <3>1 DEF TurnAgrees
  <2> QED BY <1>0, <1>5, <1>6, <2>2, <2>4, <2>7 DEF Together
<1>9. ASSUME NEW t \in Turns, Summarized(t) PROVE Together'
  <2> DEFINE turn == [turns[t] EXCEPT !.pc = "inference"]
  <2>1. turns' = [turns EXCEPT ![t] = turn] /\ turns[t].pc = "summary"
        /\ UNCHANGED <<compact, full, legacy, number>>
    BY <1>9 DEF Summarized
  <2>2. /\ turn.number = turns[t].number /\ turn.running = turns[t].running
        /\ turn.full = turns[t].full /\ turn.split = turns[t].split
    BY DEF IInv, TypeOK
  <2> HIDE DEF turn
  <2>3. TurnAgrees(turn, number')
    <3>1. /\ turns[t].number \in 1..number
          /\ Agree(turns[t].running, turns[t].full, turns[t].number - 1)
          /\ turns[t].split > 0 => NewTurn(turns[t].running, turns[t].split)
      BY <1>4, <2>1 DEF TurnAgrees
    <3> QED BY <2>1, <2>2, <3>1 DEF TurnAgrees
  <2> QED BY <1>0, <1>5, <1>6, <2>1, <2>3 DEF Together
<1>10. ASSUME NEW t \in Turns, TurnAnswered(t) \/ TurnFails(t) PROVE Together'
  <2>1. turns' = [turns EXCEPT ![t] = Idle] /\ number' = number /\ turns[t].pc # "off"
    BY <1>10 DEF TurnAnswered, TurnFails
  <2>2. /\ turns[t].running \in Seq(Message) /\ turns[t].full \in Seq(Message)
        /\ turns[t].number \in 0..MaxNumber /\ turns[t].number \in 1..number
        /\ Agree(turns[t].running, turns[t].full, turns[t].number - 1)
    BY <1>4, <2>1 DEF IInv, TypeOK, TurnAgrees
  <2>3. PICK kept \in Seq(Message), said \in {Answered(turns[t]), Aborted(turns[t])} :
          /\ SetConversationState(kept \o said, turns[t].full \o said)
          /\ Agree(kept, turns[t].full, turns[t].number - 1)
    <3>1. CASE TurnAnswered(t)
      <4>1. turns[t].pc = "inference"
        BY <3>1 DEF TurnAnswered
      <4>2. /\ StorageRunning(turns[t]) \in Seq(Message)
            /\ Agree(StorageRunning(turns[t]), turns[t].full, turns[t].number - 1)
        BY <1>4, <4>1, StorageAgrees DEF IInv
      <4> QED BY <3>1, <4>2 DEF TurnAnswered, Store
    <3>2. CASE TurnFails(t)
      BY <2>2, <3>2 DEF TurnFails
    <3> QED BY <1>10, <3>1, <3>2
  <2>4. Says(said, turns[t].number)
    BY <2>2, TurnSaysItsNumber
  <2>5. PICK k \in Int : k = turns[t].number /\ k - 1 \in Int /\ k - 1 < k /\ k <= number
    <3>1. turns[t].number \in Int /\ turns[t].number <= number
      BY <1>0, <2>2
    <3> QED BY <3>1
  <2>6. /\ Agree(kept \o said, turns[t].full \o said, k)
        /\ kept \o said # << >> /\ turns[t].full \o said # << >>
    <3>1. PICK w \in Seq(Message) : w = turns[t].full
      BY <2>2
    <3>2. Agree(kept, w, k - 1)
      BY <2>3, <2>5, <3>1
    <3>3. Says(said, k)
      BY <2>4, <2>5
    <3>4. Agree(kept \o said, w \o said, k) /\ kept \o said # << >> /\ w \o said # << >>
      BY <2>5, <3>2, <3>3, SaidToBoth
    <3> QED BY <3>1, <3>4
  <2>7. kept \o said \in Seq(Message) /\ turns[t].full \o said \in Seq(Message)
    BY <2>2, <2>4 DEF Says
  <2>8. Agree(kept \o said, turns[t].full \o said, number')
    <3>1. number \in Int /\ number' \in Int /\ k <= number'
      BY <1>0, <2>1, <2>5
    <3> QED BY <2>5, <2>6, <2>7, <3>1, LaterAgrees
  <2>9. RowsAgree'
    BY <2>3, <2>6, <2>7, <2>8, RowsStored
  <2> QED BY <1>0, <1>2, <1>5, <2>1, <2>9 DEF Together
<1>11. ASSUME NEW t \in Turns, TurnRefused(t) PROVE Together'
  <2>1. turns' = [turns EXCEPT ![t] = Idle] /\ UNCHANGED <<compact, full, legacy, number>>
    BY <1>11 DEF TurnRefused
  <2> QED BY <1>0, <1>2, <1>5, <1>6, <2>1 DEF Together
<1>12. CASE AskReview
  <2>1. number' = number + 1 /\ turns' = turns
    BY <1>12 DEF AskReview
  <2> DEFINE q == Said(number + 1, "question")
             m == <<q>>
  <2>2. q \in Message /\ q.number = number + 1 /\ q.part = "question"
    <3>1. number + 1 \in 0..MaxNumber
      BY <1>12, NumberGrows DEF AskReview, IInv
    <3> QED BY <3>1, SaidType DEF Parts, Said
  <2>3. SetConversationState(Append(RunningHistory, q), Append(FullHistory, q))
    BY <1>12 DEF AskReview, AddConversationMessage
  <2> HIDE DEF q
  <2>4. Says(m, number + 1) /\ m \in Seq(Message)
    BY <2>2 DEF Says
  <2>5. \A s \in Seq(Message) : Append(s, q) = s \o m
    BY <2>2
  <2> HIDE DEF m
  <2>6. number \in Int /\ number + 1 \in Int /\ number < number + 1
    BY <1>0
  <2>7. /\ Agree(RunningHistory \o m, FullHistory \o m, number + 1)
        /\ RunningHistory \o m # << >> /\ FullHistory \o m # << >>
    BY <1>3, <2>4, <2>6, SaidToBoth
  <2>8. RunningHistory \o m \in Seq(Message) /\ FullHistory \o m \in Seq(Message)
    BY <1>3, <2>4
  <2>9. SetConversationState(RunningHistory \o m, FullHistory \o m)
    BY <1>3, <2>3, <2>5
  <2>10. RowsAgree'
    BY <2>1, <2>7, <2>8, <2>9, RowsStored
  <2>11. number <= number'
    BY <1>0, <2>1
  <2>12. \A t \in Turns : TurnAgrees(turns'[t], number')
    BY <1>1, <1>4, <2>1, <2>11
  <2> QED BY <2>10, <2>12 DEF Together
<1>13. CASE ClearConversation
  <2>1. legacy' = << >> /\ UNCHANGED <<compact, full, turns, number>>
    BY <1>13 DEF ClearConversation
  <2>2. CASE compact = << >>
    <3>1. full = << >>
      BY <2>2 DEF Together, RowsAgree
    <3>2. RunningHistory' = << >> /\ FullHistory' = << >>
      BY <2>1, <2>2, <3>1, Zenon DEF RunningHistory, FullHistory
    <3>3. Agree(<< >>, << >>, number)
      BY DEF Agree, Recent, Ordered, NotCut
    <3>4. RowsAgree'
      BY <2>1, <2>2, <3>1, <3>2, <3>3 DEF RowsAgree
    <3> QED BY <1>4, <2>1, <3>4 DEF Together
  <2>3. CASE compact # << >>
    <3>1. full # << >>
      BY <2>3 DEF Together, RowsAgree
    <3>2. RunningHistory' = RunningHistory /\ FullHistory' = FullHistory
      BY <2>1, <2>3, <3>1, Zenon DEF RunningHistory, FullHistory
    <3>3. RowsAgree'
      BY <2>1, <3>2 DEF RowsAgree, Together
    <3> QED BY <1>4, <2>1, <3>3 DEF Together
  <2> QED BY <2>2, <2>3
<1>14. CASE Evict
  <2>1. \A t \in Turns : turns'[t] = Idle
    BY <1>14 DEF Evict
  <2>2. UNCHANGED <<compact, full, legacy, number>>
    BY <1>14 DEF Evict
  <2> QED BY <1>2, <1>6, <2>1, <2>2 DEF Together
<1> QED BY <1>7, <1>8, <1>9, <1>10, <1>11, <1>12, <1>13, <1>14 DEF Next

LEMMA TogetherStep ==
  ASSUME ConversationAssumption, HInv, [Next]_vars
  PROVE  HInv'
<1>1. IInv'
  BY NextInv DEF HInv
<1>2. CASE Next
  BY <1>1, <1>2, RefusedStays, TogetherKept DEF HInv
<1>3. CASE UNCHANGED vars
  <2>1. UNCHANGED <<compact, full, legacy, turns, number, refused>>
    BY <1>3 DEF vars
  <2>2. RunningHistory' = RunningHistory /\ FullHistory' = FullHistory
    BY <2>1 DEF RunningHistory, FullHistory
  <2> QED BY <1>1, <2>1, <2>2 DEF HInv, Together, RowsAgree
<1> QED BY <1>2, <1>3

(* The two histories stay together for every number of turns at once, of   *)
(* failures, compactions and evictions, until a row refuses one            *)
(* (simpleGeneratorAgent.ts:2791-2820).                                    *)
THEOREM HistoriesStayTogether == Spec => []HistoriesAgree
<1> QED
  BY TogetherInit, TogetherStep, TogetherAgrees, ConversationAssumption, PTL DEF Spec

-----------------------------------------------------------------------------
(* FileStore.                                                              *)

(* Each file of a save is staged once; there are some until all are.       *)
Shape ==
  /\ map \in fileStore!Tree /\ workdir \in fileStore!Tree /\ index \in fileStore!Tree /\ head \in fileStore!Tree /\ commits \subseteq fileStore!Tree
  /\ saves \in [Saves -> fileStore!Save]
  /\ \A s \in Saves :
       /\ saves[s].pc \in {"write", "add"} <=> saves[s].files # << >>
       /\ \A i, j \in DOMAIN saves[s].files : saves[s].files[i] = saves[s].files[j] => i = j
  /\ reset \in [pc : {"off", "head", "checkout", "list"}, target : fileStore!Tree]
  /\ syncs \in [Syncs -> [pc : {"off", "read", "set"}, tree : fileStore!Tree, late : BOOLEAN]]
  /\ doubtful \subseteq Files /\ touched \subseteq Files

(* While git was moved and the map not yet, they have nothing to do with   *)
(* each other.  Otherwise a file that is not doubtful has one save at most *)
(* with the text of the map, which it writes and adds, or that text is in  *)
(* the index.                                                              *)
Settled == reset.pc # "list" /\ \A y \in Syncs : syncs[y].pc = "off"

FileAgrees(f) ==
  /\ \A s, r \in Saves : f \in fileStore!FilesOf(saves[s]) /\ f \in fileStore!FilesOf(saves[r]) => s = r
  /\ \A s \in Saves : f \in fileStore!FilesOf(saves[s]) =>
       /\ fileStore!Text(saves[s].contents[f]) = fileStore!Text(map[f])
       /\ saves[s].pc = "add" /\ saves[s].files[1] = f => workdir[f] = saves[s].contents[f]
  /\ f \notin fileStore!Saving => fileStore!Text(map[f]) = fileStore!Text(index[f])

Agreed == Settled => \A f \in Files \ doubtful : FileAgrees(f)

(* What is saved while git is being moved is touched.                      *)
SavesTouched == fileStore!Resetting => fileStore!Saving \subseteq touched

(* What is not touched a sync finds in HEAD as it is in the index, unless  *)
(* the next reset moves HEAD first; only one that is late is still there   *)
(* when that reset checks out its tree.                                    *)
Fetched ==
  /\ reset.pc = "list" => \A f \in Files \ touched : index[f] = head[f]
  /\ reset.pc \in {"checkout", "list"} => \A y \in Syncs : syncs[y].pc = "off" \/ syncs[y].late
  /\ \A y \in Syncs : ~syncs[y].late =>
       /\ syncs[y].pc = "read" => \A f \in Files \ touched : index[f] = head[f]
       /\ syncs[y].pc = "set" => \A f \in Files \ touched : fileStore!Text(syncs[y].tree[f]) = fileStore!Text(index[f])

FilesInv == Shape /\ Agreed /\ SavesTouched /\ Fetched

-----------------------------------------------------------------------------
(* An order of files has each of them once.                                *)
LEMMA OrderIs ==
  ASSUME fileStore!FileStoreAssumption, NEW fs \in SUBSET Files, fs # {}, NEW o \in fileStore!Orders(fs)
  PROVE  /\ o \in Seq(Files) /\ o # << >>
         /\ \A i, j \in DOMAIN o : o[i] = o[j] => i = j
         /\ {o[i] : i \in DOMAIN o} = fs
<1>0. IsFiniteSet(Files)
  BY Zenon DEF fileStore!FileStoreAssumption, fileStore!IsFiniteSet, IsFiniteSet
<1>1. IsFiniteSet(fs) /\ Cardinality(fs) \in Nat /\ Cardinality(fs) # 0
  BY <1>0, FS_Subset, FS_CardinalityType, FS_EmptySet
<1>2. PICK n \in Nat : n = Cardinality(fs)
  BY <1>1
<1>3. o \in [1..n -> fs] /\ \A i, j \in DOMAIN o : o[i] = o[j] => i = j
  <2>1. fileStore!Cardinality(fs) = n
    BY <1>2, Zenon DEF fileStore!Cardinality, Cardinality
  <2> QED BY <2>1 DEF fileStore!Orders
<1>4. o \in Injection(1..n, fs)
  BY <1>3 DEF Injection, IsInjective
<1>5. Cardinality(1..n) = Cardinality(fs)
  BY <1>2, FS_Interval
<1>6. o \in Surjection(1..n, fs)
  BY <1>1, <1>4, <1>5, FS_Injection
<1>7. {o[i] : i \in DOMAIN o} = fs
  BY <1>3, <1>6 DEF Surjection
<1>8. o \in Seq(Files) /\ o # << >>
  <2>1. o \in [1..n -> Files]
    BY <1>3
  <2>2. DOMAIN o # {}
    BY <1>1, <1>2, <1>3
  <2> QED BY <2>1, <2>2
<1> QED BY <1>3, <1>7, <1>8

(* The first of several files is staged and the others are left.           *)
LEMMA RestIs ==
  ASSUME NEW q \in Seq(Files), q # << >>, \A i, j \in DOMAIN q : q[i] = q[j] => i = j
  PROVE  /\ Head(q) = q[1] /\ q[1] \in Files /\ 1 \in DOMAIN q
         /\ Tail(q) \in Seq(Files)
         /\ \A i, j \in DOMAIN Tail(q) : Tail(q)[i] = Tail(q)[j] => i = j
         /\ {Tail(q)[i] : i \in DOMAIN Tail(q)} = {q[i] : i \in DOMAIN q} \ {q[1]}
<1>1. /\ Len(q) \in Nat /\ Len(q) > 0 /\ DOMAIN q = 1..Len(q)
      /\ Head(q) = q[1] /\ q[1] \in Files /\ Tail(q) \in Seq(Files)
      /\ Len(Tail(q)) = Len(q) - 1 /\ DOMAIN Tail(q) = 1..Len(q) - 1
      /\ \A i \in 1..Len(q) - 1 : Tail(q)[i] = q[i + 1]
  OBVIOUS
<1>2. \A i \in 1..Len(q) - 1 : i + 1 \in DOMAIN q /\ i + 1 # 1
  BY <1>1
<1>3. \A i \in DOMAIN q : i = 1 \/ (i - 1 \in 1..Len(q) - 1 /\ (i - 1) + 1 = i)
  BY <1>1
<1>4. {Tail(q)[i] : i \in DOMAIN Tail(q)} \subseteq {q[i] : i \in DOMAIN q} \ {q[1]}
  BY <1>1, <1>2
<1>5. {q[i] : i \in DOMAIN q} \ {q[1]} \subseteq {Tail(q)[i] : i \in DOMAIN Tail(q)}
  BY <1>1, <1>3
<1>6. \A i, j \in DOMAIN Tail(q) : Tail(q)[i] = Tail(q)[j] => i = j
  <2> SUFFICES ASSUME NEW i \in 1..Len(q) - 1, NEW j \in 1..Len(q) - 1, q[i + 1] = q[j + 1]
               PROVE  i = j
    BY <1>1
  <2>1. i + 1 = j + 1
    BY <1>2
  <2> QED BY <2>1
<1>7. 1 \in DOMAIN q
  BY <1>1
<1> QED BY <1>1, <1>4, <1>5, <1>6, <1>7

LEMMA Savings ==
  \A f : f \in fileStore!Saving <=> \E s \in Saves : f \in fileStore!FilesOf(saves[s])
BY DEF fileStore!Saving

LEMMA NoSaveIs ==
  /\ fileStore!NoSave \in fileStore!Save /\ fileStore!NoSave.files = << >> /\ fileStore!NoSave.pc = "off" /\ fileStore!FilesOf(fileStore!NoSave) = {}
  /\ DOMAIN fileStore!NoSave.files = {}
<1>1. << >> \in Seq(Files) /\ fileStore!NoFiles \in fileStore!Tree
  BY DEF fileStore!NoFiles, fileStore!Tree, fileStore!Content
<1> QED BY <1>1 DEF fileStore!NoSave, fileStore!Save, fileStore!FilesOf

-----------------------------------------------------------------------------
(* Shape: the types, and what a save has left to do.                       *)
SaveShape(v) ==
  /\ v \in fileStore!Save
  /\ v.pc \in {"write", "add"} <=> v.files # << >>
  /\ \A i, j \in DOMAIN v.files : v.files[i] = v.files[j] => i = j

SavesShape(vs) == \A s \in Saves : SaveShape(vs[s])

LEMMA NoSaveShape == SaveShape(fileStore!NoSave)
BY NoSaveIs DEF SaveShape

LEMMA ShapeOfSaves ==
  ASSUME Shape, NEW s \in Saves PROVE SaveShape(saves[s])
BY DEF Shape, SaveShape

(* A step of one save.                                                     *)
LEMMA SaveMoves ==
  ASSUME Shape, NEW s \in Saves, NEW v, SaveShape(v), saves' = [saves EXCEPT ![s] = v]
  PROVE  /\ saves' \in [Saves -> fileStore!Save] /\ \A r \in Saves : SaveShape(saves'[r])
         /\ \A r \in Saves : saves'[r] = IF r = s THEN v ELSE saves[r]
<1>1. saves \in [Saves -> fileStore!Save]
  BY DEF Shape
<1>2. \A r \in Saves : saves'[r] = IF r = s THEN v ELSE saves[r]
  BY <1>1
<1>3. saves' \in [Saves -> fileStore!Save]
  BY <1>1 DEF SaveShape
<1> QED BY <1>2, <1>3, ShapeOfSaves


LEMMA StagedShape ==
  ASSUME NEW v, SaveShape(v)
  PROVE  /\ v.pc = "write" => SaveShape([v EXCEPT !.pc = "add"])
         /\ v.pc = "check" => SaveShape([v EXCEPT !.pc = "commit"])
         /\ v.pc = "add" => /\ Tail(v.files) # << >> =>
                                 SaveShape([v EXCEPT !.files = Tail(v.files), !.pc = "write"])
                            /\ Tail(v.files) = << >> =>
                                 SaveShape([v EXCEPT !.files = Tail(v.files), !.pc = "check"])
<1>1. /\ v \in fileStore!Save
      /\ v = [pc |-> v.pc, files |-> v.files, contents |-> v.contents, message |-> v.message]
      /\ v.files \in Seq(Files) /\ v.contents \in fileStore!Tree /\ v.message \in BOOLEAN
  BY DEF SaveShape, fileStore!Save
<1>2. /\ v.pc \in {"write", "add"} <=> v.files # << >>
      /\ \A i, j \in DOMAIN v.files : v.files[i] = v.files[j] => i = j
  BY DEF SaveShape
<1>3. ASSUME NEW pc \in {"write", "add", "check", "commit"}, NEW q \in Seq(Files),
             pc \in {"write", "add"} <=> q # << >>,
             \A i, j \in DOMAIN q : q[i] = q[j] => i = j
      PROVE  SaveShape([v EXCEPT !.files = q, !.pc = pc])
  <2> DEFINE w == [v EXCEPT !.files = q, !.pc = pc]
  <2>1. w \in fileStore!Save
    BY <1>1 DEF fileStore!Save
  <2>2. w.pc = pc /\ w.files = q
    BY <1>1
  <2> HIDE DEF w
  <2>3. SaveShape(w)
    BY <1>3, <2>1, <2>2 DEF SaveShape
  <2> QED BY <2>3 DEF w
<1>4. \A pc : [v EXCEPT !.files = v.files, !.pc = pc] = [v EXCEPT !.pc = pc]
  BY <1>1
<1>5. v.pc = "write" => SaveShape([v EXCEPT !.pc = "add"])
  BY <1>1, <1>2, <1>3, <1>4
<1>6. v.pc = "check" => SaveShape([v EXCEPT !.pc = "commit"])
  BY <1>1, <1>2, <1>3, <1>4
<1>7. ASSUME v.pc = "add"
      PROVE  /\ Tail(v.files) # << >> =>
                  SaveShape([v EXCEPT !.files = Tail(v.files), !.pc = "write"])
             /\ Tail(v.files) = << >> =>
                  SaveShape([v EXCEPT !.files = Tail(v.files), !.pc = "check"])
  <2>1. v.files # << >>
    BY <1>2, <1>7
  <2>2. /\ Tail(v.files) \in Seq(Files)
        /\ \A i, j \in DOMAIN Tail(v.files) : Tail(v.files)[i] = Tail(v.files)[j] => i = j
    BY <1>1, <1>2, <2>1, RestIs
  <2> QED BY <1>3, <2>2
<1> QED BY <1>5, <1>6, <1>7

(* The step of one save, and what becomes of that save.                    *)
LEMMA StepOfSave ==
  ASSUME Shape, NEW s \in Saves,
         \/ fileStore!CommitStaged(s) \/ fileStore!StageWrite(s) \/ fileStore!StageAdd(s) \/ fileStore!Check(s) \/ fileStore!Commit(s)
         \/ fileStore!SaveFails(s)
  PROVE  /\ saves' \in [Saves -> fileStore!Save] /\ \A r \in Saves : SaveShape(saves'[r])
         /\ \A r \in Saves : r # s => saves'[r] = saves[r]
<1>1. saves \in [Saves -> fileStore!Save] /\ SaveShape(saves[s])
  BY ShapeOfSaves DEF Shape
<1> SUFFICES \E v : SaveShape(v) /\ saves' = [saves EXCEPT ![s] = v]
  BY SaveMoves
<1>2. CASE fileStore!CommitStaged(s)
  <2>1. saves' = [saves EXCEPT ![s] = [fileStore!NoSave EXCEPT !.pc = "check", !.message = TRUE]]
    BY <1>2 DEF fileStore!CommitStaged
  <2> DEFINE w == [fileStore!NoSave EXCEPT !.pc = "check", !.message = TRUE]
  <2>2. w \in fileStore!Save /\ w.pc = "check" /\ w.files = << >> /\ DOMAIN w.files = {}
    BY NoSaveIs DEF fileStore!NoSave, fileStore!Save
  <2> HIDE DEF w
  <2>3. SaveShape(w)
    BY <2>2 DEF SaveShape
  <2> QED BY <2>1, <2>3 DEF w
<1>3. CASE fileStore!StageWrite(s)
  <2>1. saves' = [saves EXCEPT ![s] = [saves[s] EXCEPT !.pc = "add"]] /\ saves[s].pc = "write"
    BY <1>3 DEF fileStore!StageWrite
  <2> QED BY <1>1, <2>1, StagedShape
<1>4. CASE fileStore!StageAdd(s)
  <2> DEFINE rest == Tail(saves[s].files)
  <2>1. saves[s].pc = "add"
    BY <1>4 DEF fileStore!StageAdd
  <2>2. \/ saves' = [saves EXCEPT ![s] = fileStore!NoSave]
        \/ saves' = [saves EXCEPT ![s] = [saves[s] EXCEPT !.files = rest,
                        !.pc = IF rest = << >> THEN "check" ELSE "write"]]
    BY <1>4 DEF fileStore!StageAdd
  <2>3. CASE rest = << >>
    BY <1>1, <2>1, <2>2, <2>3, StagedShape, NoSaveShape
  <2>4. CASE rest # << >>
    BY <1>1, <2>1, <2>2, <2>4, StagedShape, NoSaveShape
  <2> QED BY <2>3, <2>4
<1>5. CASE fileStore!Check(s)
  <2>1. \/ saves' = [saves EXCEPT ![s] = [saves[s] EXCEPT !.pc = "commit"]] /\ saves[s].pc = "check"
        \/ saves' = [saves EXCEPT ![s] = fileStore!NoSave]
    BY <1>5 DEF fileStore!Check
  <2> QED BY <1>1, <2>1, StagedShape, NoSaveShape
<1>6. CASE fileStore!Commit(s)
  BY <1>6, NoSaveShape DEF fileStore!Commit
<1>7. CASE fileStore!SaveFails(s)
  BY <1>7, NoSaveShape DEF fileStore!SaveFails
<1> QED BY <1>2, <1>3, <1>4, <1>5, <1>6, <1>7

(* A save that changes git: one save more, of exactly these files.         *)
StartsWriting(s, files, contents) ==
  /\ saves'[s].pc = "write" /\ fileStore!FilesOf(saves'[s]) = files
  /\ \A f \in files : saves'[s].contents[f] = contents[f]

SavesAre == saves' \in [Saves -> fileStore!Save] /\ \A r \in Saves : SaveShape(saves'[r])

LEMMA WriteShape ==
  ASSUME fileStore!FileStoreAssumption, NEW fs \in SUBSET Files, fs # {}, NEW o \in fileStore!Orders(fs),
         NEW c \in fileStore!Tree, NEW m \in BOOLEAN
  PROVE  LET v == [pc |-> "write", files |-> o, contents |-> c, message |-> m]
         IN SaveShape(v) /\ fileStore!FilesOf(v) = fs /\ v.pc = "write" /\ v.contents = c
<1> DEFINE v == [pc |-> "write", files |-> o, contents |-> c, message |-> m]
<1>1. /\ o \in Seq(Files) /\ o # << >> /\ \A i, j \in DOMAIN o : o[i] = o[j] => i = j
      /\ {o[i] : i \in DOMAIN o} = fs
  BY OrderIs
<1>2. v \in fileStore!Save /\ v.pc = "write" /\ v.files = o /\ v.contents = c
  BY <1>1 DEF fileStore!Save
<1> HIDE DEF v
<1>3. SaveShape(v) /\ fileStore!FilesOf(v) = fs
  BY <1>1, <1>2 DEF SaveShape, fileStore!FilesOf
<1> QED BY <1>2, <1>3 DEF v

LEMMA FilesSaved ==
  ASSUME fileStore!FileStoreAssumption, Shape, NEW s \in Saves, fileStore!SaveGeneratedFiles(s)
  PROVE  \E files \in SUBSET Files : \E contents \in [files -> Texts \cup {Blank}] :
           /\ SavesAre /\ \A r \in Saves : r # s => saves'[r] = saves[r]
           /\ map' = [f \in Files |-> IF f \in files THEN contents[f] ELSE map[f]]
           /\ touched' = IF fileStore!Resetting THEN touched \cup files ELSE touched
           /\ \/ /\ StartsWriting(s, files, contents)
                 /\ doubtful' = IF fileStore!Resetting THEN doubtful \cup files
                                ELSE (doubtful \ files) \cup (files \cap fileStore!Saving)
              \/ /\ saves' = saves /\ \A f \in files : fileStore!Text(map[f]) = contents[f]
                 /\ doubtful' = IF fileStore!Resetting THEN doubtful \cup files ELSE doubtful
<1>1. PICK files \in (SUBSET Files) \ {{}} : \E order \in fileStore!Orders(files),
        contents \in [files -> Texts \cup {Blank}], message \in BOOLEAN :
       LET new == [f \in Files |-> IF f \in files THEN contents[f] ELSE map[f]]
           changed == \E f \in files : fileStore!Text(map[f]) # contents[f]
       IN /\ map' = new
          /\ saves' = IF changed
               THEN [saves EXCEPT ![s] = [pc |-> "write", files |-> order,
                       contents |-> [f \in Files |-> IF f \in files THEN contents[f] ELSE Absent],
                       message |-> message]]
               ELSE saves
          /\ touched' = IF fileStore!Resetting THEN touched \cup files ELSE touched
          /\ doubtful' = IF fileStore!Resetting THEN doubtful \cup files
                         ELSE IF changed THEN (doubtful \ files) \cup (files \cap fileStore!Saving)
                         ELSE doubtful
  BY Zenon DEF fileStore!SaveGeneratedFiles
<1>2. PICK order \in fileStore!Orders(files),
        contents \in [files -> Texts \cup {Blank}], message \in BOOLEAN :
          /\ map' = [f \in Files |-> IF f \in files THEN contents[f] ELSE map[f]]
          /\ saves' = IF \E f \in files : fileStore!Text(map[f]) # contents[f]
               THEN [saves EXCEPT ![s] = [pc |-> "write", files |-> order,
                       contents |-> [f \in Files |-> IF f \in files THEN contents[f] ELSE Absent],
                       message |-> message]]
               ELSE saves
          /\ touched' = IF fileStore!Resetting THEN touched \cup files ELSE touched
          /\ doubtful' = IF fileStore!Resetting THEN doubtful \cup files
                         ELSE IF \E f \in files : fileStore!Text(map[f]) # contents[f]
                              THEN (doubtful \ files) \cup (files \cap fileStore!Saving)
                              ELSE doubtful
  BY <1>1, Zenon
<1> DEFINE written == [f \in Files |-> IF f \in files THEN contents[f] ELSE Absent]
           v == [pc |-> "write", files |-> order, contents |-> written, message |-> message]
<1>3. written \in fileStore!Tree
  BY DEF fileStore!Tree, fileStore!Content
<1>4. \A f \in files : written[f] = contents[f]
  BY <1>1
<1>5. SaveShape(v) /\ fileStore!FilesOf(v) = files /\ v.pc = "write" /\ v.contents = written
  <2>1. files \in SUBSET Files /\ files # {}
    OBVIOUS
  <2>0. order \in fileStore!Orders(files) /\ message \in BOOLEAN
    OBVIOUS
  <2>2. \A c \in fileStore!Tree : LET w == [pc |-> "write", files |-> order, contents |-> c, message |-> message]
                        IN SaveShape(w) /\ fileStore!FilesOf(w) = files /\ w.pc = "write" /\ w.contents = c
    BY <2>0, <2>1, WriteShape
  <2> HIDE DEF written
  <2> QED BY <1>3, <2>2, Zenon
<1>6. CASE \E f \in files : fileStore!Text(map[f]) # contents[f]
  <2>1. saves' = [saves EXCEPT ![s] = v]
    BY <1>2, <1>6
  <2> HIDE DEF v, written
  <2>2. SavesAre /\ \A r \in Saves : saves'[r] = IF r = s THEN v ELSE saves[r]
    BY <1>5, <2>1, SaveMoves DEF SavesAre
  <2>3. StartsWriting(s, files, contents)
    BY <1>4, <1>5, <2>2 DEF StartsWriting
  <2>4. doubtful' = IF fileStore!Resetting THEN doubtful \cup files
                                ELSE (doubtful \ files) \cup (files \cap fileStore!Saving)
    BY <1>2, <1>6
  <2> QED BY <1>2, <2>2, <2>3, <2>4
<1>7. CASE ~\E f \in files : fileStore!Text(map[f]) # contents[f]
  <2>1. saves' = saves
    BY <1>2, <1>7
  <2>2. SavesAre
    BY <2>1, ShapeOfSaves DEF SavesAre, Shape
  <2>3. doubtful' = IF fileStore!Resetting THEN doubtful \cup files ELSE doubtful
    BY <1>2, <1>7
  <2> QED BY <1>2, <1>7, <2>1, <2>2, <2>3
<1> QED BY <1>6, <1>7

(* The commit of the agent that starts again has all its files.            *)
LEMMA SavesAfterEviction ==
  ASSUME fileStore!FileStoreAssumption, Shape, fileStore!Evict
  PROVE  /\ SavesAre
         /\ \/ \A r \in Saves : saves'[r] = fileStore!NoSave
            \/ \E s \in Saves :
                 /\ StartsWriting(s, {f \in Files : map[f] # Absent}, map)
                 /\ \A r \in Saves : r # s => saves'[r] = fileStore!NoSave
<1> DEFINE all == {f \in Files : map[f] # Absent}
           none == [s \in Saves |-> fileStore!NoSave]
<1>1. \/ saves' = none
      \/ all # {} /\ \E s \in Saves, order \in fileStore!Orders(all) :
                 saves' = [none EXCEPT ![s] =
                   [pc |-> "write", files |-> order, contents |-> map, message |-> TRUE]]
  BY Zenon DEF fileStore!Evict
<1>2. CASE saves' = none
  BY <1>2, NoSaveShape DEF SavesAre, SaveShape
<1>3. ASSUME all # {}, NEW s \in Saves, NEW order \in fileStore!Orders(all),
             saves' = [none EXCEPT ![s] =
                   [pc |-> "write", files |-> order, contents |-> map, message |-> TRUE]]
      PROVE  SavesAre /\ StartsWriting(s, all, map) /\ \A r \in Saves : r # s => saves'[r] = fileStore!NoSave
  <2> DEFINE v == [pc |-> "write", files |-> order, contents |-> map, message |-> TRUE]
  <2>1. map \in fileStore!Tree /\ all \in SUBSET Files
    BY DEF Shape
  <2>2. SaveShape(v) /\ fileStore!FilesOf(v) = all /\ v.pc = "write" /\ v.contents = map
    <3> HIDE DEF all
    <3> QED BY <1>3, <2>1, WriteShape, Zenon
  <2>3. \A r \in Saves : saves'[r] = IF r = s THEN v ELSE fileStore!NoSave
    BY <1>3
  <2>4. saves' = [r \in Saves |-> IF r = s THEN v ELSE fileStore!NoSave]
    BY <1>3
  <2> HIDE DEF v, all
  <2>5. SavesAre
    BY <2>2, <2>3, <2>4, NoSaveShape DEF SavesAre, SaveShape
  <2> QED BY <2>2, <2>3, <2>5 DEF StartsWriting
<1> QED BY <1>1, <1>2, <1>3

-----------------------------------------------------------------------------
ResetType == [pc : {"off", "head", "checkout", "list"}, target : fileStore!Tree]
SyncType == [pc : {"off", "read", "set"}, tree : fileStore!Tree, late : BOOLEAN]

LEMMA NothingThere == fileStore!NoFiles \in fileStore!Tree /\ fileStore!NoReset \in ResetType /\ fileStore!NoSync \in SyncType
BY DEF fileStore!NoFiles, fileStore!Tree, fileStore!Content, fileStore!NoReset, fileStore!NoSync, ResetType, SyncType

(* The steps of git and of the callback.                                   *)
LEMMA StepOfReset ==
  ASSUME Shape, \/ fileStore!StartReset \/ fileStore!ResetHead \/ fileStore!ResetCheckout \/ fileStore!ResetDone \/ fileStore!ResetFails
                \/ \E y \in Syncs : fileStore!ReadHead(y) \/ fileStore!ReadHeadFails(y) \/ fileStore!SetMap(y)
  PROVE  reset' \in ResetType /\ syncs' \in [Syncs -> SyncType]
<1>1. /\ reset \in ResetType /\ syncs \in [Syncs -> SyncType] /\ head \in fileStore!Tree /\ commits \subseteq fileStore!Tree
  BY DEF Shape, ResetType, SyncType
<1>2. CASE fileStore!StartReset
  BY <1>1, <1>2 DEF fileStore!StartReset, ResetType
<1>3. CASE fileStore!ResetHead
  <2>1. reset' = [reset EXCEPT !.pc = "checkout"]
    BY <1>3 DEF fileStore!ResetHead
  <2>2. syncs' = [y \in Syncs |-> IF syncs[y].pc = "off" THEN fileStore!NoSync
                               ELSE [syncs[y] EXCEPT !.late = TRUE]]
    BY <1>3 DEF fileStore!ResetHead
  <2>3. reset' \in ResetType
    BY <1>1, <2>1 DEF ResetType
  <2>4. \A y \in Syncs : [syncs[y] EXCEPT !.late = TRUE] \in SyncType
    BY <1>1 DEF SyncType
  <2> QED BY <2>2, <2>3, <2>4, NothingThere
<1>4. CASE fileStore!ResetCheckout
  BY <1>1, <1>4 DEF fileStore!ResetCheckout, ResetType
<1>5. CASE fileStore!ResetDone
  <2>1. PICK y \in Syncs : syncs' = [syncs EXCEPT ![y] = [syncs[y] EXCEPT !.pc = "read"]]
    BY <1>5 DEF fileStore!ResetDone
  <2>2. [syncs[y] EXCEPT !.pc = "read"] \in SyncType
    BY <1>1 DEF SyncType
  <2> QED BY <1>1, <1>5, <2>1, <2>2, NothingThere DEF fileStore!ResetDone
<1>6. CASE fileStore!ResetFails
  BY <1>1, <1>6, NothingThere DEF fileStore!ResetFails
<1>7. ASSUME NEW y \in Syncs, fileStore!ReadHead(y) \/ fileStore!ReadHeadFails(y) \/ fileStore!SetMap(y)
      PROVE  reset' \in ResetType /\ syncs' \in [Syncs -> SyncType]
  <2>1. CASE fileStore!ReadHead(y)
    <3> DEFINE tree == [f \in Files |-> IF head[f] = Blank THEN Absent ELSE head[f]]
    <3>1. tree \in fileStore!Tree
      BY <1>1 DEF fileStore!Tree, fileStore!Content
    <3>2. syncs' = [syncs EXCEPT ![y] = [syncs[y] EXCEPT !.pc = "set", !.tree = tree]]
      BY <2>1 DEF fileStore!ReadHead
    <3> HIDE DEF tree
    <3>3. [syncs[y] EXCEPT !.pc = "set", !.tree = tree] \in SyncType
      BY <1>1, <3>1 DEF SyncType
    <3> QED BY <1>1, <2>1, <3>2, <3>3 DEF fileStore!ReadHead
  <2>2. CASE fileStore!ReadHeadFails(y)
    <3>2. syncs' = [syncs EXCEPT ![y] = [syncs[y] EXCEPT !.pc = "set", !.tree = fileStore!NoFiles, !.late = TRUE]]
      BY <2>2 DEF fileStore!ReadHeadFails
    <3>3. [syncs[y] EXCEPT !.pc = "set", !.tree = fileStore!NoFiles, !.late = TRUE] \in SyncType
      BY <1>1, NothingThere DEF SyncType
    <3> QED BY <1>1, <2>2, <3>2, <3>3 DEF fileStore!ReadHeadFails
  <2>3. CASE fileStore!SetMap(y)
    BY <1>1, <2>3, NothingThere DEF fileStore!SetMap
  <2> QED BY <1>7, <2>1, <2>2, <2>3
<1> QED BY <1>2, <1>3, <1>4, <1>5, <1>6, <1>7

(* The files of the map, and those that git has.                           *)
LEMMA StepOfTrees ==
  ASSUME fileStore!FileStoreAssumption, Shape, fileStore!Next
  PROVE  /\ map' \in fileStore!Tree /\ workdir' \in fileStore!Tree /\ index' \in fileStore!Tree /\ head' \in fileStore!Tree
         /\ commits' \subseteq fileStore!Tree /\ doubtful' \subseteq Files /\ touched' \subseteq Files
<1>1. /\ map \in fileStore!Tree /\ workdir \in fileStore!Tree /\ index \in fileStore!Tree /\ head \in fileStore!Tree
      /\ commits \subseteq fileStore!Tree /\ doubtful \subseteq Files /\ touched \subseteq Files
      /\ reset.target \in fileStore!Tree /\ \A y \in Syncs : syncs[y].tree \in fileStore!Tree
  BY DEF Shape
<1>2. fileStore!Saving \subseteq Files
  <2>1. \A s \in Saves : fileStore!FilesOf(saves[s]) \subseteq Files
    <3> SUFFICES ASSUME NEW s \in Saves PROVE fileStore!FilesOf(saves[s]) \subseteq Files
      OBVIOUS
    <3>1. saves[s].files \in Seq(Files)
      BY ShapeOfSaves DEF SaveShape, fileStore!Save
    <3> QED BY <3>1 DEF fileStore!FilesOf
  <2> QED BY <2>1 DEF fileStore!Saving
<1>3. \A s \in Saves : fileStore!FilesOf(saves[s]) \subseteq Files
  BY <1>2 DEF fileStore!Saving
<1>4. ASSUME NEW s \in Saves, fileStore!SaveGeneratedFiles(s)
      PROVE  map' \in fileStore!Tree /\ doubtful' \subseteq Files /\ touched' \subseteq Files
  <2>1. PICK files \in SUBSET Files : \E contents \in [files -> Texts \cup {Blank}] :
           /\ map' = [f \in Files |-> IF f \in files THEN contents[f] ELSE map[f]]
           /\ touched' = IF fileStore!Resetting THEN touched \cup files ELSE touched
           /\ \/ doubtful' = IF fileStore!Resetting THEN doubtful \cup files
                                ELSE (doubtful \ files) \cup (files \cap fileStore!Saving)
              \/ doubtful' = IF fileStore!Resetting THEN doubtful \cup files ELSE doubtful
    BY <1>4, FilesSaved
  <2> QED BY <1>1, <1>2, <2>1 DEF fileStore!Tree, fileStore!Content
<1>5. ASSUME NEW s \in Saves, fileStore!SaveGeneratedFiles(s)
      PROVE  UNCHANGED <<workdir, index, head, commits>>
  BY <1>5 DEF fileStore!SaveGeneratedFiles, fileStore!git
<1>6. ASSUME NEW s \in Saves,
             fileStore!StageWrite(s) \/ fileStore!StageAdd(s) \/ fileStore!Check(s) \/ fileStore!Commit(s) \/ fileStore!SaveFails(s) \/ fileStore!CommitStaged(s)
      PROVE  /\ map' \in fileStore!Tree /\ workdir' \in fileStore!Tree /\ index' \in fileStore!Tree /\ head' \in fileStore!Tree
             /\ commits' \subseteq fileStore!Tree /\ doubtful' \subseteq Files /\ touched' \subseteq Files
  <2>1. CASE fileStore!StageWrite(s)
    <3>1. saves[s].contents \in fileStore!Tree /\ saves[s].files \in Seq(Files) /\ saves[s].files # << >>
      BY <2>1, ShapeOfSaves DEF SaveShape, fileStore!Save, fileStore!StageWrite
    <3>2. Head(saves[s].files) \in Files
      BY <3>1
    <3> QED BY <1>1, <2>1, <3>1, <3>2 DEF fileStore!StageWrite, fileStore!Tree
  <2>2. CASE fileStore!StageAdd(s)
    <3>1. saves[s].files \in Seq(Files) /\ saves[s].files # << >>
      BY <2>2, ShapeOfSaves DEF SaveShape, fileStore!Save, fileStore!StageAdd
    <3>2. Head(saves[s].files) \in Files
      BY <3>1
    <3> QED BY <1>1, <2>2, <3>2 DEF fileStore!StageAdd, fileStore!Tree
  <2>3. CASE fileStore!Check(s) \/ fileStore!CommitStaged(s)
    BY <1>1, <2>3 DEF fileStore!Check, fileStore!CommitStaged, fileStore!git
  <2>4. CASE fileStore!Commit(s)
    BY <1>1, <2>4 DEF fileStore!Commit
  <2>5. CASE fileStore!SaveFails(s)
    BY <1>1, <1>3, <2>5 DEF fileStore!SaveFails, fileStore!git
  <2> QED BY <1>6, <2>1, <2>2, <2>3, <2>4, <2>5
<1>7. ASSUME NEW f \in Files, fileStore!DeleteFile(f)
      PROVE  /\ map' \in fileStore!Tree /\ workdir' \in fileStore!Tree /\ index' \in fileStore!Tree /\ head' \in fileStore!Tree
             /\ commits' \subseteq fileStore!Tree /\ doubtful' \subseteq Files /\ touched' \subseteq Files
  BY <1>1, <1>7 DEF fileStore!DeleteFile, fileStore!git, fileStore!Tree, fileStore!Content
<1>8. CASE fileStore!StartReset
  BY <1>1, <1>2, <1>8 DEF fileStore!StartReset, fileStore!git
<1>9. CASE fileStore!ResetHead \/ fileStore!ResetDone \/ fileStore!ResetFails
  BY <1>1, <1>9 DEF fileStore!ResetHead, fileStore!ResetDone, fileStore!ResetFails, fileStore!git
<1>10. CASE fileStore!ResetCheckout
  BY <1>1, <1>10 DEF fileStore!ResetCheckout, fileStore!Tree
<1>11. ASSUME NEW y \in Syncs, fileStore!ReadHead(y) \/ fileStore!ReadHeadFails(y) \/ fileStore!SetMap(y)
      PROVE  /\ map' \in fileStore!Tree /\ workdir' \in fileStore!Tree /\ index' \in fileStore!Tree /\ head' \in fileStore!Tree
             /\ commits' \subseteq fileStore!Tree /\ doubtful' \subseteq Files /\ touched' \subseteq Files
  BY <1>1, <1>11 DEF fileStore!ReadHead, fileStore!ReadHeadFails, fileStore!SetMap, fileStore!git
<1>12. CASE fileStore!Evict
  BY <1>1, <1>2, <1>12 DEF fileStore!Evict, fileStore!git
<1>13. ASSUME NEW s \in Saves, fileStore!SaveGeneratedFiles(s)
      PROVE  /\ map' \in fileStore!Tree /\ workdir' \in fileStore!Tree /\ index' \in fileStore!Tree /\ head' \in fileStore!Tree
             /\ commits' \subseteq fileStore!Tree /\ doubtful' \subseteq Files /\ touched' \subseteq Files
  BY <1>1, <1>4, <1>5, <1>13
<1> QED BY <1>6, <1>7, <1>8, <1>9, <1>10, <1>11, <1>12, <1>13 DEF fileStore!Next

LEMMA ShapeKept ==
  ASSUME fileStore!FileStoreAssumption, Shape, fileStore!Next
  PROVE  Shape'
<1>1. /\ saves \in [Saves -> fileStore!Save] /\ \A r \in Saves : SaveShape(saves[r])
      /\ reset \in ResetType /\ syncs \in [Syncs -> SyncType]
  BY ShapeOfSaves DEF Shape, ResetType, SyncType
<1> SUFFICES /\ saves' \in [Saves -> fileStore!Save] /\ \A r \in Saves : SaveShape(saves'[r])
             /\ reset' \in ResetType /\ syncs' \in [Syncs -> SyncType]
  BY StepOfTrees DEF Shape, SaveShape, ResetType, SyncType
<1>2. ASSUME NEW s \in Saves, fileStore!SaveGeneratedFiles(s)
      PROVE  SavesAre /\ UNCHANGED <<reset, syncs>>
  BY <1>2, FilesSaved DEF fileStore!SaveGeneratedFiles
<1>3. ASSUME NEW s \in Saves,
             fileStore!StageWrite(s) \/ fileStore!StageAdd(s) \/ fileStore!Check(s) \/ fileStore!Commit(s) \/ fileStore!SaveFails(s) \/ fileStore!CommitStaged(s)
      PROVE  SavesAre /\ UNCHANGED <<reset, syncs>>
  <2>1. SavesAre
    BY <1>3, StepOfSave DEF SavesAre
  <2>2. UNCHANGED <<reset, syncs>>
    BY <1>3 DEF fileStore!StageWrite, fileStore!StageAdd, fileStore!Check, fileStore!Commit, fileStore!SaveFails, fileStore!CommitStaged
  <2> QED BY <2>1, <2>2
<1>4. ASSUME NEW f \in Files, fileStore!DeleteFile(f)
      PROVE  UNCHANGED <<saves, reset, syncs>>
  BY <1>4 DEF fileStore!DeleteFile
<1>5. CASE \/ fileStore!StartReset \/ fileStore!ResetHead \/ fileStore!ResetCheckout \/ fileStore!ResetDone \/ fileStore!ResetFails
           \/ \E y \in Syncs : fileStore!ReadHead(y) \/ fileStore!ReadHeadFails(y) \/ fileStore!SetMap(y)
  <2>1. UNCHANGED saves
    BY <1>5 DEF fileStore!StartReset, fileStore!ResetHead, fileStore!ResetCheckout, fileStore!ResetDone, fileStore!ResetFails, fileStore!ReadHead,
                fileStore!ReadHeadFails, fileStore!SetMap
  <2> QED BY <1>1, <1>5, <2>1, StepOfReset
<1>6. CASE fileStore!Evict
  <2>1. SavesAre
    BY <1>6, SavesAfterEviction
  <2>2. reset' = fileStore!NoReset /\ syncs' = [y \in Syncs |-> fileStore!NoSync]
    BY <1>6 DEF fileStore!Evict
  <2> QED BY <2>1, <2>2, NothingThere DEF SavesAre
<1> QED BY <1>1, <1>2, <1>3, <1>4, <1>5, <1>6 DEF fileStore!Next, SavesAre

-----------------------------------------------------------------------------
(* What a step leaves of its save.                                         *)
LEMMA SaveLeft ==
  ASSUME Shape, NEW s \in Saves
  PROVE  /\ saves[s].pc \notin {"write", "add"} => fileStore!FilesOf(saves[s]) = {}
         /\ fileStore!CommitStaged(s) \/ fileStore!Check(s) \/ fileStore!Commit(s) =>
              fileStore!FilesOf(saves[s]) = {} /\ fileStore!FilesOf(saves'[s]) = {}
         /\ fileStore!SaveFails(s) => fileStore!FilesOf(saves'[s]) = {}
         /\ fileStore!StageWrite(s) => /\ saves'[s].pc = "add" /\ saves'[s].files = saves[s].files
                                       /\ saves'[s].contents = saves[s].contents
                                       /\ fileStore!FilesOf(saves'[s]) = fileStore!FilesOf(saves[s])
         /\ fileStore!StageAdd(s) => /\ fileStore!FilesOf(saves'[s]) = fileStore!FilesOf(saves[s]) \ {saves[s].files[1]}
                                     /\ saves'[s].pc # "add"
                                     /\ \A f \in fileStore!FilesOf(saves'[s]) :
                                          saves'[s].contents = saves[s].contents
         /\ fileStore!StageWrite(s) \/ fileStore!StageAdd(s) =>
              /\ Head(saves[s].files) = saves[s].files[1] /\ saves[s].files[1] \in Files
              /\ saves[s].files[1] \in fileStore!FilesOf(saves[s])
<1>1. /\ saves \in [Saves -> fileStore!Save] /\ saves[s] \in fileStore!Save
      /\ saves[s].files \in Seq(Files)
      /\ saves[s].pc \in {"write", "add"} <=> saves[s].files # << >>
      /\ \A i, j \in DOMAIN saves[s].files : saves[s].files[i] = saves[s].files[j] => i = j
  BY ShapeOfSaves DEF SaveShape, fileStore!Save, Shape
<1>2. ASSUME saves[s].pc \notin {"write", "add"} PROVE fileStore!FilesOf(saves[s]) = {}
  BY <1>1, <1>2 DEF fileStore!FilesOf
<1>3. ASSUME saves'[s] = fileStore!NoSave PROVE fileStore!FilesOf(saves'[s]) = {}
  BY <1>3, NoSaveIs
<1>4. ASSUME fileStore!CommitStaged(s) PROVE fileStore!FilesOf(saves[s]) = {} /\ fileStore!FilesOf(saves'[s]) = {}
  <2>1. saves'[s] = [fileStore!NoSave EXCEPT !.pc = "check", !.message = TRUE]
    BY <1>1, <1>4 DEF fileStore!CommitStaged
  <2>2. saves'[s].files = << >>
    BY <2>1 DEF fileStore!NoSave
  <2>3. DOMAIN saves'[s].files = {}
    BY <2>2
  <2>4. fileStore!FilesOf(saves'[s]) = {}
    BY <2>3 DEF fileStore!FilesOf
  <2>5. saves[s].pc = "off"
    BY <1>4 DEF fileStore!CommitStaged
  <2> QED BY <1>2, <2>4, <2>5
<1>5. ASSUME fileStore!Check(s) PROVE fileStore!FilesOf(saves[s]) = {} /\ fileStore!FilesOf(saves'[s]) = {}
  <2>1. saves'[s] = fileStore!NoSave \/ saves'[s] = [saves[s] EXCEPT !.pc = "commit"]
    BY <1>1, <1>5 DEF fileStore!Check
  <2>2. saves'[s] = fileStore!NoSave \/ saves'[s].files = saves[s].files
    BY <1>1, <2>1 DEF fileStore!Save
  <2>3. fileStore!FilesOf(saves[s]) = {}
    BY <1>2, <1>5 DEF fileStore!Check
  <2> QED BY <1>3, <2>2, <2>3 DEF fileStore!FilesOf
<1>6. ASSUME fileStore!Commit(s) PROVE fileStore!FilesOf(saves[s]) = {} /\ fileStore!FilesOf(saves'[s]) = {}
  BY <1>1, <1>2, <1>3, <1>6 DEF fileStore!Commit
<1>7. ASSUME fileStore!SaveFails(s) PROVE fileStore!FilesOf(saves'[s]) = {}
  BY <1>1, <1>3, <1>7 DEF fileStore!SaveFails
<1>8. ASSUME fileStore!StageWrite(s)
      PROVE  /\ saves'[s].pc = "add" /\ saves'[s].files = saves[s].files
             /\ saves'[s].contents = saves[s].contents
             /\ fileStore!FilesOf(saves'[s]) = fileStore!FilesOf(saves[s])
  <2>1. saves'[s] = [saves[s] EXCEPT !.pc = "add"]
    BY <1>1, <1>8 DEF fileStore!StageWrite
  <2>2. /\ saves'[s].pc = "add" /\ saves'[s].files = saves[s].files
        /\ saves'[s].contents = saves[s].contents
    BY <1>1, <2>1 DEF fileStore!Save
  <2> QED BY <2>2 DEF fileStore!FilesOf
<1>9. ASSUME fileStore!StageWrite(s) \/ fileStore!StageAdd(s)
      PROVE  /\ Head(saves[s].files) = saves[s].files[1] /\ saves[s].files[1] \in Files
             /\ saves[s].files[1] \in fileStore!FilesOf(saves[s])
             /\ {Tail(saves[s].files)[i] : i \in DOMAIN Tail(saves[s].files)}
                  = fileStore!FilesOf(saves[s]) \ {saves[s].files[1]}
  <2>1. saves[s].files # << >>
    BY <1>1, <1>9 DEF fileStore!StageWrite, fileStore!StageAdd
  <2> QED BY <1>1, <2>1, RestIs DEF fileStore!FilesOf
<1>10. ASSUME fileStore!StageAdd(s)
       PROVE  /\ fileStore!FilesOf(saves'[s]) = fileStore!FilesOf(saves[s]) \ {saves[s].files[1]}
              /\ saves'[s].pc # "add"
              /\ \A f \in fileStore!FilesOf(saves'[s]) : saves'[s].contents = saves[s].contents
  <2> DEFINE rest == Tail(saves[s].files)
  <2>1. \/ rest = << >> /\ saves'[s] = fileStore!NoSave
        \/ saves'[s] = [saves[s] EXCEPT !.files = rest,
                           !.pc = IF rest = << >> THEN "check" ELSE "write"]
    BY <1>1, <1>10 DEF fileStore!StageAdd
  <2>2. CASE rest = << >> /\ saves'[s] = fileStore!NoSave
    <3>1. {rest[i] : i \in DOMAIN rest} = {}
      BY <2>2
    <3> QED BY <1>9, <1>10, <2>2, <3>1, NoSaveIs
  <2>3. CASE saves'[s] = [saves[s] EXCEPT !.files = rest,
                           !.pc = IF rest = << >> THEN "check" ELSE "write"]
    <3>1. saves'[s].files = rest /\ saves'[s].pc # "add" /\ saves'[s].contents = saves[s].contents
      BY <1>1, <2>3 DEF fileStore!Save
    <3> QED BY <1>9, <1>10, <3>1 DEF fileStore!FilesOf
  <2> QED BY <2>1, <2>2, <2>3
<1> QED BY <1>2, <1>4, <1>5, <1>6, <1>7, <1>8, <1>9, <1>10

StepsOfOne(s) ==
  fileStore!CommitStaged(s) \/ fileStore!StageWrite(s) \/ fileStore!StageAdd(s) \/ fileStore!Check(s) \/ fileStore!Commit(s) \/ fileStore!SaveFails(s)

LEMMA SavingShrinks ==
  ASSUME Shape, NEW s \in Saves, StepsOfOne(s)
  PROVE  fileStore!Saving' \subseteq fileStore!Saving
<1>1. fileStore!FilesOf(saves'[s]) \subseteq fileStore!FilesOf(saves[s])
  BY SaveLeft DEF StepsOfOne
<1>2. \A r \in Saves : r # s => saves'[r] = saves[r]
  BY StepOfSave DEF StepsOfOne
<1> QED BY <1>1, <1>2 DEF fileStore!Saving

LEMMA SavingGrows ==
  ASSUME Shape, NEW s \in Saves, NEW files, NEW contents, StartsWriting(s, files, contents),
         \A r \in Saves : r # s => saves'[r] = saves[r]
  PROVE  fileStore!Saving' \subseteq fileStore!Saving \cup files
BY DEF StartsWriting, fileStore!Saving

LEMMA TouchedKept ==
  ASSUME fileStore!FileStoreAssumption, Shape, SavesTouched, fileStore!Next
  PROVE  SavesTouched'
<1> SUFFICES ASSUME fileStore!Resetting' PROVE fileStore!Saving' \subseteq touched'
  BY DEF SavesTouched
<1>1. ASSUME NEW s \in Saves, fileStore!SaveGeneratedFiles(s)
      PROVE  fileStore!Saving' \subseteq touched'
  <2>1. fileStore!Resetting
    BY <1>1 DEF fileStore!SaveGeneratedFiles, fileStore!Resetting
  <2>2. PICK files \in SUBSET Files : \E contents \in [files -> Texts \cup {Blank}] :
           /\ \A r \in Saves : r # s => saves'[r] = saves[r]
           /\ touched' = IF fileStore!Resetting THEN touched \cup files ELSE touched
           /\ StartsWriting(s, files, contents) \/ saves' = saves
    BY <1>1, FilesSaved
  <2>3. fileStore!Saving' \subseteq fileStore!Saving \cup files
    <3>1. CASE saves' = saves
      BY <3>1 DEF fileStore!Saving
    <3> QED BY <2>2, <3>1, SavingGrows
  <2> QED BY <2>1, <2>2, <2>3 DEF SavesTouched
<1>2. ASSUME NEW s \in Saves, StepsOfOne(s)
      PROVE  fileStore!Saving' \subseteq touched'
  <2>1. UNCHANGED <<reset, syncs, touched>>
    BY <1>2 DEF StepsOfOne, fileStore!StageWrite, fileStore!StageAdd, fileStore!Check, fileStore!Commit, fileStore!SaveFails, fileStore!CommitStaged
  <2> QED BY <1>2, <2>1, SavingShrinks DEF SavesTouched, fileStore!Resetting
<1>3. ASSUME NEW f \in Files, fileStore!DeleteFile(f)
      PROVE  fileStore!Saving' \subseteq touched'
  <2>1. UNCHANGED <<reset, syncs, saves>> /\ touched \subseteq touched'
    BY <1>3 DEF fileStore!DeleteFile
  <2> QED BY <2>1 DEF SavesTouched, fileStore!Resetting, fileStore!Saving
<1>4. CASE fileStore!StartReset
  BY <1>4 DEF fileStore!StartReset, fileStore!Saving
<1>5. CASE \/ fileStore!ResetHead \/ fileStore!ResetCheckout \/ fileStore!ResetDone \/ fileStore!ResetFails
           \/ \E y \in Syncs : fileStore!ReadHead(y) \/ fileStore!ReadHeadFails(y) \/ fileStore!SetMap(y)
  <2>1. UNCHANGED <<saves, touched>>
    BY <1>5 DEF fileStore!ResetHead, fileStore!ResetCheckout, fileStore!ResetDone, fileStore!ResetFails, fileStore!ReadHead, fileStore!ReadHeadFails, fileStore!SetMap
  <2>2. fileStore!Resetting
    BY <1>5 DEF fileStore!ResetHead, fileStore!ResetCheckout, fileStore!ResetDone, fileStore!ResetFails, fileStore!ReadHead, fileStore!ReadHeadFails, fileStore!SetMap,
                fileStore!Resetting
  <2> QED BY <2>1, <2>2 DEF SavesTouched, fileStore!Saving
<1>6. CASE fileStore!Evict
  BY <1>6 DEF fileStore!Evict, fileStore!Resetting, fileStore!NoReset, fileStore!NoSync
<1> QED BY <1>1, <1>2, <1>3, <1>4, <1>5, <1>6 DEF fileStore!Next, StepsOfOne

(* Fetched, of what git and the syncs are.                                 *)
LEMMA FetchedKept ==
  ASSUME fileStore!FileStoreAssumption, Shape, SavesTouched, Fetched, fileStore!Next
  PROVE  Fetched'
<1>0. /\ syncs \in [Syncs -> SyncType] /\ reset \in ResetType
      /\ head \in fileStore!Tree /\ index \in fileStore!Tree
  BY DEF Shape, SyncType, ResetType
<1>1. ASSUME UNCHANGED <<reset, syncs>>, touched \subseteq touched',
             fileStore!Resetting => \A f \in Files \ touched : index'[f] = index[f],
             \/ fileStore!Resetting => \A f \in Files \ touched : head'[f] = head[f]
             \/ head' = index'
      PROVE  Fetched'
  <2>1. ASSUME reset.pc = "list", NEW f \in Files \ touched' PROVE index'[f] = head'[f]
    <3>1. fileStore!Resetting /\ f \in Files \ touched /\ index[f] = head[f]
      BY <1>1, <2>1 DEF fileStore!Resetting, Fetched
    <3> QED BY <1>1, <3>1
  <2>2. ASSUME NEW y \in Syncs, ~syncs[y].late, syncs[y].pc = "read", NEW f \in Files \ touched'
        PROVE  index'[f] = head'[f]
    <3>1. fileStore!Resetting /\ f \in Files \ touched /\ index[f] = head[f]
      BY <1>1, <2>2 DEF fileStore!Resetting, Fetched
    <3> QED BY <1>1, <3>1
  <2>3. ASSUME NEW y \in Syncs, ~syncs[y].late, syncs[y].pc = "set", NEW f \in Files \ touched'
        PROVE  fileStore!Text(syncs[y].tree[f]) = fileStore!Text(index'[f])
    <3>1. fileStore!Resetting /\ f \in Files \ touched /\ fileStore!Text(syncs[y].tree[f]) = fileStore!Text(index[f])
      BY <1>1, <2>3 DEF fileStore!Resetting, Fetched
    <3> QED BY <1>1, <3>1
  <2> QED BY <1>1, <2>1, <2>2, <2>3 DEF Fetched
<1>2. ASSUME NEW s \in Saves, fileStore!SaveGeneratedFiles(s)
      PROVE  Fetched'
  <2>1. UNCHANGED <<reset, syncs, index, head>>
    BY <1>2 DEF fileStore!SaveGeneratedFiles, fileStore!git
  <2>2. touched \subseteq touched'
    BY <1>2, FilesSaved
  <2> QED BY <1>1, <2>1, <2>2
<1>3. ASSUME NEW s \in Saves, fileStore!CommitStaged(s) \/ fileStore!StageWrite(s) \/ fileStore!Check(s) \/ fileStore!SaveFails(s)
      PROVE  Fetched'
  <2>1. UNCHANGED <<reset, syncs, index, head, touched>>
    BY <1>3 DEF fileStore!StageWrite, fileStore!Check, fileStore!SaveFails, fileStore!CommitStaged, fileStore!git
  <2> QED BY <1>1, <2>1
<1>4. ASSUME NEW s \in Saves, fileStore!StageAdd(s)
      PROVE  Fetched'
  <2>1. UNCHANGED <<reset, syncs, head, touched>>
    BY <1>4 DEF fileStore!StageAdd
  <2>2. index' = [index EXCEPT ![saves[s].files[1]] = workdir[saves[s].files[1]]]
    BY <1>4, SaveLeft, Zenon DEF fileStore!StageAdd
  <2>3. saves[s].files[1] \in fileStore!Saving
    BY <1>4, SaveLeft DEF fileStore!Saving
  <2>4. fileStore!Resetting => \A f \in Files \ touched : index'[f] = index[f]
    <3>1. fileStore!Resetting => saves[s].files[1] \in touched
      BY <2>3 DEF SavesTouched
    <3> QED BY <1>0, <2>2, <3>1 DEF fileStore!Tree
  <2> QED BY <1>1, <2>1, <2>4
<1>5. ASSUME NEW s \in Saves, fileStore!Commit(s)
      PROVE  Fetched'
  <2>1. UNCHANGED <<reset, syncs, index, touched>> /\ head' = index'
    BY <1>5 DEF fileStore!Commit
  <2> QED BY <1>1, <2>1
<1>6. ASSUME NEW f \in Files, fileStore!DeleteFile(f)
      PROVE  Fetched'
  <2>1. UNCHANGED <<reset, syncs, index, head>> /\ touched \subseteq touched'
    BY <1>6 DEF fileStore!DeleteFile, fileStore!git
  <2> QED BY <1>1, <2>1
<1>7. CASE fileStore!StartReset
  <2>1. reset'.pc = "head" /\ UNCHANGED <<syncs, index, head>>
    BY <1>7 DEF fileStore!StartReset, fileStore!git
  <2>2. fileStore!Resetting => touched \subseteq touched'
    BY <1>7 DEF fileStore!StartReset
  <2>3. (\E y \in Syncs : syncs[y].pc # "off") => touched \subseteq touched'
    BY <2>2 DEF fileStore!Resetting
  <2>4. ASSUME NEW y \in Syncs, ~syncs[y].late
        PROVE  /\ syncs[y].pc = "read" => \A f \in Files \ touched' : index[f] = head[f]
               /\ syncs[y].pc = "set" => \A f \in Files \ touched' :
                                           fileStore!Text(syncs[y].tree[f]) = fileStore!Text(index[f])
    <3>1. CASE syncs[y].pc = "read"
      BY <2>3, <2>4, <3>1 DEF Fetched
    <3>2. CASE syncs[y].pc = "set"
      BY <2>3, <2>4, <3>2 DEF Fetched
    <3> QED BY <3>1, <3>2
  <2> QED BY <2>1, <2>4 DEF Fetched
<1>8. CASE fileStore!ResetHead
  <2>1. reset'.pc = "checkout"
    BY <1>0, <1>8 DEF fileStore!ResetHead, ResetType
  <2>2. \A y \in Syncs : syncs'[y] = IF syncs[y].pc = "off" THEN fileStore!NoSync
                               ELSE [syncs[y] EXCEPT !.late = TRUE]
    BY <1>8 DEF fileStore!ResetHead
  <2>3. \A y \in Syncs : syncs'[y].pc = "off" \/ syncs'[y].late
    <3> SUFFICES ASSUME NEW y \in Syncs PROVE syncs'[y].pc = "off" \/ syncs'[y].late
      OBVIOUS
    <3>1. CASE syncs[y].pc = "off"
      <4>1. syncs'[y] = fileStore!NoSync
        BY <2>2, <3>1
      <4> QED BY <4>1 DEF fileStore!NoSync
    <3>2. CASE syncs[y].pc # "off"
      <4>1. syncs'[y] = [syncs[y] EXCEPT !.late = TRUE] /\ syncs[y] \in SyncType
        BY <1>0, <2>2, <3>2
      <4>2. syncs'[y].late = TRUE
        BY <4>1 DEF SyncType
      <4> QED BY <4>2
    <3> QED BY <3>1, <3>2
  <2> QED BY <2>1, <2>3 DEF Fetched
<1>9. CASE fileStore!ResetCheckout
  <2>1. index' = head' /\ UNCHANGED syncs
    BY <1>9 DEF fileStore!ResetCheckout
  <2>2. \A y \in Syncs : syncs[y].pc = "off" \/ syncs[y].late
    BY <1>9 DEF fileStore!ResetCheckout, Fetched
  <2> QED BY <2>1, <2>2 DEF Fetched
<1>10. CASE fileStore!ResetDone
  <2>1. PICK y \in Syncs : syncs' = [syncs EXCEPT ![y].pc = "read"]
    BY <1>10 DEF fileStore!ResetDone
  <2>2. reset'.pc = "off" /\ UNCHANGED <<index, head, touched>>
    BY <1>10 DEF fileStore!ResetDone, fileStore!NoReset, fileStore!git
  <2>3. \A f \in Files \ touched : index[f] = head[f]
    BY <1>10 DEF fileStore!ResetDone, Fetched
  <2>4. \A z \in Syncs \ {y} : syncs'[z].pc = "off" \/ syncs'[z].late
    BY <1>0, <1>10, <2>1 DEF fileStore!ResetDone, Fetched
  <2>5. syncs'[y].pc = "read"
    BY <1>0, <2>1 DEF SyncType
  <2> QED BY <2>2, <2>3, <2>4, <2>5 DEF Fetched
<1>11. CASE fileStore!ResetFails
  <2>1. reset'.pc = "off" /\ UNCHANGED <<syncs, index, head, touched>>
    BY <1>11 DEF fileStore!ResetFails, fileStore!NoReset, fileStore!git
  <2> QED BY <2>1 DEF Fetched
<1>12. ASSUME NEW y \in Syncs, fileStore!ReadHead(y) \/ fileStore!ReadHeadFails(y) \/ fileStore!SetMap(y)
       PROVE  Fetched'
  <2>1. UNCHANGED <<reset, index, head, touched>>
    BY <1>12 DEF fileStore!ReadHead, fileStore!ReadHeadFails, fileStore!SetMap, fileStore!git
  <2>2. \A z \in Syncs : z # y => syncs'[z] = syncs[z]
    BY <1>0, <1>12 DEF fileStore!ReadHead, fileStore!ReadHeadFails, fileStore!SetMap
  <2>3. \/ syncs'[y].pc = "off"
        \/ syncs'[y].late
        \/ /\ ~syncs[y].late /\ syncs[y].pc = "read" /\ syncs'[y].pc = "set"
           /\ \A f \in Files : syncs'[y].tree[f] = IF head[f] = Blank THEN Absent ELSE head[f]
    <3>1. CASE fileStore!ReadHead(y)
      <4> DEFINE tree == [f \in Files |-> IF head[f] = Blank THEN Absent ELSE head[f]]
      <4>1. syncs' = [syncs EXCEPT ![y] = [syncs[y] EXCEPT !.pc = "set", !.tree = tree]]
            /\ syncs[y].pc = "read"
        BY <3>1 DEF fileStore!ReadHead
      <4> HIDE DEF tree
      <4>2. /\ syncs'[y].pc = "set" /\ syncs'[y].tree = tree /\ syncs'[y].late = syncs[y].late
        BY <1>0, <4>1 DEF SyncType
      <4> QED BY <4>1, <4>2 DEF tree
    <3>2. CASE fileStore!ReadHeadFails(y)
      BY <1>0, <3>2 DEF fileStore!ReadHeadFails, SyncType
    <3>3. CASE fileStore!SetMap(y)
      BY <1>0, <3>3 DEF fileStore!SetMap, fileStore!NoSync
    <3> QED BY <1>12, <3>1, <3>2, <3>3
  <2>4. reset.pc \in {"checkout", "list"} => syncs'[y].pc = "off" \/ syncs'[y].late
    BY <1>12, <2>3 DEF Fetched
  <2>5. ~syncs'[y].late => /\ syncs'[y].pc # "read"
                           /\ syncs'[y].pc = "set" => \A f \in Files \ touched :
                                          fileStore!Text(syncs'[y].tree[f]) = fileStore!Text(index[f])
    <3>1. CASE syncs'[y].pc = "off" \/ syncs'[y].late
      BY <3>1
    <3>2. CASE /\ ~syncs[y].late /\ syncs[y].pc = "read" /\ syncs'[y].pc = "set"
               /\ \A f \in Files : syncs'[y].tree[f] = IF head[f] = Blank THEN Absent ELSE head[f]
      <4>1. \A f \in Files \ touched : index[f] = head[f]
        BY <3>2 DEF Fetched
      <4>2. \A f \in Files : fileStore!Text(syncs'[y].tree[f]) = fileStore!Text(head[f])
        BY <3>2 DEF fileStore!Text
      <4> QED BY <3>2, <4>1, <4>2
    <3> QED BY <2>3, <3>1, <3>2
  <2> QED BY <2>1, <2>2, <2>4, <2>5 DEF Fetched
<1>13. CASE fileStore!Evict
  <2>1. reset'.pc = "off" /\ \A y \in Syncs : syncs'[y].pc = "off"
    BY <1>13 DEF fileStore!Evict, fileStore!NoReset, fileStore!NoSync
  <2> QED BY <2>1 DEF Fetched
<1> QED BY <1>2, <1>3, <1>4, <1>5, <1>6, <1>7, <1>8, <1>9, <1>10, <1>11, <1>12, <1>13 DEF fileStore!Next

(* Agreed, of the map and the index.  A file none of whose saves moves.    *)
SameFor(f) ==
  /\ fileStore!Text(map'[f]) = fileStore!Text(map[f]) /\ fileStore!Text(index'[f]) = fileStore!Text(index[f])
  /\ workdir'[f] = workdir[f]
  /\ \A s \in Saves : f \in fileStore!FilesOf(saves'[s]) =>
       /\ f \in fileStore!FilesOf(saves[s]) /\ saves'[s].contents = saves[s].contents
       /\ saves'[s].pc = "add" /\ saves'[s].files[1] = f => saves[s].pc = "add" /\ saves[s].files[1] = f
  /\ f \in fileStore!Saving => f \in fileStore!Saving'

LEMMA StillAgrees ==
  ASSUME NEW f, FileAgrees(f), SameFor(f)
  PROVE  FileAgrees(f)'
<1>1. \A s, r \in Saves : f \in fileStore!FilesOf(saves[s]) /\ f \in fileStore!FilesOf(saves[r]) => s = r
  BY DEF FileAgrees
<1>2. \A s \in Saves : f \in fileStore!FilesOf(saves[s]) =>
       /\ fileStore!Text(saves[s].contents[f]) = fileStore!Text(map[f])
       /\ saves[s].pc = "add" /\ saves[s].files[1] = f => workdir[f] = saves[s].contents[f]
  BY DEF FileAgrees
<1>3. f \notin fileStore!Saving => fileStore!Text(map[f]) = fileStore!Text(index[f])
  BY DEF FileAgrees
<1>4. \A s \in Saves : f \in fileStore!FilesOf(saves'[s]) =>
       /\ f \in fileStore!FilesOf(saves[s]) /\ saves'[s].contents = saves[s].contents
       /\ saves'[s].pc = "add" /\ saves'[s].files[1] = f => saves[s].pc = "add" /\ saves[s].files[1] = f
  BY DEF SameFor
<1>5. \A s, r \in Saves : f \in fileStore!FilesOf(saves'[s]) /\ f \in fileStore!FilesOf(saves'[r]) => s = r
  BY <1>1, <1>4
<1>6. ASSUME NEW s \in Saves, f \in fileStore!FilesOf(saves'[s])
      PROVE  /\ fileStore!Text(saves'[s].contents[f]) = fileStore!Text(map'[f])
             /\ saves'[s].pc = "add" /\ saves'[s].files[1] = f => workdir'[f] = saves'[s].contents[f]
  BY <1>2, <1>4, <1>6 DEF SameFor
<1>7. f \notin fileStore!Saving' => fileStore!Text(map'[f]) = fileStore!Text(index'[f])
  BY <1>3 DEF SameFor
<1> QED BY <1>5, <1>6, <1>7 DEF FileAgrees

(* When no save has the file.                                              *)
LEMMA AgreesUnsaved ==
  ASSUME NEW f, \A s \in Saves : f \notin fileStore!FilesOf(saves'[s]), fileStore!Text(map'[f]) = fileStore!Text(index'[f])
  PROVE  FileAgrees(f)'
BY DEF FileAgrees

LEMMA SaveKeepsAgreed ==
  ASSUME fileStore!FileStoreAssumption, Shape, Agreed, NEW s \in Saves, fileStore!SaveGeneratedFiles(s)
  PROVE  Agreed'
<1>0. UNCHANGED <<reset, syncs, index, workdir>> /\ saves[s].pc = "off"
  BY DEF fileStore!SaveGeneratedFiles, fileStore!git
<1> SUFFICES ASSUME Settled, NEW f \in Files \ doubtful' PROVE FileAgrees(f)'
  BY <1>0 DEF Agreed, Settled
<1>1. PICK files \in SUBSET Files : \E contents \in [files -> Texts \cup {Blank}] :
           /\ SavesAre /\ \A r \in Saves : r # s => saves'[r] = saves[r]
           /\ map' = [g \in Files |-> IF g \in files THEN contents[g] ELSE map[g]]
           /\ \/ /\ StartsWriting(s, files, contents)
                 /\ doubtful' = IF fileStore!Resetting THEN doubtful \cup files
                                ELSE (doubtful \ files) \cup (files \cap fileStore!Saving)
              \/ /\ saves' = saves /\ \A g \in files : fileStore!Text(map[g]) = contents[g]
                 /\ doubtful' = IF fileStore!Resetting THEN doubtful \cup files ELSE doubtful
  BY FilesSaved
<1>2. PICK contents \in [files -> Texts \cup {Blank}] :
           /\ \A r \in Saves : r # s => saves'[r] = saves[r]
           /\ map' = [g \in Files |-> IF g \in files THEN contents[g] ELSE map[g]]
           /\ \/ /\ StartsWriting(s, files, contents)
                 /\ doubtful' = IF fileStore!Resetting THEN doubtful \cup files
                                ELSE (doubtful \ files) \cup (files \cap fileStore!Saving)
              \/ /\ saves' = saves /\ \A g \in files : fileStore!Text(map[g]) = contents[g]
                 /\ doubtful' = IF fileStore!Resetting THEN doubtful \cup files ELSE doubtful
  BY <1>1
<1>3. map'[f] = IF f \in files THEN contents[f] ELSE map[f]
  BY <1>2
<1>4. fileStore!FilesOf(saves[s]) = {}
  BY <1>0, SaveLeft
<1>5. CASE StartsWriting(s, files, contents) /\ f \notin files
  <2>1. f \notin doubtful
    BY <1>2, <1>5, <1>4
  <2>2. FileAgrees(f)
    BY <2>1 DEF Agreed
  <2>3. \A r \in Saves : f \in fileStore!FilesOf(saves'[r]) => r # s
    BY <1>5 DEF StartsWriting
  <2>4. SameFor(f)
    <3>1. \A r \in Saves : f \in fileStore!FilesOf(saves[r]) => r # s
      BY <1>4
    <3>2. f \in fileStore!Saving => f \in fileStore!Saving'
      BY <1>2, <3>1 DEF fileStore!Saving
    <3>3. \A r \in Saves : f \in fileStore!FilesOf(saves'[r]) => saves'[r] = saves[r]
      BY <1>2, <2>3
    <3>4. map'[f] = map[f] /\ index'[f] = index[f] /\ workdir'[f] = workdir[f]
      BY <1>0, <1>3, <1>5
    <3>5. \A r \in Saves : f \in fileStore!FilesOf(saves'[r]) => f \in fileStore!FilesOf(saves[r])
      BY <3>3
    <3>6. \A r \in Saves : f \in fileStore!FilesOf(saves'[r]) =>
           /\ f \in fileStore!FilesOf(saves[r]) /\ saves'[r].contents = saves[r].contents
           /\ saves'[r].pc = "add" /\ saves'[r].files[1] = f
                => saves[r].pc = "add" /\ saves[r].files[1] = f
      BY <3>3, <3>5
    <3>7. fileStore!Text(map'[f]) = fileStore!Text(map[f]) /\ fileStore!Text(index'[f]) = fileStore!Text(index[f])
      BY <3>4
    <3> QED BY <3>2, <3>4, <3>6, <3>7, Zenon DEF SameFor
  <2> QED BY <2>2, <2>4, StillAgrees
<1>6. CASE /\ StartsWriting(s, files, contents) /\ f \in files
           /\ doubtful' = IF fileStore!Resetting THEN doubtful \cup files
                                ELSE (doubtful \ files) \cup (files \cap fileStore!Saving)
  <2>1. f \notin fileStore!Saving
    BY <1>6
  <2>2. \A r \in Saves : f \in fileStore!FilesOf(saves'[r]) <=> r = s
    BY <1>2, <1>6, <2>1, Savings DEF StartsWriting
  <2>3. saves'[s].contents[f] = map'[f] /\ saves'[s].pc = "write" /\ f \in fileStore!Saving'
    BY <1>3, <1>6 DEF StartsWriting, fileStore!Saving
  <2> QED BY <2>2, <2>3 DEF FileAgrees
<1>7. CASE /\ saves' = saves /\ \A g \in files : fileStore!Text(map[g]) = contents[g]
           /\ doubtful' = IF fileStore!Resetting THEN doubtful \cup files ELSE doubtful
  <2>1. FileAgrees(f)
    BY <1>7 DEF Agreed
  <2>2. fileStore!Text(map'[f]) = fileStore!Text(map[f])
    <3>1. f \in files => contents[f] # Absent
      BY DEF fileStore!FileStoreAssumption
    <3> QED BY <1>3, <1>7, <3>1 DEF fileStore!Text
  <2>3. index'[f] = index[f] /\ workdir'[f] = workdir[f] /\ saves' = saves
    BY <1>0, <1>7
  <2>4. SameFor(f)
    <3>1. \A r \in Saves : fileStore!FilesOf(saves'[r]) = fileStore!FilesOf(saves[r])
      BY <2>3
    <3>2. fileStore!Saving' = fileStore!Saving
      BY <3>1 DEF fileStore!Saving
    <3>3. \A r \in Saves : f \in fileStore!FilesOf(saves'[r]) =>
           /\ f \in fileStore!FilesOf(saves[r]) /\ saves'[r].contents = saves[r].contents
           /\ saves'[r].pc = "add" /\ saves'[r].files[1] = f
                => saves[r].pc = "add" /\ saves[r].files[1] = f
      BY <2>3, <3>1
    <3>4. fileStore!Text(index'[f]) = fileStore!Text(index[f])
      BY <2>3
    <3> QED BY <2>2, <2>3, <3>2, <3>3, <3>4, Zenon DEF SameFor
  <2> QED BY <2>1, <2>4, StillAgrees
<1> QED BY <1>2, <1>5, <1>6, <1>7

LEMMA StagingKeepsAgreed ==
  ASSUME fileStore!FileStoreAssumption, Shape, Agreed, NEW s \in Saves, StepsOfOne(s)
  PROVE  Agreed'
<1>0. UNCHANGED <<reset, syncs, map>> /\ doubtful \subseteq doubtful'
  BY DEF StepsOfOne, fileStore!StageWrite, fileStore!StageAdd, fileStore!Check, fileStore!Commit, fileStore!SaveFails, fileStore!CommitStaged
<1> SUFFICES ASSUME Settled, NEW f \in Files \ doubtful' PROVE FileAgrees(f)'
  BY <1>0 DEF Agreed, Settled
<1>1. FileAgrees(f)
  BY <1>0 DEF Agreed
<1>2. \A r \in Saves : r # s => saves'[r] = saves[r]
  BY StepOfSave DEF StepsOfOne
<1>3. index \in fileStore!Tree /\ workdir \in fileStore!Tree
  BY DEF Shape
<1>4. \A r \in Saves : f \in fileStore!FilesOf(saves[r]) /\ f \in fileStore!FilesOf(saves[s]) => r = s
  BY <1>1 DEF FileAgrees
<1>5. ASSUME fileStore!FilesOf(saves'[s]) = {}, f \notin fileStore!FilesOf(saves[s]), UNCHANGED <<index, workdir>>
      PROVE  FileAgrees(f)'
  <2>1. \A r \in Saves : f \in fileStore!FilesOf(saves'[r]) => saves'[r] = saves[r]
    BY <1>2, <1>5
  <2>2. \A r \in Saves : f \in fileStore!FilesOf(saves'[r]) =>
           /\ f \in fileStore!FilesOf(saves[r]) /\ saves'[r].contents = saves[r].contents
           /\ saves'[r].pc = "add" /\ saves'[r].files[1] = f
                => saves[r].pc = "add" /\ saves[r].files[1] = f
    BY <2>1
  <2>3. f \in fileStore!Saving => f \in fileStore!Saving'
    <3>1. \A r \in Saves : f \in fileStore!FilesOf(saves[r]) => f \in fileStore!FilesOf(saves'[r])
      BY <1>2, <1>5
    <3> QED BY <3>1 DEF fileStore!Saving
  <2>4. SameFor(f)
    BY <1>0, <1>5, <2>2, <2>3 DEF SameFor
  <2> QED BY <1>1, <2>4, StillAgrees
<1>6. CASE fileStore!CommitStaged(s) \/ fileStore!Check(s) \/ fileStore!Commit(s)
  <2>1. UNCHANGED <<index, workdir>>
    BY <1>6 DEF fileStore!CommitStaged, fileStore!Check, fileStore!Commit, fileStore!git
  <2> QED BY <1>5, <1>6, <2>1, SaveLeft
<1>7. CASE fileStore!SaveFails(s)
  <2>1. UNCHANGED <<index, workdir>> /\ f \notin fileStore!FilesOf(saves[s])
    BY <1>7 DEF fileStore!SaveFails, fileStore!git
  <2> QED BY <1>5, <1>7, <2>1, SaveLeft
<1>8. CASE fileStore!StageWrite(s)
  <2> DEFINE h == saves[s].files[1]
  <2>1. /\ saves'[s].pc = "add" /\ saves'[s].files = saves[s].files
        /\ saves'[s].contents = saves[s].contents
        /\ fileStore!FilesOf(saves'[s]) = fileStore!FilesOf(saves[s])
        /\ h \in Files /\ h \in fileStore!FilesOf(saves[s])
    BY <1>8, SaveLeft
  <2>2. workdir' = [workdir EXCEPT ![h] = saves[s].contents[h]] /\ UNCHANGED index
    BY <1>8, SaveLeft, Zenon DEF fileStore!StageWrite
  <2>3. \A r \in Saves : fileStore!FilesOf(saves'[r]) = fileStore!FilesOf(saves[r])
                         /\ saves'[r].contents = saves[r].contents
    BY <1>2, <2>1
  <2>4. fileStore!Saving' = fileStore!Saving
    BY <2>3 DEF fileStore!Saving
  <2>5. ASSUME NEW r \in Saves, f \in fileStore!FilesOf(saves'[r]), saves'[r].pc = "add", saves'[r].files[1] = f
        PROVE  workdir'[f] = saves'[r].contents[f]
    <3>1. CASE r = s
      <4>1. h = f
        BY <2>1, <2>5, <3>1
      <4>2. workdir'[f] = saves[s].contents[f]
        BY <1>3, <2>2, <4>1 DEF fileStore!Tree
      <4> QED BY <2>1, <3>1, <4>2
    <3>2. CASE r # s
      <4>1. saves'[r] = saves[r] /\ workdir[f] = saves[r].contents[f] /\ f \notin fileStore!FilesOf(saves[s])
        BY <1>1, <1>2, <1>4, <2>5, <3>2 DEF FileAgrees
      <4>2. h # f
        BY <2>1, <4>1
      <4>3. workdir'[f] = workdir[f]
        BY <1>3, <2>2, <4>2 DEF fileStore!Tree
      <4> QED BY <4>1, <4>3
    <3> QED BY <3>1, <3>2
  <2>6. \A r, q \in Saves : f \in fileStore!FilesOf(saves'[r]) /\ f \in fileStore!FilesOf(saves'[q]) => r = q
    BY <1>1, <2>3 DEF FileAgrees
  <2>7. \A r \in Saves : f \in fileStore!FilesOf(saves'[r]) => fileStore!Text(saves'[r].contents[f]) = fileStore!Text(map'[f])
    BY <1>0, <1>1, <2>3 DEF FileAgrees
  <2>8. f \notin fileStore!Saving' => fileStore!Text(map'[f]) = fileStore!Text(index'[f])
    BY <1>0, <1>1, <2>2, <2>4 DEF FileAgrees
  <2> QED BY <2>5, <2>6, <2>7, <2>8 DEF FileAgrees
<1>9. CASE fileStore!StageAdd(s)
  <2> DEFINE h == saves[s].files[1]
  <2>1. /\ fileStore!FilesOf(saves'[s]) = fileStore!FilesOf(saves[s]) \ {h}
        /\ saves'[s].pc # "add" /\ h \in Files /\ h \in fileStore!FilesOf(saves[s])
        /\ f \in fileStore!FilesOf(saves'[s]) => saves'[s].contents = saves[s].contents
    BY <1>9, SaveLeft
  <2>2. index' = [index EXCEPT ![h] = workdir[h]] /\ UNCHANGED workdir /\ saves[s].pc = "add"
    BY <1>9, SaveLeft, Zenon DEF fileStore!StageAdd
  <2>3. CASE f = h
    <3>1. \A r \in Saves : f \notin fileStore!FilesOf(saves'[r])
      <4>1. \A r \in Saves : f \in fileStore!FilesOf(saves[r]) => r = s
        BY <1>4, <2>1, <2>3
      <4>2. f \notin fileStore!FilesOf(saves'[s])
        BY <2>1, <2>3
      <4>3. \A r \in Saves : r # s => f \notin fileStore!FilesOf(saves'[r])
        BY <1>2, <4>1
      <4> QED BY <4>2, <4>3
    <3>2. f \in fileStore!FilesOf(saves[s]) /\ saves[s].pc = "add" /\ saves[s].files[1] = f
      BY <2>1, <2>2, <2>3
    <3>3. workdir[f] = saves[s].contents[f] /\ fileStore!Text(saves[s].contents[f]) = fileStore!Text(map[f])
      BY <1>1, <3>2 DEF FileAgrees
    <3>4. index'[f] = workdir[f]
      BY <1>3, <2>2, <2>3 DEF fileStore!Tree
    <3>5. fileStore!Text(map'[f]) = fileStore!Text(index'[f])
      BY <1>0, <3>3, <3>4
    <3> QED BY <3>1, <3>5, AgreesUnsaved
  <2>4. CASE f # h
    <3>1. index'[f] = index[f]
      BY <1>3, <2>2, <2>4 DEF fileStore!Tree
    <3>2. \A r \in Saves : f \in fileStore!FilesOf(saves'[r]) =>
             /\ f \in fileStore!FilesOf(saves[r]) /\ saves'[r].contents = saves[r].contents
             /\ saves'[r].pc = "add" /\ saves'[r].files[1] = f
                  => saves[r].pc = "add" /\ saves[r].files[1] = f
      <4> SUFFICES ASSUME NEW r \in Saves, f \in fileStore!FilesOf(saves'[r])
                   PROVE  /\ f \in fileStore!FilesOf(saves[r]) /\ saves'[r].contents = saves[r].contents
                          /\ saves'[r].pc = "add" /\ saves'[r].files[1] = f
                               => saves[r].pc = "add" /\ saves[r].files[1] = f
        BY Zenon
      <4>1. CASE r = s
        BY <2>1, <4>1
      <4>2. CASE r # s
        <5>1. saves'[r] = saves[r]
          BY <1>2, <4>2
        <5> QED BY <5>1
      <4> QED BY <4>1, <4>2
    <3>3. f \in fileStore!Saving => f \in fileStore!Saving'
      <4>1. \A r \in Saves : f \in fileStore!FilesOf(saves[r]) => f \in fileStore!FilesOf(saves'[r])
        BY <1>2, <2>1, <2>4
      <4> QED BY <4>1 DEF fileStore!Saving
    <3>4. SameFor(f)
      BY <1>0, <2>2, <3>1, <3>2, <3>3 DEF SameFor
    <3> QED BY <1>1, <3>4, StillAgrees
  <2> QED BY <2>3, <2>4
<1> QED BY <1>6, <1>7, <1>8, <1>9 DEF StepsOfOne

LEMMA AgreedKept ==
  ASSUME fileStore!FileStoreAssumption, Shape, Agreed, SavesTouched, Fetched, fileStore!Next
  PROVE  Agreed'
<1>0. syncs \in [Syncs -> SyncType] /\ reset \in ResetType
  BY DEF Shape, SyncType, ResetType
<1>1. ASSUME UNCHANGED <<map, index, workdir, saves>>, doubtful' = doubtful, Settled' => Settled
      PROVE  Agreed'
  BY <1>1 DEF Agreed, FileAgrees, fileStore!Saving
<1>2. ASSUME doubtful' = Files PROVE Agreed'
  BY <1>2 DEF Agreed
<1>3. ASSUME NEW f \in Files, fileStore!DeleteFile(f)
      PROVE  Agreed'
  <2>1. UNCHANGED <<saves, reset, syncs, index, workdir>> /\ doubtful' = doubtful \cup {f}
    BY <1>3 DEF fileStore!DeleteFile, fileStore!git
  <2>2. \A g \in Files : g # f => map'[g] = map[g]
    BY <1>3 DEF fileStore!DeleteFile, Shape, fileStore!Tree
  <2> SUFFICES ASSUME Settled, NEW g \in Files \ doubtful' PROVE FileAgrees(g)'
    BY <2>1 DEF Agreed, Settled
  <2>3. FileAgrees(g) /\ map'[g] = map[g]
    BY <2>1, <2>2 DEF Agreed
  <2>4. SameFor(g)
    BY <2>1, <2>3 DEF SameFor, fileStore!Saving
  <2> QED BY <2>3, <2>4, StillAgrees
<1>4. CASE fileStore!StartReset
  <2>1. UNCHANGED <<map, index, workdir, saves, syncs>> /\ doubtful' = doubtful
    BY <1>4 DEF fileStore!StartReset, fileStore!git
  <2>2. Settled' => Settled
    BY <1>4 DEF fileStore!StartReset, Settled
  <2> QED BY <1>1, <2>1, <2>2
<1>5. CASE fileStore!ResetHead
  <2>1. UNCHANGED <<map, index, workdir, saves>> /\ doubtful' = doubtful
    BY <1>5 DEF fileStore!ResetHead
  <2>2. Settled' => Settled
    <3> SUFFICES ASSUME NEW y \in Syncs, syncs[y].pc # "off" PROVE syncs'[y].pc # "off"
      BY <1>5 DEF fileStore!ResetHead, Settled
    <3>1. syncs'[y] = [syncs[y] EXCEPT !.late = TRUE]
      BY <1>5 DEF fileStore!ResetHead
    <3>2. syncs'[y].pc = syncs[y].pc
      BY <1>0, <3>1 DEF SyncType
    <3> QED BY <3>2
  <2> QED BY <1>1, <2>1, <2>2
<1>6. CASE fileStore!ResetCheckout
  <2>1. reset'.pc = "list"
    BY <1>0, <1>6 DEF fileStore!ResetCheckout, ResetType
  <2> QED BY <2>1 DEF Agreed, Settled
<1>7. CASE fileStore!ResetDone
  <2>1. PICK y \in Syncs : syncs' = [syncs EXCEPT ![y].pc = "read"]
    BY <1>7 DEF fileStore!ResetDone
  <2>2. syncs'[y].pc = "read"
    BY <1>0, <2>1 DEF SyncType
  <2> QED BY <2>2 DEF Agreed, Settled
<1>8. CASE fileStore!ResetFails
  <2>1. UNCHANGED <<map, index, workdir, saves, syncs>>
    BY <1>8 DEF fileStore!ResetFails, fileStore!git
  <2>2. doubtful' = IF reset.pc = "list" THEN Files ELSE doubtful
    BY <1>8 DEF fileStore!ResetFails
  <2>3. reset.pc # "list" => (Settled' => Settled)
    BY <2>1 DEF Settled
  <2> QED BY <1>1, <1>2, <2>1, <2>2, <2>3
<1>9. ASSUME NEW y \in Syncs, fileStore!ReadHead(y) \/ fileStore!ReadHeadFails(y)
      PROVE  Agreed'
  <2>1. syncs'[y].pc = "set"
    BY <1>0, <1>9 DEF fileStore!ReadHead, fileStore!ReadHeadFails, SyncType
  <2> QED BY <2>1 DEF Agreed, Settled
<1>10. ASSUME NEW y \in Syncs, fileStore!SetMap(y)
       PROVE  Agreed'
  <2>1. /\ UNCHANGED <<index, workdir, saves>> /\ map' = syncs[y].tree
        /\ doubtful' = IF syncs[y].late THEN Files ELSE touched
        /\ syncs[y].pc = "set"
    BY <1>10 DEF fileStore!SetMap, fileStore!git
  <2>2. CASE syncs[y].late
    BY <1>2, <2>1, <2>2
  <2>3. CASE ~syncs[y].late
    <3> SUFFICES ASSUME NEW f \in Files \ touched PROVE FileAgrees(f)'
      BY <2>1, <2>3 DEF Agreed
    <3>1. fileStore!Text(syncs[y].tree[f]) = fileStore!Text(index[f])
      BY <2>1, <2>3 DEF Fetched
    <3>2. f \notin fileStore!Saving
      BY <2>1 DEF SavesTouched, fileStore!Resetting
    <3>3. \A r \in Saves : f \notin fileStore!FilesOf(saves'[r])
      BY <2>1, <3>2, Savings
    <3> QED BY <2>1, <3>1, <3>3, AgreesUnsaved
  <2> QED BY <2>2, <2>3
<1>11. CASE fileStore!Evict
  <2>1. UNCHANGED <<index, workdir, map>>
    BY <1>11 DEF fileStore!Evict, fileStore!git
  <2>2. doubtful' = IF reset.pc = "list" \/ \E y \in Syncs : syncs[y].pc # "off" THEN Files
                    ELSE doubtful \cup fileStore!Saving
    BY <1>11 DEF fileStore!Evict
  <2>3. CASE Settled
    <3> SUFFICES ASSUME NEW f \in Files \ (doubtful \cup fileStore!Saving) PROVE FileAgrees(f)'
      BY <2>2, <2>3 DEF Agreed, Settled
    <3>1. FileAgrees(f) /\ f \notin fileStore!Saving
      BY <2>3 DEF Agreed
    <3>2. fileStore!Text(map'[f]) = fileStore!Text(index'[f])
      BY <2>1, <3>1 DEF FileAgrees
    <3>3. CASE \A r \in Saves : saves'[r] = fileStore!NoSave
      <4>1. \A r \in Saves : f \notin fileStore!FilesOf(saves'[r])
        BY <3>3, NoSaveIs
      <4> QED BY <3>2, <4>1, AgreesUnsaved
    <3>4. ASSUME NEW s \in Saves, StartsWriting(s, {g \in Files : map[g] # Absent}, map),
                 \A r \in Saves : r # s => saves'[r] = fileStore!NoSave
          PROVE  FileAgrees(f)'
      <4>1. \A r \in Saves : f \in fileStore!FilesOf(saves'[r]) => r = s
        BY <3>4, NoSaveIs
      <4>2. f \in fileStore!FilesOf(saves'[s]) => saves'[s].contents[f] = map'[f]
        BY <2>1, <3>4 DEF StartsWriting
      <4>3. saves'[s].pc = "write"
        BY <3>4 DEF StartsWriting
      <4> QED BY <3>2, <4>1, <4>2, <4>3 DEF FileAgrees
    <3> QED BY <1>11, <3>3, <3>4, SavesAfterEviction
  <2>4. CASE ~Settled
    BY <1>2, <2>2, <2>4 DEF Settled
  <2> QED BY <2>3, <2>4
<1> QED BY <1>3, <1>4, <1>5, <1>6, <1>7, <1>8, <1>9, <1>10, <1>11, SaveKeepsAgreed,
           StagingKeepsAgreed DEF fileStore!Next, StepsOfOne

LEMMA FilesInit == fileStore!Init => FilesInv
<1> SUFFICES ASSUME fileStore!Init PROVE FilesInv
  OBVIOUS
<1>1. /\ map = fileStore!NoFiles /\ workdir = fileStore!NoFiles /\ index = fileStore!NoFiles /\ head = fileStore!NoFiles
      /\ commits = {} /\ saves = [s \in Saves |-> fileStore!NoSave]
      /\ reset = fileStore!NoReset /\ syncs = [y \in Syncs |-> fileStore!NoSync]
      /\ doubtful = {} /\ touched = {}
  BY DEF fileStore!Init
<1>2. \A s \in Saves : SaveShape(saves[s]) /\ fileStore!FilesOf(saves[s]) = {}
  BY <1>1, NoSaveIs, NoSaveShape
<1>3. saves \in [Saves -> fileStore!Save]
  BY <1>1, NoSaveIs
<1>4. reset \in ResetType /\ syncs \in [Syncs -> SyncType]
  BY <1>1, NothingThere
<1>5. Shape
  BY <1>1, <1>2, <1>3, <1>4, NothingThere DEF Shape, SaveShape, ResetType, SyncType
<1>6. fileStore!Saving = {}
  BY <1>2 DEF fileStore!Saving
<1>7. Agreed /\ SavesTouched
  BY <1>1, <1>2, <1>6 DEF Agreed, FileAgrees, SavesTouched
<1>8. Fetched
  <2>1. reset.pc = "off" /\ \A y \in Syncs : syncs[y].pc = "off"
    BY <1>1 DEF fileStore!NoReset, fileStore!NoSync
  <2> QED BY <2>1 DEF Fetched
<1> QED BY <1>5, <1>7, <1>8 DEF FilesInv

LEMMA FilesStep ==
  ASSUME fileStore!FileStoreAssumption
  PROVE  FilesInv /\ [fileStore!Next]_(fileStore!vars) => FilesInv'
<1> SUFFICES ASSUME FilesInv, [fileStore!Next]_(fileStore!vars) PROVE FilesInv'
  OBVIOUS
<1>1. CASE fileStore!Next
  BY <1>1, ShapeKept, AgreedKept, TouchedKept, FetchedKept DEF FilesInv
<1>2. CASE UNCHANGED fileStore!vars
  <2>1. UNCHANGED <<map, workdir, index, head, commits, saves, reset, syncs, doubtful, touched>>
    BY <1>2 DEF fileStore!vars, fileStore!git
  <2>2. Shape'
    BY <2>1 DEF FilesInv, Shape
  <2>3. fileStore!Saving' = fileStore!Saving /\ (fileStore!Resetting' <=> fileStore!Resetting) /\ (Settled' <=> Settled)
    BY <2>1 DEF fileStore!Saving, fileStore!Resetting, Settled
  <2>4. Agreed'
    BY <2>1, <2>3 DEF FilesInv, Agreed, FileAgrees
  <2>5. SavesTouched'
    BY <2>1, <2>3 DEF FilesInv, SavesTouched
  <2>6. Fetched'
    BY <2>1 DEF FilesInv, Fetched
  <2> QED BY <2>2, <2>4, <2>5, <2>6 DEF FilesInv
<1> QED BY <1>1, <1>2

LEMMA QuietAgrees == FilesInv => MapAgreesWithGit
<1> SUFFICES ASSUME FilesInv, fileStore!Quiet, NEW f \in Files \ doubtful
             PROVE  fileStore!Text(map[f]) = fileStore!Text(index[f])
  BY DEF MapAgreesWithGit, fileStore!MapAgreesWithGit
<1>1. Settled /\ f \notin fileStore!Saving
  BY DEF fileStore!Quiet, Settled, fileStore!Resetting
<1> QED BY <1>1 DEF FilesInv, Agreed, FileAgrees

(* The map and git agree when nothing is in progress, for every number of  *)
(* files, of saves and syncs at once, of resets, failures and evictions    *)
(* (FileManager.ts: syncGeneratedFilesMapFromGit, saveGeneratedFiles).     *)
THEOREM FilesAgree ==
  ASSUME fileStore!FileStoreAssumption
  PROVE  fileStore!Spec => []MapAgreesWithGit
<1>1. FilesInv /\ [fileStore!Next]_(fileStore!vars) => FilesInv'
  BY FilesStep
<1>2. fileStore!Init => FilesInv
  BY FilesInit
<1>3. FilesInv => MapAgreesWithGit
  BY QuietAgrees
<1> QED BY <1>1, <1>2, <1>3, PTL DEF fileStore!Spec

-----------------------------------------------------------------------------
(* Every behaviour is one of one of these parts, in which the other does   *)
(* not move, so what is proved of one holds of the whole.                  *)
LEMMA StorageRunsEach == StorageSpec => Spec /\ fileStore!Spec
<1> DEFINE all == <<part, vars, fileVars>>
<1>1. StorageInit => Init /\ fileStore!Init
  BY DEF StorageInit
<1>2. [StorageNext]_all => [Next]_vars /\ [fileStore!Next]_(fileStore!vars)
  <2>1. UNCHANGED fileVars => UNCHANGED (fileStore!vars)
    BY DEF fileStore!vars, fileStore!git, fileVars
  <2>2. CASE UNCHANGED all
    BY <2>1, <2>2
  <2>3. CASE StorageNext
    BY <2>1, <2>3 DEF StorageNext
  <2> QED BY <2>2, <2>3
<1> HIDE DEF all
<1> QED BY <1>1, <1>2, PTL DEF StorageSpec, Spec, fileStore!Spec, all

(* All of it, of whichever runs.                                           *)
THEOREM StorageSound ==
  ASSUME fileStore!FileStoreAssumption, Preserve + 1 < MaxTurns
  PROVE  StorageSpec => /\ [](HistoriesAgree /\ MapAgreesWithGit)
                        /\ RunningBounded /\ LostToSnapshot
<1>1. Spec => []HistoriesAgree /\ RunningBounded /\ LostToSnapshot
  BY HistoriesStayTogether, RunningStaysBounded, SnapshotOnlyLoses, PTL
<1>2. fileStore!Spec => []MapAgreesWithGit
  BY FilesAgree, PTL
<1> QED BY <1>1, <1>2, StorageRunsEach, PTL
==================================================================================
