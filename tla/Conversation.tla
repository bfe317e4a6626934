------------------------------ MODULE Conversation ------------------------------
(***************************************************************************)
(* The conversation of an agent (worker/agents/core/simpleGeneratorAgent.ts*)
(* and operations/UserConversationProcessor.ts): a full history and a      *)
(* running one, which goes to the model and is compacted, each a row of    *)
(* SQLite.  A turn reads both, waits for the model, and writes both.       *)
(***************************************************************************)
EXTENDS Integers, Sequences, SequencesExt, FiniteSets

CONSTANTS
  Turns,        \* slots for invocations of handleUserInput
  MaxTurns,     \* COMPACTIFICATION_CONFIG.MAX_TURNS
  Preserve,     \* COMPACTIFICATION_CONFIG.PRESERVE_RECENT_MESSAGES
  MaxMessages,  \* MAX_LLM_MESSAGES
  RowLimit,     \* messages that fit in a row
  Legacy,       \* messages an old agent may have in its state
  MaxNumber,    \* bound: turns and questions
  MaxCrashes    \* bound: evictions

ASSUME ConversationAssumption ==
  /\ {MaxTurns, Preserve, MaxMessages, RowLimit, Legacy, MaxNumber, MaxCrashes} \subseteq Nat
  /\ 0 < Preserve /\ Preserve < MaxTurns

VARIABLES
  compact,   \* row of compact_conversations, << >> when there is none
  full,      \* row of full_conversations, << >> when there is none
  legacy,    \* state.conversationMessages
  turns,
  number,    \* messages are numbered by the turn they belong to
  asked,     \* reviewingInitiated: the question was asked
  crashes,
  refused    \* history: a row did not take a history

vars == <<compact, full, legacy, turns, number, asked, crashes, refused>>

(* A message is known by its turn and its part of it: this stands for its  *)
(* conversationId.  Tool calls and their results are stored with a turn    *)
(* only when it was aborted.                                               *)
Parts == {"user", "call", "result", "answer", "question", "summary"}
Message == [number : 0..MaxNumber, part : Parts]
Said(n, part) == [number |-> n, part |-> part]

Users(s) == Cardinality({i \in 1..Len(s) : s[i].part = "user"})

Idle == [pc |-> "off", number |-> 0, running |-> << >>, full |-> << >>, split |-> 0]

TypeOK ==
  /\ compact \in Seq(Message) /\ full \in Seq(Message) /\ legacy \in Seq(Message)
  /\ turns \in [Turns -> [pc : {"off", "preparing", "summary", "inference"},
                          number : 0..MaxNumber,
                          running : Seq(Message), full : Seq(Message), split : Nat]]
  /\ \A t \in Turns : turns[t].split <= Len(turns[t].running)
  /\ number \in 0..MaxNumber /\ crashes \in 0..MaxCrashes
  /\ asked \in BOOLEAN /\ refused \in BOOLEAN

(* An agent of an earlier version kept the messages in its state.          *)
Init ==
  /\ compact = << >> /\ full = << >>
  /\ legacy \in {<< >>, [i \in 1..Legacy |->
                           Said(0, IF i % 2 = 1 THEN "user" ELSE "answer")]}
  /\ turns = [t \in Turns |-> Idle]
  /\ number = 0
  /\ asked = FALSE /\ crashes = 0 /\ refused = FALSE

-----------------------------------------------------------------------------
(* getConversationState: a row without messages falls back on the state.   *)
RunningHistory == IF compact = << >> THEN legacy ELSE compact
FullHistory == IF full = << >> THEN legacy ELSE full

Fits(history) == Len(history) <= RowLimit

(* setConversationState: the first row that is refused ends it, and the    *)
(* error is only logged.                                                   *)
SetConversationState(running, whole) ==
  /\ compact' = IF Fits(running) THEN running ELSE compact
  /\ full' = IF Fits(running) /\ Fits(whole) THEN whole ELSE full
  /\ refused' = (refused \/ ~Fits(running) \/ ~Fits(whole))

AddConversationMessage(message) ==
  SetConversationState(Append(RunningHistory, message), Append(FullHistory, message))

(* executeReviewCycle, once: the question that is to start deep_debug.     *)
AskReview ==
  /\ ~asked /\ number < MaxNumber
  /\ asked' = TRUE
  /\ number' = number + 1
  /\ AddConversationMessage(Said(number + 1, "question"))
  /\ UNCHANGED <<legacy, turns, crashes>>

-----------------------------------------------------------------------------
(* handleUserInput reads both histories when its uploads are done.         *)
StartTurn(t) ==
  /\ turns[t].pc = "off" /\ number < MaxNumber
  /\ number' = number + 1
  /\ turns' = [turns EXCEPT ![t] =
       [pc |-> "preparing", number |-> number + 1, running |-> RunningHistory,
        full |-> FullHistory, split |-> 0]]
  /\ UNCHANGED <<compact, full, legacy, asked, crashes, refused>>

\* Mutant: splits after the messages to preserve are counted, inside a turn.
TurnBoundary_Anywhere(s) == IF Len(s) > Preserve THEN Len(s) - Preserve ELSE 0

(* findTurnBoundary: how many messages go into the summary.                *)
TurnBoundary(s) ==
  LET before == {i \in 1..Len(s) : s[i].part = "user" /\ i - 1 <= Len(s) - Preserve}
  IN IF Len(s) <= Preserve \/ before = {} THEN 0
     ELSE (CHOOSE i \in before : \A j \in before : j <= i) - 1

(* shouldCompactify: the number of turns decides, or that of the tokens.   *)
Prepared(t) ==
  /\ turns[t].pc = "preparing"
  /\ \E tokens \in BOOLEAN :
       LET split == IF Users(turns[t].running) >= MaxTurns \/ tokens
                      THEN TurnBoundary(turns[t].running) ELSE 0
       IN turns' = [turns EXCEPT ![t].split = split,
                                 ![t].pc = IF split > 0 THEN "summary" ELSE "inference"]
  /\ UNCHANGED <<compact, full, legacy, number, asked, crashes, refused>>

(* generateConversationSummary: without the model a concatenation does.    *)
Summarized(t) ==
  /\ turns[t].pc = "summary"
  /\ turns' = [turns EXCEPT ![t].pc = "inference"]
  /\ UNCHANGED <<compact, full, legacy, number, asked, crashes, refused>>

CompactHistory(turn) ==
  IF turn.split = 0 THEN turn.running
  ELSE <<Said(turn.number, "summary")>>
         \o SubSeq(turn.running, turn.split + 1, Len(turn.running))

\* Mutant: the compacted history is used for the inference only.
StorageRunning_Whole(turn) == turn.running

(* A compaction that leaves the length as it was is not stored.            *)
StorageRunning(turn) ==
  IF Len(CompactHistory(turn)) # Len(turn.running) THEN CompactHistory(turn)
  ELSE turn.running

Answered(turn) == <<Said(turn.number, "user"), Said(turn.number, "answer")>>
Aborted(turn) ==
  <<Said(turn.number, "user"), Said(turn.number, "call"), Said(turn.number, "result"),
    Said(turn.number, "answer")>>

\* Mutant: the full history is derived from the running one.
Store_FromRunning(turn, messages) ==
  SetConversationState(StorageRunning(turn) \o messages, turn.running \o messages)

Store(turn, messages) ==
  SetConversationState(StorageRunning(turn) \o messages, turn.full \o messages)

TooLong(turn) == Len(CompactHistory(turn)) + 2 > MaxMessages  \* system prompt, user message

(* The inference ends with an answer, or is aborted before or after a      *)
(* round of tools.                                                         *)
TurnAnswered(t) ==
  /\ turns[t].pc = "inference" /\ ~TooLong(turns[t])
  /\ \/ Store(turns[t], Answered(turns[t]))
     \/ Store(turns[t], Aborted(turns[t]))
  /\ turns' = [turns EXCEPT ![t] = Idle]
  /\ UNCHANGED <<legacy, number, asked, crashes>>

(* Any other error: the user's message and an apology, and no compaction.  *)
TurnFails(t) ==
  /\ turns[t].pc \in {"preparing", "inference"}
  /\ SetConversationState(turns[t].running \o Answered(turns[t]),
                          turns[t].full \o Answered(turns[t]))
  /\ turns' = [turns EXCEPT ![t] = Idle]
  /\ UNCHANGED <<legacy, number, asked, crashes>>

(* RateLimitExceededError and SecurityError: nothing is stored.            *)
TurnRefused(t) ==
  /\ turns[t].pc = "inference"
  /\ turns' = [turns EXCEPT ![t] = Idle]
  /\ UNCHANGED <<compact, full, legacy, number, asked, crashes, refused>>

(* clearConversation clears the messages in the state.                     *)
ClearConversation ==
  /\ legacy' = << >>
  /\ UNCHANGED <<compact, full, turns, number, asked, crashes, refused>>

(* The object is evicted: turns in progress are lost, rows are kept.       *)
Evict ==
  /\ crashes < MaxCrashes
  /\ crashes' = crashes + 1
  /\ turns' = [t \in Turns |-> Idle]
  /\ UNCHANGED <<compact, full, legacy, number, asked, refused>>

Next ==
  \/ \E t \in Turns :
       \/ StartTurn(t) \/ Prepared(t) \/ Summarized(t)
       \/ TurnAnswered(t) \/ TurnFails(t) \/ TurnRefused(t)
  \/ AskReview \/ ClearConversation \/ Evict

Spec == Init /\ [][Next]_vars

-----------------------------------------------------------------------------
WithoutSummary(s) ==
  IF s # << >> /\ s[1].part = "summary" THEN Tail(s) ELSE s

(* However turns, compactions, failures and evictions interleave, the      *)
(* running history is the end of the full one after at most one summary,   *)
(* until a row refuses a history that is too large.                        *)
RunningIsRecent == refused \/ IsSuffix(WithoutSummary(RunningHistory), FullHistory)

(* "Respects turn boundaries to avoid tool call fragmentation"             *)
(* (UserConversationProcessor.ts:705): what the model is given holds a     *)
(* turn as the full history does, or nothing of it.                        *)
TurnsWhole ==
  LET cut == Len(FullHistory) - Len(WithoutSummary(RunningHistory))
  IN refused \/ \A i \in 1..cut, j \in cut + 1..Len(FullHistory) :
       FullHistory[i].number # FullHistory[j].number \/ FullHistory[i].number = 0

(* The two histories agree as far as the model is shown them               *)
(* (simpleGeneratorAgent.ts:2791-2820).                                    *)
HistoriesAgree == RunningIsRecent /\ TurnsWhole

(* A turn that is answered leaves no more turns to the next one than the   *)
(* limit, however many failed before it and were not compacted.            *)
RunningBounded ==
  [][\A t \in Turns : TurnAnswered(t) /\ compact' # compact => Users(compact') <= MaxTurns]_vars

(* What is in the full history stays there, unless a turn that took its    *)
(* snapshot earlier writes it back.                                        *)
LostToSnapshot ==
  [][\A m \in ToSet(full) \ ToSet(full') :
       \E t \in Turns : turns[t].pc # "off" /\ turns'[t].pc = "off"
                        /\ m \notin ToSet(turns[t].full)]_vars
================================================================================
