-------------------------------- MODULE Inference --------------------------------
(***************************************************************************)
(* One invocation of executeInference (worker/agents/inferutils/infer.ts)  *)
(* with the recursion of infer (inferutils/core.ts): the primary model and *)
(* its fallback, rounds of tool calls, streaming, and an abort signal that *)
(* the agent may fire at any moment.                                       *)
(***************************************************************************)
EXTENDS ToolCalls, InferenceState

CONSTANTS
  ChunkSize,    \* stream.chunk_size
  MaxContent,   \* bound: pieces of text in a response
  MaxCalls      \* bound: tool calls in a response

InferenceAssumption ==
  /\ {MaxDepth, ChunkSize, Pieces} \subseteq Nat \ {0}
  /\ {MaxRetries, MaxContent, MaxCalls} \subseteq Nat

vars == <<args, aborted, pc, model, depth, provider, content, shown, acc, result,
          tries, requests, lateRounds>>

(* How a provider marks the deltas of a call: with an index and, in the    *)
(* first one, an id; with the index only; with the id only; with both.     *)
Styles == {"first", "index", "id", "both"}

NoResponse == [calls |-> 0, style |-> "both", sent |-> << >>, finished |-> FALSE]

Errors == {"AbortError", "RateLimitExceededError", "InferError", "Error"}
Results == {"none", "string", "object", "undefined"} \cup Errors

TypeOK ==
  /\ args \in [stream : BOOLEAN, schema : BOOLEAN, tools : BOOLEAN, tooLong : BOOLEAN]
  /\ aborted \in BOOLEAN
  /\ pc \in {"enter", "settings", "create", "stream", "tools", "done"}
  /\ model \in Models
  /\ depth \in 0..MaxDepth
  /\ provider.calls \in 0..MaxCalls /\ provider.style \in Styles
  /\ DOMAIN provider.sent = 1..provider.calls
  /\ content \in 0..MaxContent
  /\ shown \in Seq(1..MaxContent)
  /\ result \in Results
  /\ tries \in 0..MaxRetries + 1
  /\ requests \in [Models -> Nat] /\ lateRounds \in Nat

Init ==
  /\ args \in [stream : BOOLEAN, schema : BOOLEAN, tools : BOOLEAN, tooLong : BOOLEAN]
  /\ aborted = FALSE
  /\ pc = "enter" /\ model = "primary" /\ depth = 0
  /\ provider = NoResponse /\ content = 0 /\ shown = << >>
  /\ acc = EmptyAccumulator
  /\ result = "none"
  /\ tries = 0 /\ requests = [m \in Models |-> 0] /\ lateRounds = 0

-----------------------------------------------------------------------------
response == <<provider, content, shown, acc>>

(* executeInference hands out result.object when there is a schema,        *)
(* whatever infer returned.                                                *)
Returns(what) ==
  /\ pc' = "done"
  /\ result' = IF args.schema /\ what = "string" THEN "undefined" ELSE what
  /\ UNCHANGED <<model, depth>>

(* Whatever the primary model throws, the fallback model starts from the   *)
(* beginning; what the fallback model throws goes to the caller.           *)
Throws(error) ==
  IF model = "primary"
    THEN /\ pc' = "enter" /\ model' = "fallback" /\ depth' = 0
         /\ UNCHANGED result
    ELSE /\ pc' = "done" /\ result' = error
         /\ UNCHANGED <<model, depth>>

\* Mutant: the depth is compared after the request.
Enter_OneMore ==
  /\ pc = "enter"
  /\ IF args.tooLong THEN Throws("RateLimitExceededError")
     ELSE IF depth > MaxDepth
       THEN IF args.schema THEN Throws("AbortError") ELSE Returns("string")
       ELSE pc' = "settings" /\ UNCHANGED <<model, depth, result>>
  /\ UNCHANGED <<args, aborted, response, tries, requests, lateRounds>>

(* The checks at the top of infer.                                         *)
Enter ==
  /\ pc = "enter"
  /\ IF args.tooLong THEN Throws("RateLimitExceededError")
     ELSE IF depth >= MaxDepth
       THEN IF args.schema THEN Throws("AbortError") ELSE Returns("string")
       ELSE pc' = "settings" /\ UNCHANGED <<model, depth, result>>
  /\ UNCHANGED <<args, aborted, response, tries, requests, lateRounds>>

(* A response is there.  Its tools run in parallel; if there is nothing to *)
(* run, it is the answer, to be parsed if there is a schema.               *)
Received(calls) ==
  IF args.tools /\ Assemble(calls) # << >>
    THEN /\ pc' = "tools"
         /\ lateRounds' = IF aborted THEN lateRounds + 1 ELSE lateRounds
         /\ UNCHANGED <<model, depth, result>>
    ELSE /\ IF args.schema THEN Returns("object") \/ Throws("InferError")
            ELSE Returns("string")
         /\ UNCHANGED lateRounds

(* Settings, rate limit and configuration of the model are awaited.        *)
Configured ==
  /\ pc = "settings"
  /\ \/ (pc' = "create" /\ UNCHANGED <<model, depth, result>>)
     \/ Throws("RateLimitExceededError")
     \/ Throws("Error")
  /\ UNCHANGED <<args, aborted, response, tries, requests, lateRounds>>

(* External: the client sends the request of chat.completions.create, and  *)
(* sends it again when it is answered with 408, 409, 429 or 5xx or the     *)
(* connection fails, but not when the signal has fired.                    *)
Requested ==
  /\ pc = "create" /\ ~aborted
  /\ tries <= MaxRetries /\ tries' = tries + 1
  /\ requests' = [requests EXCEPT ![model] = @ + 1]
  /\ UNCHANGED <<args, aborted, pc, model, depth, response, result, lateRounds>>

(* chat.completions.create does not answer: it was aborted, got 429, or    *)
(* failed.                                                                 *)
CreateFails ==
  /\ pc = "create" /\ tries' = 0
  /\ \/ aborted /\ Throws("AbortError")
     \/ tries > 0 /\ Throws("RateLimitExceededError")
     \/ Throws("Error")
  /\ UNCHANGED <<args, aborted, response, requests, lateRounds>>

Answered == pc = "create" /\ ~aborted /\ tries > 0 /\ tries' = 0

(* It answers with a stream.                                               *)
Created ==
  /\ Answered /\ args.stream
  /\ \E calls \in IF args.tools THEN 0..MaxCalls ELSE {0}, style \in Styles :
       provider' = [calls |-> calls, style |-> style,
                    sent |-> [c \in 1..calls |-> 0], finished |-> FALSE]
  /\ content' = 0 /\ shown' = << >> /\ acc' = EmptyAccumulator
  /\ pc' = "stream"
  /\ UNCHANGED <<args, aborted, model, depth, result, requests, lateRounds>>

-----------------------------------------------------------------------------
(* External: delta k of a call.  After the arguments a provider may send   *)
(* them once more as a whole.                                              *)
DeltaOf(call, k) ==
  Delta(IF provider.style = "id" THEN None ELSE <<call - 1>>,
        IF provider.style = "index" \/ (provider.style = "first" /\ k > 1)
          THEN None ELSE <<"id", call>>,
        IF k = 1 THEN <<call>> ELSE None,
        IF k > Pieces THEN Whole(call) ELSE <<<<call, k>>>>)

(* Calls that are told apart by id only are taken in the order they begin. *)
MaySend(call) ==
  /\ provider.sent[call] <= Pieces
  /\ provider.style = "id" => \A c \in 1..call - 1 : provider.sent[c] > 0

(* What was received before the signal fired is handled after it, too.     *)
StreamToolCall ==
  /\ pc = "stream"
  /\ \E call \in 1..provider.calls :
       /\ MaySend(call)
       /\ acc' = Accumulate(acc, DeltaOf(call, provider.sent[call] + 1))
       /\ provider' = [provider EXCEPT !.sent[call] = @ + 1]
  /\ UNCHANGED <<args, aborted, pc, model, depth, content, shown, result, tries, requests,
                 lateRounds>>

\* Mutant: the end of the stream does not flush what is left.
OnEvent_NoFlush(total, finished) ==
  /\ content' = total
  /\ shown' = IF total - Len(shown) >= ChunkSize
                THEN shown \o [i \in 1..total - Len(shown) |-> Len(shown) + i]
                ELSE shown

(* An event of the stream: text is passed on in chunks, and what is left   *)
(* with the event that has a finish_reason.                                *)
OnEvent(total, finished) ==
  /\ content' = total
  /\ shown' = IF finished \/ total - Len(shown) >= ChunkSize
                THEN shown \o [i \in 1..total - Len(shown) |-> Len(shown) + i]
                ELSE shown

StreamText ==
  /\ pc = "stream" /\ content < MaxContent
  /\ OnEvent(content + 1, FALSE)
  /\ UNCHANGED <<args, aborted, pc, model, depth, provider, acc, result, tries, requests,
                 lateRounds>>

StreamFinishes ==
  /\ pc = "stream"
  /\ \A c \in 1..provider.calls : provider.sent[c] >= Pieces
  /\ \E total \in content..MaxContent : total <= content + 1 /\ OnEvent(total, TRUE)
  /\ provider' = [provider EXCEPT !.finished = TRUE]
  /\ Received(acc)
  /\ UNCHANGED <<args, aborted, acc, tries, requests>>

(* The stream ends early: the client ends it in silence when the signal    *)
(* fires, and throws when the connection breaks.                           *)
StreamBreaks ==
  /\ pc = "stream"
  /\ \/ aborted /\ Received(acc)
     \/ Throws("Error") /\ UNCHANGED lateRounds
  /\ UNCHANGED <<args, aborted, response, tries, requests>>

(* Without streaming everything comes with the answer.                     *)
CreatedWhole ==
  /\ Answered /\ ~args.stream
  /\ \E calls \in IF args.tools THEN 0..MaxCalls ELSE {0}, text \in {0, MaxContent} :
       /\ provider' = [calls |-> calls, style |-> "id",
                       sent |-> [c \in 1..calls |-> Pieces], finished |-> TRUE]
       /\ content' = text /\ shown' = << >>
       /\ acc' = [EmptyAccumulator EXCEPT
                    !.entries = [c \in 1..calls |->
                      [id |-> <<"id", c>>, index |-> None, name |-> <<c>>,
                       args |-> Whole(c)]],
                    !.byId = {<<<<"id", c>>, c>> : c \in 1..calls}]
       /\ IF calls = 0 /\ text = 0
            THEN Returns("string") /\ UNCHANGED lateRounds
            ELSE Received(acc')
  /\ UNCHANGED <<args, aborted, requests>>

(* A tool that throws has its error for a result.  Unless no tool returns  *)
(* anything, the model is asked again with the results.                    *)
ToolsDone ==
  /\ pc = "tools"
  /\ \/ /\ pc' = "enter" /\ depth' = depth + 1
        /\ UNCHANGED <<model, result>>
     \/ Returns("string")
  /\ UNCHANGED <<args, aborted, response, tries, requests, lateRounds>>

(* STOP_GENERATION, or a new abort of the agent.                           *)
Abort ==
  /\ ~aborted /\ pc # "done"
  /\ aborted' = TRUE
  /\ UNCHANGED <<args, pc, model, depth, response, result, tries, requests, lateRounds>>

Next ==
  \/ Enter \/ Configured \/ Requested \/ CreateFails \/ Created \/ CreatedWhole
  \/ StreamToolCall \/ StreamText \/ StreamFinishes \/ StreamBreaks
  \/ ToolsDone \/ Abort

Spec == Init /\ [][Next]_vars

-----------------------------------------------------------------------------
(* The calls that are executed are those the provider sent, each with its  *)
(* own arguments, in their order, however their deltas are mixed.          *)
ToolCallsAsSent ==
  provider.finished =>
    Assemble(acc) = [c \in 1..provider.calls |-> [name |-> <<c>>, args |-> Whole(c)]]
==================================================================================
