----------------------------- MODULE InferenceState -----------------------------
(***************************************************************************)
(* What an invocation of executeInference (worker/agents/inferutils/       *)
(* infer.ts, core.ts) keeps, and what it promises about the requests it    *)
(* sends and the text it shows.  Inference is how it goes on.              *)
(***************************************************************************)
EXTENDS Integers, Sequences

CONSTANTS
  MaxDepth,    \* getMaxToolCallingDepth
  MaxRetries   \* maxRetries of the client, which core.ts leaves at its default

VARIABLES
  args,       \* of executeInference: streaming, with a schema, with tools, too long
  aborted,    \* the abort signal
  pc, model,
  depth,      \* toolCallContext.depth, the number of rounds in the context
  provider,   \* external: the response that is coming in
  content,    \* pieces of text received
  shown,      \* what onChunk was given of them
  acc,        \* accumulator of tool calls
  result,
  tries,      \* external: requests sent for the response that is awaited
  requests,   \* history: requests sent to each model
  lateRounds  \* history: rounds of tools started after the abort

Models == {"primary", "fallback"}

(* The depth bounds what one invocation asks of the models, whatever they  *)
(* and the tools answer: no more than MaxDepth responses of each, each     *)
(* with the retries of the client (core.ts:509).  After the abort at most  *)
(* the tools of the response that was coming in are still run: an abort    *)
(* leads to no other round, on the fallback model either.                  *)
RequestsBounded ==
  /\ \A m \in Models : requests[m] <= MaxDepth * (MaxRetries + 1)
  /\ lateRounds <= 1

(* The text of a response that was finished was shown completely, in order *)
(* and once, however it was cut into events.                               *)
AnswerShown ==
  args.stream /\ provider.finished =>
    shown = [i \in 1..content |-> i]
==================================================================================
