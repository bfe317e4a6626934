--------------------------------- MODULE MCChat ---------------------------------
(***************************************************************************)
(* What an agent asks of the models: an inference, and what a phase makes  *)
(* of the answers of its inferences.  The two share no state, so every     *)
(* behaviour is one of one of them.                                        *)
(***************************************************************************)
EXTENDS InferenceState, SequencesExt, TLC

CONSTANTS
  ChunkSize, MaxContent, MaxCalls, Pieces,
  Files, MaxLines, MaxCuts

VARIABLES
  part,
  stage, asked, original, parser, begun, answer, files, saved, commands, cuts, torn, unapplied

inferenceVars == <<args, aborted, pc, model, depth, provider, content, shown, acc, result,
                   tries, requests, lateRounds>>

phaseVars == <<stage, asked, original, parser, begun, answer, files, saved, commands, cuts,
               torn, unapplied>>

inference == INSTANCE Inference
phase == INSTANCE PhaseImplementation WITH pc <- stage, model <- asked

ASSUME inference!InferenceAssumption
ASSUME phase!PhaseAssumption

(* The arguments of the inference are of no matter to the phase, which     *)
(* finds one of the files.                                                 *)
ChatInit ==
  /\ part \in {"inference", "phase"} /\ inference!Init /\ phase!Init
  /\ part # "inference" => args = [a \in DOMAIN args |-> FALSE]
  /\ original = [f \in Files |-> IF f = CHOOSE g \in Files : TRUE THEN <<0>> ELSE << >>]

ChatNext ==
  \/ part = "inference" /\ inference!Next /\ UNCHANGED <<part, phaseVars>>
  \/ part = "phase" /\ phase!Next /\ UNCHANGED <<part, inferenceVars>>

ChatSpec == ChatInit /\ [][ChatNext]_<<part, inferenceVars, phaseVars>>

(* Tool calls are executed as they were sent: Inference.                   *)
ToolCallsAsSent == inference!ToolCallsAsSent

(* What is saved of a phase is what was answered: PhaseImplementation.     *)
SavedAsAnswered == phase!SavedAsAnswered
=================================================================================
