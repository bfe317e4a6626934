--------------------------- MODULE PhaseImplementation ---------------------------
(***************************************************************************)
(* What becomes of the answer of a model to a phase: it is streamed in     *)
(* chunks through the parser of SCOFFormat, its files are fixed while the  *)
(* stream goes on, and saved when all fixers are done                      *)
(* (worker/agents/operations/PhaseImplementation.ts, execute, and          *)
(* worker/agents/core/simpleGeneratorAgent.ts, implementPhase).            *)
(***************************************************************************)
EXTENDS SCOFFormat

CONSTANTS
  MaxLines,  \* bound: lines of all answers
  MaxCuts    \* bound: chunks that end inside a line

PhaseAssumption == {MaxLines, MaxCuts} \subseteq Nat

VARIABLES
  pc,         \* streaming, whole (an answer that is not streamed), fixing, saved, failed
  model,
  original,   \* contents before the phase, of the template or earlier phases
  parser,
  begun,      \* external: the line a chunk ended in
  answer,     \* external: the lines answered, as the model means them
  files,      \* fixedFilePromises
  saved,      \* contents in the file manager
  commands,   \* install commands to execute
  cuts,
  torn,       \* history: a chunk or a stream ended where the rest means something else
  unapplied   \* history: files with a diff whose context was not found

vars == <<pc, model, original, parser, begun, answer, files, saved, commands, cuts, torn,
          unapplied>>

(* What a fixer adds to contents; 0 is the line of original contents.      *)
Fixed == -1

TypeOK ==
  /\ pc \in {"streaming", "whole", "fixing", "saved", "failed"}
  /\ model \in {"primary", "fallback"}
  /\ original \in [Files -> {<< >>, <<0>>}]
  /\ parser.opened \subseteq Files /\ parser.closed \subseteq Files
  /\ answer.length \in 0..MaxLines
  /\ \A i \in DOMAIN files : files[i].file \in Files /\ files[i].fixing \in BOOLEAN
  /\ cuts \in 0..MaxCuts /\ unapplied \subseteq Files /\ torn \in BOOLEAN

(* The block that is open; what the files are when the blocks that a       *)
(* marker ended are taken one after the other; how many blocks each had,   *)
(* and which had a diff.                                                   *)
NoAnswer ==
  [block |-> None, half |-> FALSE, length |-> 0,
   meant |-> original, blocks |-> [f \in Files |-> 0], diffs |-> {}]

Init ==
  /\ pc = "streaming" /\ model = "primary"
  /\ original \in [Files -> {<< >>, <<0>>}]
  /\ parser = InitialState /\ begun = None /\ answer = NoAnswer
  /\ files = << >> /\ saved = original /\ commands = << >>
  /\ cuts = 0 /\ torn = FALSE /\ unapplied = {}

(* Full contents replace, a diff is applied to what is there.              *)
Taken(contents, block) ==
  IF block.format = "full_content" THEN block.lines ELSE contents \o block.lines

(* The number of the next line.                                            *)
Number == answer.length + 1

(* Lines a model may answer next.  In a block it may forget the marker.    *)
NextLines ==
  IF answer.block # None
    THEN {Text(Number), LikeMarker(Number), Marker, Blank,
          Command(answer.block[1].file, "full_content")}
  ELSE IF answer.half THEN {Blank} \cup {RestOfCommand(f, "full_content") : f \in Files}
  ELSE {Text(Number), Install(Number), Blank, HalfCommand}
         \cup {Command(f, format) : f \in Files, format \in Formats}

Answered(line) ==
  LET open == answer.block # None
      closes == open /\ line.kind = "marker"
      opens == ~open /\ line.kind \in {"command", "rest"}
      block == answer.block[1]
  IN answer' = [answer EXCEPT
       !.length = @ + 1,
       !.half = ~open /\ (line.kind = "half" \/ (@ /\ line.kind = "blank")),
       !.meant = IF closes
         THEN [@ EXCEPT ![block.file] = Taken(answer.meant[block.file], block)] ELSE @,
       !.blocks = IF closes
         THEN [@ EXCEPT ![block.file] = answer.blocks[block.file] + 1] ELSE @,
       !.diffs = IF closes /\ block.format = "unified_diff" THEN @ \cup {block.file} ELSE @,
       !.block = IF closes THEN None
                 ELSE IF opens
                   THEN <<[file |-> line.file, format |-> line.format, lines |-> << >>]>>
                 ELSE IF open /\ line.kind # "blank"
                   THEN <<[block EXCEPT !.lines = Append(block.lines, Number)]>> ELSE @]

(* The model answers anew.                                                 *)
AnswerEnds == answer' = [answer EXCEPT !.block = None, !.half = FALSE]

(* processGeneratedFileContents.  A diff whose context is not found leaves *)
(* the contents as they were before the phase; so does a file that the     *)
(* parser patched already but that is still marked as a diff.              *)
ProcessGenerated(object, found) ==
  IF object.format = "full_content" THEN object.contents
  ELSE IF object.diff /\ found THEN original[object.file] \o object.contents
  ELSE original[object.file]

(* processCompletedFile; a file of more than 50 lines goes to a fixer.     *)
GeneratedFile(object, found, long) ==
  [file |-> object.file, contents |-> ProcessGenerated(object, found), fixing |-> long]

(* A file that closes is completed in the callback.  Where a diff closes,  *)
(* its context may not be found in what the parser, or the file, has.      *)
Parsed(parsed, closing) ==
  \E inAnswer, inFile, long \in BOOLEAN :
    /\ (closing /\ parser.format = "unified_diff") \/ (inAnswer /\ inFile)
    /\ closing \/ ~long
    /\ LET p == parsed[inAnswer]
           object == p.completed[CHOOSE i \in Completed(p, p.callback[2]) : TRUE]
       IN /\ parser' = p
          /\ files' = IF pc = "streaming" /\ p.callback # None /\ p.callback[1] = "close"
                        THEN Append(files, GeneratedFile(object, inFile, long)) ELSE files
    /\ unapplied' = IF inAnswer /\ inFile THEN unapplied
                    ELSE unapplied \cup {parser.file[1]}

Closes(line) == parser.file # None /\ Joined(parser.partial, line).kind = "marker"

(* A chunk completes a line, of which a part may have come before.         *)
SayLine ==
  /\ pc = "streaming" /\ answer.length < MaxLines
  /\ \E line \in IF begun = None THEN NextLines ELSE {begun[1]} :
       /\ Parsed([found \in BOOLEAN |-> CompleteLine(parser, line, Number, found)], Closes(line))
       /\ Answered(line)
  /\ begun' = None
  /\ UNCHANGED <<pc, model, original, saved, commands, cuts, torn>>

(* A chunk ends inside a line.                                             *)
CutLine ==
  /\ pc = "streaming" /\ begun = None /\ cuts < MaxCuts /\ answer.length < MaxLines
  /\ \E line \in NextLines : parser' = KeepPart(parser, line) /\ begun' = <<line>>
  /\ cuts' = cuts + 1
  /\ UNCHANGED <<pc, model, original, answer, files, saved, commands, torn, unapplied>>

(* A chunk ends after what looks like the marker: before the newline of a  *)
(* marker, or inside a line that begins like one, whose rest is a line of  *)
(* text then.                                                              *)
CutAfterMarker ==
  /\ pc = "streaming" /\ cuts < MaxCuts /\ answer.length < MaxLines
  /\ \E line \in IF begun = None THEN NextLines ELSE {begun[1]} :
       /\ MayBeMarker(parser, line)
       /\ Parsed([found \in BOOLEAN |-> TakeMarker(parser, found)], TRUE)
       /\ Answered(line)
       /\ torn' = (torn \/ line.kind # "marker")
  /\ begun' = None /\ cuts' = cuts + 1
  /\ UNCHANGED <<pc, model, original, saved, commands>>

(* The stream ends, inside a line or a block if the model has no more to   *)
(* say or to spend.  Without files the models are asked for an answer that *)
(* is not streamed.                                                        *)
StreamEnds ==
  /\ pc = "streaming"
  /\ commands' = parser.commands
  /\ IF files = << >> THEN pc' = "whole" /\ parser' = InitialState /\ AnswerEnds
                      ELSE pc' = "fixing" /\ UNCHANGED <<parser, answer>>
  /\ begun' = None
  /\ UNCHANGED <<model, original, files, saved, cuts, torn, unapplied>>

(* executeInference turns to the fallback model, whose answer goes to the  *)
(* same parser; when that fails, too, the phase does.  A stream breaks     *)
(* between lines, or in a line of text.                                    *)
StreamBreaks ==
  /\ pc = "streaming" /\ ~answer.half
  /\ begun # None => begun[1].kind \in {"text", "like marker"}
  /\ \/ model = "primary" /\ model' = "fallback" /\ UNCHANGED pc
     \/ model = "fallback" /\ pc' = "failed" /\ UNCHANGED model
  /\ torn' = (torn \/ parser.file # None \/ begun # None)
  /\ begun' = None /\ AnswerEnds
  /\ UNCHANGED <<original, parser, files, saved, commands, cuts, unapplied>>

(* The answer that is not streamed is parsed as one chunk by deserialize.  *)
SayWhole ==
  /\ pc = "whole" /\ answer.length < MaxLines
  /\ \E line \in NextLines :
       /\ Parsed([found \in BOOLEAN |-> CompleteLine(parser, line, Number, found)], Closes(line))
       /\ Answered(line)
  /\ UNCHANGED <<pc, model, original, begun, saved, commands, cuts, torn>>

(* Its files are processed in the order of completedFiles.                 *)
WholeEnds ==
  /\ pc = "whole" /\ pc' = "fixing"
  /\ \E failing \in SUBSET {o.file : o \in {o \in Range(parser.completed) : o.diff}},
        long \in SUBSET DOMAIN parser.completed :
       /\ files' = [i \in DOMAIN parser.completed |->
            LET object == parser.completed[i]
            IN GeneratedFile(object, object.file \notin failing, i \in long)]
       /\ unapplied' = unapplied \cup failing
  /\ UNCHANGED <<model, original, parser, begun, answer, saved, commands, cuts, torn>>

(* Both models fail.                                                       *)
WholeFails ==
  /\ pc = "whole" /\ pc' = "failed"
  /\ UNCHANGED <<model, original, parser, begun, answer, files, saved, commands, cuts,
                 torn, unapplied>>

(* RealtimeCodeFixer.run returns the file, fixed or not, and never throws; *)
(* the stream may still be going on.                                       *)
FixerEnds ==
  /\ pc \in {"streaming", "fixing", "failed"}
  /\ \E i \in DOMAIN files, fixes \in BOOLEAN :
       /\ files[i].fixing
       /\ files' = [files EXCEPT ![i].fixing = FALSE,
                                 ![i].contents = IF fixes THEN Append(@, Fixed) ELSE @]
  /\ UNCHANGED <<pc, model, original, parser, begun, answer, saved, commands, cuts, torn,
                 unapplied>>

(* saveGeneratedFiles goes through the files in order.                     *)
Version(f) == CHOOSE i \in DOMAIN files :
  files[i].file = f /\ \A j \in DOMAIN files : files[j].file = f => j <= i

(* When all promises are settled the files are saved; a phase without      *)
(* files fails.                                                            *)
SaveFiles ==
  /\ pc = "fixing" /\ \A i \in DOMAIN files : ~files[i].fixing
  /\ IF files = << >> THEN pc' = "failed" /\ UNCHANGED saved
     ELSE /\ pc' = "saved"
          /\ saved' = [f \in Files |->
               IF \E i \in DOMAIN files : files[i].file = f
                 THEN files[Version(f)].contents ELSE saved[f]]
  /\ UNCHANGED <<model, original, parser, begun, answer, files, commands, cuts, torn,
                 unapplied>>

Next ==
  \/ SayLine \/ CutLine \/ CutAfterMarker \/ StreamEnds \/ StreamBreaks
  \/ SayWhole \/ WholeEnds \/ WholeFails
  \/ FixerEnds \/ SaveFiles

Spec == Init /\ [][Next]_vars

(* A diff that is not the only block of its file.                          *)
PatchedAgain(f) == answer.blocks[f] > 1 /\ f \in answer.diffs

(* What is saved of a phase is what was answered, block by block, or what  *)
(* one fixer added to that, whatever chunks the answer came in, whether it *)
(* was streamed, and whichever fixers ended first; files without a block   *)
(* stay as they were.  Excepted are answers cut off inside a block, or     *)
(* right after the marker a line begins with; diffs that do not apply; and *)
(* those of files the answer has another block of: scof.ts:472 patches the *)
(* earlier block, and FileProcessing.ts:43 takes the result for a diff of  *)
(* the file before.                                                        *)
SavedAsAnswered ==
  pc = "saved" /\ ~torn =>
    \A f \in Files \ unapplied :
      PatchedAgain(f) \/ saved[f] \in {answer.meant[f], Append(answer.meant[f], Fixed)}

(* No file is opened or closed twice in a row: scof.ts:444 and 495 say of  *)
(* both that this should never happen.                                     *)
NeverTwice == ~parser.twice
==================================================================================
