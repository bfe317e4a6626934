------------------------------- MODULE SCOFFormat -------------------------------
(***************************************************************************)
(* The parser of the answers of a phase                                    *)
(* (worker/agents/output-formats/streaming-formats/scof.ts).  It takes     *)
(* lines as they complete.  A line is what the parser tells apart: a       *)
(* command that opens a file, the two parts of one that was broken over    *)
(* lines, a marker, a comment or blank line, an install command, and text, *)
(* some of which begins like the marker.  Lines of text have numbers.      *)
(***************************************************************************)
EXTENDS Integers, Sequences, SequencesExt

CONSTANT Files

None == << >>
Formats == {"full_content", "unified_diff"}

Command(f, format) == [kind |-> "command", file |-> f, format |-> format]
HalfCommand == [kind |-> "half"]
RestOfCommand(f, format) == [kind |-> "rest", file |-> f, format |-> format]
Marker == [kind |-> "marker"]
Blank == [kind |-> "blank"]
Install(n) == [kind |-> "install", number |-> n]
Text(n) == [kind |-> "text", number |-> n]
LikeMarker(n) == [kind |-> "like marker", number |-> n]

(* completedFiles is a Map: its files in the order they were first set.    *)
(* diff tells whether contents are still a diff.                           *)
InitialState ==
  [file |-> None, format |-> "full_content", content |-> << >>,
   opened |-> {}, closed |-> {}, half |-> FALSE,
   partial |-> None, between |-> << >>, commands |-> << >>, completed |-> << >>,
   callback |-> None, twice |-> FALSE]

Completed(p, f) == {i \in DOMAIN p.completed : p.completed[i].file = f}

(* handleCommand                                                           *)
HandleCommand(p, command) ==
  [p EXCEPT !.file = <<command.file>>, !.format = command.format, !.content = << >>,
            !.opened = @ \cup {command.file}, !.closed = @ \ {command.file},
            !.half = FALSE,
            !.callback = IF command.file \in p.opened THEN None
                         ELSE <<"open", command.file>>,
            !.twice = @ \/ command.file \in p.opened]

(* What finalizeCurrentFile completes; applies says whether applyDiff      *)
(* finds the context of the diff in what the answer had for the file.      *)
FileObject(p, applies) ==
  LET file == p.file[1]
      known == {i \in Completed(p, file) : p.completed[i].contents # << >>}
      applied == p.format = "unified_diff" /\ known # {} /\ applies
      existing == p.completed[CHOOSE i \in known : TRUE]
  IN [file |-> file, format |-> p.format,
      contents |-> IF applied THEN existing.contents \o p.content ELSE p.content,
      diff |-> p.format = "unified_diff" /\ (applied => existing.diff)]

(* finalizeCurrentFile                                                     *)
FinalizeCurrentFile(p, applies) ==
  LET object == FileObject(p, applies)
  IN [p EXCEPT
       !.completed = IF Completed(p, object.file) = {} THEN Append(@, object)
                     ELSE [i \in DOMAIN @ |-> IF @[i].file = object.file THEN object
                                              ELSE @[i]],
       !.opened = @ \ {object.file}, !.closed = @ \cup {object.file},
       !.callback = IF object.file \in p.closed THEN None ELSE <<"close", object.file>>,
       !.twice = @ \/ object.file \in p.closed,
       !.file = None, !.content = << >>]

(* A line inside a block is content whatever it looks like; addContentLine *)
(* drops blank ones.                                                       *)
AddContentLine(p, line, n) ==
  IF line.kind = "blank" THEN p
  ELSE [p EXCEPT !.content = Append(@, n)]

(* processAccumulatedBetweenFilesContent                                   *)
ProcessBetween(p) ==
  [p EXCEPT !.commands = @ \o SelectSeq(p.between, LAMBDA c : ~Contains(p.commands, c)),
            !.between = << >>]

(* A line outside of a block that is neither blank nor a comment.          *)
ProcessOutside(p, line) ==
  LET q == ProcessBetween(p)
  IN CASE line.kind = "command" -> HandleCommand(q, line)
       [] line.kind = "rest" /\ p.half -> HandleCommand(q, line)
       [] line.kind = "half" -> [q EXCEPT !.half = TRUE]
       [] line.kind = "install" -> [q EXCEPT !.between = <<line.number>>]
       [] OTHER -> q

(* processLine, of the line with number n                                  *)
ProcessLine(p, line, n, applies) ==
  LET q == [p EXCEPT !.callback = None]
  IN CASE p.file # None /\ line.kind = "marker" -> FinalizeCurrentFile(q, applies)
       [] p.file # None /\ line.kind # "marker" -> AddContentLine(q, line, n)
       [] p.file = None /\ line.kind = "blank" -> q
       [] p.file = None /\ line.kind # "blank" -> ProcessOutside(q, line)

(* The line that a part kept in partialLineBuffer and the rest make.  The  *)
(* patterns of commands match inside a line.                               *)
Joined(part, rest) ==
  CASE part = None -> rest
    [] part # None /\ rest.kind = "command" -> rest
    [] OTHER -> part[1]

\* Mutant: the part that was kept is not put in front of the rest.
CompleteLine_PartDropped(p, line, n, applies) ==
  ProcessLine([p EXCEPT !.partial = None], IF p.partial = None THEN line ELSE Blank,
              n, applies)

(* processAccumulatedContent of a chunk that completes a line.  A chunk of *)
(* several lines is handled like chunks of one line each.                  *)
CompleteLine(p, line, n, applies) ==
  ProcessLine([p EXCEPT !.partial = None], Joined(p.partial, line), n, applies)

(* processAccumulatedContent of a chunk that ends inside a line, where     *)
(* what is there of it is not the marker.                                  *)
KeepPart(p, line) == [p EXCEPT !.partial = <<Joined(p.partial, line)>>, !.callback = None]

(* The same where what is there of the line is the marker.                 *)
MayBeMarker(p, line) ==
  p.file # None /\ Joined(p.partial, line).kind \in {"marker", "like marker"}

TakeMarker(p, applies) ==
  FinalizeCurrentFile([p EXCEPT !.partial = None, !.callback = None], applies)
=================================================================================
