--------------------------------- MODULE LogFile ---------------------------------
(***************************************************************************)
(* The log file of a sandbox instance.  The monitor's SimpleLogManager     *)
(* appends lines and trims the file (container/process-monitor.ts);        *)
(* `monitor-cli logs get' reads it, and with --reset takes it away         *)
(* (container/cli-tools.ts), in processes of their own that                *)
(* sandboxSdkClient.getLogs runs under a timeout.                          *)
(***************************************************************************)
EXTENDS Integers, Sequences, FiniteSets

CONSTANTS
  Lines,      \* lines the application writes
  Readers,    \* slots for processes of the command line tool
  None,       \* no file at the path
  MaxFile,    \* lines a file may have before it is trimmed
  Keep,       \* lines that trimming keeps
  MaxOpen,    \* appends in progress at once
  MaxResets, MaxKills   \* bounds

LogFileAssumption ==
  /\ {MaxFile, Keep, MaxOpen, MaxResets, MaxKills} \subseteq Nat /\ Keep < MaxFile
  /\ None \notin 1..MaxResets + 1 /\ IsFiniteSet(Readers)

Inodes == 1..MaxResets + 1

VARIABLES
  log,        \* the file at the path
  contents,   \* lines of every file
  appends,    \* lines being appended: the file that was opened
  trim, readers, lock,
  resets, kills,
  delivered,  \* history: lines that were printed after a reset
  repeated,   \* history: lines printed by two resets
  exposed,    \* history: lines that nobody promises to keep
  copied      \* history: lines a trim wrote to another file than it read

vars == <<log, contents, appends, trim, readers, lock, resets, kills,
          delivered, repeated, exposed, copied>>
files == <<log, contents>>
counts == <<resets, kills>>
history == <<delivered, repeated, exposed, copied>>

NoTrim == [pc |-> "off", text |-> << >>, file |-> None]
NoReader == [pc |-> "off", file |-> None, text |-> << >>, reset |-> FALSE]
Holding == {"locked", "create", "read", "unlink", "release"}

TypeOK ==
  /\ log \in Inodes \cup {None} /\ contents \in [Inodes -> Seq(Lines)]
  /\ appends \in [Lines -> Inodes \cup {None, 0, -1}]
  /\ trim \in [pc : {"off", "check", "read", "open", "write"}, text : Seq(Lines),
               file : Inodes \cup {None}]
  /\ Len(trim.text) <= Keep
  /\ readers \in [Readers -> [pc : {"off", "start", "print"} \cup Holding,
                  file : Inodes \cup {None}, text : Seq(Lines), reset : BOOLEAN]]
  /\ lock \in BOOLEAN /\ resets \in 0..MaxResets /\ kills \in 0..MaxKills
  /\ delivered \cup repeated \cup exposed \cup copied \subseteq Lines

(* A line is 0 before it is appended and -1 when it has been.              *)
Init ==
  /\ log = None /\ contents = [i \in Inodes |-> << >>]
  /\ appends = [l \in Lines |-> 0] /\ trim = NoTrim
  /\ readers = [r \in Readers |-> NoReader] /\ lock = FALSE
  /\ resets = 0 /\ kills = 0
  /\ delivered = {} /\ repeated = {} /\ exposed = {} /\ copied = {}

In(text) == {text[i] : i \in DOMAIN text}
Opened == {l \in Lines : appends[l] \in Inodes}

(* An inode nobody has seen: one is made for the first line, and one for   *)
(* each reset.                                                             *)
New == CHOOSE i \in Inodes :
         /\ i # log /\ contents[i] = << >>
         /\ \A r \in Readers : readers[r].file # i
         /\ \A l \in Lines : appends[l] # i
         /\ trim.file # i

(* What is opened for writing is created if it is not there.               *)
Opening == IF log = None THEN New ELSE log

-----------------------------------------------------------------------------
(* appendLog: fs.appendFile opens the path, then writes at the end of what *)
(* it has opened.  Nobody waits for it.  Lines differ in name only, so     *)
(* they are taken in one order.                                            *)
AppendOpen(l) ==
  /\ appends[l] = 0 /\ Cardinality(Opened) < MaxOpen
  /\ l = CHOOSE next \in Lines : appends[next] = 0
  /\ appends' = [appends EXCEPT ![l] = Opening]
  /\ log' = Opening
  /\ UNCHANGED <<contents, trim, readers, lock, counts, history>>

(* Now and then the size of the file is looked at next.                    *)
AppendWrite(l) ==
  /\ appends[l] \in Inodes
  /\ contents' = [contents EXCEPT ![appends[l]] = Append(@, l)]
  /\ appends' = [appends EXCEPT ![l] = -1]
  /\ exposed' = IF \/ appends[l] # log
                   \/ \E r \in Readers : readers[r].pc = "create"
                   \/ trim.pc \in {"open", "write"}
                  THEN exposed \cup {l} ELSE exposed
  /\ \/ UNCHANGED trim
     \/ trim.pc = "off" /\ trim' = [trim EXCEPT !.pc = "check"]
  /\ UNCHANGED <<log, readers, lock, counts, delivered, repeated, copied>>

(* trimLogIfNeeded                                                         *)
TrimCheck ==
  /\ trim.pc = "check"
  /\ trim' = IF log # None /\ Len(contents[log]) > MaxFile
               THEN [trim EXCEPT !.pc = "read"] ELSE NoTrim
  /\ UNCHANGED <<files, appends, readers, lock, counts, history>>

(* trimLogFile: readFile; an error ends it.                                *)
TrimRead ==
  /\ trim.pc = "read"
  /\ IF log = None
       THEN trim' = NoTrim /\ UNCHANGED exposed
       ELSE LET all == contents[log]
                from == IF Len(all) > Keep THEN Len(all) - Keep + 1 ELSE 1
            IN /\ trim' = [pc |-> "open", text |-> SubSeq(all, from, Len(all)), file |-> log]
               /\ exposed' = exposed \cup In(SubSeq(all, 1, from - 1))
  /\ UNCHANGED <<files, appends, readers, lock, counts, delivered, repeated, copied>>

(* writeFile truncates what is at the path by now ...                      *)
TrimOpen ==
  /\ trim.pc = "open"
  /\ log' = Opening
  /\ contents' = [contents EXCEPT ![Opening] = << >>]
  /\ trim' = [trim EXCEPT !.pc = "write", !.file = Opening]
  /\ copied' = IF Opening # trim.file THEN copied \cup In(trim.text) ELSE copied
  /\ exposed' = IF log # None /\ log # trim.file THEN exposed \cup In(contents[log]) ELSE exposed
  /\ UNCHANGED <<appends, readers, lock, counts, delivered, repeated>>

(* ... and writes from its start, over what was appended meanwhile.        *)
TrimWrite ==
  /\ trim.pc = "write"
  /\ LET text == trim.text
         there == contents[trim.file]
     IN contents' = [contents EXCEPT ![trim.file] = text \o SubSeq(there, Len(text) + 1, Len(there))]
  /\ copied' = IF trim.file # log THEN copied \cup In(trim.text) ELSE copied
  /\ exposed' = IF trim.file # log THEN exposed \cup In(trim.text) ELSE exposed
  /\ trim' = NoTrim
  /\ UNCHANGED <<log, appends, readers, lock, counts, delivered, repeated>>

-----------------------------------------------------------------------------
(* logs get, in any slot that is free.                                     *)
Start(r) ==
  /\ readers[r].pc = "off"
  /\ r = CHOOSE free \in Readers : readers[free].pc = "off"
  /\ \E reset \in BOOLEAN :
       /\ reset => resets < MaxResets
       /\ resets' = IF reset THEN resets + 1 ELSE resets
       /\ readers' = [readers EXCEPT ![r] = [NoReader EXCEPT !.pc = "start", !.reset = reset]]
  /\ UNCHANGED <<files, appends, trim, lock, kills, history>>

(* acquireLock: the lock file must not exist.                              *)
AcquireLock(r) ==
  /\ readers[r].pc = "start" /\ ~lock
  /\ lock' = TRUE
  /\ readers' = [readers EXCEPT ![r].pc = "locked"]
  /\ UNCHANGED <<files, appends, trim, counts, history>>

(* The last of five attempts finds it locked.                              *)
GiveUp(r) ==
  /\ readers[r].pc = "start" /\ lock
  /\ readers' = [readers EXCEPT ![r] = NoReader]
  /\ UNCHANGED <<files, appends, trim, lock, counts, history>>

(* Without --reset the file is only read.                                  *)
ReadOnly(r) ==
  /\ readers[r].pc = "locked" /\ ~readers[r].reset
  /\ readers' = [readers EXCEPT ![r].pc = "release",
                                ![r].text = IF log = None THEN << >> ELSE contents[log]]
  /\ UNCHANGED <<files, appends, trim, lock, counts, history>>

(* rename to a temporary name; ENOENT means no logs.                       *)
Rename(r) ==
  /\ readers[r].pc = "locked" /\ readers[r].reset
  /\ readers' = [readers EXCEPT ![r].pc = IF log = None THEN "release" ELSE "create",
                                ![r].file = log]
  /\ log' = None
  /\ UNCHANGED <<contents, appends, trim, lock, counts, history>>

(* writeFile makes an empty file, and empties the one an append has made.  *)
CreateEmpty(r) ==
  /\ readers[r].pc = "create"
  /\ log' = Opening
  /\ contents' = [contents EXCEPT ![Opening] = << >>]
  /\ exposed' = exposed \cup (IF trim.pc = "write" /\ trim.file = log
                                THEN In(trim.text) ELSE {})
  /\ readers' = [readers EXCEPT ![r].pc = "read"]
  /\ UNCHANGED <<appends, trim, lock, counts, delivered, repeated, copied>>

\* Mutant: the new file is made after the old one was read.
ReadTemp_First(r) ==
  /\ readers[r].pc \in {"read", "unlink"}
  /\ IF readers[r].pc = "read" /\ readers[r].text = << >>
       THEN /\ readers' = [readers EXCEPT ![r].pc = "unlink", ![r].text = contents[readers[r].file]]
            /\ UNCHANGED files
       ELSE /\ readers' = [readers EXCEPT ![r].pc = "release", ![r].file = None]
            /\ contents' = [contents EXCEPT ![Opening] = << >>]
            /\ log' = Opening
  /\ UNCHANGED <<appends, trim, lock, counts, history>>

ReadTemp(r) ==
  /\ readers[r].pc = "read"
  /\ readers' = [readers EXCEPT ![r].pc = "unlink", ![r].text = contents[readers[r].file]]
  /\ UNCHANGED <<files, appends, trim, lock, counts, history>>

Unlink(r) ==
  /\ readers[r].pc = "unlink"
  /\ readers' = [readers EXCEPT ![r].pc = "release", ![r].file = None]
  /\ contents' = [contents EXCEPT ![readers[r].file] =
       IF \E l \in Lines : appends[l] = readers[r].file THEN @ ELSE << >>]
  /\ UNCHANGED <<log, appends, trim, lock, counts, history>>

ReleaseLock(r) ==
  /\ readers[r].pc = "release"
  /\ lock' = FALSE
  /\ readers' = [readers EXCEPT ![r].pc = "print"]
  /\ UNCHANGED <<files, appends, trim, counts, history>>

PrintLogs(r) ==
  /\ readers[r].pc = "print"
  /\ LET lines == IF readers[r].reset THEN In(readers[r].text) ELSE {}
     IN /\ repeated' = repeated \cup (delivered \cap lines)
        /\ delivered' = delivered \cup lines
  /\ readers' = [readers EXCEPT ![r] = NoReader]
  /\ UNCHANGED <<files, appends, trim, lock, counts, exposed, copied>>

(* The timeout of getLogs kills the process: its lock file stays, and so   *)
(* does its temporary file.                                                *)
Kill(r) ==
  /\ readers[r].pc # "off" /\ kills < MaxKills
  /\ kills' = kills + 1
  /\ exposed' = IF readers[r].reset
                  THEN exposed \cup In(readers[r].text)
                         \cup (IF readers[r].file = None THEN {} ELSE In(contents[readers[r].file]))
                  ELSE exposed
  /\ readers' = [readers EXCEPT ![r] = NoReader]
  /\ UNCHANGED <<files, appends, trim, lock, resets, delivered, repeated, copied>>

Next ==
  \/ \E l \in Lines : AppendOpen(l) \/ AppendWrite(l)
  \/ TrimCheck \/ TrimRead \/ TrimOpen \/ TrimWrite
  \/ \E r \in Readers :
       \/ Start(r) \/ AcquireLock(r) \/ GiveUp(r) \/ ReadOnly(r) \/ Rename(r)
       \/ CreateEmpty(r) \/ ReadTemp(r) \/ Unlink(r) \/ ReleaseLock(r) \/ PrintLogs(r) \/ Kill(r)

Spec == Init /\ [][Next]_vars

-----------------------------------------------------------------------------
(* The lock file keeps the processes apart.                                *)
OneReader == Cardinality({r \in Readers : readers[r].pc \in Holding}) <= 1

(* No line is printed by two resets, unless a trim that began before the   *)
(* reset put it back afterwards.                                           *)
PrintedOnce == repeated \subseteq copied

(* A line that was appended is in the log, with a reader or printed, but   *)
(* for those cut off by a trim, written while the file was being replaced, *)
(* or taken by a reader that was killed.                                   *)
LinesKept ==
  LET held == UNION {In(readers[r].text) \cup
                     (IF readers[r].file = None THEN {} ELSE In(contents[readers[r].file]))
                       : r \in {q \in Readers : readers[q].reset}}
      trimmed == IF trim.pc = "write" THEN In(trim.text) ELSE {}
      there == IF log = None THEN {} ELSE In(contents[log])
  IN \A l \in Lines : appends[l] = -1 => l \in there \cup held \cup trimmed \cup delivered \cup exposed

(* A line is neither lost nor printed by two resets, however the monitor,  *)
(* its trimming and the readers interleave and whoever is killed           *)
(* (cli-tools.ts:789, getAndReset).                                        *)
LinesOnce == PrintedOnce /\ LinesKept
==================================================================================
