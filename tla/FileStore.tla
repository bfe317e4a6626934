-------------------------------- MODULE FileStore --------------------------------
(***************************************************************************)
(* The generated files of an agent, kept twice: generatedFilesMap in the   *)
(* state (worker/agents/services/implementations/FileManager.ts) and a git *)
(* repository in SQLite (worker/agents/git/git.ts).  Saves change the map  *)
(* at once and git across awaits; a reset moves git and rebuilds the map   *)
(* from HEAD in a callback nobody waits for.                               *)
(***************************************************************************)
EXTENDS Integers, Sequences, FiniteSets

CONSTANTS
  Files,
  Texts,        \* contents that are not empty
  Absent,       \* no such file
  Blank,        \* an empty file, or one git does not give back as text
  Saves,        \* slots for saves in progress
  Syncs,        \* slots for syncs of the map in progress
  MaxSaves, MaxResets, MaxTroubles   \* bounds

FileStoreAssumption ==
  /\ Absent \notin Texts /\ Blank \notin Texts /\ Absent # Blank
  /\ IsFiniteSet(Files)
  /\ {MaxSaves, MaxResets, MaxTroubles} \subseteq Nat

VARIABLES
  map,        \* generatedFilesMap
  workdir, index, head,
  commits,    \* trees of all commits
  saves, reset, syncs,
  started, resets, troubles,
  doubtful,   \* history: files that map and index may disagree on
  touched     \* history: files saved while the repository was being reset

vars == <<map, workdir, index, head, commits, saves, reset, syncs,
          started, resets, troubles, doubtful, touched>>
git == <<workdir, index, head, commits>>
counts == <<started, resets, troubles>>

Content == {Absent, Blank} \cup Texts
Tree == [Files -> Content]
NoFiles == [f \in Files |-> Absent]

Save == [pc : {"off", "write", "add", "check", "commit"},
         files : Seq(Files), contents : Tree, message : BOOLEAN]
NoSave == [pc |-> "off", files |-> << >>, contents |-> NoFiles, message |-> FALSE]

NoReset == [pc |-> "off", target |-> NoFiles]
NoSync == [pc |-> "off", tree |-> NoFiles, late |-> FALSE]

TypeOK ==
  /\ {map, workdir, index, head} \subseteq Tree /\ commits \subseteq Tree
  /\ saves \in [Saves -> Save]
  /\ reset \in [pc : {"off", "head", "checkout", "list"}, target : Tree]
  /\ syncs \in [Syncs -> [pc : {"off", "read", "set"}, tree : Tree, late : BOOLEAN]]
  /\ doubtful \subseteq Files /\ touched \subseteq Files
  /\ started \in 0..MaxSaves /\ resets \in 0..MaxResets /\ troubles \in 0..MaxTroubles

(* gitInit commits the generated files when there is no commit; before the *)
(* first commit HEAD is like an empty tree.                                *)
Init ==
  /\ map = NoFiles /\ workdir = NoFiles /\ index = NoFiles /\ head = NoFiles
  /\ commits = {}
  /\ saves = [s \in Saves |-> NoSave]
  /\ reset = NoReset /\ syncs = [y \in Syncs |-> NoSync]
  /\ started = 0 /\ resets = 0 /\ troubles = 0
  /\ doubtful = {} /\ touched = {}

FilesOf(save) == {save.files[i] : i \in DOMAIN save.files}
Saving == UNION {FilesOf(saves[s]) : s \in Saves}
Resetting == reset.pc # "off" \/ \E y \in Syncs : syncs[y].pc # "off"

-----------------------------------------------------------------------------
(* saveGeneratedFiles: the map is changed before anything is awaited.  Git *)
(* gets the files only if the text of one of them is new.                  *)
Text(content) == IF content = Absent THEN Blank ELSE content

Orders(fs) == {o \in [1..Cardinality(fs) -> fs] : \A i, j \in DOMAIN o : o[i] = o[j] => i = j}

SaveGeneratedFiles(s) ==
  /\ saves[s].pc = "off" /\ started < MaxSaves
  /\ \E files \in (SUBSET Files) \ {{}} : \E order \in Orders(files),
        contents \in [files -> Texts \cup {Blank}], message \in BOOLEAN :
       LET new == [f \in Files |-> IF f \in files THEN contents[f] ELSE map[f]]
           changed == \E f \in files : Text(map[f]) # contents[f]
       IN /\ map' = new
          /\ saves' = IF changed
               THEN [saves EXCEPT ![s] = [pc |-> "write", files |-> order,
                       contents |-> [f \in Files |-> IF f \in files THEN contents[f] ELSE Absent],
                       message |-> message]]
               ELSE saves
          /\ touched' = IF Resetting THEN touched \cup files ELSE touched
          /\ doubtful' = IF Resetting THEN doubtful \cup files
                         ELSE IF changed THEN (doubtful \ files) \cup (files \cap Saving)
                         ELSE doubtful
  /\ started' = started + 1
  /\ UNCHANGED <<git, reset, syncs, resets, troubles>>

(* The git tool commits what is staged.                                    *)
CommitStaged(s) ==
  /\ saves[s].pc = "off" /\ started < MaxSaves
  /\ saves' = [saves EXCEPT ![s] = [NoSave EXCEPT !.pc = "check", !.message = TRUE]]
  /\ started' = started + 1
  /\ UNCHANGED <<map, git, reset, syncs, resets, troubles, doubtful, touched>>

(* stage: each file is written and added, one after the other.             *)
StageWrite(s) ==
  /\ saves[s].pc = "write"
  /\ LET f == Head(saves[s].files)
     IN workdir' = [workdir EXCEPT ![f] = saves[s].contents[f]]
  /\ saves' = [saves EXCEPT ![s].pc = "add"]
  /\ UNCHANGED <<map, index, head, commits, reset, syncs, counts, doubtful, touched>>

StageAdd(s) ==
  LET f == Head(saves[s].files)
      rest == Tail(saves[s].files)
  IN /\ saves[s].pc = "add" /\ workdir[f] # Absent
     /\ index' = [index EXCEPT ![f] = workdir[f]]
     /\ saves' = [saves EXCEPT ![s] =
          IF rest = << >> /\ ~@.message THEN NoSave
          ELSE [@ EXCEPT !.files = rest, !.pc = IF rest = << >> THEN "check" ELSE "write"]]
     /\ UNCHANGED <<map, workdir, head, commits, reset, syncs, counts, doubtful, touched>>

(* hasChanges compares HEAD with the working directory, and takes an error *)
(* for a change.                                                           *)
Check(s) ==
  /\ saves[s].pc = "check"
  /\ \/ saves' = [saves EXCEPT ![s].pc = "commit"]
     \/ workdir = head /\ saves' = [saves EXCEPT ![s] = NoSave]
  /\ UNCHANGED <<map, git, reset, syncs, counts, doubtful, touched>>

(* External: a commit takes the whole index.                               *)
Commit(s) ==
  /\ saves[s].pc = "commit"
  /\ head' = index /\ commits' = commits \cup {index}
  /\ saves' = [saves EXCEPT ![s] = NoSave]
  /\ UNCHANGED <<map, workdir, index, reset, syncs, counts, doubtful, touched>>

(* A step of git throws, a file that is too large for instance; the error  *)
(* is only logged.                                                         *)
SaveFails(s) ==
  /\ saves[s].pc # "off"
  /\ \/ saves[s].pc = "add" /\ workdir[Head(saves[s].files)] = Absent
        /\ UNCHANGED troubles
     \/ troubles < MaxTroubles /\ troubles' = troubles + 1
  /\ doubtful' = doubtful \cup FilesOf(saves[s])
  /\ saves' = [saves EXCEPT ![s] = NoSave]
  /\ UNCHANGED <<map, git, reset, syncs, started, resets, touched>>

(* deleteFiles: the map only.                                              *)
DeleteFile(f) ==
  /\ map[f] # Absent
  /\ map' = [map EXCEPT ![f] = Absent]
  /\ doubtful' = doubtful \cup {f}
  /\ touched' = IF Resetting THEN touched \cup {f} ELSE touched
  /\ UNCHANGED <<git, saves, reset, syncs, counts>>

-----------------------------------------------------------------------------
(* reset: the ref is resolved, HEAD is written, the tree checked out, the  *)
(* files listed, and the callback called.  Syncs of earlier resets are     *)
(* late when HEAD moves.                                                   *)
StartReset ==
  /\ reset.pc = "off" /\ resets < MaxResets
  /\ \E y \in Syncs : syncs[y].pc = "off"
  /\ \E target \in commits : reset' = [pc |-> "head", target |-> target]
  /\ resets' = resets + 1
  /\ touched' = IF Resetting THEN touched \cup Saving ELSE Saving
  /\ UNCHANGED <<map, git, saves, syncs, started, troubles, doubtful>>

ResetHead ==
  /\ reset.pc = "head"
  /\ head' = reset.target
  /\ reset' = [reset EXCEPT !.pc = "checkout"]
  /\ syncs' = [y \in Syncs |-> IF syncs[y].pc = "off" THEN NoSync
                               ELSE [syncs[y] EXCEPT !.late = TRUE]]
  /\ UNCHANGED <<map, workdir, index, commits, saves, counts, doubtful, touched>>

(* External: a forced checkout replaces what the index knows, and HEAD.    *)
ResetCheckout ==
  /\ reset.pc = "checkout"
  /\ workdir' = [f \in Files |-> IF reset.target[f] = Absent /\ index[f] = Absent
                                   THEN workdir[f] ELSE reset.target[f]]
  /\ index' = reset.target /\ head' = reset.target
  /\ reset' = [reset EXCEPT !.pc = "list"]
  /\ UNCHANGED <<map, commits, saves, syncs, counts, doubtful, touched>>

(* The callback starts a sync.                                             *)
ResetDone ==
  /\ reset.pc = "list"
  /\ \E y \in Syncs :
       /\ syncs[y].pc = "off"
       /\ syncs' = [syncs EXCEPT ![y].pc = "read"]
  /\ reset' = NoReset
  /\ UNCHANGED <<map, git, saves, counts, doubtful, touched>>

ResetFails ==
  /\ reset.pc # "off" /\ troubles < MaxTroubles
  /\ troubles' = troubles + 1
  /\ doubtful' = IF reset.pc = "list" THEN Files ELSE doubtful
  /\ reset' = NoReset
  /\ UNCHANGED <<map, git, saves, syncs, started, resets, touched>>

(* getAllFilesFromHead: empty and binary files are left out.               *)
ReadHead(y) ==
  /\ syncs[y].pc = "read"
  /\ syncs' = [syncs EXCEPT ![y].pc = "set",
       ![y].tree = [f \in Files |-> IF head[f] = Blank THEN Absent ELSE head[f]]]
  /\ UNCHANGED <<map, git, saves, reset, counts, doubtful, touched>>

(* Its errors are caught, and HEAD is taken to be without files.           *)
ReadHeadFails(y) ==
  /\ syncs[y].pc = "read" /\ troubles < MaxTroubles
  /\ troubles' = troubles + 1
  /\ syncs' = [syncs EXCEPT ![y].pc = "set", ![y].tree = NoFiles, ![y].late = TRUE]
  /\ UNCHANGED <<map, git, saves, reset, started, resets, doubtful, touched>>

\* Mutant: files that HEAD does not have are kept.
SetMap_Merge(y) ==
  /\ syncs[y].pc = "set"
  /\ map' = [f \in Files |-> IF syncs[y].tree[f] = Absent THEN map[f] ELSE syncs[y].tree[f]]
  /\ doubtful' = IF syncs[y].late THEN Files ELSE touched
  /\ syncs' = [syncs EXCEPT ![y] = NoSync]
  /\ UNCHANGED <<git, saves, reset, counts, touched>>

(* syncGeneratedFilesMapFromGit, after its await.                          *)
SetMap(y) ==
  /\ syncs[y].pc = "set"
  /\ map' = syncs[y].tree
  /\ doubtful' = IF syncs[y].late THEN Files ELSE touched
  /\ syncs' = [syncs EXCEPT ![y] = NoSync]
  /\ UNCHANGED <<git, saves, reset, counts, touched>>

(* The object is evicted.  When it starts again and there is no commit,    *)
(* gitInit commits the generated files.                                    *)
Evict ==
  /\ troubles < MaxTroubles /\ troubles' = troubles + 1
  /\ LET all == {f \in Files : map[f] # Absent}
         none == [s \in Saves |-> NoSave]
     IN IF commits = {} /\ all # {}
          THEN \E s \in Saves, order \in Orders(all) :
                 saves' = [none EXCEPT ![s] =
                   [pc |-> "write", files |-> order, contents |-> map, message |-> TRUE]]
          ELSE saves' = none
  /\ reset' = NoReset /\ syncs' = [y \in Syncs |-> NoSync]
  /\ doubtful' = IF reset.pc = "list" \/ \E y \in Syncs : syncs[y].pc # "off" THEN Files
                 ELSE doubtful \cup Saving
  /\ touched' = {}
  /\ UNCHANGED <<map, git, started, resets>>

Next ==
  \/ \E s \in Saves :
       \/ SaveGeneratedFiles(s) \/ CommitStaged(s) \/ StageWrite(s) \/ StageAdd(s)
       \/ Check(s) \/ Commit(s) \/ SaveFails(s)
  \/ \E f \in Files : DeleteFile(f)
  \/ StartReset \/ ResetHead \/ ResetCheckout \/ ResetDone \/ ResetFails
  \/ \E y \in Syncs : ReadHead(y) \/ ReadHeadFails(y) \/ SetMap(y)
  \/ Evict

Spec == Init /\ [][Next]_vars

-----------------------------------------------------------------------------
Quiet == Saving = {} /\ ~Resetting /\ \A s \in Saves : saves[s].pc = "off"

(* When nothing is in progress, the map and git have the same files with   *)
(* the same text, but for those that were deleted, whose save failed, that *)
(* two saves wrote at once, or that were saved during a reset.             *)
MapAgreesWithGit ==
  Quiet => \A f \in Files \ doubtful : Text(map[f]) = Text(index[f])
==================================================================================
