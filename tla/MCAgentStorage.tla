----------------------------- MODULE MCAgentStorage -----------------------------
(***************************************************************************)
(* What an agent keeps in the database of its object: its conversation and *)
(* its files, in a map and in a git repository.  The two share no state,   *)
(* so every behaviour is one of one of them.                               *)
(***************************************************************************)
EXTENDS Conversation, TLC

CONSTANTS
  Files, Texts, Absent, Blank, Saves, Syncs, MaxSaves, MaxResets, MaxTroubles

VARIABLES
  part,
  map, workdir, index, head, commits, saves, reset, syncs, started, resets, troubles,
  doubtful, touched

fileVars == <<map, workdir, index, head, commits, saves, reset, syncs, started, resets,
              troubles, doubtful, touched>>

fileStore == INSTANCE FileStore

ASSUME fileStore!FileStoreAssumption

(* legacy is of no matter to the files.                                    *)
StorageInit ==
  /\ part \in {"conversation", "files"} /\ Init /\ fileStore!Init
  /\ part = "files" => legacy = << >>

StorageNext ==
  \/ part = "conversation" /\ Next /\ UNCHANGED <<part, fileVars>>
  \/ part = "files" /\ fileStore!Next /\ UNCHANGED <<part, vars>>

StorageSpec == StorageInit /\ [][StorageNext]_<<part, vars, fileVars>>

Symmetry == Permutations(Files) \cup Permutations(Texts) \cup Permutations(Saves)
              \cup Permutations(Syncs)

(* The map of files is what git has: FileStore.                            *)
MapAgreesWithGit == fileStore!MapAgreesWithGit
=================================================================================
