------------------------------- MODULE ErrorStore -------------------------------
(***************************************************************************)
(* The errors of one sandbox instance (container/storage.ts): the monitor  *)
(* stores them, processes of the command line tool list and clear them.    *)
(* SQLite makes single statements atomic, and nothing more.                *)
(***************************************************************************)
EXTENDS Integers, FiniteSets, Functions

CONSTANTS
  Hashes,    \* errors, told apart by level and cleaned message
  Tools,     \* slots for processes of the command line tool
  Retries,   \* maxRetries of retryOperation
  MaxErrors, MaxClears, MaxTroubles   \* bounds

ErrorStoreAssumption ==
  /\ Retries \in Nat \ {0} /\ {MaxErrors, MaxClears, MaxTroubles} \subseteq Nat
  /\ IsFiniteSet(Hashes) /\ IsFiniteSet(Tools)

VARIABLES
  rows,      \* occurrence_count by hash; 0 without a row
  store,     \* the monitor in storeError
  tools,
  stored,    \* history: calls of storeError that reported success
  removed,   \* history: occurrences that were deleted
  clears,    \* history: deletions
  errors, troubles

vars == <<rows, store, tools, stored, removed, clears, errors, troubles>>

Counts == [Hashes -> 0..MaxErrors]
Nothing == [h \in Hashes |-> 0]
Total(counts) == SumFunctionOnSet(counts, Hashes)

Idle == [pc |-> "off", hash |-> CHOOSE h \in Hashes : TRUE, tries |-> 0]
NoTool == [pc |-> "off", count |-> 0]

TypeOK ==
  /\ rows \in Counts
  /\ store \in [pc : {"off", "select", "update", "insert"}, hash : Hashes, tries : 0..Retries - 1]
  /\ tools \in [Tools -> [pc : {"off", "count", "delete"}, count : 0..Cardinality(Hashes)]]
  /\ {stored, removed, errors} \subseteq 0..MaxErrors
  /\ clears \in 0..MaxClears /\ troubles \in 0..MaxTroubles

Init ==
  /\ rows = Nothing /\ store = Idle /\ tools = [t \in Tools |-> NoTool]
  /\ stored = 0 /\ removed = 0 /\ clears = 0 /\ errors = 0 /\ troubles = 0

-----------------------------------------------------------------------------
(* parseJsonLog, or an error event of the child, calls storeError.         *)
StoreError(h) ==
  /\ store.pc = "off" /\ errors < MaxErrors
  /\ errors' = errors + 1
  /\ store' = [pc |-> "select", hash |-> h, tries |-> 0]
  /\ UNCHANGED <<rows, tools, stored, removed, clears, troubles>>

Select ==
  /\ store.pc = "select"
  /\ store' = [store EXCEPT !.pc = IF rows[store.hash] > 0 THEN "update" ELSE "insert"]
  /\ UNCHANGED <<rows, tools, stored, removed, clears, errors, troubles>>

\* Mutant: an error that is new, or whose call is tried again, counts twice.
Write_Twice ==
  /\ store.pc \in {"update", "insert"}
  /\ rows' = [rows EXCEPT ![store.hash] = IF store.tries > 0 \/ store.pc = "insert" THEN @ + 2 ELSE @ + 1]
  /\ stored' = stored + 1
  /\ store' = Idle
  /\ UNCHANGED <<tools, removed, clears, errors, troubles>>

(* The update is by the id of the row that was read: when it was deleted   *)
(* meanwhile nothing is changed, and the call succeeds.                    *)
Write ==
  /\ store.pc \in {"update", "insert"}
  /\ rows' = [rows EXCEPT ![store.hash] = IF store.pc = "insert" \/ @ > 0 THEN @ + 1 ELSE @]
  /\ stored' = stored + 1
  /\ store' = Idle
  /\ UNCHANGED <<tools, removed, clears, errors, troubles>>

(* A statement fails, the database is locked for instance: retryOperation  *)
(* begins again, and gives up in the end; the error is then forgotten.     *)
StatementFails ==
  /\ store.pc # "off" /\ troubles < MaxTroubles
  /\ troubles' = troubles + 1
  /\ store' = IF store.tries + 1 = Retries THEN Idle
              ELSE [store EXCEPT !.pc = "select", !.tries = @ + 1]
  /\ UNCHANGED <<rows, tools, stored, removed, clears, errors>>

(* errors list --reset and errors clear end in clearErrors: the rows are   *)
(* counted, then deleted.                                                  *)
Clear(t) ==
  /\ tools[t].pc = "off" /\ clears + Cardinality({u \in Tools : tools[u].pc # "off"}) < MaxClears
  /\ tools' = [tools EXCEPT ![t].pc = "count"]
  /\ UNCHANGED <<rows, store, stored, removed, clears, errors, troubles>>

CountErrors(t) ==
  /\ tools[t].pc = "count"
  /\ tools' = [tools EXCEPT ![t] =
       [pc |-> "delete", count |-> Cardinality({h \in Hashes : rows[h] > 0})]]
  /\ UNCHANGED <<rows, store, stored, removed, clears, errors, troubles>>

DeleteErrors(t) ==
  /\ tools[t].pc = "delete"
  /\ removed' = removed + Total(rows)
  /\ rows' = Nothing
  /\ clears' = clears + 1
  /\ tools' = [tools EXCEPT ![t] = NoTool]
  /\ UNCHANGED <<store, stored, errors, troubles>>

(* Killed by its timeout, or a statement of it fails.                      *)
ToolEnds(t) ==
  /\ tools[t].pc # "off" /\ troubles < MaxTroubles
  /\ troubles' = troubles + 1
  /\ tools' = [tools EXCEPT ![t] = NoTool]
  /\ UNCHANGED <<rows, store, stored, removed, clears, errors>>

Next ==
  \/ \E h \in Hashes : StoreError(h)
  \/ Select \/ Write \/ StatementFails
  \/ \E t \in Tools : Clear(t) \/ CountErrors(t) \/ DeleteErrors(t) \/ ToolEnds(t)

Spec == Init /\ [][Next]_vars

-----------------------------------------------------------------------------
(* Every call that reported success is counted in a row or was deleted     *)
(* with one, but for at most one for each deletion: the one that had read  *)
(* a row before it was deleted.                                            *)
OccurrencesCounted ==
  LET missed == stored - Total(rows) - removed IN missed \in 0..clears
==================================================================================
