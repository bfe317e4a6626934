-------------------------------- MODULE ToolCalls --------------------------------
(***************************************************************************)
(* How the deltas of a streamed response become tool calls                 *)
(* (worker/agents/inferutils/core.ts, accumulateToolCallDelta and          *)
(* assembleToolCalls).  An accumulator holds the entries in the order they *)
(* were created, and finds them by index and by id.                        *)
(***************************************************************************)
EXTENDS Integers, Sequences, SequencesExt, FiniteSets

CONSTANT Pieces    \* pieces that the arguments of a call come in

None == << >>

(* A name, an id and the pieces of the arguments are those of a call: the  *)
(* number of the call stands for all of them.                              *)
Whole(call) == [k \in 1..Pieces |-> <<call, k>>]

(* JSON.parse takes the arguments: they are those of a call.               *)
Complete(args) == args # << >> /\ args = Whole(args[1][1])

Delta(index, id, name, args) ==
  [index |-> index, id |-> id, name |-> name, args |-> args]

(* byIndex and byId are Maps: sets of pairs of a key and an entry.         *)
Found(map, key) == IF \E p \in map : p[1] = key
                     THEN (CHOOSE p \in map : p[1] = key)[2] ELSE 0

EmptyAccumulator == [entries |-> << >>, byIndex |-> {}, byId |-> {}]

Lookup(acc, delta) ==
  IF delta.id # None /\ Found(acc.byId, delta.id) # 0
    THEN Found(acc.byId, delta.id)
  ELSE IF delta.index # None THEN Found(acc.byIndex, delta.index) ELSE 0

Set(map, key, entry) == {p \in map : p[1] # key} \cup {<<key, entry>>}

\* Mutant: arguments are appended to arguments that are complete.
Arguments_Appended(before, chunk) == before \o chunk

(* Extra data after complete arguments is ignored.                         *)
Arguments(before, chunk) == IF Complete(before) THEN before ELSE before \o chunk

(* accumulateToolCallDelta                                                 *)
Accumulate(acc, delta) ==
  LET found == Lookup(acc, delta)
      e == IF found = 0 THEN Len(acc.entries) + 1 ELSE found
      old == IF found = 0
               THEN [id |-> IF delta.id # None THEN delta.id ELSE <<"tool", e>>,
                     index |-> None, name |-> None, args |-> << >>]
               ELSE acc.entries[found]
      new == [id |-> IF delta.id # None THEN delta.id ELSE old.id,
              index |-> IF old.index = None THEN delta.index ELSE old.index,
              name |-> IF delta.name # None THEN delta.name ELSE old.name,
              args |-> Arguments(old.args, delta.args)]
  IN [entries |-> IF found = 0 THEN Append(acc.entries, new)
                  ELSE [acc.entries EXCEPT ![e] = new],
      byIndex |-> IF old.index = None /\ delta.index # None
                    THEN Set(acc.byIndex, delta.index, e) ELSE acc.byIndex,
      byId |-> Set({p \in acc.byId : p[1] # old.id}, new.id, e)]

(* assembleToolCalls: by index if there is any index, else as first seen;  *)
(* infer drops the calls without a name.                                   *)
Assemble(acc) ==
  LET entries == {p[2] : p \in IF acc.byIndex # {} THEN acc.byIndex ELSE acc.byId}
      named == {e \in entries : acc.entries[e].name # None}
      Earlier(a, b) == IF acc.byIndex # {}
                         THEN acc.entries[a].index[1] < acc.entries[b].index[1]
                         ELSE a < b
      sorted == CHOOSE s \in SetToSeqs(named) :
                  \A i, j \in DOMAIN s : i < j => Earlier(s[i], s[j])
  IN [i \in DOMAIN sorted |->
        [name |-> acc.entries[sorted[i]].name, args |-> acc.entries[sorted[i]].args]]
==================================================================================
