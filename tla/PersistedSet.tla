---------------------------- MODULE PersistedSet ----------------------------
(***************************************************************************)
(* A set that lives in memory and is persisted in a table, the way class   *)
(* ActiveTradingPairs and the red list of class TradingMode do it: loaded  *)
(* once when the process starts, changed in memory at once and in the      *)
(* table by a write nobody waits for, whose errors are ignored.  Writes    *)
(* reach the table in any order or never, even after the process is gone.  *)
(* A row that is there is not created again, one that is not there not     *)
(* deleted: both are errors that change nothing.                           *)
(***************************************************************************)
EXTENDS Naturals

CONSTANT Keys

VARIABLE set
(***************************************************************************)
(* set.memory, set.table     the elements, in memory and in the table      *)
(* set.writes[k][op]         writes of k under way, to create or to delete *)
(* set.loader, set.snapshot  loadData and the rows it has read             *)
(*   and, for the properties,                                              *)
(* set.intended              the set as the callers want it                *)
(* set.troubled              keys of which a write was lost, or that were  *)
(*                           changed while the process started or another  *)
(*                           write of them was under way, or were under    *)
(*                           way when it stopped                           *)
(***************************************************************************)

-----------------------------------------------------------------------------
Ops == {"create", "delete"}

Loaders == {"reading", "read", "done", "failed"}

SetType ==
  set \in [memory : SUBSET Keys, table : SUBSET Keys,
           writes : [Keys -> [Ops -> Nat]],
           loader : Loaders, snapshot : SUBSET Keys,
           intended : SUBSET Keys, troubled : SUBSET Keys]

\* The process starts, with a table that may have been filled before.
SetInit(table) ==
  set = [memory |-> {}, table |-> table,
         writes |-> [k \in Keys |-> [op \in Ops |-> 0]],
         loader |-> "reading", snapshot |-> {},
         intended |-> table, troubled |-> {}]

-----------------------------------------------------------------------------
With(S, ks, op) == IF op = "create" THEN S \cup ks ELSE S \ ks

NeverSent(k, op) == set.writes  \* mutant: a lazy promise without its then()
SendWrite(k, op) == [set.writes EXCEPT ![k][op] = @ + 1]

MayBePending(k, op) == set.writes[k][op] >= 0  \* mutant: an off-by-one
Pending(k, op) == set.writes[k][op] > 0

PendingKeys == {k \in Keys : \E op \in Ops : Pending(k, op)}

\* The caller's change of the keys in ks, in memory and on its way to the
\* table: a key that is quiet is in order from here on.
Changed(ks, op) ==
  [set EXCEPT
     !.memory = With(@, ks, op),
     !.intended = With(@, ks, op),
     !.writes = [k \in Keys |-> IF k \in ks THEN SendWrite(k, op)[k]
                                            ELSE set.writes[k]],
     !.troubled = IF set.loader = "done"
                  THEN (@ \ ks) \cup (ks \cap PendingKeys)
                  ELSE @ \cup ks]

Change(ks, op) == set' = Changed(ks, op)

-----------------------------------------------------------------------------
\* A write reaches the table.
WriteArrives(k, op) ==
  /\ Pending(k, op)
  /\ set' = [set EXCEPT !.table = With(@, {k}, op), !.writes[k][op] = @ - 1]

WriteFails(k, op) ==
  /\ Pending(k, op)
  /\ set' = [set EXCEPT !.writes[k][op] = @ - 1, !.troubled = @ \cup {k}]

\* loadData: the rows are read, or not, and later added to the memory.
LoadReads ==
  /\ set.loader = "reading"
  /\ \/ set' = [set EXCEPT !.loader = "read", !.snapshot = set.table]
     \/ set' = [set EXCEPT !.loader = "failed"]

LoadReplaces ==  \* mutant: the rows are what the memory is from now on
  /\ set.loader = "read"
  /\ set' = [set EXCEPT !.loader = "done", !.memory = set.snapshot,
                        !.snapshot = {}]
LoadAdds ==
  /\ set.loader = "read"
  /\ set' = [set EXCEPT !.loader = "done", !.memory = @ \cup set.snapshot,
                        !.snapshot = {}]

\* The process stops and starts again.
Restarted ==
  [set EXCEPT !.memory = {}, !.loader = "reading", !.snapshot = {},
              !.troubled = @ \cup PendingKeys]

\* The database is at work.
Persist ==
  \/ \E k \in Keys, op \in Ops : WriteArrives(k, op) \/ WriteFails(k, op)
  \/ LoadReads \/ LoadAdds

-----------------------------------------------------------------------------
\* Once loaded, the memory is what the callers wanted, before and after
\* restarts, and so is the table where no write is under way: except for the
\* keys that met trouble since they were last changed in peace.
Survives ==
  \A k \in Keys \ set.troubled :
    /\ set.loader = "done" => (k \in set.memory <=> k \in set.intended)
    /\ k \notin PendingKeys => (k \in set.table <=> k \in set.intended)
=============================================================================
