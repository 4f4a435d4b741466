---------------------------- MODULE SessionTable ----------------------------
(***************************************************************************)
(* What the session store promises to the rest of the agent core: one      *)
(* table of durable rows that moves row by row, without memory, poison or  *)
(* failed saves.  A step whose save fails before publication is no step,   *)
(* and one whose save is indeterminate may be taken back by a power loss.  *)
(***************************************************************************)
EXTENDS Naturals, Sequences

CONSTANTS
    Ids,
    NoRow,
    NoSnapshot

VARIABLES
    live,       \* a process has opened the table
    table,      \* the rows that a reader sees
    fallback,   \* the tables that a power loss may reveal
    captured    \* the table before the workspace transition in progress

tableVars == <<live, table, fallback, captured>>

-----------------------------------------------------------------------------
(* One row.                                                                *)

SameHistory(old, new) ==
    new.stream = old.stream /\ new.checkpoints = old.checkpoints

\* Events and checkpoints are only added.
Grows(old, new) ==
    /\ old.stream <= new.stream
    /\ \A n \in DOMAIN old.checkpoints :
         n \in DOMAIN new.checkpoints /\ new.checkpoints[n] = old.checkpoints[n]

Opens(new) ==
    /\ new.status = "running" /\ ~new.recovery
    /\ new.stream = 0 /\ new.checkpoints = <<>>

Works(old, new) ==
    /\ old.status \in {"running", "paused"}
    /\ new.status = old.status
    /\ Grows(old, new)

Resumes(old, new) ==
    /\ old.status \in {"paused", "failed"} /\ new.status = "running"
    /\ old.checkpoints # <<>>
    /\ SameHistory(old, new)

Rests(old, new) ==
    /\ \/ old.status = "running" /\ new.status \in {"paused", "failed"}
       \/ old.status # "completed" /\ new.status = "completed"
    /\ SameHistory(old, new)

\* The two ways out of recovery: a runtime of this process (which may also take
\* a row that needs no recovery), and a terminal discard.
Adopted(old, new) ==
    /\ old.status # "completed"
    /\ new.owner.bound
    /\ new = [old EXCEPT !.recovery = FALSE, !.owner = new.owner]

Discards(old, new) ==
    /\ old.recovery
    /\ new.status = "completed" /\ new.disposition /\ ~new.recovery
    /\ SameHistory(old, new)

RowMoves(old, new) ==
    IF old = NoRow THEN new # NoRow /\ Opens(new)
    ELSE IF new = NoRow THEN old.stream = 0 /\ old.checkpoints = <<>>
    ELSE \/ /\ ~old.recovery /\ ~new.recovery
            /\ Works(old, new) \/ Resumes(old, new) \/ Rests(old, new)
         \/ Adopted(old, new)
         \/ Discards(old, new)

-----------------------------------------------------------------------------
(* The table.                                                              *)

Saved == fallback' = {table'} \/ fallback' = fallback \cup {table'}

SaveRow(id) ==
    /\ live /\ captured = NoSnapshot
    /\ RowMoves(table[id], table'[id])
    /\ table' = [table EXCEPT ![id] = table'[id]]
    /\ Saved
    /\ UNCHANGED <<live, captured>>

\* A save of rows that did not change.
SaveAgain ==
    /\ live /\ Saved
    /\ UNCHANGED <<live, table, captured>>

Capture ==
    /\ live /\ captured = NoSnapshot
    /\ captured' = table
    /\ UNCHANGED <<live, table, fallback>>

\* The rows of the workspace are completed, those awaiting recovery are kept.
CloseAll ==
    /\ live /\ captured # NoSnapshot
    /\ \A id \in Ids :
         \/ table'[id] = table[id] /\ (table[id] # NoRow =>
                table[id].recovery \/ table[id].status = "completed")
         \/ /\ table[id] # NoRow /\ table'[id] # NoRow
            /\ ~table[id].recovery /\ ~table'[id].recovery
            /\ Rests(table[id], table'[id]) /\ table'[id].status = "completed"
    /\ Saved
    /\ UNCHANGED <<live, captured>>

\* Exactly the captured table comes back.
Rollback ==
    /\ live /\ captured # NoSnapshot
    /\ table' = captured
    /\ captured' = NoSnapshot
    /\ Saved
    /\ UNCHANGED live

Release ==
    /\ captured' = NoSnapshot
    /\ UNCHANGED <<live, table, fallback>>

\* A new process takes over the rows that are complete and quarantines the
\* others.  It may fail after it has written.
Open ==
    /\ ~live
    /\ \A id \in Ids :
         IF table[id] = NoRow \/ table[id].status = "completed"
         THEN table'[id] = table[id]
         ELSE table'[id] = [table[id] EXCEPT !.recovery = TRUE, !.owner.bound = FALSE]
    /\ Saved \/ fallback' = fallback
    /\ live' \in BOOLEAN
    /\ UNCHANGED captured

Die ==
    /\ live' = FALSE
    /\ captured' = NoSnapshot
    /\ \/ UNCHANGED <<table, fallback>>
       \/ table' \in fallback /\ fallback' = {table'}

TableSpecNext ==
    \/ \E id \in Ids : SaveRow(id)
    \/ SaveAgain \/ Capture \/ CloseAll \/ Rollback \/ Release \/ Open \/ Die

TableSpecInit ==
    /\ live = FALSE
    /\ table = [id \in Ids |-> NoRow]
    /\ fallback = {table}
    /\ captured = NoSnapshot

TableSpec == TableSpecInit /\ [][TableSpecNext]_tableVars
=============================================================================
