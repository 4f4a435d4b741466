---------------------------- MODULE SessionStore ----------------------------
(***************************************************************************)
(* The durable lifecycle store of the agent core                           *)
(* (src/internal/agentcore/session.go and session_persistence.go).         *)
(*                                                                         *)
(* Every operation holds SessionStore.mu for its whole body, so each is    *)
(* one action.  An operation changes one row in memory and then saves the  *)
(* complete table: a temporary file is written, synced and renamed over    *)
(* the snapshot, and the directory is synced.  A failure before the rename *)
(* is NotPublished and the operation puts the old row back; a failure      *)
(* after it is PublishedDurabilityUnknown: memory keeps the new row and    *)
(* the store is poisoned, so that nothing more is written until a restart. *)
(*                                                                         *)
(* Data that no property tells apart is left out: session kind, permission *)
(* mode, failure text, timestamps, resumedFrom, the payload of events.     *)
(***************************************************************************)
EXTENDS Naturals, Sequences, FiniteSets

CONSTANTS
    Ids,             \* logical session identifiers
    Units,           \* metered execution units (UsageRecord.UnitID)
    NoUnit,          \* the unit of a checkpoint that records no usage
    NoRow,           \* stands for an identifier the table has no row of
    NoSnapshot,      \* stands for no workspace transition in progress
    MaxStream,       \* bound: stream events per row
    MaxCheckpoints,  \* bound: checkpoints per row
    MaxAttempt,      \* bound: executions of one row (1 + resumes)
    MaxIncarnation   \* bound: process starts

ASSUME SessionAssumption ==
    /\ NoUnit \notin Units
    /\ MaxStream \in Nat
    /\ MaxCheckpoints \in Nat
    /\ MaxAttempt \in Nat \ {0}
    /\ MaxIncarnation \in Nat \ {0}

VARIABLES
    running,       \* a store has been constructed in the live process
    incarnation,   \* how many processes have constructed a store
    rows,          \* SessionStore.sessions, NoRow where the map has no entry
    poison,        \* the error classes joined in persistencePoison
    disk,          \* what the snapshot file shows to a reader
    survivors,     \* what the snapshot file may show after a power loss
    captured,      \* the snapshot of the workspace transition in progress
    ackedUsage     \* history: <<row, unit>> recorded by a save reported durable

vars == <<running, incarnation, rows, poison, disk, survivors, captured,
          ackedUsage>>

-----------------------------------------------------------------------------
(* The durable row and the table of rows.                                  *)

Statuses == {"running", "paused", "failed", "completed"}

\* An owner belongs to one process incarnation; bound says that its RuntimeID
\* is set, that is, that the row names a live runtime namespace.
Owners == [bound : BOOLEAN, incarnation : Nat]
NoOwner == [bound |-> FALSE, incarnation |-> 0]

Checkpoints == [unit : Units \cup {NoUnit}, sequence : Nat]

Rows == [status      : Statuses,
         recovery    : BOOLEAN,          \* Recovery = "recovery-required"
         disposition : BOOLEAN,          \* RecoveryDisposition = "discard"
         closedAt    : BOOLEAN,          \* CompletedAt # nil
         owner       : Owners,
         attempt     : Nat,
         stream      : Nat,              \* number of events, 1..stream
         checkpoints : Seq(Checkpoints)]

Tables == [Ids -> Rows \cup {NoRow}]
EmptyTable == [id \in Ids |-> NoRow]

ASSUME AbsenceAssumption == NoRow \notin Rows /\ NoSnapshot \notin Tables

Present(id) == rows[id] # NoRow

\* Mutant: a row of an earlier process is open to new work.
LiveOrRecovering(id, statuses) == Present(id) /\ rows[id].status \in statuses

\* A row that new work may change: known, and not left by an earlier process.
Live(id, statuses) ==
    /\ Present(id)
    /\ rows[id].status \in statuses
    /\ ~rows[id].recovery

-----------------------------------------------------------------------------
(* Saving: persistLocked, Save and the caller's rollback.                   *)

\* A process that dies between the rename and the return of Save leaves the
\* disk as "published unknown" followed by Crash does.
SaveOutcomes == {"durable", "not published", "published unknown"}

\* Mutant: a poisoned store still saves.
PoisonIgnored(outcome) == TRUE

\* A poisoned store refuses before it calls Save.
Possible(outcome) == poison # {} => outcome = "not published"

\* Mutant: every failed save is rolled back, the published one too.
RollbackOnEveryError(outcome) == outcome # "durable"

ShouldRollback(outcome) == outcome = "not published"

KeptInMemory(old, new, outcome) == IF ShouldRollback(outcome) THEN old ELSE new

Visible(old, new, outcome) == IF outcome = "not published" THEN old ELSE new

AfterPowerLoss(old, new, outcome) ==
    CASE outcome = "not published"     -> old
      [] outcome = "durable"           -> {new}
      [] outcome = "published unknown" -> old \cup {new}

\* Mutant: the poison joins the outcome of every failed save.
PoisonByOutcome(old, outcome) ==
    IF outcome = "durable" THEN old ELSE old \cup {outcome}

PoisonAfter(old, outcome) ==
    IF outcome = "published unknown" THEN old \cup {"indeterminate"} ELSE old

\* The operation installs `new`, saves it, and undoes it when it must.
Persist(new, outcome) ==
    /\ Possible(outcome)
    /\ rows' = KeptInMemory(rows, new, outcome)
    /\ disk' = Visible(disk, new, outcome)
    /\ survivors' = AfterPowerLoss(survivors, new, outcome)
    /\ poison' = PoisonAfter(poison, outcome)
    /\ UNCHANGED <<running, incarnation>>

\* No workspace transition holds the lifecycle transition lock.
Idle == running /\ captured = NoSnapshot

\* A transition of one row that reports nothing about usage or discards.
PersistRow(id, row) ==
    /\ Idle
    /\ \E outcome \in SaveOutcomes : Persist([rows EXCEPT ![id] = row], outcome)
    /\ UNCHANGED <<captured, ackedUsage>>

-----------------------------------------------------------------------------
(* Operations on one row.                                                  *)

CurrentOwner == [bound |-> TRUE, incarnation |-> incarnation]

\* Begin (no owner) and BeginOwned: the row must not exist.
BeginOwned(id, owner) ==
    /\ ~Present(id)
    /\ owner \in {NoOwner, CurrentOwner}
    /\ PersistRow(id, [status |-> "running", recovery |-> FALSE,
                       disposition |-> FALSE, closedAt |-> FALSE,
                       owner |-> owner, attempt |-> 1,
                       stream |-> 0, checkpoints |-> <<>>])

Streamed(row) == [row EXCEPT !.stream = @ + 1]

AppendStream(id) ==
    /\ Live(id, {"running"})
    /\ rows[id].stream < MaxStream
    /\ PersistRow(id, Streamed(rows[id]))

Checkpointed(row, unit) ==
    [row EXCEPT !.checkpoints =
        Append(@, [unit |-> unit, sequence |-> row.stream])]

CreateCheckpoint(id) ==
    /\ Live(id, {"running", "paused"})
    /\ Len(rows[id].checkpoints) < MaxCheckpoints
    /\ PersistRow(id, Checkpointed(rows[id], NoUnit))

Pause(id) ==
    /\ Live(id, {"running"})
    /\ PersistRow(id, [rows[id] EXCEPT !.status = "paused"])

Fail(id) ==
    /\ Live(id, {"running"})
    /\ PersistRow(id, [rows[id] EXCEPT !.status = "failed"])

Resumed(row) == [row EXCEPT !.status = "running", !.attempt = @ + 1,
                            !.closedAt = FALSE]

\* Resume names a checkpoint that belongs to the row.
Resume(id) ==
    /\ Live(id, {"paused", "failed"})
    /\ rows[id].checkpoints # <<>>
    /\ rows[id].attempt < MaxAttempt
    /\ PersistRow(id, Resumed(rows[id]))

Closed(row) == [row EXCEPT !.status = "completed", !.closedAt = TRUE]

Complete(id) ==
    /\ Live(id, {"running"})
    /\ PersistRow(id, Closed(rows[id]))

\* Closing a completed row changes nothing, but saves the table again.
Close(id) ==
    /\ Live(id, Statuses)
    /\ PersistRow(id, IF rows[id].status = "completed"
                      THEN rows[id] ELSE Closed(rows[id]))

\* The only way from recovery-required back to a resumable row.
BindOwner(id) ==
    /\ Present(id)
    /\ rows[id].status # "completed"
    /\ PersistRow(id, [rows[id] EXCEPT !.owner = CurrentOwner,
                                      !.recovery = FALSE])

\* Wiring rollback of a row without history.
Delete(id) ==
    /\ Idle
    /\ Present(id)
    /\ rows[id].stream = 0
    /\ rows[id].checkpoints = <<>>
    /\ \E outcome \in SaveOutcomes : Persist([rows EXCEPT ![id] = NoRow], outcome)
    /\ UNCHANGED <<captured, ackedUsage>>

\* The terminal decision on a row of an earlier process.  Repeating it on a
\* row that already carries it reports success without a save.
Discarded(row) == row.status = "completed" /\ ~row.recovery /\ row.disposition

\* Mutant: the discard forgets the completion time.
DispositionedOpen(row) == [row EXCEPT !.status = "completed",
                                      !.recovery = FALSE, !.disposition = TRUE]

Dispositioned(row) == [row EXCEPT !.status = "completed", !.closedAt = TRUE,
                                  !.recovery = FALSE, !.disposition = TRUE]

ApplyRecoveryDisposition(id) ==
    /\ Idle
    /\ poison = {}
    /\ Present(id)
    /\ \/ /\ Discarded(rows[id])
          /\ UNCHANGED <<running, incarnation, rows, poison, disk, survivors>>
       \/ /\ ~Discarded(rows[id])
          /\ rows[id].recovery
          /\ \E outcome \in SaveOutcomes :
               Persist([rows EXCEPT ![id] = Dispositioned(rows[id])], outcome)
    /\ UNCHANGED <<captured, ackedUsage>>

\* Mutant: only the newest checkpoint is searched.
LatestUsage(row, unit) ==
    /\ row.checkpoints # <<>>
    /\ row.checkpoints[Len(row.checkpoints)].unit = unit

HasUsage(row, unit) ==
    \E n \in DOMAIN row.checkpoints : row.checkpoints[n].unit = unit

\* One event and one checkpoint in a single save; a unit already recorded in
\* the row is reported done without a save.
AppendUsageObservation(id, unit) ==
    /\ Idle
    /\ Live(id, {"running"})
    /\ ~HasUsage(rows[id], unit)
    /\ rows[id].stream < MaxStream
    /\ Len(rows[id].checkpoints) < MaxCheckpoints
    /\ \E outcome \in SaveOutcomes :
         /\ Persist([rows EXCEPT ![id] = Checkpointed(Streamed(rows[id]), unit)],
                 outcome)
         /\ ackedUsage' = IF outcome = "durable"
                          THEN ackedUsage \cup {<<id, unit>>} ELSE ackedUsage
    /\ UNCHANGED captured

-----------------------------------------------------------------------------
(* The workspace transition: capture, close everything, restore or commit. *)

CaptureSnapshot ==
    /\ Idle
    /\ poison = {}
    /\ captured' = rows
    /\ UNCHANGED <<running, incarnation, rows, poison, disk, survivors,
                   ackedUsage>>

\* Rows awaiting recovery are skipped; when nothing is left nothing is saved.
ClosedTable ==
    [id \in Ids |-> IF Live(id, Statuses \ {"completed"})
                    THEN Closed(rows[id]) ELSE rows[id]]

CloseAllDurable ==
    /\ running
    /\ captured # NoSnapshot
    /\ \E id \in Ids : Live(id, Statuses)
    /\ \E outcome \in SaveOutcomes : Persist(ClosedTable, outcome)
    /\ UNCHANGED <<captured, ackedUsage>>

RestoreSnapshot ==
    /\ running
    /\ captured # NoSnapshot
    /\ \E outcome \in SaveOutcomes : Persist(captured, outcome)
    /\ captured' = NoSnapshot
    /\ UNCHANGED ackedUsage

\* The coordinator ends the transition and forgets the snapshot.
ReleaseSnapshot ==
    /\ running
    /\ captured # NoSnapshot
    /\ captured' = NoSnapshot
    /\ UNCHANGED <<running, incarnation, rows, poison, disk, survivors,
                   ackedUsage>>

\* A coordinator whose compensation failed rejects every later write.
Poison ==
    /\ running
    /\ "declared" \notin poison
    /\ poison' = poison \cup {"declared"}
    /\ UNCHANGED <<running, incarnation, rows, disk, survivors, captured,
                   ackedUsage>>

-----------------------------------------------------------------------------
(* Process start, crash and power loss.                                    *)

\* Every row that is not terminal belonged to a process that is gone.
Marked(row) ==
    IF row = NoRow \/ row.status = "completed" THEN row
    ELSE [row EXCEPT !.recovery = TRUE, !.owner.bound = FALSE]

\* Mutant: the constructor stops at the first row it marks.
FirstMarked ==
    IF \A id \in Ids : Marked(disk[id]) = disk[id] THEN disk
    ELSE LET first == CHOOSE id \in Ids : Marked(disk[id]) # disk[id]
         IN  [disk EXCEPT ![first] = Marked(@)]

MarkedTable == [id \in Ids |-> Marked(disk[id])]

\* The checks of the constructor; a file that fails one refuses the start.
ValidRow(row) ==
    /\ row.disposition =>
         row.status = "completed" /\ ~row.recovery /\ row.closedAt
    /\ \A n \in DOMAIN row.checkpoints : row.checkpoints[n].sequence <= row.stream

Valid(table) == \A id \in Ids : table[id] # NoRow => ValidRow(table[id])

\* The markers are saved only when they changed something, and a save that is
\* not durable fails the constructor.
NewPersistentSessionStore ==
    /\ ~running
    /\ incarnation < MaxIncarnation
    /\ Valid(disk)
    /\ \E outcome \in SaveOutcomes :
         /\ MarkedTable = disk => outcome = "durable"
         /\ running' = (outcome = "durable")
         /\ incarnation' = IF outcome = "durable" THEN incarnation + 1
                           ELSE incarnation
         /\ rows' = IF outcome = "durable" THEN MarkedTable ELSE EmptyTable
         /\ disk' = Visible(disk, MarkedTable, outcome)
         /\ survivors' = IF MarkedTable = disk THEN survivors
                         ELSE AfterPowerLoss(survivors, MarkedTable, outcome)
    /\ UNCHANGED <<poison, captured, ackedUsage>>

Stop ==
    /\ running' = FALSE
    /\ rows' = EmptyTable
    /\ poison' = {}
    /\ captured' = NoSnapshot
    /\ UNCHANGED <<incarnation, ackedUsage>>

\* The process dies; the file system keeps what a reader saw.
Crash ==
    /\ running
    /\ Stop
    /\ UNCHANGED <<disk, survivors>>

\* The machine dies; an unsynced directory entry may be the older one.
PowerLoss ==
    /\ Stop
    /\ disk' \in survivors
    /\ survivors' = {disk'}

-----------------------------------------------------------------------------
Init ==
    /\ running = FALSE
    /\ incarnation = 0
    /\ rows = EmptyTable
    /\ poison = {}
    /\ disk = EmptyTable
    /\ survivors = {EmptyTable}
    /\ captured = NoSnapshot
    /\ ackedUsage = {}

RowNext(id) ==
    \/ \E owner \in {NoOwner, CurrentOwner} : BeginOwned(id, owner)
    \/ AppendStream(id)
    \/ CreateCheckpoint(id)
    \/ Pause(id)
    \/ Fail(id)
    \/ Resume(id)
    \/ Complete(id)
    \/ Close(id)
    \/ BindOwner(id)
    \/ Delete(id)
    \/ ApplyRecoveryDisposition(id)
    \/ \E unit \in Units : AppendUsageObservation(id, unit)

TableNext ==
    \/ CaptureSnapshot
    \/ CloseAllDurable
    \/ RestoreSnapshot
    \/ ReleaseSnapshot
    \/ Poison
    \/ NewPersistentSessionStore
    \/ Crash
    \/ PowerLoss

Next == TableNext \/ \E id \in Ids : RowNext(id)

Spec == Init /\ [][Next]_vars

-----------------------------------------------------------------------------
(* Properties.                                                             *)

\* Types of the variables.
TypeOK ==
    /\ running \in BOOLEAN
    /\ incarnation \in Nat
    /\ rows \in Tables
    /\ poison \subseteq {"indeterminate", "declared"}
    /\ disk \in Tables
    /\ survivors \subseteq Tables
    /\ captured \in Tables \cup {NoSnapshot}
    /\ ackedUsage \subseteq Ids \X Units

\* Memory is never behind the snapshot that readers see, nor ahead of it:
\* a rollback happens exactly when nothing was published, whichever operation
\* failed, and a restore after a failed transition included.
MemoryIsPublished == running => rows = disk

\* Whatever a power loss reveals, the next process starts: no sequence of
\* operations saves a table that the constructor refuses.
EverySurvivorLoads == \A table \in survivors : Valid(table)

\* No row that may receive new work was opened by an earlier process, and no
\* recovery-required row still names a runtime namespace.
AuthorityIsNeverInherited ==
    running => \A id \in Ids : Present(id) =>
        \/ rows[id].status = "completed"
        \/ rows[id].recovery /\ ~rows[id].owner.bound
        \/ ~rows[id].recovery /\ rows[id].owner \in {NoOwner, CurrentOwner}

\* A metered unit is recorded at most once in the row that ran it, on every
\* table that may be read back, and an observation reported as durable is still
\* there after any power loss.
UsageIsExact ==
    \A table \in survivors :
        /\ \A id \in Ids : table[id] # NoRow =>
             \A m, n \in DOMAIN table[id].checkpoints :
                 /\ table[id].checkpoints[m].unit = table[id].checkpoints[n].unit
                 /\ table[id].checkpoints[m].unit # NoUnit
                 => m = n
        /\ \A ack \in ackedUsage :
             table[ack[1]] # NoRow /\ HasUsage(table[ack[1]], ack[2])

\* Once poisoned, the process neither writes nor changes its rows again.
PoisonFreezes ==
    [][running /\ poison # {} /\ running'
        => /\ poison \subseteq poison'
           /\ UNCHANGED <<rows, disk, survivors>>]_vars

\* The store implements a table of rows without memory, poison or failed saves:
\* whichever save fails, whatever crash follows, a reader sees rows that move
\* from open to closed, resume only from a checkpoint, leave recovery only to a
\* new owner or a discard, and never lose an event or a checkpoint; only a power
\* loss takes a published step back.
Durable == INSTANCE SessionTable WITH
    live <- running, table <- disk, fallback <- survivors

ImplementsTable == Durable!TableSpec
=============================================================================
