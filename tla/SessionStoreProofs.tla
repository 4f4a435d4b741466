------------------------- MODULE SessionStoreProofs -------------------------
(***************************************************************************)
(* Theorems about SessionStore, for every number of rows, units, events,   *)
(* checkpoints, resumes and process starts.                                *)
(*                                                                         *)
(* The argument: every transition of the live process installs one table   *)
(* through Persist, and Persist leaves memory and snapshot equal.  What    *)
(* has to be shown of an operation is only that the row it installs is     *)
(* well formed (Sound) and belongs to this process (Mine).                 *)
(***************************************************************************)
EXTENDS SessionStore, TLAPS

-----------------------------------------------------------------------------
(* The inductive invariant.                                                *)

\* A row the next process can load: it passes the constructor's checks, and
\* when it waits for recovery it is not terminal and names no runtime.
Sound(row) ==
    /\ ValidRow(row)
    /\ row.recovery => ~row.owner.bound /\ row.status # "completed"

\* A row that may receive new work belongs to this process.
Mine(row) ==
    \/ row.status = "completed"
    \/ row.recovery
    \/ row.owner \in {NoOwner, CurrentOwner}

SoundTable(table) == \A id \in Ids : table[id] # NoRow => Sound(table[id])
MineTable(table) == \A id \in Ids : table[id] # NoRow => Mine(table[id])

\* A table the live process may install.
Installable(table) == table \in Tables /\ SoundTable(table) /\ MineTable(table)

\* The part of the invariant about the files.
FilesInv ==
    /\ disk \in survivors
    /\ \A table \in survivors : SoundTable(table)

\* The part about the memory of the live process.
MemoryInv ==
    IF running
    THEN /\ rows = disk
         /\ MineTable(rows)
         /\ captured # NoSnapshot => Installable(captured)
    ELSE captured = NoSnapshot /\ poison = {}

Inv == TypeOK /\ FilesInv /\ MemoryInv

-----------------------------------------------------------------------------
(* Lemmas about rows.                                                      *)

\* Putting a sound row of this process into a table keeps it installable.
LEMMA InstallRow ==
    ASSUME NEW table, Installable(table), NEW id \in Ids,
           NEW row \in Rows \cup {NoRow},
           row # NoRow => Sound(row) /\ Mine(row)
    PROVE  Installable([table EXCEPT ![id] = row])
BY DEF Installable, Tables, SoundTable, MineTable

\* The rows of a live process are installable.
LEMMA RowsInstallable ==
    ASSUME Inv, running
    PROVE  Installable(rows)
BY DEF Inv, TypeOK, FilesInv, MemoryInv, Installable

\* So does one more stream event.
LEMMA StreamedRow ==
    ASSUME NEW row \in Rows, Sound(row), Mine(row), ~row.recovery
    PROVE  /\ Streamed(row) \in Rows
           /\ Sound(Streamed(row))
           /\ Mine(Streamed(row))
           /\ ~Streamed(row).recovery
<1> DEFINE new == Streamed(row)
<1>1. row.stream \in Nat /\ row.checkpoints \in Seq(Checkpoints)
  BY DEF Rows
<1>2. \A n \in DOMAIN row.checkpoints : row.checkpoints[n].sequence \in Nat
  <2> DEFINE history == row.checkpoints
  <2>1. history \in Seq(Checkpoints)
    BY <1>1
  <2> HIDE DEF history
  <2>2. \A n \in DOMAIN history : history[n] \in Checkpoints
    BY <2>1
  <2>3. \A n \in DOMAIN history : history[n].sequence \in Nat
    BY <2>2 DEF Checkpoints
  <2> QED BY <2>3 DEF history
<1>3. /\ new \in Rows
      /\ new.stream = row.stream + 1
      /\ new.checkpoints = row.checkpoints
      /\ new.status = row.status
      /\ new.recovery = row.recovery
      /\ new.disposition = row.disposition
      /\ new.closedAt = row.closedAt
      /\ new.owner = row.owner
  BY DEF Rows, Streamed
<1>4. \A n \in DOMAIN new.checkpoints : new.checkpoints[n].sequence <= new.stream
  BY <1>1, <1>2, <1>3 DEF Sound, ValidRow
<1> QED BY <1>3, <1>4 DEF Sound, ValidRow, Mine

\* And a resume of a paused or failed row.
LEMMA ResumedRow ==
    ASSUME NEW row \in Rows, Sound(row), Mine(row), ~row.recovery,
           row.status \in {"paused", "failed"}
    PROVE  /\ Resumed(row) \in Rows
           /\ Sound(Resumed(row))
           /\ Mine(Resumed(row))
<1> DEFINE new == Resumed(row)
<1>1. row.attempt \in Nat
  BY DEF Rows
<1>2. new = [row EXCEPT !.status = "running", !.attempt = row.attempt + 1,
                       !.closedAt = FALSE]
  BY DEF Resumed
<1>3. new \in Rows
  BY <1>1, <1>2, row.attempt + 1 \in Nat, "running" \in Statuses DEF Rows, Statuses
<1>4. /\ new.status = "running"
      /\ new.recovery = row.recovery
      /\ new.disposition = row.disposition
      /\ new.owner = row.owner
      /\ new.stream = row.stream
      /\ new.checkpoints = row.checkpoints
  BY <1>2 DEF Rows
<1> QED BY <1>3, <1>4 DEF Sound, ValidRow, Mine

\* Appending a checkpoint at the end of the stream keeps a row well formed.
LEMMA CheckpointedRow ==
    ASSUME NEW row \in Rows, Sound(row), Mine(row), ~row.recovery,
           NEW unit \in Units \cup {NoUnit}
    PROVE  /\ Checkpointed(row, unit) \in Rows
           /\ Sound(Checkpointed(row, unit))
           /\ Mine(Checkpointed(row, unit))
<1> DEFINE added == [unit |-> unit, sequence |-> row.stream]
           new == Checkpointed(row, unit)
<1>1. added \in Checkpoints
  BY DEF Checkpoints, Rows
<1>2. /\ row.checkpoints \in Seq(Checkpoints)
      /\ new = [row EXCEPT !.checkpoints = Append(@, added)]
  BY DEF Rows, Checkpointed
<1>3. /\ Append(row.checkpoints, added) \in Seq(Checkpoints)
      /\ \A n \in DOMAIN Append(row.checkpoints, added) :
           Append(row.checkpoints, added)[n] = 
             IF n \in DOMAIN row.checkpoints THEN row.checkpoints[n] ELSE added
  BY <1>1, <1>2
<1>4. new \in Rows
  BY <1>2, <1>3 DEF Rows
<1>5. \A n \in DOMAIN new.checkpoints : new.checkpoints[n].sequence <= new.stream
  BY <1>2, <1>3 DEF Sound, ValidRow, Rows
<1>6. Sound(new) /\ Mine(new)
  BY <1>2, <1>5 DEF Sound, ValidRow, Mine, Rows
<1> QED BY <1>4, <1>6

-----------------------------------------------------------------------------
(* Lemmas about steps.                                                     *)

\* Saving an installable table keeps the invariant, whatever Save returns.
LEMMA PersistKeepsInv ==
    ASSUME Inv, running,
           NEW new, Installable(new),
           NEW outcome \in SaveOutcomes, Persist(new, outcome),
           captured' # NoSnapshot => Installable(captured'),
           captured' \in Tables \cup {NoSnapshot},
           ackedUsage' \subseteq Ids \X Units
    PROVE  Inv'
<1>1. /\ running' = running
      /\ incarnation' = incarnation
      /\ CurrentOwner' = CurrentOwner
  BY DEF Persist, CurrentOwner
<1>2. CASE outcome = "not published"
  <2>1. UNCHANGED <<rows, disk, survivors, poison>>
    BY <1>2 DEF Persist, KeptInMemory, Visible, AfterPowerLoss, PoisonAfter,
                ShouldRollback
  <2> QED
    BY <1>1, <2>1 DEF Inv, TypeOK, FilesInv, MemoryInv, MineTable, Mine, Installable
<1>3. CASE outcome # "not published"
  <2>1. /\ rows' = new
        /\ disk' = new
        /\ new \in survivors'
        /\ survivors' \subseteq survivors \cup {new}
        /\ poison' \subseteq poison \cup {"indeterminate"}
    BY <1>3 DEF Persist, KeptInMemory, Visible, AfterPowerLoss, PoisonAfter,
                ShouldRollback, SaveOutcomes
  <2>2. TypeOK'
    BY <1>1, <2>1 DEF Inv, TypeOK, Installable
  <2>3. FilesInv'
    BY <2>1 DEF Inv, FilesInv, Installable
  <2>4. MemoryInv'
    BY <1>1, <2>1 DEF MemoryInv, Installable, MineTable, Mine
  <2> QED BY <2>2, <2>3, <2>4 DEF Inv
<1> QED BY <1>2, <1>3

\* So an operation that saves one changed row keeps it.
LEMMA PersistRowKeepsInv ==
    ASSUME Inv, NEW id \in Ids, NEW row \in Rows, Sound(row), Mine(row),
           PersistRow(id, row)
    PROVE  Inv'
<1> DEFINE new == [rows EXCEPT ![id] = row]
<1>1. PICK outcome \in SaveOutcomes : Persist(new, outcome)
  BY DEF PersistRow
<1>2. running /\ UNCHANGED <<captured, ackedUsage>>
  BY DEF PersistRow, Idle
<1>3. captured = NoSnapshot
  BY DEF PersistRow, Idle
<1>4. Installable(new)
  BY <1>2, RowsInstallable, InstallRow
<1> HIDE DEF new
<1> QED
  BY <1>1, <1>2, <1>3, <1>4, PersistKeepsInv DEF Inv, TypeOK

\* What is known of a row that the live process finds in its table.
LEMMA PresentRow ==
    ASSUME Inv, running, NEW id \in Ids, Present(id)
    PROVE  rows[id] \in Rows /\ Sound(rows[id]) /\ Mine(rows[id])
BY DEF Inv, TypeOK, FilesInv, MemoryInv, SoundTable, MineTable, Present, Tables

\* Every operation on one row keeps the invariant.
LEMMA RowStep ==
    ASSUME Inv, NEW id \in Ids, RowNext(id)
    PROVE  Inv'
<1>1. ASSUME NEW owner, BeginOwned(id, owner) PROVE Inv'
  <2> DEFINE row == [status |-> "running", recovery |-> FALSE,
                     disposition |-> FALSE, closedAt |-> FALSE,
                     owner |-> owner, attempt |-> 1,
                     stream |-> 0, checkpoints |-> <<>>]
  <2>1. owner \in {NoOwner, CurrentOwner} /\ owner \in Owners
    <3>1. owner \in {NoOwner, CurrentOwner}
      BY <1>1 DEF BeginOwned
    <3>2. NoOwner \in Owners /\ CurrentOwner \in Owners
      BY DEF Inv, TypeOK, Owners, NoOwner, CurrentOwner
    <3> QED BY <3>1, <3>2
  <2>2. <<>> \in Seq(Checkpoints) /\ DOMAIN <<>> = {}
    OBVIOUS
  <2>3. row \in Rows
    BY <2>1, <2>2 DEF Rows, Statuses
  <2>4. Sound(row) /\ Mine(row)
    BY <2>1, <2>2 DEF Sound, ValidRow, Mine
  <2>5. PersistRow(id, row)
    BY <1>1 DEF BeginOwned
  <2> QED BY <2>3, <2>4, <2>5, PersistRowKeepsInv
<1>2. ASSUME AppendStream(id) PROVE Inv'
  <2>1. rows[id] \in Rows /\ Sound(rows[id]) /\ Mine(rows[id]) /\ ~rows[id].recovery
    BY <1>2, PresentRow DEF AppendStream, Live, PersistRow, Idle
  <2> QED BY <1>2, <2>1, StreamedRow, PersistRowKeepsInv DEF AppendStream
<1>3. ASSUME CreateCheckpoint(id) PROVE Inv'
  <2>1. rows[id] \in Rows /\ Sound(rows[id]) /\ Mine(rows[id]) /\ ~rows[id].recovery
    BY <1>3, PresentRow DEF CreateCheckpoint, Live, PersistRow, Idle
  <2> QED
    BY <1>3, <2>1, CheckpointedRow, PersistRowKeepsInv DEF CreateCheckpoint
<1>4. ASSUME Pause(id) \/ Fail(id) PROVE Inv'
  <2>1. PICK status \in Statuses \ {"completed"} :
            PersistRow(id, [rows[id] EXCEPT !.status = status])
    BY <1>4 DEF Pause, Fail, Statuses
  <2> DEFINE row == [rows[id] EXCEPT !.status = status]
  <2>2. Live(id, {"running"})
    BY <1>4 DEF Pause, Fail
  <2>3. rows[id] \in Rows /\ Sound(rows[id]) /\ Mine(rows[id])
        /\ ~rows[id].recovery /\ rows[id].status = "running"
    BY <2>1, <2>2, PresentRow DEF Live, PersistRow, Idle
  <2>4. row \in Rows /\ Sound(row) /\ Mine(row)
    BY <2>3 DEF Rows, Sound, ValidRow, Mine
  <2> QED BY <2>1, <2>4, PersistRowKeepsInv
<1>5. ASSUME Resume(id) PROVE Inv'
  <2>1. /\ rows[id] \in Rows /\ Sound(rows[id]) /\ Mine(rows[id])
        /\ ~rows[id].recovery /\ rows[id].status \in {"paused", "failed"}
    BY <1>5, PresentRow DEF Resume, Live, PersistRow, Idle
  <2> QED BY <1>5, <2>1, ResumedRow, PersistRowKeepsInv DEF Resume
<1>6. ASSUME Complete(id) \/ Close(id) PROVE Inv'
  <2>1. PICK row \in {rows[id], Closed(rows[id])} : PersistRow(id, row)
    BY <1>6 DEF Complete, Close
  <2>2. rows[id] \in Rows /\ Sound(rows[id]) /\ Mine(rows[id]) /\ ~rows[id].recovery
    BY <1>6, <2>1, PresentRow DEF Complete, Close, Live, PersistRow, Idle
  <2>3. row \in Rows /\ Sound(row) /\ Mine(row)
    BY <2>2 DEF Closed, Rows, Statuses, Sound, ValidRow, Mine
  <2> QED BY <2>1, <2>3, PersistRowKeepsInv
<1>7. ASSUME BindOwner(id) PROVE Inv'
  <2> DEFINE row == [rows[id] EXCEPT !.owner = CurrentOwner, !.recovery = FALSE]
  <2>1. rows[id] \in Rows /\ Sound(rows[id]) /\ rows[id].status # "completed"
    BY <1>7, PresentRow DEF BindOwner, PersistRow, Idle
  <2>2. CurrentOwner \in Owners
    BY DEF CurrentOwner, Owners, Inv, TypeOK
  <2>3. row \in Rows /\ Sound(row) /\ Mine(row)
    BY <2>1, <2>2 DEF Rows, Sound, ValidRow, Mine
  <2> QED BY <1>7, <2>3, PersistRowKeepsInv DEF BindOwner
<1>8. ASSUME Delete(id) PROVE Inv'
  <2> DEFINE new == [rows EXCEPT ![id] = NoRow]
  <2>1. PICK outcome \in SaveOutcomes : Persist(new, outcome)
    BY <1>8 DEF Delete
  <2>2. /\ running /\ captured = NoSnapshot
        /\ UNCHANGED <<captured, ackedUsage>>
    BY <1>8 DEF Delete, Idle
  <2>3. Installable(new)
    BY <2>2, RowsInstallable, InstallRow
  <2> HIDE DEF new
  <2> QED BY <2>1, <2>2, <2>3, PersistKeepsInv DEF Inv, TypeOK
<1>9. ASSUME ApplyRecoveryDisposition(id) PROVE Inv'
  <2>1. /\ running /\ captured = NoSnapshot
        /\ UNCHANGED <<captured, ackedUsage>>
    BY <1>9 DEF ApplyRecoveryDisposition, Idle, Inv, TypeOK
  <2>2. CASE Discarded(rows[id])
    <3>1. UNCHANGED <<running, incarnation, rows, poison, disk, survivors>>
      BY <1>9, <2>2 DEF ApplyRecoveryDisposition
    <3> QED
      BY <2>1, <3>1 DEF Inv, TypeOK, FilesInv, MemoryInv, MineTable, Mine,
                        CurrentOwner, Installable
  <2>3. CASE ~Discarded(rows[id])
    <3> DEFINE row == Dispositioned(rows[id])
               new == [rows EXCEPT ![id] = row]
    <3>1. PICK outcome \in SaveOutcomes : Persist(new, outcome)
      BY <1>9, <2>3 DEF ApplyRecoveryDisposition, Inv, TypeOK, Tables
    <3>2. rows[id] \in Rows /\ Sound(rows[id])
      BY <1>9, <2>1, PresentRow DEF ApplyRecoveryDisposition
    <3>3. row \in Rows /\ Sound(row) /\ Mine(row)
      BY <3>2 DEF Dispositioned, Rows, Statuses, Sound, ValidRow, Mine
    <3>4. Installable(new)
      BY <2>1, <3>3, RowsInstallable, InstallRow
    <3> HIDE DEF new
    <3> QED BY <2>1, <3>1, <3>4, PersistKeepsInv DEF Inv, TypeOK
  <2> QED BY <2>2, <2>3
<1>10. ASSUME NEW unit \in Units, AppendUsageObservation(id, unit) PROVE Inv'
  <2> DEFINE counted == Streamed(rows[id])
             new == [rows EXCEPT ![id] = Checkpointed(counted, unit)]
  <2>1. PICK outcome \in SaveOutcomes : Persist(new, outcome)
    BY <1>10 DEF AppendUsageObservation, Inv, TypeOK, Tables
  <2>2. /\ running /\ captured = NoSnapshot
        /\ UNCHANGED captured
        /\ ackedUsage' \subseteq Ids \X Units
    BY <1>10 DEF AppendUsageObservation, Idle, Inv, TypeOK
  <2>3. rows[id] \in Rows /\ Sound(rows[id]) /\ Mine(rows[id]) /\ ~rows[id].recovery
    BY <1>10, <2>2, PresentRow DEF AppendUsageObservation, Live
  <2>4. counted \in Rows /\ Sound(counted) /\ Mine(counted) /\ ~counted.recovery
    BY <2>3, StreamedRow
  <2> HIDE DEF counted
  <2>5. Installable(new)
    BY <2>2, <2>4, CheckpointedRow, RowsInstallable, InstallRow
  <2> HIDE DEF new
  <2> QED BY <2>1, <2>2, <2>5, PersistKeepsInv DEF Inv, TypeOK
<1> QED
  BY <1>1, <1>2, <1>3, <1>4, <1>5, <1>6, <1>7, <1>8, <1>9, <1>10 DEF RowNext

-----------------------------------------------------------------------------
\* A table of a dead process, with the recovery markers set.
LEMMA MarkedRow ==
    ASSUME NEW row \in Rows, Sound(row)
    PROVE  /\ Marked(row) \in Rows
           /\ Sound(Marked(row))
           /\ Marked(row).status = "completed" \/ Marked(row).recovery
<1>1. row # NoRow
  BY AbsenceAssumption
<1>2. CASE row.status = "completed"
  BY <1>1, <1>2 DEF Marked
<1>3. CASE row.status # "completed"
  <2>1. Marked(row) = [row EXCEPT !.recovery = TRUE, !.owner.bound = FALSE]
    BY <1>1, <1>3 DEF Marked
  <2>2. [row.owner EXCEPT !.bound = FALSE] \in Owners
    BY DEF Rows, Owners
  <2>3. /\ Marked(row) \in Rows
        /\ Marked(row).recovery
        /\ ~Marked(row).owner.bound
        /\ Marked(row).status = row.status
        /\ Marked(row).disposition = row.disposition
        /\ Marked(row).stream = row.stream
        /\ Marked(row).checkpoints = row.checkpoints
    BY <2>1, <2>2 DEF Rows, Owners
  <2> QED BY <1>3, <2>3 DEF Sound, ValidRow
<1> QED BY <1>2, <1>3

\* Every other step keeps the invariant.
LEMMA TableStep ==
    ASSUME Inv, TableNext
    PROVE  Inv'
<1>1. ASSUME CaptureSnapshot PROVE Inv'
  BY <1>1, RowsInstallable
     DEF CaptureSnapshot, Idle, Inv, TypeOK, FilesInv, MemoryInv, MineTable,
         Mine, CurrentOwner, Installable
<1>2. ASSUME CloseAllDurable PROVE Inv'
  <2>1. PICK outcome \in SaveOutcomes : Persist(ClosedTable, outcome)
    BY <1>2 DEF CloseAllDurable
  <2>2. running /\ UNCHANGED <<captured, ackedUsage>>
    BY <1>2 DEF CloseAllDurable
  <2>3. \A id \in Ids : /\ ClosedTable[id] \in Rows \cup {NoRow}
                        /\ ClosedTable[id] # NoRow
                           => Sound(ClosedTable[id]) /\ Mine(ClosedTable[id])
    <3> TAKE id \in Ids
    <3>1. CASE Live(id, Statuses \ {"completed"})
      <4>1. rows[id] \in Rows /\ Sound(rows[id]) /\ ~rows[id].recovery
        BY <2>2, <3>1, PresentRow DEF Live
      <4>2. /\ Closed(rows[id]) \in Rows
            /\ Sound(Closed(rows[id])) /\ Mine(Closed(rows[id]))
        BY <4>1 DEF Closed, Rows, Statuses, Sound, ValidRow, Mine
      <4> QED BY <3>1, <4>2 DEF ClosedTable
    <3>2. CASE ~Live(id, Statuses \ {"completed"})
      <4>1. ClosedTable[id] = rows[id] /\ rows[id] \in Rows \cup {NoRow}
        BY <3>2 DEF ClosedTable, Inv, TypeOK, Tables
      <4> QED BY <2>2, <4>1, PresentRow DEF Present
    <3> QED BY <3>1, <3>2
  <2>4. Installable(ClosedTable)
    BY <2>3 DEF Installable, SoundTable, MineTable, Tables, ClosedTable
  <2>5. captured # NoSnapshot => Installable(captured')
    BY <2>2 DEF Inv, MemoryInv
  <2> QED BY <2>1, <2>2, <2>4, <2>5, PersistKeepsInv DEF Inv, TypeOK
<1>3. ASSUME RestoreSnapshot PROVE Inv'
  <2>1. PICK outcome \in SaveOutcomes : Persist(captured, outcome)
    BY <1>3 DEF RestoreSnapshot
  <2>2. /\ running /\ captured' = NoSnapshot
        /\ UNCHANGED ackedUsage
        /\ Installable(captured)
    BY <1>3 DEF RestoreSnapshot, Inv, MemoryInv
  <2> QED BY <2>1, <2>2, PersistKeepsInv DEF Inv, TypeOK
<1>4. ASSUME ReleaseSnapshot \/ Poison PROVE Inv'
  BY <1>4 DEF ReleaseSnapshot, Poison, Inv, TypeOK, FilesInv, MemoryInv,
              MineTable, Mine, CurrentOwner, Installable
<1>5. ASSUME NewPersistentSessionStore PROVE Inv'
  <2>1. PICK outcome \in SaveOutcomes :
          /\ running' = (outcome = "durable")
          /\ incarnation' = IF outcome = "durable" THEN incarnation + 1
                            ELSE incarnation
          /\ rows' = IF outcome = "durable" THEN MarkedTable ELSE EmptyTable
          /\ disk' = Visible(disk, MarkedTable, outcome)
          /\ survivors' = IF MarkedTable = disk THEN survivors
                          ELSE AfterPowerLoss(survivors, MarkedTable, outcome)
    BY <1>5 DEF NewPersistentSessionStore
  <2>2. /\ ~running /\ captured = NoSnapshot /\ poison = {}
        /\ UNCHANGED <<poison, captured, ackedUsage>>
    BY <1>5 DEF NewPersistentSessionStore, Inv, MemoryInv
  <2>3. \A id \in Ids : /\ MarkedTable[id] \in Rows \cup {NoRow}
                        /\ MarkedTable[id] # NoRow
                           => /\ Sound(MarkedTable[id])
                              /\ \/ MarkedTable[id].status = "completed"
                                 \/ MarkedTable[id].recovery
    <3> TAKE id \in Ids
    <3>1. /\ disk[id] \in Rows \cup {NoRow}
          /\ disk[id] # NoRow => Sound(disk[id])
          /\ MarkedTable[id] = Marked(disk[id])
      BY DEF Inv, TypeOK, Tables, FilesInv, SoundTable, MarkedTable
    <3> QED BY <3>1, MarkedRow DEF Marked
  <2>4. MarkedTable \in Tables /\ SoundTable(MarkedTable)
    BY <2>3 DEF Tables, SoundTable, MarkedTable
  <2> DEFINE table == MarkedTable
  <2>5. /\ disk' \in {disk, table}
        /\ disk' \in survivors'
        /\ survivors' \subseteq survivors \cup {table}
        /\ incarnation' \in Nat
        /\ running' \in BOOLEAN
        /\ running' => outcome = "durable" /\ disk' = table
    <3>1. outcome \in {"durable", "not published", "published unknown"}
      BY DEF SaveOutcomes
    <3>2. /\ disk' = IF outcome = "not published" THEN disk ELSE table
          /\ AfterPowerLoss(survivors, table, outcome)
               = IF outcome = "not published" THEN survivors
                 ELSE IF outcome = "durable" THEN {table}
                 ELSE survivors \cup {table}
      BY <2>1, <3>1 DEF Visible, AfterPowerLoss
    <3>3. disk \in survivors /\ incarnation \in Nat
      BY DEF Inv, FilesInv, TypeOK
    <3>4. /\ incarnation' \in {incarnation, incarnation + 1}
          /\ survivors' = IF table = disk THEN survivors
                          ELSE AfterPowerLoss(survivors, table, outcome)
      BY <2>1
    <3> HIDE DEF table
    <3>5. running' \in BOOLEAN /\ (running' => outcome = "durable")
      BY <2>1, Zenon
    <3>6. /\ disk' \in {disk, table}
          /\ disk' \in survivors'
          /\ survivors' \subseteq survivors \cup {table}
          /\ outcome = "durable" => disk' = table
      BY <3>1, <3>2, <3>3, <3>4
    <3>7. incarnation' \in Nat
      BY <3>3, <3>4
    <3> QED BY <3>5, <3>6, <3>7, Zenon
  <2>6. rows' \in Tables
    BY <2>1, <2>4 DEF EmptyTable, Tables
  <2>7. TypeOK'
    BY <2>2, <2>4, <2>5, <2>6 DEF Inv, TypeOK
  <2>8. FilesInv'
    BY <2>4, <2>5 DEF Inv, FilesInv
  <2>9. MemoryInv'
    <3>1. CASE running'
      <4>1. rows' = table /\ rows' = disk'
        BY <2>1, <2>5, <3>1
      <4>2. MineTable(rows)'
        BY <2>3, <4>1 DEF MineTable, Mine
      <4> QED BY <2>2, <3>1, <4>1, <4>2 DEF MemoryInv
    <3>2. CASE ~running'
      BY <2>2, <3>2 DEF MemoryInv
    <3> QED BY <3>1, <3>2
  <2> QED BY <2>7, <2>8, <2>9 DEF Inv
<1>6. ASSUME Crash \/ PowerLoss PROVE Inv'
  <2>1. /\ running' = FALSE /\ rows' = EmptyTable /\ poison' = {}
        /\ captured' = NoSnapshot
        /\ UNCHANGED <<incarnation, ackedUsage>>
    BY <1>6 DEF Crash, PowerLoss, Stop
  <2>2. disk' \in survivors' /\ survivors' \subseteq survivors
    BY <1>6 DEF Crash, PowerLoss, Inv, FilesInv
  <2>3. EmptyTable \in Tables
    BY DEF EmptyTable, Tables
  <2>4. TypeOK'
    BY <2>1, <2>2, <2>3 DEF Inv, TypeOK
  <2>5. FilesInv'
    BY <2>2 DEF Inv, FilesInv
  <2>6. MemoryInv'
    BY <2>1 DEF MemoryInv
  <2> QED BY <2>4, <2>5, <2>6 DEF Inv
<1> QED BY <1>1, <1>2, <1>3, <1>4, <1>5, <1>6 DEF TableNext

-----------------------------------------------------------------------------
(* The theorems.                                                           *)

\* Inv is an invariant of the store.
THEOREM Invariance == Spec => []Inv
<1>1. Init => Inv
  <2> SUFFICES ASSUME Init PROVE Inv
    OBVIOUS
  <2>1. EmptyTable \in Tables /\ SoundTable(EmptyTable)
    BY DEF EmptyTable, Tables, SoundTable
  <2> QED BY <2>1 DEF Init, Inv, TypeOK, FilesInv, MemoryInv
<1>2. Inv /\ [Next]_vars => Inv'
  <2> SUFFICES ASSUME Inv, [Next]_vars PROVE Inv'
    OBVIOUS
  <2>1. CASE Next
    BY <2>1, RowStep, TableStep DEF Next
  <2>2. CASE UNCHANGED vars
    BY <2>2 DEF vars, Inv, TypeOK, FilesInv, MemoryInv, MineTable, Mine,
                CurrentOwner, Installable
  <2> QED BY <2>1, <2>2
<1> QED BY <1>1, <1>2, PTL DEF Spec

\* The variables keep their types.
THEOREM TypeCorrect == Spec => []TypeOK
BY Invariance, PTL DEF Inv

\* Rollback in every operation, and the workspace rollback, leave memory
\* equal to the snapshot file: neither behind it nor ahead of it.
THEOREM MemoryFollowsSnapshot == Spec => []MemoryIsPublished
<1>1. Inv => MemoryIsPublished
  BY DEF Inv, MemoryInv, MemoryIsPublished
<1> QED BY <1>1, Invariance, PTL

\* Whatever a power loss reveals, the constructor of the next process accepts.
THEOREM RestartSucceeds == Spec => []EverySurvivorLoads
<1>1. Inv => EverySurvivorLoads
  BY DEF Inv, FilesInv, SoundTable, Sound, EverySurvivorLoads, Valid
<1> QED BY <1>1, Invariance, PTL

\* No row that may receive new work carries the authority of an earlier
\* process, however rows were opened, restored, captured and reloaded.
THEOREM AuthorityIsFresh == Spec => []AuthorityIsNeverInherited
<1>1. Inv => AuthorityIsNeverInherited
  <2> SUFFICES ASSUME Inv, running, NEW id \in Ids, Present(id)
               PROVE  \/ rows[id].status = "completed"
                      \/ rows[id].recovery /\ ~rows[id].owner.bound
                      \/ ~rows[id].recovery /\ rows[id].owner \in {NoOwner, CurrentOwner}
    BY DEF AuthorityIsNeverInherited
  <2>1. rows[id] \in Rows /\ Sound(rows[id]) /\ Mine(rows[id])
    BY PresentRow
  <2> QED BY <2>1 DEF Rows, Sound, Mine
<1> QED BY <1>1, Invariance, PTL

\* A save the poisoned store refuses changes nothing.
LEMMA PoisonRefuses ==
    ASSUME poison # {}, NEW new, NEW outcome \in SaveOutcomes,
           Persist(new, outcome)
    PROVE  UNCHANGED <<rows, disk, survivors, poison>>
<1>1. outcome = "not published"
  BY DEF Persist, Possible
<1> QED
  BY <1>1 DEF Persist, KeptInMemory, Visible, AfterPowerLoss, PoisonAfter,
              ShouldRollback

\* After a publication of unknown durability, or a declared failure of a
\* coordinator, the process writes nothing and moves no row until it ends.
THEOREM PoisonIsFinal == Spec => PoisonFreezes
<1>1. ASSUME [Next]_vars, running, poison # {}, running'
      PROVE  poison \subseteq poison' /\ UNCHANGED <<rows, disk, survivors>>
  <2>1. ASSUME NEW id \in Ids, RowNext(id)
        PROVE  UNCHANGED <<rows, disk, survivors, poison>>
    <3>1. CASE ApplyRecoveryDisposition(id)
      BY <1>1, <3>1 DEF ApplyRecoveryDisposition
    <3>2. CASE ~ApplyRecoveryDisposition(id)
      <4>1. \E new : \E outcome \in SaveOutcomes : Persist(new, outcome)
        BY <2>1, <3>2 DEF RowNext, BeginOwned, AppendStream, CreateCheckpoint,
              Pause, Fail, Resume, Complete, Close, BindOwner, Delete,
              AppendUsageObservation, PersistRow
      <4> QED BY <1>1, <4>1, PoisonRefuses
    <3> QED BY <3>1, <3>2
  <2>2. ASSUME CloseAllDurable \/ RestoreSnapshot
        PROVE  UNCHANGED <<rows, disk, survivors, poison>>
    BY <1>1, <2>2, PoisonRefuses DEF CloseAllDurable, RestoreSnapshot
  <2>3. CASE CaptureSnapshot \/ ReleaseSnapshot \/ Poison
    BY <2>3 DEF CaptureSnapshot, ReleaseSnapshot, Poison
  <2>4. CASE NewPersistentSessionStore \/ Crash \/ PowerLoss
    BY <1>1, <2>4 DEF NewPersistentSessionStore, Crash, PowerLoss, Stop
  <2>5. CASE UNCHANGED vars
    BY <2>5 DEF vars
  <2> QED BY <1>1, <2>1, <2>2, <2>3, <2>4, <2>5 DEF Next, TableNext
<1> QED BY <1>1, PTL DEF Spec, PoisonFreezes

-----------------------------------------------------------------------------
(* What an operation does to its row.                                      *)

\* The checkpoints of a row: one may be added, of a unit the row has not.
CheckpointsMove(old, new) ==
    IF old = NoRow THEN new # NoRow /\ new.checkpoints = <<>>
    ELSE IF new = NoRow THEN old.checkpoints = <<>>
    ELSE \/ new.checkpoints = old.checkpoints
         \/ \E unit \in Units \cup {NoUnit}, sequence \in Nat :
              /\ new.checkpoints =
                   Append(old.checkpoints, [unit |-> unit, sequence |-> sequence])
              /\ unit = NoUnit \/ ~HasUsage(old, unit)

\* What is acknowledged is in the row that was saved.
AckMoves(id, new, outcome) ==
    \/ ackedUsage' = ackedUsage
    \/ /\ outcome = "durable" /\ new # NoRow
       /\ \E unit \in Units : HasUsage(new, unit) /\ ackedUsage' = ackedUsage \cup {<<id, unit>>}

\* A row put back as it was, or moved as the table of rows allows.
RowChanges(id, new, outcome) ==
    /\ Idle
    /\ Persist([rows EXCEPT ![id] = new], outcome)
    /\ captured' = captured
    /\ rows[id] = new \/ Durable!RowMoves(rows[id], new)
    /\ CheckpointsMove(rows[id], new)
    /\ AckMoves(id, new, outcome)

\* The checkpoints of a row are a sequence of checkpoints.
LEMMA AppendedCheckpoint ==
    ASSUME NEW row \in Rows, NEW unit \in Units \cup {NoUnit}, NEW sequence \in Nat
    PROVE  LET added == [unit |-> unit, sequence |-> sequence]
               longer == Append(row.checkpoints, added)
           IN  /\ row.checkpoints \in Seq(Checkpoints) /\ added \in Checkpoints
               /\ longer \in Seq(Checkpoints)
               /\ DOMAIN row.checkpoints = 1 .. Len(row.checkpoints)
               /\ Len(row.checkpoints) \in Nat
               /\ DOMAIN longer = 1 .. (Len(row.checkpoints) + 1)
               /\ \A n \in DOMAIN row.checkpoints : longer[n] = row.checkpoints[n]
               /\ longer[Len(row.checkpoints) + 1] = added
<1> DEFINE added == [unit |-> unit, sequence |-> sequence]
           history == row.checkpoints
<1>1. history \in Seq(Checkpoints) /\ added \in Checkpoints BY DEF Rows, Checkpoints
<1> HIDE DEF added, history
<1>2. /\ Append(history, added) \in Seq(Checkpoints)
      /\ DOMAIN history = 1 .. Len(history) /\ Len(history) \in Nat
      /\ DOMAIN Append(history, added) = 1 .. (Len(history) + 1)
      /\ \A n \in DOMAIN history : Append(history, added)[n] = history[n]
      /\ Append(history, added)[Len(history) + 1] = added
  BY <1>1
<1> QED BY <1>1, <1>2 DEF added, history

\* A row with one checkpoint more grows.
LEMMA CheckpointGrows ==
    ASSUME NEW row \in Rows, NEW new \in Rows, NEW unit \in Units \cup {NoUnit},
           new.checkpoints = Append(row.checkpoints, [unit |-> unit, sequence |-> new.stream]),
           row.stream <= new.stream
    PROVE  Durable!Grows(row, new)
<1>1. new.stream \in Nat BY DEF Rows
<1> QED BY <1>1, AppendedCheckpoint DEF Durable!Grows

\* Every operation on a row changes it as the table of rows allows.
LEMMA RowMoves ==
    ASSUME Inv, NEW id \in Ids, RowNext(id)
    PROVE  \/ UNCHANGED vars
           \/ \E new \in Rows \cup {NoRow}, outcome \in SaveOutcomes : RowChanges(id, new, outcome)
<1>1. ASSUME NEW row \in Rows, PersistRow(id, row), Durable!RowMoves(rows[id], row) \/ rows[id] = row,
             CheckpointsMove(rows[id], row)
      PROVE  \E new \in Rows \cup {NoRow}, outcome \in SaveOutcomes : RowChanges(id, new, outcome)
  <2>1. PICK outcome \in SaveOutcomes : Persist([rows EXCEPT ![id] = row], outcome)
    BY <1>1 DEF PersistRow
  <2>2. RowChanges(id, row, outcome) BY <1>1, <2>1 DEF RowChanges, PersistRow, AckMoves
  <2> QED BY <2>2
<1>2. ASSUME running, Present(id)
      PROVE  /\ rows[id] \in Rows /\ rows[id] # NoRow /\ NoRow \notin Rows
             /\ rows[id].stream \in Nat /\ rows[id].checkpoints \in Seq(Checkpoints)
  BY <1>2, PresentRow, AbsenceAssumption DEF Present, Rows
<1>3. ASSUME NEW owner, BeginOwned(id, owner) PROVE
        \E new \in Rows \cup {NoRow}, outcome \in SaveOutcomes : RowChanges(id, new, outcome)
  <2> DEFINE row == [status |-> "running", recovery |-> FALSE,
                     disposition |-> FALSE, closedAt |-> FALSE,
                     owner |-> owner, attempt |-> 1,
                     stream |-> 0, checkpoints |-> <<>>]
  <2>1. owner \in Owners
    <3>1. owner \in {NoOwner, CurrentOwner} BY <1>3 DEF BeginOwned
    <3>2. NoOwner \in Owners /\ CurrentOwner \in Owners
      BY DEF Inv, TypeOK, Owners, NoOwner, CurrentOwner
    <3> QED BY <3>1, <3>2
  <2>2. <<>> \in Seq(Checkpoints) OBVIOUS
  <2>3. row \in Rows BY <2>1, <2>2 DEF Rows, Statuses
  <2>4. row # NoRow /\ rows[id] = NoRow BY <1>3, <2>3, AbsenceAssumption DEF BeginOwned, Present
  <2>5. Durable!RowMoves(rows[id], row) BY <2>4 DEF Durable!RowMoves, Durable!Opens
  <2>6. CheckpointsMove(rows[id], row) BY <2>4 DEF CheckpointsMove
  <2>7. PersistRow(id, row) BY <1>3 DEF BeginOwned
  <2> HIDE DEF row
  <2> QED BY <1>1, <2>3, <2>5, <2>6, <2>7
<1>4. ASSUME NEW row \in Rows, PersistRow(id, row), Live(id, Statuses),
             row.checkpoints = rows[id].checkpoints, ~row.recovery,
             \/ rows[id].status = "running" /\ row.status = "running"
                /\ row.stream = rows[id].stream + 1
             \/ /\ row.stream = rows[id].stream
                /\ \/ rows[id].status = "running" /\ row.status \in {"paused", "failed"}
                   \/ rows[id].status # "completed" /\ row.status = "completed"
                   \/ /\ rows[id].status \in {"paused", "failed"} /\ row.status = "running"
                      /\ rows[id].checkpoints # <<>>
      PROVE  \E new \in Rows \cup {NoRow}, outcome \in SaveOutcomes : RowChanges(id, new, outcome)
  <2>1. /\ rows[id] \in Rows /\ rows[id] # NoRow /\ row # NoRow /\ ~rows[id].recovery
        /\ rows[id].stream \in Nat
    BY <1>2, <1>4 DEF Live, PersistRow, Idle
  <2>2. Durable!RowMoves(rows[id], row)
    BY <1>4, <2>1 DEF Durable!RowMoves, Durable!Works, Durable!Grows, Durable!Rests,
                      Durable!Resumes, Durable!SameHistory
  <2>3. CheckpointsMove(rows[id], row) BY <1>4, <2>1 DEF CheckpointsMove
  <2> QED BY <1>1, <1>4, <2>2, <2>3
<1>5. CASE AppendStream(id)
  <2>1. Live(id, {"running"}) /\ PersistRow(id, Streamed(rows[id])) BY <1>5 DEF AppendStream
  <2>2. rows[id] \in Rows BY <1>2, <2>1 DEF Live, PersistRow, Idle
  <2> DEFINE row == Streamed(rows[id])
  <2>3. /\ row \in Rows /\ row.stream = rows[id].stream + 1 /\ row.status = rows[id].status
        /\ row.checkpoints = rows[id].checkpoints /\ row.recovery = rows[id].recovery
    BY <2>2 DEF Streamed, Rows
  <2>4. Live(id, Statuses) /\ rows[id].status = "running" /\ ~rows[id].recovery
    BY <2>1 DEF Live, Statuses
  <2> HIDE DEF row
  <2>5. PersistRow(id, row) BY <2>1 DEF row
  <2> QED BY <1>4, <2>3, <2>4, <2>5
<1>6. CASE CreateCheckpoint(id)
  <2>1. Live(id, {"running", "paused"}) /\ PersistRow(id, Checkpointed(rows[id], NoUnit))
    BY <1>6 DEF CreateCheckpoint
  <2>2. /\ rows[id] \in Rows /\ rows[id] # NoRow /\ NoRow \notin Rows /\ rows[id].stream \in Nat
        /\ Sound(rows[id]) /\ Mine(rows[id]) /\ ~rows[id].recovery
    BY <1>2, <2>1, PresentRow DEF Live, PersistRow, Idle
  <2> DEFINE row == Checkpointed(rows[id], NoUnit)
  <2>3. row \in Rows BY <2>2, CheckpointedRow
  <2>4. /\ row.stream = rows[id].stream /\ row.status = rows[id].status
        /\ row.recovery = rows[id].recovery
        /\ row.checkpoints = Append(rows[id].checkpoints,
                                    [unit |-> NoUnit, sequence |-> rows[id].stream])
    BY <2>2 DEF Checkpointed, Rows
  <2>5. rows[id].status \in {"running", "paused"} BY <2>1 DEF Live
  <2>6. PersistRow(id, row) BY <2>1
  <2> HIDE DEF row
  <2>7. Durable!Grows(rows[id], row)
    <3>1. row.checkpoints = Append(rows[id].checkpoints,
                                   [unit |-> NoUnit, sequence |-> row.stream])
          /\ rows[id].stream <= row.stream
      BY <2>2, <2>4
    <3> QED BY <2>2, <2>3, <3>1, CheckpointGrows
  <2>8. Durable!RowMoves(rows[id], row)
    BY <2>2, <2>3, <2>4, <2>5, <2>7 DEF Durable!RowMoves, Durable!Works
  <2>9. CheckpointsMove(rows[id], row) BY <2>2, <2>3, <2>4 DEF CheckpointsMove
  <2> QED BY <1>1, <2>3, <2>6, <2>8, <2>9
<1>7. CASE Pause(id) \/ Fail(id)
  <2>1. PICK status \in {"paused", "failed"} : PersistRow(id, [rows[id] EXCEPT !.status = status])
    BY <1>7 DEF Pause, Fail
  <2>2. Live(id, {"running"}) BY <1>7 DEF Pause, Fail
  <2>3. rows[id] \in Rows BY <1>2, <2>1, <2>2 DEF Live, PersistRow, Idle
  <2> DEFINE row == [rows[id] EXCEPT !.status = status]
  <2>4. /\ row \in Rows /\ row.stream = rows[id].stream /\ row.status = status
        /\ row.checkpoints = rows[id].checkpoints /\ row.recovery = rows[id].recovery
    BY <2>3 DEF Rows, Statuses
  <2>5. Live(id, Statuses) /\ rows[id].status = "running" /\ ~rows[id].recovery
    BY <2>2 DEF Live, Statuses
  <2> HIDE DEF row
  <2>6. PersistRow(id, row) BY <2>1 DEF row
  <2> QED BY <1>4, <2>4, <2>5, <2>6
<1>8. CASE Resume(id)
  <2>1. Live(id, {"paused", "failed"}) /\ rows[id].checkpoints # <<>>
        /\ PersistRow(id, Resumed(rows[id]))
    BY <1>8 DEF Resume
  <2>2. /\ rows[id] \in Rows /\ Sound(rows[id]) /\ Mine(rows[id]) /\ ~rows[id].recovery
        /\ rows[id].status \in {"paused", "failed"}
    BY <1>2, <2>1, PresentRow DEF Live, PersistRow, Idle
  <2> DEFINE row == Resumed(rows[id])
  <2>3. row \in Rows BY <2>2, ResumedRow
  <2>4. /\ row.stream = rows[id].stream /\ row.status = "running"
        /\ row.checkpoints = rows[id].checkpoints /\ row.recovery = rows[id].recovery
    BY <2>2 DEF Resumed, Rows
  <2>5. Live(id, Statuses) BY <2>1 DEF Live, Statuses
  <2> HIDE DEF row
  <2>6. PersistRow(id, row) BY <2>1 DEF row
  <2> QED BY <1>4, <2>1, <2>2, <2>3, <2>4, <2>5, <2>6
<1>9. CASE Complete(id) \/ Close(id)
  <2>1. Live(id, Statuses) /\ running /\ Present(id)
    BY <1>9 DEF Complete, Close, Live, Statuses, PersistRow, Idle
  <2>2. rows[id] \in Rows /\ rows[id] # NoRow /\ ~rows[id].recovery
    BY <1>2, <2>1 DEF Live
  <2>3. CASE rows[id].status = "completed" /\ PersistRow(id, rows[id])
    BY <1>1, <2>2, <2>3 DEF CheckpointsMove
  <2>4. CASE rows[id].status # "completed" /\ PersistRow(id, Closed(rows[id]))
    <3> DEFINE row == Closed(rows[id])
    <3>1. /\ row \in Rows /\ row.stream = rows[id].stream /\ row.status = "completed"
          /\ row.checkpoints = rows[id].checkpoints /\ row.recovery = rows[id].recovery
      BY <2>2 DEF Closed, Rows, Statuses
    <3> HIDE DEF row
    <3>2. PersistRow(id, row) BY <2>4 DEF row
    <3> QED BY <1>4, <2>1, <2>2, <2>4, <3>1, <3>2
  <2> QED BY <1>9, <2>3, <2>4 DEF Complete, Close, Live
<1>10. CASE BindOwner(id)
  <2> DEFINE row == [rows[id] EXCEPT !.owner = CurrentOwner, !.recovery = FALSE]
  <2>1. /\ Present(id) /\ rows[id].status # "completed" /\ PersistRow(id, row) /\ running
    BY <1>10 DEF BindOwner, PersistRow, Idle
  <2>2. rows[id] \in Rows /\ rows[id] # NoRow /\ NoRow \notin Rows BY <1>2, <2>1
  <2>3. CurrentOwner \in Owners /\ CurrentOwner.bound
    BY DEF CurrentOwner, Owners, Inv, TypeOK
  <2>4. /\ row \in Rows /\ row.owner = CurrentOwner /\ row.checkpoints = rows[id].checkpoints
    BY <2>2, <2>3 DEF Rows
  <2>5. row = [rows[id] EXCEPT !.recovery = FALSE, !.owner = CurrentOwner]
    BY <2>2 DEF Rows
  <2> HIDE DEF row
  <2>6. Durable!Adopted(rows[id], row) BY <2>1, <2>3, <2>4, <2>5 DEF Durable!Adopted
  <2>7. Durable!RowMoves(rows[id], row) BY <2>2, <2>4, <2>6 DEF Durable!RowMoves
  <2>8. CheckpointsMove(rows[id], row) BY <2>2, <2>4 DEF CheckpointsMove
  <2> QED BY <1>1, <2>1, <2>4, <2>7, <2>8
<1>11. CASE Delete(id)
  <2>1. /\ Idle /\ Present(id) /\ rows[id].stream = 0 /\ rows[id].checkpoints = <<>>
        /\ UNCHANGED <<captured, ackedUsage>>
    BY <1>11 DEF Delete
  <2>2. PICK outcome \in SaveOutcomes : Persist([rows EXCEPT ![id] = NoRow], outcome)
    BY <1>11 DEF Delete
  <2>3. Durable!RowMoves(rows[id], NoRow) BY <2>1 DEF Durable!RowMoves, Present
  <2>4. CheckpointsMove(rows[id], NoRow) BY <2>1 DEF CheckpointsMove, Present
  <2>5. RowChanges(id, NoRow, outcome) BY <2>1, <2>2, <2>3, <2>4 DEF RowChanges, AckMoves
  <2> QED BY <2>5
<1>12. CASE ApplyRecoveryDisposition(id)
  <2>1. Idle /\ Present(id) /\ UNCHANGED <<captured, ackedUsage>>
    BY <1>12 DEF ApplyRecoveryDisposition
  <2>2. rows[id] \in Rows /\ rows[id] # NoRow /\ NoRow \notin Rows BY <1>2, <2>1 DEF Idle
  <2>3. CASE Discarded(rows[id])
    BY <1>12, <2>1, <2>3 DEF ApplyRecoveryDisposition, vars
  <2>4. CASE ~Discarded(rows[id])
    <3> DEFINE row == Dispositioned(rows[id])
    <3>1. rows[id].recovery BY <1>12, <2>4 DEF ApplyRecoveryDisposition
    <3>2. PICK outcome \in SaveOutcomes : Persist([rows EXCEPT ![id] = row], outcome)
      BY <1>12, <2>4 DEF ApplyRecoveryDisposition
    <3>3. /\ row \in Rows /\ row.status = "completed" /\ row.disposition /\ ~row.recovery
          /\ row.stream = rows[id].stream /\ row.checkpoints = rows[id].checkpoints
      BY <2>2 DEF Dispositioned, Rows, Statuses
    <3> HIDE DEF row
    <3>4. Durable!RowMoves(rows[id], row)
      BY <2>2, <3>1, <3>3 DEF Durable!RowMoves, Durable!Discards, Durable!SameHistory
    <3>5. CheckpointsMove(rows[id], row) BY <2>2, <3>3 DEF CheckpointsMove
    <3>6. RowChanges(id, row, outcome)
      BY <2>1, <3>2, <3>4, <3>5 DEF RowChanges, AckMoves
    <3> QED BY <3>3, <3>6
  <2> QED BY <2>3, <2>4
<1>13. ASSUME NEW unit \in Units, AppendUsageObservation(id, unit)
       PROVE  \E new \in Rows \cup {NoRow}, outcome \in SaveOutcomes : RowChanges(id, new, outcome)
  <2> DEFINE counted == Streamed(rows[id])
             row == Checkpointed(counted, unit)
  <2>1. Idle /\ Live(id, {"running"}) /\ ~HasUsage(rows[id], unit) /\ captured' = captured
    BY <1>13 DEF AppendUsageObservation
  <2>2. /\ rows[id] \in Rows /\ rows[id] # NoRow /\ NoRow \notin Rows /\ rows[id].stream \in Nat
        /\ Sound(rows[id]) /\ Mine(rows[id]) /\ ~rows[id].recovery
        /\ rows[id].status = "running"
    BY <1>2, <2>1, PresentRow DEF Live, Idle
  <2>3. PICK outcome \in SaveOutcomes :
          /\ Persist([rows EXCEPT ![id] = row], outcome)
          /\ ackedUsage' = IF outcome = "durable"
                           THEN ackedUsage \cup {<<id, unit>>} ELSE ackedUsage
    BY <1>13 DEF AppendUsageObservation
  <2>4. counted \in Rows /\ Sound(counted) /\ Mine(counted) /\ ~counted.recovery
    BY <2>2, StreamedRow
  <2>5. /\ counted.stream = rows[id].stream + 1 /\ counted.status = rows[id].status
        /\ counted.checkpoints = rows[id].checkpoints
    BY <2>2 DEF Streamed, Rows
  <2> HIDE DEF counted
  <2>6. row \in Rows BY <2>4, CheckpointedRow
  <2>7. /\ row.stream = rows[id].stream + 1 /\ row.status = "running" /\ ~row.recovery
        /\ row.checkpoints = Append(rows[id].checkpoints, [unit |-> unit, sequence |-> row.stream])
    BY <2>2, <2>4, <2>5 DEF Checkpointed, Rows
  <2> HIDE DEF row
  <2>8. row.stream \in Nat /\ rows[id].stream <= row.stream BY <2>2, <2>7
  <2>9. Durable!Grows(rows[id], row) BY <2>2, <2>6, <2>7, <2>8, CheckpointGrows
  <2>10. Durable!RowMoves(rows[id], row)
    BY <2>2, <2>6, <2>7, <2>9 DEF Durable!RowMoves, Durable!Works
  <2>11. CheckpointsMove(rows[id], row) BY <2>1, <2>2, <2>6, <2>7, <2>8 DEF CheckpointsMove
  <2>12. HasUsage(row, unit)
    <3> DEFINE last == Len(rows[id].checkpoints) + 1
    <3>1. /\ last \in DOMAIN row.checkpoints
          /\ row.checkpoints[last] = [unit |-> unit, sequence |-> row.stream]
      BY <2>2, <2>7, <2>8, AppendedCheckpoint
    <3>2. row.checkpoints[last].unit = unit BY <3>1
    <3> QED BY <3>1, <3>2 DEF HasUsage
  <2>13. AckMoves(id, row, outcome) BY <2>2, <2>3, <2>6, <2>12 DEF AckMoves
  <2>14. RowChanges(id, row, outcome) BY <2>1, <2>3, <2>10, <2>11, <2>13 DEF RowChanges
  <2> QED BY <2>6, <2>14
<1> QED
  BY <1>3, <1>5, <1>6, <1>7, <1>8, <1>9, <1>10, <1>11, <1>12, <1>13 DEF RowNext

-----------------------------------------------------------------------------
(* The store implements the table.                                         *)

\* The rows that memory and snapshot share.
LEMMA OneTable ==
    ASSUME Inv, running
    PROVE  rows = disk /\ rows \in Tables
BY DEF Inv, MemoryInv, TypeOK

\* A save publishes the new table or leaves everything as it was.
LEMMA PersistPublishes ==
    ASSUME Inv, running, NEW new, NEW outcome \in SaveOutcomes, Persist(new, outcome)
    PROVE  /\ running' = running
           /\ \/ /\ outcome = "not published"
                 /\ UNCHANGED <<rows, disk, survivors, poison, incarnation>>
              \/ /\ disk' = new /\ Durable!Saved /\ new \in survivors'
                 /\ survivors' \subseteq survivors \cup {new}
                 /\ outcome = "durable" => survivors' = {new}
<1>1. running' = running /\ incarnation' = incarnation BY DEF Persist
<1>2. CASE outcome = "not published"
  BY <1>1, <1>2 DEF Persist, KeptInMemory, Visible, AfterPowerLoss, PoisonAfter, ShouldRollback
<1>3. CASE outcome = "durable"
  <2>1. disk' = new /\ survivors' = {new} BY <1>3 DEF Persist, Visible, AfterPowerLoss
  <2> QED BY <1>1, <2>1 DEF Durable!Saved
<1>4. CASE outcome = "published unknown"
  <2>1. disk' = new /\ survivors' = survivors \cup {new}
    BY <1>4 DEF Persist, Visible, AfterPowerLoss
  <2> QED BY <1>4, <1>1, <2>1 DEF Durable!Saved
<1> QED BY <1>2, <1>3, <1>4 DEF SaveOutcomes

\* An operation on a row is a step of the table, or none.
LEMMA RowStepSimulates ==
    ASSUME Inv, NEW id \in Ids, RowNext(id)
    PROVE  [Durable!TableSpecNext]_(Durable!tableVars)
<1>1. CASE UNCHANGED vars BY <1>1 DEF vars, Durable!tableVars
<1>2. ASSUME NEW new \in Rows \cup {NoRow}, NEW outcome \in SaveOutcomes,
             RowChanges(id, new, outcome)
      PROVE  [Durable!TableSpecNext]_(Durable!tableVars)
  <2> DEFINE table == [rows EXCEPT ![id] = new]
  <2>1. /\ running /\ captured = NoSnapshot /\ captured' = captured /\ Persist(table, outcome)
        /\ rows[id] = new \/ Durable!RowMoves(rows[id], new)
    BY <1>2 DEF RowChanges, Idle
  <2>2. rows = disk /\ rows \in Tables BY <2>1, OneTable
  <2>3. table[id] = new /\ (rows[id] = new => table = rows) BY <2>2 DEF Tables
  <2> HIDE DEF table
  <2>4. running' = running
        /\ (UNCHANGED <<disk, survivors>> \/ (disk' = table /\ Durable!Saved))
    BY <2>1, PersistPublishes
  <2>5. CASE UNCHANGED <<disk, survivors>> BY <2>1, <2>4, <2>5 DEF Durable!tableVars
  <2>6. CASE disk' = table /\ Durable!Saved
    <3>1. CASE rows[id] = new
      <4>1. Durable!SaveAgain BY <2>1, <2>2, <2>3, <2>4, <2>6, <3>1 DEF Durable!SaveAgain
      <4> QED BY <4>1 DEF Durable!TableSpecNext
    <3>2. CASE Durable!RowMoves(rows[id], new)
      <4>1. disk' = [disk EXCEPT ![id] = disk'[id]] BY <2>2, <2>3, <2>6 DEF table
      <4>2. Durable!RowMoves(disk[id], disk'[id]) BY <2>2, <2>3, <2>6, <3>2
      <4>3. Durable!SaveRow(id)
        BY <2>1, <2>4, <2>6, <4>1, <4>2 DEF Durable!SaveRow
      <4> QED BY <4>3 DEF Durable!TableSpecNext
    <3> QED BY <2>1, <3>1, <3>2
  <2> QED BY <2>4, <2>5, <2>6
<1> QED BY <1>1, <1>2, RowMoves

\* So is every other step.
LEMMA TableStepSimulates ==
    ASSUME Inv, TableNext
    PROVE  [Durable!TableSpecNext]_(Durable!tableVars)
<1>1. CASE CaptureSnapshot
  <2>1. /\ running /\ captured = NoSnapshot /\ captured' = rows
        /\ UNCHANGED <<running, disk, survivors>>
    BY <1>1 DEF CaptureSnapshot, Idle
  <2>2. Durable!Capture BY <2>1, OneTable DEF Durable!Capture
  <2> QED BY <2>2 DEF Durable!TableSpecNext
<1>2. CASE CloseAllDurable
  <2>1. running /\ captured # NoSnapshot /\ captured' = captured BY <1>2 DEF CloseAllDurable
  <2>2. PICK outcome \in SaveOutcomes : Persist(ClosedTable, outcome)
    BY <1>2 DEF CloseAllDurable
  <2>3. rows = disk /\ rows \in Tables BY <2>1, OneTable
  <2>4. running' = running
        /\ (UNCHANGED <<disk, survivors>> \/ (disk' = ClosedTable /\ Durable!Saved))
    BY <2>1, <2>2, PersistPublishes
  <2>5. CASE UNCHANGED <<disk, survivors>> BY <2>1, <2>4, <2>5 DEF Durable!tableVars
  <2>6. CASE disk' = ClosedTable /\ Durable!Saved
    <3>1. ASSUME NEW id \in Ids
          PROVE  \/ disk'[id] = disk[id] /\ (disk[id] # NoRow =>
                        disk[id].recovery \/ disk[id].status = "completed")
                 \/ /\ disk[id] # NoRow /\ disk'[id] # NoRow
                    /\ ~disk[id].recovery /\ ~disk'[id].recovery
                    /\ Durable!Rests(disk[id], disk'[id]) /\ disk'[id].status = "completed"
      <4>1. disk'[id] = IF Live(id, Statuses \ {"completed"}) THEN Closed(rows[id]) ELSE rows[id]
        BY <2>6 DEF ClosedTable
      <4>2. CASE Live(id, Statuses \ {"completed"})
        <5>1. /\ rows[id] \in Rows /\ rows[id] # NoRow /\ NoRow \notin Rows /\ ~rows[id].recovery
              /\ rows[id].status \in Statuses \ {"completed"}
          BY <2>1, <4>2, PresentRow, AbsenceAssumption DEF Live, Present
        <5> DEFINE row == Closed(rows[id])
        <5>2. /\ row \in Rows /\ row.stream = rows[id].stream /\ row.status = "completed"
              /\ row.checkpoints = rows[id].checkpoints /\ row.recovery = rows[id].recovery
          BY <5>1 DEF Closed, Rows, Statuses
        <5>3. disk'[id] = row BY <4>1, <4>2
        <5> HIDE DEF row
        <5> QED BY <2>3, <5>1, <5>2, <5>3 DEF Durable!Rests, Durable!SameHistory
      <4>3. CASE ~Live(id, Statuses \ {"completed"})
        <5>1. disk'[id] = rows[id] BY <4>1, <4>3
        <5>2. rows[id] # NoRow => rows[id].recovery \/ rows[id].status = "completed"
          <6>1. rows[id] # NoRow => rows[id] \in Rows BY <2>3 DEF Tables
          <6>2. rows[id] # NoRow => rows[id].status \in Statuses BY <6>1 DEF Rows
          <6> QED BY <4>3, <6>2 DEF Live, Present
        <5> QED BY <2>3, <5>1, <5>2
      <4> QED BY <4>2, <4>3
    <3>2. Durable!CloseAll BY <2>1, <2>4, <2>6, <3>1 DEF Durable!CloseAll
    <3> QED BY <3>2 DEF Durable!TableSpecNext
  <2> QED BY <2>4, <2>5, <2>6
<1>3. CASE RestoreSnapshot
  <2>1. running /\ captured # NoSnapshot /\ captured' = NoSnapshot BY <1>3 DEF RestoreSnapshot
  <2>2. PICK outcome \in SaveOutcomes : Persist(captured, outcome) BY <1>3 DEF RestoreSnapshot
  <2>3. running' = running
        /\ (UNCHANGED <<disk, survivors>> \/ (disk' = captured /\ Durable!Saved))
    BY <2>1, <2>2, PersistPublishes
  <2>4. CASE UNCHANGED <<disk, survivors>>
    <3>1. Durable!Release BY <2>1, <2>3, <2>4 DEF Durable!Release
    <3> QED BY <3>1 DEF Durable!TableSpecNext
  <2>5. CASE disk' = captured /\ Durable!Saved
    <3>1. Durable!Rollback BY <2>1, <2>3, <2>5 DEF Durable!Rollback
    <3> QED BY <3>1 DEF Durable!TableSpecNext
  <2> QED BY <2>3, <2>4, <2>5
<1>4. CASE ReleaseSnapshot
  <2>1. Durable!Release BY <1>4 DEF ReleaseSnapshot, Durable!Release
  <2> QED BY <2>1 DEF Durable!TableSpecNext
<1>5. CASE Poison BY <1>5 DEF Poison, Durable!tableVars
<1>6. CASE NewPersistentSessionStore
  <2>1. PICK outcome \in SaveOutcomes :
          /\ MarkedTable = disk => outcome = "durable"
          /\ running' = (outcome = "durable")
          /\ disk' = Visible(disk, MarkedTable, outcome)
          /\ survivors' = IF MarkedTable = disk THEN survivors
                          ELSE AfterPowerLoss(survivors, MarkedTable, outcome)
    BY <1>6 DEF NewPersistentSessionStore
  <2>2. ~running /\ captured' = captured BY <1>6 DEF NewPersistentSessionStore
  <2>3. CASE outcome = "not published"
    <3>1. running' = FALSE BY <2>1, <2>3
    <3>2. disk' = disk BY <2>1, <2>3 DEF Visible
    <3>3. survivors' = survivors BY <2>1, <2>3 DEF AfterPowerLoss
    <3>4. running = FALSE BY <2>2 DEF Inv, TypeOK
    <3> QED BY <2>2, <3>1, <3>2, <3>3, <3>4 DEF Durable!tableVars
  <2>4. CASE outcome # "not published"
    <3>1. disk' = MarkedTable BY <2>1, <2>4 DEF Visible
    <3>2. Durable!Saved \/ survivors' = survivors
      <4>1. CASE MarkedTable = disk BY <2>1, <4>1
      <4>2. CASE MarkedTable # disk
        BY <2>1, <2>4, <3>1, <4>2 DEF AfterPowerLoss, SaveOutcomes, Durable!Saved
      <4> QED BY <4>1, <4>2
    <3>3. \A id \in Ids :
            IF disk[id] = NoRow \/ disk[id].status = "completed"
            THEN disk'[id] = disk[id]
            ELSE disk'[id] = [disk[id] EXCEPT !.recovery = TRUE, !.owner.bound = FALSE]
      BY <3>1 DEF MarkedTable, Marked
    <3>4. running' \in BOOLEAN
      <4>1. running' = (outcome = "durable") BY <2>1
      <4> QED BY <4>1, Zenon
    <3>5. Durable!Open BY <2>2, <3>2, <3>3, <3>4 DEF Durable!Open
    <3> QED BY <3>5 DEF Durable!TableSpecNext
  <2> QED BY <2>3, <2>4
<1>7. CASE Crash \/ PowerLoss
  <2>1. running' = FALSE /\ captured' = NoSnapshot BY <1>7 DEF Crash, PowerLoss, Stop
  <2>2. \/ UNCHANGED <<disk, survivors>>
        \/ disk' \in survivors /\ survivors' = {disk'}
    BY <1>7 DEF Crash, PowerLoss
  <2>3. Durable!Die BY <2>1, <2>2 DEF Durable!Die
  <2> QED BY <2>3 DEF Durable!TableSpecNext
<1> QED BY <1>1, <1>2, <1>3, <1>4, <1>5, <1>6, <1>7 DEF TableNext

\* The store is a table of rows without memory, poison or failed saves, that
\* moves row by row and only a power loss takes a step back.
THEOREM StoreImplementsTable == Spec => ImplementsTable
<1>1. Init => Durable!TableSpecInit
  BY DEF Init, Durable!TableSpecInit, EmptyTable
<1>2. Inv /\ [Next]_vars => [Durable!TableSpecNext]_(Durable!tableVars)
  <2> SUFFICES ASSUME Inv, [Next]_vars PROVE [Durable!TableSpecNext]_(Durable!tableVars)
    OBVIOUS
  <2>1. CASE TableNext BY <2>1, TableStepSimulates
  <2>2. CASE \E id \in Ids : RowNext(id) BY <2>2, RowStepSimulates
  <2>3. CASE UNCHANGED vars BY <2>3 DEF vars, Durable!tableVars
  <2> QED BY <2>1, <2>2, <2>3 DEF Next
<1> QED BY <1>1, <1>2, Invariance, PTL DEF Spec, ImplementsTable, Durable!TableSpec

-----------------------------------------------------------------------------
(* Metered units are recorded exactly once.                                *)

OncePerUnit(row) ==
    \A m, n \in DOMAIN row.checkpoints :
        /\ row.checkpoints[m].unit = row.checkpoints[n].unit
        /\ row.checkpoints[m].unit # NoUnit
        => m = n

\* A table that records every unit once and has every acknowledged one.
Exact(table, acks) ==
    /\ \A id \in Ids : table[id] # NoRow => OncePerUnit(table[id])
    /\ \A ack \in acks : table[ack[1]] # NoRow /\ HasUsage(table[ack[1]], ack[2])

\* The table a transition captured is exact too: no unit is acknowledged
\* until the transition has ended.
UsageInv ==
    /\ \A table \in survivors : Exact(table, ackedUsage)
    /\ captured # NoSnapshot => Exact(captured, ackedUsage)

\* What an operation does to the checkpoints of a row leaves every unit once.
LEMMA OnceAfterMove ==
    ASSUME NEW old \in Rows \cup {NoRow}, NEW new \in Rows \cup {NoRow},
           CheckpointsMove(old, new), old # NoRow => OncePerUnit(old)
    PROVE  new # NoRow => OncePerUnit(new)
<1>1. CASE old = NoRow BY <1>1 DEF CheckpointsMove, OncePerUnit
<1>2. CASE old # NoRow /\ new # NoRow /\ new.checkpoints = old.checkpoints
  BY <1>2 DEF OncePerUnit
<1>3. ASSUME old # NoRow, NEW unit \in Units \cup {NoUnit}, NEW sequence \in Nat,
             new.checkpoints = Append(old.checkpoints, [unit |-> unit, sequence |-> sequence]),
             unit = NoUnit \/ ~HasUsage(old, unit)
      PROVE  OncePerUnit(new)
  <2> DEFINE last == Len(old.checkpoints) + 1
  <2>1. old \in Rows BY <1>3
  <2>2. /\ DOMAIN old.checkpoints = 1 .. Len(old.checkpoints) /\ Len(old.checkpoints) \in Nat
        /\ DOMAIN new.checkpoints = 1 .. last
        /\ \A n \in DOMAIN old.checkpoints : new.checkpoints[n] = old.checkpoints[n]
        /\ new.checkpoints[last].unit = unit
    BY <1>3, <2>1, AppendedCheckpoint
  <2>3. \A n \in DOMAIN new.checkpoints : n \in DOMAIN old.checkpoints \/ n = last
    BY <2>2
  <2>4. \A n \in DOMAIN old.checkpoints :
          unit # NoUnit => new.checkpoints[n].unit # unit
    BY <1>3, <2>2 DEF HasUsage
  <2> HIDE DEF last
  <2>5. OncePerUnit(old) BY <1>3
  <2> SUFFICES ASSUME NEW m \in DOMAIN new.checkpoints, NEW n \in DOMAIN new.checkpoints,
                      new.checkpoints[m].unit = new.checkpoints[n].unit,
                      new.checkpoints[m].unit # NoUnit
               PROVE  m = n
    BY DEF OncePerUnit
  <2>6. CASE m = last \/ n = last BY <2>2, <2>3, <2>4, <2>6
  <2>7. CASE m \in DOMAIN old.checkpoints /\ n \in DOMAIN old.checkpoints
    BY <2>2, <2>5, <2>7 DEF OncePerUnit
  <2> QED BY <2>3, <2>6, <2>7
<1> QED BY <1>1, <1>2, <1>3 DEF CheckpointsMove

\* And forgets none.
LEMMA UsageStays ==
    ASSUME NEW old \in Rows, old # NoRow, NEW new, CheckpointsMove(old, new),
           NEW unit, HasUsage(old, unit)
    PROVE  new # NoRow /\ HasUsage(new, unit)
<1>1. old.checkpoints # <<>> BY DEF HasUsage
<1>2. CASE new # NoRow /\ new.checkpoints = old.checkpoints BY <1>2 DEF HasUsage
<1>3. ASSUME new # NoRow, NEW other \in Units \cup {NoUnit}, NEW sequence \in Nat,
             new.checkpoints = Append(old.checkpoints, [unit |-> other, sequence |-> sequence])
      PROVE  HasUsage(new, unit)
  <2>1. \A n \in DOMAIN old.checkpoints :
          n \in DOMAIN new.checkpoints /\ new.checkpoints[n] = old.checkpoints[n]
    BY <1>3, AppendedCheckpoint
  <2> QED BY <2>1 DEF HasUsage
<1> QED BY <1>1, <1>2, <1>3 DEF CheckpointsMove

\* So a table with one row moved is as exact as it was.
LEMMA ExactAfterMove ==
    ASSUME NEW table \in Tables, NEW acks \in SUBSET (Ids \X Units), Exact(table, acks),
           NEW id \in Ids, NEW new \in Rows \cup {NoRow}, CheckpointsMove(table[id], new)
    PROVE  Exact([table EXCEPT ![id] = new], acks)
<1> DEFINE next == [table EXCEPT ![id] = new]
<1>1. /\ next[id] = new /\ table[id] \in Rows \cup {NoRow}
      /\ \A other \in Ids \ {id} : next[other] = table[other]
  BY DEF Tables
<1> HIDE DEF next
<1>2. ASSUME NEW other \in Ids, next[other] # NoRow PROVE OncePerUnit(next[other])
  <2>1. table[other] # NoRow => OncePerUnit(table[other]) BY DEF Exact
  <2>2. CASE other # id BY <1>1, <1>2, <2>1, <2>2
  <2>3. CASE other = id BY <1>1, <1>2, <2>1, <2>3, OnceAfterMove
  <2> QED BY <2>2, <2>3
<1>3. ASSUME NEW ack \in acks PROVE next[ack[1]] # NoRow /\ HasUsage(next[ack[1]], ack[2])
  <2>1. ack[1] \in Ids /\ table[ack[1]] # NoRow /\ HasUsage(table[ack[1]], ack[2])
    BY DEF Exact
  <2>2. CASE ack[1] # id BY <1>1, <2>1, <2>2
  <2>3. CASE ack[1] = id
    <3>1. table[id] \in Rows /\ table[id] # NoRow /\ HasUsage(table[id], ack[2])
      BY <1>1, <2>1, <2>3
    <3>2. new # NoRow /\ HasUsage(new, ack[2]) BY <3>1, UsageStays
    <3> QED BY <1>1, <2>3, <3>2
  <2> QED BY <2>2, <2>3
<1>4. Exact(next, acks) BY <1>2, <1>3 DEF Exact
<1> QED BY <1>4 DEF next

\* And a table whose rows keep their checkpoints.
LEMMA ExactAfterMarks ==
    ASSUME NEW table, NEW next, NEW acks \in SUBSET (Ids \X Units), Exact(table, acks),
           \A id \in Ids : /\ next[id] = NoRow <=> table[id] = NoRow
                           /\ table[id] # NoRow =>
                                next[id].checkpoints = table[id].checkpoints
    PROVE  Exact(next, acks)
<1>1. ASSUME NEW id \in Ids, next[id] # NoRow PROVE OncePerUnit(next[id])
  BY <1>1 DEF Exact, OncePerUnit
<1>2. ASSUME NEW ack \in acks PROVE next[ack[1]] # NoRow /\ HasUsage(next[ack[1]], ack[2])
  <2>1. ack[1] \in Ids /\ table[ack[1]] # NoRow /\ HasUsage(table[ack[1]], ack[2])
    BY DEF Exact
  <2> QED BY <2>1 DEF HasUsage
<1> QED BY <1>1, <1>2 DEF Exact

\* A save of an exact table leaves exact survivors.
LEMMA PersistKeepsExact ==
    ASSUME Inv, running, NEW new, NEW outcome \in SaveOutcomes, Persist(new, outcome),
           \A table \in survivors : Exact(table, ackedUsage), Exact(new, ackedUsage)
    PROVE  \A table \in survivors' : Exact(table, ackedUsage)
<1>1. survivors' = survivors \/ survivors' \subseteq survivors \cup {new}
  BY PersistPublishes
<1> QED BY <1>1

\* An operation on a row keeps UsageInv.
LEMMA RowKeepsUsage ==
    ASSUME Inv, UsageInv, NEW id \in Ids, RowNext(id)
    PROVE  UsageInv'
<1>1. CASE UNCHANGED vars BY <1>1 DEF vars, UsageInv, Exact, OncePerUnit, HasUsage
<1>2. ASSUME NEW new \in Rows \cup {NoRow}, NEW outcome \in SaveOutcomes,
             RowChanges(id, new, outcome)
      PROVE  UsageInv'
  <2> DEFINE table == [rows EXCEPT ![id] = new]
  <2>1. /\ running /\ captured' = NoSnapshot /\ Persist(table, outcome)
        /\ CheckpointsMove(rows[id], new) /\ AckMoves(id, new, outcome)
    BY <1>2 DEF RowChanges, Idle
  <2>2. /\ rows \in Tables /\ Exact(rows, ackedUsage) /\ ackedUsage \in SUBSET (Ids \X Units)
        /\ \A kept \in survivors : Exact(kept, ackedUsage)
    BY <2>1, OneTable DEF Inv, FilesInv, UsageInv, TypeOK
  <2>3. table[id] = new BY <2>2 DEF Tables
  <2>4. Exact(table, ackedUsage) BY <2>1, <2>2, ExactAfterMove
  <2> HIDE DEF table
  <2>5. CASE ackedUsage' = ackedUsage
    <3>1. \A kept \in survivors' : Exact(kept, ackedUsage)
      BY <2>1, <2>2, <2>4, PersistKeepsExact
    <3> QED BY <2>1, <2>5, <3>1 DEF UsageInv
  <2>6. ASSUME outcome = "durable", new # NoRow, NEW unit \in Units, HasUsage(new, unit),
               ackedUsage' = ackedUsage \cup {<<id, unit>>}
        PROVE  UsageInv'
    <3>1. survivors' = {table} BY <2>1, <2>6, PersistPublishes
    <3>2. Exact(table, ackedUsage')
      BY <2>3, <2>4, <2>6 DEF Exact
    <3> QED BY <2>1, <3>1, <3>2 DEF UsageInv
  <2> QED BY <2>1, <2>5, <2>6 DEF AckMoves
<1> QED BY <1>1, <1>2, RowMoves

\* And so does every other step.
LEMMA TableKeepsUsage ==
    ASSUME Inv, UsageInv, TableNext
    PROVE  UsageInv'
<1>1. /\ Exact(disk, ackedUsage) /\ \A kept \in survivors : Exact(kept, ackedUsage)
      /\ ackedUsage \in SUBSET (Ids \X Units) /\ disk \in Tables
  BY DEF Inv, FilesInv, UsageInv, TypeOK
<1>2. ackedUsage' = ackedUsage
  BY DEF TableNext, CaptureSnapshot, CloseAllDurable, RestoreSnapshot, ReleaseSnapshot,
         Poison, NewPersistentSessionStore, Crash, PowerLoss, Stop
<1>3. ASSUME \A kept \in survivors' : Exact(kept, ackedUsage),
             captured' # NoSnapshot => Exact(captured', ackedUsage)
      PROVE  UsageInv'
  BY <1>2, <1>3 DEF UsageInv
<1>4. CASE CaptureSnapshot
  <2>1. captured' = disk /\ survivors' = survivors
    BY <1>4, OneTable DEF CaptureSnapshot, Idle
  <2> QED BY <1>1, <1>3, <2>1
<1>5. CASE CloseAllDurable
  <2>1. running /\ captured' = captured /\ rows = disk
    BY <1>5, OneTable DEF CloseAllDurable
  <2>2. PICK outcome \in SaveOutcomes : Persist(ClosedTable, outcome)
    BY <1>5 DEF CloseAllDurable
  <2>3. ASSUME NEW id \in Ids
        PROVE  /\ ClosedTable[id] = NoRow <=> disk[id] = NoRow
               /\ disk[id] # NoRow => ClosedTable[id].checkpoints = disk[id].checkpoints
    <3>1. CASE Live(id, Statuses \ {"completed"})
      <4>1. rows[id] \in Rows /\ rows[id] # NoRow
        BY <2>1, <3>1, PresentRow DEF Live, Present
      <4>2. Closed(rows[id]) \in Rows /\ Closed(rows[id]).checkpoints = rows[id].checkpoints
        BY <4>1 DEF Closed, Rows, Statuses
      <4> QED BY <2>1, <3>1, <4>1, <4>2, AbsenceAssumption DEF ClosedTable
    <3>2. CASE ~Live(id, Statuses \ {"completed"}) BY <2>1, <3>2 DEF ClosedTable
    <3> QED BY <3>1, <3>2
  <2>4. Exact(ClosedTable, ackedUsage) BY <1>1, <2>3, ExactAfterMarks
  <2>5. \A kept \in survivors' : Exact(kept, ackedUsage)
    BY <1>1, <2>1, <2>2, <2>4, PersistKeepsExact
  <2> QED BY <1>3, <2>1, <2>5 DEF UsageInv
<1>6. CASE RestoreSnapshot
  <2>1. running /\ captured # NoSnapshot /\ captured' = NoSnapshot BY <1>6 DEF RestoreSnapshot
  <2>2. PICK outcome \in SaveOutcomes : Persist(captured, outcome) BY <1>6 DEF RestoreSnapshot
  <2>3. Exact(captured, ackedUsage) BY <2>1 DEF UsageInv
  <2>4. \A kept \in survivors' : Exact(kept, ackedUsage)
    BY <1>1, <2>1, <2>2, <2>3, PersistKeepsExact
  <2> QED BY <1>3, <2>1, <2>4
<1>7. CASE ReleaseSnapshot \/ Poison
  BY <1>1, <1>3, <1>7 DEF ReleaseSnapshot, Poison, UsageInv
<1>8. CASE NewPersistentSessionStore
  <2>1. survivors' \subseteq survivors \cup {MarkedTable} /\ captured' = captured
    BY <1>8 DEF NewPersistentSessionStore, AfterPowerLoss, SaveOutcomes
  <2>2. ASSUME NEW id \in Ids
        PROVE  /\ MarkedTable[id] = NoRow <=> disk[id] = NoRow
               /\ disk[id] # NoRow => MarkedTable[id].checkpoints = disk[id].checkpoints
    <3>1. MarkedTable[id] = Marked(disk[id]) BY DEF MarkedTable
    <3>2. CASE disk[id] = NoRow \/ disk[id].status = "completed" BY <3>1, <3>2 DEF Marked
    <3>3. CASE disk[id] # NoRow /\ disk[id].status # "completed"
      <4>1. disk[id] \in Rows BY <1>1, <3>3 DEF Tables
      <4>2. /\ Marked(disk[id]) \in Rows
            /\ Marked(disk[id]).checkpoints = disk[id].checkpoints
        BY <3>3, <4>1 DEF Marked, Rows, Owners
      <4> QED BY <3>1, <3>3, <4>2, AbsenceAssumption
    <3> QED BY <3>2, <3>3
  <2>3. Exact(MarkedTable, ackedUsage) BY <1>1, <2>2, ExactAfterMarks
  <2> QED BY <1>1, <1>3, <2>1, <2>3 DEF UsageInv
<1>9. CASE Crash \/ PowerLoss
  <2>1. captured' = NoSnapshot /\ survivors' \subseteq survivors
    BY <1>9 DEF Crash, PowerLoss, Stop
  <2> QED BY <1>1, <1>3, <2>1
<1> QED BY <1>4, <1>5, <1>6, <1>7, <1>8, <1>9 DEF TableNext

\* Whatever is read back after a power loss records each metered unit once and
\* has every unit whose observation was reported as durable.
THEOREM UsageCountsOnce == Spec => []UsageIsExact
<1>1. Init => UsageInv
  BY DEF Init, EmptyTable, UsageInv, Exact
<1>2. Inv /\ UsageInv /\ [Next]_vars => UsageInv'
  <2> SUFFICES ASSUME Inv, UsageInv, [Next]_vars PROVE UsageInv'
    OBVIOUS
  <2>1. CASE TableNext BY <2>1, TableKeepsUsage
  <2>2. CASE \E id \in Ids : RowNext(id) BY <2>2, RowKeepsUsage
  <2>3. CASE UNCHANGED vars BY <2>3 DEF vars, UsageInv, Exact, OncePerUnit, HasUsage
  <2> QED BY <2>1, <2>2, <2>3 DEF Next
<1>3. UsageInv => UsageIsExact
  BY DEF UsageInv, Exact, OncePerUnit, UsageIsExact
<1> QED BY <1>1, <1>2, <1>3, Invariance, PTL DEF Spec
=============================================================================
