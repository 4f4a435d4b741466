---------------------------- MODULE UsageLedger ----------------------------
(***************************************************************************)
(* The usage ledger of AIPermissionService: one receipt per executed unit, *)
(* first pending and then terminal, appended to usage_log.jsonl before the *)
(* projection in memory changes.  The file is a sequence of chunks: the    *)
(* bytes of a row, the line feed that ends it, or a row cut short.  Two    *)
(* rows without a line feed between them are one unreadable line.          *)
(***************************************************************************)
EXTENDS Naturals, Sequences, SequencesExt

CONSTANTS
    MeteredUnits,       \* executed units, each with a receipt of its own
    ExternalUnits,      \* units with effects outside the editor
    Identities,         \* the fields a receipt may not change
    MaxChunks           \* bound on the length of the file

ASSUME LedgerAssumption ==
    /\ ExternalUnits \subseteq MeteredUnits
    /\ MaxChunks \in Nat

VARIABLES
    ledgerUp,       \* the process is up
    usage,          \* the projection: one receipt per unit
    ledgerPoison,   \* the ledger refuses every read and write
    file,           \* the chunks a reader of the file sees
    synced,         \* how many of them survive a power loss
    acked           \* receipts whose append was reported durable

ledgerVars == <<ledgerUp, usage, ledgerPoison, file, synced, acked>>

-----------------------------------------------------------------------------
NoReceipt == [kind |-> "none"]
Newline == [kind |-> "newline"]
Torn == [kind |-> "torn"]

\* A manual-unknown receipt is terminal: the effect is left to the operator.
Terminal == {"success", "failed", "manual"}

Receipt(unit, identity, state) ==
    [kind |-> "row", unit |-> unit, identity |-> identity, state |-> state]

Receipts == [kind : {"row"}, unit : MeteredUnits, identity : Identities,
             state : Terminal \cup {"pending"}]

Chunks == Receipts \cup {Newline, Torn}

NoUsage == [unit \in MeteredUnits |-> NoReceipt]

\* Mutant: a terminal receipt may be replaced.
TerminalReplaced(existing, new) == existing.identity # new.identity

\* The receipts of one unit move once, from pending to one terminal state,
\* and never change identity.
Contradicts(existing, new) ==
    \/ existing.identity # new.identity
    \/ existing.state # "pending" /\ new.state # existing.state

-----------------------------------------------------------------------------
(* Reading the file back.                                                  *)

RowAt(chunks, n) == chunks[n].kind = "row"

\* Alone on its line.
WholeLine(chunks, n) ==
    /\ n > 1 => chunks[n - 1] = Newline
    /\ n < Len(chunks) => chunks[n + 1] = Newline

\* The first line that does not parse, or that contradicts a receipt read
\* before it, poisons the ledger and ends the load.
Rejected(chunks, n) ==
    /\ chunks[n] # Newline
    /\ \/ ~RowAt(chunks, n)
       \/ ~WholeLine(chunks, n)
       \/ \E m \in 1..(n - 1) :
            /\ RowAt(chunks, m)
            /\ chunks[m].unit = chunks[n].unit
            /\ Contradicts(chunks[m], chunks[n])

Accepted(chunks) ==
    LET rejected == {n \in DOMAIN chunks : Rejected(chunks, n)}
    IN  {n \in DOMAIN chunks : RowAt(chunks, n) /\ \A m \in rejected : n < m}

Loads(chunks) == \A n \in DOMAIN chunks : ~Rejected(chunks, n)

\* Mutant: the receipt read first is kept.
FirstOf(chunks, mine) ==
    IF mine = {} THEN NoReceipt ELSE chunks[CHOOSE n \in mine : \A m \in mine : n <= m]

\* The receipts accepted for a unit, folded into the latest one.
Folded(chunks, mine) ==
    IF mine = {} THEN NoReceipt ELSE chunks[CHOOSE n \in mine : \A m \in mine : m <= n]

Loaded(chunks) ==
    LET accepted == Accepted(chunks)
    IN  [unit \in MeteredUnits |-> Folded(chunks, {n \in accepted : chunks[n].unit = unit})]

-----------------------------------------------------------------------------
(* Appending one row: write, sync, close, check of the name, sync of the   *)
(* directory.  A fault after the first byte leaves the outcome unknown.    *)

\* What a write that stopped part of the way may leave of the row: also the row
\* without its line feed.
Remains(row) == {<<Torn>>, <<row>>, <<row, Newline>>}

Published(row) ==
    /\ file' = file \o <<row, Newline>>
    /\ synced' = Len(file')
    /\ acked' = acked \cup {row}
    /\ ledgerPoison' = ledgerPoison

Indeterminate(row) ==
    /\ \E rest \in Remains(row) : file' = file \o rest
    /\ ledgerPoison' = TRUE
    /\ UNCHANGED <<synced, acked>>

\* Mutant: the projection is updated before the write is known to succeed.
ProjectedFirst(row) ==
    /\ usage' = [usage EXCEPT ![row.unit] = row]
    /\ \/ Published(row)
       \/ Indeterminate(row)
       \/ UNCHANGED <<file, synced, acked, ledgerPoison>>

\* The projection follows the file: only a durable append changes it.
AppendUsage(row) ==
    \/ Published(row) /\ usage' = [usage EXCEPT ![row.unit] = row]
    \/ Indeterminate(row) /\ UNCHANGED usage
    \/ UNCHANGED <<usage, file, synced, acked, ledgerPoison>>

Writable ==
    /\ ledgerUp
    /\ ~ledgerPoison
    /\ Len(file) + 2 <= MaxChunks

\* A receipt equal to the projected one is reported done without a write, and
\* one that contradicts it, or that completes nothing, is refused: neither
\* changes the state.
RecordUsage(row, requireExisting) ==
    /\ Writable
    /\ requireExisting => usage[row.unit] # NoReceipt
    /\ usage[row.unit] # NoReceipt =>
         /\ usage[row.unit] # row
         /\ ~Contradicts(usage[row.unit], row)
    /\ AppendUsage(row)
    /\ UNCHANGED ledgerUp

-----------------------------------------------------------------------------
(* The callers.                                                            *)

\* Before the handler of a unit may have an effect.
BeginAgentUsage(unit, identity) ==
    RecordUsage(Receipt(unit, identity, "pending"), FALSE)

\* After the handler; the begin row must exist.
CompleteAgentUsage(unit, identity, outcome) ==
    RecordUsage(Receipt(unit, identity, outcome), TRUE)

\* MeteredUnits metered once, after the fact.
RecordAgentUsage(unit, identity, outcome) ==
    RecordUsage(Receipt(unit, identity, outcome), FALSE)

\* An operator closes the receipt of an external effect whose adapter is gone.
ApplyManualUnknown(unit) ==
    /\ usage[unit] # NoReceipt
    /\ usage[unit].state = "pending"
    /\ RecordUsage([usage[unit] EXCEPT !.state = "manual"], TRUE)

-----------------------------------------------------------------------------
(* Process start, crash and power loss.                                    *)

LoadUsage ==
    /\ ~ledgerUp
    /\ ledgerUp' = TRUE
    /\ usage' = Loaded(file)
    /\ ledgerPoison' = ~Loads(file)
    /\ UNCHANGED <<file, synced, acked>>

StopProcess ==
    /\ ledgerUp' = FALSE
    /\ usage' = NoUsage
    /\ ledgerPoison' = FALSE
    /\ UNCHANGED acked

LedgerCrash ==
    /\ ledgerUp
    /\ StopProcess
    /\ UNCHANGED <<file, synced>>

\* What a power loss may leave: at least what was synced, at most what was
\* written, cut between two chunks or inside a row.
Survivors ==
    {SubSeq(file, 1, n) : n \in synced..Len(file)}
    \cup {Append(SubSeq(file, 1, n), Torn) : n \in
        {k \in synced..(Len(file) - 1) : file[k + 1] # Newline}}

LedgerPowerLoss ==
    /\ StopProcess
    /\ file' \in Survivors
    /\ synced' = Len(file')

-----------------------------------------------------------------------------
LedgerInit ==
    /\ ledgerUp = FALSE
    /\ usage = NoUsage
    /\ ledgerPoison = FALSE
    /\ file = <<>>
    /\ synced = 0
    /\ acked = {}

UnitNext(unit) ==
    \/ \E identity \in Identities :
         \/ BeginAgentUsage(unit, identity)
         \/ \E outcome \in {"success", "failed"} :
              \/ CompleteAgentUsage(unit, identity, outcome)
              \/ RecordAgentUsage(unit, identity, outcome)
    \/ unit \in ExternalUnits /\ ApplyManualUnknown(unit)

LedgerNext ==
    \/ LoadUsage
    \/ LedgerCrash
    \/ LedgerPowerLoss
    \/ \E unit \in MeteredUnits : UnitNext(unit)

LedgerSpec == LedgerInit /\ [][LedgerNext]_ledgerVars

-----------------------------------------------------------------------------
(* Properties.                                                             *)

\* Types of the variables; what is synced is part of the file.
LedgerTypeOK ==
    /\ ledgerUp \in BOOLEAN
    /\ usage \in [MeteredUnits -> Receipts \cup {NoReceipt}]
    /\ ledgerPoison \in BOOLEAN
    /\ file \in Seq(Chunks)
    /\ synced \in 0..Len(file)
    /\ acked \subseteq Receipts

\* No row shares its line with what was written after it.  The append of a row
\* that follows one without its line feed breaks this, and the ledger promises
\* nothing about such a file: AckedRowIsReadable fails of it.
OneRowPerLine(chunks) ==
    \A n \in 1..(Len(chunks) - 1) : RowAt(chunks, n) => chunks[n + 1] = Newline

\* An unpoisoned process shows exactly the receipts that a restart would read:
\* nothing is projected that is not in the file, and nothing in the file is
\* still to be discovered, as long as no two rows share a line.
ProjectionIsLedger ==
    ledgerUp /\ ~ledgerPoison /\ OneRowPerLine(file) => Loads(file) /\ usage = Loaded(file)

\* A receipt that was reported durable can be read after any later crash,
\* power loss and restart.
AckedRowIsReadable ==
    \A chunks \in Survivors : \A row \in acked :
        \E n \in Accepted(chunks) : chunks[n] = row

\* What a reader sees of a unit, what a power loss cannot take from it, and
\* whether two rows share a line.
Ledger == INSTANCE ReceiptTable WITH Units <- MeteredUnits,
    seen <- Loaded(file), kept <- Loaded(SubSeq(file, 1, synced)),
    spoilt <- ~OneRowPerLine(file)

\* The ledger implements a table of receipts: whatever sequence of writers,
\* retries, restarts and cuts produced the file, each unit moves once from
\* pending to one outcome of the same identity, and only a power loss takes a
\* step back, never behind what was synced; except in steps from or to a file
\* in which two rows share a line.
ReceiptsMoveOnce == Ledger!Spec
=============================================================================
