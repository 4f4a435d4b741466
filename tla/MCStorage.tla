----------------------------- MODULE MCStorage -----------------------------
(* What is kept on disk: the session store, the usage ledger, the recovery *)
(* journal, the files that edits write, and the lock of the instance.      *)
(* They share no variable: a behaviour runs one of them, and the others    *)
(* stay in their initial state.                                            *)
EXTENDS SessionStore, MCUsageLedger, RecoveryJournal, EditTransaction, InstanceLock, TLC

CONSTANTS f1, f2

VARIABLE focus

\* One row within the bounds of the configuration, or two rows that are not
\* resumed, with one stream event and one checkpoint each, and two process
\* starts.
Few(row) == row.attempt <= 1 /\ row.stream <= 1 /\ Len(row.checkpoints) <= 1

OneRowOrFew ==
    \/ \E id \in Ids : rows[id] = NoRow
    \/ incarnation <= 2 /\ \A id \in Ids : Few(rows[id])

StorageInit ==
    /\ Init /\ LedgerInit /\ JournalInit /\ EditInit /\ InstanceInit
    /\ focus \in {"sessions", "ledger", "journal", "edits", "instance"}
    /\ rootBound \/ focus = "instance"

StorageNext ==
    \/ /\ focus = "sessions" /\ Next /\ OneRowOrFew'
       /\ UNCHANGED <<ledgerVars, journalVars, editVars, instanceVars>>
    \/ /\ focus = "ledger" /\ LedgerNext
       /\ UNCHANGED <<vars, journalVars, editVars, instanceVars>>
    \/ /\ focus = "journal" /\ JournalNext
       /\ UNCHANGED <<vars, ledgerVars, editVars, instanceVars>>
    \/ /\ focus = "edits" /\ EditNext
       /\ UNCHANGED <<vars, ledgerVars, journalVars, instanceVars>>
    \/ /\ focus = "instance" /\ InstanceNext
       /\ UNCHANGED <<vars, ledgerVars, journalVars, editVars>>

storageVars == <<focus, vars, ledgerVars, journalVars, editVars, instanceVars>>

StorageSpec == StorageInit /\ [][StorageNext /\ UNCHANGED focus]_storageVars

\* Types of the variables of every store.
StorageTypeOK ==
    /\ focus = "sessions" => TypeOK
    /\ focus = "ledger"   => LedgerTypeOK
    /\ focus = "journal"  => JournalTypeOK
    /\ focus = "edits"    => EditTypeOK
    /\ focus = "instance" => InstanceTypeOK

\* The files of an edit, in either order.
EditOrders == {<<f1>>, <<f1, f2>>, <<f2, f1>>}

\* The rows are alike, and so are the pages of the editor and the edits, which the
\* configuration gives the same names.
Interchangeable == Permutations(Ids) \cup Permutations(Pages)
=============================================================================
