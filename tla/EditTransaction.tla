---------------------------- MODULE EditTransaction ----------------------------
(***************************************************************************)
(* Edits of several files at once (applyEditTransaction, src/services/     *)
(* workspace_edit_transaction.go), beside the saves of the editor          *)
(* (FileService.WriteFileIfUnchanged).                                     *)
(*                                                                         *)
(* An edit is previewed on what its files hold, checked again file by file *)
(* and written file by file; a failure takes back what was written, last   *)
(* first.  The agent writes one file through the file service, which       *)
(* compares it once more under a lock of its own; the diff and the replace *)
(* of the search write without that lock.  What a writer writes into a     *)
(* file is named by the writer.                                            *)
(***************************************************************************)
EXTENDS Naturals, Sequences, Functions

CONSTANTS
    Edits,        \* transactions
    Savers,       \* saves of the editor
    Targets,      \* files
    Orders,       \* sequences of files an edit may have
    NoWriter,     \* who wrote a file nobody wrote
    MaxDeaths     \* bound: deaths of the process

ASSUME EditAssumption ==
    /\ Edits \cap Savers = {} /\ NoWriter \notin Edits \cup Savers
    /\ Targets \cap {"idle", "open", "done"} = {}
    /\ \A o \in Orders : o \in Seq(Targets) /\ o # <<>>

VARIABLES
    content,      \* who wrote what a file holds
    edit,         \* transactions
    save,         \* saves
    saveLock,     \* FileService.saveMu
    applyLock,    \* DiffService.applyMu
    receipt,      \* the transaction of the receipt on disk
    deaths

editVars == <<content, edit, save, saveLock, applyLock, receipt, deaths>>
editLocks == <<saveLock, applyLock>>

Kinds == {"agent", "diff", "replace"}

\* The agent edits one file.
OrdersOf(kind) == {o \in Orders : kind = "agent" => Len(o) = 1}

FilesOf(t) == Range(edit[t].order)

NoEdit == [at |-> "idle", kind |-> "agent", order |-> <<>>, base |-> [f \in Targets |-> NoWriter],
           next |-> 1, report |-> "none", restored |-> TRUE]

Reported(t, result) == [edit EXCEPT ![t].at = "done", ![t].report = result]

ReleaseLock(lock, t) == IF lock = t THEN NoWriter ELSE lock

-----------------------------------------------------------------------------
(* Preview and preconditions.                                              *)

\* What the user was shown; the baseline of a file is the hash of its content.
Preview(t) ==
    /\ edit[t].at = "idle"
    /\ \E kind \in Kinds : \E order \in OrdersOf(kind) :
         edit' = [edit EXCEPT ![t] = [NoEdit EXCEPT !.at = "previewed", !.kind = kind,
                                                     !.order = order, !.base = content]]
    /\ UNCHANGED <<content, save, editLocks, receipt, deaths>>

BeginEdit(t) ==
    /\ edit[t].at = "previewed"
    /\ IF edit[t].kind = "diff"
       THEN applyLock = NoWriter /\ applyLock' = t
       ELSE UNCHANGED applyLock
    /\ edit' = [edit EXCEPT ![t].at = "checking"]
    /\ UNCHANGED <<content, save, saveLock, receipt, deaths>>

CheckFile(t) ==
    LET e == edit[t]
        last == e.next = Len(e.order)
    IN  /\ e.at = "checking"
        /\ content[e.order[e.next]] = e.base[e.order[e.next]]
        /\ edit' = [edit EXCEPT ![t].at = IF last THEN "writing" ELSE "checking",
                                ![t].next = IF last THEN 1 ELSE @ + 1]
        /\ UNCHANGED <<content, save, editLocks, receipt, deaths>>

\* Conflicts are collected over all files; nothing has been written.
Conflict(t) ==
    LET e == edit[t]
    IN  /\ e.at = "checking"
        /\ content[e.order[e.next]] # e.base[e.order[e.next]]
        /\ edit' = Reported(t, "untouched")
        /\ applyLock' = ReleaseLock(applyLock, t)
        /\ UNCHANGED <<content, save, saveLock, receipt, deaths>>

-----------------------------------------------------------------------------
(* Writing.                                                                *)

NextFile(t) == edit[t].order[edit[t].next]
AllWritten(t) == edit[t].next > Len(edit[t].order)

WriteFile(t) ==
    /\ edit[t].at = "writing" /\ edit[t].kind # "agent" /\ ~AllWritten(t)
    /\ content' = [content EXCEPT ![NextFile(t)] = t]
    /\ edit' = [edit EXCEPT ![t].next = @ + 1]
    /\ UNCHANGED <<save, editLocks, receipt, deaths>>

\* WriteFileIfUnchanged: the comparison, then the rename, under the lock.
CompareFile(t) ==
    /\ edit[t].at = "writing" /\ edit[t].kind = "agent" /\ ~AllWritten(t)
    /\ saveLock = NoWriter
    /\ IF content[NextFile(t)] = edit[t].base[NextFile(t)]
       THEN /\ saveLock' = t
            /\ edit' = [edit EXCEPT ![t].at = "renaming"]
       ELSE /\ edit' = Reported(t, "untouched")
            /\ UNCHANGED saveLock
    /\ UNCHANGED <<content, save, applyLock, receipt, deaths>>

RenameFile(t) ==
    /\ edit[t].at = "renaming"
    /\ content' = [content EXCEPT ![NextFile(t)] = t]
    /\ edit' = [edit EXCEPT ![t].at = "writing", ![t].next = @ + 1]
    /\ saveLock' = NoWriter
    /\ UNCHANGED <<save, applyLock, receipt, deaths>>

\* Mutant: a failure after the first write is reported like a conflict.
FailsOpen(t) ==
    /\ edit[t].at \in {"writing", "renaming"} /\ ~AllWritten(t)
    /\ edit' = Reported(t, "untouched")
    /\ applyLock' = ReleaseLock(applyLock, t)
    /\ saveLock' = ReleaseLock(saveLock, t)
    /\ UNCHANGED <<content, save, receipt, deaths>>

\* The caller is gone or a write fails; a failed write leaves its file alone.
WriteFails(t) ==
    /\ edit[t].at \in {"writing", "renaming"} /\ ~AllWritten(t)
    /\ IF edit[t].next = 1
       THEN edit' = Reported(t, "untouched") /\ applyLock' = ReleaseLock(applyLock, t)
       ELSE edit' = [edit EXCEPT ![t].at = "undoing"] /\ UNCHANGED applyLock
    /\ saveLock' = ReleaseLock(saveLock, t)
    /\ UNCHANGED <<content, save, receipt, deaths>>

\* A diff is applied once its receipt is on disk.
CommitEdit(t) ==
    /\ edit[t].at = "writing" /\ AllWritten(t)
    /\ edit' = Reported(t, "applied")
    /\ receipt' = IF edit[t].kind = "diff" THEN t ELSE receipt
    /\ applyLock' = ReleaseLock(applyLock, t)
    /\ UNCHANGED <<content, save, saveLock, deaths>>

ReceiptFails(t) ==
    /\ edit[t].at = "writing" /\ AllWritten(t) /\ edit[t].kind = "diff"
    /\ edit' = [edit EXCEPT ![t].at = "undoing"]
    /\ UNCHANGED <<content, save, editLocks, receipt, deaths>>

\* The files that were written, the last one first; the write may fail.
RestoreFile(t) ==
    LET f == edit[t].order[edit[t].next - 1]
    IN  /\ edit[t].at = "undoing" /\ edit[t].next > 1
        /\ \/ /\ content' = [content EXCEPT ![f] = edit[t].base[f]]
              /\ edit' = [edit EXCEPT ![t].next = @ - 1]
           \/ /\ edit' = [edit EXCEPT ![t].next = @ - 1, ![t].restored = FALSE]
              /\ UNCHANGED content
        /\ UNCHANGED <<save, editLocks, receipt, deaths>>

Restored(t) ==
    /\ edit[t].at = "undoing" /\ edit[t].next = 1
    /\ edit' = Reported(t, IF edit[t].restored THEN "rolled back" ELSE "failed")
    /\ applyLock' = ReleaseLock(applyLock, t)
    /\ UNCHANGED <<content, save, saveLock, receipt, deaths>>

-----------------------------------------------------------------------------
(* Saves of the editor, and the death of the process.                      *)

NoSave == [at |-> "idle", base |-> [f \in Targets |-> NoWriter]]

OpenBuffer(s) ==
    /\ save[s].at = "idle"
    /\ save' = [save EXCEPT ![s] = [at |-> "open", base |-> content]]
    /\ UNCHANGED <<content, edit, editLocks, receipt, deaths>>

CompareSave(s, f) ==
    /\ save[s].at = "open" /\ saveLock = NoWriter
    /\ content[f] = save[s].base[f]
    /\ saveLock' = s
    /\ save' = [save EXCEPT ![s].at = f]
    /\ UNCHANGED <<content, edit, applyLock, receipt, deaths>>

RenameSave(s, f) ==
    /\ save[s].at = f
    /\ content' = [content EXCEPT ![f] = s]
    /\ saveLock' = NoWriter
    /\ save' = [save EXCEPT ![s].at = "done"]
    /\ UNCHANGED <<edit, applyLock, receipt, deaths>>

BufferFails(s) ==
    /\ save[s].at \in Targets
    /\ saveLock' = NoWriter
    /\ save' = [save EXCEPT ![s].at = "done"]
    /\ UNCHANGED <<content, edit, applyLock, receipt, deaths>>

\* What was written stays written, and nothing remembers an unfinished edit.
Die ==
    /\ deaths < MaxDeaths
    /\ deaths' = deaths + 1
    /\ edit' = [t \in Edits |-> [edit[t] EXCEPT !.at = "done"]]
    /\ save' = [s \in Savers |-> [save[s] EXCEPT !.at = "done"]]
    /\ saveLock' = NoWriter /\ applyLock' = NoWriter
    /\ UNCHANGED <<content, receipt>>

-----------------------------------------------------------------------------
(* The specification.                                                      *)

EditInit ==
    /\ content = [f \in Targets |-> NoWriter]
    /\ edit = [t \in Edits |-> NoEdit]
    /\ save = [s \in Savers |-> NoSave]
    /\ saveLock = NoWriter /\ applyLock = NoWriter /\ receipt = NoWriter
    /\ deaths = 0

EditNext ==
    \/ \E t \in Edits :
         \/ Preview(t) \/ BeginEdit(t) \/ CheckFile(t) \/ Conflict(t)
         \/ WriteFile(t) \/ CompareFile(t) \/ RenameFile(t) \/ WriteFails(t)
         \/ CommitEdit(t) \/ ReceiptFails(t) \/ RestoreFile(t) \/ Restored(t)
    \/ \E s \in Savers :
         \/ OpenBuffer(s) \/ BufferFails(s)
         \/ \E f \in Targets : CompareSave(s, f) \/ RenameSave(s, f)
    \/ Die

EditSpec == EditInit /\ [][EditNext]_editVars

-----------------------------------------------------------------------------
(* Properties.                                                             *)

Authors == Edits \cup Savers \cup {NoWriter}

\* Types of the variables.
EditTypeOK ==
    /\ content \in [Targets -> Authors]
    /\ \A t \in Edits :
         /\ edit[t].kind \in Kinds /\ edit[t].order \in Orders \cup {<<>>}
         /\ edit[t].next \in 1 .. Len(edit[t].order) + 1
         /\ edit[t].report \in {"none", "untouched", "applied", "rolled back", "failed"}
    /\ saveLock \in Authors /\ applyLock \in Authors /\ receipt \in Authors

Reports(t, result) == edit[t].report = "none" /\ edit'[t].report = result

\* The result that an edit returns is what the disk shows at that moment: an
\* edit that was refused or rolled back has left nothing behind, except where a
\* later edit, based on it, restored it meanwhile; and the receipt of a workspace
\* is never that of an edit that did not apply.
ResultIsTrue ==
    \A t \in Edits :
        Reports(t, "untouched") \/ Reports(t, "rolled back") =>
            /\ receipt' # t
            /\ \A f \in Targets :
                 content'[f] = t => \E other \in Edits \ {t} : edit[other].base[f] = t

BaseOf(writer) == IF writer \in Savers THEN save[writer].base ELSE edit[writer].base

\* As long as nothing is written past the file service, a save and a write of
\* the agent replace each other only when the later one was based on the
\* earlier one.
SavesAreCompared ==
    (\A t \in Edits : edit[t].kind = "agent") =>
        \A f \in Targets :
            content'[f] # content[f] => BaseOf(content'[f])[f] = content[f]

\* What an edit reports is true, and it is never written over a save that it did
\* not see (WorkspaceEditApplyResult, WriteFileIfUnchanged).
EditsAreHonest == [][ResultIsTrue /\ SavesAreCompared]_editVars
=============================================================================
