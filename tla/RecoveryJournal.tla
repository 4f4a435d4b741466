---------------------------- MODULE RecoveryJournal ----------------------------
(***************************************************************************)
(* The journal of unsaved buffers (src/services/recovery_service.go) of    *)
(* one workspace: its records on disk, the recovery phase that gates other *)
(* operations, and the transaction that commits the user's decisions.      *)
(*                                                                         *)
(* A page of the editor has a window id of its own that no later page      *)
(* uses.  No lock spans an operation: a save and the clear of one buffer   *)
(* check the phase first and touch the disk later, a scan reads the disk   *)
(* and publishes later, and a commit moves its records one by one.  The    *)
(* clears of a whole window or workspace are one step each.  The process   *)
(* may die between any two steps; what was renamed stays renamed.  A       *)
(* record left in a transaction directory keeps its owner here, where the  *)
(* code lists it under the name of that directory.                         *)
(***************************************************************************)
EXTENDS Naturals, FiniteSets

CONSTANTS
    Pages,        \* window ids
    Paths,
    MaxSaves,     \* bound: records written
    MaxCrashes,   \* bound: deaths of the process
    MaxStuck      \* bound: moves of one rollback that fail

ASSUME JournalAssumption == MaxSaves \in Nat

VARIABLES
    files,        \* records in the directories of the windows
    orphans,      \* records in transaction directories without a marker
    usedPages,    \* pages that have journaled in this process
    earlierPages, \* pages of the processes before
    phase,        \* scanning, pending, resolved or failed
    pendingScan,  \* keys of the records a pending phase waits for
    acknowledged, \* the user released a failed scan
    pageCall,     \* the check of a save or a clear that has not touched the disk
    scanCall,     \* what a scan has read and not published
    commit,       \* CompleteRecovery
    saves,
    crashes,
    owed          \* keys that were journaled and neither cleared nor decided

journalVars == <<files, orphans, usedPages, earlierPages, phase, pendingScan, acknowledged,
                 pageCall, scanCall, commit, saves, crashes, owed>>

journalDisk == <<files, orphans, saves, owed>>
gate == <<phase, pendingScan, acknowledged>>
pages == <<usedPages, earlierPages>>

Key(r) == <<r.page, r.path>>
Keys(records) == {Key(r) : r \in records}
WithKey(records, key) == {r \in records : Key(r) = key}

NoPageCall == [at |-> "idle", path |-> "none"]
NoScan == [at |-> "idle", seen |-> {}]
NoCommit == [at |-> "idle", decided |-> {}, moved |-> {}, marker |-> FALSE]

\* What a scan lists: a transaction directory without its marker is read like
\* the directory of a window.
Uncommitted == orphans \cup (IF commit.marker THEN {} ELSE commit.moved)
Recoverable == files \cup Uncommitted

-----------------------------------------------------------------------------
(* Pages of the editor.                                                    *)

Blocked(p, path) == phase = "pending" /\ <<p, path>> \in pendingScan

CheckSave(p, path) ==
    /\ p \notin earlierPages /\ pageCall[p].at = "idle"
    /\ ~Blocked(p, path)
    /\ usedPages' = usedPages \cup {p}
    /\ pageCall' = [pageCall EXCEPT ![p] = [at |-> "save", path |-> path]]
    /\ UNCHANGED <<journalDisk, gate, earlierPages, scanCall, commit, crashes>>

WithRecord(records, r) == (records \ WithKey(records, Key(r))) \cup {r}

SaveDirtyBuffer(p) ==
    LET r == [page |-> p, path |-> pageCall[p].path, content |-> saves + 1]
    IN  /\ pageCall[p].at = "save"
        /\ saves < MaxSaves
        /\ saves' = saves + 1
        /\ files' = WithRecord(files, r)
        /\ owed' = owed \cup {Key(r)}
        /\ pageCall' = [pageCall EXCEPT ![p] = NoPageCall]
        /\ UNCHANGED <<orphans, gate, pages, scanCall, commit, crashes>>

\* The quota is exceeded or the write fails.
PageFails(p) ==
    /\ pageCall[p].at # "idle"
    /\ pageCall' = [pageCall EXCEPT ![p] = NoPageCall]
    /\ UNCHANGED <<journalDisk, gate, pages, scanCall, commit, crashes>>

CheckClear(p, path) ==
    /\ p \in usedPages /\ pageCall[p].at = "idle"
    /\ phase = "resolved" \/ (phase = "pending" /\ <<p, path>> \notin pendingScan)
    /\ pageCall' = [pageCall EXCEPT ![p] = [at |-> "clear", path |-> path]]
    /\ UNCHANGED <<journalDisk, gate, pages, scanCall, commit, crashes>>

ClearDirtyBuffer(p) ==
    LET key == <<p, pageCall[p].path>>
    IN  /\ pageCall[p].at = "clear"
        /\ files' = files \ WithKey(files, key)
        /\ owed' = owed \ {key}
        /\ pageCall' = [pageCall EXCEPT ![p] = NoPageCall]
        /\ UNCHANGED <<orphans, saves, gate, pages, scanCall, commit, crashes>>

\* A window with pending records keeps them, an earlier page's included.
ClearWindowJournal(p) ==
    LET own == {r \in files : r.page = p}
    IN  /\ \/ phase = "resolved"
           \/ phase = "pending" /\ \A key \in pendingScan : key[1] # p
        /\ own # {}
        /\ files' = files \ own
        /\ owed' = owed \ Keys(own)
        /\ UNCHANGED <<orphans, saves, gate, pages, pageCall, scanCall, commit, crashes>>

\* The whole directory of the workspace, staged records included.
ClearWorkspaceJournal ==
    /\ phase = "resolved"
    /\ Recoverable # {} /\ commit.at = "idle"
    /\ files' = {} /\ orphans' = {}
    /\ owed' = {}
    /\ UNCHANGED <<saves, gate, pages, pageCall, scanCall, commit, crashes>>

-----------------------------------------------------------------------------
(* Scanning.                                                               *)

PublishLifecycle(newPhase, keys, released) ==
    /\ phase' = newPhase
    /\ pendingScan' = keys
    /\ acknowledged' = released

BeginScan ==
    /\ scanCall.at = "idle"
    /\ PublishLifecycle("scanning", {}, FALSE)
    /\ scanCall' = [at |-> "begun", seen |-> {}]
    /\ UNCHANGED <<journalDisk, pages, pageCall, commit, crashes>>

ReadJournal ==
    /\ scanCall.at = "begun"
    /\ scanCall' = [at |-> "read", seen |-> Keys(Recoverable)]
    /\ UNCHANGED <<journalDisk, gate, pages, pageCall, commit, crashes>>

PublishScan ==
    /\ scanCall.at = "read"
    /\ PublishLifecycle(IF scanCall.seen = {} THEN "resolved" ELSE "pending", scanCall.seen, FALSE)
    /\ scanCall' = NoScan
    /\ UNCHANGED <<journalDisk, pages, pageCall, commit, crashes>>

ScanFails ==
    /\ scanCall.at = "begun"
    /\ PublishLifecycle("failed", {}, FALSE)
    /\ scanCall' = NoScan
    /\ UNCHANGED <<journalDisk, pages, pageCall, commit, crashes>>

AcknowledgeRecoveryFailure ==
    /\ phase = "failed"
    /\ PublishLifecycle("resolved", {}, TRUE)
    /\ UNCHANGED <<journalDisk, pages, pageCall, scanCall, commit, crashes>>

-----------------------------------------------------------------------------
(* Committing the decisions.                                               *)

\* The decisions must be those of the scan, no more and no fewer.
BeginCommit ==
    /\ commit.at = "idle"
    /\ phase = "pending"
    /\ commit' = [NoCommit EXCEPT !.at = "staging", !.decided = pendingScan]
    /\ UNCHANGED <<journalDisk, gate, pages, pageCall, scanCall, crashes>>

\* Mutant: the marker is written though some records were not found.
AllMoved == {}

Unmoved == commit.decided \ Keys(commit.moved)

\* A decision is looked up in the directory of its window.
StageRecord ==
    /\ commit.at = "staging"
    /\ \E r \in files :
         /\ Key(r) \in Unmoved
         /\ files' = files \ {r}
         /\ commit' = [commit EXCEPT !.moved = @ \cup {r}]
    /\ UNCHANGED <<orphans, saves, owed, gate, pages, pageCall, scanCall, crashes>>

\* A record that is not found, or a move that fails, takes the others back; a
\* record that cannot be moved back stays where it is.
RollbackRecoveryMoves ==
    /\ commit.at = "staging"
    /\ \E stuck \in {moves \in SUBSET commit.moved : Cardinality(moves) <= MaxStuck} :
         LET back == commit.moved \ stuck
         IN  /\ files' = {r \in files : Key(r) \notin Keys(back)} \cup back
             /\ orphans' = orphans \cup stuck
    /\ commit' = NoCommit
    /\ UNCHANGED <<saves, owed, gate, pages, pageCall, scanCall, crashes>>

\* The commit point.
WriteMarker ==
    /\ commit.at = "staging"
    /\ Unmoved = {}
    /\ commit' = [commit EXCEPT !.at = "marked", !.marker = TRUE]
    /\ owed' = owed \ (commit.decided \ Keys(files))
    /\ UNCHANGED <<files, orphans, saves, gate, pages, pageCall, scanCall, crashes>>

FinishCommit ==
    /\ commit.at = "marked"
    /\ PublishLifecycle("resolved", {}, FALSE)
    /\ commit' = NoCommit
    /\ UNCHANGED <<journalDisk, pages, pageCall, scanCall, crashes>>

-----------------------------------------------------------------------------
(* The process dies; the next one knows only the disk.                     *)

EditorDies ==
    /\ crashes < MaxCrashes
    /\ crashes' = crashes + 1
    /\ orphans' = Uncommitted
    /\ earlierPages' = earlierPages \cup usedPages /\ usedPages' = {}
    /\ PublishLifecycle("scanning", {}, FALSE)
    /\ pageCall' = [p \in Pages |-> NoPageCall]
    /\ scanCall' = NoScan
    /\ commit' = NoCommit
    /\ UNCHANGED <<files, saves, owed>>

-----------------------------------------------------------------------------
(* The specification.                                                      *)

JournalInit ==
    /\ files = {} /\ orphans = {}
    /\ usedPages = {} /\ earlierPages = {}
    /\ phase = "scanning" /\ pendingScan = {} /\ acknowledged = FALSE
    /\ pageCall = [p \in Pages |-> NoPageCall]
    /\ scanCall = NoScan /\ commit = NoCommit
    /\ saves = 0 /\ crashes = 0 /\ owed = {}

PageNext ==
    \E p \in Pages :
       \/ SaveDirtyBuffer(p) \/ PageFails(p)
       \/ ClearDirtyBuffer(p) \/ ClearWindowJournal(p)
       \/ \E path \in Paths : CheckSave(p, path) \/ CheckClear(p, path)

JournalNext ==
    \/ PageNext \/ ClearWorkspaceJournal
    \/ BeginScan \/ ReadJournal \/ PublishScan \/ ScanFails \/ AcknowledgeRecoveryFailure
    \/ BeginCommit \/ StageRecord \/ RollbackRecoveryMoves \/ WriteMarker \/ FinishCommit
    \/ EditorDies

JournalSpec == JournalInit /\ [][JournalNext]_journalVars

-----------------------------------------------------------------------------
(* Properties.                                                             *)

Records == [page : Pages, path : Paths, content : 1 .. MaxSaves]

\* Types of the variables.
JournalTypeOK ==
    /\ files \subseteq Records /\ orphans \subseteq Records
    /\ usedPages \subseteq Pages \ earlierPages
    /\ phase \in {"scanning", "pending", "resolved", "failed"}
    /\ pendingScan \subseteq Pages \X Paths
    /\ owed \subseteq Pages \X Paths

\* A buffer that was journaled is found by a scan until its window clears it or
\* the user decides about it, whatever crashed or failed in the middle.
NothingIsForgotten == owed \subseteq Keys(Recoverable)

\* Automatic writes, switches and closing windows are let through only when the
\* user has decided about every buffer that an earlier process left behind, or
\* has released a scan that failed (RecoveryPhase).
ResolvedMeansDecided ==
    phase = "resolved" /\ ~acknowledged => owed \cap (earlierPages \X Paths) = {}

\* No buffer of an earlier process is forgotten by the journal, nor passed over by
\* the phase.
NoWorkIsLost == NothingIsForgotten /\ ResolvedMeansDecided

\* A pending scan asks only for decisions that can be committed, unless the
\* buffer was cleared meanwhile: "CompleteRecovery atomically commits every
\* explicit decision returned by the most recent successful scan"
\* (recovery_service.go:924).
DecisionsCanBeCommitted ==
    phase = "pending" /\ commit.at = "idle" => pendingScan \cap owed \subseteq Keys(files)
=============================================================================
