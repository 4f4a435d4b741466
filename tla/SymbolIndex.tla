----------------------------- MODULE SymbolIndex -----------------------------
(***************************************************************************)
(* The index of exported symbols (src/services/symbol_index_service.go):   *)
(* IndexFile and RemoveFile for the events of the file watcher, the lazy   *)
(* rebuild of a query, and the switch of the workspace below them.         *)
(*                                                                         *)
(* Files are read and parsed outside the lock.  What was captured before   *)
(* -- a lease on the workspace, the version of the index, the number of    *)
(* the last removal -- decides at the end whether the result may still be  *)
(* published.  The content of a file is its version: a hash and the        *)
(* symbols parsed from it are the version they were made of, and a content *)
(* that was replaced does not come back.                                   *)
(***************************************************************************)
EXTENDS Naturals

CONSTANTS
    SourceFiles,
    SourceRoots,     \* workspaces
    HomeRoot,        \* the workspace of each file
    FirstRoot,       \* the workspace that is open at the start
    Indexers,        \* callers of IndexFile
    MaxVersions,     \* bound: contents written
    MaxIndexVersion, \* bound: versions of the index at which a call may begin
    MaxMoves         \* bound: project switches, failed ones included

ASSUME IndexAssumption ==
    /\ SourceFiles # {}
    /\ HomeRoot \in [SourceFiles -> SourceRoots]
    /\ FirstRoot \in SourceRoots
    /\ MaxVersions \in Nat \ {0}

VARIABLES
    sourceText,      \* the version of each file on disk, 0 when it is absent
    written,         \* contents written so far
    openWorkspace,   \* root and generation of the workspace context
    indexRoot,       \* the root the index serves
    symbolIndex,     \* hash and symbols of each file, 0 where it has none
    indexVersion,
    removalVersion,
    fileGenerations, \* the removal that last hit each file
    indexCalls,      \* IndexFile
    removal,         \* RemoveFile
    rebuild,         \* ensureIndexed
    projectMove,     \* the project switch
    moveCount,
    deletedText,     \* the version of each file that was deleted last
    oldest           \* versions below it were replaced or reported deleted

indexVars == <<sourceText, written, openWorkspace, indexRoot, symbolIndex,
               indexVersion, removalVersion, fileGenerations, indexCalls, removal, rebuild,
               projectMove, moveCount, deletedText, oldest>>

indexTable == <<symbolIndex, indexVersion, removalVersion, fileGenerations, oldest>>
sources == <<sourceText, written, deletedText>>
openRoots == <<openWorkspace, indexRoot, projectMove, moveCount>>

RootFiles(r) == {f \in SourceFiles : HomeRoot[f] = r}
AnyFile == CHOOSE f \in SourceFiles : TRUE
Unindexed == [f \in SourceFiles |-> [hash |-> 0, symbols |-> 0]]
NoGenerations == [f \in SourceFiles |-> 0]

NoIndexCall == [at |-> "idle", file |-> AnyFile,
                lease |-> [root |-> FirstRoot, generation |-> 0],
                started |-> 0, base |-> 0, gen |-> 0, known |-> 0, hash |-> 0, parsed |-> 0]
NoRemoval == [at |-> "idle", file |-> AnyFile,
              lease |-> [root |-> FirstRoot, generation |-> 0]]
NoRebuild == [at |-> "idle", root |-> FirstRoot,
              lease |-> [root |-> FirstRoot, generation |-> 0],
              base |-> 0, removals |-> 0, old |-> Unindexed, fresh |-> Unindexed,
              left |-> {}]
NoMove == [at |-> "idle", from |-> [root |-> FirstRoot, generation |-> 0]]

IndexInit ==
    /\ sourceText = [f \in SourceFiles |-> 1]
    /\ written = 1
    /\ openWorkspace = [root |-> FirstRoot, generation |-> 1]
    /\ indexRoot = FirstRoot
    /\ symbolIndex = Unindexed
    /\ indexVersion = 0 /\ removalVersion = 0
    /\ fileGenerations = NoGenerations
    /\ indexCalls = [c \in Indexers |-> NoIndexCall]
    /\ removal = NoRemoval /\ rebuild = NoRebuild
    /\ projectMove = NoMove /\ moveCount = 0
    /\ deletedText = NoGenerations /\ oldest = NoGenerations

-----------------------------------------------------------------------------
(* Files change under the index.                                           *)

ChangeFile(f) ==
    /\ written < MaxVersions
    /\ sourceText' = [sourceText EXCEPT ![f] = written + 1]
    /\ written' = written + 1
    /\ UNCHANGED <<indexTable, openRoots, indexCalls, removal, rebuild, deletedText>>

DeleteFile(f) ==
    /\ sourceText[f] # 0
    /\ sourceText' = [sourceText EXCEPT ![f] = 0]
    /\ deletedText' = [deletedText EXCEPT ![f] = sourceText[f]]
    /\ UNCHANGED <<indexTable, openRoots, indexCalls, removal, rebuild, written>>

-----------------------------------------------------------------------------
(* Leases.                                                                 *)

\* workspaceLeaseAndRoots: the context and the index agree on the root, and the
\* file lies in it.
LeaseFor(f) == openWorkspace.root = indexRoot /\ HomeRoot[f] = indexRoot

StillLeased(lease) == openWorkspace = lease

AtLeast(floors, versions) ==
    [f \in SourceFiles |-> IF versions[f].symbols > floors[f] THEN versions[f].symbols
                           ELSE floors[f]]

-----------------------------------------------------------------------------
(* IndexFile.  Every early return leaves the index as it is; a restart     *)
(* takes a new lease.                                                      *)

CallMoves(c, call) ==
    /\ indexCalls' = [indexCalls EXCEPT ![c] = call]
    /\ UNCHANGED <<sources, openRoots, removal, rebuild>>

IndexBegun(f) == [NoIndexCall EXCEPT !.at = "begun", !.file = f, !.lease = openWorkspace,
                                     !.started = removalVersion]

IndexRestarted(f) == IF LeaseFor(f) THEN IndexBegun(f) ELSE NoIndexCall

IndexFile(c, f) ==
    /\ indexCalls[c].at = "idle"
    /\ indexVersion < MaxIndexVersion
    /\ LeaseFor(f)
    /\ CallMoves(c, IndexBegun(f))
    /\ UNCHANGED indexTable

ReadVersions(c) ==
    LET call == indexCalls[c]  f == call.file IN
    /\ call.at = "begun"
    /\ \/ indexRoot # call.lease.root /\ CallMoves(c, IndexRestarted(f))
       \/ /\ indexRoot = call.lease.root
          /\ fileGenerations[f] > call.started
          /\ CallMoves(c, NoIndexCall)
       \/ /\ indexRoot = call.lease.root
          /\ fileGenerations[f] <= call.started
          /\ CallMoves(c, [call EXCEPT !.at = "based", !.base = indexVersion,
                                       !.gen = fileGenerations[f], !.known = symbolIndex[f].hash])
    /\ UNCHANGED indexTable

HashFile(c) ==
    LET call == indexCalls[c]  now == sourceText[call.file] IN
    /\ call.at = "based"
    /\ CallMoves(c, IF now = 0 THEN NoIndexCall
                     ELSE IF now = call.known THEN [call EXCEPT !.at = "same"]
                     ELSE [call EXCEPT !.at = "hashed", !.hash = now])
    /\ UNCHANGED indexTable

ParseFile(c) ==
    /\ indexCalls[c].at = "hashed"
    /\ CallMoves(c, [indexCalls[c] EXCEPT !.at = "parsed",
                                          !.parsed = sourceText[indexCalls[c].file]])
    /\ UNCHANGED indexTable

RemovedSince(call) == indexRoot = call.lease.root /\ fileGenerations[call.file] # call.gen
\* Mutant: another publication in between does not matter.
OvertakenByRootOnly(call) == indexRoot # call.lease.root
OvertakenSince(call) == indexRoot # call.lease.root \/ indexVersion # call.base

VerifyFile(c) ==
    LET call == indexCalls[c]  now == sourceText[call.file] IN
    /\ call.at = "parsed"
    /\ CallMoves(c, IF now = call.hash THEN [call EXCEPT !.at = "verified"]
                    ELSE IF now = 0 \/ RemovedSince(call) THEN NoIndexCall
                    ELSE IndexRestarted(call.file))
    /\ UNCHANGED indexTable

\* Nothing to parse: only the modification time of the file is noted.
KeepSymbols(c) ==
    LET call == indexCalls[c] IN
    /\ call.at = "same"
    /\ CallMoves(c, IF ~RemovedSince(call) /\ OvertakenSince(call) THEN IndexRestarted(call.file)
                    ELSE NoIndexCall)
    /\ UNCHANGED indexTable

PublishFile(c) ==
    LET call == indexCalls[c]
        next == [symbolIndex EXCEPT ![call.file] = [hash |-> call.hash, symbols |-> call.parsed]]
    IN
    /\ call.at = "verified"
    /\ \/ /\ ~StillLeased(call.lease) \/ RemovedSince(call)
          /\ CallMoves(c, NoIndexCall)
          /\ UNCHANGED indexTable
       \/ /\ StillLeased(call.lease) /\ ~RemovedSince(call) /\ OvertakenSince(call)
          /\ CallMoves(c, IndexRestarted(call.file))
          /\ UNCHANGED indexTable
       \/ /\ StillLeased(call.lease) /\ ~RemovedSince(call) /\ ~OvertakenSince(call)
          /\ CallMoves(c, NoIndexCall)
          /\ symbolIndex' = next
          /\ indexVersion' = indexVersion + 1
          /\ oldest' = AtLeast(oldest, next)
          /\ UNCHANGED <<removalVersion, fileGenerations>>

-----------------------------------------------------------------------------
(* RemoveFile, for the event of a deletion.                                *)

RemoveFile(f) ==
    /\ removal.at = "idle"
    /\ deletedText[f] # 0
    /\ indexVersion < MaxIndexVersion
    /\ LeaseFor(f)
    /\ removal' = [at |-> "begun", file |-> f, lease |-> openWorkspace]
    /\ UNCHANGED <<sources, openRoots, indexTable, indexCalls, rebuild>>

DropFile ==
    LET f == removal.file IN
    /\ removal.at = "begun"
    /\ removal' = NoRemoval
    /\ \/ /\ ~StillLeased(removal.lease) \/ indexRoot # removal.lease.root
          /\ UNCHANGED <<indexTable, deletedText>>
       \/ /\ StillLeased(removal.lease) /\ indexRoot = removal.lease.root
          /\ removalVersion' = removalVersion + 1
          /\ fileGenerations' = [fileGenerations EXCEPT ![f] = removalVersion + 1]
          /\ symbolIndex' = [symbolIndex EXCEPT ![f] = [hash |-> 0, symbols |-> 0]]
          /\ indexVersion' = IF symbolIndex[f].hash # 0 THEN indexVersion + 1 ELSE indexVersion
          /\ oldest' = [oldest EXCEPT ![f] = IF deletedText[f] >= @
                                             THEN deletedText[f] + 1 ELSE @]
          /\ deletedText' = [deletedText EXCEPT ![f] = 0]
    /\ UNCHANGED <<sourceText, written, openRoots, indexCalls, rebuild>>

-----------------------------------------------------------------------------
(* The rebuild of a query.  The index may always be stale: it is after     *)
(* five seconds.                                                           *)

RebuildMoves(r) ==
    /\ rebuild' = r
    /\ UNCHANGED <<sources, openRoots, indexCalls, removal>>

EnsureIndexed ==
    /\ rebuild.at = "idle"
    /\ indexVersion < MaxIndexVersion
    /\ openWorkspace.root = indexRoot
    /\ RebuildMoves([NoRebuild EXCEPT !.at = "begun", !.root = indexRoot])
    /\ UNCHANGED indexTable

CaptureBase ==
    /\ rebuild.at = "begun"
    /\ RebuildMoves(
           IF rebuild.root = indexRoot /\ rebuild.root = openWorkspace.root
           THEN [rebuild EXCEPT !.at = "scanning", !.lease = openWorkspace,
                                !.base = indexVersion, !.removals = removalVersion,
                                !.old = symbolIndex, !.left = RootFiles(indexRoot)]
           ELSE [rebuild EXCEPT !.at = "ending"])
    /\ UNCHANGED indexTable

\* A stable snapshot of one file, or none: it is gone, too large, over the
\* budget, or keeps changing.
ScanFile(f) ==
    LET now == sourceText[f]
        entry == IF rebuild.old[f].hash = now THEN rebuild.old[f]
                 ELSE [hash |-> now, symbols |-> now]
    IN
    /\ rebuild.at = "scanning" /\ f \in rebuild.left
    /\ \/ /\ now # 0
          /\ RebuildMoves([rebuild EXCEPT !.left = @ \ {f}, !.fresh[f] = entry])
       \/ RebuildMoves([rebuild EXCEPT !.left = @ \ {f}])
    /\ UNCHANGED indexTable

Undisturbed ==
    /\ indexVersion = rebuild.base
    /\ removalVersion = rebuild.removals
    /\ indexRoot = rebuild.root
PublishRebuild ==
    /\ rebuild.at = "scanning" /\ rebuild.left = {}
    /\ RebuildMoves([NoRebuild EXCEPT !.at = "ending"])
    /\ \/ /\ ~StillLeased(rebuild.lease) \/ ~Undisturbed
          /\ UNCHANGED indexTable
       \/ /\ StillLeased(rebuild.lease) /\ Undisturbed
          /\ symbolIndex' = rebuild.fresh
          /\ indexVersion' = indexVersion + 1
          /\ oldest' = AtLeast(oldest, rebuild.fresh)
          /\ UNCHANGED <<removalVersion, fileGenerations>>

EndRebuild ==
    /\ rebuild.at = "ending"
    /\ RebuildMoves(NoRebuild)
    /\ UNCHANGED indexTable

-----------------------------------------------------------------------------
(* The project switch: the context is its first setter, the index a later  *)
(* one; a failure undoes them in the opposite order and puts the old       *)
(* generation back.                                                        *)

MoveRests == UNCHANGED <<sources, indexCalls, removal, rebuild>>

SetContext(r) ==
    /\ projectMove.at = "idle" /\ moveCount < MaxMoves
    /\ r # openWorkspace.root
    /\ projectMove' = [at |-> "context", from |-> openWorkspace]
    /\ moveCount' = moveCount + 1
    /\ openWorkspace' = [root |-> r, generation |-> openWorkspace.generation + 1]
    /\ MoveRests /\ UNCHANGED <<indexTable, indexRoot>>

SetIndexRoot(r) ==
    /\ indexRoot' = r
    /\ symbolIndex' = Unindexed
    /\ fileGenerations' = NoGenerations
    /\ indexVersion' = indexVersion + 1
    /\ MoveRests /\ UNCHANGED <<removalVersion, oldest, openWorkspace, moveCount>>

ApplyIndexRoot ==
    /\ projectMove.at = "context"
    /\ projectMove' = [projectMove EXCEPT !.at = "symbolIndex"]
    /\ SetIndexRoot(openWorkspace.root)

CommitMove ==
    /\ projectMove.at = "symbolIndex"
    /\ projectMove' = NoMove
    /\ MoveRests /\ UNCHANGED <<indexTable, openWorkspace, indexRoot, moveCount>>

UndoIndexRoot ==
    /\ projectMove.at = "symbolIndex"
    /\ projectMove' = [projectMove EXCEPT !.at = "undone"]
    /\ SetIndexRoot(projectMove.from.root)

UndoContext ==
    /\ projectMove.at \in {"context", "undone"}
    /\ projectMove' = NoMove
    /\ openWorkspace' = projectMove.from
    /\ MoveRests /\ UNCHANGED <<indexTable, indexRoot, moveCount>>

IndexNext ==
    \/ \E f \in SourceFiles : ChangeFile(f) \/ DeleteFile(f) \/ RemoveFile(f) \/ ScanFile(f)
    \/ \E c \in Indexers :
        \/ \E f \in SourceFiles : IndexFile(c, f)
        \/ ReadVersions(c) \/ HashFile(c) \/ ParseFile(c) \/ VerifyFile(c)
        \/ KeepSymbols(c) \/ PublishFile(c)
    \/ DropFile
    \/ EnsureIndexed \/ CaptureBase \/ PublishRebuild \/ EndRebuild
    \/ \E r \in SourceRoots : SetContext(r)
    \/ ApplyIndexRoot \/ CommitMove \/ UndoIndexRoot \/ UndoContext

IndexSpec == IndexInit /\ [][IndexNext]_indexVars

-----------------------------------------------------------------------------
(* Properties.                                                             *)

IndexTypeOK ==
    /\ sourceText \in [SourceFiles -> 0..MaxVersions] /\ written \in 1..MaxVersions
    /\ openWorkspace.root \in SourceRoots /\ indexRoot \in SourceRoots
    /\ \A f \in SourceFiles :
           {symbolIndex[f].hash, symbolIndex[f].symbols} \subseteq 0..MaxVersions
    /\ \A f \in SourceFiles : fileGenerations[f] <= removalVersion
    /\ \A c \in Indexers : indexCalls[c].at \in
           {"idle", "begun", "based", "same", "hashed", "parsed", "verified"}
    /\ removal.at \in {"idle", "begun"}
    /\ rebuild.at \in {"idle", "begun", "scanning", "ending"}
    /\ projectMove.at \in {"idle", "context", "symbolIndex", "undone"}

\* Whatever was read, parsed and published out of order: the index holds files
\* of its own workspace only, symbols that belong to the hash beside them, and
\* no version of a file that was replaced in the index or reported deleted.
NoGhostSymbols ==
    \A f \in SourceFiles : symbolIndex[f].symbols # 0 =>
        /\ HomeRoot[f] = indexRoot
        /\ symbolIndex[f].hash = symbolIndex[f].symbols
        /\ symbolIndex[f].symbols >= oldest[f]
=============================================================================
