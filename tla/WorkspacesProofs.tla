--------------------------- MODULE WorkspacesProofs -------------------------
(***************************************************************************)
(* Proofs about two services that follow the workspace while calls that    *)
(* hold no lock are under way, and about all depths of a workspace         *)
(* together, with ToolExecutionProofs and WorkspaceAuthorityProofs.        *)
(*                                                                         *)
(* SymbolIndex never shows a ghost.  A call holds versions of a file it    *)
(* read outside the lock.  The argument says what they are worth while the *)
(* call runs: they are not newer than the file, and unless the index or    *)
(* the removals of the file have moved on since the base was taken,        *)
(* nothing newer has been published or reported deleted.  The check before *)
(* the publication is then enough.                                         *)
(*                                                                         *)
(* MCPService runs what is approved, and delivers what is current.         *)
(* Whoever takes a client out of the map owns it until it is stopped, and  *)
(* counts the generations up, so that whoever looked before finds out.     *)
(***************************************************************************)
EXTENDS MCWorkspaces, ToolExecutionProofs, WorkspaceAuthorityProofs, TLAPS

-----------------------------------------------------------------------------
(* The inductive invariant.                                                *)

Versions == [SourceFiles -> Nat]
Entries == [SourceFiles -> [hash : Nat, symbols : Nat]]
Leases == [root : SourceRoots, generation : Nat]

Calls == [at : {"idle", "begun", "based", "same", "hashed", "parsed", "verified"},
          file : SourceFiles, lease : Leases, started : Nat, base : Nat, gen : Nat,
          known : Nat, hash : Nat, parsed : Nat]

Removals == [at : {"idle", "begun"}, file : SourceFiles, lease : Leases]

Rebuilds == [at : {"idle", "begun", "scanning", "ending"}, root : SourceRoots,
             lease : Leases, base : Nat, removals : Nat, old : Entries, fresh : Entries,
             left : SUBSET SourceFiles]

TypeInv ==
    /\ sourceText \in Versions /\ written \in 1 .. MaxVersions
    /\ openWorkspace \in Leases /\ indexRoot \in SourceRoots
    /\ symbolIndex \in Entries
    /\ indexVersion \in Nat /\ removalVersion \in Nat
    /\ fileGenerations \in Versions
    /\ indexCalls \in [Indexers -> Calls]
    /\ removal \in Removals /\ rebuild \in Rebuilds
    /\ projectMove \in [at : {"idle", "context", "symbolIndex", "undone"}, from : Leases]
    /\ deletedText \in Versions /\ oldest \in Versions

\* Version v of f was read: it is not newer than the file.
WasRead(f, v, text, count) == v <= count /\ (text[f] # 0 => v <= text[f])

SourceInv ==
    \A f \in SourceFiles :
        /\ sourceText[f] <= written
        /\ deletedText[f] <= written /\ (sourceText[f] # 0 => deletedText[f] < sourceText[f])
        /\ oldest[f] <= written + 1 /\ (sourceText[f] # 0 => oldest[f] <= sourceText[f])

TableInv ==
    \A f \in SourceFiles :
        /\ fileGenerations[f] <= removalVersion
        /\ symbolIndex[f].hash = symbolIndex[f].symbols
        /\ symbolIndex[f].symbols # 0 =>
             /\ HomeRoot[f] = indexRoot
             /\ symbolIndex[f].symbols = oldest[f] /\ oldest[f] <= written

\* What a call of IndexFile knows, of these sources and this table.
CallInv(call, text, count, edition, gens, floor) ==
    LET f == call.file IN
    /\ call.at # "idle" => HomeRoot[f] = call.lease.root
    /\ call.at \in {"based", "same", "hashed", "parsed", "verified"} =>
         /\ call.base <= edition
         /\ call.base = edition => call.gen <= gens[f]
    /\ call.at \in {"hashed", "parsed", "verified"} =>
         /\ call.hash # 0 /\ WasRead(f, call.hash, text, count)
         /\ call.base = edition /\ call.gen = gens[f] => floor[f] <= call.hash
    /\ call.at = "parsed" /\ text[f] = call.hash => call.parsed = call.hash
    /\ call.at = "verified" => call.parsed = call.hash

\* What a rebuild knows, of these sources and this table.
RebuildInv(r, text, count, edition, removals, floor) ==
    r.at = "scanning" =>
        /\ r.base <= edition /\ r.removals <= removals
        /\ r.left \subseteq RootFiles(r.root)
        /\ \A f \in SourceFiles :
             /\ r.old[f].hash = r.old[f].symbols
             /\ r.fresh[f].hash = r.fresh[f].symbols
             /\ r.fresh[f].symbols # 0 =>
                  /\ HomeRoot[f] = r.root
                  /\ WasRead(f, r.fresh[f].symbols, text, count)
                  /\ r.base = edition /\ r.removals = removals => floor[f] <= r.fresh[f].symbols

StillUnread(r) == r.at # "scanning" => r.fresh = Unindexed

CallsInv ==
    \A c \in Indexers :
        CallInv(indexCalls[c], sourceText, written, indexVersion, fileGenerations, oldest)

IndexInv ==
    /\ TypeInv /\ SourceInv /\ TableInv
    /\ CallsInv
    /\ RebuildInv(rebuild, sourceText, written, indexVersion, removalVersion, oldest)
    /\ StillUnread(rebuild)

-----------------------------------------------------------------------------
(* What a step of somebody else leaves of the knowledge of a call.         *)

\* Contents are only replaced by contents never seen before.
Renewed(text, count, text2, count2) ==
    /\ count <= count2
    /\ \A f \in SourceFiles : text2[f] = text[f] \/ text2[f] = 0 \/ text2[f] > count

\* Where a floor rises, the version of the index or the removal of the file does.
MovedOn(edition, gens, floor, edition2, gens2, floor2) ==
    \/ edition2 > edition
    \/ /\ edition2 = edition
       /\ \A f \in SourceFiles :
            (gens2[f] = gens[f] /\ floor2[f] = floor[f]) \/ gens2[f] > gens[f]

\* The same, of the number of the last removal.
RemovedOn(edition, removals, floor, edition2, removals2, floor2) ==
    /\ edition2 >= edition /\ removals2 >= removals
    /\ edition2 > edition \/ removals2 > removals \/ floor2 = floor

\* A version that was read is still not newer than the file.
LEMMA ReadsKeep ==
    ASSUME NEW f \in SourceFiles, NEW v \in Nat,
           NEW text \in Versions, NEW count \in Nat,
           NEW text2 \in Versions, NEW count2 \in Nat,
           WasRead(f, v, text, count), Renewed(text, count, text2, count2)
    PROVE  WasRead(f, v, text2, count2)
BY DEF WasRead, Renewed, Versions

\* What a call knows survives the steps of the others.
LEMMA CallKeeps ==
    ASSUME NEW call \in Calls,
           NEW text \in Versions, NEW count \in Nat,
           NEW text2 \in Versions, NEW count2 \in Nat,
           NEW edition \in Nat, NEW gens \in Versions, NEW floor \in Versions,
           NEW edition2 \in Nat, NEW gens2 \in Versions, NEW floor2 \in Versions,
           CallInv(call, text, count, edition, gens, floor),
           Renewed(text, count, text2, count2),
           MovedOn(edition, gens, floor, edition2, gens2, floor2)
    PROVE  CallInv(call, text2, count2, edition2, gens2, floor2)
<1> DEFINE f == call.file
<1>0. f \in SourceFiles /\ call.base \in Nat /\ call.gen \in Nat /\ call.hash \in Nat
  BY DEF Calls
<1>1. text[f] \in Nat /\ text2[f] \in Nat /\ gens[f] \in Nat /\ gens2[f] \in Nat
      /\ floor[f] \in Nat /\ floor2[f] \in Nat
  BY <1>0 DEF Versions
<1>2. ASSUME call.at \in {"based", "same", "hashed", "parsed", "verified"}
      PROVE  call.base <= edition2 /\ (call.base = edition2 => call.gen <= gens2[f])
  <2>1. call.base <= edition /\ (call.base = edition => call.gen <= gens[f])
    BY <1>2 DEF CallInv
  <2>2. edition2 > edition \/ (edition2 = edition /\ gens2[f] >= gens[f])
    BY <1>0, <1>1 DEF MovedOn
  <2> QED BY <1>0, <1>1, <2>1, <2>2
<1>3. ASSUME call.at \in {"hashed", "parsed", "verified"}
      PROVE  /\ call.hash # 0 /\ WasRead(f, call.hash, text2, count2)
             /\ call.base = edition2 /\ call.gen = gens2[f] => floor2[f] <= call.hash
  <2>1. /\ call.hash # 0 /\ WasRead(f, call.hash, text, count)
        /\ call.base <= edition /\ (call.base = edition => call.gen <= gens[f])
        /\ call.base = edition /\ call.gen = gens[f] => floor[f] <= call.hash
    BY <1>3 DEF CallInv
  <2>2. WasRead(f, call.hash, text2, count2) BY <1>0, <2>1, ReadsKeep
  <2>3. \/ edition2 > edition
        \/ edition2 = edition /\ gens2[f] = gens[f] /\ floor2[f] = floor[f]
        \/ edition2 = edition /\ gens2[f] > gens[f]
    BY <1>0 DEF MovedOn
  <2> QED BY <1>0, <1>1, <2>1, <2>2, <2>3
<1>4. ASSUME call.at = "parsed", text2[f] = call.hash PROVE call.parsed = call.hash
  <2>1. /\ call.hash # 0 /\ call.hash <= count
        /\ text[f] = call.hash => call.parsed = call.hash
    BY <1>4 DEF CallInv, WasRead
  <2>2. text2[f] = text[f] \/ text2[f] = 0 \/ text2[f] > count BY <1>0 DEF Renewed
  <2> QED BY <1>0, <1>1, <1>4, <2>1, <2>2
<1>5. /\ call.at # "idle" => HomeRoot[f] = call.lease.root
      /\ call.at = "verified" => call.parsed = call.hash
  BY DEF CallInv
<1> QED BY <1>2, <1>3, <1>4, <1>5 DEF CallInv

\* What a rebuild knows survives the steps of the others.
LEMMA RebuildKeeps ==
    ASSUME NEW r \in Rebuilds,
           NEW text \in Versions, NEW count \in Nat,
           NEW text2 \in Versions, NEW count2 \in Nat,
           NEW edition \in Nat, NEW removals \in Nat, NEW floor \in Versions,
           NEW edition2 \in Nat, NEW removals2 \in Nat, NEW floor2 \in Versions,
           RebuildInv(r, text, count, edition, removals, floor),
           Renewed(text, count, text2, count2),
           RemovedOn(edition, removals, floor, edition2, removals2, floor2)
    PROVE  RebuildInv(r, text2, count2, edition2, removals2, floor2)
<1> SUFFICES ASSUME r.at = "scanning"
             PROVE  RebuildInv(r, text2, count2, edition2, removals2, floor2)
  BY DEF RebuildInv
<1>1. r.base \in Nat /\ r.removals \in Nat /\ r.fresh \in Entries BY DEF Rebuilds
<1>2. /\ r.base <= edition /\ r.removals <= removals
      /\ r.left \subseteq RootFiles(r.root)
  BY DEF RebuildInv
<1>3. /\ r.base <= edition2 /\ r.removals <= removals2
      /\ \/ r.base # edition2 \/ r.removals # removals2
         \/ edition2 = edition /\ removals2 = removals /\ floor2 = floor
  BY <1>1, <1>2 DEF RemovedOn
<1>4. ASSUME NEW f \in SourceFiles
      PROVE  /\ r.old[f].hash = r.old[f].symbols
             /\ r.fresh[f].hash = r.fresh[f].symbols
             /\ r.fresh[f].symbols # 0 =>
                  /\ HomeRoot[f] = r.root
                  /\ WasRead(f, r.fresh[f].symbols, text2, count2)
                  /\ r.base = edition2 /\ r.removals = removals2 => floor2[f] <= r.fresh[f].symbols
  <2>1. /\ r.old[f].hash = r.old[f].symbols
        /\ r.fresh[f].hash = r.fresh[f].symbols
        /\ r.fresh[f].symbols # 0 =>
             /\ HomeRoot[f] = r.root
             /\ WasRead(f, r.fresh[f].symbols, text, count)
             /\ r.base = edition /\ r.removals = removals => floor[f] <= r.fresh[f].symbols
    BY DEF RebuildInv
  <2>2. r.fresh[f].symbols \in Nat BY <1>1 DEF Entries
  <2>3. r.fresh[f].symbols # 0 => WasRead(f, r.fresh[f].symbols, text2, count2)
    BY <2>1, <2>2, ReadsKeep
  <2> QED BY <1>3, <2>1, <2>3
<1> QED BY <1>2, <1>3, <1>4 DEF RebuildInv

-----------------------------------------------------------------------------
(* The invariant over a step that moves one call, or the rebuild, or       *)
(* neither.                                                                *)

\* A call that does not move keeps what it knows.
LEMMA CallRests ==
    ASSUME IndexInv, TypeInv', Renewed(sourceText, written, sourceText', written'),
           MovedOn(indexVersion, fileGenerations, oldest,
                   indexVersion', fileGenerations', oldest'),
           NEW c \in Indexers, indexCalls'[c] = indexCalls[c]
    PROVE  CallInv(indexCalls'[c], sourceText', written', indexVersion', fileGenerations', oldest')
<1>1. /\ sourceText \in Versions /\ fileGenerations \in Versions /\ oldest \in Versions
      /\ written \in Nat /\ indexVersion \in Nat /\ indexCalls[c] \in Calls
  BY IndexAssumption DEF IndexInv, TypeInv
<1>2. /\ sourceText' \in Versions /\ fileGenerations' \in Versions /\ oldest' \in Versions
      /\ written' \in Nat /\ indexVersion' \in Nat
  BY IndexAssumption DEF TypeInv
<1>3. CallInv(indexCalls[c], sourceText, written, indexVersion, fileGenerations, oldest)
  BY DEF IndexInv, CallsInv
<1>4. CallInv(indexCalls[c], sourceText', written', indexVersion', fileGenerations', oldest')
  BY <1>1, <1>2, <1>3, CallKeeps
<1> QED BY <1>4

\* So does a rebuild.
LEMMA RebuildRests ==
    ASSUME IndexInv, TypeInv', Renewed(sourceText, written, sourceText', written'),
           RemovedOn(indexVersion, removalVersion, oldest,
                     indexVersion', removalVersion', oldest'),
           UNCHANGED rebuild
    PROVE  /\ RebuildInv(rebuild', sourceText', written', indexVersion', removalVersion', oldest')
           /\ StillUnread(rebuild')
<1>1. /\ sourceText \in Versions /\ oldest \in Versions /\ written \in Nat
      /\ indexVersion \in Nat /\ removalVersion \in Nat /\ rebuild \in Rebuilds
  BY IndexAssumption DEF IndexInv, TypeInv
<1>2. /\ sourceText' \in Versions /\ oldest' \in Versions /\ written' \in Nat
      /\ indexVersion' \in Nat /\ removalVersion' \in Nat
  BY IndexAssumption DEF TypeInv
<1>3. RebuildInv(rebuild, sourceText, written, indexVersion, removalVersion, oldest)
      /\ StillUnread(rebuild)
  BY DEF IndexInv
<1>4. RebuildInv(rebuild, sourceText', written', indexVersion', removalVersion', oldest')
  BY <1>1, <1>2, <1>3, RebuildKeeps
<1> QED BY <1>3, <1>4

\* Nothing changed is renewed and moved on.
LEMMA NothingMoved ==
    ASSUME TypeInv
    PROVE  /\ Renewed(sourceText, written, sourceText, written)
           /\ MovedOn(indexVersion, fileGenerations, oldest,
                      indexVersion, fileGenerations, oldest)
           /\ RemovedOn(indexVersion, removalVersion, oldest,
                        indexVersion, removalVersion, oldest)
<1>1. written \in Nat /\ indexVersion \in Nat /\ removalVersion \in Nat
  BY IndexAssumption DEF TypeInv
<1> QED BY <1>1 DEF Renewed, MovedOn, RemovedOn

\* A call goes on and publishes nothing.
LEMMA CallGoesOn ==
    ASSUME IndexInv, NEW c \in Indexers, NEW call \in Calls,
           CallInv(call, sourceText, written, indexVersion, fileGenerations, oldest),
           CallMoves(c, call), UNCHANGED indexTable
    PROVE  IndexInv'
<1>0. /\ UNCHANGED <<sourceText, written, deletedText, openWorkspace, indexRoot, projectMove,
                     symbolIndex, indexVersion, removalVersion, fileGenerations, oldest,
                     removal, rebuild>>
      /\ indexCalls' = [indexCalls EXCEPT ![c] = call]
  BY DEF CallMoves, indexTable, sources, openRoots
<1>1. TypeInv /\ indexCalls \in [Indexers -> Calls] BY DEF IndexInv, TypeInv
<1>2. TypeInv'
  <2>1. indexCalls' \in [Indexers -> Calls] BY <1>0, <1>1
  <2> QED BY <1>0, <1>1, <2>1 DEF TypeInv
<1>3. SourceInv' /\ TableInv' BY <1>0 DEF IndexInv, SourceInv, TableInv
<1>4. CallsInv'
  <2>1. ASSUME NEW d \in Indexers
        PROVE  CallInv(indexCalls'[d], sourceText, written, indexVersion, fileGenerations, oldest)
    <3>1. CASE d = c BY <1>0, <1>1, <3>1
    <3>2. CASE d # c
      <4>1. indexCalls'[d] = indexCalls[d] BY <1>0, <1>1, <3>2
      <4>2. CallInv(indexCalls[d], sourceText, written, indexVersion, fileGenerations, oldest)
        BY DEF IndexInv, CallsInv
      <4> QED BY <4>1, <4>2
    <3> QED BY <3>1, <3>2
  <2> QED BY <1>0, <2>1 DEF CallsInv
<1>5. RebuildInv(rebuild, sourceText, written, indexVersion, removalVersion, oldest)'
      /\ StillUnread(rebuild)'
  BY <1>0 DEF IndexInv
<1> QED BY <1>2, <1>3, <1>4, <1>5 DEF IndexInv

\* The rebuild goes on and publishes nothing.
LEMMA RebuildGoesOn ==
    ASSUME IndexInv, NEW r \in Rebuilds,
           RebuildInv(r, sourceText, written, indexVersion, removalVersion, oldest),
           StillUnread(r), RebuildMoves(r), UNCHANGED indexTable
    PROVE  IndexInv'
<1>0. /\ UNCHANGED <<sourceText, written, deletedText, openWorkspace, indexRoot, projectMove,
                     symbolIndex, indexVersion, removalVersion, fileGenerations, oldest,
                     removal, indexCalls>>
      /\ rebuild' = r
  BY DEF RebuildMoves, indexTable, sources, openRoots
<1>1. TypeInv' BY <1>0 DEF IndexInv, TypeInv
<1>2. SourceInv' /\ TableInv' BY <1>0 DEF IndexInv, SourceInv, TableInv
<1>3. CallsInv' BY <1>0 DEF IndexInv, CallsInv
<1>4. RebuildInv(rebuild, sourceText, written, indexVersion, removalVersion, oldest)'
      /\ StillUnread(rebuild)'
  BY <1>0
<1> QED BY <1>1, <1>2, <1>3, <1>4 DEF IndexInv

\* No call and no rebuild moves: sources and table may.
LEMMA CallersRest ==
    ASSUME IndexInv, TypeInv', SourceInv', TableInv', UNCHANGED <<indexCalls, rebuild>>,
           Renewed(sourceText, written, sourceText', written'),
           MovedOn(indexVersion, fileGenerations, oldest,
                   indexVersion', fileGenerations', oldest'),
           RemovedOn(indexVersion, removalVersion, oldest,
                     indexVersion', removalVersion', oldest')
    PROVE  IndexInv'
<1>1. ASSUME NEW c \in Indexers
      PROVE  CallInv(indexCalls[c], sourceText, written, indexVersion, fileGenerations, oldest)'
  <2>1. indexCalls'[c] = indexCalls[c] OBVIOUS
  <2> QED BY <2>1, CallRests
<1>2. CallsInv' BY <1>1 DEF CallsInv
<1>3. RebuildInv(rebuild, sourceText, written, indexVersion, removalVersion, oldest)'
      /\ StillUnread(rebuild)'
  BY RebuildRests
<1> QED BY <1>2, <1>3 DEF IndexInv

-----------------------------------------------------------------------------
(* Files, the project switch and the removal.                              *)

\* A file changes or is deleted.
LEMMA FileSteps ==
    ASSUME IndexInv, NEW f \in SourceFiles, ChangeFile(f) \/ DeleteFile(f)
    PROVE  IndexInv'
<1>0. /\ UNCHANGED <<openWorkspace, indexRoot, projectMove, symbolIndex, indexVersion,
                     removalVersion, fileGenerations, oldest, removal, indexCalls, rebuild>>
      /\ TypeInv /\ SourceInv /\ TableInv
      /\ sourceText \in Versions /\ deletedText \in Versions /\ oldest \in Versions
      /\ written \in Nat
  BY IndexAssumption DEF IndexInv, TypeInv, ChangeFile, DeleteFile, indexTable, openRoots
<1>1. \A g \in SourceFiles : sourceText[g] \in Nat /\ deletedText[g] \in Nat /\ oldest[g] \in Nat
  BY <1>0 DEF Versions
<1>2. \/ /\ written < MaxVersions /\ written' = written + 1 /\ deletedText' = deletedText
         /\ sourceText' = [sourceText EXCEPT ![f] = written + 1]
      \/ /\ written' = written /\ deletedText' = [deletedText EXCEPT ![f] = sourceText[f]]
         /\ sourceText[f] # 0
         /\ sourceText' = [sourceText EXCEPT ![f] = 0]
  BY DEF ChangeFile, DeleteFile
<1>3. TypeInv'
  <2>1. sourceText' \in Versions /\ deletedText' \in Versions
    BY <1>0, <1>1, <1>2 DEF Versions
  <2>2. written' \in 1 .. MaxVersions BY <1>0, <1>2, IndexAssumption DEF TypeInv
  <2> QED BY <1>0, <2>1, <2>2 DEF TypeInv
<1>4. SourceInv'
  <2>1. ASSUME NEW g \in SourceFiles
        PROVE  /\ sourceText'[g] <= written'
               /\ deletedText'[g] <= written'
               /\ sourceText'[g] # 0 => deletedText'[g] < sourceText'[g]
               /\ oldest[g] <= written' + 1
               /\ sourceText'[g] # 0 => oldest[g] <= sourceText'[g]
    BY <1>0, <1>1, <1>2 DEF SourceInv, Versions
  <2> QED BY <1>0, <2>1 DEF SourceInv
<1>5. TableInv'
  <2>1. written <= written' BY <1>0, <1>2
  <2>2. \A g \in SourceFiles : oldest[g] <= written => oldest[g] <= written'
    BY <1>0, <1>1, <1>2, <2>1
  <2> QED BY <1>0, <2>2 DEF TableInv
<1>6. Renewed(sourceText, written, sourceText', written')
  BY <1>0, <1>1, <1>2 DEF Renewed, Versions
<1> QED BY <1>0, <1>3, <1>4, <1>5, <1>6, NothingMoved, CallersRest

\* The index gets another root: it is empty, and everything captured is stale.
LEMMA RootSteps ==
    ASSUME IndexInv, NEW r \in SourceRoots, SetIndexRoot(r),
           projectMove' \in [at : {"idle", "context", "symbolIndex", "undone"}, from : Leases]
    PROVE  IndexInv'
<1>0. /\ UNCHANGED <<sourceText, written, deletedText, openWorkspace,
                     removalVersion, oldest, removal, indexCalls, rebuild>>
      /\ indexRoot' = r /\ symbolIndex' = Unindexed /\ fileGenerations' = NoGenerations
      /\ indexVersion' = indexVersion + 1
      /\ TypeInv /\ SourceInv
      /\ indexVersion \in Nat /\ removalVersion \in Nat
  BY DEF IndexInv, TypeInv, SetIndexRoot, MoveRests, sources
<1>1. TypeInv'
  <2>1. Unindexed \in Entries /\ NoGenerations \in Versions
    BY DEF Unindexed, NoGenerations, Entries, Versions
  <2> QED BY <1>0, <2>1 DEF TypeInv
<1>2. SourceInv' BY <1>0 DEF SourceInv
<1>3. TableInv' BY <1>0 DEF TableInv, Unindexed, NoGenerations
<1>4. /\ MovedOn(indexVersion, fileGenerations, oldest, indexVersion', fileGenerations', oldest')
      /\ RemovedOn(indexVersion, removalVersion, oldest, indexVersion', removalVersion', oldest')
  BY <1>0 DEF MovedOn, RemovedOn
<1>5. Renewed(sourceText, written, sourceText', written') BY <1>0, NothingMoved
<1> QED BY <1>0, <1>1, <1>2, <1>3, <1>4, <1>5, CallersRest

\* The project switch.
LEMMA MoveSteps ==
    ASSUME IndexInv,
           \/ \E r \in SourceRoots : SetContext(r)
           \/ ApplyIndexRoot \/ CommitMove \/ UndoIndexRoot \/ UndoContext
    PROVE  IndexInv'
<1> DEFINE Moves == [at : {"idle", "context", "symbolIndex", "undone"}, from : Leases]
<1>0. /\ TypeInv /\ openWorkspace \in Leases /\ projectMove \in Moves
      /\ openWorkspace.root \in SourceRoots /\ openWorkspace.generation \in Nat
      /\ projectMove.from \in Leases /\ projectMove.from.root \in SourceRoots
  BY DEF IndexInv, TypeInv, Leases
<1>1. NoMove \in Moves BY IndexAssumption DEF NoMove, Leases
<1>2. CASE ApplyIndexRoot
  <2>1. projectMove' \in Moves BY <1>0, <1>2 DEF ApplyIndexRoot
  <2> QED BY <1>0, <1>2, <2>1, RootSteps DEF ApplyIndexRoot
<1>3. CASE UndoIndexRoot
  <2>1. projectMove' \in Moves BY <1>0, <1>3 DEF UndoIndexRoot
  <2> QED BY <1>0, <1>3, <2>1, RootSteps DEF UndoIndexRoot
<1>4. CASE (\E r \in SourceRoots : SetContext(r)) \/ CommitMove \/ UndoContext
  <2>1. /\ UNCHANGED <<sourceText, written, deletedText, indexRoot, symbolIndex, indexVersion,
                       removalVersion, fileGenerations, oldest, removal, indexCalls, rebuild>>
        /\ projectMove' \in Moves /\ openWorkspace' \in Leases
    BY <1>0, <1>1, <1>4 DEF SetContext, CommitMove, UndoContext, MoveRests, indexTable, sources, Leases
  <2>2. TypeInv' BY <1>0, <2>1 DEF TypeInv
  <2>3. SourceInv' /\ TableInv' BY <2>1 DEF IndexInv, SourceInv, TableInv
  <2> QED BY <1>0, <2>1, <2>2, <2>3, NothingMoved, CallersRest
<1> QED BY <1>2, <1>3, <1>4

\* An event of a deletion is taken.
LEMMA RemovalBegins ==
    ASSUME IndexInv, NEW f \in SourceFiles, RemoveFile(f)
    PROVE  IndexInv'
<1>1. /\ UNCHANGED <<sourceText, written, deletedText, openWorkspace, indexRoot, projectMove,
                     symbolIndex, indexVersion, removalVersion, fileGenerations, oldest,
                     indexCalls, rebuild>>
      /\ removal' = [at |-> "begun", file |-> f, lease |-> openWorkspace]
  BY DEF RemoveFile, indexTable, sources, openRoots
<1>2. TypeInv /\ openWorkspace \in Leases BY DEF IndexInv, TypeInv
<1>3. TypeInv'
  <2>1. removal' \in Removals BY <1>1, <1>2 DEF Removals
  <2> QED BY <1>1, <1>2, <2>1 DEF TypeInv
<1>4. SourceInv' /\ TableInv' BY <1>1 DEF IndexInv, SourceInv, TableInv
<1> QED BY <1>1, <1>2, <1>3, <1>4, NothingMoved, CallersRest

\* A deletion is reported: the file leaves the index, and the number of its
\* removal rises above all that were captured.
LEMMA RemovalEnds ==
    ASSUME IndexInv, DropFile
    PROVE  IndexInv'
<1> DEFINE f == removal.file
<1>0. /\ UNCHANGED <<sourceText, written, openWorkspace, indexRoot, projectMove, indexCalls, rebuild>>
      /\ removal' = NoRemoval
      /\ TypeInv /\ SourceInv /\ TableInv
      /\ f \in SourceFiles
      /\ sourceText \in Versions /\ deletedText \in Versions /\ oldest \in Versions
      /\ fileGenerations \in Versions /\ symbolIndex \in Entries
      /\ written \in Nat /\ indexVersion \in Nat /\ removalVersion \in Nat
  BY IndexAssumption DEF IndexInv, TypeInv, Removals, DropFile, openRoots
<1>1. NoRemoval \in Removals
  BY IndexAssumption, <1>0 DEF NoRemoval, Removals, Leases, AnyFile
<1>2. CASE UNCHANGED <<indexTable, deletedText>>
  <2>1. UNCHANGED <<symbolIndex, indexVersion, removalVersion, fileGenerations, oldest, deletedText>>
    BY <1>2 DEF indexTable
  <2>2. TypeInv' BY <1>0, <1>1, <2>1 DEF TypeInv
  <2>3. SourceInv' /\ TableInv' BY <1>0, <2>1 DEF SourceInv, TableInv
  <2> QED BY <1>0, <2>1, <2>2, <2>3, NothingMoved, CallersRest
<1>3. CASE /\ removalVersion' = removalVersion + 1
           /\ fileGenerations' = [fileGenerations EXCEPT ![f] = removalVersion + 1]
           /\ symbolIndex' = [symbolIndex EXCEPT ![f] = [hash |-> 0, symbols |-> 0]]
           /\ indexVersion' = IF symbolIndex[f].hash # 0 THEN indexVersion + 1 ELSE indexVersion
           /\ oldest' = [oldest EXCEPT ![f] = IF deletedText[f] >= @
                                              THEN deletedText[f] + 1 ELSE @]
           /\ deletedText' = [deletedText EXCEPT ![f] = 0]
  <2>1. \A g \in SourceFiles : /\ sourceText[g] \in Nat /\ deletedText[g] \in Nat
                               /\ oldest[g] \in Nat /\ fileGenerations[g] \in Nat
    BY <1>0 DEF Versions
  <2>2. /\ oldest' \in Versions /\ deletedText' \in Versions /\ fileGenerations' \in Versions
        /\ symbolIndex' \in Entries
        /\ removalVersion' \in Nat /\ indexVersion' \in Nat /\ indexVersion' >= indexVersion
    BY <1>0, <1>3, <2>1 DEF Versions, Entries
  <2>3. TypeInv' BY <1>0, <1>1, <2>2 DEF TypeInv
  <2>4. \A g \in SourceFiles :
          IF g = f
          THEN /\ fileGenerations'[g] = removalVersion + 1 /\ deletedText'[g] = 0
               /\ symbolIndex'[g] = [hash |-> 0, symbols |-> 0]
               /\ oldest'[g] = deletedText[g] + 1 \/ oldest'[g] = oldest[g]
          ELSE /\ fileGenerations'[g] = fileGenerations[g] /\ deletedText'[g] = deletedText[g]
               /\ symbolIndex'[g] = symbolIndex[g] /\ oldest'[g] = oldest[g]
    BY <1>0, <1>3, <2>1 DEF Versions, Entries
  <2>5. SourceInv'
    <3>1. ASSUME NEW g \in SourceFiles
          PROVE  /\ deletedText'[g] <= written
                 /\ sourceText[g] # 0 => deletedText'[g] < sourceText[g]
                 /\ oldest'[g] <= written + 1
                 /\ sourceText[g] # 0 => oldest'[g] <= sourceText[g]
      BY <1>0, <2>1, <2>4 DEF SourceInv
    <3>2. \A g \in SourceFiles : sourceText[g] <= written BY <1>0 DEF SourceInv
    <3> QED BY <1>0, <3>1, <3>2 DEF SourceInv
  <2>6. TableInv'
    <3>1. ASSUME NEW g \in SourceFiles
          PROVE  /\ fileGenerations'[g] <= removalVersion'
                 /\ symbolIndex'[g].hash = symbolIndex'[g].symbols
                 /\ symbolIndex'[g].symbols # 0 =>
                      /\ HomeRoot[g] = indexRoot
                      /\ symbolIndex'[g].symbols = oldest'[g] /\ oldest'[g] <= written
      BY <1>0, <1>3, <2>1, <2>4 DEF TableInv
    <3> QED BY <1>0, <3>1 DEF TableInv
  <2>7. MovedOn(indexVersion, fileGenerations, oldest, indexVersion', fileGenerations', oldest')
    <3>1. \A g \in SourceFiles : \/ fileGenerations'[g] = fileGenerations[g] /\ oldest'[g] = oldest[g]
                                 \/ fileGenerations'[g] > fileGenerations[g]
      BY <1>0, <2>1, <2>4 DEF TableInv
    <3> QED BY <1>0, <2>2, <3>1 DEF MovedOn
  <2>8. RemovedOn(indexVersion, removalVersion, oldest, indexVersion', removalVersion', oldest')
    BY <1>0, <1>3, <2>2 DEF RemovedOn
  <2>9. Renewed(sourceText, written, sourceText', written') BY <1>0, NothingMoved
  <2> QED BY <1>0, <2>3, <2>5, <2>6, <2>7, <2>8, <2>9, CallersRest
<1> QED BY <1>2, <1>3 DEF DropFile

-----------------------------------------------------------------------------
(* IndexFile.                                                              *)

\* A call that returns knows nothing; one that begins has a file of its lease.
LEMMA CallsBegin ==
    ASSUME IndexInv
    PROVE  /\ NoIndexCall \in Calls
           /\ CallInv(NoIndexCall, sourceText, written, indexVersion, fileGenerations, oldest)
           /\ \A f \in SourceFiles : LeaseFor(f) =>
                /\ IndexBegun(f) \in Calls
                /\ CallInv(IndexBegun(f), sourceText, written, indexVersion, fileGenerations, oldest)
           /\ \A f \in SourceFiles :
                /\ IndexRestarted(f) \in Calls
                /\ CallInv(IndexRestarted(f), sourceText, written, indexVersion, fileGenerations, oldest)
<1>1. AnyFile \in SourceFiles /\ [root |-> FirstRoot, generation |-> 0] \in Leases
  BY IndexAssumption DEF AnyFile, Leases
<1>2. NoIndexCall \in Calls BY <1>1 DEF NoIndexCall, Calls
<1>3. CallInv(NoIndexCall, sourceText, written, indexVersion, fileGenerations, oldest)
  BY DEF NoIndexCall, CallInv
<1>4. ASSUME NEW f \in SourceFiles, LeaseFor(f)
      PROVE  /\ IndexBegun(f) \in Calls
             /\ CallInv(IndexBegun(f), sourceText, written, indexVersion, fileGenerations, oldest)
  <2>1. openWorkspace \in Leases /\ removalVersion \in Nat BY DEF IndexInv, TypeInv
  <2>2. IndexBegun(f) \in Calls BY <1>2, <2>1 DEF IndexBegun, Calls
  <2>3. /\ IndexBegun(f).at = "begun" /\ IndexBegun(f).file = f
        /\ IndexBegun(f).lease = openWorkspace
    BY <1>2 DEF IndexBegun, Calls
  <2>4. HomeRoot[f] = openWorkspace.root BY <1>4 DEF LeaseFor
  <2>5. CallInv(IndexBegun(f), sourceText, written, indexVersion, fileGenerations, oldest)
    BY <2>3, <2>4 DEF CallInv
  <2> QED BY <2>2, <2>5
<1> QED BY <1>2, <1>3, <1>4 DEF IndexRestarted

\* The steps of a call that publish nothing.
LEMMA CallSteps ==
    ASSUME IndexInv, NEW c \in Indexers,
           \/ \E f \in SourceFiles : IndexFile(c, f)
           \/ ReadVersions(c) \/ HashFile(c) \/ ParseFile(c) \/ VerifyFile(c) \/ KeepSymbols(c)
    PROVE  IndexInv'
<1> DEFINE call == indexCalls[c]  f == call.file
           Known(k) == CallInv(k, sourceText, written, indexVersion, fileGenerations, oldest)
<1>0. /\ call \in Calls /\ f \in SourceFiles
      /\ sourceText \in Versions /\ fileGenerations \in Versions /\ symbolIndex \in Entries
      /\ indexVersion \in Nat /\ Known(call)
  BY DEF IndexInv, TypeInv, Calls, CallsInv
<1>1. sourceText[f] \in Nat /\ fileGenerations[f] \in Nat /\ symbolIndex[f].hash \in Nat
  BY <1>0 DEF Versions, Entries
<1>2. ASSUME NEW g \in SourceFiles, IndexFile(c, g) PROVE IndexInv'
  <2>1. IndexBegun(g) \in Calls /\ Known(IndexBegun(g)) BY <1>2, CallsBegin DEF IndexFile
  <2> QED BY <1>2, <2>1, CallGoesOn DEF IndexFile
<1>3. NoIndexCall \in Calls /\ Known(NoIndexCall) BY CallsBegin
<1>4. IndexRestarted(f) \in Calls /\ Known(IndexRestarted(f)) BY <1>0, CallsBegin
<1>5. CASE ReadVersions(c)
  <2> DEFINE based == [call EXCEPT !.at = "based", !.base = indexVersion,
                                   !.gen = fileGenerations[f], !.known = symbolIndex[f].hash]
  <2>1. call.at = "begun" /\ UNCHANGED indexTable BY <1>5 DEF ReadVersions
  <2>2. CallMoves(c, IndexRestarted(f)) \/ CallMoves(c, NoIndexCall) \/ CallMoves(c, based)
    BY <1>5 DEF ReadVersions
  <2>3. based \in Calls BY <1>0, <1>1 DEF Calls
  <2>4. /\ based.at = "based" /\ based.base = indexVersion /\ based.gen = fileGenerations[f]
        /\ based.file = f /\ based.lease = call.lease
    BY <1>0 DEF Calls
  <2>5. HomeRoot[f] = call.lease.root BY <1>0, <2>1 DEF CallInv
  <2>6. Known(based) BY <1>0, <1>1, <2>4, <2>5 DEF CallInv
  <2> QED BY <1>3, <1>4, <2>1, <2>2, <2>3, <2>6, CallGoesOn
<1>6. CASE HashFile(c)
  <2> DEFINE same == [call EXCEPT !.at = "same"]
             hashed == [call EXCEPT !.at = "hashed", !.hash = sourceText[f]]
  <2>1. call.at = "based" /\ UNCHANGED indexTable BY <1>6 DEF HashFile
  <2>2. \/ CallMoves(c, NoIndexCall) \/ CallMoves(c, same)
        \/ sourceText[f] # 0 /\ CallMoves(c, hashed)
    BY <1>6 DEF HashFile
  <2>3. same \in Calls /\ hashed \in Calls BY <1>0, <1>1 DEF Calls
  <2>4. /\ same.at = "same" /\ same.file = f /\ same.lease = call.lease
        /\ same.base = call.base /\ same.gen = call.gen
        /\ hashed.at = "hashed" /\ hashed.file = f /\ hashed.lease = call.lease
        /\ hashed.base = call.base /\ hashed.gen = call.gen /\ hashed.hash = sourceText[f]
    BY <1>0 DEF Calls
  <2>5. /\ HomeRoot[f] = call.lease.root /\ call.base <= indexVersion
        /\ call.base = indexVersion => call.gen <= fileGenerations[f]
    BY <1>0, <2>1 DEF CallInv
  <2>6. Known(same) BY <2>4, <2>5 DEF CallInv
  <2>7. ASSUME sourceText[f] # 0 PROVE Known(hashed)
    <3>1. sourceText[f] <= written /\ oldest[f] <= sourceText[f]
      BY <1>0, <2>7 DEF IndexInv, SourceInv
    <3>2. WasRead(f, sourceText[f], sourceText, written) BY <1>1, <3>1 DEF WasRead
    <3> QED BY <2>4, <2>5, <2>7, <3>1, <3>2 DEF CallInv
  <2> QED BY <1>3, <2>1, <2>2, <2>3, <2>6, <2>7, CallGoesOn
<1>7. CASE ParseFile(c)
  <2> DEFINE parsed == [call EXCEPT !.at = "parsed", !.parsed = sourceText[f]]
  <2>1. call.at = "hashed" /\ UNCHANGED indexTable /\ CallMoves(c, parsed) BY <1>7 DEF ParseFile
  <2>2. parsed \in Calls BY <1>0, <1>1 DEF Calls
  <2>3. /\ parsed.at = "parsed" /\ parsed.file = f /\ parsed.lease = call.lease
        /\ parsed.base = call.base /\ parsed.gen = call.gen
        /\ parsed.hash = call.hash /\ parsed.parsed = sourceText[f]
    BY <1>0 DEF Calls
  <2>4. Known(parsed) BY <1>0, <2>1, <2>3 DEF CallInv
  <2> QED BY <2>1, <2>2, <2>4, CallGoesOn
<1>8. CASE VerifyFile(c)
  <2> DEFINE verified == [call EXCEPT !.at = "verified"]
  <2>1. call.at = "parsed" /\ UNCHANGED indexTable BY <1>8 DEF VerifyFile
  <2>2. \/ CallMoves(c, NoIndexCall) \/ CallMoves(c, IndexRestarted(f))
        \/ sourceText[f] = call.hash /\ CallMoves(c, verified)
    BY <1>8 DEF VerifyFile
  <2>3. verified \in Calls BY <1>0 DEF Calls
  <2>4. /\ verified.at = "verified" /\ verified.file = f /\ verified.lease = call.lease
        /\ verified.base = call.base /\ verified.gen = call.gen
        /\ verified.hash = call.hash /\ verified.parsed = call.parsed
    BY <1>0 DEF Calls
  <2>5. ASSUME sourceText[f] = call.hash PROVE Known(verified)
    BY <1>0, <2>1, <2>4, <2>5 DEF CallInv
  <2> QED BY <1>3, <1>4, <2>1, <2>2, <2>3, <2>5, CallGoesOn
<1>9. CASE KeepSymbols(c)
  <2>1. /\ CallMoves(c, NoIndexCall) \/ CallMoves(c, IndexRestarted(f))
        /\ UNCHANGED indexTable
    BY <1>9 DEF KeepSymbols
  <2> QED BY <1>3, <1>4, <2>1, CallGoesOn
<1> QED BY <1>2, <1>5, <1>6, <1>7, <1>8, <1>9

\* Versions in a table that are not below their floor raise it to themselves.
LEMMA FloorsRise ==
    ASSUME NEW floors \in Versions, NEW table \in Entries,
           \A f \in SourceFiles : table[f].symbols # 0 => floors[f] <= table[f].symbols
    PROVE  /\ AtLeast(floors, table) \in Versions
           /\ \A f \in SourceFiles :
                AtLeast(floors, table)[f] =
                  IF table[f].symbols # 0 THEN table[f].symbols ELSE floors[f]
<1>1. \A f \in SourceFiles : floors[f] \in Nat /\ table[f].symbols \in Nat
  BY DEF Versions, Entries
<1>2. \A f \in SourceFiles :
        AtLeast(floors, table)[f] = IF table[f].symbols > floors[f] THEN table[f].symbols
                                    ELSE floors[f]
  BY DEF AtLeast
<1>3. AtLeast(floors, table) \in Versions BY <1>1 DEF AtLeast, Versions
<1> QED BY <1>1, <1>2, <1>3

\* A table whose versions were read, are of the root and not below their
\* floors may be published.
LEMMA TablePublished ==
    ASSUME IndexInv, NEW table \in Entries,
           \A f \in SourceFiles :
               /\ table[f].hash = table[f].symbols
               /\ table[f].symbols # 0 =>
                    /\ HomeRoot[f] = indexRoot
                    /\ WasRead(f, table[f].symbols, sourceText, written)
                    /\ oldest[f] <= table[f].symbols,
           symbolIndex' = table, indexVersion' = indexVersion + 1,
           oldest' = AtLeast(oldest, table),
           UNCHANGED <<removalVersion, fileGenerations, sources, openRoots, removal>>,
           indexCalls' \in [Indexers -> Calls], rebuild' \in Rebuilds
    PROVE  /\ TypeInv' /\ SourceInv' /\ TableInv'
           /\ Renewed(sourceText, written, sourceText', written')
           /\ MovedOn(indexVersion, fileGenerations, oldest,
                      indexVersion', fileGenerations', oldest')
           /\ RemovedOn(indexVersion, removalVersion, oldest,
                        indexVersion', removalVersion', oldest')
<1>0. /\ UNCHANGED <<sourceText, written, deletedText, openWorkspace, indexRoot, projectMove,
                     removalVersion, fileGenerations, removal>>
      /\ TypeInv /\ SourceInv /\ TableInv
      /\ oldest \in Versions /\ sourceText \in Versions
      /\ written \in Nat /\ indexVersion \in Nat /\ removalVersion \in Nat
  BY IndexAssumption DEF IndexInv, TypeInv, sources, openRoots
<1>1. /\ oldest' \in Versions
      /\ \A f \in SourceFiles :
           oldest'[f] = IF table[f].symbols # 0 THEN table[f].symbols ELSE oldest[f]
  BY <1>0, FloorsRise
<1>2. TypeInv' BY <1>0, <1>1 DEF TypeInv
<1>3. SourceInv'
  <2>1. ASSUME NEW f \in SourceFiles
        PROVE  oldest'[f] <= written + 1 /\ (sourceText[f] # 0 => oldest'[f] <= sourceText[f])
    <3>1. CASE table[f].symbols = 0 BY <1>0, <1>1, <3>1 DEF SourceInv
    <3>2. CASE table[f].symbols # 0
      <4>1. WasRead(f, table[f].symbols, sourceText, written) /\ table[f].symbols \in Nat
        BY <3>2 DEF Entries
      <4> QED BY <1>0, <1>1, <3>2, <4>1 DEF WasRead
    <3> QED BY <3>1, <3>2
  <2> QED BY <1>0, <2>1 DEF SourceInv
<1>4. TableInv'
  <2>1. ASSUME NEW f \in SourceFiles, table[f].symbols # 0
        PROVE  table[f].symbols = oldest'[f] /\ oldest'[f] <= written
    BY <1>1, <2>1 DEF WasRead
  <2> QED BY <1>0, <2>1 DEF TableInv
<1>5. /\ MovedOn(indexVersion, fileGenerations, oldest, indexVersion', fileGenerations', oldest')
      /\ RemovedOn(indexVersion, removalVersion, oldest, indexVersion', removalVersion', oldest')
  BY <1>0 DEF MovedOn, RemovedOn
<1>6. Renewed(sourceText, written, sourceText', written') BY <1>0, NothingMoved
<1> QED BY <1>2, <1>3, <1>4, <1>5, <1>6

\* A call publishes its file, or finds that it may not.
LEMMA FilePublished ==
    ASSUME IndexInv, NEW c \in Indexers, PublishFile(c)
    PROVE  IndexInv'
<1> DEFINE call == indexCalls[c]  f == call.file
           next == [symbolIndex EXCEPT ![f] = [hash |-> call.hash, symbols |-> call.parsed]]
<1>0. /\ call \in Calls /\ f \in SourceFiles /\ call.at = "verified"
      /\ indexCalls \in [Indexers -> Calls] /\ rebuild \in Rebuilds
      /\ symbolIndex \in Entries /\ oldest \in Versions /\ TableInv
      /\ call.hash \in Nat /\ call.parsed \in Nat
  BY DEF IndexInv, TypeInv, Calls, PublishFile
<1>1. /\ NoIndexCall \in Calls
      /\ CallInv(NoIndexCall, sourceText, written, indexVersion, fileGenerations, oldest)
      /\ IndexRestarted(f) \in Calls
      /\ CallInv(IndexRestarted(f), sourceText, written, indexVersion, fileGenerations, oldest)
  BY <1>0, CallsBegin
<1>2. CASE CallMoves(c, NoIndexCall) /\ UNCHANGED indexTable BY <1>1, <1>2, CallGoesOn
<1>3. CASE CallMoves(c, IndexRestarted(f)) /\ UNCHANGED indexTable BY <1>1, <1>3, CallGoesOn
<1>4. CASE /\ ~RemovedSince(call) /\ ~OvertakenSince(call)
           /\ CallMoves(c, NoIndexCall)
           /\ symbolIndex' = next /\ indexVersion' = indexVersion + 1
           /\ oldest' = AtLeast(oldest, next)
           /\ UNCHANGED <<removalVersion, fileGenerations>>
  <2>1. /\ HomeRoot[f] = indexRoot /\ call.parsed = call.hash
        /\ WasRead(f, call.hash, sourceText, written) /\ oldest[f] <= call.hash
    <3>1. CallInv(call, sourceText, written, indexVersion, fileGenerations, oldest)
      BY DEF IndexInv, CallsInv
    <3>2. indexRoot = call.lease.root /\ indexVersion = call.base /\ fileGenerations[f] = call.gen
      BY <1>4 DEF RemovedSince, OvertakenSince
    <3> QED BY <1>0, <3>1, <3>2 DEF CallInv
  <2>2. next \in Entries BY <1>0 DEF Entries
  <2>3. next[f].hash = call.hash /\ next[f].symbols = call.hash
        /\ \A g \in SourceFiles : g # f => next[g] = symbolIndex[g]
    BY <1>0, <2>1 DEF Entries
  <2>4. ASSUME NEW g \in SourceFiles
        PROVE  /\ next[g].hash = next[g].symbols
               /\ next[g].symbols # 0 =>
                    /\ HomeRoot[g] = indexRoot
                    /\ WasRead(g, next[g].symbols, sourceText, written)
                    /\ oldest[g] <= next[g].symbols
    <3>1. CASE g = f BY <2>1, <2>3, <3>1
    <3>2. CASE g # f
      <4>1. /\ symbolIndex[g].hash = symbolIndex[g].symbols
            /\ symbolIndex[g].symbols # 0 =>
                 /\ HomeRoot[g] = indexRoot
                 /\ symbolIndex[g].symbols = oldest[g] /\ oldest[g] <= written
        BY <1>0 DEF TableInv
      <4>2. oldest[g] \in Nat /\ (sourceText[g] # 0 => oldest[g] <= sourceText[g])
        BY <1>0 DEF Versions, IndexInv, SourceInv
      <4> QED BY <2>3, <3>2, <4>1, <4>2 DEF WasRead
    <3> QED BY <3>1, <3>2
  <2>5. /\ indexCalls' = [indexCalls EXCEPT ![c] = NoIndexCall]
        /\ UNCHANGED <<sources, openRoots, removal, rebuild>>
    BY <1>4 DEF CallMoves
  <2>6. indexCalls' \in [Indexers -> Calls] BY <1>0, <1>1, <2>5
  <2>7. /\ TypeInv' /\ SourceInv' /\ TableInv'
        /\ Renewed(sourceText, written, sourceText', written')
        /\ MovedOn(indexVersion, fileGenerations, oldest,
                   indexVersion', fileGenerations', oldest')
        /\ RemovedOn(indexVersion, removalVersion, oldest,
                     indexVersion', removalVersion', oldest')
    BY <1>0, <1>4, <2>2, <2>4, <2>5, <2>6, TablePublished
  <2>8. CallsInv'
    <3>1. ASSUME NEW d \in Indexers
          PROVE  CallInv(indexCalls[d], sourceText, written, indexVersion, fileGenerations, oldest)'
      <4>1. CASE d = c
        <5>1. indexCalls'[d] = NoIndexCall BY <1>0, <2>5, <4>1
        <5> QED BY <5>1 DEF CallInv, NoIndexCall
      <4>2. CASE d # c
        <5>1. indexCalls'[d] = indexCalls[d] BY <1>0, <2>5, <4>2
        <5> QED BY <2>7, <5>1, CallRests
      <4> QED BY <4>1, <4>2
    <3> QED BY <3>1 DEF CallsInv
  <2>9. RebuildInv(rebuild, sourceText, written, indexVersion, removalVersion, oldest)'
        /\ StillUnread(rebuild)'
    BY <2>5, <2>7, RebuildRests
  <2> QED BY <2>7, <2>8, <2>9 DEF IndexInv
<1> QED BY <1>2, <1>3, <1>4 DEF PublishFile

-----------------------------------------------------------------------------
(* The rebuild.                                                            *)

\* The empty rebuild knows nothing, wherever it stands.
LEMMA RebuildsBegin ==
    ASSUME NEW at \in {"idle", "begun", "ending"}, NEW root \in SourceRoots
    PROVE  /\ [NoRebuild EXCEPT !.at = at] \in Rebuilds
           /\ [NoRebuild EXCEPT !.at = at, !.root = root] \in Rebuilds
           /\ NoRebuild \in Rebuilds
           /\ [NoRebuild EXCEPT !.at = at].at = at
           /\ [NoRebuild EXCEPT !.at = at].fresh = Unindexed
           /\ [NoRebuild EXCEPT !.at = at, !.root = root].at = at
           /\ [NoRebuild EXCEPT !.at = at, !.root = root].fresh = Unindexed
           /\ NoRebuild.at = "idle" /\ NoRebuild.fresh = Unindexed
<1>1. Unindexed \in Entries BY DEF Unindexed, Entries
<1>2. NoRebuild \in Rebuilds BY <1>1, IndexAssumption DEF NoRebuild, Rebuilds, Leases
<1>3. NoRebuild.at = "idle" /\ NoRebuild.fresh = Unindexed BY DEF NoRebuild
<1>4. /\ [NoRebuild EXCEPT !.at = at] \in Rebuilds
      /\ [NoRebuild EXCEPT !.at = at, !.root = root] \in Rebuilds
  BY <1>2 DEF Rebuilds
<1> QED BY <1>2, <1>3, <1>4 DEF Rebuilds

\* The steps of a rebuild that publish nothing.
LEMMA RebuildSteps ==
    ASSUME IndexInv,
           \/ EnsureIndexed \/ CaptureBase \/ EndRebuild
           \/ \E f \in SourceFiles : ScanFile(f)
    PROVE  IndexInv'
<1> DEFINE Known(r) == /\ RebuildInv(r, sourceText, written, indexVersion, removalVersion, oldest)
                       /\ StillUnread(r)
<1>0. /\ rebuild \in Rebuilds /\ Known(rebuild) /\ indexRoot \in SourceRoots
      /\ openWorkspace \in Leases /\ symbolIndex \in Entries /\ sourceText \in Versions
      /\ indexVersion \in Nat /\ removalVersion \in Nat
      /\ rebuild.old \in Entries /\ rebuild.fresh \in Entries
  BY DEF IndexInv, TypeInv, Rebuilds
<1>1. ASSUME NEW r \in Rebuilds, r.at # "scanning", r.fresh = Unindexed PROVE Known(r)
  BY <1>1 DEF RebuildInv, StillUnread
<1>2. CASE EnsureIndexed
  <2> DEFINE begun == [NoRebuild EXCEPT !.at = "begun", !.root = indexRoot]
  <2>1. begun \in Rebuilds /\ begun.at = "begun" /\ begun.fresh = Unindexed
    BY <1>0, RebuildsBegin
  <2>2. Known(begun) BY <1>1, <2>1
  <2>3. RebuildMoves(begun) /\ UNCHANGED indexTable BY <1>2 DEF EnsureIndexed
  <2> QED BY <2>1, <2>2, <2>3, RebuildGoesOn
<1>3. CASE EndRebuild
  <2>1. NoRebuild \in Rebuilds /\ NoRebuild.at = "idle" /\ NoRebuild.fresh = Unindexed
    BY <1>0, RebuildsBegin
  <2>2. Known(NoRebuild) BY <1>1, <2>1
  <2>3. RebuildMoves(NoRebuild) /\ UNCHANGED indexTable BY <1>3 DEF EndRebuild
  <2> QED BY <2>1, <2>2, <2>3, RebuildGoesOn
<1>4. CASE CaptureBase
  <2> DEFINE ending == [rebuild EXCEPT !.at = "ending"]
             based == [rebuild EXCEPT !.at = "scanning", !.lease = openWorkspace,
                                !.base = indexVersion, !.removals = removalVersion,
                                !.old = symbolIndex, !.left = RootFiles(indexRoot)]
  <2>1. /\ rebuild.at = "begun" /\ UNCHANGED indexTable
        /\ \/ RebuildMoves(ending)
           \/ rebuild.root = indexRoot /\ RebuildMoves(based)
    BY <1>4 DEF CaptureBase
  <2>2. rebuild.fresh = Unindexed BY <1>0, <2>1 DEF StillUnread
  <2>3. RootFiles(indexRoot) \in SUBSET SourceFiles BY DEF RootFiles
  <2>4. ending \in Rebuilds /\ based \in Rebuilds BY <1>0, <2>3 DEF Rebuilds
  <2>5. ending.at = "ending" /\ ending.fresh = Unindexed BY <1>0, <2>2 DEF Rebuilds
  <2>6. Known(ending) BY <1>1, <2>4, <2>5
  <2>7. /\ based.at = "scanning" /\ based.root = rebuild.root /\ based.base = indexVersion
        /\ based.removals = removalVersion /\ based.old = symbolIndex
        /\ based.left = RootFiles(indexRoot) /\ based.fresh = Unindexed
    BY <1>0, <2>2 DEF Rebuilds
  <2>8. ASSUME rebuild.root = indexRoot PROVE Known(based)
    <3>1. \A f \in SourceFiles : Unindexed[f].hash = 0 /\ Unindexed[f].symbols = 0
      BY DEF Unindexed
    <3>2. \A f \in SourceFiles : symbolIndex[f].hash = symbolIndex[f].symbols
      BY DEF IndexInv, TableInv
    <3> QED BY <1>0, <2>7, <2>8, <3>1, <3>2 DEF RebuildInv, StillUnread
  <2> QED BY <2>1, <2>4, <2>6, <2>8, RebuildGoesOn
<1>5. ASSUME NEW f \in SourceFiles, ScanFile(f) PROVE IndexInv'
  <2> DEFINE now == sourceText[f]
             entry == IF rebuild.old[f].hash = now THEN rebuild.old[f]
                      ELSE [hash |-> now, symbols |-> now]
             taken == [rebuild EXCEPT !.left = @ \ {f}, !.fresh[f] = entry]
             passed == [rebuild EXCEPT !.left = @ \ {f}]
  <2>1. /\ rebuild.at = "scanning" /\ f \in rebuild.left /\ UNCHANGED indexTable
        /\ (now # 0 /\ RebuildMoves(taken)) \/ RebuildMoves(passed)
    BY <1>5 DEF ScanFile
  <2>2. now \in Nat BY <1>0 DEF Versions
  <2>3. /\ rebuild.base <= indexVersion /\ rebuild.removals <= removalVersion
        /\ rebuild.left \subseteq RootFiles(rebuild.root)
        /\ \A g \in SourceFiles :
             /\ rebuild.old[g].hash = rebuild.old[g].symbols
             /\ rebuild.fresh[g].hash = rebuild.fresh[g].symbols
             /\ rebuild.fresh[g].symbols # 0 =>
                  /\ HomeRoot[g] = rebuild.root
                  /\ WasRead(g, rebuild.fresh[g].symbols, sourceText, written)
                  /\ rebuild.base = indexVersion /\ rebuild.removals = removalVersion
                        => oldest[g] <= rebuild.fresh[g].symbols
    BY <1>0, <2>1 DEF RebuildInv
  <2>4. entry = [hash |-> now, symbols |-> now]
    BY <1>0, <2>2, <2>3 DEF Entries
  <2>5. [hash |-> now, symbols |-> now] \in [hash : Nat, symbols : Nat] BY <2>2
  <2>6. [rebuild.fresh EXCEPT ![f] = entry] \in Entries BY <1>0, <2>4, <2>5 DEF Entries
  <2>7. taken \in Rebuilds /\ passed \in Rebuilds BY <1>0, <2>6 DEF Rebuilds
  <2>8. /\ passed.at = "scanning" /\ passed.root = rebuild.root /\ passed.base = rebuild.base
        /\ passed.removals = rebuild.removals /\ passed.old = rebuild.old
        /\ passed.left = rebuild.left \ {f} /\ passed.fresh = rebuild.fresh
        /\ taken.at = "scanning" /\ taken.root = rebuild.root /\ taken.base = rebuild.base
        /\ taken.removals = rebuild.removals /\ taken.old = rebuild.old
        /\ taken.left = rebuild.left \ {f} /\ taken.fresh = [rebuild.fresh EXCEPT ![f] = entry]
    BY <1>0, <2>1 DEF Rebuilds
  <2>9. Known(passed) BY <2>3, <2>8 DEF RebuildInv, StillUnread
  <2>10. ASSUME now # 0 PROVE Known(taken)
    <3>1. HomeRoot[f] = rebuild.root BY <2>1, <2>3 DEF RootFiles
    <3>2. now <= written /\ oldest[f] <= now BY <2>10 DEF IndexInv, SourceInv
    <3>3. WasRead(f, now, sourceText, written) BY <2>2, <3>2 DEF WasRead
    <3>4. /\ taken.fresh[f].hash = now /\ taken.fresh[f].symbols = now
          /\ \A g \in SourceFiles : g # f => taken.fresh[g] = rebuild.fresh[g]
      BY <1>0, <2>4, <2>8 DEF Entries
    <3>5. ASSUME NEW g \in SourceFiles
          PROVE  /\ rebuild.old[g].hash = rebuild.old[g].symbols
                 /\ taken.fresh[g].hash = taken.fresh[g].symbols
                 /\ taken.fresh[g].symbols # 0 =>
                      /\ HomeRoot[g] = rebuild.root
                      /\ WasRead(g, taken.fresh[g].symbols, sourceText, written)
                      /\ rebuild.base = indexVersion /\ rebuild.removals = removalVersion
                            => oldest[g] <= taken.fresh[g].symbols
      <4>1. CASE g = f BY <2>3, <3>1, <3>2, <3>3, <3>4, <4>1
      <4>2. CASE g # f
        <5>1. taken.fresh[g] = rebuild.fresh[g] BY <3>4, <4>2
        <5> QED BY <2>3, <5>1
      <4> QED BY <4>1, <4>2
    <3> QED BY <2>3, <2>8, <3>5 DEF RebuildInv, StillUnread
  <2> QED BY <2>1, <2>7, <2>9, <2>10, RebuildGoesOn
<1> QED BY <1>2, <1>3, <1>4, <1>5

\* A rebuild publishes the whole table, or finds that it may not.
LEMMA RebuildPublished ==
    ASSUME IndexInv, PublishRebuild
    PROVE  IndexInv'
<1> DEFINE ending == [NoRebuild EXCEPT !.at = "ending"]
<1>0. /\ rebuild \in Rebuilds /\ rebuild.fresh \in Entries /\ rebuild.at = "scanning"
      /\ indexCalls \in [Indexers -> Calls]
  BY DEF IndexInv, TypeInv, Rebuilds, PublishRebuild
<1>1. ending \in Rebuilds /\ ending.at = "ending" /\ ending.fresh = Unindexed
  BY IndexAssumption, RebuildsBegin
<1>2. CASE RebuildMoves(ending) /\ UNCHANGED indexTable
  <2>1. /\ RebuildInv(ending, sourceText, written, indexVersion, removalVersion, oldest)
        /\ StillUnread(ending)
    BY <1>1 DEF RebuildInv, StillUnread
  <2> QED BY <1>1, <1>2, <2>1, RebuildGoesOn
<1>3. CASE /\ Undisturbed /\ RebuildMoves(ending)
           /\ symbolIndex' = rebuild.fresh /\ indexVersion' = indexVersion + 1
           /\ oldest' = AtLeast(oldest, rebuild.fresh)
           /\ UNCHANGED <<removalVersion, fileGenerations>>
  <2>1. \A f \in SourceFiles :
          /\ rebuild.fresh[f].hash = rebuild.fresh[f].symbols
          /\ rebuild.fresh[f].symbols # 0 =>
               /\ HomeRoot[f] = indexRoot
               /\ WasRead(f, rebuild.fresh[f].symbols, sourceText, written)
               /\ oldest[f] <= rebuild.fresh[f].symbols
    BY <1>0, <1>3 DEF IndexInv, RebuildInv, Undisturbed
  <2>2. /\ rebuild' = ending
        /\ UNCHANGED <<sources, openRoots, indexCalls, removal>>
    BY <1>3 DEF RebuildMoves
  <2>3. indexCalls' \in [Indexers -> Calls] /\ rebuild' \in Rebuilds BY <1>0, <1>1, <2>2
  <2>4. /\ TypeInv' /\ SourceInv' /\ TableInv'
        /\ Renewed(sourceText, written, sourceText', written')
        /\ MovedOn(indexVersion, fileGenerations, oldest,
                   indexVersion', fileGenerations', oldest')
        /\ RemovedOn(indexVersion, removalVersion, oldest,
                     indexVersion', removalVersion', oldest')
    BY <1>0, <1>3, <2>1, <2>2, <2>3, TablePublished
  <2>5. CallsInv'
    <3>1. ASSUME NEW c \in Indexers
          PROVE  CallInv(indexCalls[c], sourceText, written, indexVersion, fileGenerations, oldest)'
      <4>1. indexCalls'[c] = indexCalls[c] BY <2>2
      <4> QED BY <2>4, <4>1, CallRests
    <3> QED BY <3>1 DEF CallsInv
  <2>6. RebuildInv(rebuild, sourceText, written, indexVersion, removalVersion, oldest)'
        /\ StillUnread(rebuild)'
    <3>1. rebuild'.at = "ending" /\ rebuild'.fresh = Unindexed BY <1>1, <2>2
    <3> QED BY <3>1 DEF RebuildInv, StillUnread
  <2> QED BY <2>4, <2>5, <2>6 DEF IndexInv
<1> QED BY <1>2, <1>3 DEF PublishRebuild

-----------------------------------------------------------------------------
(* The theorems.                                                           *)

\* At the start the index is empty and nobody runs.
LEMMA IndexInitially == IndexInit => IndexInv
<1> SUFFICES ASSUME IndexInit PROVE IndexInv
  OBVIOUS
<1>1. AnyFile \in SourceFiles /\ [root |-> FirstRoot, generation |-> 0] \in Leases
  BY IndexAssumption DEF AnyFile, Leases
<1>2. /\ Unindexed \in Entries /\ NoGenerations \in Versions
      /\ sourceText \in Versions /\ written \in 1 .. MaxVersions
      /\ NoIndexCall \in Calls /\ NoRemoval \in Removals /\ NoRebuild \in Rebuilds
      /\ NoMove.at = "idle" /\ NoMove.from \in Leases
  <2>1. Unindexed \in Entries BY DEF Unindexed, Entries
  <2>2. NoGenerations \in Versions /\ sourceText \in Versions
    BY DEF IndexInit, NoGenerations, Versions
  <2>3. written \in 1 .. MaxVersions BY IndexAssumption DEF IndexInit
  <2>4. NoIndexCall \in Calls BY <1>1 DEF NoIndexCall, Calls
  <2>5. NoRemoval \in Removals BY <1>1 DEF NoRemoval, Removals
  <2>6. NoRebuild \in Rebuilds BY <2>1, IndexAssumption, RebuildsBegin
  <2>7. NoMove.at = "idle" /\ NoMove.from \in Leases BY <1>1 DEF NoMove
  <2> QED BY <2>1, <2>2, <2>3, <2>4, <2>5, <2>6, <2>7
<1>3. TypeInv
  <2>1. openWorkspace \in Leases /\ indexRoot \in SourceRoots
    BY IndexAssumption DEF IndexInit, Leases
  <2>2. projectMove \in [at : {"idle", "context", "symbolIndex", "undone"}, from : Leases]
    BY <1>1 DEF IndexInit, NoMove
  <2> QED BY <1>2, <2>1, <2>2 DEF IndexInit, TypeInv
<1>4. SourceInv /\ TableInv
  <2>1. \A f \in SourceFiles :
          /\ sourceText[f] = 1 /\ deletedText[f] = 0 /\ oldest[f] = 0
          /\ fileGenerations[f] = 0 /\ symbolIndex[f].hash = 0 /\ symbolIndex[f].symbols = 0
    BY DEF IndexInit, NoGenerations, Unindexed
  <2>2. written = 1 /\ removalVersion = 0 BY DEF IndexInit
  <2> QED BY <2>1, <2>2 DEF SourceInv, TableInv
<1>5. CallsInv
  <2>1. ASSUME NEW c \in Indexers
        PROVE  CallInv(indexCalls[c], sourceText, written, indexVersion, fileGenerations, oldest)
    <3>1. indexCalls[c].at = "idle" BY DEF IndexInit, NoIndexCall
    <3> QED BY <3>1 DEF CallInv
  <2> QED BY <2>1 DEF CallsInv
<1>6. RebuildInv(rebuild, sourceText, written, indexVersion, removalVersion, oldest)
      /\ StillUnread(rebuild)
  <2>1. rebuild.at = "idle" /\ rebuild.fresh = Unindexed BY DEF IndexInit, NoRebuild
  <2> QED BY <2>1 DEF RebuildInv, StillUnread
<1> QED BY <1>3, <1>4, <1>5, <1>6 DEF IndexInv

\* No step of a caller, of the rebuild, of the switch or of a file leaves it.
LEMMA IndexStepPreserves == IndexInv /\ [IndexNext]_indexVars => IndexInv'
<1> SUFFICES ASSUME IndexInv, [IndexNext]_indexVars PROVE IndexInv'
  OBVIOUS
<1>1. ASSUME NEW f \in SourceFiles, ChangeFile(f) \/ DeleteFile(f) PROVE IndexInv'
  BY <1>1, FileSteps
<1>2. ASSUME NEW f \in SourceFiles, RemoveFile(f) PROVE IndexInv' BY <1>2, RemovalBegins
<1>3. ASSUME NEW f \in SourceFiles, ScanFile(f) PROVE IndexInv' BY <1>3, RebuildSteps
<1>4. ASSUME NEW c \in Indexers,
             \/ \E f \in SourceFiles : IndexFile(c, f)
             \/ ReadVersions(c) \/ HashFile(c) \/ ParseFile(c) \/ VerifyFile(c) \/ KeepSymbols(c)
      PROVE  IndexInv'
  BY <1>4, CallSteps
<1>5. ASSUME NEW c \in Indexers, PublishFile(c) PROVE IndexInv' BY <1>5, FilePublished
<1>6. CASE DropFile BY <1>6, RemovalEnds
<1>7. CASE EnsureIndexed \/ CaptureBase \/ EndRebuild BY <1>7, RebuildSteps
<1>8. CASE PublishRebuild BY <1>8, RebuildPublished
<1>9. CASE \/ \E r \in SourceRoots : SetContext(r)
           \/ ApplyIndexRoot \/ CommitMove \/ UndoIndexRoot \/ UndoContext
  BY <1>9, MoveSteps
<1>10. CASE UNCHANGED indexVars
  <2>1. UNCHANGED <<sourceText, written, openWorkspace, indexRoot, symbolIndex, indexVersion,
                    removalVersion, fileGenerations, indexCalls, removal, rebuild, projectMove,
                    deletedText, oldest>>
    BY <1>10 DEF indexVars
  <2>2. TypeInv' BY <2>1 DEF IndexInv, TypeInv
  <2>3. SourceInv' /\ TableInv' BY <2>1 DEF IndexInv, SourceInv, TableInv
  <2> QED BY <2>1, <2>2, <2>3, NothingMoved, CallersRest DEF IndexInv
<1> QED BY <1>1, <1>2, <1>3, <1>4, <1>5, <1>6, <1>7, <1>8, <1>9, <1>10 DEF IndexNext

\* The inductive invariant holds in every reachable state.
THEOREM IndexInvariance == IndexSpec => []IndexInv
<1>1. IndexInit => IndexInv BY IndexInitially
<1>2. IndexInv /\ [IndexNext]_indexVars => IndexInv' BY IndexStepPreserves
<1> QED BY <1>1, <1>2, PTL DEF IndexSpec

\* The types of IndexTypeOK: no version that was never written is indexed, and
\* no file was removed later than the last removal.
THEOREM IndexTypeCorrect == IndexSpec => []IndexTypeOK
<1>1. ASSUME IndexInv PROVE IndexTypeOK
  <2>1. /\ written \in Nat /\ written <= MaxVersions /\ written \in 1 .. MaxVersions
        /\ sourceText \in Versions /\ symbolIndex \in Entries /\ oldest \in Versions
    BY <1>1, IndexAssumption DEF IndexInv, TypeInv
  <2>2. sourceText \in [SourceFiles -> 0 .. MaxVersions]
    <3>1. \A f \in SourceFiles : sourceText[f] \in Nat /\ sourceText[f] <= written
      BY <1>1, <2>1 DEF IndexInv, SourceInv, Versions
    <3>2. ASSUME NEW f \in SourceFiles PROVE sourceText[f] \in 0 .. MaxVersions
      <4>1. sourceText[f] \in Nat /\ sourceText[f] <= written BY <3>1
      <4> QED BY <2>1, <4>1, IndexAssumption
    <3> QED BY <2>1, <3>2 DEF Versions
  <2>3. ASSUME NEW f \in SourceFiles
        PROVE  /\ {symbolIndex[f].hash, symbolIndex[f].symbols} \subseteq 0 .. MaxVersions
               /\ fileGenerations[f] <= removalVersion
    <3>1. /\ symbolIndex[f].symbols \in Nat
          /\ symbolIndex[f].symbols # 0 => symbolIndex[f].symbols <= written
          /\ symbolIndex[f].hash = symbolIndex[f].symbols
          /\ fileGenerations[f] <= removalVersion
      BY <1>1, <2>1 DEF IndexInv, TableInv, Entries
    <3> QED BY <2>1, <3>1, IndexAssumption
  <2>4. openWorkspace.root \in SourceRoots /\ indexRoot \in SourceRoots
    BY <1>1 DEF IndexInv, TypeInv, Leases
  <2>5. /\ \A c \in Indexers : indexCalls[c].at \in
             {"idle", "begun", "based", "same", "hashed", "parsed", "verified"}
        /\ removal.at \in {"idle", "begun"}
        /\ rebuild.at \in {"idle", "begun", "scanning", "ending"}
        /\ projectMove.at \in {"idle", "context", "symbolIndex", "undone"}
    <3>1. \A c \in Indexers : indexCalls[c] \in Calls BY <1>1 DEF IndexInv, TypeInv
    <3> QED BY <1>1, <3>1 DEF IndexInv, TypeInv, Calls, Removals, Rebuilds
  <2> QED BY <2>1, <2>2, <2>3, <2>4, <2>5 DEF IndexTypeOK
<1> QED BY <1>1, IndexInvariance, PTL

\* The index never holds a file of another workspace, symbols of another
\* content than its hash, or a version that was replaced or reported deleted.
THEOREM NoGhosts == IndexSpec => []NoGhostSymbols
<1>1. ASSUME IndexInv PROVE NoGhostSymbols
  <2>1. oldest \in Versions BY <1>1 DEF IndexInv, TypeInv
  <2> QED BY <1>1, <2>1 DEF IndexInv, TableInv, NoGhostSymbols, Versions
<1> QED BY <1>1, IndexInvariance, PTL

-----------------------------------------------------------------------------
(* The servers of the Model Context Protocol: the inductive invariant.     *)

Connecting ==
    [at : {"new", "leased", "starting", "started", "failing", "done"},
     server : Servers \cup {NoClient}, version : 0 .. MaxEndpoints,
     lease : Identity \cup {NoClient}, rootGeneration : Nat]

Requesting ==
    [at : {"new", "approved", "leased", "waiting", "delivered", "refused"},
     kind : {"none", "tool", "read"}, server : Servers \cup {NoClient},
     lease : Identity \cup {NoClient}, rootGeneration : Nat,
     lifecycleGeneration : Nat, client : Connects \cup {NoClient}]

Switching ==
    [at : {"idle", "set", "following", "followed", "undo", "undoing", "restore"},
     target : Roots, prior : Identity, followed : Roots]

ServiceTypes ==
    /\ MCPTypeOK
    /\ rootGeneration \in Nat /\ lifecycleGeneration \in Nat /\ closed \in BOOLEAN
    /\ connect \in [Connects -> Connecting]
    /\ mcpRequest \in [Requests -> Requesting]
    /\ switching \in Switching

\* Who changes the transports stops what it took out of the map; while that is
\* the switch, no server is enabled and none is installed.
LifecycleInv ==
    /\ lifecycleMu = Nobody => stopping = {}
    /\ lifecycleMu = Switcher =>
          /\ switching.at \in {"following", "undoing"}
          /\ \A s \in Servers : clients[s] = NoClient /\ config[s].state # "enabled"

\* The process of a connect that is over has an owner.
ProcessInv ==
    /\ \A c \in Connects :
          /\ connect[c].at \in {"new", "leased", "starting"} => process[c] = "none"
          /\ c \in stopping => connect[c].at = "done"
          /\ InConnect(c) => connect[c].server \in Servers
          /\ process[c] = "live" => c \in Installed \cup stopping \/ InConnect(c)
    /\ \A s \in Servers : clients[s] # NoClient =>
          /\ connect[clients[s]].at = "done"
          /\ config[s].state = "enabled"
          /\ config[s].version = connect[clients[s]].version
          /\ connect[clients[s]].lease.root = rootDir
          /\ connect[clients[s]].rootGeneration = rootGeneration
          /\ ~closed

\* Nothing of the service is left once Close has returned.
ClosedInv ==
    CloseReturned =>
       /\ stopping = {}
       /\ \A c \in Connects : ~InConnect(c)
       /\ \A q \in Requests : mcpRequest[q].at = "waiting" => mcpRequest[q].kind = "read"

\* No switch moves the workspace of a tool call; ...
ToolCallInv(q) ==
    InToolCall(q) =>
       /\ switching.at = "idle" /\ workspace.root = rootDir
       /\ mcpRequest[q].lease = workspace
       /\ mcpRequest[q].at = "waiting" =>
             /\ mcpRequest[q].client \in Connects
             /\ connect[mcpRequest[q].client].at = "done"
             /\ connect[mcpRequest[q].client].lease.root = rootDir

\* ... a read finds out, because what moves it has a generation of its own.
ReadInv(q) ==
    /\ mcpRequest[q].lifecycleGeneration <= lifecycleGeneration
    /\ mcpRequest[q].at \in {"approved", "leased", "waiting"} =>
          mcpRequest[q].kind # "none" /\ mcpRequest[q].server \in Servers
    /\ mcpRequest[q].kind = "read" /\ mcpRequest[q].lifecycleGeneration = lifecycleGeneration =>
          /\ mcpRequest[q].at \in {"leased", "waiting"} => mcpRequest[q].lease.root = rootDir
          /\ mcpRequest[q].at = "waiting" => mcpRequest[q].client \in Installed

RequestsInv == \A q \in Requests : ToolCallInv(q) /\ ReadInv(q)

ServiceInv == ServiceTypes /\ LifecycleInv /\ ProcessInv /\ ClosedInv /\ RequestsInv

Invs == ProcessInv /\ ClosedInv /\ RequestsInv

-----------------------------------------------------------------------------
(* Steps.                                                                  *)

\* Whoever changes the transports detaches every client whose server changes,
\* and takes it over to stop it; whatever was read before is out of date.
LEMMA CommitStep ==
    ASSUME ServiceInv, NEW w \in Writers \cup {Switcher, Closer},
           NEW gone \in SUBSET Servers,
           lifecycleMu = Nobody, clients' = Without(gone), CommitConfig(w, Detached(gone)),
           UNCHANGED <<workspace, process, connect, mcpRequest, switching>>,
           \/ rootDir' = rootDir /\ rootGeneration' = rootGeneration
           \/ gone = Servers /\ switching.at # "idle",
           \/ closed' = closed
           \/ gone = Servers /\ closed' = TRUE /\ w = Closer,
           \A s \in Servers \ gone : clients[s] # NoClient =>
              /\ config'[s].state \in {config[s].state, "enabled"}
              /\ config'[s].version = config[s].version
    PROVE  Invs'
<1> USE DEF ServiceInv
<1>1. /\ clients \in [Servers -> Connects \cup {NoClient}]
      /\ clients' = [s \in Servers |-> IF s \in gone THEN NoClient ELSE clients[s]]
      /\ stopping' = {clients[s] : s \in gone} \ {NoClient} /\ stopping = {}
      /\ lifecycleMu' = w /\ w # Nobody
  BY MCPAssumption DEF Without, CommitConfig, Detached, LifecycleInv, ServiceTypes, MCPTypeOK
<1>2. lifecycleGeneration' = lifecycleGeneration + 1 /\ lifecycleGeneration \in Nat
  BY DEF CommitConfig, ServiceTypes
<1>3. ProcessInv'
  <2>1. ASSUME NEW c \in Connects
        PROVE  /\ connect'[c].at \in {"new", "leased", "starting"} => process'[c] = "none"
               /\ c \in stopping' => connect'[c].at = "done"
               /\ InConnect(c)' => connect'[c].server \in Servers
               /\ process'[c] = "live" =>
                     c \in Installed' \cup stopping' \/ InConnect(c)'
    <3>1. c \in Installed => c \in Installed' \cup stopping'
      <4>1. SUFFICES ASSUME NEW s \in Servers, c = clients[s], c # NoClient
                     PROVE  c \in Installed' \cup stopping'
        BY DEF Installed
      <4>2. CASE s \in gone
        BY <1>1, <4>1, <4>2
      <4>3. CASE s \notin gone
        <5>1. clients'[s] = c
          BY <1>1, <4>1, <4>3
        <5> QED
          BY <5>1, <4>1 DEF Installed
      <4> QED
        BY <4>2, <4>3
    <3> QED
      BY <1>1, <3>1 DEF ProcessInv, InConnect
  <2>2. ASSUME NEW s \in Servers, clients'[s] # NoClient
        PROVE  /\ connect'[clients'[s]].at = "done"
               /\ config'[s].state = "enabled"
               /\ config'[s].version = connect'[clients'[s]].version
               /\ connect'[clients'[s]].lease.root = rootDir'
               /\ connect'[clients'[s]].rootGeneration = rootGeneration'
               /\ ~closed'
    <3>1. s \notin gone /\ clients'[s] = clients[s]
      BY <1>1, <2>2
    <3>2. /\ rootDir' = rootDir /\ rootGeneration' = rootGeneration /\ closed' = closed
          /\ config'[s].state \in {config[s].state, "enabled"}
          /\ config'[s].version = config[s].version
      BY <3>1, <2>2
    <3> QED
      BY <3>1, <3>2, <2>2 DEF ProcessInv
  <2> QED
    BY <2>1, <2>2 DEF ProcessInv
<1>4. ClosedInv'
  <2>1. SUFFICES ASSUME closed', w # Closer
                 PROVE  /\ stopping' = {} /\ \A c \in Connects : ~InConnect(c)'
                        /\ \A q \in Requests :
                              mcpRequest'[q].at = "waiting" => mcpRequest'[q].kind = "read"
    BY <1>1 DEF ClosedInv, CloseReturned
  <2>2. closed /\ lifecycleMu # Closer
    BY <2>1, MCPAssumption
  <2>3. \A s \in Servers : clients[s] = NoClient
    BY <2>2 DEF ProcessInv
  <2>4. stopping' = {}
    BY <1>1, <2>3
  <2> QED
    BY <2>2, <2>4 DEF ClosedInv, CloseReturned, InConnect
<1>5. RequestsInv'
  <2>1. ASSUME NEW q \in Requests
        PROVE  ToolCallInv(q)'
    <3>1. ToolCallInv(q)
      BY DEF RequestsInv
    <3>2. InToolCall(q) => rootDir' = rootDir
      BY <3>1 DEF ToolCallInv
    <3> QED
      BY <3>1, <3>2 DEF ToolCallInv, InToolCall
  <2>2. ASSUME NEW q \in Requests
        PROVE  ReadInv(q)'
    <3>1. mcpRequest[q].lifecycleGeneration \in Nat
      BY DEF ServiceTypes, Requesting
    <3>2. ReadInv(q)
      BY DEF RequestsInv
    <3> QED
      BY <1>2, <3>1, <3>2 DEF ReadInv
  <2> QED
    BY <2>1, <2>2 DEF RequestsInv
<1> QED
  BY <1>3, <1>4, <1>5 DEF Invs

\* A change of the configuration, of one server.
LEMMA ConfigStep ==
    ASSUME ServiceInv, NEW w \in Writers, NEW s \in Servers,
           \/ \E edition \in 1 .. MaxEndpoints : SaveServer(w, s, edition)
           \/ \E enabled \in BOOLEAN : SetServerEnabled(w, s, enabled)
           \/ DeleteServer(w, s) \/ DisconnectServer(w, s)
    PROVE  ServiceInv'
<1> USE DEF ServiceInv
<1>1. /\ lifecycleMu = Nobody
      /\ UNCHANGED <<workspace, process, connect, mcpRequest, switching, closed,
                     rootDir, rootGeneration>>
  BY DEF SaveServer, SetServerEnabled, DeleteServer, DisconnectServer, HasSlot, elsewhere
<1>2. /\ clients \in [Servers -> Connects \cup {NoClient}]
      /\ config \in [Servers -> [state : {"absent", "disabled", "enabled"},
                                 version : 1 .. MaxEndpoints]]
  BY DEF ServiceTypes, MCPTypeOK
<1>3. \E out \in SUBSET {s} :
         /\ clients' = Without(out) /\ CommitConfig(w, Detached(out))
         /\ config' \in [Servers -> [state : {"absent", "disabled", "enabled"},
                                     version : 1 .. MaxEndpoints]]
         /\ \A t \in Servers \ out : clients[t] # NoClient =>
               /\ config'[t].state \in {config[t].state, "enabled"}
               /\ config'[t].version = config[t].version
  <2>1. CASE \E edition \in 1 .. MaxEndpoints : SaveServer(w, s, edition)
    <3>1. PICK edition \in 1 .. MaxEndpoints : SaveServer(w, s, edition)
      BY <2>1
    <3> DEFINE known == config[s].state # "absent"
               changed == known /\ config[s].version # edition
               state == IF known /\ ~changed THEN config[s].state ELSE "disabled"
               out == IF changed THEN {s} ELSE {}
    <3>2. /\ config' = [config EXCEPT ![s] = [state |-> state, version |-> edition]]
          /\ clients' = Without(out) /\ CommitConfig(w, Detached(out))
      BY <3>1 DEF SaveServer
    <3>3. state \in {"absent", "disabled", "enabled"}
      BY <1>2
    <3>4. config' \in [Servers -> [state : {"absent", "disabled", "enabled"},
                                   version : 1 .. MaxEndpoints]]
      BY <3>2, <3>3, <1>2
    <3>5. ASSUME NEW t \in Servers \ out, clients[t] # NoClient
          PROVE  config'[t].state = config[t].state /\ config'[t].version = config[t].version
      <4>1. CASE t # s
        BY <4>1, <3>2, <1>2
      <4>2. CASE t = s
        <5>1. config[s].state = "enabled"
          BY <3>5, <4>2 DEF ProcessInv
        <5> QED
          BY <5>1, <4>2, <3>2, <3>5, <1>2
      <4> QED
        BY <4>1, <4>2
    <3> QED
      BY <3>2, <3>4, <3>5
  <2>2. CASE \E enabled \in BOOLEAN : SetServerEnabled(w, s, enabled)
    <3>1. PICK enabled \in BOOLEAN : SetServerEnabled(w, s, enabled)
      BY <2>2
    <3> DEFINE out == IF enabled THEN {} ELSE {s}
    <3>2. /\ config' = [config EXCEPT ![s].state = IF enabled THEN "enabled" ELSE "disabled"]
          /\ clients' = Without(out) /\ CommitConfig(w, Detached(out))
      BY <3>1 DEF SetServerEnabled
    <3> QED
      BY <3>2, <1>2
  <2>3. CASE DeleteServer(w, s)
    BY <2>3, <1>2 DEF DeleteServer
  <2>4. CASE DisconnectServer(w, s)
    BY <2>4, <1>2 DEF DisconnectServer
  <2> QED
    BY <2>1, <2>2, <2>3, <2>4
<1>4. PICK out \in SUBSET {s} :
         /\ clients' = Without(out) /\ CommitConfig(w, Detached(out))
         /\ config' \in [Servers -> [state : {"absent", "disabled", "enabled"},
                                     version : 1 .. MaxEndpoints]]
         /\ \A t \in Servers \ out : clients[t] # NoClient =>
               /\ config'[t].state \in {config[t].state, "enabled"}
               /\ config'[t].version = config[t].version
  BY <1>3
<1>5. Invs'
  BY <1>1, <1>4, CommitStep
<1>6. ServiceTypes' /\ LifecycleInv'
  BY <1>1, <1>2, <1>4, MCPAssumption
  DEF ServiceTypes, MCPTypeOK, LifecycleInv, CommitConfig, Without, Detached, Identity
<1> QED
  BY <1>5, <1>6 DEF Invs

\* The service follows the workspace, or is closed.
LEMMA ReplacementStep ==
    ASSUME ServiceInv, ApplyWorkspaceRoot \/ Close
    PROVE  ServiceInv'
<1> USE DEF ServiceInv
<1>1. Installed = Detached(Servers)
  BY DEF Installed, Detached
<1>2. CASE ApplyWorkspaceRoot
  <2>1. Invs'
    BY <1>1, <1>2, CommitStep DEF ApplyWorkspaceRoot, HasSlot
  <2>2. FollowTarget \in Roots
    BY DEF FollowTarget, ServiceTypes, Switching
  <2>3. config' \in [Servers -> [state : {"absent", "disabled", "enabled"},
                                 version : 1 .. MaxEndpoints]]
    BY <1>2 DEF ApplyWorkspaceRoot, ServiceTypes, MCPTypeOK
  <2>4. ServiceTypes'
    BY <1>2, <2>2, <2>3
    DEF ApplyWorkspaceRoot, CommitConfig, Without, Installed, ServiceTypes, MCPTypeOK, Identity
  <2>5. LifecycleInv'
    BY <1>2, MCPAssumption
    DEF ApplyWorkspaceRoot, CommitConfig, Without, LifecycleInv, ServiceTypes, MCPTypeOK
  <2> QED
    BY <2>1, <2>4, <2>5 DEF Invs
<1>3. CASE Close
  <2>1. Invs'
    BY <1>1, <1>3, CommitStep DEF Close
  <2>2. ServiceTypes'
    BY <1>3 DEF Close, CommitConfig, Without, Installed, ServiceTypes, MCPTypeOK, Identity
  <2>3. LifecycleInv'
    BY <1>3, MCPAssumption DEF Close, CommitConfig, LifecycleInv
  <2> QED
    BY <2>1, <2>2, <2>3 DEF Invs
<1> QED
  BY <1>2, <1>3

\* The steps that stop clients and free the exclusion, and the switch around them.
LEMMA SwitchStep ==
    ASSUME ServiceInv,
           \/ \E w \in Writers : ReserveSlot(w) \/ Refuse(w) \/ LeaveSlot(w)
           \/ \E root \in Roots : SetWorkspace(root)
           \/ FollowWorkspace \/ AlreadyThere \/ Followed \/ FinishSwitch
           \/ SetterFails \/ RestoreSnapshot \/ CloseReturns
    PROVE  ServiceInv'
<1> USE DEF ServiceInv
<1>1. /\ UNCHANGED <<authority, closed, process, connect, mcpRequest>>
      /\ stopping' = stopping
      /\ lifecycleMu' = lifecycleMu \/ (lifecycleMu' = Nobody /\ stopping = {})
  BY DEF ReserveSlot, Refuse, LeaveSlot, SetWorkspace, FollowWorkspace, AlreadyThere, Followed,
         FinishSwitch, SetterFails, RestoreSnapshot, CloseReturns, ReserveConfigWrite,
         GiveUpSlot, Leave, authority, exclusion, elsewhere
<1>2. \/ UNCHANGED <<workspace, switching>>
      \/ \A q \in Requests : ~InToolCall(q)
  <2>1. CASE \E w \in Writers : ReserveSlot(w) \/ Refuse(w) \/ LeaveSlot(w)
    BY <2>1 DEF ReserveSlot, Refuse, LeaveSlot, elsewhere
  <2>2. CASE \E root \in Roots : SetWorkspace(root)
    BY <2>2 DEF SetWorkspace
  <2>3. CASE CloseReturns
    BY <2>3 DEF CloseReturns, elsewhere
  <2>4. CASE FollowWorkspace \/ AlreadyThere \/ Followed \/ FinishSwitch
             \/ SetterFails \/ RestoreSnapshot
    <3>1. switching.at # "idle"
      BY <2>4 DEF FollowWorkspace, AlreadyThere, Followed, FinishSwitch, SetterFails,
                  RestoreSnapshot, Leave, LifecycleInv
    <3> QED
      BY <3>1 DEF RequestsInv, ToolCallInv
  <2> QED
    BY <2>1, <2>2, <2>3, <2>4
<1>3. workspace' \in Identity /\ switching' \in Switching
  <2>1. workspace \in Identity /\ switching \in Switching /\ rootDir \in Roots
    BY DEF ServiceTypes, MCPTypeOK
  <2>2. CASE \E root \in Roots : SetWorkspace(root)
    BY <2>1, <2>2 DEF SetWorkspace, Switching, Identity
  <2>3. CASE RestoreSnapshot
    BY <2>1, <2>3 DEF RestoreSnapshot, Switching
  <2>4. CASE FollowWorkspace \/ AlreadyThere \/ Followed \/ FinishSwitch \/ SetterFails
    BY <2>1, <2>4
    DEF FollowWorkspace, AlreadyThere, Followed, FinishSwitch, SetterFails, Proceed, Switching
  <2>5. CASE UNCHANGED <<workspace, switching>>
    BY <2>1, <2>5
  <2> QED
    BY <2>2, <2>3, <2>4, <2>5 DEF ReserveSlot, Refuse, LeaveSlot, CloseReturns, elsewhere
<1>4. ServiceTypes'
  BY <1>1, <1>3 DEF ServiceTypes, MCPTypeOK, authority
<1>5. lifecycleMu' = Switcher => switching'.at \in {"following", "undoing"}
  <2>1. lifecycleMu' = Switcher => lifecycleMu = Switcher
    BY <1>1, MCPAssumption
  <2> QED
    BY <2>1, MCPAssumption
    DEF LifecycleInv, ReserveSlot, Refuse, LeaveSlot, SetWorkspace, FollowWorkspace,
        AlreadyThere, Followed, FinishSwitch, SetterFails, RestoreSnapshot, CloseReturns,
        ReserveConfigWrite, GiveUpSlot, HasSlot, Leave, elsewhere, exclusion
<1>6. LifecycleInv'
  BY <1>1, <1>5, MCPAssumption DEF LifecycleInv, authority
<1>7. ProcessInv'
  BY <1>1 DEF ProcessInv, Installed, InConnect, authority
<1>8. ClosedInv'
  <2>1. CASE CloseReturns
    <3>1. \A q \in Requests :
             mcpRequest[q].at = "waiting" => mcpRequest[q].kind \in {"tool", "read"}
      BY DEF RequestsInv, ReadInv, ServiceTypes, Requesting
    <3> QED
      BY <2>1, <1>1, <3>1 DEF CloseReturns, Leave, ClosedInv, InConnect
  <2>2. CASE ~CloseReturns
    <3>1. lifecycleMu' = Closer \/ lifecycleMu # Closer
      BY <2>2, MCPAssumption
      DEF ReserveSlot, Refuse, LeaveSlot, SetWorkspace, FollowWorkspace, AlreadyThere, Followed,
          FinishSwitch, SetterFails, RestoreSnapshot, ReserveConfigWrite, GiveUpSlot, Leave,
          exclusion
    <3> QED
      BY <3>1, <1>1 DEF ClosedInv, CloseReturned, InConnect
  <2> QED
    BY <2>1, <2>2
<1>9. RequestsInv'
  BY <1>1, <1>2 DEF RequestsInv, ToolCallInv, ReadInv, InToolCall, Installed, authority
<1> QED
  BY <1>4, <1>6, <1>7, <1>8, <1>9

\* A client that is stopped, and a stop that fails.
LEMMA StopStep ==
    ASSUME ServiceInv, StopFailed \/ \E c \in Connects : Stop(c)
    PROVE  ServiceInv'
<1> USE DEF ServiceInv
<1>1. CASE \E c \in Connects : Stop(c)
  <2>1. PICK c \in Connects : Stop(c)
    BY <1>1
  <2>2. ServiceTypes'
    BY <2>1 DEF Stop, ServiceTypes, MCPTypeOK, authority
  <2>3. LifecycleInv'
    BY <2>1 DEF Stop, LifecycleInv, authority
  <2>4. ProcessInv'
    <3>1. process \in [Connects -> {"none", "live", "ended"}]
      BY DEF ServiceTypes, MCPTypeOK
    <3>2. ASSUME NEW d \in Connects
          PROVE  /\ connect'[d].at \in {"new", "leased", "starting"} => process'[d] = "none"
                 /\ d \in stopping' => connect'[d].at = "done"
                 /\ InConnect(d)' => connect'[d].server \in Servers
                 /\ process'[d] = "live" =>
                       d \in Installed' \cup stopping' \/ InConnect(d)'
      <4>1. CASE d = c
        <5>1. c \in stopping
          BY <2>1 DEF Stop
        <5> QED
          BY <5>1, <4>1, <3>1, <2>1 DEF Stop, ProcessInv, InConnect
      <4>2. CASE d # c
        BY <4>2, <3>1, <2>1 DEF Stop, ProcessInv, InConnect, Installed, authority
      <4> QED
        BY <4>1, <4>2
    <3> QED
      BY <3>2, <2>1 DEF Stop, ProcessInv, authority
  <2>5. ClosedInv'
    BY <2>1 DEF Stop, ClosedInv, CloseReturned, InConnect
  <2>6. RequestsInv'
    BY <2>1 DEF Stop, RequestsInv, ToolCallInv, ReadInv, InToolCall, Installed, authority
  <2> QED
    BY <2>2, <2>3, <2>4, <2>5, <2>6
<1>2. CASE StopFailed
  <2>1. /\ lifecycleMu = Switcher /\ lifecycleMu' = Nobody /\ stopping = {} /\ stopping' = {}
        /\ UNCHANGED <<workspace, config, clients, closed, process, connect, mcpRequest>>
        /\ rootGeneration' = rootGeneration + 1
        /\ lifecycleGeneration' = lifecycleGeneration + 1
        /\ rootDir' \in {switching.followed, switching.target}
    BY <1>2 DEF StopFailed, Leave
  <2>2. \A s \in Servers : clients[s] = NoClient
    BY <2>1 DEF LifecycleInv
  <2>3. ServiceTypes'
    <3>1. switching' \in Switching
      BY <1>2 DEF StopFailed, ServiceTypes, Switching
    <3> QED
      BY <2>1, <3>1 DEF ServiceTypes, MCPTypeOK, Switching
  <2>4. LifecycleInv'
    BY <2>1, MCPAssumption DEF LifecycleInv
  <2>5. ProcessInv'
    BY <2>1, <2>2 DEF ProcessInv, Installed, InConnect
  <2>6. ClosedInv'
    BY <2>1, MCPAssumption DEF ClosedInv, CloseReturned, InConnect
  <2>7. RequestsInv'
    <3>1. switching.at # "idle"
      BY <2>1 DEF LifecycleInv
    <3>2. \A q \in Requests : ~InToolCall(q)
      BY <3>1 DEF RequestsInv, ToolCallInv
    <3>3. \A q \in Requests : ToolCallInv(q)'
      BY <3>2, <2>1 DEF ToolCallInv, InToolCall
    <3>4. \A q \in Requests : ReadInv(q)'
      <4>1. TAKE q \in Requests
      <4>2. mcpRequest[q].lifecycleGeneration \in Nat /\ lifecycleGeneration \in Nat
        BY DEF ServiceTypes, Requesting
      <4>3. ReadInv(q)
        BY DEF RequestsInv
      <4> QED
        BY <4>2, <4>3, <2>1 DEF ReadInv
    <3> QED
      BY <3>3, <3>4 DEF RequestsInv
  <2> QED
    BY <2>3, <2>4, <2>5, <2>6, <2>7
<1> QED
  BY <1>1, <1>2

\* A connect moves by itself, and touches a client that nobody has yet.
LEMMA ConnectStep ==
    ASSUME ServiceInv, NEW c \in Connects,
           \/ AcquireLease(c) \/ StartServer(c) \/ NotStarted(c)
           \/ RejectClient(c) \/ StopRejected(c)
           \/ \E s \in Servers : AdmitConnect(c, s)
    PROVE  ServiceInv'
<1> USE DEF ServiceInv
<1>1. /\ UNCHANGED <<lifecycleGeneration, clients, workspace, rootDir, rootGeneration, config,
                     closed, lifecycleMu, stopping, mcpRequest, switching>>
      /\ connect \in [Connects -> Connecting]
      /\ process \in [Connects -> {"none", "live", "ended"}]
  BY DEF AcquireLease, StartServer, NotStarted, RejectClient, StopRejected, AdmitConnect,
         quiet, exclusion, ServiceTypes, MCPTypeOK
<1>2. /\ connect' \in [Connects -> Connecting]
      /\ process' \in [Connects -> {"none", "live", "ended"}]
  <2>1. workspace \in Identity /\ rootGeneration \in Nat
        /\ \A s \in Servers : config[s].version \in 0 .. MaxEndpoints
    BY MCPAssumption DEF ServiceTypes, MCPTypeOK
  <2>2. [NewConnect EXCEPT !.at = "done"] \in Connecting
    BY MCPAssumption DEF NewConnect, Connecting
  <2>3. CASE AcquireLease(c)
    <3> DEFINE old == connect[c]
               new == [old EXCEPT !.at = "leased", !.lease = workspace,
                                  !.rootGeneration = rootGeneration]
    <3>1. connect' = [connect EXCEPT ![c] = new] /\ process' = process
      BY <2>3, <1>1 DEF AcquireLease, quiet
    <3>2. old \in Connecting
      BY <1>1
    <3> HIDE DEF old
    <3>3. new \in Connecting
      BY <2>1, <3>2 DEF Connecting
    <3> HIDE DEF new
    <3> QED
      BY <1>1, <3>1, <3>3
  <2>4. CASE \E s \in Servers : AdmitConnect(c, s)
    <3>1. PICK s \in Servers : AdmitConnect(c, s)
      BY <2>4
    <3>2. connect' = [connect EXCEPT ![c] = [connect[c] EXCEPT !.at = "starting", !.server = s,
                                                             !.version = config[s].version]]
      BY <3>1 DEF AdmitConnect
    <3>3. config[s].version \in 0 .. MaxEndpoints /\ connect[c] \in Connecting
      BY <2>1, <1>1
    <3>4. [connect[c] EXCEPT !.at = "starting", !.server = s, !.version = config[s].version]
             \in Connecting
      BY <3>3 DEF Connecting
    <3>5. process' = process
      BY <3>1 DEF AdmitConnect
    <3> QED
      BY <3>2, <3>4, <3>5, <1>1
  <2>5. CASE StartServer(c) \/ RejectClient(c)
    BY <2>5, <1>1 DEF StartServer, RejectClient, ConnectGoes, Connecting
  <2>6. CASE NotStarted(c) \/ StopRejected(c)
    BY <2>2, <2>6, <1>1 DEF NotStarted, StopRejected, ConnectFails
  <2> QED
    BY <2>3, <2>4, <2>5, <2>6
<1>3. /\ connect[c].at # "done"
      /\ \A d \in Connects \ {c} : connect'[d] = connect[d] /\ process'[d] = process[d]
  BY <1>1 DEF AcquireLease, StartServer, NotStarted, RejectClient, StopRejected, AdmitConnect,
              ConnectGoes, ConnectFails
<1>4. /\ connect'[c].at \in {"new", "leased", "starting"} => process'[c] = "none"
      /\ InConnect(c)' => connect'[c].server \in Servers
      /\ process'[c] = "live" => InConnect(c)'
  <2>1. ProcessInv
    OBVIOUS
  <2>2. CASE AcquireLease(c)
    BY <2>1, <2>2, <1>1, <1>2 DEF AcquireLease, ProcessInv, InConnect, Connecting
  <2>3. CASE \E s \in Servers : AdmitConnect(c, s)
    <3>1. PICK s \in Servers : AdmitConnect(c, s)
      BY <2>3
    <3>2. connect'[c] = [connect[c] EXCEPT !.at = "starting", !.server = s,
                                           !.version = config[s].version]
      BY <3>1, <1>1 DEF AdmitConnect
    <3>3. connect'[c].at = "starting" /\ connect'[c].server = s
      BY <3>2, <1>1 DEF Connecting
    <3>4. process[c] = "none" /\ process' = process
      BY <2>1, <3>1 DEF AdmitConnect, ProcessInv
    <3> QED
      BY <3>3, <3>4
  <2>4. CASE StartServer(c)
    BY <2>1, <2>4, <1>1 DEF StartServer, ConnectGoes, InConnect, ProcessInv, Connecting
  <2>5. CASE RejectClient(c)
    BY <2>1, <2>5, <1>1 DEF RejectClient, ConnectGoes, InConnect, ProcessInv, Connecting
  <2>6. CASE NotStarted(c) \/ StopRejected(c)
    <3>1. connect'[c].at = "done"
      BY <2>6, <1>1 DEF NotStarted, StopRejected, ConnectFails, NewConnect
    <3>2. process'[c] # "live"
      BY <2>1, <2>6, <1>1 DEF NotStarted, StopRejected, ProcessInv
    <3> QED
      BY <3>1, <3>2 DEF InConnect
  <2> QED
    BY <2>2, <2>3, <2>4, <2>5, <2>6
<1>5. ServiceTypes' /\ LifecycleInv'
  BY <1>1, <1>2 DEF ServiceTypes, MCPTypeOK, LifecycleInv
<1>6. ProcessInv'
  <2>1. c \notin stopping /\ \A s \in Servers : clients[s] # c
    BY <1>3, MCPAssumption DEF ProcessInv
  <2>2. ASSUME NEW d \in Connects
        PROVE  /\ connect'[d].at \in {"new", "leased", "starting"} => process'[d] = "none"
               /\ d \in stopping' => connect'[d].at = "done"
               /\ InConnect(d)' => connect'[d].server \in Servers
               /\ process'[d] = "live" =>
                     d \in Installed' \cup stopping' \/ InConnect(d)'
    <3>1. CASE d = c
      BY <1>1, <1>4, <2>1, <3>1
    <3>2. CASE d # c
      BY <1>1, <1>3, <3>2 DEF ProcessInv, InConnect, Installed
    <3> QED
      BY <3>1, <3>2
  <2>3. ASSUME NEW s \in Servers, clients[s] # NoClient
        PROVE  connect'[clients[s]] = connect[clients[s]]
    BY <1>3, <2>1, <2>3 DEF ServiceTypes, MCPTypeOK
  <2> QED
    BY <1>1, <2>2, <2>3 DEF ProcessInv
<1>7. ClosedInv'
  <2>1. ASSUME CloseReturned
        PROVE  ~InConnect(c)'
    <3>1. connect[c].at \in {"new", "leased"} /\ closed
      BY <2>1, <1>1, <1>3 DEF ClosedInv, CloseReturned, InConnect, Connecting
    <3> QED
      BY <3>1, <1>1, <1>2
      DEF AcquireLease, StartServer, NotStarted, RejectClient, StopRejected, AdmitConnect,
          InConnect, Connecting
  <2> QED
    BY <2>1, <1>1, <1>3 DEF ClosedInv, CloseReturned, InConnect
<1>8. RequestsInv'
  <2>1. ASSUME NEW q \in Requests
        PROVE  ToolCallInv(q)'
    <3>1. ToolCallInv(q)
      BY DEF RequestsInv
    <3> QED
      BY <3>1, <1>1, <1>3 DEF ToolCallInv, InToolCall
  <2> QED
    BY <2>1, <1>1 DEF RequestsInv, ReadInv, Installed
<1> QED
  BY <1>5, <1>6, <1>7, <1>8

\* The final checks of a connect are enough to install its client.
LEMMA InstallStep ==
    ASSUME ServiceInv, NEW c \in Connects, Install(c)
    PROVE  ServiceInv'
<1> USE DEF ServiceInv
<1> DEFINE s == connect[c].server
<1>1. /\ UNCHANGED <<workspace, rootDir, rootGeneration, config, closed, lifecycleMu, stopping,
                     process, mcpRequest, switching>>
      /\ connect[c].at = "started" /\ ~closed
      /\ connect[c].rootGeneration = rootGeneration /\ connect[c].lease.root = rootDir
      /\ config[s].state = "enabled" /\ config[s].version = connect[c].version
      /\ lifecycleGeneration' = lifecycleGeneration + 1
      /\ clients' = [clients EXCEPT ![s] = c]
      /\ connect' = [connect EXCEPT ![c].at = "done"]
      /\ clients[s] = NoClient
  BY DEF Install, StillAuthorized, ConnectGoes, quiet, exclusion
<1>2. /\ connect \in [Connects -> Connecting]
      /\ clients \in [Servers -> Connects \cup {NoClient}]
      /\ lifecycleGeneration \in Nat
  BY DEF ServiceTypes, MCPTypeOK
<1>3. /\ connect' \in [Connects -> Connecting]
      /\ connect'[c] = [connect[c] EXCEPT !.at = "done"]
      /\ \A d \in Connects \ {c} : connect'[d] = connect[d]
  BY <1>1, <1>2 DEF Connecting
<1>0. s \in Servers
  BY <1>1 DEF ProcessInv, InConnect
<1> HIDE DEF s
<1>4. ServiceTypes'
  <2>1. clients' = [clients EXCEPT ![s] = c]
    BY <1>1
  <2>2. clients' \in [Servers -> Connects \cup {NoClient}]
    BY <2>1, <1>2
  <2>3. lifecycleGeneration' \in Nat
    BY <1>1, <1>2
  <2> QED
    BY <1>1, <1>3, <2>2, <2>3 DEF ServiceTypes, MCPTypeOK
<1>5. lifecycleMu # Switcher
  BY <1>0, <1>1 DEF LifecycleInv
<1>6. LifecycleInv'
  BY <1>1, <1>5 DEF LifecycleInv
<1>7. ProcessInv'
  <2>1. ASSUME NEW d \in Connects
        PROVE  /\ connect'[d].at \in {"new", "leased", "starting"} => process'[d] = "none"
               /\ d \in stopping' => connect'[d].at = "done"
               /\ InConnect(d)' => connect'[d].server \in Servers
               /\ process'[d] = "live" =>
                     d \in Installed' \cup stopping' \/ InConnect(d)'
    <3>1. CASE d = c
      <4>1. connect'[c].at = "done" /\ c \in Installed'
        BY <1>0, <1>1, <1>2, <1>3, MCPAssumption DEF Installed, Connecting
      <4> QED
        BY <3>1, <4>1 DEF InConnect
    <3>2. CASE d # c
      <4>1. d \in Installed => d \in Installed'
        BY <3>2, <1>1, <1>2 DEF Installed
      <4> QED
        BY <3>2, <4>1, <1>1, <1>3 DEF ProcessInv, InConnect
    <3> QED
      BY <3>1, <3>2
  <2>2. ASSUME NEW t \in Servers, clients'[t] # NoClient
        PROVE  /\ connect'[clients'[t]].at = "done"
               /\ config'[t].state = "enabled"
               /\ config'[t].version = connect'[clients'[t]].version
               /\ connect'[clients'[t]].lease.root = rootDir'
               /\ connect'[clients'[t]].rootGeneration = rootGeneration'
               /\ ~closed'
    <3>1. CASE t = s
      <4>1. clients'[t] = c
        BY <3>1, <1>1, <1>2
      <4> QED
        BY <3>1, <4>1, <1>1, <1>2, <1>3 DEF Connecting
    <3>2. CASE t # s
      <4>1. clients'[t] = clients[t] /\ clients[t] \in Connects \ {c}
        BY <3>2, <2>2, <1>1, <1>2 DEF ProcessInv
      <4> QED
        BY <4>1, <2>2, <1>1, <1>3 DEF ProcessInv
    <3> QED
      BY <3>1, <3>2
  <2> QED
    BY <2>1, <2>2 DEF ProcessInv
<1>8. ClosedInv'
  BY <1>1 DEF ClosedInv, CloseReturned
<1>9. RequestsInv'
  <2>1. ASSUME NEW q \in Requests
        PROVE  ToolCallInv(q)'
    <3>1. ToolCallInv(q)
      BY DEF RequestsInv
    <3> QED
      BY <3>1, <1>1, <1>3 DEF ToolCallInv, InToolCall
  <2>2. ASSUME NEW q \in Requests
        PROVE  ReadInv(q)'
    <3>1. mcpRequest[q].lifecycleGeneration \in Nat /\ ReadInv(q)
      BY DEF ServiceTypes, Requesting, RequestsInv
    <3> QED
      BY <3>1, <1>1, <1>2 DEF ReadInv
  <2> QED
    BY <2>1, <2>2 DEF RequestsInv
<1> QED
  BY <1>4, <1>6, <1>7, <1>8, <1>9

\* A request moves by itself.
LEMMA RequestStep ==
    ASSUME ServiceInv, NEW q \in Requests,
           \/ \E s \in Servers, kind \in {"tool", "read"} : BeginRequest(q, s, kind)
           \/ RedeemApproval(q) \/ LookUpClient(q) \/ Deliver(q) \/ FailRequest(q)
    PROVE  ServiceInv'
<1> USE DEF ServiceInv
<1>1. /\ UNCHANGED <<workspace, rootDir, rootGeneration, lifecycleGeneration, config, clients,
                     closed, lifecycleMu, stopping, process, connect, switching>>
      /\ mcpRequest \in [Requests -> Requesting]
  BY DEF BeginRequest, RedeemApproval, LookUpClient, Deliver, FailRequest, passive, authority,
         exclusion, ServiceTypes
<1>2. /\ workspace \in Identity /\ rootGeneration \in Nat /\ lifecycleGeneration \in Nat
      /\ clients \in [Servers -> Connects \cup {NoClient}]
  BY DEF ServiceTypes, MCPTypeOK
<1>3. \A other \in Requests \ {q} : mcpRequest'[other] = mcpRequest[other]
  BY <1>1 DEF BeginRequest, RedeemApproval, LookUpClient, Deliver, FailRequest, RequestEnds
<1>4. ToolCallInv(q) /\ ReadInv(q)
  BY DEF RequestsInv
<1>5. /\ mcpRequest' \in [Requests -> Requesting]
      /\ ToolCallInv(q)' /\ ReadInv(q)'
      /\ CloseReturned /\ mcpRequest'[q].at = "waiting" => mcpRequest'[q].kind = "read"
  <2>1. ASSUME NEW s \in Servers, NEW kind \in {"tool", "read"}, BeginRequest(q, s, kind)
        PROVE  /\ mcpRequest' \in [Requests -> Requesting]
               /\ ToolCallInv(q)' /\ ReadInv(q)'
               /\ CloseReturned /\ mcpRequest'[q].at = "waiting" => mcpRequest'[q].kind = "read"
    <3> DEFINE new == [at |-> IF kind = "tool" THEN "approved" ELSE "leased",
                       kind |-> kind, server |-> s, lease |-> workspace,
                       rootGeneration |-> rootGeneration,
                       lifecycleGeneration |-> lifecycleGeneration, client |-> NoClient]
    <3>1. mcpRequest' = [mcpRequest EXCEPT ![q] = new]
      BY <2>1 DEF BeginRequest
    <3>2. new \in Requesting
      BY <1>2 DEF Requesting
    <3>3. mcpRequest'[q] = new /\ workspace.root = rootDir
      BY <3>1, <1>1, <2>1 DEF BeginRequest, Leasable
    <3> QED
      BY <3>1, <3>2, <3>3, <1>1, <1>2 DEF ToolCallInv, ReadInv, InToolCall
  <2>2. CASE RedeemApproval(q)
    <3>1. mcpRequest' = [mcpRequest EXCEPT ![q] = [@ EXCEPT !.at = "leased", !.lease = workspace]]
      BY <2>2, <1>1 DEF RedeemApproval, Requesting
    <3>2. mcpRequest'[q] = [mcpRequest[q] EXCEPT !.at = "leased", !.lease = workspace]
      BY <3>1, <1>1
    <3>3. mcpRequest' \in [Requests -> Requesting]
      <4> DEFINE old == mcpRequest[q]
                 new == [old EXCEPT !.at = "leased", !.lease = workspace]
      <4>1. mcpRequest' = [mcpRequest EXCEPT ![q] = new]
        BY <3>1
      <4>2. old \in Requesting
        BY <1>1
      <4> HIDE DEF old
      <4>3. new \in Requesting
        BY <1>2, <4>2 DEF Requesting
      <4> HIDE DEF new
      <4> QED
        BY <1>1, <4>1, <4>3
    <3>4. switching.at = "idle" /\ workspace.root = rootDir /\ mcpRequest[q].at = "approved"
      BY <2>2 DEF RedeemApproval, Leasable
    <3> QED
      <4>1. /\ mcpRequest'[q].at = "leased" /\ mcpRequest'[q].lease = workspace
            /\ mcpRequest'[q].kind = mcpRequest[q].kind
            /\ mcpRequest'[q].server = mcpRequest[q].server
            /\ mcpRequest'[q].lifecycleGeneration = mcpRequest[q].lifecycleGeneration
        BY <3>2, <1>1 DEF Requesting
      <4>2. ToolCallInv(q)'
        BY <4>1, <3>4, <1>1 DEF ToolCallInv, InToolCall
      <4>3. ReadInv(q)'
        BY <4>1, <3>4, <1>1, <1>4 DEF ReadInv
      <4> QED
        BY <3>3, <4>1, <4>2, <4>3
  <2>3. CASE LookUpClient(q)
    <3> DEFINE client == clients[mcpRequest[q].server]
    <3>1. /\ mcpRequest[q].at = "leased" /\ client # NoClient
          /\ mcpRequest[q].kind = "tool" => Current(mcpRequest[q].lease) /\ ~closed
          /\ mcpRequest' = [mcpRequest EXCEPT ![q].at = "waiting", ![q].client = client]
      BY <2>3 DEF LookUpClient
    <3>2. mcpRequest[q].server \in Servers
      BY <3>1, <1>4 DEF ReadInv
    <3>3. /\ client \in Connects /\ client \in Installed
          /\ connect[client].at = "done" /\ connect[client].lease.root = rootDir
      BY <3>1, <3>2, <1>2 DEF Installed, ProcessInv
    <3>4. mcpRequest' = [mcpRequest EXCEPT
                           ![q] = [mcpRequest[q] EXCEPT !.at = "waiting", !.client = client]]
      BY <3>1, <1>1 DEF Requesting
    <3> HIDE DEF client
    <3>5. /\ mcpRequest'[q] = [mcpRequest[q] EXCEPT !.at = "waiting", !.client = client]
          /\ mcpRequest' \in [Requests -> Requesting]
      <4> DEFINE old == mcpRequest[q]
                 new == [old EXCEPT !.at = "waiting", !.client = client]
      <4>1. mcpRequest' = [mcpRequest EXCEPT ![q] = new]
        BY <3>4
      <4>2. old \in Requesting
        BY <1>1
      <4> HIDE DEF old
      <4>3. new \in Requesting
        BY <3>3, <4>2 DEF Requesting
      <4> HIDE DEF new
      <4>4. mcpRequest'[q] = new /\ mcpRequest' \in [Requests -> Requesting]
        BY <1>1, <4>1, <4>3
      <4> QED
        BY <4>4 DEF new, old
    <3>6. ToolCallInv(q)'
      BY <3>1, <3>3, <3>5, <1>1, <1>4 DEF ToolCallInv, InToolCall, Requesting
    <3>7. ReadInv(q)'
      BY <3>1, <3>3, <3>5, <1>1, <1>4 DEF ReadInv, Installed, Requesting
    <3>8. mcpRequest[q].kind = "tool" => ~CloseReturned
      BY <3>1 DEF CloseReturned
    <3>9. mcpRequest[q].kind \in {"tool", "read"}
      BY <3>1, <1>1, <1>4 DEF ReadInv, Requesting
    <3> QED
      BY <3>5, <3>6, <3>7, <3>8, <3>9, <1>1 DEF Requesting
  <2>4. CASE Deliver(q) \/ FailRequest(q)
    <3>1. \E outcome \in {"delivered", "refused"} : RequestEnds(q, outcome)
      BY <2>4 DEF Deliver, FailRequest
    <3>2. PICK outcome \in {"delivered", "refused"} : RequestEnds(q, outcome)
      BY <3>1
    <3>3. [NewRequest EXCEPT !.at = outcome] \in Requesting
      BY DEF NewRequest, Requesting
    <3>4. mcpRequest' \in [Requests -> Requesting]
          /\ mcpRequest'[q] = [NewRequest EXCEPT !.at = outcome]
      BY <3>2, <3>3, <1>1 DEF RequestEnds
    <3> QED
      BY <3>4, <1>1, <1>2 DEF ToolCallInv, ReadInv, InToolCall, NewRequest
  <2> QED
    BY <2>1, <2>2, <2>3, <2>4
<1>6. ServiceTypes' /\ LifecycleInv'
  BY <1>1, <1>5 DEF ServiceTypes, MCPTypeOK, LifecycleInv
<1>7. ProcessInv'
  BY <1>1 DEF ProcessInv, Installed, InConnect
<1>8. ClosedInv'
  BY <1>1, <1>3, <1>5 DEF ClosedInv, CloseReturned, InConnect
<1>9. RequestsInv'
  <2>1. ASSUME NEW other \in Requests \ {q}
        PROVE  ToolCallInv(other)' /\ ReadInv(other)'
    BY <1>1, <1>3 DEF RequestsInv, ToolCallInv, ReadInv, InToolCall, Installed
  <2> QED
    BY <1>5, <2>1 DEF RequestsInv
<1> QED
  BY <1>6, <1>7, <1>8, <1>9

-----------------------------------------------------------------------------
(* The theorems.                                                           *)

\* Every step keeps the invariant.
LEMMA ServiceInvariance == MCPSpec => []ServiceInv
<1>1. MCPInit => ServiceInv
  <2> SUFFICES ASSUME MCPInit
               PROVE  ServiceInv
    OBVIOUS
  <2>1. NewConnect \in Connecting /\ NewRequest \in Requesting /\ 1 \in 1 .. MaxEndpoints
    BY MCPAssumption DEF NewConnect, NewRequest, Connecting, Requesting
  <2>2. ServiceTypes
    <3>1. workspace \in Identity /\ rootDir \in Roots
      BY DEF MCPInit, Identity
    <3>2. switching \in Switching
      BY <3>1 DEF MCPInit, Switching
    <3> QED
      BY <2>1, <3>1, <3>2 DEF MCPInit, ServiceTypes, MCPTypeOK
  <2>3. LifecycleInv /\ ProcessInv /\ ClosedInv
    BY MCPAssumption
    DEF MCPInit, LifecycleInv, ProcessInv, ClosedInv, CloseReturned, InConnect, NewConnect
  <2>4. RequestsInv
    BY DEF MCPInit, RequestsInv, ToolCallInv, ReadInv, InToolCall, NewRequest
  <2> QED
    BY <2>2, <2>3, <2>4 DEF ServiceInv
<1>2. ServiceInv /\ [MCPNext]_mcpVars => ServiceInv'
  <2> SUFFICES ASSUME ServiceInv, [MCPNext]_mcpVars
               PROVE  ServiceInv'
    OBVIOUS
  <2>1. CASE ConfigNext
    BY <2>1, ConfigStep, SwitchStep, StopStep DEF ConfigNext
  <2>2. CASE SwitchNext
    BY <2>2, ReplacementStep, SwitchStep, StopStep DEF SwitchNext
  <2>3. CASE ConnectNext
    BY <2>3, ConnectStep, InstallStep DEF ConnectNext
  <2>4. CASE RequestNext
    BY <2>4, RequestStep DEF RequestNext
  <2>5. CASE Close \/ CloseReturns
    BY <2>5, ReplacementStep, SwitchStep
  <2>6. CASE UNCHANGED mcpVars
    BY <2>6
    DEF mcpVars, ServiceInv, ServiceTypes, MCPTypeOK, LifecycleInv, ProcessInv, ClosedInv,
        CloseReturned, RequestsInv, ToolCallInv, ReadInv, InToolCall, InConnect, Installed
  <2> QED
    BY <2>1, <2>2, <2>3, <2>4, <2>5, <2>6 DEF MCPNext
<1> QED
  BY <1>1, <1>2, PTL DEF MCPSpec

\* The variables have their types.
THEOREM ServiceTypeCorrect == MCPSpec => []MCPTypeOK
<1>1. ServiceInv => MCPTypeOK
  BY DEF ServiceInv, ServiceTypes
<1> QED
  BY <1>1, ServiceInvariance, PTL

\* However the configuration, the workspace and other connects change while a
\* server starts, what is installed is approved now, where the service is now;
\* nothing else runs without an owner, and nothing runs after Close.
THEOREM ServersAreAuthorized == MCPSpec => []RunningServersAreAuthorized
<1>1. ServiceInv => RunningServersAreAuthorized
  <2> SUFFICES ASSUME ServiceInv
               PROVE  RunningServersAreAuthorized
    OBVIOUS
  <2>1. ProcessInv /\ ClosedInv
    BY DEF ServiceInv
  <2>2. CloseReturned => Installed = {}
    BY <2>1 DEF CloseReturned, ProcessInv, Installed
  <2>3. \A c \in Connects : process[c] = "live" =>
           (c \in Installed \cup stopping \/ InConnect(c)) /\ ~CloseReturned
    BY <2>1, <2>2 DEF ProcessInv, ClosedInv
  <2> QED
    BY <2>1, <2>3 DEF ProcessInv, ClosedInv, RunningServersAreAuthorized
<1> QED
  BY <1>1, ServiceInvariance, PTL

\* No result of another workspace is delivered, and none of a read that a
\* change of the transports has overtaken.
THEOREM DeliveriesAreCurrent == MCPSpec => ResultsAreCurrent
<1> DEFINE Delivered(q) ==
       mcpRequest'[q].at = "delivered" /\ mcpRequest[q].at # "delivered" =>
          /\ connect[mcpRequest[q].client].lease.root = workspace.root
          /\ mcpRequest[q].kind = "read" => mcpRequest[q].client \in Installed
<1>1. ServiceInv /\ [MCPNext]_mcpVars => [\A q \in Requests : Delivered(q)]_mcpVars
  <2> SUFFICES ASSUME ServiceInv, MCPNext, NEW q \in Requests,
                      mcpRequest'[q].at = "delivered", mcpRequest[q].at # "delivered"
               PROVE  /\ connect[mcpRequest[q].client].lease.root = workspace.root
                      /\ mcpRequest[q].kind = "read" => mcpRequest[q].client \in Installed
    OBVIOUS
  <2>1. Deliver(q)
    <3>1. PICK other \in Requests :
             \/ \E s \in Servers, kind \in {"tool", "read"} : BeginRequest(other, s, kind)
             \/ RedeemApproval(other) \/ LookUpClient(other)
             \/ Deliver(other) \/ FailRequest(other)
      <4>1. mcpRequest' # mcpRequest
        OBVIOUS
      <4>2. RequestNext
        BY <4>1
        DEF MCPNext, ConfigNext, SwitchNext, ConnectNext, Close, CloseReturns, ReserveSlot,
            Refuse, LeaveSlot, SaveServer, SetServerEnabled, DeleteServer, DisconnectServer,
            Stop, SetWorkspace, FollowWorkspace, ApplyWorkspaceRoot, AlreadyThere, Followed,
            StopFailed, FinishSwitch, SetterFails, RestoreSnapshot, AcquireLease, AdmitConnect,
            StartServer, NotStarted, Install, RejectClient, StopRejected, elsewhere, quiet
      <4> QED
        BY <4>2 DEF RequestNext
    <3>2. mcpRequest \in [Requests -> Requesting]
      BY DEF ServiceInv, ServiceTypes
    <3>3. other = q
      BY <3>1, <3>2
      DEF BeginRequest, RedeemApproval, LookUpClient, Deliver, FailRequest, RequestEnds
    <3> QED
      BY <3>1, <3>2, <3>3
      DEF BeginRequest, RedeemApproval, LookUpClient, FailRequest, RequestEnds, NewRequest,
          Requesting
  <2>2. /\ mcpRequest[q].at = "waiting" /\ mcpRequest[q].lease = workspace
        /\ mcpRequest[q].kind = "read" =>
              mcpRequest[q].lifecycleGeneration = lifecycleGeneration
    BY <2>1 DEF Deliver, Current
  <2>3. ToolCallInv(q) /\ ReadInv(q) /\ mcpRequest[q].kind \in {"none", "tool", "read"}
    BY DEF ServiceInv, RequestsInv, ServiceTypes, Requesting
  <2>4. CASE mcpRequest[q].kind = "tool"
    BY <2>2, <2>3, <2>4 DEF ToolCallInv, InToolCall
  <2>5. CASE mcpRequest[q].kind = "read"
    <3>1. mcpRequest[q].client \in Installed /\ workspace.root = rootDir
      BY <2>2, <2>3, <2>5 DEF ReadInv
    <3>2. connect[mcpRequest[q].client].lease.root = rootDir
      BY <3>1 DEF Installed, ServiceInv, ProcessInv
    <3> QED
      BY <3>1, <3>2
  <2> QED
    BY <2>2, <2>3, <2>4, <2>5 DEF ReadInv
<1>2. [][\A q \in Requests : Delivered(q)]_mcpVars => ResultsAreCurrent
  BY DEF ResultsAreCurrent
<1> QED
  BY <1>1, <1>2, ServiceInvariance, PTL DEF MCPSpec

-----------------------------------------------------------------------------
(* The depths of a workspace together.                                     *)

\* They share no variable: a step is one of the depth in focus, and leaves the
\* variables of the others as they are.
LEMMA DepthsStepApart ==
    ASSUME [WorkspacesNext /\ UNCHANGED focus]_<<focus, vars, authorityVars, mcpVars, indexVars>>
    PROVE  /\ [Next]_vars
           /\ [AuthorityNext]_authorityVars
           /\ [MCPNext]_mcpVars
           /\ [IndexNext]_indexVars
<1>1. CASE WorkspacesNext BY <1>1 DEF WorkspacesNext, MCNext, ApartNext
<1>2. CASE UNCHANGED <<focus, vars, authorityVars, mcpVars, indexVars>> BY <1>2
<1> QED BY <1>1, <1>2

\* A behaviour of all depths is one of each.
LEMMA EveryDepthRuns ==
    WorkspacesSpec => Spec /\ AuthoritySpec /\ MCPSpec /\ IndexSpec
<1>1. WorkspacesInit => Init /\ AuthorityInit /\ MCPInit /\ IndexInit
  BY DEF WorkspacesInit
<1>2. [WorkspacesNext /\ UNCHANGED focus]_<<focus, vars, authorityVars, mcpVars, indexVars>> =>
           /\ [Next]_vars
           /\ [AuthorityNext]_authorityVars
           /\ [MCPNext]_mcpVars
           /\ [IndexNext]_indexVars
  BY DepthsStepApart
<1> QED
  BY <1>1, <1>2, PTL DEF WorkspacesSpec, Spec, AuthoritySpec, MCPSpec, IndexSpec

\* The types of all depths: of tools, locks, servers and index.
THEOREM WorkspacesTypeCorrect == WorkspacesSpec => []WorkspacesTypeOK
<1>1. TypeOK /\ AuthorityTypeOK /\ MCPTypeOK /\ IndexTypeOK => WorkspacesTypeOK
  BY DEF WorkspacesTypeOK
<1> QED
  BY <1>1, EveryDepthRuns, TypeCorrect, AuthorityTypeCorrect, ServiceTypeCorrect,
     IndexTypeCorrect, PTL
=============================================================================
