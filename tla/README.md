# Koyori IDE: verification of the agent core and its services

Koyori is a desktop IDE written in Go (Wails shell, Vue user interface). Its own core logic is the
agent: chat, plans, goals and workflows that call tools inside one workspace, with sessions, usage and
authority that must survive crashes and workspace switches, and the services those tools reach. This
directory holds TLA+ modules translated from that code, the TLC configurations that check them, and proofs
checked by TLAPS. Paths below are relative to `src/`; `agentcore/` stands for `internal/agentcore/`.

    tlc -workers 2 -config MCStorage.cfg MCStorage
    tlapm SessionStoreProofs.tla

| module | what it is | checked in |
|---|---|---|
| `SessionStore` | durable lifecycle rows, their saves, crashes and restarts | `storage` |
| `SessionTable` | the table of rows that the store implements | `storage` |
| `UsageLedger` | the append-only file of receipts and its reload | `storage`, `usage_tail` |
| `ReceiptTable` | the table of receipts that the ledger implements | `storage` |
| `ToolExecution` | one tool execution between ledger, session and audit log | `workspaces`, `progress`, `workflow_ai`, `undone_success` |
| `WorkspaceAuthority` | the locks around the workspace, the project switch, the tool catalog | `workspaces`, `progress`, `plan_and_switch` |
| `MCPService` | configured servers, their clients and calls under a changing workspace | `workspaces` |
| `SymbolIndex` | index of symbols against file changes and switches | `workspaces` |
| `AgentLifecycle` | runtime authority of sessions against their rows, tokens and budget | `services`, `late_handler` |
| `TaskExecution` | tracked task processes: start, stop, time limit, shutdown | `services` |
| `AIStreams` | chat streams, their rows, the slot, closing and shutdown | `services` |
| `MCPClient` | one MCP client: waiting calls, reader, cached lists | `services` |
| `RecoveryJournal` | journal of unsaved buffers and the commit of decisions | `storage`, `recovery_stuck` |
| `EditTransaction` | edits of several files with rollback, beside saves | `storage` |
| `ExtensionUpdate` | install, update, disable, remove of an extension, and the page | `services`, `reenabled_extension` |
| `GitRebase` | interactive rebase with stops, conflicts and interrupted calls | `services`, `reword_blocked` |
| `DocumentSync` | one document kept in step with its language server | `services` |
| `InstanceLock` | the lock file of an instance and the guard around it | `storage` |
| `SessionStoreProofs`, `StorageProofs`, `ToolExecutionProofs`, `WorkspaceAuthorityProofs`, `WorkspacesProofs`, `AgentLifecycleProofs`, `ServicesProofs`, `ExtensionRebaseProofs` | theorems, for every value of the constants | |
| `MCStorage`, `MCWorkspaces`, `MCProgress`, `MCServices` | the four runs that pass | |
| `MCToolExecution`, `MCWorkspaceAuthority`, `MCUsageLedger`, `MCGitRebase` | small instances used by them; the reference loop of the ledger's load | |

## 1. The system's parts

| part | state | operations | interacts through |
|---|---|---|---|
| session store (`agentcore/session*.go`) | table of session rows, persistence poison, snapshot file | begin, stream, checkpoint, pause, fail, resume, complete, close, bind owner, dispose, observe usage, capture / close all / restore | called by the lifecycle under one mutex; file replaced by rename |
| agent lifecycle (`services/agent_lifecycle.go`) | runtime owner of each logical session, workspace reset transaction | begin, checkpoint, pause, fail, resume, complete, abort, usage sink, reset prepare / commit / rollback | session store, capability runtime, usage ledger |
| workspace authority (`services/agent_execution_core.go`) | workflow lock, workspace lock, catalog lock, deferral depth and flag, published catalog | tool execution, catalog read, terminal transition, workspace transition, catalog refresh | every service that touches the workspace takes these locks |
| project switch (`services/project_service.go`) | project list, roots of the services | add, open, remove, with rollback | setters of agent, MCP, search, index, git, LSP, terminal, skills |
| capability runtime, registry, budget | registered sessions with generation, suspended sessions, one-time tokens, tool versions, spent capabilities | register, suspend, activate, request, execute, compensate, new epoch | usage sink, audit sink, tool handlers |
| usage ledger (`services/ai_permission_service.go`) | rows in memory, JSON-lines file, poison | begin, complete, record, load, manual disposition | called by the lifecycle's usage sink |
| AI service (`services/ai_service.go`) | one slot for the current stream, admission | start, stop, worker, shutdown | lifecycle rows, workspace read lease |
| task engine (`services/task_service.go`) | active executions, pending stops | execute, stop, time limit, shutdown | operating system processes |
| MCP service and client | configuration, clients, waiting calls, cached lists | connect, save, enable, delete, call, read, follow the workspace, close | processes, workspace context, catalog refresh |
| symbol index (`services/symbol_index_service.go`) | symbols and hash per file, version, removals | index, remove, rebuild, set roots | file watcher, workspace context |
| recovery journal (`services/recovery_service.go`) | records per window, phase, transaction directories | save, clear, scan, complete, acknowledge | editor pages, automatic writers |
| workspace edits, file service | files, receipt, save lock | preview, apply, roll back; save if unchanged | editor, agent, search, LSP |
| marketplace, activation, extension security | directories, record, state entry, activation events | install, update, enable, disable, uninstall | the page over request and answer |
| interactive rebase (`services/git_rebase_service.go`) | state file in git's directory | start, apply, continue, skip, abort | git |
| language server client (`services/lsp_service_sync.go`, `lsp_service_rpc.go`, ...) | servers, open documents, the pending change of each | sync, close, start, stop, rebuild | editor calls, one process per language |
| single instance lock (`services/instance_lock.go`) | lock file, guard of the operating system | acquire, release | processes of the desktop and of the headless host |
| goals, plans, workflows, debugger, terminal, ... | status per goal or step, protocol state per process | | lifecycle sessions, external processes |

What is hard in each part, and what makes it correct, stands beside its module below. `PROJECT.json`
lists all components with their status, and under `hazards` every place where the code is hard to test.

### How the runs are put together

Parts that share no variable are checked in one run: a variable `focus`, chosen in the initial state, says
which part moves; the others rest. So `MCServices` is seven instances and `MCStorage` five, not their
product, and an invariant of one part is trivially true in the behaviours of another. Where a composition is
the subject (locks with catalog and switch, execution with ledger and session, servers with the workspace
identity, pages with the marketplace) it is inside one module. The constants of alike callers have the same
names (`c1`, `c2` are requests, executions, streams, listers and editors at once in `services`, pages and
edits in `storage`) so that one symmetry set serves all parts. `progress` checks liveness and uses no
symmetry.

Bounds that only a run has are operators of the MC modules: `OneRowOrFew` (two rows together are kept
short), `OneOpenRow` (an agent session starts beside one closed row), `FewChanges` (one new budget epoch,
tool change or switch), and the combination of executions in `MCNext`. Bounds of a module are its `Max...`
constants.

Deadlock is checked in `workspaces`: the locks must never stop, and the three other parts, whose calls are
finitely many there, may stutter. `storage`, `services` and `progress` switch it off because every part
reaches its bounds and stops; that nobody waits in a circle there is said by `NoCircularWait`,
`NoWaiterIsLost`, `ExecutionEnds` and `EveryCallReturns`.

## 2. storage: session store, usage ledger, recovery journal, edits, instance lock

**SessionStore** (`agentcore/session.go`, `session_persistence.go`). A save can fail before or after the
rename, and the process or the machine can die between any two steps of it. Every exported operation holds
`SessionStore.mu` for its whole body, so each is one action.

| code | model |
|---|---|
| `sessions map[string]Session` | `rows`, `NoRow` where the map has no entry |
| `persistencePoison` | `poison`, the set of error classes joined in it |
| snapshot file as read back, and as it may be after a power loss | `disk`, `survivors` |
| `persistLocked`, `Save`, rollback of the caller | `Persist` with an outcome of `SaveOutcomes` |
| `Begin/BeginOwned`, `AppendStream`, `CreateCheckpoint`, `Pause`, `Fail`, `Resume`, `Complete`, `Close`, `BindOwner`, `Delete`, `ApplyRecoveryDisposition`, `AppendUsageObservation` | the actions of `RowNext` under the same names |
| `CaptureSnapshot`, `CloseAllDurable`, `RestoreSnapshot` in the order the workspace reset of the lifecycle uses them | `TableNext`; `Idle` keeps the reset's order |
| `NewPersistentSessionStore` with its validation and recovery marks | the action of that name, `Valid`, `Marked` |

A save is *durable*, *not published* (memory goes back) or *published unknown* (memory stays, the store is
poisoned). After the rename the old file may still come back until the directory is synced, hence the set
`survivors`. `ackedUsage` is a history variable: what a caller was told. Left out because no property tells
it apart: that a unit its row already has is confirmed again before the poison is looked at
(`session.go:876-885`; it changes nothing, and the only caller, `agent_lifecycle.go:2291-2294`, has turned a
poisoned store down before), session kind, permission mode, failure text, timestamps, `resumedFrom`, event
payload, and the size limit of the snapshot file (a save that exceeds it is one of the *not published*
ones).

`MemoryIsPublished`: memory equals the visible snapshot after every operation, failed or not.
`EverySurvivorLoads`: no sequence of operations and cuts yields a table the constructor refuses.
`AuthorityIsNeverInherited`: a row open to work has an owner of this process. `UsageIsExact`: usage is
counted once and survives what was reported durable. That a poisoned store does
not move (`PoisonFreezes`) is proved.
`ImplementsTable` is a refinement: through `live`, `table`, `fallback` and `captured`, the store is the
`SessionTable`, a table whose rows move one by one along the statuses of a session, whose histories only
grow, whose completed rows stay, and which only a start may put into recovery and only a power loss may
take back.

**UsageLedger** (`services/ai_permission_service.go`). The file is a sequence of chunks (row, line feed,
torn row), because what matters is whether a row stands alone on its line. An append is durable, refused
before a byte was written, or indeterminate: then some of the chunks are there and the ledger is poisoned
for this process. `synced` is how much a power loss cannot take.

| code | model |
|---|---|
| the rows in memory, `usagePersistencePoison` | `usage`, `ledgerPoison`; `ledgerUp`: a process runs |
| `usage_log.jsonl` | `file`, `synced` |
| `usageTransitionLocked`, `usageIdentityEqual` | `Contradicts` |
| `loadUsage` | `LoadUsage`, `Accepted`, `Folded`, `Loads` |
| `recordUsageTrustedMode`, `appendUsage` | `RecordUsage`, `AppendUsage`, `Published`, `Indeterminate` |
| begin, complete, record, manual-unknown | `BeginAgentUsage`, `CompleteAgentUsage`, `RecordAgentUsage`, `ApplyManualUnknown` |

The load is written twice: declaratively in the module and as the fold over lines that the code runs, in
`MCUsageLedger`; `LoadIsTheLoop` compares them on every file a reader may find (proved for files of any
length, section 7). `ProjectionIsLedger`: a healthy process knows what the file says. `ReceiptsMoveOnce` is
the refinement of `ReceiptTable`: what a reader of the file sees is one receipt per unit that gets one
outcome, and a power loss only takes back what was never kept. A write or a power loss may stop anywhere,
also between a row and its line feed; the next append then puts two rows on one line, of which neither can
be read (`usage_tail`). Both properties therefore speak of the states in which that has not happened,
`OneRowPerLine(file)`, and of the steps between two of them: a row may lose its line feed, be loaded,
answered for and kept, and be cut again. Left out: legacy rows without a receipt state, the trust reset used
by tests, the case without a state directory, model assignments and summaries.

Bounds: two rows; one of them alone gets two events, three checkpoints, two executions and three process
starts, so it can be checkpointed, resumed, checkpointed again, lost, recovered, rebound and disposed of;
two together are what a rollback of one row and the recovery marks must not mix up. Two units, one with
external effects, two identities and seven chunks hold begin and completion of one unit with a torn end
and a row of the other.

**RecoveryJournal** (`services/recovery_service.go`). `CheckSave`/`SaveDirtyBuffer` and
`CheckClear`/`ClearDirtyBuffer` are a check of the phase and a later touch of the disk; `BeginScan`,
`ReadJournal`, `PublishScan` a scan; `BeginCommit`, `StageRecord`, `WriteMarker`, `FinishCommit`,
`RollbackRecoveryMoves` the commit, which a death of the process may cut anywhere. `NoWorkIsLost` says
two things: what was journaled is found until it is cleared or decided (`NothingIsForgotten`), and nothing
that an earlier process left is undecided when the phase lets writers through (`ResolvedMeansDecided`). A record read in a scan is taken
as atomic; window identifiers are fresh per page load (`frontend/src/stores/recovery.ts:26-36`).

**EditTransaction** (`services/workspace_edit_transaction.go`, `file_service.go`, `diff_service.go`).
`Preview`, `BeginEdit`, `CheckFile`, `WriteFile`, `RestoreFile`, `CommitEdit`; the agent writes through the
file service (`CompareFile`, `RenameFile` under `saveMu`), the diff and the replace do not.
`EditsAreHonest`: the reported result is what the disk shows, the receipt is never that of an edit that
did not apply, and as long as nothing writes past the file service no save is overwritten unseen. The LSP
refactoring has the shape of the replace plus a version check. Resource operations (phase 5) have no
production caller and are left out.

**InstanceLock** (`services/instance_lock.go`, `instance_state_guard_unix.go`). Every call of the operating
system on the lock file is a step of its own, between which other processes run and any process may die.
`rootBound`, chosen at the start, is the headless host (`services/agent_headless.go:98`), whose calls run
under the guard; its negation is the desktop (`main.go:281`), which has a path and no guard.

| code | model |
|---|---|
| lock file: which file it is, and whom it names | `lockFile` with an `inode`, as `os.SameFile` tells files apart |
| `acquireStateGuard`, `acquireInstanceStatePlatformGuard`, `release` | `AcquireStateGuard`, `GuardTimeout`, `Returns`; `stateGuard` |
| `tryCreateExclusive` | `CreateExclusive`, then `WriteLockInfo` or `LockWriteFails` |
| `readLockInfo` of a root; of a path, which reads and identifies separately | `ReadOpenLock`; `ReadLock`, `IdentifyLock` |
| `lockIsStale` | `Verdicts`: the number of a dead process may have been given away |
| `removeLockFile` | `CheckIdentity`, then `RemoveLockFile`, which removes whatever is there |
| `Release`; a process that ends | `Release` and the removal; `ProcessDies` |

`OneInstance`: under a state root, who has the lock is named by the file, hence alone, and not taken for
dead. Three processes: one that died, one that takes its lock over, one that comes between. Reading the content
before or after a removal is where a missing guard would show; section 8 says what that means for the
desktop. Left out: malformed content (refused under a root), a replaced guard file, reuse of an inode after
its file was closed, the Windows guard, and processes of different users, which `processAlive` takes for dead.

## 3. workspaces: executions, locks, servers, index

**ToolExecution** (`Runtime.Execute` with the usage sink of `AgentLifecycle` behind it). Eight things fail
one by one around an effect that cannot be taken back. `stage` is where an execution is; each place where
the code calls out or takes a lock is a stage of its own.

| code | model |
|---|---|
| `RequestCapability`, redeeming in `Execute` | `RequestCapability`, `RedeemCapability` with `LiveGeneration` |
| `BeginExternalMutation` | action of that name |
| `beginExecutionUsage`, `completeExecutionUsage` through the lifecycle sink | `CheckSession` (trust check under `transitionMu`), `WriteRow` (ledger), `Observe` (session store): three critical sections |
| audit of start and result | `AuditStart`, `AuditResult` |
| handler, compensation, retried completion | `RunHandler`, `Compensate`, `CompletionFailed` |
| pause, resume, close with the runtime changed first and restored on a rejected save | `PauseSession`, `ResumeSession`, `CloseSession` |
| manual disposition of a receipt by an operator after a restart | `ManualUnknown` |

The ledger and the store appear by their contracts, which `storage` checks. `disturbed` records that
something failed or the session was touched. Left out: preparation and approval (before redemption),
sessions under an opaque runtime ID, `Fail` (same shape as a pause), a ledger that stays poisoned after a
reload. `EffectIsAccountedFor`: no effect without a receipt and a start record. `ReceiptIsHonest`: a
terminal receipt says what became of the effect. `SuccessIsWhole`: a reported success has effect, receipt,
both audit records and, when the session was left alone, its observation. `OutcomeIsFinal`: no retry,
restart or operator changes a terminal receipt. Instance: an editor tool beside a reversible or an
irreversible external effect, and two suspensions.

**WorkspaceAuthority** (`services/agent_execution_core.go` with `project_service.go`, `task_service.go`,
`agent_plan.go`, `mcp_service.go`). Threads run one kind of call over and over; an action is what happens
between two lock operations, `pc` says where. `sync.RWMutex` is external and modelled by what Go documents
and its implementation does: `Lock` first announces itself, which stops new readers, then waits for the
old ones; `Unlock` admits the readers that queued. Of the setters of a switch the agent's and the MCP
service's are modelled; the others follow the same apply-or-undo protocol.

| code | model |
|---|---|
| `lockAgentWorkflowTransition`, `lockAgentWorkflowExecution`, `lockAgentWorkspaceTransition`, `lockAgentWorkspaceAuthority` | `LockWorkflow`, `RLockWorkflow`, `LockWorkspace`, `RLockWorkspace` and their unlocks |
| `beginProjectWorkspaceAuthority` | `DeferRefreshes`, `DrainRefresh` |
| `addProject`: setters, flush, save, rollback | `SetAgentRoot`, `SetMCPRoot`, `FlushCatalog`, `SaveProjects`, `UndoMCPRoot`, `UndoAgentRoot` |
| a rollback that fails: `poisonWorkspaceAuthority`, and what `Execute` then turns down | `poisoned`, `RefuseTool` |
| guard's `release` | `ReleaseGuard`, `UnlockWorkspace`, `UnlockWorkflow` |
| `refreshDynamicAgentTools`, `...Now`, `...Locked` | `LockCatalog`, `AdmitRefresh`, `ReadAgent`, `ReadMCP`, `PublishCatalog` |
| a tool handler, `GetAgentToolCatalog`, `generateCatalogPlan`, `notifyToolsChanged` | `RunToolHandler`, `ReadCatalog`, `PlanHandler`, `ToolsChanged` |

A rollback may fail too: a server that does not stop puts the new root of the MCP service back
(`mcp_service.go:269-283`), rows or skills may not come back. The services then stand in two workspaces;
what keeps tools out is that the failure poisons the session store and unregisters every session
(`project_service.go:1686-1691`, `agent_lifecycle.go:322-330`), that no session is registered from a
poisoned store, and that a later switch is refused by the agent's setter, until a restart.

`ReadersWorkInOneWorkspace`: no root changes under a reader, and the roots agree while the handler of a tool
runs, whatever rollback failed before (a mutant that forgets the poison breaks it). `TerminalExcludesTools`.
`CatalogFollowsWorkspace`: whoever can take the read side sees tools of the present roots, after a rollback
too; a poisoned agent may be shown, and refused, tools of two workspaces. `NoToolChangeIsLost`: a callback
deferred during a switch shows up. One thread per role reaches every pair of roles; two workspaces are what
mixing needs, two tool versions let one change arrive during another's refresh. `ApartNext` leaves out the
behaviours in which a project switch and a plan tool meet; `plan_and_switch` shows why.

**MCPService** (`services/mcp_service.go`, `mcp_config.go`, `workspace_context.go`). Under `s.mu` each
action is one step; the slot of a configuration write (`configQueue`, in order of arrival) and
`transportLifecycleMu` are kept longer; connecting and calling hold nothing while they wait.

| code | model |
|---|---|
| `SaveServer`, `SetServerEnabled`, `DeleteServer`, `DisconnectServer` | `ReserveSlot`, the action of that name, `Stop`, `LeaveSlot`; `Refuse` |
| `setWorkspaceRoot` and the switch around it | `SetWorkspace` (context), `FollowWorkspace`, `ApplyWorkspaceRoot`, `Stop`, `Followed`, `FinishSwitch`, and the way back `SetterFails`, `RestoreSnapshot` |
| `ConnectServer`: lease, admission, start, final checks | `AcquireLease`, `AdmitConnect`, `StartServer`, `Install` or `RejectClient`, `StopRejected` |
| tool call and resource read | `BeginRequest`, `RedeemApproval`, `LookUpClient`, `Deliver`, `FailRequest` |
| `Close` | `Close`, `CloseReturns` |

`RunningServersAreAuthorized`: an installed client runs the endpoint approved now in the root followed now;
every other live server is about to be installed or stopped. `ResultsAreCurrent`: a result comes from a
client of the workspace current at its delivery. Two connects of one server and four lifecycle generations
let a reconnect, a change of endpoint and a switch there and back fall into one connect. A tool call is made
under the read side of `workspaceAuthorityMu` (`ExecuteApprovedAgentTool`) and a switch under its write
side, so no switch begins while a tool is called (`InToolCall`); reads and connects hold nothing. An undone
switch gives the old generation out again; what could follow from that takes more generations than these
bounds, and section 7 proves both properties for any number of them. `Stop` ends the process, and whether it
reported an error is a choice of the step after it (`Followed`, `StopFailed`): `StopServer` may report an
error whose process lives on (`mcp_transport.go:326-346`), but its client is then out of `clients` like any
other (`mcp_service.go:262-271`, 973-975) and can serve no call; that such a process is left to the
operating system is not modelled.

**SymbolIndex** (`services/symbol_index_service.go`). Files are hashed, parsed and verified outside the
lock; a lease, the index version, the file's removal and the counter of removals decide whether the result
may be published. A file is its version.

| code | model |
|---|---|
| `IndexFile` | `IndexFile`, `ReadVersions`, `HashFile`, `ParseFile`, `VerifyFile`, `PublishFile`, `KeepSymbols` |
| `RemoveFile` | `RemoveFile`, `DropFile` |
| `ensureIndexed`, `reindexWithBudget` | `EnsureIndexed`, `CaptureBase`, `ScanFile`, `PublishRebuild`, `EndRebuild` |
| setters of context and index in a switch | `SetContext`, `ApplyIndexRoot`, `CommitMove`, `UndoIndexRoot`, `UndoContext` |

`NoGhostSymbols`: the index holds files of its own workspace, symbols of the hash beside them, and no
version of a file that was replaced in the index or reported deleted (`oldest`, a history variable). One
file, two contents, one indexing call beside a removal, a rebuild and two switches: each publication can
then be overtaken by each other one. A content that comes back (A, B, A between two hashes) is excluded:
the code would accept it with the symbols of B.

## 4. progress: what must end

`MCProgress` checks `ExecutionEnds` and `EveryCallReturns`. Fairness: `WF(Execution(u))` once a token is
redeemed, because `Execute` is one call on a goroutine of its own and its handler is assumed to end (its
context has a deadline); nothing is asked of requests, pauses, crashes. `SF(Step(t))` per thread of the
locks, because Go's mutexes hand over to a waiter that starves; nothing is asked of `Call`. Two switchers
make two writers compete for both locks; one workspace and version are enough because waiting does not
depend on them.

## 5. services: seven services at their own instances

**AgentLifecycle** (`services/agent_lifecycle.go`, `agentcore/runtime.go`, `agent_budget.go`). A lifecycle
operation changes the runtime, then the row, then the runtime again, and the save may be rejected or
unknown; requests and executions run in between.

| code | model |
|---|---|
| start, suspension, pause, fail, resume, complete, close, each with its restores | `Operation`, `Publish` (the save), `Finish` |
| `registerSession`, `SuspendSession`, `ActivateSession`, `UnregisterSession` | `session`, `nextSessionGeneration`, `Revoke`, `SuspendSession` |
| `toolBudget` | `budget`, `ReleaseReservation`, `NewEpoch` |
| request, audit, one-time redemption, metered admission, handler | `CallStep` |
| change of the registry, switch of the agent's workspace with rollback | `ReplaceSources`; `BeginSwitch`, `CommitSwitch`, `RollbackSwitch` |

`AuthorityFollowsRows`, `BurnedStaysBurned` (what was approved for an authority since suspended, closed or
switched away is never redeemed, though rollback restores generations), `BudgetMatchesGrants`. A chat and
a plan (opaque runtime ID), two callers, a budget of one.

**TaskExecution** (`services/task_service.go`). `RegisterExecution`, `Start`, `Wait`, `ContextDone`,
`GiveUp`, `Terminate` are the steps of `Execute`; `Lookup` and `StopExecution` a `Stop` under two locks;
`Shutdown`, `ShutdownStop`, `ShutdownJoin`, `ShutdownReturn` the shutdown. `StopReachesItsProcess`: a stop
that overtook its execution keeps the process from starting, one that came late relabels nothing, no two
processes share an identifier. Approvals (843-888, 1080-1127) are left out.

**AIStreams** (`services/ai_service.go`, `ai_agent.go`). A stream claims the slot, begins a row, works,
records, clears the slot; a stop, a newer stream, a closer of its session, a deadline, a workspace switch
and a shutdown interfere. `UnitOwnsItsRow`: nobody takes a row over while its worker may still complete
it. `NoCircularWait`: slot, admission, workspace lock and the end of a worker are never waited for in a
circle, even if no provider answers before its deadline: while somebody waits, the guard of somebody's step
holds (`SomebodyCanGoOn`) and a step is enabled. `ShutdownsAreComplete` joins the shutdowns of
tasks and streams: after one that reports success no process runs and no worker records.

**MCPClient** (`services/mcp_client.go`). Calls register an id, send and wait; one reader dispatches;
a notification invalidates the cache by a generation. `ListIsCurrent`: nobody gets a list that was out of
date when he asked. `NoLostWaiter`: whoever waits is known to a living reader, and after `Stop` nobody
waits. Messages are read in any order; the HTTP transport, which has no reader, is left out.

**DocumentSync** (`services/lsp_service_sync.go`, with `lsp_service_rpc.go`, `lsp_service_session.go`,
`lsp_service_server.go`). Every completion or hover first syncs the buffer. Calls that change the document
share one pending change, which a timer sends once no text has come for a while.

| code | model |
|---|---|
| `syncDocument` | `FindServer`, then `ServerIsGone`, `JoinChange`, `OpenDocument`, `AlreadySynced` or `NewDocumentChange`, then `WaitDocumentChange` |
| `CloseDocument` | `FindServer`, `CloseDocument` |
| `flushDocumentChange`, its timer | `FlushDocumentChange`; `debounce` |
| `sendDocumentOpen`, `finishDocumentChange` | `FinishDocumentChange`; `senders` are the goroutines before it |
| `notify`, the goroutine that writes, its deadline | `Notify`; `WriteNotification`, `NotifyFails`; `NotifyTimeout` |
| `docVersions`, `docLastContent`; `pendingChanges` | `doc`; `pendingChange`, `waitedFor` (its `done` channel) |
| detach, `beginClosing`, `stop`; exit and its observer; start | `DetachServer`, `BeginClosing`, `StopLSPProcess`; `ServerExits`, `ObserveLSPProcess`; `StartLSPServer` |

The server is external: it takes a message for what the protocol says, and an incremental change against
another text leaves it with `Garbled`. `ServerHasTheText`: between messages the server holds the text the
client believes it sent, with the same version, whatever joins, debounces, failed writes and restarts came
before. It is asked unless a message was overtaken (`overtaken`, a history variable): a write outlived its
deadline, or a close or an open was sent while another message was being written; see section 8.
`NoStrandedSync`: whoever waits for a change waits for the pending one, and the timer or the sender that
will complete it exists. `NoWaiterIsLost` is this and `NoLostWaiter`. Two editors, two texts, three calls
and two processes: a change is joined while it is sent, fails, and is taken up by the next timer. What a
replaced server leaves behind fails on its own and is dropped at `StartLSPServer`; a server of another
language, diagnostics and requests after the sync are left out.

**ExtensionUpdate** (`services/marketplace_service.go`, `extension_security_service.go`,
`activation_service.go`, `frontend/src/lib/crossWindowSync.ts`, `vscodeExtensionActivation.ts`). One
operation at a time asks the page to stop the extension, changes directories, record, activation events
and state one by one, and tells the page how it ended; answers may be late.

| code | model |
|---|---|
| `UpdateExtension` and its rollback closure | `UpdateExtension`, `StopRefused`, `MoveAside`, `PublishUpdate`, `RegisterInstall`, `CommitUpdate`, `Rollback(failed)`, `TellUpdate` |
| `installFromVSIXFile`, `UninstallExtension`, `SetExtensionEnabled` | `InstallExtension`, `SwapIn`, `RegisterSwapped`; `UninstallExtension`, `RemoveExtension`; `EnableExtension`, `DisableExtension`, `SaveDisabled`; `Tell...` |
| the queue of lifecycle requests in the page | `HoldForStop`, `FinishStop`, `HandleRestore`, `HandleCommit`, `HandleInvalidate` |
| an activation | `BeginActivation`, `ReadSource`, `FinishActivation`, `ActivationFails` |
| a crash of the extension's Worker and its recovery | `CrashWorker`, `EndDeactivation`, then `BeginActivation` |

`UpdateIsAllOrNothing`: an update ends installed and disabled everywhere, or everything is as before, or
the old tree at least exists. `RunningCodeIsInstalled`: the page runs no other version than the one in the
directory. A crash deactivates the extension; activations asked for meanwhile wait for that
(`vscodeExtensionActivation.ts:4766-4769`), and a stop that comes joins it (5000-5001). One that waited goes
on without asking again whether activations are held back, and the stop that joined does not wait for it: the
history variable `stray` marks it, and the property excepts it, because it may start the old code after the
update (section 8). The property holds through all other crashes. A crash under a hold starts no
recovery (4370) and leaves everything as it is. Two versions and two unhandled requests: one
update or install beside any number of other operations, each of which may begin while the page still
works on the request of the one before; a third version adds states and no new step, and section 7 proves
both properties for every number. `reenabled_extension` has three versions. Approval tokens are left out.

**GitRebase** (`services/git_rebase_service.go`). git is external: it performs one action after the other
(`GitDrops`, `GitPicks`, `GitEdits`) until it is through (`GitFinishes`) or stops, at an edit, at a
conflict (`GitConflicts`), or at a commit it cannot try (`GitIsBlocked`); nothing else happens meanwhile.
Every call may end between two of its steps (`Interrupt`), but a git command that began runs to its end.

| code | model |
|---|---|
| `StartInteractiveRebase`, `abortAfterStartFailure` | `StartRebase`, `SaveStart`, `AbortStart` |
| `ApplyRebaseActions` | `ApplyRebaseActions`, `ReplaceTodo`, `FinishApply` |
| `ContinueRebase`, `recoverPendingRewordBeforeContinue` | `ContinueRebase`, `RecordReword`, `TodoChanged`, `RunContinue`, `AfterContinue` |
| `SkipCommit`, `AbortRebase` | `SkipCommit`, `RunSkip`, `AfterSkip`; `AbortRebase` |
| the state file | `rebaseState` |

`RewordsReachTheirCommits`: a finished rebase has exactly the commits the user asked for, in their order,
each with its own message or the new one. Three commits, every plan of pick, reword, edit and drop, with two
conflicts, two interrupted calls and one commit git cannot try, in every order: a reword between two others
can meet a conflict, be interrupted and retried. The property has a condition, `FileKeptUp`: git could try
every commit so far, and no call ended between what git did and its record in the state file with the file
wrong about it (`FileIsRight`: a commit is staged exactly if the file says that a command failed). Where the
condition fails the code does go wrong: `reword_blocked` shows it for a commit git cannot try, section 8 says
it of a call that dies after a conflict. The condition is not a bound: those behaviours are in the run, and
an interruption anywhere else, before, between and after conflicts, is inside the property.
squash, fixup and exec actions are left out.

## 6. Findings

| run | where | in short |
|---|---|---|
| `plan_and_switch` | `services/agent_execution_core.go:2230` | recursive read lock of the plan tool deadlocks with a project switch |
| `workflow_ai` | `agentcore/runtime.go:993` | completion of a workflow AI step changes the identity of its receipt and is refused |
| `undone_success` | `agentcore/runtime.go:1056` | retry after compensation cannot replace an already durable success |
| `usage_tail` | `services/ai_permission_service.go:424` | row without its line feed is accepted, and the next row is appended to its line |
| `late_handler` | `services/agent_lifecycle.go:2102` | a handler starts for a session completed after the redemption |
| `recovery_stuck` | `services/recovery_service.go:992` | a record a crash left in a transaction directory is listed but can never be decided |
| `reenabled_extension` | `services/marketplace_service.go:1697` | the hold of a disable is never released, so a re-enabled extension does not activate |
| `reword_blocked` | `services/git_rebase_service.go:984` | a reword that git could not try amends the commit before it |

`PROJECT.json` quotes for each what the repository says. `plan_and_switch` switches deadlock checking off,
since the deadlock is its subject.

## 7. What is proved

`SessionStoreProofs`, for every set of ids and units and every bound:

| theorem | states |
|---|---|
| `Invariance` | `Spec => []Inv`, the inductive invariant |
| `TypeCorrect` | `[]TypeOK` |
| `MemoryFollowsSnapshot` | `[]MemoryIsPublished` |
| `RestartSucceeds` | `[]EverySurvivorLoads` |
| `AuthorityIsFresh` | `[]AuthorityIsNeverInherited` |
| `PoisonIsFinal` | `PoisonFreezes` (not run) |
| `UsageCountsOnce` | `[]UsageIsExact` |
| `StoreImplementsTable` | `ImplementsTable`, the refinement of `SessionTable` |

`Inv` is `TypeOK /\ FilesInv /\ MemoryInv`. The properties alone are not inductive: that a restart
succeeds needs every surviving table to be *sound* (it passes the constructor's checks, and a recovery row
is open and unbound), and that authority is fresh needs the table in memory, and the one captured by a
workspace transition, to be *mine* (completed, in recovery, or owned by this process). The argument: every
transition of a live process installs one table through `Persist`, which leaves memory and snapshot equal
whatever the outcome; so an operation has to show only that the row it installs is sound and mine. One
lemma per row operation does that over rigid rows, `InstallRow` carries it to tables, and the step lemma
has one step per action. `RowMoves` sums up what an operation does to its row, and three proofs use it:
under `Inv` a save publishes the new table or is no step at all (`PersistPublishes`), so an operation is a
`SaveRow` of the table or a stutter (`RowStepSimulates`); and since a checkpoint is only added, of a unit
the row has not, every survivor stays exact, and so does the captured table, since no unit is acknowledged
while a transition is open (`UsageInv`). The assumptions are `SessionAssumption` and `AbsenceAssumption`.

`ToolExecutionProofs`, for every set of executions, every split of them into reversible, irreversible and
internal ones, with or without provider, and every number of pauses:

| theorem | states |
|---|---|
| `Invariance`, `TypeCorrect` | the inductive invariant, the types |
| `EffectsAreAccountedFor` | `[]EffectIsAccountedFor` |
| `ReceiptsAreHonest` | `[]ReceiptIsHonest` |
| `SuccessesAreWhole` | `[]SuccessIsWhole` |
| `OutcomesAreFinal` | `OutcomeIsFinal` |

`Inv` is `TypeOK`, `SessionInv` and one `UnitInv` per execution. `ReceiptIsHonest` is not inductive: that a
failed receipt will be true depends on the record Execute still carries, so `CompleteInv` says what that
record knows (`RecordIsTrue`), that no failed receipt stands in front of a compensation, and that only a
first completion can be a success. `BeginInv` says an execution before its handler is as it was made;
`GrantInv` says a live generation with an old grant is active, which is why a success whose session is
still live must have been observed. A step of one execution frames the others (`Frame`); pauses, closes
and crashes only take grants away (`LessLive`); an operator acts only after a crash, when nothing is in
flight. The assumption is `ExecutionAssumption`.

`WorkspaceAuthorityProofs`, for every set of workflow tools, plan tools, catalog reads, callbacks, terminal
transitions and switches, and every set of workspaces:

| theorem | states |
|---|---|
| `AuthorityInvariance`, `AuthorityTypeCorrect` | the inductive invariant, the types |
| `TerminalsExcludeTools` | `[]TerminalExcludesTools` |
| `CatalogsFollow` | `[]CatalogFollowsWorkspace` |
| `NoChangeIsLost` | `[]NoToolChangeIsLost` |
| `ReadersKeepTheirWorkspace` | `ReadersWorkInOneWorkspace` |

`AuthorityInv` says where a thread may be (`ControlInv`: on the path of its kind, resumed only at a step
that may call what it returns from), which side of which lock it holds or waits for there (`WorkflowInv`,
`WorkspaceInv`: `Sound` counts the claims of a lock, a place per thread ties them to its label), who holds
the catalog lock and defers refreshes (`DeferralInv`), and what is known of the contents (`CatalogInv`). The
properties are about the last; it is inductive only with the others, since a root changes only where every
reader is out and a callback that found the flag unset must be over before the roots move. The two parts
that carry it are "the catalog is that of the roots, or a switch is at a step that still refreshes or
undoes" (`FollowInv`) and "the catalog has the last version, or somebody will still read the tools"
(`VersionInv`). A switch begins to move roots only in a lifecycle that is not poisoned, hence from roots
that agree, and whoever ends one with roots that do not has poisoned it (`SwitchInv`); since no handler
starts or runs in a poisoned lifecycle (`HandlingInv`), every handler finds them in agreement. One lemma per
lock operation says what it does to `Sound` and to the places of the others. The assumption is
`AuthorityAssumption`: a thread is of one kind, which is what a thread of the model is, and there is a
workspace.

`AgentLifecycleProofs`, for every set of sessions, plans and goals among them, and callers, every limit of
the budget and every number of epochs, catalog revisions and switches:

| theorem | states |
|---|---|
| `Invariance`, `TypeCorrect` | the inductive invariant, the types |
| `RuntimeFollowsRows` | `[]AuthorityFollowsRows` |
| `WhatIsBurnedIsGone` | `[]BurnedStaysBurned` |
| `BudgetsBalance` | `[]BudgetMatchesGrants` |

`RowInv`: sessions the operation in progress is not about agree with their rows; its own is described stage
by stage (`OpInv`), where until the save the *remembered* flags agree with the row, which is why a rejected
save can be restored; the snapshot of a switch is an agreement of a healthy store, which is why a rollback
may clear the poison. `Agree` is stronger than the property: in a healthy store an open row has a
registered and bound session, else a resumed plan would register without a binding. `BindingInv`: every
token and request is of a generation already handed out, and a burned one of another than its session has
now; since a generation is never handed out twice it cannot become live again. `BudgetInv` counts the
reservations of the epoch; that the counted set is finite is part of the invariant and not an assumption on
the callers. The assumption is `LifecycleAssumption`.

`WorkspacesProofs`, about two modules: `SymbolIndex`, for every set of files, roots and calls, every placement
of the files under the roots and every bound on the versions; `MCPService`, for every set of servers,
workspaces, connects, writers and requests and every bound on endpoints and generations:

| theorem | states |
|---|---|
| `IndexInvariance`, `IndexTypeCorrect` | the inductive invariant of the index, its types |
| `NoGhosts` | `[]NoGhostSymbols` |
| `ServiceInvariance`, `ServiceTypeCorrect` | the inductive invariant of the MCP service, its types |
| `ServersAreAuthorized` | `[]RunningServersAreAuthorized` |
| `DeliveriesAreCurrent` | `ResultsAreCurrent` |
| `WorkspacesTypeCorrect` | `WorkspacesSpec => []WorkspacesTypeOK`, of all parts of the run |

The index. What a call holds may be out of date at every step, so `CallInv` is conditional: only *if* the
index still has the version and the file the generation the call read, the content it hashed is not older
than the oldest that may be indexed; and what it parsed has the hash only when it verified that.
`RebuildInv` says the same of a table under construction. Both are kept by whatever the others do because
versions and generations only grow and move exactly when that floor does.

The servers. `ProcessInv` says who owns a client that runs, and what an installed one was approved for;
`LifecycleInv` that only the holder of the lifecycle lock has clients left to stop, and that a switch which
holds it leaves nothing enabled or installed: that is why a failed stop may take the root back. What the
requests know is in `ToolCallInv` (no switch is under way, the lease is the workspace) and `ReadInv`: *if*
the generation of the transports is still the one the read began with, its client is installed and its
workspace the one the service follows. It is kept because each step that changes root or clients counts that
generation up, which is what makes the check after the answer enough, although the generation of the
workspace itself may come back. `CommitStep` does this once for every change of the configuration, the
switch and the shutdown.

The assumptions are `IndexAssumption` and `MCPAssumption`: names that stand for different callers differ.

`ServicesProofs`, about four modules: `TaskExecution`, for every set of executions, identifiers and stops;
`AIStreams`, for every set of streams, conversations and closers and every number of attempts; `MCPClient`,
for every set of callers and every bound on handlers, lists and requests; `DocumentSync`, for every set of
calls and texts, every number of edits and of server processes, full and incremental:

| theorem | states |
|---|---|
| `TaskInvariance`, `TaskTypeCorrect` | the inductive invariant of tasks, the types |
| `StopsReachTheirProcess` | `[]StopReachesItsProcess` |
| `ShutdownsComplete` | `[]ShutdownIsComplete`, of tasks |
| `StreamsInvariance`, `StreamsTypeCorrect` | the inductive invariant of streams, the types |
| `UnitsOwnTheirRows` | `[]UnitOwnsItsRow` |
| `ShutdownsDrain` | `[]ShutdownDrains`, of streams |
| `NobodyWaitsInACircle` | `[](Waiting => SomebodyCanGoOn)`, the first half of `NoCircularWait` |
| `ClientInvariance`, `ClientTypeCorrect` | the inductive invariant of the client, the types |
| `ListsAreCurrent` | `[]ListIsCurrent` |
| `WaitersAreServed` | `[]NoLostWaiter` |
| `TheServerHasTheText` | `[]ServerHasTheText` |
| `SyncTypeCorrect` | `[]SyncTypeOK`, with its bounds on calls and server processes |
| `NoSyncIsStranded` | `[]NoStrandedSync` |
| `ServicesTypeCorrect` | `ServicesSpec => []ServicesTypeOK`, of all parts of the run |
| `NothingSurvivesAShutdown` | `ServicesSpec => []ShutdownsAreComplete` |
| `EveryWaiterHasAnAnswer` | `ServicesSpec => []NoWaiterIsLost` |

Tasks: an execution that may still be stopped is `Findable`, and what is findable is in the table under its
identifier; `Consistent` ties reason, attempt and label to the stage. After the call of a shutdown every
execution is one of its targets or `Over`, and nothing that is over starts again.

Streams: `Unit` says for each stage of a worker whether it holds slot, lease and admission; that no two
streams of one session write its row (`OneWriter`) follows from the slot, and for the one that has given it
up to record a failed start from the admission it still holds (`FailureInv`). `CloserInv` says that a session
that is being closed is entered by nobody, `DrainInv` that nobody claims a slot that was sealed. `LeaseInv`
says that a lease of the workspace lock is held only by a stream or a closer between the step that takes it
and its end. None of the steps there waits for that lock, so a switch that waits for the leases waits for
somebody who can go on: `NobodyWaitsInACircle`.

The client: a list is worth something only while the caller knows what it was fetched under, so `Timely` is
conditional: *if* no notification was handled since the fetch began, the list is as new as what is announced;
it holds of replies and of responses still on the wire. `Served` says who waits is known to the reader, and
`CallsInv` that no two calls share an id and none is left when the transport ends.

The documents: as long as nothing was overtaken, at most one message is under way (`OnlyMessage`): that of
the pending change, or a close behind which nothing was opened yet. `SenderInv` says what its sender knows:
while it waits, an incremental change is relative to the text the server has; once it learned of success,
the server has what it sent, and the client is about to note it. So server and client differ only while that
answer is under way (`RemoteInv`). That a flush finds the wire empty follows from the flags of the pending
change, and that no waiter is stranded from the same flags even when messages are overtaken.

The assumptions are `TaskAssumption`, `StreamsAssumption`, `ClientAssumption` and `SyncAssumption`: names
that stand for the absence of something are not taken for something, and limits are numbers.

The services together: `StepsAreTheirOwn` shows that a step of `ServicesSpec` is a step of one service or a
stutter of it, so a behaviour of the composition is one of each service (`EveryServiceRuns`, which uses the
lifecycle, the extension and the rebase too); what is proved of each then holds of the composition.
`ShutdownIsComplete` with `ShutdownDrains` is `ShutdownsAreComplete`, `NoLostWaiter` with `NoStrandedSync`
is `NoWaiterIsLost`.

`ExtensionRebaseProofs`, about two modules: `ExtensionUpdate`, for every number of releases and every queue
of requests, and `GitRebase`, for every sequence of commits and every number of conflicts and interrupted
calls:

| theorem | states |
|---|---|
| `ExtensionInvariance`, `ExtensionTypeCorrect` | the inductive invariant of an extension, its types |
| `UpdatesAreAllOrNothing` | `[]UpdateIsAllOrNothing` |
| `PagesRunWhatIsInstalled` | `[]RunningCodeIsInstalled`, stray activations excepted |
| `RebaseTypeCorrect` | `[]RebaseTypeOK`, whatever happens to a rebase |
| `RewordsArrive` | `[]RewordsReachTheirCommits`, also with blocked commits |

`UpdateInv` says, for each stage of an update, where the old tree, the new tree and the old record are.
`PageInv` says why no activation slips in between: while the operation waits, its request to stop is the
last in the queue, and once it was answered the page is quiet (`PageIsQuiet`): stopped, held, nothing
running, nothing half read, nothing queued, no crashed Worker being deactivated, until the operation itself
releases it, but for an activation it did not wait for (`stray`). It is quiet when it joined a
deactivation because that one waits for the activation there was (`activationPromises`), and a second is
begun only by those that waited.

The rebase: the property speaks of the end only, so `ReplayInv` says what is true while the user's actions
are in place. Of the actions that git has taken (`Tried`) each was dropped, skipped, is staged after a
conflict, or is in the history once and in order (`CoverInv`, `HeadInv`); a reword that git has not reached
is still in the state file (`MessagesInv`), and of the commits in the history only the last one may wait for
its message, at REBASE_HEAD (`TextInv`). `StepInv` is what makes `recoverPendingRewordBeforeContinue` decide
correctly: between calls a commit is staged exactly if the state file records a command error. That is
claimed while `FileKeptUp` holds, of the rebase so far: once it fails it never holds again (`KeptUpBefore`),
so the steps after it need no argument. An interruption that leaves the file right keeps it. Before the
actions are in place nothing is replayed (`FreshInv`), which is why a retry of `ApplyRebaseActions` is
harmless (`CallInv`); this and `RebaseTypeCorrect` need no condition.

The assumptions are `ReleaseAssumption` and `RebaseAssumption`: the commits to replay are a sequence
without repetition, and the names for what there is not are none of theirs.

`StorageProofs`, about four modules: `InstanceLock`, for every set of processes; `RecoveryJournal`, for
every set of pages and paths and every number of crashes and stuck writers; `UsageLedger`, for every set of
units and identities and every length of the file; `EditTransaction`, for every set of edits, saves and
files, every order of the files of an edit and every number of deaths:

| theorem | states |
|---|---|
| `LockInvariance` | the inductive invariant of the lock |
| `TheLockExcludes` | `[]OneInstance` |
| `JournalInvariance`, `JournalTypeCorrect` | the inductive invariant of the journal, its types |
| `WorkIsKept` | `[]NoWorkIsLost` |
| `LedgerTypeCorrect` | `[]LedgerTypeOK` |
| `LoadFollowsTheLoop` | `[]LoadIsTheLoop` |
| `LedgerInvariance` | the inductive invariant of the ledger |
| `ProjectionFollowsLedger` | `[]ProjectionIsLedger` |
| `AckedRowsSurvive` | `[](OneRowPerLine(file) => AckedRowIsReadable)` |
| `LedgerImplementsReceipts` | `ReceiptsMoveOnce`, the refinement of `ReceiptTable` |
| `EditsAreTyped` | `[]EditTypeOK` |
| `EditsStayHonest` | `EditsAreHonest`, an action property |
| `StorageTypeCorrect` | `StorageSpec => []StorageTypeOK`, of all parts of the run, the sessions too |

The lock: the steps that touch the file are taken by the holder of the guard, so while a process inspects,
checks and removes the file nobody else changes it: it stays its own, or names nobody, or names a process
that is gone and stays gone (`Abandoned`). `FileChanges` lists the only three ways a step changes the file,
`OthersAreSafe` concludes for the processes that do not move, `TheStepIsSafe` for the one that does.

The journal: `CommitInv` says a transaction without its marker holds only decided records, one per buffer,
none of which a page can have written again; so both its rollback and a crash leave every buffer
recoverable. `GateInv` says that whoever may resolve the phase, a scan that was read, a pending phase or a
commit, knows every buffer an earlier process still owes.

The ledger: nothing is assumed of the cuts; each property is conditional on the state, `OneRowPerLine`, as
section 2 explains. Whether a row is rejected depends on the file up to the next chunk
(`RowRejectedLocally`), and where no two rows share a line that chunk is its line feed or missing; so the
start of such a file, wherever it was cut, is read as the file is up to there (`AcceptedLocally`,
`StartKeepsLines`), and what it shows of a unit is a stage of what the file shows (`LoadedGrows`). A torn
remainder hides nothing (`TornIsIgnored`). A row that was written and shares no line stands behind a
line feed (`WrittenApart`) and, since it does not contradict what was read, moves one receipt
(`WrittenRowMoves`). What a power loss leaves has the synced rows (`SurvivorReads`), so what was acknowledged
is read in `Kept`, the synced start of the file. That a set of positions has a last one, which
`Folded` needs, comes from the well-foundedness of the naturals.

`LoadFollowsTheLoop` needs no such condition: it is about every file there is. The folds of the library
are first shown to be runs of the loop (`FoldExists`, `FoldRun`), so a loop with one step more goes on where
the shorter one ended (`LoopGoesOn`, `CutGoesOn`). Then a shortest file that the loop reads otherwise is
refuted (`EveryFileEnds`): up to its last line feed the loop has read what `Loaded` says (`LastLine`), and
one iteration reads the line after it (`IterationReads`). The library's induction theorems are not used.

The edits: whatever a file holds of an edit, either the edit has not taken it back (`Written`), or somebody
previewed it and may have restored it (`Based`); an edit that ends as refused or rolled back is not
`Written`, so nothing of it is left but what another one restored. `EditInv` also says that an edit of the
agent, which has one file, never has to undo, and that an edit reports only as it ends. `SaveLockInv` says
that whoever is between comparison and rename has the lock, and that what it compared still holds unless
somebody writes past the lock. `OthersKeep` shows once for all steps that the move of one edit leaves the
knowledge of the others true, `OwnMove` what the one that moves has to show.

The assumptions are `InstanceAssumption`, `JournalAssumption`, `LedgerAssumption` and `EditAssumption`:
edits and saves have different names, and an edit has at least one file; one without files, as of a replace
that found nothing, writes nothing and is left out. The same file may occur twice.

Everything else is model-checked only. Liveness stays with TLC (`ExecutionEnds`, `EveryCallReturns`): the
prover has no rule for `ENABLED`. So does the second half of `NoCircularWait`, that the step whose guard
holds is enabled; the guards are proved (`NobodyWaitsInACircle`).

## 8. Observed while modelling, without a run

* `agentcore/runtime.go:328` says an attempted workspace transition burns every outstanding approval; a
  switch that is rejected early leaves tokens redeemable.
* A rejected close of a paused session registers it active before suspending it again
  (`agent_lifecycle.go:1789`, 1862). A session whose close timed out stays in `closingSessions`.
* A discard of a session or a terminal receipt that was published with unknown durability and is read back
  by the next process is confirmed without another write (`agentcore/session.go:827`, 795-798).
* Workflow attempts (`task_service.go:321-355`, 387-424, 463-507): when the usage is recorded and the
  checkpoint after it fails, the row stays running without a pending attempt.
* A stream's worker holds the read lease of the workspace until it ends, so a project switch may wait for
  the stream's deadline; a catalog refresh waits for a server's answer under the same lock. The failure path
  of `StartAgentStream` records after its claim is closed, so a shutdown may report a drain before it.
* `workspace_context.go:24-26` says that whatever was minted under an older generation can detect that its
  workspace is no longer active. An undone switch restores the generation (`project_service.go:503-507`
  explains why), so the next switch gives the same number out again, and to the same root the same identity:
  a lease of the undone switch would be current again. Tools are protected by `workspaceAuthorityMu`, MCP
  reads by the generation of the transports; with six of these, and without that lock, `MCPService` does show
  a tool called in the wrong workspace, in the second of two switches of which the first was undone.
* MCP: the comment at `mcp_service.go:273-276` contradicts `project_service.go:380-382` on whether the
  failing setter is rolled back (it is). `ServerCapabilities` is refused after any other server's change.
  A saturated handler queue drops a catalog refresh. `SetServerEnabled` keeps its locks during its dialog.
* Edits: diff, replace and LSP writes do not take `saveMu`, so they can overwrite a save made between check
  and write; a death between two writes leaves a partial edit without receipt; `IsDirty` is nil in every
  production caller although `workspace_edit_transaction.go:13` announces the check.
* Language server: when the write of a change outlives its deadline (`lsp_service_rpc.go:229`), the change
  is dropped (`lsp_service_sync.go:295-300`), but it may still arrive; the next change then has the same
  version and is relative to a text the server no longer holds. Only the deadline of the waiter avoids
  that (`lsp_service_sync.go:322-326`). A close does not wait for a change under way, nor an open for a
  close, and their writers only contend for a lock, so a change may arrive behind the close.
* Instance lock: `instance_lock.go:14` promises that instances do not run simultaneously, but the desktop
  has no guard. A second start that reads the file of the first before it is written takes it for the empty
  file of a crash; when the first writes between its check and its removal, the second removes a held lock
  and both run. The same model without `rootBound` in `OneInstance` shows it.
* Index: a query during a rebuild returns the partial index; a rebuild that lost a race is not published
  but counts as fresh.
* Extensions: the comment at `vscodeExtensionActivation.ts:4670` ("Prevent activation and Worker crash
  recovery during a backend transaction") does not hold of an activation that waits for the deactivation of
  a crashed Worker (4766-4769) when a stop joins the same deactivation: it goes on under the hold, in no
  list the stop waits for. When it reads the source before the update exchanges the directory and ends after
  the hold is released, old code runs; `RunningCodeIsInstalled` without `stray` shows it.
* A crash between publication and registration of an update leaves the new tree under the old,
  possibly enabled record; `.backup` and `.updating` directories with metadata are listed as installed; an
  uninstall goes on when the page refused to stop.
* Rebase: after a conflict at a reword, a call that dies before the stop is recorded and a resolution by the
  user, the next call amends the previous commit (`RewordsReachTheirCommits` without `FileKeptUp` shows it
  with one conflict and one interrupted call); a death between the commit of a reword and its record
  adds an empty commit; a conflict at a pick that was not recorded can only be aborted.

## 9. Plan

1. Goals, plans and the step machine of a workflow (`ai_goal_service.go`, `ai_plan_service.go`,
   `workflow_engine.go`): statuses with retry, resume and cancellation against lifecycle rows.
2. Language server client: diagnostics and results against stale versions.
3. Workflow skills: journalled file effects and their compensation.
4. Debugger: threads and requests across a restart of the adapter.
5. `ContextManager.Select` as an operator against a reference definition.

Proofs: the modules that will be added.

## 10. Not modelled

Pure I/O or data: single git commands, search, database and remote tools, downloads and archives, settings,
secrets, wire formats, parsers and prompts; the user interface apart from the extension host's queue; the
build. Provider HTTP traffic is an outcome of a handler. `PROJECT.json` gives the reason for each
component.
