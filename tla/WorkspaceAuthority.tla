------------------------ MODULE WorkspaceAuthority ------------------------
(***************************************************************************)
(* The locks around the agent's workspace authority                        *)
(* (src/services/agent_execution_core.go, project_service.go,              *)
(* agent_service.go, task_service.go) and the dynamic tool catalog they    *)
(* keep coherent.                                                          *)
(*                                                                         *)
(* Every thread is a goroutine that runs one kind of call over and over:   *)
(* a project switch takes workflowExecutionMu and workspaceAuthorityMu for *)
(* writing, a workflow terminal transition takes the first for writing and *)
(* the second for reading, tool calls and catalog reads take the second    *)
(* for reading, and the callback of the MCP service takes neither, only    *)
(* catalogRefreshMu.  One action is one step between two lock operations.  *)
(*                                                                         *)
(* The workspace roots of the services are two, the agent's (with its      *)
(* skills) and the MCP service's, which are the ones a catalog is built    *)
(* from; the other setters differ in nothing a property here tells apart.  *)
(***************************************************************************)
EXTENDS Integers, FiniteSets

CONSTANTS
    Switchers,      \* ProjectService.AddProject / RemoveProject
    Terminals,      \* TaskService.CompleteWorkflowExecution / FailWorkflowExecution
    WorkflowTools,  \* ExecuteApprovedAgentTool in a workflow session
    PlanTools,      \* ExecuteApprovedAgentTool of the tool "plan"
    Readers,        \* GetAgentToolCatalog
    Callbacks,      \* MCPService.notifyToolsChanged
    NoThread,       \* the holder of a free mutex
    Workspaces,     \* workspace roots
    NoCatalog,      \* the cleared dynamic tool sources
    NoGoal,         \* no switch has chosen its root
    MaxVersion      \* bound: changes of the MCP server's tools

Threads == Switchers \cup Terminals \cup WorkflowTools \cup PlanTools
             \cup Readers \cup Callbacks

\* A thread runs calls of one kind.
ASSUME AuthorityAssumption ==
    /\ Terminals \cap Switchers = {}
    /\ WorkflowTools \cap (Switchers \cup Terminals) = {}
    /\ PlanTools \cap (Switchers \cup Terminals \cup WorkflowTools) = {}
    /\ Readers \cap (Switchers \cup Terminals \cup WorkflowTools \cup PlanTools) = {}
    /\ Callbacks \cap (Switchers \cup Terminals \cup WorkflowTools \cup PlanTools \cup Readers) = {}
    /\ NoThread \notin Threads
    /\ Workspaces # {}
    /\ MaxVersion \in Nat

VARIABLES
    pc,            \* where each thread is
    workflowMu,    \* deps.workflowExecutionMu
    workspaceMu,   \* deps.workspaceAuthorityMu
    catalogMu,     \* the thread that holds catalogRefreshMu
    depth,         \* deps.workspaceCatalogDeferralDepth
    pending,       \* deps.workspaceCatalogRefreshPending
    roots,         \* the roots of the services: [agent, mcp]
    poisoned,      \* the session store is poisoned, no session is registered
    version,       \* version of the tools the MCP servers offer
    catalog,       \* what the dynamic sources were built from
    seen,          \* what the holder of catalogRefreshMu has read so far
    resume,        \* where a thread goes on after its refresh
    goal           \* the old roots and the new root of the switch in progress

authorityVars == <<pc, workflowMu, workspaceMu, catalogMu, depth, pending, roots,
                  poisoned, version, catalog, seen, resume, goal>>

locks == <<workflowMu, workspaceMu, catalogMu>>
deferral == <<depth, pending>>
contents == <<roots, poisoned, version, catalog, seen, resume, goal>>

-----------------------------------------------------------------------------
(* sync.RWMutex.  A writer first announces itself, which stops new readers, *)
(* and then waits for the readers before it; its Unlock lets in the readers *)
(* that queued behind it before another writer can announce itself.        *)

Free == [active |-> [t \in Threads |-> 0], queued |-> {}, writer |-> NoThread,
         held |-> FALSE]

\* Mutant: a reader takes the lock twice and gives it back once.
RLockedTwice(mu, t) ==
    IF mu.writer = NoThread THEN [mu EXCEPT !.active[t] = @ + 2]
    ELSE [mu EXCEPT !.queued = @ \cup {t}]

RLocked(mu, t) ==
    IF mu.writer = NoThread THEN [mu EXCEPT !.active[t] = @ + 1]
    ELSE [mu EXCEPT !.queued = @ \cup {t}]

RUnlocked(mu, t) == [mu EXCEPT !.active[t] = @ - 1]

Announced(mu, t) == [mu EXCEPT !.writer = t]

\* Mutant: a writer does not wait for the readers.
DrainedAtOnce(mu) == TRUE

Drained(mu) == \A t \in Threads : mu.active[t] = 0

Locked(mu) == [mu EXCEPT !.held = TRUE]

\* Mutant: the readers behind a writer are not let in.
UnlockedWithoutWakeup(mu) == [mu EXCEPT !.writer = NoThread, !.held = FALSE]

Unlocked(mu) ==
    [active |-> [t \in Threads |-> mu.active[t] + IF t \in mu.queued THEN 1 ELSE 0],
     queued |-> {}, writer |-> NoThread, held |-> FALSE]

Reading(mu, t) == mu.active[t] > 0

-----------------------------------------------------------------------------
(* Control.                                                                *)

\* Thread t is at `label` and no lock keeps it waiting.
At(t, label) ==
    /\ pc[t] = label
    /\ t \notin workflowMu.queued \cup workspaceMu.queued

Goto(t, label) == pc' = [pc EXCEPT ![t] = label]

Entry(t) ==
    CASE t \in Switchers \cup Terminals     -> "workflowLock"
      [] t \in WorkflowTools                -> "workflowRLock"
      [] t \in PlanTools \cup Readers       -> "workspaceRLock"
      [] t \in Callbacks                    -> "toolsChanged"

Call(t) ==
    /\ At(t, "idle")
    /\ t \in Callbacks => version < MaxVersion
    /\ Goto(t, Entry(t))
    /\ UNCHANGED <<locks, deferral, contents>>

\* Lock of workflowExecutionMu: announce, then wait for the readers.
LockWorkflow(t) ==
    /\ UNCHANGED <<workspaceMu, catalogMu, deferral, contents>>
    /\ \/ /\ At(t, "workflowLock")
          /\ workflowMu.writer = NoThread
          /\ workflowMu' = Announced(workflowMu, t)
          /\ Goto(t, "workflowDrain")
       \/ /\ At(t, "workflowDrain")
          /\ Drained(workflowMu)
          /\ workflowMu' = Locked(workflowMu)
          /\ Goto(t, IF t \in Switchers THEN "workspaceLock" ELSE "workspaceRLock")

\* A workflow session's tool reads workflowExecutionMu around everything else.
RLockWorkflow(t) ==
    /\ At(t, "workflowRLock")
    /\ workflowMu' = RLocked(workflowMu, t)
    /\ Goto(t, "workspaceRLock")
    /\ UNCHANGED <<workspaceMu, catalogMu, deferral, contents>>

RLockWorkspace(t) ==
    /\ At(t, "workspaceRLock")
    /\ workspaceMu' = RLocked(workspaceMu, t)
    /\ Goto(t, "authorized")
    /\ UNCHANGED <<workflowMu, catalogMu, deferral, contents>>

RUnlockWorkspace(t) ==
    /\ At(t, "workspaceRUnlock")
    /\ workspaceMu' = RUnlocked(workspaceMu, t)
    /\ Goto(t, CASE t \in Terminals     -> "workflowUnlock"
                 [] t \in WorkflowTools -> "workflowRUnlock"
                 [] OTHER               -> "idle")
    /\ UNCHANGED <<workflowMu, catalogMu, deferral, contents>>

UnlockWorkflow(t) ==
    /\ \/ /\ At(t, "workflowUnlock")
          /\ workflowMu' = Unlocked(workflowMu)
       \/ /\ At(t, "workflowRUnlock")
          /\ workflowMu' = RUnlocked(workflowMu, t)
    /\ Goto(t, "idle")
    /\ UNCHANGED <<workspaceMu, catalogMu, deferral, contents>>

-----------------------------------------------------------------------------
(* The dynamic catalog refresh, under catalogRefreshMu.                    *)

\* Call the refresh at `label` and go on at `next`.
Refresh(t, label, next) ==
    /\ Goto(t, label)
    /\ resume' = [resume EXCEPT ![t] = next]

Return(t, label) ==
    /\ Goto(t, label)
    /\ resume' = [resume EXCEPT ![t] = "idle"]

\* refreshDynamicAgentToolsNow and GetAgentToolCatalog do not ask whether a
\* workspace transaction defers refreshes, refreshDynamicAgentTools does.
LockCatalog(t) ==
    /\ catalogMu = NoThread
    /\ catalogMu' = t
    /\ \/ At(t, "catalogLock") /\ Goto(t, "readAgent")
       \/ At(t, "catalogLockAndAsk") /\ Goto(t, "ask")
    /\ UNCHANGED <<workflowMu, workspaceMu, deferral, contents>>

\* Mutant: a deferred refresh is not remembered.
RefreshDropped(t) ==
    /\ At(t, "ask")
    /\ IF depth > 0
       THEN catalogMu' = NoThread /\ Return(t, resume[t])
       ELSE Goto(t, "readAgent") /\ UNCHANGED <<catalogMu, resume>>
    /\ UNCHANGED <<workflowMu, workspaceMu, deferral, roots, poisoned, version, catalog,
                   seen, goal>>

\* deferWorkspaceCatalogRefresh, inside catalogRefreshMu.
AdmitRefresh(t) ==
    /\ At(t, "ask")
    /\ IF depth > 0
       THEN /\ pending' = TRUE
            /\ catalogMu' = NoThread
            /\ Return(t, resume[t])
       ELSE /\ Goto(t, "readAgent")
            /\ UNCHANGED <<pending, catalogMu, resume>>
    /\ UNCHANGED <<workflowMu, workspaceMu, depth, roots, poisoned, version, catalog,
                   seen, goal>>

\* The sources are read service by service.
ReadAgent(t) ==
    /\ At(t, "readAgent")
    /\ seen' = [agent |-> roots.agent]
    /\ Goto(t, "readMcp")
    /\ UNCHANGED <<locks, deferral, roots, poisoned, version, catalog, resume, goal>>

ReadMCP(t) ==
    /\ At(t, "readMcp")
    /\ seen' = [agent |-> seen.agent, mcp |-> roots.mcp, version |-> version]
    /\ Goto(t, "publish")
    /\ UNCHANGED <<locks, deferral, roots, poisoned, version, catalog, resume, goal>>

\* Publish every source at once, or clear them all when one failed; a flush
\* that failed is repeated after the rollback it causes.
PublishCatalog(t) ==
    /\ At(t, "publish")
    /\ catalogMu' = NoThread
    /\ seen' = NoCatalog
    /\ \/ /\ catalog' = seen
          /\ Return(t, resume[t])
          /\ UNCHANGED pending
       \/ /\ catalog' = NoCatalog
          /\ IF resume[t] = "save"
             THEN pending' = TRUE /\ Return(t, "undoMcp")
             ELSE Return(t, resume[t]) /\ UNCHANGED pending
    /\ UNCHANGED <<workflowMu, workspaceMu, depth, roots, poisoned, version, goal>>

-----------------------------------------------------------------------------
(* What the readers of the workspace authority do with it.                 *)

\* A workflow tool runs its handler, a terminal transition checkpoints; both
\* see the roots and change nothing here.
RunToolHandler(t) ==
    /\ \/ t \in Terminals /\ At(t, "authorized") /\ Goto(t, "workspaceRUnlock")
       \/ t \in WorkflowTools /\ At(t, "authorized") /\ ~poisoned /\ Goto(t, "handling")
       \/ t \in WorkflowTools /\ At(t, "handling") /\ Goto(t, "workspaceRUnlock")
    /\ UNCHANGED <<locks, deferral, contents>>

\* Of a poisoned lifecycle no session is registered with the runtime, which
\* turns the capability down.
RefuseTool(t) ==
    /\ t \in WorkflowTools \cup PlanTools
    /\ At(t, "authorized")
    /\ poisoned
    /\ Goto(t, "workspaceRUnlock")
    /\ UNCHANGED <<locks, deferral, contents>>

\* GetAgentToolCatalog.
ReadCatalog(t) ==
    /\ t \in Readers
    /\ At(t, "authorized")
    /\ Refresh(t, "catalogLock", "workspaceRUnlock")
    /\ UNCHANGED <<locks, deferral, roots, poisoned, version, catalog, seen, goal>>

\* The handler of the tool "plan" asks for the catalog, and then a provider;
\* each takes the read side once more.
PlanHandler(t) ==
    /\ t \in PlanTools
    /\ \/ /\ At(t, "authorized")
          /\ ~poisoned
          /\ workspaceMu' = RLocked(workspaceMu, t)
          /\ Goto(t, "nestedCatalog")
          /\ UNCHANGED resume
       \/ /\ At(t, "nestedCatalog")
          /\ Refresh(t, "catalogLock", "nestedRUnlock")
          /\ UNCHANGED workspaceMu
       \/ /\ At(t, "nestedRUnlock")
          /\ workspaceMu' = RUnlocked(workspaceMu, t)
          /\ Goto(t, "provider")
          /\ UNCHANGED resume
       \/ /\ At(t, "provider")
          /\ workspaceMu' = RLocked(workspaceMu, t)
          /\ Goto(t, "providerAnswered")
          /\ UNCHANGED resume
       \/ /\ At(t, "providerAnswered")
          /\ workspaceMu' = RUnlocked(workspaceMu, t)
          /\ Goto(t, "workspaceRUnlock")
          /\ UNCHANGED resume
    /\ UNCHANGED <<workflowMu, catalogMu, deferral, roots, poisoned, version, catalog,
                   seen, goal>>

\* The tools of a server change, and the callback refreshes the catalog.
ToolsChanged(t) ==
    /\ At(t, "toolsChanged")
    /\ version' = IF version < MaxVersion THEN version + 1 ELSE version
    /\ Refresh(t, "catalogLockAndAsk", "idle")
    /\ UNCHANGED <<locks, deferral, roots, poisoned, catalog, seen, goal>>

-----------------------------------------------------------------------------
(* A project switch.                                                       *)

LockWorkspace(t) ==
    /\ UNCHANGED <<workflowMu, catalogMu, deferral, contents>>
    /\ \/ /\ At(t, "workspaceLock")
          /\ workspaceMu.writer = NoThread
          /\ workspaceMu' = Announced(workspaceMu, t)
          /\ Goto(t, "workspaceDrain")
       \/ /\ At(t, "workspaceDrain")
          /\ Drained(workspaceMu)
          /\ workspaceMu' = Locked(workspaceMu)
          /\ Goto(t, "defer")

DeferRefreshes(t) ==
    /\ At(t, "defer")
    /\ depth' = depth + 1
    /\ pending' = TRUE
    /\ Goto(t, "drainRefresh")
    /\ UNCHANGED <<locks, contents>>

\* Lock and at once unlock catalogRefreshMu.
DrainRefresh(t) ==
    /\ At(t, "drainRefresh")
    /\ catalogMu = NoThread
    /\ \E root \in Workspaces :
         goal' = [old |-> roots, new |-> root]
    /\ Goto(t, "setAgent")
    /\ UNCHANGED <<locks, deferral, roots, poisoned, version, catalog, seen, resume>>

\* The sessions of the old root are closed, which a poisoned store refuses and
\* an indeterminate save poisons.  The skills of the agent's root are reloaded,
\* which asks for a refresh.
SetAgentRoot(t) ==
    /\ At(t, "setAgent")
    /\ \/ /\ ~poisoned
          /\ roots' = [roots EXCEPT !.agent = goal.new]
          /\ pending' = TRUE
          /\ Goto(t, "setMcp")
          /\ UNCHANGED poisoned
       \/ /\ Goto(t, "release")
          /\ poisoned' \in {poisoned, TRUE}
          /\ UNCHANGED <<roots, pending>>
    /\ UNCHANGED <<locks, depth, version, catalog, seen, resume, goal>>

\* A setter may report an error after it has changed its root, and one whose
\* old servers do not stop has put its root back.  The refresh that its callback
\* asks for is due at the end of the switch anyway.
SetMCPRoot(t) ==
    /\ At(t, "setMcp")
    /\ \/ roots' = [roots EXCEPT !.mcp = goal.new] /\ Goto(t, "flush")
       \/ roots' = [roots EXCEPT !.mcp = goal.new] /\ Goto(t, "undoMcp")
       \/ UNCHANGED roots /\ Goto(t, "undoMcp")
    /\ UNCHANGED <<locks, deferral, poisoned, version, catalog, seen, resume, goal>>

FlushCatalog(t) ==
    /\ At(t, "flush")
    /\ pending' = FALSE
    /\ Refresh(t, "catalogLock", "save")
    /\ UNCHANGED <<locks, depth, roots, poisoned, version, catalog, seen, goal>>

\* The project list is written; when that fails, everything is undone.
SaveProjects(t) ==
    /\ At(t, "save")
    /\ Goto(t, "release") \/ Goto(t, "undoMcp")
    /\ UNCHANGED <<locks, deferral, contents>>

\* The way back is applyWorkspaceRoot once more: it changes nothing where the
\* root is the old one, and a server that does not stop leaves the new one.
UndoMCPRoot(t) ==
    /\ At(t, "undoMcp")
    /\ roots' \in {roots, [roots EXCEPT !.mcp = goal.old.mcp]}
    /\ Goto(t, "undoAgent")
    /\ UNCHANGED <<locks, deferral, poisoned, version, catalog, seen, resume, goal>>

\* Mutant: the rollback asks for no refresh.
UndoWithoutRefresh(t) ==
    /\ At(t, "undoAgent")
    /\ roots' = [roots EXCEPT !.agent = goal.old.agent]
    /\ \E restored \in BOOLEAN :
         poisoned' = (poisoned \/ ~restored \/ roots.mcp # goal.old.mcp)
    /\ Goto(t, "release")
    /\ UNCHANGED <<locks, deferral, version, catalog, seen, resume, goal>>

\* Mutant: a failed rollback poisons nothing.
UndoWithoutPoison(t) ==
    /\ At(t, "undoAgent")
    /\ roots' = [roots EXCEPT !.agent = goal.old.agent]
    /\ \E restored \in BOOLEAN : poisoned' = (poisoned \/ ~restored)
    /\ pending' = TRUE
    /\ Goto(t, "release")
    /\ UNCHANGED <<locks, depth, version, catalog, seen, resume, goal>>

\* restoreWorkspaceState reloads the skills, which asks for a refresh.  The
\* root comes back in any case; rows or skills that do not, and any setter
\* whose rollback failed, poison the agent's authority.
UndoAgentRoot(t) ==
    /\ At(t, "undoAgent")
    /\ roots' = [roots EXCEPT !.agent = goal.old.agent]
    /\ \E restored \in BOOLEAN :
         poisoned' = (poisoned \/ ~restored \/ roots.mcp # goal.old.mcp)
    /\ pending' = TRUE
    /\ Goto(t, "release")
    /\ UNCHANGED <<locks, depth, version, catalog, seen, resume, goal>>

\* The guard's release refreshes before it gives up the write sides.
ReleaseGuard(t) ==
    /\ At(t, "release")
    /\ depth' = depth - 1
    /\ IF pending /\ depth = 1
       THEN /\ pending' = FALSE
            /\ Refresh(t, "catalogLockAndAsk", "workspaceUnlock")
       ELSE /\ Goto(t, "workspaceUnlock")
            /\ UNCHANGED <<pending, resume>>
    /\ goal' = NoGoal
    /\ UNCHANGED <<locks, roots, poisoned, version, catalog, seen>>

UnlockWorkspace(t) ==
    /\ At(t, "workspaceUnlock")
    /\ workspaceMu' = Unlocked(workspaceMu)
    /\ Goto(t, "workflowUnlock")
    /\ UNCHANGED <<workflowMu, catalogMu, deferral, contents>>

-----------------------------------------------------------------------------
AuthorityInit ==
    /\ pc = [t \in Threads |-> "idle"]
    /\ workflowMu = Free
    /\ workspaceMu = Free
    /\ catalogMu = NoThread
    /\ depth = 0
    /\ pending = FALSE
    /\ \E root \in Workspaces :
         /\ roots = [agent |-> root, mcp |-> root]
         /\ catalog = [agent |-> root, mcp |-> root, version |-> 0]
    /\ poisoned = FALSE
    /\ version = 0
    /\ seen = NoCatalog
    /\ goal = NoGoal
    /\ resume = [t \in Threads |-> "idle"]

\* Everything a thread does between the call and the return.
Step(t) ==
    \/ LockWorkflow(t)
    \/ RLockWorkflow(t)
    \/ RLockWorkspace(t)
    \/ RUnlockWorkspace(t)
    \/ UnlockWorkflow(t)
    \/ LockCatalog(t)
    \/ AdmitRefresh(t)
    \/ ReadAgent(t)
    \/ ReadMCP(t)
    \/ PublishCatalog(t)
    \/ RunToolHandler(t)
    \/ RefuseTool(t)
    \/ ReadCatalog(t)
    \/ PlanHandler(t)
    \/ ToolsChanged(t)
    \/ LockWorkspace(t)
    \/ DeferRefreshes(t)
    \/ DrainRefresh(t)
    \/ SetAgentRoot(t)
    \/ SetMCPRoot(t)
    \/ FlushCatalog(t)
    \/ SaveProjects(t)
    \/ UndoMCPRoot(t)
    \/ UndoAgentRoot(t)
    \/ ReleaseGuard(t)
    \/ UnlockWorkspace(t)

AuthorityNext == \E t \in Threads : Call(t) \/ Step(t)

AuthoritySpec == AuthorityInit /\ [][AuthorityNext]_authorityVars

\* Go's mutexes do not starve a waiter, and a handler ends.  No fairness is
\* asked of Call: a user may never switch the project again.
FairAuthoritySpec == AuthoritySpec /\ \A t \in Threads : SF_authorityVars(Step(t))

-----------------------------------------------------------------------------
(* Properties.                                                             *)

Labels ==
    {"idle", "workflowLock", "workflowDrain", "workflowRLock",
     "workflowUnlock", "workflowRUnlock", "workspaceLock",
     "workspaceDrain", "workspaceRLock", "workspaceUnlock",
     "workspaceRUnlock", "authorized", "handling", "catalogLock",
     "catalogLockAndAsk", "ask", "readAgent", "readMcp", "publish",
     "nestedCatalog", "nestedRUnlock", "provider", "providerAnswered",
     "toolsChanged", "defer", "drainRefresh", "setAgent", "setMcp",
     "flush", "save", "undoMcp", "undoAgent", "release"}

Mutexes == [active : [Threads -> 0 .. 2], queued : SUBSET Threads,
            writer : Threads \cup {NoThread}, held : BOOLEAN]

Sources == [agent : Workspaces, mcp : Workspaces, version : 0 .. MaxVersion]

\* Types of the variables.
AuthorityTypeOK ==
    /\ pc \in [Threads -> Labels]
    /\ {workflowMu, workspaceMu} \subseteq Mutexes
    /\ catalogMu \in Threads \cup {NoThread}
    /\ depth \in 0 .. 1
    /\ pending \in BOOLEAN
    /\ roots \in [agent : Workspaces, mcp : Workspaces]
    /\ poisoned \in BOOLEAN
    /\ version \in 0 .. MaxVersion
    /\ catalog \in Sources \cup {NoCatalog}
    /\ seen \in Sources \cup [agent : Workspaces] \cup {NoCatalog}
    /\ resume \in [Threads -> Labels]
    /\ goal \in [old : [agent : Workspaces, mcp : Workspaces], new : Workspaces] \cup {NoGoal}

\* The tools whose handler runs.
Handling(t) ==
    \/ t \in WorkflowTools /\ pc[t] = "handling"
    \/ t \in PlanTools /\ pc[t] \notin {"idle", "workspaceRLock", "authorized", "workspaceRUnlock"}

\* A call that holds the read side works in one workspace from beginning to
\* end: no step of any thread changes a root under it, and a tool whose handler
\* runs finds the roots of all services in agreement, though a switch may have
\* been unable to roll one of them back.
ReadersWorkInOneWorkspace ==
    [][(\E t \in Threads : Reading(workspaceMu, t))
        => /\ UNCHANGED roots
           /\ (\E t \in Threads : Handling(t)) => roots.agent = roots.mcp]_authorityVars

\* A terminal transition of a workflow excludes the tools of workflows, from
\* before their admission until after their handlers.
TerminalExcludesTools ==
    \A t \in Terminals, tool \in WorkflowTools :
        pc[t] \in {"workspaceRLock", "authorized", "workspaceRUnlock"}
        => pc[tool] \notin {"authorized", "handling", "workspaceRUnlock"}

\* No catalog mixes the tools of two workspaces, unless a switch could not be
\* rolled back and no tool can be called until a restart: the refresh of a
\* callback, which holds no workspace lock, never overlaps the setters of a
\* switch.  And the tools of the previous workspace are gone before anyone can
\* read the new one, whether the switch succeeded, was rolled back, in whole or
\* in part, or failed to refresh.
CatalogFollowsWorkspace ==
    catalog # NoCatalog =>
        /\ catalog.agent = catalog.mcp \/ poisoned
        /\ ~workspaceMu.held => catalog.agent = roots.agent /\ catalog.mcp = roots.mcp

\* A change of the MCP tools is never lost: when every call has returned, the
\* catalog shows it, though callbacks are dropped while a switch is going on.
NoToolChangeIsLost ==
    (\A t \in Threads : pc[t] = "idle")
        => catalog = NoCatalog \/ catalog.version = version

\* Every call returns: no cycle of waiting among the two read-write locks,
\* the catalog mutex and the announced writers.
EveryCallReturns == \A t \in Threads : pc[t] # "idle" ~> pc[t] = "idle"

=============================================================================
