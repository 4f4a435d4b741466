----------------------------- MODULE MCServices -----------------------------
(* Services that share no variable: a behaviour runs one of them, and the  *)
(* others stay in their initial state.                                     *)
EXTENDS AgentLifecycle, TaskExecution, AIStreams, MCPClient,
        ExtensionUpdate, MCGitRebase, DocumentSync, TLC

VARIABLE focus

\* The rows an agent session finds: its own, beside one that was closed.
OneOpenRow ==
    \E id \in Ids : row[id] # "completed" /\ \A other \in Ids \ {id} : row[other] = "completed"

NoRows == row = [id \in Ids |-> "none"]

ServicesInit ==
    /\ LifecycleInit /\ TaskInit /\ StreamsInit
    /\ ClientInit /\ ExtensionInit
    /\ RebaseInit /\ SyncInit
    /\ \/ focus = "lifecycle" /\ OneOpenRow
       \/ /\ focus \in {"tasks", "streams", "client", "extensions", "rebase",
                       "documents"}
          /\ NoRows
    /\ focus # "documents" => link.kind = "full"

\* One new budget epoch, change of the tools, or switch of the workspace.
FewChanges == budget.epoch + revision + root <= 4

ServicesNext ==
    \/ focus = "lifecycle" /\ LifecycleNext /\ FewChanges'
    \/ focus = "tasks" /\ TaskNext
    \/ focus = "streams" /\ StreamsNext
    \/ focus = "client" /\ ClientNext
    \/ focus = "extensions" /\ ExtensionNext
    \/ focus = "rebase" /\ RebaseNext
    \/ focus = "documents" /\ SyncNext

Rest(service, variables) == focus # service => UNCHANGED variables

OthersRest ==
    /\ UNCHANGED focus
    /\ Rest("lifecycle", lifecycleVars)
    /\ Rest("tasks", taskVars)
    /\ Rest("streams", streamVars)
    /\ Rest("client", clientVars)
    /\ Rest("extensions", extensionVars)
    /\ Rest("rebase", rebaseVars)
    /\ Rest("documents", syncVars)

servicesVars == <<focus, lifecycleVars, taskVars, streamVars, clientVars,
                  extensionVars, rebaseVars, syncVars>>

ServicesSpec == ServicesInit /\ [][ServicesNext /\ OthersRest]_servicesVars

\* Types of the variables of every service.
ServicesTypeOK ==
    /\ focus = "lifecycle" => LifecycleTypeOK
    /\ focus = "tasks" => TaskTypeOK
    /\ focus = "streams" => StreamsTypeOK
    /\ focus = "client" => ClientTypeOK
    /\ focus = "extensions" => ExtensionTypeOK
    /\ focus = "rebase" => RebaseTypeOK
    /\ focus = "documents" => SyncTypeOK

\* A shutdown that reports success is complete: no execution of a task runs on,
\* and no stream records usage behind it (task_service.go Shutdown, ai_service.go
\* stopAllAgentStreams).
ShutdownsAreComplete == ShutdownIsComplete /\ ShutdownDrains

\* No caller waits for an answer that nothing will give: neither for the response
\* of an MCP server that is gone (mcp_client.go), nor for a change of a document
\* that no goroutine sends (lsp_service_sync.go).
NoWaiterIsLost == NoLostWaiter /\ NoStrandedSync

\* The callers of each service are alike; the configuration gives them the same
\* names.  So are the texts of a document.
Interchangeable == Permutations(Callers) \cup Permutations(Texts)
=============================================================================
