------------------------------ MODULE MCPService ------------------------------
(***************************************************************************)
(* The servers of the Model Context Protocol (src/services/mcp_service.go, *)
(* mcp_config.go) under the workspace identity (workspace_context.go) that *)
(* a project switch moves first and the service follows.                   *)
(*                                                                         *)
(* Three things exclude each other: s.mu, under which each action below is *)
(* one step; the slot of a configuration write, taken in order of arrival; *)
(* and transportLifecycleMu, kept while the clients that the step took out *)
(* of the map are stopped.  Connecting, calling and reading hold none of   *)
(* them while they wait for the server.                                    *)
(***************************************************************************)
EXTENDS Naturals, Sequences, SequencesExt

CONSTANTS
    Servers,
    Roots,
    Connects,        \* calls of ConnectServer; each starts at most one client
    Writers,         \* callers that change the configuration or disconnect
    Requests,        \* calls of tools and reads of resources and prompts
    Switcher,        \* the project service
    Closer,          \* the shutdown
    Nobody,
    NoClient,
    MaxEndpoints,    \* bound: endpoints one server is given
    MaxLifecycle     \* bound: generations of the transports

ASSUME MCPAssumption ==
    /\ Switcher \notin Writers /\ Closer \notin Writers \cup {Switcher}
    /\ Nobody \notin Writers \cup {Switcher, Closer}
    /\ NoClient \notin Connects
    /\ MaxEndpoints \in Nat \ {0}

VARIABLES
    workspace,       \* WorkspaceContext: root and generation
    rootDir,         \* the root the service has followed to, and its generation
    rootGeneration,
    lifecycleGeneration,
    config,          \* approval and endpoint of each server
    clients,         \* installed client of each server
    closed,
    configQueue,     \* callers that wait for the configuration slot, holder first
    lifecycleMu,
    stopping,        \* clients that the holder of lifecycleMu still has to stop
    process,         \* transport of each client: none, live or ended
    connect,
    mcpRequest,
    switching

mcpVars == <<workspace, rootDir, rootGeneration, lifecycleGeneration, config, clients,
             closed, configQueue, lifecycleMu, stopping, process, connect,
             mcpRequest, switching>>

authority == <<rootDir, rootGeneration, lifecycleGeneration, config, clients>>
exclusion == <<configQueue, lifecycleMu, stopping>>

NewConnect == [at |-> "new", server |-> NoClient, version |-> 0,
               lease |-> NoClient, rootGeneration |-> 0]

NewRequest == [at |-> "new", kind |-> "none", server |-> NoClient, lease |-> NoClient,
               rootGeneration |-> 0, lifecycleGeneration |-> 0, client |-> NoClient]

Installed == {clients[s] : s \in Servers} \ {NoClient}

-----------------------------------------------------------------------------
(* Leases of the workspace.                                                *)

\* A lease is granted only while the service has followed the workspace.
Leasable == workspace.root = rootDir

Current(lease) == lease = workspace

-----------------------------------------------------------------------------
(* Exclusion.                                                              *)

ReserveConfigWrite(w) ==
    /\ ~Contains(configQueue, w) /\ lifecycleMu # w
    /\ configQueue' = Append(configQueue, w)
    /\ UNCHANGED <<lifecycleMu, stopping>>

HasSlot(w) == configQueue # <<>> /\ Head(configQueue) = w /\ lifecycleMu = Nobody

\* A change under the lifecycle lock: the detached clients are stopped later.
CommitConfig(w, detached) ==
    /\ lifecycleMu' = w
    /\ stopping' = detached
    /\ lifecycleGeneration < MaxLifecycle
    /\ lifecycleGeneration' = lifecycleGeneration + 1
    /\ UNCHANGED configQueue

\* The call fails, or finds nothing to do, before it changes anything.
GiveUpSlot(w) ==
    /\ HasSlot(w)
    /\ configQueue' = Tail(configQueue)
    /\ UNCHANGED <<lifecycleMu, stopping>>

Stop(client) ==
    /\ client \in stopping
    /\ process' = [process EXCEPT ![client] = "ended"]
    /\ stopping' = stopping \ {client}
    /\ UNCHANGED <<workspace, authority, closed, configQueue, lifecycleMu, connect,
                   mcpRequest, switching>>

Leave(w) ==
    /\ lifecycleMu = w /\ stopping = {}
    /\ lifecycleMu' = Nobody
    /\ configQueue' = SelectSeq(configQueue, LAMBDA q : q # w)
    /\ UNCHANGED stopping

-----------------------------------------------------------------------------
(* Configuration.                                                          *)

elsewhere == <<workspace, closed, process, connect, mcpRequest, switching>>

ReserveSlot(w) == ReserveConfigWrite(w) /\ UNCHANGED <<authority, elsewhere>>
Refuse(w) == GiveUpSlot(w) /\ UNCHANGED <<authority, elsewhere>>
LeaveSlot(w) == Leave(w) /\ UNCHANGED <<authority, elsewhere>>

Without(servers) ==
    [s \in Servers |-> IF s \in servers THEN NoClient ELSE clients[s]]

Detached(servers) == {clients[s] : s \in servers} \ {NoClient}

\* A new server is disabled.  A new endpoint withdraws the approval of the old
\* one and detaches its client; the same endpoint keeps both.
SaveServer(w, s, version) ==
    LET known == config[s].state # "absent"
        changed == known /\ config[s].version # version
        state == IF known /\ ~changed THEN config[s].state ELSE "disabled"
        gone == IF changed THEN {s} ELSE {}
    IN  /\ HasSlot(w)
        /\ config' = [config EXCEPT ![s] = [state |-> state, version |-> version]]
        /\ clients' = Without(gone)
        /\ CommitConfig(w, Detached(gone))
        /\ UNCHANGED <<rootDir, rootGeneration, elsewhere>>

SetServerEnabled(w, s, enabled) ==
    LET gone == IF enabled THEN {} ELSE {s}
    IN  /\ HasSlot(w)
        /\ config[s].state # "absent"
        /\ config' = [config EXCEPT ![s].state = IF enabled THEN "enabled" ELSE "disabled"]
        /\ clients' = Without(gone)
        /\ CommitConfig(w, Detached(gone))
        /\ UNCHANGED <<rootDir, rootGeneration, elsewhere>>

DeleteServer(w, s) ==
    /\ HasSlot(w)
    /\ config[s].state # "absent"
    /\ config' = [config EXCEPT ![s].state = "absent"]
    /\ clients' = Without({s})
    /\ CommitConfig(w, Detached({s}))
    /\ UNCHANGED <<rootDir, rootGeneration, elsewhere>>

\* Disconnecting does not wait for the slot.
DisconnectServer(w, s) ==
    /\ ~Contains(configQueue, w) /\ lifecycleMu = Nobody
    /\ clients[s] # NoClient
    /\ clients' = Without({s})
    /\ CommitConfig(w, Detached({s}))
    /\ UNCHANGED <<rootDir, rootGeneration, config, elsewhere>>

-----------------------------------------------------------------------------
(* The project switch.  Setters run one after the other, the workspace     *)
(* first; a setter that fails has those before it undone in reverse order, *)
(* and the undone workspace has its old generation again.                  *)

\* A tool call runs under the read side of workspaceAuthorityMu, a switch under
\* its write side, from before the first setter to after the last undone one.
InToolCall(q) ==
    mcpRequest[q].kind = "tool" /\ mcpRequest[q].at \in {"leased", "waiting"}

SetWorkspace(root) ==
    /\ switching.at = "idle"
    /\ \A q \in Requests : ~InToolCall(q)
    /\ root # workspace.root
    /\ workspace' = [root |-> root, generation |-> workspace.generation + 1]
    /\ switching' = [at |-> "set", target |-> root, prior |-> workspace, followed |-> rootDir]
    /\ UNCHANGED <<authority, closed, exclusion, process, connect, mcpRequest>>

\* The service is asked to follow, forward or back.
FollowWorkspace ==
    /\ switching.at \in {"set", "undo"}
    /\ ReserveConfigWrite(Switcher)
    /\ switching' = [switching EXCEPT !.at = IF @ = "set" THEN "following" ELSE "undoing"]
    /\ UNCHANGED <<workspace, authority, closed, process, connect, mcpRequest>>

Forward == switching.at = "following"

FollowTarget == IF Forward THEN switching.target ELSE switching.followed

\* A server is never enabled in a workspace it was not approved in.
ApplyWorkspaceRoot ==
    /\ HasSlot(Switcher)
    /\ switching.at \in {"following", "undoing"}
    /\ FollowTarget # rootDir
    /\ rootDir' = FollowTarget
    /\ rootGeneration' = rootGeneration + 1
    /\ config' = [s \in Servers |->
                     IF config[s].state = "absent" THEN config[s]
                     ELSE [config[s] EXCEPT !.state = "disabled"]]
    /\ clients' = Without(Servers)
    /\ CommitConfig(Switcher, Installed)
    /\ UNCHANGED <<workspace, closed, process, connect, mcpRequest, switching>>

Proceed == [switching EXCEPT !.at = IF @ = "following" THEN "followed" ELSE "restore"]

AlreadyThere ==
    /\ switching.at \in {"following", "undoing"}
    /\ FollowTarget = rootDir
    /\ GiveUpSlot(Switcher)
    /\ switching' = Proceed
    /\ UNCHANGED <<workspace, authority, closed, process, connect, mcpRequest>>

Followed ==
    /\ Leave(Switcher)
    /\ switching' = Proceed
    /\ UNCHANGED <<workspace, authority, closed, process, connect, mcpRequest>>

\* A client that could not be stopped takes the root back, not its authority.
StopFailed ==
    /\ Leave(Switcher)
    /\ rootDir' = IF Forward THEN switching.followed ELSE switching.target
    /\ lifecycleGeneration < MaxLifecycle
    /\ rootGeneration' = rootGeneration + 1
    /\ lifecycleGeneration' = lifecycleGeneration + 1
    /\ switching' = [switching EXCEPT !.at = IF Forward THEN "undo" ELSE "restore"]
    /\ UNCHANGED <<workspace, config, clients, closed, process, connect, mcpRequest>>

FinishSwitch ==
    /\ switching.at = "followed"
    /\ switching' = [switching EXCEPT !.at = "idle"]
    /\ UNCHANGED <<workspace, authority, closed, exclusion, process, connect, mcpRequest>>

\* Another setter fails, before the service has followed or after.
SetterFails ==
    /\ switching.at \in {"set", "followed"}
    /\ switching' = [switching EXCEPT !.at = IF @ = "set" THEN "restore" ELSE "undo"]
    /\ UNCHANGED <<workspace, authority, closed, exclusion, process, connect, mcpRequest>>

RestoreSnapshot ==
    /\ switching.at = "restore"
    /\ workspace' = switching.prior
    /\ switching' = [switching EXCEPT !.at = "idle"]
    /\ UNCHANGED <<authority, closed, exclusion, process, connect, mcpRequest>>

-----------------------------------------------------------------------------
(* Connecting.                                                             *)

quiet == <<workspace, rootDir, rootGeneration, config, closed, exclusion,
           mcpRequest, switching>>

InConnect(c) == connect[c].at \in {"starting", "started", "failing"}

ConnectGoes(c, stage) == connect' = [connect EXCEPT ![c].at = stage]

ConnectFails(c) == connect' = [connect EXCEPT ![c] = [NewConnect EXCEPT !.at = "done"]]

AcquireLease(c) ==
    /\ connect[c].at = "new"
    /\ Leasable
    /\ connect' = [connect EXCEPT ![c] = [@ EXCEPT !.at = "leased", !.lease = workspace,
                                                  !.rootGeneration = rootGeneration]]
    /\ UNCHANGED <<lifecycleGeneration, clients, process, quiet>>

\* From here on a shutdown waits for the call.
AdmitConnect(c, s) ==
    /\ connect[c].at = "leased"
    /\ ~closed
    /\ config[s].state = "enabled"
    /\ clients[s] = NoClient
    /\ connect' = [connect EXCEPT ![c] = [@ EXCEPT !.at = "starting", !.server = s,
                                                  !.version = config[s].version]]
    /\ UNCHANGED <<lifecycleGeneration, clients, process, quiet>>

StartServer(c) ==
    /\ connect[c].at = "starting"
    /\ Current(connect[c].lease)
    /\ process' = [process EXCEPT ![c] = "live"]
    /\ ConnectGoes(c, "started")
    /\ UNCHANGED <<lifecycleGeneration, clients, quiet>>

\* The handshake fails, the lease has expired or a caller cancels.
NotStarted(c) ==
    /\ connect[c].at = "starting"
    /\ ConnectFails(c)
    /\ UNCHANGED <<lifecycleGeneration, clients, process, quiet>>

\* Mutant: a client is installed for an endpoint that was replaced meanwhile.
EndpointIgnored(c) ==
    /\ ~closed
    /\ connect[c].rootGeneration = rootGeneration
    /\ connect[c].lease.root = rootDir
    /\ Current(connect[c].lease)
    /\ config[connect[c].server].state = "enabled"
    /\ clients[connect[c].server] = NoClient

StillAuthorized(c) ==
    /\ ~closed
    /\ connect[c].rootGeneration = rootGeneration
    /\ connect[c].lease.root = rootDir
    /\ Current(connect[c].lease)
    /\ config[connect[c].server].state = "enabled"
    /\ config[connect[c].server].version = connect[c].version
    /\ clients[connect[c].server] = NoClient

Install(c) ==
    /\ connect[c].at = "started"
    /\ StillAuthorized(c)
    /\ lifecycleGeneration < MaxLifecycle
    /\ lifecycleGeneration' = lifecycleGeneration + 1
    /\ clients' = [clients EXCEPT ![connect[c].server] = c]
    /\ ConnectGoes(c, "done")
    /\ UNCHANGED <<process, quiet>>

\* A change since the admission, or a cancellation by the caller.
RejectClient(c) ==
    /\ connect[c].at = "started"
    /\ ConnectGoes(c, "failing")
    /\ UNCHANGED <<lifecycleGeneration, clients, process, quiet>>

StopRejected(c) ==
    /\ connect[c].at = "failing"
    /\ process' = [process EXCEPT ![c] = "ended"]
    /\ ConnectFails(c)
    /\ UNCHANGED <<lifecycleGeneration, clients, quiet>>

-----------------------------------------------------------------------------
(* Requests.                                                               *)

passive == <<workspace, authority, closed, exclusion, process, connect, switching>>

RequestEnds(q, outcome) == mcpRequest' = [mcpRequest EXCEPT ![q] = [NewRequest EXCEPT !.at = outcome]]

\* A tool call is approved for one generation of the transports; a read begins
\* with the generation it finds.
BeginRequest(q, s, kind) ==
    /\ mcpRequest[q].at = "new"
    /\ Leasable
    /\ mcpRequest' = [mcpRequest EXCEPT ![q] =
                        [at |-> IF kind = "tool" THEN "approved" ELSE "leased",
                         kind |-> kind, server |-> s, lease |-> workspace,
                         rootGeneration |-> rootGeneration,
                         lifecycleGeneration |-> lifecycleGeneration,
                         client |-> NoClient]]
    /\ UNCHANGED passive

\* ExecuteExternalTransactionWithReceipt: a new lease under the approved generations.
RedeemApproval(q) ==
    /\ mcpRequest[q].at = "approved"
    /\ switching.at = "idle"
    /\ Leasable
    /\ mcpRequest[q].rootGeneration = rootGeneration
    /\ mcpRequest[q].lifecycleGeneration = lifecycleGeneration
    /\ mcpRequest' = [mcpRequest EXCEPT ![q].at = "leased", ![q].lease = workspace]
    /\ UNCHANGED passive

\* Only the lookup of a tool call runs under its lease.
LookUpClient(q) ==
    /\ mcpRequest[q].at = "leased"
    /\ clients[mcpRequest[q].server] # NoClient
    /\ mcpRequest[q].kind = "tool" => Current(mcpRequest[q].lease) /\ ~closed
    /\ mcpRequest' = [mcpRequest EXCEPT ![q].at = "waiting",
                                       ![q].client = clients[mcpRequest[q].server]]
    /\ UNCHANGED passive

\* Mutant: a read does not ask whether the transports have changed since.
DeliverFromDetached(q) ==
    /\ mcpRequest[q].at = "waiting"
    /\ process[mcpRequest[q].client] = "live"
    /\ Current(mcpRequest[q].lease)
    /\ RequestEnds(q, "delivered")
    /\ UNCHANGED passive

\* The answer of a live client passes the checks that follow it.
Deliver(q) ==
    /\ mcpRequest[q].at = "waiting"
    /\ process[mcpRequest[q].client] = "live"
    /\ Current(mcpRequest[q].lease)
    /\ mcpRequest[q].kind = "read" => mcpRequest[q].lifecycleGeneration = lifecycleGeneration
    /\ RequestEnds(q, "delivered")
    /\ UNCHANGED passive

FailRequest(q) ==
    /\ mcpRequest[q].at \in {"approved", "leased", "waiting"}
    /\ RequestEnds(q, "refused")
    /\ UNCHANGED passive

-----------------------------------------------------------------------------
(* Shutdown.                                                               *)

Close ==
    /\ ~closed /\ lifecycleMu = Nobody
    /\ closed' = TRUE
    /\ clients' = Without(Servers)
    /\ CommitConfig(Closer, Installed)
    /\ UNCHANGED <<workspace, rootDir, rootGeneration, config, process, connect,
                   mcpRequest, switching>>

\* Connects in flight are cancelled, then waited for; tool calls are waited for.
CloseReturns ==
    /\ Leave(Closer)
    /\ \A c \in Connects : ~InConnect(c)
    /\ \A q \in Requests : mcpRequest[q].kind = "tool" => mcpRequest[q].at # "waiting"
    /\ UNCHANGED <<authority, elsewhere>>

-----------------------------------------------------------------------------
(* The specification.                                                      *)

MCPInit ==
    /\ \E r \in Roots : workspace = [root |-> r, generation |-> 1] /\ rootDir = r
    /\ rootGeneration = 1 /\ lifecycleGeneration = 1
    /\ config = [s \in Servers |-> [state |-> "enabled", version |-> 1]]
    /\ clients = [s \in Servers |-> NoClient]
    /\ closed = FALSE
    /\ configQueue = <<>> /\ lifecycleMu = Nobody /\ stopping = {}
    /\ process = [c \in Connects |-> "none"]
    /\ connect = [c \in Connects |-> NewConnect]
    /\ mcpRequest = [q \in Requests |-> NewRequest]
    /\ switching = [at |-> "idle", target |-> rootDir, prior |-> workspace,
                    followed |-> rootDir]

ConfigNext ==
    \/ \E w \in Writers : ReserveSlot(w) \/ Refuse(w) \/ LeaveSlot(w)
    \/ \E w \in Writers, s \in Servers :
          \/ \E version \in 1 .. MaxEndpoints : SaveServer(w, s, version)
          \/ \E enabled \in BOOLEAN : SetServerEnabled(w, s, enabled)
          \/ DeleteServer(w, s) \/ DisconnectServer(w, s)
    \/ \E c \in Connects : Stop(c)

SwitchNext ==
    \/ \E root \in Roots : SetWorkspace(root)
    \/ FollowWorkspace \/ ApplyWorkspaceRoot \/ AlreadyThere \/ Followed
    \/ StopFailed \/ FinishSwitch \/ SetterFails \/ RestoreSnapshot

ConnectNext ==
    \E c \in Connects :
       \/ AcquireLease(c) \/ StartServer(c) \/ NotStarted(c) \/ Install(c)
       \/ RejectClient(c) \/ StopRejected(c)
       \/ \E s \in Servers : AdmitConnect(c, s)

RequestNext ==
    \E q \in Requests :
       \/ \E s \in Servers, kind \in {"tool", "read"} : BeginRequest(q, s, kind)
       \/ RedeemApproval(q) \/ LookUpClient(q) \/ Deliver(q) \/ FailRequest(q)

MCPNext == ConfigNext \/ SwitchNext \/ ConnectNext \/ RequestNext \/ Close \/ CloseReturns

MCPSpec == MCPInit /\ [][MCPNext]_mcpVars

-----------------------------------------------------------------------------
(* Properties.                                                             *)

Identity == [root : Roots, generation : Nat]

\* Types of the variables.
MCPTypeOK ==
    /\ workspace \in Identity /\ rootDir \in Roots
    /\ config \in [Servers -> [state : {"absent", "disabled", "enabled"},
                               version : 1 .. MaxEndpoints]]
    /\ clients \in [Servers -> Connects \cup {NoClient}]
    /\ process \in [Connects -> {"none", "live", "ended"}]
    /\ lifecycleMu \in Writers \cup {Switcher, Closer, Nobody}
    /\ stopping \subseteq Connects

CloseReturned == closed /\ lifecycleMu # Closer

\* An installed client runs the endpoint that is approved now, in the root that
\* the service follows now, however the configuration, the workspace and other
\* connects changed while it was starting (ConnectServer, the final checks).
\* Every other server that runs is about to be installed or stopped; none runs
\* once Close has returned, and no tool call is left waiting.
RunningServersAreAuthorized ==
    /\ \A s \in Servers : clients[s] # NoClient =>
          /\ config[s].state = "enabled"
          /\ config[s].version = connect[clients[s]].version
          /\ connect[clients[s]].lease.root = rootDir
          /\ connect[clients[s]].rootGeneration = rootGeneration
          /\ ~closed
    /\ \A c \in Connects : process[c] = "live" =>
          /\ c \in Installed \cup stopping \/ InConnect(c)
          /\ ~CloseReturned
    /\ CloseReturned => \A q \in Requests :
          mcpRequest[q].at = "waiting" => mcpRequest[q].kind = "read"

\* A result comes from a client of the workspace that is current when it is
\* delivered, and what was read from a client that is still installed: a switch
\* there and back, or a reconnect, during the request cannot be missed.
ResultsAreCurrent ==
    [][\A q \in Requests :
        mcpRequest'[q].at = "delivered" /\ mcpRequest[q].at # "delivered" =>
            /\ connect[mcpRequest[q].client].lease.root = workspace.root
            /\ mcpRequest[q].kind = "read" => mcpRequest[q].client \in Installed]_mcpVars
=============================================================================
