--------------------------- MODULE AgentLifecycle ---------------------------
(***************************************************************************)
(* Runtime authority of agent sessions: the lifecycle service              *)
(* (src/services/agent_lifecycle.go), the capability runtime               *)
(* (src/internal/agentcore/runtime.go), the tool budget                    *)
(* (src/services/agent_budget.go) and the workspace switch of the agent    *)
(* service (src/services/agent_service.go).                                *)
(*                                                                         *)
(* A lifecycle operation holds transitionMu for its whole body, so at most *)
(* one is in progress; it changes the runtime, then the durable row, then  *)
(* the runtime again, and a tool request or execution may run between any  *)
(* two of these steps.  The workspace switch holds the write side of the   *)
(* workspace lock and so excludes all of them.                             *)
(*                                                                         *)
(* Rows of an earlier process are there from the start.  Handler and       *)
(* ledger steps of an execution are the subject of ToolExecution.          *)
(***************************************************************************)
EXTENDS Naturals, FiniteSets

CONSTANTS
    Ids,             \* logical session identifiers
    Opaque,          \* those of plans and goals, whose runtime ID is opaque
    Callers,         \* concurrent tool requests and executions
    Limit,           \* capabilities one budget epoch may issue
    MaxGeneration,   \* bound: session generations
    MaxEpoch,        \* bound: budget epochs
    MaxRevision,     \* bound: catalog revisions
    MaxSwitches      \* bound: workspace generations

ASSUME LifecycleAssumption ==
    Ids # {} /\ Opaque \subseteq Ids /\ Limit \in Nat

VARIABLES
    row,         \* status of the durable row of each session
    saved,       \* sessions whose row has a checkpoint
    poisoned,    \* SessionStore.persistencePoison is set
    bound,       \* AgentLifecycle.runtimeIDs has an entry for the session
    session,     \* Runtime.sessions
    nextSessionGeneration,
    tokens,      \* Runtime.capabilities
    op,          \* the operation that holds transitionMu
    root,        \* AgentService.rootGeneration
    switch,      \* the snapshot of the workspace switch in progress
    budget,      \* toolBudget
    granted,     \* history: capabilities granted in the current epoch
    revision,    \* Registry.revision
    call         \* the request or execution of each caller

lifecycleVars == <<row, saved, poisoned, bound, session, nextSessionGeneration,
                   tokens, op, root, switch, budget, granted, revision, call>>

runtimeVars == <<bound, session, nextSessionGeneration, tokens>>
callVars == <<budget, granted, revision, call>>

RowStatuses == {"none", "recovery", "running", "paused", "failed", "completed"}

Unregistered == [registered |-> FALSE, active |-> FALSE, generation |-> 0]
SessionStates == [registered : BOOLEAN, active : BOOLEAN, generation : Nat]

\* What a capability is bound to; burned is history: the authority behind it
\* was suspended, revoked or switched away after the request.
Bindings == [id : Ids, generation : Nat, root : Nat, epoch : Nat, revision : Nat,
             burned : BOOLEAN]
Phases == {"idle", "asking", "reserving", "issuing", "auditing", "releasing",
           "starting", "running"}
Requesting == {"asking", "reserving", "issuing", "auditing"}
NoBinding == [id |-> CHOOSE id \in Ids : TRUE, generation |-> 0, root |-> 0,
              epoch |-> 0, revision |-> 0, burned |-> FALSE]
NoCall == [phase |-> "idle", binding |-> NoBinding, live |-> TRUE]

NoSwitch == [phase |-> "none"]
NoOp == [name |-> "none"]

-----------------------------------------------------------------------------
(* The runtime namespace of a session.                                     *)

\* A plan or goal is found only through its binding.
Registered(id) == session[id].registered /\ (id \in Opaque => id \in bound)

Active(id) == Registered(id) /\ session[id].active

Burn(binding, ids) == [binding EXCEPT !.burned = @ \/ binding.id \in ids]

BurnedCalls(ids) ==
    [c \in Callers |-> IF call[c].phase \in Requesting
                       THEN [call[c] EXCEPT !.binding = Burn(@, ids)] ELSE call[c]]

BurnedTokens(ids) == {Burn(t, ids) : t \in tokens}

RegisterSession(id) ==
    /\ session' = [session EXCEPT ![id] =
           [registered |-> TRUE, active |-> TRUE,
            generation |-> nextSessionGeneration + 1]]
    /\ nextSessionGeneration' = nextSessionGeneration + 1
    /\ UNCHANGED <<tokens, call>>

\* Mutant: suspending keeps the generation.
SuspendInPlace(id) ==
    /\ session' = [session EXCEPT ![id].active = FALSE]
    /\ tokens' = BurnedTokens({id})
    /\ call' = BurnedCalls({id})
    /\ UNCHANGED nextSessionGeneration

SuspendSession(id) ==
    /\ session' = [session EXCEPT ![id].active = FALSE,
                                  ![id].generation = nextSessionGeneration + 1]
    /\ nextSessionGeneration' = nextSessionGeneration + 1
    /\ tokens' = BurnedTokens({id})
    /\ call' = BurnedCalls({id})

ActivateSession(id) ==
    /\ session' = [session EXCEPT ![id].active = TRUE]
    /\ UNCHANGED <<nextSessionGeneration, tokens, call>>

UnregisterSession(id) ==
    /\ session' = [session EXCEPT ![id] = Unregistered]
    /\ tokens' = BurnedTokens({id})
    /\ call' = BurnedCalls({id})
    /\ UNCHANGED nextSessionGeneration

UnregisterAllSessions ==
    /\ session' = [id \in Ids |-> Unregistered]
    /\ tokens' = {}
    /\ bound' = {}

-----------------------------------------------------------------------------
(* Lifecycle operations: each is begun, published and settled.             *)

Transitions == {"begin", "checkpoint", "pause", "fail", "resume", "complete",
                "close", "discard"}

\* The status an operation publishes.
Target(name, status) ==
    CASE name = "begin" -> "running"
      [] name = "checkpoint" -> status
      [] name = "pause" -> "paused"
      [] name = "fail" -> "failed"
      [] name = "resume" -> "running"
      [] name \in {"complete", "close", "discard"} -> "completed"

\* The rows the session store accepts it for.
Accepts(name, status) ==
    CASE name = "begin" -> status = "none"
      [] name \in {"pause", "fail", "complete"} -> status = "running"
      [] name = "checkpoint" -> status \in {"running", "paused"}
      [] name = "resume" -> status \in {"paused", "failed"}
      [] name = "close" -> status \in {"running", "paused", "failed", "completed"}
      [] name = "discard" -> status = "recovery"

\* transitionMu is free and no workspace switch excludes the caller.
Admitted == op = NoOp /\ switch = NoSwitch

Enter(name, id, abort) ==
    op' = [name |-> name, id |-> id, stage |-> "publish", abort |-> abort,
           registered |-> Registered(id), active |-> Active(id)]

\* Begin of any kind and the creation of a chat or workflow session.
Begin(id) ==
    /\ Admitted
    /\ row[id] = "none"
    /\ Enter("begin", id, FALSE)
    /\ UNCHANGED <<row, saved, poisoned, root, switch, runtimeVars, callVars>>

\* A checkpoint, a stream event or the observation of a metered unit.
Checkpoint(id) ==
    /\ Admitted
    /\ row[id] \notin {"none", "recovery"}
    /\ Enter("checkpoint", id, FALSE)
    /\ UNCHANGED <<row, saved, poisoned, root, switch, runtimeVars, callVars>>

\* The runtime is suspended before the row changes.
Suspending(id) == IF Active(id) THEN SuspendSession(id)
                  ELSE UNCHANGED <<session, nextSessionGeneration, tokens, call>>

PauseOrFail(name, id) ==
    /\ Admitted
    /\ row[id] \notin {"none", "recovery"}
    /\ nextSessionGeneration < MaxGeneration
    /\ Suspending(id)
    /\ Enter(name, id, FALSE)
    /\ UNCHANGED <<row, saved, poisoned, bound, root, switch, budget, granted, revision>>

\* A resume needs a checkpoint and, for a plan or goal, a runtime owner.
ResumeLatest(id, abort) ==
    /\ Admitted
    /\ row[id] \in {"paused", "failed"}
    /\ id \in saved
    /\ id \in Opaque => Registered(id)
    /\ nextSessionGeneration < MaxGeneration
    /\ Suspending(id)
    /\ Enter("resume", id, abort)
    /\ UNCHANGED <<row, saved, poisoned, bound, root, switch, budget, granted, revision>>

Unregistering(id) == IF Registered(id) THEN UnregisterSession(id)
                     ELSE UNCHANGED <<session, nextSessionGeneration, tokens, call>>

\* Complete takes the row as it is; CloseByID asks for a bound or terminal row
\* and closes one that does not run.
Complete(id) ==
    /\ Admitted
    /\ row[id] \notin {"none", "recovery"}
    /\ nextSessionGeneration + 1 < MaxGeneration
    /\ Unregistering(id)
    /\ Enter("complete", id, FALSE)
    /\ UNCHANGED <<row, saved, poisoned, bound, root, switch, budget, granted, revision>>

CloseByID(id) ==
    /\ Admitted
    /\ row[id] \in {"paused", "failed", "completed"}
    /\ row[id] # "completed" => id \in bound
    /\ nextSessionGeneration + 1 < MaxGeneration
    /\ Unregistering(id)
    /\ Enter("close", id, FALSE)
    /\ UNCHANGED <<row, saved, poisoned, bound, root, switch, budget, granted, revision>>

\* The terminal decision on a row of an earlier process.
Discard(id) ==
    /\ Admitted
    /\ row[id] = "recovery"
    /\ ~Registered(id) /\ id \notin bound
    /\ Enter("discard", id, FALSE)
    /\ UNCHANGED <<row, saved, poisoned, root, switch, runtimeVars, callVars>>

\* The save: rejected before publication (always by a poisoned store), durable,
\* or published with an unknown outcome, which poisons the store.
Publish ==
    /\ op # NoOp
    /\ op.stage = "publish"
    /\ \E outcome \in {"durable", "rejected", "unknown"} :
         /\ poisoned \/ ~Accepts(op.name, row[op.id]) => outcome = "rejected"
         /\ op' = [op EXCEPT !.stage = outcome]
         /\ poisoned' = (poisoned \/ outcome = "unknown")
         /\ IF outcome = "rejected" THEN UNCHANGED <<row, saved>>
            ELSE /\ row' = [row EXCEPT ![op.id] = Target(op.name, @)]
                 /\ saved' = IF op.name = "checkpoint" THEN saved \cup {op.id} ELSE saved
    /\ UNCHANGED <<root, switch, runtimeVars, callVars>>

\* Restoring a namespace registers it afresh, and only then suspends it again.
Restore ==
    /\ op.stage = "rejected"
    /\ CASE op.name \in {"pause", "fail", "resume"} /\ op.active ->
              ActivateSession(op.id) /\ op' = NoOp
         [] op.name \in {"complete", "close"} /\ op.registered
              /\ row[op.id] # "completed" ->
              /\ RegisterSession(op.id)
              /\ op' = IF op.active THEN NoOp ELSE [op EXCEPT !.stage = "suspend"]
         [] OTHER -> op' = NoOp
              /\ UNCHANGED <<session, nextSessionGeneration, tokens, call>>
    /\ UNCHANGED bound

Resuspend ==
    /\ op.stage = "suspend"
    /\ SuspendSession(op.id)
    /\ op' = NoOp
    /\ UNCHANGED bound

\* Mutant: an unknown outcome is handled like a rejected one.
RestoreUnknown ==
    /\ op.stage = "unknown"
    /\ IF op.active THEN ActivateSession(op.id)
       ELSE UNCHANGED <<session, nextSessionGeneration, tokens, call>>
    /\ op' = NoOp
    /\ UNCHANGED bound

\* The row may already be published: authority is withdrawn.  A Begin that ends
\* like this has registered nothing yet.
Revoke ==
    /\ op.stage = "unknown"
    /\ Unregistering(op.id)
    /\ bound' = bound \ {op.id}
    /\ op' = NoOp

\* An abort fails the row that it has just resumed, under the same lock.
Settle ==
    /\ op.stage = "durable"
    /\ CASE op.name = "begin" -> RegisterSession(op.id) /\ bound' = bound \cup {op.id}
         [] op.name = "resume" ->
              /\ IF op.registered THEN ActivateSession(op.id) ELSE RegisterSession(op.id)
              /\ UNCHANGED bound
         [] OTHER ->
              /\ bound' = IF op.name \in {"complete", "close"} THEN bound \ {op.id} ELSE bound
              /\ UNCHANGED <<session, nextSessionGeneration, tokens, call>>
    /\ op' = IF op.name = "resume" /\ op.abort
             THEN [op EXCEPT !.name = "fail", !.stage = "abort", !.abort = FALSE] ELSE NoOp

AbortResumed ==
    /\ op.stage = "abort"
    /\ nextSessionGeneration < MaxGeneration
    /\ SuspendSession(op.id)
    /\ op' = [op EXCEPT !.stage = "publish", !.registered = TRUE, !.active = TRUE]
    /\ UNCHANGED bound

Finish ==
    /\ op # NoOp
    /\ Restore \/ Resuspend \/ Revoke \/ Settle \/ AbortResumed
    /\ UNCHANGED <<row, saved, poisoned, root, switch, budget, granted, revision>>

-----------------------------------------------------------------------------
(* Requests and executions: runtime.go RequestCapability and Execute.      *)

Moves(c, phase) == call' = [call EXCEPT ![c].phase = phase]
Ends(c) == call' = [call EXCEPT ![c] = NoCall]

\* Session, catalog and workspace are read, and the user is asked.
Request(c, id) ==
    /\ switch = NoSwitch
    /\ call[c].phase = "idle"
    /\ session[id].active
    /\ call' = [call EXCEPT ![c] =
           [phase |-> "asking", live |-> TRUE,
            binding |-> [id |-> id, generation |-> session[id].generation,
                         root |-> root, epoch |-> 0, revision |-> revision,
                         burned |-> FALSE]]]
    /\ UNCHANGED <<tokens, budget, granted, revision>>

\* The session is the one that was asked for, in the same generation.
LiveSession(b) == session[b.id].active /\ session[b.id].generation = b.generation

\* After the approval everything is looked up again; a denial ends here too.
Approve(c) ==
    /\ call[c].phase = "asking"
    /\ \/ /\ LiveSession(call[c].binding)
          /\ call[c].binding.revision = revision
          /\ call[c].binding.root = root
          /\ Moves(c, "reserving")
       \/ Ends(c)
    /\ UNCHANGED <<tokens, budget, granted, revision>>

\* Refused when the epoch is spent or its time is over.
Reserve(c) ==
    /\ call[c].phase = "reserving"
    /\ \/ /\ budget.spent < Limit
          /\ budget' = [budget EXCEPT !.spent = @ + 1]
          /\ call' = [call EXCEPT ![c].phase = "issuing",
                                  ![c].binding.epoch = budget.epoch]
       \/ Ends(c) /\ UNCHANGED budget
    /\ UNCHANGED <<tokens, granted, revision>>

Issue(c) ==
    /\ call[c].phase = "issuing"
    /\ IF LiveSession(call[c].binding)
       THEN Moves(c, "auditing") /\ tokens' = tokens \cup {call[c].binding}
       ELSE Moves(c, "releasing") /\ UNCHANGED tokens
    /\ UNCHANGED <<budget, granted, revision>>

\* The audit record decides whether the token is granted or withdrawn.
AuditGrant(c) ==
    /\ call[c].phase = "auditing"
    /\ \/ /\ Ends(c)
          /\ granted' = granted + (IF call[c].binding.epoch = budget.epoch THEN 1 ELSE 0)
          /\ UNCHANGED tokens
       \/ /\ Moves(c, "releasing")
          /\ tokens' = tokens \ {call[c].binding}
          /\ UNCHANGED granted
    /\ UNCHANGED <<budget, revision>>

\* Mutant: a reservation of an earlier epoch is released in the current one.
ReleaseAny(c) ==
    /\ call[c].phase = "releasing"
    /\ budget' = [budget EXCEPT !.spent = @ - 1]
    /\ Ends(c)
    /\ UNCHANGED <<tokens, granted, revision>>

ReleaseReservation(c) ==
    /\ call[c].phase = "releasing"
    /\ budget' = IF call[c].binding.epoch = budget.epoch
                 THEN [budget EXCEPT !.spent = @ - 1] ELSE budget
    /\ Ends(c)
    /\ UNCHANGED <<tokens, granted, revision>>

\* A granted token: its request has ended.
Redeemable(t) ==
    t \in tokens /\ \A c \in Callers : call[c].phase = "auditing" => call[c].binding # t

\* The token is consumed first; a binding that no longer holds ends it.
Redeem(c, t) ==
    /\ switch = NoSwitch
    /\ call[c].phase = "idle"
    /\ Redeemable(t)
    /\ tokens' = tokens \ {t}
    /\ IF LiveSession(t) /\ t.epoch = budget.epoch /\ t.root = root
          /\ t.revision = revision
       THEN call' = [call EXCEPT ![c] =
                       [phase |-> "starting", binding |-> t, live |-> TRUE]]
       ELSE UNCHANGED call
    /\ UNCHANGED <<budget, granted, revision>>

\* The pending usage row is admitted for a registered session, suspended or
\* not, and for a completed chat or workflow row, since a pending row carries
\* no success; then the handler starts.
UsageAdmitted(id) ==
    \/ Registered(id)
    \/ row[id] = "completed" /\ id \notin Opaque

BeginUsage(c) ==
    /\ op = NoOp
    /\ call[c].phase = "starting"
    /\ LET id == call[c].binding.id IN
       IF UsageAdmitted(id)
       THEN call' = [call EXCEPT ![c].phase = "running", ![c].live = Registered(id)]
       ELSE Ends(c)
    /\ UNCHANGED <<tokens, budget, granted, revision>>

EndExecution(c) ==
    /\ call[c].phase = "running"
    /\ Ends(c)
    /\ UNCHANGED <<tokens, budget, granted, revision>>

CallStep(c) ==
    /\ \/ \E id \in Ids : Request(c, id)
       \/ Approve(c) \/ Reserve(c) \/ Issue(c) \/ AuditGrant(c) \/ ReleaseReservation(c)
       \/ \E t \in tokens : Redeem(c, t)
       \/ BeginUsage(c) \/ EndExecution(c)
    /\ UNCHANGED <<row, saved, poisoned, bound, session, nextSessionGeneration, op,
                   root, switch>>

\* StartNewToolBudgetEpoch.
NewEpoch ==
    /\ budget.epoch < MaxEpoch
    /\ budget' = [epoch |-> budget.epoch + 1, spent |-> 0]
    /\ granted' = 0
    /\ UNCHANGED <<row, saved, poisoned, root, switch, op, runtimeVars, revision, call>>

\* ReplaceSources with a changed set of tools.
ReplaceSources ==
    /\ revision < MaxRevision
    /\ revision' = revision + 1
    /\ UNCHANGED <<row, saved, poisoned, root, switch, op, runtimeVars, budget,
                   granted, call>>

-----------------------------------------------------------------------------
(* The workspace switch.                                                   *)

\* The write side of the workspace lock: no operation, request or execution.
Quiet == op = NoOp /\ \A c \in Callers : call[c].phase = "idle"

ClosedRows ==
    [id \in Ids |-> IF row[id] \in {"running", "paused", "failed"} THEN "completed"
                    ELSE row[id]]

\* The new root is published, the snapshot taken and every row closed.  A
\* rejected save puts the root back and leaves the authority as it was; an
\* unknown outcome and a poisoned store revoke it.
BeginSwitch ==
    /\ Quiet
    /\ switch = NoSwitch
    /\ root < MaxSwitches
    /\ \E outcome \in {"durable", "rejected", "unknown"} :
         /\ poisoned => outcome = "unknown"
         /\ row' = IF poisoned \/ outcome = "rejected" THEN row ELSE ClosedRows
         /\ poisoned' = (poisoned \/ outcome = "unknown")
         /\ IF outcome = "rejected" THEN UNCHANGED runtimeVars
            ELSE UnregisterAllSessions /\ UNCHANGED nextSessionGeneration
         /\ IF outcome = "durable"
            THEN /\ root' = root + 1
                 /\ switch' = [phase |-> "published", row |-> row, root |-> root,
                               session |-> session, bound |-> bound,
                               next |-> nextSessionGeneration, tokens |-> tokens]
            ELSE UNCHANGED <<root, switch>>
    /\ UNCHANGED <<saved, op, callVars>>

CommitSwitch ==
    /\ switch # NoSwitch
    /\ switch' = NoSwitch
    /\ UNCHANGED <<row, saved, poisoned, root, op, runtimeVars, callVars>>

\* The capabilities stay burned.
RestoreRuntime ==
    /\ session' = switch.session
    /\ nextSessionGeneration' = switch.next
    /\ bound' = switch.bound
    /\ tokens' = {}

\* A restore that is not durable, or a skill policy that cannot be restored,
\* poisons the store and revokes everything.
RollbackSwitch ==
    /\ switch # NoSwitch
    /\ \E outcome \in {"durable", "rejected", "unknown"}, skills \in BOOLEAN :
         /\ row' = IF outcome = "rejected" THEN row ELSE switch.row
         /\ poisoned' = (outcome # "durable" \/ ~skills)
         /\ IF outcome = "durable" /\ skills THEN RestoreRuntime
            ELSE UnregisterAllSessions /\ UNCHANGED nextSessionGeneration
    /\ root' = switch.root
    /\ switch' = NoSwitch
    /\ UNCHANGED <<saved, op, callVars>>

-----------------------------------------------------------------------------
LifecycleInit ==
    /\ row \in [Ids -> {"none", "recovery", "completed"}]
    /\ saved = {}
    /\ poisoned = FALSE
    /\ bound = {}
    /\ session = [id \in Ids |-> Unregistered]
    /\ nextSessionGeneration = 0
    /\ tokens = {}
    /\ op = NoOp
    /\ root = 1
    /\ switch = NoSwitch
    /\ budget = [epoch |-> 1, spent |-> 0]
    /\ granted = 0
    /\ revision = 1
    /\ call = [c \in Callers |-> NoCall]

Operation(id) ==
    \/ nextSessionGeneration < MaxGeneration /\ Begin(id)
    \/ Checkpoint(id)
    \/ PauseOrFail("pause", id)
    \/ PauseOrFail("fail", id)
    \/ \E abort \in BOOLEAN : ResumeLatest(id, abort)
    \/ Complete(id)
    \/ CloseByID(id)
    \/ Discard(id)

LifecycleNext ==
    \/ \E id \in Ids : Operation(id)
    \/ Publish
    \/ Finish
    \/ \E c \in Callers : CallStep(c)
    \/ NewEpoch
    \/ ReplaceSources
    \/ BeginSwitch
    \/ CommitSwitch
    \/ RollbackSwitch

LifecycleSpec == LifecycleInit /\ [][LifecycleNext]_lifecycleVars

-----------------------------------------------------------------------------
(* Properties.                                                             *)

\* Types of the variables.
LifecycleTypeOK ==
    /\ row \in [Ids -> RowStatuses]
    /\ saved \subseteq Ids
    /\ poisoned \in BOOLEAN
    /\ bound \subseteq Ids
    /\ session \in [Ids -> SessionStates]
    /\ nextSessionGeneration \in Nat
    /\ tokens \subseteq Bindings
    /\ op = NoOp \/ (op.name \in Transitions /\ op.id \in Ids)
    /\ root \in Nat
    /\ budget \in [epoch : Nat, spent : Nat]
    /\ granted \in Nat
    /\ revision \in Nat
    /\ call \in [Callers -> [phase : Phases, binding : Bindings, live : BOOLEAN]]

\* Between operations the runtime and the durable rows agree, whichever step of
\* an operation failed: a session that may use tools has a running row, a
\* suspended one a row that can be resumed, and a running row of a healthy
\* store has not lost its runtime.
AuthorityFollowsRows ==
    op = NoOp /\ switch = NoSwitch => \A id \in Ids :
        /\ session[id].registered =>
             id \in bound /\ row[id] \in {"running", "paused", "failed"}
        /\ session[id].active => session[id].registered /\ row[id] = "running"
        /\ row[id] = "running" /\ ~poisoned => session[id].active

\* What was approved for an authority that was since suspended, closed or
\* switched away is never redeemed, although a session may be activated again,
\* and a rollback restores both generations.
BurnedStaysBurned ==
    \A c \in Callers : call[c].phase \in {"starting", "running"}
        => ~call[c].binding.burned

\* The budget charges exactly what was granted in its epoch and what is about
\* to be, whichever request failed, and whenever the user opened a new epoch.
BudgetMatchesGrants ==
    /\ budget.spent <= Limit
    /\ budget.spent = granted + Cardinality({c \in Callers :
           /\ call[c].phase \in {"issuing", "auditing", "releasing"}
           /\ call[c].binding.epoch = budget.epoch})

\* What completeLocked says: a capability is burned at redemption even if the
\* caller races the completion, so that no handler starts for a session whose
\* registration is gone.
HandlerStartsRegistered ==
    \A c \in Callers : call[c].phase = "running" => call[c].live
=============================================================================
