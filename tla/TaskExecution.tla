--------------------------- MODULE TaskExecution ---------------------------
(***************************************************************************)
(* Tracked task processes (src/services/task_service.go): Execute, Stop,   *)
(* the time limit and Shutdown.                                            *)
(*                                                                         *)
(* TaskService.mu guards the table of executions and the pending stops;    *)
(* every execution has its own lock.  A Stop looks its execution up under  *)
(* the first lock and stops it under the second, while the execution       *)
(* starts its process, waits for it, or gives up waiting.                  *)
(***************************************************************************)
EXTENDS Naturals, FiniteSets

CONSTANTS
    Executions,     \* calls of Execute
    TaskIds,        \* caller-provided execution identifiers
    Stoppers,       \* concurrent calls of Stop
    NoExecution,    \* an identifier with no active execution, a Stop with none
    PendingLimit    \* taskPendingStopLimit

ASSUME TaskAssumption ==
    TaskIds # {} /\ NoExecution \notin Executions /\ PendingLimit \in Nat \ {0}

VARIABLES
    active,         \* TaskService.active
    pendingStops,   \* TaskService.pendingStops
    shutdown,       \* shuttingDown, and the call of Shutdown
    execution,      \* the taskExecution and the process of each Execute
    stopper         \* the calls of Stop

taskVars == <<active, pendingStops, shutdown, execution, stopper>>

TaskStages == {"new", "registered", "started", "stopping", "returned"}

NewExecution ==
    [id |-> CHOOSE id \in TaskIds : TRUE, stage |-> "new",
     process |-> "none",        \* none, alive or dead
     stopReason |-> "none", finished |-> FALSE,
     attempt |-> "none",        \* terminationAttempt: none, pending or succeeded
     foretold |-> FALSE,        \* history: a Stop came before the registration
     natural |-> FALSE,         \* history: it finished before any stop
     label |-> "none"]          \* what Execute returned

SetField(e, field, value) == execution' = [execution EXCEPT ![e][field] = value]

-----------------------------------------------------------------------------
(* One execution.                                                          *)

\* The first reason wins; a process gets one termination attempt at a time.
Stopped(x, reason) ==
    IF x.finished THEN x
    ELSE [x EXCEPT !.stopReason = IF @ = "none" THEN reason ELSE @,
                   !.attempt = IF x.process # "none" /\ @ = "none" THEN "pending" ELSE @]

Finished(x) == [x EXCEPT !.finished = TRUE,
                         !.natural = @ \/ (~x.finished /\ x.stopReason = "none")]

Returned(x, label) == [Finished(x) EXCEPT !.stage = "returned", !.label = label]

\* Mutant: a pending stop is dropped when its execution is registered.
RegisterForgetful(e, id) ==
    /\ execution[e].stage = "new"
    /\ ~shutdown.called /\ active[id] = NoExecution
    /\ execution' = [execution EXCEPT ![e] =
           [NewExecution EXCEPT !.id = id, !.stage = "registered",
                                !.foretold = id \in pendingStops]]
    /\ active' = [active EXCEPT ![id] = e]
    /\ pendingStops' = pendingStops \ {id}
    /\ UNCHANGED <<shutdown, stopper>>

\* A stop that overtook the execution is taken over by it.
RegisterExecution(e, id) ==
    /\ execution[e].stage = "new"
    /\ IF shutdown.called \/ active[id] # NoExecution
       THEN /\ execution' = [execution EXCEPT ![e] =
                  Returned([NewExecution EXCEPT !.id = id], "refused")]
            /\ UNCHANGED <<active, pendingStops>>
       ELSE /\ execution' = [execution EXCEPT ![e] =
                  [NewExecution EXCEPT !.id = id, !.stage = "registered",
                       !.foretold = id \in pendingStops,
                       !.stopReason = IF id \in pendingStops THEN "caller" ELSE "none"]]
            /\ active' = [active EXCEPT ![id] = e]
            /\ pendingStops' = pendingStops \ {id}
    /\ UNCHANGED <<shutdown, stopper>>

Forgotten(e) ==
    [id \in TaskIds |-> IF active[id] = e THEN NoExecution ELSE active[id]]

\* Command policy, directory and parser may refuse the command.
RejectCommand(e) ==
    /\ execution[e].stage = "registered"
    /\ execution' = [execution EXCEPT ![e] = Returned(@, "rejected")]
    /\ active' = Forgotten(e)
    /\ UNCHANGED <<pendingStops, shutdown, stopper>>

\* The deadline may have passed before the start; a stopped execution does not
\* start its process, and the start itself may fail.
Start(e) ==
    /\ execution[e].stage = "registered"
    /\ \E late \in BOOLEAN, started \in BOOLEAN :
         LET x == IF late THEN Stopped(execution[e], "timeout") ELSE execution[e] IN
         IF x.stopReason # "none"
         THEN /\ execution' = [execution EXCEPT ![e] = Returned(x, "terminated")]
              /\ active' = Forgotten(e)
         ELSE IF ~started
         THEN /\ execution' = [execution EXCEPT ![e] = Returned(x, "failed")]
              /\ active' = Forgotten(e)
         ELSE /\ execution' = [execution EXCEPT ![e] =
                     [x EXCEPT !.stage = "started", !.process = "alive"]]
              /\ UNCHANGED active
    /\ UNCHANGED <<pendingStops, shutdown, stopper>>

\* The process ends by itself, or because a termination attempt succeeded.
ProcessExits(e) ==
    /\ execution[e].process = "alive"
    /\ SetField(e, "process", "dead")
    /\ UNCHANGED <<active, pendingStops, shutdown, stopper>>

\* cmd.Wait has returned; an execution that was given up is unregistered now.
Wait(e) ==
    /\ execution[e].process = "dead"
    /\ ~execution[e].finished
    /\ execution' = [execution EXCEPT ![e] = Finished(@)]
    /\ active' = IF execution[e].stage = "returned" THEN Forgotten(e) ELSE active
    /\ UNCHANGED <<pendingStops, shutdown, stopper>>

\* The execution sees the result of the wait.
ReturnResult(e) ==
    /\ execution[e].stage \in {"started", "stopping"}
    /\ execution[e].process = "dead" /\ execution[e].finished
    /\ execution' = [execution EXCEPT ![e] =
           Returned(@, IF @.stopReason = "none" THEN "completed" ELSE "terminated")]
    /\ active' = Forgotten(e)
    /\ UNCHANGED <<pendingStops, shutdown, stopper>>

\* The context ends with the deadline, or because a stop cancelled it.
ContextDone(e) ==
    /\ execution[e].stage = "started"
    /\ execution' = [execution EXCEPT ![e] =
           [Stopped(@, "timeout") EXCEPT !.stage = "stopping"]]
    /\ UNCHANGED <<active, pendingStops, shutdown, stopper>>

\* The process did not exit in time: the call returns, the entry stays.
GiveUp(e) ==
    /\ execution[e].stage = "stopping"
    /\ ~execution[e].finished
    /\ execution' = [execution EXCEPT ![e].stage = "returned", ![e].label = "unterminated"]
    /\ UNCHANGED <<active, pendingStops, shutdown, stopper>>

\* The attempt kills the process group or fails; a failed one may be repeated.
Terminate(e) ==
    /\ execution[e].attempt = "pending"
    /\ \/ execution' = [execution EXCEPT ![e].attempt = "succeeded", ![e].process = "dead"]
       \/ execution[e].process = "alive" /\ SetField(e, "attempt", "none")
    /\ UNCHANGED <<active, pendingStops, shutdown, stopper>>

-----------------------------------------------------------------------------
(* Stop and Shutdown.                                                      *)

\* An unknown identifier leaves a pending stop; a full table evicts one.
Lookup(s, id) ==
    /\ stopper[s] = NoExecution
    /\ IF active[id] # NoExecution
       THEN stopper' = [stopper EXCEPT ![s] = active[id]] /\ UNCHANGED pendingStops
       ELSE /\ ~shutdown.called
            /\ \E kept \in SUBSET pendingStops :
                 /\ IF Cardinality(pendingStops) < PendingLimit THEN kept = pendingStops
                    ELSE Cardinality(kept) = Cardinality(pendingStops) - 1
                 /\ pendingStops' = kept \cup {id}
            /\ UNCHANGED stopper
    /\ UNCHANGED <<active, shutdown, execution>>

\* A pending stop is forgotten after its time to live.
ExpirePendingStop(id) ==
    /\ id \in pendingStops
    /\ pendingStops' = pendingStops \ {id}
    /\ UNCHANGED <<active, shutdown, execution, stopper>>

StopExecution(s) ==
    /\ stopper[s] # NoExecution
    /\ execution' = [execution EXCEPT ![stopper[s]] = Stopped(@, "caller")]
    /\ stopper' = [stopper EXCEPT ![s] = NoExecution]
    /\ UNCHANGED <<active, pendingStops, shutdown>>

Shutdown ==
    /\ shutdown.phase = "none"
    /\ pendingStops' = {}
    /\ shutdown' = [called |-> TRUE, phase |-> "waiting", failed |-> FALSE,
                    stopped |-> {},
                    targets |-> {active[id] : id \in TaskIds} \ {NoExecution}]
    /\ UNCHANGED <<active, execution, stopper>>

ShutdownStop(e) ==
    /\ e \in shutdown.targets \ shutdown.stopped
    /\ shutdown' = [shutdown EXCEPT !.stopped = @ \cup {e}]
    /\ execution' = [execution EXCEPT ![e] = Stopped(@, "caller")]
    /\ UNCHANGED <<active, pendingStops, stopper>>

\* Each execution is waited for until it is done or the limit has passed.
ShutdownJoin(e) ==
    /\ e \in shutdown.targets \cap shutdown.stopped
    /\ \E done \in BOOLEAN :
         /\ done => execution[e].finished
         /\ shutdown' = [shutdown EXCEPT !.targets = @ \ {e}, !.failed = @ \/ ~done]
    /\ UNCHANGED <<active, pendingStops, execution, stopper>>

ShutdownReturn ==
    /\ shutdown.phase = "waiting"
    /\ shutdown.targets = {}
    /\ shutdown' = [shutdown EXCEPT !.phase = "returned"]
    /\ UNCHANGED <<active, pendingStops, execution, stopper>>

-----------------------------------------------------------------------------
TaskInit ==
    /\ active = [id \in TaskIds |-> NoExecution]
    /\ pendingStops = {}
    /\ shutdown = [called |-> FALSE, phase |-> "none", failed |-> FALSE,
                   stopped |-> {}, targets |-> {}]
    /\ execution = [e \in Executions |-> NewExecution]
    /\ stopper = [s \in Stoppers |-> NoExecution]

\* What execution e does by itself once it is registered.
Progress(e) == \/ Start(e) \/ Wait(e) \/ ReturnResult(e) \/ ContextDone(e)
               \/ GiveUp(e) \/ Terminate(e)

TaskNext ==
    \/ \E e \in Executions, id \in TaskIds : RegisterExecution(e, id)
    \/ \E e \in Executions : RejectCommand(e) \/ ProcessExits(e) \/ Progress(e)
    \/ \E s \in Stoppers, id \in TaskIds : Lookup(s, id)
    \/ \E s \in Stoppers : StopExecution(s)
    \/ \E id \in TaskIds : ExpirePendingStop(id)
    \/ Shutdown
    \/ \E e \in Executions : ShutdownStop(e) \/ ShutdownJoin(e)
    \/ ShutdownReturn

TaskSpec == TaskInit /\ [][TaskNext]_taskVars

-----------------------------------------------------------------------------
(* Properties.                                                             *)

\* Types of the variables.
TaskTypeOK ==
    /\ active \in [TaskIds -> Executions \cup {NoExecution}]
    /\ pendingStops \subseteq TaskIds
    /\ shutdown \in [called : BOOLEAN, phase : {"none", "waiting", "returned"},
                     failed : BOOLEAN, stopped : SUBSET Executions,
                     targets : SUBSET Executions]
    /\ execution \in [Executions ->
          [id : TaskIds, stage : TaskStages, process : {"none", "alive", "dead"},
           stopReason : {"none", "caller", "timeout"}, finished : BOOLEAN,
           attempt : {"none", "pending", "succeeded"}, foretold : BOOLEAN,
           natural : BOOLEAN,
           label : {"none", "refused", "rejected", "failed", "completed",
                    "terminated", "unterminated"}]]
    /\ stopper \in [Stoppers -> Executions \cup {NoExecution}]

\* A stop that overtook its execution keeps the process from starting, and the
\* stop of a process that exited by itself does not relabel its result.
StopTakesTheRightEffect ==
    \A e \in Executions :
        /\ execution[e].foretold => execution[e].process = "none"
        /\ execution[e].natural => execution[e].label \notin {"terminated", "unterminated"}

\* Two processes never run under one identifier, and one that outlived its call
\* can still be found by it.
OneProcessPerIdentifier ==
    \A e \in Executions :
        execution[e].process = "alive" => active[execution[e].id] = e

\* A Stop reaches the process it names, however it races with the start and the
\* end of the execution, and nothing else.
StopReachesItsProcess == StopTakesTheRightEffect /\ OneProcessPerIdentifier

\* A Shutdown that reports no error has left no process, and none starts later,
\* wherever the executions were when it was called.
ShutdownIsComplete ==
    shutdown.phase = "returned" /\ ~shutdown.failed
        => \A e \in Executions : execution[e].process # "alive"
=============================================================================
