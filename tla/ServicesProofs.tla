--------------------------- MODULE ServicesProofs ---------------------------
(***************************************************************************)
(* Proofs about four services that are stopped while they work.            *)
(*                                                                         *)
(* TaskExecution: a Stop or the time limit that takes effect reaches the   *)
(* process it names, and Shutdown leaves none behind.                      *)
(* AIStreams: the stream that runs a session's row is the one the row      *)
(* counts, Close returns when no unit is left, and nobody waits in a       *)
(* circle.                                                                 *)
(* MCPClient: a list the client returns was current when it was asked for, *)
(* and whoever waits for an answer has a call that will answer it.         *)
(* DocumentSync: a pending change has a timer or a sender that completes   *)
(* it, and the server has the text the client believes it has.             *)
(*                                                                         *)
(* The services share no variable: each has an inductive invariant of its  *)
(* own and one lemma for each kind of step.  At the end, with the agent    *)
(* lifecycle, extensions and rebases, they are put together as MCServices  *)
(* runs them.                                                              *)
(***************************************************************************)
EXTENDS MCServices, AgentLifecycleProofs, ExtensionRebaseProofs, TLAPS

-----------------------------------------------------------------------------
(* Tasks: the inductive invariant.                                         *)

Tracked ==
    [id : TaskIds, stage : TaskStages, process : {"none", "alive", "dead"},
     stopReason : {"none", "caller", "timeout"}, finished : BOOLEAN,
     attempt : {"none", "pending", "succeeded"}, foretold : BOOLEAN, natural : BOOLEAN,
     label : {"none", "refused", "rejected", "failed", "completed", "terminated",
              "unterminated"}]

\* What an execution says of itself: an execution has a reason before it is cut
\* off, and none after it finished without one.
Consistent(x) ==
    /\ x.foretold => x.stopReason # "none" /\ x.process = "none"
    /\ x.attempt # "none" => x.process # "none"
    /\ x.natural => x.finished /\ x.stopReason = "none"
    /\ x.label \in {"terminated", "unterminated"} => x.stopReason # "none"
    /\ x.stage = "stopping" /\ ~x.finished => x.stopReason # "none"
    /\ x.stage \in {"new", "registered"} => x.process = "none" /\ ~x.finished
    /\ x.finished => x.process # "alive"

\* It must be found by its identifier.
Findable(x) == x.process = "alive" \/ x.stage \in {"registered", "started", "stopping"}

\* It has no process and will not start one after Shutdown was called.
Over(x) ==
    \/ x.finished
    \/ x.stage \in {"new", "returned"} /\ x.process # "alive"

ShutdownInv ==
    /\ shutdown.called <=> shutdown.phase # "none"
    /\ shutdown.phase = "returned" => shutdown.targets = {}
    /\ shutdown.called /\ ~shutdown.failed =>
         \A e \in Executions : e \in shutdown.targets \/ Over(execution[e])

TaskInv ==
    /\ TaskTypeOK
    /\ \A e \in Executions :
         /\ Consistent(execution[e])
         /\ Findable(execution[e]) => active[execution[e].id] = e
    /\ ShutdownInv

-----------------------------------------------------------------------------
(* Tasks: steps.                                                           *)

\* A stop keeps an execution consistent.
LEMMA StoppedExecution ==
    ASSUME NEW x \in Tracked, Consistent(x), NEW reason \in {"caller", "timeout"}
    PROVE  LET y == Stopped(x, reason)
           IN  /\ y \in Tracked /\ Consistent(y) /\ y.id = x.id /\ y.stage = x.stage
               /\ y.process = x.process /\ y.finished = x.finished
               /\ ~y.finished => y.stopReason # "none"
<1>1. CASE x.finished BY <1>1 DEF Stopped
<1>2. CASE ~x.finished
  <2> DEFINE y == Stopped(x, reason)
  <2>1. y = [x EXCEPT !.stopReason = IF x.stopReason = "none" THEN reason ELSE x.stopReason,
                      !.attempt = IF x.process # "none" /\ x.attempt = "none" THEN "pending"
                                  ELSE x.attempt]
    BY <1>2 DEF Stopped
  <2>2. /\ y \in Tracked /\ y.id = x.id /\ y.stage = x.stage /\ y.process = x.process
        /\ y.finished = x.finished /\ y.foretold = x.foretold /\ y.natural = x.natural
        /\ y.label = x.label /\ y.stopReason # "none"
        /\ x.process = "none" => y.attempt = x.attempt
    BY <2>1 DEF Tracked
  <2> HIDE DEF y
  <2>3. Consistent(y) BY <1>2, <2>2 DEF Consistent
  <2> QED BY <2>2, <2>3 DEF y
<1> QED BY <1>1, <1>2

\* So does the end of its wait.
LEMMA FinishedExecution ==
    ASSUME NEW x \in Tracked, Consistent(x), x.process # "alive",
           x.stage \notin {"new", "registered"}
    PROVE  Finished(x) \in Tracked /\ Consistent(Finished(x)) /\ Finished(x).id = x.id
           /\ Finished(x).finished /\ Finished(x).process = x.process
           /\ Finished(x).stopReason = x.stopReason /\ Finished(x).stage = x.stage
<1> DEFINE y == Finished(x)
<1>1. /\ y.id = x.id /\ y.stage = x.stage /\ y.process = x.process
      /\ y.finished = TRUE /\ y.foretold = x.foretold
      /\ y.natural = (x.natural \/ (~x.finished /\ x.stopReason = "none"))
      /\ y.label = x.label /\ y.stopReason = x.stopReason /\ y.attempt = x.attempt
  BY DEF Finished, Tracked
<1>2. (x.natural \/ (~x.finished /\ x.stopReason = "none")) \in BOOLEAN
  OBVIOUS
<1>3. y \in Tracked BY <1>2 DEF Finished, Tracked
<1> HIDE DEF y
<1>4. Consistent(y) BY <1>1, Zenon DEF Consistent
<1> QED BY <1>1, <1>3, <1>4 DEF y

\* And its return.
LEMMA ReturnedExecution ==
    ASSUME NEW x \in Tracked, Consistent(x), x.process # "alive",
           NEW label \in {"refused", "rejected", "failed", "completed", "terminated"},
           label = "terminated" => x.stopReason # "none"
    PROVE  /\ Returned(x, label) \in Tracked /\ Consistent(Returned(x, label))
           /\ Over(Returned(x, label)) /\ ~Findable(Returned(x, label))
<1> DEFINE y == Returned(x, label)
<1>1. (x.natural \/ (~x.finished /\ x.stopReason = "none")) \in BOOLEAN
  OBVIOUS
<1>2. /\ y.id = x.id /\ y.stage = "returned" /\ y.process = x.process
      /\ y.finished = TRUE /\ y.foretold = x.foretold
      /\ y.natural = (x.natural \/ (~x.finished /\ x.stopReason = "none"))
      /\ y.label = label /\ y.stopReason = x.stopReason /\ y.attempt = x.attempt
  BY DEF Returned, Finished, Tracked
<1>3. y \in Tracked
  <2> DEFINE finished == Finished(x)
             named == [finished EXCEPT !.stage = "returned"]
  <2>1. finished \in Tracked BY <1>1 DEF Finished, Tracked
  <2>2. y = [finished EXCEPT !.stage = "returned", !.label = label] BY DEF Returned
  <2>3. "returned" \in TaskStages BY DEF TaskStages
  <2>4. label \in {"none", "refused", "rejected", "failed", "completed", "terminated",
                   "unterminated"}
    OBVIOUS
  <2> HIDE DEF finished, y
  <2>5. named \in Tracked BY <2>1, <2>3 DEF Tracked
  <2>6. [named EXCEPT !.label = label] = [finished EXCEPT !.stage = "returned", !.label = label]
    OBVIOUS
  <2> HIDE DEF named
  <2>7. [named EXCEPT !.label = label] \in Tracked BY <2>4, <2>5 DEF Tracked
  <2> QED BY <2>2, <2>6, <2>7
<1> HIDE DEF y
<1>4. Consistent(y) BY <1>2, Zenon DEF Consistent
<1>5. Over(y) /\ ~Findable(y) BY <1>2 DEF Over, Findable
<1> QED BY <1>3, <1>4, <1>5 DEF y

\* One execution moves, and gives up its identifier only when nothing needs it.
LEMMA ExecutionMoves ==
    ASSUME TaskInv, NEW e \in Executions, NEW y \in Tracked, Consistent(y),
           execution' = [execution EXCEPT ![e] = y], active' \in {active, Forgotten(e)},
           Findable(y) => active' = active /\ Findable(execution[e]) /\ y.id = execution[e].id,
           Over(execution[e]) => Over(y),
           UNCHANGED <<pendingStops, shutdown, stopper>>
    PROVE  TaskInv'
<1>1. /\ execution \in [Executions -> Tracked] /\ active \in [TaskIds -> Executions \cup {NoExecution}]
      /\ NoExecution \notin Executions
  BY TaskAssumption DEF TaskInv, TaskTypeOK, Tracked
<1>2. /\ execution'[e] = y /\ \A d \in Executions \ {e} : execution'[d] = execution[d]
      /\ execution' \in [Executions -> Tracked]
  BY <1>1
<1>3. /\ active' \in [TaskIds -> Executions \cup {NoExecution}]
      /\ \A id \in TaskIds, d \in Executions \ {e} : active[id] = d => active'[id] = d
  BY <1>1 DEF Forgotten
<1>4. ASSUME NEW d \in Executions
      PROVE  /\ Consistent(execution'[d])
             /\ Findable(execution'[d]) => active'[execution'[d].id] = d
  <2>1. CASE d = e BY <1>2, <2>1 DEF TaskInv
  <2>2. CASE d # e
    <3>1. execution[d].id \in TaskIds BY <1>1 DEF Tracked
    <3> QED BY <1>2, <1>3, <2>2, <3>1 DEF TaskInv
  <2> QED BY <2>1, <2>2
<1>5. ShutdownInv' BY <1>2 DEF TaskInv, ShutdownInv
<1>6. TaskTypeOK' BY <1>2, <1>3 DEF TaskInv, TaskTypeOK, Tracked
<1> QED BY <1>4, <1>5, <1>6 DEF TaskInv

\* Every step of an execution keeps the invariant.
LEMMA ExecutionStep ==
    ASSUME TaskInv, NEW e \in Executions, RejectCommand(e) \/ ProcessExits(e) \/ Progress(e)
    PROVE  TaskInv'
<1> DEFINE x == execution[e]
<1>1. /\ x \in Tracked /\ Consistent(x) /\ execution \in [Executions -> Tracked]
  BY DEF TaskInv, TaskTypeOK, Tracked
<1>2. CASE RejectCommand(e)
  <2>1. /\ x.stage = "registered" /\ execution' = [execution EXCEPT ![e] = Returned(x, "rejected")]
        /\ active' = Forgotten(e) /\ UNCHANGED <<pendingStops, shutdown, stopper>>
    BY <1>2 DEF RejectCommand
  <2>2. x.process # "alive" BY <1>1, <2>1 DEF Consistent
  <2> QED BY <1>1, <2>1, <2>2, ReturnedExecution, ExecutionMoves
<1>3. CASE ProcessExits(e)
  <2> DEFINE y == [x EXCEPT !.process = "dead"]
  <2>1. /\ x.process = "alive" /\ execution' = [execution EXCEPT ![e] = y]
        /\ UNCHANGED <<active, pendingStops, shutdown, stopper>>
    BY <1>3 DEF ProcessExits, SetField
  <2>2. /\ y \in Tracked /\ y.id = x.id /\ y.stage = x.stage /\ y.process = "dead"
        /\ y.finished = x.finished /\ y.foretold = x.foretold /\ y.natural = x.natural
        /\ y.label = x.label /\ y.stopReason = x.stopReason /\ y.attempt = x.attempt
    BY <1>1 DEF Tracked
  <2> HIDE DEF y
  <2>3. Consistent(y) /\ (Findable(y) => Findable(x)) /\ (Over(x) => Over(y))
    BY <1>1, <2>1, <2>2 DEF Consistent, Findable, Over
  <2> QED BY <2>1, <2>2, <2>3, ExecutionMoves
<1>4. CASE Start(e)
  <2>1. PICK late \in BOOLEAN, started \in BOOLEAN :
          LET z == IF late THEN Stopped(x, "timeout") ELSE x IN
          IF z.stopReason # "none"
          THEN /\ execution' = [execution EXCEPT ![e] = Returned(z, "terminated")]
               /\ active' = Forgotten(e)
          ELSE IF ~started
          THEN /\ execution' = [execution EXCEPT ![e] = Returned(z, "failed")]
               /\ active' = Forgotten(e)
          ELSE /\ execution' = [execution EXCEPT ![e] = [z EXCEPT !.stage = "started",
                                                                 !.process = "alive"]]
               /\ UNCHANGED active
    BY <1>4 DEF Start
  <2> DEFINE z == IF late THEN Stopped(x, "timeout") ELSE x
  <2>2. x.stage = "registered" /\ UNCHANGED <<pendingStops, shutdown, stopper>>
    BY <1>4 DEF Start
  <2>3. /\ z \in Tracked /\ Consistent(z) /\ z.id = x.id /\ z.stage = "registered"
        /\ z.process = "none" /\ ~z.finished
    BY <1>1, <2>2, StoppedExecution DEF Consistent
  <2>4. z.stopReason = "none" => ~late
    <3>1. late => z.stopReason # "none" BY <1>1, <2>3, StoppedExecution
    <3> QED BY <3>1
  <2> HIDE DEF z
  <2>5. ASSUME NEW label \in {"failed", "terminated"}, label = "terminated" => z.stopReason # "none",
               execution' = [execution EXCEPT ![e] = Returned(z, label)], active' = Forgotten(e)
        PROVE  TaskInv'
    BY <2>2, <2>3, <2>5, ReturnedExecution, ExecutionMoves
  <2>6. ASSUME z.stopReason = "none", UNCHANGED active,
               execution' = [execution EXCEPT ![e] = [z EXCEPT !.stage = "started",
                                                              !.process = "alive"]]
        PROVE  TaskInv'
    <3> DEFINE y == [z EXCEPT !.stage = "started", !.process = "alive"]
    <3>1. /\ y \in Tracked /\ y.id = z.id /\ y.stage = "started" /\ y.process = "alive"
          /\ y.finished = z.finished /\ y.foretold = z.foretold /\ y.natural = z.natural
          /\ y.label = z.label /\ y.stopReason = z.stopReason /\ y.attempt = z.attempt
      BY <2>3 DEF Tracked, TaskStages
    <3>2. execution' = [execution EXCEPT ![e] = y] BY <2>6
    <3> HIDE DEF y
    <3>3. Consistent(y) BY <2>3, <2>6, <3>1 DEF Consistent
    <3>4. Findable(x) /\ ~Over(x) BY <1>1, <2>2 DEF Findable, Over, Consistent
    <3> QED BY <2>2, <2>3, <2>6, <3>1, <3>2, <3>3, <3>4, ExecutionMoves
  <2> QED BY <2>1, <2>5, <2>6 DEF z
<1>5. CASE Wait(e)
  <2>1. /\ x.process = "dead" /\ ~x.finished /\ execution' = [execution EXCEPT ![e] = Finished(x)]
        /\ active' = (IF x.stage = "returned" THEN Forgotten(e) ELSE active)
        /\ UNCHANGED <<pendingStops, shutdown, stopper>>
    BY <1>5 DEF Wait
  <2>2. x.stage \notin {"new", "registered"} BY <1>1, <2>1 DEF Consistent
  <2> DEFINE y == Finished(x)
  <2>3. /\ y \in Tracked /\ Consistent(y) /\ y.id = x.id /\ y.finished /\ y.process = x.process
        /\ y.stage = x.stage
    BY <1>1, <2>1, <2>2, FinishedExecution
  <2>4. execution' = [execution EXCEPT ![e] = y] BY <2>1
  <2> HIDE DEF y
  <2>5. (Findable(y) => active' = active /\ Findable(x)) /\ Over(y)
    BY <2>1, <2>3 DEF Findable, Over
  <2> QED BY <2>1, <2>3, <2>4, <2>5, ExecutionMoves
<1>6. CASE ReturnResult(e)
  <2> DEFINE label == IF x.stopReason = "none" THEN "completed" ELSE "terminated"
  <2>1. /\ x.process = "dead" /\ execution' = [execution EXCEPT ![e] = Returned(x, label)]
        /\ active' = Forgotten(e) /\ UNCHANGED <<pendingStops, shutdown, stopper>>
    BY <1>6 DEF ReturnResult
  <2>2. label \in {"completed", "terminated"} /\ (label = "terminated" => x.stopReason # "none")
    OBVIOUS
  <2> HIDE DEF label
  <2> QED BY <1>1, <2>1, <2>2, ReturnedExecution, ExecutionMoves
<1>7. CASE ContextDone(e)
  <2> DEFINE z == Stopped(x, "timeout")
             y == [z EXCEPT !.stage = "stopping"]
  <2>1. /\ x.stage = "started" /\ execution' = [execution EXCEPT ![e] = y]
        /\ UNCHANGED <<active, pendingStops, shutdown, stopper>>
    BY <1>7 DEF ContextDone
  <2>2. /\ z \in Tracked /\ Consistent(z) /\ z.id = x.id /\ z.stage = x.stage
        /\ z.process = x.process /\ z.finished = x.finished
        /\ ~z.finished => z.stopReason # "none"
    BY <1>1, StoppedExecution
  <2> HIDE DEF z
  <2>3. /\ y \in Tracked /\ y.id = z.id /\ y.stage = "stopping" /\ y.process = z.process
        /\ y.finished = z.finished /\ y.foretold = z.foretold /\ y.natural = z.natural
        /\ y.label = z.label /\ y.stopReason = z.stopReason /\ y.attempt = z.attempt
    BY <2>2 DEF Tracked, TaskStages
  <2> HIDE DEF y
  <2>4. Consistent(y) BY <2>2, <2>3 DEF Consistent
  <2>5. Findable(x) /\ (Over(x) => Over(y)) BY <2>1, <2>2, <2>3 DEF Findable, Over
  <2> QED BY <2>1, <2>2, <2>3, <2>4, <2>5, ExecutionMoves
<1>8. CASE GiveUp(e)
  <2> DEFINE y == [x EXCEPT !.stage = "returned", !.label = "unterminated"]
  <2>1. /\ x.stage = "stopping" /\ ~x.finished /\ execution' = [execution EXCEPT ![e] = y]
        /\ UNCHANGED <<active, pendingStops, shutdown, stopper>>
    BY <1>1, <1>8 DEF GiveUp
  <2>2. /\ y \in Tracked /\ y.id = x.id /\ y.stage = "returned" /\ y.process = x.process
        /\ y.finished = x.finished /\ y.foretold = x.foretold /\ y.natural = x.natural
        /\ y.label = "unterminated" /\ y.stopReason = x.stopReason /\ y.attempt = x.attempt
    BY <1>1 DEF Tracked, TaskStages
  <2> HIDE DEF y
  <2>3. Consistent(y) BY <1>1, <2>1, <2>2 DEF Consistent
  <2>4. Findable(x) /\ ~Over(x) BY <2>1 DEF Findable, Over
  <2> QED BY <2>1, <2>2, <2>3, <2>4, ExecutionMoves
<1>9. CASE Terminate(e)
  <2>1. /\ x.attempt = "pending" /\ UNCHANGED <<active, pendingStops, shutdown, stopper>>
        /\ \/ execution' = [execution EXCEPT ![e] = [x EXCEPT !.attempt = "succeeded", !.process = "dead"]]
           \/ x.process = "alive" /\ execution' = [execution EXCEPT ![e] = [x EXCEPT !.attempt = "none"]]
    BY <1>1, <1>9 DEF Terminate, SetField
  <2>2. ASSUME NEW y \in Tracked, y.id = x.id, y.stage = x.stage, y.process \in {x.process, "dead"},
               y.finished = x.finished, y.foretold = x.foretold, y.natural = x.natural,
               y.label = x.label, y.stopReason = x.stopReason,
               execution' = [execution EXCEPT ![e] = y]
        PROVE  TaskInv'
    <3>1. x.process # "none" BY <1>1, <2>1 DEF Consistent
    <3>2. Consistent(y) BY <1>1, <2>2, <3>1 DEF Consistent
    <3>3. (Findable(y) => Findable(x)) /\ (Over(x) => Over(y)) BY <2>2 DEF Findable, Over
    <3> QED BY <2>1, <2>2, <3>2, <3>3, ExecutionMoves
  <2>3. CASE execution' = [execution EXCEPT ![e] = [x EXCEPT !.attempt = "succeeded", !.process = "dead"]]
    <3> DEFINE y == [x EXCEPT !.attempt = "succeeded", !.process = "dead"]
    <3>1. /\ y \in Tracked /\ y.id = x.id /\ y.stage = x.stage /\ y.process = "dead"
          /\ y.finished = x.finished /\ y.foretold = x.foretold /\ y.natural = x.natural
          /\ y.label = x.label /\ y.stopReason = x.stopReason
      BY <1>1 DEF Tracked
    <3>2. execution' = [execution EXCEPT ![e] = y] BY <2>3
    <3> HIDE DEF y
    <3> QED BY <2>2, <3>1, <3>2
  <2>4. CASE execution' = [execution EXCEPT ![e] = [x EXCEPT !.attempt = "none"]]
    <3> DEFINE y == [x EXCEPT !.attempt = "none"]
    <3>1. /\ y \in Tracked /\ y.id = x.id /\ y.stage = x.stage /\ y.process = x.process
          /\ y.finished = x.finished /\ y.foretold = x.foretold /\ y.natural = x.natural
          /\ y.label = x.label /\ y.stopReason = x.stopReason
      BY <1>1 DEF Tracked
    <3>2. execution' = [execution EXCEPT ![e] = y] BY <2>4
    <3> HIDE DEF y
    <3> QED BY <2>2, <3>1, <3>2
  <2> QED BY <2>1, <2>3, <2>4
<1> QED BY <1>2, <1>3, <1>4, <1>5, <1>6, <1>7, <1>8, <1>9 DEF Progress

\* A registration finds its identifier free, or is refused.
LEMMA RegisterStep ==
    ASSUME TaskInv, NEW e \in Executions, NEW id \in TaskIds, RegisterExecution(e, id)
    PROVE  TaskInv'
<1> DEFINE n == [NewExecution EXCEPT !.id = id]
<1>0. NewExecution \in Tracked
  <2>1. (CHOOSE i \in TaskIds : TRUE) \in TaskIds BY TaskAssumption
  <2> QED BY <2>1 DEF NewExecution, Tracked, TaskStages
<1>1. /\ n \in Tracked /\ n.id = id /\ n.stage = "new" /\ n.process = "none"
      /\ n.stopReason = "none" /\ n.finished = FALSE /\ n.attempt = "none"
      /\ n.foretold = FALSE /\ n.natural = FALSE /\ n.label = "none"
  BY <1>0 DEF NewExecution, Tracked
<1>2. execution[e].stage = "new" /\ UNCHANGED <<shutdown, stopper>>
  BY DEF RegisterExecution
<1>3. /\ execution \in [Executions -> Tracked] /\ active \in [TaskIds -> Executions \cup {NoExecution}]
      /\ NoExecution \notin Executions /\ pendingStops \subseteq TaskIds
  BY TaskAssumption DEF TaskInv, TaskTypeOK, Tracked
<1>4. CASE shutdown.called \/ active[id] # NoExecution
  <2>1. /\ execution' = [execution EXCEPT ![e] = Returned(n, "refused")]
        /\ UNCHANGED <<active, pendingStops>>
    BY <1>4 DEF RegisterExecution
  <2>2. Consistent(n) BY <1>1 DEF Consistent
  <2> HIDE DEF n
  <2> QED BY <1>1, <1>2, <2>1, <2>2, ReturnedExecution, ExecutionMoves
<1>5. CASE ~(shutdown.called \/ active[id] # NoExecution)
  <2> DEFINE r == [NewExecution EXCEPT !.id = id, !.stage = "registered",
                       !.foretold = id \in pendingStops,
                       !.stopReason = IF id \in pendingStops THEN "caller" ELSE "none"]
  <2>1. /\ execution' = [execution EXCEPT ![e] = r]
        /\ active' = [active EXCEPT ![id] = e]
        /\ pendingStops' = pendingStops \ {id}
    BY <1>5 DEF RegisterExecution
  <2>2. /\ r.id = id /\ r.stage = "registered" /\ r.process = "none"
        /\ r.stopReason = (IF id \in pendingStops THEN "caller" ELSE "none")
        /\ r.finished = FALSE /\ r.attempt = "none" /\ r.foretold = (id \in pendingStops)
        /\ r.natural = FALSE /\ r.label = "none"
    BY <1>0 DEF NewExecution, Tracked
  <2>3. r \in Tracked
    <3>1. (id \in pendingStops) \in BOOLEAN OBVIOUS
    <3> QED BY <1>0, <3>1 DEF Tracked, TaskStages
  <2> HIDE DEF r
  <2>4. Consistent(r) BY <2>2 DEF Consistent
  <2>5. /\ execution'[e] = r /\ \A d \in Executions \ {e} : execution'[d] = execution[d]
        /\ execution' \in [Executions -> Tracked]
    BY <1>3, <2>1, <2>3
  <2>6. /\ active' \in [TaskIds -> Executions \cup {NoExecution}] /\ active'[id] = e
        /\ \A i \in TaskIds : active[i] # NoExecution => active'[i] = active[i]
    BY <1>3, <1>5, <2>1
  <2>7. ASSUME NEW d \in Executions
        PROVE  /\ Consistent(execution'[d])
               /\ Findable(execution'[d]) => active'[execution'[d].id] = d
    <3>1. CASE d = e BY <2>2, <2>4, <2>5, <2>6, <3>1
    <3>2. CASE d # e
      <4>1. execution[d].id \in TaskIds BY <1>3 DEF Tracked
      <4> QED BY <1>3, <2>5, <2>6, <3>2, <4>1 DEF TaskInv
    <3> QED BY <3>1, <3>2
  <2>8. TaskTypeOK' BY <1>2, <1>3, <2>1, <2>5, <2>6 DEF TaskInv, TaskTypeOK, Tracked
  <2>9. ShutdownInv' BY <1>2, <1>5 DEF TaskInv, ShutdownInv
  <2> QED BY <2>7, <2>8, <2>9 DEF TaskInv
<1> QED BY <1>4, <1>5

\* A stop, by a caller or by Shutdown, changes no process.
LEMMA StopStep ==
    ASSUME TaskInv, NEW e \in Executions,
           execution' = [execution EXCEPT ![e] = Stopped(execution[e], "caller")],
           UNCHANGED <<active, pendingStops>>,
           stopper' \in [Stoppers -> Executions \cup {NoExecution}],
           shutdown' = shutdown \/ shutdown' = [shutdown EXCEPT !.stopped = @ \cup {e}]
    PROVE  TaskInv'
<1> DEFINE y == Stopped(execution[e], "caller")
<1>1. execution \in [Executions -> Tracked] /\ Consistent(execution[e])
  BY DEF TaskInv, TaskTypeOK, Tracked
<1>2. /\ y \in Tracked /\ Consistent(y) /\ y.id = execution[e].id
      /\ y.stage = execution[e].stage /\ y.process = execution[e].process
      /\ y.finished = execution[e].finished
  BY <1>1, StoppedExecution
<1>3. execution' = [execution EXCEPT ![e] = y] OBVIOUS
<1> HIDE DEF y
<1>4. /\ execution' \in [Executions -> Tracked]
      /\ \A d \in Executions : /\ Consistent(execution'[d])
                               /\ Findable(execution'[d]) <=> Findable(execution[d])
                               /\ Over(execution'[d]) <=> Over(execution[d])
                               /\ execution'[d].id = execution[d].id
  <2>1. execution' \in [Executions -> Tracked] BY <1>1, <1>2, <1>3
  <2>2. Findable(y) <=> Findable(execution[e]) BY <1>2 DEF Findable
  <2>3. Over(y) <=> Over(execution[e]) BY <1>2 DEF Over
  <2>4. execution'[e] = y /\ \A d \in Executions \ {e} : execution'[d] = execution[d]
    BY <1>1, <1>3
  <2>5. ASSUME NEW d \in Executions
        PROVE  /\ Consistent(execution'[d]) /\ execution'[d].id = execution[d].id
               /\ (Findable(execution'[d]) <=> Findable(execution[d]))
               /\ (Over(execution'[d]) <=> Over(execution[d]))
    <3>1. CASE d = e BY <1>2, <2>2, <2>3, <2>4, <3>1
    <3>2. CASE d # e BY <2>4, <3>2 DEF TaskInv
    <3> QED BY <3>1, <3>2
  <2> QED BY <2>1, <2>5
<1>5. /\ shutdown'.called = shutdown.called /\ shutdown'.phase = shutdown.phase
      /\ shutdown'.failed = shutdown.failed /\ shutdown'.targets = shutdown.targets
      /\ shutdown' \in [called : BOOLEAN, phase : {"none", "waiting", "returned"},
                        failed : BOOLEAN, stopped : SUBSET Executions,
                        targets : SUBSET Executions]
  BY DEF TaskInv, TaskTypeOK
<1>6. ShutdownInv' BY <1>4, <1>5 DEF TaskInv, ShutdownInv
<1>7. TaskTypeOK' BY <1>4, <1>5 DEF TaskInv, TaskTypeOK, Tracked
<1> QED BY <1>4, <1>6, <1>7 DEF TaskInv

\* A Stop that finds nothing, the end of its wait, and the phases of Shutdown
\* touch no execution.
LEMMA TableStep ==
    ASSUME TaskInv, UNCHANGED execution,
           active' = active,
           \/ \E s \in Stoppers, id \in TaskIds : Lookup(s, id)
           \/ \E id \in TaskIds : ExpirePendingStop(id)
           \/ Shutdown
           \/ \E e \in Executions : ShutdownJoin(e)
           \/ ShutdownReturn
    PROVE  TaskInv'
<1>1. /\ \A e \in Executions : /\ Consistent(execution[e])' /\ execution[e] \in Tracked
                               /\ Findable(execution[e])' => active'[execution'[e].id] = e
      /\ active \in [TaskIds -> Executions \cup {NoExecution}]
  BY DEF TaskInv, TaskTypeOK, Tracked
<1>2. SUFFICES TaskTypeOK' /\ ShutdownInv' BY <1>1 DEF TaskInv
<1>3. CASE \E s \in Stoppers, id \in TaskIds : Lookup(s, id)
  BY <1>3 DEF Lookup, TaskInv, TaskTypeOK, ShutdownInv
<1>4. CASE \E id \in TaskIds : ExpirePendingStop(id)
  BY <1>4 DEF ExpirePendingStop, TaskInv, TaskTypeOK, ShutdownInv
<1>5. CASE Shutdown
  <2>1. /\ shutdown'.called = TRUE /\ shutdown'.phase = "waiting"
        /\ shutdown'.targets = {active[id] : id \in TaskIds} \ {NoExecution}
        /\ shutdown' \in [called : BOOLEAN, phase : {"none", "waiting", "returned"},
                          failed : BOOLEAN, stopped : SUBSET Executions,
                          targets : SUBSET Executions]
        /\ pendingStops' = {} /\ UNCHANGED stopper
    BY <1>1, <1>5 DEF Shutdown
  <2>2. ASSUME NEW e \in Executions, e \notin shutdown'.targets
        PROVE  Over(execution[e])
    <3>1. execution[e].id \in TaskIds /\ e # NoExecution /\ execution[e].stage \in TaskStages
      BY <1>1, TaskAssumption DEF Tracked
    <3>2. active[execution[e].id] # e BY <2>1, <2>2, <3>1
    <3>3. ~Findable(execution[e]) BY <3>2 DEF TaskInv
    <3> QED BY <3>1, <3>3 DEF Findable, Over, TaskStages
  <2> QED BY <2>1, <2>2 DEF TaskInv, TaskTypeOK, ShutdownInv
<1>6. CASE \E e \in Executions : ShutdownJoin(e)
  <2>1. PICK e \in Executions, done \in BOOLEAN :
          /\ e \in shutdown.targets /\ (done => execution[e].finished)
          /\ shutdown' = [shutdown EXCEPT !.targets = @ \ {e}, !.failed = @ \/ ~done]
          /\ UNCHANGED <<pendingStops, stopper>>
    BY <1>6 DEF ShutdownJoin
  <2>2. /\ shutdown'.called = shutdown.called /\ shutdown'.phase = shutdown.phase
        /\ shutdown'.failed = (shutdown.failed \/ ~done)
        /\ shutdown'.targets = shutdown.targets \ {e}
        /\ shutdown' \in [called : BOOLEAN, phase : {"none", "waiting", "returned"},
                          failed : BOOLEAN, stopped : SUBSET Executions,
                          targets : SUBSET Executions]
    <3>1. (shutdown.failed \/ ~done) \in BOOLEAN OBVIOUS
    <3> QED BY <2>1, <3>1 DEF TaskInv, TaskTypeOK
  <2>3. execution[e].finished => Over(execution[e]) BY DEF Over
  <2> QED BY <2>1, <2>2, <2>3 DEF TaskInv, TaskTypeOK, ShutdownInv
<1>7. CASE ShutdownReturn
  BY <1>7 DEF ShutdownReturn, TaskInv, TaskTypeOK, ShutdownInv
<1> QED BY <1>3, <1>4, <1>5, <1>6, <1>7

\* The inductive invariant of tasks holds.
LEMMA TaskInvariance == TaskSpec => []TaskInv
<1>1. TaskInit => TaskInv
  <2> SUFFICES ASSUME TaskInit PROVE TaskInv OBVIOUS
  <2>1. NewExecution \in Tracked
    <3>1. (CHOOSE i \in TaskIds : TRUE) \in TaskIds BY TaskAssumption
    <3> QED BY <3>1 DEF NewExecution, Tracked, TaskStages
  <2>2. Consistent(NewExecution) /\ ~Findable(NewExecution)
    BY DEF NewExecution, Consistent, Findable
  <2>3. \A e \in Executions : execution[e] = NewExecution BY DEF TaskInit
  <2>4. TaskTypeOK BY <2>1 DEF TaskInit, TaskTypeOK, Tracked
  <2>5. ShutdownInv BY DEF TaskInit, ShutdownInv
  <2> QED BY <2>2, <2>3, <2>4, <2>5 DEF TaskInv
<1>2. TaskInv /\ [TaskNext]_taskVars => TaskInv'
  <2> SUFFICES ASSUME TaskInv, [TaskNext]_taskVars PROVE TaskInv' OBVIOUS
  <2>1. CASE UNCHANGED taskVars
    BY <2>1 DEF taskVars, TaskInv, TaskTypeOK, ShutdownInv
  <2>2. CASE \E e \in Executions, id \in TaskIds : RegisterExecution(e, id)
    BY <2>2, RegisterStep
  <2>3. CASE \E e \in Executions : RejectCommand(e) \/ ProcessExits(e) \/ Progress(e)
    BY <2>3, ExecutionStep
  <2>4. CASE \/ \E s \in Stoppers, id \in TaskIds : Lookup(s, id)
             \/ \E id \in TaskIds : ExpirePendingStop(id)
             \/ Shutdown
             \/ \E e \in Executions : ShutdownJoin(e)
             \/ ShutdownReturn
    <3>1. UNCHANGED execution /\ active' = active
      BY <2>4 DEF Lookup, ExpirePendingStop, Shutdown, ShutdownJoin, ShutdownReturn
    <3> QED BY <2>4, <3>1, TableStep
  <2>5. CASE \E s \in Stoppers : StopExecution(s)
    <3>1. PICK s \in Stoppers : StopExecution(s) BY <2>5
    <3>2. stopper[s] \in Executions /\ stopper' \in [Stoppers -> Executions \cup {NoExecution}]
      BY <3>1 DEF StopExecution, TaskInv, TaskTypeOK
    <3>3. execution' = [execution EXCEPT ![stopper[s]] = Stopped(execution[stopper[s]], "caller")]
          /\ UNCHANGED <<active, pendingStops, shutdown>>
      BY <3>1 DEF StopExecution
    <3> QED BY <3>2, <3>3, StopStep
  <2>6. CASE \E e \in Executions : ShutdownStop(e)
    <3>1. PICK e \in Executions : ShutdownStop(e) BY <2>6
    <3>2. /\ execution' = [execution EXCEPT ![e] = Stopped(execution[e], "caller")]
          /\ UNCHANGED <<active, pendingStops, stopper>>
          /\ shutdown' = [shutdown EXCEPT !.stopped = @ \cup {e}]
      BY <3>1 DEF ShutdownStop
    <3> QED BY <3>2, StopStep DEF TaskInv, TaskTypeOK
  <2> QED BY <2>1, <2>2, <2>3, <2>4, <2>5, <2>6 DEF TaskNext
<1> QED BY <1>1, <1>2, PTL DEF TaskSpec

\* Types of the task engine's variables.
THEOREM TaskTypeCorrect == TaskSpec => []TaskTypeOK
BY TaskInvariance, PTL DEF TaskInv

\* A stop reaches its process, however it races with start and end.
THEOREM StopsReachTheirProcess == TaskSpec => []StopReachesItsProcess
<1>1. TaskInv => StopReachesItsProcess
  BY DEF TaskInv, StopReachesItsProcess, StopTakesTheRightEffect, OneProcessPerIdentifier,
         Consistent, Findable
<1> QED BY <1>1, TaskInvariance, PTL

\* A Shutdown without an error has left no process.
THEOREM ShutdownsComplete == TaskSpec => []ShutdownIsComplete
<1>1. TaskInv => ShutdownIsComplete
  <2> SUFFICES ASSUME TaskInv, shutdown.phase = "returned", ~shutdown.failed,
                      NEW e \in Executions
               PROVE  execution[e].process # "alive"
    BY DEF ShutdownIsComplete
  <2>1. Over(execution[e]) BY DEF TaskInv, ShutdownInv
  <2> QED BY <2>1 DEF TaskInv, Over, Consistent
<1> QED BY <1>1, TaskInvariance, PTL

-----------------------------------------------------------------------------
(* AI streams: the inductive invariant.                                    *)

Chat ==
    [at : StreamStages, session : Conversations \cup Streams \cup {NoStream},
     attempt : 0 .. MaxAttempts, success : BOOLEAN]

Row ==
    [status : {"none", "running", "paused", "failed", "completed"}, attempt : 0 .. MaxAttempts]

\* Between these an agent stream holds the session admission, ...
Admitting == {"snapshot", "claim", "prepare", "preflight", "record failure"}

\* ... every stream its slot, ...
Claiming == {"prepare", "preflight", "begin", "open", "provider", "finish", "terminal",
             "emit", "clear"}

\* ... and its lease of the workspace.
Leasing == {"claim", "prepare"} \cup OpenStages

Recording == {"open", "provider", "finish", "terminal"}

Unit(w) ==
    LET x == stream[w] IN
    /\ x.session \in Conversations \cup {w, NoStream}
    /\ x.at = "new" => x.session = NoStream
    /\ x.at \notin {"new", "ended"} => x.session # NoStream
    /\ x.at \in Claiming => slot = w
    /\ x.at \in Leasing => w \in leases
    /\ Persistent(w) /\ x.at \in Admitting => admissionMu = w
    /\ x.at \in {"prepare", "record failure"} => Persistent(w)
    /\ x.at \in {"new", "snapshot", "claim", "prepare"} => x.attempt = 0
    /\ x.at \in {"preflight", "begin"} /\ ~Persistent(w) => x.attempt = 0
    /\ x.at \in Recording \/ (Persistent(w) /\ x.at \in OpenStages) => x.attempt > 0
    /\ x.at \in OpenStages /\ x.attempt > 0 =>
         RowOf(w) = [status |-> "running", attempt |-> x.attempt]

Numbered(r) == /\ r.status = "none" => r.attempt = 0
               /\ r.status = "running" => r.attempt > 0

RowsInv == \A s \in Conversations \cup Streams : Numbered(chatRow[s])

\* A call that records its failure has no slot any more, but nobody else has
\* taken its session.
FailureInv ==
    \A w, v \in Streams :
        stream[w].at = "record failure" /\ v # w /\ stream[v].session = stream[w].session
            => stream[v].at \notin Claiming

\* A session that is being closed is entered by no call; the one that is in it
\* is the one that is waited for.
CloserInv(c) ==
    LET k == closer[c] IN
    /\ k.at \in {"lease", "cancel", "wait", "close"} => k.session \in closingSessions
    /\ k.at = "wait" => k.target \in Streams /\ stream[k.target].session = k.session
    /\ k.at = "wait" => \A w \in Streams \ {k.target} :
           stream[w].session = k.session => stream[w].at \notin Claiming
    /\ k.at = "close" => \A w \in Streams :
           stream[w].session = k.session => stream[w].at \notin Claiming

CloseInv ==
    /\ \A w \in Streams : stream[w].session \in closingSessions => stream[w].at \notin Admitting
    /\ \A c \in Closers : CloserInv(c)

\* Nobody claims the slot once it is sealed.
DrainInv ==
    /\ drain.at # "idle" => admissionClosed
    /\ drain.at = "wait" => slot \in {drain.target, NoStream}
    /\ drain.at = "drained" => \A w \in Streams : stream[w].at \notin Claiming

StreamsInv ==
    /\ StreamsTypeOK /\ RowsInv /\ (\A w \in Streams : Unit(w))
    /\ FailureInv /\ CloseInv /\ DrainInv

-----------------------------------------------------------------------------
(* AI streams: steps.                                                      *)

\* Of two streams of one session, one at most may write its row.
LEMMA OneWriter ==
    ASSUME StreamsInv, NEW w \in Streams, NEW v \in Streams, v # w,
           stream[v].session = stream[w].session,
           stream[w].at \in OpenStages \cup {"prepare"}
    PROVE  stream[v].at \notin OpenStages
<1>1. Unit(v) /\ Unit(w) /\ FailureInv BY DEF StreamsInv
<1>2. stream[w].session \in Conversations
  <2>1. stream[w].session # NoStream /\ stream[w].session \in Conversations \cup {w}
    BY <1>1 DEF Unit, OpenStages
  <2>2. stream[v].session \in Conversations \cup {v, NoStream} BY <1>1 DEF Unit
  <2> QED BY <2>1, <2>2
<1>3. SUFFICES ASSUME stream[v].at \in OpenStages PROVE FALSE OBVIOUS
<1>4. CASE stream[v].at = "record failure" /\ stream[w].at = "record failure"
  BY <1>1, <1>2, <1>4 DEF Unit, Persistent, Admitting
<1>5. CASE stream[v].at = "record failure" /\ stream[w].at # "record failure"
  BY <1>1, <1>5 DEF FailureInv, OpenStages, Claiming
<1>6. CASE stream[v].at # "record failure" /\ stream[w].at = "record failure"
  BY <1>1, <1>3, <1>6 DEF FailureInv, OpenStages, Claiming
<1>7. CASE stream[v].at # "record failure" /\ stream[w].at # "record failure"
  <2>1. stream[v].at \in Claiming /\ stream[w].at \in Claiming
    BY <1>3, <1>7 DEF OpenStages, Claiming
  <2> QED BY <1>1, <2>1 DEF Unit
<1> QED BY <1>4, <1>5, <1>6, <1>7

\* One stream moves: what it changes is its own.
LEMMA UnitMoves ==
    ASSUME StreamsInv, NEW w \in Streams, NEW y \in Chat,
           stream' = [stream EXCEPT ![w] = y],
           UNCHANGED others, cancelled' \subseteq Streams,
           stream[w].at = "new" \/ y.session = stream[w].session,
           \/ slot' = slot
           \/ slot' = ReleaseClaim(w)
           \/ slot' = w /\ slot = NoStream /\ ~admissionClosed,
           leases' \in {leases, leases \cup {w}, leases \ {w}},
           \/ admissionMu' = admissionMu
           \/ admissionMu' = w /\ admissionMu = NoStream
           \/ admissionMu' = NoStream /\ admissionMu = w,
           chatRow' \in [Conversations \cup Streams -> Row], RowsInv',
           \A s \in Conversations \cup Streams : chatRow'[s] # chatRow[s] =>
               s = stream[w].session /\ stream[w].at \in OpenStages \cup {"prepare"},
           y.at \in Claiming =>
               \/ stream[w].at \in Claiming
               \/ stream[w].at = "claim" /\ ~admissionClosed,
           y.at \in Admitting =>
               stream[w].at \in Admitting
                 \/ (stream[w].at = "new" /\ y.session \notin closingSessions),
           y.at = "record failure" => stream[w].at \in Claiming,
           Unit(w)'
    PROVE  StreamsInv'
<1>1. /\ stream \in [Streams -> Chat] /\ chatRow \in [Conversations \cup Streams -> Row]
      /\ slot \in Streams \cup {NoStream} /\ admissionMu \in Streams \cup {NoStream}
      /\ leases \subseteq Streams \cup Closers /\ NoStream \notin Streams
  BY StreamsAssumption DEF StreamsInv, StreamsTypeOK, Chat, Row
<1>2. /\ stream'[w] = y /\ \A v \in Streams \ {w} : stream'[v] = stream[v]
      /\ stream' \in [Streams -> Chat]
  BY <1>1
<1>3. UNCHANGED <<admissionClosed, closingSessions, writer, closer, drain>>
  BY DEF others
<1>4. StreamsTypeOK'
  <2>1. slot' \in Streams \cup {NoStream} BY <1>1 DEF ReleaseClaim
  <2>2. admissionMu' \in Streams \cup {NoStream} /\ leases' \subseteq Streams \cup Closers
    BY <1>1
  <2> QED BY <1>2, <1>3, <2>1, <2>2 DEF StreamsInv, StreamsTypeOK, Chat, Row
<1>5. ASSUME NEW v \in Streams \ {w} PROVE Unit(v)'
  <2>1. stream'[v] = stream[v] /\ Unit(v) BY <1>2 DEF StreamsInv
  <2>2. slot = v => slot' = v BY <1>1 DEF ReleaseClaim
  <2>3. admissionMu = v => admissionMu' = v BY <1>1
  <2>4. v \in leases => v \in leases' OBVIOUS
  <2>5. stream[v].at \in OpenStages /\ stream[v].attempt > 0 => RowOf(v)' = RowOf(v)
    <3>1. stream[v].at \in OpenStages => stream[v].session \in Conversations \cup Streams
      BY <2>1 DEF Unit, OpenStages
    <3>2. stream[v].at \in OpenStages /\ stream[w].at \in OpenStages \cup {"prepare"} =>
            stream[v].session # stream[w].session
      BY OneWriter
    <3> QED BY <2>1, <3>1, <3>2 DEF RowOf
  <2> QED BY <2>1, <2>2, <2>3, <2>4, <2>5 DEF Unit, Persistent
<1>6. \A v \in Streams : stream'[v].session = stream[v].session \/ (v = w /\ stream[w].at = "new")
  BY <1>2
<1>7. ASSUME NEW v \in Streams, stream[v].at = "record failure", v # w,
             y.session = stream[v].session
      PROVE  y.at \notin Claiming
  <2>1. Unit(v) /\ FailureInv BY DEF StreamsInv
  <2>2. admissionMu = v /\ stream[v].session \in Conversations
    BY <1>7, <2>1 DEF Unit, Persistent, Admitting
  <2>3. stream[w].at # "new" => stream[w].at \notin Claiming
    BY <1>7, <2>1 DEF FailureInv
  <2>4. stream[w].at = "claim" => FALSE
    <3>1. stream[w].at = "claim" => stream[w].session = stream[v].session BY <1>7
    <3>2. Unit(w) BY DEF StreamsInv
    <3> QED BY <1>7, <2>2, <3>1, <3>2 DEF Unit, Persistent, Admitting
  <2>5. "new" \notin Claiming BY DEF Claiming
  <2> QED BY <2>3, <2>4, <2>5
<1>8. ASSUME NEW v \in Streams, y.at = "record failure", v # w
      PROVE  stream[v].at \notin Claiming
  <2>1. Unit(v) /\ Unit(w) BY DEF StreamsInv
  <2> QED BY <1>8, <2>1 DEF Unit
<1>9. FailureInv'
  <2> SUFFICES ASSUME NEW u \in Streams, NEW v \in Streams,
                      stream'[u].at = "record failure", v # u,
                      stream'[v].session = stream'[u].session
               PROVE  stream'[v].at \notin Claiming
    BY DEF FailureInv
  <2>1. CASE u = w BY <1>2, <1>8, <2>1
  <2>2. CASE v = w BY <1>2, <1>7, <2>2
  <2>3. CASE u # w /\ v # w BY <1>2, <2>3 DEF StreamsInv, FailureInv
  <2> QED BY <2>1, <2>2, <2>3
<1>10. \A v \in Streams : stream'[v].session \in closingSessions => stream'[v].at \notin Admitting
  <2>1. y.session \in closingSessions => y.at \notin Admitting
    <3>1. stream[w].session \in closingSessions => stream[w].at \notin Admitting
      BY DEF StreamsInv, CloseInv
    <3>2. "new" \notin Admitting BY DEF Admitting
    <3> QED BY <3>1, <3>2
  <2> QED BY <1>2, <2>1 DEF StreamsInv, CloseInv
<1>11. ASSUME NEW s \in closingSessions, y.session = s, y.at \in Claiming
       PROVE  stream[w].session = s /\ stream[w].at \in Claiming
  <2>1. stream[w].session \in closingSessions => stream[w].at \notin Admitting
    BY DEF StreamsInv, CloseInv
  <2> QED BY <1>11, <2>1 DEF Admitting, Claiming
<1>12. ASSUME NEW c \in Closers PROVE CloserInv(c)'
  <2> DEFINE k == closer[c]
  <2>1. /\ k.at \in {"lease", "cancel", "wait", "close"} => k.session \in closingSessions
        /\ k.at = "wait" => k.target \in Streams /\ stream[k.target].session = k.session
        /\ k.at = "wait" => \A v \in Streams \ {k.target} :
               stream[v].session = k.session => stream[v].at \notin Claiming
        /\ k.at = "close" => \A v \in Streams :
               stream[v].session = k.session => stream[v].at \notin Claiming
    BY DEF StreamsInv, CloseInv, CloserInv
  <2>2. stream[w].at = "new" => stream[w].session \notin closingSessions
    <3>1. closingSessions \subseteq Conversations BY DEF StreamsInv, StreamsTypeOK
    <3>2. NoStream \notin Conversations BY StreamsAssumption
    <3>3. Unit(w) BY DEF StreamsInv
    <3>4. stream[w].at = "new" => stream[w].session = NoStream BY <3>3 DEF Unit
    <3> QED BY <3>1, <3>2, <3>4
  <2>3. k' = k BY <1>3
  <2> HIDE DEF k
  <2>4. ASSUME k.at = "wait" PROVE stream'[k.target].session = k.session
    BY <1>2, <2>1, <2>2, <2>4
  <2>5. ASSUME k.at \in {"wait", "close"}, NEW v \in Streams,
               stream'[v].session = k.session, stream'[v].at \in Claiming
        PROVE  stream[v].session = k.session /\ stream[v].at \in Claiming
    BY <1>2, <1>11, <2>1, <2>5
  <2>6. /\ k.at \in {"lease", "cancel", "wait", "close"} => k.session \in closingSessions
        /\ k.at = "wait" => k.target \in Streams /\ stream'[k.target].session = k.session
        /\ k.at = "wait" => \A v \in Streams \ {k.target} :
               stream'[v].session = k.session => stream'[v].at \notin Claiming
        /\ k.at = "close" => \A v \in Streams :
               stream'[v].session = k.session => stream'[v].at \notin Claiming
    BY <2>1, <2>4, <2>5
  <2> QED BY <1>3, <2>6 DEF CloserInv, k
<1>13. DrainInv'
  <2>1. drain.at # "idle" => slot' \in {slot, NoStream}
    BY DEF StreamsInv, DrainInv, ReleaseClaim
  <2>2. drain.at = "drained" => y.at \notin Claiming
    BY DEF StreamsInv, DrainInv
  <2> QED BY <1>2, <1>3, <2>1, <2>2 DEF StreamsInv, DrainInv
<1>14. CloseInv' BY <1>3, <1>10, <1>12 DEF CloseInv
<1>15. \A v \in Streams : Unit(v)' BY <1>5
<1> QED BY <1>4, <1>9, <1>13, <1>14, <1>15 DEF StreamsInv

\* What a row becomes when its execution begins.
LEMMA BegunRow ==
    ASSUME StreamsInv, NEW w \in Streams, stream[w].session \in Conversations \cup Streams,
           RowOf(w).attempt < MaxAttempts \/ Running(RowOf(w))
    PROVE  /\ Begun(w) \in [Conversations \cup Streams -> Row]
           /\ \A s \in Conversations \cup Streams :
                 /\ s # stream[w].session => Begun(w)[s] = chatRow[s]
                 /\ Numbered(Begun(w)[s])
           /\ Begun(w)[stream[w].session].status = "running"
           /\ Begun(w)[stream[w].session].attempt \in 1 .. MaxAttempts
           /\ Running(RowOf(w)) => Begun(w)[stream[w].session] = RowOf(w)
<1> DEFINE s == stream[w].session
           r == chatRow[s]
           n == IF r.status = "running" THEN r ELSE [status |-> "running", attempt |-> r.attempt + 1]
<1>1. /\ chatRow \in [Conversations \cup Streams -> Row] /\ r \in Row /\ MaxAttempts \in Nat
      /\ Numbered(r)
  BY StreamsAssumption DEF StreamsInv, StreamsTypeOK, Row, RowsInv
<1>2. Begun(w) = [chatRow EXCEPT ![s] = n] BY DEF Begun, Running
<1>3. n \in Row /\ n.status = "running" /\ n.attempt \in 1 .. MaxAttempts
      /\ (r.status = "running" => n = r)
  <2>1. r.attempt \in 0 .. MaxAttempts BY <1>1 DEF Row
  <2>2. CASE r.status = "running"
    <3>1. n = r /\ r.attempt > 0 BY <1>1, <2>2 DEF Numbered
    <3> QED BY <1>1, <2>1, <2>2, <3>1
  <2>3. CASE r.status # "running"
    <3>1. r.attempt + 1 \in 1 .. MaxAttempts BY <1>1, <2>1, <2>3 DEF RowOf, Running
    <3>2. n = [status |-> "running", attempt |-> r.attempt + 1] BY <2>3
    <3> QED BY <1>1, <2>3, <3>1, <3>2 DEF Row
  <2> QED BY <2>2, <2>3
<1> HIDE DEF n
<1>4. /\ Begun(w)[s] = n /\ Begun(w) \in [Conversations \cup Streams -> Row]
      /\ \A t \in Conversations \cup Streams : t # s => Begun(w)[t] = chatRow[t]
  BY <1>1, <1>2, <1>3
<1>5. Numbered(n) BY <1>1, <1>3 DEF Numbered
<1> QED BY <1>1, <1>3, <1>4, <1>5 DEF StreamsInv, RowsInv, RowOf, Running

\* What a row becomes when its execution ends.
LEMMA EndedRow ==
    ASSUME StreamsInv, NEW w \in Streams, stream[w].session \in Conversations \cup Streams,
           NEW status \in {"failed", "completed"}
    PROVE  /\ SetStatus(w, status) \in [Conversations \cup Streams -> Row]
           /\ \A s \in Conversations \cup Streams :
                 /\ s # stream[w].session => SetStatus(w, status)[s] = chatRow[s]
                 /\ Numbered(SetStatus(w, status)[s])
<1> DEFINE s == stream[w].session
           n == [chatRow[s] EXCEPT !.status = status]
           rows == SetStatus(w, status)
<1>1. /\ chatRow \in [Conversations \cup Streams -> Row] /\ chatRow[s] \in Row
      /\ \A t \in Conversations \cup Streams : Numbered(chatRow[t])
  BY DEF StreamsInv, StreamsTypeOK, Row, RowsInv
<1>2. CASE rows = chatRow BY <1>1, <1>2
<1>3. CASE rows # chatRow
  <2>1. rows = [chatRow EXCEPT ![s] = n] /\ chatRow[s].status = "running"
    BY <1>1, <1>3 DEF SetStatus, Running, RowOf
  <2>2. n \in Row /\ Numbered(n)
    <3>1. n \in Row /\ n.status = status BY <1>1 DEF Row
    <3> QED BY <3>1 DEF Numbered
  <2> HIDE DEF n
  <2> QED BY <1>1, <2>1, <2>2
<1> QED BY <1>2, <1>3

\* Every step of a call and its worker keeps the invariant.
LEMMA StreamStep ==
    ASSUME StreamsInv, NEW w \in Streams,
           \/ StartStream(w) \/ (\E s \in Conversations : StartAgentStream(w, s))
           \/ WorkerStep(w) \/ ProviderReturns(w) \/ Deadline(w)
    PROVE  StreamsInv'
<1> DEFINE x == stream[w]
<1>1. /\ x \in Chat /\ stream \in [Streams -> Chat] /\ Unit(w) /\ NoStream \notin Streams
      /\ w \notin Conversations /\ NoStream \notin Conversations
      /\ chatRow \in [Conversations \cup Streams -> Row] /\ RowsInv
      /\ leases \subseteq Streams \cup Closers /\ cancelled \subseteq Streams
      /\ slot \in Streams \cup {NoStream} /\ admissionMu \in Streams \cup {NoStream}
  BY StreamsAssumption DEF StreamsInv, StreamsTypeOK, Chat, Row
<1> DEFINE mine == x.session \in Conversations \cup {w}
           settled == chatRow' = chatRow /\ cancelled' = cancelled /\ UNCHANGED others
\* a stage that keeps session and attempt
<1>2. ASSUME NEW stage \in StreamStages
      PROVE  LET y == [x EXCEPT !.at = stage] IN
             /\ y \in Chat /\ y.at = stage /\ y.session = x.session
             /\ y.attempt = x.attempt /\ y.success = x.success
  BY <1>1 DEF Chat
<1>3. ASSUME NEW stage \in {"ended", "emit", "clear", "release"},
             stage # "ended" => x.at \in Claiming,
             stage \in {"emit", "clear"} => slot' = slot,
             Goes(w, stage), UNCHANGED others, cancelled' = cancelled,
             slot' = slot \/ slot' = ReleaseClaim(w),
             leases' = leases \/ leases' = leases \ {w},
             admissionMu' = admissionMu \/ (admissionMu' = NoStream /\ admissionMu = w),
             chatRow' \in [Conversations \cup Streams -> Row], RowsInv',
             \A s \in Conversations \cup Streams : chatRow'[s] # chatRow[s] =>
                s = x.session /\ x.at \in OpenStages
      PROVE  StreamsInv'
  <2> DEFINE y == [x EXCEPT !.at = stage]
  <2>1. /\ y \in Chat /\ y.at = stage /\ y.session = x.session
        /\ y.attempt = x.attempt
    BY <1>1 DEF Chat, StreamStages
  <2>2. stream' = [stream EXCEPT ![w] = y] BY <1>1, <1>3 DEF Goes
  <2> HIDE DEF y
  <2>3. stream'[w] = y BY <1>1, <2>2
  <2>4. Unit(w)'
    <3>1. x.session \in Conversations \cup {w, NoStream}
          /\ (x.at \notin {"new", "ended"} => x.session # NoStream)
          /\ (x.at = "new" => x.session = NoStream) /\ (x.at \in Claiming => slot = w)
      BY <1>1, <1>3 DEF Unit
    <3>2. stage \in {"emit", "clear"} => slot' = w BY <1>3, <3>1
    <3>3. stage = "release" => x.session # NoStream
      BY <1>3, <3>1 DEF Claiming
    <3> QED BY <1>3, <2>1, <2>3, <3>1, <3>2, <3>3
         DEF Unit, Claiming, Leasing, Admitting, OpenStages, Recording, Persistent
  <2>5. cancelled' \subseteq Streams BY <1>1, <1>3
  <2>6. y.at \notin Admitting /\ y.at # "record failure" /\ (y.at \in Claiming => x.at \in Claiming)
    BY <1>3, <2>1 DEF Admitting, Claiming
  <2> QED BY <1>3, <2>1, <2>2, <2>4, <2>5, <2>6, UnitMoves
<1>4. CASE StartStream(w)
  <2> DEFINE y == [x EXCEPT !.at = "snapshot", !.session = w]
  <2>1. /\ x.at = "new" /\ stream' = [stream EXCEPT ![w] = y] /\ settled
        /\ UNCHANGED <<slot, leases, admissionMu>>
    BY <1>4, <1>1 DEF StartStream, At, locks
  <2>2. y \in Chat /\ y.at = "snapshot" /\ y.session = w /\ y.attempt = x.attempt
    BY <1>1 DEF Chat, StreamStages
  <2> HIDE DEF y
  <2>3. stream'[w] = y BY <1>1, <2>1
  <2>4. Unit(w)'
    BY <1>1, <2>1, <2>2, <2>3
       DEF Unit, Claiming, Leasing, Admitting, OpenStages, Recording, Persistent
  <2>5. w \notin closingSessions BY <1>1 DEF StreamsInv, StreamsTypeOK
  <2>6. /\ cancelled' \subseteq Streams /\ y.at \notin Claiming /\ y.at # "record failure"
        /\ RowsInv' /\ chatRow' \in [Conversations \cup Streams -> Row]
    BY <1>1, <2>1, <2>2 DEF Claiming, RowsInv
  <2> QED BY <2>1, <2>2, <2>4, <2>5, <2>6, UnitMoves
<1>5. CASE \E s \in Conversations : StartAgentStream(w, s)
  <2>1. PICK s \in Conversations : StartAgentStream(w, s) BY <1>5
  <2>2. /\ x.at = "new" /\ settled /\ UNCHANGED <<slot, leases>> /\ admissionMu = NoStream
    BY <2>1 DEF StartAgentStream, At
  <2>3. RowsInv' /\ chatRow' \in [Conversations \cup Streams -> Row]
    BY <1>1, <2>2 DEF RowsInv
  <2>4. CASE s \in closingSessions
    <3>1. Goes(w, "ended") /\ UNCHANGED admissionMu BY <2>1, <2>4 DEF StartAgentStream
    <3> QED BY <1>3, <2>2, <2>3, <3>1
  <2>5. CASE s \notin closingSessions
    <3> DEFINE y == [x EXCEPT !.at = "snapshot", !.session = s]
    <3>1. admissionMu' = w /\ stream' = [stream EXCEPT ![w] = y]
      BY <1>1, <2>1, <2>5 DEF StartAgentStream
    <3>2. y \in Chat /\ y.at = "snapshot" /\ y.session = s /\ y.attempt = x.attempt
      BY <1>1 DEF Chat, StreamStages
    <3> HIDE DEF y
    <3>3. stream'[w] = y BY <1>1, <3>1
    <3>4. Unit(w)'
      BY <1>1, <2>2, <3>1, <3>2, <3>3
         DEF Unit, Claiming, Leasing, Admitting, OpenStages, Recording, Persistent
    <3>5. cancelled' \subseteq Streams /\ y.at \notin Claiming /\ y.at # "record failure"
      BY <1>1, <2>2, <3>2 DEF Claiming
    <3> QED BY <2>2, <2>3, <2>5, <3>1, <3>2, <3>4, <3>5, UnitMoves
  <2> QED BY <2>4, <2>5
\* a step to a later stage that changes no row and keeps its attempt
<1>6. ASSUME NEW stage \in StreamStages, NEW success \in BOOLEAN,
             stream' = [stream EXCEPT ![w] = [x EXCEPT !.at = stage, !.success = success]],
             UNCHANGED <<chatRow, others>>, cancelled' \subseteq Streams,
             \/ /\ x.at = "snapshot" /\ stage = "claim" /\ leases' = leases \cup {w}
                /\ UNCHANGED <<slot, admissionMu>>
             \/ /\ x.at = "claim" /\ stage = (IF Persistent(w) THEN "prepare" ELSE "preflight")
                /\ slot' = w /\ slot = NoStream /\ ~admissionClosed /\ UNCHANGED locks
             \/ /\ x.at = "preflight" /\ stage = "begin" /\ UNCHANGED <<slot, leases>>
                /\ admissionMu' = (IF admissionMu = w THEN NoStream ELSE admissionMu)
             \/ /\ x.at = "preflight" /\ stage = "record failure" /\ Persistent(w)
                /\ slot' = ReleaseClaim(w) /\ UNCHANGED locks
             \/ /\ \/ x.at = "open" /\ stage = "provider"
                   \/ x.at = "provider" /\ stage \in {"provider", "finish"}
                   \/ x.at = "finish" /\ stage = "terminal"
                /\ UNCHANGED <<slot, locks>>
      PROVE  StreamsInv'
  <2> DEFINE y == [x EXCEPT !.at = stage, !.success = success]
  <2>1. y \in Chat /\ y.at = stage /\ y.session = x.session /\ y.attempt = x.attempt
    BY <1>1 DEF Chat
  <2>2. stream' = [stream EXCEPT ![w] = y] BY <1>6
  <2> HIDE DEF y
  <2>3. stream'[w] = y BY <1>1, <2>2
  <2>4. Persistent(w)' <=> Persistent(w) BY <2>1, <2>3 DEF Persistent
  <2>5. RowOf(w)' = RowOf(w) BY <1>6, <2>1, <2>3 DEF RowOf
  <2>6. Unit(w)'
    <3>1. CASE x.at = "snapshot"
      BY <1>1, <1>6, <2>1, <2>3, <2>4, <3>1
         DEF Unit, Claiming, Leasing, Admitting, OpenStages, Recording
    <3>2. CASE x.at = "claim"
      <4>1. w \in leases /\ x.attempt = 0 /\ (Persistent(w) => admissionMu = w)
        BY <1>1, <3>2 DEF Unit, Leasing, Admitting
      <4>2. slot' = w /\ UNCHANGED <<leases, admissionMu>> BY <1>6, <3>2 DEF locks
      <4>3. stage \in {"prepare", "preflight"} /\ (stage = "prepare" <=> Persistent(w))
        BY <1>6, <3>2
      <4>4. x.session \in Conversations \cup {w, NoStream} /\ x.session # NoStream
        BY <1>1, <3>2 DEF Unit
      <4>5. CASE Persistent(w)
        <5>1. stage = "prepare" /\ admissionMu' = w BY <4>1, <4>2, <4>3, <4>5
        <5> QED BY <2>1, <2>3, <2>4, <4>1, <4>2, <4>4, <4>5, <5>1
             DEF Unit, Claiming, Leasing, Admitting, OpenStages, Recording
      <4>6. CASE ~Persistent(w)
        <5>1. stage = "preflight" BY <4>3, <4>6
        <5>2. y.attempt = 0 /\ ~(y.attempt > 0) BY <2>1, <4>1
        <5> QED BY <5>2, <2>1, <2>3, <2>4, <4>1, <4>2, <4>4, <4>6, <5>1
             DEF Unit, Claiming, Leasing, Admitting, OpenStages, Recording
      <4> QED BY <4>5, <4>6
    <3>3. CASE x.at = "preflight"
      <4>1. slot = w /\ w \in leases BY <1>1, <3>3 DEF Unit, Claiming, Leasing, OpenStages
      <4>2. w \in leases' BY <1>6, <3>3, <4>1 DEF locks
      <4>3. stage = "begin" => slot' = w BY <1>6, <3>3, <4>1
      <4>4. stage = "record failure" /\ Persistent(w) => admissionMu' = w
        BY <1>1, <1>6, <3>3 DEF Unit, Admitting, locks
      <4>5. stage \in {"begin", "record failure"} /\ (stage = "record failure" => Persistent(w))
        BY <1>6, <3>3
      <4> QED BY <1>1, <2>1, <2>3, <2>4, <2>5, <3>3, <4>2, <4>3, <4>4, <4>5
           DEF Unit, Claiming, Leasing, Admitting, OpenStages, Recording
    <3>4. CASE x.at \in {"open", "provider", "finish"}
      <4>1. stage \in {"provider", "finish", "terminal"} /\ UNCHANGED <<slot, leases, admissionMu>>
        BY <1>6, <3>4 DEF locks
      <4> QED BY <1>1, <2>1, <2>3, <2>4, <2>5, <3>4, <4>1
           DEF Unit, Claiming, Leasing, Admitting, OpenStages, Recording
    <3> QED BY <1>6, <3>1, <3>2, <3>3, <3>4
  <2>7. /\ y.at \in Claiming => x.at \in Claiming \/ (x.at = "claim" /\ ~admissionClosed)
        /\ y.at \in Admitting => x.at \in Admitting
        /\ y.at = "record failure" => x.at \in Claiming
    BY <1>6, <2>1 DEF Claiming, Admitting
  <2>8. RowsInv' /\ chatRow' \in [Conversations \cup Streams -> Row] BY <1>1, <1>6 DEF RowsInv
  <2>9. /\ slot' = slot \/ slot' = ReleaseClaim(w) \/ (slot' = w /\ slot = NoStream /\ ~admissionClosed)
        /\ leases' \in {leases, leases \cup {w}, leases \ {w}}
        /\ \/ admissionMu' = admissionMu
           \/ admissionMu' = w /\ admissionMu = NoStream
           \/ admissionMu' = NoStream /\ admissionMu = w
    BY <1>6 DEF locks
  <2> QED BY <1>6, <2>1, <2>2, <2>6, <2>7, <2>8, <2>9, UnitMoves
<1>7. ASSUME NEW stage \in StreamStages
      PROVE  Goes(w, stage) =>
               stream' = [stream EXCEPT ![w] = [x EXCEPT !.at = stage, !.success = x.success]]
  BY <1>1 DEF Goes, Chat
<1>8. x.success \in BOOLEAN BY <1>1 DEF Chat
<1>9. chatRow' = chatRow => RowsInv' /\ chatRow' \in [Conversations \cup Streams -> Row]
  BY <1>1 DEF RowsInv
\* the caller leaves, with or without its slot
<1>10. ASSUME Return(w, "ended"), chatRow' = chatRow, cancelled' = cancelled, UNCHANGED others,
              slot' = slot \/ slot' = ReleaseClaim(w)
       PROVE  StreamsInv'
  <2>1. /\ Goes(w, "ended") /\ leases' = leases \ {w}
        /\ admissionMu' = admissionMu \/ (admissionMu' = NoStream /\ admissionMu = w)
    BY <1>10 DEF Return
  <2> QED BY <1>3, <1>9, <1>10, <2>1
<1>11. CASE SnapshotForProviderCall(w)
  <2>1. x.at = "snapshot" /\ UNCHANGED <<chatRow, slot, cancelled, others>>
    BY <1>11 DEF SnapshotForProviderCall, At
  <2>2. CASE Goes(w, "claim") /\ leases' = leases \cup {w} /\ UNCHANGED admissionMu
    BY <1>1, <1>6, <1>7, <1>8, <2>1, <2>2 DEF StreamStages
  <2>3. CASE Return(w, "ended") BY <1>10, <2>1, <2>3
  <2> QED BY <1>11, <2>2, <2>3 DEF SnapshotForProviderCall
<1>12. CASE ClaimSlot(w)
  <2>1. x.at = "claim" /\ UNCHANGED <<chatRow, cancelled, others>>
    BY <1>12 DEF ClaimSlot, At
  <2>2. CASE admissionClosed \/ slot # NoStream
    BY <1>10, <1>12, <2>1, <2>2 DEF ClaimSlot
  <2>3. CASE ~(admissionClosed \/ slot # NoStream)
    <3> DEFINE stage == IF Persistent(w) THEN "prepare" ELSE "preflight"
    <3>1. slot' = w /\ Goes(w, stage) /\ UNCHANGED locks BY <1>12, <2>3 DEF ClaimSlot
    <3>2. stage \in StreamStages BY DEF StreamStages
    <3>3. stage = (IF Persistent(w) THEN "prepare" ELSE "preflight") OBVIOUS
    <3> HIDE DEF stage
    <3>4. stream' = [stream EXCEPT ![w] = [x EXCEPT !.at = stage, !.success = x.success]]
      BY <1>7, <3>1, <3>2
    <3> QED BY <1>1, <1>6, <1>8, <2>1, <2>3, <3>1, <3>2, <3>3, <3>4
  <2> QED BY <2>2, <2>3
<1>13. CASE Preflight(w)
  <2>1. x.at = "preflight" /\ UNCHANGED <<chatRow, cancelled, others>>
    BY <1>13 DEF Preflight, At
  <2>2. CASE /\ Goes(w, "begin")
             /\ admissionMu' = IF admissionMu = w THEN NoStream ELSE admissionMu
             /\ UNCHANGED <<slot, leases>>
    BY <1>1, <1>6, <1>7, <1>8, <2>1, <2>2 DEF StreamStages
  <2>3. CASE slot' = ReleaseClaim(w) /\ Persistent(w) /\ Goes(w, "record failure") /\ UNCHANGED locks
    BY <1>1, <1>6, <1>7, <1>8, <2>1, <2>3 DEF StreamStages
  <2>4. CASE slot' = ReleaseClaim(w) /\ Return(w, "ended")
    BY <1>10, <2>1, <2>4
  <2> QED BY <1>13, <2>2, <2>3, <2>4 DEF Preflight
<1>14. CASE ProviderReturns(w)
  <2>1. PICK success \in BOOLEAN :
          stream' = [stream EXCEPT ![w].at = "finish", ![w].success = success]
    BY <1>14 DEF ProviderReturns
  <2>2. /\ stream' = [stream EXCEPT ![w] = [x EXCEPT !.at = "finish", !.success = success]]
        /\ x.at = "provider" /\ UNCHANGED <<chatRow, slot, cancelled, locks, others>>
    BY <1>1, <1>14, <2>1 DEF ProviderReturns, At
  <2> QED BY <1>1, <1>6, <2>2 DEF StreamStages
<1>15. CASE Deadline(w)
  <2>1. /\ x.at = "provider" /\ cancelled' = cancelled \cup {w}
        /\ UNCHANGED <<chatRow, slot, locks, stream, others>>
    BY <1>15 DEF Deadline, At
  <2>2. stream' = [stream EXCEPT ![w] = [x EXCEPT !.at = "provider", !.success = x.success]]
    BY <1>1, <2>1 DEF Chat
  <2>3. cancelled' \subseteq Streams BY <1>1, <2>1
  <2> QED BY <1>6, <1>8, <2>1, <2>2, <2>3 DEF StreamStages
<1>16. CASE FinishUnit(w)
  <2>1. PICK recorded \in BOOLEAN :
          stream' = [stream EXCEPT ![w].at = "terminal", ![w].success = @ /\ recorded]
    BY <1>16 DEF FinishUnit
  <2>2. PICK success \in BOOLEAN : success = (x.success /\ recorded) OBVIOUS
  <2>3. /\ stream' = [stream EXCEPT ![w] = [x EXCEPT !.at = "terminal", !.success = success]]
        /\ x.at = "finish" /\ UNCHANGED <<chatRow, slot, cancelled, locks, others>>
    BY <1>1, <1>16, <2>1, <2>2 DEF FinishUnit, At
  <2> QED BY <1>1, <1>6, <2>3 DEF StreamStages
<1>17. CASE EmitResult(w)
  BY <1>3, <1>9, <1>17 DEF EmitResult, At, locks, Claiming
<1>18. CASE ClearSlot(w)
  BY <1>3, <1>9, <1>18 DEF ClearSlot, At, locks, Claiming
<1>19. CASE ReleaseWorker(w)
  BY <1>3, <1>9, <1>19 DEF ReleaseWorker, LeaseReleased, At
\* the row ends, and the stream records nothing more
<1>20. ASSUME NEW status \in {"failed", "completed"}, chatRow' \in {chatRow, SetStatus(w, status)},
              x.at \in OpenStages
       PROVE  /\ chatRow' \in [Conversations \cup Streams -> Row] /\ RowsInv'
              /\ \A s \in Conversations \cup Streams : chatRow'[s] # chatRow[s] =>
                    s = x.session /\ x.at \in OpenStages
  <2>1. x.session \in Conversations \cup Streams BY <1>1, <1>20 DEF Unit, OpenStages
  <2>2. CASE chatRow' = chatRow BY <1>9, <2>2
  <2>3. CASE chatRow' = SetStatus(w, status)
    BY <1>20, <2>1, <2>3, EndedRow DEF RowsInv
  <2> QED BY <1>20, <2>2, <2>3
<1>21. CASE RecordStartFailure(w)
  <2>1. /\ x.at = "record failure" /\ chatRow' \in {chatRow, SetStatus(w, "failed")}
        /\ Return(w, "ended") /\ UNCHANGED <<slot, cancelled, others>>
    BY <1>21 DEF RecordStartFailure, At, FailRow
  <2>2. /\ Goes(w, "ended") /\ leases' = leases \ {w}
        /\ admissionMu' = admissionMu \/ (admissionMu' = NoStream /\ admissionMu = w)
    BY <2>1 DEF Return
  <2> QED BY <1>3, <1>20, <2>1, <2>2 DEF OpenStages
<1>22. CASE OpenUnit(w)
  <2>1. x.at = "open" /\ UNCHANGED <<slot, cancelled, admissionMu, others>>
    BY <1>22 DEF OpenUnit, At
  <2>2. CASE Goes(w, "provider") /\ UNCHANGED <<chatRow, leases>>
    BY <1>1, <1>6, <1>7, <1>8, <2>1, <2>2 DEF StreamStages, locks
  <2>3. CASE Goes(w, "emit") /\ LeaseReleased(w) /\ FailRow(w)
    BY <1>3, <1>20, <2>1, <2>3 DEF LeaseReleased, FailRow, OpenStages, Claiming
  <2> QED BY <1>22, <2>2, <2>3 DEF OpenUnit
<1>23. CASE PublishTerminal(w)
  <2>1. /\ x.at = "terminal" /\ UNCHANGED <<slot, cancelled, admissionMu, others>>
        /\ Goes(w, "emit") /\ leases' = leases \ {w}
        /\ \/ chatRow' \in {chatRow, SetStatus(w, "failed")}
           \/ chatRow' \in {chatRow, SetStatus(w, "completed")}
    BY <1>23 DEF PublishTerminal, At, FailRow, LeaseReleased
  <2> QED BY <1>3, <1>20, <2>1 DEF OpenStages, Claiming
\* the row begins
<1>24. ASSUME NEW stage \in {"preflight", "open"}, Beginnable(w),
              stage = "preflight" => x.at = "prepare" /\ RowOf(w).attempt < MaxAttempts,
              stage = "open" => x.at = "begin",
              chatRow' = Begun(w),
              stream' = [stream EXCEPT ![w].at = stage,
                                       ![w].attempt = chatRow'[stream[w].session].attempt],
              UNCHANGED <<slot, locks, cancelled, others>>
       PROVE  StreamsInv'
  <2>1. x.session \in Conversations \cup {w} BY <1>1, <1>24 DEF Unit
  <2>2. RowOf(w).attempt < MaxAttempts \/ Running(RowOf(w))
    <3>1. CASE stage = "preflight" BY <1>24, <3>1
    <3>2. CASE stage = "open" /\ Persistent(w)
      <4>1. x.attempt > 0 /\ RowOf(w).status = "running"
        <5>1. x.at = "begin" BY <1>24, <3>2
        <5>2. x.attempt > 0 BY <1>1, <3>2, <5>1 DEF Unit, OpenStages
        <5>3. RowOf(w) = [status |-> "running", attempt |-> x.attempt]
          BY <1>1, <5>1, <5>2 DEF Unit, OpenStages
        <5> QED BY <5>2, <5>3
      <4> QED BY <4>1 DEF Running
    <3>3. CASE stage = "open" /\ ~Persistent(w)
      <4>1. RowOf(w).status = "none" BY <1>24, <3>3 DEF Beginnable
      <4>2. RowOf(w).attempt = 0 BY <1>1, <2>1, <4>1 DEF RowsInv, RowOf, Numbered
      <4> QED BY <4>2, StreamsAssumption
    <3> QED BY <3>1, <3>2, <3>3
  <2> DEFINE attempt == Begun(w)[x.session].attempt
             y == [x EXCEPT !.at = stage, !.attempt = attempt]
  <2>3. /\ Begun(w) \in [Conversations \cup Streams -> Row] /\ attempt \in 1 .. MaxAttempts
        /\ \A s \in Conversations \cup Streams :
             /\ s # x.session => Begun(w)[s] = chatRow[s]
             /\ Numbered(Begun(w)[s])
        /\ Begun(w)[x.session].status = "running"
    BY <2>1, <2>2, BegunRow
  <2>4. Begun(w)[x.session] = [status |-> "running", attempt |-> attempt]
    <3>1. Begun(w)[x.session] \in Row BY <2>1, <2>3
    <3> QED BY <2>3, <3>1 DEF Row
  <2>5. stream' = [stream EXCEPT ![w] = y]
    BY <1>1, <1>24
  <2> HIDE DEF attempt
  <2>6. /\ y \in Chat /\ y.at = stage /\ y.session = x.session /\ y.attempt = attempt
        /\ attempt > 0
    <3>1. attempt \in 0 .. MaxAttempts /\ attempt > 0 BY <2>3, StreamsAssumption
    <3> QED BY <1>1, <3>1 DEF Chat, StreamStages
  <2> HIDE DEF y
  <2>7. stream'[w] = y BY <1>1, <2>5
  <2>8. RowOf(w)' = [status |-> "running", attempt |-> attempt]
    BY <1>24, <2>4, <2>6, <2>7 DEF RowOf
  <2>9. stage = "preflight" => Persistent(w) BY <1>1, <1>24 DEF Unit
  <2>10. /\ slot' = w /\ w \in leases' /\ admissionMu' = admissionMu
         /\ Persistent(w) /\ stage = "preflight" => admissionMu = w
         /\ Persistent(w)' <=> Persistent(w)
    BY <1>1, <1>24, <2>6, <2>7 DEF Unit, Claiming, Leasing, OpenStages, Admitting, locks, Persistent
  <2>11. x.session # NoStream BY <1>1, <2>1
  <2>12. Unit(w)'
    <3>1. CASE stage = "preflight"
      BY <2>1, <2>6, <2>7, <2>8, <2>9, <2>10, <2>11, <3>1
         DEF Unit, Claiming, Leasing, Admitting, OpenStages, Recording
    <3>2. CASE stage = "open"
      BY <2>1, <2>6, <2>7, <2>8, <2>10, <2>11, <3>2
         DEF Unit, Claiming, Leasing, Admitting, OpenStages, Recording
    <3> QED BY <3>1, <3>2
  <2>13. /\ chatRow' \in [Conversations \cup Streams -> Row] /\ RowsInv'
         /\ \A s \in Conversations \cup Streams : chatRow'[s] # chatRow[s] =>
               s = x.session /\ x.at \in OpenStages \cup {"prepare"}
    BY <1>24, <2>3 DEF RowsInv, OpenStages
  <2>14. /\ cancelled' \subseteq Streams /\ (y.at \in Claiming => x.at \in Claiming)
         /\ y.at \in Admitting => x.at \in Admitting
         /\ y.at # "record failure"
    BY <1>1, <1>24, <2>6 DEF Claiming, Admitting
  <2> QED BY <1>24, <2>5, <2>6, <2>12, <2>13, <2>14, UnitMoves DEF locks
<1>25. CASE Prepare(w)
  <2>1. x.at = "prepare" /\ UNCHANGED <<cancelled, others>> BY <1>25 DEF Prepare, At
  <2>2. CASE slot' = ReleaseClaim(w) /\ Return(w, "ended") /\ UNCHANGED chatRow
    BY <1>10, <2>1, <2>2
  <2>3. CASE /\ Beginnable(w) /\ RowOf(w).attempt < MaxAttempts /\ chatRow' = Begun(w)
             /\ stream' = [stream EXCEPT ![w].at = "preflight",
                                         ![w].attempt = chatRow'[stream[w].session].attempt]
             /\ UNCHANGED <<slot, locks>>
    BY <1>24, <2>1, <2>3
  <2> QED BY <1>25, <2>2, <2>3 DEF Prepare
<1>26. CASE BeginUnit(w)
  <2>1. x.at = "begin" /\ UNCHANGED <<slot, cancelled, admissionMu, others>>
    BY <1>26 DEF BeginUnit, At
  <2>2. CASE Goes(w, "emit") /\ LeaseReleased(w) /\ UNCHANGED chatRow
    BY <1>3, <1>9, <2>1, <2>2 DEF LeaseReleased, Claiming
  <2>3. CASE /\ Beginnable(w) /\ chatRow' = Begun(w)
             /\ stream' = [stream EXCEPT ![w].at = "open",
                                         ![w].attempt = chatRow'[stream[w].session].attempt]
             /\ UNCHANGED leases
    BY <1>24, <2>1, <2>3 DEF locks
  <2> QED BY <1>26, <2>2, <2>3 DEF BeginUnit
<1> QED BY <1>4, <1>5, <1>11, <1>12, <1>13, <1>14, <1>15, <1>16, <1>17, <1>18, <1>19, <1>21,
           <1>22, <1>23, <1>25, <1>26 DEF WorkerStep

\* No stream moves: the rows that are being written stay, and so do their leases.
LEMMA StreamsRest ==
    ASSUME StreamsInv, StreamsTypeOK', RowsInv',
           UNCHANGED <<slot, admissionMu, stream>>,
           \A w \in Streams : w \in leases => w \in leases',
           \A w \in Streams : stream[w].at \in OpenStages => RowOf(w)' = RowOf(w),
           CloseInv', DrainInv'
    PROVE  StreamsInv'
<1>1. ASSUME NEW w \in Streams PROVE Unit(w)'
  <2>1. Unit(w) BY DEF StreamsInv
  <2> QED BY <2>1 DEF Unit, Persistent
<1>2. FailureInv' BY DEF StreamsInv, FailureInv
<1> QED BY <1>1, <1>2 DEF StreamsInv

\* A stop, the end of a lease wait, the drain and a waiting switch.
LEMMA PlainStep ==
    ASSUME StreamsInv,
           \/ StopStream \/ SealAndCancel \/ DrainWait \/ AnnounceSwitch \/ SwitchStep
    PROVE  StreamsInv'
<1>1. /\ slot \in Streams \cup {NoStream} /\ NoStream \notin Streams /\ cancelled \subseteq Streams
      /\ drain \in [at : {"idle", "wait", "drained", "timeout"}, target : Streams \cup {NoStream}]
      /\ chatRow \in [Conversations \cup Streams -> Row]
  BY StreamsAssumption DEF StreamsInv, StreamsTypeOK, Row
<1>2. \A w \in Streams : /\ stream[w].at \in Claiming => slot = w
                         /\ stream[w].at \in OpenStages => w \in leases
                         /\ stream[w].at \in OpenStages => stream[w].session \in Conversations \cup Streams
  BY DEF StreamsInv, Unit, Leasing, OpenStages
<1>3. CASE StopStream
  <2>1. UNCHANGED <<chatRow, slot, admissionClosed, admissionMu, closingSessions, leases,
                    writer, stream, closer, drain>> /\ cancelled' \subseteq Streams
    BY <1>1, <1>3 DEF StopStream, locks, others
  <2>2. StreamsTypeOK' BY <2>1 DEF StreamsInv, StreamsTypeOK
  <2>3. RowsInv' /\ CloseInv' /\ DrainInv'
    BY <2>1 DEF StreamsInv, RowsInv, CloseInv, CloserInv, DrainInv
  <2> QED BY <2>1, <2>2, <2>3, StreamsRest DEF RowOf
<1>4. CASE SealAndCancel
  <2>1. /\ UNCHANGED <<chatRow, slot, admissionMu, closingSessions, leases, writer, stream, closer>>
        /\ drain' = [at |-> "wait", target |-> slot] /\ admissionClosed' = TRUE
        /\ cancelled' \subseteq Streams
    BY <1>1, <1>4 DEF SealAndCancel, locks
  <2>2. StreamsTypeOK' BY <1>1, <2>1 DEF StreamsInv, StreamsTypeOK
  <2>3. RowsInv' /\ CloseInv' BY <2>1 DEF StreamsInv, RowsInv, CloseInv, CloserInv
  <2>4. DrainInv' BY <2>1 DEF DrainInv
  <2> QED BY <2>1, <2>2, <2>3, <2>4, StreamsRest DEF RowOf
<1>5. CASE DrainWait
  <2>1. /\ UNCHANGED <<chatRow, slot, admissionClosed, admissionMu, closingSessions, leases,
                       writer, cancelled, stream, closer>>
        /\ drain.at = "wait"
        /\ \/ /\ drain.target \in {NoStream} \cup {w \in Streams : Done(w)}
              /\ drain' = [drain EXCEPT !.at = "drained"]
           \/ drain' = [drain EXCEPT !.at = "timeout"]
    BY <1>5 DEF DrainWait, locks
  <2>2. StreamsTypeOK' BY <1>1, <2>1 DEF StreamsInv, StreamsTypeOK
  <2>3. RowsInv' /\ CloseInv' BY <2>1 DEF StreamsInv, RowsInv, CloseInv, CloserInv
  <2>4. DrainInv'
    <3>1. admissionClosed /\ slot \in {drain.target, NoStream} BY <2>1 DEF StreamsInv, DrainInv
    <3>2. CASE drain' = [drain EXCEPT !.at = "timeout"]
      <4>1. drain'.at = "timeout" BY <1>1, <3>2
      <4> QED BY <2>1, <3>1, <4>1 DEF DrainInv
    <3>3. CASE /\ drain.target \in {NoStream} \cup {w \in Streams : Done(w)}
               /\ drain' = [drain EXCEPT !.at = "drained"]
      <4>1. drain'.at = "drained" BY <1>1, <3>3
      <4>2. ASSUME NEW w \in Streams, stream[w].at \in Claiming PROVE FALSE
        <5>1. slot = w BY <1>2, <4>2
        <5>2. Done(w) BY <1>1, <3>1, <3>3, <5>1
        <5> QED BY <4>2, <5>2 DEF Done, Claiming
      <4> QED BY <2>1, <3>1, <4>1, <4>2 DEF DrainInv
    <3> QED BY <2>1, <3>2, <3>3
  <2> QED BY <2>1, <2>2, <2>3, <2>4, StreamsRest DEF RowOf
<1>6. CASE AnnounceSwitch \/ EndSwitch
  <2>1. /\ UNCHANGED <<chatRow, slot, admissionClosed, admissionMu, closingSessions, leases,
                       cancelled, stream, closer, drain>>
        /\ writer' \in {"none", "waiting", "held"}
    BY <1>6 DEF AnnounceSwitch, EndSwitch, locks
  <2>2. StreamsTypeOK' BY <2>1 DEF StreamsInv, StreamsTypeOK
  <2>3. RowsInv' /\ CloseInv' /\ DrainInv'
    BY <2>1 DEF StreamsInv, RowsInv, CloseInv, CloserInv, DrainInv
  <2> QED BY <2>1, <2>2, <2>3, StreamsRest DEF RowOf
<1>7. CASE SwitchWorkspace
  <2>1. /\ UNCHANGED <<slot, admissionClosed, admissionMu, closingSessions, leases,
                       cancelled, stream, closer, drain>>
        /\ leases = {} /\ writer' = "held"
        /\ chatRow' = [s \in DOMAIN chatRow |->
              IF chatRow[s].status \in {"running", "paused", "failed"}
              THEN [chatRow[s] EXCEPT !.status = "completed"] ELSE chatRow[s]]
    BY <1>7 DEF SwitchWorkspace, locks
  <2>2. ASSUME NEW s \in Conversations \cup Streams
        PROVE  /\ chatRow'[s] \in Row
               /\ Numbered(chatRow'[s])
    <3>1. chatRow[s] \in Row /\ Numbered(chatRow[s])
      BY <1>1 DEF StreamsInv, RowsInv
    <3>2. chatRow'[s] = IF chatRow[s].status \in {"running", "paused", "failed"}
                        THEN [chatRow[s] EXCEPT !.status = "completed"] ELSE chatRow[s]
      BY <1>1, <2>1
    <3>3. CASE chatRow[s].status \in {"running", "paused", "failed"}
      <4>1. chatRow'[s] = [chatRow[s] EXCEPT !.status = "completed"] BY <3>2, <3>3
      <4>2. chatRow'[s] \in Row /\ chatRow'[s].status = "completed" BY <3>1, <4>1 DEF Row
      <4> QED BY <4>2 DEF Numbered
    <3>4. CASE chatRow[s].status \notin {"running", "paused", "failed"}
      BY <3>1, <3>2, <3>4
    <3> QED BY <3>3, <3>4
  <2>3. chatRow' \in [Conversations \cup Streams -> Row] /\ RowsInv'
    <3>1. chatRow' = [s \in Conversations \cup Streams |-> chatRow'[s]] BY <1>1, <2>1
    <3> QED BY <2>2, <3>1 DEF RowsInv
  <2>4. StreamsTypeOK' BY <2>1, <2>3 DEF StreamsInv, StreamsTypeOK, Row
  <2>5. CloseInv' /\ DrainInv' BY <2>1 DEF StreamsInv, CloseInv, CloserInv, DrainInv
  <2> QED BY <1>2, <2>1, <2>3, <2>4, <2>5, StreamsRest
<1> QED BY <1>3, <1>4, <1>5, <1>6, <1>7 DEF SwitchStep

\* Every step of a close keeps the invariant.
LEMMA CloseStep ==
    ASSUME StreamsInv, NEW c \in Closers,
           CloserStep(c) \/ \E s \in Conversations : MarkClosing(c, s)
    PROVE  StreamsInv'
<1> DEFINE Closing == [at : {"idle", "lease", "cancel", "wait", "close", "closed", "failed"},
                       session : Conversations \cup {NoStream}, target : Streams \cup {NoStream}]
           k == closer[c]
<1>1. /\ closer \in [Closers -> Closing] /\ k \in Closing /\ CloserInv(c)
      /\ slot \in Streams \cup {NoStream} /\ NoStream \notin Streams /\ c \notin Streams
      /\ chatRow \in [Conversations \cup Streams -> Row] /\ closingSessions \subseteq Conversations
      /\ NoStream \notin Conversations
  BY StreamsAssumption DEF StreamsInv, StreamsTypeOK, CloseInv, Row
<1>2. \A w \in Streams : /\ stream[w].at \in Claiming => slot = w
                         /\ stream[w].at \in OpenStages => w \in leases
                         /\ stream[w].at \in OpenStages => stream[w].session \in Conversations \cup Streams
                         /\ stream[w].session \in closingSessions => stream[w].at \notin Admitting
  BY DEF StreamsInv, Unit, Leasing, OpenStages, CloseInv
\* one closer moves, and the streams do not
<1>3. ASSUME NEW y \in Closing, closer' = [closer EXCEPT ![c] = y],
             UNCHANGED <<slot, admissionClosed, admissionMu, writer, stream, drain>>,
             cancelled' \subseteq Streams, leases' \in {leases, leases \cup {c}, leases \ {c}},
             closingSessions' = closingSessions
               \/ (closingSessions' = closingSessions \cup {y.session} /\ admissionMu = NoStream
                     /\ y.session \in Conversations),
             chatRow' \in [Conversations \cup Streams -> Row], RowsInv',
             \A w \in Streams : stream[w].at \in OpenStages => RowOf(w)' = RowOf(w),
             y.at \in {"lease", "cancel", "wait", "close"} => y.session \in closingSessions',
             y.at = "wait" => y.target \in Streams /\ stream[y.target].session = y.session,
             y.at = "wait" => \A w \in Streams \ {y.target} :
                   stream[w].session = y.session => stream[w].at \notin Claiming,
             y.at = "close" => \A w \in Streams :
                   stream[w].session = y.session => stream[w].at \notin Claiming
      PROVE  StreamsInv'
  <2>1. /\ closer'[c] = y /\ \A d \in Closers \ {c} : closer'[d] = closer[d]
        /\ closer' \in [Closers -> Closing]
    BY <1>1, <1>3
  <2>2. StreamsTypeOK'
    <3>1. closingSessions' \subseteq Conversations /\ leases' \subseteq Streams \cup Closers
      BY <1>1, <1>3 DEF StreamsInv, StreamsTypeOK
    <3> QED BY <1>3, <2>1, <3>1 DEF StreamsInv, StreamsTypeOK, Row
  <2>3. \A w \in Streams : stream[w].session \in closingSessions' => stream[w].at \notin Admitting
    <3> SUFFICES ASSUME NEW w \in Streams, stream[w].session \in closingSessions',
                        stream[w].at \in Admitting
                 PROVE  FALSE
      OBVIOUS
    <3>1. stream[w].session \notin closingSessions BY <1>2
    <3>2. admissionMu = NoStream /\ stream[w].session \in Conversations BY <1>3, <3>1
    <3>3. Unit(w) BY DEF StreamsInv
    <3> QED BY <1>1, <3>2, <3>3 DEF Unit, Persistent
  <2>4. ASSUME NEW d \in Closers PROVE CloserInv(d)'
    <3>1. CASE d = c BY <1>3, <2>1, <3>1 DEF CloserInv
    <3>2. CASE d # c
      <4>1. CloserInv(d) /\ closer'[d] = closer[d] BY <2>1, <3>2 DEF StreamsInv, CloseInv
      <4>2. \A s \in closingSessions : s \in closingSessions' BY <1>3
      <4> QED BY <1>3, <4>1, <4>2 DEF CloserInv
    <3> QED BY <3>1, <3>2
  <2>5. CloseInv' BY <1>3, <2>3, <2>4 DEF CloseInv
  <2>6. DrainInv' BY <1>3 DEF StreamsInv, DrainInv
  <2>7. \A w \in Streams : w \in leases => w \in leases' BY <1>1, <1>3
  <2> QED BY <1>3, <2>2, <2>5, <2>6, <2>7, StreamsRest
<1>4. chatRow' = chatRow /\ stream' = stream =>
        /\ chatRow' \in [Conversations \cup Streams -> Row] /\ RowsInv'
        /\ \A w \in Streams : stream[w].at \in OpenStages => RowOf(w)' = RowOf(w)
  BY <1>1 DEF StreamsInv, RowsInv, RowOf
<1>5. cancelled \subseteq Streams BY DEF StreamsInv, StreamsTypeOK
<1>6. CASE \E s \in Conversations : MarkClosing(c, s)
  <2>1. PICK s \in Conversations : MarkClosing(c, s) BY <1>6
  <2> DEFINE y == [at |-> "lease", session |-> s, target |-> NoStream]
  <2>2. /\ admissionMu = NoStream /\ closingSessions' = closingSessions \cup {s}
        /\ closer' = [closer EXCEPT ![c] = y]
        /\ UNCHANGED <<chatRow, slot, admissionClosed, admissionMu, leases, writer, cancelled,
                       stream, drain>>
    BY <2>1 DEF MarkClosing, locks
  <2>3. y \in Closing /\ y.at = "lease" /\ y.session = s OBVIOUS
  <2> HIDE DEF y, Closing
  <2> QED BY <1>3, <1>4, <1>5, <2>2, <2>3
\* a stage that keeps session and target
<1>7. ASSUME NEW stage \in {"cancel", "close", "closed", "failed"}, CloserGoes(c, stage),
             UNCHANGED <<slot, admissionClosed, admissionMu, closingSessions, writer, cancelled,
                         stream, drain>>,
             leases' \in {leases, leases \cup {c}, leases \ {c}},
             chatRow' \in [Conversations \cup Streams -> Row], RowsInv',
             \A w \in Streams : stream[w].at \in OpenStages => RowOf(w)' = RowOf(w),
             stage \in {"cancel", "close"} => k.at \in {"lease", "cancel", "wait", "close"},
             stage = "close" => \A w \in Streams :
                   stream[w].session = k.session => stream[w].at \notin Claiming
      PROVE  StreamsInv'
  <2> DEFINE y == [k EXCEPT !.at = stage]
  <2>1. y \in Closing /\ y.at = stage /\ y.session = k.session BY <1>1
  <2>2. closer' = [closer EXCEPT ![c] = y] BY <1>1, <1>7 DEF CloserGoes
  <2>3. stage \in {"cancel", "close"} => k.session \in closingSessions
    BY <1>1, <1>7 DEF CloserInv
  <2> HIDE DEF y, Closing
  <2> QED BY <1>3, <1>5, <1>7, <2>1, <2>2, <2>3
<1>8. CASE CloserLease(c)
  BY <1>4, <1>7, <1>8 DEF CloserLease
<1>9. CASE CancelSessionStream(c)
  <2>1. /\ k.at = "cancel" /\ UNCHANGED <<chatRow, slot, admissionClosed, admissionMu, leases,
                                          closingSessions, writer, stream, drain>>
        /\ k.session \in closingSessions
    BY <1>1, <1>9 DEF CancelSessionStream, locks, CloserInv
  <2>2. CASE slot # NoStream /\ stream[slot].session = k.session
    <3> DEFINE y == [k EXCEPT !.at = "wait", !.target = slot]
    <3>1. cancelled' = cancelled \cup {slot} /\ closer' = [closer EXCEPT ![c] = y]
      BY <1>1, <1>9, <2>2 DEF CancelSessionStream
    <3>2. y \in Closing /\ y.at = "wait" /\ y.session = k.session /\ y.target = slot BY <1>1
    <3>3. cancelled' \subseteq Streams BY <1>1, <1>5, <2>2, <3>1
    <3>4. slot \in Streams BY <1>1, <2>2
    <3> HIDE DEF y, Closing
    <3>5. \A w \in Streams \ {y.target} : stream[w].at \notin Claiming BY <1>2, <3>2
    <3> QED BY <1>3, <1>4, <2>1, <2>2, <3>1, <3>2, <3>3, <3>4, <3>5
  <2>3. CASE ~(slot # NoStream /\ stream[slot].session = k.session)
    <3>1. CloserGoes(c, "close") /\ UNCHANGED cancelled BY <1>9, <2>3 DEF CancelSessionStream
    <3>2. \A w \in Streams : stream[w].session = k.session => stream[w].at \notin Claiming
      BY <1>1, <1>2, <2>3
    <3> QED BY <1>4, <1>7, <2>1, <3>1, <3>2
  <2> QED BY <2>2, <2>3
<1>10. CASE WaitForShutdown(c)
  <2>1. /\ k.at = "wait" /\ UNCHANGED <<chatRow, slot, admissionClosed, admissionMu,
                                        closingSessions, writer, cancelled, stream, drain>>
    BY <1>10 DEF WaitForShutdown
  <2>2. CASE Done(k.target) /\ CloserGoes(c, "close") /\ UNCHANGED leases
    <3>1. /\ k.session \in closingSessions /\ k.target \in Streams
          /\ stream[k.target].session = k.session
          /\ \A w \in Streams \ {k.target} :
                stream[w].session = k.session => stream[w].at \notin Claiming
      BY <1>1, <2>1 DEF CloserInv
    <3>2. stream[k.target].at \notin Claiming BY <2>2 DEF Done, Claiming
    <3> QED BY <1>4, <1>7, <2>1, <2>2, <3>1, <3>2
  <2>3. CASE CloserGoes(c, "failed") /\ leases' = leases \ {c}
    BY <1>4, <1>7, <2>1, <2>3
  <2> QED BY <1>10, <2>2, <2>3 DEF WaitForShutdown
<1>11. CASE CloseRow(c)
  <2>1. /\ k.at = "close" /\ leases' = leases \ {c}
        /\ UNCHANGED <<slot, admissionClosed, admissionMu, closingSessions, writer, cancelled,
                       stream, drain>>
    BY <1>11 DEF CloseRow
  <2>2. CASE UNCHANGED chatRow /\ CloserGoes(c, "failed")
    BY <1>4, <1>7, <2>1, <2>2
  <2>3. CASE /\ chatRow' = [chatRow EXCEPT ![k.session].status = "completed"]
             /\ CloserGoes(c, "closed")
    <3>1. /\ k.session \in Conversations /\ k.session \in closingSessions
          /\ \A w \in Streams : stream[w].session = k.session => stream[w].at \notin Claiming
      BY <1>1, <2>1 DEF CloserInv
    <3> DEFINE n == [chatRow[k.session] EXCEPT !.status = "completed"]
    <3>2. chatRow' = [chatRow EXCEPT ![k.session] = n] BY <1>1, <2>3
    <3>3. n \in Row /\ Numbered(n)
      <4>1. n \in Row /\ n.status = "completed" BY <1>1, <3>1 DEF Row
      <4> QED BY <4>1 DEF Numbered
    <3> HIDE DEF n
    <3>4. /\ chatRow' \in [Conversations \cup Streams -> Row]
          /\ \A s \in Conversations \cup Streams :
               IF s = k.session THEN chatRow'[s] = n ELSE chatRow'[s] = chatRow[s]
      BY <1>1, <3>2, <3>3
    <3>5. RowsInv' BY <3>3, <3>4 DEF StreamsInv, RowsInv
    <3>6. \A w \in Streams : stream[w].at \in OpenStages => RowOf(w)' = RowOf(w)
      <4> SUFFICES ASSUME NEW w \in Streams, stream[w].at \in OpenStages
                   PROVE  RowOf(w)' = RowOf(w)
        OBVIOUS
      <4>1. stream[w].session # k.session
        BY <1>2, <3>1 DEF OpenStages, Claiming, Admitting
      <4> QED BY <1>2, <2>1, <3>4, <4>1 DEF RowOf
    <3> QED BY <1>7, <2>1, <2>3, <3>4, <3>5, <3>6
  <2> QED BY <1>11, <2>2, <2>3 DEF CloseRow
<1> QED BY <1>6, <1>8, <1>9, <1>10, <1>11 DEF CloserStep

\* The inductive invariant of the streams holds.
LEMMA StreamsInvariance == StreamsSpec => []StreamsInv
<1>1. StreamsInit => StreamsInv
  <2> SUFFICES ASSUME StreamsInit PROVE StreamsInv OBVIOUS
  <2>1. /\ NewStream \in Chat /\ NewStream.at = "new" /\ NewStream.session = NoStream
        /\ NewStream.attempt = 0
    BY StreamsAssumption DEF NewStream, Chat, StreamStages
  <2>2. \A w \in Streams : stream[w] = NewStream BY DEF StreamsInit
  <2>3. chatRow \in [Conversations \cup Streams -> Row] /\ RowsInv
    <3>1. 0 \in 0 .. MaxAttempts /\ 1 \in 0 .. MaxAttempts BY StreamsAssumption
    <3> QED BY <3>1 DEF StreamsInit, Row, RowsInv, Numbered
  <2>4. StreamsTypeOK BY <2>1, <2>3 DEF StreamsInit, StreamsTypeOK, Row, Chat
  <2>5. \A w \in Streams : Unit(w)
    BY <2>1, <2>2 DEF Unit, Claiming, Leasing, Admitting, OpenStages, Recording
  <2>6. FailureInv BY <2>1, <2>2 DEF FailureInv
  <2>7. CloseInv BY DEF StreamsInit, CloseInv, CloserInv
  <2>8. DrainInv BY DEF StreamsInit, DrainInv
  <2> QED BY <2>3, <2>4, <2>5, <2>6, <2>7, <2>8 DEF StreamsInv
<1>2. StreamsInv /\ [StreamsNext]_streamVars => StreamsInv'
  <2> SUFFICES ASSUME StreamsInv, [StreamsNext]_streamVars PROVE StreamsInv' OBVIOUS
  <2>1. CASE UNCHANGED streamVars
    <3>1. StreamsTypeOK' /\ RowsInv' /\ CloseInv' /\ DrainInv'
      BY <2>1 DEF streamVars, StreamsInv, StreamsTypeOK, RowsInv, CloseInv, CloserInv, DrainInv
    <3> QED BY <2>1, <3>1, StreamsRest DEF streamVars, RowOf
  <2>2. CASE \E w \in Streams :
               \/ StartStream(w) \/ (\E s \in Conversations : StartAgentStream(w, s))
               \/ WorkerStep(w) \/ ProviderReturns(w) \/ Deadline(w)
    BY <2>2, StreamStep
  <2>3. CASE \E c \in Closers : CloserStep(c) \/ \E s \in Conversations : MarkClosing(c, s)
    BY <2>3, CloseStep
  <2>4. CASE StopStream \/ SealAndCancel \/ DrainWait \/ AnnounceSwitch \/ SwitchStep
    BY <2>4, PlainStep
  <2> QED BY <2>1, <2>2, <2>3, <2>4 DEF StreamsNext
<1> QED BY <1>1, <1>2, PTL DEF StreamsSpec

\* Types of the variables of the streams.
THEOREM StreamsTypeCorrect == StreamsSpec => []StreamsTypeOK
BY StreamsInvariance, PTL DEF StreamsInv

\* From its beginning to its terminal record a stream owns the row it began.
THEOREM UnitsOwnTheirRows == StreamsSpec => []UnitOwnsItsRow
<1>1. StreamsInv => UnitOwnsItsRow BY DEF StreamsInv, Unit, UnitOwnsItsRow
<1> QED BY <1>1, StreamsInvariance, PTL

\* A shutdown that drained has left no worker with anything to record or emit.
THEOREM ShutdownsDrain == StreamsSpec => []ShutdownDrains
<1>1. StreamsInv => ShutdownDrains
  <2> SUFFICES ASSUME StreamsInv, drain.at = "drained", NEW w \in Streams
               PROVE  stream[w].at \in
                        {"new", "snapshot", "claim", "record failure", "release", "ended"}
    BY DEF ShutdownDrains
  <2>1. stream[w].at \in StreamStages /\ stream[w].at \notin Claiming
    BY DEF StreamsInv, StreamsTypeOK, DrainInv
  <2> QED BY <2>1 DEF StreamStages, Claiming
<1> QED BY <1>1, StreamsInvariance, PTL

-----------------------------------------------------------------------------
(* AI streams: nobody waits in a circle.                                   *)

\* Whoever holds a lease of the workspace is at a step that waits for nobody.
LeaseInv ==
    /\ \A w \in Streams \cap leases : stream[w].at \notin {"new", "snapshot", "ended"}
    /\ \A c \in Closers \cap leases : closer[c].at \in {"cancel", "wait", "close"}

\* A step of a stream gives the lease back where the stream ends, ...
LEMMA StreamLeaseStep ==
    ASSUME StreamsTypeOK, LeaseInv, NEW w \in Streams,
           \/ StartStream(w)
           \/ \E s \in Conversations : StartAgentStream(w, s)
           \/ WorkerStep(w)
           \/ ProviderReturns(w)
           \/ Deadline(w)
    PROVE  LeaseInv'
<1>1. stream \in [Streams -> [at : StreamStages, session : Conversations \cup Streams \cup {NoStream},
                              attempt : 0 .. MaxAttempts, success : BOOLEAN]]
      /\ w \notin Closers
  BY StreamsAssumption DEF StreamsTypeOK
<1>2. \A v \in Streams \ {w} : v \in leases => stream[v].at \notin {"new", "snapshot", "ended"}
  BY DEF LeaseInv
<1>3. w \in leases => stream[w].at \notin {"new", "snapshot", "ended"} BY DEF LeaseInv
<1>4. /\ \A v \in Streams \ {w} : stream'[v] = stream[v]
      /\ closer' = closer
      /\ leases' \in {leases, leases \cup {w}, leases \ {w}}
      /\ w \in leases' => stream'[w].at \notin {"new", "snapshot", "ended"}
  <2> USE <1>1, <1>3 DEF At, Goes, Return, others, locks, LeaseReleased
  <2>1. CASE StartStream(w) BY <2>1 DEF StartStream
  <2>2. CASE \E s \in Conversations : StartAgentStream(w, s) BY <2>2 DEF StartAgentStream
  <2>3. CASE SnapshotForProviderCall(w) BY <2>3 DEF SnapshotForProviderCall
  <2>4. CASE ClaimSlot(w) BY <2>4 DEF ClaimSlot
  <2>5. CASE Prepare(w) BY <2>5 DEF Prepare
  <2>6. CASE Preflight(w) BY <2>6 DEF Preflight
  <2>7. CASE RecordStartFailure(w) BY <2>7 DEF RecordStartFailure
  <2>8. CASE BeginUnit(w) BY <2>8 DEF BeginUnit
  <2>9. CASE OpenUnit(w) BY <2>9 DEF OpenUnit
  <2>10. CASE FinishUnit(w) BY <2>10 DEF FinishUnit
  <2>11. CASE PublishTerminal(w) BY <2>11 DEF PublishTerminal
  <2>12. CASE EmitResult(w) BY <2>12 DEF EmitResult
  <2>13. CASE ClearSlot(w) BY <2>13 DEF ClearSlot
  <2>14. CASE ReleaseWorker(w) BY <2>14 DEF ReleaseWorker
  <2>15. CASE ProviderReturns(w) BY <2>15 DEF ProviderReturns
  <2>16. CASE Deadline(w) BY <2>16 DEF Deadline
  <2> QED
    BY <2>1, <2>2, <2>3, <2>4, <2>5, <2>6, <2>7, <2>8, <2>9, <2>10, <2>11, <2>12, <2>13, <2>14,
       <2>15, <2>16 DEF WorkerStep
<1> QED BY <1>1, <1>2, <1>4 DEF LeaseInv

\* ... and so does a step of a close.
LEMMA CloserLeaseStep ==
    ASSUME StreamsTypeOK, LeaseInv, NEW c \in Closers,
           CloserStep(c) \/ \E s \in Conversations : MarkClosing(c, s)
    PROVE  LeaseInv'
<1>1. closer \in [Closers -> [at : {"idle", "lease", "cancel", "wait", "close", "closed", "failed"},
                              session : Conversations \cup {NoStream}, target : Streams \cup {NoStream}]]
      /\ c \notin Streams
  BY StreamsAssumption DEF StreamsTypeOK
<1>2. c \in leases => closer[c].at \in {"cancel", "wait", "close"} BY DEF LeaseInv
<1>3. /\ \A d \in Closers \ {c} : closer'[d] = closer[d]
      /\ stream' = stream
      /\ leases' \in {leases, leases \cup {c}, leases \ {c}}
      /\ c \in leases' => closer'[c].at \in {"cancel", "wait", "close"}
  <2> USE <1>1, <1>2 DEF CloserGoes, locks
  <2>1. CASE \E s \in Conversations : MarkClosing(c, s) BY <2>1 DEF MarkClosing
  <2>2. CASE CloserLease(c) BY <2>2 DEF CloserLease
  <2>3. CASE CancelSessionStream(c) BY <2>3 DEF CancelSessionStream
  <2>4. CASE WaitForShutdown(c) BY <2>4 DEF WaitForShutdown
  <2>5. CASE CloseRow(c) BY <2>5 DEF CloseRow
  <2> QED BY <2>1, <2>2, <2>3, <2>4, <2>5 DEF CloserStep
<1> QED BY <1>1, <1>3 DEF LeaseInv

\* As long as a call, a worker, a close or a switch has not returned, somebody can
\* go on: a switch waits for leases only, and no holder of a lease waits for a
\* lock, the slot or the end of a worker without a deadline (ai_service.go
\* StartStream, agent_execution_core.go CloseAgentSessionForCaller).
THEOREM NobodyWaitsInACircle == StreamsSpec => [](Waiting => SomebodyCanGoOn)
<1>1. StreamsInit => LeaseInv BY DEF StreamsInit, LeaseInv
<1>2. StreamsTypeOK /\ LeaseInv /\ [StreamsNext]_streamVars => LeaseInv'
  <2> SUFFICES ASSUME StreamsTypeOK, LeaseInv, [StreamsNext]_streamVars PROVE LeaseInv'
    OBVIOUS
  <2>1. ASSUME NEW w \in Streams,
               \/ StartStream(w)
               \/ \E s \in Conversations : StartAgentStream(w, s)
               \/ WorkerStep(w)
               \/ ProviderReturns(w)
               \/ Deadline(w)
        PROVE  LeaseInv'
    BY <2>1, StreamLeaseStep
  <2>2. ASSUME NEW c \in Closers, CloserStep(c) \/ \E s \in Conversations : MarkClosing(c, s)
        PROVE  LeaseInv'
    BY <2>2, CloserLeaseStep
  <2>3. CASE StopStream \/ SealAndCancel \/ DrainWait \/ AnnounceSwitch \/ SwitchStep
             \/ UNCHANGED streamVars
    <3>1. UNCHANGED <<stream, closer, leases>>
      BY <2>3 DEF StopStream, SealAndCancel, DrainWait, AnnounceSwitch, SwitchStep, SwitchWorkspace,
                  EndSwitch, locks, others, streamVars
    <3> QED BY <3>1 DEF LeaseInv
  <2> QED BY <2>1, <2>2, <2>3 DEF StreamsNext
<1>3. StreamsTypeOK /\ LeaseInv => (Waiting => SomebodyCanGoOn)
  BY DEF StreamsTypeOK, LeaseInv, Waiting, SomebodyCanGoOn, At
<1> QED BY <1>1, <1>2, <1>3, StreamsTypeCorrect, PTL DEF StreamsSpec

-----------------------------------------------------------------------------
(* The MCP client: the inductive invariant.                                *)

Fetching == {"calling", "sending", "waiting", "fetched"}

Caller ==
    [at : {"new", "begun", "returned"} \cup Fetching, kind : {"cached", "fresh", "call"},
     began : 0 .. MaxServed, filled : BOOLEAN, generation : Nat, id : 0 .. MaxCalls,
     reply : {"none", "list", "error"}, version : 0 .. MaxServed]

ClientTypes ==
    /\ ClientTypeOK
    /\ clientClosed \in BOOLEAN /\ stopReturned \in BOOLEAN /\ invalidation \in Nat
    /\ lister \in [Listers -> Caller]
    /\ wire \subseteq [type : {"changed", "response"}, id : 0 .. MaxCalls,
                       version : 0 .. MaxServed]

\* A stopped or broken transport has no call left to answer, and whoever is
\* in a call has an id of its own.
CallsInv ==
    /\ clientClosed <=> transport = "stopped"
    /\ transport # "open" => pending = {}
    /\ stopReturned => clientClosed /\ handlers = 0
    /\ \A c, d \in Listers :
         InCall(c) /\ InCall(d) /\ lister[c].id = lister[d].id => c = d

\* Nothing is newer than what the server serves.
VersionsInv ==
    /\ announced <= served
    /\ \A m \in wire : m.version <= served /\ m.id < nextId
    /\ cache.valid => cache.version >= announced /\ ~clientClosed

\* A list is as new as what was announced when its caller asked; and as what is
\* announced now, as long as no notification was handled since its fetch began.
Timely(c, version) ==
    /\ version >= lister[c].began
    /\ lister[c].at # "returned" /\ ~clientClosed /\ lister[c].generation = invalidation
         => version >= announced

Served(c) ==
    /\ lister[c].began <= announced
    /\ lister[c].at \in {"new", "begun", "calling"} => lister[c].reply = "none"
    /\ lister[c].at = "fetched" => lister[c].reply # "none"
    /\ lister[c].at = "begun" => lister[c].kind # "call"
    /\ InCall(c) => /\ lister[c].id < nextId /\ ~stopReturned
                    /\ lister[c].reply = "none" => lister[c].id \in pending
    /\ refresher = c <=> lister[c].kind # "call" /\ lister[c].at \in Fetching
    /\ ~clientClosed => lister[c].generation <= invalidation
    /\ lister[c].reply = "list" => Timely(c, lister[c].version)
    /\ \A m \in wire :
         m.type = "response" /\ InCall(c) /\ m.id = lister[c].id => Timely(c, m.version)

ClientInv == ClientTypes /\ CallsInv /\ VersionsInv /\ \A c \in Listers : Served(c)

-----------------------------------------------------------------------------
(* The MCP client: steps.                                                  *)

\* One caller moves: the others keep their ids, and their refresher.
LEMMA CallerMoves ==
    ASSUME ClientInv, NEW c \in Listers, NEW y \in Caller,
           lister' = [lister EXCEPT ![c] = y],
           UNCHANGED <<served, wire, announced, transport, clientClosed, stopReturned, cache,
                       invalidation, handlers>>,
           nextId' \in nextId .. MaxCalls + 1, pending' \subseteq 1 .. MaxCalls,
           \A id \in pending : id \in pending' \/ (InCall(c) /\ id = lister[c].id),
           transport # "open" => pending' = {},
           y.at \in {"sending", "waiting"} =>
              (InCall(c) /\ y.id = lister[c].id) \/ y.id = nextId,
           refresher' \in {refresher, c, NoLister},
           refresher' # refresher => refresher \in {NoLister, c},
           Served(c)'
    PROVE  ClientInv'
<1>1. /\ lister \in [Listers -> Caller] /\ refresher \in Listers \cup {NoLister}
      /\ NoLister \notin Listers /\ nextId \in 1 .. MaxCalls + 1 /\ MaxCalls \in Nat
  BY ClientAssumption DEF ClientInv, ClientTypes, ClientTypeOK
<1>2. /\ lister'[c] = y /\ \A d \in Listers \ {c} : lister'[d] = lister[d]
      /\ lister' \in [Listers -> Caller]
  BY <1>1
<1>3. ClientTypes'
  BY <1>1, <1>2 DEF ClientInv, ClientTypes, ClientTypeOK
<1>4. ASSUME NEW d \in Listers, d # c
      PROVE  Served(d)' /\ (InCall(c)' /\ InCall(d)' => lister'[c].id # lister'[d].id)
  <2>1. lister'[d] = lister[d] /\ Served(d) BY <1>2, <1>4 DEF ClientInv
  <2>2. refresher' = d <=> refresher = d BY <1>1, <1>4
  <2>3. InCall(c) /\ InCall(d) => lister[c].id # lister[d].id
    BY <1>4 DEF ClientInv, CallsInv
  <2>4. /\ Timely(d, lister[d].version)' <=> Timely(d, lister[d].version)
        /\ \A m \in wire : Timely(d, m.version)' <=> Timely(d, m.version)
    BY <2>1 DEF Timely
  <2>5. lister[d].id \in Nat /\ (InCall(d) => lister[d].id < nextId)
    <3>1. lister[d] \in Caller BY <1>1
    <3>2. lister[d].id \in Nat BY <1>1, <3>1 DEF Caller
    <3> QED BY <2>1, <3>2 DEF Served
  <2>6. Served(d)' BY <1>1, <2>1, <2>2, <2>3, <2>4, <2>5 DEF Served, InCall
  <2>7. InCall(c)' /\ InCall(d)' => lister'[c].id # lister'[d].id
    BY <1>1, <1>2, <2>1, <2>3, <2>5 DEF InCall
  <2> QED BY <2>6, <2>7
<1>5. \A d \in Listers : Served(d)' BY <1>4
<1>6. CallsInv' BY <1>2, <1>4 DEF ClientInv, CallsInv, InCall
<1>7. VersionsInv'
  <2>1. \A m \in wire : m.id \in Nat BY DEF ClientInv, ClientTypes
  <2> QED BY <1>1, <2>1 DEF ClientInv, VersionsInv
<1> QED BY <1>3, <1>5, <1>6, <1>7 DEF ClientInv

\* Every step a caller takes alone keeps the invariant.
LEMMA CallerStep ==
    ASSUME ClientInv, NEW c \in Listers,
           \/ CacheHit(c) \/ StartRefresh(c) \/ CancelWait(c) \/ RegisterCall(c)
           \/ Send(c) \/ AbandonCall(c) \/ ReceiveReply(c) \/ CallTool(c) \/ FinishCall(c)
           \/ AskAgain(c) \/ \E kind \in {"cached", "fresh"} : ListTools(c, kind)
    PROVE  ClientInv'
<1> DEFINE x == lister[c]
<1>1. /\ x \in Caller /\ lister \in [Listers -> Caller] /\ Served(c)
      /\ nextId \in 1 .. MaxCalls + 1 /\ pending \subseteq 1 .. MaxCalls
      /\ MaxCalls \in Nat /\ announced \in 0 .. MaxServed /\ MaxServed \in Nat
      /\ cache \in [valid : BOOLEAN, version : 0 .. MaxServed] /\ invalidation \in Nat
      /\ transport # "open" => pending = {}
      /\ refresher \in Listers \cup {NoLister} /\ NoLister \notin Listers
      /\ clientClosed \in BOOLEAN /\ stopReturned \in BOOLEAN
      /\ cache.valid => cache.version >= announced /\ ~clientClosed
      /\ stopReturned => clientClosed
      /\ clientClosed <=> transport = "stopped"
  BY ClientAssumption DEF ClientInv, ClientTypes, ClientTypeOK, CallsInv, VersionsInv
<1>b. /\ 0 \in 0 .. MaxServed /\ 0 \in 0 .. MaxCalls /\ 0 \in Nat
      /\ announced \in 0 .. MaxServed /\ invalidation \in Nat
  BY <1>1
<1> DEFINE quiet == UNCHANGED <<served, wire, announced, transport, clientClosed,
                                stopReturned, cache, invalidation, handlers>>
<1>0. ASSUME NEW y \in Caller, lister' = [lister EXCEPT ![c] = y], quiet,
             UNCHANGED nextId, pending' = pending \/ (pending' = pending \ {x.id} /\ InCall(c)),
             y.at \in {"sending", "waiting"} => InCall(c) /\ y.id = x.id,
             \/ UNCHANGED refresher
             \/ refresher = NoLister /\ refresher' = c,
             Served(c)'
      PROVE  ClientInv'
  <2>1. nextId' \in nextId .. MaxCalls + 1 BY <1>0, <1>1
  <2>2. /\ pending' \subseteq 1 .. MaxCalls /\ (transport # "open" => pending' = {})
        /\ \A id \in pending : id \in pending' \/ (InCall(c) /\ id = lister[c].id)
    BY <1>0, <1>1
  <2>3. /\ refresher' \in {refresher, c, NoLister}
        /\ refresher' # refresher => refresher \in {NoLister, c}
    BY <1>0
  <2> QED BY <1>0, <2>1, <2>2, <2>3, CallerMoves
<1>2. ASSUME NEW kind \in {"cached", "fresh", "call"}, NEW at \in {"begun", "calling"},
             x.at = "new", quiet, UNCHANGED <<refresher, nextId, pending>>,
             at = "calling" <=> kind = "call",
             lister' = [lister EXCEPT ![c] = [NewLister EXCEPT !.at = at, !.kind = kind,
                                                              !.began = announced]]
      PROVE  ClientInv'
  <2> DEFINE y == [NewLister EXCEPT !.at = at, !.kind = kind, !.began = announced]
  <2>1. /\ y \in Caller /\ y.at = at /\ y.kind = kind /\ y.began = announced
        /\ y.generation = 0 /\ y.reply = "none" /\ y.id = 0
    BY <1>b, <1>2 DEF NewLister, Caller, Fetching
  <2>2. lister' = [lister EXCEPT ![c] = y] BY <1>2
  <2> HIDE DEF y
  <2>3. lister'[c] = y BY <1>1, <2>2
  <2>4. refresher # c BY <1>1, <1>2 DEF Served, Fetching
  <2>5. Served(c)'
    <3>1. y.began <= announced' /\ y.generation <= invalidation'
      BY <1>b, <1>2, <2>1
    <3>2. (refresher' = c) <=> (y.kind # "call" /\ y.at \in Fetching)
      BY <1>2, <2>1, <2>4 DEF Fetching
    <3> QED BY <1>2, <2>1, <2>3, <3>1, <3>2 DEF Served, InCall
  <2> QED BY <1>0, <1>2, <2>1, <2>2, <2>5
<1>3. CASE \E kind \in {"cached", "fresh"} : ListTools(c, kind)
  BY <1>2, <1>3 DEF ListTools, Lister, cacheState, UnchangedByCaller, serverSide, stopState
<1>4. CASE CallTool(c)
  BY <1>2, <1>4 DEF CallTool, Lister, cacheState, UnchangedByCaller, serverSide, stopState
<1>5. ASSUME NEW reply \in {"list", "error"}, NEW version \in 0 .. MaxServed,
             quiet, UNCHANGED <<refresher, nextId, pending>>, Returns(c, reply, version),
             x.at \in Fetching => x.kind = "call",
             reply = "list" => version >= x.began
      PROVE  ClientInv'
  <2> DEFINE y == ListerReturns(c, reply, version)
  <2>1. /\ y \in Caller /\ y.at = "returned" /\ y.kind = x.kind /\ y.began = x.began
        /\ y.generation = 0 /\ y.reply = reply /\ y.version = version
    <3>1. x \in Caller BY <1>1
    <3>2. x.kind \in {"cached", "fresh", "call"} /\ x.began \in 0 .. MaxServed
      BY <3>1 DEF Caller
    <3> QED BY <1>b, <3>2 DEF ListerReturns, NewLister, Caller
  <2>2. lister' = [lister EXCEPT ![c] = y] BY <1>5 DEF Returns
  <2> HIDE DEF y
  <2>3. lister'[c] = y BY <1>1, <2>2
  <2>4. Served(c)' BY <1>1, <1>5, <2>1, <2>3 DEF Served, InCall, Fetching, Timely
  <2> QED BY <1>0, <1>5, <2>1, <2>2, <2>4
<1>6. CASE CacheHit(c)
  <2>1. /\ x.at = "begun" /\ cache.valid /\ Returns(c, "list", cache.version)
        /\ quiet /\ UNCHANGED <<refresher, nextId, pending>>
    BY <1>6 DEF CacheHit, Lister, cacheState, UnchangedByCaller, serverSide, stopState
  <2>2. cache.version \in 0 .. MaxServed /\ cache.version >= x.began
    BY <1>1, <2>1 DEF Served, Caller
  <2> QED BY <1>5, <2>1, <2>2 DEF Fetching
<1>7. CASE CancelWait(c)
  <2>1. /\ x.at = "begun" /\ Returns(c, "error", 0)
        /\ quiet /\ UNCHANGED <<refresher, nextId, pending>>
    BY <1>7 DEF CancelWait, Lister, cacheState, UnchangedByCaller, serverSide, stopState
  <2>2. 0 \in 0 .. MaxServed BY <1>1
  <2> QED BY <1>5, <2>1, <2>2 DEF Fetching
<1>8. CASE FinishCall(c)
  <2>1. /\ x.at = "fetched" /\ x.kind = "call" /\ Returns(c, x.reply, x.version)
        /\ quiet /\ UNCHANGED <<refresher, nextId, pending>>
    BY <1>8 DEF FinishCall, Lister, cacheState, UnchangedByCaller, serverSide, stopState
  <2>2. /\ x.reply # "none" 
        /\ x.version \in 0 .. MaxServed /\ (x.reply = "list" => x.version >= x.began)
    <3>1. x \in Caller /\ (x.reply = "list" => Timely(c, x.version)) BY <1>1 DEF Served
    <3>2. x.reply # "none" BY <1>1, <2>1 DEF Served
    <3> QED BY <3>1, <3>2 DEF Caller, Timely
  <2>3. x.reply \in {"list", "error"} BY <1>1, <2>2 DEF Caller
  <2> QED BY <1>5, <2>1, <2>2, <2>3 DEF Fetching
<1>9. CASE AskAgain(c)
  <2>1. /\ x.at = "returned" /\ lister' = [lister EXCEPT ![c] = NewLister]
        /\ quiet /\ UNCHANGED <<refresher, nextId, pending>>
    BY <1>9 DEF AskAgain, Lister, cacheState, UnchangedByCaller, serverSide, stopState
  <2>2. /\ NewLister \in Caller /\ NewLister.at = "new" /\ NewLister.began = 0
        /\ NewLister.generation = 0 /\ NewLister.reply = "none" /\ NewLister.kind = "cached"
    BY <1>1 DEF NewLister, Caller
  <2>3. lister'[c] = NewLister BY <1>1, <2>1
  <2>4. Served(c)' BY <1>1, <2>1, <2>2, <2>3 DEF Served, InCall, Fetching
  <2> QED BY <1>0, <2>1, <2>2, <2>4
<1>10. CASE StartRefresh(c)
  <2> DEFINE y == [x EXCEPT !.at = "calling", !.generation = invalidation]
  <2>1. /\ x.at = "begun" /\ refresher = NoLister /\ refresher' = c
        /\ lister' = [lister EXCEPT ![c] = y] /\ quiet /\ UNCHANGED <<nextId, pending>>
    BY <1>1, <1>10 DEF StartRefresh, Lister, UnchangedByCaller, serverSide, stopState
  <2>2. /\ y \in Caller /\ y.at = "calling" /\ y.kind = x.kind /\ y.began = x.began
        /\ y.generation = invalidation /\ y.reply = x.reply /\ y.id = x.id
    BY <1>1 DEF Caller, Fetching
  <2> HIDE DEF y
  <2>3. lister'[c] = y BY <1>1, <2>1
  <2>4. x.kind # "call" BY <1>1, <2>1 DEF Served, Caller
  <2>5. Served(c)' BY <1>1, <2>1, <2>2, <2>3, <2>4 DEF Served, InCall, Fetching
  <2> QED BY <1>0, <2>1, <2>2, <2>5
<1>11. CASE RegisterCall(c)
  <2>1. x.at = "calling" /\ quiet /\ UNCHANGED refresher
    BY <1>11 DEF RegisterCall, Lister, cacheState, UnchangedByCaller, serverSide, stopState
  <2>2. CASE Connected
    <3> DEFINE y == [x EXCEPT !.at = "sending", !.id = nextId]
    <3>1. /\ nextId <= MaxCalls /\ nextId' = nextId + 1 /\ pending' = pending \cup {nextId}
          /\ lister' = [lister EXCEPT ![c] = y]
      BY <1>1, <1>11, <2>2 DEF RegisterCall
    <3>2. /\ y \in Caller /\ y.at = "sending" /\ y.kind = x.kind /\ y.began = x.began
          /\ y.generation = x.generation /\ y.reply = x.reply /\ y.id = nextId
      <4>1. x \in Caller /\ nextId \in 0 .. MaxCalls BY <1>1, <3>1
      <4> QED BY <4>1 DEF Caller, Fetching
    <3> HIDE DEF y
    <3>3. lister'[c] = y BY <1>1, <3>1
    <3>4. \A m \in wire : m.id \in Nat /\ m.id < nextId
      BY DEF ClientInv, ClientTypes, VersionsInv
    <3>5. ~stopReturned /\ x.reply = "none" BY <1>1, <2>1, <2>2 DEF Connected, Served
    <3>6. Served(c)'
      BY <1>1, <2>1, <3>1, <3>2, <3>3, <3>4, <3>5 DEF Served, InCall, Fetching
    <3>7. /\ nextId' \in nextId .. MaxCalls + 1 /\ pending' \subseteq 1 .. MaxCalls
          /\ transport # "open" => pending' = {}
      BY <1>1, <2>2, <3>1 DEF Connected
    <3> QED BY <2>1, <3>1, <3>2, <3>6, <3>7, CallerMoves
  <2>3. CASE ~Connected
    <3> DEFINE y == [x EXCEPT !.at = "fetched", !.reply = "error"]
    <3>1. lister' = [lister EXCEPT ![c] = y] /\ UNCHANGED <<nextId, pending>>
      BY <1>1, <1>11, <2>3 DEF RegisterCall
    <3>2. /\ y \in Caller /\ y.at = "fetched" /\ y.kind = x.kind /\ y.began = x.began
          /\ y.generation = x.generation /\ y.reply = "error"
      BY <1>1 DEF Caller, Fetching
    <3> HIDE DEF y
    <3>3. lister'[c] = y BY <1>1, <3>1
    <3>4. Served(c)' BY <1>1, <2>1, <3>1, <3>2, <3>3 DEF Served, InCall, Fetching
    <3> QED BY <1>0, <2>1, <3>1, <3>2, <3>4
  <2> QED BY <2>2, <2>3
<1>12. CASE Send(c)
  <2> DEFINE y == [x EXCEPT !.at = "waiting"]
  <2>1. /\ x.at = "sending" /\ lister' = [lister EXCEPT ![c] = y] /\ quiet
        /\ UNCHANGED <<refresher, nextId, pending>>
    BY <1>1, <1>12 DEF Send, Lister, cacheState, UnchangedByCaller, serverSide, stopState
  <2>2. /\ y \in Caller /\ y.at = "waiting" /\ y.kind = x.kind /\ y.began = x.began
        /\ y.generation = x.generation /\ y.reply = x.reply /\ y.id = x.id
        /\ y.version = x.version
    BY <1>1 DEF Caller, Fetching
  <2> HIDE DEF y
  <2>3. lister'[c] = y BY <1>1, <2>1
  <2>4. Served(c)' BY <1>1, <2>1, <2>2, <2>3 DEF Served, InCall, Fetching, Timely
  <2> QED BY <1>0, <2>1, <2>2, <2>4 DEF InCall
<1>13. CASE AbandonCall(c)
  <2> DEFINE y == [x EXCEPT !.at = "fetched", !.reply = "error", !.version = 0]
  <2>1. /\ InCall(c) /\ lister' = [lister EXCEPT ![c] = y] /\ quiet
        /\ UNCHANGED <<refresher, nextId>> /\ pending' = pending \ {x.id}
    BY <1>1, <1>13 DEF AbandonCall, cacheState, UnchangedByCaller, serverSide, stopState
  <2>2. /\ y \in Caller /\ y.at = "fetched" /\ y.kind = x.kind /\ y.began = x.began
        /\ y.generation = x.generation /\ y.reply = "error"
    <3>1. x \in Caller BY <1>1
    <3> QED BY <1>b, <3>1 DEF Caller, Fetching
  <2> HIDE DEF y
  <2>3. lister'[c] = y BY <1>1, <2>1
  <2>4. Served(c)' BY <1>1, <2>1, <2>2, <2>3 DEF Served, InCall, Fetching
  <2> QED BY <1>0, <2>1, <2>2, <2>4
<1>14. CASE ReceiveReply(c)
  <2> DEFINE y == [x EXCEPT !.at = "fetched"]
  <2>1. /\ x.at = "waiting" /\ x.reply # "none" /\ lister' = [lister EXCEPT ![c] = y] /\ quiet
        /\ UNCHANGED <<refresher, nextId, pending>>
    BY <1>1, <1>14 DEF ReceiveReply, Lister, cacheState, UnchangedByCaller, serverSide,
                       stopState
  <2>2. /\ y \in Caller /\ y.at = "fetched" /\ y.kind = x.kind /\ y.began = x.began
        /\ y.generation = x.generation /\ y.reply = x.reply /\ y.version = x.version
    BY <1>1 DEF Caller, Fetching
  <2> HIDE DEF y
  <2>3. lister'[c] = y BY <1>1, <2>1
  <2>4. Served(c)' BY <1>1, <2>1, <2>2, <2>3 DEF Served, InCall, Fetching, Timely
  <2> QED BY <1>0, <2>1, <2>2, <2>4
<1> QED BY <1>3, <1>4, <1>6, <1>7, <1>8, <1>9, <1>10, <1>11, <1>12, <1>13, <1>14

\* The reader hands a reply to whoever waits for it, and takes the ids away.
LEMMA ReplyStep ==
    ASSUME ClientInv, NEW ids \in SUBSET pending, NEW reply \in {"list", "error"},
           NEW version \in 0 .. MaxServed,
           lister' = Replied(ids, reply, version), pending' = pending \ ids,
           wire' \subseteq wire,
           UNCHANGED <<served, announced, refresher, nextId, handlers, stopReturned>>,
           \/ /\ UNCHANGED <<transport, clientClosed, cache, invalidation>>
              /\ \A d \in Listers : InCall(d) /\ lister[d].id \in ids /\ reply = "list"
                                      => Timely(d, version)
           \/ /\ UNCHANGED <<clientClosed, cache, invalidation>>
              /\ transport = "open" /\ transport' = "failed" /\ pending' = {} /\ reply = "error"
           \/ /\ clientClosed' = TRUE /\ transport' = "stopped" /\ pending' = {}
              /\ reply = "error" /\ cache' = [valid |-> FALSE, version |-> 0]
              /\ invalidation' = 0 /\ ~clientClosed
    PROVE  ClientInv'
<1>1. /\ lister \in [Listers -> Caller] /\ MaxServed \in Nat /\ clientClosed \in BOOLEAN
      /\ wire \subseteq [type : {"changed", "response"}, id : 0 .. MaxCalls, version : 0 .. MaxServed]
  BY ClientAssumption DEF ClientInv, ClientTypes
<1>2. ASSUME NEW d \in Listers
      PROVE  /\ lister'[d] \in Caller /\ lister'[d].at = lister[d].at
             /\ lister'[d].kind = lister[d].kind /\ lister'[d].began = lister[d].began
             /\ lister'[d].generation = lister[d].generation /\ lister'[d].id = lister[d].id
             /\ IF InCall(d) /\ lister[d].id \in ids
                THEN lister'[d].reply = reply /\ lister'[d].version = version
                ELSE lister'[d].reply = lister[d].reply /\ lister'[d].version = lister[d].version
  <2>1. lister[d] \in Caller BY <1>1
  <2>2. lister'[d] = IF InCall(d) /\ lister[d].id \in ids
                     THEN [lister[d] EXCEPT !.reply = reply, !.version = version]
                     ELSE lister[d]
    BY DEF Replied
  <2>3. CASE InCall(d) /\ lister[d].id \in ids
    <3> DEFINE old == lister[d]
               new == lister'[d]
    <3>1. old \in Caller /\ new = [old EXCEPT !.reply = reply, !.version = version]
      BY <2>1, <2>2, <2>3
    <3> HIDE DEF old, new
    <3>2. new \in Caller /\ new.reply = reply /\ new.version = version
      BY <3>1 DEF Caller
    <3>3. /\ new.at = old.at /\ new.kind = old.kind /\ new.began = old.began
          /\ new.generation = old.generation /\ new.id = old.id
      BY <3>1 DEF Caller
    <3> QED BY <2>3, <3>2, <3>3 DEF old, new
  <2>4. CASE ~(InCall(d) /\ lister[d].id \in ids)
    <3> DEFINE old == lister[d]
    <3>1. lister'[d] = old BY <2>2, <2>4
    <3>2. old \in Caller BY <2>1
    <3> HIDE DEF old
    <3>3. /\ lister'[d].at = old.at /\ lister'[d].kind = old.kind /\ lister'[d].began = old.began
          /\ lister'[d].generation = old.generation /\ lister'[d].id = old.id
          /\ lister'[d].reply = old.reply /\ lister'[d].version = old.version
          /\ lister'[d] \in Caller
      BY <3>1, <3>2
    <3> QED BY <2>4, <3>3 DEF old
  <2> QED BY <2>3, <2>4
<1>3. lister' \in [Listers -> Caller]
  <2>1. lister' = [d \in Listers |-> lister'[d]] BY DEF Replied
  <2> QED BY <1>2, <2>1
<1>4. clientClosed' \/ (clientClosed' = clientClosed /\ cache' = cache /\ invalidation' = invalidation)
  OBVIOUS
<1>5. ClientTypes'
  <2>1. cache' \in [valid : BOOLEAN, version : 0 .. MaxServed]
    <3>1. cache \in [valid : BOOLEAN, version : 0 .. MaxServed]
      BY DEF ClientInv, ClientTypes, ClientTypeOK
    <3>2. [valid |-> FALSE, version |-> 0] \in [valid : BOOLEAN, version : 0 .. MaxServed]
      BY <1>1
    <3> QED BY <3>1, <3>2
  <2>2. wire' \subseteq [type : {"changed", "response"}, id : 0 .. MaxCalls, version : 0 .. MaxServed]
    BY <1>1
  <2>3. transport' \in {"open", "failed", "stopped"} /\ invalidation' \in Nat /\ clientClosed' \in BOOLEAN
    <3>1. /\ transport \in {"open", "failed", "stopped"} /\ invalidation \in Nat
          /\ clientClosed \in BOOLEAN
      BY DEF ClientInv, ClientTypes, ClientTypeOK
    <3>2. transport' \in {transport, "failed", "stopped"} /\ invalidation' \in {invalidation, 0}
          /\ clientClosed' \in {clientClosed, TRUE}
      OBVIOUS
    <3>3. clientClosed' \in BOOLEAN BY <3>1, <3>2, Zenon
    <3>4. transport' \in {"open", "failed", "stopped"} BY <3>1, <3>2, Zenon
    <3>5. invalidation' \in Nat BY <3>1, <3>2, SMT
    <3> QED BY <3>3, <3>4, <3>5
  <2> QED BY <1>3, <2>1, <2>2, <2>3 DEF ClientInv, ClientTypes, ClientTypeOK
<1>6. CallsInv'
  <2>1. \A c, d \in Listers : InCall(c)' /\ InCall(d)' /\ lister'[c].id = lister'[d].id => c = d
    BY <1>2 DEF ClientInv, CallsInv, InCall
  <2> QED BY <2>1 DEF ClientInv, CallsInv
<1>7. VersionsInv' BY DEF ClientInv, VersionsInv
<1>8. ASSUME NEW d \in Listers PROVE Served(d)'
  <2>1. Served(d) BY DEF ClientInv
  <2>2. ASSUME NEW v, Timely(d, v) PROVE Timely(d, v)'
    BY <1>2, <1>4, <2>2 DEF Timely
  <2>3. lister'[d].reply = "list" => Timely(d, lister[d].version)'
    <3>1. CASE InCall(d) /\ lister[d].id \in ids
      <4>1. reply = "list" => Timely(d, version)' BY <2>2, <3>1
      <4> QED BY <1>2, <3>1, <4>1 DEF Timely
    <3>2. CASE ~(InCall(d) /\ lister[d].id \in ids)
      <4>1. PICK v : v = lister[d].version OBVIOUS
      <4>2. lister[d].reply = "list" => Timely(d, v)' BY <2>1, <2>2, <4>1 DEF Served
      <4> QED BY <1>2, <3>2, <4>1, <4>2
    <3> QED BY <3>1, <3>2
  <2>4. \A m \in wire' :
          m.type = "response" /\ InCall(d)' /\ m.id = lister'[d].id => Timely(d, m.version)'
    <3> SUFFICES ASSUME NEW m \in wire', m.type = "response", InCall(d)', m.id = lister'[d].id
                 PROVE  Timely(d, m.version)'
      OBVIOUS
    <3>1. m \in wire /\ InCall(d) /\ m.id = lister[d].id BY <1>2 DEF InCall
    <3> QED BY <2>1, <2>2, <3>1 DEF Served
  <2>5. InCall(d)' => /\ InCall(d) /\ lister'[d].id < nextId' /\ ~stopReturned'
                      /\ lister'[d].reply = "none" => lister'[d].id \in pending'
    BY <1>2, <2>1 DEF Served, InCall
  <2>6. ~clientClosed' => lister'[d].generation <= invalidation'
    BY <1>2, <1>4, <2>1 DEF Served
  <2>7. /\ lister'[d].at \in {"new", "begun", "calling"} => lister'[d].reply = "none"
        /\ lister'[d].at = "fetched" => lister'[d].reply # "none"
        /\ lister'[d].at = "begun" => lister'[d].kind # "call"
        /\ lister'[d].began <= announced'
        /\ refresher' = d <=> lister'[d].kind # "call" /\ lister'[d].at \in Fetching
    BY <1>2, <2>1 DEF Served, InCall
  <2> QED BY <2>3, <2>4, <2>5, <2>6, <2>7 DEF Served
<1> QED BY <1>5, <1>6, <1>7, <1>8 DEF ClientInv

\* What the server sends, and what the reader does with a notification, changes
\* no caller; a notification makes every fetch that began before it too old.
LEMMA ServerStep ==
    ASSUME ClientInv,
           \/ ChangeList \/ HandlerEnds \/ StopReturns \/ \E c \in Listers : Answer(c)
           \/ \E m \in wire : HandleTransportNotification(m)
    PROVE  ClientInv'
<1>1. /\ lister \in [Listers -> Caller] /\ invalidation \in Nat /\ handlers \in 0 .. HandlerLimit
      /\ served \in 1 .. MaxServed /\ announced \in 0 .. MaxServed /\ announced <= served
      /\ MaxServed \in Nat /\ HandlerLimit \in Nat /\ MaxCalls \in Nat
      /\ nextId \in 1 .. MaxCalls + 1
      /\ \A m \in wire : /\ m \in [type : {"changed", "response"}, id : 0 .. MaxCalls,
                                   version : 0 .. MaxServed]
                         /\ m.version <= served /\ m.id < nextId
  BY ClientAssumption DEF ClientInv, ClientTypes, ClientTypeOK, VersionsInv
<1>2. lister' = lister /\ UNCHANGED <<refresher, nextId, pending, transport, clientClosed>>
  BY DEF ChangeList, HandlerEnds, StopReturns, Answer, HandleTransportNotification,
         serverSide, cacheState, stopState
<1>3. ASSUME UNCHANGED <<announced, cache, invalidation>>,
             stopReturned' = stopReturned
               \/ (stopReturned' = TRUE /\ clientClosed /\ handlers = 0
                     /\ \A c \in Listers : ~InCall(c)),
             handlers' \in 0 .. handlers, served' \in served .. MaxServed,
             \A m \in wire' \ wire :
                 /\ m \in [type : {"changed", "response"}, id : 0 .. MaxCalls,
                           version : 0 .. MaxServed]
                 /\ m.version = served' /\ m.id < nextId
      PROVE  ClientInv'
  <2>1. ClientTypes'
    <3>1. stopReturned' \in BOOLEAN BY <1>3 DEF ClientInv, ClientTypes
    <3>2. wire' \subseteq [type : {"changed", "response"}, id : 0 .. MaxCalls,
                           version : 0 .. MaxServed]
      BY <1>1, <1>3
    <3>3. handlers' \in 0 .. HandlerLimit /\ served' \in 1 .. MaxServed BY <1>1, <1>3
    <3> QED BY <1>2, <1>3, <3>1, <3>2, <3>3 DEF ClientInv, ClientTypes, ClientTypeOK
  <2>2. CallsInv'
    <3>1. handlers = 0 => handlers' = 0 BY <1>1, <1>3
    <3> QED BY <1>2, <1>3, <3>1 DEF ClientInv, CallsInv, InCall
  <2>3. VersionsInv'
    <3>1. announced' <= served' BY <1>1, <1>3
    <3>2. ASSUME NEW m \in wire' PROVE m.version <= served' /\ m.id < nextId'
      <4>1. CASE m \in wire
        <5>1. m.version \in Nat /\ m.version <= served BY <1>1, <4>1
        <5> QED BY <1>1, <1>2, <1>3, <4>1, <5>1
      <4>2. CASE m \notin wire
        <5>1. m.version = served' /\ m.id < nextId BY <1>3, <4>2
        <5>2. served' \in Nat BY <1>1, <1>3
        <5> QED BY <1>2, <5>1, <5>2
      <4> QED BY <4>1, <4>2
    <3> QED BY <1>2, <1>3, <3>1, <3>2 DEF ClientInv, VersionsInv
  <2>4. ASSUME NEW c \in Listers PROVE Served(c)'
    <3>1. Served(c) /\ lister[c] \in Caller BY <1>1 DEF ClientInv
    <3>2. \A v : Timely(c, v) <=> Timely(c, v)'
      BY <1>2, <1>3 DEF Timely
    <3>3. \A m \in wire' \ wire : Timely(c, m.version)
      <4> SUFFICES ASSUME NEW m \in wire' \ wire PROVE Timely(c, m.version) OBVIOUS
      <4>1. m.version = served' BY <1>3
      <4>2. m.version \in Nat /\ m.version >= announced BY <1>1, <1>3, <4>1
      <4>3. lister[c].began <= announced /\ lister[c].began \in Nat BY <1>1, <3>1 DEF Served, Caller
      <4> QED BY <1>1, <4>2, <4>3 DEF Timely
    <3>4. \A m \in wire' :
            m.type = "response" /\ InCall(c)' /\ m.id = lister'[c].id => Timely(c, m.version)'
      <4> SUFFICES ASSUME NEW m \in wire', m.type = "response", InCall(c)', m.id = lister'[c].id
                   PROVE  Timely(c, m.version)'
        OBVIOUS
      <4>1. PICK v : v = m.version OBVIOUS
      <4>2. Timely(c, v)
        <5>1. CASE m \in wire BY <1>2, <3>1, <4>1, <5>1 DEF Served, InCall
        <5>2. CASE m \notin wire BY <3>3, <4>1, <5>2
        <5> QED BY <5>1, <5>2
      <4> QED BY <3>2, <4>1, <4>2
    <3>5. lister'[c].reply = "list" => Timely(c, lister[c].version)'
      <4>1. PICK v : v = lister[c].version OBVIOUS
      <4>2. lister[c].reply = "list" => Timely(c, v)' BY <3>1, <3>2, <4>1 DEF Served
      <4> QED BY <1>2, <4>1, <4>2
    <3>6. InCall(c)' => InCall(c) /\ ~stopReturned' BY <1>2, <1>3, <3>1 DEF InCall, Served
    <3> QED BY <1>2, <1>3, <3>1, <3>4, <3>5, <3>6 DEF Served, InCall
  <2> QED BY <2>1, <2>2, <2>3, <2>4 DEF ClientInv
<1>4. CASE ChangeList
  <2> DEFINE n == [type |-> "changed", id |-> 0, version |-> served + 1]
  <2>1. /\ served < MaxServed /\ served' = served + 1 /\ wire' = wire \cup {n}
        /\ UNCHANGED <<announced, stopReturned, cache, invalidation, handlers>>
    BY <1>4 DEF ChangeList, cacheState, stopState
  <2>2. /\ n \in [type : {"changed", "response"}, id : 0 .. MaxCalls, version : 0 .. MaxServed]
        /\ n.version = served' /\ n.id < nextId
    BY <1>1, <2>1
  <2> HIDE DEF n
  <2>3. \A m \in wire' \ wire : m = n BY <2>1
  <2>4. handlers' \in 0 .. handlers /\ served' \in served .. MaxServed BY <1>1, <2>1
  <2> QED BY <1>3, <2>1, <2>2, <2>3, <2>4
<1>5. CASE HandlerEnds
  <2>1. /\ handlers > 0 /\ handlers' = handlers - 1
        /\ UNCHANGED <<served, wire, announced, stopReturned, cache, invalidation>>
    BY <1>5 DEF HandlerEnds, cacheState, stopState, serverSide
  <2>2. handlers' \in 0 .. handlers /\ served' \in served .. MaxServed BY <1>1, <2>1
  <2> QED BY <1>3, <2>1, <2>2
<1>6. CASE StopReturns
  <2>1. /\ clientClosed /\ handlers = 0 /\ (\A c \in Listers : ~InCall(c)) /\ stopReturned' = TRUE
        /\ UNCHANGED <<served, wire, announced, handlers, cache, invalidation>>
    BY <1>6 DEF StopReturns, cacheState, serverSide
  <2>2. handlers' \in 0 .. handlers /\ served' \in served .. MaxServed BY <1>1, <2>1
  <2> QED BY <1>3, <2>1, <2>2
<1>7. CASE \E c \in Listers : Answer(c)
  <2>1. PICK c \in Listers : Answer(c) BY <1>7
  <2> DEFINE n == [type |-> "response", id |-> lister[c].id, version |-> served]
  <2>2. /\ InCall(c) /\ wire' = wire \cup {n}
        /\ UNCHANGED <<served, announced, stopReturned, cache, invalidation, handlers>>
    BY <2>1 DEF Answer, Lister, InCall, cacheState, stopState
  <2>3. lister[c].id \in 0 .. MaxCalls /\ lister[c].id < nextId
    <3>1. lister[c] \in Caller /\ Served(c) BY <1>1 DEF ClientInv
    <3> QED BY <2>2, <3>1 DEF Caller, Served
  <2>4. /\ n \in [type : {"changed", "response"}, id : 0 .. MaxCalls, version : 0 .. MaxServed]
        /\ n.version = served' /\ n.id < nextId
    BY <1>1, <2>2, <2>3
  <2> HIDE DEF n
  <2>5. \A m \in wire' \ wire : m = n BY <2>2
  <2>6. handlers' \in 0 .. handlers /\ served' \in served .. MaxServed BY <1>1, <2>2
  <2> QED BY <1>3, <2>2, <2>4, <2>5, <2>6
<1>8. CASE \E m \in wire : HandleTransportNotification(m)
  <2>1. PICK n \in wire : HandleTransportNotification(n) BY <1>8
  <2>2. /\ transport = "open" /\ wire' = wire \ {n} /\ announced' = Higher(announced, n.version)
        /\ cache' = [cache EXCEPT !.valid = FALSE] /\ invalidation' = invalidation + 1
        /\ handlers' = (IF handlers < HandlerLimit THEN handlers + 1 ELSE handlers)
        /\ UNCHANGED <<served, stopReturned>>
    BY <2>1 DEF HandleTransportNotification, stopState
  <2>3. /\ announced' \in announced .. served /\ announced' \in 0 .. MaxServed
        /\ handlers' \in 0 .. HandlerLimit
    BY <1>1, <2>2 DEF Higher
  <2>4. /\ cache' \in [valid : BOOLEAN, version : 0 .. MaxServed] /\ ~cache'.valid
    BY <2>2 DEF ClientInv, ClientTypes, ClientTypeOK
  <2>5. ClientTypes'
    BY <1>1, <1>2, <2>2, <2>3, <2>4 DEF ClientInv, ClientTypes, ClientTypeOK
  <2>6. CallsInv'
    <3>1. ~clientClosed /\ ~stopReturned BY <2>2 DEF ClientInv, CallsInv
    <3> QED BY <1>2, <2>2, <3>1 DEF ClientInv, CallsInv, InCall
  <2>7. VersionsInv'
    BY <1>1, <1>2, <2>2, <2>3, <2>4 DEF ClientInv, VersionsInv
  <2>8. ASSUME NEW c \in Listers PROVE Served(c)'
    <3>1. Served(c) /\ lister[c] \in Caller /\ ~clientClosed
      BY <1>1, <2>2 DEF ClientInv, CallsInv
    <3>2. lister[c].generation \in Nat /\ lister[c].generation <= invalidation
          /\ lister[c].began \in Nat /\ lister[c].began <= announced
      BY <3>1 DEF Served, Caller
    <3>3. /\ lister[c].generation <= invalidation' /\ lister[c].generation # invalidation'
          /\ lister[c].began <= announced'
      BY <1>1, <2>2, <2>3, <3>2
    <3>4. \A v : Timely(c, v) => Timely(c, v)' BY <1>2, <3>3 DEF Timely
    <3>5. lister'[c].reply = "list" => Timely(c, lister[c].version)'
      <4>1. PICK v : v = lister[c].version OBVIOUS
      <4>2. lister[c].reply = "list" => Timely(c, v)' BY <3>1, <3>4, <4>1 DEF Served
      <4> QED BY <1>2, <4>1, <4>2
    <3>6. \A m \in wire' :
            m.type = "response" /\ InCall(c)' /\ m.id = lister'[c].id => Timely(c, m.version)'
      <4> SUFFICES ASSUME NEW m \in wire', m.type = "response", InCall(c)', m.id = lister'[c].id
                   PROVE  Timely(c, m.version)'
        OBVIOUS
      <4>1. PICK v : v = m.version OBVIOUS
      <4>2. Timely(c, v) BY <1>2, <2>2, <3>1, <4>1 DEF Served, InCall
      <4> QED BY <3>4, <4>1, <4>2
    <3> QED BY <1>2, <2>2, <3>1, <3>3, <3>5, <3>6 DEF Served, InCall
  <2> QED BY <2>5, <2>6, <2>7, <2>8 DEF ClientInv
<1> QED BY <1>4, <1>5, <1>6, <1>7, <1>8

\* The end of a refresh caches the list only if nothing was announced since.
LEMMA FinishRefreshStep ==
    ASSUME ClientInv, NEW c \in Listers, FinishRefresh(c)
    PROVE  ClientInv'
<1> DEFINE x == lister[c]
           caches == x.reply = "list" /\ ~clientClosed /\ Cacheable(c)
           y == ListerReturns(c, x.reply, x.version)
<1>1. /\ lister \in [Listers -> Caller] /\ x \in Caller /\ Served(c)
      /\ cache \in [valid : BOOLEAN, version : 0 .. MaxServed] /\ invalidation \in Nat
      /\ MaxServed \in Nat /\ MaxCalls \in Nat /\ NoLister \notin Listers
  BY ClientAssumption DEF ClientInv, ClientTypes, ClientTypeOK
<1>2. /\ x.at = "fetched" /\ x.kind # "call" /\ refresher' = NoLister
      /\ cache' = (IF caches THEN [valid |-> TRUE, version |-> x.version] ELSE cache)
      /\ lister' = [d \in Listers |->
             IF d = c THEN y
             ELSE [lister[d] EXCEPT !.filled = @ \/ (caches /\ Lister(d, "begun"))]]
      /\ UNCHANGED <<served, wire, announced, transport, clientClosed, stopReturned,
                     invalidation, nextId, pending, handlers>>
  BY DEF FinishRefresh, Lister, UnchangedByCaller, serverSide, stopState
<1>3. refresher = c BY <1>1, <1>2 DEF Served, Fetching
<1>4. /\ y \in Caller /\ y.at = "returned" /\ y.kind = x.kind /\ y.began = x.began
      /\ y.generation = 0 /\ y.reply = x.reply /\ y.version = x.version
  <2>1. /\ x.kind \in {"cached", "fresh", "call"} /\ x.began \in 0 .. MaxServed
        /\ x.reply \in {"none", "list", "error"} /\ x.version \in 0 .. MaxServed
    BY <1>1 DEF Caller
  <2>2. 0 \in 0 .. MaxCalls BY <1>1
  <2> QED BY <2>1, <2>2 DEF ListerReturns, NewLister, Caller
<1>5. ASSUME NEW d \in Listers \ {c}
      PROVE  /\ lister'[d] \in Caller /\ lister'[d].at = lister[d].at
             /\ lister'[d].kind = lister[d].kind /\ lister'[d].began = lister[d].began
             /\ lister'[d].generation = lister[d].generation /\ lister'[d].id = lister[d].id
             /\ lister'[d].reply = lister[d].reply /\ lister'[d].version = lister[d].version
  <2>1. lister[d] \in Caller BY <1>1
  <2>2. PICK filled \in BOOLEAN : lister'[d] = [lister[d] EXCEPT !.filled = filled]
    <3>1. (lister[d].filled \/ (caches /\ Lister(d, "begun"))) \in BOOLEAN OBVIOUS
    <3>2. lister'[d] = [lister[d] EXCEPT
                           !.filled = lister[d].filled \/ (caches /\ Lister(d, "begun"))]
      BY <1>2
    <3> QED BY <3>1, <3>2
  <2> QED BY <2>1, <2>2 DEF Caller
<1>6. lister'[c] = y BY <1>2
<1> HIDE DEF y
<1>7. lister' \in [Listers -> Caller]
  <2>1. lister' = [d \in Listers |-> lister'[d]] BY <1>2
  <2>2. \A d \in Listers : lister'[d] \in Caller BY <1>4, <1>5, <1>6
  <2> QED BY <2>1, <2>2
<1>8. /\ cache' \in [valid : BOOLEAN, version : 0 .. MaxServed]
      /\ cache'.valid => cache'.version >= announced' /\ ~clientClosed'
  <2>1. CASE caches
    <3>1. x.version \in 0 .. MaxServed BY <1>1 DEF Caller
    <3>2. Timely(c, x.version) /\ x.generation = invalidation /\ ~clientClosed
      BY <1>1, <2>1 DEF Served, Cacheable
    <3>3. x.version >= announced BY <1>2, <3>2 DEF Timely
    <3>4. cache' = [valid |-> TRUE, version |-> x.version] BY <1>2, <2>1
    <3>5. cache' \in [valid : BOOLEAN, version : 0 .. MaxServed] BY <3>1, <3>4
    <3>6. cache'.version = x.version BY <3>4
    <3> QED BY <1>2, <3>2, <3>3, <3>5, <3>6
  <2>2. CASE ~caches
    <3>1. cache' = cache BY <1>2, <2>2
    <3> QED BY <1>1, <1>2, <3>1 DEF ClientInv, VersionsInv
  <2> QED BY <2>1, <2>2
<1>9. ClientTypes' BY <1>2, <1>7, <1>8 DEF ClientInv, ClientTypes, ClientTypeOK
<1>10. CallsInv'
  <2>1. \A d, e \in Listers : InCall(d)' /\ InCall(e)' /\ lister'[d].id = lister'[e].id => d = e
    BY <1>4, <1>5, <1>6 DEF ClientInv, CallsInv, InCall
  <2> QED BY <1>2, <2>1 DEF ClientInv, CallsInv
<1>11. VersionsInv' BY <1>2, <1>8 DEF ClientInv, VersionsInv
<1>12. Served(c)'
  <2>1. x.reply # "none" /\ x.began <= announced
        /\ (x.reply = "list" => x.version >= x.began)
    BY <1>1, <1>2 DEF Served, Timely
  <2>2. 0 <= invalidation BY <1>1
  <2> QED BY <1>1, <1>2, <1>4, <1>6, <2>1, <2>2 DEF Served, InCall, Fetching, Timely
<1>13. ASSUME NEW d \in Listers \ {c} PROVE Served(d)'
  <2>1. Served(d) BY DEF ClientInv
  <2>2. \A v : Timely(d, v)' <=> Timely(d, v) BY <1>2, <1>5 DEF Timely
  <2>3. refresher # d /\ refresher' # d BY <1>1, <1>2, <1>3
  <2>4. lister'[d].reply = "list" => Timely(d, lister[d].version)'
    <3>1. PICK v : v = lister[d].version OBVIOUS
    <3>2. lister[d].reply = "list" => Timely(d, v)' BY <2>1, <2>2, <3>1 DEF Served
    <3> QED BY <1>5, <3>1, <3>2
  <2>5. \A m \in wire' :
          m.type = "response" /\ InCall(d)' /\ m.id = lister'[d].id => Timely(d, m.version)'
    <3> SUFFICES ASSUME NEW m \in wire', m.type = "response", InCall(d)', m.id = lister'[d].id
                 PROVE  Timely(d, m.version)'
      OBVIOUS
    <3>1. PICK v : v = m.version OBVIOUS
    <3>2. Timely(d, v) BY <1>2, <1>5, <2>1, <3>1 DEF Served, InCall
    <3> QED BY <2>2, <3>1, <3>2
  <2> QED BY <1>2, <1>5, <2>1, <2>3, <2>4, <2>5 DEF Served, InCall
<1> QED BY <1>9, <1>10, <1>11, <1>12, <1>13 DEF ClientInv

\* The inductive invariant of the client holds.
LEMMA ClientInvariance == ClientSpec => []ClientInv
<1>1. ClientInit => ClientInv
  <2> SUFFICES ASSUME ClientInit PROVE ClientInv OBVIOUS
  <2>1. /\ NewLister \in Caller /\ NewLister.at = "new" /\ NewLister.began = 0
        /\ NewLister.generation = 0 /\ NewLister.reply = "none" /\ NewLister.kind = "cached"
    <3>1. 0 \in 0 .. MaxServed /\ 0 \in 0 .. MaxCalls /\ 0 \in Nat BY ClientAssumption
    <3> QED BY <3>1 DEF NewLister, Caller
  <2>2. \A c \in Listers : lister[c] = NewLister BY DEF ClientInit
  <2>3. ClientTypes
    <3>1. 1 \in 1 .. MaxServed /\ 0 \in 0 .. MaxServed /\ 1 \in 1 .. MaxCalls + 1
          /\ 0 \in 0 .. HandlerLimit
      BY ClientAssumption
    <3>2. ClientTypeOK BY <3>1 DEF ClientInit, ClientTypeOK
    <3> QED BY <2>1, <3>2 DEF ClientInit, ClientTypes
  <2>4. CallsInv BY <2>1, <2>2 DEF ClientInit, CallsInv, InCall
  <2>5. VersionsInv BY DEF ClientInit, VersionsInv
  <2>6. \A c \in Listers : Served(c)
    BY <2>1, <2>2, ClientAssumption DEF ClientInit, Served, InCall, Fetching
  <2> QED BY <2>3, <2>4, <2>5, <2>6 DEF ClientInv
<1>2. ClientInv /\ [ClientNext]_clientVars => ClientInv'
  <2> SUFFICES ASSUME ClientInv, [ClientNext]_clientVars PROVE ClientInv' OBVIOUS
  <2>1. CASE UNCHANGED clientVars
    BY <2>1 DEF clientVars, ClientInv, ClientTypes, ClientTypeOK, CallsInv, VersionsInv,
                Served, Timely, InCall
  <2>2. CASE \/ ChangeList \/ HandlerEnds \/ StopReturns \/ \E c \in Listers : Answer(c)
             \/ \E m \in wire : HandleTransportNotification(m)
    BY <2>2, ServerStep
  <2>3. CASE \E c \in Listers :
               \/ CacheHit(c) \/ StartRefresh(c) \/ CancelWait(c) \/ RegisterCall(c)
               \/ Send(c) \/ AbandonCall(c) \/ ReceiveReply(c) \/ CallTool(c) \/ FinishCall(c)
               \/ AskAgain(c) \/ \E kind \in {"cached", "fresh"} : ListTools(c, kind)
    BY <2>3, CallerStep
  <2>4. CASE \E c \in Listers : FinishRefresh(c) BY <2>4, FinishRefreshStep
  <2>5. 0 \in 0 .. MaxServed BY ClientAssumption
  <2>6. CASE \E m \in wire : DispatchResponse(m)
    <3>1. PICK m \in wire : DispatchResponse(m) BY <2>6
    <3>2. /\ m.type = "response" /\ wire' = wire \ {m} /\ pending' = pending \ {m.id}
          /\ lister' = Replied({m.id} \cap pending, "list", m.version)
          /\ UNCHANGED <<served, announced, refresher, nextId, handlers, stopReturned,
                         transport, clientClosed, cache, invalidation>>
      BY <3>1 DEF DispatchResponse, stopState, cacheState
    <3>3. m.version \in 0 .. MaxServed BY DEF ClientInv, ClientTypes
    <3>4. \A d \in Listers :
            InCall(d) /\ lister[d].id \in {m.id} \cap pending => Timely(d, m.version)
      BY <3>2 DEF ClientInv, Served
    <3>5. pending' = pending \ ({m.id} \cap pending) /\ wire' \subseteq wire BY <3>2
    <3> QED BY <3>2, <3>3, <3>4, <3>5, ReplyStep
  <2>7. CASE FailPendingForTransport
    <3>1. /\ transport = "open" /\ transport' = "failed" /\ wire' = {} /\ pending' = {}
          /\ lister' = Replied(pending, "error", 0)
          /\ UNCHANGED <<served, announced, refresher, nextId, handlers, stopReturned,
                         clientClosed, cache, invalidation>>
      BY <2>7 DEF FailPendingForTransport, cacheState
    <3>2. pending' = pending \ pending /\ wire' \subseteq wire BY <3>1
    <3> QED BY <2>5, <3>1, <3>2, ReplyStep
  <2>8. CASE StopServer
    <3>1. /\ ~clientClosed /\ clientClosed' = TRUE /\ transport' = "stopped" /\ wire' = {}
          /\ pending' = {} /\ lister' = Replied(pending, "error", 0)
          /\ cache' = [valid |-> FALSE, version |-> 0] /\ invalidation' = 0
          /\ UNCHANGED <<served, announced, refresher, nextId, handlers, stopReturned>>
      BY <2>8 DEF StopServer
    <3>2. pending' = pending \ pending /\ wire' \subseteq wire BY <3>1
    <3> QED BY <2>5, <3>1, <3>2, ReplyStep
  <2> QED BY <2>1, <2>2, <2>3, <2>4, <2>6, <2>7, <2>8 DEF ClientNext
<1> QED BY <1>1, <1>2, PTL DEF ClientSpec

\* Types of the client's variables.
THEOREM ClientTypeCorrect == ClientSpec => []ClientTypeOK
BY ClientInvariance, PTL DEF ClientInv, ClientTypes

\* No caller is given a list that was out of date when it asked, and none that
\* is out of date is cached.
THEOREM ListsAreCurrent == ClientSpec => []ListIsCurrent
<1>1. ClientInv => ListIsCurrent
  BY DEF ClientInv, VersionsInv, ListIsCurrent, Served, Timely
<1> QED BY <1>1, ClientInvariance, PTL

\* No caller of the client waits for a reply that nobody will give.
THEOREM WaitersAreServed == ClientSpec => []NoLostWaiter
<1>1. ClientInv => NoLostWaiter
  <2> SUFFICES ASSUME ClientInv PROVE NoLostWaiter OBVIOUS
  <2>1. ASSUME NEW c \in Listers
        PROVE  /\ Lister(c, "waiting") /\ lister[c].reply = "none" =>
                     lister[c].id \in pending /\ transport = "open"
               /\ refresher = c <=> /\ lister[c].kind # "call"
                                    /\ lister[c].at \in {"calling", "sending", "waiting", "fetched"}
               /\ stopReturned => ~InCall(c)
    <3>1. Served(c) BY DEF ClientInv
    <3>2. transport # "open" => pending = {} BY DEF ClientInv, CallsInv
    <3> QED BY <3>1, <3>2 DEF Served, Lister, InCall, Fetching
  <2>2. stopReturned => pending = {} /\ handlers = 0 BY DEF ClientInv, CallsInv
  <2> QED BY <2>1, <2>2 DEF NoLostWaiter
<1> QED BY <1>1, ClientInvariance, PTL


-----------------------------------------------------------------------------
(* The language server: the inductive invariant.                           *)

BufferTexts == Texts \cup {NoText}

Messages ==
    [kind : {"didOpen", "didChange", "didClose"}, id : Nat, generation : Nat, version : Nat,
     text : BufferTexts, base : BufferTexts]

Senders == [message : Messages, write : {"waiting", "nil", "error"}]

PendingChanges ==
    [id : Nat, text : BufferTexts, generation : Nat, opening : BOOLEAN, flushing : BOOLEAN]

SyncTypes ==
    /\ serving \in Nat /\ changes \in Nat /\ edits \in Nat /\ overtaken \in BOOLEAN
    /\ link \in [number : Nat, connected : BOOLEAN, closing : BOOLEAN,
                 kind : {"full", "incremental"}]
    /\ doc \in [version : Nat, text : BufferTexts]
    /\ pendingChange \in PendingChanges \cup {NoPending}
    /\ debounce \subseteq [id : Nat, generation : Nat]
    /\ senders \subseteq Senders /\ outbox \subseteq Messages
    /\ editor \in [Editors -> [at : {"idle", "sync", "close", "waiting"}, text : BufferTexts,
                               number : Nat]]

\* What is sent for the pending change.
Sends(s) == s \in senders /\ IsPending(s.message.id)

\* Changes are numbered, and a close has no number.
NumberInv ==
    /\ pendingChange # NoPending =>
          /\ pendingChange.id \in 1 .. changes
          /\ pendingChange.opening => pendingChange.flushing
    /\ \A s \in senders : s.message.id <= changes /\ (s.message.id = 0 <=> s.message.kind = "didClose")

\* The message is the only one under way: that of the pending change, or a close
\* behind which nothing has been opened yet.
OnlyMessage(m) ==
    /\ \A other \in outbox : other = m
    /\ \/ m.kind = "didClose" /\ doc = NoDocument /\ pendingChange = NoPending
       \/ m.kind # "didClose" /\ Sends([message |-> m, write |-> "waiting"])

\* Where the pending change and the server stand, according to its sender.
SenderInv(s) ==
    /\ pendingChange.flushing /\ s.message.version > 0
    /\ \A other \in senders : IsPending(other.message.id) => other = s
    /\ s.write = "waiting" =>
          /\ s.message \in outbox
          /\ s.message.kind = "didChange" => doc.version > 0 /\ s.message.base = doc.text
    /\ s.write = "nil" => remote = [version |-> s.message.version, text |-> s.message.text]

\* What the server has, unless its answer is on its way to the client.
RemoteInv ==
    doc.version > 0 =>
        remote = doc \/ \E s \in senders : IsPending(s.message.id) /\ s.write = "nil"

\* As long as no message was overtaken and the server is not stopping.
InStep ==
    /\ \A m \in outbox : OnlyMessage(m)
    /\ \A s \in senders : IsPending(s.message.id) => SenderInv(s)
    /\ pendingChange # NoPending /\ ~pendingChange.opening => doc.version > 0
    /\ RemoteInv

SyncInv ==
    /\ SyncTypes /\ NumberInv /\ NoStrandedSync
    /\ ~overtaken /\ ~link.closing => InStep

-----------------------------------------------------------------------------
(* The language server: steps.                                             *)

\* What is under way does not depend on the timers.
LEMMA InStepRests ==
    ASSUME InStep, UNCHANGED <<doc, pendingChange, senders, outbox, remote>>
    PROVE  InStep'
<1>1. \A m \in outbox : OnlyMessage(m)'
  BY DEF InStep, OnlyMessage, Sends, IsPending
<1>2. \A s \in senders : IsPending(s.message.id) => SenderInv(s)'
  BY DEF InStep, SenderInv, IsPending
<1>3. RemoteInv'
  BY DEF InStep, RemoteInv, IsPending
<1> QED
  BY <1>1, <1>2, <1>3 DEF InStep, IsPending

\* The steps that touch neither the document nor what is under way.
LEMMA SyncRests ==
    ASSUME SyncInv, SyncTypes', documentState' = documentState, wireState' = wireState,
           overtaken' = overtaken, ~link'.closing => ~link.closing
    PROVE  SyncInv'
<1>1. /\ doc' = doc /\ pendingChange' = pendingChange /\ changes' = changes
      /\ waitedFor' = waitedFor /\ debounce' = debounce
      /\ senders' = senders /\ outbox' = outbox /\ remote' = remote
  BY DEF documentState, wireState
<1>2. NumberInv' /\ NoStrandedSync'
  BY <1>1 DEF SyncInv, NumberInv, NoStrandedSync, IsPending
<1>3. InStep => InStep'
  BY <1>1, InStepRests
<1> QED
  BY <1>2, <1>3 DEF SyncInv

\* Calls that are looked up, refused or answered, and the life of the server.
LEMMA RestingSteps ==
    ASSUME SyncInv,
           \/ \E e \in Editors, text \in Texts : FindServer(e, "sync", text)
           \/ \E e \in Editors : \/ FindServer(e, "close", NoText) \/ ServerIsGone(e)
                                 \/ AlreadySynced(e) \/ WaitDocumentChange(e)
           \/ DetachServer \/ StopLSPProcess \/ ServerExits \/ ObserveLSPProcess
    PROVE  SyncInv'
<1>1. SyncTypes
  BY DEF SyncInv
<1>2. ASSUME NEW e \in Editors, NEW kind \in {"sync", "close"}, NEW text \in BufferTexts,
             FindServer(e, kind, text)
      PROVE  SyncInv'
  <2>1. [at |-> kind, text |-> text, number |-> serving] \in
            [at : {"idle", "sync", "close", "waiting"}, text : BufferTexts, number : Nat]
    BY <1>1 DEF SyncTypes
  <2>2. editor' \in [Editors -> [at : {"idle", "sync", "close", "waiting"}, text : BufferTexts,
                                 number : Nat]]
    BY <1>1, <1>2, <2>1 DEF FindServer, SyncTypes
  <2>3. SyncTypes'
    BY <1>1, <1>2, <2>2 DEF FindServer, SyncTypes, documentState, wireState
  <2> QED
    BY <1>2, <2>3, SyncRests DEF FindServer
<1>3. ASSUME NEW e \in Editors, ServerIsGone(e) \/ AlreadySynced(e) \/ WaitDocumentChange(e)
      PROVE  SyncInv'
  <2>1. IdleEditor \in [at : {"idle", "sync", "close", "waiting"}, text : BufferTexts, number : Nat]
    BY DEF IdleEditor, BufferTexts
  <2>2. editor' = [editor EXCEPT ![e] = IdleEditor]
    BY <1>3 DEF ServerIsGone, AlreadySynced, WaitDocumentChange, EditorReturns
  <2>3. editor' \in [Editors -> [at : {"idle", "sync", "close", "waiting"}, text : BufferTexts,
                                 number : Nat]]
    BY <1>1, <2>1, <2>2 DEF SyncTypes
  <2>4. UNCHANGED <<serving, link, documentState, wireState, edits, overtaken>>
    BY <1>3 DEF ServerIsGone, AlreadySynced, WaitDocumentChange
  <2>5. SyncTypes'
    BY <1>1, <2>3, <2>4 DEF SyncTypes, documentState, wireState
  <2> QED
    BY <2>4, <2>5, SyncRests
<1>4. CASE DetachServer \/ StopLSPProcess \/ ServerExits \/ ObserveLSPProcess
  <2>1. /\ UNCHANGED <<documentState, wireState, editor, edits, overtaken>>
        /\ serving' \in Nat
        /\ link' = link \/ link' = [link EXCEPT !.connected = FALSE]
    BY <1>1, <1>4 DEF DetachServer, StopLSPProcess, ServerExits, ObserveLSPProcess, SyncTypes
  <2>2. /\ link' \in [number : Nat, connected : BOOLEAN, closing : BOOLEAN,
                      kind : {"full", "incremental"}]
        /\ link'.closing = link.closing
    BY <1>1, <2>1 DEF SyncTypes
  <2>3. SyncTypes'
    BY <1>1, <2>1, <2>2 DEF SyncTypes, documentState, wireState
  <2> QED
    BY <2>1, <2>2, <2>3, SyncRests
<1> QED
  BY <1>2, <1>3, <1>4 DEF BufferTexts

\* A call joins the pending change.
LEMMA JoinStep ==
    ASSUME SyncInv, NEW e \in Editors, JoinChange(e)
    PROVE  SyncInv'
<1>1. /\ SyncTypes /\ NumberInv /\ NoStrandedSync /\ pendingChange # NoPending
      /\ pendingChange \in PendingChanges /\ editor[e].text \in BufferTexts
      /\ IdleEditor \in [at : {"idle", "sync", "close", "waiting"}, text : BufferTexts, number : Nat]
  BY DEF SyncInv, SyncTypes, JoinChange, IdleEditor, BufferTexts
<1>2. UNCHANGED <<serving, stopping, link, doc, changes, waitedFor, senders, outbox, remote, edits,
                  overtaken>>
  BY DEF JoinChange, wireState
<1>3. editor' \in [Editors -> [at : {"idle", "sync", "close", "waiting"}, text : BufferTexts,
                               number : Nat]]
  <2>1. [IdleEditor EXCEPT !.at = "waiting"] \in
            [at : {"idle", "sync", "close", "waiting"}, text : BufferTexts, number : Nat]
    BY <1>1
  <2> QED
    BY <1>1, <2>1 DEF JoinChange, EditorWaits, SyncTypes
<1>4. /\ pendingChange' \in PendingChanges /\ pendingChange' # NoPending
      /\ pendingChange'.id = pendingChange.id
      /\ pendingChange'.opening = pendingChange.opening
      /\ pendingChange'.flushing = pendingChange.flushing
      /\ debounce \subseteq debounce' /\ debounce' \subseteq [id : Nat, generation : Nat]
      /\ \/ pendingChange'.generation = pendingChange.generation
         \/ BeingSent
         \/ Timer(pendingChange.id, pendingChange'.generation) \in debounce'
  <2>1. CASE pendingChange.text = editor[e].text
    BY <1>1, <2>1 DEF JoinChange, SyncTypes
  <2>2. CASE pendingChange.text # editor[e].text
    <3> DEFINE generation == pendingChange.generation + 1
               changed == [pendingChange EXCEPT !.text = editor[e].text, !.generation = generation]
               timer == Timer(pendingChange.id, generation)
    <3>1. generation \in Nat
      BY <1>1 DEF PendingChanges
    <3>2. /\ pendingChange' = changed
          /\ debounce' = IF BeingSent THEN debounce ELSE debounce \cup {timer}
      BY <1>1, <2>2 DEF JoinChange, PendingChanges
    <3> HIDE DEF generation
    <3>3. /\ changed \in PendingChanges /\ changed.id = pendingChange.id
          /\ changed.opening = pendingChange.opening
          /\ changed.flushing = pendingChange.flushing /\ changed.generation = generation
      BY <1>1, <3>1 DEF PendingChanges
    <3>4. timer \in [id : Nat, generation : Nat]
      BY <1>1, <3>1 DEF Timer, PendingChanges
    <3>5. changed # NoPending
      BY <3>3, SyncAssumption DEF PendingChanges, BufferTexts
    <3> HIDE DEF changed
    <3> QED
      BY <1>1, <3>2, <3>3, <3>4, <3>5 DEF SyncTypes
  <2> QED
    BY <2>1, <2>2
<1>5. \A id : IsPending(id)' <=> IsPending(id)
  BY <1>1, <1>4 DEF IsPending
<1>6. SyncTypes'
  BY <1>1, <1>2, <1>3, <1>4 DEF SyncTypes
<1>7. NumberInv'
  BY <1>1, <1>2, <1>4 DEF NumberInv
<1>8. NoStrandedSync'
  <2>1. SUFFICES ASSUME NEW id \in waitedFor
                 PROVE  /\ IsPending(id)'
                        /\ IF pendingChange'.flushing
                           THEN \E s \in senders : s.message.id = id
                           ELSE Timer(id, pendingChange'.generation) \in debounce'
    BY <1>2 DEF NoStrandedSync
  <2>2. IsPending(id) /\ pendingChange.id = id
    BY <1>1 DEF NoStrandedSync, IsPending
  <2>3. CASE pendingChange.flushing
    BY <1>1, <1>4, <1>5, <2>2, <2>3 DEF NoStrandedSync
  <2>4. CASE ~pendingChange.flushing
    <3>1. ~BeingSent
      BY <1>1, <2>4 DEF BeingSent, NumberInv
    <3>2. Timer(id, pendingChange.generation) \in debounce
      BY <1>1, <2>4 DEF NoStrandedSync
    <3> QED
      BY <1>4, <1>5, <2>2, <2>4, <3>1, <3>2
  <2> QED
    BY <2>3, <2>4
<1>9. ASSUME InStep
      PROVE  InStep'
  <2>1. \A m \in outbox : OnlyMessage(m)'
    BY <1>1, <1>2, <1>4, <1>5, <1>9 DEF InStep, OnlyMessage, Sends
  <2>2. \A s \in senders : IsPending(s.message.id) => SenderInv(s)'
    BY <1>2, <1>4, <1>5, <1>9 DEF InStep, SenderInv
  <2>3. RemoteInv'
    BY <1>2, <1>5, <1>9 DEF InStep, RemoteInv
  <2> QED
    BY <1>1, <1>2, <1>4, <1>5, <1>9, <2>1, <2>2, <2>3 DEF InStep
<1> QED
  BY <1>2, <1>6, <1>7, <1>8, <1>9 DEF SyncInv

\* A change without a predecessor has a number of its own, so that no timer and
\* no message is its own yet.
LEMMA NextChangeIsNew ==
    ASSUME SyncInv, pendingChange = NoPending
    PROVE  /\ NextChange \in Nat /\ NextChange > changes /\ waitedFor = {}
           /\ \A id : ~IsPending(id)
           /\ \A s \in senders : s.message.id # NextChange
<1>1. SyncTypes /\ NumberInv /\ NoStrandedSync
  BY DEF SyncInv
<1>2. NextChange \in Nat /\ NextChange > changes
  BY <1>1 DEF SyncTypes, NextChange
<1>3. \A id : ~IsPending(id)
  BY DEF IsPending
<1>4. waitedFor = {}
  BY <1>1, <1>3 DEF NoStrandedSync
<1>5. ASSUME NEW s \in senders
      PROVE  s.message.id # NextChange
  <2>1. s.message.id \in Nat /\ s.message.id <= changes /\ changes \in Nat
    BY <1>1 DEF SyncTypes, NumberInv, Senders, Messages
  <2> QED
    BY <1>2, <2>1
<1> QED
  BY <1>2, <1>3, <1>4, <1>5

\* A document is opened.
LEMMA OpenStep ==
    ASSUME SyncInv, NEW e \in Editors, OpenDocument(e)
    PROVE  SyncInv'
<1> DEFINE m == Notification("didOpen", NextChange, 1, 1, editor[e].text, NoText)
           sender == [message |-> m, write |-> "waiting"]
           edit == [id |-> NextChange, text |-> editor[e].text, generation |-> 1,
                      opening |-> TRUE, flushing |-> TRUE]
<1>1. /\ SyncTypes /\ NumberInv /\ NoStrandedSync /\ pendingChange = NoPending
      /\ editor[e].text \in BufferTexts /\ doc.version = 0
  BY DEF SyncInv, SyncTypes, OpenDocument
<1>2. /\ NextChange \in Nat /\ NextChange > changes /\ waitedFor = {}
      /\ \A id : ~IsPending(id)
      /\ \A s \in senders : s.message.id # NextChange
  BY <1>1, NextChangeIsNew
<1>3. /\ UNCHANGED <<serving, stopping, link, doc, debounce, edits, remote>>
      /\ pendingChange' = edit /\ changes' = NextChange
      /\ waitedFor' = {NextChange} /\ senders' = senders \cup {sender}
      /\ outbox' = outbox \cup {m} /\ (~overtaken' <=> ~overtaken /\ outbox = {})
      /\ overtaken' \in BOOLEAN
  BY <1>1, <1>2 DEF OpenDocument, Notify, SyncTypes
<1>4. /\ m \in Messages /\ m.id = NextChange /\ m.kind = "didOpen" /\ m.version = 1
      /\ sender \in Senders /\ sender.message = m /\ sender.write = "waiting"
      /\ edit \in PendingChanges /\ edit.id = NextChange /\ edit.opening /\ edit.flushing
      /\ edit # NoPending
  <2>1. m \in Messages /\ m.id = NextChange /\ m.kind = "didOpen" /\ m.version = 1
    BY <1>1, <1>2 DEF Notification, Messages, BufferTexts
  <2>2. sender \in Senders /\ sender.message = m /\ sender.write = "waiting"
    BY <2>1 DEF Senders
  <2>3. /\ edit \in PendingChanges /\ edit.id = NextChange /\ edit.opening
        /\ edit.flushing
    BY <1>1, <1>2 DEF PendingChanges
  <2>4. edit # NoPending
    BY <2>3, SyncAssumption DEF PendingChanges, BufferTexts
  <2> QED
    BY <2>1, <2>2, <2>3, <2>4
<1> HIDE DEF m, sender, edit
<1>5. \A id : IsPending(id)' <=> id = NextChange
  BY <1>3, <1>4 DEF IsPending
<1>6. SyncTypes'
  <2>1. editor' \in [Editors -> [at : {"idle", "sync", "close", "waiting"}, text : BufferTexts,
                                 number : Nat]]
    BY <1>1 DEF OpenDocument, EditorWaits, IdleEditor, SyncTypes, BufferTexts
  <2> QED
    BY <1>1, <1>2, <1>3, <1>4, <2>1 DEF SyncTypes
<1>7. NumberInv'
  <2>1. pendingChange'.id \in 1 .. changes'
    BY <1>1, <1>2, <1>3, <1>4 DEF SyncTypes
  <2>2. ASSUME NEW s \in senders'
        PROVE  s.message.id <= changes' /\ (s.message.id = 0 <=> s.message.kind = "didClose")
    <3>1. CASE s = sender
      BY <1>1, <1>2, <1>3, <1>4, <3>1 DEF SyncTypes
    <3>2. CASE s \in senders
      <4>1. s.message.id \in Nat /\ changes \in Nat /\ s.message.id <= changes
        BY <1>1, <3>2 DEF SyncTypes, NumberInv, Senders, Messages
      <4> QED
        BY <1>1, <1>2, <1>3, <3>2, <4>1 DEF NumberInv
    <3> QED
      BY <1>3, <3>1, <3>2
  <2> QED
    BY <1>3, <1>4, <2>1, <2>2 DEF NumberInv
<1>8. NoStrandedSync'
  BY <1>3, <1>4, <1>5 DEF NoStrandedSync
<1>9. ASSUME InStep, outbox = {}
      PROVE  InStep'
  <2>1. \A other \in outbox' : OnlyMessage(other)'
    BY <1>3, <1>4, <1>5, <1>9 DEF OnlyMessage, Sends, sender
  <2>2. \A s \in senders' : s.message.id = NextChange => s = sender
    BY <1>2, <1>3
  <2>3. ASSUME NEW s \in senders', s.message.id = NextChange
        PROVE  SenderInv(s)'
    BY <1>3, <1>4, <1>5, <2>2, <2>3 DEF SenderInv
  <2>4. RemoteInv'
    BY <1>1, <1>3 DEF RemoteInv
  <2> QED
    BY <1>3, <1>4, <1>5, <2>1, <2>3, <2>4 DEF InStep
<1> QED
  BY <1>3, <1>6, <1>7, <1>8, <1>9 DEF SyncInv

\* A change begins.
LEMMA NewChangeStep ==
    ASSUME SyncInv, NEW e \in Editors, NewDocumentChange(e)
    PROVE  SyncInv'
<1> DEFINE timer == Timer(NextChange, 1)
           edit == [id |-> NextChange, text |-> editor[e].text, generation |-> 1,
                      opening |-> FALSE, flushing |-> FALSE]
<1>1. /\ SyncTypes /\ NumberInv /\ NoStrandedSync /\ pendingChange = NoPending
      /\ editor[e].text \in BufferTexts /\ doc.version > 0 /\ doc.version \in Nat
  BY DEF SyncInv, SyncTypes, NewDocumentChange
<1>2. /\ NextChange \in Nat /\ NextChange > changes /\ waitedFor = {}
      /\ \A id : ~IsPending(id)
      /\ \A s \in senders : s.message.id # NextChange
  BY <1>1, NextChangeIsNew
<1>3. /\ UNCHANGED <<serving, stopping, link, doc, senders, outbox, remote, edits, overtaken>>
      /\ pendingChange' = edit /\ changes' = NextChange
      /\ waitedFor' = {NextChange} /\ debounce' = debounce \cup {timer}
  BY <1>1, <1>2 DEF NewDocumentChange, wireState
<1>4. /\ timer \in [id : Nat, generation : Nat]
      /\ edit \in PendingChanges /\ edit.id = NextChange /\ ~edit.opening
      /\ ~edit.flushing /\ edit.generation = 1 /\ edit # NoPending
  <2>1. /\ timer \in [id : Nat, generation : Nat]
        /\ edit \in PendingChanges /\ edit.id = NextChange /\ ~edit.opening
        /\ ~edit.flushing /\ edit.generation = 1
    BY <1>1, <1>2 DEF PendingChanges, Timer
  <2> QED
    BY <2>1, SyncAssumption DEF PendingChanges, BufferTexts
<1> HIDE DEF edit
<1>5. \A id : IsPending(id)' <=> id = NextChange
  BY <1>3, <1>4 DEF IsPending
<1>6. SyncTypes'
  <2>1. editor' \in [Editors -> [at : {"idle", "sync", "close", "waiting"}, text : BufferTexts,
                                 number : Nat]]
    BY <1>1 DEF NewDocumentChange, EditorWaits, IdleEditor, SyncTypes, BufferTexts
  <2> HIDE DEF timer
  <2> QED
    BY <1>1, <1>2, <1>3, <1>4, <2>1 DEF SyncTypes
<1>7. NumberInv'
  <2>1. pendingChange'.id \in 1 .. changes'
    BY <1>1, <1>2, <1>3, <1>4 DEF SyncTypes
  <2>2. ASSUME NEW s \in senders
        PROVE  s.message.id <= changes'
    <3>1. s.message.id \in Nat /\ changes \in Nat /\ s.message.id <= changes
      BY <1>1 DEF SyncTypes, NumberInv, Senders, Messages
    <3> QED
      BY <1>2, <1>3, <3>1
  <2> QED
    BY <1>1, <1>3, <1>4, <2>1, <2>2 DEF NumberInv
<1>8. NoStrandedSync'
  BY <1>3, <1>4, <1>5 DEF NoStrandedSync
<1>9. ASSUME InStep
      PROVE  InStep'
  <2>1. outbox = {}
    <3>1. ASSUME NEW m \in outbox PROVE FALSE
      <4>1. OnlyMessage(m) /\ NoDocument.version = 0
        BY <1>9 DEF InStep, NoDocument
      <4> QED
        BY <1>1, <1>2, <4>1 DEF OnlyMessage, Sends
    <3> QED
      BY <3>1
  <2>2. remote = doc
    BY <1>1, <1>2, <1>9 DEF InStep, RemoteInv
  <2> QED
    BY <1>1, <1>2, <1>3, <1>5, <2>1, <2>2 DEF InStep, RemoteInv
<1> QED
  BY <1>3, <1>6, <1>7, <1>8, <1>9 DEF SyncInv

\* The pending change is cancelled: by a close, or as the server stops.
LEMMA CancelStep ==
    ASSUME SyncInv, pendingChange' = NoPending,
           waitedFor' = {id \in waitedFor : ~IsPending(id)}
    PROVE  NoStrandedSync' /\ \A id : ~IsPending(id)'
<1>1. waitedFor' = {}
  BY DEF SyncInv, NoStrandedSync
<1> QED
  BY <1>1 DEF NoStrandedSync, IsPending

\* A document is closed.
LEMMA CloseDocumentStep ==
    ASSUME SyncInv, NEW e \in Editors, CloseDocument(e)
    PROVE  SyncInv'
<1> DEFINE m == Notification("didClose", 0, edits, 0, NoText, NoText)
           sender == [message |-> m, write |-> "waiting"]
<1>1. SyncTypes /\ NumberInv
  BY DEF SyncInv
<1>2. /\ UNCHANGED <<serving, stopping, link, changes, debounce, edits, remote>>
      /\ doc' = NoDocument /\ pendingChange' = NoPending
      /\ senders' = senders \cup {sender} /\ outbox' = outbox \cup {m}
      /\ (~overtaken' <=> ~overtaken /\ outbox = {}) /\ overtaken' \in BOOLEAN
  BY <1>1 DEF CloseDocument, Notify, SyncTypes
<1>3. NoStrandedSync' /\ \A id : ~IsPending(id)'
  BY CancelStep DEF CloseDocument
<1>4. /\ m \in Messages /\ m.id = 0 /\ m.kind = "didClose"
      /\ sender \in Senders /\ sender.message = m
  <2>1. m \in Messages /\ m.id = 0 /\ m.kind = "didClose"
    BY <1>1 DEF Notification, Messages, BufferTexts, SyncTypes
  <2> QED
    BY <2>1 DEF Senders
<1> HIDE DEF m, sender
<1>5. SyncTypes'
  <2>1. editor' \in [Editors -> [at : {"idle", "sync", "close", "waiting"}, text : BufferTexts,
                                 number : Nat]]
    BY <1>1 DEF CloseDocument, EditorReturns, IdleEditor, SyncTypes, BufferTexts
  <2>2. NoDocument \in [version : Nat, text : BufferTexts]
    BY DEF NoDocument, BufferTexts
  <2> QED
    BY <1>1, <1>2, <1>4, <2>1, <2>2 DEF SyncTypes
<1>6. NumberInv'
  BY <1>1, <1>2, <1>4 DEF NumberInv, SyncTypes
<1>7. ASSUME outbox = {}
      PROVE  InStep'
  <2>1. \A other \in outbox' : OnlyMessage(other)'
    BY <1>2, <1>4, <1>7 DEF OnlyMessage
  <2> QED
    BY <1>2, <1>3, <2>1 DEF InStep, RemoteInv, NoDocument
<1> QED
  BY <1>2, <1>3, <1>5, <1>6, <1>7 DEF SyncInv

\* The server begins to stop.
LEMMA ClosingStep ==
    ASSUME SyncInv, BeginClosing
    PROVE  SyncInv'
<1>1. SyncTypes /\ NumberInv
  BY DEF SyncInv
<1>2. NoStrandedSync'
  BY CancelStep DEF BeginClosing
<1>3. /\ UNCHANGED <<serving, doc, changes, debounce, senders, outbox, remote, editor, edits,
                     overtaken>>
      /\ pendingChange' = NoPending
      /\ link' = [link EXCEPT !.closing = TRUE]
  BY DEF BeginClosing, wireState
<1>4. link' \in [number : Nat, connected : BOOLEAN, closing : BOOLEAN,
                 kind : {"full", "incremental"}] /\ link'.closing
  BY <1>1, <1>3 DEF SyncTypes
<1>5. SyncTypes' /\ NumberInv'
  BY <1>1, <1>3, <1>4 DEF SyncTypes, NumberInv
<1> QED
  BY <1>2, <1>4, <1>5 DEF SyncInv

\* A new server knows nothing, and nothing is under way to it.
LEMMA StartStep ==
    ASSUME SyncInv, StartLSPServer
    PROVE  SyncInv'
<1>1. SyncTypes
  BY DEF SyncInv
<1>2. /\ doc' = NoDocument /\ pendingChange' = NoPending /\ debounce' = {} /\ changes' = 0
      /\ waitedFor' = {} /\ senders' = {} /\ outbox' = {} /\ overtaken' = FALSE
      /\ editor' = editor /\ edits' = edits /\ serving' = link.number + 1
      /\ link' = NewLink(link.number + 1, link.kind)
  BY DEF StartLSPServer
<1>3. /\ link' \in [number : Nat, connected : BOOLEAN, closing : BOOLEAN,
                    kind : {"full", "incremental"}]
      /\ serving' \in Nat
  BY <1>1, <1>2 DEF SyncTypes, NewLink
<1>4. SyncTypes'
  BY <1>1, <1>2, <1>3 DEF SyncTypes, NoDocument, BufferTexts
<1>5. NumberInv' /\ NoStrandedSync' /\ InStep'
  BY <1>2 DEF NumberInv, NoStrandedSync, InStep, RemoteInv, NoDocument
<1> QED
  BY <1>4, <1>5 DEF SyncInv

\* A write that ends changes what its sender knows, and nothing else.
LEMMA SendersLearn ==
    ASSUME SyncInv, NEW m \in Messages, NEW result \in {"nil", "error"},
           senders' = Written(m, result)
    PROVE  /\ senders' \subseteq Senders
           /\ \A s \in senders : \E w \in senders' : w.message = s.message
           /\ \A w \in senders' : \E s \in senders :
                /\ w.message = s.message
                /\ \/ w = s /\ s # [message |-> m, write |-> "waiting"]
                   \/ s = [message |-> m, write |-> "waiting"] /\ w.write = result
           /\ \A s \in senders : s # [message |-> m, write |-> "waiting"] => s \in senders'
<1> DEFINE Learned(s) == IF s = [message |-> m, write |-> "waiting"]
                         THEN [s EXCEPT !.write = result] ELSE s
<1>1. senders \subseteq Senders /\ senders' = {Learned(s) : s \in senders}
  BY DEF SyncInv, SyncTypes, Written
<1>2. ASSUME NEW s \in senders
      PROVE  /\ Learned(s) \in Senders /\ Learned(s).message = s.message
             /\ \/ Learned(s) = s /\ s # [message |-> m, write |-> "waiting"]
                \/ s = [message |-> m, write |-> "waiting"] /\ Learned(s).write = result
  BY <1>1 DEF Senders
<1>3. \A s \in senders : s # [message |-> m, write |-> "waiting"] => Learned(s) = s
  OBVIOUS
<1> HIDE DEF Learned
<1> QED
  BY <1>1, <1>2, <1>3

\* What holds of the numbers and of the waiters whenever a write ends.
LEMMA WriteEnds ==
    ASSUME SyncInv, NEW m \in outbox, NEW result \in {"nil", "error"},
           senders' = Written(m, result), outbox' = outbox \ {m},
           UNCHANGED <<serving, stopping, link, documentState, editor, edits, overtaken>>
    PROVE  SyncTypes' /\ NumberInv' /\ NoStrandedSync'
<1>1. /\ SyncTypes /\ NumberInv /\ NoStrandedSync /\ m \in Messages
  BY DEF SyncInv, SyncTypes
<1>2. /\ senders' \subseteq Senders
      /\ \A s \in senders : \E w \in senders' : w.message = s.message
      /\ \A w \in senders' : \E s \in senders : w.message = s.message
  BY <1>1, SendersLearn
<1>3. SyncTypes'
  BY <1>1, <1>2 DEF SyncTypes, documentState
<1>4. NumberInv'
  BY <1>1, <1>2 DEF NumberInv, documentState
<1>5. \A id : (\E s \in senders : s.message.id = id) => \E s \in senders' : s.message.id = id
  BY <1>2
<1>6. NoStrandedSync'
  BY <1>1, <1>5 DEF NoStrandedSync, documentState, IsPending
<1> QED
  BY <1>3, <1>4, <1>6

\* A message reaches the server, or its write fails.
LEMMA WriteStep ==
    ASSUME SyncInv, NEW m \in outbox, WriteNotification(m) \/ NotifyFails(m)
    PROVE  SyncInv'
<1>1. /\ SyncTypes /\ NumberInv /\ m \in Messages
      /\ UNCHANGED <<serving, stopping, link, documentState, editor, edits, overtaken>>
      /\ outbox' = outbox \ {m}
      /\ doc' = doc /\ pendingChange' = pendingChange
  BY DEF WriteNotification, NotifyFails, SyncInv, SyncTypes, documentState
<1>2. PICK result \in {"nil", "error"} :
         /\ senders' = Written(m, result)
         /\ result = "nil" => remote' = Received(m)
         /\ result = "error" => remote' = remote
  BY DEF WriteNotification, NotifyFails
<1>3. SyncTypes' /\ NumberInv' /\ NoStrandedSync'
  BY <1>1, <1>2, WriteEnds
<1>4. /\ \A w \in senders' : \E s \in senders :
            /\ w.message = s.message
            /\ \/ w = s /\ s # [message |-> m, write |-> "waiting"]
               \/ s = [message |-> m, write |-> "waiting"] /\ w.write = result
      /\ \A s \in senders : s # [message |-> m, write |-> "waiting"] => s \in senders'
      /\ \A s \in senders : \E w \in senders' : w.message = s.message
  BY <1>1, <1>2, SendersLearn
<1>5. \A id : IsPending(id)' <=> IsPending(id)
  BY <1>1 DEF IsPending
<1>6. ASSUME InStep
      PROVE  InStep'
  <2>1. OnlyMessage(m) /\ outbox' = {}
    BY <1>1, <1>6 DEF InStep, OnlyMessage
  <2>2. CASE m.kind = "didClose"
    <3>1. doc.version = 0 /\ pendingChange = NoPending
      BY <2>1, <2>2 DEF OnlyMessage, NoDocument
    <3>2. \A id : ~IsPending(id)
      BY <3>1 DEF IsPending
    <3> QED
      BY <1>1, <1>5, <2>1, <3>1, <3>2 DEF InStep, RemoteInv
  <2>3. CASE m.kind # "didClose"
    <3> DEFINE sender == [message |-> m, write |-> "waiting"]
    <3>1. sender \in senders /\ IsPending(m.id) /\ sender.message = m /\ sender.write = "waiting"
      BY <2>1, <2>3 DEF OnlyMessage, Sends
    <3>2. SenderInv(sender) /\ \A s \in senders : IsPending(s.message.id) => s = sender
      BY <1>6, <3>1 DEF InStep, SenderInv
    <3> HIDE DEF sender
    <3>3. ASSUME NEW w \in senders', IsPending(w.message.id)
          PROVE  w.message = m /\ w.write = result
      BY <1>4, <3>1, <3>2, <3>3 DEF sender
    <3>4. doc.version > 0 => remote = doc
      BY <1>6, <3>1, <3>2 DEF InStep, RemoteInv
    <3>5. result = "nil" => remote' = [version |-> m.version, text |-> m.text]
      <4>1. CASE m.kind = "didOpen"
        BY <1>2, <4>1 DEF Received
      <4>2. CASE m.kind = "didChange"
        <5>1. doc.version > 0 /\ m.base = doc.text /\ remote = doc
          BY <3>1, <3>2, <3>4, <4>2 DEF SenderInv
        <5>2. remote # NoDocument /\ remote.text = m.base
          BY <5>1 DEF NoDocument
        <5> QED
          BY <1>2, <4>2, <5>2 DEF Received
      <4> QED
        BY <1>1, <2>3, <4>1, <4>2 DEF Messages
    <3>6. ASSUME NEW w \in senders', IsPending(w.message.id)
          PROVE  SenderInv(w)'
      <4>1. pendingChange.flushing /\ m.version > 0
        BY <3>1, <3>2 DEF SenderInv
      <4>2. ASSUME NEW other \in senders', IsPending(other.message.id)
            PROVE  other = w
        <5>1. w \in Senders /\ other \in Senders
          BY <1>3 DEF SyncTypes
        <5> QED
          BY <3>3, <3>6, <4>2, <5>1 DEF Senders
      <4> QED
        BY <1>1, <1>5, <3>3, <3>5, <3>6, <4>1, <4>2 DEF SenderInv
    <3>7. RemoteInv'
      <4>1. PICK w \in senders' : w.message = m
        BY <1>4, <3>1
      <4> QED
        BY <1>1, <1>2, <1>5, <3>1, <3>3, <3>4, <4>1 DEF RemoteInv
    <3> QED
      BY <1>1, <1>5, <1>6, <2>1, <3>6, <3>7 DEF InStep
  <2> QED
    BY <2>2, <2>3
<1> QED
  BY <1>1, <1>3, <1>6 DEF SyncInv

\* A sender that gives up marks its message as overtaken.
LEMMA TimeoutStep ==
    ASSUME SyncInv, NEW s \in senders, NotifyTimeout(s)
    PROVE  SyncInv'
<1> DEFINE late == [s EXCEPT !.write = "error"]
<1>1. /\ SyncTypes /\ NumberInv /\ NoStrandedSync
      /\ UNCHANGED <<serving, stopping, link, documentState, outbox, editor, edits>>
      /\ senders' = (senders \ {s}) \cup {late} /\ overtaken'
  BY DEF SyncInv, NotifyTimeout
<1>2. late \in Senders /\ late.message = s.message
  BY <1>1 DEF SyncTypes, Senders
<1> HIDE DEF late
<1>3. \A id : (\E d \in senders : d.message.id = id) => \E d \in senders' : d.message.id = id
  BY <1>1, <1>2
<1>4. SyncTypes' /\ NumberInv'
  BY <1>1, <1>2 DEF SyncTypes, NumberInv, documentState, NotifyTimeout
<1>5. NoStrandedSync'
  BY <1>1, <1>3 DEF NoStrandedSync, documentState, IsPending
<1> QED
  BY <1>1, <1>4, <1>5 DEF SyncInv

\* A debounce ends: nothing is due, the text is the server's already, or a
\* message is sent.
LEMMA FlushStep ==
    ASSUME SyncInv, NEW t \in debounce, FlushDocumentChange(t)
    PROVE  SyncInv'
<1>1. /\ SyncTypes /\ NumberInv /\ NoStrandedSync
      /\ t \in [id : Nat, generation : Nat]
      /\ debounce' = debounce \ {t}
      /\ UNCHANGED <<serving, link, doc, changes, editor, edits, overtaken>>
  BY DEF SyncInv, SyncTypes, FlushDocumentChange
<1> DEFINE due == IsPending(t.id) /\ pendingChange.generation = t.generation /\ ~BeingSent
<1>2. CASE ~due
  <2>1. UNCHANGED <<pendingChange, waitedFor, senders, outbox, remote>>
    BY <1>2 DEF FlushDocumentChange, wireState
  <2>2. NoStrandedSync'
    <3>1. SUFFICES ASSUME NEW id \in waitedFor, IsPending(id), ~pendingChange.flushing
                   PROVE  Timer(id, pendingChange.generation) \in debounce \ {t}
      BY <1>1, <2>1 DEF NoStrandedSync, IsPending
    <3>2. Timer(id, pendingChange.generation) \in debounce
      BY <1>1, <3>1 DEF NoStrandedSync
    <3>3. ~BeingSent
      BY <1>1, <3>1 DEF BeingSent, NumberInv, IsPending
    <3>4. Timer(id, pendingChange.generation) # t
      BY <1>2, <3>1, <3>3 DEF Timer
    <3> QED
      BY <3>2, <3>4
  <2>3. SyncTypes' /\ NumberInv'
    BY <1>1, <2>1 DEF SyncTypes, NumberInv
  <2> QED
    BY <1>1, <2>1, <2>2, <2>3, InStepRests DEF SyncInv
<1>3. ASSUME due
      PROVE  /\ pendingChange # NoPending /\ pendingChange.id = t.id
             /\ ~pendingChange.opening /\ ~pendingChange.flushing
             /\ pendingChange \in PendingChanges /\ t.id \in 1 .. changes
  BY <1>1, <1>3 DEF IsPending, BeingSent, SyncTypes, NumberInv
<1>4. ASSUME due, InStep
      PROVE  /\ doc.version > 0 /\ remote = doc /\ outbox = {}
             /\ \A s \in senders : ~IsPending(s.message.id)
  <2>1. \A s \in senders : ~IsPending(s.message.id)
    BY <1>3, <1>4 DEF InStep, SenderInv
  <2>2. doc.version > 0 /\ remote = doc
    BY <1>3, <1>4, <2>1 DEF InStep, RemoteInv
  <2>3. \A m \in outbox : ~OnlyMessage(m)
    BY <1>3, <1>4, <2>1 DEF OnlyMessage, Sends
  <2> QED
    BY <1>4, <2>1, <2>2, <2>3 DEF InStep
<1>5. CASE due /\ pendingChange.text = doc.text
  <2>1. UNCHANGED <<senders, outbox, remote>> /\ CompleteChange
    BY <1>5 DEF FlushDocumentChange, wireState
  <2>2. pendingChange' = NoPending /\ waitedFor' = waitedFor \ {t.id} /\ \A id : ~IsPending(id)'
    BY <1>3, <1>5, <2>1 DEF CompleteChange, IsPending
  <2>3. NoStrandedSync'
    BY <1>1, <1>3, <1>5, <2>2 DEF NoStrandedSync, IsPending
  <2>4. SyncTypes' /\ NumberInv'
    BY <1>1, <2>1, <2>2 DEF SyncTypes, NumberInv
  <2>5. InStep => InStep'
    BY <1>1, <1>4, <1>5, <2>1, <2>2 DEF InStep, RemoteInv
  <2> QED
    BY <1>1, <2>3, <2>4, <2>5 DEF SyncInv
<1>6. CASE due /\ pendingChange.text # doc.text
  <2> DEFINE version == doc.version + 1
             m == Notification("didChange", t.id, t.generation, version,
                               pendingChange.text, doc.text)
             sender == [message |-> m, write |-> "waiting"]
             edit == [pendingChange EXCEPT !.flushing = TRUE]
  <2>1. /\ pendingChange' = edit /\ senders' = senders \cup {sender}
        /\ outbox' = outbox \cup {m} /\ UNCHANGED <<waitedFor, remote>>
    BY <1>6 DEF FlushDocumentChange, Notify
  <2>2. /\ version \in Nat /\ version > 0 /\ doc.text \in BufferTexts
        /\ pendingChange.text \in BufferTexts
    BY <1>1, <1>3, <1>6 DEF SyncTypes, PendingChanges
  <2> HIDE DEF version
  <2>3. /\ m \in Messages /\ m.id = t.id /\ m.kind = "didChange" /\ m.version > 0
        /\ m.base = doc.text
    BY <1>1, <2>2 DEF Notification, Messages
  <2>4. sender \in Senders /\ sender.message = m /\ sender.write = "waiting"
    <3> HIDE DEF m
    <3> QED
      BY <2>3 DEF Senders
  <2>5. /\ edit \in PendingChanges /\ edit.id = t.id /\ ~edit.opening /\ edit.flushing
        /\ edit # NoPending
    <3>1. /\ edit \in PendingChanges /\ edit.id = t.id /\ ~edit.opening
          /\ edit.flushing
      BY <1>3, <1>6 DEF PendingChanges
    <3> QED
      BY <3>1, SyncAssumption DEF PendingChanges, BufferTexts
  <2> HIDE DEF m, sender, edit
  <2>6. \A id : IsPending(id)' <=> IsPending(id)
    BY <1>3, <1>6, <2>1, <2>5 DEF IsPending
  <2>7. SyncTypes'
    BY <1>1, <2>1, <2>3, <2>4, <2>5 DEF SyncTypes
  <2>8. NumberInv'
    <3>1. t.id \in 1 .. changes /\ t.id # 0 /\ t.id <= changes
      BY <1>1, <1>3, <1>6 DEF SyncTypes
    <3> QED
      BY <1>1, <2>1, <2>3, <2>4, <2>5, <3>1 DEF NumberInv
  <2>9. NoStrandedSync'
    <3>1. ASSUME NEW id \in waitedFor
          PROVE  IsPending(id) /\ id = t.id
      BY <1>1, <1>3, <1>6, <3>1 DEF NoStrandedSync, IsPending
    <3> QED
      BY <2>1, <2>3, <2>4, <2>5, <2>6, <3>1 DEF NoStrandedSync
  <2>10. ASSUME InStep
         PROVE  InStep'
    <3>1. /\ doc.version > 0 /\ remote = doc /\ outbox = {}
          /\ \A s \in senders : ~IsPending(s.message.id)
      BY <1>4, <1>6, <2>10
    <3>2. IsPending(t.id)'
      BY <1>6, <2>6
    <3>3. \A other \in outbox' : OnlyMessage(other)'
      BY <2>1, <2>3, <2>4, <3>1, <3>2 DEF OnlyMessage, Sends, sender
    <3>4. \A s \in senders' : IsPending(s.message.id)' => s = sender
      BY <2>1, <2>6, <3>1
    <3>5. ASSUME NEW s \in senders', IsPending(s.message.id)'
          PROVE  SenderInv(s)'
      BY <1>1, <2>1, <2>3, <2>4, <2>5, <3>1, <3>4, <3>5 DEF SenderInv
    <3> QED
      BY <1>1, <2>1, <2>5, <3>1, <3>3, <3>5 DEF InStep, RemoteInv
  <2> QED
    BY <1>1, <2>7, <2>8, <2>9, <2>10 DEF SyncInv
<1> QED
  BY <1>2, <1>5, <1>6

\* A sender learns how its write ended.
LEMMA FinishStep ==
    ASSUME SyncInv, NEW s \in senders, FinishDocumentChange(s)
    PROVE  SyncInv'
<1> DEFINE m == s.message
<1>1. /\ SyncTypes /\ NumberInv /\ NoStrandedSync
      /\ s \in Senders /\ m \in Messages /\ s.write \in {"nil", "error"}
      /\ senders' = senders \ {s}
      /\ UNCHANGED <<serving, link, changes, outbox, remote, editor, edits, overtaken>>
  BY DEF SyncInv, SyncTypes, FinishDocumentChange, Senders
<1>2. ASSUME InStep
      PROVE  \A other \in outbox : other.kind = "didClose" \/
                 [message |-> other, write |-> "waiting"] \in senders \ {s}
  <2>1. \A other : s # [message |-> other, write |-> "waiting"]
    BY <1>1
  <2> QED
    BY <1>2, <2>1 DEF InStep, OnlyMessage, Sends
<1>3. CASE ~IsPending(m.id)
  <2>1. UNCHANGED <<doc, pendingChange, waitedFor, debounce>>
    BY <1>3 DEF FinishDocumentChange
  <2>2. \A id : IsPending(id)' <=> IsPending(id)
    BY <2>1 DEF IsPending
  <2>3. SyncTypes' /\ NumberInv'
    BY <1>1, <2>1 DEF SyncTypes, NumberInv
  <2>4. NoStrandedSync'
    <3>1. ASSUME NEW id \in waitedFor, NEW d \in senders, d.message.id = id
          PROVE  d # s
      BY <1>1, <1>3, <3>1 DEF NoStrandedSync
    <3> QED
      BY <1>1, <2>1, <2>2, <3>1 DEF NoStrandedSync
  <2>5. ASSUME InStep
        PROVE  InStep'
    <3>1. \A other \in outbox : OnlyMessage(other)'
      BY <1>1, <1>2, <2>1, <2>2, <2>5 DEF InStep, OnlyMessage, Sends
    <3>2. \A d \in senders' : IsPending(d.message.id) => SenderInv(d)'
      BY <1>1, <2>1, <2>2, <2>5 DEF InStep, SenderInv
    <3>3. RemoteInv'
      BY <1>1, <1>3, <2>1, <2>2, <2>5 DEF InStep, RemoteInv
    <3> QED
      BY <1>1, <2>1, <2>2, <2>5, <3>1, <3>2, <3>3 DEF InStep
  <2> QED
    BY <1>1, <2>3, <2>4, <2>5 DEF SyncInv
<1>4. ASSUME IsPending(m.id)
      PROVE  /\ pendingChange # NoPending /\ pendingChange.id = m.id
             /\ pendingChange \in PendingChanges
             /\ waitedFor \subseteq {m.id}
  BY <1>1, <1>4 DEF SyncTypes, IsPending, NoStrandedSync
<1>5. ASSUME IsPending(m.id), InStep
      PROVE  /\ outbox = {} /\ SenderInv(s)
             /\ \A d \in senders' : d.message.id # m.id
             /\ s.write = "error" /\ doc.version > 0 => remote = doc
  <2>1. SenderInv(s)
    BY <1>5 DEF InStep
  <2>2. \A d \in senders' : d.message.id # m.id
    BY <1>1, <1>5, <2>1 DEF SenderInv
  <2>3. ASSUME NEW other \in outbox PROVE FALSE
    <3>1. OnlyMessage(other)
      BY <1>5 DEF InStep
    <3>2. CASE other.kind = "didClose"
      BY <1>4, <1>5, <3>1, <3>2 DEF OnlyMessage
    <3>3. CASE other.kind # "didClose"
      <4>1. Sends([message |-> other, write |-> "waiting"])
        BY <3>1, <3>3 DEF OnlyMessage
      <4>2. [message |-> other, write |-> "waiting"] = s
        BY <2>1, <4>1 DEF Sends, SenderInv
      <4> QED
        BY <1>1, <4>2
    <3> QED
      BY <3>2, <3>3
  <2>4. s.write = "error" /\ doc.version > 0 => remote = doc
    BY <1>5, <2>1 DEF InStep, RemoteInv, SenderInv
  <2> QED
    BY <2>1, <2>2, <2>3, <2>4
<1>6. ASSUME IsPending(m.id), CompleteChange, debounce' = debounce,
             doc' \in [version : Nat, text : BufferTexts],
             InStep => (doc'.version > 0 => remote = doc')
      PROVE  SyncInv'
  <2>1. pendingChange' = NoPending /\ waitedFor' = {} /\ \A id : ~IsPending(id)'
    BY <1>4, <1>6 DEF CompleteChange, IsPending
  <2>2. SyncTypes' /\ NumberInv' /\ NoStrandedSync'
    BY <1>1, <1>6, <2>1 DEF SyncTypes, NumberInv, NoStrandedSync
  <2>3. InStep => InStep'
    BY <1>1, <1>5, <1>6, <2>1 DEF InStep, RemoteInv
  <2> QED
    BY <1>1, <2>2, <2>3 DEF SyncInv
<1>7. CASE IsPending(m.id) /\ s.write = "error"
  <2>1. CompleteChange /\ debounce' = debounce /\ doc' = doc
    BY <1>7 DEF FinishDocumentChange
  <2>2. doc \in [version : Nat, text : BufferTexts]
    BY <1>1 DEF SyncTypes
  <2> QED
    BY <1>5, <1>6, <1>7, <2>1, <2>2
<1>8. CASE IsPending(m.id) /\ s.write = "nil"
  <2>1. doc' = [version |-> m.version, text |-> m.text]
    BY <1>8 DEF FinishDocumentChange
  <2>2. doc' \in [version : Nat, text : BufferTexts] /\ doc'.version = m.version
    BY <1>1, <2>1 DEF Messages
  <2>3. InStep => remote = doc' /\ m.version > 0
    BY <1>5, <1>8, <2>1 DEF SenderInv
  <2>4. CASE CompleteChange /\ debounce' = debounce
    BY <1>6, <1>8, <2>2, <2>3, <2>4
  <2>5. CASE ~(CompleteChange /\ debounce' = debounce)
    <3> DEFINE edit == [pendingChange EXCEPT !.opening = FALSE, !.flushing = FALSE]
               timer == Timer(m.id, pendingChange.generation)
    <3>1. /\ pendingChange' = edit /\ waitedFor' = waitedFor
          /\ debounce' = debounce \cup {timer}
      BY <1>8, <2>5 DEF FinishDocumentChange
    <3>2. timer \in [id : Nat, generation : Nat]
      BY <1>1, <1>4, <1>8 DEF Timer, Messages, PendingChanges
    <3>3. /\ edit \in PendingChanges /\ edit.id = m.id /\ ~edit.opening
          /\ ~edit.flushing /\ edit.generation = pendingChange.generation
          /\ edit # NoPending
      <4>1. /\ edit \in PendingChanges /\ edit.id = m.id /\ ~edit.opening
            /\ ~edit.flushing /\ edit.generation = pendingChange.generation
        BY <1>4, <1>8 DEF PendingChanges
      <4> QED
        BY <4>1, SyncAssumption DEF PendingChanges, BufferTexts
    <3> HIDE DEF edit
    <3>4. \A id : IsPending(id)' <=> id = m.id
      BY <3>1, <3>3 DEF IsPending
    <3>5. NoStrandedSync'
      BY <1>4, <1>8, <3>1, <3>3, <3>4 DEF NoStrandedSync
    <3> HIDE DEF timer
    <3>6. SyncTypes'
      BY <1>1, <2>2, <3>1, <3>2, <3>3 DEF SyncTypes
    <3>7. NumberInv'
      BY <1>1, <1>4, <1>8, <3>1, <3>3 DEF NumberInv
    <3>8. InStep => InStep'
      BY <1>1, <1>5, <1>8, <2>2, <2>3, <3>1, <3>4 DEF InStep, RemoteInv
    <3> QED
      BY <1>1, <3>5, <3>6, <3>7, <3>8 DEF SyncInv
  <2> QED
    BY <2>4, <2>5
<1> QED
  BY <1>1, <1>3, <1>7, <1>8

\* Every step keeps the invariant.
LEMMA SyncInvariance == SyncSpec => []SyncInv
<1>1. SyncInit => SyncInv
  <2> SUFFICES ASSUME SyncInit PROVE SyncInv
    OBVIOUS
  <2>1. /\ NoDocument \in [version : Nat, text : BufferTexts] /\ NoDocument.version = 0
        /\ IdleEditor \in [at : {"idle", "sync", "close", "waiting"}, text : BufferTexts,
                           number : Nat]
    BY DEF NoDocument, IdleEditor, BufferTexts
  <2>2. link \in [number : Nat, connected : BOOLEAN, closing : BOOLEAN,
                  kind : {"full", "incremental"}]
    BY DEF SyncInit, NewLink
  <2>3. SyncTypes
    BY <2>1, <2>2 DEF SyncInit, SyncTypes
  <2> QED
    BY <2>1, <2>3 DEF SyncInit, SyncInv, NumberInv, NoStrandedSync, InStep, RemoteInv
<1>2. ASSUME SyncInv, [SyncNext]_syncVars
      PROVE  SyncInv'
  <2>1. CASE UNCHANGED syncVars
    <3>1. /\ serving' = serving /\ link' = link /\ doc' = doc /\ pendingChange' = pendingChange
          /\ changes' = changes /\ waitedFor' = waitedFor /\ debounce' = debounce
          /\ senders' = senders /\ outbox' = outbox /\ remote' = remote
          /\ editor' = editor /\ edits' = edits /\ overtaken' = overtaken
      BY <2>1 DEF syncVars
    <3>2. SyncTypes
      BY <1>2 DEF SyncInv
    <3>3. SyncTypes'
      BY <3>1, <3>2 DEF SyncTypes
    <3>4. documentState' = documentState /\ wireState' = wireState
      BY <3>1 DEF documentState, wireState
    <3> QED
      BY <1>2, <3>1, <3>3, <3>4, SyncRests
  <2>2. CASE SyncNext
    BY <1>2, <2>2, RestingSteps, JoinStep, OpenStep, NewChangeStep, CloseDocumentStep, ClosingStep,
       StartStep, WriteStep, TimeoutStep, FlushStep, FinishStep DEF SyncNext
  <2> QED
    BY <1>2, <2>1, <2>2
<1> QED
  BY <1>1, <1>2, PTL DEF SyncSpec

-----------------------------------------------------------------------------
(* The language server: types.                                             *)

\* What SyncTypeOK says beyond SyncTypes.
SyncBounds ==
    /\ serving <= MaxServers /\ link.number \in 1 .. MaxServers
    /\ stopping \in {"no", "detached", "closing"}
    /\ remote \in Documents
    /\ edits <= MaxEdits
    /\ pendingChange # NoPending => pendingChange.text \in Texts /\ pendingChange.generation # 0
    /\ \A e \in Editors : editor[e].at = "sync" => editor[e].text \in Texts

\* Calls keep the bounds: what is edited is a text.
LEMMA CallBounds ==
    ASSUME SyncTypes, SyncBounds, NEW e \in Editors,
           \/ \E text \in Texts : FindServer(e, "sync", text)
           \/ FindServer(e, "close", NoText) \/ ServerIsGone(e) \/ JoinChange(e) \/ OpenDocument(e)
           \/ AlreadySynced(e) \/ NewDocumentChange(e) \/ WaitDocumentChange(e) \/ CloseDocument(e)
    PROVE  SyncBounds'
<1>1. \A x : [editor EXCEPT ![e] = x] = [d \in Editors |-> IF d = e THEN x ELSE editor[d]]
  BY DEF SyncTypes
<1>2. IdleEditor.at = "idle" /\ [IdleEditor EXCEPT !.at = "waiting"].at = "waiting"
  BY DEF IdleEditor
<1>3. UNCHANGED <<serving, link, stopping, remote>> /\ edits' <= MaxEdits
  <2>1. edits \in Nat /\ edits <= MaxEdits BY DEF SyncTypes, SyncBounds
  <2> QED
    BY <2>1, SyncAssumption DEF FindServer, ServerIsGone, JoinChange, OpenDocument, AlreadySynced,
       NewDocumentChange, WaitDocumentChange, CloseDocument, wireState, Notify
<1>4. \A d \in Editors : editor'[d].at = "sync" => editor'[d].text \in Texts
  <2>1. \E x : editor' = [editor EXCEPT ![e] = x] /\ (x.at = "sync" => x.text \in Texts)
    <3>1. ASSUME NEW text \in Texts, FindServer(e, "sync", text)
          PROVE  \E x : editor' = [editor EXCEPT ![e] = x] /\ (x.at = "sync" => x.text \in Texts)
      <4> DEFINE x == [at |-> "sync", text |-> text, number |-> serving]
      <4>1. editor' = [editor EXCEPT ![e] = x] /\ x.text \in Texts BY <3>1 DEF FindServer
      <4> QED BY <4>1
    <3>2. CASE FindServer(e, "close", NoText)
      <4> DEFINE x == [at |-> "close", text |-> NoText, number |-> serving]
      <4>1. editor' = [editor EXCEPT ![e] = x] /\ x.at # "sync" BY <3>2 DEF FindServer
      <4> QED BY <4>1
    <3>3. CASE ServerIsGone(e) \/ AlreadySynced(e) \/ WaitDocumentChange(e) \/ CloseDocument(e)
      BY <1>2, <3>3 DEF ServerIsGone, AlreadySynced, WaitDocumentChange, CloseDocument, EditorReturns
    <3>4. CASE JoinChange(e) \/ OpenDocument(e) \/ NewDocumentChange(e)
      BY <1>2, <3>4 DEF JoinChange, OpenDocument, NewDocumentChange, EditorWaits
    <3> QED BY <3>1, <3>2, <3>3, <3>4
  <2> QED BY <1>1, <2>1 DEF SyncBounds
<1>5. pendingChange' # NoPending => pendingChange'.text \in Texts /\ pendingChange'.generation # 0
  <2>1. CASE JoinChange(e)
    <3>1. editor[e].text \in Texts /\ pendingChange # NoPending /\ pendingChange \in PendingChanges
          /\ pendingChange.text \in Texts /\ pendingChange.generation \in Nat \ {0}
      BY <2>1 DEF JoinChange, EditorCalls, SyncBounds, SyncTypes, PendingChanges
    <3>2. CASE pendingChange.text = editor[e].text BY <2>1, <3>1, <3>2 DEF JoinChange
    <3>3. CASE pendingChange.text # editor[e].text
      <4>1. pendingChange' = [pendingChange EXCEPT !.text = editor[e].text, !.generation = @ + 1]
        BY <2>1, <3>3 DEF JoinChange
      <4>2. pendingChange'.text = editor[e].text
            /\ pendingChange'.generation = pendingChange.generation + 1
        BY <3>1, <4>1 DEF PendingChanges
      <4> QED BY <3>1, <4>2
    <3> QED BY <3>2, <3>3
  <2>2. CASE OpenDocument(e) \/ NewDocumentChange(e)
    BY <2>2 DEF OpenDocument, NewDocumentChange, EditorCalls, SyncBounds
  <2>3. CASE CloseDocument(e) BY <2>3 DEF CloseDocument
  <2>4. CASE pendingChange' = pendingChange BY <2>4 DEF SyncBounds
  <2> QED
    BY <2>1, <2>2, <2>3, <2>4 DEF FindServer, ServerIsGone, AlreadySynced, WaitDocumentChange,
       documentState
<1> QED BY <1>3, <1>4, <1>5 DEF SyncBounds

\* Messages, timers and servers keep the bounds.
LEMMA ServerBounds ==
    ASSUME SyncTypes, SyncBounds,
           \/ \E message \in outbox : WriteNotification(message) \/ NotifyFails(message)
           \/ \E s \in senders : NotifyTimeout(s) \/ FinishDocumentChange(s)
           \/ \E t \in debounce : FlushDocumentChange(t)
           \/ DetachServer \/ BeginClosing \/ StopLSPProcess \/ ServerExits \/ ObserveLSPProcess
           \/ StartLSPServer
    PROVE  SyncBounds'
<1>1. pendingChange # NoPending => pendingChange \in PendingChanges /\ pendingChange.text \in Texts
                                    /\ pendingChange.generation \in Nat \ {0}
  BY DEF SyncTypes, SyncBounds, PendingChanges
<1>2. link \in [number : Nat, connected : BOOLEAN, closing : BOOLEAN, kind : {"full", "incremental"}]
      /\ link.number \in 1 .. MaxServers /\ NoDocument \in Documents
  BY DEF SyncTypes, SyncBounds, NoDocument, Documents
<1>3. CASE \E message \in outbox : WriteNotification(message) \/ NotifyFails(message)
  <2>1. PICK message \in outbox : WriteNotification(message) \/ NotifyFails(message) BY <1>3
  <2>2. message \in Messages BY DEF SyncTypes
  <2>3. Received(message) \in Documents
    BY <1>2, <2>2 DEF Received, Messages, BufferTexts, Documents
  <2> QED
    BY <2>1, <2>3 DEF WriteNotification, NotifyFails, SyncBounds, documentState
<1>4. CASE \E s \in senders : NotifyTimeout(s)
  BY <1>4 DEF NotifyTimeout, SyncBounds, documentState
<1>5. CASE \E s \in senders : FinishDocumentChange(s)
  <2>1. PICK s \in senders : FinishDocumentChange(s) BY <1>5
  <2>2. /\ UNCHANGED <<serving, stopping, link, remote, editor, edits>>
        /\ \/ pendingChange' = pendingChange \/ pendingChange' = NoPending
           \/ /\ pendingChange # NoPending
              /\ pendingChange' = [pendingChange EXCEPT !.opening = FALSE, !.flushing = FALSE]
    BY <2>1 DEF FinishDocumentChange, CompleteChange, IsPending
  <2> QED BY <1>1, <2>2 DEF SyncBounds, PendingChanges
<1>6. CASE \E t \in debounce : FlushDocumentChange(t)
  <2>1. PICK t \in debounce : FlushDocumentChange(t) BY <1>6
  <2>2. /\ UNCHANGED <<serving, stopping, link, remote, editor, edits>>
        /\ \/ pendingChange' = pendingChange \/ pendingChange' = NoPending
           \/ /\ pendingChange # NoPending
              /\ pendingChange' = [pendingChange EXCEPT !.flushing = TRUE]
    BY <2>1 DEF FlushDocumentChange, CompleteChange, IsPending, wireState, Notify
  <2> QED BY <1>1, <2>2 DEF SyncBounds, PendingChanges
<1>7. CASE DetachServer \/ BeginClosing \/ StopLSPProcess \/ ServerExits \/ ObserveLSPProcess
  <2>1. link'.number = link.number /\ serving' <= MaxServers /\ stopping' \in {"no", "detached", "closing"}
        /\ UNCHANGED <<remote, editor, edits>>
        /\ (pendingChange' = pendingChange \/ pendingChange' = NoPending)
    BY <1>2, <1>7, SyncAssumption DEF DetachServer, BeginClosing, StopLSPProcess, ServerExits,
       ObserveLSPProcess, wireState, documentState, SyncBounds
  <2> QED BY <2>1 DEF SyncBounds
<1>8. CASE StartLSPServer
  <2>1. link.number < MaxServers /\ serving' = link.number + 1 /\ link'.number = link.number + 1
        /\ remote' \in Documents /\ pendingChange' = NoPending /\ UNCHANGED <<stopping, editor, edits>>
    BY <1>2, <1>8 DEF StartLSPServer, NewLink
  <2> QED BY <1>2, <2>1, SyncAssumption DEF SyncBounds
<1> QED BY <1>3, <1>4, <1>5, <1>6, <1>7, <1>8

\* The types of SyncTypeOK, for any number of calls and server processes.
THEOREM SyncTypeCorrect == SyncSpec => []SyncTypeOK
<1>1. SyncInit => SyncBounds
  BY SyncAssumption DEF SyncInit, SyncBounds, NewLink, NoDocument, Documents, IdleEditor
<1>2. SyncTypes /\ SyncBounds /\ [SyncNext]_syncVars => SyncBounds'
  <2>1. SyncTypes /\ SyncBounds /\ SyncNext => SyncBounds'
    BY CallBounds, ServerBounds DEF SyncNext
  <2>2. SyncBounds /\ UNCHANGED syncVars => SyncBounds' BY DEF syncVars, SyncBounds
  <2> QED BY <2>1, <2>2
<1>3. SyncInv => SyncTypes BY DEF SyncInv
<1>4. SyncInv /\ SyncBounds => SyncTypeOK
  <2> SUFFICES ASSUME SyncInv, SyncBounds PROVE SyncTypeOK OBVIOUS
  <2>1. /\ SyncTypes /\ NumberInv /\ NoStrandedSync BY DEF SyncInv
  <2>2. serving \in 0 .. MaxServers /\ edits \in 0 .. MaxEdits
    BY <2>1, SyncAssumption DEF SyncTypes, SyncBounds
  <2>3. link \in [number : 1 .. MaxServers, connected : BOOLEAN, closing : BOOLEAN,
                 kind : {"full", "incremental"}]
    BY <2>1 DEF SyncTypes, SyncBounds
  <2>4. doc \in Documents BY <2>1 DEF SyncTypes, Documents, BufferTexts
  <2>5. pendingChange = NoPending \/ pendingChange \in
            [id : 1 .. changes, text : Texts, generation : Nat \ {0},
             opening : BOOLEAN, flushing : BOOLEAN]
    BY <2>1 DEF SyncTypes, SyncBounds, NumberInv, PendingChanges
  <2>6. waitedFor \subseteq 1 .. changes
    BY <2>1 DEF NoStrandedSync, NumberInv, IsPending
  <2>7. \A s \in senders : s.write \in {"waiting", "nil", "error"}
    BY <2>1 DEF SyncTypes, Senders
  <2> QED
    BY <2>1, <2>2, <2>3, <2>4, <2>5, <2>6, <2>7 DEF SyncTypeOK, SyncBounds, SyncTypes
<1> QED BY <1>1, <1>2, <1>3, <1>4, SyncInvariance, PTL DEF SyncSpec

-----------------------------------------------------------------------------
(* The language server: the properties.                                    *)

\* However many calls edit however many texts: no waiter of a sync is left alone
\* (flushDocumentChange, sendDocumentOpen, finishDocumentChange).
THEOREM NoSyncIsStranded == SyncSpec => []NoStrandedSync
<1>1. SyncInv => NoStrandedSync
  BY DEF SyncInv
<1> QED
  BY <1>1, SyncInvariance, PTL

\* However many calls, debounces and failed writes there are: between messages the
\* server has the text and the version the client believes it has, unless a
\* message was overtaken (lsp_service_sync.go).
THEOREM TheServerHasTheText == SyncSpec => []ServerHasTheText
<1>1. SyncInv => ServerHasTheText
  BY DEF SyncInv, InStep, RemoteInv, ServerHasTheText
<1> QED
  BY <1>1, SyncInvariance, PTL

-----------------------------------------------------------------------------
(* The services together.                                                  *)

\* Whatever is stopped, cancelled or closed, and in whatever order: what holds of
\* each service alone holds of all of them together, since a step is one of the
\* service in focus and leaves the variables of the others as they are.
LEMMA StepsAreTheirOwn ==
    ASSUME [ServicesNext /\ OthersRest]_servicesVars
    PROVE  /\ [LifecycleNext]_lifecycleVars
           /\ [TaskNext]_taskVars
           /\ [StreamsNext]_streamVars
           /\ [ClientNext]_clientVars
           /\ [ExtensionNext]_extensionVars
           /\ [RebaseNext]_rebaseVars
           /\ [SyncNext]_syncVars
<1>1. CASE ServicesNext /\ OthersRest BY <1>1 DEF ServicesNext, OthersRest, Rest
<1>2. CASE UNCHANGED servicesVars BY <1>2 DEF servicesVars
<1> QED BY <1>1, <1>2

\* A behaviour of all services is one of each.
LEMMA EveryServiceRuns ==
    ServicesSpec => /\ LifecycleSpec /\ TaskSpec /\ StreamsSpec /\ ClientSpec
                    /\ ExtensionSpec /\ RebaseSpec /\ SyncSpec
<1>1. ServicesInit => /\ LifecycleInit /\ TaskInit /\ StreamsInit /\ ClientInit
                      /\ ExtensionInit /\ RebaseInit /\ SyncInit
  BY DEF ServicesInit
<1>2. [ServicesNext /\ OthersRest]_servicesVars =>
           /\ [LifecycleNext]_lifecycleVars
           /\ [TaskNext]_taskVars
           /\ [StreamsNext]_streamVars
           /\ [ClientNext]_clientVars
           /\ [ExtensionNext]_extensionVars
           /\ [RebaseNext]_rebaseVars
           /\ [SyncNext]_syncVars
  BY StepsAreTheirOwn
<1> QED
  BY <1>1, <1>2, PTL DEF ServicesSpec, LifecycleSpec, TaskSpec, StreamsSpec, ClientSpec,
     ExtensionSpec, RebaseSpec, SyncSpec

\* The types of every service.
THEOREM ServicesTypeCorrect == ServicesSpec => []ServicesTypeOK
<1>1. /\ LifecycleTypeOK /\ TaskTypeOK /\ StreamsTypeOK /\ ClientTypeOK
      /\ ExtensionTypeOK /\ RebaseTypeOK /\ SyncTypeOK
      => ServicesTypeOK
  BY DEF ServicesTypeOK
<1> QED
  BY <1>1, EveryServiceRuns, TypeCorrect, TaskTypeCorrect, StreamsTypeCorrect,
     ClientTypeCorrect, ExtensionTypeCorrect, RebaseTypeCorrect, SyncTypeCorrect, PTL

\* A shutdown that reports success is complete, of tasks and of streams
\* (task_service.go Shutdown, ai_service.go stopAllAgentStreams).
THEOREM NothingSurvivesAShutdown == ServicesSpec => []ShutdownsAreComplete
<1>1. ShutdownIsComplete /\ ShutdownDrains => ShutdownsAreComplete
  BY DEF ShutdownsAreComplete
<1> QED BY <1>1, EveryServiceRuns, ShutdownsComplete, ShutdownsDrain, PTL

\* No caller waits for an answer that nothing will give, neither of an MCP server
\* (mcp_client.go) nor of a language server (lsp_service_sync.go).
THEOREM EveryWaiterHasAnAnswer == ServicesSpec => []NoWaiterIsLost
<1>1. NoLostWaiter /\ NoStrandedSync => NoWaiterIsLost
  BY DEF NoWaiterIsLost
<1> QED BY <1>1, EveryServiceRuns, WaitersAreServed, NoSyncIsStranded, PTL
=============================================================================
