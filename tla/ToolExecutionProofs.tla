------------------------ MODULE ToolExecutionProofs ------------------------
(***************************************************************************)
(* Theorems about ToolExecution, for any number of executions of any kind  *)
(* and any number of pauses.                                               *)
(*                                                                         *)
(* The argument: executions touch only their own unit, so the invariant is *)
(* one statement per unit (UnitInv), by what its metering call is for.  A  *)
(* step of one unit frames the others (Frame); the lifecycle and the crash *)
(* only take authority away (LessLive).                                    *)
(***************************************************************************)
EXTENDS ToolExecution, TLAPS

-----------------------------------------------------------------------------
(* The inductive invariant.                                                *)

InFlight(u) == stage[u] \notin {"ended", "lost"}

\* An execution whose handler has not run is still as it was made.
BeginInv(u) ==
    InFlight(u) /\ purpose[u] = "begin" =>
        /\ stage[u] \in {"idle", "granted", "begin external", "check", "write",
                         "audit start", "handler"}
        /\ record[u] = NewRecord(u)
        /\ effect[u] = "none"
        /\ ledger[u].state \in {"none", "pending"}
        /\ stage[u] \in {"audit start", "handler"} => ledger[u].state # "none"
        /\ stage[u] = "handler" => "started" \in audit[u]

\* One whose start could not be audited has no effect and says so.
NotRunInv(u) ==
    InFlight(u) /\ purpose[u] = "not run" =>
        /\ stage[u] \in {"check", "write", "observe"}
        /\ effect[u] = "none"
        /\ ~record[u].success
        /\ record[u].compensation = IF u \in External THEN "not-needed" ELSE "none"

\* The record that Execute carries agrees with the effect.
RecordIsTrue(u) ==
    /\ IF record[u].success
       THEN /\ effect[u] = "done"
            /\ ~record[u].failed
            /\ ~record[u].attempted
            /\ record[u].compensation \in {"none", "not-needed"}
       ELSE /\ record[u].failed
            /\ u \in External =>
                 /\ record[u].attempted
                 /\ record[u].compensation \in {"succeeded", "failed", "irreversible"}
            /\ record[u].compensation = "succeeded" => effect[u] # "done"
            /\ record[u].compensation \in {"failed", "irreversible"}
                 => effect[u] # "undone"
    /\ u \notin External => record[u].compensation = "none"

\* One whose handler has run is in the ledger and in the audit log, and no
\* failed receipt is written before its compensation is over.
CompleteInv(u) ==
    InFlight(u) /\ purpose[u] \in {"complete", "retry"} =>
        /\ stage[u] \in {"compensate", "check", "write", "observe", "audit result"}
        /\ ledger[u].state # "none"
        /\ "started" \in audit[u]
        /\ record[u].success =>
             purpose[u] = "complete" /\ ledger[u].state # "failed"
        /\ IF stage[u] = "compensate"
           THEN /\ u \in External
                /\ ~record[u].success /\ record[u].failed
                /\ ledger[u].state # "failed"
                /\ effect[u] # "undone"
           ELSE RecordIsTrue(u)
        /\ stage[u] = "observe" => ledger[u] = Row(u)
        /\ stage[u] = "audit result" /\ ~record[u].failed =>
             /\ ledger[u].state = "success"
             /\ ledger[u].compensation \in {"none", "not-needed"}
             /\ LiveGeneration(grant[u]) => u \in observed

\* What the world, the ledger and the caller may find, at any time.
Accounted(u) ==
    effect[u] # "none" => ledger[u].state # "none" /\ "started" \in audit[u]

HonestFailure(u) ==
    CASE ledger[u].compensation = "not-needed" -> effect[u] = "none"
      [] ledger[u].compensation = "succeeded" -> effect[u] # "done"
      [] ledger[u].compensation \in {"irreversible", "failed"} -> effect[u] # "undone"
      [] ledger[u].compensation = "manual-unknown" ->
           reported[u] # "success" /\ stage[u] \in {"ended", "lost"}
      [] OTHER -> u \notin External

Honest(u) ==
    /\ ledger[u].state = "success" => effect[u] # "none"
    /\ ledger[u].state = "failed" => HonestFailure(u)

Whole(u) ==
    reported[u] = "success" =>
        /\ effect[u] = "done"
        /\ ledger[u].state = "success"
        /\ ledger[u].compensation \in {"none", "not-needed"}
        /\ {"started", "completed"} \subseteq audit[u]
        /\ LiveGeneration(grant[u]) => u \in observed

\* A grant of the present generation is active, unless there is no runtime.
GrantInv(u) ==
    /\ grant[u] <= session.generation
    /\ session.registered /\ grant[u] = session.generation => session.active

UnitInv(u) ==
    /\ BeginInv(u)
    /\ NotRunInv(u)
    /\ CompleteInv(u)
    /\ Accounted(u)
    /\ Honest(u)
    /\ Whole(u)
    /\ GrantInv(u)
    /\ reported[u] # "none" => stage[u] = "ended"

SessionInv ==
    /\ session.registered => (session.active <=> session.status = "running")
    /\ incarnation = 2 => ~session.registered /\ \A u \in Units : ~InFlight(u)

Inv == TypeOK /\ SessionInv /\ \A u \in Units : UnitInv(u)

-----------------------------------------------------------------------------
(* Type correctness.                                                       *)

\* The session keeps its type under pause, resume and close.
LEMMA SessionType ==
    ASSUME TypeOK, SessionNext
    PROVE  TypeOK'
<1>1. session \in Sessions /\ session.status \in {"running", "paused", "completed", "recovery"}
  BY DEF TypeOK, Sessions
<1>2. session.generation < MaxGeneration => session.generation + 1 \in 1..MaxGeneration
  BY <1>1, ExecutionAssumption DEF Sessions
<1>3. session' \in Sessions
  <2>1. CASE PauseSession
    <3>1. PICK outcome \in WriteOutcomes :
            session' = [session EXCEPT
               !.status = IF outcome = "not published" THEN session.status ELSE "paused",
               !.active = outcome = "not published",
               !.registered = outcome # "unknown",
               !.generation = session.generation + 1]
      BY <2>1 DEF PauseSession
    <3>2. session.generation + 1 \in 1..MaxGeneration
      BY <1>2, <2>1 DEF PauseSession
    <3> QED
      BY <1>1, <3>1, <3>2 DEF Sessions
  <2>2. CASE ResumeSession
    BY <1>1, <2>2 DEF ResumeSession, Sessions
  <2>3. CASE CloseSession
    <3>1. PICK outcome \in WriteOutcomes :
            session' = [session EXCEPT
               !.status = IF outcome = "not published" THEN session.status ELSE "completed",
               !.registered = outcome = "not published",
               !.generation = session.generation + 1]
      BY <2>3 DEF CloseSession
    <3>2. session.generation + 1 \in 1..MaxGeneration
      BY <1>2, <2>3 DEF CloseSession
    <3> QED
      BY <1>1, <3>1, <3>2 DEF Sessions
  <2> QED
    BY <2>1, <2>2, <2>3 DEF SessionNext
<1>4. /\ disturbed' = TRUE
      /\ UNCHANGED <<incarnation, stage, purpose, record, progress, metering>>
  BY DEF SessionNext, PauseSession, ResumeSession, CloseSession
<1> QED
  BY <1>3, <1>4 DEF TypeOK, progress, metering

\* A record of an execution stays a record, and its row is a receipt.
LEMMA RecordType ==
    ASSUME TypeOK, NEW u \in Units
    PROVE  /\ Failed(record[u]) \in Records
           /\ [Failed(record[u]) EXCEPT !.compensation = NotNeeded(u)] \in Records
           /\ \A status \in Compensations : Compensated(u, status) \in Records
           /\ \A provider \in BOOLEAN :
                [record[u] EXCEPT !.success = TRUE, !.compensation = NotNeeded(u),
                                  !.provider = provider] \in Records
           /\ Row(u) \in Receipts
           /\ LeftToOperator(ledger[u]) \in Receipts
<1>1. record[u] \in Records /\ ledger[u] \in Receipts
  BY DEF TypeOK
<1>2. record[u].compensation \in Compensations /\ record[u].provider \in BOOLEAN
  BY <1>1 DEF Records
<1>3. NotNeeded(u) \in Compensations
  BY <1>2 DEF NotNeeded, Compensations
<1>4. Failed(record[u]) \in Records
  BY <1>1 DEF Failed, Records
<1>5. [Failed(record[u]) EXCEPT !.compensation = NotNeeded(u)] \in Records
  BY <1>3, <1>4 DEF Records
<1>6. \A status \in Compensations : Compensated(u, status) \in Records
  BY <1>1 DEF Compensated, Records
<1>7. ASSUME NEW provider \in BOOLEAN
      PROVE  [record[u] EXCEPT !.success = TRUE, !.compensation = NotNeeded(u),
                               !.provider = provider] \in Records
  BY <1>1, <1>3 DEF Records
<1>8. Row(u) \in Receipts
  BY <1>2 DEF Row, Receipts
<1>9. LeftToOperator(ledger[u]) \in Receipts
  BY <1>1 DEF LeftToOperator, Receipts, Compensations
<1> QED
  BY <1>4, <1>5, <1>6, <1>7, <1>8, <1>9

\* The stage and the answer of an execution keep their types.
LEMMA PlainTypes ==
    ASSUME TypeOK, NEW u \in Units
    PROVE  /\ \A name \in Stages : [stage EXCEPT ![u] = name] \in [Units -> Stages]
           /\ \A answer \in {"none", "success", "error"} :
                [reported EXCEPT ![u] = answer] \in [Units -> {"none", "success", "error"}]
           /\ \A name \in AuditStages :
                [audit EXCEPT ![u] = @ \cup {name}] \in [Units -> SUBSET AuditStages]
           /\ \A row \in Records : [record EXCEPT ![u] = row] \in [Units -> Records]
           /\ \A row \in Receipts : [ledger EXCEPT ![u] = row] \in [Units -> Receipts]
BY DEF TypeOK

\* Refusing and failing keep the types of what they change.
LEMMA FailureType ==
    ASSUME TypeOK, NEW u \in Units,
           (RefuseExecution(u) /\ UNCHANGED <<purpose, record>>) \/ MeterFailed(u)
    PROVE  /\ stage' \in [Units -> Stages]
           /\ purpose' \in [Units -> Purposes]
           /\ record' \in [Units -> Records]
           /\ reported' \in [Units -> {"none", "success", "error"}]
           /\ audit' \in [Units -> SUBSET AuditStages]
<1>1. ASSUME RefuseExecution(u)
      PROVE  /\ stage' \in [Units -> Stages]
             /\ reported' \in [Units -> {"none", "success", "error"}]
             /\ audit' \in [Units -> SUBSET AuditStages]
  <2>1. stage' = [stage EXCEPT ![u] = "ended"] /\ reported' = [reported EXCEPT ![u] = "error"]
    BY <1>1 DEF RefuseExecution
  <2>2. audit' = [audit EXCEPT ![u] = @ \cup {"failed"}] \/ audit' = audit
    BY <1>1 DEF RefuseExecution
  <2>3. audit' \in [Units -> SUBSET AuditStages]
    BY <2>2, PlainTypes DEF AuditStages, TypeOK
  <2>4. stage \in [Units -> Stages] /\ reported \in [Units -> {"none", "success", "error"}]
    BY DEF TypeOK
  <2>5. "ended" \in Stages
    BY DEF Stages
  <2>6. stage' \in [Units -> Stages]
    BY <2>1, <2>4, <2>5
  <2>7. reported' \in [Units -> {"none", "success", "error"}]
    BY <2>1, <2>4
  <2> QED
    BY <2>3, <2>6, <2>7
<1>2. ASSUME CompletionFailed(u)
      PROVE  /\ stage' \in [Units -> Stages]
             /\ purpose' \in [Units -> Purposes]
             /\ record' \in [Units -> Records]
             /\ UNCHANGED <<reported, audit>>
  BY <1>2, PlainTypes, RecordType DEF CompletionFailed, Stages, Purposes, TypeOK
<1>3. CASE RefuseExecution(u) /\ UNCHANGED <<purpose, record>>
  BY <1>1, <1>3 DEF TypeOK
<1>4. CASE purpose[u] = "not run" /\ MeterFailed(u)
  <2>1. /\ stage' = [stage EXCEPT ![u] = "ended"] /\ reported' = [reported EXCEPT ![u] = "error"]
        /\ UNCHANGED <<purpose, record, audit>>
    BY <1>4 DEF MeterFailed, CompletionFailed, RefuseExecution
  <2>2. "ended" \in Stages
    BY DEF Stages
  <2>3. stage' \in [Units -> Stages] /\ reported' \in [Units -> {"none", "success", "error"}]
    BY <2>1, <2>2, PlainTypes
  <2> QED
    BY <2>1, <2>3 DEF TypeOK
<1>5. CASE purpose[u] # "not run" /\ MeterFailed(u)
  BY <1>1, <1>2, <1>5 DEF MeterFailed, TypeOK
<1> QED
  BY <1>3, <1>4, <1>5

\* Every step of an execution keeps the types.
LEMMA ExecuteType ==
    ASSUME TypeOK, NEW u \in Units, RequestCapability(u) \/ Execute(u)
    PROVE  TypeOK'
<1>1. CASE RequestCapability(u)
  <2>1. session.generation \in 0..MaxGeneration
    BY ExecutionAssumption DEF TypeOK, Sessions
  <2>2. grant' \in [Units -> 0..MaxGeneration] /\ stage' \in [Units -> Stages]
    BY <1>1, <2>1 DEF RequestCapability, TypeOK, Stages
  <2> QED
    BY <1>1, <2>2 DEF RequestCapability, TypeOK, metering
<1>2. CASE RedeemCapability(u)
  <2>1. CASE RefuseExecution(u) /\ UNCHANGED <<purpose, record>>
    BY <1>2, <2>1, FailureType DEF RedeemCapability, TypeOK, metering
  <2>2. CASE ~RefuseExecution(u)
    BY <1>2, <2>2, PlainTypes DEF RedeemCapability, TypeOK, metering, Stages
  <2> QED
    BY <1>2, <2>1, <2>2 DEF RedeemCapability
<1>3. CASE BeginExternalMutation(u)
  <2>1. CASE RefuseExecution(u) /\ UNCHANGED <<purpose, record>>
    BY <1>3, <2>1, FailureType DEF BeginExternalMutation, TypeOK, metering
  <2>2. CASE ~RefuseExecution(u)
    <3>1. stage' = [stage EXCEPT ![u] = "check"]
      BY <1>3, <2>2 DEF BeginExternalMutation
    <3>2. stage' \in [Units -> Stages]
      BY <3>1, PlainTypes DEF Stages
    <3> QED
      BY <1>3, <2>2, <3>2 DEF BeginExternalMutation, TypeOK, metering
  <2> QED
    BY <1>3, <2>1, <2>2 DEF BeginExternalMutation
<1>4. CASE CheckSession(u)
  <2>1. CASE MeterFailed(u)
    BY <1>4, <2>1, FailureType DEF CheckSession, TypeOK, metering
  <2>2. CASE ~MeterFailed(u)
    <3>1. stage' = [stage EXCEPT ![u] = "write"]
      BY <1>4, <2>2 DEF CheckSession
    <3>2. stage' \in [Units -> Stages]
      BY <3>1, PlainTypes DEF Stages
    <3> QED
      BY <1>4, <2>2, <3>2 DEF CheckSession, TypeOK, metering
  <2> QED
    BY <2>1, <2>2
<1>5. CASE WriteRow(u)
  <2>1. [ledger EXCEPT ![u] = Row(u)] \in [Units -> Receipts]
    BY RecordType, PlainTypes
  <2>2. CASE MeterFailed(u)
    BY <1>5, <2>1, <2>2, FailureType DEF WriteRow, Written, TypeOK
  <2>3. CASE ~MeterFailed(u)
    <3>1. Written(u) /\ ledger' = [ledger EXCEPT ![u] = Row(u)]
          /\ UNCHANGED <<ledgerPoison, disturbed>>
      BY <1>5, <2>3 DEF WriteRow
    <3>2. stage' \in [Units -> Stages] /\ UNCHANGED <<purpose, record, reported, audit>>
      BY <3>1, PlainTypes DEF Written, Stages
    <3> QED
      BY <1>5, <2>1, <3>1, <3>2 DEF WriteRow, TypeOK
  <2> QED
    BY <2>2, <2>3
<1>6. CASE Observe(u)
  <2>1. CASE Metered(u)
    <3>1. UNCHANGED <<purpose, record, audit>>
      BY <2>1 DEF Metered
    <3>2. \/ /\ stage' = [stage EXCEPT ![u] = "ended"]
             /\ reported' = [reported EXCEPT ![u] = "error"]
          \/ /\ stage' = [stage EXCEPT ![u] = "audit result"]
             /\ reported' = reported
      BY <2>1 DEF Metered
    <3>3. stage' \in [Units -> Stages]
      <4>1. PICK name \in Stages : stage' = [stage EXCEPT ![u] = name]
        BY <3>2 DEF Stages
      <4> QED
        BY <4>1, PlainTypes
    <3>4. reported' \in [Units -> {"none", "success", "error"}]
      BY <3>2, PlainTypes DEF TypeOK
    <3> QED
      BY <1>6, <3>1, <3>3, <3>4 DEF Observe, TypeOK, Sessions
  <2>2. CASE MeterFailed(u)
    BY <1>6, <2>2, FailureType DEF Observe, TypeOK, Sessions
  <2> QED
    BY <1>6, <2>1, <2>2 DEF Observe
<1>7. CASE AuditStart(u)
  <2>1. stage' \in [Units -> Stages]
    <3>1. PICK name \in Stages : stage' = [stage EXCEPT ![u] = name]
      BY <1>7 DEF AuditStart, Stages
    <3> QED
      BY <3>1, PlainTypes
  <2>2. audit' \in [Units -> SUBSET AuditStages]
    <3>1. PICK name \in AuditStages :
            audit' = [audit EXCEPT ![u] = @ \cup {name}] \/ audit' = audit
      BY <1>7 DEF AuditStart, AuditStages
    <3> QED
      BY <3>1, PlainTypes DEF TypeOK
  <2>3. purpose' \in [Units -> Purposes] /\ disturbed' \in BOOLEAN
    BY <1>7 DEF AuditStart, Purposes, TypeOK
  <2>4. record' \in [Units -> Records]
    <3>1. \/ record' = record
          \/ record' = [record EXCEPT ![u] =
               [Failed(record[u]) EXCEPT !.compensation = NotNeeded(u)]]
      BY <1>7 DEF AuditStart
    <3>2. [Failed(record[u]) EXCEPT !.compensation = NotNeeded(u)] \in Records
      BY RecordType
    <3> QED
      BY <3>1, <3>2, PlainTypes DEF TypeOK
  <2> QED
    BY <1>7, <2>1, <2>2, <2>3, <2>4 DEF AuditStart, TypeOK, metering
<1>8. CASE RunHandler(u)
  <2>1. (u \in ProviderUnits) \in BOOLEAN
    OBVIOUS
  <2>2. CASE HandlerSucceeds(u)
    BY <1>8, <2>1, <2>2, RecordType, PlainTypes
    DEF RunHandler, HandlerSucceeds, TypeOK, metering, Stages, Purposes
  <2>3. CASE HandlerFails(u)
    BY <1>8, <2>3, RecordType, PlainTypes
    DEF RunHandler, HandlerFails, TypeOK, metering, Stages, Purposes
  <2> QED
    BY <1>8, <2>2, <2>3 DEF RunHandler
<1>9. CASE Compensate(u)
  <2>1. stage' \in [Units -> Stages]
    BY <1>9, PlainTypes DEF Compensate, Stages
  <2>2. effect' \in [Units -> {"none", "done", "undone"}]
    BY <1>9 DEF Compensate, TypeOK
  <2>3. PICK status \in Compensations :
          record' = [record EXCEPT ![u] = Compensated(u, status)]
    BY <1>9 DEF Compensate, Compensations
  <2>4. record' \in [Units -> Records]
    BY <2>3, RecordType, PlainTypes
  <2> QED
    BY <1>9, <2>1, <2>2, <2>4 DEF Compensate, TypeOK, metering
<1>10. CASE AuditResult(u)
  <2>1. stage' \in [Units -> Stages]
    BY <1>10, PlainTypes DEF AuditResult, Stages
  <2>2. PICK result \in AuditStages :
          audit' = [audit EXCEPT ![u] = @ \cup {result}] \/ audit' = audit
    BY <1>10 DEF AuditResult, AuditStages
  <2>3. audit' \in [Units -> SUBSET AuditStages]
    BY <2>2, PlainTypes DEF TypeOK
  <2>4. PICK answer \in {"none", "success", "error"} :
          reported' = [reported EXCEPT ![u] = answer]
    BY <1>10 DEF AuditResult
  <2>5. reported' \in [Units -> {"none", "success", "error"}] /\ disturbed' \in BOOLEAN
    BY <1>10, <2>4, PlainTypes DEF AuditResult, TypeOK
  <2> QED
    BY <1>10, <2>1, <2>3, <2>5 DEF AuditResult, TypeOK, metering
<1> QED
  BY <1>1, <1>2, <1>3, <1>4, <1>5, <1>6, <1>7, <1>8, <1>9, <1>10 DEF Execute

\* Every step keeps the types.
LEMMA TypeStep ==
    ASSUME TypeOK, [Next]_vars
    PROVE  TypeOK'
<1>1. CASE SessionNext
  BY <1>1, SessionType
<1>2. CASE Crash
  <2>1. session' \in Sessions
    BY <1>2 DEF Crash, TypeOK, Sessions
  <2>2. stage' \in [Units -> Stages]
    BY <1>2 DEF Crash, Stages
  <2> QED
    BY <1>2, <2>1, <2>2 DEF Crash, TypeOK, progress
<1>3. ASSUME NEW u \in Units, RequestCapability(u) \/ Execute(u)
      PROVE  TypeOK'
  BY <1>3, ExecuteType
<1>4. ASSUME NEW u \in Units, ManualUnknown(u)
      PROVE  TypeOK'
  <2>1. [ledger EXCEPT ![u] = LeftToOperator(ledger[u])] \in [Units -> Receipts]
    BY RecordType, PlainTypes
  <2> QED
    BY <1>4, <2>1 DEF ManualUnknown, TypeOK, progress
<1>5. CASE UNCHANGED vars
  BY <1>5 DEF vars, TypeOK
<1> QED
  BY <1>1, <1>2, <1>3, <1>4, <1>5 DEF Next

-----------------------------------------------------------------------------
(* What other steps leave alone.                                           *)

\* Everything of unit v but the session and the observations stays.
Untouched(v) ==
    /\ stage'[v] = stage[v] /\ purpose'[v] = purpose[v] /\ grant'[v] = grant[v]
    /\ record'[v] = record[v] /\ effect'[v] = effect[v] /\ ledger'[v] = ledger[v]
    /\ audit'[v] = audit[v] /\ reported'[v] = reported[v]

\* A grant never comes to life again.
LessLive(v) == LiveGeneration(grant[v])' => LiveGeneration(grant[v])

\* A unit that a step leaves alone keeps its invariant.
LEMMA Frame ==
    ASSUME NEW v \in Units, UnitInv(v), Untouched(v), GrantInv(v)', LessLive(v),
           v \in observed => v \in observed'
    PROVE  UnitInv(v)'
<1>1. BeginInv(v)' /\ NotRunInv(v)' /\ Accounted(v)'
  BY DEF UnitInv, Untouched, BeginInv, NotRunInv, Accounted, InFlight
<1>2. CompleteInv(v)'
  BY DEF UnitInv, Untouched, CompleteInv, RecordIsTrue, InFlight, LessLive, Row
<1>3. Honest(v)' /\ (reported[v] # "none" => stage[v] = "ended")'
  BY DEF UnitInv, Untouched, Honest, HonestFailure
<1>4. Whole(v)'
  BY DEF UnitInv, Untouched, Whole, LessLive
<1> QED
  BY <1>1, <1>2, <1>3, <1>4 DEF UnitInv

\* Losing the registration, or nothing, happens to the session of a step.
Unregistered ==
    /\ session'.status = session.status
    /\ session'.active = session.active
    /\ session'.generation = session.generation
    /\ session'.registered => session.registered

\* A step that can only unregister the session revives no grant.
LEMMA UnregisteredFrame ==
    ASSUME NEW v \in Units, GrantInv(v), grant'[v] = grant[v], Unregistered
    PROVE  GrantInv(v)' /\ LessLive(v)
BY DEF GrantInv, Unregistered, LessLive, LiveGeneration

\* Neither does a pause, a resume or a close.
LEMMA SessionFrame ==
    ASSUME TypeOK, SessionInv, SessionNext
    PROVE  /\ SessionInv'
           /\ \A v \in Units : GrantInv(v) => GrantInv(v)' /\ LessLive(v)
<1>1. /\ session \in Sessions /\ session.generation \in Nat
      /\ \A v \in Units : grant[v] \in Nat
      /\ session.registered
      /\ UNCHANGED <<incarnation, stage, grant>>
  <2>1. session \in Sessions /\ session.generation \in 1..MaxGeneration
        /\ \A v \in Units : grant[v] \in 0..MaxGeneration
    BY DEF TypeOK, Sessions
  <2>2. session.registered /\ UNCHANGED <<incarnation, stage, grant>>
    BY DEF SessionNext, PauseSession, ResumeSession, CloseSession, progress
  <2> QED
    BY <2>1, <2>2, ExecutionAssumption
<1>2. CASE PauseSession
  <2>1. PICK outcome \in WriteOutcomes :
          session' = [session EXCEPT
             !.status = IF outcome = "not published" THEN session.status ELSE "paused",
             !.active = outcome = "not published",
             !.registered = outcome # "unknown",
             !.generation = session.generation + 1]
    BY <1>2 DEF PauseSession
  <2>2. /\ session'.status = IF outcome = "not published" THEN "running" ELSE "paused"
        /\ session'.active <=> outcome = "not published"
        /\ session'.generation = session.generation + 1
    BY <1>1, <1>2, <2>1 DEF Sessions, PauseSession
  <2>3. ASSUME NEW v \in Units, GrantInv(v)
        PROVE  GrantInv(v)' /\ LessLive(v)
    <3>1. grant'[v] = grant[v] /\ grant[v] <= session.generation
      BY <1>1, <2>3 DEF GrantInv
    <3>2. session'.generation = session.generation + 1
      BY <2>2
    <3>3. session.generation \in Nat /\ grant[v] \in Nat
      BY <1>1
    <3>4. grant'[v] <= session'.generation /\ grant'[v] # session'.generation
      BY <3>1, <3>2, <3>3
    <3> QED
      BY <3>4 DEF GrantInv, LessLive, LiveGeneration
  <2>4. session'.registered => (session'.active <=> session'.status = "running")
    BY <1>1, <2>2 DEF SessionInv
  <2> QED
    BY <1>1, <2>3, <2>4 DEF SessionInv, InFlight
<1>3. CASE ResumeSession
  <2>1. PICK outcome \in WriteOutcomes :
          session' = [session EXCEPT
             !.status = IF outcome = "not published" THEN session.status ELSE "running",
             !.active = outcome # "not published",
             !.registered = outcome # "unknown"]
    BY <1>3 DEF ResumeSession
  <2>2. /\ session'.status = IF outcome = "not published" THEN "paused" ELSE "running"
        /\ session'.active <=> outcome # "not published"
        /\ session'.generation = session.generation
    BY <1>1, <1>3, <2>1 DEF Sessions, ResumeSession
  <2>3. ~session.active
    BY <1>1, <1>3 DEF SessionInv, ResumeSession
  <2>4. ASSUME NEW v \in Units, GrantInv(v)
        PROVE  GrantInv(v)' /\ LessLive(v)
    <3>1. grant[v] # session.generation
      BY <1>1, <2>3, <2>4 DEF GrantInv
    <3> QED
      BY <1>1, <2>2, <2>4, <3>1 DEF GrantInv, LessLive, LiveGeneration
  <2>5. session'.registered => (session'.active <=> session'.status = "running")
    BY <2>2
  <2> QED
    BY <1>1, <2>4, <2>5 DEF SessionInv, InFlight
<1>4. CASE CloseSession
  <2>1. PICK outcome \in WriteOutcomes :
          session' = [session EXCEPT
             !.status = IF outcome = "not published" THEN session.status ELSE "completed",
             !.registered = outcome = "not published",
             !.generation = session.generation + 1]
    BY <1>4 DEF CloseSession
  <2>2. /\ session'.status = IF outcome = "not published" THEN session.status ELSE "completed"
        /\ session'.active = session.active
        /\ session'.registered <=> outcome = "not published"
        /\ session'.generation = session.generation + 1
    BY <1>1, <2>1 DEF Sessions
  <2>3. ASSUME NEW v \in Units, GrantInv(v)
        PROVE  GrantInv(v)' /\ LessLive(v)
    <3>1. grant'[v] = grant[v] /\ grant[v] <= session.generation
      BY <1>1, <2>3 DEF GrantInv
    <3>2. session'.generation = session.generation + 1
      BY <2>2
    <3>3. session.generation \in Nat /\ grant[v] \in Nat
      BY <1>1
    <3>4. grant'[v] <= session'.generation /\ grant'[v] # session'.generation
      BY <3>1, <3>2, <3>3
    <3> QED
      BY <3>4 DEF GrantInv, LessLive, LiveGeneration
  <2>4. session'.registered => (session'.active <=> session'.status = "running")
    BY <1>1, <2>2 DEF SessionInv
  <2> QED
    BY <1>1, <2>3, <2>4 DEF SessionInv, InFlight
<1> QED
  BY <1>2, <1>3, <1>4 DEF SessionNext

-----------------------------------------------------------------------------
(* Rows and failures of the unit that moves.                               *)

\* A row about to be written is true of the effect.
LEMMA RowIsHonest ==
    ASSUME NEW u \in Units, UnitInv(u), TypeOK, stage[u] \in {"write", "observe"}
    PROVE  /\ Row(u).state \in {"pending", "success", "failed"}
           /\ purpose[u] = "begin" => Row(u).state = "pending"
           /\ purpose[u] = "not run" => Row(u).state = "failed"
           /\ Row(u).state = "success" =>
                /\ effect[u] = "done"
                /\ Row(u).compensation \in {"none", "not-needed"}
                /\ purpose[u] \in {"complete", "retry"} /\ ~record[u].failed
           /\ Row(u).state = "failed" =>
                CASE Row(u).compensation = "not-needed" -> effect[u] = "none"
                  [] Row(u).compensation = "succeeded" -> effect[u] # "done"
                  [] Row(u).compensation \in {"irreversible", "failed"} ->
                       effect[u] # "undone"
                  [] Row(u).compensation = "manual-unknown" -> FALSE
                  [] OTHER -> u \notin External
<1>1. /\ Row(u).state = IF purpose[u] = "begin" THEN "pending"
                        ELSE IF record[u].success THEN "success" ELSE "failed"
      /\ Row(u).compensation = record[u].compensation
  BY DEF Row
<1>2. purpose[u] \in Purposes /\ InFlight(u)
  BY DEF TypeOK, InFlight
<1>3. CASE purpose[u] = "begin"
  BY <1>1, <1>3
<1>4. CASE purpose[u] = "not run"
  BY <1>1, <1>2, <1>4 DEF UnitInv, NotRunInv
<1>5. CASE purpose[u] \in {"complete", "retry"}
  <2>1. RecordIsTrue(u)
    BY <1>2, <1>5 DEF UnitInv, CompleteInv
  <2> QED
    BY <1>1, <1>5, <2>1 DEF RecordIsTrue
<1> QED
  BY <1>2, <1>3, <1>4, <1>5 DEF Purposes

\* A refused execution ends without an effect, whatever became of its row.
LEMMA RefuseKeeps ==
    ASSUME TypeOK, NEW u \in Units, UnitInv(u), InFlight(u), purpose[u] = "begin",
           RefuseExecution(u), UNCHANGED <<purpose, record, grant, effect>>,
           ledger'[u].state \in {"none", "pending"}, GrantInv(u)'
    PROVE  UnitInv(u)'
<1>1. stage'[u] = "ended" /\ reported'[u] = "error"
  BY DEF RefuseExecution, TypeOK
<1>2. effect'[u] = "none"
  BY DEF UnitInv, BeginInv
<1> QED
  BY <1>1, <1>2
  DEF UnitInv, BeginInv, NotRunInv, CompleteInv, Accounted, Honest, Whole, InFlight

\* So does one that was not run because its start could not be audited.
LEMMA NotRunKeeps ==
    ASSUME TypeOK, NEW u \in Units, UnitInv(u), InFlight(u), purpose[u] = "not run",
           stage'[u] = "ended", reported'[u] = "error",
           UNCHANGED <<purpose, record, grant, effect, audit>>,
           ledger'[u] = ledger[u] \/ ledger'[u] = Row(u), GrantInv(u)'
    PROVE  UnitInv(u)'
<1>1. effect'[u] = "none" /\ effect[u] = "none"
  BY DEF UnitInv, NotRunInv
<1>2. Honest(u)'
  <2>1. CASE ledger'[u] = ledger[u]
    <3>1. ledger[u].state # "success"
      BY <1>1 DEF UnitInv, Honest
    <3>2. ledger[u].state = "failed" => HonestFailure(u)
      BY DEF UnitInv, Honest
    <3> QED
      BY <1>1, <2>1, <3>1, <3>2 DEF Honest, HonestFailure, InFlight
  <2>2. CASE ledger'[u] = Row(u)
    <3>1. Row(u).state = "failed"
          /\ Row(u).compensation = IF u \in External THEN "not-needed" ELSE "none"
      BY DEF UnitInv, NotRunInv, Row
    <3> QED
      BY <1>1, <2>2, <3>1 DEF Honest, HonestFailure
  <2> QED
    BY <2>1, <2>2
<1> QED
  BY <1>1, <1>2
  DEF UnitInv, BeginInv, NotRunInv, CompleteInv, Accounted, Whole, InFlight

\* A failed completion goes on to the compensation, the retry or the result,
\* and never leaves a failed receipt in front of a compensation.
LEMMA CompletionKeeps ==
    ASSUME TypeOK, NEW u \in Units, UnitInv(u), purpose[u] \in {"complete", "retry"},
           stage[u] \in {"check", "write", "observe"}, CompletionFailed(u),
           UNCHANGED <<grant, effect>>,
           \/ ledger'[u] = ledger[u]
           \/ ledger'[u] = Row(u) /\ stage[u] = "write",
           GrantInv(u)'
    PROVE  UnitInv(u)'
<1>1. /\ InFlight(u) /\ RecordIsTrue(u) /\ ledger[u].state # "none"
      /\ "started" \in audit[u] /\ reported[u] = "none"
      /\ record[u].success =>
           purpose[u] = "complete" /\ ledger[u].state # "failed"
  <2>1. InFlight(u) /\ stage[u] # "compensate" /\ stage[u] # "ended"
    BY DEF InFlight
  <2>2. CompleteInv(u) /\ (reported[u] # "none" => stage[u] = "ended")
    BY DEF UnitInv
  <2> QED
    BY <2>1, <2>2 DEF CompleteInv
<1>2. /\ purpose'[u] = "retry" /\ audit' = audit /\ reported' = reported
      /\ stage'[u] = IF purpose[u] = "retry" \/ u \notin External THEN "audit result"
                     ELSE IF record[u].attempted THEN "check" ELSE "compensate"
  BY DEF CompletionFailed, TypeOK
<1>3. /\ ~record'[u].success /\ record'[u].failed
      /\ record'[u].attempted = record[u].attempted
      /\ record'[u].compensation = record[u].compensation
  <2> DEFINE row == record[u]
             failed == record'[u]
  <2>1. row \in Records
    BY DEF TypeOK
  <2>2. failed = Failed(row)
    BY DEF CompletionFailed, TypeOK
  <2> HIDE DEF row, failed
  <2>3. /\ ~failed.success /\ failed.failed /\ failed.attempted = row.attempted
        /\ failed.compensation = row.compensation
    BY <2>1, <2>2 DEF Failed, Records
  <2> QED
    BY <2>3 DEF row, failed
<1>4. ledger'[u].state # "none"
      /\ (record[u].success => ledger'[u].state # "failed")
  <2>1. CASE ledger'[u] = ledger[u]
    BY <1>1, <2>1
  <2>2. CASE ledger'[u] = Row(u)
    BY <2>2 DEF Row
  <2> QED
    BY <2>1, <2>2
<1>5. ~record[u].success /\ u \in External => record[u].attempted
  BY <1>1 DEF RecordIsTrue
<1>6. Honest(u)'
  <2>1. CASE ledger'[u] = ledger[u]
    <3>1. Honest(u) /\ stage[u] \notin {"ended", "lost"}
      BY DEF UnitInv
    <3> QED
      BY <2>1, <3>1 DEF Honest, HonestFailure
  <2>2. CASE ledger'[u] = Row(u) /\ stage[u] = "write"
    <3>1. Row(u).state = "success" => effect[u] = "done"
      BY <2>2, RowIsHonest
    <3>2. Row(u).state = "failed" =>
            CASE Row(u).compensation = "not-needed" -> effect[u] = "none"
              [] Row(u).compensation = "succeeded" -> effect[u] # "done"
              [] Row(u).compensation \in {"irreversible", "failed"} ->
                   effect[u] # "undone"
              [] Row(u).compensation = "manual-unknown" -> FALSE
              [] OTHER -> u \notin External
      BY <2>2, RowIsHonest
    <3> QED
      BY <2>2, <3>1, <3>2 DEF Honest, HonestFailure
  <2> QED
    BY <2>1, <2>2
<1>7. CompleteInv(u)'
  <2>1. /\ stage'[u] \in {"compensate", "check", "audit result"}
        /\ stage'[u] = "compensate" =>
             u \in External /\ record[u].success
    BY <1>2, <1>5
  <2>2. stage'[u] # "compensate" => RecordIsTrue(u)'
    BY <1>1, <1>2, <1>3 DEF RecordIsTrue
  <2> QED
    <3>1. record[u].success => effect'[u] # "undone"
      BY <1>1 DEF RecordIsTrue
    <3> QED
      BY <1>1, <1>2, <1>3, <1>4, <2>1, <2>2, <3>1 DEF CompleteInv
<1>8. BeginInv(u)' /\ NotRunInv(u)'
  BY <1>2 DEF BeginInv, NotRunInv
<1>9. Accounted(u)' /\ Whole(u)' /\ (reported[u] # "none" => stage[u] = "ended")'
  BY <1>1, <1>2, <1>4 DEF Accounted, Whole
<1> QED
  BY <1>6, <1>7, <1>8, <1>9 DEF UnitInv

-----------------------------------------------------------------------------
(* The steps of an execution.                                              *)

\* A step of unit u leaves the other units alone and revives no grant.
LEMMA ExecuteFrame ==
    ASSUME TypeOK, NEW u \in Units, RequestCapability(u) \/ Execute(u)
    PROVE  /\ incarnation' = incarnation /\ InFlight(u)
           /\ Unregistered /\ observed \subseteq observed'
           /\ \A v \in Units \ {u} : Untouched(v)
<1>1. CASE RequestCapability(u)
  BY <1>1
  DEF RequestCapability, TypeOK, Untouched, Unregistered, InFlight, metering
<1>2. CASE RedeemCapability(u)
  BY <1>2
  DEF RedeemCapability, RefuseExecution, TypeOK, Untouched, Unregistered, InFlight, metering
<1>3. CASE BeginExternalMutation(u)
  BY <1>3
  DEF BeginExternalMutation, RefuseExecution, TypeOK, Untouched, Unregistered,
      InFlight, metering
<1>4. ASSUME MeterFailed(u)
      PROVE  \A v \in Units \ {u} :
               /\ stage'[v] = stage[v] /\ purpose'[v] = purpose[v]
               /\ record'[v] = record[v] /\ audit'[v] = audit[v]
               /\ reported'[v] = reported[v]
  BY <1>4 DEF MeterFailed, RefuseExecution, CompletionFailed, TypeOK
<1>5. CASE CheckSession(u)
  <2>1. CASE MeterFailed(u)
    BY <1>4, <1>5, <2>1
    DEF CheckSession, TypeOK, Untouched, Unregistered, InFlight, metering
  <2>2. CASE ~MeterFailed(u)
    BY <1>5, <2>2
    DEF CheckSession, TypeOK, Untouched, Unregistered, InFlight, metering
  <2> QED
    BY <2>1, <2>2
<1>6. CASE WriteRow(u)
  <2>1. \A v \in Units \ {u} : ledger'[v] = ledger[v]
    BY <1>6 DEF WriteRow, TypeOK
  <2>2. CASE MeterFailed(u)
    BY <1>4, <1>6, <2>1, <2>2 DEF WriteRow, Untouched, Unregistered, InFlight
  <2>3. CASE Written(u)
    BY <1>6, <2>1, <2>3
    DEF WriteRow, Written, TypeOK, Untouched, Unregistered, InFlight
  <2> QED
    BY <1>6, <2>2, <2>3 DEF WriteRow
<1>7. CASE Observe(u)
  <2>1. Unregistered /\ observed \subseteq observed' /\ InFlight(u)
        /\ UNCHANGED <<incarnation, grant, effect, ledger>>
    BY <1>7 DEF Observe, TypeOK, Sessions, Unregistered, InFlight
  <2>2. CASE MeterFailed(u)
    BY <1>4, <2>1, <2>2 DEF Untouched
  <2>3. CASE Metered(u)
    BY <2>1, <2>3 DEF Metered, TypeOK, Untouched
  <2> QED
    BY <1>7, <2>2, <2>3 DEF Observe
<1>8. CASE AuditStart(u)
  BY <1>8 DEF AuditStart, TypeOK, Untouched, Unregistered, InFlight, metering
<1>9. CASE RunHandler(u)
  BY <1>9
  DEF RunHandler, HandlerSucceeds, HandlerFails, TypeOK, Untouched, Unregistered,
      InFlight, metering
<1>10. CASE Compensate(u)
  BY <1>10 DEF Compensate, TypeOK, Untouched, Unregistered, InFlight, metering
<1>11. CASE AuditResult(u)
  BY <1>11 DEF AuditResult, TypeOK, Untouched, Unregistered, InFlight, metering
<1> QED
  BY <1>1, <1>2, <1>3, <1>5, <1>6, <1>7, <1>8, <1>9, <1>10, <1>11 DEF Execute

\* Where an execution is says what its metering call is for.
LEMMA StagePurpose ==
    ASSUME TypeOK, NEW u \in Units, UnitInv(u)
    PROVE  /\ stage[u] \in {"idle", "granted", "begin external", "audit start",
                            "handler"} => purpose[u] = "begin"
           /\ stage[u] \in {"compensate", "audit result"}
                => purpose[u] \in {"complete", "retry"}
           /\ stage[u] = "observe" => purpose[u] # "begin"
           /\ InFlight(u) => reported[u] = "none"
BY DEF TypeOK, Purposes, UnitInv, BeginInv, NotRunInv, CompleteInv, InFlight

\* The steps before the metering call of the begin.
LEMMA RedeemStep ==
    ASSUME TypeOK, NEW u \in Units, UnitInv(u), GrantInv(u)',
           \/ RequestCapability(u)
           \/ RedeemCapability(u)
           \/ BeginExternalMutation(u)
    PROVE  UnitInv(u)'
<1>1. /\ InFlight(u) /\ purpose[u] = "begin" /\ stage[u] # "handler"
      /\ UNCHANGED <<purpose, record, effect, ledger>>
  BY StagePurpose
  DEF RequestCapability, RedeemCapability, BeginExternalMutation, InFlight, metering
<1>2. reported[u] = "none"
  BY <1>1, StagePurpose
<1>3. /\ record[u] = NewRecord(u) /\ effect[u] = "none"
      /\ ledger[u].state \in {"none", "pending"}
  BY <1>1 DEF UnitInv, BeginInv
<1>4. CASE RefuseExecution(u) /\ grant' = grant
  BY <1>1, <1>3, <1>4, RefuseKeeps
<1>5. CASE /\ stage'[u] \in {"granted", "begin external", "check"}
           /\ UNCHANGED <<reported, audit>>
  BY <1>1, <1>2, <1>3, <1>5
  DEF UnitInv, BeginInv, NotRunInv, CompleteInv, Accounted, Honest, Whole, InFlight
<1> QED
  BY <1>4, <1>5
  DEF RequestCapability, RedeemCapability, BeginExternalMutation, TypeOK

\* A failing metering call keeps the invariant, whatever its row became.
LEMMA MeterFails ==
    ASSUME TypeOK, NEW u \in Units, UnitInv(u), GrantInv(u)',
           stage[u] \in {"check", "write", "observe"}, MeterFailed(u),
           UNCHANGED <<grant, effect>>,
           \/ ledger'[u] = ledger[u]
           \/ ledger'[u] = Row(u) /\ stage[u] = "write"
    PROVE  UnitInv(u)'
<1>1. InFlight(u)
  BY DEF InFlight
<1>2. CASE purpose[u] = "begin"
  <2>1. ledger[u].state \in {"none", "pending"}
    BY <1>1, <1>2 DEF UnitInv, BeginInv
  <2>2. ledger'[u].state \in {"none", "pending"}
    BY <1>2, <2>1 DEF Row
  <2>3. RefuseExecution(u) /\ UNCHANGED <<purpose, record>>
    BY <1>2 DEF MeterFailed
  <2> QED
    BY <1>1, <1>2, <2>2, <2>3, RefuseKeeps
<1>3. CASE purpose[u] = "not run"
  <2>1. stage'[u] = "ended" /\ reported'[u] = "error"
        /\ UNCHANGED <<purpose, record, audit>>
    BY <1>3 DEF MeterFailed, TypeOK
  <2>2. ledger'[u] = ledger[u] \/ ledger'[u] = Row(u)
    OBVIOUS
  <2> QED
    BY <1>1, <1>3, <2>1, <2>2, NotRunKeeps
<1>4. CASE purpose[u] \in {"complete", "retry"}
  <2>1. CompletionFailed(u)
    BY <1>4 DEF MeterFailed
  <2> QED
    BY <1>4, <2>1, CompletionKeeps
<1> QED
  BY <1>2, <1>3, <1>4 DEF TypeOK, Purposes

\* The check of the session.
LEMMA CheckStep ==
    ASSUME TypeOK, NEW u \in Units, UnitInv(u), GrantInv(u)', LessLive(u),
           CheckSession(u)
    PROVE  UnitInv(u)'
<1>1. stage[u] = "check" /\ UNCHANGED <<grant, effect, ledger, observed>>
  BY DEF CheckSession, metering
<1>2. CASE MeterFailed(u)
  BY <1>1, <1>2, MeterFails
<1>3. CASE ~MeterFailed(u)
  <2>1. stage'[u] = "write" /\ UNCHANGED <<purpose, record, reported, audit>>
    BY <1>3 DEF CheckSession, TypeOK
  <2>2. BeginInv(u)' /\ NotRunInv(u)'
    BY <1>1, <2>1 DEF UnitInv, BeginInv, NotRunInv, InFlight
  <2>3. CompleteInv(u)'
    BY <1>1, <2>1 DEF UnitInv, CompleteInv, RecordIsTrue, InFlight
  <2>4. Honest(u)'
    BY <1>1, <2>1 DEF UnitInv, Honest, HonestFailure
  <2>5. Accounted(u)' /\ Whole(u)' /\ (reported[u] # "none" => stage[u] = "ended")'
    BY <1>1, <2>1 DEF UnitInv, Accounted, Whole
  <2> QED
    BY <2>2, <2>3, <2>4, <2>5 DEF UnitInv
<1> QED
  BY <1>2, <1>3

\* The row of the ledger.
LEMMA WriteStep ==
    ASSUME TypeOK, NEW u \in Units, UnitInv(u), GrantInv(u)', WriteRow(u)
    PROVE  UnitInv(u)'
<1>1. stage[u] = "write" /\ InFlight(u) /\ UNCHANGED <<grant, effect, observed>>
  BY DEF WriteRow, InFlight
<1>2. ledger'[u] = ledger[u] \/ ledger'[u] = Row(u)
  BY DEF WriteRow, TypeOK
<1>3. reported[u] = "none"
  BY <1>1, StagePurpose
<1>4. CASE MeterFailed(u)
  BY <1>1, <1>2, <1>4, MeterFails
<1>5. CASE ~MeterFailed(u)
  <2>1. /\ ledger'[u] = Row(u)
        /\ stage'[u] = IF purpose[u] = "begin" THEN "audit start" ELSE "observe"
        /\ UNCHANGED <<purpose, record, reported, audit>>
    BY <1>5 DEF WriteRow, Written, TypeOK
  <2>2. /\ Row(u).state \in {"pending", "success", "failed"}
        /\ purpose[u] = "begin" => Row(u).state = "pending"
        /\ purpose[u] # "begin" =>
             Row(u).state = IF record[u].success THEN "success" ELSE "failed"
    BY DEF Row
  <2>3. BeginInv(u)' /\ NotRunInv(u)'
    BY <1>1, <2>1, <2>2 DEF UnitInv, BeginInv, NotRunInv, InFlight
  <2>4. CompleteInv(u)'
    <3>1. Row(u)' = Row(u)
      BY <2>1 DEF Row
    <3>2. RecordIsTrue(u) => RecordIsTrue(u)'
      BY <1>1, <2>1 DEF RecordIsTrue
    <3> QED
      BY <1>1, <2>1, <2>2, <3>1, <3>2 DEF UnitInv, CompleteInv, InFlight
  <2>5. Honest(u)'
    <3>1. Row(u).state = "success" => effect[u] = "done"
      BY <1>1, RowIsHonest
    <3>2. Row(u).state = "failed" =>
            CASE Row(u).compensation = "not-needed" -> effect[u] = "none"
              [] Row(u).compensation = "succeeded" -> effect[u] # "done"
              [] Row(u).compensation \in {"irreversible", "failed"} ->
                   effect[u] # "undone"
              [] Row(u).compensation = "manual-unknown" -> FALSE
              [] OTHER -> u \notin External
      BY <1>1, RowIsHonest
    <3> QED
      BY <1>1, <2>1, <3>1, <3>2 DEF Honest, HonestFailure
  <2>6. Accounted(u)' /\ Whole(u)' /\ (reported[u] # "none" => stage[u] = "ended")'
    BY <1>1, <1>3, <2>1, <2>2 DEF UnitInv, Accounted, Whole
  <2> QED
    BY <2>3, <2>4, <2>5, <2>6 DEF UnitInv
<1> QED
  BY <1>4, <1>5

\* The observation in the session store.
LEMMA ObserveStep ==
    ASSUME TypeOK, SessionInv, NEW u \in Units, UnitInv(u), GrantInv(u)', Observe(u)
    PROVE  UnitInv(u)'
<1>1. stage[u] = "observe" /\ InFlight(u) /\ UNCHANGED <<grant, effect, ledger>>
  BY DEF Observe, InFlight
<1>2. reported[u] = "none" /\ purpose[u] \in {"not run", "complete", "retry"}
  BY <1>1, StagePurpose DEF TypeOK, Purposes
<1>3. CASE MeterFailed(u)
  BY <1>1, <1>3, MeterFails
<1>4. CASE Metered(u) /\ purpose[u] = "not run"
  <2>1. stage'[u] = "ended" /\ reported'[u] = "error"
        /\ UNCHANGED <<purpose, record, audit>>
    BY <1>4 DEF Metered, TypeOK
  <2> QED
    BY <1>1, <1>4, <2>1, NotRunKeeps
<1>5. CASE Metered(u) /\ purpose[u] # "not run" /\ ~MeterFailed(u)
  <2>1. stage'[u] = "audit result" /\ UNCHANGED <<purpose, record, audit, reported>>
    BY <1>5 DEF Metered, TypeOK
  <2>2. LiveGeneration(grant[u])' => u \in observed'
    <3>1. CASE session' = session /\ observed' = observed
              /\ (~session.registered \/ session.status # "running" \/ u \in observed)
      BY <3>1 DEF SessionInv, LiveGeneration
    <3>2. CASE u \in observed'
      BY <3>2
    <3> QED
      BY <1>5, <3>1, <3>2 DEF Observe
  <2>3. /\ RecordIsTrue(u) /\ "started" \in audit[u] /\ ledger[u].state # "none"
        /\ record[u].success => purpose[u] = "complete" /\ ledger[u].state # "failed"
        /\ ledger[u] = Row(u)
    BY <1>1, <1>2, <1>5 DEF UnitInv, CompleteInv
  <2>4. ~record[u].failed =>
          /\ ledger[u].state = "success"
          /\ ledger[u].compensation \in {"none", "not-needed"}
    <3>1. /\ Row(u).state = IF record[u].success THEN "success" ELSE "failed"
          /\ Row(u).compensation = record[u].compensation
      BY <1>2, <1>5 DEF Row
    <3> QED
      BY <2>3, <3>1 DEF RecordIsTrue
  <2>5. RecordIsTrue(u)'
    BY <1>1, <2>1, <2>3 DEF RecordIsTrue
  <2>6. CompleteInv(u)'
    BY <1>1, <2>1, <2>2, <2>3, <2>4, <2>5 DEF CompleteInv
  <2>7. Honest(u)'
    BY <1>1, <2>1 DEF UnitInv, Honest, HonestFailure
  <2>8. /\ BeginInv(u)' /\ NotRunInv(u)' /\ Accounted(u)' /\ Whole(u)'
        /\ (reported[u] # "none" => stage[u] = "ended")'
    BY <1>1, <1>2, <1>5, <2>1 DEF UnitInv, BeginInv, NotRunInv, Accounted, Whole
  <2> QED
    BY <2>6, <2>7, <2>8 DEF UnitInv
<1> QED
  BY <1>3, <1>4, <1>5 DEF Observe

\* The audit record of the start, or the completion of what was not run.
LEMMA AuditStartStep ==
    ASSUME TypeOK, NEW u \in Units, UnitInv(u), GrantInv(u)', AuditStart(u)
    PROVE  UnitInv(u)'
<1>1. /\ stage[u] = "audit start" /\ InFlight(u) /\ purpose[u] = "begin"
      /\ reported[u] = "none" /\ UNCHANGED <<grant, effect, ledger, reported>>
  BY StagePurpose DEF AuditStart, InFlight, metering
<1>2. /\ record[u] = NewRecord(u) /\ effect[u] = "none"
      /\ ledger[u].state = "pending"
  BY <1>1 DEF UnitInv, BeginInv
<1>3. /\ Honest(u)' /\ Accounted(u)' /\ Whole(u)'
      /\ (reported[u] # "none" => stage[u] = "ended")'
  BY <1>1, <1>2 DEF Honest, Accounted, Whole
<1>4. CASE /\ audit' = [audit EXCEPT ![u] = @ \cup {"started"}]
           /\ stage' = [stage EXCEPT ![u] = "handler"]
           /\ UNCHANGED <<purpose, record>>
  <2>1. stage'[u] = "handler" /\ "started" \in audit'[u]
    BY <1>4 DEF TypeOK
  <2>2. BeginInv(u)' /\ NotRunInv(u)' /\ CompleteInv(u)'
    BY <1>1, <1>2, <1>4, <2>1 DEF BeginInv, NotRunInv, CompleteInv
  <2> QED
    BY <1>3, <2>2 DEF UnitInv
<1>5. CASE /\ stage' = [stage EXCEPT ![u] = "check"]
           /\ purpose' = [purpose EXCEPT ![u] = "not run"]
           /\ record' = [record EXCEPT ![u] =
                [Failed(record[u]) EXCEPT !.compensation = NotNeeded(u)]]
  <2>1. stage'[u] = "check" /\ purpose'[u] = "not run"
    BY <1>5 DEF TypeOK
  <2>2. record'[u] = [Failed(record[u]) EXCEPT !.compensation = NotNeeded(u)]
        /\ record[u] \in Records
    BY <1>5 DEF TypeOK
  <2>3. ~record'[u].success /\ record'[u].compensation = NotNeeded(u)
    BY <2>2 DEF Failed, Records
  <2>4. NotNeeded(u) = IF u \in External THEN "not-needed" ELSE "none"
    BY <1>2 DEF NotNeeded, NewRecord
  <2>5. BeginInv(u)' /\ NotRunInv(u)' /\ CompleteInv(u)'
    BY <1>1, <1>2, <2>1, <2>3, <2>4 DEF BeginInv, NotRunInv, CompleteInv
  <2> QED
    BY <1>3, <2>5 DEF UnitInv
<1> QED
  BY <1>4, <1>5 DEF AuditStart

\* The handler.
LEMMA HandlerStep ==
    ASSUME TypeOK, NEW u \in Units, UnitInv(u), GrantInv(u)', RunHandler(u)
    PROVE  UnitInv(u)'
<1>1. /\ stage[u] = "handler" /\ InFlight(u) /\ purpose[u] = "begin"
      /\ reported[u] = "none" /\ UNCHANGED <<grant, ledger, audit, reported>>
      /\ purpose'[u] = "complete"
  BY StagePurpose DEF RunHandler, InFlight, metering, TypeOK
<1>2. /\ record[u] = NewRecord(u) /\ effect[u] = "none" /\ "started" \in audit[u]
      /\ ledger[u].state = "pending"
  BY <1>1 DEF UnitInv, BeginInv
<1>3. /\ ~record[u].success /\ ~record[u].attempted
      /\ record[u].compensation = IF u \in External THEN "pending" ELSE "none"
  BY <1>2 DEF NewRecord
<1>4. /\ Honest(u)' /\ Accounted(u)' /\ Whole(u)' /\ BeginInv(u)' /\ NotRunInv(u)'
      /\ (reported[u] # "none" => stage[u] = "ended")'
  BY <1>1, <1>2 DEF Honest, Accounted, Whole, BeginInv, NotRunInv
<1>5. CASE HandlerSucceeds(u)
  <2>1. stage'[u] = "check" /\ effect'[u] = "done"
    BY <1>5 DEF HandlerSucceeds, TypeOK
  <2>2. record'[u] = [record[u] EXCEPT !.success = TRUE, !.compensation = NotNeeded(u),
                                       !.provider = u \in ProviderUnits]
        /\ record[u] \in Records
    BY <1>5 DEF HandlerSucceeds, TypeOK
  <2>3. ~record[u].failed
    BY <1>2 DEF NewRecord
  <2>4. /\ record'[u].success /\ record'[u].compensation = NotNeeded(u)
        /\ ~record'[u].failed /\ ~record'[u].attempted
    BY <1>3, <2>2, <2>3 DEF Records
  <2>5. RecordIsTrue(u)'
    BY <1>3, <2>1, <2>4 DEF RecordIsTrue, NotNeeded
  <2>6. CompleteInv(u)'
    BY <1>1, <1>2, <2>1, <2>5 DEF CompleteInv
  <2> QED
    BY <1>4, <2>6 DEF UnitInv
<1>6. CASE HandlerFails(u)
  <2>1. stage'[u] = IF u \in External THEN "compensate" ELSE "check"
    BY <1>6 DEF HandlerFails, TypeOK
  <2>2. record'[u] = Failed(record[u]) /\ record[u] \in Records
    BY <1>6 DEF HandlerFails, TypeOK
  <2>3. /\ ~record'[u].success /\ record'[u].failed
        /\ record'[u].compensation = record[u].compensation
    BY <2>2 DEF Failed, Records
  <2>4. u \notin External => RecordIsTrue(u)'
    BY <1>3, <2>3 DEF RecordIsTrue
  <2>5. effect'[u] # "undone"
    BY <1>2, <1>6 DEF HandlerFails, TypeOK
  <2>6. CompleteInv(u)'
    BY <1>1, <1>2, <2>1, <2>3, <2>4, <2>5 DEF CompleteInv
  <2> QED
    BY <1>4, <2>6 DEF UnitInv
<1> QED
  BY <1>5, <1>6 DEF RunHandler

\* The compensation.
LEMMA CompensateStep ==
    ASSUME TypeOK, NEW u \in Units, UnitInv(u), GrantInv(u)', Compensate(u)
    PROVE  UnitInv(u)'
<1>1. /\ stage[u] = "compensate" /\ InFlight(u) /\ purpose[u] \in {"complete", "retry"}
      /\ reported[u] = "none" /\ UNCHANGED <<purpose, grant, ledger, audit, reported>>
      /\ stage'[u] = "check"
  BY StagePurpose DEF Compensate, InFlight, metering, TypeOK
<1>2. /\ u \in External /\ ~record[u].success /\ record[u].failed
      /\ ledger[u].state \notin {"none", "failed"} /\ "started" \in audit[u]
      /\ effect[u] # "undone"
  BY <1>1 DEF UnitInv, CompleteInv
<1>3. PICK status \in {"succeeded", "failed", "irreversible"} :
        /\ record'[u] = Compensated(u, status)
        /\ IF status = "succeeded"
           THEN effect'[u] = IF effect[u] = "done" THEN "undone" ELSE effect[u]
           ELSE effect'[u] = effect[u]
  BY DEF Compensate, TypeOK
<1>4. /\ ~record'[u].success /\ record'[u].failed /\ record'[u].attempted
      /\ record'[u].compensation = status
  BY <1>2, <1>3 DEF Compensated, TypeOK, Records
<1>5. RecordIsTrue(u)'
  BY <1>2, <1>3, <1>4 DEF RecordIsTrue
<1>6. CompleteInv(u)'
  BY <1>1, <1>2, <1>4, <1>5 DEF CompleteInv
<1>7. Honest(u)'
  <2>1. ledger[u].state = "success" => effect[u] # "none"
    BY DEF UnitInv, Honest
  <2> QED
    BY <1>1, <1>2, <1>3, <2>1 DEF Honest
<1>8. /\ BeginInv(u)' /\ NotRunInv(u)' /\ Accounted(u)' /\ Whole(u)'
      /\ (reported[u] # "none" => stage[u] = "ended")'
  BY <1>1, <1>2 DEF BeginInv, NotRunInv, Accounted, Whole
<1> QED
  BY <1>6, <1>7, <1>8 DEF UnitInv

\* The audit record of the result, and the answer.
LEMMA AuditResultStep ==
    ASSUME TypeOK, NEW u \in Units, UnitInv(u), GrantInv(u)', AuditResult(u)
    PROVE  UnitInv(u)'
<1>1. /\ stage[u] = "audit result" /\ InFlight(u) /\ purpose[u] \in {"complete", "retry"}
      /\ UNCHANGED <<session, observed, grant, ledger, effect>>
      /\ stage'[u] = "ended"
  BY StagePurpose DEF AuditResult, InFlight, metering, TypeOK
<1>2. /\ RecordIsTrue(u) /\ ledger[u].state # "none" /\ "started" \in audit[u]
      /\ ~record[u].failed =>
           /\ ledger[u].state = "success"
           /\ ledger[u].compensation \in {"none", "not-needed"}
           /\ LiveGeneration(grant[u]) => u \in observed
  BY <1>1 DEF UnitInv, CompleteInv
<1>3. /\ audit[u] \subseteq audit'[u] /\ reported'[u] \in {"success", "error"}
      /\ reported'[u] = "success" => ~record[u].failed /\ "completed" \in audit'[u]
  <2> DEFINE result == IF record[u].failed THEN "failed" ELSE "completed"
  <2>1. CASE /\ audit' = [audit EXCEPT ![u] = @ \cup {result}]
             /\ reported' = [reported EXCEPT ![u] =
                                IF record[u].failed THEN "error" ELSE "success"]
    BY <2>1 DEF TypeOK
  <2>2. CASE reported' = [reported EXCEPT ![u] = "error"] /\ audit' = audit
    BY <2>2 DEF TypeOK
  <2> QED
    BY <2>1, <2>2 DEF AuditResult
<1>4. ~record[u].failed => effect[u] = "done"
  BY <1>2 DEF RecordIsTrue
<1>5. Whole(u)'
  <2>1. LiveGeneration(grant[u])' <=> LiveGeneration(grant[u])
    BY <1>1 DEF LiveGeneration
  <2> QED
    BY <1>1, <1>2, <1>3, <1>4, <2>1 DEF Whole
<1>6. Honest(u)'
  <2>1. Honest(u) /\ ~(ledger[u].state = "failed" /\ ledger[u].compensation = "manual-unknown")
    BY <1>1 DEF UnitInv, Honest, HonestFailure
  <2> QED
    BY <1>1, <2>1 DEF Honest, HonestFailure
<1>7. /\ BeginInv(u)' /\ NotRunInv(u)' /\ CompleteInv(u)' /\ Accounted(u)'
      /\ (reported[u] # "none" => stage[u] = "ended")'
  BY <1>1, <1>2, <1>3 DEF BeginInv, NotRunInv, CompleteInv, Accounted, InFlight
<1> QED
  BY <1>5, <1>6, <1>7 DEF UnitInv

\* A step of an execution keeps the invariant.
LEMMA ExecuteStep ==
    ASSUME Inv, TypeOK', NEW u \in Units, RequestCapability(u) \/ Execute(u)
    PROVE  Inv'
<1>1. TypeOK /\ SessionInv /\ UnitInv(u)
  BY DEF Inv
<1>2. /\ incarnation' = incarnation /\ InFlight(u)
      /\ Unregistered /\ observed \subseteq observed'
      /\ \A v \in Units \ {u} : Untouched(v)
  BY <1>1, ExecuteFrame
<1>3. SessionInv'
  <2>1. incarnation' # 2
    BY <1>1, <1>2 DEF SessionInv
  <2> QED
    BY <1>1, <1>2, <2>1 DEF SessionInv, Unregistered
<1>4. ASSUME NEW v \in Units \ {u}
      PROVE  UnitInv(v)'
  <2>1. UnitInv(v) /\ Untouched(v) /\ grant'[v] = grant[v] /\ GrantInv(v)
    BY <1>2 DEF Inv, UnitInv, Untouched
  <2>2. GrantInv(v)' /\ LessLive(v)
    BY <1>2, <2>1, UnregisteredFrame
  <2> QED
    BY <1>2, <2>1, <2>2, Frame
<1>5. UnitInv(u)'
  <2>1. CASE RequestCapability(u)
    <3>1. grant'[u] = session.generation /\ session.active /\ session' = session
          /\ session.generation \in 1..MaxGeneration
      BY <1>1, <2>1 DEF RequestCapability, LiveGeneration, TypeOK, Sessions
    <3>2. GrantInv(u)'
      BY <3>1, ExecutionAssumption DEF GrantInv
    <3> QED
      BY <1>1, <2>1, <3>2, RedeemStep
  <2>2. CASE Execute(u)
    <3>1. grant' = grant
      BY <2>2
      DEF Execute, RedeemCapability, BeginExternalMutation, CheckSession, WriteRow,
          Observe, AuditStart, RunHandler, Compensate, AuditResult, progress
    <3>2. GrantInv(u)' /\ LessLive(u)
      BY <1>1, <1>2, <3>1, UnregisteredFrame DEF UnitInv
    <3> QED
      BY <1>1, <2>2, <3>2, RedeemStep, CheckStep, WriteStep, ObserveStep,
         AuditStartStep, HandlerStep, CompensateStep, AuditResultStep
      DEF Execute
  <2> QED
    BY <2>1, <2>2
<1> QED
  BY <1>3, <1>4, <1>5 DEF Inv

-----------------------------------------------------------------------------
(* The steps of the lifecycle, of the crash and of the operator.           *)

\* After a crash no execution is in flight and no grant is live.
LEMMA CrashStep ==
    ASSUME Inv, TypeOK', Crash
    PROVE  Inv'
<1>1. /\ ~session'.registered
      /\ UNCHANGED <<purpose, record, grant, effect, audit, reported, ledger, observed>>
      /\ \A u \in Units :
           stage'[u] = IF stage[u] = "ended" THEN "ended" ELSE "lost"
  BY DEF Crash, progress, Inv, TypeOK, Sessions
<1>2. session'.generation = session.generation
  BY DEF Crash, Inv, TypeOK, Sessions
<1>3. ASSUME NEW u \in Units
      PROVE  UnitInv(u)'
  <2>1. UnitInv(u) /\ stage'[u] \in {"ended", "lost"}
    BY <1>1 DEF Inv
  <2>2. BeginInv(u)' /\ NotRunInv(u)' /\ CompleteInv(u)'
    BY <2>1 DEF BeginInv, NotRunInv, CompleteInv, InFlight
  <2>3. Accounted(u)' /\ GrantInv(u)' /\ (reported[u] # "none" => stage[u] = "ended")'
    BY <1>1, <1>2, <2>1 DEF UnitInv, Accounted, GrantInv
  <2>4. Whole(u)'
    BY <1>1, <2>1 DEF UnitInv, Whole, LiveGeneration
  <2>5. Honest(u)'
    BY <1>1, <2>1 DEF UnitInv, Honest, HonestFailure
  <2> QED
    BY <2>2, <2>3, <2>4, <2>5 DEF UnitInv
<1>4. SessionInv'
  BY <1>1 DEF SessionInv, InFlight
<1> QED
  BY <1>3, <1>4 DEF Inv

\* An operator disposes only of receipts whose execution died unreported.
LEMMA ManualStep ==
    ASSUME Inv, TypeOK', NEW u \in Units, ManualUnknown(u)
    PROVE  Inv'
<1>1. /\ incarnation = 2 /\ u \in External /\ ledger[u].state = "pending"
      /\ UNCHANGED <<incarnation, session, stage, purpose, record, grant, effect, audit,
                     reported, observed>>
  BY DEF ManualUnknown, progress
<1>2. ~session.registered /\ \A v \in Units : ~InFlight(v)
  BY <1>1 DEF Inv, SessionInv
<1>3. ledger'[u] = ledger[u] \/ ledger'[u] = LeftToOperator(ledger[u])
  BY DEF ManualUnknown, Inv, TypeOK
<1>4. \A v \in Units \ {u} : ledger'[v] = ledger[v]
  BY DEF ManualUnknown, Inv, TypeOK
<1>5. \A v \in Units : GrantInv(v)' /\ LessLive(v)
  BY <1>1 DEF Inv, UnitInv, GrantInv, LessLive, LiveGeneration
<1>6. ASSUME NEW v \in Units, ledger'[v] = ledger[v]
      PROVE  UnitInv(v)'
  <2>1. UnitInv(v) /\ Untouched(v) /\ (v \in observed => v \in observed')
    BY <1>1, <1>6 DEF Inv, Untouched
  <2> QED
    BY <1>5, <2>1, Frame
<1>7. ASSUME ledger'[u] = LeftToOperator(ledger[u])
      PROVE  UnitInv(u)'
  <2>1. UnitInv(u) /\ ~InFlight(u)
    BY <1>2 DEF Inv
  <2>2. ledger'[u].state = "failed" /\ ledger'[u].compensation = "manual-unknown"
    BY <1>7 DEF Inv, TypeOK, Receipts, LeftToOperator
  <2>3. reported[u] # "success"
    BY <1>1, <2>1 DEF UnitInv, Whole
  <2>4. Honest(u)'
    BY <1>1, <2>1, <2>2, <2>3 DEF Honest, HonestFailure, InFlight
  <2>5. Accounted(u)' /\ Whole(u)' /\ (reported[u] # "none" => stage[u] = "ended")'
    BY <1>1, <2>1, <2>2, <2>3 DEF UnitInv, Accounted, Whole
  <2>6. BeginInv(u)' /\ NotRunInv(u)' /\ CompleteInv(u)'
    BY <1>1, <2>1 DEF BeginInv, NotRunInv, CompleteInv, InFlight
  <2> QED
    BY <1>5, <2>4, <2>5, <2>6 DEF UnitInv
<1>8. SessionInv'
  BY <1>1 DEF Inv, SessionInv, InFlight
<1> QED
  BY <1>3, <1>4, <1>6, <1>7, <1>8 DEF Inv

\* Pause, resume and close.
LEMMA SessionStep ==
    ASSUME Inv, TypeOK', SessionNext
    PROVE  Inv'
<1>1. UNCHANGED <<incarnation, stage, purpose, record, grant, effect, audit, reported,
                  ledger, observed>>
  BY DEF SessionNext, PauseSession, ResumeSession, CloseSession, progress, metering
<1>2. ASSUME NEW v \in Units
      PROVE  UnitInv(v)'
  <2>1. UnitInv(v) /\ Untouched(v) /\ (v \in observed => v \in observed') /\ GrantInv(v)
    BY <1>1 DEF Inv, UnitInv, Untouched
  <2>2. GrantInv(v)' /\ LessLive(v)
    BY <2>1, SessionFrame DEF Inv
  <2> QED
    BY <2>1, <2>2, Frame
<1>3. SessionInv'
  BY SessionFrame DEF Inv
<1> QED
  BY <1>2, <1>3 DEF Inv

-----------------------------------------------------------------------------
(* The theorems.                                                           *)

\* The invariant holds when the session starts.
LEMMA InitInv == Init => Inv
<1> SUFFICES ASSUME Init PROVE Inv
  OBVIOUS
<1>1. MaxGeneration \in Nat \ {0} /\ 1 \in 1..MaxGeneration
  BY ExecutionAssumption
<1>2. \A u \in Units : NewRecord(u) \in Records
  BY DEF NewRecord, Records, Compensations
<1>3. NoReceipt \in Receipts
  BY DEF NoReceipt, Receipts, Compensations
<1>4. session \in Sessions
  BY <1>1 DEF Init, Sessions
<1>5. TypeOK
  <2>1. /\ stage \in [Units -> Stages] /\ purpose \in [Units -> Purposes]
        /\ grant \in [Units -> 0..MaxGeneration] /\ record \in [Units -> Records]
        /\ effect \in [Units -> {"none", "done", "undone"}]
    BY <1>1, <1>2 DEF Init, Stages, Purposes
  <2>2. /\ ledger \in [Units -> Receipts] /\ audit \in [Units -> SUBSET AuditStages]
        /\ reported \in [Units -> {"none", "success", "error"}]
    BY <1>3 DEF Init
  <2>3. /\ incarnation \in {1, 2} /\ ledgerPoison \in BOOLEAN /\ observed \subseteq Units
        /\ disturbed \in BOOLEAN
    BY DEF Init
  <2> QED
    BY <1>4, <2>1, <2>2, <2>3 DEF TypeOK
<1>6. SessionInv
  BY DEF Init, SessionInv
<1>7. ASSUME NEW u \in Units
      PROVE  UnitInv(u)
  BY <1>1
  DEF Init, UnitInv, BeginInv, NotRunInv, CompleteInv, Accounted, Honest, Whole,
      GrantInv, NoReceipt
<1> QED
  BY <1>5, <1>6, <1>7 DEF Inv

\* It survives a step of something else.
LEMMA StutterInv ==
    ASSUME Inv, TypeOK', UNCHANGED vars
    PROVE  Inv'
<1>1. ASSUME NEW u \in Units
      PROVE  UnitInv(u)'
  <2>1. UnitInv(u) /\ GrantInv(u) /\ Untouched(u) /\ Unregistered /\ observed' = observed
    BY DEF vars, Inv, UnitInv, Untouched, Unregistered
  <2>2. GrantInv(u)' /\ LessLive(u)
    BY <2>1, UnregisteredFrame DEF vars
  <2> QED
    BY <2>1, <2>2, Frame
<1>2. SessionInv'
  BY DEF vars, Inv, SessionInv, InFlight
<1> QED
  BY <1>1, <1>2 DEF Inv

\* It survives every step.
LEMMA NextInv == Inv /\ [Next]_vars => Inv'
<1> SUFFICES ASSUME Inv, [Next]_vars PROVE Inv'
  OBVIOUS
<1>1. TypeOK'
  BY TypeStep DEF Inv
<1>2. CASE SessionNext
  BY <1>1, <1>2, SessionStep
<1>3. CASE Crash
  BY <1>1, <1>3, CrashStep
<1>4. ASSUME NEW u \in Units, RequestCapability(u) \/ Execute(u)
      PROVE  Inv'
  BY <1>1, <1>4, ExecuteStep
<1>5. ASSUME NEW u \in Units, ManualUnknown(u)
      PROVE  Inv'
  BY <1>1, <1>5, ManualStep
<1>6. CASE UNCHANGED vars
  BY <1>1, <1>6, StutterInv
<1> QED
  BY <1>2, <1>3, <1>4, <1>5, <1>6 DEF Next

\* The invariant holds in every state: it is one statement per execution about
\* what its record, receipt, audit trail and effect say of each other.
THEOREM Invariance == Spec => []Inv
BY InitInv, NextInv, PTL DEF Spec

\* Types of the variables of Runtime.Execute and its sinks.
THEOREM TypeCorrect == Spec => []TypeOK
<1>1. Inv => TypeOK
  BY DEF Inv
<1> QED
  BY <1>1, Invariance, PTL

\* Runtime.Execute never lets a handler have an effect that recovery and the
\* audit trail cannot see, whatever fails and whenever the process dies.
THEOREM EffectsAreAccountedFor == Spec => []EffectIsAccountedFor
<1>1. Inv => EffectIsAccountedFor
  BY DEF Inv, UnitInv, Accounted, EffectIsAccountedFor, NoReceipt
<1> QED
  BY <1>1, Invariance, PTL

\* The ledger never says of an effect what did not happen to it.
THEOREM ReceiptsAreHonest == Spec => []ReceiptIsHonest
<1>1. Inv => ReceiptIsHonest
  BY DEF Inv, UnitInv, Honest, HonestFailure, ReceiptIsHonest
<1> QED
  BY <1>1, Invariance, PTL

\* A success that Execute reports is one in the world, in the ledger, in the
\* audit log and in the history of a session that was left alone.
THEOREM SuccessesAreWhole == Spec => []SuccessIsWhole
<1>1. Inv => SuccessIsWhole
  BY DEF Inv, UnitInv, Whole, SuccessIsWhole
<1> QED
  BY <1>1, Invariance, PTL

\* An outcome once in the ledger stays, through retries, restarts and the
\* dispositions of operators.
THEOREM OutcomesAreFinal == Spec => OutcomeIsFinal
<1>1. ASSUME TypeOK, [Next]_vars, NEW u \in Units,
             ledger[u].state \in {"success", "failed"}
      PROVE  ledger'[u] = ledger[u]
  <2>1. CASE SessionNext
    BY <2>1 DEF SessionNext, PauseSession, ResumeSession, CloseSession, metering
  <2>2. CASE Crash
    BY <2>2 DEF Crash
  <2>3. ASSUME NEW v \in Units, RequestCapability(v) \/ Execute(v)
        PROVE  ledger'[u] = ledger[u]
    <3>1. CASE WriteRow(v) /\ v = u
      BY <1>1, <3>1 DEF WriteRow, Admits, NoReceipt, TypeOK
    <3>2. CASE WriteRow(v) /\ v # u
      BY <1>1, <3>2 DEF WriteRow, TypeOK
    <3>3. CASE ~WriteRow(v)
      BY <2>3, <3>3
      DEF Execute, RequestCapability, RedeemCapability, BeginExternalMutation,
          CheckSession, Observe, AuditStart, RunHandler, Compensate, AuditResult,
          metering
    <3> QED
      BY <3>1, <3>2, <3>3
  <2>4. ASSUME NEW v \in Units, ManualUnknown(v)
        PROVE  ledger'[u] = ledger[u]
    BY <1>1, <2>4 DEF ManualUnknown, TypeOK
  <2>5. CASE UNCHANGED vars
    BY <2>5 DEF vars
  <2> QED
    BY <1>1, <2>1, <2>2, <2>3, <2>4, <2>5 DEF Next
<1>2. TypeOK /\ [Next]_vars
        => [\A u \in Units : ledger[u].state \in {"success", "failed"}
              => ledger'[u] = ledger[u]]_vars
  BY <1>1
<1> QED
  BY <1>2, TypeCorrect, PTL DEF Spec, OutcomeIsFinal

=============================================================================
