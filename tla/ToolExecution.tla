--------------------------- MODULE ToolExecution ---------------------------
(***************************************************************************)
(* Runtime.Execute of internal/agentcore: a capability is redeemed, its    *)
(* receipt made durable, the start audited, the handler run, the receipt   *)
(* completed (with a compensation when an external effect cannot stand),   *)
(* the result audited.  Every metering call goes through the usage sink of *)
(* AgentLifecycle in three separately locked parts: the check of the       *)
(* session, the row of the ledger, the observation in the session store.   *)
(* The session may be paused, resumed and closed between any two of them.  *)
(***************************************************************************)
EXTENDS Naturals

CONSTANTS
    Units,              \* executions, all of one session
    ReversibleUnits,    \* external effects that can be compensated
    IrreversibleUnits,  \* external effects that cannot
    ProviderUnits,      \* handlers that report a provider and a model
    MaxGeneration       \* bound on pauses and rejected closes

ASSUME ExecutionAssumption ==
    /\ ReversibleUnits \cup IrreversibleUnits \cup ProviderUnits \subseteq Units
    /\ ReversibleUnits \cap IrreversibleUnits = {}
    /\ MaxGeneration \in Nat \ {0}

VARIABLES
    incarnation,    \* 1 until the crash, then 2
    session,        \* the row of the session and its runtime registration
    stage,          \* where each execution is
    purpose,        \* what its metering call is for
    grant,          \* session generation its capability was issued for
    record,         \* the usage record Execute carries
    effect,         \* what its handler did to the world
    ledger,         \* receipt of each unit in the ledger
    ledgerPoison,   \* the ledger refuses every write of this process
    observed,       \* units with an observation in the session store
    audit,          \* audit records of each execution
    reported,       \* what the caller of Execute was told
    disturbed       \* a write, a handler or the session failed somewhere

vars == <<incarnation, session, stage, purpose, grant, record, effect, ledger,
          ledgerPoison, observed, audit, reported, disturbed>>

\* What only the execution itself changes.
progress == <<grant, effect, audit, reported>>
metering == <<ledger, ledgerPoison, observed>>

-----------------------------------------------------------------------------
External == ReversibleUnits \cup IrreversibleUnits

Stages == {"idle", "granted", "begin external", "check", "write", "observe",
           "audit start", "handler", "compensate", "audit result",
           "ended", "lost"}

Purposes == {"begin", "not run", "complete", "retry"}

Compensations == {"none", "pending", "not-needed", "succeeded", "failed",
                  "irreversible", "manual-unknown"}

AuditStages == {"started", "completed", "failed"}

Sessions == [status : {"running", "paused", "completed", "recovery"},
             registered : BOOLEAN, active : BOOLEAN,
             generation : 1..MaxGeneration]

Records == [success : BOOLEAN, failed : BOOLEAN, compensation : Compensations,
            attempted : BOOLEAN, provider : BOOLEAN]

NoReceipt == [state |-> "none", compensation |-> "none", provider |-> FALSE]

Receipts == [state : {"none", "pending", "success", "failed"},
             compensation : Compensations, provider : BOOLEAN]

\* A write is durable, or fails before it is published, or fails with an
\* outcome nobody knows.
WriteOutcomes == {"durable", "not published", "unknown"}

NewRecord(u) ==
    [success |-> FALSE, failed |-> FALSE, attempted |-> FALSE, provider |-> FALSE,
     compensation |-> IF u \in External THEN "pending" ELSE "none"]

-----------------------------------------------------------------------------
(* The session: pause, resume and close by the lifecycle.  The runtime is  *)
(* changed before the store, and restored when the store rejects the write.*)

\* Suspending a session moves it to a new generation, which burns its grants.
PauseSession ==
    /\ session.registered
    /\ session.status = "running"
    /\ session.generation < MaxGeneration
    /\ \E outcome \in WriteOutcomes :
         session' = [session EXCEPT
             !.status = IF outcome = "not published" THEN @ ELSE "paused",
             !.active = outcome = "not published",
             !.registered = outcome # "unknown",
             !.generation = @ + 1]
    /\ disturbed' = TRUE
    /\ UNCHANGED <<incarnation, stage, purpose, record, progress, metering>>

ResumeSession ==
    /\ session.registered
    /\ session.status = "paused"
    /\ \E outcome \in WriteOutcomes :
         session' = [session EXCEPT
             !.status = IF outcome = "not published" THEN @ ELSE "running",
             !.active = outcome # "not published",
             !.registered = outcome # "unknown"]
    /\ disturbed' = TRUE
    /\ UNCHANGED <<incarnation, stage, purpose, record, progress, metering>>

\* A rejected close registers the session again, in a new generation.
CloseSession ==
    /\ session.registered
    /\ session.generation < MaxGeneration
    /\ \E outcome \in WriteOutcomes :
         session' = [session EXCEPT
             !.status = IF outcome = "not published" THEN @ ELSE "completed",
             !.registered = outcome = "not published",
             !.generation = @ + 1]
    /\ disturbed' = TRUE
    /\ UNCHANGED <<incarnation, stage, purpose, record, progress, metering>>

-----------------------------------------------------------------------------
(* Redeeming a capability.                                                 *)

LiveGeneration(generation) ==
    session.registered /\ session.active /\ session.generation = generation

\* A failure before the handler may run: audited if the audit log works.
RefuseExecution(u) ==
    /\ stage' = [stage EXCEPT ![u] = "ended"]
    /\ reported' = [reported EXCEPT ![u] = "error"]
    /\ \/ audit' = [audit EXCEPT ![u] = @ \cup {"failed"}]
       \/ audit' = audit

RequestCapability(u) ==
    /\ stage[u] = "idle"
    /\ LiveGeneration(session.generation)
    /\ stage' = [stage EXCEPT ![u] = "granted"]
    /\ grant' = [grant EXCEPT ![u] = session.generation]
    /\ UNCHANGED <<incarnation, session, purpose, record, effect, metering, audit,
                   reported, disturbed>>

\* The token is consumed whatever its checks say.
RedeemCapability(u) ==
    /\ stage[u] = "granted"
    /\ \/ /\ LiveGeneration(grant[u])
          /\ stage' = [stage EXCEPT ![u] =
                          IF u \in External THEN "begin external" ELSE "check"]
          /\ UNCHANGED <<reported, audit, disturbed>>
       \/ /\ RefuseExecution(u)
          /\ disturbed' = TRUE
    /\ UNCHANGED <<incarnation, session, purpose, grant, record, effect, metering>>

BeginExternalMutation(u) ==
    /\ stage[u] = "begin external"
    /\ \/ /\ stage' = [stage EXCEPT ![u] = "check"]
          /\ UNCHANGED <<reported, audit, disturbed>>
       \/ /\ RefuseExecution(u)
          /\ disturbed' = TRUE
    /\ UNCHANGED <<incarnation, session, purpose, grant, record, effect, metering>>

-----------------------------------------------------------------------------
(* One metering call: check of the session, row of the ledger, observation.*)

Failed(row) == [row EXCEPT !.success = FALSE, !.failed = TRUE]

\* Nothing to compensate, for an effect outside the editor.
NotNeeded(u) == IF u \in External THEN "not-needed" ELSE record[u].compensation

\* Mutant: a failed retry is tried again.
RetryForever(u) ==
    /\ stage' = [stage EXCEPT ![u] = IF u \in External THEN "check" ELSE "audit result"]
    /\ purpose' = [purpose EXCEPT ![u] = "retry"]
    /\ record' = [record EXCEPT ![u] = Failed(record[u])]
    /\ UNCHANGED <<reported, audit>>

\* What Execute does with a failed completion: compensate once, report the
\* unit as failed, and repeat the completion once for an external receipt.
CompletionFailed(u) ==
    /\ stage' = [stage EXCEPT ![u] =
                    IF purpose[u] = "retry" \/ u \notin External THEN "audit result"
                    ELSE IF record[u].attempted THEN "check" ELSE "compensate"]
    /\ purpose' = [purpose EXCEPT ![u] = "retry"]
    /\ record' = [record EXCEPT ![u] = Failed(record[u])]
    /\ UNCHANGED <<reported, audit>>

MeterFailed(u) ==
    \/ /\ purpose[u] = "begin"
       /\ RefuseExecution(u)
       /\ UNCHANGED <<purpose, record>>
    \/ /\ purpose[u] = "not run"
       /\ stage' = [stage EXCEPT ![u] = "ended"]
       /\ reported' = [reported EXCEPT ![u] = "error"]
       /\ UNCHANGED <<purpose, record, audit>>
    \/ /\ purpose[u] \in {"complete", "retry"}
       /\ CompletionFailed(u)

\* A completed session takes only rows without success: the pending row of a
\* begin is one of them.
Trusted(u) ==
    \/ session.registered
    \/ session.status = "completed" /\ ~record[u].success

CheckSession(u) ==
    /\ stage[u] = "check"
    /\ \/ /\ Trusted(u)
          /\ stage' = [stage EXCEPT ![u] = "write"]
          /\ UNCHANGED <<purpose, record, reported, audit>>
       \/ ~Trusted(u) /\ MeterFailed(u)
    /\ UNCHANGED <<incarnation, session, grant, effect, metering, disturbed>>

Row(u) == [state |-> IF purpose[u] = "begin" THEN "pending"
                     ELSE IF record[u].success THEN "success" ELSE "failed",
           compensation |-> record[u].compensation,
           provider |-> record[u].provider]

\* Mutant: a terminal receipt may be replaced.
AdmitsAny(old, new) == old.provider = new.provider

\* The transition rule of the ledger for two different receipts of a unit.
Admits(old, new) ==
    \/ old = NoReceipt
    \/ old.state = "pending" /\ old.provider = new.provider

Written(u) ==
    /\ stage' = [stage EXCEPT ![u] =
                    IF purpose[u] = "begin" THEN "audit start" ELSE "observe"]
    /\ UNCHANGED <<purpose, record, reported, audit>>

\* A row the ledger refuses, or could not publish, fails the call; so does a
\* row that may have been published, which also poisons the ledger.
WriteRow(u) ==
    /\ stage[u] = "write"
    /\ LET allowed == ~ledgerPoison /\ Admits(ledger[u], Row(u))
           written == [ledger EXCEPT ![u] = Row(u)]
       IN  \/ /\ allowed \/ (~ledgerPoison /\ ledger[u] = Row(u))
              /\ ledger' = written
              /\ Written(u)
              /\ UNCHANGED <<ledgerPoison, disturbed>>
           \/ /\ ~allowed
              /\ ledgerPoison \/ ledger[u] # Row(u)
              /\ MeterFailed(u)
              /\ UNCHANGED <<ledger, ledgerPoison, disturbed>>
           \/ /\ allowed
              /\ MeterFailed(u)
              /\ disturbed' = TRUE
              /\ \/ UNCHANGED <<ledger, ledgerPoison>>
                 \/ ledger' \in {ledger, written} /\ ledgerPoison' = TRUE
    /\ UNCHANGED <<incarnation, session, grant, effect, observed>>

\* A finished metering call: what was not run is reported as the failure it is.
Metered(u) ==
    /\ IF purpose[u] = "not run"
       THEN /\ stage' = [stage EXCEPT ![u] = "ended"]
            /\ reported' = [reported EXCEPT ![u] = "error"]
       ELSE /\ stage' = [stage EXCEPT ![u] = "audit result"]
            /\ UNCHANGED reported
    /\ UNCHANGED <<purpose, record, audit>>

\* Only a running session with a live registration gets an observation; an
\* outcome nobody knows costs it the registration.
Observe(u) ==
    /\ stage[u] = "observe"
    /\ \/ /\ ~session.registered \/ session.status # "running" \/ u \in observed
          /\ Metered(u)
          /\ UNCHANGED <<session, observed, disturbed>>
       \/ /\ session.registered /\ session.status = "running" /\ u \notin observed
          /\ \E outcome \in WriteOutcomes :
               /\ observed' = IF outcome = "not published" THEN observed
                              ELSE observed \cup {u}
               /\ session' = [session EXCEPT !.registered = outcome # "unknown"]
               /\ disturbed' = (disturbed \/ outcome # "durable")
               /\ IF outcome = "durable" THEN Metered(u) ELSE MeterFailed(u)
    /\ UNCHANGED <<incarnation, grant, effect, ledger, ledgerPoison>>

-----------------------------------------------------------------------------
(* The handler between two audit records.                                  *)

\* Mutant: the handler runs without the record of its start.
StartUnaudited(u) ==
    /\ stage[u] = "audit start"
    /\ stage' = [stage EXCEPT ![u] = "handler"]
    /\ UNCHANGED <<incarnation, session, purpose, grant, record, effect, metering,
                   audit, reported, disturbed>>

AuditStart(u) ==
    /\ stage[u] = "audit start"
    /\ \/ /\ audit' = [audit EXCEPT ![u] = @ \cup {"started"}]
          /\ stage' = [stage EXCEPT ![u] = "handler"]
          /\ UNCHANGED <<purpose, record, disturbed>>
       \/ /\ stage' = [stage EXCEPT ![u] = "check"]
          /\ purpose' = [purpose EXCEPT ![u] = "not run"]
          /\ record' = [record EXCEPT ![u] =
                 [Failed(record[u]) EXCEPT !.compensation = NotNeeded(u)]]
          /\ disturbed' = TRUE
          /\ UNCHANGED audit
    /\ UNCHANGED <<incarnation, session, grant, effect, metering, reported>>

HandlerSucceeds(u) ==
    /\ effect' = [effect EXCEPT ![u] = "done"]
    /\ record' = [record EXCEPT ![u] =
           [record[u] EXCEPT !.success = TRUE, !.compensation = NotNeeded(u),
                             !.provider = u \in ProviderUnits]]
    /\ stage' = [stage EXCEPT ![u] = "check"]
    /\ UNCHANGED disturbed

\* A handler that fails may have done its effect or not.
HandlerFails(u) ==
    /\ effect' \in {effect, [effect EXCEPT ![u] = "done"]}
    /\ record' = [record EXCEPT ![u] = Failed(record[u])]
    /\ stage' = [stage EXCEPT ![u] =
                    IF u \in External THEN "compensate" ELSE "check"]
    /\ disturbed' = TRUE

RunHandler(u) ==
    /\ stage[u] = "handler"
    /\ HandlerSucceeds(u) \/ HandlerFails(u)
    /\ purpose' = [purpose EXCEPT ![u] = "complete"]
    /\ UNCHANGED <<incarnation, session, grant, metering, audit, reported>>

Compensated(u, status) ==
    [record[u] EXCEPT !.attempted = TRUE, !.compensation = status]

\* Mutant: the receipt keeps what it said before the compensation.
CompensateUnrecorded(u) ==
    /\ stage[u] = "compensate"
    /\ stage' = [stage EXCEPT ![u] = "check"]
    /\ effect' = [effect EXCEPT ![u] = IF @ = "done" THEN "undone" ELSE @]
    /\ record' = [record EXCEPT ![u] = [record[u] EXCEPT !.attempted = TRUE]]
    /\ UNCHANGED <<incarnation, session, purpose, grant, metering, audit, reported,
                   disturbed>>

Compensate(u) ==
    /\ stage[u] = "compensate"
    /\ stage' = [stage EXCEPT ![u] = "check"]
    /\ \/ /\ u \in ReversibleUnits
          /\ effect' = [effect EXCEPT ![u] = IF @ = "done" THEN "undone" ELSE @]
          /\ record' = [record EXCEPT ![u] = Compensated(u, "succeeded")]
       \/ /\ effect' = effect
          /\ record' = [record EXCEPT ![u] = Compensated(u,
                 IF u \in ReversibleUnits THEN "failed" ELSE "irreversible")]
    /\ UNCHANGED <<incarnation, session, purpose, grant, metering, audit, reported,
                   disturbed>>

\* Mutant: a lost audit record does not change the result.
ResultUnaudited(u) ==
    /\ stage[u] = "audit result"
    /\ stage' = [stage EXCEPT ![u] = "ended"]
    /\ reported' = [reported EXCEPT ![u] = IF record[u].failed THEN "error" ELSE "success"]
    /\ UNCHANGED <<incarnation, session, purpose, grant, record, effect, metering,
                   audit, disturbed>>

AuditResult(u) ==
    /\ stage[u] = "audit result"
    /\ stage' = [stage EXCEPT ![u] = "ended"]
    /\ LET result == IF record[u].failed THEN "failed" ELSE "completed"
       IN  \/ /\ audit' = [audit EXCEPT ![u] = @ \cup {result}]
              /\ reported' = [reported EXCEPT ![u] =
                                 IF record[u].failed THEN "error" ELSE "success"]
              /\ UNCHANGED disturbed
           \/ /\ reported' = [reported EXCEPT ![u] = "error"]
              /\ disturbed' = TRUE
              /\ UNCHANGED audit
    /\ UNCHANGED <<incarnation, session, purpose, grant, record, effect, metering>>

-----------------------------------------------------------------------------
(* Crash, restart and the decision of an operator.                         *)

\* The next process marks the session for recovery and reloads the ledger.
Crash ==
    /\ incarnation = 1
    /\ incarnation' = 2
    /\ session' = [session EXCEPT
           !.status = IF @ = "completed" THEN @ ELSE "recovery",
           !.registered = FALSE]
    /\ stage' = [u \in Units |-> IF stage[u] = "ended" THEN "ended" ELSE "lost"]
    /\ ledgerPoison' = FALSE
    /\ disturbed' = TRUE
    /\ UNCHANGED <<purpose, record, progress, ledger, observed>>

LeftToOperator(receipt) ==
    [receipt EXCEPT !.state = "failed", !.compensation = "manual-unknown"]

\* Accepted only for a session whose owner is an earlier process.
ManualUnknown(u) ==
    /\ incarnation = 2
    /\ u \in External
    /\ ~ledgerPoison
    /\ ledger[u].state = "pending"
    /\ LET new == [ledger EXCEPT ![u] = LeftToOperator(ledger[u])]
       IN  \/ ledger' = new /\ UNCHANGED ledgerPoison
           \/ ledger' \in {ledger, new} /\ ledgerPoison' = TRUE
    /\ UNCHANGED <<incarnation, session, stage, purpose, record, progress,
                   observed, disturbed>>

-----------------------------------------------------------------------------
Init ==
    /\ incarnation = 1
    /\ session = [status |-> "running", registered |-> TRUE, active |-> TRUE,
                  generation |-> 1]
    /\ stage = [u \in Units |-> "idle"]
    /\ purpose = [u \in Units |-> "begin"]
    /\ grant = [u \in Units |-> 0]
    /\ record = [u \in Units |-> NewRecord(u)]
    /\ effect = [u \in Units |-> "none"]
    /\ ledger = [u \in Units |-> NoReceipt]
    /\ ledgerPoison = FALSE
    /\ observed = {}
    /\ audit = [u \in Units |-> {}]
    /\ reported = [u \in Units |-> "none"]
    /\ disturbed = FALSE

SessionNext == PauseSession \/ ResumeSession \/ CloseSession

Execute(u) ==
    \/ RedeemCapability(u)
    \/ BeginExternalMutation(u)
    \/ CheckSession(u)
    \/ WriteRow(u)
    \/ Observe(u)
    \/ AuditStart(u)
    \/ RunHandler(u)
    \/ Compensate(u)
    \/ AuditResult(u)

Next ==
    \/ SessionNext
    \/ Crash
    \/ \E u \in Units : RequestCapability(u) \/ Execute(u) \/ ManualUnknown(u)

Spec == Init /\ [][Next]_vars

\* Execute is one call on a goroutine of its own: once entered it goes on.
FairSpec == Spec /\ \A u \in Units : WF_vars(stage[u] # "granted" /\ Execute(u))

-----------------------------------------------------------------------------
(* Properties.                                                             *)

\* Types of the variables.
TypeOK ==
    /\ incarnation \in {1, 2}
    /\ session \in Sessions
    /\ stage \in [Units -> Stages]
    /\ purpose \in [Units -> Purposes]
    /\ grant \in [Units -> 0..MaxGeneration]
    /\ record \in [Units -> Records]
    /\ effect \in [Units -> {"none", "done", "undone"}]
    /\ ledger \in [Units -> Receipts]
    /\ ledgerPoison \in BOOLEAN
    /\ observed \subseteq Units
    /\ audit \in [Units -> SUBSET AuditStages]
    /\ reported \in [Units -> {"none", "success", "error"}]
    /\ disturbed \in BOOLEAN

\* No handler has an effect that recovery and the audit trail cannot see,
\* whatever fails and whenever the process dies.
EffectIsAccountedFor ==
    \A u \in Units : effect[u] # "none" =>
        ledger[u] # NoReceipt /\ "started" \in audit[u]

\* A terminal receipt tells the truth about the effect: what it calls not run
\* had none, what it calls compensated has none left, what it calls
\* irreversible was not undone, and what an operator disposed of was never
\* reported successful.
ReceiptIsHonest ==
    \A u \in Units :
        /\ ledger[u].state = "success" => effect[u] # "none"
        /\ ledger[u].state = "failed" =>
             CASE ledger[u].compensation = "not-needed" -> effect[u] = "none"
               [] ledger[u].compensation = "succeeded" -> effect[u] # "done"
               [] ledger[u].compensation \in {"irreversible", "failed"} ->
                    effect[u] # "undone"
               [] ledger[u].compensation = "manual-unknown" ->
                    reported[u] # "success" /\ stage[u] \in {"ended", "lost"}
               [] OTHER -> u \notin External

\* A success reported to the caller is whole: the effect stands, the receipt
\* and both audit records say so, and so does the history of the session
\* unless the session was paused or closed meanwhile.
SuccessIsWhole ==
    \A u \in Units : reported[u] = "success" =>
        /\ effect[u] = "done"
        /\ ledger[u].state = "success"
        /\ ledger[u].compensation \in {"none", "not-needed"}
        /\ {"started", "completed"} \subseteq audit[u]
        /\ LiveGeneration(grant[u]) => u \in observed

\* When no write and no handler fails and the session is left alone, an execution
\* ends in success.  This is said of the units that report the provider and the
\* model that served them, which agent_usage.go says belong to the outcome of a
\* unit.
ProviderUnitsSucceed ==
    ~disturbed => \A u \in ProviderUnits : stage[u] = "ended" => reported[u] = "success"

\* An outcome in the ledger is final, for retries and for operators alike.
OutcomeIsFinal ==
    [][\A u \in Units : ledger[u].state \in {"success", "failed"}
        => ledger'[u] = ledger[u]]_vars

\* A redeemed execution ends or dies with its process: retries are bounded.
ExecutionEnds ==
    \A u \in Units :
        stage[u] \notin {"idle", "granted"} ~> stage[u] \in {"ended", "lost"}

\* runtime.go: a compensation changes the durable disposition of a receipt, so
\* an effect that was undone is not left as a success in a healthy ledger.
UndoneIsNotSuccess ==
    \A u \in Units :
        stage[u] = "ended" /\ effect[u] = "undone" /\ ~ledgerPoison
        => ledger[u].state # "success"
=============================================================================
