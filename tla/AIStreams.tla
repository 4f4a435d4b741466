------------------------------ MODULE AIStreams ------------------------------
(***************************************************************************)
(* Chat streams of the AI service (src/services/ai_service.go), their      *)
(* lifecycle units (agent_lifecycle.go), the closing of an agent session   *)
(* (agent_execution_core.go) and the shutdown of the agent service         *)
(* (agent_service.go).                                                     *)
(*                                                                         *)
(* One stream at a time owns the slot AIService.cancel.  The call that     *)
(* starts it returns as soon as its worker runs; the worker keeps the read *)
(* lease of the workspace until its lifecycle unit is finished, then emits *)
(* its event, clears the slot and closes done.  A chat stream has a row of *)
(* its own, an agent stream the persistent row of its session.             *)
(***************************************************************************)
EXTENDS Naturals, FiniteSets

CONSTANTS
    Streams,         \* calls of StartStream and StartAgentStream
    Conversations,   \* persistent chat sessions
    Closers,         \* callers of CloseAgentSessionForCaller
    NoStream,
    MaxAttempts      \* bound: executions of one row

ASSUME StreamsAssumption ==
    /\ NoStream \notin Streams \cup Conversations
    /\ Streams \cap Conversations = {} /\ Streams \cap Closers = {}
    /\ MaxAttempts \in Nat \ {0}

VARIABLES
    chatRow,           \* durable row of each session: status and attempt
    slot,              \* AIService.cancel
    admissionClosed,   \* AIService.streamAdmissionClosed
    admissionMu,       \* the call that holds sessionAdmissionMu
    closingSessions,
    leases,            \* read side of workspaceAuthorityMu
    writer,            \* its write side: none, waiting or held
    cancelled,         \* streams whose context is done
    stream,
    closer,
    drain              \* AgentService.Close

streamVars == <<chatRow, slot, admissionClosed, admissionMu, closingSessions,
                leases, writer, cancelled, stream, closer, drain>>

locks == <<admissionMu, leases>>
others == <<admissionClosed, closingSessions, writer, closer, drain>>

StreamStages == {"new", "snapshot", "claim", "prepare", "preflight",
                 "record failure", "begin", "open", "provider", "finish",
                 "terminal", "emit", "clear", "release", "ended"}

NewStream == [at |-> "new", session |-> NoStream, attempt |-> 0, success |-> FALSE]

Persistent(w) == stream[w].session \in Conversations

At(w, stage) == stream[w].at = stage
Goes(w, stage) == stream' = [stream EXCEPT ![w].at = stage]

\* done is closed for a claim that was released and for a worker that ended.
Done(w) == stream[w].at \in {"record failure", "ended"}

-----------------------------------------------------------------------------
(* The durable row under a stream.                                         *)

RowOf(w) == chatRow[stream[w].session]

Running(row) == row.status = "running"

SetStatus(w, status) ==
    IF Running(RowOf(w)) THEN [chatRow EXCEPT ![stream[w].session].status = status]
    ELSE chatRow

\* BeginExisting resumes a failed or paused row and takes a running one.
Begun(w) ==
    [chatRow EXCEPT ![stream[w].session] =
        IF Running(@) THEN @ ELSE [status |-> "running", attempt |-> @.attempt + 1]]

Beginnable(w) ==
    IF Persistent(w) THEN RowOf(w).status \in {"running", "paused", "failed"}
    ELSE RowOf(w).status = "none"

\* Fails the row; a save that is rejected leaves it running.
FailRow(w) == chatRow' \in {chatRow, SetStatus(w, "failed")}

-----------------------------------------------------------------------------
(* Starting a stream.                                                      *)

\* The caller has left: no lease, no admission.
Return(w, stage) ==
    /\ Goes(w, stage)
    /\ leases' = leases \ {w}
    /\ admissionMu' = IF admissionMu = w THEN NoStream ELSE admissionMu

StartStream(w) ==
    /\ At(w, "new")
    /\ stream' = [stream EXCEPT ![w] = [@ EXCEPT !.at = "snapshot", !.session = w]]
    /\ UNCHANGED <<chatRow, slot, cancelled, locks, others>>

\* The session admission is held until the call returns.
StartAgentStream(w, session) ==
    /\ At(w, "new")
    /\ admissionMu = NoStream
    /\ IF session \in closingSessions
       THEN Goes(w, "ended") /\ UNCHANGED admissionMu
       ELSE /\ admissionMu' = w
            /\ stream' = [stream EXCEPT ![w] =
                             [@ EXCEPT !.at = "snapshot", !.session = session]]
    /\ UNCHANGED <<chatRow, slot, cancelled, leases, others>>

\* Lease and configuration; the permission policy may refuse the operation.
SnapshotForProviderCall(w) ==
    /\ At(w, "snapshot")
    /\ writer = "none"
    /\ \/ Goes(w, "claim") /\ leases' = leases \cup {w} /\ UNCHANGED admissionMu
       \/ Return(w, "ended")
    /\ UNCHANGED <<chatRow, slot, cancelled, others>>

ClaimSlot(w) ==
    /\ At(w, "claim")
    /\ IF admissionClosed \/ slot # NoStream
       THEN Return(w, "ended") /\ UNCHANGED slot
       ELSE /\ slot' = w
            /\ Goes(w, IF Persistent(w) THEN "prepare" ELSE "preflight")
            /\ UNCHANGED locks
    /\ UNCHANGED <<chatRow, cancelled, others>>

ReleaseClaim(w) == IF slot = w THEN NoStream ELSE slot

\* The lifecycle admits the session before anything else happens to it.
Prepare(w) ==
    /\ At(w, "prepare")
    /\ \/ /\ Beginnable(w)
          /\ RowOf(w).attempt < MaxAttempts
          /\ chatRow' = Begun(w)
          /\ stream' = [stream EXCEPT ![w].at = "preflight",
                                      ![w].attempt = chatRow'[stream[w].session].attempt]
          /\ UNCHANGED <<slot, locks>>
       \/ /\ slot' = ReleaseClaim(w)
          /\ Return(w, "ended")
          /\ UNCHANGED chatRow
    /\ UNCHANGED <<cancelled, others>>

\* Without an API key or a window the claim is given back; an agent session
\* that was begun is failed afterwards, by the call itself.
Preflight(w) ==
    /\ At(w, "preflight")
    /\ \/ /\ Goes(w, "begin")
          /\ admissionMu' = IF admissionMu = w THEN NoStream ELSE admissionMu
          /\ UNCHANGED <<slot, leases>>
       \/ /\ slot' = ReleaseClaim(w)
          /\ IF Persistent(w) THEN Goes(w, "record failure") /\ UNCHANGED locks
             ELSE Return(w, "ended")
    /\ UNCHANGED <<chatRow, cancelled, others>>

\* A checkpoint and a failed unit are recorded, and the row is failed.
RecordStartFailure(w) ==
    /\ At(w, "record failure")
    /\ FailRow(w)
    /\ Return(w, "ended")
    /\ UNCHANGED <<slot, cancelled, others>>

-----------------------------------------------------------------------------
(* The worker.                                                             *)

\* Mutant: the worker of a stream that failed keeps its lease.
LeaseKept(w) == leases' = IF stream[w].success THEN leases \ {w} ELSE leases

LeaseReleased(w) == leases' = leases \ {w}

BeginUnit(w) ==
    /\ At(w, "begin")
    /\ \/ /\ Beginnable(w)
          /\ chatRow' = Begun(w)
          /\ stream' = [stream EXCEPT ![w].at = "open",
                                      ![w].attempt = chatRow'[stream[w].session].attempt]
          /\ UNCHANGED leases
       \/ Goes(w, "emit") /\ LeaseReleased(w) /\ UNCHANGED chatRow
    /\ UNCHANGED <<slot, cancelled, admissionMu, others>>

\* Checkpoint and pending receipt; a failure of either fails the row.
OpenUnit(w) ==
    /\ At(w, "open")
    /\ \/ Goes(w, "provider") /\ UNCHANGED <<chatRow, leases>>
       \/ Goes(w, "emit") /\ LeaseReleased(w) /\ FailRow(w)
    /\ UNCHANGED <<slot, cancelled, admissionMu, others>>

\* The provider answers, fails, or is cut off by the context.
ProviderReturns(w) ==
    /\ At(w, "provider")
    /\ \E success \in BOOLEAN :
         stream' = [stream EXCEPT ![w].at = "finish", ![w].success = success]
    /\ UNCHANGED <<chatRow, slot, cancelled, locks, others>>

\* The wall or the idle deadline of the context.
Deadline(w) ==
    /\ At(w, "provider")
    /\ w \notin cancelled
    /\ cancelled' = cancelled \cup {w}
    /\ UNCHANGED <<chatRow, slot, locks, stream, others>>

\* Text, checkpoint and receipt are recorded; one that cannot be is a failure.
FinishUnit(w) ==
    /\ At(w, "finish")
    /\ \E recorded \in BOOLEAN :
         /\ recorded => Running(RowOf(w))
         /\ stream' = [stream EXCEPT ![w].at = "terminal",
                                     ![w].success = @ /\ recorded]
    /\ UNCHANGED <<chatRow, slot, cancelled, locks, others>>

PublishTerminal(w) ==
    /\ At(w, "terminal")
    /\ IF ~stream[w].success THEN FailRow(w)
       ELSE IF Persistent(w) THEN UNCHANGED chatRow
       ELSE chatRow' \in {chatRow, SetStatus(w, "completed")}
    /\ LeaseReleased(w)
    /\ Goes(w, "emit")
    /\ UNCHANGED <<slot, cancelled, admissionMu, others>>

\* One ai:done or ai:error.
EmitResult(w) ==
    /\ At(w, "emit")
    /\ Goes(w, "clear")
    /\ UNCHANGED <<chatRow, slot, cancelled, locks, others>>

ClearSlot(w) ==
    /\ At(w, "clear")
    /\ slot' = ReleaseClaim(w)
    /\ Goes(w, "release")
    /\ UNCHANGED <<chatRow, cancelled, locks, others>>

ReleaseWorker(w) ==
    /\ At(w, "release")
    /\ Goes(w, "ended")
    /\ LeaseReleased(w)
    /\ UNCHANGED <<chatRow, slot, cancelled, admissionMu, others>>

\* Mutant: a stop frees the slot at once.
StopAndFree ==
    /\ slot # NoStream
    /\ cancelled' = cancelled \cup {slot}
    /\ slot' = NoStream
    /\ UNCHANGED <<chatRow, locks, stream, others>>

\* The worker keeps the slot until its unit is finished.
StopStream ==
    /\ slot # NoStream
    /\ cancelled' = cancelled \cup {slot}
    /\ UNCHANGED <<chatRow, slot, locks, stream, others>>

-----------------------------------------------------------------------------
(* Closing a session, shutdown, and the workspace switch.                  *)

CloserGoes(c, stage) == closer' = [closer EXCEPT ![c].at = stage]

MarkClosing(c, session) ==
    /\ closer[c].at \in {"idle", "failed"}
    /\ admissionMu = NoStream
    /\ closingSessions' = closingSessions \cup {session}
    /\ closer' = [closer EXCEPT ![c] =
           [at |-> "lease", session |-> session, target |-> NoStream]]
    /\ UNCHANGED <<chatRow, slot, admissionClosed, locks, writer, cancelled,
                   stream, drain>>

CloserLease(c) ==
    /\ closer[c].at = "lease"
    /\ writer = "none"
    /\ leases' = leases \cup {c}
    /\ CloserGoes(c, "cancel")
    /\ UNCHANGED <<chatRow, slot, admissionClosed, admissionMu, closingSessions,
                   writer, cancelled, stream, drain>>

CancelSessionStream(c) ==
    /\ closer[c].at = "cancel"
    /\ IF slot # NoStream /\ stream[slot].session = closer[c].session
       THEN /\ cancelled' = cancelled \cup {slot}
            /\ closer' = [closer EXCEPT ![c].at = "wait", ![c].target = slot]
       ELSE CloserGoes(c, "close") /\ UNCHANGED cancelled
    /\ UNCHANGED <<chatRow, slot, admissionClosed, locks, closingSessions, writer,
                   stream, drain>>

\* The close fails when the worker does not end in time.
WaitForShutdown(c) ==
    /\ closer[c].at = "wait"
    /\ \/ Done(closer[c].target) /\ CloserGoes(c, "close") /\ UNCHANGED leases
       \/ CloserGoes(c, "failed") /\ leases' = leases \ {c}
    /\ UNCHANGED <<chatRow, slot, admissionClosed, admissionMu, closingSessions,
                   writer, cancelled, stream, drain>>

CloseRow(c) ==
    /\ closer[c].at = "close"
    /\ \/ /\ chatRow' = [chatRow EXCEPT ![closer[c].session].status = "completed"]
          /\ CloserGoes(c, "closed")
       \/ UNCHANGED chatRow /\ CloserGoes(c, "failed")
    /\ leases' = leases \ {c}
    /\ UNCHANGED <<slot, admissionClosed, admissionMu, closingSessions, writer,
                   cancelled, stream, drain>>

\* Mutant: the shutdown looks at the slot without sealing it.
DrainUnsealed ==
    /\ drain.at = "idle"
    /\ drain' = [at |-> "wait", target |-> slot]
    /\ UNCHANGED <<chatRow, slot, admissionClosed, locks, closingSessions, writer,
                   cancelled, stream, closer>>

\* Admission is sealed where the active worker is looked up.
SealAndCancel ==
    /\ drain.at = "idle"
    /\ admissionClosed' = TRUE
    /\ cancelled' = cancelled \cup ({slot} \ {NoStream})
    /\ drain' = [at |-> "wait", target |-> slot]
    /\ UNCHANGED <<chatRow, slot, locks, closingSessions, writer, stream, closer>>

DrainWait ==
    /\ drain.at = "wait"
    /\ \/ /\ drain.target \in {NoStream} \cup {w \in Streams : Done(w)}
          /\ drain' = [drain EXCEPT !.at = "drained"]
       \/ /\ drain.target # NoStream
          /\ drain' = [drain EXCEPT !.at = "timeout"]
    /\ UNCHANGED <<chatRow, slot, admissionClosed, locks, closingSessions, writer,
                   cancelled, stream, closer>>

\* A waiting writer keeps new readers out, and waits for every lease.
AnnounceSwitch ==
    /\ writer = "none"
    /\ writer' = "waiting"
    /\ UNCHANGED <<chatRow, slot, admissionClosed, locks, closingSessions,
                   cancelled, stream, closer, drain>>

\* The new workspace is published and every open row is closed.
SwitchWorkspace ==
    /\ writer = "waiting"
    /\ leases = {}
    /\ writer' = "held"
    /\ chatRow' = [s \in DOMAIN chatRow |->
           IF chatRow[s].status \in {"running", "paused", "failed"}
           THEN [chatRow[s] EXCEPT !.status = "completed"] ELSE chatRow[s]]
    /\ UNCHANGED <<slot, admissionClosed, locks, closingSessions, cancelled,
                   stream, closer, drain>>

EndSwitch ==
    /\ writer = "held"
    /\ writer' = "none"
    /\ UNCHANGED <<chatRow, slot, admissionClosed, locks, closingSessions,
                   cancelled, stream, closer, drain>>

-----------------------------------------------------------------------------
StreamsInit ==
    /\ chatRow = [s \in Conversations \cup Streams |->
           IF s \in Conversations THEN [status |-> "running", attempt |-> 1]
           ELSE [status |-> "none", attempt |-> 0]]
    /\ slot = NoStream
    /\ admissionClosed = FALSE
    /\ admissionMu = NoStream
    /\ closingSessions = {}
    /\ leases = {}
    /\ writer = "none"
    /\ cancelled = {}
    /\ stream = [w \in Streams |-> NewStream]
    /\ closer = [c \in Closers |-> [at |-> "idle", session |-> NoStream,
                                    target |-> NoStream]]
    /\ drain = [at |-> "idle", target |-> NoStream]

\* What the call and its worker do by themselves.
WorkerStep(w) ==
    \/ SnapshotForProviderCall(w) \/ ClaimSlot(w) \/ Prepare(w) \/ Preflight(w)
    \/ RecordStartFailure(w) \/ BeginUnit(w) \/ OpenUnit(w) \/ FinishUnit(w)
    \/ PublishTerminal(w) \/ EmitResult(w) \/ ClearSlot(w) \/ ReleaseWorker(w)

CloserStep(c) ==
    CloserLease(c) \/ CancelSessionStream(c) \/ WaitForShutdown(c) \/ CloseRow(c)

SwitchStep == SwitchWorkspace \/ EndSwitch

StreamsNext ==
    \/ \E w \in Streams :
         \/ StartStream(w)
         \/ \E s \in Conversations : StartAgentStream(w, s)
         \/ WorkerStep(w)
         \/ ProviderReturns(w)
         \/ Deadline(w)
    \/ StopStream
    \/ \E c \in Closers :
         \/ \E s \in Conversations : MarkClosing(c, s)
         \/ CloserStep(c)
    \/ SealAndCancel
    \/ DrainWait
    \/ AnnounceSwitch
    \/ SwitchStep

StreamsSpec == StreamsInit /\ [][StreamsNext]_streamVars

-----------------------------------------------------------------------------
(* Properties.                                                             *)

\* Types of the variables.
StreamsTypeOK ==
    /\ chatRow \in [Conversations \cup Streams ->
          [status : {"none", "running", "paused", "failed", "completed"},
           attempt : 0 .. MaxAttempts]]
    /\ slot \in Streams \cup {NoStream}
    /\ admissionClosed \in BOOLEAN
    /\ admissionMu \in Streams \cup {NoStream}
    /\ closingSessions \subseteq Conversations
    /\ leases \subseteq Streams \cup Closers
    /\ writer \in {"none", "waiting", "held"}
    /\ cancelled \subseteq Streams
    /\ stream \in [Streams ->
          [at : StreamStages, session : Conversations \cup Streams \cup {NoStream},
           attempt : 0 .. MaxAttempts, success : BOOLEAN]]
    /\ closer \in [Closers ->
          [at : {"idle", "lease", "cancel", "wait", "close", "closed", "failed"},
           session : Conversations \cup {NoStream}, target : Streams \cup {NoStream}]]
    /\ drain \in [at : {"idle", "wait", "drained", "timeout"},
                  target : Streams \cup {NoStream}]

OpenStages == {"preflight", "begin", "open", "provider", "finish", "terminal",
               "record failure"}

\* From its beginning to its terminal record, the row of a stream is running
\* in the execution the stream began: no stop, retry, close, shutdown or
\* workspace switch lets another stream take the session over, or close it,
\* while the old worker may still fail or complete it.
UnitOwnsItsRow ==
    \A w \in Streams :
        stream[w].at \in OpenStages /\ stream[w].attempt > 0 =>
            RowOf(w) = [status |-> "running", attempt |-> stream[w].attempt]

\* A shutdown that reports no error has left no worker with anything to record
\* or to emit, and none starts later.
ShutdownDrains ==
    drain.at = "drained" => \A w \in Streams : stream[w].at \in
        {"new", "snapshot", "claim", "record failure", "release", "ended"}

\* Somebody waits: a call, a worker, a close or a switch has not returned.
Waiting ==
    \/ \E w \in Streams : stream[w].at \notin {"new", "ended"}
    \/ \E c \in Closers : closer[c].at \notin {"idle", "closed", "failed"}
    \/ writer # "none"

\* A lock of the workspace is free for its next holder, or somebody is at a step
\* that waits for nobody: the wait of a closer has a deadline, as the provider has.
SomebodyCanGoOn ==
    \/ \E w \in Streams : \/ stream[w].at \notin {"new", "snapshot", "ended"}
                          \/ At(w, "snapshot") /\ writer = "none"
    \/ \E c \in Closers : \/ closer[c].at \in {"cancel", "wait", "close"}
                          \/ closer[c].at = "lease" /\ writer = "none"
    \/ writer = "held" \/ (writer = "waiting" /\ leases = {})

\* Nobody waits in a circle for the slot, the session admission, the workspace
\* lock and the end of a worker: as long as somebody waits, some of them can
\* go on, even if no provider ever answers a request before its deadline.
NoCircularWait ==
    Waiting =>
        /\ SomebodyCanGoOn
        /\ \/ ENABLED \E w \in Streams : WorkerStep(w) \/ Deadline(w)
           \/ ENABLED \E w \in cancelled : ProviderReturns(w)
           \/ ENABLED \E c \in Closers : CloserStep(c)
           \/ ENABLED SwitchStep
=============================================================================
