----------------------------- MODULE DocumentSync -----------------------------
(***************************************************************************)
(* How a language server is kept in step with one document of the editor   *)
(* (src/services/lsp_service_sync.go), over the JSON-RPC client            *)
(* (lsp_service_rpc.go) and the life of the server process                 *)
(* (lsp_service_session.go, lsp_service_server.go).                        *)
(*                                                                         *)
(* Completions, hovers and the like first sync the buffer: calls that edit *)
(* the same document share one pending change, which is debounced, sent as *)
(* one didChange and waited for.  Every message is written by a goroutine  *)
(* of its own, so that messages under way reach the server in any order;   *)
(* whoever sends one waits for the write no longer than the deadline.      *)
(*                                                                         *)
(* A server that was replaced keeps its own state: it is not modelled, its *)
(* calls fail.                                                             *)
(***************************************************************************)
EXTENDS Naturals

CONSTANTS
    Editors,         \* calls of syncDocument and CloseDocument
    Texts,           \* contents of the buffer
    NoText, Garbled, \* no document; the result of a change against another text
    NoPending,
    MaxEdits,        \* bound: calls
    MaxServers       \* bound: server processes

ASSUME SyncAssumption ==
    /\ NoPending \notin [id : Nat, text : Texts \cup {NoText}, generation : Nat,
                         opening : BOOLEAN, flushing : BOOLEAN]
    /\ MaxEdits \in Nat /\ MaxServers \in Nat \ {0}

VARIABLES
    serving,     \* the server in LSPService.servers, 0 for none
    stopping,    \* "no", or the step of the call that stops a server
    link,        \* the newest lspServer and its client
    doc,         \* docVersions and docLastContent of the document
    pendingChange,      \* pendingChanges of the document
    changes,     \* pending changes so far
    waitedFor,   \* pending changes whose done channel is open
    debounce,    \* flushDocumentChange: the timers that run
    senders,     \* goroutines that send a message and wait for its write
    outbox,      \* messages whose write has not ended
    remote,      \* the server's copy of the document
    editor,      \* the calls
    edits,       \* calls so far
    overtaken    \* history: a message was, or may be, overtaken by another

syncVars == <<serving, stopping, link, doc, pendingChange, changes, waitedFor, debounce,
              senders, outbox, remote, editor, edits, overtaken>>

documentState == <<doc, pendingChange, changes, waitedFor, debounce>>
wireState == <<senders, outbox, remote>>

NoDocument == [version |-> 0, text |-> NoText]

IdleEditor == [at |-> "idle", text |-> NoText, number |-> 0]

NewLink(n, kind) ==
    [number |-> n, connected |-> TRUE, closing |-> FALSE, kind |-> kind]

SyncInit ==
    /\ serving = 1 /\ stopping = "no"
    /\ \E kind \in {"full", "incremental"} : link = NewLink(1, kind)
    /\ doc = NoDocument /\ pendingChange = NoPending
    /\ changes = 0 /\ waitedFor = {} /\ debounce = {}
    /\ senders = {} /\ outbox = {} /\ remote = NoDocument
    /\ editor = [e \in Editors |-> IdleEditor]
    /\ edits = 0 /\ overtaken = FALSE

-----------------------------------------------------------------------------
(* Messages.                                                               *)

Notification(kind, id, generation, version, text, base) ==
    [kind |-> kind, id |-> id, generation |-> generation, version |-> version,
     text |-> text, base |-> base]

\* A goroutine that calls notify with a message, which another one writes.
Notify(message) ==
    /\ senders' = senders \cup {[message |-> message, write |-> "waiting"]}
    /\ outbox' = outbox \cup {message}
    /\ remote' = remote

\* The end of the write reaches its sender, unless that has given up.
Written(message, result) ==
    {IF s = [message |-> message, write |-> "waiting"] THEN [s EXCEPT !.write = result] ELSE s :
        s \in senders}

\* What the server makes of a message: a change is relative to the text the
\* client had sent last, if the server asked for that.
Received(message) ==
    IF message.kind = "didClose" \/ (message.kind = "didChange" /\ remote = NoDocument)
    THEN NoDocument
    ELSE [version |-> message.version,
          text |-> IF /\ message.kind = "didChange"
                      /\ link.kind = "incremental" /\ remote.text # message.base
                   THEN Garbled ELSE message.text]

WriteNotification(message) ==
    /\ message \in outbox /\ link.connected
    /\ outbox' = outbox \ {message}
    /\ senders' = Written(message, "nil")
    /\ remote' = Received(message)
    /\ UNCHANGED <<serving, stopping, link, documentState, editor, edits, overtaken>>

\* The pipe refuses the message, or the connection is closed before.
NotifyFails(message) ==
    /\ message \in outbox
    /\ outbox' = outbox \ {message}
    /\ senders' = Written(message, "error")
    /\ UNCHANGED <<serving, stopping, link, documentState, remote, editor, edits, overtaken>>

\* notify gives up; the write goes on.
NotifyTimeout(s) ==
    /\ s \in senders /\ s.write = "waiting" /\ s.message \in outbox
    /\ senders' = (senders \ {s}) \cup {[s EXCEPT !.write = "error"]}
    /\ overtaken' = TRUE
    /\ UNCHANGED <<serving, stopping, link, documentState, outbox, remote, editor, edits>>

-----------------------------------------------------------------------------
(* Calls.                                                                  *)

\* A call looks the server up, and is refused without one.
FindServer(e, call, text) ==
    /\ editor[e] = IdleEditor
    /\ edits < MaxEdits
    /\ serving # 0
    /\ edits' = edits + 1
    /\ editor' = [editor EXCEPT ![e] = [at |-> call, text |-> text, number |-> serving]]
    /\ UNCHANGED <<serving, stopping, link, documentState, wireState, overtaken>>

EditorReturns(e) == editor' = [editor EXCEPT ![e] = IdleEditor]
EditorWaits(e) == editor' = [editor EXCEPT ![e] = [IdleEditor EXCEPT !.at = "waiting"]]

\* The server is stopping, or was replaced meanwhile.
ServerIsGone(e) ==
    /\ editor[e].at \in {"sync", "close"}
    /\ editor[e].number # link.number \/ (editor[e].at = "sync" /\ link.closing)
    /\ EditorReturns(e)
    /\ UNCHANGED <<serving, stopping, link, documentState, wireState, edits, overtaken>>

EditorCalls(e, call) == editor[e].at = call /\ editor[e].number = link.number

\* The change a timer or a message belongs to is still the pending one.
IsPending(id) == pendingChange # NoPending /\ pendingChange.id = id

NextChange == changes + 1

Timer(id, generation) == [id |-> id, generation |-> generation]

\* A mutant: a change is sent while another message of it is under way.
OnlyOpening == pendingChange.opening

\* A message of the pending change is under way.
BeingSent == pendingChange.opening \/ pendingChange.flushing

\* The call joins the pending change; its text replaces another one, and is due
\* after a new debounce unless the change is being sent.
JoinChange(e) ==
    /\ EditorCalls(e, "sync") /\ ~link.closing
    /\ pendingChange # NoPending
    /\ IF pendingChange.text = editor[e].text
       THEN UNCHANGED <<pendingChange, debounce>>
       ELSE /\ pendingChange' = [pendingChange EXCEPT !.text = editor[e].text,
                                                       !.generation = @ + 1]
            /\ debounce' = IF BeingSent
                           THEN debounce
                           ELSE debounce \cup {Timer(pendingChange.id, pendingChange.generation + 1)}
    /\ EditorWaits(e)
    /\ UNCHANGED <<serving, stopping, link, doc, changes, waitedFor, wireState, edits, overtaken>>

OpenDocument(e) ==
    /\ EditorCalls(e, "sync") /\ ~link.closing
    /\ pendingChange = NoPending /\ doc.version = 0
    /\ pendingChange' = [id |-> NextChange, text |-> editor[e].text, generation |-> 1,
                  opening |-> TRUE, flushing |-> TRUE]
    /\ changes' = NextChange /\ waitedFor' = waitedFor \cup {NextChange}
    /\ Notify(Notification("didOpen", NextChange, 1, 1, editor[e].text, NoText))
    /\ overtaken' = (overtaken \/ outbox # {})
    /\ EditorWaits(e)
    /\ UNCHANGED <<serving, stopping, link, doc, debounce, edits>>

\* Nothing to do: the server has the text.
AlreadySynced(e) ==
    /\ EditorCalls(e, "sync") /\ ~link.closing
    /\ pendingChange = NoPending /\ doc.version > 0 /\ doc.text = editor[e].text
    /\ EditorReturns(e)
    /\ UNCHANGED <<serving, stopping, link, documentState, wireState, edits, overtaken>>

NewDocumentChange(e) ==
    /\ EditorCalls(e, "sync") /\ ~link.closing
    /\ pendingChange = NoPending /\ doc.version > 0 /\ doc.text # editor[e].text
    /\ pendingChange' = [id |-> NextChange, text |-> editor[e].text, generation |-> 1,
                  opening |-> FALSE, flushing |-> FALSE]
    /\ changes' = NextChange /\ waitedFor' = waitedFor \cup {NextChange}
    /\ debounce' = debounce \cup {Timer(NextChange, 1)}
    /\ EditorWaits(e)
    /\ UNCHANGED <<serving, stopping, link, doc, wireState, edits, overtaken>>

\* The change completes, or the waiter's own, longer deadline passes.
WaitDocumentChange(e) ==
    /\ editor[e].at = "waiting"
    /\ EditorReturns(e)
    /\ UNCHANGED <<serving, stopping, link, documentState, wireState, edits, overtaken>>

\* The pending change is cancelled, whatever of it is under way.
CloseDocument(e) ==
    /\ EditorCalls(e, "close")
    /\ doc' = NoDocument
    /\ pendingChange' = NoPending
    /\ waitedFor' = {id \in waitedFor : ~IsPending(id)}
    /\ Notify(Notification("didClose", 0, edits, 0, NoText, NoText))
    /\ overtaken' = (overtaken \/ outbox # {})
    /\ EditorReturns(e)
    /\ UNCHANGED <<serving, stopping, link, changes, debounce, edits>>

-----------------------------------------------------------------------------
(* The goroutines of a pending change.                                     *)

\* With nil or the error of the write, which is up to the callers.
CompleteChange ==
    /\ pendingChange' = NoPending
    /\ waitedFor' = waitedFor \ {pendingChange.id}

\* The debounce ends.
FlushDocumentChange(t) ==
    /\ t \in debounce
    /\ debounce' = debounce \ {t}
    /\ UNCHANGED <<serving, stopping, link, doc, changes, editor, edits, overtaken>>
    /\ IF ~(IsPending(t.id) /\ pendingChange.generation = t.generation /\ ~BeingSent)
       THEN UNCHANGED <<pendingChange, waitedFor, wireState>>
       ELSE IF pendingChange.text = doc.text
       THEN CompleteChange /\ UNCHANGED wireState
       ELSE /\ pendingChange' = [pendingChange EXCEPT !.flushing = TRUE]
            /\ Notify(Notification("didChange", t.id, t.generation, doc.version + 1,
                            pendingChange.text, doc.text))
            /\ UNCHANGED waitedFor

\* The sender learns how its write ended: sendDocumentOpen, finishDocumentChange.
FinishDocumentChange(s) ==
    LET m == s.message IN
    /\ s \in senders /\ s.write # "waiting"
    /\ senders' = senders \ {s}
    /\ UNCHANGED <<serving, stopping, link, changes, outbox, remote, editor, edits, overtaken>>
    /\ IF ~IsPending(m.id) THEN UNCHANGED <<doc, pendingChange, waitedFor, debounce>>
       ELSE IF s.write = "error" THEN CompleteChange /\ UNCHANGED <<doc, debounce>>
       ELSE /\ doc' = [version |-> m.version, text |-> m.text]
            /\ IF /\ pendingChange.text = m.text
                  /\ m.kind = "didOpen" \/ pendingChange.generation = m.generation
               THEN CompleteChange /\ UNCHANGED debounce
               ELSE /\ pendingChange' = [pendingChange EXCEPT !.opening = FALSE, !.flushing = FALSE]
                    /\ debounce' = debounce \cup {Timer(m.id, pendingChange.generation)}
                    /\ UNCHANGED waitedFor

-----------------------------------------------------------------------------
(* The life of the server.                                                 *)

\* A stop, or the rebuild of a connection whose writes failed too often.
DetachServer ==
    /\ stopping = "no" /\ serving # 0
    /\ serving' = 0 /\ stopping' = "detached"
    /\ UNCHANGED <<link, documentState, wireState, editor, edits, overtaken>>

BeginClosing ==
    /\ stopping = "detached"
    /\ stopping' = "closing"
    /\ link' = [link EXCEPT !.closing = TRUE]
    /\ pendingChange' = NoPending
    /\ waitedFor' = {id \in waitedFor : ~IsPending(id)}
    /\ UNCHANGED <<serving, doc, changes, debounce, wireState, editor, edits, overtaken>>

StopLSPProcess ==
    /\ stopping = "closing"
    /\ stopping' = "no"
    /\ link' = [link EXCEPT !.connected = FALSE]
    /\ UNCHANGED <<serving, documentState, wireState, editor, edits, overtaken>>

\* The process ends by itself; the observer removes it from the table later.
ServerExits ==
    /\ link.connected /\ stopping = "no"
    /\ link' = [link EXCEPT !.connected = FALSE]
    /\ UNCHANGED <<serving, stopping, documentState, wireState, editor, edits, overtaken>>

ObserveLSPProcess ==
    /\ ~link.connected /\ serving = link.number
    /\ serving' = 0
    /\ UNCHANGED <<stopping, link, documentState, wireState, editor, edits, overtaken>>

\* A new process of the same server knows no document.  What the old one left
\* fails on its own.
StartLSPServer ==
    /\ stopping = "no" /\ serving = 0 /\ link.number < MaxServers
    /\ serving' = link.number + 1
    /\ link' = NewLink(link.number + 1, link.kind)
    /\ doc' = NoDocument /\ pendingChange' = NoPending /\ debounce' = {}
    /\ changes' = 0 /\ waitedFor' = {}
    /\ senders' = {} /\ outbox' = {} /\ remote' = NoDocument
    /\ overtaken' = FALSE
    /\ UNCHANGED <<stopping, editor, edits>>

SyncNext ==
    \/ \E e \in Editors, text \in Texts : FindServer(e, "sync", text)
    \/ \E e \in Editors : \/ FindServer(e, "close", NoText)
                          \/ ServerIsGone(e)
                          \/ JoinChange(e)
                          \/ OpenDocument(e)
                          \/ AlreadySynced(e)
                          \/ NewDocumentChange(e)
                          \/ WaitDocumentChange(e)
                          \/ CloseDocument(e)
    \/ \E message \in outbox : WriteNotification(message) \/ NotifyFails(message)
    \/ \E s \in senders : NotifyTimeout(s) \/ FinishDocumentChange(s)
    \/ \E t \in debounce : FlushDocumentChange(t)
    \/ DetachServer
    \/ BeginClosing
    \/ StopLSPProcess
    \/ ServerExits
    \/ ObserveLSPProcess
    \/ StartLSPServer

SyncSpec == SyncInit /\ [][SyncNext]_syncVars

-----------------------------------------------------------------------------
(* Properties.                                                             *)

Documents == [version : Nat, text : Texts \cup {NoText, Garbled}]

\* Types of the variables.
SyncTypeOK ==
    /\ serving \in 0 .. MaxServers
    /\ stopping \in {"no", "detached", "closing"}
    /\ link \in [number : 1 .. MaxServers, connected : BOOLEAN, closing : BOOLEAN,
                 kind : {"full", "incremental"}]
    /\ doc \in Documents /\ remote \in Documents
    /\ pendingChange = NoPending \/ pendingChange \in
            [id : 1 .. changes, text : Texts, generation : Nat \ {0},
             opening : BOOLEAN, flushing : BOOLEAN]
    /\ changes \in Nat /\ waitedFor \subseteq 1 .. changes
    /\ \A s \in senders : s.write \in {"waiting", "nil", "error"}
    /\ edits \in 0 .. MaxEdits /\ overtaken \in BOOLEAN

\* No waiter of a sync is left alone: a change that has not completed is the
\* pending one, and exactly what will complete it is under way, the sender of its
\* message or the timer of its last generation (lsp_service_sync.go
\* flushDocumentChange, sendDocumentOpen, finishDocumentChange).
NoStrandedSync ==
    \A id \in waitedFor :
        /\ IsPending(id)
        /\ IF pendingChange.flushing
           THEN \E s \in senders : s.message.id = id
           ELSE Timer(id, pendingChange.generation) \in debounce

\* Between messages the server's copy of an open document is the client's, the
\* version too, however calls, debounces and failed writes interleave; unless a
\* message was overtaken, by the deadline of its write or by a close or an open
\* that did not wait for it (lsp_service_sync.go).
ServerHasTheText ==
    senders = {} /\ outbox = {} /\ doc.version > 0 /\ ~overtaken
    /\ link.connected /\ ~link.closing
        => remote = doc
=============================================================================
