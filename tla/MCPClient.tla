------------------------------- MODULE MCPClient -------------------------------
(***************************************************************************)
(* The client of one MCP server (src/services/mcp_client.go): the calls    *)
(* that wait for a response, the one reader of the transport that serves   *)
(* them, the cached list of tools and its invalidation by notifications.   *)
(* The lists of resources and of prompts have the same shape as the tools. *)
(*                                                                         *)
(* The server's list is a version number.  A response carries the version  *)
(* the list had when the server answered; a notification the version that  *)
(* made the server send it.  Messages may be read in any order.            *)
(***************************************************************************)
EXTENDS Naturals, FiniteSets

CONSTANTS
    Listers,         \* callers of ListTools, listToolsFresh and CallTool
    NoLister,
    HandlerLimit,    \* mcpNotificationHandlerLimit
    MaxServed,       \* bound: versions of the server's list
    MaxCalls         \* bound: request ids

ASSUME ClientAssumption ==
    /\ NoLister \notin Listers
    /\ HandlerLimit \in Nat /\ MaxServed \in Nat \ {0} /\ MaxCalls \in Nat

VARIABLES
    served,          \* version of the server's list
    wire,            \* messages from the server that are not read yet
    announced,       \* newest version in a notification the reader has handled
    transport,       \* open, failed (the reader has ended) or stopped
    clientClosed,
    stopReturned,
    cache,           \* valid flag and version of the cached list
    invalidation,    \* generation: notifications handled so far
    refresher,       \* the caller that refreshes the cache
    nextId,
    pending,         \* ids of calls that have not been answered
    handlers,        \* callbacks accepted for list changes
    lister

clientVars == <<served, wire, announced, transport, clientClosed, stopReturned, cache,
                invalidation, refresher, nextId, pending, handlers, lister>>

cacheState == <<cache, invalidation, refresher>>
serverSide == <<served, wire>>
stopState == <<transport, clientClosed, stopReturned>>

\* A caller: what it asks for, the version announced when it began, whether the
\* cache was filled since, the generation and the id of its fetch, the reply.
NewLister == [at |-> "new", kind |-> "cached", began |-> 0, filled |-> FALSE,
              generation |-> 0, id |-> 0, reply |-> "none", version |-> 0]

Lister(c, stage) == lister[c].at = stage

\* run.calls: calls and callbacks that a stop waits for.
InCall(c) == lister[c].at \in {"sending", "waiting"}

Higher(a, b) == IF a > b THEN a ELSE b

-----------------------------------------------------------------------------
(* The server.                                                             *)

ChangeList ==
    /\ served < MaxServed /\ transport = "open"
    /\ served' = served + 1
    /\ wire' = wire \cup {[type |-> "changed", id |-> 0, version |-> served + 1]}
    /\ UNCHANGED <<announced, stopState, cacheState, nextId, pending, handlers, lister>>

\* Answers a request that was sent, once.
Answer(c) ==
    /\ Lister(c, "waiting") /\ lister[c].reply = "none"
    /\ transport = "open"
    /\ \A m \in wire : m.id # lister[c].id
    /\ wire' = wire \cup {[type |-> "response", id |-> lister[c].id, version |-> served]}
    /\ UNCHANGED <<served, announced, stopState, cacheState, nextId, pending, handlers,
                   lister>>

-----------------------------------------------------------------------------
(* The reader of the transport.                                            *)

\* Whoever waits for one of the calls gets the reply in its own channel.
Replied(ids, reply, version) ==
    [c \in Listers |->
        IF InCall(c) /\ lister[c].id \in ids
        THEN [lister[c] EXCEPT !.reply = reply, !.version = version]
        ELSE lister[c]]

DispatchResponse(m) ==
    /\ transport = "open" /\ m \in wire /\ m.type = "response"
    /\ wire' = wire \ {m}
    /\ pending' = pending \ {m.id}
    /\ lister' = Replied({m.id} \cap pending, "list", m.version)
    /\ UNCHANGED <<served, announced, stopState, cacheState, nextId, handlers>>

\* The cache is invalid before the callback runs; a callback too many is dropped.
HandleTransportNotification(m) ==
    /\ transport = "open" /\ m \in wire /\ m.type = "changed"
    /\ wire' = wire \ {m}
    /\ announced' = Higher(announced, m.version)
    /\ cache' = [cache EXCEPT !.valid = FALSE]
    /\ invalidation' = invalidation + 1
    /\ handlers' = IF handlers < HandlerLimit THEN handlers + 1 ELSE handlers
    /\ UNCHANGED <<served, stopState, refresher, nextId, pending, lister>>

\* The callback of the service: it refreshes the catalog of the agent.
HandlerEnds ==
    /\ handlers > 0
    /\ handlers' = handlers - 1
    /\ UNCHANGED <<serverSide, announced, stopState, cacheState, nextId, pending, lister>>

\* The transport breaks: the reader fails every call and refuses later ones.
FailPendingForTransport ==
    /\ transport = "open"
    /\ transport' = "failed"
    /\ wire' = {}
    /\ pending' = {}
    /\ lister' = Replied(pending, "error", 0)
    /\ UNCHANGED <<served, announced, clientClosed, stopReturned, cacheState, nextId,
                   handlers>>

-----------------------------------------------------------------------------
(* Listing the tools.                                                      *)

UnchangedByCaller == UNCHANGED <<serverSide, announced, stopState, handlers>>

ListTools(c, kind) ==
    /\ Lister(c, "new")
    /\ lister' = [lister EXCEPT ![c] = [NewLister EXCEPT !.at = "begun", !.kind = kind,
                                                        !.began = announced]]
    /\ UNCHANGED <<cacheState, nextId, pending>> /\ UnchangedByCaller

ListerReturns(c, reply, version) ==
    [NewLister EXCEPT !.at = "returned", !.kind = lister[c].kind, !.began = lister[c].began,
                      !.reply = reply, !.version = version]

Returns(c, reply, version) ==
    lister' = [lister EXCEPT ![c] = ListerReturns(c, reply, version)]

\* A fresh listing accepts only what was cached after it began.
CacheHit(c) ==
    /\ Lister(c, "begun")
    /\ cache.valid
    /\ lister[c].kind = "fresh" => lister[c].filled
    /\ Returns(c, "list", cache.version)
    /\ UNCHANGED <<cacheState, nextId, pending>> /\ UnchangedByCaller

\* One caller refreshes; another waits for it and looks again, or is cancelled.
StartRefresh(c) ==
    /\ Lister(c, "begun")
    /\ refresher = NoLister
    /\ cache.valid => ~lister[c].filled     \* expired, or too old for the caller
    /\ refresher' = c
    /\ lister' = [lister EXCEPT ![c].at = "calling", ![c].generation = invalidation]
    /\ UNCHANGED <<cache, invalidation, nextId, pending>> /\ UnchangedByCaller

CancelWait(c) ==
    /\ Lister(c, "begun") /\ refresher # NoLister
    /\ Returns(c, "error", 0)
    /\ UNCHANGED <<cacheState, nextId, pending>> /\ UnchangedByCaller

\* A call of a tool has no cache and waits for no refresh.
CallTool(c) ==
    /\ Lister(c, "new")
    /\ lister' = [lister EXCEPT ![c] = [NewLister EXCEPT !.at = "calling", !.kind = "call",
                                                        !.began = announced]]
    /\ UNCHANGED <<cacheState, nextId, pending>> /\ UnchangedByCaller

\* Mutant: only a stopped client refuses a call.
NotStopped == transport # "stopped"

Connected == transport = "open"

\* The call is registered before it is sent; a dead transport refuses it.
RegisterCall(c) ==
    /\ Lister(c, "calling")
    /\ IF Connected
       THEN /\ nextId <= MaxCalls
            /\ nextId' = nextId + 1
            /\ pending' = pending \cup {nextId}
            /\ lister' = [lister EXCEPT ![c].at = "sending", ![c].id = nextId]
       ELSE /\ lister' = [lister EXCEPT ![c].at = "fetched", ![c].reply = "error"]
            /\ UNCHANGED <<nextId, pending>>
    /\ UNCHANGED cacheState /\ UnchangedByCaller

Send(c) ==
    /\ Lister(c, "sending")
    /\ lister' = [lister EXCEPT ![c].at = "waiting"]
    /\ UNCHANGED <<cacheState, nextId, pending>> /\ UnchangedByCaller

\* The send fails or the caller is cancelled: its call is forgotten, and with
\* it a reply that is already on its way.
AbandonCall(c) ==
    /\ InCall(c)
    /\ pending' = pending \ {lister[c].id}
    /\ lister' = [lister EXCEPT ![c].at = "fetched", ![c].reply = "error", ![c].version = 0]
    /\ UNCHANGED <<cacheState, nextId>> /\ UnchangedByCaller

ReceiveReply(c) ==
    /\ Lister(c, "waiting") /\ lister[c].reply # "none"
    /\ lister' = [lister EXCEPT ![c].at = "fetched"]
    /\ UNCHANGED <<cacheState, nextId, pending>> /\ UnchangedByCaller

\* Mutant: whatever was fetched is cached.
CachedAnyway(c) == TRUE

\* No notification has overtaken the list.
Cacheable(c) == lister[c].generation = invalidation

\* Only such a list is cached; it is returned in any case, and the waiting
\* callers look again.
FinishRefresh(c) ==
    LET caches == lister[c].reply = "list" /\ ~clientClosed /\ Cacheable(c)
    IN  /\ Lister(c, "fetched") /\ lister[c].kind # "call"
        /\ cache' = IF caches THEN [valid |-> TRUE, version |-> lister[c].version] ELSE cache
        /\ refresher' = NoLister
        /\ lister' = [d \in Listers |->
                         IF d = c THEN ListerReturns(c, lister[c].reply, lister[c].version)
                         ELSE [lister[d] EXCEPT !.filled = @ \/ (caches /\ Lister(d, "begun"))]]
        /\ UNCHANGED <<invalidation, nextId, pending>> /\ UnchangedByCaller

FinishCall(c) ==
    /\ Lister(c, "fetched") /\ lister[c].kind = "call"
    /\ Returns(c, lister[c].reply, lister[c].version)
    /\ UNCHANGED <<cacheState, nextId, pending>> /\ UnchangedByCaller

\* The caller asks again later.
AskAgain(c) ==
    /\ Lister(c, "returned")
    /\ lister' = [lister EXCEPT ![c] = NewLister]
    /\ UNCHANGED <<cacheState, nextId, pending>> /\ UnchangedByCaller

-----------------------------------------------------------------------------
(* Stopping.                                                               *)

\* Everything is cleared in one step; the calls in flight are failed after it.
StopServer ==
    /\ ~clientClosed
    /\ clientClosed' = TRUE
    /\ transport' = "stopped"
    /\ wire' = {}
    /\ pending' = {}
    /\ lister' = Replied(pending, "error", 0)
    /\ cache' = [valid |-> FALSE, version |-> 0]
    /\ invalidation' = 0
    /\ UNCHANGED <<served, announced, stopReturned, refresher, nextId, handlers>>

\* The reader has ended, and so have the calls and the accepted callbacks.
StopReturns ==
    /\ clientClosed /\ ~stopReturned
    /\ handlers = 0
    /\ \A c \in Listers : ~InCall(c)
    /\ stopReturned' = TRUE
    /\ UNCHANGED <<serverSide, announced, transport, clientClosed, cacheState, nextId,
                   pending, handlers, lister>>

-----------------------------------------------------------------------------
(* The specification.                                                      *)

ClientInit ==
    /\ served = 1 /\ wire = {} /\ announced = 0
    /\ transport = "open" /\ clientClosed = FALSE /\ stopReturned = FALSE
    /\ cache = [valid |-> FALSE, version |-> 0]
    /\ invalidation = 0 /\ refresher = NoLister
    /\ nextId = 1 /\ pending = {} /\ handlers = 0
    /\ lister = [c \in Listers |-> NewLister]

ClientNext ==
    \/ ChangeList \/ HandlerEnds \/ FailPendingForTransport \/ StopServer \/ StopReturns
    \/ \E m \in wire : DispatchResponse(m) \/ HandleTransportNotification(m)
    \/ \E c \in Listers :
          \/ Answer(c) \/ CacheHit(c) \/ StartRefresh(c) \/ CancelWait(c) \/ RegisterCall(c)
          \/ Send(c) \/ AbandonCall(c) \/ ReceiveReply(c) \/ FinishRefresh(c)
          \/ CallTool(c) \/ FinishCall(c) \/ AskAgain(c)
          \/ \E kind \in {"cached", "fresh"} : ListTools(c, kind)

ClientSpec == ClientInit /\ [][ClientNext]_clientVars

-----------------------------------------------------------------------------
(* Properties.                                                             *)

\* Types of the variables.
ClientTypeOK ==
    /\ served \in 1 .. MaxServed /\ announced \in 0 .. MaxServed
    /\ transport \in {"open", "failed", "stopped"}
    /\ cache \in [valid : BOOLEAN, version : 0 .. MaxServed]
    /\ refresher \in Listers \cup {NoLister}
    /\ pending \subseteq 1 .. MaxCalls /\ nextId \in 1 .. MaxCalls + 1
    /\ handlers \in 0 .. HandlerLimit

\* No caller is given a list that was already out of date, by a notification the
\* reader had handled, when the caller asked; the cache never holds one that is
\* out of date now (listTools, the generation of the fetch).
ListIsCurrent ==
    /\ cache.valid => cache.version >= announced
    /\ \A c \in Listers :
         lister[c].at = "returned" /\ lister[c].reply = "list" =>
             lister[c].version >= lister[c].began

\* A caller without a reply is known to the reader, which is alive; once the
\* stop has returned nobody waits and no callback runs (call, stopTransport).
NoLostWaiter ==
    /\ \A c \in Listers :
         /\ Lister(c, "waiting") /\ lister[c].reply = "none" =>
                lister[c].id \in pending /\ transport = "open"
         /\ refresher = c <=> /\ lister[c].kind # "call"
                              /\ lister[c].at \in {"calling", "sending", "waiting", "fetched"}
    /\ stopReturned => pending = {} /\ handlers = 0 /\ \A c \in Listers : ~InCall(c)
=============================================================================
