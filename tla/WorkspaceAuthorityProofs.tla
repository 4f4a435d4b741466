---------------------- MODULE WorkspaceAuthorityProofs ----------------------
(***************************************************************************)
(* The locks around the workspace exclude what they are meant to exclude,  *)
(* and the tool catalog follows the workspace, for every set of threads of *)
(* each kind.                                                              *)
(*                                                                         *)
(* The argument has three layers.  A read-write lock counts: what a thread *)
(* holds of it, or waits for, is a function of where the thread is.  So    *)
(* only a project switch that has drained the readers changes a root, and  *)
(* a refresh that reads the roots never overlaps it.  And whenever the     *)
(* catalog is behind the roots or the tools, some thread is on its way to  *)
(* refresh it, or the switch has noted that it must.                       *)
(***************************************************************************)
EXTENDS WorkspaceAuthority, TLAPS

-----------------------------------------------------------------------------
(* The read-write lock.                                                    *)

\* What a thread holds of the read side, or waits for.
Claims(mu, t) == mu.active[t] + IF t \in mu.queued THEN 1 ELSE 0

Sound(mu) ==
    /\ mu \in Mutexes
    /\ mu.held => mu.writer # NoThread /\ Drained(mu)
    /\ mu.queued # {} => mu.writer # NoThread

\* A lock has all its fields, and nothing else.
LEMMA MutexFields ==
    ASSUME NEW mu \in Mutexes
    PROVE  /\ mu.active \in [Threads -> 0 .. 2] /\ mu.queued \in SUBSET Threads
           /\ mu.writer \in Threads \cup {NoThread} /\ mu.held \in BOOLEAN
BY DEF Mutexes

\* RLock: one claim more.
LEMMA RLockClaims ==
    ASSUME NEW mu, NEW now, NEW t \in Threads, now = RLocked(mu, t), Sound(mu),
           t \notin mu.queued, Claims(mu, t) \in {0, 1}
    PROVE  /\ Sound(now)
           /\ now.writer = mu.writer /\ now.held = mu.held
           /\ Claims(now, t) = Claims(mu, t) + 1
           /\ \A q \in Threads \ {t} : Claims(now, q) = Claims(mu, q)
           /\ now.queued \subseteq mu.queued \cup {t}
<1>0. /\ mu \in Mutexes
      /\ mu.active \in [Threads -> 0 .. 2] /\ mu.queued \in SUBSET Threads
      /\ mu.writer \in Threads \cup {NoThread} /\ mu.held \in BOOLEAN
  BY MutexFields DEF Sound
<1>a. mu.active[t] <= 1 BY <1>0 DEF Claims
<1>1. CASE mu.writer = NoThread
  <2>1. now = [mu EXCEPT !.active[t] = @ + 1] BY <1>1 DEF RLocked
  <2>2. /\ now.active = [mu.active EXCEPT ![t] = @ + 1] /\ now.queued = mu.queued
        /\ now.writer = mu.writer /\ now.held = mu.held
    BY <1>0, <2>1 DEF Mutexes
  <2>3. now \in Mutexes
    <3>1. mu.active[t] + 1 \in 0 .. 2 BY <1>0, <1>a
    <3>2. [mu.active EXCEPT ![t] = @ + 1] \in [Threads -> 0 .. 2] BY <1>0, <3>1
    <3> QED BY <1>0, <2>1, <3>2 DEF Mutexes
  <2>4. \A q \in Threads : now.active[q] = mu.active[q] + IF q = t THEN 1 ELSE 0
    BY <1>0, <2>2
  <2> QED BY <1>0, <1>1, <2>2, <2>3, <2>4 DEF Sound, Claims
<1>2. CASE mu.writer # NoThread
  <2>1. now = [mu EXCEPT !.queued = @ \cup {t}] BY <1>2 DEF RLocked
  <2>2. /\ now.active = mu.active /\ now.queued = mu.queued \cup {t}
        /\ now.writer = mu.writer /\ now.held = mu.held
    BY <1>0, <2>1 DEF Mutexes
  <2>3. now \in Mutexes BY <1>0, <2>1 DEF Mutexes
  <2> QED BY <1>0, <1>2, <2>2, <2>3 DEF Sound, Claims, Drained
<1> QED BY <1>1, <1>2

\* RUnlock: one claim less.
LEMMA RUnlockClaims ==
    ASSUME NEW mu, NEW now, NEW t \in Threads, now = RUnlocked(mu, t), Sound(mu),
           t \notin mu.queued, Claims(mu, t) \in {1, 2}
    PROVE  /\ Sound(now)
           /\ now.writer = mu.writer /\ now.held = mu.held
           /\ Claims(now, t) = Claims(mu, t) - 1
           /\ \A q \in Threads \ {t} : Claims(now, q) = Claims(mu, q)
           /\ now.queued = mu.queued
<1>0. /\ mu \in Mutexes
      /\ mu.active \in [Threads -> 0 .. 2] /\ mu.queued \in SUBSET Threads
      /\ mu.writer \in Threads \cup {NoThread} /\ mu.held \in BOOLEAN
  BY MutexFields DEF Sound
<1>1. now = [mu EXCEPT !.active[t] = @ - 1] BY DEF RUnlocked
<1>2. /\ now.active = [mu.active EXCEPT ![t] = @ - 1] /\ now.queued = mu.queued
      /\ now.writer = mu.writer /\ now.held = mu.held
  BY <1>0, <1>1 DEF Mutexes
<1>3. mu.active[t] >= 1 BY <1>0 DEF Claims
<1>4. now \in Mutexes
  <2>1. mu.active[t] - 1 \in 0 .. 2 BY <1>0, <1>3
  <2>2. [mu.active EXCEPT ![t] = @ - 1] \in [Threads -> 0 .. 2] BY <1>0, <2>1
  <2> QED BY <1>0, <1>1, <2>2 DEF Mutexes
<1>5. \A q \in Threads : now.active[q] = mu.active[q] - IF q = t THEN 1 ELSE 0
  BY <1>0, <1>2
<1>6. ~mu.held BY <1>3 DEF Sound, Drained
<1> QED BY <1>0, <1>2, <1>4, <1>5, <1>6 DEF Sound, Claims

\* Lock, its first half: the lock has a writer.
LEMMA AnnounceClaims ==
    ASSUME NEW mu, NEW now, NEW t \in Threads, now = Announced(mu, t), Sound(mu),
           mu.writer = NoThread
    PROVE  /\ Sound(now)
           /\ now.writer = t /\ ~now.held
           /\ \A q \in Threads : Claims(now, q) = Claims(mu, q)
           /\ now.queued = mu.queued
<1>0. /\ mu \in Mutexes /\ mu.held \in BOOLEAN BY MutexFields DEF Sound
<1>1. /\ now.active = mu.active /\ now.queued = mu.queued
      /\ now.writer = t /\ now.held = mu.held /\ now \in Mutexes
  BY <1>0 DEF Announced, Mutexes
<1>2. t # NoThread BY AuthorityAssumption
<1> QED BY <1>0, <1>1, <1>2 DEF Sound, Claims

\* Its second half: no reader is left.
LEMMA LockClaims ==
    ASSUME NEW mu, NEW now, now = Locked(mu), Sound(mu), mu.writer # NoThread, Drained(mu)
    PROVE  /\ Sound(now)
           /\ now.writer = mu.writer /\ now.held
           /\ \A q \in Threads : Claims(now, q) = Claims(mu, q)
           /\ now.queued = mu.queued
<1>0. mu \in Mutexes BY DEF Sound
<1>1. /\ now.active = mu.active /\ now.queued = mu.queued
      /\ now.writer = mu.writer /\ now.held = TRUE /\ now \in Mutexes
  BY <1>0 DEF Locked, Mutexes
<1> QED BY <1>0, <1>1 DEF Sound, Claims, Drained

\* Unlock: who waited to read reads.
LEMMA UnlockClaims ==
    ASSUME NEW mu, NEW now, now = Unlocked(mu), Sound(mu), mu.held
    PROVE  /\ Sound(now)
           /\ now.writer = NoThread /\ ~now.held
           /\ \A q \in Threads : Claims(now, q) = Claims(mu, q)
           /\ now.queued = {}
<1>0. /\ mu \in Mutexes
      /\ mu.active \in [Threads -> 0 .. 2] /\ mu.queued \in SUBSET Threads
  BY MutexFields DEF Sound
<1>1. \A q \in Threads : mu.active[q] = 0 BY DEF Sound, Drained
<1>2. /\ now.active = [q \in Threads |-> mu.active[q] + IF q \in mu.queued THEN 1 ELSE 0]
      /\ now.queued = {} /\ now.writer = NoThread /\ now.held = FALSE
  BY DEF Unlocked
<1>3. now.active \in [Threads -> 0 .. 2] BY <1>1, <1>2
<1>4. now \in Mutexes BY <1>2, <1>3 DEF Unlocked, Mutexes
<1> QED BY <1>0, <1>1, <1>2, <1>4 DEF Sound, Claims

-----------------------------------------------------------------------------
(* The inductive invariant.                                                *)

\* Where a thread of each kind can be.
OnPath(t, l) ==
    /\ t \in Switchers =>
         l \in {"idle", "workflowLock", "workflowDrain", "workspaceLock",
               "workspaceDrain", "defer", "drainRefresh", "setAgent", "setMcp",
               "flush", "catalogLock", "catalogLockAndAsk", "ask", "readAgent",
               "readMcp", "publish", "save", "undoMcp", "undoAgent", "release",
               "workspaceUnlock", "workflowUnlock"}
    /\ t \in Terminals =>
         l \in {"idle", "workflowLock", "workflowDrain", "workspaceRLock",
               "authorized", "workspaceRUnlock", "workflowUnlock"}
    /\ t \in WorkflowTools =>
         l \in {"idle", "workflowRLock", "workspaceRLock", "authorized", "handling",
               "workspaceRUnlock", "workflowRUnlock"}
    /\ t \in PlanTools =>
         l \in {"idle", "workspaceRLock", "authorized", "nestedCatalog",
               "catalogLock", "readAgent", "readMcp", "publish", "nestedRUnlock",
               "provider", "providerAnswered", "workspaceRUnlock"}
    /\ t \in Readers =>
         l \in {"idle", "workspaceRLock", "authorized", "catalogLock", "readAgent",
               "readMcp", "publish", "workspaceRUnlock"}
    /\ t \in Callbacks =>
         l \in {"idle", "toolsChanged", "catalogLockAndAsk", "ask", "readAgent",
               "readMcp", "publish"}

Refreshing == {"catalogLock", "catalogLockAndAsk", "ask", "readAgent", "readMcp", "publish"}

\* Where it goes on after a refresh.
Resumes(t, l, r) ==
    /\ l \notin Refreshing => r = "idle"
    /\ l \in Refreshing =>
         /\ t \in Readers => r = "workspaceRUnlock"
         /\ t \in PlanTools => r = "nestedRUnlock"
         /\ t \in Callbacks => r = "idle"
         /\ t \in Switchers =>
              \/ r = "save" /\ l \notin {"catalogLockAndAsk", "ask"}
              \/ r = "workspaceUnlock" /\ l # "catalogLock"

ControlInv ==
    /\ pc \in [Threads -> Labels]
    /\ resume \in [Threads -> Labels]
    /\ \A t \in Threads : OnPath(t, pc[t]) /\ Resumes(t, pc[t], resume[t])

\* The write side of workflowExecutionMu is announced or held at l.
WritesWorkflow(t, l) == t \in Switchers \cup Terminals /\ l \notin {"idle", "workflowLock"}

WorkflowReads(t, l) ==
    IF t \in WorkflowTools /\ l \notin {"idle", "workflowRLock"} THEN 1 ELSE 0

WorkflowPlace(mu, t, l) ==
    /\ mu.writer = t <=> WritesWorkflow(t, l)
    /\ WritesWorkflow(t, l) => (mu.held <=> l # "workflowDrain")
    /\ Claims(mu, t) = WorkflowReads(t, l)
    /\ t \in mu.queued => l = "workspaceRLock"

WorkflowInv ==
    /\ Sound(workflowMu)
    /\ \A t \in Threads : WorkflowPlace(workflowMu, t, pc[t])

\* The write side of workspaceAuthorityMu is announced or held at l.
WritesWorkspace(t, l) ==
    /\ t \in Switchers
    /\ l \notin {"idle", "workflowLock", "workflowDrain", "workspaceLock", "workflowUnlock"}

\* What a thread at l has asked of the read side.
WorkspaceReads(t, l) ==
    IF \/ t \in Switchers \cup Callbacks
       \/ l \in {"idle", "workflowLock", "workflowDrain", "workflowRLock", "workspaceRLock",
                "workflowUnlock", "workflowRUnlock"}
    THEN 0
    ELSE IF t \in PlanTools /\ l \notin {"authorized", "provider", "workspaceRUnlock"} THEN 2
    ELSE 1

WorkspacePlace(mu, t, l) ==
    /\ mu.writer = t <=> WritesWorkspace(t, l)
    /\ WritesWorkspace(t, l) => (mu.held <=> l # "workspaceDrain")
    /\ Claims(mu, t) = WorkspaceReads(t, l)
    /\ t \in mu.queued => l \in {"authorized", "nestedCatalog", "providerAnswered"}

WorkspaceInv ==
    /\ Sound(workspaceMu)
    /\ \A t \in Threads : WorkspacePlace(workspaceMu, t, pc[t])

HoldsCatalog(l) == l \in {"ask", "readAgent", "readMcp", "publish"}

\* Between DeferRefreshes and ReleaseGuard.
Defers(s, l, r) ==
    /\ s \in Switchers
    /\ \/ l \in {"drainRefresh", "setAgent", "setMcp", "flush", "save", "undoMcp",
                 "undoAgent", "release"}
       \/ l \in Refreshing /\ r = "save"

\* It has drained the refreshes of others, too.
Alone(s, l, r) == Defers(s, l, r) /\ l # "drainRefresh"

DeferralInv ==
    /\ catalogMu \in Threads \cup {NoThread}
    /\ \A t \in Threads : catalogMu = t <=> HoldsCatalog(pc[t])
    /\ pending \in BOOLEAN
    /\ depth \in {0, 1}
    /\ depth = 1 <=> \E s \in Threads : Defers(s, pc[s], resume[s])
    /\ \A c \in Callbacks, s \in Threads :
         pc[c] \in {"readAgent", "readMcp", "publish"} => ~Alone(s, pc[s], resume[s])

Goals == [old : [agent : Workspaces, mcp : Workspaces], new : Workspaces]

\* What a switch at l knows of its goal g and the roots d.  It got past the
\* agent's root only in a lifecycle that is not poisoned, so from roots that
\* agreed.
RootsAt(g, d, poison, s, l, r) ==
    /\ Alone(s, l, r) /\ l # "release" => g \in Goals
    /\ l = "setAgent" => d = g.old
    /\ l = "setMcp" => d.agent = g.new
    /\ Alone(s, l, r) /\ l \notin {"setAgent", "release"} => ~poison /\ g.old.agent = g.old.mcp

Apart == {"setMcp", "undoMcp", "undoAgent"}

SwitchInv ==
    /\ \A s \in Switchers : RootsAt(goal, roots, poisoned, s, pc[s], resume[s])
    /\ (\A s \in Switchers : pc[s] \notin Apart) => roots.agent = roots.mcp \/ poisoned

SeenInv ==
    \A t \in Threads :
        /\ pc[t] = "readMcp" => seen = [agent |-> roots.agent]
        /\ pc[t] = "publish" =>
             seen \in Sources /\ seen.agent = roots.agent /\ seen.mcp = roots.mcp

Fresh == catalog # NoCatalog => catalog.agent = roots.agent /\ catalog.mcp = roots.mcp

\* A switch at l will refresh the catalog, or roll its change back.
WillFollow(p, s, l) ==
    /\ s \in Switchers
    /\ \/ l \in Apart \cup {"flush"} \cup Refreshing
       \/ l = "release" /\ p

FollowInv ==
    /\ catalog # NoCatalog => catalog.agent = catalog.mcp \/ poisoned
    /\ Fresh \/ \E s \in Threads : WillFollow(pending, s, pc[s])

CatalogIsCurrent == catalog # NoCatalog => catalog.version = version

WillRefresh ==
    \/ \E t \in Threads : pc[t] \in Refreshing \ {"publish"}
    \/ depth = 1 /\ pending

VersionInv ==
    /\ CatalogIsCurrent \/ WillRefresh \/ \E t \in Threads : pc[t] = "publish" /\ seen.version = version
    /\ \A t \in Threads : pc[t] = "publish" => seen.version = version \/ WillRefresh

ContentTypes ==
    /\ roots \in [agent : Workspaces, mcp : Workspaces]
    /\ poisoned \in BOOLEAN
    /\ version \in 0 .. MaxVersion
    /\ catalog \in Sources \cup {NoCatalog}
    /\ seen \in Sources \cup [agent : Workspaces] \cup {NoCatalog}
    /\ goal \in Goals \cup {NoGoal}

CatalogInv == ContentTypes /\ SwitchInv /\ SeenInv /\ FollowInv /\ VersionInv

\* No tool works in a lifecycle whose rollback failed.
HandlingInv == \A t \in Threads : Handling(t) => ~poisoned

AuthorityInv ==
    ControlInv /\ WorkflowInv /\ WorkspaceInv /\ DeferralInv /\ CatalogInv /\ HandlingInv

-----------------------------------------------------------------------------
(* Control.                                                                *)

\* A call begins on the path of its kind.
LEMMA EntryOnPath ==
    ASSUME NEW t \in Threads
    PROVE  /\ t \in Switchers \cup Terminals => Entry(t) = "workflowLock"
           /\ t \in WorkflowTools => Entry(t) = "workflowRLock"
           /\ t \in PlanTools \cup Readers => Entry(t) = "workspaceRLock"
           /\ t \in Callbacks => Entry(t) = "toolsChanged"
BY AuthorityAssumption DEF Entry, Threads

\* One thread goes on, to a place of its path.
LEMMA Advance ==
    ASSUME ControlInv, NEW t \in Threads, NEW l \in Labels, NEW r \in Labels,
           pc' = [pc EXCEPT ![t] = l], resume' = [resume EXCEPT ![t] = r],
           OnPath(t, l), Resumes(t, l, r)
    PROVE  ControlInv'
BY DEF ControlInv

\* Every step keeps each thread on the path of its kind, with a return
\* address where it refreshes.
LEMMA ControlStep ==
    ASSUME ControlInv, NEW t \in Threads, Call(t) \/ Step(t)
    PROVE  /\ ControlInv'
           /\ \A q \in Threads : q # t => pc'[q] = pc[q] /\ resume'[q] = resume[q]
<1>0. /\ pc \in [Threads -> Labels] /\ resume \in [Threads -> Labels]
      /\ OnPath(t, pc[t]) /\ Resumes(t, pc[t], resume[t])
  BY DEF ControlInv
<1>1. ASSUME NEW l \in Labels, Goto(t, l), UNCHANGED resume,
             pc[t] \notin Refreshing, l \notin Refreshing, OnPath(t, l)
      PROVE  /\ ControlInv'
             /\ \A q \in Threads : q # t => pc'[q] = pc[q] /\ resume'[q] = resume[q]
  <2>1. resume' = [resume EXCEPT ![t] = resume[t]] BY <1>0, <1>1
  <2>2. Resumes(t, l, resume[t]) BY <1>0, <1>1 DEF Resumes
  <2> QED BY <1>0, <1>1, <2>1, <2>2, Advance DEF Goto
<1>2. ASSUME NEW l \in Labels, Goto(t, l), UNCHANGED resume,
             pc[t] \in Refreshing, l \in Refreshing, OnPath(t, l), Resumes(t, l, resume[t])
      PROVE  /\ ControlInv'
             /\ \A q \in Threads : q # t => pc'[q] = pc[q] /\ resume'[q] = resume[q]
  <2>1. resume' = [resume EXCEPT ![t] = resume[t]] BY <1>0, <1>2
  <2> QED BY <1>0, <1>2, <2>1, Advance DEF Goto
<1>3. ASSUME NEW l \in Labels, NEW r \in Labels, Refresh(t, l, r), OnPath(t, l), Resumes(t, l, r)
      PROVE  /\ ControlInv'
             /\ \A q \in Threads : q # t => pc'[q] = pc[q] /\ resume'[q] = resume[q]
  BY <1>0, <1>3, Advance DEF Refresh, Goto
<1>4. ASSUME NEW l \in Labels, Return(t, l), l \notin Refreshing, OnPath(t, l)
      PROVE  /\ ControlInv'
             /\ \A q \in Threads : q # t => pc'[q] = pc[q] /\ resume'[q] = resume[q]
  <2>1. "idle" \in Labels /\ Resumes(t, l, "idle") BY <1>4 DEF Labels, Resumes
  <2> QED BY <1>0, <1>4, <2>1, Advance DEF Return, Goto
<1> USE AuthorityAssumption DEF At, OnPath, Labels, Refreshing, Threads
<1>5. CASE Call(t)
  BY <1>0, <1>1, <1>5, EntryOnPath DEF Call, contents
<1>6. CASE LockWorkflow(t)
  BY <1>0, <1>1, <1>6 DEF LockWorkflow, contents
<1>7. CASE RLockWorkflow(t)
  BY <1>0, <1>1, <1>7 DEF RLockWorkflow, contents
<1>8. CASE RLockWorkspace(t)
  BY <1>0, <1>1, <1>8 DEF RLockWorkspace, contents
<1>9. CASE RUnlockWorkspace(t)
  BY <1>0, <1>1, <1>9 DEF RUnlockWorkspace, contents
<1>10. CASE UnlockWorkflow(t)
  BY <1>0, <1>1, <1>10 DEF UnlockWorkflow, contents
<1>11. CASE LockCatalog(t)
  BY <1>0, <1>2, <1>11 DEF LockCatalog, contents, Resumes
<1>12. CASE ReadAgent(t)
  BY <1>0, <1>2, <1>12 DEF ReadAgent, Resumes
<1>13. CASE ReadMCP(t)
  BY <1>0, <1>2, <1>13 DEF ReadMCP, Resumes
<1>14. CASE RunToolHandler(t)
  BY <1>0, <1>1, <1>14 DEF RunToolHandler, contents
<1>15. CASE ReadCatalog(t)
  BY <1>0, <1>3, <1>15 DEF ReadCatalog, Resumes
<1>16. CASE ToolsChanged(t)
  BY <1>0, <1>3, <1>16 DEF ToolsChanged, Resumes
<1>17. CASE LockWorkspace(t)
  BY <1>0, <1>1, <1>17 DEF LockWorkspace, contents
<1>18. CASE DeferRefreshes(t)
  BY <1>0, <1>1, <1>18 DEF DeferRefreshes, contents
<1>19. CASE DrainRefresh(t)
  BY <1>0, <1>1, <1>19 DEF DrainRefresh
<1>20. CASE SetAgentRoot(t)
  BY <1>0, <1>1, <1>20 DEF SetAgentRoot
<1>21. CASE SetMCPRoot(t)
  BY <1>0, <1>1, <1>21 DEF SetMCPRoot
<1>22. CASE FlushCatalog(t)
  BY <1>0, <1>3, <1>22 DEF FlushCatalog, Resumes
<1>23. CASE SaveProjects(t)
  BY <1>0, <1>1, <1>23 DEF SaveProjects, contents
<1>24. CASE UndoMCPRoot(t)
  BY <1>0, <1>1, <1>24 DEF UndoMCPRoot
<1>25. CASE UndoAgentRoot(t)
  BY <1>0, <1>1, <1>25 DEF UndoAgentRoot
<1>26. CASE UnlockWorkspace(t)
  BY <1>0, <1>1, <1>26 DEF UnlockWorkspace, contents
<1>27. CASE AdmitRefresh(t)
  BY <1>0, <1>2, <1>4, <1>27 DEF AdmitRefresh, Resumes
<1>28. CASE PublishCatalog(t)
  BY <1>0, <1>4, <1>28 DEF PublishCatalog, Resumes
<1>29. CASE PlanHandler(t)
  BY <1>0, <1>1, <1>3, <1>29 DEF PlanHandler, Resumes
<1>30. CASE ReleaseGuard(t)
  BY <1>0, <1>1, <1>3, <1>30 DEF ReleaseGuard, Resumes
<1>31. CASE RefuseTool(t)
  BY <1>0, <1>1, <1>31 DEF RefuseTool, contents
<1> QED BY <1>5, <1>6, <1>7, <1>8, <1>9, <1>10, <1>11, <1>12, <1>13, <1>14, <1>15, <1>16, <1>17, <1>18, <1>19, <1>20, <1>21, <1>22, <1>23, <1>24, <1>25, <1>26, <1>27, <1>28, <1>29, <1>30, <1>31 DEF Step

-----------------------------------------------------------------------------
(* The two locks.                                                          *)

\* What a step between two lock operations does to the place of a thread.
LEMMA WorkflowRests ==
    ASSUME ControlInv, WorkflowInv, NEW t \in Threads, NEW l,
           pc' = [pc EXCEPT ![t] = l], UNCHANGED workflowMu, t \notin workflowMu.queued,
           WritesWorkflow(t, l) <=> WritesWorkflow(t, pc[t]),
           l # "workflowDrain", pc[t] # "workflowDrain",
           WorkflowReads(t, l) = WorkflowReads(t, pc[t])
    PROVE  WorkflowInv'
<1>1. WorkflowPlace(workflowMu, t, l) BY DEF WorkflowInv, WorkflowPlace
<1>2. \A q \in Threads : pc'[q] = IF q = t THEN l ELSE pc[q] BY DEF ControlInv
<1> QED BY <1>1, <1>2 DEF WorkflowInv

\* The lock and the place of one thread change together.
LEMMA WorkflowMoves ==
    ASSUME ControlInv, WorkflowInv, NEW t \in Threads, NEW l, pc' = [pc EXCEPT ![t] = l],
           Sound(workflowMu'), WorkflowPlace(workflowMu', t, l),
           \A q \in Threads \ {t} : WorkflowPlace(workflowMu', q, pc[q])
    PROVE  WorkflowInv'
<1>1. \A q \in Threads : pc'[q] = IF q = t THEN l ELSE pc[q] BY DEF ControlInv
<1> QED BY <1>1 DEF WorkflowInv

\* Every step keeps the places at workflowExecutionMu.
LEMMA WorkflowStep ==
    ASSUME ControlInv, WorkflowInv, NEW t \in Threads, Call(t) \/ Step(t)
    PROVE  WorkflowInv'
<1>0. /\ pc \in [Threads -> Labels] /\ OnPath(t, pc[t]) /\ Resumes(t, pc[t], resume[t])
      /\ Sound(workflowMu) /\ WorkflowPlace(workflowMu, t, pc[t])
  BY DEF ControlInv, WorkflowInv
<1>1. ASSUME NEW l, Goto(t, l), UNCHANGED workflowMu, t \notin workflowMu.queued,
             t \in Switchers \cup Terminals =>
                 /\ {l, pc[t]} \cap {"workflowDrain"} = {}
                 /\ l \in {"idle", "workflowLock"} <=> pc[t] \in {"idle", "workflowLock"},
             l # "workflowDrain", pc[t] # "workflowDrain",
             t \in WorkflowTools =>
                 (l \in {"idle", "workflowRLock"} <=> pc[t] \in {"idle", "workflowRLock"})
      PROVE  WorkflowInv'
  BY <1>1, WorkflowRests DEF Goto, WritesWorkflow, WorkflowReads
<1>2. CASE LockWorkflow(t)
  <2>1. CASE At(t, "workflowLock") /\ workflowMu.writer = NoThread
             /\ workflowMu' = Announced(workflowMu, t) /\ Goto(t, "workflowDrain")
    <3>1. /\ Sound(workflowMu') /\ workflowMu'.writer = t /\ ~workflowMu'.held
          /\ \A q \in Threads : Claims(workflowMu', q) = Claims(workflowMu, q)
          /\ workflowMu'.queued = workflowMu.queued
      BY <1>0, <2>1, AnnounceClaims
    <3>2. WorkflowPlace(workflowMu', t, "workflowDrain")
      BY <1>0, <2>1, <3>1, AuthorityAssumption DEF WorkflowPlace, WritesWorkflow, WorkflowReads, At, OnPath, Threads
    <3>3. \A q \in Threads \ {t} : WorkflowPlace(workflowMu', q, pc[q])
      BY <2>1, <3>1, AuthorityAssumption DEF WorkflowInv, WorkflowPlace
    <3> QED BY <2>1, <3>1, <3>2, <3>3, WorkflowMoves DEF Goto
  <2>2. ASSUME NEW l \in {"workspaceLock", "workspaceRLock"}, At(t, "workflowDrain"),
               Drained(workflowMu), workflowMu' = Locked(workflowMu), Goto(t, l)
        PROVE  WorkflowInv'
    <3>0. t \in Switchers \cup Terminals /\ workflowMu.writer = t
      BY <1>0, <2>2, AuthorityAssumption DEF WorkflowPlace, WritesWorkflow, At, OnPath, Threads
    <3>1. /\ Sound(workflowMu') /\ workflowMu'.writer = t /\ workflowMu'.held
          /\ \A q \in Threads : Claims(workflowMu', q) = Claims(workflowMu, q)
          /\ workflowMu'.queued = workflowMu.queued
      BY <1>0, <2>2, <3>0, LockClaims, AuthorityAssumption
    <3>2. WorkflowPlace(workflowMu', t, l)
      BY <1>0, <2>2, <3>0, <3>1, AuthorityAssumption DEF WorkflowPlace, WritesWorkflow, WorkflowReads, At
    <3>3. \A q \in Threads \ {t} : WorkflowPlace(workflowMu', q, pc[q])
      BY <3>0, <3>1, AuthorityAssumption DEF WorkflowInv, WorkflowPlace
    <3> QED BY <2>2, <3>1, <3>2, <3>3, WorkflowMoves DEF Goto
  <2> QED BY <1>2, <2>1, <2>2 DEF LockWorkflow
<1>3. CASE RLockWorkflow(t)
  <2>1. /\ t \in WorkflowTools \ (Switchers \cup Terminals) /\ pc[t] = "workflowRLock" /\ t \notin workflowMu.queued
        /\ workflowMu' = RLocked(workflowMu, t) /\ Goto(t, "workspaceRLock")
    BY <1>0, <1>3, AuthorityAssumption DEF RLockWorkflow, At, OnPath, Threads
  <2>2. Claims(workflowMu, t) = 0 /\ workflowMu.writer # t
    BY <1>0, <2>1 DEF WorkflowPlace, WritesWorkflow, WorkflowReads
  <2>3. /\ Sound(workflowMu')
        /\ workflowMu'.writer = workflowMu.writer /\ workflowMu'.held = workflowMu.held
        /\ Claims(workflowMu', t) = Claims(workflowMu, t) + 1
        /\ \A q \in Threads \ {t} : Claims(workflowMu', q) = Claims(workflowMu, q)
        /\ workflowMu'.queued \subseteq workflowMu.queued \cup {t}
    <3>1. Sound(workflowMu) /\ t \notin workflowMu.queued /\ workflowMu' = RLocked(workflowMu, t)
          /\ Claims(workflowMu, t) \in {0, 1}
      BY <1>0, <2>1, <2>2
    <3> QED BY <3>1, RLockClaims
  <2>6. Claims(workflowMu', t) = 1 BY <2>2, <2>3
  <2>4. WorkflowPlace(workflowMu', t, "workspaceRLock")
    BY <2>1, <2>2, <2>3, <2>6 DEF WorkflowPlace, WritesWorkflow, WorkflowReads
  <2>5. ASSUME NEW q \in Threads \ {t} PROVE WorkflowPlace(workflowMu', q, pc[q])
    BY <2>3 DEF WorkflowInv, WorkflowPlace
  <2> QED BY <2>1, <2>3, <2>4, <2>5, WorkflowMoves DEF Goto
<1>4. CASE UnlockWorkflow(t)
  <2>1. CASE At(t, "workflowUnlock") /\ workflowMu' = Unlocked(workflowMu) /\ Goto(t, "idle")
    <3>0. t \in Switchers \cup Terminals /\ workflowMu.writer = t /\ workflowMu.held
      BY <1>0, <2>1, AuthorityAssumption DEF WorkflowPlace, WritesWorkflow, At, OnPath, Threads
    <3>1. /\ Sound(workflowMu') /\ workflowMu'.writer = NoThread /\ ~workflowMu'.held
          /\ \A q \in Threads : Claims(workflowMu', q) = Claims(workflowMu, q)
          /\ workflowMu'.queued = {}
      BY <1>0, <3>0, <2>1, UnlockClaims
    <3>2. WorkflowPlace(workflowMu', t, "idle")
      BY <1>0, <2>1, <3>0, <3>1, AuthorityAssumption DEF WorkflowPlace, WritesWorkflow, WorkflowReads, At
    <3>3. \A q \in Threads \ {t} : WorkflowPlace(workflowMu', q, pc[q])
      BY <3>0, <3>1, AuthorityAssumption DEF WorkflowInv, WorkflowPlace
    <3> QED BY <2>1, <3>1, <3>2, <3>3, WorkflowMoves DEF Goto
  <2>2. CASE At(t, "workflowRUnlock") /\ workflowMu' = RUnlocked(workflowMu, t) /\ Goto(t, "idle")
    <3>0. /\ t \in WorkflowTools \ (Switchers \cup Terminals) /\ workflowMu.writer # t
          /\ t \notin workflowMu.queued /\ Claims(workflowMu, t) = 1
      BY <1>0, <2>2, AuthorityAssumption DEF WorkflowPlace, WritesWorkflow, WorkflowReads, At, OnPath, Threads
    <3>1. /\ Sound(workflowMu')
          /\ workflowMu'.writer = workflowMu.writer /\ workflowMu'.held = workflowMu.held
          /\ Claims(workflowMu', t) = Claims(workflowMu, t) - 1
          /\ \A q \in Threads \ {t} : Claims(workflowMu', q) = Claims(workflowMu, q)
          /\ workflowMu'.queued = workflowMu.queued
      <4>1. Sound(workflowMu) /\ t \notin workflowMu.queued /\ workflowMu' = RUnlocked(workflowMu, t)
            /\ Claims(workflowMu, t) \in {1, 2}
        BY <1>0, <2>2, <3>0
      <4> QED BY <4>1, RUnlockClaims
    <3>2. Claims(workflowMu', t) = 0 BY <3>0, <3>1
    <3>4. WorkflowPlace(workflowMu', t, "idle")
      BY <3>0, <3>1, <3>2 DEF WorkflowPlace, WritesWorkflow, WorkflowReads
    <3>3. ASSUME NEW q \in Threads \ {t} PROVE WorkflowPlace(workflowMu', q, pc[q])
      BY <3>1 DEF WorkflowInv, WorkflowPlace
    <3> QED BY <2>2, <3>1, <3>3, <3>4, WorkflowMoves DEF Goto
  <2> QED BY <1>4, <2>1, <2>2 DEF UnlockWorkflow
<1> USE AuthorityAssumption DEF At, OnPath, Refreshing, Threads
<1>5. CASE Call(t)
  BY <1>0, <1>1, <1>5, EntryOnPath DEF Call, contents, locks
<1>6. CASE RLockWorkspace(t)
  BY <1>0, <1>1, <1>6 DEF RLockWorkspace, contents, locks
<1>7. CASE RUnlockWorkspace(t)
  BY <1>0, <1>1, <1>7 DEF RUnlockWorkspace, contents, locks
<1>8. CASE LockCatalog(t)
  BY <1>0, <1>1, <1>8 DEF LockCatalog, contents, locks
<1>9. CASE ReadAgent(t)
  BY <1>0, <1>1, <1>9 DEF ReadAgent, locks
<1>10. CASE ReadMCP(t)
  BY <1>0, <1>1, <1>10 DEF ReadMCP, locks
<1>11. CASE RunToolHandler(t)
  BY <1>0, <1>1, <1>11 DEF RunToolHandler, contents, locks
<1>12. CASE ReadCatalog(t)
  BY <1>0, <1>1, <1>12 DEF ReadCatalog, Refresh, locks
<1>13. CASE ToolsChanged(t)
  BY <1>0, <1>1, <1>13 DEF ToolsChanged, Refresh, locks
<1>14. CASE LockWorkspace(t)
  BY <1>0, <1>1, <1>14 DEF LockWorkspace, contents, locks
<1>15. CASE DeferRefreshes(t)
  BY <1>0, <1>1, <1>15 DEF DeferRefreshes, contents, locks
<1>16. CASE DrainRefresh(t)
  BY <1>0, <1>1, <1>16 DEF DrainRefresh, locks
<1>17. CASE SetAgentRoot(t)
  BY <1>0, <1>1, <1>17 DEF SetAgentRoot, locks
<1>18. CASE SetMCPRoot(t)
  BY <1>0, <1>1, <1>18 DEF SetMCPRoot, locks
<1>19. CASE FlushCatalog(t)
  BY <1>0, <1>1, <1>19 DEF FlushCatalog, Refresh, locks
<1>20. CASE SaveProjects(t)
  BY <1>0, <1>1, <1>20 DEF SaveProjects, contents, locks
<1>21. CASE UndoMCPRoot(t)
  BY <1>0, <1>1, <1>21 DEF UndoMCPRoot, locks
<1>22. CASE UndoAgentRoot(t)
  BY <1>0, <1>1, <1>22 DEF UndoAgentRoot, locks
<1>23. CASE UnlockWorkspace(t)
  BY <1>0, <1>1, <1>23 DEF UnlockWorkspace, contents, locks
<1>24. CASE AdmitRefresh(t)
  BY <1>0, <1>1, <1>24 DEF AdmitRefresh, Return, Resumes, locks
<1>25. CASE PublishCatalog(t)
  BY <1>0, <1>1, <1>25 DEF PublishCatalog, Return, Resumes, locks
<1>26. CASE PlanHandler(t)
  BY <1>0, <1>1, <1>26 DEF PlanHandler, Refresh, locks
<1>27. CASE ReleaseGuard(t)
  BY <1>0, <1>1, <1>27 DEF ReleaseGuard, Refresh, locks
<1>28. CASE RefuseTool(t)
  BY <1>0, <1>1, <1>28 DEF RefuseTool, contents, locks
<1> QED BY <1>2, <1>3, <1>4, <1>5, <1>6, <1>7, <1>8, <1>9, <1>10, <1>11, <1>12, <1>13, <1>14, <1>15, <1>16, <1>17, <1>18, <1>19, <1>20, <1>21, <1>22, <1>23, <1>24, <1>25, <1>26, <1>27, <1>28 DEF Step

\* What a step between two lock operations does to the place of a thread.
LEMMA WorkspaceRests ==
    ASSUME ControlInv, WorkspaceInv, NEW t \in Threads, NEW l,
           pc' = [pc EXCEPT ![t] = l], UNCHANGED workspaceMu, t \notin workspaceMu.queued,
           WritesWorkspace(t, l) <=> WritesWorkspace(t, pc[t]),
           l # "workspaceDrain", pc[t] # "workspaceDrain",
           WorkspaceReads(t, l) = WorkspaceReads(t, pc[t])
    PROVE  WorkspaceInv'
<1>1. WorkspacePlace(workspaceMu, t, l) BY DEF WorkspaceInv, WorkspacePlace
<1>2. \A q \in Threads : pc'[q] = IF q = t THEN l ELSE pc[q] BY DEF ControlInv
<1> QED BY <1>1, <1>2 DEF WorkspaceInv

\* The lock and the place of one thread change together.
LEMMA WorkspaceMoves ==
    ASSUME ControlInv, WorkspaceInv, NEW t \in Threads, NEW l, pc' = [pc EXCEPT ![t] = l],
           Sound(workspaceMu'), WorkspacePlace(workspaceMu', t, l),
           \A q \in Threads \ {t} : WorkspacePlace(workspaceMu', q, pc[q])
    PROVE  WorkspaceInv'
<1>1. \A q \in Threads : pc'[q] = IF q = t THEN l ELSE pc[q] BY DEF ControlInv
<1> QED BY <1>1 DEF WorkspaceInv

\* Every step keeps the places at workspaceAuthorityMu.
LEMMA WorkspaceStep ==
    ASSUME ControlInv, WorkspaceInv, NEW t \in Threads, Call(t) \/ Step(t)
    PROVE  WorkspaceInv'
<1>0. /\ pc \in [Threads -> Labels] /\ OnPath(t, pc[t]) /\ Resumes(t, pc[t], resume[t])
      /\ Sound(workspaceMu) /\ WorkspacePlace(workspaceMu, t, pc[t])
  BY DEF ControlInv, WorkspaceInv
<1>1. ASSUME NEW l, Goto(t, l), UNCHANGED workspaceMu, t \notin workspaceMu.queued,
             t \in Switchers =>
                 (l \in {"idle", "workflowLock", "workflowDrain", "workspaceLock", "workflowUnlock"}
                  <=> pc[t] \in {"idle", "workflowLock", "workflowDrain", "workspaceLock",
                                 "workflowUnlock"}),
             l # "workspaceDrain", pc[t] # "workspaceDrain",
             WorkspaceReads(t, l) = WorkspaceReads(t, pc[t])
      PROVE  WorkspaceInv'
  BY <1>1, WorkspaceRests DEF Goto, WritesWorkspace
<1>2. ASSUME NEW l, l \in {"authorized", "nestedCatalog", "providerAnswered"}, Goto(t, l),
             workspaceMu' = RLocked(workspaceMu, t), t \notin workspaceMu.queued, t \notin Switchers,
             \/ WorkspaceReads(t, pc[t]) = 0 /\ WorkspaceReads(t, l) = 1
             \/ WorkspaceReads(t, pc[t]) = 1 /\ WorkspaceReads(t, l) = 2
      PROVE  WorkspaceInv'
  <2>1. Claims(workspaceMu, t) = WorkspaceReads(t, pc[t]) /\ workspaceMu.writer # t
    BY <1>0, <1>2 DEF WorkspacePlace, WritesWorkspace
  <2>2. /\ Sound(workspaceMu')
        /\ workspaceMu'.writer = workspaceMu.writer /\ workspaceMu'.held = workspaceMu.held
        /\ Claims(workspaceMu', t) = Claims(workspaceMu, t) + 1
        /\ \A q \in Threads \ {t} : Claims(workspaceMu', q) = Claims(workspaceMu, q)
        /\ workspaceMu'.queued \subseteq workspaceMu.queued \cup {t}
    <3>1. Sound(workspaceMu) /\ t \notin workspaceMu.queued /\ workspaceMu' = RLocked(workspaceMu, t)
          /\ Claims(workspaceMu, t) \in {0, 1}
      BY <1>0, <1>2, <2>1
    <3> QED BY <3>1, RLockClaims
  <2>3. Claims(workspaceMu', t) = WorkspaceReads(t, l)
    <3>1. Claims(workspaceMu', t) = WorkspaceReads(t, pc[t]) + 1 BY <2>1, <2>2
    <3>2. CASE WorkspaceReads(t, pc[t]) = 0 /\ WorkspaceReads(t, l) = 1 BY <3>1, <3>2
    <3>3. CASE WorkspaceReads(t, pc[t]) = 1 /\ WorkspaceReads(t, l) = 2 BY <3>1, <3>3
    <3> QED BY <1>2, <3>2, <3>3
  <2>4. WorkspacePlace(workspaceMu', t, l)
    BY <1>2, <2>1, <2>2, <2>3 DEF WorkspacePlace, WritesWorkspace
  <2>5. ASSUME NEW q \in Threads \ {t} PROVE WorkspacePlace(workspaceMu', q, pc[q])
    BY <2>2 DEF WorkspaceInv, WorkspacePlace
  <2> QED BY <1>2, <2>2, <2>4, <2>5, WorkspaceMoves DEF Goto
<1>3. ASSUME NEW l, Goto(t, l), workspaceMu' = RUnlocked(workspaceMu, t), t \notin workspaceMu.queued,
             t \notin Switchers,
             \/ WorkspaceReads(t, pc[t]) = 1 /\ WorkspaceReads(t, l) = 0
             \/ WorkspaceReads(t, pc[t]) = 2 /\ WorkspaceReads(t, l) = 1
      PROVE  WorkspaceInv'
  <2>1. Claims(workspaceMu, t) = WorkspaceReads(t, pc[t]) /\ workspaceMu.writer # t
    BY <1>0, <1>3 DEF WorkspacePlace, WritesWorkspace
  <2>2. /\ Sound(workspaceMu')
        /\ workspaceMu'.writer = workspaceMu.writer /\ workspaceMu'.held = workspaceMu.held
        /\ Claims(workspaceMu', t) = Claims(workspaceMu, t) - 1
        /\ \A q \in Threads \ {t} : Claims(workspaceMu', q) = Claims(workspaceMu, q)
        /\ workspaceMu'.queued = workspaceMu.queued
    <3>1. Sound(workspaceMu) /\ t \notin workspaceMu.queued /\ workspaceMu' = RUnlocked(workspaceMu, t)
          /\ Claims(workspaceMu, t) \in {1, 2}
      BY <1>0, <1>3, <2>1
    <3> QED BY <3>1, RUnlockClaims
  <2>3. Claims(workspaceMu', t) = WorkspaceReads(t, l) BY <1>3, <2>1, <2>2
  <2>4. WorkspacePlace(workspaceMu', t, l)
    BY <1>3, <2>1, <2>2, <2>3 DEF WorkspacePlace, WritesWorkspace
  <2>5. ASSUME NEW q \in Threads \ {t} PROVE WorkspacePlace(workspaceMu', q, pc[q])
    BY <2>2 DEF WorkspaceInv, WorkspacePlace
  <2> QED BY <1>3, <2>2, <2>4, <2>5, WorkspaceMoves DEF Goto
<1>4. CASE LockWorkspace(t)
  <2>1. CASE At(t, "workspaceLock") /\ workspaceMu.writer = NoThread
             /\ workspaceMu' = Announced(workspaceMu, t) /\ Goto(t, "workspaceDrain")
    <3>1. /\ Sound(workspaceMu') /\ workspaceMu'.writer = t /\ ~workspaceMu'.held
          /\ \A q \in Threads : Claims(workspaceMu', q) = Claims(workspaceMu, q)
          /\ workspaceMu'.queued = workspaceMu.queued
      BY <1>0, <2>1, AnnounceClaims
    <3>2. WorkspacePlace(workspaceMu', t, "workspaceDrain")
      BY <1>0, <2>1, <3>1, AuthorityAssumption DEF WorkspacePlace, WritesWorkspace, WorkspaceReads, At, OnPath, Threads
    <3>3. \A q \in Threads \ {t} : WorkspacePlace(workspaceMu', q, pc[q])
      BY <2>1, <3>1, AuthorityAssumption DEF WorkspaceInv, WorkspacePlace
    <3> QED BY <2>1, <3>1, <3>2, <3>3, WorkspaceMoves DEF Goto
  <2>2. CASE /\ At(t, "workspaceDrain") /\ Drained(workspaceMu)
             /\ workspaceMu' = Locked(workspaceMu) /\ Goto(t, "defer")
    <3>0. t \in Switchers /\ workspaceMu.writer = t
      BY <1>0, <2>2, AuthorityAssumption DEF WorkspacePlace, WritesWorkspace, At, OnPath, Threads
    <3>1. /\ Sound(workspaceMu') /\ workspaceMu'.writer = t /\ workspaceMu'.held
          /\ \A q \in Threads : Claims(workspaceMu', q) = Claims(workspaceMu, q)
          /\ workspaceMu'.queued = workspaceMu.queued
      BY <1>0, <2>2, <3>0, LockClaims, AuthorityAssumption
    <3>2. WorkspacePlace(workspaceMu', t, "defer")
      BY <1>0, <2>2, <3>0, <3>1, AuthorityAssumption DEF WorkspacePlace, WritesWorkspace, WorkspaceReads, At
    <3>3. \A q \in Threads \ {t} : WorkspacePlace(workspaceMu', q, pc[q])
      BY <3>0, <3>1, AuthorityAssumption DEF WorkspaceInv, WorkspacePlace
    <3> QED BY <2>2, <3>1, <3>2, <3>3, WorkspaceMoves DEF Goto
  <2> QED BY <1>4, <2>1, <2>2 DEF LockWorkspace
<1>5. CASE UnlockWorkspace(t)
  <2>1. At(t, "workspaceUnlock") /\ workspaceMu' = Unlocked(workspaceMu) /\ Goto(t, "workflowUnlock")
    BY <1>5 DEF UnlockWorkspace
  <2>2. t \in Switchers /\ workspaceMu.writer = t /\ workspaceMu.held
    BY <1>0, <2>1, AuthorityAssumption DEF WorkspacePlace, WritesWorkspace, At, OnPath, Threads
  <2>3. /\ Sound(workspaceMu') /\ workspaceMu'.writer = NoThread /\ ~workspaceMu'.held
        /\ \A q \in Threads : Claims(workspaceMu', q) = Claims(workspaceMu, q)
        /\ workspaceMu'.queued = {}
    BY <1>0, <2>1, <2>2, UnlockClaims
  <2>4. WorkspacePlace(workspaceMu', t, "workflowUnlock")
    BY <1>0, <2>1, <2>2, <2>3, AuthorityAssumption DEF WorkspacePlace, WritesWorkspace, WorkspaceReads, At
  <2>5. \A q \in Threads \ {t} : WorkspacePlace(workspaceMu', q, pc[q])
    BY <2>2, <2>3, AuthorityAssumption DEF WorkspaceInv, WorkspacePlace
  <2> QED BY <2>1, <2>3, <2>4, <2>5, WorkspaceMoves DEF Goto
<1>6. CASE RLockWorkspace(t)
  <2>1. pc[t] = "workspaceRLock" /\ t \notin workspaceMu.queued /\ t \notin Switchers \cup Callbacks
    BY <1>0, <1>6, AuthorityAssumption DEF RLockWorkspace, At, OnPath, Threads
  <2>2. WorkspaceReads(t, pc[t]) = 0 /\ WorkspaceReads(t, "authorized") = 1
    BY <2>1 DEF WorkspaceReads
  <2> QED BY <1>2, <1>6, <2>1, <2>2 DEF RLockWorkspace
<1>7. CASE RUnlockWorkspace(t)
  <2>1. pc[t] = "workspaceRUnlock" /\ t \notin workspaceMu.queued /\ t \notin Switchers \cup Callbacks
    BY <1>0, <1>7, AuthorityAssumption DEF RUnlockWorkspace, At, OnPath, Threads
  <2>2. PICK l \in {"workflowUnlock", "workflowRUnlock", "idle"} : Goto(t, l)
    BY <1>7 DEF RUnlockWorkspace
  <2>3. WorkspaceReads(t, pc[t]) = 1 /\ WorkspaceReads(t, l) = 0
    BY <2>1, <2>2 DEF WorkspaceReads
  <2> QED BY <1>3, <1>7, <2>1, <2>2, <2>3 DEF RUnlockWorkspace
<1>8. CASE PlanHandler(t)
  <2>0. t \in PlanTools /\ t \notin Switchers \cup Callbacks
    BY <1>8, AuthorityAssumption DEF PlanHandler
  <2>1. CASE At(t, "authorized") /\ workspaceMu' = RLocked(workspaceMu, t) /\ Goto(t, "nestedCatalog")
    <3>1. WorkspaceReads(t, pc[t]) = 1 /\ WorkspaceReads(t, "nestedCatalog") = 2
      BY <2>0, <2>1 DEF WorkspaceReads, At
    <3> QED BY <1>2, <2>0, <2>1, <3>1 DEF At
  <2>2. CASE At(t, "nestedCatalog") /\ UNCHANGED workspaceMu /\ Refresh(t, "catalogLock", "nestedRUnlock")
    <3>1. WorkspaceReads(t, pc[t]) = 2 /\ WorkspaceReads(t, "catalogLock") = 2
      BY <2>0, <2>2 DEF WorkspaceReads, At
    <3> QED BY <1>1, <2>0, <2>2, <3>1 DEF At, Refresh
  <2>3. CASE At(t, "nestedRUnlock") /\ workspaceMu' = RUnlocked(workspaceMu, t) /\ Goto(t, "provider")
    <3>1. WorkspaceReads(t, pc[t]) = 2 /\ WorkspaceReads(t, "provider") = 1
      BY <2>0, <2>3 DEF WorkspaceReads, At
    <3> QED BY <1>3, <2>0, <2>3, <3>1 DEF At
  <2>4. CASE At(t, "provider") /\ workspaceMu' = RLocked(workspaceMu, t) /\ Goto(t, "providerAnswered")
    <3>1. WorkspaceReads(t, pc[t]) = 1 /\ WorkspaceReads(t, "providerAnswered") = 2
      BY <2>0, <2>4 DEF WorkspaceReads, At
    <3> QED BY <1>2, <2>0, <2>4, <3>1 DEF At
  <2>5. CASE /\ At(t, "providerAnswered") /\ workspaceMu' = RUnlocked(workspaceMu, t)
             /\ Goto(t, "workspaceRUnlock")
    <3>1. WorkspaceReads(t, pc[t]) = 2 /\ WorkspaceReads(t, "workspaceRUnlock") = 1
      BY <2>0, <2>5 DEF WorkspaceReads, At
    <3> QED BY <1>3, <2>0, <2>5, <3>1 DEF At
  <2> QED BY <1>8, <2>1, <2>2, <2>3, <2>4, <2>5 DEF PlanHandler
<1> USE AuthorityAssumption DEF At, OnPath, Refreshing, Threads, WorkspaceReads
<1>9. CASE Call(t)
  BY <1>0, <1>1, <1>9, EntryOnPath DEF Call, contents, locks
<1>10. CASE LockWorkflow(t)
  BY <1>0, <1>1, <1>10 DEF LockWorkflow, contents, locks
<1>11. CASE RLockWorkflow(t)
  BY <1>0, <1>1, <1>11 DEF RLockWorkflow, contents, locks
<1>12. CASE UnlockWorkflow(t)
  BY <1>0, <1>1, <1>12 DEF UnlockWorkflow, contents, locks
<1>13. CASE LockCatalog(t)
  BY <1>0, <1>1, <1>13 DEF LockCatalog, contents, locks
<1>14. CASE ReadAgent(t)
  BY <1>0, <1>1, <1>14 DEF ReadAgent, locks
<1>15. CASE ReadMCP(t)
  BY <1>0, <1>1, <1>15 DEF ReadMCP, locks
<1>16. CASE RunToolHandler(t)
  BY <1>0, <1>1, <1>16 DEF RunToolHandler, contents, locks
<1>17. CASE ReadCatalog(t)
  BY <1>0, <1>1, <1>17 DEF ReadCatalog, Refresh, locks
<1>18. CASE ToolsChanged(t)
  BY <1>0, <1>1, <1>18 DEF ToolsChanged, Refresh, locks
<1>19. CASE DeferRefreshes(t)
  BY <1>0, <1>1, <1>19 DEF DeferRefreshes, contents, locks
<1>20. CASE DrainRefresh(t)
  BY <1>0, <1>1, <1>20 DEF DrainRefresh, locks
<1>21. CASE SetAgentRoot(t)
  BY <1>0, <1>1, <1>21 DEF SetAgentRoot, locks
<1>22. CASE SetMCPRoot(t)
  BY <1>0, <1>1, <1>22 DEF SetMCPRoot, locks
<1>23. CASE FlushCatalog(t)
  BY <1>0, <1>1, <1>23 DEF FlushCatalog, Refresh, locks
<1>24. CASE SaveProjects(t)
  BY <1>0, <1>1, <1>24 DEF SaveProjects, contents, locks
<1>25. CASE UndoMCPRoot(t)
  BY <1>0, <1>1, <1>25 DEF UndoMCPRoot, locks
<1>26. CASE UndoAgentRoot(t)
  BY <1>0, <1>1, <1>26 DEF UndoAgentRoot, locks
<1>27. CASE AdmitRefresh(t)
  BY <1>0, <1>1, <1>27 DEF AdmitRefresh, Return, Resumes, locks
<1>28. CASE PublishCatalog(t)
  BY <1>0, <1>1, <1>28 DEF PublishCatalog, Return, Resumes, locks
<1>29. CASE ReleaseGuard(t)
  BY <1>0, <1>1, <1>29 DEF ReleaseGuard, Refresh, locks
<1>30. CASE RefuseTool(t)
  BY <1>0, <1>1, <1>30 DEF RefuseTool, contents, locks
<1> QED BY <1>4, <1>5, <1>6, <1>7, <1>8, <1>9, <1>10, <1>11, <1>12, <1>13, <1>14, <1>15, <1>16, <1>17, <1>18, <1>19, <1>20, <1>21, <1>22, <1>23, <1>24, <1>25, <1>26, <1>27, <1>28, <1>29, <1>30 DEF Step

-----------------------------------------------------------------------------
(* The deferral of refreshes.                                              *)

\* Only one switch defers, and only while it writes the workspace.
LEMMA OneDefers ==
    ASSUME WorkspaceInv, NEW s \in Threads, Defers(s, pc[s], resume[s])
    PROVE  /\ workspaceMu.writer = s /\ workspaceMu.held /\ WritesWorkspace(s, pc[s])
           /\ \A q \in Threads \ {s} : ~WritesWorkspace(q, pc[q])
<1>1. WorkspacePlace(workspaceMu, s, pc[s]) BY DEF WorkspaceInv
<1>2. WritesWorkspace(s, pc[s]) /\ pc[s] # "workspaceDrain"
  BY DEF Defers, WritesWorkspace, Refreshing
<1>3. workspaceMu.writer = s /\ workspaceMu.held BY <1>1, <1>2 DEF WorkspacePlace
<1>4. ASSUME NEW q \in Threads \ {s} PROVE ~WritesWorkspace(q, pc[q])
  BY <1>3 DEF WorkspaceInv, WorkspacePlace
<1> QED BY <1>2, <1>3, <1>4

\* A switch other than t defers.
OtherDefers(t) == \E s \in Threads \ {t} : Defers(s, pc[s], resume[s])

\* The depth of deferral counts the switcher that is inside it: one or none.
LEMMA DepthCounts ==
    ASSUME DeferralInv, NEW t \in Threads
    PROVE  /\ depth \in {0, 1}
           /\ depth = 1 <=> Defers(t, pc[t], resume[t]) \/ OtherDefers(t)
BY DEF DeferralInv, OtherDefers

\* One thread goes on: what has to be shown of it.
LEMMA DeferralMoves ==
    ASSUME ControlInv, DeferralInv, NEW t \in Threads, NEW l, NEW r,
           pc' = [pc EXCEPT ![t] = l], resume' = [resume EXCEPT ![t] = r],
           catalogMu' \in Threads \cup {NoThread}, catalogMu' = t <=> HoldsCatalog(l),
           \A q \in Threads \ {t} : catalogMu' = q <=> catalogMu = q,
           pending' \in BOOLEAN,
           depth' \in {0, 1} /\ (depth' = 1 <=> Defers(t, l, r) \/ OtherDefers(t)),
           t \in Callbacks /\ l \in {"readAgent", "readMcp", "publish"} =>
               \A s \in Threads \ {t} : ~Alone(s, pc[s], resume[s]),
           Alone(t, l, r) =>
               \A c \in Callbacks \ {t} : pc[c] \notin {"readAgent", "readMcp", "publish"}
    PROVE  DeferralInv'
<1>1. \A q \in Threads : /\ pc'[q] = IF q = t THEN l ELSE pc[q]
                         /\ resume'[q] = IF q = t THEN r ELSE resume[q]
  BY DEF ControlInv
<1>2. ASSUME NEW q \in Threads PROVE catalogMu' = q <=> HoldsCatalog(pc'[q])
  <2>1. CASE q = t
    <3>1. pc'[q] = l BY <1>1, <2>1
    <3> QED BY <2>1, <3>1
  <2>2. CASE q # t
    <3>1. pc'[q] = pc[q] BY <1>1, <2>2
    <3>2. catalogMu' = q <=> catalogMu = q BY <2>2
    <3>3. catalogMu = q <=> HoldsCatalog(pc[q]) BY DEF DeferralInv
    <3> QED BY <3>1, <3>2, <3>3
  <2> QED BY <2>1, <2>2
<1>3. depth' = 1 <=> \E s \in Threads : Defers(s, pc'[s], resume'[s])
  BY <1>1 DEF OtherDefers
<1>4. ASSUME NEW c \in Callbacks, NEW s \in Threads,
             pc'[c] \in {"readAgent", "readMcp", "publish"}
      PROVE  ~Alone(s, pc'[s], resume'[s])
  <2>0. c \in Threads BY DEF Threads
  <2>1. CASE s = t /\ c # t BY <1>1, <1>4, <2>0, <2>1
  <2>2. CASE s # t /\ c = t BY <1>1, <1>4, <2>0, <2>2
  <2>3. CASE s # t /\ c # t BY <1>1, <1>4, <2>0, <2>3 DEF DeferralInv
  <2>4. CASE s = t /\ c = t BY <2>4, AuthorityAssumption DEF Alone, Defers
  <2> QED BY <2>1, <2>2, <2>3, <2>4
<1> QED BY <1>2, <1>3, <1>4 DEF DeferralInv

\* A step that neither takes nor gives back catalogRefreshMu nor the deferral.
LEMMA DeferralRests ==
    ASSUME ControlInv, DeferralInv, NEW t \in Threads, NEW l, NEW r,
           pc' = [pc EXCEPT ![t] = l], resume' = [resume EXCEPT ![t] = r],
           UNCHANGED <<catalogMu, depth>>, pending' \in BOOLEAN,
           HoldsCatalog(l) <=> HoldsCatalog(pc[t]),
           Defers(t, l, r) <=> Defers(t, pc[t], resume[t]),
           Alone(t, l, r) => Alone(t, pc[t], resume[t]),
           t \in Callbacks /\ l \in {"readAgent", "readMcp", "publish"} =>
               pc[t] \in {"readAgent", "readMcp", "publish"}
    PROVE  DeferralInv'
<1>1. catalogMu' \in Threads \cup {NoThread} /\ (catalogMu' = t <=> HoldsCatalog(l))
  BY DEF DeferralInv
<1>2. depth' \in {0, 1} /\ (depth' = 1 <=> Defers(t, l, r) \/ OtherDefers(t))
  BY DepthCounts
<1>3. t \in Callbacks /\ l \in {"readAgent", "readMcp", "publish"} =>
          \A s \in Threads \ {t} : ~Alone(s, pc[s], resume[s])
  BY DEF DeferralInv
<1>4. Alone(t, l, r) =>
          \A c \in Callbacks \ {t} : pc[c] \notin {"readAgent", "readMcp", "publish"}
  BY DEF DeferralInv
<1> QED BY <1>1, <1>2, <1>3, <1>4, DeferralMoves

\* Every step keeps the deferral.
LEMMA DeferralStep ==
    ASSUME ControlInv, WorkspaceInv, DeferralInv, NEW t \in Threads, Call(t) \/ Step(t)
    PROVE  DeferralInv'
<1>0. /\ pc \in [Threads -> Labels] /\ OnPath(t, pc[t]) /\ Resumes(t, pc[t], resume[t])
      /\ resume \in [Threads -> Labels] /\ resume = [resume EXCEPT ![t] = resume[t]]
      /\ pending \in BOOLEAN /\ (catalogMu = t <=> HoldsCatalog(pc[t]))
      /\ catalogMu \in Threads \cup {NoThread} /\ NoThread \notin Threads
  BY AuthorityAssumption DEF ControlInv, DeferralInv
<1>1. ASSUME NEW l, Goto(t, l), UNCHANGED <<catalogMu, depth, resume>>, pending' \in BOOLEAN,
             HoldsCatalog(l) <=> HoldsCatalog(pc[t]),
             Defers(t, l, resume[t]) <=> Defers(t, pc[t], resume[t]),
             Alone(t, l, resume[t]) => Alone(t, pc[t], resume[t]),
             t \in Callbacks /\ l \in {"readAgent", "readMcp", "publish"} =>
                 pc[t] \in {"readAgent", "readMcp", "publish"}
      PROVE  DeferralInv'
  BY <1>0, <1>1, DeferralRests DEF Goto
<1>2. ASSUME NEW l, NEW r, Refresh(t, l, r), UNCHANGED <<catalogMu, depth>>, pending' \in BOOLEAN,
             HoldsCatalog(l) <=> HoldsCatalog(pc[t]),
             Defers(t, l, r) <=> Defers(t, pc[t], resume[t]),
             Alone(t, l, r) => Alone(t, pc[t], resume[t]),
             t \in Callbacks /\ l \in {"readAgent", "readMcp", "publish"} =>
                 pc[t] \in {"readAgent", "readMcp", "publish"}
      PROVE  DeferralInv'
  BY <1>0, <1>2, DeferralRests DEF Goto, Refresh
<1>3. CASE LockCatalog(t)
  <2>0. catalogMu = NoThread /\ catalogMu' = t /\ resume' = resume /\ UNCHANGED <<depth, pending>>
    BY <1>3 DEF LockCatalog, deferral, contents
  <2>1. PICK l \in {"readAgent", "ask"} :
          /\ Goto(t, l) /\ pc[t] \in {"catalogLock", "catalogLockAndAsk"}
          /\ l = "ask" <=> pc[t] = "catalogLockAndAsk"
    BY <1>3 DEF LockCatalog, At
  <2>2. \A q \in Threads \ {t} : catalogMu' = q <=> catalogMu = q BY <1>0, <2>0
  <2>3. Defers(t, l, resume[t]) <=> Defers(t, pc[t], resume[t])
    BY <2>1 DEF Defers, Refreshing
  <2>4. depth' \in {0, 1} /\ (depth' = 1 <=> Defers(t, l, resume[t]) \/ OtherDefers(t))
    BY <2>0, <2>3, DepthCounts
  <2>5. ~(t \in Callbacks /\ l \in {"readAgent", "readMcp", "publish"})
    BY <1>0, <2>1, AuthorityAssumption DEF OnPath
  <2>6. Alone(t, l, resume[t]) =>
          \A c \in Callbacks \ {t} : pc[c] \notin {"readAgent", "readMcp", "publish"}
    <3>1. \A c \in Callbacks : c \in Threads BY DEF Threads
    <3> QED BY <1>0, <2>0, <3>1 DEF DeferralInv, HoldsCatalog
  <2> QED BY <1>0, <2>0, <2>1, <2>2, <2>4, <2>5, <2>6, DeferralMoves DEF Goto, HoldsCatalog
<1>4. CASE AdmitRefresh(t)
  <2>0. pc[t] = "ask" /\ catalogMu = t BY <1>0, <1>4 DEF AdmitRefresh, At, HoldsCatalog
  <2>1. CASE depth > 0
    <3>1. /\ catalogMu' = NoThread /\ pending' = TRUE /\ depth' = depth
          /\ pc' = [pc EXCEPT ![t] = resume[t]] /\ resume' = [resume EXCEPT ![t] = "idle"]
      BY <1>4, <2>1 DEF AdmitRefresh, Return, Goto
    <3>2. ~HoldsCatalog(resume[t]) /\ ~Defers(t, resume[t], "idle") /\ ~Defers(t, pc[t], resume[t])
      BY <1>0, <2>0, AuthorityAssumption DEF OnPath, Threads, Resumes, Refreshing, HoldsCatalog, Defers
    <3>3. \A q \in Threads \ {t} : catalogMu' = q <=> catalogMu = q BY <1>0, <2>0, <3>1
    <3>4. depth' \in {0, 1} /\ (depth' = 1 <=> Defers(t, resume[t], "idle") \/ OtherDefers(t))
      BY <3>1, <3>2, DepthCounts
    <3>5. ~Alone(t, resume[t], "idle") BY <3>2 DEF Alone
    <3>6. resume[t] \notin {"readAgent", "readMcp", "publish"} BY <3>2 DEF HoldsCatalog
    <3> QED BY <1>0, <3>1, <3>2, <3>3, <3>4, <3>5, <3>6, DeferralMoves
  <2>2. CASE ~(depth > 0)
    <3>1. /\ UNCHANGED <<catalogMu, pending, depth>> /\ resume' = [resume EXCEPT ![t] = resume[t]]
          /\ pc' = [pc EXCEPT ![t] = "readAgent"]
      BY <1>0, <1>4, <2>2 DEF AdmitRefresh, Goto
    <3>2. ~\E s \in Threads : Defers(s, pc[s], resume[s])
      <4>1. depth # 1 BY <2>2
      <4> QED BY <4>1 DEF DeferralInv
    <3>3. ~Defers(t, "readAgent", resume[t])
      BY <2>0, <3>2 DEF Defers, Refreshing
    <3>4. depth' \in {0, 1} /\ (depth' = 1 <=> Defers(t, "readAgent", resume[t]) \/ OtherDefers(t))
      BY <3>1, <3>2, <3>3, DepthCounts
    <3>5. ~Alone(t, "readAgent", resume[t]) /\ \A s \in Threads : ~Alone(s, pc[s], resume[s])
      BY <3>2, <3>3 DEF Alone
    <3> QED BY <1>0, <2>0, <3>1, <3>4, <3>5, DeferralMoves DEF HoldsCatalog
  <2> QED BY <2>1, <2>2
<1>5. CASE PublishCatalog(t)
  <2>0. pc[t] = "publish" /\ catalogMu = t /\ catalogMu' = NoThread /\ UNCHANGED depth
    BY <1>0, <1>5 DEF PublishCatalog, At, HoldsCatalog
  <2>1. PICK l \in {resume[t], "undoMcp"} :
          /\ pc' = [pc EXCEPT ![t] = l] /\ resume' = [resume EXCEPT ![t] = "idle"]
          /\ l # resume[t] => resume[t] = "save"
    <3>1. CASE Return(t, resume[t])
      BY <3>1 DEF Return, Goto
    <3>2. CASE Return(t, "undoMcp") /\ resume[t] = "save"
      BY <3>2 DEF Return, Goto
    <3> QED BY <1>5, <3>1, <3>2 DEF PublishCatalog
  <2>2. pending' \in BOOLEAN BY <1>0, <1>5 DEF PublishCatalog
  <2>3. ~HoldsCatalog(l)
    BY <1>0, <2>0, <2>1, AuthorityAssumption DEF OnPath, Threads, Resumes, Refreshing, HoldsCatalog
  <2>4. Defers(t, l, "idle") <=> Defers(t, pc[t], resume[t])
    BY <1>0, <2>0, <2>1, AuthorityAssumption DEF OnPath, Threads, Resumes, Refreshing, Defers
  <2>5. Alone(t, l, "idle") => Alone(t, pc[t], resume[t]) BY <2>0, <2>4 DEF Alone
  <2>6. \A q \in Threads \ {t} : catalogMu' = q <=> catalogMu = q BY <1>0, <2>0
  <2>7. depth' \in {0, 1} /\ (depth' = 1 <=> Defers(t, l, "idle") \/ OtherDefers(t))
    BY <2>0, <2>4, DepthCounts
  <2>8. Alone(t, l, "idle") =>
          \A c \in Callbacks \ {t} : pc[c] \notin {"readAgent", "readMcp", "publish"}
    BY <2>5 DEF DeferralInv
  <2>9. l \notin {"readAgent", "readMcp", "publish"} BY <2>3 DEF HoldsCatalog
  <2> QED BY <1>0, <2>0, <2>1, <2>2, <2>3, <2>6, <2>7, <2>8, <2>9, DeferralMoves
<1>6. CASE DeferRefreshes(t)
  <2>0. /\ pc[t] = "defer" /\ pc' = [pc EXCEPT ![t] = "drainRefresh"] /\ depth' = depth + 1
        /\ pending' = TRUE /\ resume' = [resume EXCEPT ![t] = resume[t]] /\ UNCHANGED catalogMu
    BY <1>0, <1>6 DEF DeferRefreshes, At, Goto, locks, contents
  <2>1. t \in Switchers /\ WritesWorkspace(t, pc[t])
    BY <1>0, <2>0, AuthorityAssumption DEF OnPath, Threads, WritesWorkspace
  <2>2. ~Defers(t, pc[t], resume[t]) BY <2>0 DEF Defers, Refreshing
  <2>3. ~\E s \in Threads : Defers(s, pc[s], resume[s]) BY <2>1, <2>2, OneDefers
  <2>7. depth = 0 BY <2>3 DEF DeferralInv
  <2>8. depth' = depth + 1 BY <1>6 DEF DeferRefreshes
  <2>4. depth' = 1 BY <2>7, <2>8
  <2>5. Defers(t, "drainRefresh", resume[t]) /\ ~Alone(t, "drainRefresh", resume[t])
    BY <2>1 DEF Defers, Alone
  <2> QED BY <1>0, <2>0, <2>4, <2>5, DeferralMoves DEF HoldsCatalog
<1>7. CASE DrainRefresh(t)
  <2>0. /\ pc[t] = "drainRefresh" /\ pc' = [pc EXCEPT ![t] = "setAgent"] /\ catalogMu = NoThread
        /\ resume' = [resume EXCEPT ![t] = resume[t]] /\ UNCHANGED <<catalogMu, depth, pending>>
    BY <1>0, <1>7 DEF DrainRefresh, At, Goto, locks, deferral
  <2>1. t \in Switchers BY <1>0, <2>0, AuthorityAssumption DEF OnPath, Threads
  <2>2. Defers(t, "setAgent", resume[t]) /\ Defers(t, pc[t], resume[t])
    BY <2>0, <2>1 DEF Defers
  <2>3. depth' = 1 BY <2>0, <2>2, DepthCounts
  <2>4. \A c \in Callbacks \ {t} : pc[c] \notin {"readAgent", "readMcp", "publish"}
    <3>1. \A c \in Callbacks : c \in Threads BY DEF Threads
    <3> QED BY <1>0, <2>0, <3>1 DEF DeferralInv, HoldsCatalog
  <2> QED BY <1>0, <2>0, <2>2, <2>3, <2>4, DeferralMoves DEF HoldsCatalog
<1>8. CASE ReleaseGuard(t)
  <2>0. /\ pc[t] = "release" /\ depth' = depth - 1 /\ UNCHANGED catalogMu /\ pending' \in BOOLEAN
    BY <1>0, <1>8 DEF ReleaseGuard, At, locks
  <2>1. PICK l \in {"catalogLockAndAsk", "workspaceUnlock"}, r \in {"workspaceUnlock", resume[t]} :
          /\ pc' = [pc EXCEPT ![t] = l] /\ resume' = [resume EXCEPT ![t] = r]
          /\ l = "catalogLockAndAsk" => r = "workspaceUnlock"
    BY <1>0, <1>8 DEF ReleaseGuard, Refresh, Goto
  <2>2. t \in Switchers BY <1>0, <2>0, AuthorityAssumption DEF OnPath, Threads
  <2>3. Defers(t, pc[t], resume[t]) BY <2>0, <2>2 DEF Defers
  <2>4. \A s \in Threads \ {t} : ~Defers(s, pc[s], resume[s])
    BY <2>3, OneDefers
  <2>5. ~Defers(t, l, r) /\ ~Alone(t, l, r) BY <2>1 DEF Defers, Alone, Refreshing
  <2>7. depth = 1 BY <2>3, DepthCounts
  <2>8. depth' = depth - 1 BY <1>8 DEF ReleaseGuard
  <2>6. depth' = 0 BY <2>7, <2>8
  <2>9. depth' \in {0, 1} /\ (depth' = 1 <=> Defers(t, l, r) \/ OtherDefers(t))
    BY <2>4, <2>5, <2>6 DEF OtherDefers
  <2>10. ~HoldsCatalog(l) /\ ~HoldsCatalog(pc[t]) BY <2>0, <2>1 DEF HoldsCatalog
  <2>11. catalogMu' \in Threads \cup {NoThread} /\ (catalogMu' = t <=> HoldsCatalog(l))
         /\ \A q \in Threads \ {t} : catalogMu' = q <=> catalogMu = q
    BY <1>0, <2>0, <2>10
  <2>12. l \notin {"readAgent", "readMcp", "publish"} BY <2>1
  <2> QED BY <2>0, <2>1, <2>5, <2>9, <2>11, <2>12, DeferralMoves
<1> USE AuthorityAssumption DEF At, OnPath, Refreshing, Threads, HoldsCatalog, Defers, Alone
<1>9. CASE Call(t)
  BY <1>0, <1>1, <1>9, EntryOnPath DEF Call, contents, deferral, locks, Resumes
<1>10. CASE LockWorkflow(t)
  BY <1>0, <1>1, <1>10 DEF LockWorkflow, contents, deferral, locks, Resumes
<1>11. CASE RLockWorkflow(t)
  BY <1>0, <1>1, <1>11 DEF RLockWorkflow, contents, deferral, locks, Resumes
<1>12. CASE UnlockWorkflow(t)
  BY <1>0, <1>1, <1>12 DEF UnlockWorkflow, contents, deferral, locks, Resumes
<1>13. CASE RLockWorkspace(t)
  BY <1>0, <1>1, <1>13 DEF RLockWorkspace, contents, deferral, locks, Resumes
<1>14. CASE RUnlockWorkspace(t)
  BY <1>0, <1>1, <1>14 DEF RUnlockWorkspace, contents, deferral, locks, Resumes
<1>15. CASE LockWorkspace(t)
  BY <1>0, <1>1, <1>15 DEF LockWorkspace, contents, deferral, locks, Resumes
<1>16. CASE UnlockWorkspace(t)
  BY <1>0, <1>1, <1>16 DEF UnlockWorkspace, contents, deferral, locks, Resumes
<1>17. CASE ReadAgent(t)
  BY <1>0, <1>1, <1>17 DEF ReadAgent, deferral, locks, Resumes
<1>18. CASE ReadMCP(t)
  BY <1>0, <1>1, <1>18 DEF ReadMCP, deferral, locks, Resumes
<1>19. CASE RunToolHandler(t)
  BY <1>0, <1>1, <1>19 DEF RunToolHandler, contents, deferral, locks, Resumes
<1>20. CASE ReadCatalog(t)
  BY <1>0, <1>2, <1>20 DEF ReadCatalog, deferral, locks, Resumes
<1>21. CASE ToolsChanged(t)
  BY <1>0, <1>2, <1>21 DEF ToolsChanged, deferral, locks, Resumes
<1>22. CASE PlanHandler(t)
  BY <1>0, <1>1, <1>2, <1>22 DEF PlanHandler, deferral, locks, Resumes
<1>23. CASE SetAgentRoot(t)
  BY <1>0, <1>1, <1>23 DEF SetAgentRoot, locks, Resumes
<1>24. CASE SetMCPRoot(t)
  BY <1>0, <1>1, <1>24 DEF SetMCPRoot, deferral, locks, Resumes
<1>25. CASE FlushCatalog(t)
  BY <1>0, <1>2, <1>25 DEF FlushCatalog, locks, Resumes
<1>26. CASE SaveProjects(t)
  BY <1>0, <1>1, <1>26 DEF SaveProjects, contents, deferral, locks, Resumes
<1>27. CASE UndoMCPRoot(t)
  BY <1>0, <1>1, <1>27 DEF UndoMCPRoot, deferral, locks, Resumes
<1>28. CASE UndoAgentRoot(t)
  BY <1>0, <1>1, <1>28 DEF UndoAgentRoot, locks, Resumes
<1>29. CASE RefuseTool(t)
  BY <1>0, <1>1, <1>29 DEF RefuseTool, contents, deferral, locks, Resumes
<1> QED BY <1>3, <1>4, <1>5, <1>6, <1>7, <1>8, <1>9, <1>10, <1>11, <1>12, <1>13, <1>14, <1>15, <1>16, <1>17, <1>18, <1>19, <1>20, <1>21, <1>22, <1>23, <1>24, <1>25, <1>26, <1>27, <1>28, <1>29 DEF Step

-----------------------------------------------------------------------------
(* The catalog.                                                            *)

\* Nobody else reads the roots while a switch that has drained the refreshes
\* works: the readers of the workspace are out, and so are the callbacks.
LEMMA NobodyReads ==
    ASSUME ControlInv, WorkspaceInv, DeferralInv, NEW s \in Threads,
           Alone(s, pc[s], resume[s]), NEW q \in Threads \ {s}
    PROVE  pc[q] \notin {"readAgent", "readMcp", "publish"}
<1> SUFFICES ASSUME pc[q] \in {"readAgent", "readMcp", "publish"} PROVE FALSE
  OBVIOUS
<1>1. workspaceMu.held /\ ~WritesWorkspace(q, pc[q]) BY OneDefers DEF Alone
<1>2. q \notin Callbacks BY DEF DeferralInv
<1>3. q \notin Switchers BY <1>1 DEF WritesWorkspace
<1>4. OnPath(q, pc[q]) BY DEF ControlInv
<1>5. q \in Readers \cup PlanTools BY <1>2, <1>3, <1>4 DEF OnPath, Threads
<1>6. WorkspaceReads(q, pc[q]) \in {1, 2} BY <1>2, <1>3 DEF WorkspaceReads
<1>7. WorkspacePlace(workspaceMu, q, pc[q]) /\ Sound(workspaceMu) BY DEF WorkspaceInv
<1>8. q \notin workspaceMu.queued BY <1>7 DEF WorkspacePlace
<1>9. Claims(workspaceMu, q) = workspaceMu.active[q] + 0 BY <1>8 DEF Claims
<1>10. workspaceMu.active[q] = 0 BY <1>1, <1>7 DEF Sound, Drained
<1> QED BY <1>6, <1>7, <1>9, <1>10 DEF WorkspacePlace

\* catalogRefreshMu has one holder.
LEMMA OneReads ==
    ASSUME DeferralInv, NEW t \in Threads, HoldsCatalog(pc[t]), NEW q \in Threads \ {t}
    PROVE  ~HoldsCatalog(pc[q])
BY DEF DeferralInv

\* A step that changes neither the contents nor the deferral.
LEMMA CatalogRests ==
    ASSUME ControlInv, CatalogInv, NEW t \in Threads, NEW l, NEW r,
           pc' = [pc EXCEPT ![t] = l], resume' = [resume EXCEPT ![t] = r],
           UNCHANGED <<roots, poisoned, version, catalog, seen, goal, depth, pending>>,
           t \in Switchers =>
               /\ RootsAt(goal, roots, poisoned, t, l, r)
               /\ pc[t] \in Apart => l \in Apart
               /\ WillFollow(pending, t, pc[t]) => WillFollow(pending, t, l),
           pc[t] \in Refreshing => l \in Refreshing,
           l \notin {"readMcp", "publish"}, pc[t] # "publish"
    PROVE  CatalogInv'
<1>1. /\ \A q \in Threads \ {t} : pc'[q] = pc[q] /\ resume'[q] = resume[q]
      /\ pc'[t] = l /\ resume'[t] = r
  BY DEF ControlInv
<1>2. Switchers \subseteq Threads BY DEF Threads
<1>3. ContentTypes' BY DEF CatalogInv, ContentTypes
<1>4. SwitchInv'
  <2>1. ASSUME NEW s \in Switchers PROVE RootsAt(goal', roots', poisoned', s, pc'[s], resume'[s])
    BY <1>1, <1>2 DEF CatalogInv, SwitchInv
  <2>2. (\A s \in Switchers : pc'[s] \notin Apart) => roots'.agent = roots'.mcp \/ poisoned'
    BY <1>1, <1>2 DEF CatalogInv, SwitchInv
  <2> QED BY <2>1, <2>2 DEF SwitchInv
<1>5. SeenInv' BY <1>1 DEF CatalogInv, SeenInv
<1>6. FollowInv'
  <2>1. Fresh \/ \E s \in Threads : WillFollow(pending, s, pc[s]) BY DEF CatalogInv, FollowInv
  <2>2. CASE Fresh BY <2>2 DEF Fresh, CatalogInv, FollowInv
  <2>3. ASSUME NEW s \in Threads, WillFollow(pending, s, pc[s]) PROVE WillFollow(pending', s, pc'[s])
    <3>1. s \in Switchers BY <2>3 DEF WillFollow
    <3> QED BY <1>1, <2>3, <3>1
  <2> QED BY <2>1, <2>2, <2>3 DEF CatalogInv, FollowInv
<1>7. VersionInv'
  <2>1. WillRefresh => WillRefresh' BY <1>1 DEF WillRefresh
  <2>2. CatalogIsCurrent => CatalogIsCurrent' BY DEF CatalogIsCurrent
  <2> QED BY <1>1, <2>1, <2>2 DEF CatalogInv, VersionInv
<1> QED BY <1>3, <1>4, <1>5, <1>6, <1>7 DEF CatalogInv

\* A step of the switch that defers.
LEMMA CatalogSwitches ==
    ASSUME ControlInv, WorkspaceInv, DeferralInv, CatalogInv,
           NEW t \in Threads, NEW l, NEW r,
           pc' = [pc EXCEPT ![t] = l], resume' = [resume EXCEPT ![t] = r],
           Defers(t, pc[t], resume[t]), pc[t] \notin Refreshing,
           l \notin {"readMcp", "publish"},
           UNCHANGED <<seen, catalog, version>>, ContentTypes', poisoned => poisoned',
           roots' = roots \/ Alone(t, pc[t], resume[t]),
           RootsAt(goal', roots', poisoned', t, l, r),
           l \notin Apart => roots'.agent = roots'.mcp \/ poisoned',
           Fresh' \/ WillFollow(pending', t, l),
           \/ UNCHANGED <<depth, pending>>
           \/ depth' = 1 /\ pending'
           \/ l \in Refreshing \ {"publish"}
           \/ ~pending
    PROVE  CatalogInv'
<1>1. /\ \A q \in Threads \ {t} : pc'[q] = pc[q] /\ resume'[q] = resume[q]
      /\ pc'[t] = l /\ resume'[t] = r
  BY DEF ControlInv
<1>2. Switchers \subseteq Threads BY DEF Threads
<1>3. \A q \in Threads \ {t} : ~WritesWorkspace(q, pc[q]) BY OneDefers
<1>4. SwitchInv'
  <2>1. ASSUME NEW s \in Switchers PROVE RootsAt(goal', roots', poisoned', s, pc'[s], resume'[s])
    <3>1. CASE s = t BY <1>1, <3>1
    <3>2. CASE s # t
      <4>1. pc'[s] = pc[s] /\ resume'[s] = resume[s] /\ ~WritesWorkspace(s, pc[s])
        BY <1>1, <1>2, <1>3, <3>2
      <4> QED BY <4>1, <2>1 DEF RootsAt, Alone, Defers, WritesWorkspace, Refreshing
    <3> QED BY <3>1, <3>2
  <2>2. t \in Switchers BY DEF Defers
  <2> QED BY <1>1, <2>1, <2>2 DEF SwitchInv
<1>5. SeenInv'
  <2>1. ASSUME NEW q \in Threads, pc'[q] \in {"readMcp", "publish"}
        PROVE  q # t /\ pc[q] = pc'[q] /\ roots' = roots
    <3>1. q # t /\ pc[q] = pc'[q] BY <1>1, <2>1
    <3> QED BY <2>1, <3>1, NobodyReads
  <2> QED BY <2>1 DEF CatalogInv, SeenInv
<1>6. FollowInv' BY <1>1 DEF CatalogInv, FollowInv
<1>7. VersionInv'
  <2>1. WillRefresh => WillRefresh' BY <1>1 DEF WillRefresh
  <2>2. CatalogIsCurrent => CatalogIsCurrent' BY DEF CatalogIsCurrent
  <2>3. \A q \in Threads : pc'[q] = "publish" <=> pc[q] = "publish"
    BY <1>1 DEF Refreshing
  <2> QED BY <2>1, <2>2, <2>3 DEF CatalogInv, VersionInv
<1> QED BY <1>4, <1>5, <1>6, <1>7 DEF CatalogInv

\* Every step of the holder of catalogRefreshMu keeps the catalog behind.
LEMMA CatalogReads ==
    ASSUME ControlInv, WorkspaceInv, DeferralInv, CatalogInv, NEW t \in Threads,
           \/ AdmitRefresh(t) \/ ReadAgent(t) \/ ReadMCP(t) \/ PublishCatalog(t)
    PROVE  CatalogInv'
<1>0. /\ pc \in [Threads -> Labels] /\ OnPath(t, pc[t]) /\ Resumes(t, pc[t], resume[t])
      /\ resume \in [Threads -> Labels] /\ resume = [resume EXCEPT ![t] = resume[t]]
      /\ Switchers \subseteq Threads
  BY DEF ControlInv, Threads
<1>1. HoldsCatalog(pc[t])
  BY DEF AdmitRefresh, ReadAgent, ReadMCP, PublishCatalog, At, HoldsCatalog
<1>2. ASSUME NEW q \in Threads \ {t} PROVE pc[q] \notin {"readMcp", "publish"}
  BY <1>1, OneReads DEF HoldsCatalog
<1>3. CASE AdmitRefresh(t) /\ ~(depth > 0)
  <2>1. /\ pc[t] = "ask" /\ pc' = [pc EXCEPT ![t] = "readAgent"] /\ resume' = [resume EXCEPT ![t] = resume[t]]
        /\ UNCHANGED <<roots, poisoned, version, catalog, seen, goal, depth, pending>>
    BY <1>0, <1>3 DEF AdmitRefresh, At, Goto
  <2>2. t \in Switchers => RootsAt(goal, roots, poisoned, t, "readAgent", resume[t])
    BY <1>0, <2>1 DEF CatalogInv, SwitchInv, RootsAt, Alone, Defers, Refreshing
  <2> QED BY <2>1, <2>2, CatalogRests DEF Apart, WillFollow, Refreshing
<1>4. CASE AdmitRefresh(t) /\ depth > 0
  <2>1. /\ pc[t] = "ask" /\ pc' = [pc EXCEPT ![t] = resume[t]] /\ resume' = [resume EXCEPT ![t] = "idle"]
        /\ UNCHANGED <<roots, poisoned, version, catalog, seen, goal, depth>> /\ pending' = TRUE
    BY <1>4 DEF AdmitRefresh, At, Return, Goto
  <2>2. depth = 1 /\ \E s \in Threads : Defers(s, pc[s], resume[s])
    BY <1>4 DEF DeferralInv
  <2>3. t \notin Switchers
    <3>1. PICK s \in Threads : Defers(s, pc[s], resume[s]) BY <2>2
    <3>2. CASE t = s BY <1>0, <2>1, <3>1, <3>2 DEF Resumes, Refreshing, Defers
    <3>3. CASE t # s BY <2>1, <3>1, <3>3, OneDefers DEF WritesWorkspace
    <3> QED BY <3>2, <3>3
  <2>4. /\ \A q \in Threads \ {t} : pc'[q] = pc[q] /\ resume'[q] = resume[q]
        /\ pc'[t] = resume[t] /\ resume'[t] = "idle"
    BY <1>0, <2>1
  <2>5. resume[t] \notin {"readMcp", "publish"}
    BY <1>0, <2>1, <2>3 DEF OnPath, Threads, Resumes, Refreshing
  <2>6. ContentTypes' BY <2>1 DEF CatalogInv, ContentTypes
  <2>7. SwitchInv'
    <3>1. \A s \in Switchers : pc'[s] = pc[s] /\ resume'[s] = resume[s] BY <1>0, <2>3, <2>4
    <3>2. \A s \in Switchers : RootsAt(goal', roots', poisoned', s, pc'[s], resume'[s])
      BY <2>1, <3>1 DEF CatalogInv, SwitchInv
    <3> QED BY <2>1, <3>1, <3>2 DEF CatalogInv, SwitchInv
  <2>8. SeenInv' BY <2>1, <2>4, <2>5 DEF CatalogInv, SeenInv
  <2>9. FollowInv'
    <3>1. \A s \in Threads : WillFollow(pending, s, pc[s]) => WillFollow(pending', s, pc'[s])
      BY <2>1, <2>3, <2>4 DEF WillFollow
    <3> QED BY <2>1, <3>1 DEF CatalogInv, FollowInv, Fresh
  <2>10. VersionInv'
    <3>1. WillRefresh' BY <2>1, <2>2 DEF WillRefresh
    <3> QED BY <3>1 DEF VersionInv
  <2> QED BY <2>6, <2>7, <2>8, <2>9, <2>10 DEF CatalogInv
<1>5. CASE ReadAgent(t)
  <2>1. /\ pc[t] = "readAgent" /\ pc' = [pc EXCEPT ![t] = "readMcp"] /\ resume' = resume
        /\ UNCHANGED <<roots, poisoned, version, catalog, goal, depth, pending>> /\ seen' = [agent |-> roots.agent]
    BY <1>5 DEF ReadAgent, At, Goto, deferral
  <2>2. /\ \A q \in Threads \ {t} : pc'[q] = pc[q]
        /\ pc'[t] = "readMcp" /\ \A q \in Threads : resume'[q] = resume[q]
    BY <1>0, <2>1
  <2>3. ContentTypes' BY <2>1 DEF CatalogInv, ContentTypes
  <2>4. SwitchInv'
    <3>1. \A s \in Switchers : RootsAt(goal', roots', poisoned', s, pc'[s], resume'[s])
      BY <1>0, <2>1, <2>2 DEF CatalogInv, SwitchInv, RootsAt, Alone, Defers, Refreshing
    <3>2. \A s \in Switchers : pc'[s] \in Apart <=> pc[s] \in Apart BY <1>0, <2>1, <2>2 DEF Apart
    <3> QED BY <2>1, <3>1, <3>2 DEF CatalogInv, SwitchInv
  <2>5. SeenInv' BY <1>2, <2>1, <2>2 DEF SeenInv
  <2>6. FollowInv'
    <3>1. \A s \in Threads : WillFollow(pending, s, pc[s]) => WillFollow(pending', s, pc'[s])
      BY <2>1, <2>2 DEF WillFollow, Refreshing
    <3> QED BY <2>1, <3>1 DEF CatalogInv, FollowInv, Fresh
  <2>7. VersionInv'
    <3>1. WillRefresh' BY <2>2 DEF WillRefresh, Refreshing
    <3> QED BY <3>1 DEF VersionInv
  <2> QED BY <2>3, <2>4, <2>5, <2>6, <2>7 DEF CatalogInv
<1>6. CASE ReadMCP(t)
  <2>1. /\ pc[t] = "readMcp" /\ pc' = [pc EXCEPT ![t] = "publish"] /\ resume' = resume
        /\ UNCHANGED <<roots, poisoned, version, catalog, goal, depth, pending>>
        /\ seen' = [agent |-> seen.agent, mcp |-> roots.mcp, version |-> version]
    BY <1>6 DEF ReadMCP, At, Goto, deferral
  <2>2. /\ \A q \in Threads \ {t} : pc'[q] = pc[q]
        /\ pc'[t] = "publish" /\ \A q \in Threads : resume'[q] = resume[q]
    BY <1>0, <2>1
  <2>3. /\ seen' \in Sources /\ seen'.agent = roots.agent /\ seen'.mcp = roots.mcp
        /\ seen'.version = version
    BY <2>1 DEF CatalogInv, SeenInv, ContentTypes, Sources
  <2>4. ContentTypes' BY <2>1, <2>3 DEF CatalogInv, ContentTypes
  <2>5. SwitchInv'
    <3>1. \A s \in Switchers : RootsAt(goal', roots', poisoned', s, pc'[s], resume'[s])
      BY <1>0, <2>1, <2>2 DEF CatalogInv, SwitchInv, RootsAt, Alone, Defers, Refreshing
    <3>2. \A s \in Switchers : pc'[s] \in Apart <=> pc[s] \in Apart BY <1>0, <2>1, <2>2 DEF Apart
    <3> QED BY <2>1, <3>1, <3>2 DEF CatalogInv, SwitchInv
  <2>6. SeenInv' BY <1>2, <2>1, <2>2, <2>3 DEF SeenInv
  <2>7. FollowInv'
    <3>1. \A s \in Threads : WillFollow(pending, s, pc[s]) => WillFollow(pending', s, pc'[s])
      BY <2>1, <2>2 DEF WillFollow, Refreshing
    <3> QED BY <2>1, <3>1 DEF CatalogInv, FollowInv, Fresh
  <2>8. VersionInv' BY <1>2, <2>1, <2>2, <2>3 DEF VersionInv
  <2> QED BY <2>4, <2>5, <2>6, <2>7, <2>8 DEF CatalogInv
<1>7. CASE PublishCatalog(t)
  <2>0. pc[t] = "publish" /\ UNCHANGED <<roots, poisoned, version, goal, depth>> /\ seen' = NoCatalog
    BY <1>7 DEF PublishCatalog, At
  <2>1. PICK l \in {resume[t], "undoMcp"} :
          /\ pc' = [pc EXCEPT ![t] = l] /\ resume' = [resume EXCEPT ![t] = "idle"]
          /\ l # resume[t] => resume[t] = "save"
    <3>1. CASE Return(t, resume[t]) BY <3>1 DEF Return, Goto
    <3>2. CASE Return(t, "undoMcp") /\ resume[t] = "save" BY <3>2 DEF Return, Goto
    <3> QED BY <1>7, <3>1, <3>2 DEF PublishCatalog
  <2>2. /\ \A q \in Threads \ {t} : pc'[q] = pc[q] /\ resume'[q] = resume[q]
        /\ pc'[t] = l /\ resume'[t] = "idle"
    BY <1>0, <2>1
  <2>3. l \notin Refreshing /\ l \notin {"setMcp", "setAgent", "undoAgent"}
    BY <1>0, <2>0, <2>1, AuthorityAssumption DEF OnPath, Threads, Resumes, Refreshing
  <2>4. seen \in Sources /\ seen.agent = roots.agent /\ seen.mcp = roots.mcp
    BY <2>0 DEF CatalogInv, SeenInv
  <2>5. roots.agent = roots.mcp \/ poisoned
    <3>1. ASSUME NEW s \in Switchers, pc[s] \in Apart PROVE FALSE
      <4>1. s \in Threads /\ s # t /\ Alone(s, pc[s], resume[s])
        BY <1>0, <2>0, <3>1 DEF Apart, Alone, Defers
      <4> QED BY <2>0, <4>1, NobodyReads
    <3> QED BY <3>1 DEF CatalogInv, SwitchInv
  <2>6. \/ catalog' = seen /\ pending' = pending
        \/ catalog' = NoCatalog /\ pending' \in BOOLEAN /\ (pending => pending')
    BY <1>7 DEF PublishCatalog, DeferralInv
  <2>7. ContentTypes' BY <2>0, <2>4, <2>6 DEF CatalogInv, ContentTypes
  <2>8. SwitchInv'
    <3>1. t \in Switchers => RootsAt(goal, roots, poisoned, t, pc[t], resume[t]) BY DEF CatalogInv, SwitchInv
    <3>2. t \in Switchers => resume[t] \in {"save", "workspaceUnlock"}
      BY <1>0, <2>0 DEF Resumes, Refreshing
    <3>3. t \in Switchers => RootsAt(goal', roots', poisoned', t, l, "idle")
      BY <2>0, <2>1, <2>3, <3>1, <3>2 DEF RootsAt, Alone, Defers, Refreshing
    <3>4. ASSUME NEW s \in Switchers PROVE RootsAt(goal', roots', poisoned', s, pc'[s], resume'[s])
      BY <1>0, <2>0, <2>2, <3>3 DEF CatalogInv, SwitchInv
    <3> QED BY <2>0, <2>5, <3>4 DEF SwitchInv
  <2>9. SeenInv' BY <1>2, <2>2, <2>3 DEF SeenInv, Refreshing
  <2>10. FollowInv' BY <2>0, <2>4, <2>5, <2>6 DEF FollowInv, Fresh
  <2>11. VersionInv'
    <3>1. ASSUME WillRefresh PROVE WillRefresh'
      <4>1. CASE depth = 1 /\ pending
        <5>1. depth' = 1 /\ pending' BY <2>0, <2>6, <4>1 DEF DeferralInv
        <5> QED BY <5>1 DEF WillRefresh
      <4>2. CASE \E q \in Threads : pc[q] \in Refreshing \ {"publish"}
        BY <2>0, <2>2, <4>2 DEF WillRefresh
      <4> QED BY <3>1, <4>1, <4>2 DEF WillRefresh
    <3>2. CatalogIsCurrent' \/ WillRefresh'
      <4>1. CASE catalog' = NoCatalog BY <4>1 DEF CatalogIsCurrent
      <4>2. CASE catalog' = seen BY <2>0, <3>1, <4>2 DEF CatalogIsCurrent, CatalogInv, VersionInv
      <4> QED BY <2>6, <4>1, <4>2
    <3>3. \A q \in Threads : pc'[q] # "publish" BY <1>2, <2>2, <2>3 DEF Refreshing
    <3> QED BY <3>2, <3>3 DEF VersionInv
  <2> QED BY <2>7, <2>8, <2>9, <2>10, <2>11 DEF CatalogInv
<1> QED BY <1>3, <1>4, <1>5, <1>6, <1>7

\* Every step keeps the catalog behind the workspace and the tools.
LEMMA CatalogStep ==
    ASSUME ControlInv, WorkspaceInv, DeferralInv, CatalogInv, NEW t \in Threads, Call(t) \/ Step(t)
    PROVE  CatalogInv'
<1>0. /\ pc \in [Threads -> Labels] /\ OnPath(t, pc[t]) /\ Resumes(t, pc[t], resume[t])
      /\ resume \in [Threads -> Labels] /\ resume = [resume EXCEPT ![t] = resume[t]]
      /\ Switchers \subseteq Threads /\ ContentTypes
      /\ t \in Switchers => RootsAt(goal, roots, poisoned, t, pc[t], resume[t])
  BY DEF ControlInv, Threads, CatalogInv, SwitchInv
<1>1. ASSUME NEW l, Goto(t, l), UNCHANGED resume,
             UNCHANGED <<roots, poisoned, version, catalog, seen, goal, depth, pending>>,
             t \in Switchers =>
                 /\ RootsAt(goal, roots, poisoned, t, l, resume[t])
                 /\ pc[t] \in Apart => l \in Apart
                 /\ WillFollow(pending, t, pc[t]) => WillFollow(pending, t, l),
             pc[t] \in Refreshing => l \in Refreshing,
             l \notin {"readMcp", "publish"}, pc[t] # "publish"
      PROVE  CatalogInv'
  BY <1>0, <1>1, CatalogRests DEF Goto
<1>2. ASSUME NEW l, NEW r, Refresh(t, l, r), t \notin Switchers,
             UNCHANGED <<roots, poisoned, version, catalog, seen, goal, depth, pending>>,
             pc[t] \in Refreshing => l \in Refreshing,
             l \notin {"readMcp", "publish"}, pc[t] # "publish"
      PROVE  CatalogInv'
  BY <1>0, <1>2, CatalogRests DEF Goto, Refresh
<1>3. ASSUME NEW l, NEW r, pc' = [pc EXCEPT ![t] = l], resume' = [resume EXCEPT ![t] = r],
             pc[t] \in {"drainRefresh", "setAgent", "setMcp", "flush", "undoMcp", "undoAgent", "release"},
             l \notin {"readMcp", "publish"},
             UNCHANGED <<seen, catalog, version>>, ContentTypes', poisoned => poisoned',
             roots' = roots \/ pc[t] # "drainRefresh",
             RootsAt(goal', roots', poisoned', t, l, r),
             l \notin Apart => roots'.agent = roots'.mcp \/ poisoned',
             Fresh' \/ WillFollow(pending', t, l),
             \/ UNCHANGED <<depth, pending>>
             \/ depth' = depth /\ pending'
             \/ l \in Refreshing \ {"publish"}
             \/ ~pending
      PROVE  CatalogInv'
  <2>1. t \in Switchers BY <1>0, <1>3 DEF OnPath, Threads
  <2>2. Defers(t, pc[t], resume[t]) /\ (pc[t] # "drainRefresh" => Alone(t, pc[t], resume[t]))
    BY <1>3, <2>1 DEF Defers, Alone
  <2>3. depth = 1 BY <2>2, DepthCounts
  <2>4. pc[t] \notin Refreshing BY <1>3 DEF Refreshing
  <2> QED BY <1>3, <2>2, <2>3, <2>4, CatalogSwitches
<1>4. ASSUME t \in Switchers, pc[t] \notin Apart, Defers(t, pc[t], resume[t])
      PROVE  roots.agent = roots.mcp \/ poisoned
  <2>1. ASSUME NEW s \in Switchers, pc[s] \in Apart PROVE FALSE
    <3>1. s \in Threads \ {t} BY <1>0, <1>4, <2>1
    <3> QED BY <1>4, <2>1, <3>1, OneDefers DEF WritesWorkspace, Apart
  <2> QED BY <2>1 DEF CatalogInv, SwitchInv
<1>5. CASE ToolsChanged(t)
  <2>1. /\ pc[t] = "toolsChanged" /\ pc' = [pc EXCEPT ![t] = "catalogLockAndAsk"]
        /\ resume' = [resume EXCEPT ![t] = "idle"] /\ UNCHANGED <<roots, poisoned, catalog, seen, goal, depth, pending>>
    BY <1>5 DEF ToolsChanged, At, Refresh, Goto, deferral
  <2>2. version' \in 0 .. MaxVersion
    BY <1>0, <1>5, AuthorityAssumption DEF ToolsChanged, ContentTypes
  <2>3. /\ \A q \in Threads \ {t} : pc'[q] = pc[q] /\ resume'[q] = resume[q]
        /\ pc'[t] = "catalogLockAndAsk" /\ resume'[t] = "idle" /\ t \notin Switchers
    BY <1>0, <2>1, AuthorityAssumption DEF OnPath, Threads
  <2>4. ContentTypes' BY <1>0, <2>1, <2>2 DEF ContentTypes
  <2>5. SwitchInv' BY <1>0, <2>1, <2>3 DEF CatalogInv, SwitchInv, RootsAt
  <2>6. SeenInv' BY <2>1, <2>3 DEF CatalogInv, SeenInv
  <2>7. FollowInv' BY <2>1, <2>3 DEF CatalogInv, FollowInv, Fresh, WillFollow
  <2>8. VersionInv'
    <3>1. WillRefresh' BY <2>3 DEF WillRefresh, Refreshing
    <3> QED BY <3>1 DEF VersionInv
  <2> QED BY <2>4, <2>5, <2>6, <2>7, <2>8 DEF CatalogInv
<1>6. CASE DeferRefreshes(t)
  <2>1. /\ pc[t] = "defer" /\ pc' = [pc EXCEPT ![t] = "drainRefresh"] /\ depth' = depth + 1
        /\ pending' = TRUE /\ UNCHANGED <<resume, roots, poisoned, version, catalog, seen, goal>>
    BY <1>6 DEF DeferRefreshes, At, Goto, contents
  <2>2. t \in Switchers /\ WritesWorkspace(t, pc[t]) /\ ~Defers(t, pc[t], resume[t])
    BY <1>0, <2>1 DEF OnPath, Threads, WritesWorkspace, Defers, Refreshing
  <2>3. depth = 0
    <3>1. ~\E s \in Threads : Defers(s, pc[s], resume[s]) BY <2>2, OneDefers
    <3> QED BY <3>1 DEF DeferralInv
  <2>4. WillRefresh' BY <2>1, <2>3 DEF WillRefresh
  <2>5. /\ \A q \in Threads \ {t} : pc'[q] = pc[q]
        /\ pc'[t] = "drainRefresh"
    BY <1>0, <2>1
  <2>6. ContentTypes' BY <1>0, <2>1 DEF ContentTypes
  <2>7. SwitchInv'
    <3>1. RootsAt(goal, roots, poisoned, t, "drainRefresh", resume[t]) BY DEF RootsAt, Alone
    <3>2. \A s \in Switchers : RootsAt(goal', roots', poisoned', s, pc'[s], resume'[s])
      BY <1>0, <2>1, <2>5, <3>1 DEF CatalogInv, SwitchInv
    <3>3. \A s \in Switchers : pc'[s] \in Apart <=> pc[s] \in Apart
      BY <1>0, <2>1, <2>5 DEF Apart
    <3> QED BY <2>1, <3>2, <3>3 DEF CatalogInv, SwitchInv
  <2>8. SeenInv' BY <2>1, <2>5 DEF CatalogInv, SeenInv
  <2>9. FollowInv'
    <3>1. \A s \in Threads : WillFollow(pending, s, pc[s]) => WillFollow(pending', s, pc'[s])
      BY <2>1, <2>5 DEF WillFollow, Apart, Refreshing
    <3> QED BY <2>1, <3>1 DEF CatalogInv, FollowInv, Fresh
  <2>10. VersionInv' BY <2>4 DEF VersionInv
  <2> QED BY <2>6, <2>7, <2>8, <2>9, <2>10 DEF CatalogInv
<1>7. ASSUME pc[t] \in {"drainRefresh", "setAgent", "setMcp", "flush", "undoMcp", "undoAgent", "release", "save"}
      PROVE  /\ t \in Switchers /\ Defers(t, pc[t], resume[t])
             /\ pc[t] \notin {"drainRefresh", "release"} => goal \in Goals
             /\ pc[t] \notin {"drainRefresh", "setAgent", "release"} =>
                  ~poisoned /\ goal.old.agent = goal.old.mcp
             /\ pc[t] \in {"drainRefresh", "setAgent"} => Fresh
  <2>1. t \in Switchers BY <1>0, <1>7 DEF OnPath, Threads
  <2>2. t \in Switchers /\ Defers(t, pc[t], resume[t])
    BY <1>7, <2>1 DEF Defers
  <2>3. ASSUME pc[t] \in {"drainRefresh", "setAgent"}, NEW s \in Threads, WillFollow(pending, s, pc[s])
        PROVE  FALSE
    <3>1. s # t BY <2>3 DEF WillFollow, Apart, Refreshing
    <3>2. ~WritesWorkspace(s, pc[s]) BY <2>2, <3>1, OneDefers
    <3> QED BY <2>3, <3>2 DEF WillFollow, WritesWorkspace, Apart, Refreshing
  <2>4. pc[t] \in {"drainRefresh", "setAgent"} => Fresh BY <2>3 DEF CatalogInv, FollowInv
  <2> QED BY <1>0, <1>7, <2>2, <2>4 DEF Defers, RootsAt, Alone
<1>8. CASE DrainRefresh(t)
  <2>1. /\ pc[t] = "drainRefresh" /\ pc' = [pc EXCEPT ![t] = "setAgent"]
        /\ resume' = [resume EXCEPT ![t] = resume[t]]
        /\ UNCHANGED <<depth, pending, roots, poisoned, version, catalog, seen>>
    BY <1>0, <1>8 DEF DrainRefresh, At, Goto, deferral
  <2>2. PICK root \in Workspaces : goal' = [old |-> roots, new |-> root]
    BY <1>8 DEF DrainRefresh
  <2>3. goal' \in Goals /\ goal'.old = roots
    BY <1>0, <2>2 DEF ContentTypes, Goals
  <2>4. ContentTypes' BY <1>0, <2>1, <2>3 DEF ContentTypes
  <2>5. RootsAt(goal', roots', poisoned', t, "setAgent", resume[t]) BY <2>1, <2>3 DEF RootsAt
  <2>6. roots'.agent = roots'.mcp \/ poisoned' BY <1>4, <1>7, <2>1 DEF Apart
  <2>7. Fresh' BY <1>7, <2>1 DEF Fresh
  <2>8. Fresh' \/ WillFollow(pending', t, "setAgent") BY <2>7
  <2> QED BY <1>3, <2>1, <2>4, <2>5, <2>6, <2>8
<1>9. CASE SetAgentRoot(t)
  <2>0. /\ pc[t] = "setAgent" /\ resume' = [resume EXCEPT ![t] = resume[t]]
        /\ UNCHANGED <<depth, version, catalog, seen, goal>>
    BY <1>0, <1>9 DEF SetAgentRoot, At
  <2>1. CASE /\ ~poisoned /\ UNCHANGED poisoned /\ Goto(t, "setMcp")
             /\ roots' = [roots EXCEPT !.agent = goal.new] /\ pending' = TRUE
    <3>1. ContentTypes' /\ roots'.agent = goal'.new /\ goal' \in Goals
      BY <1>0, <1>7, <2>0, <2>1 DEF ContentTypes, Goals
    <3>2. goal.old = roots BY <1>0, <1>7, <2>0 DEF RootsAt
    <3>3. goal'.old.agent = goal'.old.mcp BY <1>4, <1>7, <2>0, <2>1, <3>2 DEF Apart
    <3>4. RootsAt(goal', roots', poisoned', t, "setMcp", resume[t])
      BY <2>1, <3>1, <3>3 DEF RootsAt
    <3>5. WillFollow(pending', t, "setMcp") BY <1>7, <2>0 DEF WillFollow, Apart
    <3> QED BY <1>3, <2>0, <2>1, <3>1, <3>4, <3>5 DEF Goto, Apart
  <2>2. CASE UNCHANGED <<roots, pending>> /\ poisoned' \in {poisoned, TRUE} /\ Goto(t, "release")
    <3>1. RootsAt(goal', roots', poisoned', t, "release", resume[t]) BY DEF RootsAt
    <3>0. poisoned' \in BOOLEAN /\ (poisoned => poisoned')
      <4>1. CASE poisoned' = poisoned BY <1>0, <4>1 DEF ContentTypes
      <4>2. CASE poisoned' = TRUE BY <4>2
      <4> QED BY <2>2, <4>1, <4>2
    <3>2. ContentTypes' BY <1>0, <2>0, <2>2, <3>0 DEF ContentTypes
    <3>3. roots'.agent = roots'.mcp \/ poisoned' BY <1>4, <1>7, <2>0, <2>2, <3>0 DEF Apart
    <3>4. Fresh' BY <1>7, <2>0, <2>2 DEF Fresh
    <3>5. /\ pc' = [pc EXCEPT ![t] = "release"] /\ "release" \notin {"readMcp", "publish"}
          /\ pc[t] \in {"drainRefresh", "setAgent", "setMcp", "flush", "undoMcp", "undoAgent", "release"}
          /\ UNCHANGED <<depth, pending, roots, seen, catalog, version>>
      BY <2>0, <2>2 DEF Goto
    <3>6. poisoned => poisoned' BY <3>0
    <3> QED BY <1>3, <2>0, <3>1, <3>2, <3>3, <3>4, <3>5, <3>6
  <2> QED BY <1>9, <2>1, <2>2 DEF SetAgentRoot
<1>10. CASE SetMCPRoot(t)
  <2>0. /\ pc[t] = "setMcp" /\ resume' = [resume EXCEPT ![t] = resume[t]]
        /\ UNCHANGED <<depth, pending, poisoned, version, catalog, seen, goal>>
    BY <1>0, <1>10 DEF SetMCPRoot, At, deferral
  <2>1. /\ t \in Switchers /\ goal \in Goals /\ roots.agent = goal.new
        /\ ~poisoned' /\ goal'.old.agent = goal'.old.mcp
    BY <1>0, <1>7, <2>0 DEF RootsAt
  <2>2. CASE roots' = [roots EXCEPT !.mcp = goal.new] /\ Goto(t, "flush")
    <3>1. ContentTypes' /\ roots'.agent = roots'.mcp /\ goal' = goal
      BY <1>0, <2>0, <2>1, <2>2 DEF ContentTypes, Goals
    <3>2. RootsAt(goal', roots', poisoned', t, "flush", resume[t]) BY <2>1, <3>1 DEF RootsAt
    <3>3. WillFollow(pending', t, "flush") BY <2>1 DEF WillFollow
    <3> QED BY <1>3, <2>0, <2>2, <3>1, <3>2, <3>3 DEF Goto
  <2>3. CASE roots' \in {roots, [roots EXCEPT !.mcp = goal.new]} /\ Goto(t, "undoMcp")
    <3>1. ContentTypes' /\ goal' = goal
      BY <1>0, <2>0, <2>1, <2>3 DEF ContentTypes, Goals
    <3>2. RootsAt(goal', roots', poisoned', t, "undoMcp", resume[t]) BY <2>1, <3>1 DEF RootsAt
    <3>3. WillFollow(pending', t, "undoMcp") BY <2>1 DEF WillFollow, Apart
    <3> QED BY <1>3, <2>0, <2>3, <3>1, <3>2, <3>3 DEF Goto, Apart
  <2> QED BY <1>10, <2>2, <2>3 DEF SetMCPRoot
<1>11. CASE FlushCatalog(t)
  <2>0. /\ pc[t] = "flush" /\ pc' = [pc EXCEPT ![t] = "catalogLock"]
        /\ resume' = [resume EXCEPT ![t] = "save"]
        /\ UNCHANGED <<depth, roots, poisoned, version, catalog, seen, goal>>
    BY <1>11 DEF FlushCatalog, At, Refresh, Goto
  <2>1. /\ t \in Switchers /\ goal \in Goals /\ roots.agent = roots.mcp
        /\ ~poisoned /\ goal.old.agent = goal.old.mcp
    BY <1>4, <1>7, <2>0 DEF Apart
  <2>2. ContentTypes' BY <1>0, <2>0 DEF ContentTypes
  <2>3. RootsAt(goal', roots', poisoned', t, "catalogLock", "save") BY <2>0, <2>1 DEF RootsAt
  <2>4. WillFollow(pending', t, "catalogLock") BY <2>1 DEF WillFollow, Refreshing
  <2> QED BY <1>3, <2>0, <2>1, <2>2, <2>3, <2>4 DEF Refreshing
<1>12. CASE SaveProjects(t)
  <2>0. pc[t] = "save" /\ UNCHANGED <<depth, pending, roots, poisoned, version, catalog, seen, resume, goal>>
    BY <1>12 DEF SaveProjects, At, deferral, contents
  <2>1. PICK l \in {"release", "undoMcp"} : Goto(t, l) BY <1>12 DEF SaveProjects
  <2>2. RootsAt(goal, roots, poisoned, t, l, resume[t]) BY <1>7, <2>0, <2>1 DEF RootsAt
  <2>3. pc[t] \notin Apart \cup Refreshing /\ ~WillFollow(pending, t, pc[t])
    BY <2>0 DEF WillFollow, Apart, Refreshing
  <2> QED BY <1>1, <2>0, <2>1, <2>2, <2>3
<1>13. CASE UndoMCPRoot(t)
  <2>0. /\ pc[t] = "undoMcp" /\ pc' = [pc EXCEPT ![t] = "undoAgent"]
        /\ resume' = [resume EXCEPT ![t] = resume[t]]
        /\ UNCHANGED <<depth, pending, poisoned, version, catalog, seen, goal>>
        /\ roots' \in {roots, [roots EXCEPT !.mcp = goal.old.mcp]}
    BY <1>0, <1>13 DEF UndoMCPRoot, At, Goto, deferral
  <2>1. t \in Switchers /\ goal \in Goals /\ ~poisoned /\ goal.old.agent = goal.old.mcp
    BY <1>7, <2>0
  <2>2. ContentTypes' BY <1>0, <2>0, <2>1 DEF ContentTypes, Goals
  <2>3. RootsAt(goal', roots', poisoned', t, "undoAgent", resume[t]) BY <2>0, <2>1 DEF RootsAt
  <2>4. WillFollow(pending', t, "undoAgent") BY <2>1 DEF WillFollow, Apart
  <2> QED BY <1>3, <2>0, <2>2, <2>3, <2>4 DEF Apart
<1>14. CASE UndoAgentRoot(t)
  <2>0. /\ pc[t] = "undoAgent" /\ pc' = [pc EXCEPT ![t] = "release"]
        /\ resume' = [resume EXCEPT ![t] = resume[t]] /\ pending' = TRUE
        /\ UNCHANGED <<depth, version, catalog, seen, goal>>
        /\ roots' = [roots EXCEPT !.agent = goal.old.agent]
    BY <1>0, <1>14 DEF UndoAgentRoot, At, Goto
  <2>1. PICK restored \in BOOLEAN : poisoned' = (poisoned \/ ~restored \/ roots.mcp # goal.old.mcp)
    BY <1>14 DEF UndoAgentRoot
  <2>2. t \in Switchers /\ goal \in Goals /\ goal.old.agent = goal.old.mcp BY <1>7, <2>0
  <2>3. poisoned' \in BOOLEAN BY <2>1
  <2>4. roots' \in [agent : Workspaces, mcp : Workspaces] BY <1>0, <2>0, <2>2 DEF ContentTypes, Goals
  <2>5. ContentTypes' BY <1>0, <2>0, <2>3, <2>4 DEF ContentTypes
  <2>6. roots'.agent = goal.old.agent /\ roots'.mcp = roots.mcp BY <1>0, <2>0 DEF ContentTypes
  <2>7. roots'.agent = roots'.mcp \/ poisoned' BY <2>1, <2>2, <2>6
  <2>8. poisoned => poisoned' BY <2>1
  <2>9. RootsAt(goal', roots', poisoned', t, "release", resume[t]) BY DEF RootsAt
  <2>10. WillFollow(pending', t, "release") BY <2>0, <2>2 DEF WillFollow
  <2> QED BY <1>3, <2>0, <2>5, <2>7, <2>8, <2>9, <2>10
<1>15. CASE ReleaseGuard(t)
  <2>0. pc[t] = "release" /\ goal' = NoGoal /\ UNCHANGED <<roots, poisoned, version, catalog, seen>>
    BY <1>15 DEF ReleaseGuard, At
  <2>1. t \in Switchers /\ (roots.agent = roots.mcp \/ poisoned) /\ Defers(t, pc[t], resume[t])
    BY <1>4, <1>7, <2>0 DEF Apart
  <2>2. depth = 1 BY <2>1, DepthCounts
  <2>3. ContentTypes' BY <1>0, <2>0 DEF ContentTypes
  <2>4. CASE pending
    <3>1. /\ pc' = [pc EXCEPT ![t] = "catalogLockAndAsk"]
          /\ resume' = [resume EXCEPT ![t] = "workspaceUnlock"]
      BY <1>15, <2>2, <2>4 DEF ReleaseGuard, Refresh, Goto
    <3>2. RootsAt(goal', roots', poisoned', t, "catalogLockAndAsk", "workspaceUnlock")
      BY DEF RootsAt, Alone, Defers
    <3>3. WillFollow(pending', t, "catalogLockAndAsk") BY <2>1 DEF WillFollow, Refreshing
    <3> QED BY <1>3, <2>0, <2>1, <2>3, <3>1, <3>2, <3>3 DEF Refreshing
  <2>5. CASE ~pending
    <3>1. /\ pc' = [pc EXCEPT ![t] = "workspaceUnlock"]
          /\ resume' = [resume EXCEPT ![t] = resume[t]]
      BY <1>0, <1>15, <2>5 DEF ReleaseGuard, Goto
    <3>2. RootsAt(goal', roots', poisoned', t, "workspaceUnlock", resume[t])
      BY DEF RootsAt, Alone, Defers, Refreshing
    <3>3. Fresh'
      <4>1. ASSUME NEW s \in Threads, WillFollow(pending, s, pc[s]) PROVE FALSE
        <5>1. s # t BY <2>0, <2>5, <4>1 DEF WillFollow, Apart, Refreshing
        <5>2. ~WritesWorkspace(s, pc[s]) BY <2>1, <5>1, OneDefers
        <5> QED BY <4>1, <5>2 DEF WillFollow, WritesWorkspace, Apart, Refreshing
      <4>2. Fresh BY <4>1 DEF CatalogInv, FollowInv
      <4> QED BY <2>0, <4>2 DEF Fresh
    <3>4. Fresh' \/ WillFollow(pending', t, "workspaceUnlock") BY <3>3
    <3> QED BY <1>3, <2>0, <2>1, <2>3, <2>5, <3>1, <3>2, <3>4
  <2> QED BY <2>4, <2>5
<1>16. CASE AdmitRefresh(t) \/ ReadAgent(t) \/ ReadMCP(t) \/ PublishCatalog(t)
  BY <1>16, CatalogReads
<1> USE AuthorityAssumption DEF At, OnPath, Refreshing, Threads, Apart, WillFollow, RootsAt, Alone, Defers
<1>17. CASE Call(t)
  BY <1>0, <1>1, <1>17, EntryOnPath DEF Call, contents, deferral, locks, Resumes
<1>18. CASE LockWorkflow(t)
  BY <1>0, <1>1, <1>18 DEF LockWorkflow, contents, deferral, locks, Resumes
<1>19. CASE RLockWorkflow(t)
  BY <1>0, <1>1, <1>19 DEF RLockWorkflow, contents, deferral, locks, Resumes
<1>20. CASE UnlockWorkflow(t)
  BY <1>0, <1>1, <1>20 DEF UnlockWorkflow, contents, deferral, locks, Resumes
<1>21. CASE RLockWorkspace(t)
  BY <1>0, <1>1, <1>21 DEF RLockWorkspace, contents, deferral, locks, Resumes
<1>22. CASE RUnlockWorkspace(t)
  BY <1>0, <1>1, <1>22 DEF RUnlockWorkspace, contents, deferral, locks, Resumes
<1>23. CASE LockWorkspace(t)
  BY <1>0, <1>1, <1>23 DEF LockWorkspace, contents, deferral, locks, Resumes
<1>24. CASE UnlockWorkspace(t)
  BY <1>0, <1>1, <1>24 DEF UnlockWorkspace, contents, deferral, locks, Resumes
<1>25. CASE LockCatalog(t)
  BY <1>0, <1>1, <1>25 DEF LockCatalog, contents, deferral, locks, Resumes
<1>26. CASE RunToolHandler(t)
  BY <1>0, <1>1, <1>26 DEF RunToolHandler, contents, deferral, locks, Resumes
<1>27. CASE ReadCatalog(t)
  BY <1>0, <1>2, <1>27 DEF ReadCatalog, deferral, locks, Resumes
<1>28. CASE PlanHandler(t)
  BY <1>0, <1>1, <1>2, <1>28 DEF PlanHandler, deferral, locks, Resumes
<1>29. CASE RefuseTool(t)
  BY <1>0, <1>1, <1>29 DEF RefuseTool, contents, deferral, locks, Resumes
<1> QED BY <1>5, <1>6, <1>8, <1>9, <1>10, <1>11, <1>12, <1>13, <1>14, <1>15, <1>16, <1>17, <1>18, <1>19, <1>20, <1>21, <1>22, <1>23, <1>24, <1>25, <1>26, <1>27, <1>28, <1>29 DEF Step

-----------------------------------------------------------------------------
(* The handlers.                                                           *)

\* A tool at work keeps the switches out.
LEMMA NobodyHandles ==
    ASSUME ControlInv, WorkspaceInv, NEW s \in Threads, Defers(s, pc[s], resume[s]),
           NEW q \in Threads
    PROVE  ~Handling(q)
<1> SUFFICES ASSUME Handling(q) PROVE FALSE
  OBVIOUS
<1>1. workspaceMu.held BY OneDefers
<1>2. OnPath(q, pc[q]) /\ WorkspacePlace(workspaceMu, q, pc[q]) /\ Sound(workspaceMu)
  BY DEF ControlInv, WorkspaceInv
<1>3. workspaceMu.active[q] = 0 BY <1>1, <1>2 DEF Sound, Drained
<1>4. Claims(workspaceMu, q) = IF q \in workspaceMu.queued THEN 1 ELSE 0 BY <1>3 DEF Claims
<1>5. CASE q \in WorkflowTools
  <2>1. q \notin Switchers \cup Callbacks \cup PlanTools /\ pc[q] = "handling"
    BY <1>5, AuthorityAssumption DEF Handling
  <2>2. WorkspaceReads(q, pc[q]) = 1 /\ q \notin workspaceMu.queued
    BY <1>2, <2>1 DEF WorkspaceReads, WorkspacePlace
  <2>3. Claims(workspaceMu, q) = 0 BY <1>4, <2>2
  <2>4. Claims(workspaceMu, q) = 1 BY <1>2, <2>2 DEF WorkspacePlace
  <2> QED BY <2>3, <2>4
<1>6. CASE q \in PlanTools
  <2>1. q \notin Switchers \cup Callbacks /\ pc[q] \notin {"idle", "workspaceRLock", "authorized", "workspaceRUnlock"}
    BY <1>6, AuthorityAssumption DEF Handling
  <2>2. WorkspaceReads(q, pc[q]) = IF pc[q] = "provider" THEN 1 ELSE 2
    BY <1>2, <1>6, <2>1 DEF WorkspaceReads, OnPath
  <2>3. pc[q] = "provider" => q \notin workspaceMu.queued BY <1>2 DEF WorkspacePlace
  <2>4. Claims(workspaceMu, q) = WorkspaceReads(q, pc[q]) BY <1>2 DEF WorkspacePlace
  <2>5. CASE pc[q] = "provider" BY <1>4, <2>2, <2>3, <2>4, <2>5
  <2>6. CASE pc[q] # "provider" BY <1>4, <2>2, <2>4, <2>6
  <2> QED BY <2>5, <2>6
<1> QED BY <1>5, <1>6 DEF Handling

\* Only a switch poisons, and a poisoned lifecycle turns every tool down.
LEMMA HandlingStep ==
    ASSUME ControlInv, ControlInv', WorkspaceInv, HandlingInv, NEW t \in Threads, Call(t) \/ Step(t),
           \A q \in Threads : q # t => pc'[q] = pc[q] /\ resume'[q] = resume[q]
    PROVE  HandlingInv'
<1>1. OnPath(t, pc[t]) /\ pc \in [Threads -> Labels] BY DEF ControlInv
<1>2. CASE SetAgentRoot(t) \/ UndoAgentRoot(t)
  <2>1. pc[t] \in {"setAgent", "undoAgent"} BY <1>2 DEF SetAgentRoot, UndoAgentRoot, At
  <2>2. t \in Switchers BY <1>1, <2>1 DEF OnPath, Threads
  <2>3. Defers(t, pc[t], resume[t]) BY <2>1, <2>2 DEF Defers
  <2>4. \A q \in Threads : ~Handling(q) BY <2>3, NobodyHandles
  <2>5. ~Handling(t)' BY <2>2, AuthorityAssumption DEF Handling
  <2>6. \A q \in Threads : ~Handling(q)' BY <2>4, <2>5 DEF Handling
  <2> QED BY <2>6 DEF HandlingInv
<1>3. CASE ~(SetAgentRoot(t) \/ UndoAgentRoot(t))
  <2>1. UNCHANGED poisoned
    BY <1>3 DEF Call, Step, LockWorkflow, RLockWorkflow, RLockWorkspace, RUnlockWorkspace,
       UnlockWorkflow, LockCatalog, AdmitRefresh, ReadAgent, ReadMCP, PublishCatalog,
       RunToolHandler, RefuseTool, ReadCatalog, PlanHandler, ToolsChanged, LockWorkspace,
       DeferRefreshes, DrainRefresh, SetMCPRoot, FlushCatalog, SaveProjects, UndoMCPRoot,
       ReleaseGuard, UnlockWorkspace, contents
  <2>2. ASSUME Handling(t)', ~Handling(t) PROVE ~poisoned
    <3>1. t \in WorkflowTools \cup PlanTools /\ t \notin Switchers \cup Terminals \cup Callbacks \cup Readers
      BY <2>2, AuthorityAssumption DEF Handling
    <3>2. pc[t] \in {"idle", "workflowRLock", "workspaceRLock", "authorized", "workspaceRUnlock",
                     "workflowRUnlock"}
      BY <1>1, <2>2, <3>1 DEF OnPath, Handling
    <3>3. CASE RunToolHandler(t) \/ RefuseTool(t) \/ PlanHandler(t)
      BY <1>1, <2>2, <3>1, <3>2, <3>3, AuthorityAssumption DEF RunToolHandler, RefuseTool, PlanHandler,
         At, Goto, Refresh, Handling
    <3>4. CASE Call(t) \/ RLockWorkflow(t) \/ RLockWorkspace(t) \/ RUnlockWorkspace(t) \/ UnlockWorkflow(t)
      <4>1. pc'[t] \in {"workflowRLock", "workspaceRLock", "authorized", "workflowRUnlock", "idle"}
        BY <1>1, <3>1, <3>2, <3>4, EntryOnPath DEF Call, RLockWorkflow, RLockWorkspace,
           RUnlockWorkspace, UnlockWorkflow, At, Goto
      <4>2. OnPath(t, pc'[t]) BY DEF ControlInv
      <4> QED BY <2>2, <3>1, <4>1, <4>2, AuthorityAssumption DEF Handling, OnPath
    <3>5. \/ RunToolHandler(t) \/ RefuseTool(t) \/ PlanHandler(t)
          \/ Call(t) \/ RLockWorkflow(t) \/ RLockWorkspace(t) \/ RUnlockWorkspace(t) \/ UnlockWorkflow(t)
      BY <3>1, <3>2 DEF Step, LockWorkflow, LockCatalog, AdmitRefresh, ReadAgent, ReadMCP,
         PublishCatalog, ReadCatalog, ToolsChanged, LockWorkspace, DeferRefreshes, DrainRefresh,
         SetAgentRoot, SetMCPRoot, FlushCatalog, SaveProjects, UndoMCPRoot, UndoAgentRoot,
         ReleaseGuard, UnlockWorkspace, At
    <3> QED BY <3>3, <3>4, <3>5
  <2>3. ASSUME NEW q \in Threads, Handling(q)' PROVE ~poisoned'
    <3>1. CASE q = t BY <2>1, <2>2, <2>3, <3>1 DEF HandlingInv
    <3>2. CASE q # t
      <4>1. Handling(q) BY <2>3, <3>2 DEF Handling
      <4> QED BY <2>1, <4>1 DEF HandlingInv
    <3> QED BY <3>1, <3>2
  <2> QED BY <2>3 DEF HandlingInv
<1> QED BY <1>2, <1>3

-----------------------------------------------------------------------------
(* The theorems.                                                           *)

\* At the start nobody runs and the catalog is that of the roots.
LEMMA AuthorityInitially == AuthorityInit => AuthorityInv
<1> SUFFICES ASSUME AuthorityInit PROVE AuthorityInv
  OBVIOUS
<1>1. ControlInv
  BY DEF AuthorityInit, ControlInv, OnPath, Resumes, Refreshing, Labels
<1>2. Sound(Free) /\ \A t \in Threads : Claims(Free, t) = 0 /\ Free.writer # t /\ t \notin Free.queued
  <2>1. /\ Free.active = [t \in Threads |-> 0] /\ Free.queued = {} /\ Free.writer = NoThread
        /\ Free.held = FALSE
    BY DEF Free
  <2>2. Free \in Mutexes BY DEF Free, Mutexes
  <2> QED BY <2>1, <2>2, AuthorityAssumption DEF Sound, Claims
<1>3. WorkflowInv
  BY <1>2 DEF AuthorityInit, WorkflowInv, WorkflowPlace, WritesWorkflow, WorkflowReads
<1>4. WorkspaceInv
  BY <1>2 DEF AuthorityInit, WorkspaceInv, WorkspacePlace, WritesWorkspace, WorkspaceReads
<1>5. DeferralInv
  <2>1. Callbacks \subseteq Threads BY DEF Threads
  <2>2. /\ \A t \in Threads : pc[t] = "idle" /\ resume[t] = "idle"
        /\ catalogMu = NoThread /\ depth = 0 /\ pending = FALSE
    BY DEF AuthorityInit
  <2>3. \A t \in Threads : catalogMu = t <=> HoldsCatalog(pc[t])
    BY <2>2, AuthorityAssumption DEF HoldsCatalog
  <2>4. \A t \in Threads : ~Defers(t, pc[t], resume[t]) /\ ~Alone(t, pc[t], resume[t])
    BY <2>2 DEF Defers, Alone, Refreshing
  <2>5. depth \in {0, 1} /\ (depth = 1 <=> \E s \in Threads : Defers(s, pc[s], resume[s]))
    BY <2>2, <2>4
  <2> QED BY <2>1, <2>2, <2>3, <2>4, <2>5 DEF DeferralInv
<1>6. CatalogInv
  <2>1. Switchers \subseteq Threads BY DEF Threads
  <2>2. PICK root \in Workspaces : /\ roots = [agent |-> root, mcp |-> root]
                                   /\ catalog = [agent |-> root, mcp |-> root, version |-> 0]
    BY DEF AuthorityInit
  <2>6. poisoned \in BOOLEAN BY DEF AuthorityInit
  <2>7. goal \in Goals \cup {NoGoal} BY DEF AuthorityInit
  <2>3. ContentTypes BY <2>2, <2>6, <2>7, AuthorityAssumption DEF AuthorityInit, ContentTypes, Sources
  <2>4. SwitchInv /\ SeenInv
    BY <2>1, <2>2 DEF AuthorityInit, SwitchInv, SeenInv, RootsAt, Alone, Defers, Refreshing
  <2>5. FollowInv /\ VersionInv
    BY <2>2 DEF AuthorityInit, FollowInv, VersionInv, Fresh, CatalogIsCurrent
  <2> QED BY <2>3, <2>4, <2>5 DEF CatalogInv
<1>7. HandlingInv BY DEF AuthorityInit, HandlingInv
<1> QED BY <1>1, <1>3, <1>4, <1>5, <1>6, <1>7 DEF AuthorityInv

\* No step of any thread leaves the invariant.
LEMMA AuthorityStepPreserves == AuthorityInv /\ [AuthorityNext]_authorityVars => AuthorityInv'
<1> SUFFICES ASSUME AuthorityInv, [AuthorityNext]_authorityVars PROVE AuthorityInv'
  OBVIOUS
<1>1. ASSUME NEW t \in Threads, Call(t) \/ Step(t) PROVE AuthorityInv'
  BY <1>1, ControlStep, WorkflowStep, WorkspaceStep, DeferralStep, CatalogStep, HandlingStep DEF AuthorityInv
<1>2. CASE UNCHANGED authorityVars
  BY <1>2 DEF authorityVars, AuthorityInv, ControlInv, WorkflowInv, WorkspaceInv, DeferralInv, CatalogInv,
              ContentTypes, SwitchInv, SeenInv, FollowInv, VersionInv, Fresh, CatalogIsCurrent, WillRefresh,
              HandlingInv, Handling
<1> QED BY <1>1, <1>2 DEF AuthorityNext

\* The inductive invariant holds in every reachable state.
THEOREM AuthorityInvariance == AuthoritySpec => []AuthorityInv
<1>1. AuthorityInit => AuthorityInv BY AuthorityInitially
<1>2. AuthorityInv /\ [AuthorityNext]_authorityVars => AuthorityInv' BY AuthorityStepPreserves
<1> QED BY <1>1, <1>2, PTL DEF AuthoritySpec

\* The types of AuthorityTypeOK: no thread ever holds a lock more often than
\* the deepest of its calls takes it, and refreshes are deferred once at most.
THEOREM AuthorityTypeCorrect == AuthoritySpec => []AuthorityTypeOK
<1>1. AuthorityInv => AuthorityTypeOK
  BY DEF AuthorityInv, ControlInv, WorkflowInv, WorkspaceInv, Sound, DeferralInv, CatalogInv, ContentTypes,
         Goals, AuthorityTypeOK
<1> QED BY <1>1, AuthorityInvariance, PTL

\* Whoever is past the write lock of workflowExecutionMu excludes every tool
\* of a workflow from its admission to the end of its handler.
THEOREM TerminalsExcludeTools == AuthoritySpec => []TerminalExcludesTools
<1>1. ASSUME AuthorityInv, NEW t \in Terminals, NEW tool \in WorkflowTools,
             pc[t] \in {"workspaceRLock", "authorized", "workspaceRUnlock"},
             pc[tool] \in {"authorized", "handling", "workspaceRUnlock"}
      PROVE  FALSE
  <2>1. t \in Threads /\ tool \in Threads BY DEF Threads
  <2>2. /\ Sound(workflowMu) /\ WorkflowPlace(workflowMu, t, pc[t])
        /\ WorkflowPlace(workflowMu, tool, pc[tool])
    BY <1>1, <2>1 DEF AuthorityInv, WorkflowInv
  <2>3. workflowMu.held BY <1>1, <2>2 DEF WorkflowPlace, WritesWorkflow
  <2>4. workflowMu.active[tool] = 0 BY <2>1, <2>2, <2>3 DEF Sound, Drained
  <2>5. Claims(workflowMu, tool) = 1 /\ tool \notin workflowMu.queued
    BY <1>1, <2>2 DEF WorkflowPlace, WorkflowReads
  <2> QED BY <2>4, <2>5 DEF Claims
<1>2. AuthorityInv => TerminalExcludesTools BY <1>1 DEF TerminalExcludesTools
<1> QED BY <1>2, AuthorityInvariance, PTL

\* No catalog mixes two workspaces, unless a rollback failed, and while the workspace is not held for
\* writing the catalog is that of the roots.
THEOREM CatalogsFollow == AuthoritySpec => []CatalogFollowsWorkspace
<1>1. ASSUME AuthorityInv, ~workspaceMu.held PROVE Fresh
  <2>1. ASSUME NEW s \in Threads, WillFollow(pending, s, pc[s]) PROVE FALSE
    <3>1. WritesWorkspace(s, pc[s]) /\ pc[s] # "workspaceDrain"
      BY <2>1 DEF WillFollow, WritesWorkspace, Apart, Refreshing
    <3> QED BY <1>1, <3>1 DEF AuthorityInv, WorkspaceInv, WorkspacePlace
  <2> QED BY <1>1, <2>1 DEF AuthorityInv, CatalogInv, FollowInv
<1>2. AuthorityInv => CatalogFollowsWorkspace
  BY <1>1 DEF AuthorityInv, CatalogInv, FollowInv, Fresh, CatalogFollowsWorkspace
<1> QED BY <1>2, AuthorityInvariance, PTL

\* When every call has returned, the catalog shows the tools of the last
\* change: a callback dropped during a switch was not lost.
THEOREM NoChangeIsLost == AuthoritySpec => []NoToolChangeIsLost
<1>1. ASSUME AuthorityInv, \A t \in Threads : pc[t] = "idle" PROVE CatalogIsCurrent
  <2>1. ~\E s \in Threads : Defers(s, pc[s], resume[s]) BY <1>1 DEF Defers, Refreshing
  <2>2. depth # 1 BY <1>1, <2>1 DEF AuthorityInv, DeferralInv
  <2> QED BY <1>1, <2>2 DEF AuthorityInv, CatalogInv, VersionInv, WillRefresh, Refreshing
<1>2. AuthorityInv => NoToolChangeIsLost
  BY <1>1 DEF CatalogIsCurrent, NoToolChangeIsLost
<1> QED BY <1>2, AuthorityInvariance, PTL

\* No step of any thread changes a root under a call that holds the read
\* side, and a tool whose handler runs finds roots that agree: a switch that
\* could not roll them back has poisoned the lifecycle before it let go.
THEOREM ReadersKeepTheirWorkspace == AuthoritySpec => ReadersWorkInOneWorkspace
<1>1. ASSUME AuthorityInv, NEW q \in Threads, Reading(workspaceMu, q)
      PROVE  \A s \in Threads : ~Defers(s, pc[s], resume[s])
  <2>1. ASSUME NEW s \in Threads, Defers(s, pc[s], resume[s]) PROVE FALSE
    <3>1. workspaceMu.held BY <1>1, <2>1, OneDefers DEF AuthorityInv
    <3>2. workspaceMu.active[q] = 0 BY <1>1, <3>1 DEF AuthorityInv, WorkspaceInv, Sound, Drained
    <3> QED BY <1>1, <3>2 DEF Reading
  <2> QED BY <2>1
<1>2. ASSUME AuthorityInv, NEW q \in Threads, Reading(workspaceMu, q)
      PROVE  (\E t \in Threads : Handling(t)) => roots.agent = roots.mcp
  <2>1. \A s \in Switchers : s \in Threads /\ pc[s] \notin Apart
    BY <1>1, <1>2 DEF Defers, Apart, Threads
  <2> QED BY <1>2, <2>1 DEF AuthorityInv, CatalogInv, SwitchInv, HandlingInv
<1>3. ASSUME AuthorityInv, [AuthorityNext]_authorityVars, NEW q \in Threads, Reading(workspaceMu, q)
      PROVE  UNCHANGED roots
  <2>1. CASE UNCHANGED authorityVars BY <2>1 DEF authorityVars
  <2>2. ASSUME NEW t \in Threads, Call(t) \/ Step(t) PROVE UNCHANGED roots
    <3>1. pc[t] \notin {"setAgent", "setMcp", "undoMcp", "undoAgent"}
      <4>1. ASSUME pc[t] \in {"setAgent", "setMcp", "undoMcp", "undoAgent"} PROVE FALSE
        <5>1. t \in Switchers BY <1>3, <4>1 DEF AuthorityInv, ControlInv, OnPath, Threads
        <5> QED BY <1>1, <1>3, <4>1, <5>1 DEF Defers
      <4> QED BY <4>1
    <3>2. CASE Call(t) BY <3>2 DEF Call, contents
    <3>3. CASE Step(t)
      BY <3>1, <3>3 DEF Step, LockWorkflow, RLockWorkflow, RLockWorkspace, RUnlockWorkspace,
         UnlockWorkflow, LockCatalog, AdmitRefresh, ReadAgent, ReadMCP, PublishCatalog,
         RunToolHandler, RefuseTool, ReadCatalog, PlanHandler, ToolsChanged, LockWorkspace, DeferRefreshes,
         DrainRefresh, SetAgentRoot, SetMCPRoot, FlushCatalog, SaveProjects, UndoMCPRoot,
         UndoAgentRoot, ReleaseGuard, UnlockWorkspace, At, contents
    <3> QED BY <2>2, <3>2, <3>3
  <2> QED BY <1>3, <2>1, <2>2 DEF AuthorityNext
<1>4. AuthorityInv /\ [AuthorityNext]_authorityVars =>
        [(\E t \in Threads : Reading(workspaceMu, t))
          => /\ UNCHANGED roots
             /\ (\E t \in Threads : Handling(t)) => roots.agent = roots.mcp]_authorityVars
  BY <1>2, <1>3
<1> QED BY <1>4, AuthorityInvariance, PTL DEF AuthoritySpec, ReadersWorkInOneWorkspace
=============================================================================
