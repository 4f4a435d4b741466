------------------------------ MODULE GitRebase ------------------------------
(***************************************************************************)
(* An interactive rebase (src/services/git_rebase_service.go).  git stops  *)
(* before the first action; the service replaces the actions git will      *)
(* perform by the user's and drives git from stop to stop.  git has no     *)
(* reword without an editor: the service writes "edit" and changes the     *)
(* message of the commit at the stop.  What it knows is kept in a file in  *)
(* the directory of the rebase, which git removes at the end.              *)
(*                                                                         *)
(* One call runs at a time, under the lock of the repository.  It may end  *)
(* between any two of its steps: a write or a git command failed, or the   *)
(* process died; the directory stays as it is then.  A git command itself  *)
(* runs to its end.  The hash of the actions is the actions.  The commits  *)
(* keep their order.  The user resolves conflicts between calls, but does  *)
(* not commit or drive git beside the service.                             *)
(***************************************************************************)
EXTENDS Naturals, Sequences

CONSTANTS
    Replay,          \* the commits to replay, the oldest first
    Upstream,        \* the commit they are put upon
    Nothing,
    NoState,         \* there is no state file
    MaxInterrupted,  \* bound: calls that end between two steps
    MaxConflicts,    \* bound: commits that do not apply
    MaxBlocked       \* bound: commits that cannot be tried, for a file in their way

ReplayCommits == {Replay[n] : n \in DOMAIN Replay}
UserActions == {"pick", "reword", "edit", "drop"}
Plans == [ReplayCommits -> UserActions]
Actions == [commit : ReplayCommits, act : UserActions]

StateFiles ==
    [phase : {"awaitingApply", "applying", "ready", "stopped"},
     todoHash : Seq(Actions), pending : Seq(Actions),
     messages : SUBSET ReplayCommits, actions : Plans,
     reason : {"none", "commandError", "syntheticEdit", "manual"}]

ASSUME RebaseAssumption ==
    /\ Replay \in Seq({Replay[n] : n \in DOMAIN Replay})
    /\ \A m, n \in DOMAIN Replay : Replay[m] = Replay[n] => m = n
    /\ \A n \in DOMAIN Replay : Replay[n] \notin {Upstream, Nothing}
    /\ Upstream # Nothing /\ NoState \notin StateFiles

VARIABLES
    repo,            \* the directory of the rebase, HEAD and the working tree
    rebaseState,     \* the state file
    control,         \* the call that runs: its operation and its next step
    approved,        \* the actions that were applied, Nothing before
    skipped,         \* the commits the user skipped
    rebaseEnd,       \* "open", or how the rebase ended
    troubles         \* calls interrupted, conflicts and blocked commits so far; and
                     \* whether a call ended with the state file wrong

rebaseVars == <<repo, rebaseState, control, approved, skipped, rebaseEnd, troubles>>

Own(c) == [of |-> c, text |-> "own"]
New(c) == [of |-> c, text |-> "new"]
CommitMessages == [of : ReplayCommits \cup {Upstream}, text : {"own", "new"}]
Commit(c, message) == [of |-> c, message |-> message]

Instructions(plan) ==
    [n \in DOMAIN Replay |->
        [commit |-> Replay[n],
         act |-> IF plan[Replay[n]] = "reword" THEN "edit" ELSE plan[Replay[n]]]]
Rewords(plan) == {c \in ReplayCommits : plan[c] = "reword"}
Heads == {Commit(c, message) : c \in ReplayCommits \cup {Upstream, Nothing},
                               message \in CommitMessages}
AllPicks == [c \in ReplayCommits |-> "pick"]

NoControl == [call |-> "none", at |-> "idle", ok |-> TRUE, commit |-> Nothing]
NoRebase == [active |-> FALSE, todo |-> <<>>, head |-> <<Commit(Upstream, Own(Upstream))>>,
             rebaseHead |-> Nothing, unmerged |-> FALSE, staged |-> Nothing]

RebaseInit ==
    /\ repo = NoRebase
    /\ rebaseState = NoState
    /\ control = NoControl
    /\ approved = AllPicks
    /\ skipped = {}
    /\ rebaseEnd = "open"
    /\ troubles = [interrupted |-> 0, conflicts |-> 0, blocked |-> 0,
                    unsaved |-> FALSE]

Idle == control.at = "idle"
Step(call, at) == control' = [NoControl EXCEPT !.call = call, !.at = at]
CallReturns == control' = NoControl

-----------------------------------------------------------------------------
(* git.  It performs one action after the other until it is through or has *)
(* to stop: at the commit to edit, with success; at a commit that does not *)
(* apply, which it has taken from the actions; or at a commit it cannot    *)
(* try, which stays the next action.  Nothing else happens meanwhile.      *)

GitGoesOn(head) ==
    /\ repo' = [repo EXCEPT !.head = head, !.unmerged = FALSE, !.staged = Nothing]
    /\ control' = [control EXCEPT !.at = "git"]
    /\ UNCHANGED <<rebaseState, rebaseEnd, troubles>>

GitReturns(success) == control' = [control EXCEPT !.at = "returned", !.ok = success]

AtAction(acts) ==
    control.at = "git" /\ repo.todo # <<>> /\ Head(repo.todo).act \in acts

NextCommit == Head(repo.todo).commit
Taken == [repo EXCEPT !.todo = Tail(@)]
Applied == [Taken EXCEPT !.head = Append(@, Commit(NextCommit, Own(NextCommit)))]

GitDrops ==
    /\ AtAction({"drop"})
    /\ repo' = Taken
    /\ UNCHANGED <<rebaseState, control, approved, skipped, rebaseEnd, troubles>>

GitPicks ==
    /\ AtAction({"pick"})
    /\ repo' = Applied
    /\ UNCHANGED <<rebaseState, control, approved, skipped, rebaseEnd, troubles>>

GitEdits ==
    /\ AtAction({"edit"})
    /\ repo' = [Applied EXCEPT !.rebaseHead = NextCommit]
    /\ GitReturns(TRUE)
    /\ UNCHANGED <<rebaseState, approved, skipped, rebaseEnd, troubles>>

GitConflicts ==
    /\ AtAction({"pick", "edit"})
    /\ troubles.conflicts < MaxConflicts
    /\ repo' = [Taken EXCEPT !.rebaseHead = NextCommit, !.unmerged = TRUE, !.staged = NextCommit]
    /\ GitReturns(FALSE)
    /\ troubles' = [troubles EXCEPT !.conflicts = @ + 1]
    /\ UNCHANGED <<rebaseState, approved, skipped, rebaseEnd>>

GitIsBlocked ==
    /\ AtAction({"pick", "edit"})
    /\ troubles.blocked < MaxBlocked
    /\ repo' = [repo EXCEPT !.rebaseHead = NextCommit]
    /\ GitReturns(FALSE)
    /\ troubles' = [troubles EXCEPT !.blocked = @ + 1]
    /\ UNCHANGED <<rebaseState, approved, skipped, rebaseEnd>>

\* Its directory is removed, and the call reports the end.
GitFinishes ==
    /\ control.at = "git" /\ repo.todo = <<>>
    /\ repo' = [NoRebase EXCEPT !.head = repo.head]
    /\ rebaseState' = NoState
    /\ rebaseEnd' = "finished"
    /\ CallReturns
    /\ UNCHANGED <<approved, skipped, troubles>>

GitStep == GitDrops \/ GitPicks \/ GitEdits \/ GitConflicts \/ GitIsBlocked \/ GitFinishes

\* git rebase --continue commits what was resolved; unresolved paths stop it.
GitContinue ==
    \/ /\ repo.unmerged
       /\ GitReturns(FALSE)
       /\ UNCHANGED <<repo, rebaseState, rebaseEnd, troubles>>
    \/ /\ ~repo.unmerged
       /\ GitGoesOn(IF repo.staged = Nothing THEN repo.head
                    ELSE Append(repo.head, Commit(repo.staged, Own(repo.staged))))

\* git commit and git commit --amend, with the message of the reword; an empty
\* commit is allowed, and REBASE_HEAD stays.
GitCommit(amend) ==
    LET message == New(repo.rebaseHead)
        last == Len(repo.head)
    IN  repo' = [repo EXCEPT !.staged = Nothing,
                    !.head = IF amend THEN [@ EXCEPT ![last].message = message]
                             ELSE Append(@, Commit(repo.staged, message))]

\* The user resolves a conflict.
Resolve ==
    /\ Idle /\ repo.unmerged
    /\ repo' = [repo EXCEPT !.unmerged = FALSE]
    /\ UNCHANGED <<rebaseState, control, approved, skipped, rebaseEnd, troubles>>

-----------------------------------------------------------------------------
(* The state file.                                                         *)

Save(state) == rebaseState' = state

StoppedFor(reason) ==
    [rebaseState EXCEPT !.phase = "stopped", !.reason = reason, !.todoHash = repo.todo]

\* What ContinueRebase reads from it: the commit git stopped at does not exist yet.
CommandError ==
    rebaseState # NoState /\ rebaseState.phase = "stopped" /\ rebaseState.reason = "commandError"

\* It is so: the commit is staged, exactly when the file says that.
FileIsRight == repo.staged # Nothing <=> CommandError

\* The call ends between two steps, perhaps before it saved what git did.
Interrupt ==
    /\ control.at \notin {"idle", "git"}
    /\ troubles.interrupted < MaxInterrupted
    /\ CallReturns
    /\ troubles' = [troubles EXCEPT !.interrupted = @ + 1, !.unsaved = @ \/ ~FileIsRight]
    /\ UNCHANGED <<repo, rebaseState, approved, skipped, rebaseEnd>>

-----------------------------------------------------------------------------
(* StartInteractiveRebase: git stops before the first action.              *)

StartRebase ==
    /\ Idle /\ ~repo.active /\ rebaseEnd = "open"
    /\ repo' = [NoRebase EXCEPT !.active = TRUE, !.todo = Instructions(AllPicks)]
    /\ Step("start", "started")
    /\ UNCHANGED <<rebaseState, approved, skipped, rebaseEnd, troubles>>

SaveStart ==
    /\ control.at = "started"
    /\ Save([phase |-> "awaitingApply", todoHash |-> repo.todo, pending |-> <<>>,
             messages |-> {}, actions |-> AllPicks, reason |-> "none"])
    /\ CallReturns
    /\ UNCHANGED <<repo, approved, skipped, rebaseEnd, troubles>>

\* abortAfterStartFailure, when it succeeds.
AbortStart ==
    /\ control.at = "started"
    /\ repo' = NoRebase
    /\ CallReturns
    /\ UNCHANGED <<rebaseState, approved, skipped, rebaseEnd, troubles>>

-----------------------------------------------------------------------------
(* ApplyRebaseActions: what is about to be written is saved first, so that *)
(* a call with the same actions can complete an interrupted one.           *)

Owned == Idle /\ repo.active /\ rebaseState # NoState

ApplyRebaseActions(plan) ==
    /\ Owned
    /\ \/ /\ rebaseState.phase = "awaitingApply"
          /\ repo.todo = rebaseState.todoHash
          /\ Save([rebaseState EXCEPT !.phase = "applying", !.pending = Instructions(plan),
                                      !.messages = Rewords(plan), !.actions = plan])
       \/ /\ rebaseState.phase = "applying"
          /\ rebaseState.actions = plan
          /\ repo.todo \in {rebaseState.todoHash, Instructions(plan)}
          /\ UNCHANGED rebaseState
    /\ Step("apply", "saved")
    /\ UNCHANGED <<repo, approved, skipped, rebaseEnd, troubles>>

ReplaceTodo ==
    /\ control.at = "saved"
    /\ repo' = [repo EXCEPT !.todo = rebaseState.pending]
    /\ Step("apply", "replaced")
    /\ UNCHANGED <<rebaseState, approved, skipped, rebaseEnd, troubles>>

FinishApply ==
    /\ control.at = "replaced"
    /\ Save([rebaseState EXCEPT !.phase = "ready", !.todoHash = repo.todo, !.pending = <<>>])
    /\ approved' = rebaseState.actions
    /\ CallReturns
    /\ UNCHANGED <<repo, skipped, rebaseEnd, troubles>>

-----------------------------------------------------------------------------
(* ContinueRebase.                                                         *)

RewordIsPending == repo.rebaseHead # Nothing /\ repo.rebaseHead \in rebaseState.messages

\* Mutant: it always exists.
CommitAssumed == TRUE
\* recoverPendingRewordBeforeContinue decides whether the commit exists already.
CommitExists == ~CommandError

ContinueRebase ==
    /\ Owned /\ rebaseState.phase \in {"ready", "stopped"}
    /\ \/ /\ ~RewordIsPending
          /\ Step("continue", "run")
          /\ UNCHANGED <<repo, rebaseState>>
       \/ /\ RewordIsPending /\ repo.unmerged
          /\ Save(IF rebaseState.phase = "ready" THEN StoppedFor("commandError") ELSE rebaseState)
          /\ Step("continue", "run")
          /\ UNCHANGED repo
       \/ /\ RewordIsPending /\ ~repo.unmerged
          /\ GitCommit(CommitExists)
          /\ Step("continue", "reworded")
          /\ UNCHANGED rebaseState
    /\ UNCHANGED <<approved, skipped, rebaseEnd, troubles>>

RecordReword ==
    /\ control.at = "reworded"
    /\ Save([rebaseState EXCEPT !.messages = @ \ {repo.rebaseHead}, !.phase = "ready",
                                !.reason = "none", !.todoHash = repo.todo])
    /\ Step("continue", "run")
    /\ UNCHANGED <<repo, approved, skipped, rebaseEnd, troubles>>

\* The actions changed since the state was saved: refused.
TodoChanged ==
    /\ control.at = "run" /\ repo.todo # rebaseState.todoHash
    /\ CallReturns
    /\ UNCHANGED <<repo, rebaseState, approved, skipped, rebaseEnd, troubles>>

RunContinue ==
    /\ control.at = "run" /\ repo.todo = rebaseState.todoHash
    /\ GitContinue
    /\ UNCHANGED <<approved, skipped>>

\* git stopped: at a reword, whose message is changed before git goes on, or
\* anywhere else, which ends the call.
AfterContinue ==
    /\ control.call = "continue" /\ control.at = "returned"
    /\ \/ /\ control.ok /\ RewordIsPending
          /\ \/ GitCommit(TRUE) /\ Step("continue", "reworded") /\ UNCHANGED rebaseState
             \/ Save(StoppedFor("syntheticEdit")) /\ CallReturns /\ UNCHANGED repo
       \/ /\ ~(control.ok /\ RewordIsPending)
          /\ Save(StoppedFor(IF repo.unmerged THEN "commandError" ELSE "manual"))
          /\ CallReturns
          /\ UNCHANGED repo
    /\ UNCHANGED <<approved, skipped, rebaseEnd, troubles>>

-----------------------------------------------------------------------------
(* SkipCommit and AbortRebase.                                             *)

SkipCommit ==
    /\ Owned
    /\ CommandError
    /\ repo.todo = rebaseState.todoHash
    /\ repo.rebaseHead # Nothing
    /\ control' = [call |-> "skip", at |-> "skip", ok |-> TRUE, commit |-> repo.rebaseHead]
    /\ UNCHANGED <<repo, rebaseState, approved, skipped, rebaseEnd, troubles>>

\* git rebase --skip drops what was staged.
RunSkip ==
    /\ control.at = "skip"
    /\ skipped' = IF repo.staged = Nothing THEN skipped ELSE skipped \cup {repo.staged}
    /\ GitGoesOn(repo.head)
    /\ UNCHANGED approved

AfterSkip ==
    /\ control.call = "skip" /\ control.at = "returned"
    /\ Save(IF control.ok
            THEN [StoppedFor("manual") EXCEPT !.messages = @ \ {control.commit}]
            ELSE StoppedFor("commandError"))
    /\ CallReturns
    /\ UNCHANGED <<repo, approved, skipped, rebaseEnd, troubles>>

AbortRebase ==
    /\ Owned
    /\ repo' = NoRebase
    /\ rebaseState' = NoState
    /\ rebaseEnd' = "aborted"
    /\ UNCHANGED <<control, approved, skipped, troubles>>

RebaseNext ==
    \/ StartRebase \/ SaveStart \/ AbortStart
    \/ (\E plan \in Plans : ApplyRebaseActions(plan)) \/ ReplaceTodo \/ FinishApply
    \/ ContinueRebase \/ RecordReword \/ TodoChanged \/ RunContinue \/ AfterContinue
    \/ SkipCommit \/ RunSkip \/ AfterSkip
    \/ AbortRebase
    \/ GitStep
    \/ Resolve \/ Interrupt

RebaseSpec == RebaseInit /\ [][RebaseNext]_rebaseVars

-----------------------------------------------------------------------------
(* Properties.                                                             *)

\* Types of the variables; the state file knows the commits to reword.
RebaseTypeOK ==
    /\ repo \in [active : BOOLEAN, todo : Seq(Actions), head : Seq(Heads) \ {<<>>},
                 rebaseHead : ReplayCommits \cup {Nothing}, unmerged : BOOLEAN,
                 staged : ReplayCommits \cup {Nothing}]
    /\ rebaseState # NoState =>
         /\ rebaseState \in StateFiles
         /\ rebaseState.messages \subseteq Rewords(rebaseState.actions)
    /\ control \in [call : {"none", "start", "apply", "continue", "skip"},
                    at : {"idle", "started", "saved", "replaced", "reworded", "run",
                          "git", "returned", "skip"},
                    ok : BOOLEAN, commit : ReplayCommits \cup {Nothing}]
    /\ approved \in Plans
    /\ skipped \subseteq ReplayCommits
    /\ rebaseEnd \in {"open", "finished", "aborted"}
    /\ troubles \in [interrupted : Nat, conflicts : Nat, blocked : Nat, unsaved : BOOLEAN]

\* What the user asked for: the commits that were neither dropped nor skipped,
\* each with its own message or the one the user gave it.
Wanted ==
    {Commit(c, IF approved[c] = "reword" THEN New(c) ELSE Own(c)) :
        c \in {c \in ReplayCommits : approved[c] # "drop" /\ c \notin skipped}}

\* The commits above the one they are put upon; an empty one does not count.
Replayed == {n \in 2..Len(repo.head) : repo.head[n].of # Nothing}

InOrder(c, d) ==
    \E m, n \in DOMAIN Replay : m < n /\ c = Replay[m] /\ d = Replay[n]

\* The history is what the user asked for: exactly those commits, once and in
\* their order, each with its own message or the one the user gave it.
ReplayIsRight ==
    /\ repo.head[1] = Commit(Upstream, Own(Upstream))
    /\ {repo.head[n] : n \in Replayed} = Wanted
    /\ \A m, n \in Replayed :
         m < n => InOrder(repo.head[m].of, repo.head[n].of)

\* So far git could try every commit it came to, and no call ended between what
\* git did and the state file, with the file wrong about it.
FileKeptUp == troubles.blocked = 0 /\ ~troubles.unsaved

\* A rebase that was finished has replayed what the user asked for, through all
\* stops, conflicts, skips, interrupted calls and retries, as long as the state file
\* kept up with git.  It says nothing of a rebase in which git could not try a
\* commit, or a call ended before it saved that git met a conflict or is past it:
\* there the next ContinueRebase misreads the file, and a message goes astray
\* (git_rebase_service.go:984; RewordsAlwaysArrive).
RewordsReachTheirCommits == rebaseEnd = "finished" /\ FileKeptUp => ReplayIsRight

\* The same with no condition: a reword that a stop of git has left pending is
\* completed in every case (the comment at git_rebase_service.go:978).
RewordsAlwaysArrive == rebaseEnd = "finished" => ReplayIsRight
=============================================================================
