----------------------------- MODULE InstanceLock -----------------------------
(***************************************************************************)
(* The lock file that keeps a second process away from the state of the    *)
(* first one (src/services/instance_lock.go).  A start creates the file    *)
(* exclusively; a file that is there is inspected, and removed when the    *)
(* process it names is gone or when it names none.                         *)
(*                                                                         *)
(* The headless host binds the lock to a directory handle and runs every   *)
(* Acquire and Release under a second lock of the operating system, the    *)
(* state guard, which a death releases; the desktop has no guard.          *)
(* rootBound tells the two apart.                                          *)
(*                                                                         *)
(* Each process starts once: a restart is another process.  An inode is    *)
(* not used again.                                                         *)
(***************************************************************************)
EXTENDS Naturals

CONSTANTS
    Processes,
    NoProcess, Nobody   \* the guard is free; the file names no process

ASSUME InstanceAssumption == NoProcess \notin Processes /\ Nobody \notin Processes

VARIABLES
    rootBound,    \* the lock has a state root, hence a guard
    lockFile,     \* inode and content of the file; inode 0: there is none
    inodes,       \* inodes used so far
    stateGuard,   \* the process that holds the guard
    instance      \* the processes

instanceVars == <<rootBound, lockFile, inodes, stateGuard, instance>>

NoLockFile == [inode |-> 0, owner |-> Nobody]

\* seen: the identity a removal expects, 0 for none; mine: the file opened by
\* the process; after: what follows a removal.
NewInstance == [at |-> "new", seen |-> 0, mine |-> 0, stale |-> FALSE, after |-> "exit"]

InstanceInit ==
    /\ rootBound \in BOOLEAN
    /\ lockFile = NoLockFile /\ inodes = 0
    /\ stateGuard = NoProcess
    /\ instance = [p \in Processes |-> NewInstance]

-----------------------------------------------------------------------------

At(p, step) == instance[p].at = step

Exists == lockFile.inode # 0

Gone(p) == instance[p].at = "exit"

\* lockIsStale: a live owner (of the same user) is recognized, and a dead one too
\* unless another process with its number cannot be told from it.
Verdicts(owner) ==
    IF owner = Nobody THEN {TRUE} ELSE IF Gone(owner) THEN BOOLEAN ELSE {FALSE}

Becomes(p, state) == instance' = [instance EXCEPT ![p] = state]

Moves(p, step) == Becomes(p, [instance[p] EXCEPT !.at = step])

\* removeLockFile begins.
Removes(p, identity, after) ==
    Becomes(p, [instance[p] EXCEPT !.at = "check", !.seen = identity, !.after = after])

\* The return from Acquire or Release, which gives the guard back.
Returns(p, step) ==
    /\ Moves(p, step)
    /\ stateGuard' = IF stateGuard = p THEN NoProcess ELSE stateGuard

\* A mutant: only Release waits for the guard, and a start goes on without it.
AcquireGuardToRelease(p, start, step) ==
    /\ At(p, start)
    /\ rootBound /\ start = "release" => stateGuard = NoProcess
    /\ stateGuard' = IF rootBound /\ start = "release" THEN p ELSE stateGuard
    /\ Becomes(p, [instance[p] EXCEPT !.at = step, !.seen = instance[p].mine])
    /\ UNCHANGED <<lockFile, inodes>>

\* Acquire and Release begin with the guard, if there is one.
AcquireStateGuard(p, start, step) ==
    /\ At(p, start)
    /\ rootBound => stateGuard = NoProcess
    /\ stateGuard' = IF rootBound THEN p ELSE stateGuard
    /\ Becomes(p, [instance[p] EXCEPT !.at = step, !.seen = instance[p].mine])
    /\ UNCHANGED <<lockFile, inodes>>

\* The guard is not to be had: Acquire is refused, and Release leaves the file.
GuardTimeout(p) ==
    /\ rootBound /\ stateGuard # NoProcess
    /\ At(p, "new") \/ At(p, "release")
    /\ Moves(p, "exit")
    /\ UNCHANGED <<lockFile, inodes, stateGuard>>

\* O_EXCL: the file is new, and empty.
CreateExclusive(p) ==
    /\ At(p, "create") \/ At(p, "create again")
    /\ ~Exists
    /\ inodes' = inodes + 1
    /\ lockFile' = [inode |-> inodes + 1, owner |-> Nobody]
    /\ Becomes(p, [instance[p] EXCEPT !.at = "write", !.mine = inodes + 1])
    /\ UNCHANGED stateGuard

\* Another file is there: it is inspected the first time.
LockExists(p) ==
    /\ Exists
    /\ \/ At(p, "create") /\ Moves(p, "inspect") /\ UNCHANGED stateGuard
       \/ At(p, "create again") /\ Returns(p, "exit")
    /\ UNCHANGED <<lockFile, inodes>>

\* The content goes to the file that was opened, removed or not.
WriteLockInfo(p) ==
    /\ At(p, "write")
    /\ lockFile' = IF lockFile.inode = instance[p].mine THEN [lockFile EXCEPT !.owner = p]
                                                        ELSE lockFile
    /\ Returns(p, "held")
    /\ UNCHANGED inodes

\* A failed write removes the file again.
LockWriteFails(p) ==
    /\ At(p, "write")
    /\ Removes(p, instance[p].mine, "exit")
    /\ UNCHANGED <<lockFile, inodes, stateGuard>>

\* readLockInfo of a root: content and identity of one open file.
ReadOpenLock(p) ==
    /\ At(p, "inspect") /\ rootBound
    /\ UNCHANGED <<lockFile, inodes>>
    /\ \/ ~Exists /\ Returns(p, "exit")
       \/ /\ Exists
          /\ \E stale \in Verdicts(lockFile.owner) :
                IF stale
                THEN Removes(p, lockFile.inode, "create again") /\ UNCHANGED stateGuard
                ELSE Returns(p, "exit")

\* readLockInfo of a path: the content first.  A file that is gone counts as
\* unreadable, to be removed without an identity.
ReadLock(p) ==
    /\ At(p, "inspect") /\ ~rootBound
    /\ \/ ~Exists /\ Removes(p, 0, "create again")
       \/ /\ Exists
          /\ \E stale \in Verdicts(lockFile.owner) :
                Becomes(p, [instance[p] EXCEPT !.at = "identify", !.stale = stale])
    /\ UNCHANGED <<lockFile, inodes, stateGuard>>

\* Then the identity of what is there now.
IdentifyLock(p) ==
    /\ At(p, "identify")
    /\ \/ /\ ~Exists \/ instance[p].stale
          /\ Removes(p, lockFile.inode, "create again")
       \/ /\ Exists /\ ~instance[p].stale
          /\ Moves(p, "exit")
    /\ UNCHANGED <<lockFile, inodes, stateGuard>>

\* What a removal leads to.
AfterRemoval(p) ==
    IF instance[p].after = "exit" THEN Returns(p, "exit")
    ELSE Moves(p, "create again") /\ UNCHANGED stateGuard

\* removeLockFile: the file has the expected identity.
CheckIdentity(p) ==
    /\ At(p, "check")
    /\ UNCHANGED <<lockFile, inodes>>
    /\ \/ /\ instance[p].seen \in {0, lockFile.inode}
          /\ Moves(p, "remove") /\ UNCHANGED stateGuard
       \/ /\ instance[p].seen # 0 /\ ~Exists
          /\ AfterRemoval(p)
       \/ /\ instance[p].seen \notin {0, lockFile.inode} /\ Exists
          /\ Returns(p, "exit")

\* And is removed, whatever it is by now.
RemoveLockFile(p) ==
    /\ At(p, "remove")
    /\ UNCHANGED inodes
    /\ \/ /\ Exists
          /\ lockFile' = NoLockFile
          /\ AfterRemoval(p)
       \/ /\ ~Exists
          /\ Returns(p, "exit")
          /\ UNCHANGED lockFile

\* The end of a process that has the lock.
Release(p) ==
    /\ At(p, "held")
    /\ Becomes(p, [instance[p] EXCEPT !.at = "release", !.after = "exit"])
    /\ UNCHANGED <<lockFile, inodes, stateGuard>>

\* A process dies; its guard dies with it, its file does not.
ProcessDies(p) ==
    /\ ~At(p, "new") /\ ~Gone(p)
    /\ Returns(p, "exit")
    /\ UNCHANGED <<lockFile, inodes>>

InstanceStep(p) ==
    \/ AcquireStateGuard(p, "new", "create")
    \/ AcquireStateGuard(p, "release", "check")
    \/ GuardTimeout(p)
    \/ CreateExclusive(p)
    \/ LockExists(p)
    \/ WriteLockInfo(p)
    \/ LockWriteFails(p)
    \/ ReadOpenLock(p)
    \/ ReadLock(p)
    \/ IdentifyLock(p)
    \/ CheckIdentity(p)
    \/ RemoveLockFile(p)
    \/ Release(p)
    \/ ProcessDies(p)

InstanceNext == (\E p \in Processes : InstanceStep(p)) /\ UNCHANGED rootBound

InstanceSpec == InstanceInit /\ [][InstanceNext]_instanceVars

-----------------------------------------------------------------------------
(* Properties.                                                             *)

Steps == {"new", "create", "create again", "write", "inspect", "identify",
          "check", "remove", "held", "release", "exit"}

Instances == [at : Steps, seen : Nat, mine : Nat, stale : BOOLEAN,
              after : {"exit", "create again"}]

\* Types of the variables.
InstanceTypeOK ==
    /\ rootBound \in BOOLEAN
    /\ lockFile \in [inode : Nat, owner : Processes \cup {Nobody}]
    /\ inodes \in Nat
    /\ stateGuard \in Processes \cup {NoProcess}
    /\ instance \in [Processes -> Instances]

\* Under a state root, whoever acquired the lock and has not released it is the
\* process that the file names, so that it is alone, and no later start takes it
\* for dead (instance_lock.go Acquire, agent_headless.go).
OneInstance ==
    rootBound =>
        \A p \in Processes : At(p, "held") => lockFile = [inode |-> instance[p].mine, owner |-> p]
=============================================================================
