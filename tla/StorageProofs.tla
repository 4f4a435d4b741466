-------------------------------- MODULE StorageProofs -----------------------
(***************************************************************************)
(* Theorems about files that outlive the process: the lock of an instance, *)
(* the journal of unsaved buffers, the usage ledger and the files that     *)
(* edits write, for every set of processes, pages, paths, units, edits and *)
(* saves; and about all stores, with the sessions of SessionStoreProofs.   *)
(*                                                                         *)
(* The lock: under a state root the steps that touch the file are taken    *)
(* under the guard, so the file a process is about to remove stays what it *)
(* found: its own, one that names nobody, or one of a process that is gone *)
(* for good.                                                               *)
(*                                                                         *)
(* The journal: a buffer that is owed has a record that a scan would list, *)
(* since a commit keeps what it moved until its marker is written; and     *)
(* what is owed to an earlier process only gets less, since its pages      *)
(* cannot save any more.  So what a scan has listed, what the phase waits  *)
(* for and what a commit has decided stay complete, although no lock spans *)
(* them.                                                                   *)
(*                                                                         *)
(* The ledger: where no two rows share a line, a reader of the start of    *)
(* the file sees what a reader of the file sees up to there, a remainder   *)
(* at the end hides nothing, and a row whose line feed is missing is read  *)
(* as one that has it.  A process appends only to a file that loads, of    *)
(* which it shows the receipts.                                            *)
(* That Loaded is what the loop of the code reads, line by line, is shown  *)
(* by a shortest file of which it is not: what the loop has before its     *)
(* last chunk is the start of the file, for which it is.                   *)
(*                                                                         *)
(* The edits: an edit whose text a file holds has not taken it back, or    *)
(* somebody previewed it, and only the end of an edit reports.  Between a  *)
(* comparison and its rename the lock keeps out whoever compares.          *)
(*                                                                         *)
(* Together: each store is changed by the steps of its own component only, *)
(* so a behaviour of all of them is one of each.                           *)
(***************************************************************************)
EXTENDS MCStorage, SessionStoreProofs, WellFoundedInduction, TLAPS

-----------------------------------------------------------------------------
(* The lock: the inductive invariant.                                      *)

\* The steps between the guard's acquisition and its release.
Critical == {"create", "create again", "write", "inspect", "check", "remove"}

\* The file names no process that could miss it, apart from p.
Abandoned(p) == lockFile.owner \in {Nobody, p} \/ Gone(lockFile.owner)

LockFileOf(p, owner) == Exists /\ lockFile = [inode |-> instance[p].mine, owner |-> owner]

ProcessInv(p) ==
    /\ instance[p].at \in Critical => stateGuard = p
    /\ ~At(p, "identify")
    /\ At(p, "write") => LockFileOf(p, Nobody)
    /\ At(p, "held") \/ At(p, "release") => LockFileOf(p, p)
    /\ At(p, "check") \/ At(p, "remove") => Abandoned(p)

LockInv == InstanceTypeOK /\ (rootBound => \A p \in Processes : ProcessInv(p))

-----------------------------------------------------------------------------

\* The types are kept by every step of a process.
LEMMA LockTypesAreKept ==
    ASSUME InstanceTypeOK, NEW p \in Processes, InstanceStep(p), UNCHANGED rootBound
    PROVE  InstanceTypeOK'
<1>1. ASSUME NEW state \in Instances, Becomes(p, state) PROVE instance' \in [Processes -> Instances]
  BY <1>1 DEF InstanceTypeOK, Becomes
<1>2. instance[p] \in Instances BY DEF InstanceTypeOK
<1>3. ASSUME NEW step \in Steps, Moves(p, step) PROVE instance' \in [Processes -> Instances]
  <2>1. [instance[p] EXCEPT !.at = step] \in Instances BY <1>2 DEF Instances
  <2> QED BY <1>1, <1>3, <2>1 DEF Moves
<1>4. ASSUME NEW step \in Steps, Returns(p, step)
      PROVE  /\ instance' \in [Processes -> Instances]
             /\ stateGuard' \in Processes \cup {NoProcess}
  BY <1>3, <1>4 DEF Returns, InstanceTypeOK
<1>5. ASSUME NEW identity \in Nat, NEW after \in {"exit", "create again"}, Removes(p, identity, after)
      PROVE  instance' \in [Processes -> Instances]
  <2>1. [instance[p] EXCEPT !.at = "check", !.seen = identity, !.after = after] \in Instances
    BY <1>2 DEF Instances, Steps
  <2> QED BY <1>1, <1>5, <2>1 DEF Removes
<1>6. ASSUME NEW start, NEW step \in Steps, AcquireStateGuard(p, start, step)
      PROVE  InstanceTypeOK'
  <2>1. instance[p].mine \in Nat BY <1>2 DEF Instances
  <2>2. [instance[p] EXCEPT !.at = step, !.seen = instance[p].mine] \in Instances
    BY <1>2, <2>1 DEF Instances
  <2>3. instance' \in [Processes -> Instances] BY <1>1, <1>6, <2>2 DEF AcquireStateGuard
  <2>4. stateGuard' \in Processes \cup {NoProcess}
    BY <1>6 DEF AcquireStateGuard, InstanceTypeOK
  <2> QED BY <1>6, <2>3, <2>4 DEF AcquireStateGuard, InstanceTypeOK
<1>7. CASE GuardTimeout(p) BY <1>3, <1>7 DEF GuardTimeout, InstanceTypeOK, Steps
<1>8. CASE CreateExclusive(p)
  <2>1. inodes + 1 \in Nat BY DEF InstanceTypeOK
  <2>2. [instance[p] EXCEPT !.at = "write", !.mine = inodes + 1] \in Instances
    BY <1>2, <2>1 DEF Instances, Steps
  <2>3. instance' \in [Processes -> Instances] BY <1>1, <1>8, <2>2 DEF CreateExclusive
  <2>4. lockFile' \in [inode : Nat, owner : Processes \cup {Nobody}]
    BY <1>8, <2>1 DEF CreateExclusive
  <2> QED BY <1>8, <2>1, <2>3, <2>4 DEF CreateExclusive, InstanceTypeOK
<1>9. CASE LockExists(p) BY <1>3, <1>4, <1>9 DEF LockExists, InstanceTypeOK, Steps
<1>10. CASE WriteLockInfo(p) BY <1>4, <1>10 DEF WriteLockInfo, InstanceTypeOK, Steps
<1>11. CASE LockWriteFails(p) BY <1>2, <1>5, <1>11 DEF LockWriteFails, InstanceTypeOK, Instances
<1>12. CASE ReadOpenLock(p)
  BY <1>4, <1>5, <1>12 DEF ReadOpenLock, InstanceTypeOK, Steps
<1>13. CASE ReadLock(p)
  <2>1. ASSUME NEW stale \in BOOLEAN
        PROVE  [instance[p] EXCEPT !.at = "identify", !.stale = stale] \in Instances
    BY <1>2 DEF Instances, Steps
  <2> QED BY <1>1, <1>5, <1>13, <2>1 DEF ReadLock, Verdicts, InstanceTypeOK
<1>14. CASE IdentifyLock(p) BY <1>3, <1>5, <1>14 DEF IdentifyLock, InstanceTypeOK, Steps
<1>15. CASE CheckIdentity(p)
  BY <1>3, <1>4, <1>15 DEF CheckIdentity, AfterRemoval, InstanceTypeOK, Steps
<1>16. CASE RemoveLockFile(p)
  <2>1. /\ instance' \in [Processes -> Instances]
        /\ stateGuard' \in Processes \cup {NoProcess}
    BY <1>3, <1>4, <1>16 DEF RemoveLockFile, AfterRemoval, InstanceTypeOK, Steps
  <2>2. lockFile' \in {lockFile, NoLockFile} BY <1>16 DEF RemoveLockFile
  <2>3. NoLockFile \in [inode : Nat, owner : Processes \cup {Nobody}] BY DEF NoLockFile
  <2> QED BY <1>16, <2>1, <2>2, <2>3 DEF RemoveLockFile, InstanceTypeOK
<1>17. CASE Release(p)
  <2>1. [instance[p] EXCEPT !.at = "release", !.after = "exit"] \in Instances
    BY <1>2 DEF Instances, Steps
  <2> QED BY <1>1, <1>17, <2>1 DEF Release, InstanceTypeOK
<1>18. CASE ProcessDies(p) BY <1>4, <1>18 DEF ProcessDies, InstanceTypeOK, Steps
<1> QED BY <1>6, <1>7, <1>8, <1>9, <1>10, <1>11, <1>12, <1>13, <1>14, <1>15, <1>16, <1>17, <1>18
        DEF InstanceStep, Steps

\* A step of p concerns p alone.
LEMMA Frame ==
    ASSUME InstanceTypeOK, NEW p \in Processes, InstanceStep(p), NEW q \in Processes, q # p
    PROVE  instance'[q] = instance[q]
<1>0. \A state : Becomes(p, state) => instance'[q] = instance[q]
  BY DEF Becomes, InstanceTypeOK
<1> USE <1>0 DEF Moves, Returns, Removes, AfterRemoval
<1>1. CASE AcquireStateGuard(p, "new", "create") BY <1>1 DEF AcquireStateGuard
<1>2. CASE AcquireStateGuard(p, "release", "check") BY <1>2 DEF AcquireStateGuard
<1>3. CASE GuardTimeout(p) BY <1>3 DEF GuardTimeout
<1>4. CASE CreateExclusive(p) BY <1>4 DEF CreateExclusive
<1>5. CASE LockExists(p) BY <1>5 DEF LockExists
<1>6. CASE WriteLockInfo(p) BY <1>6 DEF WriteLockInfo
<1>7. CASE LockWriteFails(p) BY <1>7 DEF LockWriteFails
<1>8. CASE ReadOpenLock(p) BY <1>8 DEF ReadOpenLock
<1>9. CASE ReadLock(p) BY <1>9 DEF ReadLock
<1>10. CASE IdentifyLock(p) BY <1>10 DEF IdentifyLock
<1>11. CASE CheckIdentity(p) BY <1>11 DEF CheckIdentity
<1>12. CASE RemoveLockFile(p) BY <1>12 DEF RemoveLockFile
<1>13. CASE Release(p) BY <1>13 DEF Release
<1>14. CASE ProcessDies(p) BY <1>14 DEF ProcessDies
<1> QED BY <1>1, <1>2, <1>3, <1>4, <1>5, <1>6, <1>7, <1>8, <1>9, <1>10, <1>11, <1>12, <1>13, <1>14 DEF InstanceStep

\* It is taken by a process that is not gone, and does not take away the guard.
LEMMA GuardAndDeath ==
    ASSUME InstanceTypeOK, NEW p \in Processes, InstanceStep(p)
    PROVE  /\ ~Gone(p)
           /\ \A q \in Processes \ {p} : rootBound /\ stateGuard = q => stateGuard' = q
<1> USE InstanceAssumption DEF Gone, At, Returns, AfterRemoval
<1>1. CASE AcquireStateGuard(p, "new", "create") BY <1>1 DEF AcquireStateGuard
<1>2. CASE AcquireStateGuard(p, "release", "check") BY <1>2 DEF AcquireStateGuard
<1>3. CASE GuardTimeout(p) BY <1>3 DEF GuardTimeout
<1>4. CASE CreateExclusive(p) BY <1>4 DEF CreateExclusive
<1>5. CASE LockExists(p) BY <1>5 DEF LockExists
<1>6. CASE WriteLockInfo(p) BY <1>6 DEF WriteLockInfo
<1>7. CASE LockWriteFails(p) BY <1>7 DEF LockWriteFails
<1>8. CASE ReadOpenLock(p) BY <1>8 DEF ReadOpenLock
<1>9. CASE ReadLock(p) BY <1>9 DEF ReadLock
<1>10. CASE IdentifyLock(p) BY <1>10 DEF IdentifyLock
<1>11. CASE CheckIdentity(p) BY <1>11 DEF CheckIdentity
<1>12. CASE RemoveLockFile(p) BY <1>12 DEF RemoveLockFile
<1>13. CASE Release(p) BY <1>13 DEF Release
<1>14. CASE ProcessDies(p) BY <1>14 DEF ProcessDies
<1> QED BY <1>1, <1>2, <1>3, <1>4, <1>5, <1>6, <1>7, <1>8, <1>9, <1>10, <1>11, <1>12, <1>13, <1>14 DEF InstanceStep

\* The file changes only under the guard, and only in three ways.
LEMMA FileChanges ==
    ASSUME InstanceTypeOK, NEW p \in Processes, InstanceStep(p)
    PROVE  \/ lockFile' = lockFile
           \/ /\ At(p, "create") \/ At(p, "create again")
              /\ ~Exists
           \/ At(p, "write")
           \/ At(p, "remove")
<1>1. CASE AcquireStateGuard(p, "new", "create") BY <1>1 DEF AcquireStateGuard
<1>2. CASE AcquireStateGuard(p, "release", "check") BY <1>2 DEF AcquireStateGuard
<1>3. CASE GuardTimeout(p) BY <1>3 DEF GuardTimeout
<1>4. CASE CreateExclusive(p) BY <1>4 DEF CreateExclusive
<1>5. CASE LockExists(p) BY <1>5 DEF LockExists
<1>6. CASE WriteLockInfo(p) BY <1>6 DEF WriteLockInfo
<1>7. CASE LockWriteFails(p) BY <1>7 DEF LockWriteFails
<1>8. CASE ReadOpenLock(p) BY <1>8 DEF ReadOpenLock
<1>9. CASE ReadLock(p) BY <1>9 DEF ReadLock
<1>10. CASE IdentifyLock(p) BY <1>10 DEF IdentifyLock
<1>11. CASE CheckIdentity(p) BY <1>11 DEF CheckIdentity
<1>12. CASE RemoveLockFile(p) BY <1>12 DEF RemoveLockFile
<1>13. CASE Release(p) BY <1>13 DEF Release
<1>14. CASE ProcessDies(p) BY <1>14 DEF ProcessDies
<1> QED BY <1>1, <1>2, <1>3, <1>4, <1>5, <1>6, <1>7, <1>8, <1>9, <1>10, <1>11, <1>12, <1>13, <1>14 DEF InstanceStep

\* A step of p keeps what the invariant says of another process.
LEMMA OthersAreSafe ==
    ASSUME LockInv, rootBound, NEW p \in Processes, InstanceStep(p), NEW q \in Processes, q # p
    PROVE  ProcessInv(q)'
<1> InstanceTypeOK /\ ProcessInv(p) /\ ProcessInv(q) BY DEF LockInv
<1>1. instance'[q] = instance[q] BY Frame
<1>2. instance'[q].at \in Critical => stateGuard' = q
  BY <1>1, GuardAndDeath DEF ProcessInv
<1>3. ~At(q, "identify")' BY <1>1 DEF ProcessInv, At
<1>4. lockFile' = lockFile \/ instance[q].at \notin Critical
  <2>1. lockFile' = lockFile \/ instance[p].at \in Critical BY FileChanges DEF Critical, At
  <2> QED BY <2>1 DEF ProcessInv
<1>5. At(q, "write")' => LockFileOf(q, Nobody)'
  BY <1>1, <1>4 DEF ProcessInv, At, Critical, LockFileOf, Exists
<1>6. ASSUME At(q, "held") \/ At(q, "release")
      PROVE  lockFile' = lockFile
  <2>1. LockFileOf(q, q) /\ ~Gone(q) BY <1>6 DEF ProcessInv, Gone, At
  <2>2. ~LockFileOf(p, Nobody) /\ ~Abandoned(p)
    BY <2>1, InstanceAssumption DEF LockFileOf, Abandoned
  <2> QED BY <2>1, <2>2, FileChanges DEF ProcessInv, LockFileOf
<1>7. At(q, "held")' \/ At(q, "release")' => LockFileOf(q, q)'
  BY <1>1, <1>6 DEF ProcessInv, At, LockFileOf, Exists
<1>8. At(q, "check")' \/ At(q, "remove")' => Abandoned(q)'
  <2> SUFFICES ASSUME At(q, "check") \/ At(q, "remove")
               PROVE  Abandoned(q)'
    BY <1>1 DEF At
  <2>1. Abandoned(q) /\ lockFile' = lockFile BY <1>4 DEF ProcessInv, At, Critical
  <2>2. lockFile.owner = Nobody \/ lockFile.owner \in Processes BY DEF InstanceTypeOK
  <2>3. \A r \in Processes : Gone(r) => Gone(r)'
    BY Frame, GuardAndDeath DEF Gone
  <2> QED BY <2>1, <2>2, <2>3 DEF Abandoned
<1> QED BY <1>2, <1>3, <1>5, <1>7, <1>8 DEF ProcessInv

\* And of p itself.
LEMMA TheStepIsSafe ==
    ASSUME LockInv, rootBound, NEW p \in Processes, InstanceStep(p)
    PROVE  ProcessInv(p)'
<1> InstanceTypeOK /\ ProcessInv(p) BY DEF LockInv
<1>0. ASSUME NEW state, Becomes(p, state) PROVE instance'[p] = state
  BY <1>0 DEF Becomes, InstanceTypeOK
<1>1. instance[p] \in Instances BY DEF InstanceTypeOK
<1>m. ASSUME NEW step, Moves(p, step)
      PROVE  instance'[p].at = step /\ instance'[p].mine = instance[p].mine
  <2>1. instance'[p] = [instance[p] EXCEPT !.at = step] BY <1>0, <1>m DEF Moves
  <2> QED BY <1>1, <2>1 DEF Instances
<1>e. ASSUME Returns(p, "exit") PROVE ProcessInv(p)'
  <2>1. instance'[p].at = "exit" BY <1>m, <1>e DEF Returns
  <2> QED BY <2>1 DEF ProcessInv, At, Critical
<1>r. ASSUME NEW identity, NEW after, Removes(p, identity, after),
             stateGuard' = p, lockFile' = lockFile, Abandoned(p)
      PROVE  ProcessInv(p)'
  <2>1. instance'[p] = [instance[p] EXCEPT !.at = "check", !.seen = identity, !.after = after]
    BY <1>0, <1>r DEF Removes
  <2>2. instance'[p].at = "check" BY <1>1, <2>1 DEF Instances
  <2>3. \A q \in Processes : Gone(q) => Gone(q)'
    BY <2>2, Frame, GuardAndDeath DEF Gone
  <2>4. lockFile.owner = Nobody \/ lockFile.owner \in Processes BY DEF InstanceTypeOK
  <2>5. Abandoned(p)' BY <1>r, <2>3, <2>4 DEF Abandoned
  <2> QED BY <1>r, <2>2, <2>5 DEF ProcessInv, At, Critical
<1>2. CASE AcquireStateGuard(p, "new", "create")
  <2>1. instance'[p] = [instance[p] EXCEPT !.at = "create", !.seen = instance[p].mine]
    BY <1>0, <1>2 DEF AcquireStateGuard
  <2>2. instance'[p].at = "create" BY <1>1, <2>1 DEF Instances
  <2> QED BY <1>2, <2>2 DEF AcquireStateGuard, ProcessInv, At, Critical
<1>3. CASE AcquireStateGuard(p, "release", "check")
  <2>1. instance'[p] = [instance[p] EXCEPT !.at = "check", !.seen = instance[p].mine]
    BY <1>0, <1>3 DEF AcquireStateGuard
  <2>2. instance'[p].at = "check" BY <1>1, <2>1 DEF Instances
  <2>3. lockFile.owner = p BY <1>3 DEF AcquireStateGuard, ProcessInv, LockFileOf
  <2>4. Abandoned(p)' BY <1>3, <2>3 DEF AcquireStateGuard, Abandoned
  <2>5. stateGuard' = p BY <1>3 DEF AcquireStateGuard
  <2> QED BY <2>2, <2>4, <2>5 DEF ProcessInv, At, Critical
<1>4. CASE GuardTimeout(p)
  <2>1. instance'[p].at = "exit" BY <1>m, <1>4 DEF GuardTimeout
  <2> QED BY <2>1 DEF ProcessInv, At, Critical
<1>5. CASE CreateExclusive(p)
  <2>1. instance'[p] = [instance[p] EXCEPT !.at = "write", !.mine = inodes + 1]
    BY <1>0, <1>5 DEF CreateExclusive
  <2>2. instance'[p].at = "write" /\ instance'[p].mine = inodes + 1
    BY <1>1, <2>1 DEF Instances
  <2>3. lockFile' = [inode |-> inodes + 1, owner |-> Nobody]
    BY <1>5 DEF CreateExclusive
  <2>a. inodes + 1 # 0
    <3>1. inodes \in Nat BY DEF InstanceTypeOK
    <3> QED BY <3>1
  <2>4. LockFileOf(p, Nobody)' BY <2>2, <2>3, <2>a DEF LockFileOf, Exists
  <2>5. stateGuard' = p BY <1>5 DEF CreateExclusive, ProcessInv, At, Critical
  <2> QED BY <2>2, <2>4, <2>5 DEF ProcessInv, At, Critical
<1>6. CASE LockExists(p)
  <2>1. CASE At(p, "create") /\ Moves(p, "inspect") /\ UNCHANGED stateGuard
    <3>1. instance'[p].at = "inspect" BY <1>m, <2>1
    <3>2. stateGuard' = p BY <2>1 DEF ProcessInv, At, Critical
    <3> QED BY <3>1, <3>2 DEF ProcessInv, At, Critical
  <2> QED BY <1>e, <1>6, <2>1 DEF LockExists
<1>7. CASE WriteLockInfo(p)
  <2>1. instance'[p].at = "held" /\ instance'[p].mine = instance[p].mine
    BY <1>m, <1>7 DEF WriteLockInfo, Returns
  <2>2. LockFileOf(p, Nobody) BY <1>7 DEF WriteLockInfo, ProcessInv
  <2>3. lockFile' = [inode |-> instance[p].mine, owner |-> p] /\ instance[p].mine # 0
    BY <1>7, <2>2 DEF WriteLockInfo, LockFileOf, Exists
  <2>4. LockFileOf(p, p)' BY <2>1, <2>3 DEF LockFileOf, Exists
  <2> QED BY <2>1, <2>4 DEF ProcessInv, At, Critical
<1>8. CASE LockWriteFails(p)
  <2>1. Abandoned(p) BY <1>8 DEF LockWriteFails, ProcessInv, LockFileOf, Abandoned
  <2>2. stateGuard' = p BY <1>8 DEF LockWriteFails, ProcessInv, At, Critical
  <2> QED BY <1>r, <1>8, <2>1, <2>2 DEF LockWriteFails
<1>9. CASE ReadOpenLock(p)
  <2>1. stateGuard = p BY <1>9 DEF ReadOpenLock, ProcessInv, At, Critical
  <2>2. ASSUME NEW stale \in Verdicts(lockFile.owner), stale PROVE Abandoned(p)
    BY <2>2 DEF Verdicts, Abandoned
  <2> QED BY <1>e, <1>r, <1>9, <2>1, <2>2 DEF ReadOpenLock
<1>10. CASE ReadLock(p) BY <1>10 DEF ReadLock
<1>11. CASE IdentifyLock(p) BY <1>11 DEF IdentifyLock, ProcessInv
<1>a. ASSUME AfterRemoval(p), stateGuard = p PROVE ProcessInv(p)'
  <2>1. CASE Moves(p, "create again") /\ UNCHANGED stateGuard
    <3>1. instance'[p].at = "create again" BY <1>m, <2>1
    <3> QED BY <1>a, <2>1, <3>1 DEF ProcessInv, At, Critical
  <2> QED BY <1>e, <1>a, <2>1 DEF AfterRemoval
<1>12. CASE CheckIdentity(p)
  <2>1. stateGuard = p /\ Abandoned(p) BY <1>12 DEF CheckIdentity, ProcessInv, At, Critical
  <2>2. CASE Moves(p, "remove") /\ UNCHANGED stateGuard
    <3>1. instance'[p].at = "remove" BY <1>m, <2>2
    <3>2. \A q \in Processes : Gone(q) => Gone(q)'
      BY <3>1, Frame, GuardAndDeath DEF Gone
    <3>3. lockFile.owner = Nobody \/ lockFile.owner \in Processes BY DEF InstanceTypeOK
    <3>4. Abandoned(p)' BY <1>12, <2>1, <3>2, <3>3 DEF CheckIdentity, Abandoned
    <3> QED BY <2>1, <2>2, <3>1, <3>4 DEF ProcessInv, At, Critical
  <2> QED BY <1>e, <1>a, <1>12, <2>1, <2>2 DEF CheckIdentity
<1>13. CASE RemoveLockFile(p)
  <2>1. stateGuard = p BY <1>13 DEF RemoveLockFile, ProcessInv, At, Critical
  <2> QED BY <1>e, <1>a, <1>13, <2>1 DEF RemoveLockFile
<1>14. CASE Release(p)
  <2>1. instance'[p] = [instance[p] EXCEPT !.at = "release", !.after = "exit"]
    BY <1>0, <1>14 DEF Release
  <2>2. instance'[p].at = "release" /\ instance'[p].mine = instance[p].mine
    BY <1>1, <2>1 DEF Instances
  <2>3. LockFileOf(p, p)' BY <1>14, <2>2 DEF Release, ProcessInv, LockFileOf, Exists
  <2> QED BY <2>2, <2>3 DEF ProcessInv, At, Critical
<1>15. CASE ProcessDies(p) BY <1>e, <1>15 DEF ProcessDies
<1> QED BY <1>2, <1>3, <1>4, <1>5, <1>6, <1>7, <1>8, <1>9, <1>10, <1>11, <1>12, <1>13, <1>14, <1>15
        DEF InstanceStep

-----------------------------------------------------------------------------
(* The lock: theorems.                                                     *)

\* The inductive invariant (instance_lock.go Acquire, Release).
THEOREM LockInvariance == InstanceSpec => []LockInv
<1>1. InstanceInit => LockInv
  <2> SUFFICES ASSUME InstanceInit PROVE LockInv
    OBVIOUS
  <2>1. NewInstance \in Instances BY DEF NewInstance, Instances, Steps
  <2>2. NoLockFile \in [inode : Nat, owner : Processes \cup {Nobody}] BY DEF NoLockFile
  <2>3. InstanceTypeOK BY <2>1, <2>2 DEF InstanceInit, InstanceTypeOK
  <2>4. \A p \in Processes : instance[p].at = "new" BY DEF InstanceInit, NewInstance
  <2> QED BY <2>3, <2>4 DEF LockInv, ProcessInv, Critical, At
<1>2. LockInv /\ [InstanceNext]_instanceVars => LockInv'
  <2> SUFFICES ASSUME LockInv, [InstanceNext]_instanceVars PROVE LockInv'
    OBVIOUS
  <2>1. CASE InstanceNext
    <3>1. PICK p \in Processes : InstanceStep(p) /\ UNCHANGED rootBound
      BY <2>1 DEF InstanceNext
    <3>2. InstanceTypeOK' BY <3>1, LockTypesAreKept DEF LockInv
    <3>3. ASSUME rootBound', NEW q \in Processes PROVE ProcessInv(q)'
      BY <3>1, <3>3, OthersAreSafe, TheStepIsSafe
    <3> QED BY <3>2, <3>3 DEF LockInv
  <2>2. CASE UNCHANGED instanceVars
    BY <2>2 DEF LockInv, instanceVars, InstanceTypeOK, ProcessInv, At, LockFileOf, Abandoned, Exists, Gone
  <2> QED BY <2>1, <2>2
<1> QED BY <1>1, <1>2, PTL DEF InstanceSpec

\* Under a state root the lock excludes, whoever starts, fails, dies or finds a
\* file of an earlier process (instance_lock.go Acquire, agent_headless.go).
THEOREM TheLockExcludes == InstanceSpec => []OneInstance
<1>1. LockInv => OneInstance BY DEF LockInv, OneInstance, ProcessInv, LockFileOf
<1> QED BY <1>1, LockInvariance, PTL

-----------------------------------------------------------------------------
(* The journal: the inductive invariant.                                   *)

BufferKeys == Pages \X Paths

PageCalls == [at : {"idle", "save", "clear"}, path : Paths \cup {"none"}]
ScanCalls == [at : {"idle", "begun", "read"}, seen : SUBSET BufferKeys]
Commits == [at : {"idle", "staging", "marked"}, decided : SUBSET BufferKeys,
            moved : SUBSET Records, marker : BOOLEAN]

JournalTypes ==
    /\ files \in SUBSET Records /\ orphans \in SUBSET Records
    /\ usedPages \in SUBSET Pages /\ usedPages \cap earlierPages = {}
    /\ phase \in {"scanning", "pending", "resolved", "failed"}
    /\ pendingScan \in SUBSET BufferKeys /\ acknowledged \in BOOLEAN
    /\ pageCall \in [Pages -> PageCalls]
    /\ \A p \in Pages : pageCall[p].at # "idle" => pageCall[p].path \in Paths
    /\ scanCall \in ScanCalls /\ commit \in Commits
    /\ saves \in 0 .. MaxSaves
    /\ owed \in SUBSET BufferKeys

\* One record per buffer.
OnePerKey(records) == \A r, s \in records : Key(r) = Key(s) => r = s

\* A transaction of the marker's phase with these records beside the files.
Staged(transaction, stored, gone) ==
    /\ transaction.marker <=> transaction.at = "marked"
    /\ transaction.at = "idle" => transaction.moved = {}
    /\ transaction.at = "staging" =>
         /\ OnePerKey(transaction.moved) /\ Keys(transaction.moved) \subseteq transaction.decided
         /\ \A r \in transaction.moved : r.page \in gone => Key(r) \notin Keys(stored)

CommitInv == OnePerKey(files) /\ Staged(commit, files, earlierPages)

\* Buffers owed to the processes before.
Left(keys, gone) == {key \in keys : key[1] \in gone}

\* Everybody who decides about them knows them all.
GateInv ==
    /\ \A p \in Pages : pageCall[p].at = "save" => p \notin earlierPages
    /\ scanCall.at = "read" => Left(owed, earlierPages) \subseteq scanCall.seen
    /\ phase = "pending" => Left(owed, earlierPages) \subseteq pendingScan
    /\ phase = "resolved" /\ ~acknowledged => Left(owed, earlierPages) = {}
    /\ commit.at = "staging" => Left(owed, earlierPages) \subseteq commit.decided
    /\ commit.at = "marked" => Left(owed, earlierPages) = {}

JournalInv == JournalTypes /\ CommitInv /\ NothingIsForgotten /\ GateInv

-----------------------------------------------------------------------------
(* Keys.                                                                   *)

\* The key of a record is its page and path.
LEMMA KeyOfRecord ==
    ASSUME NEW r \in Records
    PROVE  Key(r) \in BufferKeys /\ Key(r)[1] = r.page /\ r.page \in Pages
BY DEF Records, Key, BufferKeys

\* The keys of a union.
LEMMA KeysOfUnion ==
    ASSUME NEW some, NEW others
    PROVE  Keys(some \cup others) = Keys(some) \cup Keys(others)
BY DEF Keys

\* The keys of typed records are keys of buffers.
LEMMA KeysTyped ==
    ASSUME NEW records \in SUBSET Records
    PROVE  Keys(records) \in SUBSET BufferKeys
BY KeyOfRecord DEF Keys

\* A buffer is owed, and found on the disk or in a transaction.
LEMMA NothingForgotten ==
    NothingIsForgotten <=>
        \A key \in owed : \/ key \in Keys(files) \/ key \in Keys(orphans)
                          \/ ~commit.marker /\ key \in Keys(commit.moved)
<1>1. Keys({}) = {} BY DEF Keys
<1> DEFINE staged == IF commit.marker THEN {} ELSE commit.moved
<1>2. Keys(staged) = IF commit.marker THEN {} ELSE Keys(commit.moved)
  BY <1>1
<1>3. Recoverable = files \cup (orphans \cup staged)
  BY DEF Recoverable, Uncommitted
<1> HIDE DEF staged
<1>4. Keys(Recoverable) = Keys(files) \cup (Keys(orphans) \cup Keys(staged))
  <2>1. Keys(files \cup (orphans \cup staged)) = Keys(files) \cup Keys(orphans \cup staged)
    BY KeysOfUnion
  <2>2. Keys(orphans \cup staged) = Keys(orphans) \cup Keys(staged) BY KeysOfUnion
  <2> QED BY <1>3, <2>1, <2>2
<1> QED BY <1>2, <1>4 DEF NothingIsForgotten

\* The same, of the next state.
LEMMA NothingForgottenNext ==
    NothingIsForgotten' <=>
        \A key \in owed' : \/ key \in Keys(files') \/ key \in Keys(orphans')
                           \/ ~commit'.marker /\ key \in Keys(commit'.moved)
<1>1. Keys({}) = {} BY DEF Keys
<1> DEFINE staged == IF commit'.marker THEN {} ELSE commit'.moved
<1>2. Keys(staged) = IF commit'.marker THEN {} ELSE Keys(commit'.moved)
  BY <1>1
<1>3. Recoverable' = files' \cup (orphans' \cup staged)
  BY DEF Recoverable, Uncommitted
<1> HIDE DEF staged
<1>4. Keys(Recoverable') = Keys(files') \cup (Keys(orphans') \cup Keys(staged))
  <2>1. Keys(files' \cup (orphans' \cup staged)) = Keys(files') \cup Keys(orphans' \cup staged)
    BY KeysOfUnion
  <2>2. Keys(orphans' \cup staged) = Keys(orphans') \cup Keys(staged) BY KeysOfUnion
  <2> QED BY <1>3, <2>1, <2>2
<1> QED BY <1>2, <1>4 DEF NothingIsForgotten

\* When less is owed, everybody still knows all of it.
LEMMA GateRests ==
    ASSUME GateInv, UNCHANGED <<gate, scanCall, commit, earlierPages>>,
           Left(owed', earlierPages) \subseteq Left(owed, earlierPages),
           \A p \in Pages : pageCall'[p].at = "save" => p \notin earlierPages
    PROVE  GateInv'
BY DEF GateInv, gate

-----------------------------------------------------------------------------
(* The pages.                                                              *)

\* One page calls or returns; the disk stays as it is.
LEMMA PageMoves ==
    ASSUME JournalInv, NEW p \in Pages, NEW call \in PageCalls,
           pageCall' = [pageCall EXCEPT ![p] = call],
           call.at # "idle" => call.path \in Paths,
           call.at = "save" => p \notin earlierPages,
           usedPages' \in SUBSET Pages, usedPages' \cap earlierPages = {},
           UNCHANGED <<journalDisk, gate, earlierPages, scanCall, commit>>
    PROVE  JournalInv'
<1>1. UNCHANGED <<files, orphans, saves, owed, phase, pendingScan, acknowledged>>
  BY DEF journalDisk, gate
<1>2. \A q \in Pages : pageCall'[q] = IF q = p THEN call ELSE pageCall[q]
  BY DEF JournalInv, JournalTypes
<1>3. JournalTypes'
  <2>1. pageCall' \in [Pages -> PageCalls] BY DEF JournalInv, JournalTypes
  <2>2. \A q \in Pages : pageCall'[q].at # "idle" => pageCall'[q].path \in Paths
    BY <1>2 DEF JournalInv, JournalTypes
  <2> QED BY <1>1, <2>1, <2>2 DEF JournalInv, JournalTypes
<1>4. CommitInv' BY <1>1 DEF JournalInv, CommitInv
<1>5. NothingIsForgotten' BY <1>1, NothingForgotten, NothingForgottenNext DEF JournalInv
<1>6. GateInv'
  <2>1. \A q \in Pages : pageCall'[q].at = "save" => q \notin earlierPages
    BY <1>2 DEF JournalInv, GateInv
  <2> QED BY <1>1, <2>1, GateRests DEF JournalInv
<1> QED BY <1>3, <1>4, <1>5, <1>6 DEF JournalInv

\* The checks of a save and of a clear, and a page that gives up.
LEMMA PageChecks ==
    ASSUME JournalInv, NEW p \in Pages,
           \/ PageFails(p)
           \/ \E path \in Paths : CheckSave(p, path) \/ CheckClear(p, path)
    PROVE  JournalInv'
<1>0. usedPages \in SUBSET Pages /\ usedPages \cap earlierPages = {} BY DEF JournalInv, JournalTypes
<1>1. CASE PageFails(p)
  <2>1. NoPageCall \in PageCalls /\ NoPageCall.at = "idle" BY DEF NoPageCall, PageCalls
  <2> QED BY <1>0, <1>1, <2>1, PageMoves DEF PageFails, pages
<1>2. ASSUME NEW path \in Paths, CheckSave(p, path) PROVE JournalInv'
  <2> DEFINE call == [at |-> "save", path |-> path]
  <2>1. call \in PageCalls /\ call.at = "save" /\ call.path \in Paths BY DEF PageCalls
  <2>2. /\ pageCall' = [pageCall EXCEPT ![p] = call] /\ p \notin earlierPages
        /\ usedPages' = usedPages \cup {p}
        /\ UNCHANGED <<journalDisk, gate, earlierPages, scanCall, commit>>
    BY <1>2 DEF CheckSave
  <2> QED BY <1>0, <2>1, <2>2, PageMoves
<1>3. ASSUME NEW path \in Paths, CheckClear(p, path) PROVE JournalInv'
  <2> DEFINE call == [at |-> "clear", path |-> path]
  <2>1. call \in PageCalls /\ call.at = "clear" /\ call.path \in Paths BY DEF PageCalls
  <2>2. /\ pageCall' = [pageCall EXCEPT ![p] = call]
        /\ UNCHANGED <<usedPages, journalDisk, gate, earlierPages, scanCall, commit>>
    BY <1>3 DEF CheckClear, pages
  <2> QED BY <1>0, <2>1, <2>2, PageMoves
<1> QED BY <1>1, <1>2, <1>3

\* A page returns from its call.
LEMMA PageReturns ==
    ASSUME JournalInv, NEW p \in Pages, pageCall' = [pageCall EXCEPT ![p] = NoPageCall]
    PROVE  /\ pageCall' \in [Pages -> PageCalls]
           /\ \A q \in Pages : pageCall'[q].at # "idle" =>
                pageCall'[q].path \in Paths /\ pageCall'[q] = pageCall[q]
           /\ \A q \in Pages : pageCall'[q].at = "save" => q \notin earlierPages
<1>1. NoPageCall \in PageCalls /\ NoPageCall.at = "idle" BY DEF NoPageCall, PageCalls
<1> QED BY <1>1 DEF JournalInv, JournalTypes, GateInv

\* A page writes its buffer.
LEMMA BufferSaved ==
    ASSUME JournalInv, NEW p \in Pages, SaveDirtyBuffer(p)
    PROVE  JournalInv'
<1> DEFINE r == [page |-> p, path |-> pageCall[p].path, content |-> saves + 1]
<1>0. /\ JournalTypes /\ CommitInv /\ GateInv /\ NothingIsForgotten
      /\ pageCall[p].at = "save" /\ saves < MaxSaves
      /\ saves' = saves + 1 /\ files' = WithRecord(files, r)
      /\ owed' = owed \cup {Key(r)}
      /\ pageCall' = [pageCall EXCEPT ![p] = NoPageCall]
      /\ UNCHANGED <<orphans, phase, pendingScan, acknowledged, usedPages, earlierPages,
                     scanCall, commit>>
  BY DEF JournalInv, SaveDirtyBuffer, gate, pages
<1>1. r \in Records /\ r.page = p /\ p \notin earlierPages
  <2>1. saves + 1 \in 1 .. MaxSaves BY <1>0, JournalAssumption DEF JournalTypes
  <2>2. pageCall[p].path \in Paths BY <1>0 DEF JournalTypes
  <2>3. p \notin earlierPages BY <1>0 DEF GateInv
  <2> QED BY <2>1, <2>2, <2>3 DEF Records
<1> HIDE DEF r
<1>2. Key(r) \in BufferKeys /\ Key(r)[1] = p BY <1>1, KeyOfRecord
<1>3. /\ files' \in SUBSET Records
      /\ OnePerKey(files')
      /\ \A key : key \in Keys(files') <=> key \in Keys(files) \/ key = Key(r)
  BY <1>0, <1>1 DEF JournalTypes, CommitInv, OnePerKey, WithRecord, WithKey, Keys
<1>4. JournalTypes'
  <2>1. saves' \in 0 .. MaxSaves BY <1>0, JournalAssumption DEF JournalTypes
  <2>2. owed' \in SUBSET BufferKeys BY <1>0, <1>2 DEF JournalTypes
  <2> QED BY <1>0, <1>3, <2>1, <2>2, PageReturns DEF JournalInv, JournalTypes
<1>5. CommitInv'
  <2>1. ASSUME NEW s \in commit.moved, s.page \in earlierPages, commit.at = "staging"
        PROVE  Key(s) \notin Keys(files')
    <3>1. Key(s) \notin Keys(files) BY <1>0, <2>1 DEF CommitInv, Staged
    <3>2. s \in Records BY <1>0 DEF JournalTypes, Commits
    <3>3. Key(s)[1] = s.page BY <3>2, KeyOfRecord
    <3> QED BY <1>1, <1>2, <1>3, <2>1, <3>1, <3>3
  <2> QED BY <1>0, <1>3, <2>1 DEF CommitInv, Staged
<1>6. NothingIsForgotten'
  BY <1>0, <1>3, NothingForgotten, NothingForgottenNext
<1>7. GateInv'
  <2>1. Left(owed', earlierPages) \subseteq Left(owed, earlierPages)
    BY <1>0, <1>1, <1>2 DEF Left
  <2>2. \A q \in Pages : pageCall'[q].at = "save" => q \notin earlierPages
    BY <1>0, PageReturns DEF JournalInv
  <2> QED BY <1>0, <2>1, <2>2, GateRests DEF gate
<1> QED BY <1>4, <1>5, <1>6, <1>7 DEF JournalInv

\* Records are cleared, and with them what is owed of them.
LEMMA Cleared ==
    ASSUME JournalInv, files' \subseteq files, orphans' \subseteq orphans, owed' \subseteq owed,
           pageCall' \in [Pages -> PageCalls],
           \A q \in Pages : pageCall'[q].at # "idle" =>
               pageCall'[q].path \in Paths /\ pageCall'[q] = pageCall[q],
           \A key \in owed' : \/ key \in Keys(files') \/ key \in Keys(orphans')
                              \/ ~commit.marker /\ key \in Keys(commit.moved),
           UNCHANGED <<saves, gate, pages, scanCall, commit>>
    PROVE  JournalInv'
<1>1. /\ UNCHANGED <<phase, pendingScan, acknowledged, usedPages, earlierPages>>
      /\ JournalTypes /\ CommitInv /\ GateInv
  BY DEF gate, pages, JournalInv
<1>2. JournalTypes' BY <1>1 DEF JournalTypes
<1>3. CommitInv'
  <2>1. OnePerKey(files') BY <1>1 DEF CommitInv, OnePerKey
  <2>2. Keys(files') \subseteq Keys(files) BY DEF Keys
  <2> QED BY <1>1, <2>1, <2>2 DEF CommitInv, Staged
<1>4. NothingIsForgotten' BY NothingForgottenNext
<1>5. GateInv'
  <2>1. Left(owed', earlierPages) \subseteq Left(owed, earlierPages) BY DEF Left
  <2>2. \A q \in Pages : pageCall'[q].at = "save" => q \notin earlierPages
    BY <1>1 DEF GateInv
  <2> QED BY <1>1, <2>1, <2>2, GateRests
<1> QED BY <1>2, <1>3, <1>4, <1>5 DEF JournalInv

\* The three ways to clear.
LEMMA Clears ==
    ASSUME JournalInv,
           \/ ClearWorkspaceJournal
           \/ \E p \in Pages : ClearDirtyBuffer(p) \/ ClearWindowJournal(p)
    PROVE  JournalInv'
<1>0. /\ JournalTypes /\ CommitInv
      /\ pageCall \in [Pages -> PageCalls]
      /\ \A q \in Pages : pageCall[q].at # "idle" => pageCall[q].path \in Paths
      /\ \A key \in owed : \/ key \in Keys(files) \/ key \in Keys(orphans)
                           \/ ~commit.marker /\ key \in Keys(commit.moved)
  BY NothingForgotten DEF JournalInv, JournalTypes
<1>1. CASE ClearWorkspaceJournal
  BY <1>0, <1>1, Cleared DEF ClearWorkspaceJournal
<1>2. ASSUME NEW p \in Pages, ClearDirtyBuffer(p) PROVE JournalInv'
  <2> DEFINE key == <<p, pageCall[p].path>>
  <2>1. /\ files' = files \ WithKey(files, key) /\ owed' = owed \ {key}
        /\ pageCall' = [pageCall EXCEPT ![p] = NoPageCall]
        /\ UNCHANGED <<orphans, saves, gate, pages, scanCall, commit>>
    BY <1>2 DEF ClearDirtyBuffer
  <2> HIDE DEF key
  <2>2. \A k \in Keys(files) : k = key \/ k \in Keys(files')
    BY <2>1 DEF Keys, WithKey
  <2>3. \A k \in owed' : \/ k \in Keys(files') \/ k \in Keys(orphans')
                         \/ ~commit.marker /\ k \in Keys(commit.moved)
    BY <1>0, <2>1, <2>2
  <2>4. files' \subseteq files /\ owed' \subseteq owed BY <2>1
  <2>5. /\ pageCall' \in [Pages -> PageCalls]
        /\ \A q \in Pages : pageCall'[q].at # "idle" =>
             pageCall'[q].path \in Paths /\ pageCall'[q] = pageCall[q]
    BY <2>1, PageReturns
  <2> QED BY <2>1, <2>3, <2>4, <2>5, Cleared
<1>3. ASSUME NEW p \in Pages, ClearWindowJournal(p) PROVE JournalInv'
  <2> DEFINE own == {r \in files : r.page = p}
  <2>1. /\ files' = files \ own /\ owed' = owed \ Keys(own)
        /\ UNCHANGED <<pageCall, orphans, saves, gate, pages, scanCall, commit>>
    BY <1>3 DEF ClearWindowJournal
  <2> HIDE DEF own
  <2>2. \A k \in Keys(files) : k \in Keys(own) \/ k \in Keys(files')
    BY <2>1 DEF Keys
  <2>3. \A k \in owed' : \/ k \in Keys(files') \/ k \in Keys(orphans')
                         \/ ~commit.marker /\ k \in Keys(commit.moved)
    BY <1>0, <2>1, <2>2
  <2>4. files' \subseteq files /\ owed' \subseteq owed BY <2>1
  <2> QED BY <1>0, <2>1, <2>3, <2>4, Cleared
<1> QED BY <1>1, <1>2, <1>3

-----------------------------------------------------------------------------
(* Scanning.                                                               *)

\* The phase, the scan or the decisions move; pages and disk stay.
LEMMA PhaseMoves ==
    ASSUME JournalInv, UNCHANGED <<files, orphans, saves, owed, pages, pageCall>>,
           scanCall' \in ScanCalls, commit' \in Commits,
           phase' \in {"scanning", "pending", "resolved", "failed"},
           pendingScan' \in SUBSET BufferKeys, acknowledged' \in BOOLEAN,
           Staged(commit', files, earlierPages), NothingIsForgotten',
           scanCall'.at = "read" => Left(owed, earlierPages) \subseteq scanCall'.seen,
           phase' = "pending" => Left(owed, earlierPages) \subseteq pendingScan',
           phase' = "resolved" /\ ~acknowledged' => Left(owed, earlierPages) = {},
           commit'.at = "staging" => Left(owed, earlierPages) \subseteq commit'.decided,
           commit'.at = "marked" => Left(owed, earlierPages) = {}
    PROVE  JournalInv'
<1>1. UNCHANGED <<usedPages, earlierPages>> BY DEF pages
<1>2. JournalTypes' BY <1>1 DEF JournalInv, JournalTypes
<1>3. CommitInv' BY <1>1 DEF JournalInv, CommitInv
<1>4. GateInv' BY <1>1 DEF JournalInv, GateInv
<1> QED BY <1>2, <1>3, <1>4 DEF JournalInv

\* The steps of a scan, and its acknowledged failure.
LEMMA ScanSteps ==
    ASSUME JournalInv,
           BeginScan \/ ReadJournal \/ PublishScan \/ ScanFails \/ AcknowledgeRecoveryFailure
    PROVE  JournalInv'
<1>0. /\ UNCHANGED <<files, orphans, saves, owed, pages, pageCall, commit>>
      /\ JournalTypes /\ CommitInv /\ GateInv /\ NothingIsForgotten
      /\ scanCall \in ScanCalls /\ scanCall.seen \in SUBSET BufferKeys /\ commit \in Commits
      /\ pendingScan \in SUBSET BufferKeys /\ acknowledged \in BOOLEAN
      /\ phase \in {"scanning", "pending", "resolved", "failed"}
      /\ Staged(commit, files, earlierPages)
  BY DEF JournalInv, JournalTypes, CommitInv, ScanCalls, journalDisk,
         BeginScan, ReadJournal, PublishScan, ScanFails, AcknowledgeRecoveryFailure
<1>1. NothingIsForgotten' BY <1>0, NothingForgotten, NothingForgottenNext
<1>2. NoScan \in ScanCalls /\ NoScan.at = "idle" BY DEF NoScan, ScanCalls
<1>3. /\ commit.at = "staging" => Left(owed, earlierPages) \subseteq commit.decided
      /\ commit.at = "marked" => Left(owed, earlierPages) = {}
  BY <1>0 DEF GateInv
<1>4. CASE BeginScan
  <2>1. /\ phase' = "scanning" /\ pendingScan' = {} /\ acknowledged' = FALSE
        /\ scanCall' = [at |-> "begun", seen |-> {}]
    BY <1>4 DEF BeginScan, PublishLifecycle
  <2>2. scanCall' \in ScanCalls /\ scanCall'.at = "begun" BY <2>1 DEF ScanCalls
  <2> QED BY <1>0, <1>1, <1>3, <2>1, <2>2, PhaseMoves
<1>5. CASE ReadJournal
  <2>1. /\ scanCall' = [at |-> "read", seen |-> Keys(Recoverable)]
        /\ UNCHANGED <<phase, pendingScan, acknowledged>>
    BY <1>5 DEF ReadJournal, gate
  <2>2. Recoverable \in SUBSET Records
    BY <1>0 DEF JournalTypes, Commits, Recoverable, Uncommitted
  <2>3. Keys(Recoverable) \in SUBSET BufferKeys BY <2>2, KeysTyped
  <2>4. scanCall' \in ScanCalls /\ scanCall'.seen = Keys(Recoverable) BY <2>1, <2>3 DEF ScanCalls
  <2>5. Left(owed, earlierPages) \subseteq Keys(Recoverable)
    BY <1>0 DEF Left, NothingIsForgotten
  <2>6. /\ phase = "pending" => Left(owed, earlierPages) \subseteq pendingScan
        /\ phase = "resolved" /\ ~acknowledged => Left(owed, earlierPages) = {}
    BY <1>0 DEF GateInv
  <2> QED BY <1>0, <1>1, <1>3, <2>1, <2>4, <2>5, <2>6, PhaseMoves
<1>6. CASE PublishScan
  <2>1. /\ scanCall.at = "read" /\ scanCall' = NoScan
        /\ phase' = IF scanCall.seen = {} THEN "resolved" ELSE "pending"
        /\ pendingScan' = scanCall.seen /\ acknowledged' = FALSE
    BY <1>6 DEF PublishScan, PublishLifecycle
  <2>2. Left(owed, earlierPages) \subseteq scanCall.seen BY <1>0, <2>1 DEF GateInv
  <2> QED BY <1>0, <1>1, <1>2, <1>3, <2>1, <2>2, PhaseMoves
<1>7. CASE ScanFails
  <2>1. /\ scanCall' = NoScan
        /\ phase' = "failed" /\ pendingScan' = {} /\ acknowledged' = FALSE
    BY <1>7 DEF ScanFails, PublishLifecycle
  <2> QED BY <1>0, <1>1, <1>2, <1>3, <2>1, PhaseMoves
<1>8. CASE AcknowledgeRecoveryFailure
  <2>1. /\ UNCHANGED scanCall
        /\ phase' = "resolved" /\ pendingScan' = {} /\ acknowledged' = TRUE
    BY <1>8 DEF AcknowledgeRecoveryFailure, PublishLifecycle
  <2>2. scanCall.at = "read" => Left(owed, earlierPages) \subseteq scanCall.seen
    BY <1>0 DEF GateInv
  <2> QED BY <1>0, <1>1, <1>3, <2>1, <2>2, PhaseMoves
<1> QED BY <1>4, <1>5, <1>6, <1>7, <1>8

-----------------------------------------------------------------------------
(* Committing the decisions.                                               *)

\* A transaction begins with nothing moved, and ends after its marker.
LEMMA CommitEdges ==
    ASSUME JournalInv, BeginCommit \/ FinishCommit
    PROVE  JournalInv'
<1>0. /\ UNCHANGED <<files, orphans, saves, owed, pages, pageCall, scanCall>>
      /\ JournalTypes /\ CommitInv /\ GateInv /\ NothingIsForgotten
      /\ scanCall \in ScanCalls /\ commit \in Commits
      /\ pendingScan \in SUBSET BufferKeys /\ acknowledged \in BOOLEAN
      /\ phase \in {"scanning", "pending", "resolved", "failed"}
      /\ Staged(commit, files, earlierPages)
      /\ scanCall.at = "read" => Left(owed, earlierPages) \subseteq scanCall.seen
  BY DEF JournalInv, JournalTypes, CommitInv, GateInv, journalDisk, BeginCommit, FinishCommit
<1>1. CASE BeginCommit
  <2>1. /\ commit.at = "idle" /\ phase = "pending"
        /\ commit' = [NoCommit EXCEPT !.at = "staging", !.decided = pendingScan]
        /\ UNCHANGED <<phase, pendingScan, acknowledged>>
    BY <1>1 DEF BeginCommit, gate
  <2>2. /\ commit' = [at |-> "staging", decided |-> pendingScan, moved |-> {}, marker |-> FALSE]
    BY <2>1 DEF NoCommit
  <2>3. /\ commit' \in Commits /\ commit'.at = "staging" /\ commit'.decided = pendingScan
        /\ commit'.moved = {} /\ commit'.marker = FALSE
    BY <1>0, <2>2 DEF Commits
  <2>4. Staged(commit', files, earlierPages) BY <2>3 DEF Staged, OnePerKey, Keys
  <2>5. Keys({}) = {} /\ commit.moved = {} BY <1>0, <2>1 DEF Keys, Staged
  <2>6. NothingIsForgotten'
    BY <1>0, <2>3, <2>5, NothingForgotten, NothingForgottenNext
  <2>7. Left(owed, earlierPages) \subseteq pendingScan BY <1>0, <2>1 DEF GateInv
  <2> QED BY <1>0, <2>1, <2>3, <2>4, <2>6, <2>7, PhaseMoves
<1>2. CASE FinishCommit
  <2>1. /\ commit.at = "marked" /\ commit' = NoCommit
        /\ phase' = "resolved" /\ pendingScan' = {} /\ acknowledged' = FALSE
    BY <1>2 DEF FinishCommit, PublishLifecycle
  <2>2. commit' \in Commits /\ commit'.at = "idle" /\ commit'.moved = {} /\ ~commit'.marker
    BY <2>1 DEF NoCommit, Commits
  <2>3. Staged(commit', files, earlierPages) BY <2>2 DEF Staged
  <2>4. commit.marker BY <1>0, <2>1 DEF Staged
  <2>5. NothingIsForgotten'
    BY <1>0, <2>2, <2>4, NothingForgotten, NothingForgottenNext
  <2>6. Left(owed, earlierPages) = {} BY <1>0, <2>1 DEF GateInv
  <2> QED BY <1>0, <2>1, <2>2, <2>3, <2>5, <2>6, PhaseMoves
<1> QED BY <1>1, <1>2

\* A record moves into the transaction.
LEMMA RecordStaged ==
    ASSUME JournalInv, StageRecord
    PROVE  JournalInv'
<1>0. /\ UNCHANGED <<orphans, saves, owed, phase, pendingScan, acknowledged, usedPages,
                     earlierPages, pageCall, scanCall>>
      /\ JournalTypes /\ CommitInv /\ GateInv /\ NothingIsForgotten /\ commit.at = "staging"
      /\ Staged(commit, files, earlierPages) /\ OnePerKey(files)
      /\ commit \in Commits /\ commit.moved \in SUBSET Records /\ files \in SUBSET Records
  BY DEF JournalInv, JournalTypes, CommitInv, Commits, gate, pages, StageRecord
<1>1. PICK r \in files :
        /\ Key(r) \in Unmoved
        /\ files' = files \ {r}
        /\ commit' = [commit EXCEPT !.moved = @ \cup {r}]
  BY DEF StageRecord
<1>2. /\ commit' \in Commits /\ commit'.at = "staging" /\ commit'.moved = commit.moved \cup {r}
      /\ commit'.decided = commit.decided /\ commit'.marker = commit.marker
  BY <1>0, <1>1 DEF Commits
<1>3. Key(r) \in commit.decided /\ Key(r) \notin Keys(commit.moved) BY <1>1 DEF Unmoved
<1>4. JournalTypes' BY <1>0, <1>1, <1>2 DEF JournalTypes
<1>5. CommitInv'
  <2>1. OnePerKey(files') BY <1>0, <1>1 DEF OnePerKey
  <2>2. OnePerKey(commit'.moved) BY <1>0, <1>2, <1>3 DEF OnePerKey, Staged, Keys
  <2>3. Keys(commit'.moved) \subseteq commit'.decided BY <1>0, <1>2, <1>3 DEF Staged, Keys
  <2>4. ASSUME NEW s \in commit'.moved, s.page \in earlierPages PROVE Key(s) \notin Keys(files')
    <3>1. CASE s \in commit.moved
      <4>1. Key(s) \notin Keys(files) BY <1>0, <2>4, <3>1 DEF Staged
      <4> QED BY <1>1, <4>1 DEF Keys
    <3>2. CASE s = r BY <1>0, <1>1, <3>2 DEF OnePerKey, Keys
    <3> QED BY <1>2, <3>1, <3>2
  <2>5. ~commit'.marker BY <1>0, <1>2 DEF Staged
  <2> QED BY <1>0, <1>2, <2>1, <2>2, <2>3, <2>4, <2>5 DEF CommitInv, Staged
<1>6. NothingIsForgotten'
  <2>1. \A key \in Keys(files) : key \in Keys(files') \/ key \in Keys(commit'.moved)
    BY <1>1, <1>2 DEF Keys
  <2>2. Keys(commit.moved) \subseteq Keys(commit'.moved) BY <1>2 DEF Keys
  <2>3. ~commit'.marker BY <1>0, <1>2 DEF Staged
  <2> QED BY <1>0, <2>1, <2>2, <2>3, NothingForgotten, NothingForgottenNext
<1>7. GateInv' BY <1>0, <1>2 DEF GateInv
<1> QED BY <1>4, <1>5, <1>6, <1>7 DEF JournalInv

\* The records go back, as far as they can be moved.
LEMMA MovesRolledBack ==
    ASSUME JournalInv, RollbackRecoveryMoves
    PROVE  JournalInv'
<1>0. /\ UNCHANGED <<saves, owed, phase, pendingScan, acknowledged, usedPages,
                     earlierPages, pageCall, scanCall>>
      /\ JournalTypes /\ CommitInv /\ GateInv /\ NothingIsForgotten /\ commit.at = "staging"
      /\ commit' = NoCommit
      /\ Staged(commit, files, earlierPages) /\ OnePerKey(files)
      /\ commit.moved \in SUBSET Records /\ files \in SUBSET Records /\ orphans \in SUBSET Records
  BY DEF JournalInv, JournalTypes, CommitInv, Commits, gate, pages, RollbackRecoveryMoves
<1>1. PICK stuck \in SUBSET commit.moved :
        /\ files' = {r \in files : Key(r) \notin Keys(commit.moved \ stuck)}
                      \cup (commit.moved \ stuck)
        /\ orphans' = orphans \cup stuck
  BY DEF RollbackRecoveryMoves
<1>2. commit' \in Commits /\ commit'.at = "idle" /\ commit'.moved = {} /\ ~commit'.marker
  BY <1>0 DEF NoCommit, Commits
<1>3. JournalTypes' BY <1>0, <1>1, <1>2 DEF JournalTypes
<1>4. CommitInv'
  <2>1. OnePerKey(files') BY <1>0, <1>1 DEF OnePerKey, Staged, Keys
  <2> QED BY <1>2, <2>1 DEF CommitInv, Staged
<1>5. NothingIsForgotten'
  <2>1. \A key \in Keys(files) : key \in Keys(files') BY <1>1 DEF Keys
  <2>2. \A key \in Keys(commit.moved) : key \in Keys(files') \/ key \in Keys(orphans')
    BY <1>1 DEF Keys
  <2>3. Keys(orphans) \subseteq Keys(orphans') BY <1>1 DEF Keys
  <2> QED BY <1>0, <2>1, <2>2, <2>3, NothingForgotten, NothingForgottenNext
<1>6. GateInv' BY <1>0, <1>2 DEF GateInv
<1> QED BY <1>3, <1>4, <1>5, <1>6 DEF JournalInv

\* The commit point: what was decided is not owed any more.
LEMMA MarkerWritten ==
    ASSUME JournalInv, WriteMarker
    PROVE  JournalInv'
<1>0. /\ UNCHANGED <<files, orphans, saves, phase, pendingScan, acknowledged, usedPages,
                     earlierPages, pageCall, scanCall>>
      /\ JournalTypes /\ CommitInv /\ GateInv /\ NothingIsForgotten
      /\ commit.at = "staging" /\ Unmoved = {}
      /\ commit' = [commit EXCEPT !.at = "marked", !.marker = TRUE]
      /\ owed' = owed \ (commit.decided \ Keys(files))
      /\ Staged(commit, files, earlierPages)
      /\ commit \in Commits /\ commit.moved \in SUBSET Records
  BY DEF JournalInv, JournalTypes, CommitInv, Commits, gate, pages, WriteMarker
<1>1. /\ commit' \in Commits /\ commit'.at = "marked" /\ commit'.marker = TRUE
  BY <1>0 DEF Commits
<1>2. Keys(commit.moved) \subseteq commit.decided /\ ~commit.marker BY <1>0 DEF Staged
<1>3. JournalTypes' BY <1>0, <1>1 DEF JournalTypes
<1>4. CommitInv' BY <1>0, <1>1 DEF CommitInv, Staged
<1>5. NothingIsForgotten'
  BY <1>0, <1>2, NothingForgotten, NothingForgottenNext
<1>6. Left(owed', earlierPages) = {}
  <2>1. ASSUME NEW key \in Left(owed', earlierPages) PROVE FALSE
    <3>1. key \in owed' /\ key[1] \in earlierPages BY <2>1 DEF Left
    <3>2. key \in Left(owed, earlierPages) BY <1>0, <3>1 DEF Left
    <3>3. key \in commit.decided BY <1>0, <3>2 DEF GateInv
    <3>4. key \in Keys(commit.moved) BY <1>0, <3>3 DEF Unmoved
    <3>5. PICK r \in commit.moved : Key(r) = key BY <3>4 DEF Keys
    <3>6. r.page \in earlierPages BY <1>0, <3>1, <3>5, KeyOfRecord
    <3>7. key \notin Keys(files) BY <1>0, <3>5, <3>6 DEF Staged
    <3> QED BY <1>0, <3>1, <3>3, <3>7
  <2> QED BY <2>1
<1>7. GateInv' BY <1>0, <1>1, <1>6 DEF GateInv
<1> QED BY <1>3, <1>4, <1>5, <1>7 DEF JournalInv

-----------------------------------------------------------------------------
(* The process dies.                                                       *)

\* The next process knows only the disk, and its pages are new.
LEMMA JournalOutlives ==
    ASSUME JournalInv, EditorDies
    PROVE  JournalInv'
<1>0. /\ UNCHANGED <<files, saves, owed>>
      /\ orphans' = Uncommitted
      /\ earlierPages' = earlierPages \cup usedPages /\ usedPages' = {}
      /\ phase' = "scanning" /\ pendingScan' = {} /\ acknowledged' = FALSE
      /\ pageCall' = [p \in Pages |-> NoPageCall]
      /\ scanCall' = NoScan /\ commit' = NoCommit
      /\ JournalTypes /\ CommitInv /\ NothingIsForgotten
      /\ commit.moved \in SUBSET Records
  BY DEF JournalInv, JournalTypes, Commits, EditorDies, PublishLifecycle
<1>1. commit' \in Commits /\ commit'.at = "idle" /\ commit'.moved = {} /\ ~commit'.marker
  BY <1>0 DEF NoCommit, Commits
<1>2. scanCall' \in ScanCalls /\ scanCall'.at = "idle" BY <1>0 DEF NoScan, ScanCalls
<1>3. /\ pageCall' \in [Pages -> PageCalls]
      /\ \A p \in Pages : pageCall'[p].at = "idle"
  <2>1. NoPageCall \in PageCalls /\ NoPageCall.at = "idle" BY DEF NoPageCall, PageCalls
  <2> QED BY <1>0, <2>1
<1>4. orphans' \in SUBSET Records BY <1>0 DEF Uncommitted, JournalTypes
<1>5. JournalTypes' BY <1>0, <1>1, <1>2, <1>3, <1>4 DEF JournalTypes
<1>6. CommitInv' BY <1>0, <1>1 DEF CommitInv, Staged
<1>7. NothingIsForgotten'
  <2>1. Keys(orphans) \subseteq Keys(orphans') BY <1>0 DEF Uncommitted, Keys
  <2>2. ~commit.marker => Keys(commit.moved) \subseteq Keys(orphans')
    BY <1>0 DEF Uncommitted, Keys
  <2> QED BY <1>0, <2>1, <2>2, NothingForgotten, NothingForgottenNext
<1>8. GateInv' BY <1>0, <1>1, <1>2, <1>3 DEF GateInv
<1> QED BY <1>5, <1>6, <1>7, <1>8 DEF JournalInv

-----------------------------------------------------------------------------
(* The theorems.                                                           *)

\* At the start nothing is journaled.
LEMMA JournalInitially == JournalInit => JournalInv
<1> SUFFICES ASSUME JournalInit PROVE JournalInv
  OBVIOUS
<1>1. commit \in Commits /\ commit.at = "idle" /\ commit.moved = {} /\ ~commit.marker
  BY DEF JournalInit, NoCommit, Commits
<1>2. scanCall \in ScanCalls /\ scanCall.at = "idle" BY DEF JournalInit, NoScan, ScanCalls
<1>3. pageCall \in [Pages -> PageCalls] /\ \A p \in Pages : pageCall[p].at = "idle"
  <2>1. NoPageCall \in PageCalls /\ NoPageCall.at = "idle" BY DEF NoPageCall, PageCalls
  <2> QED BY <2>1 DEF JournalInit
<1>4. JournalTypes
  <2>1. /\ files = {} /\ orphans = {} /\ usedPages = {} /\ phase = "scanning"
        /\ pendingScan = {} /\ acknowledged = FALSE /\ saves = 0 /\ owed = {}
    BY DEF JournalInit
  <2>2. saves \in 0 .. MaxSaves BY <2>1, JournalAssumption
  <2> QED BY <1>1, <1>2, <1>3, <2>1, <2>2 DEF JournalTypes
<1>5. CommitInv BY <1>1 DEF JournalInit, CommitInv, Staged, OnePerKey
<1>6. NothingIsForgotten BY DEF JournalInit, NothingIsForgotten
<1>7. GateInv BY <1>1, <1>2, <1>3 DEF JournalInit, GateInv
<1> QED BY <1>4, <1>5, <1>6, <1>7 DEF JournalInv

\* No step of a page, of a scan, of a commit or of a crash leaves it.
LEMMA JournalStep == JournalInv /\ [JournalNext]_journalVars => JournalInv'
<1> SUFFICES ASSUME JournalInv, [JournalNext]_journalVars PROVE JournalInv'
  OBVIOUS
<1>1. ASSUME NEW p \in Pages, SaveDirtyBuffer(p) PROVE JournalInv' BY <1>1, BufferSaved
<1>2. ASSUME NEW p \in Pages,
             \/ PageFails(p)
             \/ \E path \in Paths : CheckSave(p, path) \/ CheckClear(p, path)
      PROVE  JournalInv'
  BY <1>2, PageChecks
<1>3. ASSUME NEW p \in Pages, ClearDirtyBuffer(p) \/ ClearWindowJournal(p) PROVE JournalInv'
  BY <1>3, Clears
<1>4. CASE ClearWorkspaceJournal BY <1>4, Clears
<1>5. CASE BeginScan \/ ReadJournal \/ PublishScan \/ ScanFails \/ AcknowledgeRecoveryFailure
  BY <1>5, ScanSteps
<1>6. CASE BeginCommit \/ FinishCommit BY <1>6, CommitEdges
<1>7. CASE StageRecord BY <1>7, RecordStaged
<1>8. CASE RollbackRecoveryMoves BY <1>8, MovesRolledBack
<1>9. CASE WriteMarker BY <1>9, MarkerWritten
<1>10. CASE EditorDies BY <1>10, JournalOutlives
<1>11. CASE UNCHANGED journalVars
  <2>1. UNCHANGED <<files, orphans, usedPages, earlierPages, phase, pendingScan, acknowledged,
                    pageCall, scanCall, commit, saves, owed>>
    BY <1>11 DEF journalVars
  <2>2. NothingIsForgotten' BY <2>1, NothingForgotten, NothingForgottenNext DEF JournalInv
  <2> QED BY <2>1, <2>2 DEF JournalInv, JournalTypes, CommitInv, GateInv
<1> QED BY <1>1, <1>2, <1>3, <1>4, <1>5, <1>6, <1>7, <1>8, <1>9, <1>10, <1>11
    DEF JournalNext, PageNext

\* The inductive invariant holds in every reachable state.
THEOREM JournalInvariance == JournalSpec => []JournalInv
<1>1. JournalInit => JournalInv BY JournalInitially
<1>2. JournalInv /\ [JournalNext]_journalVars => JournalInv' BY JournalStep
<1> QED BY <1>1, <1>2, PTL DEF JournalSpec

\* The types of JournalTypeOK: no page of an earlier process journals again.
THEOREM JournalTypeCorrect == JournalSpec => []JournalTypeOK
<1>1. JournalInv => JournalTypeOK BY DEF JournalInv, JournalTypes, BufferKeys, JournalTypeOK
<1> QED BY <1>1, JournalInvariance, PTL

\* No buffer is lost: neither by the disk nor by the phase.
THEOREM WorkIsKept == JournalSpec => []NoWorkIsLost
<1>1. ASSUME JournalInv PROVE ResolvedMeansDecided
  <2>1. ASSUME phase = "resolved", ~acknowledged, NEW key \in owed,
               key \in earlierPages \X Paths
        PROVE  FALSE
    <3>1. key[1] \in earlierPages BY <2>1
    <3>2. key \in Left(owed, earlierPages) BY <3>1 DEF Left
    <3> QED BY <1>1, <2>1, <3>2 DEF JournalInv, GateInv
  <2> QED BY <2>1 DEF ResolvedMeansDecided
<1>2. JournalInv => NoWorkIsLost BY <1>1 DEF JournalInv, NoWorkIsLost
<1> QED BY <1>2, JournalInvariance, PTL

-----------------------------------------------------------------------------
(* The usage ledger: files.                                                *)

\* Every row of the file is followed by its line feed.
Terminated(chunks) ==
    \A n \in DOMAIN chunks : RowAt(chunks, n) => n + 1 \in DOMAIN chunks /\ chunks[n + 1] = Newline

\* The first chunks of a longer file.
Starts(head, chunks) ==
    /\ Len(head) <= Len(chunks)
    /\ \A n \in 1 .. Len(head) : chunks[n] = head[n]

MineOf(chunks, unit) == {n \in Accepted(chunks) : chunks[n].unit = unit}

\* A chunk is a row, a line feed or a remainder, and only one of them.
LEMMA ChunkKinds ==
    /\ \A c \in Chunks : c.kind = "row" <=> c \in Receipts
    /\ Newline \in Chunks /\ Torn \in Chunks /\ Newline # Torn
    /\ Newline \notin Receipts /\ Torn \notin Receipts /\ NoReceipt \notin Receipts
    /\ Newline.kind # "row" /\ Torn.kind # "row" /\ NoReceipt.kind = "none"
BY DEF Chunks, Receipts, Newline, Torn, NoReceipt

\* A set of positions that is not empty has a last one.
LEMMA LastPosition ==
    ASSUME NEW N \in Nat, NEW mine \in SUBSET (1 .. N), mine # {}
    PROVE  \E n \in mine : \A m \in mine : m <= n
<1> DEFINE T == {N - m : m \in mine}
<1>1. T \subseteq Nat /\ T # {}
  <2>1. \A m \in mine : N - m \in Nat OBVIOUS
  <2>2. PICK m \in mine : TRUE OBVIOUS
  <2>3. N - m \in T BY <2>2
  <2> QED BY <2>1, <2>3
<1>2. PICK t \in T : \A u \in T : ~(<<u, t>> \in OpToRel(<, Nat))
  BY <1>1, NatLessThanWellFounded, WFMin
<1>3. \A u \in T : ~(u < t) BY <1>1, <1>2 DEF OpToRel
<1>4. PICK n \in mine : t = N - n BY <1>2
<1>5. ASSUME NEW m \in mine PROVE m <= n
  <2>1. N - m \in T OBVIOUS
  <2>2. ~(N - m < N - n) BY <2>1, <1>3, <1>4
  <2> QED BY <2>2
<1> QED BY <1>5

\* The latest receipt of a unit is one of the file.
LEMMA LatestReceipt ==
    ASSUME NEW chunks \in Seq(Chunks), NEW unit \in MeteredUnits
    PROVE  /\ MineOf(chunks, unit) \subseteq 1 .. Len(chunks)
           /\ \A n \in MineOf(chunks, unit) : chunks[n] \in Receipts /\ chunks[n].unit = unit
           /\ Loaded(chunks)[unit] = Folded(chunks, MineOf(chunks, unit))
           /\ MineOf(chunks, unit) = {} => Loaded(chunks)[unit] = NoReceipt
           /\ MineOf(chunks, unit) # {} =>
                \E n \in MineOf(chunks, unit) :
                    /\ Loaded(chunks)[unit] = chunks[n]
                    /\ \A m \in MineOf(chunks, unit) : m <= n
<1>1. MineOf(chunks, unit) \in SUBSET (1 .. Len(chunks)) /\ Len(chunks) \in Nat
  BY DEF MineOf, Accepted
<1>2. Loaded(chunks)[unit] = Folded(chunks, MineOf(chunks, unit)) BY DEF Loaded, MineOf
<1>3. \A n \in MineOf(chunks, unit) : chunks[n] \in Receipts /\ chunks[n].unit = unit
  BY <1>1, ChunkKinds DEF MineOf, Accepted, RowAt
<1>4. ASSUME MineOf(chunks, unit) # {}
      PROVE  \E n \in MineOf(chunks, unit) :
                 /\ Loaded(chunks)[unit] = chunks[n]
                 /\ \A m \in MineOf(chunks, unit) : m <= n
  <2> DEFINE mine == MineOf(chunks, unit)
             last == CHOOSE n \in mine : \A m \in mine : m <= n
  <2>1. \E n \in mine : \A m \in mine : m <= n BY <1>1, <1>4, LastPosition
  <2>2. last \in mine /\ \A m \in mine : m <= last BY <2>1
  <2>3. Folded(chunks, mine) = chunks[last] BY <1>4 DEF Folded
  <2> HIDE DEF last
  <2> QED BY <1>2, <2>2, <2>3
<1>5. MineOf(chunks, unit) = {} => Loaded(chunks)[unit] = NoReceipt BY <1>2 DEF Folded
<1> QED BY <1>1, <1>2, <1>3, <1>4, <1>5

\* Whether a chunk is rejected depends on the chunks up to the next one.
LEMMA RejectedLocally ==
    ASSUME NEW head \in Seq(Chunks), NEW chunks \in Seq(Chunks), Starts(head, chunks),
           NEW n \in 1 .. Len(head), n < Len(head)
    PROVE  Rejected(head, n) <=> Rejected(chunks, n)
<1>1. /\ n + 1 \in 1 .. Len(head) /\ n < Len(chunks) /\ Len(chunks) \in Nat /\ Len(head) \in Nat
      /\ chunks[n] = head[n] /\ chunks[n + 1] = head[n + 1]
      /\ n > 1 => chunks[n - 1] = head[n - 1]
      /\ \A m \in 1 .. (n - 1) : chunks[m] = head[m]
  BY DEF Starts
<1>2. WholeLine(head, n) <=> WholeLine(chunks, n) BY <1>1 DEF WholeLine
<1> QED BY <1>1, <1>2 DEF Rejected, RowAt

\* A row that is the last of the start is rejected in the file as in the start,
\* where it shares its line with nothing.
LEMMA RowRejectedLocally ==
    ASSUME NEW head \in Seq(Chunks), NEW chunks \in Seq(Chunks), Starts(head, chunks),
           OneRowPerLine(chunks), NEW n \in 1 .. Len(head), RowAt(head, n)
    PROVE  Rejected(head, n) <=> Rejected(chunks, n)
<1>1. /\ Len(head) \in Nat /\ Len(chunks) \in Nat /\ Len(head) <= Len(chunks)
      /\ chunks[n] = head[n] /\ (n > 1 => chunks[n - 1] = head[n - 1])
      /\ \A m \in 1 .. (n - 1) : chunks[m] = head[m]
  BY DEF Starts
<1>2. CASE n < Len(head) BY <1>2, RejectedLocally
<1>3. CASE n = Len(head)
  <2>1. n < Len(chunks) => chunks[n + 1] = Newline
    <3>1. n < Len(chunks) => n \in 1 .. (Len(chunks) - 1) BY <1>1
    <3> QED BY <1>1, <3>1 DEF OneRowPerLine, RowAt
  <2>2. WholeLine(head, n) <=> WholeLine(chunks, n) BY <1>1, <1>3, <2>1 DEF WholeLine
  <2> QED BY <1>1, <2>2 DEF Rejected, RowAt
<1> QED BY <1>1, <1>2, <1>3

\* The start of a file accepts of its rows what the file accepts.
LEMMA AcceptedLocally ==
    ASSUME NEW head \in Seq(Chunks), NEW chunks \in Seq(Chunks), Starts(head, chunks),
           OneRowPerLine(chunks)
    PROVE  Accepted(head) = Accepted(chunks) \cap DOMAIN head
<1>1. /\ DOMAIN head = 1 .. Len(head) /\ DOMAIN chunks = 1 .. Len(chunks)
      /\ Len(head) \in Nat /\ Len(chunks) \in Nat /\ Len(head) <= Len(chunks)
  BY DEF Starts
<1>2. ASSUME NEW n \in DOMAIN head, RowAt(head, n)
      PROVE  /\ n \in DOMAIN chunks /\ RowAt(chunks, n)
             /\ \A m \in 1 .. n : Rejected(head, m) <=> Rejected(chunks, m)
  <2>1. ASSUME NEW m \in 1 .. n PROVE Rejected(head, m) <=> Rejected(chunks, m)
    <3>1. CASE m = n BY <1>1, <1>2, <3>1, RowRejectedLocally
    <3>2. CASE m # n
      <4>1. m \in 1 .. Len(head) /\ m < Len(head) BY <1>1, <2>1, <3>2
      <4> QED BY <4>1, RejectedLocally
    <3> QED BY <3>1, <3>2
  <2> QED BY <1>1, <1>2, <2>1 DEF RowAt, Starts
<1>3. ASSUME NEW n \in Accepted(head) PROVE n \in Accepted(chunks) \cap DOMAIN head
  <2>1. n \in DOMAIN head /\ RowAt(head, n) /\ \A m \in DOMAIN head : Rejected(head, m) => n < m
    BY DEF Accepted
  <2>2. \A m \in DOMAIN chunks : Rejected(chunks, m) => n < m BY <1>1, <1>2, <2>1
  <2> QED BY <1>2, <2>1, <2>2 DEF Accepted
<1>4. ASSUME NEW n \in Accepted(chunks) \cap DOMAIN head PROVE n \in Accepted(head)
  <2>1. RowAt(chunks, n) /\ \A m \in DOMAIN chunks : Rejected(chunks, m) => n < m
    BY DEF Accepted
  <2>2. RowAt(head, n) BY <1>1, <2>1 DEF RowAt, Starts
  <2>3. \A m \in DOMAIN head : Rejected(head, m) => n < m BY <1>1, <1>2, <2>1, <2>2
  <2> QED BY <2>2, <2>3 DEF Accepted
<1> QED BY <1>3, <1>4

\* In the start of a file no more rows share a line than in the file.
LEMMA StartKeepsLines ==
    ASSUME NEW head \in Seq(Chunks), NEW chunks \in Seq(Chunks), Starts(head, chunks),
           OneRowPerLine(chunks)
    PROVE  OneRowPerLine(head)
<1>1. ASSUME NEW n \in 1 .. (Len(head) - 1), RowAt(head, n) PROVE head[n + 1] = Newline
  <2>1. /\ n \in 1 .. (Len(chunks) - 1) /\ n \in 1 .. Len(head) /\ n + 1 \in 1 .. Len(head)
    BY DEF Starts
  <2>2. RowAt(chunks, n) /\ head[n + 1] = chunks[n + 1] BY <1>1, <2>1 DEF Starts, RowAt
  <2> QED BY <2>1, <2>2 DEF OneRowPerLine
<1> QED BY <1>1 DEF OneRowPerLine

\* Rows that end share no line, and neither does one at the very end.
LEMMA EndedLines ==
    ASSUME NEW chunks \in Seq(Chunks)
    PROVE  /\ Terminated(chunks) => OneRowPerLine(chunks)
           /\ OneRowPerLine(chunks) /\ (chunks # <<>> => ~RowAt(chunks, Len(chunks)))
                => Terminated(chunks)
<1>1. DOMAIN chunks = 1 .. Len(chunks) /\ Len(chunks) \in Nat OBVIOUS
<1>2. Terminated(chunks) => OneRowPerLine(chunks) BY <1>1 DEF Terminated, OneRowPerLine
<1>3. ASSUME OneRowPerLine(chunks), chunks # <<>> => ~RowAt(chunks, Len(chunks)),
             NEW n \in DOMAIN chunks, RowAt(chunks, n)
      PROVE  n + 1 \in DOMAIN chunks /\ chunks[n + 1] = Newline
  <2>1. n # Len(chunks) BY <1>1, <1>3
  <2>2. n \in 1 .. (Len(chunks) - 1) BY <1>1, <2>1
  <2> QED BY <1>1, <1>3, <2>2 DEF OneRowPerLine
<1> QED BY <1>2, <1>3 DEF Terminated

\* Two receipts of a unit that do not contradict each other are one stage of
\* its move, or two.
LEMMA OneMove ==
    ASSUME NEW old \in Receipts, NEW new \in Receipts, old.unit = new.unit,
           ~Contradicts(old, new)
    PROVE  old = new \/ Ledger!Moves(old, new)
<1>1. /\ old = [kind |-> "row", unit |-> old.unit, identity |-> old.identity, state |-> old.state]
      /\ new = [kind |-> "row", unit |-> new.unit, identity |-> new.identity, state |-> new.state]
      /\ old.state \in Terminal \cup {"pending"} /\ new.state \in Terminal \cup {"pending"}
  BY DEF Receipts
<1>2. old.identity = new.identity /\ (old.state = "pending" \/ new.state = old.state)
  BY DEF Contradicts
<1>3. CASE new.state = old.state BY <1>1, <1>2, <1>3
<1>4. CASE old.state = "pending" /\ new.state \in Terminal
  <2>1. new = [old EXCEPT !.state = new.state] BY <1>1, <1>2
  <2>2. new.kind = "row" BY <1>1
  <2> QED BY <1>4, <2>1, <2>2 DEF Ledger!Moves, Ledger!Outcomes, Terminal
<1> QED BY <1>1, <1>2, <1>3, <1>4

\* The receipts of one unit in a file and in its start are stages of one move.
LEMMA LoadedGrows ==
    ASSUME NEW head \in Seq(Chunks), NEW chunks \in Seq(Chunks), Starts(head, chunks),
           OneRowPerLine(chunks), NEW unit \in MeteredUnits
    PROVE  \/ Loaded(chunks)[unit] = Loaded(head)[unit]
           \/ Ledger!Moves(Loaded(head)[unit], Loaded(chunks)[unit])
<1> DEFINE before == MineOf(head, unit)
           after == MineOf(chunks, unit)
<1>1. /\ DOMAIN head = 1 .. Len(head) /\ \A n \in DOMAIN head : chunks[n] = head[n]
      /\ Len(head) \in Nat /\ Len(chunks) \in Nat
  BY DEF Starts
<1>2. before = after \cap DOMAIN head
  BY <1>1, AcceptedLocally DEF MineOf
<1>3. CASE after = {} BY <1>2, <1>3, LatestReceipt
<1>4. CASE after # {} /\ before = {}
  <2>1. Loaded(head)[unit] = NoReceipt BY <1>4, LatestReceipt
  <2>2. Loaded(chunks)[unit].kind = "row" BY <1>4, LatestReceipt, ChunkKinds DEF Receipts
  <2> QED BY <2>1, <2>2, ChunkKinds DEF Ledger!Moves
<1>5. CASE before # {}
  <2>1. PICK old \in before : Loaded(head)[unit] = head[old] /\ \A m \in before : m <= old
    BY <1>5, LatestReceipt
  <2>2. after # {} BY <1>2, <1>5
  <2>3. PICK new \in after : Loaded(chunks)[unit] = chunks[new] /\ \A m \in after : m <= new
    BY <2>2, LatestReceipt
  <2>4. /\ old \in after /\ old <= new /\ head[old] = chunks[old]
        /\ old \in 1 .. Len(chunks) /\ new \in 1 .. Len(chunks)
    BY <1>1, <1>2, <2>1, <2>3, LatestReceipt
  <2>5. CASE old = new BY <2>1, <2>3, <2>4, <2>5
  <2>6. CASE old # new
    <3>1. old \in 1 .. (new - 1) BY <2>4, <2>6
    <3>2. ~Rejected(chunks, new) /\ new \in DOMAIN chunks /\ RowAt(chunks, new) /\ RowAt(chunks, old)
      <4>1. new \in Accepted(chunks) /\ old \in Accepted(chunks) BY <2>3, <2>4 DEF MineOf
      <4>2. ~(new < new) BY <2>4
      <4> QED BY <4>1, <4>2 DEF Accepted
    <3>3. /\ chunks[old] \in Receipts /\ chunks[new] \in Receipts
          /\ chunks[old].unit = unit /\ chunks[new].unit = unit
      BY <2>3, <2>4, LatestReceipt
    <3>4. ~Contradicts(chunks[old], chunks[new])
      <4>1. chunks[new] # Newline BY <3>3, ChunkKinds
      <4> QED BY <3>1, <3>2, <3>3, <4>1 DEF Rejected
    <3>5. chunks[old] = chunks[new] \/ Ledger!Moves(chunks[old], chunks[new])
      BY <3>3, <3>4, OneMove
    <3> QED BY <2>1, <2>3, <2>4, <3>5
  <2> QED BY <2>5, <2>6
<1> QED BY <1>3, <1>4, <1>5

\* A remainder at the end hides nothing.
LEMMA TornIsIgnored ==
    ASSUME NEW chunks \in Seq(Chunks), Terminated(chunks)
    PROVE  /\ Append(chunks, Torn) \in Seq(Chunks) /\ Terminated(Append(chunks, Torn))
           /\ Loaded(Append(chunks, Torn)) = Loaded(chunks)
<1> DEFINE torn == Append(chunks, Torn)
<1>1. /\ torn \in Seq(Chunks) /\ DOMAIN torn = 1 .. (Len(chunks) + 1)
      /\ Len(torn) = Len(chunks) + 1 /\ torn[Len(chunks) + 1] = Torn
      /\ DOMAIN chunks = 1 .. Len(chunks) /\ Len(chunks) \in Nat
      /\ \A n \in 1 .. Len(chunks) : torn[n] = chunks[n]
  BY ChunkKinds
<1> HIDE DEF torn
<1>2. Starts(chunks, torn) BY <1>1 DEF Starts
<1>3. ~RowAt(torn, Len(chunks) + 1) BY <1>1, ChunkKinds DEF RowAt
<1>4. Terminated(torn)
  <2>1. ASSUME NEW n \in DOMAIN torn, RowAt(torn, n)
        PROVE  n + 1 \in DOMAIN torn /\ torn[n + 1] = Newline
    <3>1. n \in DOMAIN chunks /\ RowAt(chunks, n) BY <1>1, <1>3, <2>1 DEF RowAt
    <3>2. n + 1 \in DOMAIN chunks /\ chunks[n + 1] = Newline BY <3>1 DEF Terminated
    <3> QED BY <1>1, <3>2
  <2> QED BY <2>1 DEF Terminated
<1>5. Accepted(chunks) = Accepted(torn) \cap DOMAIN chunks BY <1>1, <1>2, <1>4, EndedLines, AcceptedLocally
<1>6. Accepted(torn) \subseteq DOMAIN chunks
  <2>1. ASSUME NEW n \in Accepted(torn) PROVE n \in DOMAIN chunks
    <3>1. n \in 1 .. (Len(chunks) + 1) /\ RowAt(torn, n) BY <1>1 DEF Accepted
    <3> QED BY <1>1, <1>3, <3>1
  <2> QED BY <2>1
<1>7. \A unit \in MeteredUnits : Loaded(torn)[unit] = Loaded(chunks)[unit]
  <2> TAKE unit \in MeteredUnits
  <2>1. MineOf(torn, unit) = MineOf(chunks, unit) BY <1>1, <1>5, <1>6 DEF MineOf
  <2>2. CASE MineOf(chunks, unit) = {} BY <1>1, <2>1, <2>2, LatestReceipt
  <2>3. CASE MineOf(chunks, unit) # {}
    <3>1. PICK n \in MineOf(chunks, unit) :
            Loaded(chunks)[unit] = chunks[n] /\ \A m \in MineOf(chunks, unit) : m <= n
      BY <2>3, LatestReceipt
    <3>2. PICK m \in MineOf(chunks, unit) :
            Loaded(torn)[unit] = torn[m] /\ \A k \in MineOf(chunks, unit) : k <= m
      BY <1>1, <2>1, <2>3, LatestReceipt
    <3>3. n = m /\ n \in 1 .. Len(chunks) BY <1>1, <3>1, <3>2, LatestReceipt
    <3> QED BY <1>1, <3>1, <3>2, <3>3
  <2> QED BY <2>2, <2>3
<1>8. Loaded(torn) = Loaded(chunks) BY <1>7 DEF Loaded
<1> QED BY <1>1, <1>4, <1>8 DEF torn

\* A row that follows from the receipts of a file extends it.
LEMMA RowExtends ==
    ASSUME NEW chunks \in Seq(Chunks), Terminated(chunks), Loads(chunks), NEW row \in Receipts,
           Loaded(chunks)[row.unit] # NoReceipt => ~Contradicts(Loaded(chunks)[row.unit], row)
    PROVE  LET longer == chunks \o <<row, Newline>>
           IN  /\ longer \in Seq(Chunks) /\ Starts(chunks, longer)
               /\ Len(longer) = Len(chunks) + 2 /\ longer[Len(chunks) + 1] = row
               /\ Terminated(longer) /\ Loads(longer)
               /\ Loaded(longer) = [Loaded(chunks) EXCEPT ![row.unit] = row]
<1> DEFINE longer == chunks \o <<row, Newline>>
           last == Len(chunks) + 1
<1>1. /\ longer \in Seq(Chunks) /\ Len(longer) = Len(chunks) + 2
      /\ DOMAIN longer = 1 .. (Len(chunks) + 2)
      /\ longer[Len(chunks) + 1] = row /\ longer[Len(chunks) + 2] = Newline
      /\ DOMAIN chunks = 1 .. Len(chunks) /\ Len(chunks) \in Nat
      /\ \A n \in 1 .. Len(chunks) : longer[n] = chunks[n]
  <2>1. row \in Chunks /\ Newline \in Chunks BY ChunkKinds DEF Chunks
  <2> QED BY <2>1
<1> HIDE DEF longer
<1>2. Starts(chunks, longer) BY <1>1 DEF Starts
<1>3. /\ RowAt(longer, last) /\ ~RowAt(longer, last + 1)
      /\ \A n \in 1 .. Len(chunks) : RowAt(longer, n) <=> RowAt(chunks, n)
  BY <1>1, ChunkKinds DEF RowAt
<1>4. Terminated(longer)
  <2>1. ASSUME NEW n \in DOMAIN longer, RowAt(longer, n)
        PROVE  n + 1 \in DOMAIN longer /\ longer[n + 1] = Newline
    <3>1. CASE n \in DOMAIN chunks
      <4>1. n + 1 \in DOMAIN chunks /\ chunks[n + 1] = Newline
        BY <1>1, <1>3, <2>1, <3>1 DEF Terminated
      <4> QED BY <1>1, <4>1
    <3>2. CASE n = last BY <1>1, <3>2
    <3> QED BY <1>1, <1>3, <2>1, <3>1, <3>2
  <2> QED BY <2>1 DEF Terminated
<1>5. Accepted(chunks) = {n \in DOMAIN chunks : RowAt(chunks, n)} BY DEF Accepted, Loads
<1>6. \A n \in DOMAIN chunks : chunks[n] = Newline \/ RowAt(chunks, n) BY DEF Loads, Rejected
<1>7. \A m \in 1 .. Len(chunks) :
        RowAt(chunks, m) /\ chunks[m].unit = row.unit => ~Contradicts(chunks[m], row)
  <2> TAKE m \in 1 .. Len(chunks)
  <2> HAVE RowAt(chunks, m) /\ chunks[m].unit = row.unit
  <2>1. row.unit \in MeteredUnits BY DEF Receipts
  <2>2. m \in MineOf(chunks, row.unit) BY <1>1, <1>5 DEF MineOf
  <2>3. PICK n \in MineOf(chunks, row.unit) :
          Loaded(chunks)[row.unit] = chunks[n] /\ \A k \in MineOf(chunks, row.unit) : k <= n
    BY <2>1, <2>2, LatestReceipt
  <2>4. /\ chunks[n] \in Receipts /\ chunks[m] \in Receipts /\ chunks[n].unit = row.unit
        /\ n \in 1 .. Len(chunks) /\ m <= n
    BY <2>1, <2>2, <2>3, LatestReceipt
  <2>5. ~Contradicts(chunks[n], row) BY <2>3, <2>4, ChunkKinds
  <2>6. CASE m = n BY <2>5, <2>6
  <2>7. CASE m # n
    <3>1. ~Rejected(chunks, n) /\ chunks[n] # Newline /\ m \in 1 .. (n - 1)
      BY <1>1, <2>4, <2>7, ChunkKinds DEF Loads
    <3>2. ~Contradicts(chunks[m], chunks[n]) BY <2>4, <3>1 DEF Rejected
    <3> QED BY <2>5, <3>2 DEF Contradicts
  <2> QED BY <2>6, <2>7
<1>8. Loads(longer)
  <2>1. ASSUME NEW n \in DOMAIN longer PROVE ~Rejected(longer, n)
    <3>1. CASE n \in DOMAIN chunks /\ chunks[n] = Newline BY <1>1, <3>1 DEF Rejected
    <3>2. CASE n \in DOMAIN chunks /\ RowAt(chunks, n)
      <4>1. n < Len(chunks) BY <1>1, <3>2 DEF Terminated
      <4>2. Rejected(chunks, n) <=> Rejected(longer, n) BY <1>1, <1>2, <3>2, <4>1, RejectedLocally
      <4> QED BY <3>2, <4>2 DEF Loads
    <3>3. CASE n = last
      <4>1. WholeLine(longer, n)
        <5>1. last > 1 => longer[last - 1] = Newline
          <6>1. ~RowAt(chunks, Len(chunks)) \/ Len(chunks) = 0 BY <1>1 DEF Terminated
          <6> QED BY <1>1, <1>6, <6>1
        <5> QED BY <1>1, <3>3, <5>1 DEF WholeLine
      <4>2. \A m \in 1 .. (n - 1) : ~(/\ RowAt(longer, m) /\ longer[m].unit = longer[n].unit
                                      /\ Contradicts(longer[m], longer[n]))
        BY <1>1, <1>3, <1>7, <3>3
      <4> QED BY <1>3, <3>3, <4>1, <4>2 DEF Rejected
    <3>4. CASE n = last + 1 BY <1>1, <3>4 DEF Rejected
    <3> QED BY <1>1, <1>6, <3>1, <3>2, <3>3, <3>4
  <2> QED BY <2>1 DEF Loads
<1>9. Accepted(longer) = Accepted(chunks) \cup {last}
  <2>1. Accepted(longer) = {n \in DOMAIN longer : RowAt(longer, n)} BY <1>8 DEF Accepted, Loads
  <2> QED BY <1>1, <1>3, <1>5, <2>1
<1>10. \A unit \in MeteredUnits :
         Loaded(longer)[unit] = IF unit = row.unit THEN row ELSE Loaded(chunks)[unit]
  <2> TAKE unit \in MeteredUnits
  <2>1. CASE unit = row.unit
    <3>1. last \in MineOf(longer, unit) BY <1>1, <1>9, <2>1 DEF MineOf
    <3>2. PICK n \in MineOf(longer, unit) :
            Loaded(longer)[unit] = longer[n] /\ \A m \in MineOf(longer, unit) : m <= n
      BY <1>1, <3>1, LatestReceipt
    <3>3. n = last
      <4>1. n \in Accepted(longer) /\ last <= n BY <3>1, <3>2 DEF MineOf
      <4>2. n \in DOMAIN chunks \/ n = last BY <1>5, <1>9, <4>1
      <4> QED BY <1>1, <4>1, <4>2
    <3> QED BY <1>1, <2>1, <3>2, <3>3
  <2>2. CASE unit # row.unit
    <3>1. MineOf(longer, unit) = MineOf(chunks, unit)
      <4>1. \A n \in Accepted(chunks) : longer[n] = chunks[n] BY <1>1, <1>5
      <4> QED BY <1>1, <1>9, <2>2, <4>1 DEF MineOf
    <3>2. CASE MineOf(chunks, unit) = {} BY <1>1, <2>2, <3>1, <3>2, LatestReceipt
    <3>3. CASE MineOf(chunks, unit) # {}
      <4>1. PICK n \in MineOf(chunks, unit) :
              Loaded(chunks)[unit] = chunks[n] /\ \A m \in MineOf(chunks, unit) : m <= n
        BY <3>3, LatestReceipt
      <4>2. PICK m \in MineOf(chunks, unit) :
              Loaded(longer)[unit] = longer[m] /\ \A k \in MineOf(chunks, unit) : k <= m
        BY <1>1, <3>1, <3>3, LatestReceipt
      <4>3. n = m /\ n \in 1 .. Len(chunks) BY <1>1, <4>1, <4>2, LatestReceipt
      <4> QED BY <1>1, <2>2, <4>1, <4>2, <4>3
    <3> QED BY <3>2, <3>3
  <2> QED BY <2>1, <2>2
<1>11. Loaded(longer) = [Loaded(chunks) EXCEPT ![row.unit] = row]
  <2>1. Loaded(longer) = [unit \in MeteredUnits |->
                            IF unit = row.unit THEN row ELSE Loaded(chunks)[unit]]
    BY <1>10 DEF Loaded
  <2>2. DOMAIN Loaded(chunks) = MeteredUnits BY DEF Loaded
  <2> QED BY <2>1, <2>2
<1> QED BY <1>1, <1>2, <1>4, <1>8, <1>11 DEF longer

-----------------------------------------------------------------------------
(* The usage ledger: types.                                                *)

\* What is read back is a receipt of each unit, or none.
LEMMA LoadedTyped ==
    ASSUME NEW chunks \in Seq(Chunks)
    PROVE  Loaded(chunks) \in [MeteredUnits -> Receipts \cup {NoReceipt}]
<1>1. \A unit \in MeteredUnits : Loaded(chunks)[unit] \in Receipts \cup {NoReceipt}
  BY LatestReceipt
<1>2. Loaded(chunks) = [unit \in MeteredUnits |-> Loaded(chunks)[unit]] BY DEF Loaded
<1> QED BY <1>1, <1>2

\* Every operation on a unit records a receipt of it.
LEMMA UnitsRecord ==
    ASSUME usage \in [MeteredUnits -> Receipts \cup {NoReceipt}],
           NEW unit \in MeteredUnits, UnitNext(unit)
    PROVE  \E row \in Receipts : \E required \in BOOLEAN : RecordUsage(row, required)
<1>1. ASSUME NEW identity \in Identities, NEW state \in Terminal \cup {"pending"}
      PROVE  Receipt(unit, identity, state) \in Receipts
  BY DEF Receipt, Receipts
<1>2. CASE \E identity \in Identities : BeginAgentUsage(unit, identity)
  BY <1>1, <1>2 DEF BeginAgentUsage
<1>3. CASE \E identity \in Identities, outcome \in {"success", "failed"} :
             CompleteAgentUsage(unit, identity, outcome)
  BY <1>1, <1>3 DEF CompleteAgentUsage, Terminal
<1>4. CASE \E identity \in Identities, outcome \in {"success", "failed"} :
             RecordAgentUsage(unit, identity, outcome)
  BY <1>1, <1>4 DEF RecordAgentUsage, Terminal
<1>5. CASE ApplyManualUnknown(unit)
  <2>1. usage[unit] \in Receipts BY <1>5 DEF ApplyManualUnknown
  <2>2. [usage[unit] EXCEPT !.state = "manual"] \in Receipts BY <2>1 DEF Receipts, Terminal
  <2> QED BY <1>5, <2>2 DEF ApplyManualUnknown
<1> QED BY <1>2, <1>3, <1>4, <1>5 DEF UnitNext

\* The file begins empty.
LEMMA LedgerTypedInitially == LedgerInit => LedgerTypeOK
<1> SUFFICES ASSUME LedgerInit PROVE LedgerTypeOK
  OBVIOUS
<1>1. /\ file = <<>> /\ synced = 0 /\ acked = {} /\ ledgerUp = FALSE /\ usage = NoUsage
      /\ ledgerPoison = FALSE
  BY DEF LedgerInit
<1>2. NoUsage \in [MeteredUnits -> Receipts \cup {NoReceipt}] BY DEF NoUsage
<1>3. file \in Seq(Chunks) /\ synced \in 0 .. Len(file) BY <1>1
<1> QED BY <1>1, <1>2, <1>3 DEF LedgerTypeOK

\* A row that is written, whole or in part, leaves the variables typed.
LEMMA RecordsAreTyped ==
    ASSUME LedgerTypeOK, NEW row \in Receipts, NEW required \in BOOLEAN,
           RecordUsage(row, required)
    PROVE  LedgerTypeOK'
<1>1. /\ file \in Seq(Chunks) /\ Len(file) \in Nat /\ synced \in 0 .. Len(file)
      /\ usage \in [MeteredUnits -> Receipts \cup {NoReceipt}] /\ acked \subseteq Receipts
      /\ ledgerUp \in BOOLEAN /\ ledgerPoison \in BOOLEAN
  BY DEF LedgerTypeOK
<1>2. row \in Chunks /\ Newline \in Chunks /\ Torn \in Chunks BY DEF Chunks
<1>3. AppendUsage(row) /\ ledgerUp' = ledgerUp BY DEF RecordUsage
<1>4. CASE Published(row) /\ usage' = [usage EXCEPT ![row.unit] = row]
  <2>1. file' = file \o <<row, Newline>> /\ synced' = Len(file') BY <1>4 DEF Published
  <2>2. file' \in Seq(Chunks) /\ Len(file') \in Nat BY <1>1, <1>2, <2>1
  <2>3. synced' \in 0 .. Len(file') BY <2>1, <2>2
  <2>4. usage' \in [MeteredUnits -> Receipts \cup {NoReceipt}] BY <1>1, <1>4
  <2>5. acked' \subseteq Receipts /\ ledgerPoison' = ledgerPoison BY <1>1, <1>4 DEF Published
  <2> QED BY <1>1, <1>3, <2>2, <2>3, <2>4, <2>5 DEF LedgerTypeOK
<1>5. CASE Indeterminate(row) /\ UNCHANGED usage
  <2>1. PICK rest \in Remains(row) : file' = file \o rest BY <1>5 DEF Indeterminate
  <2>2. rest \in Seq(Chunks) BY <1>2, <2>1 DEF Remains
  <2>3. file' \in Seq(Chunks) /\ Len(file') \in Nat /\ Len(file') >= Len(file)
    BY <1>1, <2>1, <2>2
  <2>4. synced' = synced /\ acked' = acked /\ ledgerPoison' = TRUE BY <1>5 DEF Indeterminate
  <2>5. synced' \in 0 .. Len(file') BY <1>1, <2>3, <2>4
  <2> QED BY <1>1, <1>3, <1>5, <2>3, <2>4, <2>5 DEF LedgerTypeOK
<1>6. CASE UNCHANGED <<usage, file, synced, acked, ledgerPoison>>
  BY <1>1, <1>3, <1>6 DEF LedgerTypeOK
<1> QED BY <1>3, <1>4, <1>5, <1>6 DEF AppendUsage

\* What a power loss leaves is a sequence of chunks, whatever it cuts.
LEMMA SurvivorsAreTyped ==
    ASSUME file \in Seq(Chunks), synced \in 0 .. Len(file), NEW chunks \in Survivors
    PROVE  chunks \in Seq(Chunks)
<1>1. Len(file) \in Nat /\ Torn \in Chunks BY DEF Chunks
<1>2. ASSUME NEW k \in synced .. Len(file) PROVE SubSeq(file, 1, k) \in Seq(Chunks)
  BY <1>1
<1>3. ASSUME NEW k \in synced .. (Len(file) - 1)
      PROVE  Append(SubSeq(file, 1, k), Torn) \in Seq(Chunks)
  <2>1. k \in synced .. Len(file) BY <1>1
  <2>2. SubSeq(file, 1, k) \in Seq(Chunks) BY <1>2, <2>1
  <2> QED BY <1>1, <2>2
<1> QED BY <1>2, <1>3 DEF Survivors

\* Every step keeps the types.
LEMMA LedgerStepTypes ==
    ASSUME LedgerTypeOK, [LedgerNext]_ledgerVars PROVE LedgerTypeOK'
<1>1. /\ file \in Seq(Chunks) /\ synced \in 0 .. Len(file) /\ acked \subseteq Receipts
      /\ usage \in [MeteredUnits -> Receipts \cup {NoReceipt}]
      /\ NoUsage \in [MeteredUnits -> Receipts \cup {NoReceipt}]
  BY DEF LedgerTypeOK, NoUsage
<1>2. CASE LoadUsage
  <2>1. Loads(file) \in BOOLEAN BY DEF Loads
  <2> QED BY <1>1, <1>2, <2>1, LoadedTyped DEF LoadUsage, LedgerTypeOK
<1>3. CASE LedgerCrash
  BY <1>1, <1>3 DEF LedgerCrash, StopProcess, LedgerTypeOK
<1>4. CASE LedgerPowerLoss
  <2>1. file' \in Seq(Chunks) /\ synced' = Len(file')
    BY <1>1, <1>4, SurvivorsAreTyped DEF LedgerPowerLoss
  <2>2. synced' \in 0 .. Len(file') BY <2>1
  <2> QED BY <1>1, <1>4, <2>1, <2>2 DEF LedgerPowerLoss, StopProcess, LedgerTypeOK
<1>5. ASSUME NEW unit \in MeteredUnits, UnitNext(unit) PROVE LedgerTypeOK'
  BY <1>1, <1>5, UnitsRecord, RecordsAreTyped
<1>6. CASE UNCHANGED ledgerVars BY <1>6 DEF ledgerVars, LedgerTypeOK
<1> QED BY <1>2, <1>3, <1>4, <1>5, <1>6 DEF LedgerNext

\* The variables of the ledger keep their types.
THEOREM LedgerTypeCorrect == LedgerSpec => []LedgerTypeOK
<1>1. LedgerTypeOK /\ [LedgerNext]_ledgerVars => LedgerTypeOK' BY LedgerStepTypes
<1> QED BY <1>1, LedgerTypedInitially, PTL DEF LedgerSpec

-----------------------------------------------------------------------------
(* The usage ledger: the load as a loop.                                   *)

\* A set of numbers that is not empty has a least one.
LEMMA LeastNumber ==
    ASSUME NEW T \in SUBSET Nat, T # {}
    PROVE  \E t \in T : \A u \in T : t <= u
<1>1. PICK t \in T : \A u \in T : ~(<<u, t>> \in OpToRel(<, Nat))
  BY NatLessThanWellFounded, WFMin
<1>2. \A u \in T : ~(u < t) BY <1>1 DEF OpToRel
<1> QED BY <1>2

\* The last position of a set of them.
LEMMA LastIsMax ==
    ASSUME NEW N \in Nat, NEW s \in SUBSET (1 .. N), s # {}
    PROVE  Max(s) \in s /\ \A m \in s : m <= Max(s)
<1>1. PICK n \in s : \A m \in s : m <= n BY LastPosition
<1>2. n \in s /\ \A m \in s : n >= m BY <1>1
<1>3. \A k \in s : k \in Int OBVIOUS
<1> DEFINE last == CHOOSE n_1 \in s : \A m \in s : n_1 >= m
<1>4. last \in s /\ \A m \in s : last >= m BY <1>2
<1>5. Max(s) = last BY DEF Max
<1> HIDE DEF last
<1> QED BY <1>3, <1>4, <1>5

\* The function by which the folds of the library are defined.
IsFold(iter, N, State, base, step) ==
    /\ iter \in [SUBSET (1 .. N) -> State]
    /\ \A s \in SUBSET (1 .. N) :
          iter[s] = IF s = {} THEN base ELSE step[Max(s)][iter[s \ {Max(s)}]]

\* The function by which a fold is defined exists.
LEMMA FoldExists ==
    ASSUME NEW N \in Nat, NEW State, NEW base \in State, NEW step \in [1 .. N -> [State -> State]]
    PROVE  \E iter : IsFold(iter, N, State, base, step)
<1> DEFINE T == {m \in 0 .. N : ~ \E iter : IsFold(iter, m, State, base, step)}
<1>1. SUFFICES ASSUME T # {} PROVE FALSE
  <2>1. N \in 0 .. N OBVIOUS
  <2> QED BY <2>1
<1>2. PICK m \in T : \A k \in T : m <= k
  <2>1. T \in SUBSET Nat OBVIOUS
  <2> QED BY <1>1, <2>1, LeastNumber
<1>3. m # 0
  <2> DEFINE iter == [s \in SUBSET (1 .. 0) |-> base]
  <2>1. SUBSET (1 .. 0) = {{}} OBVIOUS
  <2>2. IsFold(iter, 0, State, base, step) BY <2>1 DEF IsFold
  <2> QED BY <2>2
<1>4. m - 1 \in 0 .. N /\ m - 1 \notin T /\ m \in 1 .. N BY <1>2, <1>3
<1>5. PICK before : IsFold(before, m - 1, State, base, step) BY <1>4
<1> DEFINE iter == [s \in SUBSET (1 .. m) |->
                      IF m \in s THEN step[m][before[s \ {m}]] ELSE before[s]]
<1>6. ASSUME NEW s \in SUBSET (1 .. m)
      PROVE  s \ {m} \in SUBSET (1 .. (m - 1)) /\ (m \notin s => s \in SUBSET (1 .. (m - 1)))
  BY <1>4
<1>7. step[m] \in [State -> State] BY <1>4
<1>8. iter \in [SUBSET (1 .. m) -> State]
  BY <1>5, <1>6, <1>7 DEF IsFold
<1>9. ASSUME NEW s \in SUBSET (1 .. m)
      PROVE  iter[s] = IF s = {} THEN base ELSE step[Max(s)][iter[s \ {Max(s)}]]
  <2>1. CASE m \in s
    <3>1. Max(s) = m
      <4>1. Max(s) \in s /\ \A k \in s : k <= Max(s)
        <5>1. m \in Nat /\ s \in SUBSET (1 .. m) /\ s # {} BY <1>4, <1>9, <2>1
        <5> QED BY <5>1, LastIsMax
      <4>2. Max(s) \in 1 .. m /\ m <= Max(s) BY <2>1, <4>1
      <4> QED BY <1>4, <4>2
    <3>2. s \ {m} \in SUBSET (1 .. m) /\ m \notin s \ {m} OBVIOUS
    <3>3. iter[s \ {m}] = before[s \ {m}] BY <3>2
    <3>4. iter[s] = step[m][before[s \ {m}]] BY <2>1
    <3> QED BY <2>1, <3>1, <3>3, <3>4
  <2>2. CASE m \notin s
    <3>1. s \in SUBSET (1 .. (m - 1)) BY <1>6, <2>2
    <3>2. iter[s] = before[s] BY <2>2
    <3>3. iter[s \ {Max(s)}] = before[s \ {Max(s)}] BY <2>2
    <3> QED BY <1>5, <3>1, <3>2, <3>3 DEF IsFold
  <2> QED BY <2>1, <2>2
<1> HIDE DEF iter
<1>10. IsFold(iter, m, State, base, step) BY <1>8, <1>9 DEF IsFold
<1> QED BY <1>2, <1>10

\* The largest of the first numbers.
LEMMA MaxOfPrefix ==
    ASSUME NEW k \in Nat \ {0}
    PROVE  Max(1 .. k) = k /\ (1 .. k) \ {k} = 1 .. (k - 1) /\ 1 .. k # {}
<1>1. 1 .. k \in SUBSET (1 .. k) /\ k \in 1 .. k /\ 1 .. k # {} OBVIOUS
<1> DEFINE last == Max(1 .. k)
<1>2. last \in 1 .. k /\ k <= last BY <1>1, LastIsMax
<1> HIDE DEF last
<1>3. last = k BY <1>2
<1> QED BY <1>1, <1>3 DEF last

\* The states a loop of N steps goes through, from the first to the last.
IsRun(run, N, State, base, step) ==
    /\ run \in [0 .. N -> State] /\ run[0] = base
    /\ \A k \in 1 .. N : run[k] = step[k][run[k - 1]]

\* What goes through the first elements like the fold does.
Follows(it, N, State, base, step) ==
    /\ it[1 .. 0] = base
    /\ \A k \in 1 .. N : it[1 .. (k - 1)] \in State => it[1 .. k] = step[k][it[1 .. (k - 1)]]

\* It ends where a run ends.
LEMMA FoldRun ==
    ASSUME NEW N \in Nat, NEW State, NEW base, NEW step, NEW made, NEW it,
           IsFold(made, N, State, base, step), Follows(it, N, State, base, step)
    PROVE  \E run : IsRun(run, N, State, base, step) /\ run[N] = it[1 .. N]
<1> DEFINE run == [k \in 0 .. N |-> made[1 .. k]]
<1>1. \A k \in 0 .. N : 1 .. k \in SUBSET (1 .. N) OBVIOUS
<1>2. run \in [0 .. N -> State] BY <1>1 DEF IsFold
<1>3. ASSUME NEW k \in 1 .. N
      PROVE  k \in 0 .. N /\ k - 1 \in 0 .. N /\ run[k] = step[k][run[k - 1]]
  <2>1. k \in 0 .. N /\ k - 1 \in 0 .. N /\ k \in Nat \ {0} OBVIOUS
  <2>2. Max(1 .. k) = k /\ (1 .. k) \ {k} = 1 .. (k - 1) /\ 1 .. k # {} BY <2>1, MaxOfPrefix
  <2>3. made[1 .. k] = step[k][made[1 .. (k - 1)]] BY <1>1, <2>1, <2>2 DEF IsFold
  <2> QED BY <2>1, <2>3
<1>4. run[0] = base
  <2>1. 1 .. 0 = {} /\ {} \in SUBSET (1 .. N) /\ 0 \in 0 .. N OBVIOUS
  <2>2. made[1 .. 0] = base BY <2>1 DEF IsFold
  <2> QED BY <2>1, <2>2
<1> HIDE DEF run
<1> DEFINE T == {k \in 0 .. N : it[1 .. k] # run[k]}
<1>5. T = {}
  <2>1. SUFFICES ASSUME T # {} PROVE FALSE OBVIOUS
  <2>2. PICK k \in T : \A n \in T : k <= n
    <3>1. T \in SUBSET Nat OBVIOUS
    <3> QED BY <2>1, <3>1, LeastNumber
  <2>3. k # 0 BY <1>4, <2>2 DEF Follows
  <2>4. k - 1 \in 0 .. N /\ k - 1 \notin T /\ k \in 1 .. N BY <2>2, <2>3
  <2>5. it[1 .. (k - 1)] = run[k - 1] /\ run[k - 1] \in State BY <1>2, <2>4
  <2> QED BY <1>3, <2>2, <2>4, <2>5 DEF Follows
<1>6. run[N] = it[1 .. N]
  <2>1. N \in 0 .. N OBVIOUS
  <2> QED BY <1>5, <2>1
<1> QED BY <1>2, <1>3, <1>4, <1>6 DEF IsRun

\* Both loops take the same first N steps.
SameSteps(step, longer, N) == \A k \in 1 .. N : longer[k] = step[k]

\* A run with one more step repeats the shorter one.
LEMMA OneMoreStep ==
    ASSUME NEW N \in Nat, NEW State, NEW base, NEW step, NEW longer, NEW run, NEW next,
           IsRun(run, N, State, base, step), IsRun(next, N + 1, State, base, longer),
           SameSteps(step, longer, N)
    PROVE  next[N + 1] = longer[N + 1][run[N]] /\ run[N] \in State
<1> DEFINE T == {k \in 0 .. N : next[k] # run[k]}
<1>1. T = {}
  <2>1. SUFFICES ASSUME T # {} PROVE FALSE OBVIOUS
  <2>2. PICK k \in T : \A n \in T : k <= n
    <3>1. T \in SUBSET Nat OBVIOUS
    <3> QED BY <2>1, <3>1, LeastNumber
  <2>3. k # 0 BY <2>2 DEF IsRun
  <2>4. k - 1 \in 0 .. N /\ k - 1 \notin T /\ k \in 1 .. N /\ k \in 1 .. (N + 1) BY <2>2, <2>3
  <2>5. next[k - 1] = run[k - 1] BY <2>4
  <2>6. next[k] = longer[k][next[k - 1]] /\ run[k] = step[k][run[k - 1]] BY <2>4 DEF IsRun
  <2>7. longer[k] = step[k] BY <2>4 DEF SameSteps
  <2> QED BY <2>2, <2>5, <2>6, <2>7
<1>2. N \in 0 .. N /\ N + 1 \in 1 .. (N + 1) /\ (N + 1) - 1 = N OBVIOUS
<1>3. next[N] = run[N] /\ run[N] \in State BY <1>1, <1>2 DEF IsRun
<1>4. next[N + 1] = longer[N + 1][next[N]] BY <1>2 DEF IsRun
<1> QED BY <1>3, <1>4

\* The values of the two loops, over the lines and over the chunks of a file
\* (MCUsageLedger: LoadLine, Lines).
LineChunks == Receipts \cup {Torn}
ManyLines == Seq(Seq(LineChunks)) \ {<<>>}
LoadStates == [usage : [MeteredUnits -> Receipts \cup {NoReceipt}], poison : BOOLEAN]
LoopStart == [usage |-> NoUsage, poison |-> FALSE]
LoopOf(lines) == FoldLeft(LoadLine, LoopStart, lines)

\* One iteration of the cut into lines.
AddChunk(lines, chunk) ==
    IF chunk = Newline THEN Append(lines, <<>>)
    ELSE Append(Front(lines), Append(Last(lines), chunk))

\* An iteration of the load leaves a state of the load.
LEMMA LoadLineTyped ==
    ASSUME NEW state \in LoadStates, NEW line \in Seq(LineChunks)
    PROVE  LoadLine(state, line) \in LoadStates
<1>1. CASE state.poison \/ line = <<>> BY <1>1 DEF LoadLine
<1>2. CASE ~state.poison /\ line # <<>> /\ (Len(line) > 1 \/ line[1] = Torn)
  BY <1>2 DEF LoadLine, LoadStates
<1>3. CASE ~state.poison /\ line # <<>> /\ ~(Len(line) > 1 \/ line[1] = Torn)
  <2>1. line[1] \in Receipts BY <1>3 DEF LineChunks
  <2>2. line[1].unit \in MeteredUnits BY <2>1 DEF Receipts
  <2> DEFINE row == line[1]
  <2>3. [state EXCEPT !.poison = TRUE] \in LoadStates BY DEF LoadStates
  <2>4. [state EXCEPT !.usage[row.unit] = row] \in LoadStates BY <2>1, <2>2 DEF LoadStates
  <2> HIDE DEF row
  <2> QED BY <1>3, <2>3, <2>4 DEF LoadLine, row
<1> QED BY <1>1, <1>2, <1>3

\* There is always a line to add to.
LEMMA AddChunkTyped ==
    ASSUME NEW lines \in ManyLines, NEW chunk \in Chunks
    PROVE  AddChunk(lines, chunk) \in ManyLines
<1>1. lines \in Seq(Seq(LineChunks)) /\ Len(lines) \in Nat \ {0} BY DEF ManyLines
<1>2. Last(lines) \in Seq(LineChunks) /\ Front(lines) \in Seq(Seq(LineChunks))
  BY <1>1 DEF Last, Front
<1>3. <<>> \in Seq(LineChunks) OBVIOUS
<1>4. CASE chunk = Newline
  <2>1. Append(lines, <<>>) \in ManyLines BY <1>1, <1>3 DEF ManyLines
  <2> QED BY <1>4, <2>1 DEF AddChunk
<1>5. CASE chunk # Newline
  <2>1. chunk \in LineChunks BY <1>5 DEF Chunks, LineChunks
  <2>2. Append(Last(lines), chunk) \in Seq(LineChunks) BY <1>2, <2>1
  <2>3. Append(Front(lines), Append(Last(lines), chunk)) \in ManyLines
    BY <1>2, <2>2 DEF ManyLines
  <2> QED BY <1>5, <2>3 DEF AddChunk
<1> QED BY <1>4, <1>5

\* The iterations of both loops as functions.
LoopStep(lines) ==
    [k \in 1 .. Len(lines) |-> [state \in LoadStates |-> LoadLine(state, lines[k])]]

CutStep(chunks) ==
    [k \in 1 .. Len(chunks) |-> [lines \in ManyLines |-> AddChunk(lines, chunks[k])]]

\* The loop over lines is a run of its iterations.
LEMMA LoopRun ==
    ASSUME NEW lines \in Seq(Seq(LineChunks))
    PROVE  \E run : /\ IsRun(run, Len(lines), LoadStates, LoopStart, LoopStep(lines))
                   /\ LoopOf(lines) = run[Len(lines)]
<1> DEFINE N == Len(lines)
           Equation(iter) == iter = [s \in SUBSET DOMAIN lines |->
               IF s = {} THEN LoopStart ELSE LoadLine(iter[s \ {Max(s)}], lines[Max(s)])]
           it == CHOOSE iter : Equation(iter)
<1>1. N \in Nat /\ DOMAIN lines = 1 .. N /\ \A k \in 1 .. N : lines[k] \in Seq(LineChunks)
  OBVIOUS
<1>2. LoopStart \in LoadStates BY DEF LoopStart, LoadStates, NoUsage
<1>3. LoopStep(lines) \in [1 .. N -> [LoadStates -> LoadStates]] BY <1>1, LoadLineTyped DEF LoopStep
<1>4. PICK made : IsFold(made, N, LoadStates, LoopStart, LoopStep(lines))
  BY <1>1, <1>2, <1>3, FoldExists
<1>5. Equation(made)
  <2>1. ASSUME NEW s \in SUBSET (1 .. N)
        PROVE  made[s] = IF s = {} THEN LoopStart ELSE LoadLine(made[s \ {Max(s)}], lines[Max(s)])
    <3>1. CASE s = {} BY <1>4, <3>1 DEF IsFold
    <3>2. CASE s # {}
      <4>1. Max(s) \in 1 .. N BY <1>1, <3>2, LastIsMax
      <4>2. made[s \ {Max(s)}] \in LoadStates BY <1>4 DEF IsFold
      <4> QED BY <1>4, <3>2, <4>1, <4>2 DEF IsFold, LoopStep
    <3> QED BY <3>1, <3>2
  <2> QED BY <1>1, <1>4, <2>1 DEF IsFold
<1>6. Equation(it) BY <1>5
<1>7. LoopOf(lines) = it[DOMAIN lines] BY DEF LoopOf, FoldLeft, MapThenFoldSet
<1>8. /\ it[1 .. 0] = LoopStart
      /\ \A k \in 1 .. N : it[1 .. k] = LoadLine(it[1 .. (k - 1)], lines[k])
  <2> HIDE DEF it
  <2>1. 1 .. 0 = {} OBVIOUS
  <2>2. \A s \in SUBSET (1 .. N) :
          it[s] = IF s = {} THEN LoopStart ELSE LoadLine(it[s \ {Max(s)}], lines[Max(s)])
    BY <1>1, <1>6
  <2>3. ASSUME NEW k \in 1 .. N PROVE it[1 .. k] = LoadLine(it[1 .. (k - 1)], lines[k])
    <3>1. 1 .. k \in SUBSET (1 .. N) /\ k \in Nat \ {0} BY <1>1
    <3>2. Max(1 .. k) = k /\ (1 .. k) \ {k} = 1 .. (k - 1) /\ 1 .. k # {} BY <3>1, MaxOfPrefix
    <3> QED BY <2>2, <3>1, <3>2
  <2> QED BY <2>1, <2>2, <2>3
<1> HIDE DEF it
<1>9. Follows(it, N, LoadStates, LoopStart, LoopStep(lines)) BY <1>8 DEF Follows, LoopStep
<1> QED BY <1>1, <1>4, <1>7, <1>9, FoldRun

\* So is the cut of a file into lines.
LEMMA LinesRun ==
    ASSUME NEW chunks \in Seq(Chunks)
    PROVE  \E run : /\ IsRun(run, Len(chunks), ManyLines, << <<>> >>, CutStep(chunks))
                   /\ Lines(chunks) = run[Len(chunks)]
<1> DEFINE N == Len(chunks)
           Equation(iter) == iter = [s \in SUBSET DOMAIN chunks |->
               IF s = {} THEN << <<>> >> ELSE AddChunk(iter[s \ {Max(s)}], chunks[Max(s)])]
           it == CHOOSE iter : Equation(iter)
<1>1. N \in Nat /\ DOMAIN chunks = 1 .. N /\ \A k \in 1 .. N : chunks[k] \in Chunks
  OBVIOUS
<1>2. << <<>> >> \in ManyLines BY DEF ManyLines
<1>3. CutStep(chunks) \in [1 .. N -> [ManyLines -> ManyLines]] BY <1>1, AddChunkTyped DEF CutStep
<1>4. PICK made : IsFold(made, N, ManyLines, << <<>> >>, CutStep(chunks))
  BY <1>1, <1>2, <1>3, FoldExists
<1>5. Equation(made)
  <2>1. ASSUME NEW s \in SUBSET (1 .. N)
        PROVE  made[s] = IF s = {} THEN << <<>> >> ELSE AddChunk(made[s \ {Max(s)}], chunks[Max(s)])
    <3>1. CASE s = {} BY <1>4, <3>1 DEF IsFold
    <3>2. CASE s # {}
      <4>1. Max(s) \in 1 .. N BY <1>1, <3>2, LastIsMax
      <4>2. made[s \ {Max(s)}] \in ManyLines BY <1>4 DEF IsFold
      <4> QED BY <1>4, <3>2, <4>1, <4>2 DEF IsFold, CutStep
    <3> QED BY <3>1, <3>2
  <2> QED BY <1>1, <1>4, <2>1 DEF IsFold
<1>6. Equation(it) BY <1>5
<1>7. Lines(chunks) = it[DOMAIN chunks] BY DEF Lines, FoldLeft, MapThenFoldSet, AddChunk
<1>8. /\ it[1 .. 0] = << <<>> >>
      /\ \A k \in 1 .. N : it[1 .. k] = AddChunk(it[1 .. (k - 1)], chunks[k])
  <2> HIDE DEF it
  <2>1. 1 .. 0 = {} OBVIOUS
  <2>2. \A s \in SUBSET (1 .. N) :
          it[s] = IF s = {} THEN << <<>> >> ELSE AddChunk(it[s \ {Max(s)}], chunks[Max(s)])
    BY <1>1, <1>6
  <2>3. ASSUME NEW k \in 1 .. N PROVE it[1 .. k] = AddChunk(it[1 .. (k - 1)], chunks[k])
    <3>1. 1 .. k \in SUBSET (1 .. N) /\ k \in Nat \ {0} BY <1>1
    <3>2. Max(1 .. k) = k /\ (1 .. k) \ {k} = 1 .. (k - 1) /\ 1 .. k # {} BY <3>1, MaxOfPrefix
    <3> QED BY <2>2, <3>1, <3>2
  <2> QED BY <2>1, <2>2, <2>3
<1> HIDE DEF it
<1>9. Follows(it, N, ManyLines, << <<>> >>, CutStep(chunks)) BY <1>8 DEF Follows, CutStep
<1> QED BY <1>1, <1>4, <1>7, <1>9, FoldRun

\* The loop takes one line more.
LEMMA LoopGoesOn ==
    ASSUME NEW lines \in Seq(Seq(LineChunks)), NEW line \in Seq(LineChunks)
    PROVE  /\ LoopOf(Append(lines, line)) = LoadLine(LoopOf(lines), line)
           /\ LoopOf(lines) \in LoadStates
<1> DEFINE longer == Append(lines, line)
           N == Len(lines)
<1>1. /\ longer \in Seq(Seq(LineChunks)) /\ Len(longer) = N + 1 /\ longer[N + 1] = line
      /\ N \in Nat /\ \A k \in 1 .. N : longer[k] = lines[k]
  OBVIOUS
<1> HIDE DEF longer
<1>2. PICK run : IsRun(run, N, LoadStates, LoopStart, LoopStep(lines)) /\ LoopOf(lines) = run[N]
  BY LoopRun
<1>3. PICK next : /\ IsRun(next, N + 1, LoadStates, LoopStart, LoopStep(longer))
                  /\ LoopOf(longer) = next[N + 1]
  BY <1>1, LoopRun
<1>4. SameSteps(LoopStep(lines), LoopStep(longer), N)
  <2>1. \A k \in 1 .. N : k \in 1 .. (N + 1) BY <1>1
  <2> QED BY <1>1, <2>1 DEF SameSteps, LoopStep
<1>5. next[N + 1] = LoopStep(longer)[N + 1][run[N]] /\ run[N] \in LoadStates
  BY <1>1, <1>2, <1>3, <1>4, OneMoreStep
<1>6. LoopStep(longer)[N + 1][run[N]] = LoadLine(run[N], line)
  <2>1. N + 1 \in 1 .. (N + 1) BY <1>1
  <2> QED BY <1>1, <1>5, <2>1 DEF LoopStep
<1> QED BY <1>2, <1>3, <1>5, <1>6 DEF longer

\* One more chunk.
LEMMA CutGoesOn ==
    ASSUME NEW chunks \in Seq(Chunks), NEW chunk \in Chunks
    PROVE  /\ Lines(Append(chunks, chunk)) = AddChunk(Lines(chunks), chunk)
           /\ Lines(chunks) \in ManyLines
<1> DEFINE longer == Append(chunks, chunk)
           N == Len(chunks)
<1>1. /\ longer \in Seq(Chunks) /\ Len(longer) = N + 1 /\ longer[N + 1] = chunk
      /\ N \in Nat /\ \A k \in 1 .. N : longer[k] = chunks[k]
  OBVIOUS
<1> HIDE DEF longer
<1>2. PICK run : IsRun(run, N, ManyLines, << <<>> >>, CutStep(chunks)) /\ Lines(chunks) = run[N]
  BY LinesRun
<1>3. PICK next : /\ IsRun(next, N + 1, ManyLines, << <<>> >>, CutStep(longer))
                  /\ Lines(longer) = next[N + 1]
  BY <1>1, LinesRun
<1>4. SameSteps(CutStep(chunks), CutStep(longer), N)
  <2>1. \A k \in 1 .. N : k \in 1 .. (N + 1) BY <1>1
  <2> QED BY <1>1, <2>1 DEF SameSteps, CutStep
<1>5. next[N + 1] = CutStep(longer)[N + 1][run[N]] /\ run[N] \in ManyLines
  BY <1>1, <1>2, <1>3, <1>4, OneMoreStep
<1>6. CutStep(longer)[N + 1][run[N]] = AddChunk(run[N], chunk)
  <2>1. N + 1 \in 1 .. (N + 1) BY <1>1
  <2> QED BY <1>1, <1>5, <2>1 DEF CutStep
<1> QED BY <1>2, <1>3, <1>5, <1>6 DEF longer

\* Nothing read yet.
LEMMA LoopBegins == LoopOf(<<>>) = LoopStart /\ Lines(<<>>) = << <<>> >>
<1>1. <<>> \in Seq(Seq(LineChunks)) /\ <<>> \in Seq(Chunks) /\ Len(<<>>) = 0 OBVIOUS
<1>2. LoopOf(<<>>) = LoopStart BY <1>1, LoopRun DEF IsRun
<1>3. Lines(<<>>) = << <<>> >> BY <1>1, LinesRun DEF IsRun
<1> QED BY <1>2, <1>3

\* What a start finds of a file.
ReadTo(chunks) == [usage |-> Loaded(chunks), poison |-> ~Loads(chunks)]

\* Files with the same receipts at the same places.
LEMMA SameReceipts ==
    ASSUME NEW one \in Seq(Chunks), NEW other \in Seq(Chunks),
           Accepted(one) = Accepted(other), \A n \in Accepted(one) : one[n] = other[n]
    PROVE  Loaded(one) = Loaded(other)
<1>1. ASSUME NEW unit \in MeteredUnits PROVE Loaded(one)[unit] = Loaded(other)[unit]
  <2>1. MineOf(one, unit) = MineOf(other, unit) BY DEF MineOf
  <2>2. CASE MineOf(one, unit) = {} BY <2>1, <2>2, LatestReceipt
  <2>3. CASE MineOf(one, unit) # {}
    <3>1. PICK n \in MineOf(one, unit) :
            Loaded(one)[unit] = one[n] /\ \A m \in MineOf(one, unit) : m <= n
      BY <2>3, LatestReceipt
    <3>2. PICK m \in MineOf(one, unit) :
            Loaded(other)[unit] = other[m] /\ \A k \in MineOf(one, unit) : k <= m
      BY <2>1, <2>3, LatestReceipt
    <3>3. n = m /\ n \in Accepted(one)
      <4>1. n \in 1 .. Len(one) /\ m \in 1 .. Len(one) /\ Len(one) \in Nat
        BY <3>1, <3>2, LatestReceipt
      <4> QED BY <3>1, <3>2, <4>1 DEF MineOf
    <3> QED BY <3>1, <3>2, <3>3
  <2> QED BY <2>2, <2>3
<1> QED BY <1>1 DEF Loaded

\* A line feed at the end says nothing new.
LEMMA NewlineIsIgnored ==
    ASSUME NEW chunks \in Seq(Chunks)
    PROVE  /\ Append(chunks, Newline) \in Seq(Chunks)
           /\ ReadTo(Append(chunks, Newline)) = ReadTo(chunks)
<1> DEFINE longer == Append(chunks, Newline)
           N == Len(chunks)
<1>1. /\ longer \in Seq(Chunks) /\ Len(longer) = N + 1 /\ longer[N + 1] = Newline /\ N \in Nat
      /\ DOMAIN longer = 1 .. (N + 1) /\ DOMAIN chunks = 1 .. N
      /\ \A n \in 1 .. N : longer[n] = chunks[n]
  BY ChunkKinds
<1> HIDE DEF longer
<1>2. ASSUME NEW n \in 1 .. N
      PROVE  (Rejected(longer, n) <=> Rejected(chunks, n)) /\ (RowAt(longer, n) <=> RowAt(chunks, n))
  <2>1. /\ longer[n] = chunks[n] /\ n \in Nat /\ (n > 1 => longer[n - 1] = chunks[n - 1])
        /\ \A m \in 1 .. (n - 1) : longer[m] = chunks[m]
        /\ n < Len(chunks) => longer[n + 1] = chunks[n + 1]
        /\ ~(n < Len(chunks)) => longer[n + 1] = Newline
        /\ n < Len(longer)
    BY <1>1
  <2>2. WholeLine(longer, n) <=> WholeLine(chunks, n) BY <2>1 DEF WholeLine
  <2> QED BY <2>1, <2>2 DEF Rejected, RowAt
<1>3. ~Rejected(longer, N + 1) /\ ~RowAt(longer, N + 1) BY <1>1, ChunkKinds DEF Rejected, RowAt
<1>4. Loads(longer) <=> Loads(chunks) BY <1>1, <1>2, <1>3 DEF Loads
<1>5. Accepted(longer) = Accepted(chunks)
  <2>1. DOMAIN longer = DOMAIN chunks \cup {N + 1} BY <1>1
  <2> QED BY <1>1, <1>2, <1>3, <2>1 DEF Accepted
<1>6. Loaded(longer) = Loaded(chunks)
  <2>1. \A n \in Accepted(longer) : longer[n] = chunks[n] BY <1>1, <1>5 DEF Accepted
  <2> QED BY <1>1, <1>5, <2>1, SameReceipts
<1> QED BY <1>1, <1>4, <1>6 DEF longer, ReadTo

\* A file up to the line feed at e, and the line that follows it.
LineAfter(chunks, e) ==
    /\ e \in 0 .. Len(chunks)
    /\ e = 0 \/ chunks[e] = Newline
    /\ \A n \in (e + 1) .. Len(chunks) : chunks[n] # Newline

\* The chunks before the last line mean the same without it.
LEMMA HeadOfLine ==
    ASSUME NEW chunks \in Seq(Chunks), NEW e, LineAfter(chunks, e)
    PROVE  LET head == SubSeq(chunks, 1, e)
           IN  /\ head \in Seq(Chunks) /\ Len(head) = e /\ DOMAIN head = 1 .. e
               /\ Starts(head, chunks) /\ e \in Nat /\ Len(chunks) \in Nat /\ e <= Len(chunks)
               /\ DOMAIN chunks = 1 .. Len(chunks)
               /\ \A n \in 1 .. e : /\ head[n] = chunks[n]
                                    /\ Rejected(head, n) <=> Rejected(chunks, n)
                                    /\ RowAt(head, n) <=> RowAt(chunks, n)
<1> DEFINE head == SubSeq(chunks, 1, e)
<1>1. /\ head \in Seq(Chunks) /\ Len(head) = e /\ DOMAIN head = 1 .. e
      /\ e \in Nat /\ Len(chunks) \in Nat /\ e <= Len(chunks) /\ DOMAIN chunks = 1 .. Len(chunks)
      /\ \A n \in 1 .. e : head[n] = chunks[n]
  BY DEF LineAfter
<1> HIDE DEF head
<1>2. Starts(head, chunks) BY <1>1 DEF Starts
<1>3. ASSUME NEW n \in 1 .. e PROVE Rejected(head, n) <=> Rejected(chunks, n)
  <2>1. CASE n = e
    <3>1. chunks[n] = Newline /\ head[n] = Newline BY <1>1, <2>1 DEF LineAfter
    <3> QED BY <3>1 DEF Rejected
  <2>2. CASE n # e BY <1>1, <1>2, <2>2, RejectedLocally
  <2> QED BY <2>1, <2>2
<1> QED BY <1>1, <1>2, <1>3 DEF head, RowAt

\* What is rejected on the line or before it ends the load there.
LEMMA BrokenLine ==
    ASSUME NEW chunks \in Seq(Chunks), NEW e, LineAfter(chunks, e),
           NEW r \in 1 .. (e + 1), r \in DOMAIN chunks, Rejected(chunks, r)
    PROVE  ~Loads(chunks) /\ Loaded(chunks) = Loaded(SubSeq(chunks, 1, e))
<1> DEFINE head == SubSeq(chunks, 1, e)
<1>1. /\ head \in Seq(Chunks) /\ Len(head) = e /\ DOMAIN head = 1 .. e
      /\ e \in Nat /\ Len(chunks) \in Nat /\ e <= Len(chunks) /\ DOMAIN chunks = 1 .. Len(chunks)
      /\ \A n \in 1 .. e : /\ head[n] = chunks[n]
                           /\ Rejected(head, n) <=> Rejected(chunks, n)
                           /\ RowAt(head, n) <=> RowAt(chunks, n)
  BY HeadOfLine
<1> HIDE DEF head
<1>2. ASSUME NEW n \in Accepted(chunks) PROVE n \in Accepted(head)
  <2>1. n < r /\ n \in 1 .. Len(chunks) BY <1>1 DEF Accepted
  <2>2. n \in 1 .. e BY <1>1, <2>1
  <2> QED BY <1>1, <2>2 DEF Accepted
<1>3. ASSUME NEW n \in Accepted(head) PROVE n \in Accepted(chunks)
  <2>1. n \in 1 .. e /\ RowAt(chunks, n) BY <1>1 DEF Accepted
  <2>2. ASSUME NEW m \in DOMAIN chunks, Rejected(chunks, m) PROVE n < m
    <3>1. CASE m <= e BY <1>1, <2>2, <3>1 DEF Accepted
    <3>2. CASE e < m BY <1>1, <2>1, <2>2, <3>2
    <3> QED BY <1>1, <2>2, <3>1, <3>2
  <2> QED BY <1>1, <2>1, <2>2 DEF Accepted
<1>4. Loaded(chunks) = Loaded(head)
  <2>1. Accepted(head) = Accepted(chunks) BY <1>2, <1>3
  <2>2. \A n \in Accepted(head) : head[n] = chunks[n] BY <1>1 DEF Accepted
  <2> QED BY <1>1, <2>1, <2>2, SameReceipts
<1> QED BY <1>4 DEF Loads, head

\* A receipt alone on the last line, which the receipts before do not contradict.
LEMMA LastRow ==
    ASSUME NEW chunks \in Seq(Chunks), NEW e, LineAfter(chunks, e), Len(chunks) = e + 1,
           NEW row \in Receipts, chunks[e + 1] = row, Loads(SubSeq(chunks, 1, e)),
           LET existing == Loaded(SubSeq(chunks, 1, e))[row.unit]
           IN  existing # NoReceipt => ~Contradicts(existing, row)
    PROVE  /\ Loads(chunks)
           /\ Loaded(chunks) = [Loaded(SubSeq(chunks, 1, e)) EXCEPT ![row.unit] = row]
<1> DEFINE head == SubSeq(chunks, 1, e)
<1>1. /\ head \in Seq(Chunks) /\ Len(head) = e /\ DOMAIN head = 1 .. e /\ e \in Nat
      /\ \A n \in 1 .. e : head[n] = chunks[n]
  BY HeadOfLine
<1>2. Loads(head) /\ (Loaded(head)[row.unit] # NoReceipt => ~Contradicts(Loaded(head)[row.unit], row))
  OBVIOUS
<1> HIDE DEF head
<1>3. Terminated(head)
  <2>1. ASSUME NEW n \in DOMAIN head, RowAt(head, n)
        PROVE  n + 1 \in DOMAIN head /\ head[n + 1] = Newline
    <3>1. head[n] # Newline BY <2>1, ChunkKinds DEF RowAt
    <3>2. n # e BY <1>1, <2>1, <3>1 DEF LineAfter
    <3>3. WholeLine(head, n) BY <1>2, <3>1 DEF Loads, Rejected
    <3> QED BY <1>1, <2>1, <3>2, <3>3 DEF WholeLine
  <2> QED BY <2>1 DEF Terminated
<1>4. head \o <<row, Newline>> = Append(chunks, Newline)
  <2> DEFINE one == head \o <<row, Newline>>
             other == Append(chunks, Newline)
  <2>1. row \in Chunks /\ Newline \in Chunks BY DEF Chunks
  <2>2. /\ one \in Seq(Chunks) /\ Len(one) = e + 2 /\ one[e + 1] = row /\ one[e + 2] = Newline
        /\ \A n \in 1 .. e : one[n] = head[n]
    BY <1>1, <2>1
  <2>3. /\ other \in Seq(Chunks) /\ Len(other) = e + 2 /\ other[e + 2] = Newline
        /\ \A n \in 1 .. e + 1 : other[n] = chunks[n]
    BY <1>1, <2>1
  <2> HIDE DEF one, other
  <2>4. ASSUME NEW n \in 1 .. Len(one) PROVE one[n] = other[n]
    <3>1. n \in 1 .. e \/ n = e + 1 \/ n = e + 2 BY <1>1, <2>2, <2>4
    <3>2. \A k \in 1 .. e : k \in 1 .. e + 1 BY <1>1
    <3>3. e + 1 \in 1 .. e + 1 BY <1>1
    <3> QED BY <1>1, <2>2, <2>3, <3>1, <3>2, <3>3
  <2>5. one = other BY <2>2, <2>3, <2>4
  <2> QED BY <2>5 DEF one, other
<1>5. /\ Loads(head \o <<row, Newline>>)
      /\ Loaded(head \o <<row, Newline>>) = [Loaded(head) EXCEPT ![row.unit] = row]
  BY <1>1, <1>2, <1>3, RowExtends
<1>6. ReadTo(chunks) = ReadTo(Append(chunks, Newline)) BY NewlineIsIgnored
<1>7. Loaded(chunks) = [Loaded(head) EXCEPT ![row.unit] = row] BY <1>4, <1>5, <1>6 DEF ReadTo
<1>8. (~Loads(chunks)) = (~Loads(Append(chunks, Newline))) BY <1>6 DEF ReadTo
<1> QED BY <1>4, <1>5, <1>7, <1>8 DEF head

\* It loads or poisons the ledger, and shows in both cases what is readable.
LEMMA ReadKinds ==
    ASSUME NEW chunks
    PROVE  /\ Loads(chunks) => ReadTo(chunks) = [usage |-> Loaded(chunks), poison |-> FALSE]
           /\ ~Loads(chunks) => ReadTo(chunks) = [usage |-> Loaded(chunks), poison |-> TRUE]
<1>1. CASE Loads(chunks)
  <2>1. (~Loads(chunks)) = FALSE BY <1>1
  <2> QED BY <1>1, <2>1 DEF ReadTo
<1>2. CASE ~Loads(chunks)
  <2>1. (~Loads(chunks)) = TRUE BY <1>2
  <2> QED BY <1>2, <2>1 DEF ReadTo
<1> QED BY <1>1, <1>2

\* The two assignments of the loop.
LEMMA StateChanges ==
    ASSUME NEW state, NEW receipts, NEW flag, state = [usage |-> receipts, poison |-> flag],
           NEW other, NEW unit, NEW row
    PROVE  /\ [state EXCEPT !.poison = other] = [usage |-> receipts, poison |-> other]
           /\ [state EXCEPT !.usage[unit] = row] = [usage |-> [receipts EXCEPT ![unit] = row], poison |-> flag]
OBVIOUS

\* The rest of a file is the chunks from there on.
LEMMA RestOfFile ==
    ASSUME NEW chunks \in Seq(Chunks), NEW e \in 0 .. Len(chunks)
    PROVE  LET line == SubSeq(chunks, e + 1, Len(chunks))
           IN  /\ line \in Seq(Chunks) /\ Len(line) = Len(chunks) - e
               /\ \A n \in 1 .. Len(line) : line[n] = chunks[e + n]
               /\ e = Len(chunks) => line = <<>>
OBVIOUS

\* It grows by the chunk that is added.
LEMMA RestGrows ==
    ASSUME NEW chunks \in Seq(Chunks), NEW e \in 0 .. Len(chunks), NEW chunk \in Chunks
    PROVE  SubSeq(Append(chunks, chunk), e + 1, Len(chunks) + 1)
             = Append(SubSeq(chunks, e + 1, Len(chunks)), chunk)
<1> DEFINE longer == Append(chunks, chunk)
           one == SubSeq(longer, e + 1, Len(longer))
           line == SubSeq(chunks, e + 1, Len(chunks))
           other == Append(line, chunk)
<1>1. /\ longer \in Seq(Chunks) /\ Len(longer) = Len(chunks) + 1 /\ Len(chunks) \in Nat
      /\ longer[Len(chunks) + 1] = chunk /\ e \in 0 .. Len(longer)
      /\ \A n \in 1 .. Len(chunks) : longer[n] = chunks[n]
  OBVIOUS
<1> HIDE DEF longer
<1>2. /\ one \in Seq(Chunks) /\ Len(one) = Len(longer) - e
      /\ \A n \in 1 .. Len(one) : one[n] = longer[e + n]
  BY <1>1, RestOfFile
<1>3. /\ line \in Seq(Chunks) /\ Len(line) = Len(chunks) - e
      /\ \A n \in 1 .. Len(line) : line[n] = chunks[e + n]
  BY RestOfFile
<1> HIDE DEF one, line
<1>4. /\ other \in Seq(Chunks) /\ Len(other) = Len(line) + 1
      /\ \A n \in 1 .. Len(line) : other[n] = line[n]
      /\ other[Len(line) + 1] = chunk
  BY <1>3
<1> HIDE DEF other
<1>5. Len(one) = Len(other) /\ Len(one) \in Nat BY <1>1, <1>2, <1>3, <1>4
<1>6. ASSUME NEW n \in 1 .. Len(one) PROVE one[n] = other[n]
  <2>1. CASE n \in 1 .. Len(line)
    <3>1. e + n \in 1 .. Len(chunks) BY <1>1, <1>3, <2>1
    <3>2. one[n] = longer[e + n] /\ line[n] = chunks[e + n] /\ other[n] = line[n]
      BY <1>2, <1>3, <1>4, <1>6, <2>1
    <3> QED BY <1>1, <3>1, <3>2
  <2>2. CASE n = Len(line) + 1
    <3>1. e + n = Len(chunks) + 1 BY <1>1, <1>3, <2>2
    <3> QED BY <1>1, <1>2, <1>4, <1>6, <2>2, <3>1
  <2> QED BY <1>1, <1>2, <1>3, <1>6, <2>1, <2>2
<1>7. one = other BY <1>2, <1>4, <1>5, <1>6
<1> QED BY <1>1, <1>7 DEF one, other, line, longer

\* One iteration of the loop reads one line more of the file.
LEMMA IterationReads ==
    ASSUME NEW chunks \in Seq(Chunks), NEW e, LineAfter(chunks, e)
    PROVE  LoadLine(ReadTo(SubSeq(chunks, 1, e)), SubSeq(chunks, e + 1, Len(chunks))) = ReadTo(chunks)
<1> DEFINE head == SubSeq(chunks, 1, e)
           line == SubSeq(chunks, e + 1, Len(chunks))
           state == ReadTo(head)
<1>1. /\ head \in Seq(Chunks) /\ Len(head) = e /\ DOMAIN head = 1 .. e /\ e \in Nat
      /\ Len(chunks) \in Nat /\ e <= Len(chunks) /\ DOMAIN chunks = 1 .. Len(chunks)
      /\ \A n \in 1 .. e : /\ head[n] = chunks[n]
                           /\ Rejected(head, n) <=> Rejected(chunks, n)
                           /\ RowAt(head, n) <=> RowAt(chunks, n)
  BY HeadOfLine
<1>2. /\ line \in Seq(Chunks) /\ Len(line) = Len(chunks) - e
      /\ \A n \in 1 .. Len(line) : line[n] = chunks[e + n]
      /\ e = Len(chunks) => line = <<>>
  BY RestOfFile DEF LineAfter
<1>3. Loaded(head) \in [MeteredUnits -> Receipts \cup {NoReceipt}] BY <1>1, LoadedTyped
<1>a. e = Len(chunks) => head = chunks BY <1>1
<1> SUFFICES LoadLine(state, line) = ReadTo(chunks)
  OBVIOUS
<1>b. state = ReadTo(head) OBVIOUS
<1> HIDE DEF head, line, state
<1>0. e \in Nat /\ Len(chunks) \in Nat /\ e <= Len(chunks) /\ Len(line) = Len(chunks) - e
  BY <1>1, <1>2
<1>4. CASE e = Len(chunks)
  <2>2. LoadLine(state, line) = state BY <1>2, <1>4 DEF LoadLine
  <2> QED BY <1>4, <1>a, <1>b, <2>2
<1>5. CASE ~Loads(head)
  <2>1. PICK r \in 1 .. e : Rejected(chunks, r) BY <1>1, <1>5 DEF Loads
  <2>2. r \in 1 .. (e + 1) /\ r \in DOMAIN chunks BY <1>1
  <2>3. ~Loads(chunks) /\ Loaded(chunks) = Loaded(head) BY <2>1, <2>2, BrokenLine DEF head
  <2>4. state = [usage |-> Loaded(head), poison |-> TRUE] BY <1>5, <1>b, ReadKinds
  <2>5. LoadLine(state, line) = state BY <2>4 DEF LoadLine
  <2> QED BY <2>3, <2>4, <2>5, ReadKinds
<1>6. CASE e < Len(chunks) /\ Loads(head)
  <2> DEFINE row == line[1]
             existing == Loaded(head)[row.unit]
  <2>0. state = [usage |-> Loaded(head), poison |-> FALSE] BY <1>6, <1>b, ReadKinds
  <2>1. e + 1 \in 1 .. (e + 1) /\ e + 1 \in DOMAIN chunks /\ chunks[e + 1] # Newline
        /\ line # <<>> /\ row = chunks[e + 1]
    <3>1. e + 1 \in (e + 1) .. Len(chunks) /\ 1 \in 1 .. Len(line) BY <1>0, <1>6
    <3>2. chunks[e + 1] # Newline BY <3>1 DEF LineAfter
    <3>3. row = chunks[e + 1] BY <1>2, <3>1
    <3>4. line # <<>> BY <1>0, <1>6
    <3> QED BY <1>1, <1>6, <3>2, <3>3, <3>4
  <2>2. ASSUME Rejected(chunks, e + 1), LoadLine(state, line) = [state EXCEPT !.poison = TRUE]
        PROVE  LoadLine(state, line) = ReadTo(chunks)
    <3>1. ~Loads(chunks) /\ Loaded(chunks) = Loaded(head) BY <2>1, <2>2, BrokenLine DEF head
    <3>2. [state EXCEPT !.poison = TRUE] = [usage |-> Loaded(head), poison |-> TRUE]
      <4> DEFINE yes == TRUE
                 no == FALSE
      <4>1. state = [usage |-> Loaded(head), poison |-> no] BY <2>0
      <4> HIDE DEF yes, no
      <4>2. [state EXCEPT !.poison = yes] = [usage |-> Loaded(head), poison |-> yes]
        BY <4>1, StateChanges
      <4> QED BY <4>2 DEF yes
    <3> QED BY <2>2, <3>1, <3>2, ReadKinds
  <2>3. CASE Len(line) > 1 \/ row = Torn
    <3>1. Rejected(chunks, e + 1)
      <4>1. CASE row = Torn BY <2>1, <4>1, ChunkKinds DEF Rejected, RowAt
      <4>2. CASE Len(line) > 1
        <5>1. e + 1 < Len(chunks) /\ (e + 1) + 1 \in (e + 1) .. Len(chunks) 
          <6>1. Len(chunks) - e > 1 BY <1>2, <4>2
          <6> QED BY <1>1, <6>1
        <5>2. ~WholeLine(chunks, e + 1) BY <5>1 DEF WholeLine, LineAfter
        <5> QED BY <2>1, <5>2 DEF Rejected
      <4> QED BY <2>3, <4>1, <4>2
    <3>2. LoadLine(state, line) = [state EXCEPT !.poison = TRUE]
      BY <2>0, <2>1, <2>3 DEF LoadLine
    <3> QED BY <2>2, <3>1, <3>2
  <2>4. CASE ~(Len(line) > 1 \/ row = Torn)
    <3>1. Len(chunks) = e + 1
      <4>1. ~(Len(chunks) - e > 1) BY <1>2, <2>4
      <4> QED BY <1>0, <1>6, <4>1
    <3>2. row \in Receipts /\ row.unit \in MeteredUnits /\ existing \in Receipts \cup {NoReceipt}
      <4>1. row \in Receipts BY <2>1, <2>4 DEF Chunks
      <4>2. row.unit \in MeteredUnits BY <4>1 DEF Receipts
      <4> QED BY <1>3, <4>1, <4>2
    <3>3. LoadLine(state, line) =
            IF existing # NoReceipt /\ Contradicts(existing, row)
            THEN [state EXCEPT !.poison = TRUE]
            ELSE IF existing = row THEN state
            ELSE [state EXCEPT !.usage[row.unit] = row]
      BY <2>0, <2>1, <2>4 DEF LoadLine
    <3>4. CASE existing # NoReceipt /\ Contradicts(existing, row)
      <4>1. MineOf(head, row.unit) # {} BY <1>1, <3>2, <3>4, LatestReceipt
      <4>2. PICK n \in MineOf(head, row.unit) : existing = head[n]
        BY <1>1, <3>2, <4>1, LatestReceipt
      <4>3. n \in 1 .. e /\ head[n].unit = row.unit /\ RowAt(head, n)
        BY <1>1, <3>2, LatestReceipt DEF MineOf, Accepted
      <4>4. n \in 1 .. ((e + 1) - 1) /\ RowAt(chunks, n) /\ chunks[n] = existing
            /\ chunks[n].unit = chunks[e + 1].unit
        BY <1>1, <2>1, <4>2, <4>3
      <4>5. Rejected(chunks, e + 1) BY <2>1, <3>4, <4>4 DEF Rejected
      <4> QED BY <2>2, <3>3, <3>4, <4>5
    <3>5. CASE ~(existing # NoReceipt /\ Contradicts(existing, row))
      <4>1. Loads(chunks) /\ Loaded(chunks) = [Loaded(head) EXCEPT ![row.unit] = row]
        <5>1. chunks[e + 1] = row BY <2>1
        <5> HIDE DEF row
        <5> QED BY <1>6, <3>1, <3>2, <3>5, <5>1, LastRow DEF head
      <4>2. CASE existing = row
        <5>1. [Loaded(head) EXCEPT ![row.unit] = row] = Loaded(head) BY <1>3, <3>2, <4>2
        <5>2. LoadLine(state, line) = state BY <3>3, <3>5, <4>2
        <5> QED BY <2>0, <4>1, <5>1, <5>2, ReadKinds
      <4>3. CASE existing # row
        <5>1. [state EXCEPT !.usage[row.unit] = row] =
              [usage |-> [Loaded(head) EXCEPT ![row.unit] = row], poison |-> FALSE]
          <6> DEFINE no == FALSE
          <6>1. state = [usage |-> Loaded(head), poison |-> no] BY <2>0
          <6> HIDE DEF no
          <6>2. [state EXCEPT !.usage[row.unit] = row] =
                [usage |-> [Loaded(head) EXCEPT ![row.unit] = row], poison |-> no]
            BY <6>1, StateChanges
          <6> QED BY <6>2 DEF no
        <5>2. LoadLine(state, line) = [state EXCEPT !.usage[row.unit] = row]
          BY <3>3, <3>5, <4>3
        <5> QED BY <4>1, <5>1, <5>2, ReadKinds
      <4> QED BY <4>2, <4>3
    <3> QED BY <3>4, <3>5
  <2> QED BY <2>3, <2>4
<1>7. e = Len(chunks) \/ e < Len(chunks) BY <1>0
<1> QED BY <1>7, <1>4, <1>5, <1>6

\* The last line of a file is what follows its last line feed, and the loop has
\* read what is before.
LastLine(chunks, e) ==
    /\ LineAfter(chunks, e)
    /\ Lines(chunks) \in ManyLines
    /\ Last(Lines(chunks)) = SubSeq(chunks, e + 1, Len(chunks))
    /\ LoopOf(Front(Lines(chunks))) = ReadTo(SubSeq(chunks, 1, e))

\* With the last line the loop has read the file.
LEMMA LoopReads ==
    ASSUME NEW chunks \in Seq(Chunks), NEW e, LastLine(chunks, e)
    PROVE  LoopOf(Lines(chunks)) = ReadTo(chunks)
<1> DEFINE lines == Lines(chunks)
<1>1. lines \in Seq(Seq(LineChunks)) /\ lines # <<>> BY DEF LastLine, ManyLines
<1> HIDE DEF lines
<1>2. /\ Front(lines) \in Seq(Seq(LineChunks)) /\ Last(lines) \in Seq(LineChunks)
      /\ Append(Front(lines), Last(lines)) = lines
  BY <1>1 DEF Front, Last
<1>3. LoopOf(lines) = LoadLine(LoopOf(Front(lines)), Last(lines)) BY <1>2, LoopGoesOn
<1> QED BY <1>3, IterationReads DEF LastLine, lines

\* Chunk by chunk.
LEMMA LastLineGoesOn ==
    ASSUME NEW chunks \in Seq(Chunks), NEW e, LastLine(chunks, e), NEW chunk \in Chunks
    PROVE  \E k : LastLine(Append(chunks, chunk), k)
<1> DEFINE longer == Append(chunks, chunk)
           lines == Lines(chunks)
           N == Len(chunks)
<1>1. /\ longer \in Seq(Chunks) /\ Len(longer) = N + 1 /\ longer[N + 1] = chunk /\ N \in Nat
      /\ \A n \in 1 .. N : longer[n] = chunks[n]
      /\ SubSeq(longer, 1, N) = chunks /\ SubSeq(longer, N + 2, N + 1) = <<>>
  OBVIOUS
<1>2. e \in 0 .. N /\ (e = 0 \/ chunks[e] = Newline) /\ \A n \in (e + 1) .. N : chunks[n] # Newline
  BY DEF LastLine, LineAfter
<1>3. SubSeq(longer, 1, e) = SubSeq(chunks, 1, e) BY <1>2
<1>4. SubSeq(longer, e + 1, N + 1) = Append(SubSeq(chunks, e + 1, N), chunk)
  BY <1>2, RestGrows
<1>5. lines \in Seq(Seq(LineChunks)) /\ lines # <<>> BY DEF LastLine, ManyLines
<1>6. Lines(longer) = AddChunk(lines, chunk) /\ Lines(longer) \in ManyLines
  BY CutGoesOn, AddChunkTyped DEF LastLine
<1> HIDE DEF longer, lines
<1>7. CASE chunk = Newline
  <2>1. Lines(longer) = Append(lines, <<>>) BY <1>6, <1>7 DEF AddChunk
  <2>2. Last(Lines(longer)) = <<>> /\ Front(Lines(longer)) = lines
    BY <1>5, <2>1 DEF Last, Front
  <2>3. LoopOf(lines) = ReadTo(chunks) BY LoopReads DEF lines
  <2>4. LineAfter(longer, N + 1) BY <1>1, <1>7 DEF LineAfter
  <2>5. SubSeq(longer, 1, N + 1) = longer BY <1>1
  <2>6. ReadTo(longer) = ReadTo(chunks) BY <1>7, NewlineIsIgnored DEF longer
  <2>7. SubSeq(longer, (N + 1) + 1, Len(longer)) = <<>> BY <1>1
  <2> QED BY <1>1, <1>6, <2>2, <2>3, <2>4, <2>5, <2>6, <2>7 DEF LastLine, longer
<1>8. CASE chunk # Newline
  <2>1. Lines(longer) = Append(Front(lines), Append(Last(lines), chunk)) BY <1>6, <1>8 DEF AddChunk
  <2>2. Front(lines) \in Seq(Seq(LineChunks)) BY <1>5 DEF Front
  <2>3. Last(Lines(longer)) = Append(Last(lines), chunk) /\ Front(Lines(longer)) = Front(lines)
    BY <2>1, <2>2 DEF Last, Front
  <2>4. LineAfter(longer, e)
    <3>1. \A n \in (e + 1) .. Len(longer) : longer[n] # Newline BY <1>1, <1>2, <1>8
    <3>2. e = 0 \/ longer[e] = Newline BY <1>1, <1>2
    <3> QED BY <1>1, <1>2, <3>1, <3>2 DEF LineAfter
  <2> QED BY <1>1, <1>3, <1>4, <1>6, <2>3, <2>4 DEF LastLine, longer, lines
<1> QED BY <1>7, <1>8

\* Every file.
LEMMA EveryFileEnds ==
    ASSUME NEW chunks \in Seq(Chunks)
    PROVE  \E e : LastLine(chunks, e)
<1> DEFINE T == {n \in Nat : \E c \in Seq(Chunks) : Len(c) = n /\ ~ \E e : LastLine(c, e)}
<1>1. SUFFICES ASSUME T # {} PROVE FALSE
  <2>1. Len(chunks) \in Nat OBVIOUS
  <2> QED BY <2>1
<1>2. PICK n \in T : \A k \in T : n <= k BY <1>1, LeastNumber
<1>3. PICK c \in Seq(Chunks) : Len(c) = n /\ ~ \E e : LastLine(c, e) BY <1>2
<1>4. n # 0
  <2>1. SUFFICES ASSUME n = 0 PROVE FALSE OBVIOUS
  <2>2. c = <<>> BY <1>3, <2>1
  <2>3. Lines(<<>>) \in ManyLines /\ Last(Lines(<<>>)) = <<>> /\ Front(Lines(<<>>)) = <<>>
    <3>1. <<>> \in Seq(LineChunks) OBVIOUS
    <3>2. /\ << <<>> >> \in Seq(Seq(LineChunks)) /\ << <<>> >> # <<>>
          /\ Len(<< <<>> >>) = 1 /\ << <<>> >>[1] = <<>>
      BY <3>1
    <3>3. SubSeq(<< <<>> >>, 1, 1 - 1) = <<>> OBVIOUS
    <3> QED BY <3>2, <3>3, LoopBegins DEF ManyLines, Last, Front
  <2>4. SubSeq(<<>>, 1, 0) = <<>> /\ SubSeq(<<>>, 0 + 1, Len(<<>>)) = <<>> /\ Len(<<>>) = 0 OBVIOUS
  <2>5. LineAfter(<<>>, 0) BY DEF LineAfter
  <2>6. ReadTo(<<>>) = LoopStart
    <3>1. Accepted(<<>>) = {} /\ Loads(<<>>) BY DEF Accepted, Loads
    <3>2. Loaded(<<>>) = NoUsage BY <3>1 DEF Loaded, Folded, NoUsage
    <3> QED BY <3>1, <3>2 DEF ReadTo, LoopStart
  <2>7. LastLine(<<>>, 0) BY <2>3, <2>4, <2>5, <2>6, LoopBegins DEF LastLine
  <2> QED BY <1>3, <2>2, <2>7
<1> DEFINE before == SubSeq(c, 1, n - 1)
<1>5. /\ before \in Seq(Chunks) /\ Len(before) = n - 1 /\ c[n] \in Chunks
      /\ c = Append(before, c[n])
  BY <1>2, <1>3, <1>4
<1>6. n - 1 \in Nat /\ n - 1 \notin T BY <1>2, <1>4
<1> HIDE DEF before
<1>7. PICK e : LastLine(before, e) BY <1>5, <1>6
<1> QED BY <1>3, <1>5, <1>7, LastLineGoesOn

\* The load of the model is the loop of the code, on every file there is
\* (agent_usage.go loadUsage).
THEOREM LoadFollowsTheLoop == LedgerSpec => []LoadIsTheLoop
<1>1. LedgerTypeOK => LoadIsTheLoop
  <2> SUFFICES ASSUME LedgerTypeOK, NEW chunks \in Survivors
               PROVE  LoopOf(Lines(chunks)) = ReadTo(chunks)
    BY DEF LoadIsTheLoop, LoopOf, LoopStart, ReadTo
  <2>1. chunks \in Seq(Chunks) BY SurvivorsAreTyped DEF LedgerTypeOK
  <2> QED BY <2>1, EveryFileEnds, LoopReads
<1> QED BY <1>1, LedgerTypeCorrect, PTL

-----------------------------------------------------------------------------
(* The usage ledger: steps.                                                *)

\* What a power loss cannot take.
Kept == SubSeq(file, 1, synced)

\* What a process shows is what it would read again, and the acknowledged rows
\* are read from what is synced, as long as no two rows share a line.
LedgerInv ==
    /\ LedgerTypeOK
    /\ ProjectionIsLedger
    /\ OneRowPerLine(Kept) => \A row \in acked : \E n \in Accepted(Kept) : Kept[n] = row

\* A cut is the start of the file.
LEMMA CutIsStart ==
    ASSUME NEW chunks \in Seq(Chunks), NEW k \in 0 .. Len(chunks)
    PROVE  /\ SubSeq(chunks, 1, k) \in Seq(Chunks) /\ Len(SubSeq(chunks, 1, k)) = k
           /\ Starts(SubSeq(chunks, 1, k), chunks)
           /\ OneRowPerLine(chunks) => OneRowPerLine(SubSeq(chunks, 1, k))
<1> DEFINE head == SubSeq(chunks, 1, k)
<1>1. /\ head \in Seq(Chunks) /\ Len(head) = k /\ Len(chunks) \in Nat
      /\ \A n \in 1 .. k : head[n] = chunks[n]
  OBVIOUS
<1> HIDE DEF head
<1>2. Starts(head, chunks) BY <1>1 DEF Starts
<1>3. OneRowPerLine(chunks) => OneRowPerLine(head) BY <1>1, <1>2, StartKeepsLines
<1> QED BY <1>1, <1>2, <1>3 DEF head

\* The start of a start, seen from the longer one.
LEMMA StartOfStart ==
    ASSUME NEW chunks \in Seq(Chunks), NEW j \in 0 .. Len(chunks), NEW k \in j .. Len(chunks)
    PROVE  Starts(SubSeq(chunks, 1, j), SubSeq(chunks, 1, k))
<1>1. /\ Len(SubSeq(chunks, 1, j)) = j /\ Len(SubSeq(chunks, 1, k)) = k
      /\ \A n \in 1 .. j : SubSeq(chunks, 1, j)[n] = chunks[n] /\ SubSeq(chunks, 1, k)[n] = chunks[n]
  OBVIOUS
<1> QED BY <1>1 DEF Starts

\* A row that is read from the start of a file is read from the file.
LEMMA ReadFromLonger ==
    ASSUME NEW head \in Seq(Chunks), NEW chunks \in Seq(Chunks), Starts(head, chunks),
           OneRowPerLine(chunks), NEW n \in Accepted(head)
    PROVE  n \in Accepted(chunks) /\ chunks[n] = head[n]
<1>1. n \in Accepted(chunks) /\ n \in DOMAIN head BY AcceptedLocally
<1>2. DOMAIN head = 1 .. Len(head) OBVIOUS
<1> QED BY <1>1, <1>2 DEF Starts

\* What a power loss leaves begins with what was synced; and it reads like a
\* start of the file, where no two rows share a line.
LEMMA SurvivorReads ==
    ASSUME LedgerTypeOK, NEW chunks \in Survivors
    PROVE  /\ chunks \in Seq(Chunks) /\ Kept \in Seq(Chunks) /\ Starts(Kept, chunks)
           /\ OneRowPerLine(file) =>
                /\ OneRowPerLine(chunks)
                /\ \E head \in Seq(Chunks) :
                     /\ Loaded(chunks) = Loaded(head)
                     /\ Starts(head, file) /\ Starts(Kept, head)
<1>1. /\ file \in Seq(Chunks) /\ synced \in 0 .. Len(file) /\ Len(file) \in Nat
      /\ DOMAIN file = 1 .. Len(file)
  BY DEF LedgerTypeOK
<1>2. Kept \in Seq(Chunks) BY <1>1, CutIsStart DEF Kept
<1>3. ASSUME NEW k \in synced .. Len(file)
      PROVE  LET head == SubSeq(file, 1, k)
             IN  /\ head \in Seq(Chunks) /\ Len(head) = k
                 /\ Starts(head, file) /\ Starts(Kept, head)
                 /\ OneRowPerLine(file) => OneRowPerLine(head)
  <2>1. k \in 0 .. Len(file) BY <1>1
  <2> QED BY <1>1, <2>1, CutIsStart, StartOfStart DEF Kept
<1>4. CASE chunks \in {SubSeq(file, 1, n) : n \in synced .. Len(file)}
  <2>1. PICK k \in synced .. Len(file) : chunks = SubSeq(file, 1, k) BY <1>4
  <2> QED BY <1>2, <1>3, <2>1
<1>5. CASE chunks \in {Append(SubSeq(file, 1, n), Torn) : n \in
             {k \in synced .. (Len(file) - 1) : file[k + 1] # Newline}}
  <2>1. PICK k \in synced .. (Len(file) - 1) :
          file[k + 1] # Newline /\ chunks = Append(SubSeq(file, 1, k), Torn)
    BY <1>5
  <2> DEFINE head == SubSeq(file, 1, k)
  <2>2. k \in synced .. Len(file) /\ k \in Nat BY <1>1
  <2>3. /\ head \in Seq(Chunks) /\ Len(head) = k /\ Starts(head, file) /\ Starts(Kept, head)
        /\ OneRowPerLine(file) => OneRowPerLine(head)
    BY <1>3, <2>2
  <2>4. chunks = Append(head, Torn) BY <2>1
  <2> HIDE DEF head
  <2>5. chunks \in Seq(Chunks) /\ Starts(Kept, chunks)
    <3>1. /\ chunks \in Seq(Chunks) /\ Len(chunks) = k + 1
          /\ \A n \in 1 .. k : chunks[n] = head[n]
      BY <2>3, <2>4, ChunkKinds
    <3>2. Len(Kept) \in Nat BY <1>2
    <3> QED BY <2>2, <2>3, <3>1, <3>2 DEF Starts
  <2>6. ASSUME OneRowPerLine(file) PROVE OneRowPerLine(chunks) /\ Loaded(chunks) = Loaded(head)
    <3>1. head # <<>> => ~RowAt(head, Len(head))
      <4>1. CASE k \in 1 .. (Len(file) - 1)
        <5>1. ~RowAt(file, k) BY <2>1, <2>6, <4>1 DEF OneRowPerLine
        <5>2. head[k] = file[k] BY <2>3, <4>1 DEF Starts
        <5> QED BY <2>3, <5>1, <5>2 DEF RowAt
      <4>2. CASE k = 0 BY <2>3, <4>2
      <4> QED BY <1>1, <2>2, <4>1, <4>2
    <3>2. Terminated(head) BY <2>3, <2>6, <3>1, EndedLines
    <3> QED BY <2>3, <2>4, <2>5, <3>2, TornIsIgnored, EndedLines
  <2> QED BY <1>2, <2>3, <2>5, <2>6
<1> QED BY <1>4, <1>5 DEF Survivors

\* Where what is written shares no line with the file, the file ends its rows.
LEMMA WrittenApart ==
    ASSUME NEW chunks \in Seq(Chunks), NEW row \in Chunks, row # Newline,
           NEW longer \in Seq(Chunks), Starts(chunks, longer), Len(chunks) < Len(longer),
           longer[Len(chunks) + 1] = row, OneRowPerLine(longer)
    PROVE  Terminated(chunks) /\ OneRowPerLine(chunks)
<1>1. OneRowPerLine(chunks) BY StartKeepsLines
<1>2. ASSUME chunks # <<>>, RowAt(chunks, Len(chunks)) PROVE FALSE
  <2>1. Len(chunks) \in 1 .. (Len(longer) - 1) BY <1>2
  <2>2. RowAt(longer, Len(chunks)) BY <1>2, <2>1 DEF RowAt, Starts
  <2> QED BY <2>1, <2>2 DEF OneRowPerLine
<1> QED BY <1>1, <1>2, EndedLines

\* A row that is written in full, with its line feed or without, moves its unit.
LEMMA WrittenRowMoves ==
    ASSUME LedgerInv, ledgerUp, ~ledgerPoison, NEW row \in Receipts, Terminated(file),
           usage[row.unit] # NoReceipt =>
             usage[row.unit] # row /\ ~Contradicts(usage[row.unit], row),
           NEW longer, longer = file \o <<row, Newline>>
    PROVE  /\ longer \in Seq(Chunks) /\ Starts(file, longer) /\ OneRowPerLine(longer)
           /\ Loads(longer) /\ Loaded(longer) = [usage EXCEPT ![row.unit] = row]
           /\ Len(file) + 1 \in Accepted(longer) /\ longer[Len(file) + 1] = row
           /\ Loaded(file \o <<row>>) = Loaded(longer)
           /\ Ledger!Moves(Loaded(file)[row.unit], Loaded(longer)[row.unit])
           /\ \A other \in MeteredUnits \ {row.unit} :
                Loaded(longer)[other] = Loaded(file)[other]
<1>1. /\ file \in Seq(Chunks) /\ Len(file) \in Nat
      /\ usage \in [MeteredUnits -> Receipts \cup {NoReceipt}] /\ row.unit \in MeteredUnits
  BY DEF LedgerInv, LedgerTypeOK, Receipts
<1>2. Loads(file) /\ usage = Loaded(file) BY <1>1, EndedLines DEF LedgerInv, ProjectionIsLedger
<1>3. /\ longer \in Seq(Chunks) /\ Starts(file, longer) /\ Len(longer) = Len(file) + 2
      /\ longer[Len(file) + 1] = row /\ Terminated(longer) /\ Loads(longer)
      /\ Loaded(longer) = [Loaded(file) EXCEPT ![row.unit] = row]
  BY <1>1, <1>2, RowExtends
<1>4. Len(file) + 1 \in Accepted(longer)
  <2>1. Len(file) + 1 \in DOMAIN longer /\ RowAt(longer, Len(file) + 1)
    BY <1>1, <1>3, ChunkKinds DEF RowAt
  <2> QED BY <1>3, <2>1 DEF Accepted, Loads
<1>5. Loaded(file \o <<row>>) = Loaded(longer)
  <2> DEFINE shorter == file \o <<row>>
  <2>1. row \in Chunks /\ Newline \in Chunks BY DEF Chunks
  <2>2. shorter \in Seq(Chunks) /\ Append(shorter, Newline) = longer BY <1>1, <2>1
  <2> HIDE DEF shorter
  <2>3. ReadTo(shorter) = ReadTo(longer) BY <2>2, NewlineIsIgnored
  <2>4. ReadTo(shorter).usage = ReadTo(longer).usage BY <2>3
  <2>5. Loaded(shorter) = Loaded(longer) BY <2>4 DEF ReadTo
  <2> QED BY <2>5 DEF shorter
<1>6. Loaded(longer)[row.unit] = row
      /\ \A other \in MeteredUnits \ {row.unit} : Loaded(longer)[other] = Loaded(file)[other]
  BY <1>1, <1>2, <1>3
<1>7. Ledger!Moves(Loaded(file)[row.unit], row)
  <2>1. CASE usage[row.unit] = NoReceipt
    BY <1>2, <2>1, ChunkKinds DEF Ledger!Moves, Receipts
  <2>2. CASE usage[row.unit] # NoReceipt
    <3>1. MineOf(file, row.unit) # {} BY <1>1, <1>2, <2>2, LatestReceipt
    <3>2. PICK n \in MineOf(file, row.unit) : Loaded(file)[row.unit] = file[n]
      BY <1>1, <3>1, LatestReceipt
    <3>3. file[n] \in Receipts /\ file[n].unit = row.unit BY <1>1, <3>2, LatestReceipt
    <3>4. Ledger!Moves(file[n], row) BY <1>2, <2>2, <3>2, <3>3, OneMove
    <3> QED BY <3>2, <3>4
  <2> QED BY <2>1, <2>2
<1> QED BY <1>2, <1>3, <1>4, <1>5, <1>6, <1>7, EndedLines

\* A row that is published.
LEMMA PublishedSteps ==
    ASSUME LedgerInv, ledgerUp, ledgerUp' = ledgerUp, ~ledgerPoison, NEW row \in Receipts,
           usage[row.unit] # NoReceipt =>
             usage[row.unit] # row /\ ~Contradicts(usage[row.unit], row),
           LedgerTypeOK', Published(row), usage' = [usage EXCEPT ![row.unit] = row]
    PROVE  /\ LedgerInv'
           /\ OneRowPerLine(file') => Ledger!Record(row.unit)
<1> DEFINE longer == file \o <<row, Newline>>
<1>1. /\ file \in Seq(Chunks) /\ synced \in 0 .. Len(file) /\ Len(file) \in Nat
      /\ row \in Chunks /\ Newline \in Chunks
  BY DEF LedgerInv, LedgerTypeOK, Chunks
<1>2. /\ longer \in Seq(Chunks) /\ Len(longer) = Len(file) + 2 /\ Starts(file, longer)
      /\ longer[Len(file) + 1] = row /\ SubSeq(longer, 1, Len(longer)) = longer
  BY <1>1 DEF Starts
<1>3. file' = longer /\ synced' = Len(file') /\ acked' = acked \cup {row} /\ ledgerPoison' = FALSE
  BY DEF Published
<1> HIDE DEF longer
<1>4. Kept' = longer BY <1>2, <1>3 DEF Kept
<1>5. ASSUME OneRowPerLine(longer)
      PROVE  /\ Loads(longer) /\ Loaded(longer) = usage'
             /\ \A r \in acked' : \E n \in Accepted(longer) : longer[n] = r
             /\ Ledger!Record(row.unit)
  <2>1. Terminated(file) /\ OneRowPerLine(file)
    <3>1. row # Newline BY ChunkKinds
    <3>2. Len(file) < Len(longer) BY <1>1, <1>2
    <3> QED BY <1>1, <1>2, <1>5, <3>1, <3>2, WrittenApart
  <2>2. /\ Loads(longer) /\ Loaded(longer) = [usage EXCEPT ![row.unit] = row]
        /\ Len(file) + 1 \in Accepted(longer)
        /\ Ledger!Moves(Loaded(file)[row.unit], Loaded(longer)[row.unit])
        /\ \A other \in MeteredUnits \ {row.unit} : Loaded(longer)[other] = Loaded(file)[other]
    BY <2>1, WrittenRowMoves DEF longer
  <2>3. ASSUME NEW r \in acked' PROVE \E n \in Accepted(longer) : longer[n] = r
    <3>1. CASE r = row BY <1>2, <2>2, <3>1
    <3>2. CASE r \in acked
      <4>1. /\ Kept \in Seq(Chunks) /\ Starts(Kept, file) /\ OneRowPerLine(Kept)
        BY <1>1, <2>1, CutIsStart DEF Kept
      <4>2. PICK n \in Accepted(Kept) : Kept[n] = r BY <3>2, <4>1 DEF LedgerInv
      <4>3. n \in Accepted(file) /\ file[n] = Kept[n] BY <1>1, <2>1, <4>1, ReadFromLonger
      <4>4. n \in Accepted(longer) /\ longer[n] = file[n] BY <1>1, <1>2, <1>5, <4>3, ReadFromLonger
      <4> QED BY <4>2, <4>3, <4>4
    <3> QED BY <1>3, <2>3, <3>1, <3>2
  <2>4. Ledger!Record(row.unit)
    <3>1. SubSeq(file', 1, synced') = file' BY <1>2, <1>3
    <3> QED BY <1>3, <2>2, <3>1 DEF Ledger!Record
  <2> QED BY <2>2, <2>3, <2>4
<1>6. LedgerInv'
  <2>1. ProjectionIsLedger' BY <1>3, <1>5 DEF ProjectionIsLedger
  <2>2. OneRowPerLine(Kept)' => \A r \in acked' : \E n \in Accepted(Kept)' : Kept'[n] = r
    BY <1>4, <1>5
  <2> QED BY <2>1, <2>2 DEF LedgerInv
<1> QED BY <1>3, <1>5, <1>6

\* A write whose outcome is unknown.
LEMMA IndeterminateSteps ==
    ASSUME LedgerInv, ledgerUp, ~ledgerPoison, NEW row \in Receipts,
           usage[row.unit] # NoReceipt =>
             usage[row.unit] # row /\ ~Contradicts(usage[row.unit], row),
           LedgerTypeOK', Indeterminate(row)
    PROVE  /\ LedgerInv'
           /\ OneRowPerLine(file') => \/ Ledger!Record(row.unit)
                                      \/ UNCHANGED <<Loaded(file), Loaded(SubSeq(file, 1, synced))>>
<1>1. /\ file \in Seq(Chunks) /\ synced \in 0 .. Len(file) /\ Len(file) \in Nat
      /\ row \in Chunks /\ Newline \in Chunks /\ Torn \in Chunks
  BY DEF LedgerInv, LedgerTypeOK, Chunks
<1>2. PICK rest \in Remains(row) : file' = file \o rest BY DEF Indeterminate
<1>3. ledgerPoison' = TRUE /\ synced' = synced /\ acked' = acked BY DEF Indeterminate
<1>4. rest \in {<<Torn>>, <<row>>, <<row, Newline>>} BY <1>2 DEF Remains
<1>5. /\ file' \in Seq(Chunks) /\ Starts(file, file') /\ Len(file) < Len(file')
      /\ file'[Len(file) + 1] \in {Torn, row}
      /\ \A n \in 1 .. Len(file) : file'[n] = file[n]
  <2> DEFINE longer == file \o rest
  <2>1. rest \in Seq(Chunks) /\ Len(rest) \in {1, 2} /\ rest[1] \in {Torn, row}
    <3>1. CASE rest = <<Torn>> BY <1>1, <3>1
    <3>2. CASE rest = <<row>> BY <1>1, <3>2
    <3>3. CASE rest = <<row, Newline>> BY <1>1, <3>3
    <3> QED BY <1>4, <3>1, <3>2, <3>3
  <2>2. /\ longer \in Seq(Chunks) /\ Len(longer) = Len(file) + Len(rest)
        /\ longer[Len(file) + 1] = rest[1] /\ \A n \in 1 .. Len(file) : longer[n] = file[n]
    BY <1>1, <2>1
  <2>3. file' = longer BY <1>2
  <2> HIDE DEF longer
  <2> QED BY <1>1, <2>1, <2>2, <2>3 DEF Starts
<1>6. SubSeq(file', 1, synced') = SubSeq(file, 1, synced)
  <2>1. /\ SubSeq(file, 1, synced) = [n \in 1 .. synced |-> file[n]]
        /\ SubSeq(file', 1, synced) = [n \in 1 .. synced |-> file'[n]]
    BY <1>1, <1>5
  <2> QED BY <1>1, <1>3, <1>5, <2>1
<1>7. LedgerInv'
  <2>1. ProjectionIsLedger' BY <1>3 DEF ProjectionIsLedger
  <2>2. Kept' = Kept BY <1>6 DEF Kept
  <2> QED BY <1>3, <2>1, <2>2 DEF LedgerInv
<1>8. ASSUME OneRowPerLine(file')
      PROVE  \/ Ledger!Record(row.unit)
             \/ UNCHANGED <<Loaded(file), Loaded(SubSeq(file, 1, synced))>>
  <2>1. Terminated(file)
    <3>1. file'[Len(file) + 1] \in Chunks /\ file'[Len(file) + 1] # Newline
      BY <1>1, <1>5, ChunkKinds
    <3> QED BY <1>1, <1>5, <1>8, <3>1, WrittenApart
  <2>2. CASE rest = <<Torn>>
    <3>1. file' = Append(file, Torn) BY <1>1, <1>2, <2>2
    <3>2. Loaded(file') = Loaded(file) BY <1>1, <2>1, <3>1, TornIsIgnored
    <3> QED BY <1>6, <3>2
  <2>3. CASE rest \in {<<row>>, <<row, Newline>>}
    <3> DEFINE longer == file \o <<row, Newline>>
    <3>1. /\ Loaded(file \o <<row>>) = Loaded(longer)
          /\ Ledger!Moves(Loaded(file)[row.unit], Loaded(longer)[row.unit])
          /\ \A other \in MeteredUnits \ {row.unit} : Loaded(longer)[other] = Loaded(file)[other]
      BY <2>1, WrittenRowMoves
    <3> HIDE DEF longer
    <3>2. Loaded(file') = Loaded(longer) BY <1>2, <2>3, <3>1 DEF longer
    <3> QED BY <1>6, <3>1, <3>2 DEF Ledger!Record
  <2> QED BY <1>4, <2>2, <2>3
<1> QED BY <1>7, <1>8

\* The file and what a reader sees of it stay.
LEMMA FileStays ==
    ASSUME LedgerInv, UNCHANGED <<file, synced, acked>>, LedgerTypeOK', ProjectionIsLedger'
    PROVE  LedgerInv' /\ UNCHANGED <<Loaded(file), Loaded(SubSeq(file, 1, synced))>>
<1>1. file' = file /\ synced' = synced /\ acked' = acked OBVIOUS
<1>2. Kept' = Kept BY <1>1 DEF Kept
<1> QED BY <1>1, <1>2 DEF LedgerInv

\* A receipt that is recorded extends the file, or leaves a remainder.
LEMMA RecordSteps ==
    ASSUME LedgerInv, NEW row \in Receipts, NEW required \in BOOLEAN, RecordUsage(row, required)
    PROVE  /\ LedgerInv'
           /\ OneRowPerLine(file') =>
                [Ledger!Next]_<<Loaded(file), Loaded(SubSeq(file, 1, synced))>>
<1>1. ledgerUp' = ledgerUp /\ ledgerUp /\ ~ledgerPoison BY DEF RecordUsage, Writable
<1>2. usage[row.unit] # NoReceipt => usage[row.unit] # row /\ ~Contradicts(usage[row.unit], row)
  BY DEF RecordUsage
<1>3. LedgerTypeOK' BY RecordsAreTyped DEF LedgerInv
<1>4. row.unit \in MeteredUnits BY DEF Receipts
<1>5. CASE Published(row) /\ usage' = [usage EXCEPT ![row.unit] = row]
  BY <1>1, <1>2, <1>3, <1>4, <1>5, PublishedSteps DEF Ledger!Next
<1>6. CASE Indeterminate(row) /\ UNCHANGED usage
  BY <1>1, <1>2, <1>3, <1>4, <1>6, IndeterminateSteps DEF Ledger!Next
<1>7. CASE UNCHANGED <<usage, file, synced, acked, ledgerPoison>>
  <2>1. ProjectionIsLedger' BY <1>1, <1>7 DEF LedgerInv, ProjectionIsLedger
  <2> QED BY <1>3, <1>7, <2>1, FileStays
<1> QED BY <1>5, <1>6, <1>7 DEF RecordUsage, AppendUsage

\* A power loss takes back at most what was not synced.
LEMMA PowerLossSteps ==
    ASSUME LedgerInv, LedgerTypeOK', LedgerPowerLoss
    PROVE  LedgerInv' /\ (OneRowPerLine(file) => Ledger!PowerLoss)
<1>1. file \in Seq(Chunks) /\ synced \in 0 .. Len(file) /\ LedgerTypeOK
  BY DEF LedgerInv, LedgerTypeOK
<1>2. file' \in Survivors /\ synced' = Len(file') /\ acked' = acked /\ ledgerUp' = FALSE
  BY DEF LedgerPowerLoss, StopProcess
<1>3. file' \in Seq(Chunks) /\ Kept \in Seq(Chunks) /\ Starts(Kept, file')
  BY <1>1, <1>2, SurvivorReads
<1>4. SubSeq(file', 1, synced') = file' BY <1>2, <1>3
<1>5. LedgerInv'
  <2>1. ProjectionIsLedger' BY <1>2 DEF ProjectionIsLedger
  <2>2. ASSUME OneRowPerLine(file'), NEW row \in acked
        PROVE  \E n \in Accepted(file') : file'[n] = row
    <3>1. OneRowPerLine(Kept) BY <1>3, <2>2, StartKeepsLines
    <3>2. PICK n \in Accepted(Kept) : Kept[n] = row BY <2>2, <3>1 DEF LedgerInv
    <3>3. n \in Accepted(file') /\ file'[n] = Kept[n] BY <1>3, <2>2, ReadFromLonger
    <3> QED BY <3>2, <3>3
  <2>3. Kept' = file' BY <1>4 DEF Kept
  <2> QED BY <1>2, <2>1, <2>2, <2>3 DEF LedgerInv
<1>6. ASSUME OneRowPerLine(file) PROVE Ledger!PowerLoss
  <2>1. PICK head \in Seq(Chunks) :
          Loaded(file') = Loaded(head) /\ Starts(head, file) /\ Starts(Kept, head)
    BY <1>1, <1>2, <1>6, SurvivorReads
  <2>2. OneRowPerLine(head) BY <1>1, <1>6, <2>1, StartKeepsLines
  <2>3. ASSUME NEW unit \in MeteredUnits
        PROVE  \/ Loaded(head)[unit] = Loaded(file)[unit]
               \/ Loaded(head)[unit] = Loaded(Kept)[unit]
               \/ /\ Ledger!Moves(Loaded(Kept)[unit], Loaded(head)[unit])
                  /\ Ledger!Moves(Loaded(head)[unit], Loaded(file)[unit])
    <3>1. \/ Loaded(file)[unit] = Loaded(head)[unit]
          \/ Ledger!Moves(Loaded(head)[unit], Loaded(file)[unit])
      BY <1>1, <1>6, <2>1, LoadedGrows
    <3>2. \/ Loaded(head)[unit] = Loaded(Kept)[unit]
          \/ Ledger!Moves(Loaded(Kept)[unit], Loaded(head)[unit])
      BY <1>3, <2>1, <2>2, LoadedGrows
    <3> QED BY <3>1, <3>2
  <2>4. Loaded(SubSeq(file', 1, synced')) = Loaded(file') BY <1>4
  <2> QED BY <2>1, <2>3, <2>4 DEF Ledger!PowerLoss, Kept
<1> QED BY <1>5, <1>6

\* Every step keeps the invariant and is a step of the table of receipts, unless
\* two rows share a line before it or after it.
LEMMA LedgerStep ==
    ASSUME LedgerInv, [LedgerNext]_ledgerVars
    PROVE  /\ LedgerInv'
           /\ OneRowPerLine(file) /\ OneRowPerLine(file') =>
                [Ledger!Next]_<<Loaded(file), Loaded(SubSeq(file, 1, synced))>>
<1>1. usage \in [MeteredUnits -> Receipts \cup {NoReceipt}] BY DEF LedgerInv, LedgerTypeOK
<1>2. LedgerTypeOK' BY LedgerStepTypes DEF LedgerInv
<1>3. CASE LoadUsage
  <2>1. ProjectionIsLedger' BY <1>3 DEF LoadUsage, ProjectionIsLedger
  <2> QED BY <1>2, <1>3, <2>1, FileStays DEF LoadUsage
<1>4. CASE LedgerCrash
  <2>1. ProjectionIsLedger' BY <1>4 DEF LedgerCrash, StopProcess, ProjectionIsLedger
  <2> QED BY <1>2, <1>4, <2>1, FileStays DEF LedgerCrash, StopProcess
<1>5. CASE LedgerPowerLoss BY <1>2, <1>5, PowerLossSteps DEF Ledger!Next
<1>6. ASSUME NEW unit \in MeteredUnits, UnitNext(unit)
      PROVE  /\ LedgerInv'
             /\ OneRowPerLine(file') =>
                  [Ledger!Next]_<<Loaded(file), Loaded(SubSeq(file, 1, synced))>>
  <2>1. \E row \in Receipts : \E required \in BOOLEAN : RecordUsage(row, required)
    BY <1>1, <1>6, UnitsRecord
  <2> QED BY <2>1, RecordSteps
<1>7. CASE UNCHANGED ledgerVars
  <2>1. ProjectionIsLedger' BY <1>7 DEF ledgerVars, LedgerInv, ProjectionIsLedger
  <2> QED BY <1>2, <1>7, <2>1, FileStays DEF ledgerVars
<1> QED BY <1>3, <1>4, <1>5, <1>6, <1>7 DEF LedgerNext

\* The invariant of the ledger, whatever a fault or a power loss leaves of a row.
THEOREM LedgerInvariance == LedgerSpec => []LedgerInv
<1>1. LedgerInit => LedgerInv
  <2> SUFFICES ASSUME LedgerInit PROVE LedgerInv
    OBVIOUS
  <2>1. acked = {} /\ ledgerUp = FALSE BY DEF LedgerInit
  <2> QED BY <2>1, LedgerTypedInitially DEF LedgerInv, ProjectionIsLedger
<1>2. LedgerInv /\ [LedgerNext]_ledgerVars => LedgerInv' BY LedgerStep
<1> QED BY <1>1, <1>2, PTL DEF LedgerSpec

\* An unpoisoned process shows exactly the receipts that a restart would read, as
\* long as no two rows share a line.
THEOREM ProjectionFollowsLedger == LedgerSpec => []ProjectionIsLedger
<1>1. LedgerInv => ProjectionIsLedger BY DEF LedgerInv
<1> QED BY <1>1, LedgerInvariance, PTL

\* As long as no two rows share a line of the file, a receipt that was reported
\* durable is read back after any crash and power loss, also one that loses the
\* line feed of a row.
THEOREM AckedRowsSurvive == LedgerSpec => [](OneRowPerLine(file) => AckedRowIsReadable)
<1>1. LedgerInv => (OneRowPerLine(file) => AckedRowIsReadable)
  <2> SUFFICES ASSUME LedgerInv, OneRowPerLine(file), NEW chunks \in Survivors, NEW row \in acked
               PROVE  \E n \in Accepted(chunks) : chunks[n] = row
    BY DEF AckedRowIsReadable
  <2>1. /\ chunks \in Seq(Chunks) /\ Kept \in Seq(Chunks) /\ Starts(Kept, chunks)
        /\ OneRowPerLine(chunks)
    BY SurvivorReads DEF LedgerInv
  <2>2. OneRowPerLine(Kept) BY <2>1, StartKeepsLines
  <2>3. PICK n \in Accepted(Kept) : Kept[n] = row BY <2>2 DEF LedgerInv
  <2>4. n \in Accepted(chunks) /\ chunks[n] = Kept[n] BY <2>1, ReadFromLonger
  <2> QED BY <2>3, <2>4
<1> QED BY <1>1, LedgerInvariance, PTL

\* The ledger implements the table of receipts.
THEOREM LedgerImplementsReceipts == LedgerSpec => ReceiptsMoveOnce
<1>1. LedgerInit => Ledger!Init
  <2> SUFFICES ASSUME LedgerInit PROVE Ledger!Init
    OBVIOUS
  <2>1. file = <<>> /\ synced = 0 BY DEF LedgerInit
  <2>2. Accepted(<<>>) = {} BY DEF Accepted
  <2>3. \A unit \in MeteredUnits : Loaded(<<>>)[unit] = NoReceipt
    BY <2>2 DEF Loaded, Folded
  <2>4. SubSeq(file, 1, synced) = <<>> BY <2>1
  <2>5. OneRowPerLine(<<>>) BY DEF OneRowPerLine
  <2> QED BY <2>1, <2>3, <2>4, <2>5, ChunkKinds DEF Ledger!Init
<1>2. LedgerInv /\ [LedgerNext]_ledgerVars
        => [~(~OneRowPerLine(file)) /\ ~(~OneRowPerLine(file))' => Ledger!Next]_
             <<Loaded(file), Loaded(SubSeq(file, 1, synced))>>
  BY LedgerStep
<1> QED BY <1>1, <1>2, LedgerInvariance, PTL DEF LedgerSpec, ReceiptsMoveOnce, Ledger!Spec

-----------------------------------------------------------------------------
(* Edits: the inductive invariant.                                         *)

Transaction ==
    [at : {"idle", "previewed", "checking", "writing", "renaming", "undoing", "done"},
     kind : Kinds, order : Orders \cup {<<>>}, base : [Targets -> Authors], next : Nat,
     report : {"none", "untouched", "applied", "rolled back", "failed"}, restored : BOOLEAN]

BufferSave == [at : {"idle", "open", "done"} \cup Targets, base : [Targets -> Authors]]

EditTypes ==
    /\ EditTypeOK
    /\ edit \in [Edits -> Transaction] /\ save \in [Savers -> BufferSave]

\* Somebody previewed a file that this edit had written, and may restore it.
Based(t, f) == \E other \in Edits \ {t} : edit[other].base[f] = t

\* It wrote the file, and has not taken it back.
Written(t, f) ==
    LET e == edit[t] IN
    \/ /\ e.at \in {"writing", "renaming", "undoing"}
       /\ \E i \in 1 .. Len(e.order) : i < e.next /\ e.order[i] = f
    \/ e.at = "undoing" /\ ~e.restored
    \/ e.at = "done" /\ e.report \in {"none", "applied", "failed"}

EditInv(t) ==
    LET e == edit[t] IN
    /\ e.at # "done" => e.report = "none"
    /\ e.at \notin {"idle", "done"} => e.order \in Orders
    /\ e.kind = "agent" => Len(e.order) <= 1 /\ e.at # "undoing"
    /\ e.at \in {"previewed", "checking"} => e.next <= Len(e.order)
    /\ e.at = "renaming" => e.kind = "agent" /\ e.next <= Len(e.order)
    /\ e.at = "idle" => e.kind = "agent" /\ \A f \in Targets : e.base[f] = NoWriter
    /\ \A f \in Targets : content[f] = t => Based(t, f) \/ Written(t, f)
    /\ \A f \in Targets, other \in Edits : edit[other].base[f] = t => other # t /\ e.at # "idle"
    /\ receipt = t => e.report = "applied"

OnlyAgents == \A t \in Edits : edit[t].kind = "agent"

\* Whoever is between comparison and rename has the lock, so what it compared
\* holds, as long as nobody writes past it.
SaveLockInv ==
    /\ \A t \in Edits : edit[t].at = "renaming" =>
          /\ saveLock = t
          /\ OnlyAgents => content[NextFile(t)] = edit[t].base[NextFile(t)]
    /\ \A s \in Savers : save[s].at \in Targets =>
          /\ saveLock = s
          /\ OnlyAgents => content[save[s].at] = save[s].base[save[s].at]

EditsInv == EditTypes /\ SaveLockInv /\ \A t \in Edits : EditInv(t)

-----------------------------------------------------------------------------
(* Edits: steps.                                                           *)

\* What the others know of an edit survives the move of another.
LEMMA OthersKeep ==
    ASSUME EditsInv, NEW t \in Edits, NEW y \in Transaction,
           edit' = [edit EXCEPT ![t] = y],
           \/ y.base = edit[t].base
           \/ edit[t].at = "idle" /\ y.base = content,
           \A f \in Targets : content'[f] \in {content[f], edit[t].base[f], t},
           receipt' \in {receipt, t},
           NEW o \in Edits, o # t
    PROVE  EditInv(o)'
<1>1. /\ edit \in [Edits -> Transaction] /\ EditInv(o) /\ EditInv(t)
      /\ o # NoWriter
  BY EditAssumption DEF EditsInv, EditTypes
<1>2. edit'[o] = edit[o] /\ edit'[t] = y /\ \A d \in Edits \ {t} : edit'[d] = edit[d]
  BY <1>1
<1>3. ASSUME NEW f \in Targets, Based(o, f)
      PROVE  Based(o, f)'
  <2>1. PICK other \in Edits \ {o} : edit[other].base[f] = o
    BY <1>3 DEF Based
  <2>2. edit'[other].base[f] = o
    <3>1. CASE other # t
      BY <1>2, <2>1, <3>1
    <3>2. CASE other = t
      BY <1>1, <1>2, <2>1, <3>2 DEF EditInv
    <3> QED
      BY <3>1, <3>2
  <2> QED
    BY <2>2 DEF Based
<1>4. ASSUME NEW f \in Targets, content[f] = o
      PROVE  edit[o].at # "idle"
  <2>1. Based(o, f) \/ Written(o, f)
    BY <1>1, <1>4 DEF EditInv
  <2>2. Based(o, f) => edit[o].at # "idle"
    BY <1>1 DEF Based, EditInv
  <2> QED
    BY <2>1, <2>2 DEF Written
<1>5. ASSUME NEW f \in Targets, content'[f] = o
      PROVE  Based(o, f)' \/ Written(o, f)'
  <2>1. CASE content[f] = o
    <3>1. Based(o, f) \/ Written(o, f)
      BY <1>1, <2>1 DEF EditInv
    <3>2. Written(o, f) => Written(o, f)'
      BY <1>2 DEF Written
    <3> QED
      BY <3>1, <3>2, <1>3
  <2>2. CASE edit[t].base[f] = o
    BY <2>2, <1>3 DEF Based
  <2> QED
    BY <1>5, <2>1, <2>2
<1>6. ASSUME NEW f \in Targets, NEW other \in Edits, edit'[other].base[f] = o
      PROVE  other # o /\ edit'[o].at # "idle"
  <2>1. CASE edit[other].base[f] = o
    BY <1>1, <1>2, <2>1 DEF EditInv
  <2>2. CASE edit[other].base[f] # o
    <3>1. other = t /\ content[f] = o
      BY <1>2, <1>6, <2>2
    <3> QED
      BY <3>1, <1>2, <1>4
  <2> QED
    BY <2>1, <2>2
<1>7. receipt' = o => receipt = o
  OBVIOUS
<1> QED
  BY <1>1, <1>2, <1>5, <1>6, <1>7 DEF EditInv

\* What an edit has to show when it moves itself.
LEMMA OwnMove ==
    ASSUME EditsInv, NEW t \in Edits, NEW y \in Transaction,
           edit' = [edit EXCEPT ![t] = y],
           \/ y.base = edit[t].base
           \/ edit[t].at = "idle" /\ y.base = content,
           \A f \in Targets : content'[f] \in {content[f], edit[t].base[f], t},
           receipt' \in {receipt, t}, receipt' = t => y.report = "applied",
           y.at # "idle", y.at # "done" => y.report = "none",
           y.at # "done" => y.order \in Orders,
           y.kind = "agent" => Len(y.order) <= 1 /\ y.at # "undoing",
           y.at \in {"previewed", "checking"} => y.next <= Len(y.order),
           y.at = "renaming" => y.kind = "agent" /\ y.next <= Len(y.order),
           \A f \in Targets : Written(t, f) /\ content'[f] = t => Written(t, f)',
           \A f \in Targets : content'[f] = t => content[f] = t \/ Written(t, f)'
    PROVE  \A o \in Edits : EditInv(o)'
<1>1. /\ edit \in [Edits -> Transaction] /\ EditInv(t) /\ t # NoWriter
  BY EditAssumption DEF EditsInv, EditTypes
<1>2. edit'[t] = y /\ \A d \in Edits \ {t} : edit'[d] = edit[d]
  BY <1>1
<1>3. ASSUME NEW f \in Targets, edit[t].at = "idle"
      PROVE  content[f] # t
  <2>1. ~Written(t, f)
    BY <1>3 DEF Written
  <2>2. ~Based(t, f)
    BY <1>1, <1>3 DEF Based, EditInv
  <2> QED
    BY <1>1, <2>1, <2>2 DEF EditInv
<1>4. ASSUME NEW f \in Targets, content'[f] = t
      PROVE  Based(t, f)' \/ Written(t, f)'
  <2>1. content[f] = t => Based(t, f) \/ Written(t, f)
    BY <1>1 DEF EditInv
  <2>2. Based(t, f) => Based(t, f)'
    BY <1>2 DEF Based
  <2> QED
    BY <1>4, <2>1, <2>2
<1>5. ASSUME NEW f \in Targets, NEW other \in Edits, edit'[other].base[f] = t
      PROVE  other # t
  BY <1>1, <1>2, <1>3, <1>5 DEF EditInv
<1>6. EditInv(t)'
  BY <1>2, <1>4, <1>5 DEF EditInv
<1> QED
  BY <1>6, OthersKeep

\* The types of an edit that moves.
LEMMA EditTyped ==
    ASSUME EditsInv, NEW t \in Edits, NEW y \in Transaction,
           edit' = [edit EXCEPT ![t] = y], y.next \in 1 .. Len(y.order) + 1,
           content' \in [Targets -> Authors], saveLock' \in Authors, applyLock' \in Authors,
           receipt' \in Authors, save' = save
    PROVE  EditTypes'
<1>1. edit \in [Edits -> Transaction]
  BY DEF EditsInv, EditTypes
<1>2. edit'[t] = y /\ \A d \in Edits \ {t} : edit'[d] = edit[d]
  BY <1>1
<1>3. edit' \in [Edits -> Transaction]
  BY <1>1
<1>4. ASSUME NEW d \in Edits
      PROVE  /\ edit'[d].kind \in Kinds /\ edit'[d].order \in Orders \cup {<<>>}
             /\ edit'[d].next \in 1 .. Len(edit'[d].order) + 1
             /\ edit'[d].report \in {"none", "untouched", "applied", "rolled back", "failed"}
  <2>1. CASE d = t
    BY <1>2, <2>1 DEF Transaction
  <2>2. CASE d # t
    BY <1>2, <2>2 DEF EditsInv, EditTypes, EditTypeOK
  <2> QED
    BY <2>1, <2>2
<1> QED
  BY <1>3, <1>4 DEF EditsInv, EditTypes, EditTypeOK

\* An edit moves that is between no comparison and its rename; if it writes, it
\* writes past the lock, and not every edit is of the agent.
LEMMA LockKept ==
    ASSUME EditsInv, NEW t \in Edits, NEW y \in Transaction,
           edit' = [edit EXCEPT ![t] = y],
           y.kind = edit[t].kind \/ edit[t].at = "idle", y.at # "renaming",
           saveLock' = saveLock \/ saveLock = t, save' = save,
           content' = content \/ (edit[t].kind # "agent" /\ y.kind # "agent")
             \/ edit[t].at = "renaming"
    PROVE  SaveLockInv'
<1>1. edit \in [Edits -> Transaction] /\ EditInv(t) /\ SaveLockInv /\ save \in [Savers -> BufferSave]
      /\ Edits \cap Savers = {}
  BY EditAssumption DEF EditsInv, EditTypes
<1>2. edit'[t] = y /\ \A d \in Edits \ {t} : edit'[d] = edit[d]
  BY <1>1
<1>3. OnlyAgents' => OnlyAgents
  BY <1>1, <1>2 DEF OnlyAgents, EditInv
<1>4. OnlyAgents' => content' = content \/ edit[t].at = "renaming"
  BY <1>2 DEF OnlyAgents
<1>5. ASSUME NEW d \in Edits, edit'[d].at = "renaming"
      PROVE  /\ saveLock' = d
             /\ OnlyAgents' => content'[NextFile(d)'] = edit'[d].base[NextFile(d)']
  <2>1. d # t /\ edit'[d] = edit[d] /\ saveLock = d
    BY <1>1, <1>2, <1>5 DEF SaveLockInv
  <2>2. edit[t].at # "renaming"
    BY <1>1, <2>1 DEF SaveLockInv
  <2> QED
    BY <1>1, <1>3, <1>4, <1>5, <2>1, <2>2 DEF SaveLockInv, NextFile
<1>6. ASSUME NEW s \in Savers, save[s].at \in Targets
      PROVE  /\ saveLock' = s
             /\ OnlyAgents' => content'[save[s].at] = save[s].base[save[s].at]
  <2>1. saveLock = s /\ s # t
    BY <1>1, <1>6 DEF SaveLockInv
  <2>2. edit[t].at # "renaming"
    BY <1>1, <2>1 DEF SaveLockInv
  <2> QED
    BY <1>1, <1>3, <1>4, <1>6, <2>1, <2>2 DEF SaveLockInv
<1> QED
  BY <1>5, <1>6 DEF SaveLockInv

\* Preview, and what comes before the first write.
LEMMA CheckStep ==
    ASSUME EditsInv, NEW t \in Edits,
           Preview(t) \/ BeginEdit(t) \/ CheckFile(t) \/ Conflict(t)
    PROVE  EditsInv'
<1>1. /\ edit \in [Edits -> Transaction] /\ EditInv(t) /\ EditTypeOK
      /\ edit[t] \in Transaction /\ Len(edit[t].order) \in Nat
      /\ edit[t].next \in 1 .. Len(edit[t].order) + 1
  <2>1. edit \in [Edits -> Transaction] /\ EditInv(t) /\ EditTypeOK
    BY DEF EditsInv, EditTypes
  <2>2. edit[t].order \in Seq(Targets)
    <3>1. edit[t].order \in Orders \cup {<<>>}
      BY <2>1 DEF Transaction
    <3>2. <<>> \in Seq(Targets)
      OBVIOUS
    <3> QED
      BY <3>1, <3>2, EditAssumption
  <2>3. edit[t].next \in 1 .. Len(edit[t].order) + 1
    BY <2>1 DEF EditTypeOK
  <2> QED
    BY <2>1, <2>2, <2>3
<1>2. \A o \in Orders : Len(o) \in Nat /\ Len(o) >= 1 /\ o \in Seq(Targets)
  BY EditAssumption
<1>3. /\ content' = content /\ receipt' = receipt /\ save' = save /\ saveLock' = saveLock
      /\ applyLock' \in Authors
  BY <1>1 DEF Preview, BeginEdit, CheckFile, Conflict, editLocks, ReleaseLock, EditTypeOK, Authors
<1>4. \E y \in Transaction :
         /\ edit' = [edit EXCEPT ![t] = y]
         /\ y.base = edit[t].base \/ (edit[t].at = "idle" /\ y.base = content)
         /\ y.at \in {"previewed", "checking", "writing", "done"}
         /\ y.at # "done" => y.report = "none" /\ y.order \in Orders
         /\ y.at = "writing" => y.next = 1
         /\ y.at = "done" => y.report = "untouched"
         /\ y.kind = "agent" => Len(y.order) <= 1
         /\ y.at \in {"previewed", "checking"} => y.next <= Len(y.order)
         /\ y.next \in 1 .. Len(y.order) + 1
         /\ y.kind = edit[t].kind \/ edit[t].at = "idle"
  <2>1. CASE Preview(t)
    <3>0. PICK kind \in Kinds : \E order \in OrdersOf(kind) :
             edit' = [edit EXCEPT ![t] = [NoEdit EXCEPT !.at = "previewed", !.kind = kind,
                                                        !.order = order, !.base = content]]
      BY <2>1 DEF Preview
    <3>1. PICK order \in OrdersOf(kind) :
             edit' = [edit EXCEPT ![t] = [NoEdit EXCEPT !.at = "previewed", !.kind = kind,
                                                        !.order = order, !.base = content]]
      BY <3>0
    <3> DEFINE y == [NoEdit EXCEPT !.at = "previewed", !.kind = kind, !.order = order,
                                   !.base = content]
    <3>2. order \in Orders /\ (kind = "agent" => Len(order) = 1)
      BY DEF OrdersOf
    <3>3. content \in [Targets -> Authors]
      BY <1>1 DEF EditTypeOK
    <3>4. /\ y \in Transaction /\ y.at = "previewed" /\ y.kind = kind /\ y.order = order
          /\ y.base = content /\ y.next = 1 /\ y.report = "none"
      BY <3>2, <3>3 DEF NoEdit, Transaction
    <3> HIDE DEF y
    <3>5. edit' = [edit EXCEPT ![t] = y] /\ edit[t].at = "idle"
      BY <2>1, <3>1 DEF y, Preview
    <3>6. Len(y.order) \in Nat /\ Len(y.order) >= 1
      BY <1>2, <3>2, <3>4
    <3>7. y.next \in 1 .. Len(y.order) + 1 /\ y.next <= Len(y.order)
      BY <3>4, <3>6
    <3>8. ASSUME y.kind = "agent"
          PROVE  Len(y.order) <= 1
      <4>1. Len(order) = 1
        BY <3>2, <3>4, <3>8
      <4> QED
        BY <3>4, <4>1
    <3> QED
      BY <3>2, <3>4, <3>5, <3>7, <3>8
  <2>2. CASE BeginEdit(t)
    <3> DEFINE y == [edit[t] EXCEPT !.at = "checking"]
    <3>1. edit' = [edit EXCEPT ![t] = y] /\ edit[t].at = "previewed"
      BY <2>2, <1>1 DEF BeginEdit
    <3>2. /\ y \in Transaction /\ y.at = "checking" /\ y.kind = edit[t].kind
          /\ y.order = edit[t].order /\ y.base = edit[t].base /\ y.next = edit[t].next
          /\ y.report = edit[t].report
      BY <1>1 DEF Transaction
    <3> HIDE DEF y
    <3> QED
      BY <1>1, <3>1, <3>2 DEF EditInv, EditTypeOK
  <2>3. CASE CheckFile(t)
    <3> DEFINE last == edit[t].next = Len(edit[t].order)
               at == IF last THEN "writing" ELSE "checking"
               next == IF last THEN 1 ELSE edit[t].next + 1
               y == [edit[t] EXCEPT !.at = at, !.next = next]
    <3>1. edit' = [edit EXCEPT ![t] = y] /\ edit[t].at = "checking"
      BY <2>3, <1>1 DEF CheckFile, Transaction
    <3>2. edit[t].next \in 1 .. Len(edit[t].order)
      BY <3>1, <1>1 DEF EditInv
    <3>3. at \in {"writing", "checking"} /\ next \in Nat /\ next \in 1 .. Len(edit[t].order)
      BY <3>2, <1>1
    <3>4. at = "writing" => next = 1
      OBVIOUS
    <3> HIDE DEF at, next
    <3>5. /\ y \in Transaction /\ y.at = at /\ y.kind = edit[t].kind
          /\ y.order = edit[t].order /\ y.base = edit[t].base /\ y.next = next
          /\ y.report = edit[t].report
      BY <1>1, <3>3 DEF Transaction
    <3> HIDE DEF y
    <3>6. /\ edit[t].order \in Orders /\ edit[t].report = "none"
          /\ edit[t].kind = "agent" => Len(edit[t].order) <= 1
      BY <1>1, <3>1 DEF EditInv
    <3>7. y.next \in 1 .. Len(y.order) + 1 /\ y.next <= Len(y.order)
      BY <1>1, <3>3, <3>5
    <3> QED
      BY <3>1, <3>3, <3>4, <3>5, <3>6, <3>7
  <2>4. CASE Conflict(t)
    <3> DEFINE y == [edit[t] EXCEPT !.at = "done", !.report = "untouched"]
    <3>1. edit' = [edit EXCEPT ![t] = y] /\ edit[t].at = "checking"
      BY <2>4, <1>1 DEF Conflict, Reported, Transaction
    <3>2. /\ y \in Transaction /\ y.at = "done" /\ y.kind = edit[t].kind
          /\ y.order = edit[t].order /\ y.base = edit[t].base /\ y.next = edit[t].next
          /\ y.report = "untouched"
      BY <1>1 DEF Transaction
    <3> HIDE DEF y
    <3> QED
      BY <1>1, <3>1, <3>2 DEF EditInv, EditTypeOK
  <2> QED
    BY <2>1, <2>2, <2>3, <2>4
<1>5. PICK y \in Transaction :
         /\ edit' = [edit EXCEPT ![t] = y]
         /\ y.base = edit[t].base \/ (edit[t].at = "idle" /\ y.base = content)
         /\ y.at \in {"previewed", "checking", "writing", "done"}
         /\ y.at # "done" => y.report = "none" /\ y.order \in Orders
         /\ y.at = "writing" => y.next = 1
         /\ y.at = "done" => y.report = "untouched"
         /\ y.kind = "agent" => Len(y.order) <= 1
         /\ y.at \in {"previewed", "checking"} => y.next <= Len(y.order)
         /\ y.next \in 1 .. Len(y.order) + 1
         /\ y.kind = edit[t].kind \/ edit[t].at = "idle"
  BY <1>4
<1>6. edit[t].at \in {"idle", "previewed", "checking"}
  BY DEF Preview, BeginEdit, CheckFile, Conflict
<1>7. \A f \in Targets : ~Written(t, f)
  BY <1>6 DEF Written
<1>8. receipt # t
  BY <1>1, <1>6 DEF EditInv
<1>9. \A o \in Edits : EditInv(o)'
  BY <1>3, <1>5, <1>7, <1>8, OwnMove
<1>10. SaveLockInv'
  BY <1>3, <1>5, LockKept
<1>11. content \in [Targets -> Authors] /\ saveLock \in Authors /\ receipt \in Authors
  BY <1>1 DEF EditTypeOK
<1>12. EditTypes'
  BY <1>3, <1>5, <1>11, EditTyped
<1> QED
  BY <1>9, <1>10, <1>12 DEF EditsInv

\* An edit between its first check and its end.
LEMMA EditFacts ==
    ASSUME EditsInv, NEW t \in Edits
    PROVE  /\ edit \in [Edits -> Transaction] /\ edit[t] \in Transaction /\ EditInv(t)
           /\ edit[t].order \in Seq(Targets) /\ Len(edit[t].order) \in Nat
           /\ edit[t].next \in 1 .. Len(edit[t].order) + 1
           /\ edit[t].base \in [Targets -> Authors]
           /\ content \in [Targets -> Authors] /\ saveLock \in Authors /\ applyLock \in Authors
           /\ receipt \in Authors /\ t \in Authors /\ NoWriter \in Authors
<1>1. /\ edit \in [Edits -> Transaction] /\ EditInv(t) /\ EditTypeOK
      /\ t \in Authors /\ NoWriter \in Authors
  BY DEF EditsInv, EditTypes, Authors
<1>2. edit[t].order \in Seq(Targets)
  <2>1. edit[t].order \in Orders \cup {<<>>}
    BY <1>1 DEF Transaction
  <2>2. <<>> \in Seq(Targets)
    OBVIOUS
  <2> QED
    BY <2>1, <2>2, EditAssumption
<1>3. edit[t].next \in 1 .. Len(edit[t].order) + 1
  BY <1>1 DEF EditTypeOK
<1>4. edit[t].base \in [Targets -> Authors]
  BY <1>1 DEF Transaction
<1>5. /\ content \in [Targets -> Authors] /\ saveLock \in Authors /\ applyLock \in Authors
      /\ receipt \in Authors
  BY <1>1 DEF EditTypeOK
<1>6. edit[t] \in Transaction /\ Len(edit[t].order) \in Nat
  BY <1>1, <1>2
<1> QED
  BY <1>1, <1>2, <1>3, <1>4, <1>5, <1>6

\* The steps from the first write on, except the comparison under the lock.
LEMMA MoveKeeps ==
    ASSUME EditsInv, NEW t \in Edits, NEW y \in Transaction,
           edit' = [edit EXCEPT ![t] = y], edit[t].at \notin {"idle", "done"},
           y.base = edit[t].base, y.kind = edit[t].kind, y.order = edit[t].order,
           y.at \in {"writing", "undoing", "done"}, y.at # "done" => y.report = "none",
           y.kind = "agent" => y.at # "undoing", y.next \in 1 .. Len(y.order) + 1,
           content' \in [Targets -> Authors],
           \A f \in Targets : content'[f] \in {content[f], edit[t].base[f], t},
           content' = content \/ edit[t].kind # "agent" \/ edit[t].at = "renaming",
           saveLock' \in Authors, saveLock' = saveLock \/ saveLock = t, applyLock' \in Authors,
           receipt' = receipt \/ (receipt' = t /\ y.report = "applied"), save' = save,
           \A f \in Targets : Written(t, f) /\ content'[f] = t => Written(t, f)',
           \A f \in Targets : content'[f] = t => content[f] = t \/ Written(t, f)'
    PROVE  EditsInv'
<1>1. /\ EditInv(t) /\ receipt \in Authors /\ t \in Authors
      /\ edit[t].order \in Orders /\ edit[t].report = "none"
      /\ edit[t].kind = "agent" => Len(edit[t].order) <= 1
  BY EditFacts DEF EditInv
<1>2. receipt' \in {receipt, t} /\ (receipt' = t => y.report = "applied") /\ receipt' \in Authors
  BY <1>1 DEF EditInv
<1>3. \A o \in Edits : EditInv(o)'
  BY <1>1, <1>2, OwnMove
<1>4. SaveLockInv'
  BY LockKept
<1>5. EditTypes'
  BY <1>2, EditTyped
<1> QED
  BY <1>3, <1>4, <1>5 DEF EditsInv

\* A file is written past the lock.
LEMMA WriteFileStep ==
    ASSUME EditsInv, NEW t \in Edits, WriteFile(t)
    PROVE  EditsInv'
<1> DEFINE next == edit[t].next + 1
           y == [edit[t] EXCEPT !.next = next]
<1>1. /\ edit[t] \in Transaction /\ edit \in [Edits -> Transaction] /\ EditInv(t)
      /\ edit[t].order \in Seq(Targets) /\ Len(edit[t].order) \in Nat
      /\ edit[t].next \in 1 .. Len(edit[t].order)
      /\ content \in [Targets -> Authors] /\ t \in Authors
      /\ saveLock \in Authors /\ applyLock \in Authors
  BY EditFacts DEF WriteFile, AllWritten
<1>2. NextFile(t) \in Targets
  BY <1>1 DEF NextFile
<1>3. /\ edit' = [edit EXCEPT ![t] = y] /\ edit[t].at = "writing" /\ edit[t].kind # "agent"
      /\ content' = [content EXCEPT ![NextFile(t)] = t]
      /\ saveLock' = saveLock /\ applyLock' = applyLock /\ receipt' = receipt /\ save' = save
  BY <1>1 DEF WriteFile, editLocks
<1>4. /\ y \in Transaction /\ y.at = "writing" /\ y.kind = edit[t].kind
      /\ y.order = edit[t].order /\ y.base = edit[t].base /\ y.next = edit[t].next + 1
      /\ y.report = edit[t].report
  <2>1. next \in Nat
    BY <1>1
  <2> HIDE DEF next
  <2> QED
    BY <1>1, <1>3, <2>1 DEF Transaction, next
<1> HIDE DEF y
<1>5. edit'[t] = y
  BY <1>1, <1>3
<1>6. /\ content' \in [Targets -> Authors] /\ content'[NextFile(t)] = t
      /\ \A f \in Targets : f # NextFile(t) => content'[f] = content[f]
  BY <1>1, <1>2, <1>3
<1>7. ASSUME NEW f \in Targets, Written(t, f) \/ f = NextFile(t)
      PROVE  Written(t, f)'
  <2>1. \E i \in 1 .. Len(edit[t].order) : i < edit[t].next + 1 /\ edit[t].order[i] = f
    BY <1>1, <1>3, <1>7 DEF Written, NextFile
  <2> QED
    BY <2>1, <1>4, <1>5 DEF Written
<1>8. y.report = "none" /\ y.next \in 1 .. Len(y.order) + 1
  BY <1>1, <1>3, <1>4 DEF EditInv
<1> QED
  BY <1>1, <1>3, <1>4, <1>6, <1>7, <1>8, MoveKeeps

\* The agent renames its file into place.
LEMMA RenameFileStep ==
    ASSUME EditsInv, NEW t \in Edits, RenameFile(t)
    PROVE  EditsInv'
<1> DEFINE next == edit[t].next + 1
           y == [edit[t] EXCEPT !.at = "writing", !.next = next]
<1>1. /\ edit[t] \in Transaction /\ edit \in [Edits -> Transaction] /\ EditInv(t)
      /\ edit[t].order \in Seq(Targets) /\ Len(edit[t].order) \in Nat
      /\ edit[t].next \in 1 .. Len(edit[t].order) + 1
      /\ content \in [Targets -> Authors] /\ t \in Authors /\ NoWriter \in Authors
      /\ saveLock \in Authors /\ applyLock \in Authors
  BY EditFacts
<1>2. edit[t].at = "renaming" /\ edit[t].next <= Len(edit[t].order) /\ saveLock = t
  BY <1>1 DEF RenameFile, EditInv, EditsInv, SaveLockInv
<1>3. NextFile(t) \in Targets /\ edit[t].next \in 1 .. Len(edit[t].order)
  BY <1>1, <1>2 DEF NextFile
<1>4. /\ edit' = [edit EXCEPT ![t] = y]
      /\ content' = [content EXCEPT ![NextFile(t)] = t]
      /\ saveLock' = NoWriter /\ applyLock' = applyLock /\ receipt' = receipt /\ save' = save
  BY <1>1 DEF RenameFile
<1>5. /\ y \in Transaction /\ y.at = "writing" /\ y.kind = edit[t].kind
      /\ y.order = edit[t].order /\ y.base = edit[t].base /\ y.next = edit[t].next + 1
      /\ y.report = edit[t].report
  <2>1. next \in Nat
    BY <1>1
  <2> HIDE DEF next
  <2> QED
    BY <1>1, <2>1 DEF Transaction, next
<1> HIDE DEF y
<1>6. edit'[t] = y
  BY <1>1, <1>4
<1>7. /\ content' \in [Targets -> Authors] /\ content'[NextFile(t)] = t
      /\ \A f \in Targets : f # NextFile(t) => content'[f] = content[f]
  BY <1>1, <1>3, <1>4
<1>8. ASSUME NEW f \in Targets, Written(t, f) \/ f = NextFile(t)
      PROVE  Written(t, f)'
  <2>1. \E i \in 1 .. Len(edit[t].order) : i < edit[t].next + 1 /\ edit[t].order[i] = f
    BY <1>1, <1>2, <1>3, <1>8 DEF Written, NextFile
  <2> QED
    BY <2>1, <1>5, <1>6 DEF Written
<1>9. y.report = "none" /\ y.next \in 1 .. Len(y.order) + 1
  BY <1>1, <1>2, <1>3, <1>5 DEF EditInv
<1> QED
  BY <1>1, <1>2, <1>4, <1>5, <1>7, <1>8, <1>9, MoveKeeps

\* What fails, and what ends an edit.
LEMMA EndStep ==
    ASSUME EditsInv, NEW t \in Edits,
           WriteFails(t) \/ CommitEdit(t) \/ ReceiptFails(t) \/ Restored(t)
    PROVE  EditsInv'
<1> DEFINE done(result) == [edit[t] EXCEPT !.at = "done", !.report = result]
           undo == [edit[t] EXCEPT !.at = "undoing"]
<1>1. /\ edit[t] \in Transaction /\ edit \in [Edits -> Transaction] /\ EditInv(t)
      /\ edit[t].order \in Seq(Targets) /\ Len(edit[t].order) \in Nat
      /\ edit[t].next \in 1 .. Len(edit[t].order) + 1
      /\ content \in [Targets -> Authors] /\ t \in Authors /\ NoWriter \in Authors
      /\ saveLock \in Authors /\ applyLock \in Authors
  BY EditFacts
<1>2. /\ content' = content /\ save' = save
      /\ saveLock' = saveLock \/ (saveLock' = NoWriter /\ saveLock = t)
      /\ applyLock' \in Authors
      /\ edit[t].at \in {"writing", "renaming", "undoing"}
  BY <1>1 DEF WriteFails, CommitEdit, ReceiptFails, Restored, editLocks, ReleaseLock
<1>3. ASSUME NEW result \in {"untouched", "applied", "rolled back", "failed"}
      PROVE  /\ done(result) \in Transaction /\ done(result).at = "done"
             /\ done(result).kind = edit[t].kind /\ done(result).order = edit[t].order
             /\ done(result).base = edit[t].base /\ done(result).next = edit[t].next
             /\ done(result).report = result
  BY <1>1 DEF Transaction
<1>4. /\ undo \in Transaction /\ undo.at = "undoing" /\ undo.kind = edit[t].kind
      /\ undo.order = edit[t].order /\ undo.base = edit[t].base /\ undo.next = edit[t].next
      /\ undo.report = edit[t].report /\ undo.restored = edit[t].restored
  BY <1>1 DEF Transaction
<1>5. ASSUME NEW result \in {"untouched", "applied", "rolled back", "failed"},
             edit' = [edit EXCEPT ![t] = done(result)],
             receipt' = receipt \/ (receipt' = t /\ result = "applied"),
             \/ result \in {"applied", "failed"}
             \/ \A f \in Targets : ~Written(t, f)
      PROVE  EditsInv'
  <2>1. PICK y \in Transaction :
           /\ edit' = [edit EXCEPT ![t] = y] /\ y.at = "done" /\ y.kind = edit[t].kind
           /\ y.order = edit[t].order /\ y.base = edit[t].base /\ y.next = edit[t].next
           /\ y.report = result
    BY <1>3, <1>5
  <2>2. edit'[t] = y
    BY <1>1, <2>1
  <2>3. \A f \in Targets : Written(t, f) => Written(t, f)'
    BY <1>5, <2>1, <2>2 DEF Written
  <2>4. /\ saveLock' \in Authors /\ (saveLock' = saveLock \/ saveLock = t)
        /\ y.next \in 1 .. Len(y.order) + 1 /\ edit[t].at \notin {"idle", "done"}
        /\ y.at \in {"writing", "undoing", "done"}
    BY <1>1, <1>2, <2>1
  <2>5. y.kind = "agent" => y.at # "undoing"
    BY <2>1
  <2>6. y.at # "done" => y.report = "none"
    BY <2>1
  <2> HIDE DEF done, undo
  <2> QED
    BY <1>1, <1>2, <1>5, <2>1, <2>3, <2>4, <2>5, <2>6, MoveKeeps
<1>6. ASSUME edit' = [edit EXCEPT ![t] = undo], receipt' = receipt, edit[t].kind # "agent",
             edit[t].at # "undoing"
      PROVE  EditsInv'
  <2>1. PICK y \in Transaction :
           /\ edit' = [edit EXCEPT ![t] = y] /\ y.at = "undoing" /\ y.kind = edit[t].kind
           /\ y.order = edit[t].order /\ y.base = edit[t].base /\ y.next = edit[t].next
           /\ y.report = edit[t].report
    BY <1>4, <1>6
  <2>2. edit'[t] = y
    BY <1>1, <2>1
  <2>3. \A f \in Targets : Written(t, f) => Written(t, f)'
    BY <1>2, <1>6, <2>1, <2>2 DEF Written
  <2>4. /\ saveLock' \in Authors /\ (saveLock' = saveLock \/ saveLock = t)
        /\ y.next \in 1 .. Len(y.order) + 1 /\ edit[t].at \notin {"idle", "done"}
        /\ y.at \in {"writing", "undoing", "done"}
    BY <1>1, <1>2, <2>1
  <2>5. y.kind = "agent" => y.at # "undoing"
    BY <1>6, <2>1
  <2>6. y.at # "done" => y.report = "none"
    BY <1>1, <1>2, <2>1 DEF EditInv
  <2> HIDE DEF done, undo
  <2> QED
    BY <1>1, <1>2, <1>6, <2>1, <2>3, <2>4, <2>5, <2>6, MoveKeeps
<1>7. CASE WriteFails(t)
  <2>1. CASE edit[t].next = 1
    <3>1. edit' = [edit EXCEPT ![t] = done("untouched")] /\ receipt' = receipt
      BY <1>1, <1>7, <2>1 DEF WriteFails, Reported
    <3>2. edit[t].at \in {"writing", "renaming"}
      BY <1>7 DEF WriteFails
    <3>3. \A f \in Targets : ~Written(t, f)
      BY <1>1, <2>1, <3>2 DEF Written
    <3> QED
      BY <1>5, <3>1, <3>3
  <2>2. CASE edit[t].next # 1
    <3>1. edit' = [edit EXCEPT ![t] = undo] /\ receipt' = receipt /\ edit[t].at # "undoing"
      BY <1>1, <1>7, <2>2 DEF WriteFails
    <3>2. edit[t].next <= Len(edit[t].order)
      BY <1>1, <1>7 DEF WriteFails, AllWritten
    <3>3. edit[t].kind # "agent"
      BY <1>1, <2>2, <3>2 DEF EditInv
    <3> QED
      BY <1>6, <3>1, <3>3
  <2> QED
    BY <2>1, <2>2
<1>8. CASE CommitEdit(t)
  <2>1. /\ edit' = [edit EXCEPT ![t] = done("applied")]
        /\ receipt' = receipt \/ receipt' = t
    BY <1>1, <1>8 DEF CommitEdit, Reported
  <2> QED
    BY <1>5, <2>1
<1>9. CASE ReceiptFails(t)
  <2>1. /\ edit' = [edit EXCEPT ![t] = undo] /\ receipt' = receipt
        /\ edit[t].kind # "agent" /\ edit[t].at # "undoing"
    BY <1>1, <1>9 DEF ReceiptFails
  <2> QED
    BY <1>6, <2>1
<1>10. CASE Restored(t)
  <2>1. edit[t].at = "undoing" /\ edit[t].next = 1 /\ receipt' = receipt
    BY <1>10 DEF Restored
  <2>2. CASE edit[t].restored
    <3>1. edit' = [edit EXCEPT ![t] = done("rolled back")]
      BY <1>1, <1>10, <2>2 DEF Restored, Reported
    <3>2. \A f \in Targets : ~Written(t, f)
      BY <1>1, <2>1, <2>2 DEF Written
    <3> QED
      BY <1>5, <2>1, <3>1, <3>2
  <2>3. CASE ~edit[t].restored
    <3>1. edit' = [edit EXCEPT ![t] = done("failed")]
      BY <1>1, <1>10, <2>3 DEF Restored, Reported
    <3> QED
      BY <1>5, <2>1, <3>1
  <2> QED
    BY <2>2, <2>3
<1> QED
  BY <1>7, <1>8, <1>9, <1>10

\* A file is taken back, or the write that would take it back fails.
LEMMA RestoreFileStep ==
    ASSUME EditsInv, NEW t \in Edits, RestoreFile(t)
    PROVE  EditsInv'
<1> DEFINE next == edit[t].next - 1
           f == edit[t].order[next]
<1>1. /\ edit[t] \in Transaction /\ edit \in [Edits -> Transaction] /\ EditInv(t)
      /\ edit[t].order \in Seq(Targets) /\ Len(edit[t].order) \in Nat
      /\ edit[t].next \in 1 .. Len(edit[t].order) + 1
      /\ content \in [Targets -> Authors] /\ t \in Authors
      /\ edit[t].base \in [Targets -> Authors]
      /\ saveLock \in Authors /\ applyLock \in Authors
  BY EditFacts
<1>2. /\ edit[t].at = "undoing" /\ edit[t].next > 1 /\ edit[t].report = "none"
      /\ edit[t].kind # "agent" /\ \A g \in Targets : edit[t].base[g] # t
  BY <1>1 DEF RestoreFile, EditInv
<1>3. /\ next \in 1 .. Len(edit[t].order) /\ next \in Nat /\ f \in Targets
      /\ next \in 1 .. Len(edit[t].order) + 1
  BY <1>1, <1>2
<1>4. /\ saveLock' = saveLock /\ applyLock' = applyLock /\ receipt' = receipt /\ save' = save
  BY DEF RestoreFile, editLocks
<1>5. \E y \in Transaction :
         /\ edit' = [edit EXCEPT ![t] = y] /\ y.at = "undoing" /\ y.kind = edit[t].kind
         /\ y.order = edit[t].order /\ y.base = edit[t].base /\ y.next = next
         /\ y.report = "none"
         /\ \/ content' = [content EXCEPT ![f] = edit[t].base[f]] /\ y.restored = edit[t].restored
            \/ content' = content /\ ~y.restored
  <2>1. CASE /\ content' = [content EXCEPT ![f] = edit[t].base[f]]
             /\ edit' = [edit EXCEPT ![t].next = @ - 1]
    <3> DEFINE y == [edit[t] EXCEPT !.next = next]
    <3>1. edit' = [edit EXCEPT ![t] = y]
      BY <1>1, <2>1
    <3> HIDE DEF next
    <3>2. /\ y \in Transaction /\ y.at = "undoing" /\ y.kind = edit[t].kind
          /\ y.order = edit[t].order /\ y.base = edit[t].base /\ y.next = next
          /\ y.report = "none" /\ y.restored = edit[t].restored
      BY <1>1, <1>2, <1>3 DEF Transaction
    <3> HIDE DEF y
    <3> QED
      BY <2>1, <3>1, <3>2
  <2>2. CASE /\ edit' = [edit EXCEPT ![t].next = @ - 1, ![t].restored = FALSE]
             /\ content' = content
    <3> DEFINE y == [edit[t] EXCEPT !.next = next, !.restored = FALSE]
    <3>1. edit' = [edit EXCEPT ![t] = y]
      BY <1>1, <2>2
    <3> HIDE DEF next
    <3>2. /\ y \in Transaction /\ y.at = "undoing" /\ y.kind = edit[t].kind
          /\ y.order = edit[t].order /\ y.base = edit[t].base /\ y.next = next
          /\ y.report = "none" /\ y.restored = FALSE
      BY <1>1, <1>2, <1>3 DEF Transaction
    <3> HIDE DEF y
    <3> QED
      BY <2>2, <3>1, <3>2
  <2> QED
    BY <2>1, <2>2 DEF RestoreFile
<1>6. PICK y \in Transaction :
         /\ edit' = [edit EXCEPT ![t] = y] /\ y.at = "undoing" /\ y.kind = edit[t].kind
         /\ y.order = edit[t].order /\ y.base = edit[t].base /\ y.next = next
         /\ y.report = "none"
         /\ \/ content' = [content EXCEPT ![f] = edit[t].base[f]] /\ y.restored = edit[t].restored
            \/ content' = content /\ ~y.restored
  BY <1>5
<1>7. edit'[t] = y
  BY <1>1, <1>6
<1>8. ASSUME NEW g \in Targets
      PROVE  /\ content'[g] \in {content[g], edit[t].base[g], t}
             /\ content'[g] = t => content[g] = t
             /\ Written(t, g) /\ content'[g] = t => Written(t, g)'
  <2>1. content'[g] \in {content[g], edit[t].base[g]}
    BY <1>1, <1>3, <1>6
  <2>2. content'[g] = t => content[g] = t
    BY <1>2, <2>1
  <2>3. CASE ~y.restored
    BY <1>6, <1>7, <2>1, <2>2, <2>3 DEF Written
  <2>4. CASE /\ content' = [content EXCEPT ![f] = edit[t].base[f]]
             /\ y.restored = edit[t].restored
    <3>1. CASE g = f
      BY <1>1, <1>2, <1>3, <2>1, <2>2, <2>4, <3>1
    <3>2. CASE g # f
      <4>1. ASSUME NEW i \in 1 .. Len(edit[t].order), i < edit[t].next, edit[t].order[i] = g
            PROVE  i < next
        <5>1. i # next
          BY <3>2, <4>1
        <5> QED
          BY <1>1, <4>1, <5>1
      <4> HIDE DEF next, f
      <4>2. Written(t, g) => Written(t, g)'
        BY <1>2, <1>6, <1>7, <2>4, <4>1 DEF Written
      <4> QED
        BY <2>1, <2>2, <4>2
    <3> QED
      BY <3>1, <3>2
  <2> QED
    BY <1>6, <2>3, <2>4
<1>9. content' \in [Targets -> Authors]
  BY <1>1, <1>3, <1>6
<1> HIDE DEF next, f
<1>10. /\ y.kind = "agent" => y.at # "undoing"
       /\ y.next \in 1 .. Len(y.order) + 1 /\ edit[t].at \notin {"idle", "done"}
       /\ y.at \in {"writing", "undoing", "done"}
  BY <1>2, <1>3, <1>6
<1> QED
  BY <1>1, <1>2, <1>4, <1>6, <1>8, <1>9, <1>10, MoveKeeps

\* The agent compares under the lock.
LEMMA CompareFileStep ==
    ASSUME EditsInv, NEW t \in Edits, CompareFile(t)
    PROVE  EditsInv'
<1>1. /\ edit[t] \in Transaction /\ edit \in [Edits -> Transaction] /\ EditInv(t)
      /\ edit[t].order \in Seq(Targets) /\ Len(edit[t].order) \in Nat
      /\ edit[t].next \in 1 .. Len(edit[t].order) + 1
      /\ content \in [Targets -> Authors] /\ t \in Authors /\ receipt \in Authors
      /\ saveLock \in Authors /\ applyLock \in Authors /\ SaveLockInv
      /\ save \in [Savers -> BufferSave] /\ t # NoWriter
  BY EditFacts, EditAssumption DEF EditsInv, EditTypes
<1>2. /\ edit[t].at = "writing" /\ edit[t].kind = "agent" /\ saveLock = NoWriter
      /\ edit[t].next <= Len(edit[t].order) /\ edit[t].report = "none"
      /\ edit[t].order \in Orders /\ Len(edit[t].order) <= 1
      /\ content' = content /\ receipt' = receipt /\ save' = save /\ applyLock' = applyLock
  BY <1>1 DEF CompareFile, AllWritten, EditInv
<1>3. \A f \in Targets : ~Written(t, f)
  BY <1>1, <1>2 DEF Written
<1>4. CASE content[NextFile(t)] = edit[t].base[NextFile(t)]
  <2> DEFINE y == [edit[t] EXCEPT !.at = "renaming"]
  <2>1. edit' = [edit EXCEPT ![t] = y] /\ saveLock' = t
    BY <1>1, <1>4 DEF CompareFile
  <2>2. /\ y \in Transaction /\ y.at = "renaming" /\ y.kind = edit[t].kind
        /\ y.order = edit[t].order /\ y.base = edit[t].base /\ y.next = edit[t].next
        /\ y.report = edit[t].report
    BY <1>1 DEF Transaction
  <2> HIDE DEF y
  <2>3. edit'[t] = y /\ \A d \in Edits \ {t} : edit'[d] = edit[d]
    BY <1>1, <2>1
  <2>4. receipt # t
    BY <1>1, <1>2 DEF EditInv
  <2>5. \A o \in Edits : EditInv(o)'
    BY <1>2, <1>3, <2>1, <2>2, <2>4, OwnMove
  <2>6. y.next \in 1 .. Len(y.order) + 1
    BY <1>1, <2>2
  <2>7. EditTypes'
    BY <1>1, <1>2, <2>1, <2>2, <2>6, EditTyped
  <2>8. ASSUME NEW d \in Edits, edit'[d].at = "renaming"
        PROVE  d = t
    BY <1>1, <1>2, <2>3, <2>8, EditAssumption DEF SaveLockInv
  <2>9. NextFile(t)' = NextFile(t)
    BY <2>2, <2>3 DEF NextFile
  <2>10. \A s \in Savers : save[s].at \notin Targets
    BY <1>1, <1>2, EditAssumption DEF SaveLockInv
  <2>11. SaveLockInv'
    BY <1>2, <1>4, <2>1, <2>2, <2>3, <2>8, <2>9, <2>10 DEF SaveLockInv
  <2> QED
    BY <2>5, <2>7, <2>11 DEF EditsInv
<1>5. CASE content[NextFile(t)] # edit[t].base[NextFile(t)]
  <2> DEFINE y == [edit[t] EXCEPT !.at = "done", !.report = "untouched"]
  <2>1. edit' = [edit EXCEPT ![t] = y] /\ saveLock' = saveLock
    BY <1>1, <1>5 DEF CompareFile, Reported
  <2>2. /\ y \in Transaction /\ y.at = "done" /\ y.kind = edit[t].kind
        /\ y.order = edit[t].order /\ y.base = edit[t].base /\ y.next = edit[t].next
        /\ y.report = "untouched"
    BY <1>1 DEF Transaction
  <2> HIDE DEF y
  <2>3. /\ y.next \in 1 .. Len(y.order) + 1 /\ edit[t].at \notin {"idle", "done"}
        /\ y.at \in {"writing", "undoing", "done"}
    BY <1>1, <1>2, <2>2
  <2> QED
    BY <1>1, <1>2, <1>3, <2>1, <2>2, <2>3, MoveKeeps
<1> QED
  BY <1>4, <1>5

\* What an edit knows survives a save of the editor.
LEMMA SaverKeeps ==
    ASSUME EditsInv, NEW s \in Savers, edit' = edit, receipt' = receipt,
           \A f \in Targets : content'[f] \in {content[f], s}
    PROVE  \A t \in Edits : EditInv(t)'
<1> SUFFICES ASSUME NEW t \in Edits PROVE EditInv(t)'
  OBVIOUS
<1>1. EditInv(t) /\ s # t
  BY EditAssumption DEF EditsInv
<1>2. ASSUME NEW f \in Targets, content'[f] = t
      PROVE  Based(t, f)' \/ Written(t, f)'
  <2>1. Based(t, f) \/ Written(t, f)
    BY <1>1, <1>2 DEF EditInv
  <2> QED
    BY <2>1 DEF Based, Written
<1> QED
  BY <1>1, <1>2 DEF EditInv

\* The saves of the editor.
LEMMA SaverStep ==
    ASSUME EditsInv, NEW s \in Savers,
           OpenBuffer(s) \/ BufferFails(s) \/ \E f \in Targets : CompareSave(s, f) \/ RenameSave(s, f)
    PROVE  EditsInv'
<1>1. /\ save \in [Savers -> BufferSave] /\ SaveLockInv /\ EditTypeOK
      /\ content \in [Targets -> Authors] /\ saveLock \in Authors /\ s \in Authors
      /\ NoWriter \in Authors /\ s # NoWriter /\ edit \in [Edits -> Transaction]
      /\ {"idle", "open", "done"} \cap Targets = {} /\ save[s] \in BufferSave
  BY EditAssumption DEF EditsInv, EditTypes, EditTypeOK, Authors
<1>2. edit' = edit /\ receipt' = receipt /\ applyLock' = applyLock
  BY DEF OpenBuffer, BufferFails, CompareSave, RenameSave, editLocks
<1>3. NextFile(s)' = NextFile(s) /\ \A d \in Edits : NextFile(d)' = NextFile(d)
  BY <1>2 DEF NextFile
<1>4. OnlyAgents' = OnlyAgents
  BY <1>2 DEF OnlyAgents
<1>5. ASSUME content' \in [Targets -> Authors], saveLock' \in Authors,
             save' \in [Savers -> BufferSave], SaveLockInv',
             \A f \in Targets : content'[f] \in {content[f], s}
      PROVE  EditsInv'
  <2>1. EditTypes'
    BY <1>1, <1>2, <1>5 DEF EditTypes, EditTypeOK, Authors
  <2> QED
    BY <1>2, <1>5, <2>1, SaverKeeps DEF EditsInv
<1>6. CASE OpenBuffer(s)
  <2> DEFINE y == [at |-> "open", base |-> content]
  <2>1. /\ save' = [save EXCEPT ![s] = y] /\ content' = content /\ saveLock' = saveLock
    BY <1>6 DEF OpenBuffer, editLocks
  <2>2. y \in BufferSave /\ y.at = "open"
    BY <1>1 DEF BufferSave
  <2> HIDE DEF y
  <2>3. save' \in [Savers -> BufferSave]
    BY <1>1, <2>1, <2>2
  <2>4. ASSUME NEW d \in Savers, save'[d].at \in Targets
        PROVE  save'[d] = save[d]
    BY <1>1, <2>1, <2>2, <2>4
  <2>5. SaveLockInv'
    BY <1>1, <1>2, <1>3, <1>4, <2>1, <2>4 DEF SaveLockInv
  <2> QED
    BY <1>1, <1>5, <2>1, <2>3, <2>5
<1>7. CASE \E f \in Targets : CompareSave(s, f)
  <2>1. PICK f \in Targets : CompareSave(s, f)
    BY <1>7
  <2> DEFINE y == [save[s] EXCEPT !.at = f]
  <2>2. /\ save' = [save EXCEPT ![s] = y] /\ content' = content /\ saveLock' = s
        /\ saveLock = NoWriter /\ content[f] = save[s].base[f]
    BY <1>1, <2>1 DEF CompareSave
  <2>3. y \in BufferSave /\ y.at = f /\ y.base = save[s].base
    BY <1>1 DEF BufferSave
  <2> HIDE DEF y
  <2>4. save' \in [Savers -> BufferSave] /\ save'[s] = y
    BY <1>1, <2>2, <2>3
  <2>5. ASSUME NEW d \in Savers, save'[d].at \in Targets
        PROVE  d = s
    BY <1>1, <2>2, <2>5, EditAssumption DEF SaveLockInv
  <2>6. \A d \in Edits : edit[d].at # "renaming"
    BY <1>1, <2>2, EditAssumption DEF SaveLockInv
  <2>7. SaveLockInv'
    BY <1>2, <2>2, <2>3, <2>4, <2>5, <2>6 DEF SaveLockInv
  <2> QED
    BY <1>1, <1>5, <2>2, <2>4, <2>7
<1>8. ASSUME save[s].at \in Targets, saveLock' = NoWriter,
             save' = [save EXCEPT ![s].at = "done"],
             content' \in [Targets -> Authors], \A f \in Targets : content'[f] \in {content[f], s}
      PROVE  EditsInv'
  <2> DEFINE y == [save[s] EXCEPT !.at = "done"]
  <2>1. save' = [save EXCEPT ![s] = y] /\ saveLock = s
    BY <1>1, <1>8 DEF SaveLockInv
  <2>2. y \in BufferSave /\ y.at = "done"
    BY <1>1 DEF BufferSave
  <2> HIDE DEF y
  <2>3. save' \in [Savers -> BufferSave] /\ save'[s] = y
    BY <1>1, <2>1, <2>2
  <2>4. ASSUME NEW d \in Savers PROVE save'[d].at \notin Targets
    <3>1. CASE d = s
      BY <1>1, <2>2, <2>3, <3>1
    <3>2. CASE d # s
      BY <1>1, <2>1, <3>2 DEF SaveLockInv
    <3> QED
      BY <3>1, <3>2
  <2>5. \A d \in Edits : edit[d].at # "renaming"
    BY <1>1, <2>1, EditAssumption DEF SaveLockInv
  <2>6. SaveLockInv'
    BY <1>2, <2>4, <2>5 DEF SaveLockInv
  <2> QED
    BY <1>1, <1>5, <1>8, <2>3, <2>6
<1>9. CASE \E f \in Targets : RenameSave(s, f)
  <2>1. PICK f \in Targets : RenameSave(s, f)
    BY <1>9
  <2>2. /\ save[s].at \in Targets /\ saveLock' = NoWriter
        /\ save' = [save EXCEPT ![s].at = "done"] /\ content' = [content EXCEPT ![f] = s]
    BY <2>1 DEF RenameSave
  <2>3. content' \in [Targets -> Authors] /\ \A g \in Targets : content'[g] \in {content[g], s}
    BY <1>1, <2>2
  <2> QED
    BY <1>8, <2>2, <2>3
<1>10. CASE BufferFails(s)
  <2>1. /\ save[s].at \in Targets /\ saveLock' = NoWriter
        /\ save' = [save EXCEPT ![s].at = "done"] /\ content' = content
    BY <1>10 DEF BufferFails
  <2> QED
    BY <1>1, <1>8, <2>1
<1> QED
  BY <1>6, <1>7, <1>9, <1>10

\* What was written stays written.
LEMMA EditDieStep ==
    ASSUME EditsInv, Die
    PROVE  EditsInv'
<1>1. /\ save \in [Savers -> BufferSave] /\ edit \in [Edits -> Transaction] /\ EditTypeOK
      /\ {"idle", "open", "done"} \cap Targets = {} /\ NoWriter \in Authors
  BY EditAssumption DEF EditsInv, EditTypes, Authors
<1>2. /\ edit' = [t \in Edits |-> [edit[t] EXCEPT !.at = "done"]]
      /\ save' = [s \in Savers |-> [save[s] EXCEPT !.at = "done"]]
      /\ saveLock' = NoWriter /\ applyLock' = NoWriter /\ content' = content
      /\ receipt' = receipt
  BY DEF Die
<1>3. ASSUME NEW t \in Edits
      PROVE  /\ edit'[t] \in Transaction /\ edit'[t].at = "done" /\ edit'[t].kind = edit[t].kind
             /\ edit'[t].order = edit[t].order /\ edit'[t].base = edit[t].base
             /\ edit'[t].next = edit[t].next /\ edit'[t].report = edit[t].report
  BY <1>1, <1>2 DEF Transaction
<1>4. ASSUME NEW s \in Savers
      PROVE  save'[s] \in BufferSave /\ save'[s].at = "done"
  BY <1>1, <1>2 DEF BufferSave
<1>5. SaveLockInv'
  BY <1>1, <1>3, <1>4 DEF SaveLockInv
<1>6. EditTypes'
  <2>1. edit' \in [Edits -> Transaction] /\ save' \in [Savers -> BufferSave]
    BY <1>2, <1>3, <1>4
  <2>2. ASSUME NEW t \in Edits
        PROVE  /\ edit'[t].kind \in Kinds /\ edit'[t].order \in Orders \cup {<<>>}
               /\ edit'[t].next \in 1 .. Len(edit'[t].order) + 1
               /\ edit'[t].report \in {"none", "untouched", "applied", "rolled back", "failed"}
    BY <1>1, <1>3 DEF EditTypeOK
  <2>3. content \in [Targets -> Authors] /\ receipt \in Authors
    BY <1>1 DEF EditTypeOK
  <2> QED
    BY <1>1, <1>2, <2>1, <2>2, <2>3 DEF EditTypes, EditTypeOK, Authors
<1>7. ASSUME NEW t \in Edits
      PROVE  EditInv(t)'
  <2>1. EditInv(t)
    BY DEF EditsInv
  <2>2. ASSUME NEW f \in Targets, content'[f] = t
        PROVE  Based(t, f)' \/ Written(t, f)'
    <3>1. Based(t, f) \/ Written(t, f)
      BY <1>2, <2>1, <2>2 DEF EditInv
    <3>2. Based(t, f) => Based(t, f)'
      BY <1>3 DEF Based
    <3>3. Written(t, f) => Written(t, f)'
      BY <1>3, <2>1 DEF Written, EditInv
    <3> QED
      BY <3>1, <3>2, <3>3
  <2>3. ASSUME NEW f \in Targets, NEW other \in Edits, edit'[other].base[f] = t
        PROVE  other # t
    BY <1>3, <2>1, <2>3 DEF EditInv
  <2> QED
    BY <1>2, <1>3, <2>1, <2>2, <2>3 DEF EditInv
<1> QED
  BY <1>5, <1>6, <1>7 DEF EditsInv

\* Every step of the edits keeps the invariant.
LEMMA EditsStep ==
    ASSUME EditsInv, [EditNext]_editVars
    PROVE  EditsInv'
<1>1. CASE UNCHANGED editVars
  <2>1. /\ content' = content /\ edit' = edit /\ save' = save /\ saveLock' = saveLock
        /\ applyLock' = applyLock /\ receipt' = receipt
    BY <1>1 DEF editVars
  <2>2. EditTypes'
    BY <2>1 DEF EditsInv, EditTypes, EditTypeOK, Authors
  <2>3. SaveLockInv'
    BY <2>1 DEF EditsInv, SaveLockInv, OnlyAgents, NextFile
  <2>4. ASSUME NEW t \in Edits PROVE EditInv(t)'
    <3>1. EditInv(t)
      BY DEF EditsInv
    <3>2. \A f \in Targets : (Based(t, f) \/ Written(t, f)) => Based(t, f)' \/ Written(t, f)'
      BY <2>1 DEF Based, Written
    <3> QED
      BY <2>1, <3>1, <3>2 DEF EditInv
  <2> QED
    BY <2>2, <2>3, <2>4 DEF EditsInv
<1>2. CASE EditNext
  BY <1>2, CheckStep, WriteFileStep, RenameFileStep, EndStep, RestoreFileStep, CompareFileStep,
     SaverStep, EditDieStep DEF EditNext
<1> QED
  BY <1>1, <1>2

\* The invariant of the edits holds in every reachable state.
LEMMA EditsInvariant == EditSpec => []EditsInv
<1>1. EditInit => EditsInv
  <2> SUFFICES ASSUME EditInit PROVE EditsInv
    OBVIOUS
  <2>1. /\ NoEdit \in Transaction /\ NoSave \in BufferSave /\ NoEdit.at = "idle"
        /\ NoEdit.kind = "agent" /\ NoEdit.order = <<>> /\ NoEdit.next = 1
        /\ NoEdit.report = "none" /\ NoSave.at = "idle"
        /\ \A f \in Targets : NoEdit.base[f] = NoWriter
    BY DEF NoEdit, NoSave, Transaction, BufferSave, Kinds, Authors
  <2>2. EditTypes
    <3>1. /\ content \in [Targets -> Authors] /\ saveLock \in Authors /\ applyLock \in Authors
          /\ receipt \in Authors
      BY DEF EditInit, Authors
    <3>2. edit \in [Edits -> Transaction] /\ save \in [Savers -> BufferSave]
      BY <2>1 DEF EditInit
    <3>3. ASSUME NEW t \in Edits
          PROVE  edit[t].next \in 1 .. Len(edit[t].order) + 1
      BY <2>1 DEF EditInit
    <3>4. \A t \in Edits :
             /\ edit[t].kind \in Kinds /\ edit[t].order \in Orders \cup {<<>>}
             /\ edit[t].report \in {"none", "untouched", "applied", "rolled back", "failed"}
      BY <2>1 DEF EditInit, Kinds
    <3> QED
      BY <3>1, <3>2, <3>3, <3>4 DEF EditTypes, EditTypeOK
  <2>3. SaveLockInv
    BY <2>1, EditAssumption DEF EditInit, SaveLockInv
  <2>4. ASSUME NEW t \in Edits PROVE EditInv(t)
    BY <2>1, EditAssumption DEF EditInit, EditInv
  <2> QED
    BY <2>2, <2>3, <2>4 DEF EditsInv
<1>2. EditsInv /\ [EditNext]_editVars => EditsInv'
  BY EditsStep
<1> QED
  BY <1>1, <1>2, PTL DEF EditSpec

-----------------------------------------------------------------------------
(* Edits: the properties.                                                  *)

\* No step reports for one edit and moves another.
LEMMA OneEditMoves ==
    ASSUME EditsInv, [EditNext]_editVars, NEW t \in Edits, edit'[t].report # edit[t].report,
           NEW other \in Edits, other # t
    PROVE  edit'[other] = edit[other]
<1>1. edit \in [Edits -> Transaction]
  BY DEF EditsInv, EditTypes
<1>2. edit' # edit
  OBVIOUS
<1>3. ~Die
  <2>1. edit[t] \in Transaction
    BY <1>1
  <2>2. [edit[t] EXCEPT !.at = "done"].report = edit[t].report
    BY <2>1 DEF Transaction
  <2> QED
    BY <2>2 DEF Die
<1>4. \A s \in Savers : ~OpenBuffer(s) /\ ~BufferFails(s)
  BY <1>2 DEF OpenBuffer, BufferFails
<1>5. \A s \in Savers, f \in Targets : ~CompareSave(s, f) /\ ~RenameSave(s, f)
  BY <1>2 DEF CompareSave, RenameSave
<1>6. PICK d \in Edits :
         \/ Preview(d) \/ BeginEdit(d) \/ CheckFile(d) \/ Conflict(d)
         \/ WriteFile(d) \/ CompareFile(d) \/ RenameFile(d) \/ WriteFails(d)
         \/ CommitEdit(d) \/ ReceiptFails(d) \/ RestoreFile(d) \/ Restored(d)
  BY <1>2, <1>3, <1>4, <1>5 DEF EditNext, editVars
<1>7. \E y : edit' = [edit EXCEPT ![d] = y]
  <2>1. CASE Preview(d) \/ BeginEdit(d) \/ CheckFile(d) \/ Conflict(d)
    BY <2>1 DEF Preview, BeginEdit, CheckFile, Conflict, Reported
  <2>2. CASE WriteFile(d) \/ CompareFile(d) \/ RenameFile(d) \/ WriteFails(d)
    BY <2>2 DEF WriteFile, CompareFile, RenameFile, WriteFails, Reported
  <2>3. CASE CommitEdit(d) \/ ReceiptFails(d) \/ RestoreFile(d) \/ Restored(d)
    BY <2>3 DEF CommitEdit, ReceiptFails, RestoreFile, Restored, Reported
  <2> QED
    BY <1>6, <2>1, <2>2, <2>3
<1> QED
  BY <1>1, <1>7

\* The result that an edit returns is the truth about the disk: whatever the
\* files, the orders and the number of edits and saves are.
LEMMA ResultStep ==
    ASSUME EditsInv, [EditNext]_editVars
    PROVE  ResultIsTrue
<1> SUFFICES ASSUME NEW t \in Edits, Reports(t, "untouched") \/ Reports(t, "rolled back")
             PROVE  /\ receipt' # t
                    /\ \A f \in Targets :
                         content'[f] = t => \E other \in Edits \ {t} : edit[other].base[f] = t
  BY DEF ResultIsTrue
<1>1. /\ edit \in [Edits -> Transaction] /\ EditInv(t) /\ EditsInv'
      /\ edit'[t].report \in {"untouched", "rolled back"} /\ edit[t].report = "none"
  BY EditsStep DEF EditsInv, EditTypes, Reports
<1>2. EditInv(t)'
  BY <1>1 DEF EditsInv
<1>3. receipt' # t
  BY <1>1, <1>2 DEF EditInv
<1>4. edit'[t].at = "done"
  BY <1>1, <1>2 DEF EditInv
<1>5. ASSUME NEW f \in Targets, content'[f] = t
      PROVE  \E other \in Edits \ {t} : edit[other].base[f] = t
  <2>1. ~Written(t, f)'
    BY <1>1, <1>4 DEF Written
  <2>2. PICK other \in Edits \ {t} : edit'[other].base[f] = t
    BY <1>2, <1>5, <2>1 DEF EditInv, Based
  <2>3. edit'[other].base = edit[other].base
    BY <1>1, <2>2, OneEditMoves
  <2> QED
    BY <2>2, <2>3
<1> QED
  BY <1>3, <1>5

\* Where all writers compare, nothing is replaced that its writer did not see.
LEMMA ComparedStep ==
    ASSUME EditsInv, [EditNext]_editVars
    PROVE  SavesAreCompared
<1> SUFFICES ASSUME OnlyAgents, NEW f \in Targets, content'[f] # content[f]
             PROVE  BaseOf(content'[f])[f] = content[f]
  BY DEF SavesAreCompared, OnlyAgents
<1>1. /\ SaveLockInv /\ \A t \in Edits : EditInv(t) /\ edit[t].kind = "agent"
      /\ content \in [Targets -> Authors] /\ Edits \cap Savers = {}
  BY EditAssumption DEF EditsInv, EditTypes, EditTypeOK, OnlyAgents
<1>2. \A t \in Edits : ~WriteFile(t) /\ ~RestoreFile(t)
  BY <1>1 DEF WriteFile, RestoreFile, EditInv
<1>3. content' # content
  OBVIOUS
<1>4. \A t \in Edits : ~Preview(t) /\ ~BeginEdit(t) /\ ~CheckFile(t) /\ ~Conflict(t)
  BY <1>3 DEF Preview, BeginEdit, CheckFile, Conflict
<1>5. \A t \in Edits : /\ ~CompareFile(t) /\ ~WriteFails(t) /\ ~CommitEdit(t)
                       /\ ~ReceiptFails(t) /\ ~Restored(t)
  BY <1>3 DEF CompareFile, WriteFails, CommitEdit, ReceiptFails, Restored
<1>6. \A s \in Savers : /\ ~OpenBuffer(s) /\ ~BufferFails(s)
                        /\ \A g \in Targets : ~CompareSave(s, g)
  BY <1>3 DEF OpenBuffer, BufferFails, CompareSave
<1>7. ~Die
  BY <1>3 DEF Die
<1>8. CASE \E t \in Edits : RenameFile(t)
  <2>1. PICK t \in Edits : RenameFile(t)
    BY <1>8
  <2>2. edit[t].at = "renaming" /\ content' = [content EXCEPT ![NextFile(t)] = t]
    BY <2>1 DEF RenameFile
  <2>3. f = NextFile(t) /\ content'[f] = t
    BY <1>1, <2>2
  <2>4. content[f] = edit[t].base[f]
    BY <1>1, <2>2, <2>3 DEF SaveLockInv
  <2> QED
    BY <1>1, <2>3, <2>4 DEF BaseOf
<1>9. CASE \E s \in Savers, g \in Targets : RenameSave(s, g)
  <2>1. PICK s \in Savers, g \in Targets : RenameSave(s, g)
    BY <1>9
  <2>2. save[s].at = g /\ content' = [content EXCEPT ![g] = s]
    BY <2>1 DEF RenameSave
  <2>3. f = g /\ content'[f] = s
    BY <1>1, <2>2
  <2>4. content[f] = save[s].base[f]
    BY <1>1, <2>2, <2>3 DEF SaveLockInv
  <2> QED
    BY <2>3, <2>4 DEF BaseOf
<1> QED
  BY <1>2, <1>3, <1>4, <1>5, <1>6, <1>7, <1>8, <1>9 DEF EditNext, editVars

\* The variables keep their types (editVars of EditTransaction).
THEOREM EditsAreTyped == EditSpec => []EditTypeOK
<1>1. EditsInv => EditTypeOK
  BY DEF EditsInv, EditTypes
<1> QED
  BY <1>1, EditsInvariant, PTL

\* Whatever edits and saves there are and whatever files they have: what an edit
\* reports is what the disk shows at that moment, and no write through the file
\* service replaces what its writer did not see (applyEditTransaction,
\* WriteFileIfUnchanged).
THEOREM EditsStayHonest == EditSpec => EditsAreHonest
<1>1. EditsInv /\ [EditNext]_editVars => [ResultIsTrue /\ SavesAreCompared]_editVars
  BY ResultStep, ComparedStep
<1> QED
  BY <1>1, EditsInvariant, PTL DEF EditSpec, EditsAreHonest

-----------------------------------------------------------------------------
(* The stores together.                                                    *)

\* The stores share no variable: a step is one of the store in focus, and leaves
\* the variables of the others as they are.
LEMMA StoresStepApart ==
    ASSUME [StorageNext /\ UNCHANGED focus]_storageVars
    PROVE  /\ [Next]_vars
           /\ [LedgerNext]_ledgerVars
           /\ [JournalNext]_journalVars
           /\ [EditNext]_editVars
           /\ [InstanceNext]_instanceVars
<1>1. CASE StorageNext BY <1>1 DEF StorageNext
<1>2. CASE UNCHANGED storageVars BY <1>2 DEF storageVars
<1> QED BY <1>1, <1>2

\* A behaviour of all stores is one of each.
LEMMA EveryStoreRuns ==
    StorageSpec => Spec /\ LedgerSpec /\ JournalSpec /\ EditSpec /\ InstanceSpec
<1>1. StorageInit => Init /\ LedgerInit /\ JournalInit /\ EditInit /\ InstanceInit
  BY DEF StorageInit
<1>2. [StorageNext /\ UNCHANGED focus]_storageVars =>
           /\ [Next]_vars
           /\ [LedgerNext]_ledgerVars
           /\ [JournalNext]_journalVars
           /\ [EditNext]_editVars
           /\ [InstanceNext]_instanceVars
  BY StoresStepApart
<1> QED
  BY <1>1, <1>2, PTL DEF StorageSpec, Spec, LedgerSpec, JournalSpec, EditSpec, InstanceSpec

\* The types of every store.
THEOREM StorageTypeCorrect == StorageSpec => []StorageTypeOK
<1>1. LockInv => InstanceTypeOK BY DEF LockInv
<1>2. TypeOK /\ LedgerTypeOK /\ JournalTypeOK /\ EditTypeOK /\ InstanceTypeOK => StorageTypeOK
  BY DEF StorageTypeOK
<1> QED
  BY <1>1, <1>2, EveryStoreRuns, TypeCorrect, LedgerTypeCorrect, JournalTypeCorrect,
     EditsAreTyped, LockInvariance, PTL
=============================================================================
