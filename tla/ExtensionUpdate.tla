--------------------------- MODULE ExtensionUpdate ---------------------------
(***************************************************************************)
(* Installing, updating, enabling and removing one extension               *)
(* (src/services/marketplace_service.go with the records of                *)
(* extension_security_service.go and activation_service.go), and the page  *)
(* that runs it (src/frontend/src/lib/crossWindowSync.ts and               *)
(* vscodeExtensionActivation.ts).                                          *)
(*                                                                         *)
(* One operation runs at a time, under updateMu.  It asks the page to stop *)
(* the extension, changes directories, records and registrations one by    *)
(* one, and tells the page how it ended.  The page handles requests in     *)
(* order, an answer may come after the service stopped waiting, and an     *)
(* activation, or the deactivation of a crashed Worker, may be under way   *)
(* when a request arrives.  A tree is its version; 0 is no tree.           *)
(***************************************************************************)
EXTENDS Naturals, Sequences

CONSTANTS
    MaxRelease,  \* bound: versions the registry offers
    MaxAsked     \* bound: requests the page has not handled when an operation begins

ASSUME ReleaseAssumption == MaxRelease \in Nat \ {0}

VARIABLES
    live, backup, staged, \* the extension's directory, .backup, .updating or .installing
    record,      \* version and enabled flag of the security record
    entry,       \* the marketplace's state of the extension
    events,      \* the version whose activation events are registered
    change,      \* the operation under updateMu
    asked,       \* requests the page has not handled, the oldest first
    answer,      \* the page's answer to the request the operation waits for
    handling,    \* the stop the page is at: "none", one that deactivates the
                 \* extension itself, or one that joins a crash's deactivation
    held,        \* activations are held back
    running,     \* the version that runs
    cached,      \* the page knows the manifest
    activation,  \* the activation under way
    deactivating, \* the deactivation after a crash is under way
    waiting,     \* activations wait for it
    stray,       \* history: one of them went on under a stop that did not wait for it
    released     \* versions offered so far

trees == <<live, backup, staged>>
records == <<record, entry, events>>
activity == <<activation, deactivating, waiting, stray>>
page == <<handling, held, running, cached, activity>>
mail == <<asked, answer>>
extensionVars == <<trees, records, change, mail, page, released>>

NoRecord == [version |-> 0, enabled |-> FALSE]
NoChange == [kind |-> "none", at |-> "idle", new |-> 0, wasActive |-> FALSE,
             before |-> [live |-> 0, record |-> NoRecord, entry |-> "none", events |-> 0],
             restoreSafe |-> TRUE, committed |-> FALSE]
NoAnswer == [ok |-> FALSE, wasActive |-> FALSE, come |-> FALSE]
NoActivation == [at |-> "idle", source |-> 0]

ExtensionInit ==
    /\ live = 1 /\ backup = 0 /\ staged = 0
    /\ record = [version |-> 1, enabled |-> TRUE]
    /\ entry = "enabled" /\ events = 1
    /\ change = NoChange
    /\ asked = <<>> /\ answer = NoAnswer
    /\ handling = "none" /\ held = FALSE /\ running = 0 /\ cached = TRUE
    /\ activation = NoActivation
    /\ deactivating = FALSE /\ waiting = FALSE /\ stray = FALSE
    /\ released = 1

-----------------------------------------------------------------------------
(* Requests to the page.                                                   *)

\* requestExtensionLifecycle up to the wait; a late answer to an earlier
\* request finds nobody waiting.
Ask(action, wasActive) ==
    /\ asked' = Append(asked, [action |-> action, wasActive |-> wasActive])
    /\ answer' = NoAnswer

ChangeGoes(next) == change' = next /\ UNCHANGED <<page, released>>

AskStop(kind, new) ==
    /\ Ask("stop", FALSE)
    /\ ChangeGoes([NoChange EXCEPT !.kind = kind, !.at = "stopping", !.new = new,
                                   !.before = [live |-> live, record |-> record,
                                               entry |-> entry, events |-> events]])

\* The wait of the first request: answered, refused, or given up.
PageStopped == change.at = "stopping" /\ answer.come /\ answer.ok
PageDidNotStop == change.at = "stopping" /\ ~PageStopped
CallEnds == ChangeGoes(NoChange) /\ UNCHANGED mail

\* The last request, whose failure only reaches the caller.
Tell(action) ==
    /\ change.at = "finish"
    /\ Ask(action, change.wasActive)
    /\ ChangeGoes([change EXCEPT !.at = "told"])
    /\ UNCHANGED <<trees, records>>

EndOfCall ==
    /\ change.at = "told"
    /\ CallEnds /\ UNCHANGED <<trees, records>>

-----------------------------------------------------------------------------
(* UpdateExtension.                                                        *)

UpdateExtension ==
    /\ change.at = "idle" /\ live # 0 /\ released < MaxRelease /\ Len(asked) < MaxAsked
    /\ released' = released + 1
    /\ staged' = released + 1 /\ backup' = 0
    /\ Ask("stop", FALSE)
    /\ change' = [NoChange EXCEPT !.kind = "update", !.at = "stopping", !.new = released + 1,
                                   !.before = [live |-> live, record |-> record,
                                               entry |-> entry, events |-> events]]
    /\ UNCHANGED <<live, records, page>>

\* An operation whose request to stop was not granted removes what it staged.
StopRefused ==
    /\ change.kind \in {"update", "install", "disable"} /\ PageDidNotStop
    /\ staged' = 0
    /\ CallEnds /\ UNCHANGED <<live, backup, records>>

MoveAside ==
    /\ change.kind = "update" /\ PageStopped
    /\ \/ /\ backup' = live /\ live' = 0
          /\ ChangeGoes([change EXCEPT !.at = "moved", !.wasActive = answer.wasActive,
                                         !.restoreSafe = FALSE])
          /\ UNCHANGED staged
       \/ /\ staged' = 0
          /\ ChangeGoes([change EXCEPT !.at = "finish", !.wasActive = answer.wasActive])
          /\ UNCHANGED <<live, backup>>
    /\ UNCHANGED <<records, mail>>

PublishUpdate ==
    /\ change.kind = "update" /\ change.at = "moved"
    /\ \/ /\ live' = staged /\ staged' = 0
          /\ ChangeGoes([change EXCEPT !.at = "published"])
       \/ /\ ChangeGoes([change EXCEPT !.at = "rollback"]) /\ UNCHANGED <<live, staged>>
    /\ UNCHANGED <<backup, records, mail>>

RegisterInstall ==
    /\ change.kind = "update" /\ change.at = "published"
    /\ \/ /\ record' = [version |-> change.new, enabled |-> FALSE]
          /\ ChangeGoes([change EXCEPT !.at = "registered"])
       \/ /\ ChangeGoes([change EXCEPT !.at = "rollback"]) /\ UNCHANGED record
    /\ UNCHANGED <<trees, entry, events, mail>>

\* The new activation events, the disabled state, and the backup, whose removal
\* may fail.
CommitUpdate ==
    /\ change.kind = "update" /\ change.at = "registered"
    /\ events' = change.new
    /\ \/ /\ entry' = "disabled"
          /\ backup' \in {0, backup}
          /\ ChangeGoes([change EXCEPT !.at = "finish", !.committed = TRUE])
       \/ /\ ChangeGoes([change EXCEPT !.at = "rollback"]) /\ UNCHANGED <<entry, backup>>
    /\ UNCHANGED <<live, staged, record, mail>>

RollbackSteps == {"remove", "rename", "record", "entry"}

RestoredTrees(failed) ==
    LET removed == IF "remove" \in failed THEN live ELSE 0
        back == removed = 0 /\ "rename" \notin failed
    IN
    /\ live' = IF back THEN backup ELSE removed
    /\ backup' = IF back THEN 0 ELSE backup
    /\ staged' = 0

\* Mutant: the registrations stay as the update left them.
RollbackTrees(failed) ==
    /\ change.kind = "update" /\ change.at = "rollback"
    /\ RestoredTrees(failed)
    /\ entry' = IF "entry" \in failed THEN entry ELSE change.before.entry
    /\ ChangeGoes([change EXCEPT !.at = "finish", !.restoreSafe = (failed = {})])
    /\ UNCHANGED <<record, events, mail>>
\* The rollback closure: every step is tried, and the old worker may come back
\* only when all of them succeeded.
Rollback(failed) ==
    /\ change.kind = "update" /\ change.at = "rollback"
    /\ RestoredTrees(failed)
    /\ events' = change.before.events
    /\ record' = IF "record" \in failed THEN record ELSE change.before.record
    /\ entry' = IF "entry" \in failed THEN entry ELSE change.before.entry
    /\ ChangeGoes([change EXCEPT !.at = "finish", !.restoreSafe = (failed = {})])
    /\ UNCHANGED mail

TellUpdate ==
    /\ change.kind = "update"
    /\ Tell(IF change.committed THEN "commit"
            ELSE IF change.restoreSafe THEN "restore" ELSE "invalidate")

-----------------------------------------------------------------------------
(* installFromVSIXFile, also over an installed version.                    *)

InstallExtension ==
    /\ change.at = "idle" /\ released < MaxRelease /\ Len(asked) < MaxAsked
    /\ released' = released + 1
    /\ staged' = released + 1
    /\ Ask("stop", FALSE)
    /\ change' = [NoChange EXCEPT !.kind = "install", !.at = "stopping", !.new = released + 1]
    /\ UNCHANGED <<live, backup, records, page>>

\* The old tree is removed as far as possible; a rename over what is left fails.
SwapIn ==
    /\ change.kind = "install" /\ PageStopped
    /\ staged' = 0
    /\ \/ live' = staged /\ ChangeGoes([change EXCEPT !.at = "published"])
       \/ live' \in {0, live} /\ ChangeGoes([change EXCEPT !.at = "finish"])
    /\ UNCHANGED <<backup, records, mail>>

RegisterSwapped ==
    /\ change.kind = "install" /\ change.at = "published"
    /\ \/ /\ record' = [version |-> change.new, enabled |-> FALSE]
          /\ events' = change.new
          /\ \/ /\ entry' = "disabled"
                /\ ChangeGoes([change EXCEPT !.at = "finish", !.committed = TRUE])
             \/ ChangeGoes([change EXCEPT !.at = "finish"]) /\ UNCHANGED entry
          /\ UNCHANGED live
       \/ /\ live' \in {0, live}
          /\ ChangeGoes([change EXCEPT !.at = "finish"])
          /\ UNCHANGED records
    /\ UNCHANGED <<backup, staged, mail>>

TellInstall ==
    /\ change.kind = "install"
    /\ Tell(IF change.committed THEN "commit" ELSE "invalidate")

-----------------------------------------------------------------------------
(* UninstallExtension goes on without an answer, and after every failure.  *)

UninstallExtension ==
    /\ change.at = "idle" /\ Len(asked) < MaxAsked
    /\ AskStop("uninstall", 0)
    /\ UNCHANGED <<trees, records>>

RemoveExtension ==
    /\ change.kind = "uninstall" /\ change.at = "stopping"
    /\ live' \in {0, live} /\ backup' \in {0, backup} /\ staged' = 0
    /\ events' = 0
    /\ record' \in {NoRecord, record} /\ entry' \in {"none", entry}
    /\ ChangeGoes([change EXCEPT !.at = "finish"])
    /\ UNCHANGED mail

TellUninstall == change.kind = "uninstall" /\ Tell("invalidate")

-----------------------------------------------------------------------------
(* SetExtensionEnabled: the entry first, then the record; the entry goes   *)
(* back when the record cannot be changed.                                 *)

State(enabled) == IF enabled THEN "enabled" ELSE "disabled"

SaveBoth(enabled) ==
    /\ record.version # 0
    /\ entry' = State(enabled) /\ record' = [record EXCEPT !.enabled = enabled]

\* The entry was not saved or went back; or its rollback failed too.
SaveFails(enabled) == entry' \in {entry, State(enabled)} /\ UNCHANGED record

EnableExtension ==
    /\ change.at = "idle"
    /\ \/ SaveBoth(TRUE) /\ events' = IF live # 0 THEN live ELSE events
       \/ SaveFails(TRUE) /\ UNCHANGED events
    /\ UNCHANGED <<trees, change, mail, page, released>>

DisableExtension ==
    /\ change.at = "idle" /\ Len(asked) < MaxAsked
    /\ AskStop("disable", 0)
    /\ UNCHANGED <<trees, records>>

SaveDisabled ==
    /\ change.kind = "disable" /\ PageStopped
    /\ \/ SaveBoth(FALSE) /\ ChangeGoes(NoChange)
       \/ SaveFails(FALSE)
          /\ ChangeGoes([change EXCEPT !.at = "finish", !.wasActive = answer.wasActive])
    /\ UNCHANGED <<trees, events, mail>>

TellDisable == change.kind = "disable" /\ Tell("restore")

-----------------------------------------------------------------------------
(* The page.                                                               *)

serviceVars == <<trees, records, change, released>>

PageAnswers(ok, wasActive) ==
    /\ asked' = Tail(asked)
    /\ answer' = IF Len(asked) = 1 /\ change.at \in {"stopping", "told"}
                 THEN [ok |-> ok, wasActive |-> wasActive, come |-> TRUE] ELSE answer

Turn(action) == asked # <<>> /\ Head(asked).action = action /\ handling = "none"

\* A deactivation under way is joined, and not begun again.
HoldForStop ==
    /\ Turn("stop")
    /\ handling' = IF deactivating THEN "joining" ELSE "stopping"
    /\ held' = TRUE
    /\ UNCHANGED <<serviceVars, mail, running, cached, activity>>

\* Mutant: it is not awaited.
ActivationMayGoOn == TRUE
\* An activation under way ends before the extension is stopped.
ActivationOver == activation.at = "idle"

\* Stopped; or not, and then it runs on or is started again from its directory,
\* or neither and stays held.
FinishStop ==
    /\ \/ handling = "stopping" /\ ActivationOver
       \/ handling = "joining" /\ ~deactivating
    /\ handling' = "none"
    /\ \/ running' = 0 /\ PageAnswers(TRUE, running # 0) /\ UNCHANGED held
       \/ running # 0 /\ live # 0 /\ running' = live /\ held' = FALSE /\ PageAnswers(FALSE, FALSE)
       \/ running # 0 /\ running' \in {0, running} /\ PageAnswers(FALSE, FALSE) /\ UNCHANGED held
       \/ running = 0 /\ held' = FALSE /\ PageAnswers(FALSE, FALSE) /\ UNCHANGED running
    /\ stray' = (stray /\ (handling = "joining" \/ running' = running))
    /\ UNCHANGED <<serviceVars, cached, activation, deactivating, waiting>>

\* The manifest and the record are read again; an extension that was running is
\* started from its directory.
HandleRestore ==
    LET again == Head(asked).wasActive IN
    /\ Turn("restore")
    /\ \/ /\ live # 0
          /\ cached' = TRUE
          /\ \/ ~again /\ held' = FALSE /\ PageAnswers(TRUE, FALSE) /\ UNCHANGED running
             \/ /\ again /\ record.enabled
                /\ running' = live /\ held' = FALSE /\ PageAnswers(TRUE, FALSE)
             \/ again /\ held' = TRUE /\ PageAnswers(FALSE, FALSE) /\ UNCHANGED running
       \/ cached' = FALSE /\ PageAnswers(FALSE, FALSE) /\ UNCHANGED <<held, running>>
    /\ UNCHANGED <<serviceVars, handling, activity>>

HandleCommit ==
    /\ Turn("commit")
    /\ \/ live # 0 /\ cached' = TRUE /\ held' = FALSE /\ PageAnswers(TRUE, FALSE)
       \/ cached' = FALSE /\ PageAnswers(FALSE, FALSE) /\ UNCHANGED held
    /\ UNCHANGED <<serviceVars, handling, running, activity>>

HandleInvalidate ==
    /\ Turn("invalidate")
    /\ cached' = FALSE /\ held' = FALSE
    /\ PageAnswers(TRUE, FALSE)
    /\ UNCHANGED <<serviceVars, handling, running, activity>>

Resolving == [at |-> "resolving", source |-> 0]

\* A Worker that runs, or starts, crashes: the recovery deactivates the extension
\* and then activates it again, if nothing has happened since.  Under a hold, or
\* while another recovery is at work, the page does nothing.
CrashWorker ==
    /\ ~held /\ ~deactivating
    /\ running # 0 \/ activation.at = "read"
    /\ running' = 0 /\ deactivating' = TRUE
    /\ UNCHANGED <<serviceVars, mail, handling, held, cached, activation, waiting, stray>>

\* The activations that have waited for it go on, and do not ask again whether
\* activations are held back; they know each other, but a stop that has joined
\* the deactivation does not know them.
EndDeactivation ==
    LET goesOn == waiting /\ cached IN
    /\ deactivating /\ ActivationOver
    /\ deactivating' = FALSE /\ waiting' = FALSE
    /\ activation' = IF goesOn THEN Resolving ELSE NoActivation
    /\ stray' = ((stray /\ running # 0) \/ (goesOn /\ handling = "joining"))
    /\ UNCHANGED <<serviceVars, mail, handling, held, running, cached>>

\* An event, a command or a recovery asks for it, for a known extension, which
\* the record the page remembers may allow or not.  A second one joins the first.
BeginActivation ==
    /\ running = 0 /\ ~held
    /\ \/ deactivating /\ waiting' = TRUE /\ UNCHANGED activation
       \/ ~deactivating /\ activation.at = "idle" /\ cached
          /\ activation' = Resolving /\ UNCHANGED waiting
    /\ UNCHANGED <<serviceVars, mail, handling, held, running, cached, deactivating, stray>>

\* It comes to nothing.
ActivationFails == activation' = NoActivation /\ stray' = (stray /\ running # 0)

ReadSource ==
    /\ activation.at = "resolving"
    /\ \/ live # 0 /\ activation' = [at |-> "read", source |-> live] /\ UNCHANGED stray
       \/ live = 0 /\ ActivationFails
    /\ UNCHANGED <<serviceVars, mail, handling, held, running, cached, deactivating, waiting>>

\* It runs what it has read, unless it is held back, the manifest is gone, or its
\* Worker has crashed.
FinishActivation ==
    /\ activation.at = "read"
    /\ \/ ~held /\ cached /\ ~deactivating
          /\ running' = activation.source /\ activation' = NoActivation /\ UNCHANGED stray
       \/ ActivationFails /\ UNCHANGED running
    /\ UNCHANGED <<serviceVars, mail, handling, held, cached, deactivating, waiting>>

ExtensionNext ==
    \/ StopRefused \/ EndOfCall
    \/ UpdateExtension \/ MoveAside \/ PublishUpdate \/ RegisterInstall \/ CommitUpdate
    \/ (\E failed \in SUBSET RollbackSteps : Rollback(failed)) \/ TellUpdate
    \/ InstallExtension \/ SwapIn \/ RegisterSwapped \/ TellInstall
    \/ UninstallExtension \/ RemoveExtension \/ TellUninstall
    \/ EnableExtension \/ DisableExtension \/ SaveDisabled \/ TellDisable
    \/ HoldForStop \/ FinishStop \/ HandleRestore \/ HandleCommit \/ HandleInvalidate
    \/ CrashWorker \/ EndDeactivation
    \/ BeginActivation \/ ReadSource \/ FinishActivation

ExtensionSpec == ExtensionInit /\ [][ExtensionNext]_extensionVars

-----------------------------------------------------------------------------
(* Properties.                                                             *)

ExtensionTypeOK ==
    /\ {live, backup, staged, events, running, record.version} \subseteq 0..MaxRelease
    /\ entry \in {"none", "enabled", "disabled"}
    /\ change.at \in {"idle", "stopping", "moved", "published", "registered", "rollback",
                     "finish", "told"}
    /\ handling \in {"none", "stopping", "joining"}
    /\ activation.at \in {"idle", "resolving", "read"}
    /\ \A i \in DOMAIN asked : asked[i].action \in {"stop", "restore", "commit", "invalidate"}

\* An update that got as far as the directories installs the new version,
\* disabled and registered everywhere, or leaves everything as it was; and when
\* its rollback failed too, the old tree still exists.
UpdateIsAllOrNothing ==
    change.kind = "update" /\ change.at = "finish" =>
        IF change.committed
        THEN /\ live = change.new /\ record = [version |-> change.new, enabled |-> FALSE]
             /\ entry = "disabled" /\ events = change.new
        ELSE IF change.restoreSafe
        THEN change.before =
                 [live |-> live, record |-> record, entry |-> entry, events |-> events]
        ELSE change.before.live \in {live, backup}

\* The page runs no version of an installed extension other than the one in its
\* directory, whatever was asked, refused, answered late or given up, and when
\* its Worker crashes: except one that a stray activation started.  That is one
\* that waited for the deactivation of a crashed Worker while a stop joined the
\* same deactivation: it went on under the hold of the stop, which was granted
\* without waiting for it, and may have read the old directory and find the hold
\* released (vscodeExtensionActivation.ts:4766-4769, 5000-5001).
RunningCodeIsInstalled == running # 0 /\ live # 0 /\ ~stray => running = live

\* An extension that is enabled again after it was disabled may be activated
\* (marketplace_service.go:1784-1787).
ReenabledMayActivate ==
    [][change.at = "idle" /\ asked = <<>> /\ ~record.enabled /\ record'.enabled
        => ~held']_extensionVars
=============================================================================
