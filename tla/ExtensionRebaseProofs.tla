----------------------- MODULE ExtensionRebaseProofs -----------------------
(***************************************************************************)
(* Two operations of many steps that may stop anywhere between them.       *)
(*                                                                         *)
(* An update of an extension is all or nothing, and the page runs only     *)
(* what is installed, for every number of releases and of requests the     *)
(* page has not handled.  The service changes directories only after the   *)
(* page has answered that it stopped.  The argument says what that answer  *)
(* is worth: it is the answer to the last request, nothing else is in the  *)
(* queue, and until the service asks again the page runs nothing, starts   *)
(* nothing and holds activations back, but for an activation that waited   *)
(* for the deactivation of a crashed Worker under the stop.                *)
(*                                                                         *)
(* A rebase that is finished has replayed what the user asked for, for     *)
(* every sequence of commits, if its state file kept up with git.  The     *)
(* argument relates four things the code keeps apart: the actions git has  *)
(* left, the history it has built, the state file and the call that runs.  *)
(* Of the actions git has taken, each was dropped, skipped, is staged or   *)
(* is in the history; and only the last commit of the history may still    *)
(* wait for its message.                                                   *)
(***************************************************************************)
EXTENDS ExtensionUpdate, GitRebase, SequenceTheorems, TLAPS

-----------------------------------------------------------------------------
(* Extensions: the inductive invariant.                                    *)

Releases == 0 .. MaxRelease
Entries == {"none", "enabled", "disabled"}
SecurityRecords == [version : Releases, enabled : BOOLEAN]
Requests == [action : {"stop", "restore", "commit", "invalidate"}, wasActive : BOOLEAN]
Answers == [ok : BOOLEAN, wasActive : BOOLEAN, come : BOOLEAN]
States == [live : Releases, record : SecurityRecords, entry : Entries, events : Releases]

Changes == [kind : {"none", "update", "install", "uninstall", "disable"},
            at : {"idle", "stopping", "moved", "published", "registered", "rollback",
                  "finish", "told"},
            new : Releases, wasActive : BOOLEAN, before : States,
            restoreSafe : BOOLEAN, committed : BOOLEAN]

Handlings == {"none", "stopping", "joining"}
Activations == [at : {"idle", "resolving", "read"}, source : Releases]

ExtensionTypes ==
    /\ live \in Releases /\ backup \in Releases /\ staged \in Releases
    /\ record \in SecurityRecords /\ entry \in Entries /\ events \in Releases
    /\ change \in Changes
    /\ asked \in Seq(Requests) /\ answer \in Answers
    /\ handling \in Handlings /\ held \in BOOLEAN /\ running \in Releases /\ cached \in BOOLEAN
    /\ deactivating \in BOOLEAN /\ waiting \in BOOLEAN /\ stray \in BOOLEAN
    /\ activation \in Activations
    /\ released \in 1 .. MaxRelease

\* What is installed is what was there when the update began.
Untouched ==
    change.before = [live |-> live, record |-> record, entry |-> entry, events |-> events]

\* How far an update has come, and what it has kept to go back to.
UpdateInv ==
    change.kind = "update" =>
        /\ change.at \in {"stopping", "moved", "published", "registered"} => ~change.committed
        /\ change.at = "stopping" => Untouched /\ staged = change.new /\ change.restoreSafe
        /\ change.at = "moved" =>
             /\ backup = change.before.live /\ staged = change.new /\ ~change.restoreSafe
             /\ change.before = [live |-> backup, record |-> record,
                                 entry |-> entry, events |-> events]
        /\ change.at = "published" => live = change.new /\ backup = change.before.live
        /\ change.at = "registered" =>
             /\ live = change.new /\ record = [version |-> change.new, enabled |-> FALSE]
             /\ backup = change.before.live
        /\ change.at = "rollback" => backup = change.before.live /\ ~change.committed
        /\ change.at = "finish" => UpdateIsAllOrNothing

\* The page has stopped the extension and has nothing to do, but for an activation
\* it did not wait for.
PageIsQuiet ==
    /\ asked = <<>> /\ handling = "none" /\ held /\ running = 0
    /\ ~deactivating /\ ~waiting
    /\ activation.at = "idle" \/ stray

\* The request a waiting operation has sent is the last one.
AskedLast == asked # <<>> /\ asked[Len(asked)].action = "stop"

PageInv ==
    /\ running # 0 /\ live # 0 /\ ~stray => running = live
    /\ activation.at = "read" /\ live # 0 /\ ~stray => activation.source = live
    /\ waiting => deactivating
    /\ handling = "stopping" => ~deactivating
    /\ handling = "joining" /\ ~deactivating => activation.at = "idle" \/ stray
    /\ handling # "none" => asked # <<>> /\ Head(asked).action = "stop" /\ held
    /\ change.at = "stopping" =>
         /\ answer.come => asked = <<>> /\ (answer.ok => PageIsQuiet)
         /\ ~answer.come => AskedLast
    /\ change.at \in {"moved", "published", "registered", "rollback", "finish"}
         /\ change.kind # "uninstall" => PageIsQuiet

ExtensionInv == ExtensionTypes /\ UpdateInv /\ PageInv

-----------------------------------------------------------------------------
(* The queue of requests.                                                  *)

\* A request is added at the end.
LEMMA RequestAdded ==
    ASSUME NEW queue \in Seq(Requests), NEW request \in Requests
    PROVE  /\ Append(queue, request) \in Seq(Requests)
           /\ Append(queue, request) # <<>>
           /\ Append(queue, request)[Len(Append(queue, request))] = request
           /\ queue # <<>> => Head(Append(queue, request)) = Head(queue)
<1>1. /\ Append(queue, request) \in Seq(Requests) /\ Append(queue, request) # <<>>
      /\ Len(Append(queue, request)) = Len(queue) + 1
      /\ \A i \in 1 .. Len(queue) : Append(queue, request)[i] = queue[i]
      /\ Append(queue, request)[Len(queue) + 1] = request
  BY AppendProperties
<1>2. queue # <<>> => Len(queue) \in Nat \ {0} BY EmptySeq
<1>3. queue # <<>> => Append(queue, request)[1] = queue[1] BY <1>1, <1>2
<1> QED BY <1>1, <1>3

\* A request is taken from the front.
LEMMA RequestTaken ==
    ASSUME NEW queue \in Seq(Requests), queue # <<>>
    PROVE  /\ Head(queue) \in Requests /\ Tail(queue) \in Seq(Requests)
           /\ Len(queue) = 1 <=> Tail(queue) = <<>>
           /\ Len(queue) = 1 => queue[Len(queue)] = Head(queue)
           /\ Tail(queue) # <<>> => Tail(queue)[Len(Tail(queue))] = queue[Len(queue)]
<1>1. /\ Head(queue) \in Requests /\ Tail(queue) \in Seq(Requests)
      /\ Len(Tail(queue)) = Len(queue) - 1
      /\ \A i \in 1 .. Len(Tail(queue)) : Tail(queue)[i] = queue[i + 1]
  BY HeadTailProperties
<1>2. Len(queue) \in Nat \ {0} BY EmptySeq
<1>3. /\ Tail(queue) # <<>> => Len(Tail(queue)) \in Nat \ {0}
      /\ Tail(queue) = <<>> => Len(Tail(queue)) = 0
  BY <1>1, EmptySeq
<1>4. Len(queue) = 1 <=> Tail(queue) = <<>> BY <1>1, <1>2, <1>3
<1>5. Tail(queue) # <<>> => Tail(queue)[Len(Tail(queue))] = queue[Len(queue)]
  BY <1>1, <1>2, <1>3
<1> QED BY <1>1, <1>4, <1>5

\* A request of the service is one the page knows.
LEMMA ServiceAsks ==
    ASSUME ExtensionTypes, NEW action \in {"stop", "restore", "commit", "invalidate"},
           NEW wasActive \in BOOLEAN, Ask(action, wasActive)
    PROVE  /\ asked' \in Seq(Requests) /\ answer' \in Answers
           /\ asked' # <<>> /\ asked'[Len(asked')].action = action /\ ~answer'.come
           /\ asked # <<>> => Head(asked') = Head(asked)
<1> DEFINE request == [action |-> action, wasActive |-> wasActive]
<1>1. request \in Requests /\ request.action = action BY DEF Requests
<1>2. asked \in Seq(Requests) /\ asked' = Append(asked, request) BY DEF ExtensionTypes, Ask
<1>3. answer' \in Answers /\ ~answer'.come BY DEF Ask, NoAnswer, Answers
<1> HIDE DEF request
<1>4. /\ Append(asked, request) \in Seq(Requests)
      /\ Append(asked, request) # <<>>
      /\ Append(asked, request)[Len(Append(asked, request))] = request
      /\ asked # <<>> => Head(Append(asked, request)) = Head(asked)
  BY <1>1, <1>2, RequestAdded
<1> QED BY <1>1, <1>2, <1>3, <1>4

-----------------------------------------------------------------------------
(* What the steps of the service leave of the page.                        *)

\* While the page is quiet the service may do what it likes.
LEMMA QuietGoesOn ==
    ASSUME PageIsQuiet, UNCHANGED <<page, mail>>, change'.at # "stopping"
    PROVE  PageInv'
BY DEF PageIsQuiet, PageInv, page, activity, mail

\* Nothing but the trees goes, and nobody waits for a stop.
LEMMA PageRests ==
    ASSUME PageInv, UNCHANGED <<page, mail>>, live' \in {0, live},
           change'.at \in {"idle", "told"} \/ (change'.at = "finish" /\ change'.kind = "uninstall")
    PROVE  PageInv'
BY DEF PageInv, page, activity, mail

\* The service asks for a stop, or tells how it ended.
LEMMA PageAsked ==
    ASSUME ExtensionTypes, PageInv, UNCHANGED <<page, live>>,
           NEW action \in {"stop", "restore", "commit", "invalidate"},
           NEW wasActive \in BOOLEAN, Ask(action, wasActive),
           change'.at = "told" \/ (change'.at = "stopping" /\ action = "stop")
    PROVE  PageInv'
<1>1. /\ asked' # <<>> /\ asked'[Len(asked')].action = action /\ ~answer'.come
      /\ asked # <<>> => Head(asked') = Head(asked)
  BY ServiceAsks
<1>2. /\ UNCHANGED <<live, handling, held, running, cached, activation, deactivating, waiting, stray>>
  BY DEF page, activity
<1>3. AskedLast' <=> (asked' # <<>> /\ asked'[Len(asked')].action = "stop") BY DEF AskedLast
<1> QED BY <1>1, <1>2, <1>3 DEF PageInv

\* The page has answered: it is quiet.
LEMMA StoppedIsQuiet ==
    ASSUME PageInv, PageStopped
    PROVE  PageIsQuiet
BY DEF PageInv, PageStopped

\* The records of an operation that is over.
LEMMA IdleTypes ==
    ASSUME ExtensionTypes
    PROVE  /\ NoChange \in Changes /\ NoRecord \in SecurityRecords
           /\ [live |-> live, record |-> record, entry |-> entry, events |-> events] \in States
           /\ NoChange.kind = "none" /\ NoChange.at = "idle" /\ ~NoChange.committed
           /\ NoChange.restoreSafe
<1>1. 0 \in Releases BY ReleaseAssumption DEF Releases
<1>2. NoRecord \in SecurityRecords BY <1>1 DEF NoRecord, SecurityRecords
<1>3. NoChange \in Changes BY <1>1, <1>2 DEF NoChange, Changes, States, Entries
<1>4. [live |-> live, record |-> record, entry |-> entry, events |-> events] \in States
  BY DEF ExtensionTypes, States
<1> QED BY <1>2, <1>3, <1>4 DEF NoChange

-----------------------------------------------------------------------------
(* The steps of the service.                                               *)

\* Types of what a step of the service leaves alone.
LEMMA ServiceTypes ==
    ASSUME ExtensionTypes, UNCHANGED page, released' \in 1 .. MaxRelease,
           live' \in Releases, backup' \in Releases, staged' \in Releases,
           record' \in SecurityRecords, entry' \in Entries, events' \in Releases,
           change' \in Changes, asked' \in Seq(Requests), answer' \in Answers
    PROVE  ExtensionTypes'
BY DEF ExtensionTypes, page, activity

\* An operation begins with the request to stop.
LEMMA OperationBegins ==
    ASSUME ExtensionInv,
           UpdateExtension \/ InstallExtension \/ UninstallExtension \/ DisableExtension
    PROVE  ExtensionInv'
<1> DEFINE before == [live |-> live, record |-> record, entry |-> entry, events |-> events]
<1>0. /\ ExtensionTypes /\ UpdateInv /\ PageInv
      /\ NoChange \in Changes /\ before \in States
      /\ NoChange.kind = "none" /\ NoChange.at = "idle" /\ ~NoChange.committed
      /\ NoChange.restoreSafe
  BY IdleTypes DEF ExtensionInv
<1>1. /\ live \in Releases /\ backup \in Releases /\ staged \in Releases
      /\ record \in SecurityRecords /\ entry \in Entries /\ events \in Releases
      /\ released \in 1 .. MaxRelease
  BY <1>0 DEF ExtensionTypes
<1>2. /\ UNCHANGED <<page, live, record, entry, events>> /\ Ask("stop", FALSE)
  BY DEF UpdateExtension, InstallExtension, UninstallExtension, DisableExtension, AskStop,
         ChangeGoes, trees, records
<1>3. asked' \in Seq(Requests) /\ answer' \in Answers BY <1>0, <1>2, ServiceAsks
<1>4. released' \in 1 .. MaxRelease /\ backup' \in Releases /\ staged' \in Releases
  <2>1. 0 \in Releases BY ReleaseAssumption DEF Releases
  <2>2. released < MaxRelease => released + 1 \in Releases /\ released + 1 \in 1 .. MaxRelease
    BY <1>1, ReleaseAssumption DEF Releases
  <2> QED BY <1>1, <2>1, <2>2
      DEF UpdateExtension, InstallExtension, UninstallExtension, DisableExtension, AskStop,
          ChangeGoes, trees
<1> HIDE DEF before
<1>5. /\ change' \in Changes /\ change'.at = "stopping" /\ ~change'.committed
      /\ change'.restoreSafe
      /\ change'.kind = "update" => change'.before = before /\ change'.new = staged'
  <2>1. 0 \in Releases /\ (released < MaxRelease => released + 1 \in Releases)
    BY <1>1, ReleaseAssumption DEF Releases
  <2>2. CASE UpdateExtension BY <1>0, <2>1, <2>2 DEF UpdateExtension, Changes, before
  <2>3. CASE InstallExtension BY <1>0, <2>1, <2>3 DEF InstallExtension, Changes
  <2>4. CASE UninstallExtension
    <3>1. change' = [NoChange EXCEPT !.kind = "uninstall", !.at = "stopping", !.new = 0,
                                     !.before = before]
      BY <2>4 DEF UninstallExtension, AskStop, ChangeGoes, before
    <3> QED BY <1>0, <2>1, <3>1 DEF Changes
  <2>5. CASE DisableExtension
    <3>1. change' = [NoChange EXCEPT !.kind = "disable", !.at = "stopping", !.new = 0,
                                     !.before = before]
      BY <2>5 DEF DisableExtension, AskStop, ChangeGoes, before
    <3> QED BY <1>0, <2>1, <3>1 DEF Changes
  <2> QED BY <2>2, <2>3, <2>4, <2>5
<1>6. ExtensionTypes' BY <1>0, <1>1, <1>2, <1>3, <1>4, <1>5, ServiceTypes
<1>7. UpdateInv'
  <2>1. change'.kind = "update" => Untouched' /\ staged' = change'.new
    BY <1>2, <1>5 DEF Untouched, before
  <2> QED BY <1>5, <2>1 DEF UpdateInv
<1>8. PageInv' BY <1>0, <1>2, <1>5, PageAsked
<1> QED BY <1>6, <1>7, <1>8 DEF ExtensionInv

\* An operation ends: it was not granted, or the page was told.
LEMMA ChangeEnds ==
    ASSUME ExtensionInv, StopRefused \/ EndOfCall
    PROVE  ExtensionInv'
<1>1. /\ change' = NoChange /\ NoChange \in Changes /\ NoChange.kind = "none"
      /\ NoChange.at = "idle"
      /\ UNCHANGED <<page, released, mail, live, backup, records>>
      /\ staged' \in {0, staged}
  BY IdleTypes DEF ExtensionInv, StopRefused, EndOfCall, CallEnds, ChangeGoes, trees
<1>2. 0 \in Releases BY ReleaseAssumption DEF Releases
<1>3. ExtensionTypes' BY <1>1, <1>2, ServiceTypes DEF ExtensionInv, ExtensionTypes, records, mail
<1>4. UpdateInv' BY <1>1 DEF UpdateInv
<1>5. PageInv' BY <1>1, PageRests DEF ExtensionInv
<1> QED BY <1>3, <1>4, <1>5 DEF ExtensionInv

\* An operation tells the page how it ended.
LEMMA OperationTells ==
    ASSUME ExtensionInv, NEW action \in {"restore", "commit", "invalidate"}, Tell(action)
    PROVE  ExtensionInv'
<1>0. ExtensionTypes /\ PageInv /\ change \in Changes /\ change.wasActive \in BOOLEAN
  BY DEF ExtensionInv, ExtensionTypes, Changes
<1>1. /\ Ask(action, change.wasActive)
      /\ change' = [change EXCEPT !.at = "told"]
      /\ UNCHANGED <<page, released, trees, records>>
  BY DEF Tell, ChangeGoes
<1>2. asked' \in Seq(Requests) /\ answer' \in Answers BY <1>0, <1>1, ServiceAsks
<1>3. change' \in Changes /\ change'.at = "told" BY <1>0, <1>1 DEF Changes
<1>4. ExtensionTypes' BY <1>0, <1>1, <1>2, <1>3, ServiceTypes DEF ExtensionTypes, trees, records
<1>5. UpdateInv' BY <1>3 DEF UpdateInv
<1>6. PageInv' BY <1>0, <1>1, <1>3, PageAsked DEF trees
<1> QED BY <1>4, <1>5, <1>6 DEF ExtensionInv

\* The steps of an update between the answer of the page and its end.
LEMMA UpdateSteps ==
    ASSUME ExtensionInv,
           \/ MoveAside \/ PublishUpdate \/ RegisterInstall \/ CommitUpdate
           \/ \E failed \in SUBSET RollbackSteps : Rollback(failed)
    PROVE  ExtensionInv'
<1>0. /\ ExtensionTypes /\ UpdateInv /\ PageInv /\ 0 \in Releases
      /\ live \in Releases /\ backup \in Releases /\ staged \in Releases
      /\ record \in SecurityRecords /\ entry \in Entries /\ events \in Releases
      /\ released \in 1 .. MaxRelease
      /\ change \in Changes /\ change.new \in Releases /\ change.before \in States
      /\ change.before.record \in SecurityRecords /\ change.before.entry \in Entries
      /\ change.before.events \in Releases /\ change.before.live \in Releases
      /\ asked \in Seq(Requests) /\ answer \in Answers /\ answer.wasActive \in BOOLEAN
      /\ [version |-> change.new, enabled |-> FALSE] \in SecurityRecords
  BY ReleaseAssumption DEF ExtensionInv, ExtensionTypes, Releases, Changes, States, Answers, SecurityRecords
<1>1. UNCHANGED <<page, mail, released>> /\ change.kind = "update"
  BY DEF MoveAside, PublishUpdate, RegisterInstall, CommitUpdate, Rollback, ChangeGoes
<1>2. PageIsQuiet
  <2>1. PageStopped \/ change.at \in {"moved", "published", "registered", "rollback"}
    BY DEF MoveAside, PublishUpdate, RegisterInstall, CommitUpdate, Rollback
  <2> QED BY <1>0, <1>1, <2>1, StoppedIsQuiet DEF PageInv
<1>3. ASSUME /\ change' \in Changes /\ change'.at # "stopping"
             /\ live' \in Releases /\ backup' \in Releases /\ staged' \in Releases
             /\ record' \in SecurityRecords /\ entry' \in Entries /\ events' \in Releases,
             UpdateInv'
      PROVE  ExtensionInv'
  <2>1. ExtensionTypes' BY <1>0, <1>1, <1>3, ServiceTypes DEF mail
  <2>2. PageInv' BY <1>1, <1>2, <1>3, QuietGoesOn
  <2> QED BY <1>3, <2>1, <2>2 DEF ExtensionInv
<1>4. CASE MoveAside
  <2>1. /\ UNCHANGED <<record, entry, events>> /\ change.at = "stopping"
        /\ \/ /\ backup' = live /\ live' = 0 /\ staged' = staged
              /\ change' = [change EXCEPT !.at = "moved", !.wasActive = answer.wasActive,
                                           !.restoreSafe = FALSE]
           \/ /\ staged' = 0 /\ live' = live /\ backup' = backup
              /\ change' = [change EXCEPT !.at = "finish", !.wasActive = answer.wasActive]
    BY <1>4 DEF MoveAside, ChangeGoes, records, PageStopped
  <2>2. /\ Untouched /\ staged = change.new /\ change.restoreSafe /\ ~change.committed
    BY <1>0, <1>1, <2>1 DEF UpdateInv
  <2>3. /\ change' \in Changes /\ change'.kind = "update" /\ change'.at \in {"moved", "finish"}
        /\ change'.before = change.before /\ change'.new = change.new /\ ~change'.committed
        /\ change'.at = "moved" => ~change'.restoreSafe
        /\ change'.at = "finish" => change'.restoreSafe
    BY <1>0, <1>1, <2>1, <2>2 DEF Changes
  <2>4. /\ UNCHANGED <<record, entry, events>>
        /\ change'.at = "moved" => backup' = live /\ live' = 0 /\ staged' = staged
        /\ change'.at = "finish" => staged' = 0 /\ live' = live /\ backup' = backup
    BY <1>0, <2>1 DEF Changes
  <2>5. live' \in Releases /\ backup' \in Releases /\ staged' \in Releases
    BY <1>0, <2>3, <2>4
  <2>6. CASE change'.at = "moved"
    <3>1. change'.before = [live |-> backup', record |-> record', entry |-> entry',
                            events |-> events']
      BY <2>2, <2>3, <2>4, <2>6 DEF Untouched
    <3>2. change.before.live = live BY <2>2 DEF Untouched
    <3>3. UpdateInv' BY <2>2, <2>3, <2>4, <2>6, <3>1, <3>2 DEF UpdateInv
    <3> QED BY <1>0, <1>3, <2>3, <2>4, <2>5, <2>6, <3>3
  <2>7. CASE change'.at = "finish"
    <3>1. change'.before = [live |-> live', record |-> record', entry |-> entry',
                            events |-> events']
      BY <2>2, <2>3, <2>4, <2>7 DEF Untouched
    <3>2. UpdateIsAllOrNothing' BY <2>3, <2>7, <3>1 DEF UpdateIsAllOrNothing
    <3>3. UpdateInv' BY <2>3, <2>7, <3>2 DEF UpdateInv
    <3> QED BY <1>0, <1>3, <2>3, <2>4, <2>5, <2>7, <3>3
  <2> QED BY <2>3, <2>6, <2>7
<1>5. CASE PublishUpdate
  <2>1. /\ UNCHANGED <<backup, record, entry, events>> /\ change.at = "moved"
        /\ \/ /\ live' = staged /\ staged' = 0
              /\ change' = [change EXCEPT !.at = "published"]
           \/ /\ UNCHANGED <<live, staged>>
              /\ change' = [change EXCEPT !.at = "rollback"]
    BY <1>5 DEF PublishUpdate, ChangeGoes, records
  <2>2. backup = change.before.live /\ staged = change.new /\ ~change.committed
    BY <1>0, <1>1, <2>1 DEF UpdateInv
  <2>3. /\ change' \in Changes /\ change'.kind = "update" /\ change'.at \in {"published", "rollback"}
        /\ change'.before = change.before /\ change'.new = change.new /\ ~change'.committed
        /\ change'.at = "published" => live' = staged
    BY <1>0, <1>1, <2>1, <2>2 DEF Changes
  <2>4. UpdateInv' BY <2>1, <2>2, <2>3 DEF UpdateInv
  <2> QED BY <1>0, <1>3, <2>1, <2>3, <2>4
<1>6. CASE RegisterInstall
  <2>1. /\ UNCHANGED <<live, backup, staged, entry, events>> /\ change.at = "published"
        /\ \/ /\ record' = [version |-> change.new, enabled |-> FALSE]
              /\ change' = [change EXCEPT !.at = "registered"]
           \/ /\ record' = record
              /\ change' = [change EXCEPT !.at = "rollback"]
    BY <1>6 DEF RegisterInstall, ChangeGoes, trees
  <2>2. live = change.new /\ backup = change.before.live /\ ~change.committed
    BY <1>0, <1>1, <2>1 DEF UpdateInv
  <2>3. /\ change' \in Changes /\ change'.kind = "update" /\ change'.at \in {"registered", "rollback"}
        /\ change'.before = change.before /\ change'.new = change.new /\ ~change'.committed
        /\ change'.at = "registered" => record' = [version |-> change.new, enabled |-> FALSE]
    BY <1>0, <1>1, <2>1, <2>2 DEF Changes
  <2>4. UpdateInv' BY <2>1, <2>2, <2>3 DEF UpdateInv
  <2> QED BY <1>0, <1>3, <2>1, <2>3, <2>4
<1>7. CASE CommitUpdate
  <2>1. /\ UNCHANGED <<live, staged, record>> /\ change.at = "registered" /\ events' = change.new
        /\ \/ /\ entry' = "disabled" /\ backup' \in {0, backup}
              /\ change' = [change EXCEPT !.at = "finish", !.committed = TRUE]
           \/ /\ UNCHANGED <<entry, backup>>
              /\ change' = [change EXCEPT !.at = "rollback"]
    BY <1>7 DEF CommitUpdate, ChangeGoes
  <2>2. /\ live = change.new /\ record = [version |-> change.new, enabled |-> FALSE]
        /\ backup = change.before.live /\ ~change.committed
    BY <1>0, <1>1, <2>1 DEF UpdateInv
  <2>3. /\ change' \in Changes /\ change'.kind = "update" /\ change'.at \in {"finish", "rollback"}
        /\ change'.before = change.before /\ change'.new = change.new
        /\ change'.at = "finish" => change'.committed /\ entry' = "disabled"
        /\ change'.at = "rollback" => ~change'.committed /\ backup' = backup
    BY <1>0, <1>1, <2>1, <2>2 DEF Changes
  <2>4. change'.at = "finish" => UpdateIsAllOrNothing'
    BY <2>1, <2>2, <2>3 DEF UpdateIsAllOrNothing
  <2>5. UpdateInv' BY <2>1, <2>2, <2>3, <2>4 DEF UpdateInv
  <2>6. entry' \in Entries /\ backup' \in Releases BY <1>0, <2>1 DEF Entries
  <2> QED BY <1>0, <1>3, <2>1, <2>3, <2>5, <2>6
<1>8. ASSUME NEW failed \in SUBSET RollbackSteps, Rollback(failed) PROVE ExtensionInv'
  <2>1. /\ change.at = "rollback" /\ staged' = 0
        /\ live' \in {0, live, backup}
        /\ \/ live' = backup /\ backup' = 0
           \/ backup' = backup
        /\ failed = {} => live' = backup
        /\ events' = change.before.events
        /\ record' \in {record, change.before.record}
        /\ failed = {} => record' = change.before.record
        /\ entry' \in {entry, change.before.entry}
        /\ failed = {} => entry' = change.before.entry
        /\ change' = [change EXCEPT !.at = "finish", !.restoreSafe = (failed = {})]
    BY <1>8 DEF Rollback, RestoredTrees, ChangeGoes
  <2>2. backup = change.before.live /\ ~change.committed
    BY <1>0, <1>1, <2>1 DEF UpdateInv
  <2>3. (failed = {}) \in BOOLEAN OBVIOUS
  <2>4. /\ change' \in Changes /\ change'.kind = "update" /\ change'.at = "finish"
        /\ change'.before = change.before /\ change'.new = change.new /\ ~change'.committed
        /\ change'.restoreSafe = (failed = {})
    BY <1>0, <1>1, <2>1, <2>2, <2>3 DEF Changes
  <2>5. ASSUME change'.restoreSafe
        PROVE  change.before = [live |-> live', record |-> record', entry |-> entry',
                                events |-> events']
    <3>1. failed = {} BY <2>4, <2>5
    <3>2. /\ live' = change.before.live /\ record' = change.before.record
          /\ entry' = change.before.entry /\ events' = change.before.events
      BY <2>1, <2>2, <3>1
    <3> QED BY <1>0, <3>2 DEF States
  <2>6. change.before.live \in {live', backup'} BY <2>1, <2>2
  <2>7. UpdateIsAllOrNothing' BY <2>4, <2>5, <2>6 DEF UpdateIsAllOrNothing
  <2>8. UpdateInv' BY <2>4, <2>7 DEF UpdateInv
  <2>9. live' \in Releases /\ backup' \in Releases BY <1>0, <2>1
  <2> QED BY <1>0, <1>3, <2>1, <2>4, <2>8, <2>9
<1> QED BY <1>4, <1>5, <1>6, <1>7, <1>8

\* The steps of an installation, over an older version or not.
LEMMA InstallSteps ==
    ASSUME ExtensionInv, SwapIn \/ RegisterSwapped
    PROVE  ExtensionInv'
<1>0. /\ ExtensionTypes /\ PageInv /\ 0 \in Releases
      /\ live \in Releases /\ backup \in Releases /\ staged \in Releases
      /\ record \in SecurityRecords /\ entry \in Entries /\ events \in Releases
      /\ released \in 1 .. MaxRelease
      /\ change \in Changes /\ change.new \in Releases
      /\ asked \in Seq(Requests) /\ answer \in Answers
      /\ [version |-> change.new, enabled |-> FALSE] \in SecurityRecords
      /\ "disabled" \in Entries
  BY ReleaseAssumption DEF ExtensionInv, ExtensionTypes, Releases, Changes, SecurityRecords, Entries
<1>1. /\ UNCHANGED <<page, asked, answer, released, backup>> /\ change.kind = "install"
  BY DEF SwapIn, RegisterSwapped, ChangeGoes, mail
<1>2. PageIsQuiet
  <2>1. PageStopped \/ change.at = "published" BY DEF SwapIn, RegisterSwapped
  <2> QED BY <1>0, <1>1, <2>1, StoppedIsQuiet DEF PageInv
<1>3. \/ change' = [change EXCEPT !.at = "published"]
      \/ change' = [change EXCEPT !.at = "finish"]
      \/ change' = [change EXCEPT !.at = "finish", !.committed = TRUE]
  BY DEF SwapIn, RegisterSwapped, ChangeGoes
<1>4. change' \in Changes /\ change'.at # "stopping" /\ change'.kind = "install"
  BY <1>0, <1>1, <1>3 DEF Changes
<1>5. /\ live' \in {0, live, staged} /\ staged' \in {0, staged}
      /\ record' \in {record, [version |-> change.new, enabled |-> FALSE]}
      /\ entry' \in {entry, "disabled"} /\ events' \in {events, change.new}
  BY DEF SwapIn, RegisterSwapped, records
<1>6. ExtensionTypes' BY <1>0, <1>1, <1>4, <1>5, ServiceTypes
<1>7. UpdateInv' BY <1>4 DEF UpdateInv
<1>8. PageInv' BY <1>1, <1>2, <1>4, QuietGoesOn DEF mail
<1> QED BY <1>6, <1>7, <1>8 DEF ExtensionInv

\* The removal, and the record of the enabled flag.
LEMMA OtherSteps ==
    ASSUME ExtensionInv, RemoveExtension \/ EnableExtension \/ SaveDisabled
    PROVE  ExtensionInv'
<1>0. /\ ExtensionTypes /\ UpdateInv /\ PageInv /\ 0 \in Releases
      /\ live \in Releases /\ backup \in Releases /\ staged \in Releases
      /\ record \in SecurityRecords /\ entry \in Entries /\ events \in Releases
      /\ released \in 1 .. MaxRelease
      /\ change \in Changes /\ asked \in Seq(Requests)
      /\ answer \in Answers /\ answer.wasActive \in BOOLEAN
      /\ NoRecord \in SecurityRecords /\ NoChange \in Changes
      /\ NoChange.kind = "none" /\ NoChange.at = "idle"
  BY ReleaseAssumption, IdleTypes DEF ExtensionInv, ExtensionTypes, Releases, Answers
<1>1. \A flag \in BOOLEAN :
        [record EXCEPT !.enabled = flag] \in SecurityRecords /\ State(flag) \in Entries
  BY <1>0 DEF SecurityRecords, State, Entries
<1>2. UNCHANGED <<page, asked, answer, released>>
  BY DEF RemoveExtension, EnableExtension, SaveDisabled, ChangeGoes, mail
<1>3. CASE RemoveExtension
  <2>1. /\ change.kind = "uninstall" /\ change' = [change EXCEPT !.at = "finish"]
        /\ live' \in {0, live} /\ backup' \in {0, backup} /\ staged' = 0 /\ events' = 0
        /\ record' \in {NoRecord, record} /\ entry' \in {"none", entry}
    BY <1>3 DEF RemoveExtension, ChangeGoes
  <2>2. /\ change' \in Changes /\ change'.kind = "uninstall" /\ change'.at = "finish"
    BY <1>0, <2>1 DEF Changes
  <2>3. "none" \in Entries BY DEF Entries
  <2>4. ExtensionTypes' BY <1>0, <1>2, <2>1, <2>2, <2>3, ServiceTypes
  <2>5. UpdateInv' BY <2>2 DEF UpdateInv
  <2>6. PageInv' BY <1>0, <1>2, <2>1, <2>2, PageRests DEF mail
  <2> QED BY <2>4, <2>5, <2>6 DEF ExtensionInv
<1>4. CASE EnableExtension
  <2>1. /\ change.at = "idle" /\ UNCHANGED <<live, backup, staged, change>>
        /\ record' \in {record, [record EXCEPT !.enabled = TRUE]}
        /\ entry' \in {entry, State(TRUE)} /\ events' \in {events, live}
    BY <1>4 DEF EnableExtension, SaveBoth, SaveFails, trees
  <2>2. record' \in SecurityRecords /\ entry' \in Entries BY <1>0, <1>1, <2>1
  <2>3. ExtensionTypes' BY <1>0, <1>2, <2>1, <2>2, ServiceTypes
  <2>4. UpdateInv' BY <2>1 DEF UpdateInv
  <2>5. PageInv' BY <1>0, <1>2, <2>1, PageRests DEF mail
  <2> QED BY <2>3, <2>4, <2>5 DEF ExtensionInv
<1>5. CASE SaveDisabled
  <2>1. /\ change.kind = "disable" /\ PageStopped /\ UNCHANGED <<live, backup, staged, events>>
        /\ record' \in {record, [record EXCEPT !.enabled = FALSE]}
        /\ entry' \in {entry, State(FALSE)}
        /\ \/ change' = NoChange
           \/ change' = [change EXCEPT !.at = "finish", !.wasActive = answer.wasActive]
    BY <1>5 DEF SaveDisabled, SaveBoth, SaveFails, ChangeGoes, trees
  <2>2. record' \in SecurityRecords /\ entry' \in Entries BY <1>0, <1>1, <2>1
  <2>3. /\ change' \in Changes /\ change'.kind # "update" /\ change'.at # "stopping"
    BY <1>0, <2>1 DEF Changes
  <2>4. ExtensionTypes' BY <1>0, <1>2, <2>1, <2>2, <2>3, ServiceTypes
  <2>5. UpdateInv' BY <2>3 DEF UpdateInv
  <2>6. PageIsQuiet BY <1>0, <2>1, StoppedIsQuiet
  <2>7. PageInv' BY <1>2, <2>3, <2>6, QuietGoesOn DEF mail
  <2> QED BY <2>4, <2>5, <2>7 DEF ExtensionInv
<1> QED BY <1>3, <1>4, <1>5

-----------------------------------------------------------------------------
(* The steps of the page.                                                  *)

\* The answer to the request a waiting operation has sent is the answer to
\* the last request.
LEMMA PageAnswered ==
    ASSUME ExtensionTypes, PageInv, UNCHANGED change, asked # <<>>,
           NEW ok \in BOOLEAN, NEW wasActive \in BOOLEAN, PageAnswers(ok, wasActive)
    PROVE  /\ asked' \in Seq(Requests) /\ answer' \in Answers
           /\ change.at = "stopping" =>
                /\ answer'.come => asked' = <<>> /\ answer'.ok = ok /\ Head(asked).action = "stop"
                /\ ~answer'.come => AskedLast'
           /\ ~(change.at \in {"moved", "published", "registered", "rollback", "finish"}
                /\ change.kind # "uninstall")
<1>1. /\ asked \in Seq(Requests) /\ answer \in Answers /\ asked' = Tail(asked)
      /\ answer' = IF Len(asked) = 1 /\ change.at \in {"stopping", "told"}
                   THEN [ok |-> ok, wasActive |-> wasActive, come |-> TRUE] ELSE answer
  BY DEF ExtensionTypes, PageAnswers
<1>2. /\ Tail(asked) \in Seq(Requests)
      /\ Len(asked) = 1 <=> Tail(asked) = <<>>
      /\ Len(asked) = 1 => asked[Len(asked)] = Head(asked)
      /\ Tail(asked) # <<>> => Tail(asked)[Len(Tail(asked))] = asked[Len(asked)]
  BY <1>1, RequestTaken
<1>3. answer' \in Answers BY <1>1 DEF Answers
<1>4. ASSUME change.at = "stopping"
      PROVE  /\ answer'.come => asked' = <<>> /\ answer'.ok = ok /\ Head(asked).action = "stop"
             /\ ~answer'.come => AskedLast'
  <2>1. ~answer.come /\ asked[Len(asked)].action = "stop"
    BY <1>4 DEF PageInv, AskedLast
  <2>2. CASE Len(asked) = 1
    <3>1. answer' = [ok |-> ok, wasActive |-> wasActive, come |-> TRUE] BY <1>1, <1>4, <2>2
    <3>2. answer'.come /\ answer'.ok = ok BY <3>1
    <3> QED BY <1>1, <1>2, <2>1, <2>2, <3>2
  <2>3. CASE Len(asked) # 1
    <3>1. answer' = answer /\ asked' # <<>> BY <1>1, <1>2, <2>3
    <3> QED BY <1>1, <1>2, <2>1, <3>1 DEF AskedLast
  <2> QED BY <2>2, <2>3
<1>5. ~(change.at \in {"moved", "published", "registered", "rollback", "finish"}
        /\ change.kind # "uninstall")
  BY DEF PageInv, PageIsQuiet
<1> QED BY <1>1, <1>2, <1>3, <1>4, <1>5

\* What a step of the page has to show.
LEMMA PageGoesOn ==
    ASSUME ExtensionInv, UNCHANGED serviceVars,
           asked' \in Seq(Requests), answer' \in Answers,
           handling' \in Handlings, held' \in BOOLEAN, running' \in Releases, cached' \in BOOLEAN,
           deactivating' \in BOOLEAN, waiting' \in BOOLEAN, stray' \in BOOLEAN,
           activation' \in Activations, PageInv'
    PROVE  ExtensionInv'
<1>1. UNCHANGED <<live, backup, staged, record, entry, events, change, released>>
  BY DEF serviceVars, trees, records
<1>2. ExtensionTypes' BY <1>1 DEF ExtensionInv, ExtensionTypes
<1>3. UpdateInv'
  BY <1>1 DEF ExtensionInv, UpdateInv, Untouched, UpdateIsAllOrNothing
<1> QED BY <1>2, <1>3 DEF ExtensionInv

\* The page handles its requests.
LEMMA PageHandles ==
    ASSUME ExtensionInv,
           HoldForStop \/ FinishStop \/ HandleRestore \/ HandleCommit \/ HandleInvalidate
    PROVE  ExtensionInv'
<1>0. /\ ExtensionTypes /\ PageInv /\ 0 \in Releases
      /\ live \in Releases /\ asked \in Seq(Requests) /\ answer \in Answers
      /\ handling \in Handlings /\ held \in BOOLEAN /\ running \in Releases /\ cached \in BOOLEAN
      /\ deactivating \in BOOLEAN /\ waiting \in BOOLEAN /\ stray \in BOOLEAN
      /\ activation \in Activations
      /\ record.enabled \in BOOLEAN /\ UNCHANGED serviceVars
      /\ UNCHANGED <<live, change, activation, deactivating, waiting>>
  <2>1. UNCHANGED <<serviceVars, activation, deactivating, waiting>>
    BY DEF HoldForStop, FinishStop, HandleRestore, HandleCommit, HandleInvalidate, activity
  <2>2. 0 \in Releases BY ReleaseAssumption DEF Releases
  <2> QED BY <2>1, <2>2 DEF ExtensionInv, ExtensionTypes, SecurityRecords, serviceVars, trees
<1>1. CASE HoldForStop
  <2>1. /\ asked # <<>> /\ Head(asked).action = "stop" /\ held' = TRUE
        /\ handling' = IF deactivating THEN "joining" ELSE "stopping"
        /\ UNCHANGED <<asked, answer, running, cached, stray>>
    BY <1>1 DEF HoldForStop, Turn, mail, activity
  <2>3. handling' \in Handlings BY <2>1 DEF Handlings
  <2>2. PageInv' BY <1>0, <2>1 DEF PageInv, PageIsQuiet, AskedLast
  <2> QED BY <1>0, <2>1, <2>2, <2>3, PageGoesOn
<1>2. CASE FinishStop
  <2>1. /\ handling # "none" /\ handling' = "none" /\ UNCHANGED cached
        /\ asked # <<>> /\ Head(asked).action = "stop" /\ held
        /\ ~deactivating /\ ~waiting
        /\ activation.at = "idle" \/ (handling = "joining" /\ stray)
        /\ stray' = (stray /\ (handling = "joining" \/ running' = running))
    BY <1>0, <1>2 DEF FinishStop, ActivationOver, PageInv
  <2>9. stray' \in BOOLEAN /\ handling' \in Handlings BY <2>1 DEF Handlings
  <2>10. /\ activation.at = "idle" \/ stray'
         /\ running' = running /\ ~stray' => ~stray \/ running = 0
    BY <2>1
  <2>2. \/ /\ running' = 0 /\ held' = held /\ PageAnswers(TRUE, running # 0)
        \/ /\ running' \in {0, running, live} /\ held' \in {FALSE, held} /\ PageAnswers(FALSE, FALSE)
    BY <1>2 DEF FinishStop
  <2>3. PICK ok \in BOOLEAN, wasActive \in BOOLEAN :
          /\ PageAnswers(ok, wasActive)
          /\ ok => running' = 0 /\ held' = held
    <3>1. (running # 0) \in BOOLEAN OBVIOUS
    <3> QED BY <2>2, <3>1
  <2>4. running' \in {0, running, live} /\ held' \in {FALSE, held} BY <2>2
  <2>5. /\ asked' \in Seq(Requests) /\ answer' \in Answers
        /\ change.at = "stopping" =>
             /\ answer'.come => asked' = <<>> /\ answer'.ok = ok
             /\ ~answer'.come => AskedLast'
        /\ ~(change.at \in {"moved", "published", "registered", "rollback", "finish"}
             /\ change.kind # "uninstall")
    BY <1>0, <2>1, <2>3, PageAnswered
  <2>6. ok => (asked' = <<>> => PageIsQuiet') BY <1>0, <2>1, <2>3, <2>10 DEF PageIsQuiet
  <2>11. /\ running' # 0 /\ live' # 0 /\ ~stray' => running' = live'
         /\ activation'.at = "read" /\ live' # 0 /\ ~stray' => activation'.source = live'
    <3>1. running # 0 /\ live # 0 /\ ~stray => running = live BY <1>0 DEF PageInv
    <3> QED BY <1>0, <2>4, <2>10, <3>1
  <2>7. PageInv' BY <1>0, <2>1, <2>5, <2>6, <2>11 DEF PageInv
  <2>8. running' \in Releases /\ held' \in BOOLEAN BY <1>0, <2>4
  <2> QED BY <1>0, <2>1, <2>5, <2>7, <2>8, <2>9, PageGoesOn
<1>3. CASE HandleRestore \/ HandleCommit \/ HandleInvalidate
  <2>1. /\ asked # <<>> /\ Head(asked).action # "stop" /\ handling = "none"
        /\ UNCHANGED <<handling, stray>>
    BY <1>3 DEF HandleRestore, HandleCommit, HandleInvalidate, Turn, activity
  <2>2. /\ running' \in {running, live} /\ held' \in {TRUE, FALSE, held}
        /\ cached' \in {TRUE, FALSE}
    BY <1>3 DEF HandleRestore, HandleCommit, HandleInvalidate
  <2>3. PICK ok \in BOOLEAN : PageAnswers(ok, FALSE)
    BY <1>3 DEF HandleRestore, HandleCommit, HandleInvalidate
  <2>4. /\ asked' \in Seq(Requests) /\ answer' \in Answers
        /\ change.at = "stopping" => ~answer'.come /\ AskedLast'
        /\ ~(change.at \in {"moved", "published", "registered", "rollback", "finish"}
             /\ change.kind # "uninstall")
    BY <1>0, <2>1, <2>3, PageAnswered
  <2>5. PageInv' BY <1>0, <2>1, <2>2, <2>4 DEF PageInv
  <2>6. running' \in Releases /\ held' \in BOOLEAN /\ cached' \in BOOLEAN BY <1>0, <2>2
  <2> QED BY <1>0, <2>1, <2>4, <2>5, <2>6, PageGoesOn
<1> QED BY <1>1, <1>2, <1>3

\* The page activates the extension, and deactivates it when its Worker crashes.
LEMMA PageActivates ==
    ASSUME ExtensionInv,
           CrashWorker \/ EndDeactivation \/ BeginActivation \/ ReadSource \/ FinishActivation
    PROVE  ExtensionInv'
<1>0. /\ ExtensionTypes /\ PageInv /\ 0 \in Releases
      /\ live \in Releases /\ asked \in Seq(Requests) /\ answer \in Answers
      /\ handling \in Handlings /\ held \in BOOLEAN /\ running \in Releases /\ cached \in BOOLEAN
      /\ deactivating \in BOOLEAN /\ waiting \in BOOLEAN /\ stray \in BOOLEAN
      /\ activation \in Activations /\ activation.source \in Releases
      /\ UNCHANGED serviceVars
      /\ UNCHANGED <<live, change, asked, answer, handling, held, cached>>
  <2>1. /\ UNCHANGED <<serviceVars, mail, handling, held, cached>>
    BY DEF CrashWorker, EndDeactivation, BeginActivation, ReadSource, FinishActivation
  <2>2. 0 \in Releases BY ReleaseAssumption DEF Releases
  <2> QED BY <2>1, <2>2 DEF ExtensionInv, ExtensionTypes, Activations, serviceVars, trees, mail
<1>1. /\ NoActivation \in Activations /\ NoActivation.at = "idle"
      /\ Resolving \in Activations /\ Resolving.at = "resolving"
      /\ [at |-> "read", source |-> live] \in Activations
      /\ [at |-> "read", source |-> live].source = live
  BY <1>0 DEF NoActivation, Resolving, Activations
<1>2. AskedLast' <=> AskedLast BY <1>0 DEF AskedLast
<1>3. CASE CrashWorker
  <2>1. /\ ~held /\ running' = 0 /\ deactivating' = TRUE
        /\ UNCHANGED <<activation, waiting, stray>>
    BY <1>3 DEF CrashWorker
  <2>2. PageInv' BY <1>0, <1>2, <2>1 DEF PageInv, PageIsQuiet
  <2> QED BY <1>0, <2>1, <2>2, PageGoesOn
<1>4. CASE EndDeactivation
  <2> DEFINE goesOn == waiting /\ cached
  <2>1. /\ deactivating /\ deactivating' = FALSE /\ waiting' = FALSE /\ UNCHANGED running
        /\ activation' = IF goesOn THEN Resolving ELSE NoActivation
        /\ activation.at = "idle"
        /\ stray' = ((stray /\ running # 0) \/ (goesOn /\ handling = "joining"))
    BY <1>4 DEF EndDeactivation, ActivationOver
  <2>2. stray' \in BOOLEAN /\ activation' \in Activations /\ activation'.at # "read"
    BY <1>1, <2>1
  <2>3. running # 0 /\ ~stray' => ~stray BY <2>1
  <2>4. handling = "joining" => activation'.at = "idle" \/ stray' BY <1>1, <2>1
  <2>5. PageInv' BY <1>0, <1>2, <2>1, <2>2, <2>3, <2>4 DEF PageInv, PageIsQuiet
  <2> QED BY <1>0, <2>1, <2>2, <2>5, PageGoesOn
<1>5. CASE BeginActivation
  <2>1. /\ ~held /\ UNCHANGED <<running, deactivating, stray>>
        /\ activation' \in {activation, Resolving}
        /\ waiting' = waiting \/ (waiting' = TRUE /\ deactivating)
    BY <1>5 DEF BeginActivation
  <2>2. PageInv' BY <1>0, <1>1, <1>2, <2>1 DEF PageInv, PageIsQuiet
  <2> QED BY <1>0, <1>1, <2>1, <2>2, PageGoesOn
<1>6. CASE ReadSource
  <2>1. UNCHANGED <<running, deactivating, waiting>> BY <1>6 DEF ReadSource
  <2>2. CASE activation' = [at |-> "read", source |-> live] /\ UNCHANGED stray
    <3>1. activation.at = "resolving" BY <1>6 DEF ReadSource
    <3>2. PageInv' BY <1>0, <1>1, <1>2, <2>1, <2>2, <3>1 DEF PageInv, PageIsQuiet
    <3> QED BY <1>0, <1>1, <2>1, <2>2, <3>2, PageGoesOn
  <2>3. CASE ActivationFails
    <3>1. activation' = NoActivation /\ stray' = (stray /\ running # 0)
      BY <2>3 DEF ActivationFails
    <3>2. stray' \in BOOLEAN /\ (running # 0 /\ ~stray' => ~stray) BY <3>1
    <3>3. PageInv' BY <1>0, <1>1, <1>2, <2>1, <3>1, <3>2 DEF PageInv, PageIsQuiet
    <3> QED BY <1>0, <1>1, <2>1, <3>1, <3>2, <3>3, PageGoesOn
  <2> QED BY <1>6, <2>2, <2>3 DEF ReadSource
<1>7. CASE FinishActivation
  <2>1. UNCHANGED <<deactivating, waiting>> BY <1>7 DEF FinishActivation
  <2>2. CASE /\ ~held /\ running' = activation.source /\ activation' = NoActivation
             /\ UNCHANGED stray
    <3>1. activation.at = "read" BY <1>7 DEF FinishActivation
    <3>2. PageInv' BY <1>0, <1>1, <1>2, <2>1, <2>2, <3>1 DEF PageInv, PageIsQuiet
    <3> QED BY <1>0, <1>1, <2>1, <2>2, <3>2, PageGoesOn
  <2>3. CASE ActivationFails /\ UNCHANGED running
    <3>1. activation' = NoActivation /\ stray' = (stray /\ running # 0)
      BY <2>3 DEF ActivationFails
    <3>2. stray' \in BOOLEAN /\ (running # 0 /\ ~stray' => ~stray) BY <3>1
    <3>3. PageInv' BY <1>0, <1>1, <1>2, <2>1, <2>3, <3>1, <3>2 DEF PageInv, PageIsQuiet
    <3> QED BY <1>0, <1>1, <2>1, <2>3, <3>1, <3>2, <3>3, PageGoesOn
  <2> QED BY <1>7, <2>2, <2>3 DEF FinishActivation
<1> QED BY <1>3, <1>4, <1>5, <1>6, <1>7

-----------------------------------------------------------------------------
(* The theorems.                                                           *)

\* At the start version 1 is installed and enabled, and nothing runs.
LEMMA ExtensionBegins == ExtensionInit => ExtensionInv
<1> SUFFICES ASSUME ExtensionInit PROVE ExtensionInv
  OBVIOUS
<1>1. 0 \in Releases /\ 1 \in Releases /\ 1 \in 1 .. MaxRelease
  BY ReleaseAssumption DEF Releases
<1>2. NoChange \in Changes /\ NoChange.kind = "none" /\ NoChange.at = "idle"
  <2>1. NoRecord \in SecurityRecords BY <1>1 DEF NoRecord, SecurityRecords
  <2> QED BY <1>1, <2>1 DEF NoChange, Changes, States, Entries
<1>3. NoAnswer \in Answers BY DEF NoAnswer, Answers
<1>4. <<>> \in Seq(Requests) BY EmptySeq
<1>5. record \in SecurityRecords /\ entry \in Entries
  BY <1>1 DEF ExtensionInit, SecurityRecords, Entries
<1>6. activation \in Activations /\ activation.at = "idle" /\ handling \in Handlings
  BY <1>1 DEF ExtensionInit, NoActivation, Activations, Handlings
<1>7. ExtensionTypes BY <1>1, <1>2, <1>3, <1>4, <1>5, <1>6 DEF ExtensionInit, ExtensionTypes
<1>8. UpdateInv BY <1>2 DEF ExtensionInit, UpdateInv
<1>9. PageInv BY <1>2, <1>6 DEF ExtensionInit, PageInv
<1> QED BY <1>7, <1>8, <1>9 DEF ExtensionInv

\* No step of the service or of the page leaves the invariant.
LEMMA ExtensionStep == ExtensionInv /\ [ExtensionNext]_extensionVars => ExtensionInv'
<1> SUFFICES ASSUME ExtensionInv, [ExtensionNext]_extensionVars PROVE ExtensionInv'
  OBVIOUS
<1>1. CASE StopRefused \/ EndOfCall BY <1>1, ChangeEnds
<1>2. CASE UpdateExtension \/ InstallExtension \/ UninstallExtension \/ DisableExtension
  BY <1>2, OperationBegins
<1>3. CASE \/ MoveAside \/ PublishUpdate \/ RegisterInstall \/ CommitUpdate
           \/ \E failed \in SUBSET RollbackSteps : Rollback(failed)
  BY <1>3, UpdateSteps
<1>4. CASE TellUpdate \/ TellInstall \/ TellUninstall \/ TellDisable
  <2>1. \E action \in {"restore", "commit", "invalidate"} : Tell(action)
    BY <1>4 DEF TellUpdate, TellInstall, TellUninstall, TellDisable
  <2> QED BY <2>1, OperationTells
<1>5. CASE SwapIn \/ RegisterSwapped BY <1>5, InstallSteps
<1>6. CASE RemoveExtension \/ EnableExtension \/ SaveDisabled BY <1>6, OtherSteps
<1>7. CASE HoldForStop \/ FinishStop \/ HandleRestore \/ HandleCommit \/ HandleInvalidate
  BY <1>7, PageHandles
<1>8. CASE CrashWorker \/ EndDeactivation \/ BeginActivation \/ ReadSource \/ FinishActivation
  BY <1>8, PageActivates
<1>9. CASE UNCHANGED extensionVars
  <2>1. /\ UNCHANGED <<live, backup, staged, record, entry, events, change, asked, answer,
                       handling, held, running, cached, activation, deactivating, waiting,
                       stray, released>>
    BY <1>9 DEF extensionVars, trees, records, mail, page, activity
  <2>2. ExtensionTypes' BY <2>1 DEF ExtensionInv, ExtensionTypes
  <2>3. UpdateInv' BY <2>1 DEF ExtensionInv, UpdateInv, Untouched, UpdateIsAllOrNothing
  <2>4. PageInv' BY <2>1 DEF ExtensionInv, PageInv, PageIsQuiet, AskedLast
  <2> QED BY <2>2, <2>3, <2>4 DEF ExtensionInv
<1> QED BY <1>1, <1>2, <1>3, <1>4, <1>5, <1>6, <1>7, <1>8, <1>9 DEF ExtensionNext

\* The inductive invariant holds in every reachable state.
THEOREM ExtensionInvariance == ExtensionSpec => []ExtensionInv
<1>1. ExtensionInit => ExtensionInv BY ExtensionBegins
<1>2. ExtensionInv /\ [ExtensionNext]_extensionVars => ExtensionInv' BY ExtensionStep
<1> QED BY <1>1, <1>2, PTL DEF ExtensionSpec

\* The types of ExtensionTypeOK.
THEOREM ExtensionTypeCorrect == ExtensionSpec => []ExtensionTypeOK
<1>1. ASSUME ExtensionInv PROVE ExtensionTypeOK
  <2>1. record.version \in Releases /\ change.at \in {"idle", "stopping", "moved", "published",
                                                      "registered", "rollback", "finish", "told"}
    BY <1>1 DEF ExtensionInv, ExtensionTypes, SecurityRecords, Changes
  <2>2. \A i \in DOMAIN asked : asked[i].action \in {"stop", "restore", "commit", "invalidate"}
    <3>1. asked \in Seq(Requests) BY <1>1 DEF ExtensionInv, ExtensionTypes
    <3>2. \A i \in DOMAIN asked : asked[i] \in Requests
      BY <3>1, ElementOfSeq, LenProperties
    <3> QED BY <3>2 DEF Requests
  <2> QED BY <1>1, <2>1, <2>2 DEF ExtensionInv, ExtensionTypes, Releases, Entries, Handlings, Activations,
                                   ExtensionTypeOK
<1> QED BY <1>1, ExtensionInvariance, PTL

\* An update that has touched the directories installs the new version, or
\* leaves everything as it was, or at least keeps the old tree.
THEOREM UpdatesAreAllOrNothing == ExtensionSpec => []UpdateIsAllOrNothing
<1>1. ExtensionInv => UpdateIsAllOrNothing
  BY DEF ExtensionInv, UpdateInv, UpdateIsAllOrNothing
<1> QED BY <1>1, ExtensionInvariance, PTL

\* The page never runs another version than the one that is installed, but for a
\* stray activation: one that outlived the stop, because the stop joined the
\* deactivation of a crashed Worker the activation had waited for.
THEOREM PagesRunWhatIsInstalled == ExtensionSpec => []RunningCodeIsInstalled
<1>1. ExtensionInv => RunningCodeIsInstalled BY DEF ExtensionInv, PageInv, RunningCodeIsInstalled
<1> QED BY <1>1, ExtensionInvariance, PTL

-----------------------------------------------------------------------------
(* Rebases: the inductive invariant.                                       *)

Base == Commit(Upstream, Own(Upstream))
Told(c) == IF approved[c] = "reword" THEN New(c) ELSE Own(c)

\* The user's actions are in place.
InPlace == rebaseState # NoState /\ rebaseState.phase \in {"ready", "stopped"}

\* git has taken the first Past actions; the commits of the others are to come.
Past == Len(Replay) - Len(repo.todo)
Tried == {Replay[n] : n \in 1..Past}
Kept(c) == approved[c] # "drop" /\ c \notin skipped

\* Where a call is, and what the state file says then.
CallInv ==
    /\ ~repo.active => rebaseState = NoState /\ Idle
    /\ repo.active => rebaseEnd = "open"
    /\ rebaseState # NoState /\ rebaseState.phase = "applying" =>
         /\ rebaseState.pending = Instructions(rebaseState.actions)
         /\ rebaseState.messages = Rewords(rebaseState.actions)
    /\ control.at = "started" => rebaseState = NoState
    /\ control.at \in {"saved", "replaced"} =>
         rebaseState # NoState /\ rebaseState.phase = "applying"
    /\ control.at = "replaced" => repo.todo = rebaseState.pending
    /\ control.at \in {"run", "reworded", "git", "returned", "skip"} => InPlace
    /\ control.at \in {"git", "returned"} => control.call \in {"continue", "skip"}
    /\ control.at = "run" => control.call = "continue"
    /\ control.at = "skip" => control.call = "skip"

\* Until then nothing is replayed.
FreshInv ==
    /\ repo.active /\ ~InPlace =>
         /\ repo.head = <<Base>> /\ repo.rebaseHead = Nothing
         /\ ~repo.unmerged /\ repo.staged = Nothing
    /\ rebaseEnd = "open" /\ ~InPlace => skipped = {}

TodoInv ==
    /\ approved = rebaseState.actions
    /\ Len(repo.todo) <= Len(Replay)
    /\ \A n \in 1..Len(repo.todo) : repo.todo[n] = Instructions(approved)[Past + n]

\* A reword that git has not reached is still to be done.
MessagesInv ==
    \A n \in DOMAIN Replay :
        n > Past /\ approved[Replay[n]] = "reword" => Replay[n] \in rebaseState.messages

HeadInv ==
    /\ repo.head[1] = Base
    /\ \A n \in 2..Len(repo.head) : repo.head[n].of \in Tried
    /\ \A m, n \in 2..Len(repo.head) :
         m < n => InOrder(repo.head[m].of, repo.head[n].of)

CoverInv ==
    /\ skipped \subseteq Tried
    /\ \A c \in Tried :
         (Kept(c) /\ c # repo.staged) <=> \E n \in 2..Len(repo.head) : repo.head[n].of = c

\* Only the last commit may still wait for its message.
TextInv ==
    \A n \in 2..Len(repo.head) :
        /\ repo.head[n].of \notin rebaseState.messages =>
             repo.head[n].message = Told(repo.head[n].of)
        /\ repo.head[n].of \in rebaseState.messages =>
             repo.head[n].of = repo.rebaseHead /\ n = Len(repo.head)

\* What is staged is the commit git took last.
StagedInv ==
    /\ repo.rebaseHead \in Tried \cup {Nothing}
    /\ repo.staged # Nothing =>
         /\ Past > 0 /\ repo.staged = Replay[Past] /\ repo.rebaseHead = repo.staged
         /\ Kept(repo.staged)
         /\ approved[repo.staged] = "reword" => repo.staged \in rebaseState.messages

\* What is replayed, whatever call does it.
ReplayedInv == TodoInv /\ MessagesInv /\ HeadInv /\ CoverInv /\ TextInv /\ StagedInv

\* A commit to reword that is not staged is the last one.
PendingInv ==
    /\ RewordIsPending /\ repo.staged = Nothing /\ control.at # "git" =>
         Len(repo.head) > 1 /\ repo.head[Len(repo.head)].of = repo.rebaseHead
    /\ control.at = "reworded" =>
         /\ RewordIsPending /\ repo.staged = Nothing /\ ~repo.unmerged
         /\ repo.head[Len(repo.head)].message = New(repo.rebaseHead)
    /\ control.at = "git" =>
         \A n \in 2..Len(repo.head) : repo.head[n].of \notin rebaseState.messages

\* What the next step of a call relies on: between calls the state file is right.
StepInv ==
    /\ repo.unmerged => repo.staged # Nothing
    /\ control.at = "run" => ~RewordIsPending \/ repo.unmerged
    /\ control.at = "git" => ~repo.unmerged /\ repo.staged = Nothing
    /\ control.at = "returned" =>
         /\ control.ok <=> repo.staged = Nothing
         /\ repo.unmerged <=> repo.staged # Nothing
    /\ control.at \in {"idle", "run"} => FileIsRight
    /\ control.at = "skip" =>
         CommandError /\ repo.staged # Nothing /\ control.commit = repo.rebaseHead
    /\ control.call = "skip" /\ control.at \in {"git", "returned"} =>
         control.commit \in skipped

ReplayInv == ReplayedInv /\ PendingInv /\ StepInv

-----------------------------------------------------------------------------
(* Types.                                                                  *)

\* The replayed commits are a sequence, and none of them is Upstream or Nothing.
LEMMA ReplayFacts ==
    /\ Replay \in Seq(ReplayCommits)
    /\ Len(Replay) \in Nat /\ DOMAIN Replay = 1..Len(Replay)
    /\ Upstream \notin ReplayCommits /\ Nothing \notin ReplayCommits
    /\ \A n \in 1..Len(Replay) : Replay[n] \in ReplayCommits
BY RebaseAssumption DEF ReplayCommits

\* Commits at an earlier and at a later place of the replay are in order.
LEMMA PlacesInOrder ==
    ASSUME NEW later \in 1..Len(Replay), NEW earlier \in 1..later, earlier < later
    PROVE  InOrder(Replay[earlier], Replay[later])
<1>1. Len(Replay) \in Nat /\ DOMAIN Replay = 1..Len(Replay) BY ReplayFacts
<1>2. earlier \in DOMAIN Replay /\ later \in DOMAIN Replay BY <1>1
<1> DEFINE first == Replay[earlier]
           second == Replay[later]
<1>3. first = Replay[earlier] /\ second = Replay[later] OBVIOUS
<1> HIDE DEF first, second
<1>4. InOrder(first, second) BY <1>2, <1>3 DEF InOrder
<1>5. QED BY <1>4 DEF first, second

\* What is written for a plan is a sequence of actions, one for each commit.
LEMMA InstructionsFacts ==
    ASSUME NEW plan \in Plans
    PROVE  /\ Instructions(plan) \in Seq(Actions)
           /\ Len(Instructions(plan)) = Len(Replay)
           /\ \A n \in 1..Len(Replay) :
                /\ Instructions(plan)[n].commit = Replay[n]
                /\ Instructions(plan)[n].act =
                     IF plan[Replay[n]] = "reword" THEN "edit" ELSE plan[Replay[n]]
<1>1. \A n \in 1..Len(Replay) : plan[Replay[n]] \in UserActions
  BY ReplayFacts DEF Plans
<1>2. \A n \in 1..Len(Replay) : Instructions(plan)[n] \in Actions
  BY <1>1, ReplayFacts DEF Instructions, Actions, UserActions
<1>3. Instructions(plan) = [n \in 1..Len(Replay) |-> Instructions(plan)[n]]
  BY ReplayFacts DEF Instructions
<1>4. Instructions(plan) \in Seq(Actions) /\ Len(Instructions(plan)) = Len(Replay)
  BY <1>2, <1>3, ReplayFacts
<1>5. QED BY <1>4, ReplayFacts DEF Instructions

\* The plan git begins with is one, and what a plan rewords is replayed.
LEMMA PlansAreTyped == AllPicks \in Plans /\ \A plan \in Plans : Rewords(plan) \subseteq ReplayCommits
BY DEF AllPicks, Plans, UserActions, Rewords

\* A commit of the right parts is one.
LEMMA CommitIsTyped ==
    ASSUME NEW c \in ReplayCommits \cup {Upstream, Nothing}, NEW d \in ReplayCommits \cup {Upstream}
    PROVE  Commit(c, Own(d)) \in Heads /\ Commit(c, New(d)) \in Heads
<1>1. Own(d) \in CommitMessages /\ New(d) \in CommitMessages BY DEF Own, New, CommitMessages
<1>2. QED BY <1>1 DEF Heads, Commit

\* Before a rebase begins.
LEMMA TypeInit == RebaseInit => RebaseTypeOK
<1>1. Commit(Upstream, Own(Upstream)) \in Heads BY CommitIsTyped
<1>2. <<Commit(Upstream, Own(Upstream))>> \in Seq(Heads) \ {<<>>} BY <1>1
<1>3. NoRebase.head \in Seq(Heads) \ {<<>>} /\ <<>> \in Seq(Actions) BY <1>2 DEF NoRebase
<1>4. QED BY <1>3, PlansAreTyped DEF RebaseInit, RebaseTypeOK, NoRebase, NoControl

\* The last commit of a history changes its message, or one is put upon it.
LEMMA HeadGrows ==
    ASSUME NEW head \in Seq(Heads) \ {<<>>}, NEW commit \in Heads
    PROVE  Append(head, commit) \in Seq(Heads) \ {<<>>}
<1>1. Append(head, commit) \in Seq(Heads) /\ Len(Append(head, commit)) = Len(head) + 1 OBVIOUS
<1>2. Len(head) \in Nat /\ Len(<<>>) = 0 OBVIOUS
<1>3. QED BY <1>1, <1>2

\* git commit --amend changes the message of the last commit and nothing else.
LEMMA HeadChanges ==
    ASSUME NEW head \in Seq(Heads) \ {<<>>}, NEW message \in CommitMessages
    PROVE  /\ [head EXCEPT ![Len(head)].message = message] \in Seq(Heads) \ {<<>>}
           /\ Len(head) \in Nat \ {0}
           /\ Len([head EXCEPT ![Len(head)].message = message]) = Len(head)
           /\ [head EXCEPT ![Len(head)].message = message][Len(head)] =
                Commit(head[Len(head)].of, message)
           /\ \A n \in 1..Len(head) - 1 :
                [head EXCEPT ![Len(head)].message = message][n] = head[n]
<1> DEFINE last == Len(head)
           commit == [head[last] EXCEPT !.message = message]
           changed == [head EXCEPT ![last].message = message]
<1>1. last \in Nat \ {0} /\ head[last] \in Heads OBVIOUS
<1>2. commit = Commit(head[last].of, message) /\ commit \in Heads
  <2>1. PICK c \in ReplayCommits \cup {Upstream, Nothing}, m \in CommitMessages : head[last] = Commit(c, m)
    BY <1>1 DEF Heads
  <2>2. commit = Commit(c, message) /\ head[last].of = c BY <2>1 DEF Commit
  <2>3. Commit(c, message) \in Heads BY DEF Heads
  <2>4. QED BY <2>2, <2>3
<1>3. changed = [head EXCEPT ![last] = commit] OBVIOUS
<1>4. changed \in Seq(Heads) /\ Len(changed) = last /\ changed[last] = commit
      /\ \A n \in 1..last - 1 : changed[n] = head[n]
  BY <1>1, <1>2, <1>3
<1>5. changed # <<>> BY <1>1, <1>4
<1>6. QED BY <1>1, <1>2, <1>4, <1>5

-----------------------------------------------------------------------------
(* Every step keeps the types.                                             *)

\* The repository, the state file, the call, and what is recorded beside them.
RepoTypes ==
    [active : BOOLEAN, todo : Seq(Actions), head : Seq(Heads) \ {<<>>},
     rebaseHead : ReplayCommits \cup {Nothing}, unmerged : BOOLEAN,
     staged : ReplayCommits \cup {Nothing}]

ControlTypes ==
    [call : {"none", "start", "apply", "continue", "skip"},
     at : {"idle", "started", "saved", "replaced", "reworded", "run",
           "git", "returned", "skip"},
     ok : BOOLEAN, commit : ReplayCommits \cup {Nothing}]

StateOK == rebaseState # NoState =>
    rebaseState \in StateFiles /\ rebaseState.messages \subseteq Rewords(rebaseState.actions)

Troubles == [interrupted : Nat, conflicts : Nat, blocked : Nat, unsaved : BOOLEAN]

OtherOK ==
    /\ approved \in Plans
    /\ skipped \subseteq ReplayCommits
    /\ rebaseEnd \in {"open", "finished", "aborted"}
    /\ troubles \in Troubles

\* The type invariant, variable by variable.
LEMMA TypeParts ==
    RebaseTypeOK <=> repo \in RepoTypes /\ StateOK /\ control \in ControlTypes /\ OtherOK
BY DEF RebaseTypeOK, RepoTypes, StateOK, StateFiles, ControlTypes, OtherOK, Troubles

\* The same of the next state.
LEMMA TypePartsNext ==
    RebaseTypeOK' <=> repo' \in RepoTypes /\ StateOK' /\ control' \in ControlTypes /\ OtherOK'
BY DEF RebaseTypeOK, RepoTypes, StateOK, StateFiles, ControlTypes, OtherOK, Troubles

\* No call runs.
LEMMA NoControlIsTyped == NoControl \in ControlTypes
BY DEF NoControl, ControlTypes

\* A repository without a rebase keeps its history.
LEMMA NoRebaseIsTyped ==
    ASSUME NEW head \in Seq(Heads) \ {<<>>}
    PROVE  [NoRebase EXCEPT !.head = head] \in RepoTypes /\ NoRebase \in RepoTypes
<1>1. Commit(Upstream, Own(Upstream)) \in Heads BY CommitIsTyped
<1>2. <<Commit(Upstream, Own(Upstream))>> \in Seq(Heads) \ {<<>>} BY <1>1
<1>3. <<>> \in Seq(Actions) OBVIOUS
<1>4. QED BY <1>2, <1>3 DEF NoRebase, RepoTypes

\* StartInteractiveRebase and ApplyRebaseActions.
LEMMA ApplyTypes ==
    ASSUME RebaseTypeOK, CallInv,
           \/ StartRebase \/ SaveStart \/ AbortStart
           \/ \E plan \in Plans : ApplyRebaseActions(plan)
           \/ ReplaceTodo \/ FinishApply
    PROVE  RebaseTypeOK'
<1> USE DEF Step, CallReturns, Save
<1>0. repo \in RepoTypes /\ StateOK /\ control \in ControlTypes /\ OtherOK BY TypeParts
<1>1. CASE StartRebase
  <2>1. NoRebase \in RepoTypes /\ Instructions(AllPicks) \in Seq(Actions)
    BY NoRebaseIsTyped, <1>0, InstructionsFacts, PlansAreTyped DEF RepoTypes
  <2>2. repo' \in RepoTypes BY <2>1, <1>1 DEF StartRebase, RepoTypes
  <2>3. control' \in ControlTypes BY NoControlIsTyped, <1>1 DEF StartRebase, ControlTypes
  <2>4. QED BY <1>0, <1>1, <2>2, <2>3, TypePartsNext DEF StartRebase, StateOK, OtherOK
<1>2. CASE SaveStart
  <2>1. repo.todo \in Seq(Actions) /\ <<>> \in Seq(Actions) BY <1>0 DEF RepoTypes
  <2>2. StateOK' BY <2>1, <1>2, PlansAreTyped DEF SaveStart, StateOK, StateFiles
  <2>3. QED BY <1>0, <1>2, <2>2, NoControlIsTyped, TypePartsNext DEF SaveStart, OtherOK
<1>3. CASE AbortStart
  <2>1. NoRebase \in RepoTypes BY NoRebaseIsTyped, <1>0 DEF RepoTypes
  <2>2. QED BY <1>0, <1>3, <2>1, NoControlIsTyped, TypePartsNext DEF AbortStart, StateOK, OtherOK
<1>4. ASSUME NEW plan \in Plans, ApplyRebaseActions(plan) PROVE RebaseTypeOK'
  <2>1. rebaseState # NoState BY <1>4 DEF ApplyRebaseActions, Owned
  <2>2. StateOK'
    <3>1. CASE UNCHANGED rebaseState BY <1>0, <3>1 DEF StateOK
    <3>2. CASE rebaseState' = [rebaseState EXCEPT !.phase = "applying", !.pending = Instructions(plan),
                                                  !.messages = Rewords(plan), !.actions = plan]
      <4>1. Instructions(plan) \in Seq(Actions) /\ Rewords(plan) \subseteq ReplayCommits
        BY InstructionsFacts, PlansAreTyped
      <4>2. rebaseState \in StateFiles BY <1>0, <2>1 DEF StateOK
      <4>3. rebaseState' \in StateFiles BY <1>4, <3>2, <4>1, <4>2 DEF StateFiles
      <4>4. rebaseState'.messages = Rewords(rebaseState'.actions)
        BY <3>2, <4>2 DEF StateFiles
      <4>5. QED BY <4>3, <4>4 DEF StateOK
    <3>3. QED BY <1>4, <3>1, <3>2 DEF ApplyRebaseActions, Save
  <2>3. control' \in ControlTypes
    BY NoControlIsTyped, <1>4 DEF ApplyRebaseActions, ControlTypes
  <2>4. QED BY <1>0, <1>4, <2>2, <2>3, TypePartsNext DEF ApplyRebaseActions, OtherOK
<1>5. CASE ReplaceTodo
  <2>1. rebaseState # NoState /\ rebaseState.pending \in Seq(Actions)
    BY <1>0, <1>5 DEF ReplaceTodo, CallInv, StateOK, StateFiles
  <2>2. repo' \in RepoTypes BY <1>0, <1>5, <2>1 DEF ReplaceTodo, RepoTypes
  <2>3. control' \in ControlTypes BY NoControlIsTyped, <1>5 DEF ReplaceTodo, ControlTypes
  <2>4. QED BY <1>0, <1>5, <2>2, <2>3, TypePartsNext DEF ReplaceTodo, StateOK, OtherOK
<1>6. CASE FinishApply
  <2>1. rebaseState # NoState BY <1>6 DEF FinishApply, CallInv
  <2>2. repo.todo \in Seq(Actions) /\ <<>> \in Seq(Actions) BY <1>0 DEF RepoTypes
  <2>3. StateOK' BY <1>0, <1>6, <2>1, <2>2 DEF FinishApply, StateOK, StateFiles
  <2>4. rebaseState.actions \in Plans BY <1>0, <2>1 DEF StateOK, StateFiles
  <2>5. QED BY <1>0, <1>6, <2>3, <2>4, NoControlIsTyped, TypePartsNext DEF FinishApply, OtherOK
<1>7. QED BY <1>1, <1>2, <1>3, <1>4, <1>5, <1>6

\* The state file of a rebase that stops, or whose reword is done.
LEMMA SavedTypes ==
    ASSUME RebaseTypeOK, rebaseState # NoState,
           NEW reason \in {"none", "commandError", "syntheticEdit", "manual"}
    PROVE  /\ StoppedFor(reason) \in StateFiles
           /\ StoppedFor(reason) # NoState
           /\ StoppedFor(reason).messages = rebaseState.messages
           /\ StoppedFor(reason).actions = rebaseState.actions
           /\ StoppedFor(reason).phase = "stopped" /\ StoppedFor(reason).reason = reason
           /\ StoppedFor(reason).messages \subseteq Rewords(StoppedFor(reason).actions)
<1>0. repo \in RepoTypes /\ StateOK BY TypeParts
<1>1. repo.todo \in Seq(Actions) BY <1>0 DEF RepoTypes
<1>2. StoppedFor(reason) \in StateFiles BY <1>0, <1>1 DEF StoppedFor, StateOK, StateFiles
<1>3. QED BY <1>0, <1>2, RebaseAssumption DEF StoppedFor, StateOK, StateFiles

\* What git commit leaves of the repository.
LEMMA CommitTypes ==
    ASSUME RebaseTypeOK, NEW amend \in BOOLEAN, GitCommit(amend), repo.rebaseHead # Nothing
    PROVE  repo' \in RepoTypes
<1>0. repo \in RepoTypes BY TypeParts
<1>1. New(repo.rebaseHead) \in CommitMessages BY <1>0 DEF RepoTypes, New, CommitMessages
<1>2. [repo.head EXCEPT ![Len(repo.head)].message = New(repo.rebaseHead)] \in Seq(Heads) \ {<<>>}
  BY <1>0, <1>1, HeadChanges DEF RepoTypes
<1>3. Commit(repo.staged, New(repo.rebaseHead)) \in Heads
  BY <1>0, CommitIsTyped DEF RepoTypes
<1>4. Append(repo.head, Commit(repo.staged, New(repo.rebaseHead))) \in Seq(Heads) \ {<<>>}
  BY <1>0, <1>3, HeadGrows DEF RepoTypes
<1>5. QED BY <1>0, <1>2, <1>4 DEF GitCommit, RepoTypes

\* git goes on from what HEAD is and, with success, from what was staged.
LEMMA GoesOnTypes ==
    ASSUME RebaseTypeOK, NEW head \in Seq(Heads) \ {<<>>}, GitGoesOn(head)
    PROVE  repo' \in RepoTypes /\ control' \in ControlTypes /\ StateOK'
<1>0. repo \in RepoTypes /\ StateOK /\ control \in ControlTypes BY TypeParts
<1>1. QED BY <1>0 DEF GitGoesOn, RepoTypes, ControlTypes, StateOK

\* ContinueRebase.
LEMMA ContinueTypes ==
    ASSUME RebaseTypeOK, CallInv,
           \/ ContinueRebase \/ RecordReword \/ TodoChanged \/ RunContinue \/ AfterContinue
    PROVE  RebaseTypeOK'
<1> USE DEF Step, CallReturns, Save
<1>0. repo \in RepoTypes /\ StateOK /\ control \in ControlTypes /\ OtherOK BY TypeParts
<1>1. CASE ContinueRebase
  <2>1. rebaseState # NoState BY <1>1 DEF ContinueRebase, Owned
  <2>2. control' \in ControlTypes BY NoControlIsTyped, <1>1 DEF ContinueRebase, ControlTypes
  <2>3. CASE ~RewordIsPending /\ UNCHANGED <<repo, rebaseState>>
    BY <1>0, <1>1, <2>2, <2>3, TypePartsNext DEF ContinueRebase, StateOK, OtherOK
  <2>4. CASE /\ UNCHANGED repo
             /\ rebaseState' = IF rebaseState.phase = "ready" THEN StoppedFor("commandError")
                               ELSE rebaseState
    <3>1. StateOK' BY <1>0, <2>1, <2>4, SavedTypes DEF StateOK
    <3>2. QED BY <1>0, <1>1, <2>2, <2>4, <3>1, TypePartsNext DEF ContinueRebase, OtherOK
  <2>5. CASE RewordIsPending /\ GitCommit(CommitExists) /\ UNCHANGED rebaseState
    <3>1. repo' \in RepoTypes BY <2>5, CommitTypes DEF RewordIsPending, CommitExists
    <3>2. QED BY <1>0, <1>1, <2>2, <2>5, <3>1, TypePartsNext DEF ContinueRebase, StateOK, OtherOK
  <2>6. QED BY <1>1, <2>3, <2>4, <2>5 DEF ContinueRebase
<1>2. CASE RecordReword
  <2>1. rebaseState # NoState BY <1>2 DEF RecordReword, CallInv, InPlace
  <2>2. repo.todo \in Seq(Actions) BY <1>0 DEF RepoTypes
  <2>3. StateOK' BY <1>0, <1>2, <2>1, <2>2 DEF RecordReword, StateOK, StateFiles
  <2>4. control' \in ControlTypes BY NoControlIsTyped, <1>2 DEF RecordReword, ControlTypes
  <2>5. QED BY <1>0, <1>2, <2>3, <2>4, TypePartsNext DEF RecordReword, OtherOK
<1>3. CASE TodoChanged
  BY <1>0, <1>3, NoControlIsTyped, TypePartsNext DEF TodoChanged, StateOK, OtherOK
<1>4. CASE RunContinue
  <2>1. CASE GitReturns(FALSE) /\ UNCHANGED <<repo, rebaseState, rebaseEnd, troubles>>
    <3>1. control' \in ControlTypes BY <1>0, <2>1 DEF GitReturns, ControlTypes
    <3>2. QED BY <1>0, <1>4, <2>1, <3>1, TypePartsNext DEF RunContinue, StateOK, OtherOK
  <2>2. ASSUME GitGoesOn(IF repo.staged = Nothing THEN repo.head
                         ELSE Append(repo.head, Commit(repo.staged, Own(repo.staged))))
        PROVE  RebaseTypeOK'
    <3> DEFINE head == IF repo.staged = Nothing THEN repo.head
                       ELSE Append(repo.head, Commit(repo.staged, Own(repo.staged)))
    <3>1. head \in Seq(Heads) \ {<<>>} BY <1>0, HeadGrows, CommitIsTyped DEF RepoTypes
    <3>2. repo' \in RepoTypes /\ control' \in ControlTypes /\ StateOK'
      BY <2>2, <3>1, GoesOnTypes
    <3>3. QED BY <1>0, <1>4, <2>2, <3>2, TypePartsNext DEF RunContinue, GitGoesOn, OtherOK
  <2>3. QED BY <1>4, <2>1, <2>2 DEF RunContinue, GitContinue
<1>5. CASE AfterContinue
  <2>1. rebaseState # NoState BY <1>5 DEF AfterContinue, CallInv, InPlace
  <2>2. CASE RewordIsPending /\ GitCommit(TRUE) /\ Step("continue", "reworded") /\ UNCHANGED rebaseState
    <3>1. repo' \in RepoTypes BY <2>2, CommitTypes DEF RewordIsPending
    <3>2. control' \in ControlTypes BY NoControlIsTyped, <2>2 DEF ControlTypes
    <3>3. QED BY <1>0, <1>5, <2>2, <3>1, <3>2, TypePartsNext DEF AfterContinue, StateOK, OtherOK
  <2>3. CASE /\ \E reason \in {"commandError", "syntheticEdit", "manual"} :
                  rebaseState' = StoppedFor(reason)
             /\ CallReturns /\ UNCHANGED repo
    <3>1. StateOK' BY <2>1, <2>3, SavedTypes DEF StateOK
    <3>2. QED BY <1>0, <1>5, <2>3, <3>1, NoControlIsTyped, TypePartsNext DEF AfterContinue, OtherOK
  <2>4. QED BY <1>5, <2>2, <2>3 DEF AfterContinue
<1>6. QED BY <1>1, <1>2, <1>3, <1>4, <1>5

\* A call that is interrupted is one more trouble, and may leave the state
\* file wrong.
LEMMA InterruptedTypes ==
    ASSUME NEW t \in Troubles, NEW unsaved \in BOOLEAN
    PROVE  [t EXCEPT !.interrupted = @ + 1, !.unsaved = unsaved] \in Troubles
<1> DEFINE count == t.interrupted + 1
<1>1. count \in Nat BY DEF Troubles
<1> HIDE DEF count
<1>2. [t EXCEPT !.interrupted = count, !.unsaved = unsaved] \in Troubles BY <1>1 DEF Troubles
<1>3. QED BY <1>2 DEF count

\* SkipCommit, AbortRebase, the user and the end of a call.
LEMMA SkipTypes ==
    ASSUME RebaseTypeOK, CallInv,
           SkipCommit \/ RunSkip \/ AfterSkip \/ AbortRebase \/ Resolve \/ Interrupt
    PROVE  RebaseTypeOK'
<1> USE DEF Step, CallReturns, Save
<1>0. repo \in RepoTypes /\ StateOK /\ control \in ControlTypes /\ OtherOK BY TypeParts
<1>1. CASE SkipCommit
  <2>1. control' \in ControlTypes BY <1>0, <1>1 DEF SkipCommit, ControlTypes, RepoTypes
  <2>2. QED BY <1>0, <1>1, <2>1, TypePartsNext DEF SkipCommit, StateOK, OtherOK
<1>2. CASE RunSkip
  <2>1. repo' \in RepoTypes /\ control' \in ControlTypes /\ StateOK'
    BY <1>0, <1>2, GoesOnTypes DEF RunSkip, RepoTypes
  <2>2. OtherOK' BY <1>0, <1>2 DEF RunSkip, GitGoesOn, OtherOK, RepoTypes
  <2>3. QED BY <2>1, <2>2, TypePartsNext
<1>3. CASE AfterSkip
  <2>1. rebaseState # NoState BY <1>3 DEF AfterSkip, CallInv, InPlace
  <2>2. StateOK'
    <3>1. CASE rebaseState' = StoppedFor("commandError") BY <2>1, <3>1, SavedTypes DEF StateOK
    <3>2. CASE rebaseState' = [StoppedFor("manual") EXCEPT !.messages = @ \ {control.commit}]
      <4>1. rebaseState' \in StateFiles /\ rebaseState'.messages \subseteq rebaseState.messages
            /\ rebaseState'.actions = rebaseState.actions
        BY <2>1, <3>2, SavedTypes DEF StateFiles
      <4>2. QED BY <1>0, <2>1, <4>1 DEF StateOK, Rewords
    <3>3. QED BY <1>3, <3>1, <3>2 DEF AfterSkip
  <2>3. QED BY <1>0, <1>3, <2>2, NoControlIsTyped, TypePartsNext DEF AfterSkip, OtherOK
<1>4. CASE AbortRebase
  <2>1. NoRebase \in RepoTypes BY NoRebaseIsTyped, <1>0 DEF RepoTypes
  <2>2. QED BY <1>0, <1>4, <2>1, TypePartsNext DEF AbortRebase, StateOK, OtherOK
<1>5. CASE Resolve
  <2>1. repo' \in RepoTypes BY <1>0, <1>5 DEF Resolve, RepoTypes
  <2>2. QED BY <1>0, <1>5, <2>1, TypePartsNext DEF Resolve, StateOK, OtherOK
<1>6. CASE Interrupt
  <2> DEFINE unsaved == troubles.unsaved \/ ~FileIsRight
  <2>1. /\ troubles' = [troubles EXCEPT !.interrupted = @ + 1, !.unsaved = unsaved]
        /\ troubles \in Troubles
    BY <1>0, <1>6 DEF Interrupt, OtherOK
  <2>2. unsaved \in BOOLEAN OBVIOUS
  <2> HIDE DEF unsaved
  <2>3. troubles' \in Troubles BY <2>1, <2>2, InterruptedTypes
  <2>4. QED BY <1>0, <1>6, <2>3, NoControlIsTyped, TypePartsNext DEF Interrupt, StateOK, OtherOK
<1>7. QED BY <1>1, <1>2, <1>3, <1>4, <1>5, <1>6

\* The next action of git, when there is one.
LEMMA NextAction ==
    ASSUME RebaseTypeOK, repo.todo # <<>>
    PROVE  /\ Head(repo.todo) \in Actions /\ NextCommit \in ReplayCommits
           /\ Tail(repo.todo) \in Seq(Actions)
           /\ Len(repo.todo) \in Nat \ {0}
           /\ Len(Tail(repo.todo)) = Len(repo.todo) - 1
           /\ Head(repo.todo) = repo.todo[1]
           /\ \A n \in 1..Len(repo.todo) - 1 : Tail(repo.todo)[n] = repo.todo[n + 1]
<1>1. repo.todo \in Seq(Actions) BY TypeParts DEF RepoTypes
<1>2. /\ Head(repo.todo) \in Actions /\ Head(repo.todo) = repo.todo[1]
      /\ Tail(repo.todo) \in Seq(Actions) /\ Len(repo.todo) \in Nat \ {0}
      /\ Len(Tail(repo.todo)) = Len(repo.todo) - 1
      /\ \A n \in 1..Len(repo.todo) - 1 : Tail(repo.todo)[n] = repo.todo[n + 1]
  BY <1>1
<1>3. QED BY <1>2 DEF NextCommit, Actions

\* What git does with the next action leaves the repository typed.
LEMMA TakenTypes ==
    ASSUME RebaseTypeOK, repo.todo # <<>>
    PROVE  Taken \in RepoTypes /\ Applied \in RepoTypes
<1>0. repo \in RepoTypes BY TypeParts
<1>1. Taken \in RepoTypes BY <1>0, NextAction DEF Taken, RepoTypes
<1>2. Append(Taken.head, Commit(NextCommit, Own(NextCommit))) \in Seq(Heads) \ {<<>>}
  BY <1>1, NextAction, HeadGrows, CommitIsTyped DEF RepoTypes
<1>3. QED BY <1>1, <1>2 DEF Applied, RepoTypes

\* What git does with the next action.
LEMMA GitTypes ==
    ASSUME RebaseTypeOK, CallInv, GitStep
    PROVE  RebaseTypeOK'
<1> USE DEF CallReturns, GitReturns
<1>0. repo \in RepoTypes /\ StateOK /\ control \in ControlTypes /\ OtherOK BY TypeParts
<1>1. ASSUME repo.todo # <<>> PROVE Taken \in RepoTypes /\ Applied \in RepoTypes
             /\ NextCommit \in ReplayCommits
  BY <1>1, TakenTypes, NextAction
<1>2. CASE GitDrops
  BY <1>0, <1>1, <1>2, TypePartsNext DEF GitDrops, AtAction, StateOK, OtherOK
<1>3. CASE GitPicks
  BY <1>0, <1>1, <1>3, TypePartsNext DEF GitPicks, AtAction, StateOK, OtherOK
<1>4. CASE GitEdits
  <2>1. repo' \in RepoTypes BY <1>1, <1>4 DEF GitEdits, AtAction, RepoTypes
  <2>2. control' \in ControlTypes BY <1>0, <1>4 DEF GitEdits, ControlTypes
  <2>3. QED BY <1>0, <1>4, <2>1, <2>2, TypePartsNext DEF GitEdits, StateOK, OtherOK
<1>5. CASE GitConflicts
  <2>1. repo' \in RepoTypes BY <1>1, <1>5 DEF GitConflicts, AtAction, RepoTypes
  <2>2. control' \in ControlTypes BY <1>0, <1>5 DEF GitConflicts, ControlTypes
  <2>3. troubles' \in Troubles
    BY <1>0, <1>5 DEF GitConflicts, OtherOK, Troubles
  <2>4. QED BY <1>0, <1>5, <2>1, <2>2, <2>3, TypePartsNext DEF GitConflicts, StateOK, OtherOK
<1>6. CASE GitIsBlocked
  <2>1. repo' \in RepoTypes BY <1>0, <1>1, <1>6 DEF GitIsBlocked, AtAction, RepoTypes
  <2>2. control' \in ControlTypes BY <1>0, <1>6 DEF GitIsBlocked, ControlTypes
  <2>3. troubles' \in Troubles
    BY <1>0, <1>6 DEF GitIsBlocked, OtherOK, Troubles
  <2>4. QED BY <1>0, <1>6, <2>1, <2>2, <2>3, TypePartsNext DEF GitIsBlocked, StateOK, OtherOK
<1>7. CASE GitFinishes
  <2>1. repo' \in RepoTypes BY <1>0, <1>7, NoRebaseIsTyped DEF GitFinishes, RepoTypes
  <2>2. QED BY <1>0, <1>7, <2>1, NoControlIsTyped, TypePartsNext DEF GitFinishes, StateOK, OtherOK
<1>8. QED BY <1>2, <1>3, <1>4, <1>5, <1>6, <1>7 DEF GitStep

-----------------------------------------------------------------------------
(* Where a call is, and what is in place before the user's actions are.    *)

BeginInv == CallInv /\ FreshInv

\* A step that leaves the phase and what CallInv says of it, and goes on with a
\* call whose state file is open.
LEMMA OpenGoesOn ==
    ASSUME RebaseTypeOK, BeginInv, InPlace, InPlace', repo.active, repo'.active,
           control'.at \notin {"started", "saved", "replaced"},
           control'.at \in {"git", "returned"} => control'.call \in {"continue", "skip"},
           control'.at = "run" => control'.call = "continue",
           control'.at = "skip" => control'.call = "skip",
           UNCHANGED rebaseEnd
    PROVE  BeginInv'
BY DEF BeginInv, CallInv, FreshInv, InPlace

\* The actions of the user are in place only while the rebase is open.
LEMMA InPlaceIsActive == BeginInv /\ InPlace => repo.active /\ rebaseEnd = "open"
BY DEF BeginInv, CallInv, InPlace

\* StartInteractiveRebase and ApplyRebaseActions.
LEMMA ApplyBegins ==
    ASSUME RebaseTypeOK, BeginInv,
           \/ StartRebase \/ SaveStart \/ AbortStart
           \/ \E plan \in Plans : ApplyRebaseActions(plan)
           \/ ReplaceTodo \/ FinishApply
    PROVE  BeginInv'
<1> USE DEF Step, CallReturns, Save, NoControl, Idle
<1>0. StateOK /\ control \in ControlTypes BY TypeParts
<1>1. CASE StartRebase
  BY <1>1 DEF StartRebase, BeginInv, CallInv, FreshInv, InPlace, NoRebase, Base
<1>2. CASE SaveStart
  BY <1>2 DEF SaveStart, BeginInv, CallInv, FreshInv, InPlace
<1>3. CASE AbortStart
  BY <1>3 DEF AbortStart, BeginInv, CallInv, FreshInv, InPlace, NoRebase
<1>4. ASSUME NEW plan \in Plans, ApplyRebaseActions(plan) PROVE BeginInv'
  <2>1. rebaseState # NoState /\ repo.active /\ rebaseState \in StateFiles
    BY <1>0, <1>4 DEF ApplyRebaseActions, Owned, StateOK
  <2>2. rebaseState' \in StateFiles /\ rebaseState' # NoState
    <3>1. RebaseTypeOK' BY <1>4, ApplyTypes DEF BeginInv
    <3>2. StateOK' BY <3>1, TypePartsNext
    <3>3. CASE rebaseState.phase = "awaitingApply" /\ rebaseState' =
                 [rebaseState EXCEPT !.phase = "applying", !.pending = Instructions(plan),
                                     !.messages = Rewords(plan), !.actions = plan]
      <4>1. rebaseState' \in StateFiles
        BY <2>1, <3>3, InstructionsFacts, PlansAreTyped DEF StateFiles
      <4>2. QED BY <4>1, RebaseAssumption
    <3>4. QED BY <1>4, <2>1, <3>3 DEF ApplyRebaseActions
  <2>3. ~InPlace /\ ~InPlace' /\ rebaseState'.phase = "applying"
    BY <1>4, <2>1 DEF ApplyRebaseActions, InPlace, StateFiles
  <2>4. rebaseState'.pending = Instructions(rebaseState'.actions)
        /\ rebaseState'.messages = Rewords(rebaseState'.actions)
    BY <1>4, <2>1 DEF ApplyRebaseActions, BeginInv, CallInv, StateFiles
  <2>5. QED BY <1>4, <2>1, <2>2, <2>3, <2>4 DEF ApplyRebaseActions, BeginInv, CallInv, FreshInv
<1>5. CASE ReplaceTodo
  <2>1. UNCHANGED <<rebaseState, skipped, rebaseEnd>> /\ repo'.todo = rebaseState.pending
        /\ repo'.active = repo.active /\ repo'.head = repo.head /\ repo'.rebaseHead = repo.rebaseHead
        /\ repo'.unmerged = repo.unmerged /\ repo'.staged = repo.staged
    BY <1>5, TypeParts DEF ReplaceTodo, RepoTypes
  <2>2. QED BY <1>5, <2>1 DEF ReplaceTodo, BeginInv, CallInv, FreshInv, InPlace
<1>6. CASE FinishApply
  BY <1>0, <1>6 DEF FinishApply, BeginInv, CallInv, FreshInv, InPlace, StateOK, StateFiles
<1>7. QED BY <1>1, <1>2, <1>3, <1>4, <1>5, <1>6

\* ContinueRebase.
LEMMA ContinueBegins ==
    ASSUME RebaseTypeOK, BeginInv,
           \/ ContinueRebase \/ RecordReword \/ TodoChanged \/ RunContinue \/ AfterContinue
    PROVE  BeginInv' /\ InPlace'
<1> USE DEF Step, CallReturns, Save, NoControl, Idle
<1>0. repo \in RepoTypes /\ StateOK /\ control \in ControlTypes BY TypeParts
<1>1. InPlace
  BY DEF ContinueRebase, Owned, RecordReword, TodoChanged, RunContinue, AfterContinue,
         BeginInv, CallInv, InPlace, Idle
<1>2. repo.active /\ rebaseEnd = "open" BY <1>1, InPlaceIsActive
<1>3. rebaseState # NoState /\ rebaseState \in StateFiles BY <1>0, <1>1 DEF InPlace, StateOK
<1>4. ASSUME NEW reason \in {"none", "commandError", "syntheticEdit", "manual"}
      PROVE  StoppedFor(reason) # NoState /\ StoppedFor(reason).phase = "stopped"
  BY <1>3, SavedTypes
<1>5. ASSUME NEW amend \in BOOLEAN, GitCommit(amend) PROVE repo'.active
  BY <1>0, <1>2, <1>5 DEF GitCommit, RepoTypes
<1>6. ASSUME NEW head, GitGoesOn(head) PROVE repo'.active /\ control'.at = "git" /\ control'.call = control.call
  BY <1>0, <1>2, <1>6 DEF GitGoesOn, RepoTypes, ControlTypes
<1>7. CASE ContinueRebase
  <2>1. InPlace' /\ repo'.active /\ control'.at \in {"run", "reworded"}
        /\ control'.call = "continue" /\ UNCHANGED rebaseEnd
    BY <1>1, <1>2, <1>4, <1>5, <1>7 DEF ContinueRebase, InPlace, CommitExists
  <2>2. QED BY <1>1, <1>2, <2>1, OpenGoesOn
<1>8. CASE RecordReword
  <2>1. rebaseState' \in StateFiles /\ rebaseState'.phase = "ready"
    BY <1>0, <1>3, <1>8 DEF RecordReword, StateFiles, RepoTypes
  <2>2. InPlace' /\ repo'.active /\ control'.at = "run"
        /\ control'.call = "continue" /\ UNCHANGED rebaseEnd
    BY <1>2, <1>8, <2>1, RebaseAssumption DEF RecordReword, InPlace
  <2>3. QED BY <1>1, <1>2, <2>2, OpenGoesOn
<1>9. CASE TodoChanged
  <2>1. InPlace' /\ repo'.active /\ control'.at = "idle" /\ UNCHANGED rebaseEnd
    BY <1>1, <1>2, <1>9 DEF TodoChanged, InPlace
  <2>2. QED BY <1>1, <1>2, <2>1, OpenGoesOn
<1>10. CASE RunContinue
  <2>1. InPlace' /\ UNCHANGED rebaseEnd BY <1>1, <1>10 DEF RunContinue, GitContinue, GitGoesOn, InPlace
  <2>0. control.call \in {"continue", "skip"} BY <1>10 DEF RunContinue, BeginInv, CallInv
  <2>2. CASE control'.at = "git" /\ repo'.active /\ control'.call = control.call
    BY <1>1, <1>2, <2>0, <2>1, <2>2, OpenGoesOn
  <2>3. CASE GitReturns(FALSE) /\ UNCHANGED repo
    <3>1. control'.at = "returned" /\ repo'.active BY <1>0, <1>2, <2>3 DEF GitReturns, ControlTypes
    <3>2. control'.call \in {"continue", "skip"} BY <1>0, <2>0, <2>3 DEF GitReturns, ControlTypes
    <3>3. QED BY <1>1, <1>2, <2>1, <3>1, <3>2, OpenGoesOn
  <2>4. QED BY <1>6, <1>10, <2>2, <2>3 DEF RunContinue, GitContinue
<1>11. CASE AfterContinue
  <2>0. UNCHANGED rebaseEnd BY <1>11 DEF AfterContinue
  <2>1. InPlace' /\ repo'.active /\ control'.at \in {"idle", "reworded"}
    <3>1. CASE GitCommit(TRUE) /\ Step("continue", "reworded") /\ UNCHANGED rebaseState
      BY <1>1, <1>5, <3>1 DEF InPlace
    <3>2. ASSUME NEW reason \in {"none", "commandError", "syntheticEdit", "manual"},
                 rebaseState' = StoppedFor(reason), CallReturns, UNCHANGED repo
          PROVE  InPlace' /\ repo'.active /\ control'.at = "idle"
      BY <1>2, <1>4, <3>2 DEF InPlace
    <3>3. QED BY <1>11, <3>1, <3>2 DEF AfterContinue
  <2>2. QED BY <1>1, <1>2, <2>0, <2>1, OpenGoesOn
<1>12. QED BY <1>7, <1>8, <1>9, <1>10, <1>11

\* SkipCommit, AbortRebase, the user, and a call that ends early.
LEMMA SkipBegins ==
    ASSUME RebaseTypeOK, BeginInv,
           SkipCommit \/ RunSkip \/ AfterSkip \/ AbortRebase \/ Resolve \/ Interrupt
    PROVE  BeginInv'
<1> USE DEF Step, CallReturns, Save, NoControl, Idle
<1>0. repo \in RepoTypes /\ StateOK /\ control \in ControlTypes BY TypeParts
<1>1. CASE SkipCommit
  <2>1. InPlace /\ InPlace' /\ UNCHANGED <<repo, rebaseEnd>> /\ control'.at = "skip" /\ control'.call = "skip"
    BY <1>1 DEF SkipCommit, Owned, InPlace, CommandError
  <2>2. QED BY <2>1, InPlaceIsActive, OpenGoesOn
<1>2. CASE RunSkip
  <2>1. InPlace /\ InPlace' /\ UNCHANGED rebaseEnd /\ repo'.active = repo.active
        /\ control'.at = "git" /\ control'.call = control.call
    BY <1>0, <1>2 DEF RunSkip, GitGoesOn, BeginInv, CallInv, InPlace, RepoTypes, ControlTypes
  <2>2. control.call = "skip" BY <1>2 DEF RunSkip, BeginInv, CallInv
  <2>3. QED BY <2>1, <2>2, InPlaceIsActive, OpenGoesOn
<1>3. CASE AfterSkip
  <2>1. InPlace /\ UNCHANGED <<repo, rebaseEnd>> /\ control'.at = "idle"
    BY <1>3 DEF AfterSkip, BeginInv, CallInv
  <2>2. rebaseState # NoState BY <2>1 DEF InPlace
  <2>3. rebaseState' \in StateFiles /\ rebaseState'.phase = "stopped"
    <3>1. CASE rebaseState' = StoppedFor("commandError") BY <2>2, <3>1, SavedTypes
    <3>2. CASE rebaseState' = [StoppedFor("manual") EXCEPT !.messages = @ \ {control.commit}]
      BY <2>2, <3>2, SavedTypes DEF StateFiles
    <3>3. QED BY <1>3, <3>1, <3>2 DEF AfterSkip
  <2>4. InPlace' BY <2>3, RebaseAssumption DEF InPlace
  <2>5. QED BY <2>1, <2>4, InPlaceIsActive, OpenGoesOn
<1>4. CASE AbortRebase
  BY <1>4 DEF AbortRebase, Owned, BeginInv, CallInv, FreshInv, InPlace, NoRebase
<1>5. CASE Resolve
  <2>1. repo' = [repo EXCEPT !.unmerged = FALSE] /\ repo.unmerged
        /\ UNCHANGED <<rebaseState, control, skipped, rebaseEnd>> /\ Idle
    BY <1>5 DEF Resolve
  <2>2. repo'.active = repo.active /\ repo'.head = repo.head /\ repo'.rebaseHead = repo.rebaseHead
        /\ repo'.staged = repo.staged /\ ~repo'.unmerged
    BY <1>0, <2>1 DEF RepoTypes
  <2>3. QED BY <2>1, <2>2 DEF BeginInv, CallInv, FreshInv, InPlace
<1>6. CASE Interrupt
  BY <1>6 DEF Interrupt, BeginInv, CallInv, FreshInv, InPlace
<1>7. QED BY <1>1, <1>2, <1>3, <1>4, <1>5, <1>6

\* git.
LEMMA GitBegins ==
    ASSUME RebaseTypeOK, BeginInv, GitStep
    PROVE  BeginInv'
<1>0. repo \in RepoTypes /\ control \in ControlTypes BY TypeParts
<1>1. InPlace /\ control.at = "git" /\ control.call \in {"continue", "skip"}
  BY DEF GitStep, GitDrops, GitPicks, GitEdits, GitConflicts, GitIsBlocked, GitFinishes,
         AtAction, BeginInv, CallInv
<1>2. repo.active /\ rebaseEnd = "open" BY <1>1, InPlaceIsActive
<1>3. CASE GitFinishes
  BY <1>3 DEF GitFinishes, CallReturns, NoControl, NoRebase, Idle, BeginInv, CallInv, FreshInv, InPlace
<1>4. CASE GitDrops \/ GitPicks \/ GitEdits \/ GitConflicts \/ GitIsBlocked
  <2>1. UNCHANGED <<rebaseState, rebaseEnd>> /\ InPlace'
    BY <1>1, <1>4 DEF GitDrops, GitPicks, GitEdits, GitConflicts, GitIsBlocked, InPlace
  <2>2. repo'.active = repo.active
    BY <1>0, <1>4 DEF GitDrops, GitPicks, GitEdits, GitConflicts, GitIsBlocked, Taken, Applied,
                      RepoTypes
  <2>3. control'.at \in {"git", "returned"} /\ control'.call = control.call
    BY <1>0, <1>1, <1>4 DEF GitDrops, GitPicks, GitEdits, GitConflicts, GitIsBlocked, GitReturns,
                      ControlTypes
  <2>4. QED BY <1>1, <1>2, <2>1, <2>2, <2>3, OpenGoesOn
<1>5. QED BY <1>3, <1>4 DEF GitStep

\* Before a rebase begins.
LEMMA BeginInit == RebaseInit => BeginInv
BY DEF RebaseInit, NoRebase, NoControl, Idle, BeginInv, CallInv, FreshInv, InPlace

\* Types, and where the calls are, whatever happens to a rebase.
LEMMA BeginStep ==
    ASSUME RebaseTypeOK, BeginInv, [RebaseNext]_rebaseVars
    PROVE  RebaseTypeOK' /\ BeginInv'
<1>1. CASE \/ StartRebase \/ SaveStart \/ AbortStart
           \/ \E plan \in Plans : ApplyRebaseActions(plan)
           \/ ReplaceTodo \/ FinishApply
  BY <1>1, ApplyTypes, ApplyBegins DEF BeginInv
<1>2. CASE ContinueRebase \/ RecordReword \/ TodoChanged \/ RunContinue \/ AfterContinue
  BY <1>2, ContinueTypes, ContinueBegins DEF BeginInv
<1>3. CASE SkipCommit \/ RunSkip \/ AfterSkip \/ AbortRebase \/ Resolve \/ Interrupt
  BY <1>3, SkipTypes, SkipBegins DEF BeginInv
<1>4. CASE GitStep BY <1>4, GitTypes, GitBegins DEF BeginInv
<1>5. CASE UNCHANGED rebaseVars
  <2>1. RebaseTypeOK' BY <1>5 DEF rebaseVars, RebaseTypeOK
  <2>2. BeginInv' BY <1>5 DEF rebaseVars, BeginInv, CallInv, FreshInv, InPlace, Idle
  <2>3. QED BY <2>1, <2>2
<1>6. QED BY <1>1, <1>2, <1>3, <1>4, <1>5 DEF RebaseNext

-----------------------------------------------------------------------------
(* What is replayed, under each change of the repository.                  *)

\* Neither the history nor what it is compared with changes.
LEMMA NothingReplayed ==
    ASSUME ReplayedInv, UNCHANGED <<approved, skipped>>,
           repo'.todo = repo.todo, repo'.head = repo.head, repo'.rebaseHead = repo.rebaseHead,
           repo'.staged = repo.staged, rebaseState'.actions = rebaseState.actions,
           rebaseState'.messages = rebaseState.messages
    PROVE  ReplayedInv'
<1>1. Past' = Past /\ Tried' = Tried BY DEF Past, Tried
<1>2. TodoInv' /\ MessagesInv' BY <1>1 DEF ReplayedInv, TodoInv, MessagesInv
<1>3. HeadInv' BY <1>1 DEF ReplayedInv, HeadInv
<1>4. CoverInv' BY <1>1 DEF ReplayedInv, CoverInv, Kept
<1>5. TextInv' BY DEF ReplayedInv, TextInv, Told
<1>6. StagedInv' BY <1>1 DEF ReplayedInv, StagedInv, Kept
<1>7. QED BY <1>2, <1>3, <1>4, <1>5, <1>6 DEF ReplayedInv

\* The parts of a typed repository.
LEMMA Parts ==
    ASSUME RebaseTypeOK
    PROVE  /\ repo.todo \in Seq(Actions) /\ repo.head \in Seq(Heads) \ {<<>>}
           /\ Len(repo.todo) \in Nat /\ Len(repo.head) \in Nat \ {0}
           /\ repo.rebaseHead \in ReplayCommits \cup {Nothing}
           /\ repo.staged \in ReplayCommits \cup {Nothing}
           /\ approved \in Plans /\ skipped \subseteq ReplayCommits
<1>1. repo \in RepoTypes /\ OtherOK BY TypeParts
<1>2. QED BY <1>1 DEF RepoTypes, OtherOK

\* Tried is what git has taken.
LEMMA DoneFacts ==
    ASSUME RebaseTypeOK, TodoInv
    PROVE  /\ Past \in 0..Len(Replay)
           /\ \A c : c \in Tried <=> \E n \in 1..Past : c = Replay[n]
           /\ Tried \subseteq ReplayCommits
           /\ \A n \in 1..Len(Replay) : Replay[n] \in Tried <=> n <= Past
<1>1. Past \in 0..Len(Replay) BY Parts, ReplayFacts DEF TodoInv, Past
<1>2. QED BY <1>1, ReplayFacts, RebaseAssumption DEF Tried

\* The last commit, which is to be reworded, gets its message.
LEMMA AmendReplayed ==
    ASSUME RebaseTypeOK, ReplayedInv, RewordIsPending, Len(repo.head) > 1,
           repo.head[Len(repo.head)].of = repo.rebaseHead,
           UNCHANGED <<approved, skipped, rebaseState>>,
           repo'.todo = repo.todo, repo'.rebaseHead = repo.rebaseHead,
           repo'.staged = repo.staged,
           repo'.head = [repo.head EXCEPT ![Len(repo.head)].message = New(repo.rebaseHead)]
    PROVE  /\ ReplayedInv'
           /\ Len(repo'.head) = Len(repo.head)
           /\ repo'.head[Len(repo.head)] = Commit(repo.rebaseHead, New(repo.rebaseHead))
<1>1. New(repo.rebaseHead) \in CommitMessages BY Parts DEF RewordIsPending, New, CommitMessages
<1>2. /\ Len(repo'.head) = Len(repo.head) /\ Len(repo.head) \in Nat \ {0}
      /\ repo'.head[Len(repo.head)] = Commit(repo.rebaseHead, New(repo.rebaseHead))
      /\ \A n \in 1..Len(repo.head) - 1 : repo'.head[n] = repo.head[n]
  BY <1>1, Parts, HeadChanges
<1>3. \A n \in 1..Len(repo.head) : repo'.head[n].of = repo.head[n].of
  BY <1>2 DEF Commit
<1>4. TodoInv' /\ MessagesInv' /\ StagedInv'
  BY DEF ReplayedInv, TodoInv, MessagesInv, StagedInv, Past, Tried, Kept
<1>5. HeadInv'
  <2>1. HeadInv /\ TextInv BY DEF ReplayedInv
  <2>2. Tried' = Tried BY DEF Tried, Past
  <2>3. repo'.head[1] = repo.head[1]
    <3>1. 1 \in 1..Len(repo.head) - 1 BY <1>2
    <3>2. QED BY <1>2, <3>1
  <2>4. \A n \in 2..Len(repo.head) : n \in 1..Len(repo.head) BY <1>2
  <2>5. \A n \in 2..Len(repo.head) : repo'.head[n].of = repo.head[n].of BY <1>3, <2>4
  <2>6. repo'.head[1] = Base BY <2>1, <2>3 DEF HeadInv
  <2>7. \A n \in 2..Len(repo.head) : repo'.head[n].of \in Tried
    BY <2>1, <2>5 DEF HeadInv
  <2>8. \A m, n \in 2..Len(repo.head) : m < n => InOrder(repo'.head[m].of, repo'.head[n].of)
    BY <2>1, <2>5 DEF HeadInv
  <2>9. QED BY <1>2, <2>2, <2>6, <2>7, <2>8 DEF HeadInv, Base
<1>6. CoverInv'
  <2>1. Tried' = Tried BY DEF Tried, Past
  <2>2. \A c : (\E n \in 2..Len(repo'.head) : repo'.head[n].of = c)
                <=> (\E n \in 2..Len(repo.head) : repo.head[n].of = c)
    BY <1>2, <1>3
  <2>3. QED BY <2>1, <2>2 DEF ReplayedInv, CoverInv, Kept
<1>7. TextInv'
  <2> SUFFICES ASSUME NEW n \in 2..Len(repo.head)
               PROVE  /\ repo'.head[n].of \notin rebaseState.messages =>
                           repo'.head[n].message = Told(repo'.head[n].of)
                      /\ repo'.head[n].of \in rebaseState.messages =>
                           repo'.head[n].of = repo.rebaseHead /\ n = Len(repo.head)
    BY <1>2 DEF TextInv, Told
  <2>1. CASE n = Len(repo.head) BY <1>2, <2>1 DEF Commit, RewordIsPending
  <2>2. CASE n # Len(repo.head) BY <1>2, <2>2 DEF ReplayedInv, TextInv
  <2>3. QED BY <2>1, <2>2
<1>8. QED BY <1>2, <1>4, <1>5, <1>6, <1>7 DEF ReplayedInv

\* What was staged is committed: with the message it was given, or with its own
\* when it has none to wait for.
LEMMA CommitReplayed ==
    ASSUME RebaseTypeOK, ReplayedInv, repo.staged # Nothing,
           UNCHANGED <<approved, skipped, rebaseState>>,
           repo'.todo = repo.todo, repo'.rebaseHead = repo.rebaseHead, repo'.staged = Nothing,
           NEW message,
           repo.staged \notin rebaseState.messages => message = Told(repo.staged),
           repo'.head = Append(repo.head, Commit(repo.staged, message))
    PROVE  /\ ReplayedInv'
           /\ Len(repo'.head) = Len(repo.head) + 1
           /\ repo'.head[Len(repo.head) + 1] = Commit(repo.staged, message)
           /\ \A n \in 2..Len(repo.head) : repo'.head[n].of \notin rebaseState.messages
<1> DEFINE len == Len(repo.head)
<1>1. /\ Len(repo'.head) = len + 1 /\ len \in Nat \ {0}
      /\ repo'.head[len + 1] = Commit(repo.staged, message)
      /\ \A n \in 1..len : repo'.head[n] = repo.head[n]
  BY Parts
<1>2. repo'.head[len + 1].of = repo.staged /\ repo'.head[len + 1].message = message
  BY <1>1 DEF Commit
<1>3. /\ Past \in 1..Len(Replay) /\ repo.staged = Replay[Past] /\ repo.staged \in Tried
      /\ repo.rebaseHead = repo.staged /\ Kept(repo.staged)
  BY DoneFacts DEF ReplayedInv, StagedInv
<1>4. \A n \in 2..len : repo.head[n].of \in Tried /\ repo.head[n].of # repo.staged
  BY <1>3 DEF ReplayedInv, HeadInv, CoverInv
<1>5. TodoInv' /\ MessagesInv' /\ StagedInv'
  BY DEF ReplayedInv, TodoInv, MessagesInv, StagedInv, Past, Tried, Kept
<1>6. HeadInv'
  <2>1. repo'.head[1] = Base BY <1>1 DEF ReplayedInv, HeadInv, Base
  <2>2. \A n \in 2..len + 1 : repo'.head[n].of \in Tried BY <1>1, <1>2, <1>3, <1>4
  <2>3. \A m, n \in 2..len + 1 : m < n => InOrder(repo'.head[m].of, repo'.head[n].of)
    <3> SUFFICES ASSUME NEW m \in 2..len + 1, NEW n \in 2..len + 1, m < n
                 PROVE  InOrder(repo'.head[m].of, repo'.head[n].of)
      OBVIOUS
    <3>1. CASE n = len + 1
      <4>0. m \in 2..len /\ repo.head[m].of \in Tried BY <1>1, <1>4, <3>1
      <4>1. PICK k \in 1..Past : repo.head[m].of = Replay[k]
        BY <4>0 DEF Tried
      <4>2. k < Past BY <1>3, <1>4, <4>0, <4>1
      <4>3. InOrder(Replay[k], Replay[Past])
        <5>1. Past \in 1..Len(Replay) BY <1>3
        <5>2. QED BY <4>2, <5>1, PlacesInOrder
      <4>4. QED BY <1>1, <1>2, <1>3, <3>1, <4>0, <4>1, <4>3
    <3>2. CASE n # len + 1 BY <1>1, <3>2 DEF ReplayedInv, HeadInv
    <3>3. QED BY <3>1, <3>2
  <2>4. QED BY <1>1, <2>1, <2>2, <2>3 DEF HeadInv, Tried, Past, Base
<1>7. CoverInv'
  <2> SUFFICES ASSUME NEW c \in Tried
               PROVE  (Kept(c) /\ c # Nothing) <=> \E n \in 2..len + 1 : repo'.head[n].of = c
    BY <1>1 DEF ReplayedInv, CoverInv, Tried, Past, Kept
  <2>1. c # Nothing BY DoneFacts, ReplayFacts DEF ReplayedInv
  <2>2. CASE c = repo.staged BY <1>1, <1>2, <1>3, <2>1, <2>2
  <2>3. CASE c # repo.staged BY <1>1, <1>2, <2>1, <2>3 DEF ReplayedInv, CoverInv
  <2>4. QED BY <2>2, <2>3
<1>8. \A n \in 2..len : repo'.head[n].of \notin rebaseState.messages
                        /\ repo'.head[n].message = Told(repo'.head[n].of)
  BY <1>1, <1>3, <1>4 DEF ReplayedInv, TextInv
<1>9. TextInv' BY <1>1, <1>2, <1>3, <1>8 DEF TextInv, Told
<1>10. QED BY <1>1, <1>5, <1>6, <1>7, <1>8, <1>9 DEF ReplayedInv

\* A reword that is done, or whose commit was skipped, is forgotten.
LEMMA ForgetReplayed ==
    ASSUME RebaseTypeOK, ReplayedInv, UNCHANGED <<repo, approved, skipped>>,
           NEW c, c \in Tried, c # repo.staged,
           rebaseState'.actions = rebaseState.actions,
           rebaseState'.messages = rebaseState.messages \ {c},
           \A n \in 2..Len(repo.head) :
               repo.head[n].of = c => repo.head[n].message = Told(c)
    PROVE  ReplayedInv'
<1>1. Past' = Past /\ Tried' = Tried BY DEF Past, Tried
<1>2. TodoInv' BY <1>1 DEF ReplayedInv, TodoInv
<1>3. MessagesInv'
  <2>1. \A n \in 1..Len(Replay) : n > Past => Replay[n] # c
    BY DoneFacts DEF ReplayedInv
  <2>2. QED BY <1>1, <2>1, ReplayFacts DEF ReplayedInv, MessagesInv
<1>4. HeadInv' BY <1>1 DEF ReplayedInv, HeadInv
<1>5. CoverInv' BY <1>1 DEF ReplayedInv, CoverInv, Kept
<1>6. TextInv' BY DEF ReplayedInv, TextInv, Told
<1>7. StagedInv' BY <1>1 DEF ReplayedInv, StagedInv, Kept
<1>8. QED BY <1>2, <1>3, <1>4, <1>5, <1>6, <1>7 DEF ReplayedInv

\* What was staged is skipped.
LEMMA SkipReplayed ==
    ASSUME RebaseTypeOK, ReplayedInv, repo.staged # Nothing,
           UNCHANGED <<approved, rebaseState>>,
           skipped' = skipped \cup {repo.staged},
           repo'.todo = repo.todo, repo'.rebaseHead = repo.rebaseHead, repo'.staged = Nothing,
           repo'.head = repo.head
    PROVE  /\ ReplayedInv'
           /\ \A n \in 2..Len(repo.head) : repo.head[n].of \notin rebaseState.messages
<1>1. Past' = Past /\ Tried' = Tried BY DEF Past, Tried
<1>2. /\ Past \in 1..Len(Replay) /\ repo.staged = Replay[Past] /\ repo.staged \in Tried
      /\ repo.rebaseHead = repo.staged /\ Kept(repo.staged)
  BY DoneFacts DEF ReplayedInv, StagedInv
<1>3. \A n \in 2..Len(repo.head) : repo.head[n].of \in Tried /\ repo.head[n].of # repo.staged
  BY <1>2 DEF ReplayedInv, HeadInv, CoverInv
<1>4. TodoInv' /\ MessagesInv' BY <1>1 DEF ReplayedInv, TodoInv, MessagesInv
<1>5. HeadInv' BY <1>1 DEF ReplayedInv, HeadInv
<1>6. CoverInv'
  <2>1. Nothing \notin Tried BY DoneFacts, ReplayFacts DEF ReplayedInv
  <2>2. QED BY <1>1, <1>2, <1>3, <2>1 DEF ReplayedInv, CoverInv, Kept
<1>7. TextInv' BY DEF ReplayedInv, TextInv, Told
<1>8. StagedInv' BY <1>1 DEF ReplayedInv, StagedInv
<1>9. \A n \in 2..Len(repo.head) : repo.head[n].of \notin rebaseState.messages
  BY <1>2, <1>3 DEF ReplayedInv, TextInv
<1>10. QED BY <1>4, <1>5, <1>6, <1>7, <1>8, <1>9 DEF ReplayedInv

\* The next action of git is the user's for the next commit.
LEMMA NextFacts ==
    ASSUME RebaseTypeOK, TodoInv, repo.todo # <<>>
    PROVE  /\ Past + 1 \in 1..Len(Replay)
           /\ NextCommit = Replay[Past + 1]
           /\ Past + 1 \in DOMAIN Replay /\ Past + 1 > Past /\ Past \in Nat
           /\ Head(repo.todo).act =
                IF approved[NextCommit] = "reword" THEN "edit" ELSE approved[NextCommit]
           /\ approved[NextCommit] \in UserActions
           /\ NextCommit \in ReplayCommits
           /\ NextCommit \notin Tried
<1>1. Len(repo.todo) \in Nat \ {0} /\ Head(repo.todo) = repo.todo[1] /\ NextCommit \in ReplayCommits
  BY NextAction
<1>2. Past + 1 \in 1..Len(Replay) BY <1>1, ReplayFacts DEF TodoInv, Past
<1>3. Head(repo.todo) = Instructions(approved)[Past + 1] BY <1>1 DEF TodoInv
<1>4. approved \in Plans BY Parts
<1>5. NextCommit = Replay[Past + 1] BY <1>2, <1>3, <1>4, InstructionsFacts DEF NextCommit
<1>6. NextCommit \notin Tried BY <1>2, <1>5, DoneFacts
<1>7. approved[NextCommit] \in UserActions BY <1>1, <1>4 DEF Plans
<1>8. Past + 1 \in DOMAIN Replay /\ Past + 1 > Past /\ Past \in Nat
  BY <1>2, DoneFacts, ReplayFacts
<1>9. QED BY <1>1, <1>2, <1>3, <1>4, <1>5, <1>6, <1>7, <1>8, InstructionsFacts

\* git takes the next action.
LEMMA TakeReplayed ==
    ASSUME RebaseTypeOK, ReplayedInv, repo.todo # <<>>, repo.staged = Nothing,
           UNCHANGED <<approved, skipped, rebaseState>>, repo'.todo = Tail(repo.todo)
    PROVE  /\ Past' = Past + 1 /\ Tried' = Tried \cup {NextCommit}
           /\ TodoInv' /\ MessagesInv'
<1>1. TodoInv BY DEF ReplayedInv
<1>2. /\ Len(repo.todo) \in Nat \ {0} /\ Len(repo'.todo) = Len(repo.todo) - 1
      /\ \A n \in 1..Len(repo.todo) - 1 : repo'.todo[n] = repo.todo[n + 1]
  BY NextAction
<1>3. Past' = Past + 1 /\ Past \in Nat
  <2>1. Past \in Nat BY <1>1, DoneFacts
  <2>2. Len(Replay) \in Nat BY ReplayFacts
  <2>3. Past' = Len(Replay) - Len(repo'.todo) BY DEF Past
  <2>4. Past = Len(Replay) - Len(repo.todo) BY DEF Past
  <2>5. \A len, n, m \in Nat : m = n - 1 => len - m = (len - n) + 1 OBVIOUS
  <2>6. Len(repo'.todo) \in Nat BY <1>2
  <2>7. QED BY <1>2, <2>1, <2>2, <2>3, <2>4, <2>5, <2>6
<1>4. Tried' = Tried \cup {NextCommit}
  <2>1. 1..(Past + 1) = (1..Past) \cup {Past + 1} BY <1>3
  <2>2. QED BY <1>1, <1>3, <2>1, NextFacts DEF Tried
<1>5. TodoInv'
  <2>1. \A n \in 1..Len(repo.todo) - 1 : repo.todo[n + 1] = Instructions(approved)[Past + (n + 1)]
    BY <1>1, <1>2 DEF TodoInv
  <2>2. \A n \in 1..Len(repo.todo) - 1 : Past + (n + 1) = (Past + 1) + n BY <1>3
  <2>3. QED BY <1>1, <1>2, <1>3, <2>1, <2>2, ReplayFacts DEF TodoInv
<1>6. MessagesInv' BY <1>3, ReplayFacts DEF ReplayedInv, MessagesInv
<1>7. QED BY <1>3, <1>4, <1>5, <1>6

\* It is dropped.
LEMMA DropReplayed ==
    ASSUME RebaseTypeOK, ReplayedInv, repo.todo # <<>>, repo.staged = Nothing,
           Head(repo.todo).act = "drop",
           UNCHANGED <<approved, skipped, rebaseState>>, repo'.todo = Tail(repo.todo),
           repo'.head = repo.head, repo'.rebaseHead = repo.rebaseHead, repo'.staged = Nothing
    PROVE  ReplayedInv'
<1>1. TodoInv' /\ MessagesInv' /\ Tried' = Tried \cup {NextCommit} BY TakeReplayed
<1>2. approved[NextCommit] = "drop" /\ NextCommit \notin Tried
  BY NextFacts DEF ReplayedInv, UserActions
<1>3. HeadInv' BY <1>1 DEF ReplayedInv, HeadInv
<1>4. CoverInv'
  <2>1. \A n \in 2..Len(repo.head) : repo.head[n].of # NextCommit
    BY <1>2 DEF ReplayedInv, HeadInv
  <2>2. QED BY <1>1, <1>2, <2>1 DEF ReplayedInv, CoverInv, Kept
<1>5. TextInv' BY DEF ReplayedInv, TextInv, Told
<1>6. StagedInv' BY <1>1 DEF ReplayedInv, StagedInv
<1>7. QED BY <1>1, <1>3, <1>4, <1>5, <1>6 DEF ReplayedInv

\* It is applied: the commit has its own message, which is the one it is to have
\* unless it is to be reworded.
LEMMA ApplyReplayed ==
    ASSUME RebaseTypeOK, ReplayedInv, repo.todo # <<>>, repo.staged = Nothing,
           Head(repo.todo).act # "drop",
           \A n \in 2..Len(repo.head) : repo.head[n].of \notin rebaseState.messages,
           UNCHANGED <<approved, skipped, rebaseState>>, repo'.todo = Tail(repo.todo),
           repo'.head = Append(repo.head, Commit(NextCommit, Own(NextCommit))),
           repo'.staged = Nothing,
           \/ repo'.rebaseHead = NextCommit
           \/ repo'.rebaseHead = repo.rebaseHead /\ approved[NextCommit] # "reword",
           rebaseState.messages \subseteq Rewords(approved)
    PROVE  /\ ReplayedInv'
           /\ Len(repo'.head) = Len(repo.head) + 1
           /\ repo'.head[Len(repo.head) + 1].of = NextCommit
           /\ \A n \in 2..Len(repo.head) : repo'.head[n].of \notin rebaseState.messages
<1> DEFINE len == Len(repo.head)
<1>1. TodoInv' /\ MessagesInv' /\ Tried' = Tried \cup {NextCommit} BY TakeReplayed
<1>2. /\ approved[NextCommit] # "drop" /\ NextCommit \notin Tried
      /\ Past + 1 \in DOMAIN Replay /\ Past + 1 > Past /\ Past \in Nat
      /\ NextCommit = Replay[Past + 1] /\ NextCommit \in ReplayCommits
  BY NextFacts DEF ReplayedInv, UserActions
<1>3. /\ Len(repo'.head) = len + 1 /\ len \in Nat \ {0}
      /\ repo'.head[len + 1] = Commit(NextCommit, Own(NextCommit))
      /\ \A n \in 1..len : repo'.head[n] = repo.head[n]
  BY Parts
<1>4. repo'.head[len + 1].of = NextCommit /\ repo'.head[len + 1].message = Own(NextCommit)
  BY <1>3 DEF Commit
<1>5. \A n \in 2..len : repo.head[n].of \in Tried BY DEF ReplayedInv, HeadInv
<1>6. HeadInv'
  <2>1. repo'.head[1] = Base BY <1>3 DEF ReplayedInv, HeadInv, Base
  <2>2. \A n \in 2..len + 1 : repo'.head[n].of \in Tried' BY <1>1, <1>3, <1>4, <1>5
  <2>3. \A m, n \in 2..len + 1 : m < n => InOrder(repo'.head[m].of, repo'.head[n].of)
    <3> SUFFICES ASSUME NEW m \in 2..len + 1, NEW n \in 2..len + 1, m < n
                 PROVE  InOrder(repo'.head[m].of, repo'.head[n].of)
      OBVIOUS
    <3>1. CASE n = len + 1
      <4>0. m \in 2..len /\ repo.head[m].of \in Tried BY <1>3, <1>5, <3>1
      <4>1. PICK k \in 1..Past : repo.head[m].of = Replay[k]
        BY <4>0 DEF Tried
      <4>2. k < Past + 1 /\ k \in DOMAIN Replay BY <1>2, ReplayFacts
      <4>3. InOrder(Replay[k], Replay[Past + 1]) BY <1>2, <4>2 DEF InOrder
      <4>4. QED BY <1>2, <1>3, <1>4, <3>1, <4>0, <4>1, <4>3
    <3>2. CASE n # len + 1 BY <1>3, <3>2 DEF ReplayedInv, HeadInv
    <3>3. QED BY <3>1, <3>2
  <2>4. QED BY <1>3, <2>1, <2>2, <2>3 DEF HeadInv, Base
<1>7. CoverInv'
  <2>0. NextCommit \notin skipped BY <1>2 DEF ReplayedInv, CoverInv
  <2>1. skipped' \subseteq Tried' BY <1>1 DEF ReplayedInv, CoverInv
  <2>2. ASSUME NEW c \in Tried'
        PROVE  (Kept(c) /\ c # Nothing) <=> \E n \in 2..len + 1 : repo'.head[n].of = c
    <3>1. c # Nothing BY <1>1, <1>2, DoneFacts, ReplayFacts DEF ReplayedInv
    <3>2. CASE c = NextCommit BY <1>2, <1>3, <1>4, <2>0, <3>1, <3>2 DEF Kept
    <3>3. CASE c # NextCommit BY <1>1, <1>3, <1>4, <3>1, <3>3 DEF ReplayedInv, CoverInv
    <3>4. QED BY <3>2, <3>3
  <2>3. \A c : Kept(c)' <=> Kept(c) BY DEF Kept
  <2>4. Len(repo'.head) = len + 1 /\ repo'.staged = Nothing BY <1>3
  <2>5. QED BY <2>1, <2>2, <2>3, <2>4 DEF CoverInv
<1>8. \A n \in 2..len : repo'.head[n].of \notin rebaseState.messages
                        /\ repo'.head[n].message = Told(repo'.head[n].of)
  BY <1>3 DEF ReplayedInv, TextInv
<1>9. TextInv'
  <2>1. NextCommit \in rebaseState.messages => approved[NextCommit] = "reword"
    BY DEF Rewords
  <2>2. NextCommit \notin rebaseState.messages => Told(NextCommit) = Own(NextCommit)
    BY <1>2 DEF ReplayedInv, MessagesInv, Told
  <2>3. QED BY <1>3, <1>4, <1>8, <2>1, <2>2 DEF TextInv, Told
<1>10. StagedInv' BY <1>1 DEF ReplayedInv, StagedInv
<1>11. QED BY <1>1, <1>3, <1>4, <1>6, <1>7, <1>8, <1>9, <1>10 DEF ReplayedInv

\* It does not apply, and is staged.
LEMMA ConflictReplayed ==
    ASSUME RebaseTypeOK, ReplayedInv, repo.todo # <<>>, repo.staged = Nothing,
           Head(repo.todo).act # "drop",
           \A n \in 2..Len(repo.head) : repo.head[n].of \notin rebaseState.messages,
           UNCHANGED <<approved, skipped, rebaseState>>, repo'.todo = Tail(repo.todo),
           repo'.head = repo.head, repo'.staged = NextCommit, repo'.rebaseHead = NextCommit
    PROVE  ReplayedInv'
<1>1. TodoInv' /\ MessagesInv' /\ Tried' = Tried \cup {NextCommit} /\ Past' = Past + 1
  BY TakeReplayed
<1>2. /\ approved[NextCommit] # "drop" /\ NextCommit \notin Tried
      /\ Past + 1 \in DOMAIN Replay /\ Past + 1 > Past /\ Past \in Nat
      /\ NextCommit = Replay[Past + 1]
  BY NextFacts DEF ReplayedInv, UserActions
<1>3. NextCommit \notin skipped /\ \A n \in 2..Len(repo.head) : repo.head[n].of # NextCommit
  BY <1>2 DEF ReplayedInv, CoverInv, HeadInv
<1>4. HeadInv' BY <1>1 DEF ReplayedInv, HeadInv
<1>5. CoverInv'
  <2>1. Nothing \notin Tried BY DoneFacts, ReplayFacts DEF ReplayedInv
  <2>2. QED BY <1>1, <1>2, <1>3, <2>1 DEF ReplayedInv, CoverInv, Kept
<1>6. TextInv' BY DEF ReplayedInv, TextInv, Told
<1>7. StagedInv'
  <2>1. approved[NextCommit] = "reword" => NextCommit \in rebaseState.messages
    BY <1>2 DEF ReplayedInv, MessagesInv
  <2>2. QED BY <1>1, <1>2, <1>3, <2>1, DoneFacts DEF StagedInv, Kept, ReplayedInv
<1>8. QED BY <1>1, <1>4, <1>5, <1>6, <1>7 DEF ReplayedInv

-----------------------------------------------------------------------------
(* What is replayed, under every step of a call.                           *)

\* The plan is in place, and nothing is replayed yet.
LEMMA ApplyReplays ==
    ASSUME RebaseTypeOK, BeginInv, FinishApply
    PROVE  ReplayInv'
<1> USE DEF CallReturns, Save, NoControl
<1>0. StateOK /\ OtherOK /\ RebaseTypeOK' BY TypeParts, ApplyTypes DEF BeginInv
<1>1. /\ rebaseState # NoState /\ rebaseState.phase = "applying" /\ rebaseState \in StateFiles
      /\ repo.todo = Instructions(rebaseState.actions)
      /\ rebaseState.messages = Rewords(rebaseState.actions)
      /\ rebaseState.actions \in Plans
  BY <1>0 DEF FinishApply, BeginInv, CallInv, StateOK, StateFiles
<1>2. /\ repo.head = <<Base>> /\ repo.rebaseHead = Nothing /\ skipped = {}
      /\ ~repo.unmerged /\ repo.staged = Nothing
  BY <1>1 DEF BeginInv, CallInv, FreshInv, InPlace
<1>3. /\ rebaseState' \in StateFiles /\ rebaseState'.phase = "ready"
      /\ rebaseState'.actions = rebaseState.actions
      /\ rebaseState'.messages = rebaseState.messages
      /\ approved' = rebaseState.actions /\ UNCHANGED <<repo, skipped>> /\ control'.at = "idle"
      /\ control'.call = "none"
  <2>1. repo.todo \in Seq(Actions) /\ <<>> \in Seq(Actions) BY Parts
  <2>2. QED BY <1>1, <2>1 DEF FinishApply, StateFiles
<1>4. Len(repo.todo) = Len(Replay) /\ Past' = 0 /\ Tried' = {}
  <2>1. Len(repo.todo) = Len(Replay) BY <1>1, InstructionsFacts
  <2>2. Past' = Len(Replay) - Len(repo.todo) BY <1>3 DEF Past
  <2>3. Past' = 0 BY <2>1, <2>2, ReplayFacts
  <2>4. QED BY <2>1, <2>3 DEF Tried
<1>5. TodoInv'
  <2>1. \A n \in 1..Len(Replay) : Past' + n = n BY <1>4, ReplayFacts
  <2>2. QED BY <1>1, <1>3, <1>4, <2>1, ReplayFacts DEF TodoInv
<1>6. MessagesInv' BY <1>1, <1>3 DEF MessagesInv, Rewords, ReplayCommits
<1>7. Len(repo.head) = 1 /\ repo.head[1] = Base BY <1>2
<1>8. HeadInv' /\ TextInv' BY <1>3, <1>7 DEF HeadInv, TextInv, Base
<1>9. CoverInv' /\ StagedInv' BY <1>2, <1>3, <1>4 DEF CoverInv, StagedInv
<1>10. PendingInv'
  <2>1. ~RewordIsPending' BY <1>2, <1>3 DEF RewordIsPending
  <2>2. QED BY <1>3, <2>1 DEF PendingInv
<1>11. StepInv' BY <1>2, <1>3 DEF StepInv, FileIsRight, CommandError
<1>12. QED BY <1>5, <1>6, <1>8, <1>9, <1>10, <1>11 DEF ReplayInv, ReplayedInv

\* A step that changes neither the repository nor what is to be reworded.
LEMMA CallGoesOn ==
    ASSUME RebaseTypeOK, InPlace, ReplayInv, UNCHANGED <<approved, skipped>>,
           repo'.todo = repo.todo, repo'.head = repo.head, repo'.rebaseHead = repo.rebaseHead,
           repo'.staged = repo.staged, rebaseState'.actions = rebaseState.actions,
           rebaseState'.messages = rebaseState.messages,
           control.at # "git", control'.at \notin {"git", "reworded"}, StepInv'
    PROVE  ReplayInv'
<1>1. ReplayedInv' BY NothingReplayed DEF ReplayInv
<1>2. PendingInv' BY DEF ReplayInv, PendingInv, RewordIsPending
<1>3. QED BY <1>1, <1>2 DEF ReplayInv

\* git commit at a reword: the commit exists and is amended, or it is staged.
LEMMA RewordReplays ==
    ASSUME RebaseTypeOK, InPlace, ReplayInv, RewordIsPending, ~repo.unmerged,
           NEW amend \in BOOLEAN, GitCommit(amend), amend <=> repo.staged = Nothing,
           control.at # "git", UNCHANGED <<approved, skipped, rebaseState, troubles>>,
           control'.at = "reworded"
    PROVE  ReplayInv'
<1>0. repo \in RepoTypes BY TypeParts
<1>1. /\ repo'.todo = repo.todo /\ repo'.rebaseHead = repo.rebaseHead
      /\ repo'.unmerged = repo.unmerged /\ repo'.staged = Nothing
      /\ repo'.head = IF amend THEN [repo.head EXCEPT ![Len(repo.head)].message = New(repo.rebaseHead)]
                      ELSE Append(repo.head, Commit(repo.staged, New(repo.rebaseHead)))
  BY <1>0 DEF GitCommit, RepoTypes
<1>2. CASE amend
  <2>1. Len(repo.head) > 1 /\ repo.head[Len(repo.head)].of = repo.rebaseHead
    BY <1>2 DEF ReplayInv, PendingInv
  <2>2. /\ ReplayedInv' /\ Len(repo'.head) = Len(repo.head)
        /\ repo'.head[Len(repo.head)] = Commit(repo.rebaseHead, New(repo.rebaseHead))
    BY <1>1, <1>2, <2>1, AmendReplayed DEF ReplayInv
  <2>3. PendingInv' BY <1>1, <2>1, <2>2 DEF PendingInv, RewordIsPending, Commit
  <2>4. StepInv' BY <1>1, <1>2 DEF ReplayInv, StepInv, FileIsRight, CommandError
  <2>5. QED BY <2>2, <2>3, <2>4 DEF ReplayInv
<1>3. CASE ~amend
  <2>1. repo.staged # Nothing /\ repo.rebaseHead = repo.staged
    BY <1>3 DEF ReplayInv, ReplayedInv, StagedInv
  <2>2. /\ ReplayedInv' /\ Len(repo'.head) = Len(repo.head) + 1
        /\ repo'.head[Len(repo.head) + 1] = Commit(repo.staged, New(repo.rebaseHead))
    BY <1>1, <1>3, <2>1, CommitReplayed DEF ReplayInv, RewordIsPending
  <2>3. Len(repo'.head) > 1 /\ repo'.head[Len(repo'.head)] = Commit(repo.staged, New(repo.rebaseHead))
    BY <2>2, Parts
  <2>4. PendingInv' BY <1>1, <2>1, <2>3 DEF PendingInv, RewordIsPending, Commit
  <2>5. StepInv' BY <1>1, <1>3 DEF ReplayInv, StepInv, FileIsRight, CommandError
  <2>6. QED BY <2>2, <2>4, <2>5 DEF ReplayInv
<1>4. QED BY <1>2, <1>3

\* ContinueRebase commits what waits for its message before git goes on.
LEMMA ContinueReplays ==
    ASSUME RebaseTypeOK, BeginInv, InPlace, ReplayInv,
           \/ ContinueRebase \/ RecordReword \/ TodoChanged \/ RunContinue \/ AfterContinue
    PROVE  ReplayInv'
<1> USE DEF Step, CallReturns, Save, NoControl, Idle
<1>0. repo \in RepoTypes /\ StateOK /\ control \in ControlTypes BY TypeParts
<1>1. rebaseState # NoState /\ rebaseState \in StateFiles BY <1>0 DEF InPlace, StateOK
<1>2. StepInv BY DEF ReplayInv
<1>3. \A reason \in {"none", "commandError", "syntheticEdit", "manual"} :
        /\ StoppedFor(reason).actions = rebaseState.actions
        /\ StoppedFor(reason).messages = rebaseState.messages
        /\ StoppedFor(reason).phase = "stopped" /\ StoppedFor(reason).reason = reason
  BY <1>1, SavedTypes
<1>4. CASE ContinueRebase
  <2>1. control.at = "idle" /\ UNCHANGED <<approved, skipped, troubles>>
    BY <1>4 DEF ContinueRebase, Owned
  <2>2. CASE ~RewordIsPending /\ Step("continue", "run") /\ UNCHANGED <<repo, rebaseState>>
    <3>1. StepInv' BY <1>2, <2>1, <2>2 DEF StepInv, FileIsRight, CommandError, RewordIsPending
    <3>2. QED BY <2>1, <2>2, <3>1, CallGoesOn
  <2>3. CASE /\ RewordIsPending /\ repo.unmerged /\ UNCHANGED repo /\ Step("continue", "run")
             /\ rebaseState' = IF rebaseState.phase = "ready" THEN StoppedFor("commandError")
                               ELSE rebaseState
    <3>1. /\ rebaseState'.actions = rebaseState.actions
          /\ rebaseState'.messages = rebaseState.messages
      BY <1>3, <2>3
    <3>2. CommandError' BY <1>2, <1>3, <2>1, <2>3 DEF StepInv, FileIsRight, CommandError
    <3>3. StepInv' BY <1>2, <2>1, <2>3, <3>2 DEF StepInv, FileIsRight, RewordIsPending
    <3>4. QED BY <2>1, <2>3, <3>1, <3>3, CallGoesOn
  <2>4. CASE /\ RewordIsPending /\ ~repo.unmerged /\ GitCommit(CommitExists)
             /\ Step("continue", "reworded") /\ UNCHANGED rebaseState
    <3>1. CommitExists \in BOOLEAN /\ (CommitExists <=> repo.staged = Nothing)
      BY <1>2, <2>1 DEF CommitExists, FileIsRight, CommandError, StepInv
    <3>2. QED BY <2>1, <2>4, <3>1, RewordReplays
  <2>5. QED BY <1>4, <2>2, <2>3, <2>4 DEF ContinueRebase
<1>5. CASE RecordReword
  <2>1. /\ rebaseState' \in StateFiles /\ rebaseState'.actions = rebaseState.actions
        /\ rebaseState'.messages = rebaseState.messages \ {repo.rebaseHead}
        /\ rebaseState'.phase = "ready"
    BY <1>0, <1>1, <1>5 DEF RecordReword, StateFiles, RepoTypes
  <2>2. control.at = "reworded" /\ control'.at = "run" /\ control'.call = "continue"
        /\ UNCHANGED <<repo, approved, skipped, troubles>>
    BY <1>5 DEF RecordReword
  <2>3. /\ RewordIsPending /\ repo.staged = Nothing /\ ~repo.unmerged
        /\ repo.head[Len(repo.head)].message = New(repo.rebaseHead)
    BY <2>2 DEF ReplayInv, PendingInv
  <2>4. repo.rebaseHead \in Tried /\ approved[repo.rebaseHead] = "reword"
    BY <1>0, <1>1, <2>3 DEF ReplayInv, ReplayedInv, StagedInv, TodoInv, RewordIsPending, StateOK, Rewords
  <2>5. \A n \in 2..Len(repo.head) : repo.head[n].of = repo.rebaseHead =>
                                     repo.head[n].message = Told(repo.rebaseHead)
    BY <2>3, <2>4 DEF ReplayInv, ReplayedInv, TextInv, RewordIsPending, Told
  <2>6. ReplayedInv'
    BY <2>1, <2>2, <2>3, <2>4, <2>5, ForgetReplayed DEF ReplayInv, RewordIsPending
  <2>7. ~RewordIsPending' BY <2>1, <2>2 DEF RewordIsPending
  <2>8. PendingInv' BY <2>2, <2>7 DEF PendingInv
  <2>9. StepInv' BY <1>2, <2>1, <2>2, <2>3, <2>7 DEF StepInv, FileIsRight, CommandError
  <2>10. QED BY <2>6, <2>8, <2>9 DEF ReplayInv
<1>6. CASE TodoChanged
  <2>1. StepInv' BY <1>2, <1>6 DEF TodoChanged, StepInv, FileIsRight, CommandError
  <2>2. QED BY <1>6, <2>1, CallGoesOn DEF TodoChanged
<1>7. CASE RunContinue
  <2>1. control.at = "run" /\ UNCHANGED <<approved, skipped>> BY <1>7 DEF RunContinue
  <2>2. CASE repo.unmerged /\ GitReturns(FALSE) /\ UNCHANGED <<repo, rebaseState, rebaseEnd, troubles>>
    <3>1. control'.at = "returned" /\ control'.ok = FALSE /\ control'.call = control.call
      BY <1>0, <2>2 DEF GitReturns, ControlTypes
    <3>2. control.call = "continue" BY <2>1 DEF BeginInv, CallInv
    <3>3. StepInv' BY <1>2, <2>1, <2>2, <3>1, <3>2 DEF StepInv, FileIsRight, CommandError
    <3>4. QED BY <2>1, <2>2, <3>1, <3>3, CallGoesOn
  <2>3. ASSUME ~repo.unmerged,
               GitGoesOn(IF repo.staged = Nothing THEN repo.head
                         ELSE Append(repo.head, Commit(repo.staged, Own(repo.staged))))
        PROVE  ReplayInv'
    <3>1. /\ repo'.todo = repo.todo /\ repo'.rebaseHead = repo.rebaseHead
          /\ ~repo'.unmerged /\ repo'.staged = Nothing
          /\ repo'.head = IF repo.staged = Nothing THEN repo.head
                          ELSE Append(repo.head, Commit(repo.staged, Own(repo.staged)))
          /\ control'.at = "git" /\ control'.call = control.call
          /\ UNCHANGED <<rebaseState, troubles>>
      BY <1>0, <2>3 DEF GitGoesOn, RepoTypes, ControlTypes
    <3>2. ~RewordIsPending /\ control.call = "continue"
      BY <1>2, <2>1, <2>3 DEF StepInv, BeginInv, CallInv
    <3>3. ReplayedInv' /\ \A n \in 2..Len(repo'.head) :
                            repo'.head[n].of \notin rebaseState.messages
      <4>1. CASE repo.staged = Nothing
        <5>1. ReplayedInv' BY <2>1, <3>1, <4>1, NothingReplayed DEF ReplayInv
        <5>2. \A n \in 2..Len(repo.head) : repo.head[n].of \notin rebaseState.messages
          <6> SUFFICES ASSUME NEW n \in 2..Len(repo.head), repo.head[n].of \in rebaseState.messages
                       PROVE  FALSE
            OBVIOUS
          <6>1. repo.head[n].of = repo.rebaseHead BY DEF ReplayInv, ReplayedInv, TextInv
          <6>2. repo.rebaseHead # Nothing
            BY <1>0, <1>1, <6>1, ReplayFacts DEF StateFiles
          <6>3. QED BY <3>2, <6>1, <6>2 DEF RewordIsPending
        <5>3. QED BY <3>1, <4>1, <5>1, <5>2
      <4>2. CASE repo.staged # Nothing
        <5>1. repo.staged \notin rebaseState.messages
          BY <3>2, <4>2 DEF ReplayInv, ReplayedInv, StagedInv, RewordIsPending
        <5>2. Own(repo.staged) = Told(repo.staged)
          BY <4>2, <5>1 DEF ReplayInv, ReplayedInv, StagedInv, Told
        <5>3. /\ ReplayedInv' /\ Len(repo'.head) = Len(repo.head) + 1
              /\ repo'.head[Len(repo.head) + 1] = Commit(repo.staged, Own(repo.staged))
              /\ \A n \in 2..Len(repo.head) : repo'.head[n].of \notin rebaseState.messages
          BY <2>1, <3>1, <4>2, <5>2, CommitReplayed DEF ReplayInv
        <5>4. repo'.head[Len(repo.head) + 1].of = repo.staged BY <5>3 DEF Commit
        <5>5. Len(repo.head) \in Nat BY Parts
        <5>6. QED BY <5>1, <5>3, <5>4, <5>5
      <4>3. QED BY <4>1, <4>2
    <3>4. PendingInv' BY <3>1, <3>3 DEF PendingInv
    <3>5. StepInv' BY <1>2, <2>1, <3>1, <3>2 DEF StepInv, FileIsRight, CommandError
    <3>6. QED BY <3>3, <3>4, <3>5 DEF ReplayInv
  <2>4. QED BY <1>7, <2>2, <2>3 DEF RunContinue, GitContinue
<1>8. CASE AfterContinue
  <2>1. control.at = "returned" /\ control.call = "continue" /\ UNCHANGED <<approved, skipped, troubles>>
    BY <1>8 DEF AfterContinue
  <2>2. CASE /\ control.ok /\ RewordIsPending /\ GitCommit(TRUE)
             /\ Step("continue", "reworded") /\ UNCHANGED rebaseState
    <3>1. repo.staged = Nothing /\ ~repo.unmerged BY <1>2, <2>1, <2>2 DEF StepInv
    <3>2. QED BY <2>1, <2>2, <3>1, RewordReplays
  <2>3. ASSUME NEW reason \in {"none", "commandError", "syntheticEdit", "manual"},
               rebaseState' = StoppedFor(reason), CallReturns, UNCHANGED repo,
               reason = "commandError" <=> repo.unmerged
        PROVE  ReplayInv'
    <3>1. rebaseState'.actions = rebaseState.actions /\ rebaseState'.messages = rebaseState.messages
          /\ (CommandError' <=> repo.unmerged)
      BY <1>1, <1>3, <2>3, SavedTypes DEF CommandError
    <3>2. StepInv' BY <1>2, <2>1, <2>3, <3>1 DEF StepInv, FileIsRight
    <3>3. QED BY <2>1, <2>3, <3>1, <3>2, CallGoesOn
  <2>4. CASE /\ control.ok /\ RewordIsPending /\ rebaseState' = StoppedFor("syntheticEdit")
             /\ CallReturns /\ UNCHANGED repo
    <3>1. ~repo.unmerged BY <1>2, <2>1, <2>4 DEF StepInv
    <3>2. QED BY <2>3, <2>4, <3>1
  <2>5. CASE /\ rebaseState' = StoppedFor(IF repo.unmerged THEN "commandError" ELSE "manual")
             /\ CallReturns /\ UNCHANGED repo
    <3>1. CASE repo.unmerged BY <2>3, <2>5, <3>1
    <3>2. CASE ~repo.unmerged BY <2>3, <2>5, <3>2
    <3>3. QED BY <3>1, <3>2
  <2>6. QED BY <1>8, <2>2, <2>4, <2>5 DEF AfterContinue
<1>9. QED BY <1>4, <1>5, <1>6, <1>7, <1>8

\* SkipCommit gives up the commit that is staged; AbortRebase gives up all; a
\* resolution and a call that ends early leave what is replayed.
LEMMA SkipReplays ==
    ASSUME RebaseTypeOK, BeginInv, InPlace, ReplayInv, FileKeptUp',
           SkipCommit \/ RunSkip \/ AfterSkip \/ Resolve \/ Interrupt
    PROVE  ReplayInv'
<1> USE DEF Step, CallReturns, Save, NoControl, Idle
<1>0. repo \in RepoTypes /\ StateOK /\ control \in ControlTypes /\ OtherOK BY TypeParts
<1>1. rebaseState # NoState /\ rebaseState \in StateFiles BY <1>0 DEF InPlace, StateOK
<1>2. StepInv BY DEF ReplayInv
<1>3. CASE SkipCommit
  <2>1. /\ control.at = "idle" /\ CommandError /\ UNCHANGED <<repo, rebaseState, approved, skipped, troubles>>
        /\ control'.at = "skip" /\ control'.commit = repo.rebaseHead
    BY <1>3 DEF SkipCommit, Owned, CommandError
  <2>2. StepInv' BY <1>2, <2>1 DEF StepInv, FileIsRight, CommandError
  <2>3. QED BY <2>1, <2>2, CallGoesOn
<1>4. CASE RunSkip
  <2>1. /\ repo.staged # Nothing /\ control.commit = repo.staged /\ control.call = "skip"
        /\ skipped' = skipped \cup {repo.staged} /\ UNCHANGED <<approved, rebaseState, troubles>>
    BY <1>2, <1>4 DEF RunSkip, GitGoesOn, StepInv, ReplayInv, ReplayedInv, StagedInv, BeginInv, CallInv
  <2>2. /\ repo'.todo = repo.todo /\ repo'.rebaseHead = repo.rebaseHead /\ repo'.head = repo.head
        /\ ~repo'.unmerged /\ repo'.staged = Nothing
        /\ control'.at = "git" /\ control'.call = "skip" /\ control'.commit = control.commit
    BY <1>0, <1>4, <2>1 DEF RunSkip, GitGoesOn, RepoTypes, ControlTypes
  <2>3. ReplayedInv' /\ \A n \in 2..Len(repo.head) : repo.head[n].of \notin rebaseState.messages
    BY <2>1, <2>2, SkipReplayed DEF ReplayInv
  <2>4. PendingInv' BY <2>1, <2>2, <2>3 DEF PendingInv
  <2>5. StepInv' BY <1>2, <2>1, <2>2 DEF StepInv, FileIsRight, CommandError
  <2>6. QED BY <2>3, <2>4, <2>5 DEF ReplayInv
<1>5. CASE AfterSkip
  <2>1. /\ control.at = "returned" /\ control.call = "skip" /\ control'.at = "idle"
        /\ control'.call = "none" /\ UNCHANGED <<repo, approved, skipped, troubles>>
    BY <1>5 DEF AfterSkip
  <2>2. CASE ~control.ok
    <3>1. rebaseState' = StoppedFor("commandError") BY <1>5, <2>2 DEF AfterSkip
    <3>2. /\ rebaseState'.actions = rebaseState.actions
          /\ rebaseState'.messages = rebaseState.messages /\ CommandError'
      BY <1>1, <3>1, SavedTypes DEF CommandError
    <3>3. StepInv' BY <1>2, <2>1, <2>2, <3>2 DEF StepInv, FileIsRight
    <3>4. QED BY <2>1, <3>2, <3>3, CallGoesOn
  <2>3. CASE control.ok
    <3>1. rebaseState' = [StoppedFor("manual") EXCEPT !.messages = @ \ {control.commit}]
      BY <1>5, <2>3 DEF AfterSkip
    <3>2. /\ rebaseState'.actions = rebaseState.actions
          /\ rebaseState'.messages = rebaseState.messages \ {control.commit} /\ ~CommandError'
      BY <1>1, <3>1, SavedTypes DEF CommandError, StateFiles
    <3>3. repo.staged = Nothing /\ ~repo.unmerged /\ control.commit \in skipped
      BY <1>2, <2>1, <2>3 DEF StepInv
    <3>4. control.commit \in Tried BY <3>3 DEF ReplayInv, ReplayedInv, CoverInv
    <3>5. control.commit # Nothing BY <3>4, DoneFacts, ReplayFacts DEF ReplayInv, ReplayedInv
    <3>6. \A n \in 2..Len(repo.head) : repo.head[n].of # control.commit
      BY <3>3, <3>4 DEF ReplayInv, ReplayedInv, CoverInv, Kept
    <3>7. ReplayedInv' BY <2>1, <3>2, <3>3, <3>4, <3>5, <3>6, ForgetReplayed DEF ReplayInv
    <3>8. PendingInv' BY <2>1, <3>2 DEF ReplayInv, PendingInv, RewordIsPending
    <3>9. StepInv' BY <1>2, <2>1, <3>2, <3>3 DEF StepInv, FileIsRight
    <3>10. QED BY <3>7, <3>8, <3>9 DEF ReplayInv
  <2>4. QED BY <2>2, <2>3
<1>6. CASE Resolve
  <2>1. repo' = [repo EXCEPT !.unmerged = FALSE] /\ control.at = "idle"
        /\ UNCHANGED <<rebaseState, control, approved, skipped, troubles>>
    BY <1>6 DEF Resolve
  <2>2. /\ repo'.todo = repo.todo /\ repo'.head = repo.head /\ repo'.rebaseHead = repo.rebaseHead
        /\ repo'.staged = repo.staged /\ ~repo'.unmerged
    BY <1>0, <2>1 DEF RepoTypes
  <2>3. StepInv' BY <1>2, <2>1, <2>2 DEF StepInv, FileIsRight, CommandError
  <2>4. QED BY <2>1, <2>2, <2>3, CallGoesOn
<1>7. CASE Interrupt
  <2>1. /\ UNCHANGED <<repo, rebaseState, approved, skipped>> /\ control.at # "git"
        /\ control'.at = "idle" /\ control'.call = "none"
        /\ troubles' = [troubles EXCEPT !.interrupted = @ + 1, !.unsaved = @ \/ ~FileIsRight]
    BY <1>7 DEF Interrupt
  <2>2. FileIsRight
    <3>1. troubles'.unsaved = (troubles.unsaved \/ ~FileIsRight)
      BY <1>0, <2>1 DEF OtherOK, Troubles
    <3>2. ~troubles'.unsaved BY DEF FileKeptUp
    <3>3. QED BY <3>1, <3>2
  <2>3. StepInv' BY <1>2, <2>1, <2>2 DEF StepInv, FileIsRight, CommandError
  <2>4. QED BY <2>1, <2>3, CallGoesOn
<1>8. QED BY <1>3, <1>4, <1>5, <1>6, <1>7

\* git takes the next action and adds its commit, drops it, or stages it.
LEMMA GitReplays ==
    ASSUME RebaseTypeOK, BeginInv, InPlace, ReplayInv, FileKeptUp',
           GitDrops \/ GitPicks \/ GitEdits \/ GitConflicts \/ GitIsBlocked
    PROVE  ReplayInv'
<1> USE DEF GitReturns
<1>0. repo \in RepoTypes /\ StateOK /\ control \in ControlTypes /\ OtherOK BY TypeParts
<1>1. rebaseState # NoState /\ rebaseState \in StateFiles
      /\ rebaseState.messages \subseteq Rewords(approved)
  BY <1>0 DEF InPlace, StateOK, ReplayInv, ReplayedInv, TodoInv
<1>2. StepInv /\ ReplayedInv BY DEF ReplayInv
<1>3. /\ control.at = "git" /\ repo.todo # <<>> /\ UNCHANGED <<rebaseState, approved, skipped>>
  BY DEF GitDrops, GitPicks, GitEdits, GitConflicts, GitIsBlocked, AtAction
<1>4. repo.staged = Nothing /\ ~repo.unmerged
      /\ \A n \in 2..Len(repo.head) : repo.head[n].of \notin rebaseState.messages
  BY <1>3 DEF ReplayInv, StepInv, PendingInv
<1>5. /\ Taken.todo = Tail(repo.todo) /\ Taken.head = repo.head
      /\ Taken.rebaseHead = repo.rebaseHead /\ Taken.staged = Nothing /\ ~Taken.unmerged
      /\ Applied.todo = Tail(repo.todo)
      /\ Applied.head = Append(repo.head, Commit(NextCommit, Own(NextCommit)))
      /\ Applied.rebaseHead = repo.rebaseHead /\ Applied.staged = Nothing /\ ~Applied.unmerged
  BY <1>0, <1>4 DEF Taken, Applied, RepoTypes
<1>6. CASE GitDrops
  <2>1. repo' = Taken /\ UNCHANGED <<control, troubles>> /\ Head(repo.todo).act = "drop"
    BY <1>6 DEF GitDrops, AtAction
  <2>2. ReplayedInv' BY <1>2, <1>3, <1>4, <1>5, <2>1, DropReplayed
  <2>3. PendingInv' BY <1>3, <1>4, <1>5, <2>1 DEF PendingInv
  <2>4. StepInv' BY <1>2, <1>3, <1>5, <2>1 DEF StepInv, FileIsRight, CommandError
  <2>5. QED BY <2>2, <2>3, <2>4 DEF ReplayInv
<1>7. CASE GitPicks
  <2>1. repo' = Applied /\ UNCHANGED <<control, troubles>> /\ Head(repo.todo).act = "pick"
    BY <1>7 DEF GitPicks, AtAction
  <2>2. approved[NextCommit] # "reword"
    BY <1>2, <1>3, <2>1, NextFacts DEF ReplayedInv
  <2>3. /\ ReplayedInv' /\ Len(repo'.head) = Len(repo.head) + 1
        /\ repo'.head[Len(repo.head) + 1].of = NextCommit
        /\ \A n \in 2..Len(repo.head) : repo'.head[n].of \notin rebaseState.messages
    BY <1>1, <1>2, <1>3, <1>4, <1>5, <2>1, <2>2, ApplyReplayed
  <2>4. NextCommit \notin rebaseState.messages BY <1>1, <2>2 DEF Rewords
  <2>5. Len(repo.head) \in Nat BY Parts
  <2>6. PendingInv' BY <1>3, <2>1, <2>3, <2>4, <2>5 DEF PendingInv
  <2>7. StepInv' BY <1>2, <1>3, <1>5, <2>1 DEF StepInv, FileIsRight, CommandError
  <2>8. QED BY <2>3, <2>6, <2>7 DEF ReplayInv
<1>8. CASE GitEdits
  <2>1. repo' = [Applied EXCEPT !.rebaseHead = NextCommit] /\ UNCHANGED troubles
        /\ Head(repo.todo).act = "edit"
    BY <1>8 DEF GitEdits, AtAction
  <2>2. /\ repo'.todo = Applied.todo /\ repo'.head = Applied.head /\ repo'.rebaseHead = NextCommit
        /\ repo'.staged = Nothing /\ ~repo'.unmerged
    BY <1>3, <1>5, <2>1, TakenTypes DEF RepoTypes
  <2>3. control'.at = "returned" /\ control'.ok = TRUE /\ control'.call = control.call
        /\ control'.commit = control.commit
    BY <1>0, <1>8 DEF GitEdits, ControlTypes
  <2>4. /\ ReplayedInv' /\ Len(repo'.head) = Len(repo.head) + 1
        /\ repo'.head[Len(repo.head) + 1].of = NextCommit
    BY <1>1, <1>2, <1>3, <1>4, <1>5, <2>1, <2>2, ApplyReplayed
  <2>5. Len(repo.head) \in Nat \ {0} BY Parts
  <2>6. PendingInv' BY <2>2, <2>3, <2>4, <2>5 DEF PendingInv
  <2>7. StepInv' BY <1>2, <1>3, <2>1, <2>2, <2>3 DEF StepInv, FileIsRight, CommandError
  <2>8. QED BY <2>4, <2>6, <2>7 DEF ReplayInv
<1>9. CASE GitConflicts
  <2>1. repo' = [Taken EXCEPT !.rebaseHead = NextCommit, !.unmerged = TRUE, !.staged = NextCommit]
        /\ troubles' = [troubles EXCEPT !.conflicts = @ + 1] /\ Head(repo.todo).act # "drop"
    BY <1>9 DEF GitConflicts, AtAction
  <2>2. /\ repo'.todo = Tail(repo.todo) /\ repo'.head = repo.head /\ repo'.rebaseHead = NextCommit
        /\ repo'.staged = NextCommit /\ repo'.unmerged = TRUE
    BY <1>3, <1>5, <2>1, TakenTypes DEF RepoTypes
  <2>3. control'.at = "returned" /\ control'.ok = FALSE /\ control'.call = control.call
        /\ control'.commit = control.commit
    BY <1>0, <1>9 DEF GitConflicts, ControlTypes
  <2>4. ReplayedInv' BY <1>2, <1>3, <1>4, <2>1, <2>2, ConflictReplayed
  <2>5. NextCommit # Nothing BY <1>3, NextAction, ReplayFacts
  <2>6. PendingInv' BY <2>2, <2>3, <2>5 DEF PendingInv
  <2>7. StepInv' BY <1>2, <1>3, <2>2, <2>3, <2>5 DEF StepInv, FileIsRight, CommandError
  <2>8. QED BY <2>4, <2>6, <2>7 DEF ReplayInv
<1>10. CASE GitIsBlocked
  <2>1. troubles'.blocked = troubles.blocked + 1 /\ troubles.blocked \in Nat
    BY <1>0, <1>10 DEF GitIsBlocked, OtherOK, Troubles
  <2>2. QED BY <2>1 DEF FileKeptUp
<1>11. QED BY <1>6, <1>7, <1>8, <1>9, <1>10

\* When git is through, every commit is replayed as the user asked.
LEMMA FinishReplays ==
    ASSUME RebaseTypeOK, BeginInv, InPlace, ReplayInv, GitFinishes
    PROVE  ReplayIsRight'
<1>0. repo \in RepoTypes BY TypeParts
<1>1. /\ control.at = "git" /\ repo.todo = <<>> /\ UNCHANGED <<approved, skipped>>
      /\ repo'.head = repo.head
  BY <1>0 DEF GitFinishes, NoRebase
<1>2. repo.staged = Nothing
      /\ \A n \in 2..Len(repo.head) : repo.head[n].of \notin rebaseState.messages
  BY <1>1 DEF ReplayInv, StepInv, PendingInv
<1>3. Tried = ReplayCommits
  <2>1. Past = Len(Replay) BY <1>1, ReplayFacts DEF Past
  <2>2. QED BY <2>1, ReplayFacts DEF Tried, ReplayCommits
<1>4. \A n \in 2..Len(repo.head) :
        /\ repo.head[n].of \in ReplayCommits /\ repo.head[n].of # Nothing
        /\ Kept(repo.head[n].of)
        /\ repo.head[n] = Commit(repo.head[n].of, Told(repo.head[n].of))
  <2> SUFFICES ASSUME NEW n \in 2..Len(repo.head)
               PROVE  /\ repo.head[n].of \in ReplayCommits /\ repo.head[n].of # Nothing
                      /\ Kept(repo.head[n].of)
                      /\ repo.head[n] = Commit(repo.head[n].of, Told(repo.head[n].of))
    OBVIOUS
  <2>1. repo.head[n].of \in ReplayCommits /\ repo.head[n].of # Nothing
    BY <1>3, ReplayFacts DEF ReplayInv, ReplayedInv, HeadInv
  <2>2. Kept(repo.head[n].of) BY <1>3, <2>1 DEF ReplayInv, ReplayedInv, CoverInv
  <2>3. repo.head[n].message = Told(repo.head[n].of) BY <1>2 DEF ReplayInv, ReplayedInv, TextInv
  <2>4. repo.head[n] \in Heads BY Parts
  <2>5. PICK c \in ReplayCommits \cup {Upstream, Nothing}, m \in CommitMessages : repo.head[n] = Commit(c, m)
    BY <2>4 DEF Heads
  <2>6. repo.head[n] = Commit(repo.head[n].of, repo.head[n].message) BY <2>5 DEF Commit
  <2>7. QED BY <2>1, <2>2, <2>3, <2>6
<1>5. \A c \in ReplayCommits : Kept(c) => \E n \in 2..Len(repo.head) : repo.head[n].of = c
  BY <1>2, <1>3, ReplayFacts DEF ReplayInv, ReplayedInv, CoverInv
<1>6. Replayed = 2..Len(repo.head) BY <1>4 DEF Replayed
<1>7. Wanted = {Commit(c, Told(c)) : c \in {c \in ReplayCommits : Kept(c)}}
  BY DEF Wanted, Told, Kept
<1>8. {repo.head[n] : n \in 2..Len(repo.head)} = {Commit(c, Told(c)) : c \in {c \in ReplayCommits : Kept(c)}}
  <2>1. ASSUME NEW n \in 2..Len(repo.head)
        PROVE  repo.head[n] \in {Commit(c, Told(c)) : c \in {c \in ReplayCommits : Kept(c)}}
    BY <1>4
  <2>2. ASSUME NEW c \in ReplayCommits, Kept(c)
        PROVE  Commit(c, Told(c)) \in {repo.head[n] : n \in 2..Len(repo.head)}
    <3>1. PICK n \in 2..Len(repo.head) : repo.head[n].of = c BY <1>5, <2>2
    <3>2. repo.head[n] = Commit(c, Told(c)) BY <1>4, <3>1
    <3>3. QED BY <3>2
  <2>3. QED BY <2>1, <2>2
<1>9. Replayed' = Replayed /\ Wanted' = Wanted BY <1>1 DEF Replayed, Wanted
<1>10. repo.head[1] = Commit(Upstream, Own(Upstream))
       /\ \A m, n \in 2..Len(repo.head) : m < n => InOrder(repo.head[m].of, repo.head[n].of)
  BY DEF ReplayInv, ReplayedInv, HeadInv, Base
<1>11. QED BY <1>1, <1>6, <1>7, <1>8, <1>9, <1>10 DEF ReplayIsRight

\* Only git ends a rebase, and nothing happens after.
LEMMA EndIsFinal ==
    ASSUME RebaseTypeOK, BeginInv, RebaseNext, rebaseEnd' = "finished", ~GitFinishes
    PROVE  Resolve /\ rebaseEnd = "finished"
<1>1. rebaseEnd = "finished"
  BY DEF RebaseNext, StartRebase, SaveStart, AbortStart, ApplyRebaseActions, ReplaceTodo,
         FinishApply, ContinueRebase, RecordReword, TodoChanged, RunContinue, GitContinue,
         GitGoesOn, AfterContinue, SkipCommit, RunSkip, AfterSkip, AbortRebase, Resolve, Interrupt,
         GitStep, GitDrops, GitPicks, GitEdits, GitConflicts, GitIsBlocked
<1>2. ~repo.active /\ control.at = "idle" BY <1>1 DEF BeginInv, CallInv, Idle
<1>3. QED
  BY <1>1, <1>2 DEF RebaseNext, StartRebase, SaveStart, AbortStart, ApplyRebaseActions, ReplaceTodo,
         FinishApply, ContinueRebase, RecordReword, TodoChanged, RunContinue, AfterContinue,
         SkipCommit, RunSkip, AfterSkip, AbortRebase, Interrupt, Owned, GitStep, GitDrops, GitPicks,
         GitEdits, GitConflicts, GitIsBlocked, AtAction

\* The actions of the user come into place in one step, and leave it with the rebase.
LEMMA InPlaceStep ==
    ASSUME RebaseTypeOK, BeginInv, InPlace => ReplayInv, RebaseNext, FileKeptUp', InPlace'
    PROVE  ReplayInv'
<1>1. CASE FinishApply BY <1>1, ApplyReplays
<1>2. CASE ContinueRebase \/ RecordReword \/ TodoChanged \/ RunContinue \/ AfterContinue
  <2>1. InPlace BY <1>2 DEF ContinueRebase, Owned, RecordReword, TodoChanged, RunContinue,
                         AfterContinue, BeginInv, CallInv, InPlace
  <2>2. QED BY <1>2, <2>1, ContinueReplays
<1>3. CASE SkipCommit \/ RunSkip \/ AfterSkip
  <2>1. InPlace BY <1>3 DEF SkipCommit, Owned, RunSkip, AfterSkip, BeginInv, CallInv, InPlace
  <2>2. QED BY <1>3, <2>1, SkipReplays
<1>4. CASE Resolve \/ Interrupt
  <2>1. InPlace BY <1>4 DEF Resolve, Interrupt, InPlace
  <2>2. QED BY <1>4, <2>1, SkipReplays
<1>5. CASE GitDrops \/ GitPicks \/ GitEdits \/ GitConflicts \/ GitIsBlocked
  <2>1. InPlace BY <1>5 DEF GitDrops, GitPicks, GitEdits, GitConflicts, GitIsBlocked, AtAction,
                         BeginInv, CallInv
  <2>2. QED BY <1>5, <2>1, GitReplays
<1>6. CASE GitFinishes \/ AbortRebase BY <1>6 DEF GitFinishes, AbortRebase, InPlace
<1>7. CASE StartRebase \/ AbortStart
  BY <1>7 DEF StartRebase, AbortStart, BeginInv, CallInv, InPlace
<1>8. CASE SaveStart BY <1>8 DEF SaveStart, Save, InPlace
<1>9. CASE ReplaceTodo BY <1>9 DEF ReplaceTodo, BeginInv, CallInv, InPlace
<1>10. ASSUME NEW plan \in Plans, ApplyRebaseActions(plan) PROVE FALSE
  <2>1. StateOK /\ rebaseState # NoState
    BY <1>10, TypeParts DEF ApplyRebaseActions, Owned
  <2>2. rebaseState'.phase = "applying"
    BY <1>10, <2>1 DEF ApplyRebaseActions, Save, StateOK, StateFiles
  <2>3. QED BY <2>2 DEF InPlace
<1>11. QED
  BY <1>1, <1>2, <1>3, <1>4, <1>5, <1>6, <1>7, <1>8, <1>9, <1>10 DEF RebaseNext, GitStep

\* A state file that has fallen behind does not catch up.
LEMMA KeptUpBefore ==
    ASSUME RebaseTypeOK, RebaseNext, FileKeptUp'
    PROVE  FileKeptUp
<1>0. troubles \in Troubles BY TypeParts DEF OtherOK
<1>1. CASE GitConflicts
  <2>1. troubles' = [troubles EXCEPT !.conflicts = @ + 1] BY <1>1 DEF GitConflicts
  <2>2. troubles'.blocked = troubles.blocked /\ troubles'.unsaved = troubles.unsaved
    BY <1>0, <2>1 DEF Troubles
  <2>3. QED BY <2>2 DEF FileKeptUp
<1>2. CASE GitIsBlocked
  <2>1. troubles'.blocked = troubles.blocked + 1 /\ troubles.blocked \in Nat
    BY <1>0, <1>2 DEF GitIsBlocked, Troubles
  <2>2. QED BY <2>1 DEF FileKeptUp
<1>3. CASE Interrupt
  <2>1. troubles' = [troubles EXCEPT !.interrupted = @ + 1, !.unsaved = @ \/ ~FileIsRight]
    BY <1>3 DEF Interrupt
  <2>2. troubles'.blocked = troubles.blocked BY <1>0, <2>1 DEF Troubles
  <2>3. troubles'.unsaved = (troubles.unsaved \/ ~FileIsRight) BY <1>0, <2>1 DEF Troubles
  <2>4. QED BY <2>2, <2>3 DEF FileKeptUp
<1>4. CASE ~(GitConflicts \/ GitIsBlocked \/ Interrupt)
  <2>1. UNCHANGED troubles
    BY <1>4 DEF RebaseNext, StartRebase, SaveStart, AbortStart, ApplyRebaseActions, ReplaceTodo,
         FinishApply, ContinueRebase, RecordReword, TodoChanged, RunContinue, GitContinue,
         GitGoesOn, AfterContinue, SkipCommit, RunSkip, AfterSkip, AbortRebase, Resolve,
         GitStep, GitDrops, GitPicks, GitEdits, GitFinishes
  <2>2. QED BY <2>1 DEF FileKeptUp
<1>5. QED BY <1>1, <1>2, <1>3, <1>4

\* What a rebase keeps, step by step.
RebaseInv ==
    /\ RebaseTypeOK /\ BeginInv
    /\ InPlace /\ FileKeptUp => ReplayInv
    /\ RewordsReachTheirCommits

\* Every step keeps the inductive invariant.
LEMMA RebaseStep ==
    ASSUME RebaseInv, [RebaseNext]_rebaseVars
    PROVE  RebaseInv'
<1>1. RebaseTypeOK /\ BeginInv /\ (InPlace /\ FileKeptUp => ReplayInv) /\ RewordsReachTheirCommits
  BY DEF RebaseInv
<1>2. CASE RebaseNext
  <2>1. RebaseTypeOK' /\ BeginInv' BY <1>1, <1>2, BeginStep
  <2>0. FileKeptUp' => FileKeptUp BY <1>1, <1>2, KeptUpBefore
  <2>2. InPlace' /\ FileKeptUp' => ReplayInv' BY <1>1, <1>2, <2>0, InPlaceStep
  <2>3. RewordsReachTheirCommits'
    <3>1. CASE GitFinishes
      <4>1. InPlace BY <1>1, <3>1 DEF GitFinishes, BeginInv, CallInv
      <4>2. FileKeptUp' => ReplayIsRight' BY <1>1, <2>0, <3>1, <4>1, FinishReplays
      <4>3. QED BY <4>2 DEF RewordsReachTheirCommits
    <3>2. CASE ~GitFinishes /\ rebaseEnd' = "finished"
      <4>1. Resolve /\ rebaseEnd = "finished" BY <1>1, <1>2, <3>2, EndIsFinal
      <4>2. repo'.head = repo.head /\ UNCHANGED <<approved, skipped, rebaseEnd>>
        BY <1>1, <4>1, TypeParts DEF Resolve, RepoTypes
      <4>3. ReplayIsRight => ReplayIsRight' BY <4>2 DEF ReplayIsRight, Replayed, Wanted
      <4>4. QED BY <1>1, <2>0, <4>1, <4>3 DEF RewordsReachTheirCommits
    <3>3. CASE rebaseEnd' # "finished" BY <3>3 DEF RewordsReachTheirCommits
    <3>4. QED BY <3>1, <3>2, <3>3
  <2>4. QED BY <2>1, <2>2, <2>3 DEF RebaseInv
<1>3. CASE UNCHANGED rebaseVars
  <2>1. RebaseTypeOK' /\ BeginInv' BY <1>1, <1>3, BeginStep
  <2>2. RewordsReachTheirCommits'
    BY <1>1, <1>3 DEF rebaseVars, RewordsReachTheirCommits, FileKeptUp, ReplayIsRight, Replayed, Wanted
  <2>3. (InPlace' <=> InPlace) /\ (FileKeptUp' <=> FileKeptUp)
    BY <1>3 DEF rebaseVars, InPlace, FileKeptUp
  <2>4. ASSUME ReplayInv PROVE ReplayInv'
    <3>1. ReplayedInv' BY <1>3, <2>4, NothingReplayed DEF rebaseVars, ReplayInv
    <3>2. PendingInv' BY <1>3, <2>4 DEF rebaseVars, ReplayInv, PendingInv, RewordIsPending
    <3>3. StepInv' BY <1>3, <2>4 DEF rebaseVars, ReplayInv, StepInv, FileIsRight, RewordIsPending,
                                      CommandError
    <3>4. QED BY <3>1, <3>2, <3>3 DEF ReplayInv
  <2>5. QED BY <1>1, <2>1, <2>2, <2>3, <2>4 DEF RebaseInv
<1>4. QED BY <1>2, <1>3

\* The types of GitRebase, whatever happens to a rebase (git_rebase_service.go).
THEOREM RebaseTypeCorrect == RebaseSpec => []RebaseTypeOK
<1>1. RebaseInit => RebaseTypeOK /\ BeginInv BY TypeInit, BeginInit
<1>2. RebaseTypeOK /\ BeginInv /\ [RebaseNext]_rebaseVars => (RebaseTypeOK /\ BeginInv)'
  BY BeginStep
<1>3. QED BY <1>1, <1>2, PTL DEF RebaseSpec

\* A rebase that was finished has replayed exactly the commits the user asked for,
\* in order and each under its message, however often git stopped, calls failed or
\* died and were made again, in every combination: as long as git could try every
\* commit, and no call died before it saved what git did, leaving the state file
\* wrong about it (ContinueRebase, SkipCommit and recoverPendingRewordBeforeContinue
\* in git_rebase_service.go).
THEOREM RewordsArrive == RebaseSpec => []RewordsReachTheirCommits
<1>1. RebaseInit => RebaseInv
  <2>1. RebaseInit => ~InPlace /\ rebaseEnd # "finished" BY DEF RebaseInit, InPlace
  <2>2. QED BY <2>1, TypeInit, BeginInit DEF RebaseInv, RewordsReachTheirCommits
<1>2. RebaseInv /\ [RebaseNext]_rebaseVars => RebaseInv' BY RebaseStep
<1>3. RebaseInv => RewordsReachTheirCommits BY DEF RebaseInv
<1>4. QED BY <1>1, <1>2, <1>3, PTL DEF RebaseSpec
=============================================================================
