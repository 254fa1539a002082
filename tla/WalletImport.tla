---------------------------- MODULE WalletImport ----------------------------
(***************************************************************************)
(* kwl2kss: the utility that copies every KWallet file of a user into       *)
(* collections of the secret service. KwlImporterJob owns one              *)
(* ImportSingleWalletJob per file. Everything runs in one thread: a step is *)
(* the delivery of the oldest posted slot, of the answer to a call to the  *)
(* service (answers come in any order), of the user's answer to the open   *)
(* password dialog, or of a click in the job tracker's window.             *)
(*                                                                         *)
(* A job of the KDE library remembers itself whether it is suspended; its   *)
(* suspend() and resume() call doSuspend() and doResume() only when that    *)
(* changes something, and kill() lets the job go when doKill() allows it.   *)
(***************************************************************************)
EXTENDS Naturals, Sequences, FiniteSets, SequencesExt

CONSTANTS
  Wallets,      \* the *.kwl files
  Order,        \* the same, in the order entryInfoList gives them
  Content,      \* Content[w]: its folders with their entries, in order
  Names,        \* folder names
  Keys,         \* entry names
  Kinds,        \* Password, Stream, Map
  Protection,   \* "none", "password", or "stub": less than 60 bytes long
  Marker,       \* the collection's creator=kwl2kss item: "absent", "fresh", "stale"
  None,
  MaxPauses, MaxKills, MaxLaunches

Entries == [key : Keys, kind : Kinds]
Folders == [name : Names, entries : Seq(Entries)]

\* A folder's name is a key of the map the wallet's folders are kept in.
ASSUME ImportAssumption ==
  /\ Wallets # {} /\ Order \in Seq(Wallets) /\ ToSet(Order) = Wallets /\ IsInjective(Order)
  /\ \A w \in Wallets :
       /\ Content[w] \in Seq(Folders) /\ Content[w] # <<>>
       /\ \A i, j \in DOMAIN Content[w] : Content[w][i].name = Content[w][j].name => i = j
  /\ Protection \in [Wallets -> {"none", "password", "stub"}]
  /\ Marker \in [Wallets -> {"absent", "fresh", "stale"}]
  /\ None \notin Names \cup Wallets
  /\ {MaxPauses, MaxKills} \subseteq Nat /\ MaxLaunches \in Nat \ {0}

VARIABLES
  app,      \* the process: "running", "quitting" (quit() was called), "ended", "crashed"
  posted,   \* queued slots and deletions, oldest first
  calls,    \* calls[w]: unanswered calls of w's job to the service
  dialogs,  \* jobs inside run() with the password dialog open, innermost first
  parent,   \* KwlImporterJob
  job,      \* job[w]: the ImportSingleWalletJob of w
  stored,   \* stored[w]: the collection's items, by folder and entry
  raced,    \* history: w's job was resumed with a step of its own under way
  imported, \* history: a launch before this one reported the import of w as done
  clicks    \* [pauses, kills, launches] so far: bounds only

vars == <<app, posted, calls, dialogs, parent, job, stored, raced, imported, clicks>>

Slots == {"checkImportNeeded", "run", "onWalletOpened", "processCurrentFolder",
          "processNextEntry", "processNextFolder", "delete"}

NewJob == [alive |-> FALSE, status |-> "Initializing", suspended |-> FALSE,
           killed |-> FALSE, paused |-> FALSE, folders |-> <<>>, folder |-> None,
           entries |-> <<>>, result |-> "none", results |-> 0]

\* main() creates and starts the importer job when there are wallets.
NewParent == [subjobs |-> <<>>, failed |-> FALSE, paused |-> FALSE]

Init ==
  /\ app = "running"
  /\ posted = <<[job |-> None, slot |-> "run"]>>
  /\ calls = [w \in Wallets |-> <<>>]
  /\ dialogs = <<>>
  /\ parent = NewParent
  /\ job = [w \in Wallets |-> NewJob]
  /\ stored = [w \in Wallets |-> {}]
  /\ raced = {}
  /\ imported = {}
  /\ clicks = [pauses |-> 0, kills |-> 0, launches |-> 1]

-----------------------------------------------------------------------------
Up == app \in {"running", "quitting"}

\* Slip: doKill's flag is not looked at.
CanProceedIfKilled(w) == ~job[w].suspended

CanProceed(w) == ~job[w].killed /\ ~job[w].suspended

\* The oldest posted event is this slot, and its job still exists.
Due(w, s) ==
  /\ Up /\ posted # <<>>
  /\ Head(posted) = [job |-> w, slot |-> s]
  /\ job[w].alive

Then(w, s) == posted' = Append(Tail(posted), [job |-> w, slot |-> s])

Call(w, op, e) == calls' = [calls EXCEPT ![w] = Append(@, [op |-> op, folder |-> job[w].folder, entry |-> e])]

\* emitResult() of w's job: KCompositeJob takes it from the list and ends the
\* whole job on the first error; slotResult ends it when no subjob is left.
\* Slips: the importer ends at the first result; it waits for an error.
QuitsAtOnce(left, failed) == TRUE
QuitsOnErrorOnly(left, failed) == failed /\ ~parent.failed

QuitsWith(left, failed) == left = <<>> \/ (failed /\ ~parent.failed)

\* KCompositeJob::removeSubjob: no job is in the list twice.
Without(s, w) ==
  IF w \in ToSet(s) THEN RemoveAt(s, CHOOSE i \in DOMAIN s : s[i] = w) ELSE s

Finish(jobs, w, outcome) ==
  LET left == Without(parent.subjobs, w)
      failed == outcome = "failed"
  IN /\ job' = [jobs EXCEPT ![w].result = outcome, ![w].results = @ + 1]
     /\ parent' = [parent EXCEPT !.subjobs = left, !.failed = @ \/ failed]
     /\ app' = IF QuitsWith(left, failed) THEN "quitting" ELSE app

-----------------------------------------------------------------------------
\* KwlImporterJob::run: one subjob per file, each started at once.
RunParent ==
  /\ Up /\ posted # <<>> /\ Head(posted) = [job |-> None, slot |-> "run"]
  /\ parent' = [parent EXCEPT !.subjobs = Order]
  /\ job' = [w \in Wallets |-> [NewJob EXCEPT !.alive = TRUE]]
  /\ posted' = Tail(posted) \o [i \in DOMAIN Order |-> [job |-> Order[i], slot |-> "checkImportNeeded"]]
  /\ UNCHANGED <<app, calls, dialogs, stored, raced, imported, clicks>>

CheckImportNeeded(w) ==
  /\ Due(w, "checkImportNeeded")
  /\ posted' = Tail(posted)
  /\ Call(w, "search", None)
  /\ UNCHANGED <<app, dialogs, parent, job, stored, raced, imported, clicks>>

\* The call is answered; it may be any of those under way.
Answered(w, i) == calls' = [calls EXCEPT ![w] = RemoveAt(@, i)]

Goes(w, s) ==
  /\ posted' = Append(posted, [job |-> w, slot |-> s])
  /\ UNCHANGED <<app, parent, job>>

Stops(w, outcome) ==
  /\ Finish(job, w, outcome)
  /\ posted' = Append(posted, [job |-> w, slot |-> "delete"])

CheckImportNeededItems(w, i) ==
  /\ calls[w][i].op = "search"
  /\ \/ Answered(w, i) /\ Stops(w, "failed")
     \/ Answered(w, i) /\ Marker[w] = "absent" /\ Goes(w, "run")
     \/ /\ Marker[w] # "absent"
        /\ calls' = [calls EXCEPT ![w][i].op = "getSecret"]
        /\ UNCHANGED <<app, parent, job, posted>>
  /\ UNCHANGED stored

\* An unreadable or old stamp leads to an import, the stamps of the file to none.
CheckImportNeededSecret(w, i) ==
  /\ calls[w][i].op = "getSecret"
  /\ Answered(w, i)
  /\ Goes(w, "run") \/ (Marker[w] = "fresh" /\ Stops(w, "ok"))
  /\ UNCHANGED stored

\* Collection::createItem with ReplaceExistingItem: the item of these
\* attributes, which the service adds the label to, is made or replaced.
Stores(w, c) == [stored EXCEPT ![w] = @ \cup {[folder |-> c.folder, entry |-> c.entry]}]

\* Slip: the job's error is not looked at.
CreateItemFinishedRegardless(w, i) ==
  LET c == calls[w][i]
  IN /\ c.op = "create"
     /\ Answered(w, i)
     /\ IF job[w].alive THEN Goes(w, "processNextEntry") ELSE UNCHANGED <<app, parent, job, posted>>
     /\ stored' = Stores(w, c) \/ UNCHANGED stored

CreateItemFinished(w, i) ==
  LET c == calls[w][i]
  IN /\ c.op = "create"
     /\ Answered(w, i)
     /\ \/ /\ stored' = Stores(w, c)
           /\ IF job[w].alive THEN Goes(w, "processNextEntry")
                              ELSE UNCHANGED <<app, parent, job, posted>>
        \/ /\ job[w].alive
           /\ Stops(w, "failed")
           /\ UNCHANGED stored

\* An answer reaches the slot connected to it; a deleted job has none.
Answer(w) ==
  /\ Up
  /\ \E i \in DOMAIN calls[w] :
       \/ /\ job[w].alive
          /\ CheckImportNeededItems(w, i) \/ CheckImportNeededSecret(w, i)
       \/ CreateItemFinished(w, i)
  /\ UNCHANGED <<dialogs, raced, imported, clicks>>

-----------------------------------------------------------------------------
\* run(): the empty password is tried first. The dialog is a nested event
\* loop, so other jobs go on and may open theirs on top of it.
Run(w) ==
  /\ Due(w, "run")
  /\ IF Protection[w] = "none"
     THEN Then(w, "onWalletOpened") /\ UNCHANGED dialogs
     ELSE posted' = Tail(posted) /\ dialogs' = <<w>> \o dialogs
  /\ UNCHANGED <<app, calls, parent, job, stored, raced, imported, clicks>>

\* The right password; a wrong one leaves the dialog open and changes nothing,
\* as does any password for a stub: its file was opened by the first attempt
\* and Backend::open refuses to open it again.
AcceptPassword ==
  /\ Up /\ dialogs # <<>>
  /\ Protection[Head(dialogs)] = "password"
  /\ posted' = Append(posted, [job |-> Head(dialogs), slot |-> "onWalletOpened"])
  /\ dialogs' = Tail(dialogs)
  /\ UNCHANGED <<app, calls, parent, job, stored, raced, imported, clicks>>

\* The user cancels, or quit() makes exec() return.
RejectDialog ==
  /\ Up /\ dialogs # <<>>
  /\ Stops(Head(dialogs), "failed")
  /\ dialogs' = Tail(dialogs)
  /\ UNCHANGED <<calls, stored, raced, imported, clicks>>

EntryList(w, f) == (CHOOSE x \in ToSet(Content[w]) : x.name = f).entries

FolderList(w) == [i \in DOMAIN Content[w] |-> Content[w][i].name]

OnWalletOpened(w) ==
  /\ Due(w, "onWalletOpened")
  /\ job' = [job EXCEPT ![w].folder = Head(FolderList(w)), ![w].folders = Tail(FolderList(w))]
  /\ Then(w, "processCurrentFolder")
  /\ UNCHANGED <<app, calls, dialogs, parent, stored, raced, imported, clicks>>

\* A slot that finds the job suspended or killed only returns.
Idle(w) == posted' = Tail(posted) /\ UNCHANGED <<app, calls, parent, job>>

ProcessCurrentFolder(w) ==
  /\ Due(w, "processCurrentFolder")
  /\ IF ~CanProceed(w) THEN Idle(w)
     ELSE /\ job' = [job EXCEPT ![w].entries = EntryList(w, job[w].folder)]
          /\ Then(w, "processNextEntry")
          /\ UNCHANGED <<app, calls, parent>>
  /\ UNCHANGED <<dialogs, stored, raced, imported, clicks>>

ProcessNextEntry(w) ==
  /\ Due(w, "processNextEntry")
  /\ IF ~CanProceed(w) THEN Idle(w)
     ELSE IF job[w].entries = <<>>
     THEN Then(w, "processNextFolder") /\ UNCHANGED <<app, calls, parent, job>>
     ELSE /\ job' = [job EXCEPT ![w].entries = Tail(@)]
          /\ Call(w, "create", Head(job[w].entries))
          /\ posted' = Tail(posted)
          /\ UNCHANGED <<app, parent>>
  /\ UNCHANGED <<dialogs, stored, raced, imported, clicks>>

ProcessNextFolder(w) ==
  /\ Due(w, "processNextFolder")
  /\ LET begun == [job EXCEPT ![w].status = "ProcessingNextFolder"]
     IN IF ~CanProceed(w) THEN Idle(w)
        ELSE IF job[w].folders = <<>>
        THEN Finish(begun, w, "ok") /\ Then(w, "delete") /\ UNCHANGED calls
        ELSE /\ job' = [begun EXCEPT ![w].folder = Head(job[w].folders), ![w].folders = Tail(@)]
             /\ Then(w, "processCurrentFolder")
             /\ UNCHANGED <<app, calls, parent>>
  /\ UNCHANGED <<dialogs, stored, raced, imported, clicks>>

\* deleteLater(): the job goes; createItem calls under way still land, and no
\* others are under way by then. What is still posted to it is dropped, here when
\* its turn comes: nobody looks at the queue before.
Delete(w) ==
  /\ Due(w, "delete")
  /\ job' = [job EXCEPT ![w].alive = FALSE]
  /\ posted' = Tail(posted)
  /\ UNCHANGED <<app, calls, dialogs, parent, stored, raced, imported, clicks>>

Drop(w) ==
  /\ Up /\ posted # <<>> /\ Head(posted).job = w /\ ~job[w].alive
  /\ posted' = Tail(posted)
  /\ UNCHANGED <<app, calls, dialogs, parent, job, stored, raced, imported, clicks>>

-----------------------------------------------------------------------------
\* doKill, doSuspend and doResume of the importer job walk its subjobs and stop
\* at the first that refuses: n of them agree, and all they reach exist.
Walks(n, Agrees(_)) ==
  LET s == parent.subjobs
  IN /\ app = "running" /\ s # <<>>
     /\ \A k \in 1 .. n : Agrees(s[k])
     /\ n < Len(s) => ~Agrees(s[n + 1])
     /\ \A k \in DOMAIN s : k <= n + 1 => job[s[k]].alive

First(n) == {parent.subjobs[k] : k \in 1 .. n}

Initializing(w) == job[w].status = "Initializing"

Agreeable(w) == ~Initializing(w)
Suspendable(w) == ~job[w].paused /\ ~Initializing(w)

\* The bounds on the user: clicks in the first launch only, and no second
\* launch after them.
MayClick(n, max) == n < max /\ clicks.launches = 1

MayRelaunch == clicks.launches < MaxLaunches /\ clicks.pauses + clicks.kills = 0

\* kill() of the importer job. A killed subjob emits finished() but not
\* result(): it is deleted and stays in the list of subjobs.
Kill ==
  /\ MayClick(clicks.kills, MaxKills)
  /\ \E n \in 0 .. Len(parent.subjobs) :
       /\ Walks(n, Agreeable)
       /\ job' = [w \in Wallets |-> IF w \in First(n) THEN [job[w] EXCEPT !.killed = TRUE, !.result = "killed"]
                                    ELSE job[w]]
       /\ posted' = posted \o [i \in 1 .. n |-> [job |-> parent.subjobs[i], slot |-> "delete"]]
       /\ app' = IF n = Len(parent.subjobs) THEN "quitting" ELSE app
       /\ parent' = [parent EXCEPT !.failed = @ \/ n = Len(parent.subjobs)]
  /\ clicks' = [clicks EXCEPT !.kills = @ + 1]
  /\ UNCHANGED <<calls, dialogs, stored, raced, imported>>

Suspend ==
  /\ MayClick(clicks.pauses, MaxPauses)
  /\ ~parent.paused
  /\ \E n \in 0 .. Len(parent.subjobs) :
       /\ Walks(n, Suspendable)
       /\ job' = [w \in Wallets |-> IF w \in First(n) THEN [job[w] EXCEPT !.suspended = TRUE, !.paused = TRUE]
                                    ELSE job[w]]
       /\ parent' = [parent EXCEPT !.paused = (n = Len(parent.subjobs))]
  /\ clicks' = [clicks EXCEPT !.pauses = @ + 1]
  /\ UNCHANGED <<app, posted, calls, dialogs, stored, raced, imported>>

\* Some step of w's job is still to come: a posted slot or an answer.
UnderWay(w) == calls[w] # <<>> \/ \E i \in DOMAIN posted : posted[i].job = w

\* resume(): each subjob starts its current folder again, at once.
Resumed(w) ==
  IF job[w].killed THEN [job[w] EXCEPT !.suspended = FALSE, !.paused = FALSE]
  ELSE [job[w] EXCEPT !.suspended = FALSE, !.paused = FALSE,
                      !.entries = EntryList(w, job[w].folder)]

\* The members of S in ascending order: one sequence.
Ascending(S) ==
  {f \in [1 .. Cardinality(S) -> S] : \A i, j \in 1 .. Cardinality(S) : i < j => f[i] < f[j]}

Resume ==
  /\ parent.paused
  /\ \E n \in 0 .. Len(parent.subjobs) :
       /\ Walks(n, Agreeable)
       /\ job' = [w \in Wallets |-> IF w \in First(n) THEN Resumed(w) ELSE job[w]]
       /\ \E goes \in Ascending({k \in 1 .. n : ~job[parent.subjobs[k]].killed}) :
            posted' = posted \o [i \in DOMAIN goes |-> [job |-> parent.subjobs[goes[i]], slot |-> "processNextEntry"]]
       /\ raced' = raced \cup {w \in First(n) : UnderWay(w)}
       /\ parent' = [parent EXCEPT !.paused = n # Len(parent.subjobs)]
  /\ UNCHANGED <<app, calls, dialogs, stored, imported, clicks>>

\* A click that reaches a subjob already deleted: undefined behaviour, shown
\* here by its worst outcome.
TouchDeleted ==
  /\ app = "running"
  /\ \E i \in DOMAIN parent.subjobs :
       /\ ~job[parent.subjobs[i]].alive
       /\ \A k \in 1 .. i - 1 : Agreeable(parent.subjobs[k])
  /\ MayClick(clicks.kills, MaxKills) \/ MayClick(clicks.pauses, MaxPauses) \/ parent.paused
  /\ app' = "crashed"
  /\ UNCHANGED <<posted, calls, dialogs, parent, job, stored, raced, imported, clicks>>

\* exec() returns once every nested loop has. The importer job deletes itself
\* and its subjobs on the way out, which a job inside its dialog survives only
\* if exec() of the dialog has returned by then (RejectDialog).
Exit ==
  /\ app = "quitting"
  /\ app' = IF dialogs = <<>> THEN "ended" ELSE "crashed"
  /\ UNCHANGED <<posted, calls, dialogs, parent, job, stored, raced, imported, clicks>>

\* The utility is started again; the collections are still there.
Relaunch ==
  /\ app \in {"ended", "crashed"} /\ MayRelaunch
  /\ app' = "running"
  /\ posted' = <<[job |-> None, slot |-> "run"]>>
  /\ calls' = [w \in Wallets |-> <<>>]
  /\ dialogs' = <<>>
  /\ parent' = NewParent
  /\ job' = [w \in Wallets |-> NewJob]
  /\ imported' = imported \cup {w \in Wallets : job[w].result = "ok"}
  /\ clicks' = [clicks EXCEPT !.launches = @ + 1]
  /\ UNCHANGED <<stored, raced>>

-----------------------------------------------------------------------------
Deliver ==
  \/ RunParent
  \/ \E w \in Wallets :
       \/ CheckImportNeeded(w) \/ Run(w) \/ OnWalletOpened(w)
       \/ ProcessCurrentFolder(w) \/ ProcessNextEntry(w) \/ ProcessNextFolder(w)
       \/ Delete(w) \/ Drop(w)

User == Kill \/ Suspend \/ Resume \/ TouchDeleted

Next ==
  \/ Deliver
  \/ \E w \in Wallets : Answer(w)
  \/ AcceptPassword \/ RejectDialog
  \/ User
  \/ Exit \/ Relaunch

Spec == Init /\ [][Next]_vars

\* The event loop delivers what is posted, the service answers every call and
\* the user answers every dialog in the end.
Fairness ==
  /\ WF_vars(Deliver)
  /\ \A w \in Wallets : WF_vars(Answer(w))
  /\ WF_vars(AcceptPassword \/ RejectDialog)
  /\ WF_vars(Exit)

FairSpec == Spec /\ Fairness

-----------------------------------------------------------------------------
Jobs == [alive : BOOLEAN, status : {"Initializing", "ProcessingNextFolder"},
         suspended : BOOLEAN, killed : BOOLEAN, paused : BOOLEAN,
         folders : Seq(Names), folder : Names \cup {None}, entries : Seq(Entries),
         result : {"none", "ok", "failed", "killed"}, results : Nat]

Requests == [op : {"search", "getSecret", "create"}, folder : Names \cup {None},
             entry : Entries \cup {None}]

\* Every variable keeps to its type.
TypeOK ==
  /\ app \in {"running", "quitting", "ended", "crashed"}
  /\ posted \in Seq([job : Wallets \cup {None}, slot : Slots])
  /\ calls \in [Wallets -> Seq(Requests)]
  /\ dialogs \in Seq(Wallets)
  /\ parent \in [subjobs : Seq(Wallets), failed : BOOLEAN, paused : BOOLEAN]
  /\ job \in [Wallets -> Jobs]
  /\ stored \in [Wallets -> SUBSET [folder : Names, entry : Entries]]
  /\ raced \subseteq Wallets /\ imported \subseteq Wallets
  /\ clicks \in [pauses : 0 .. MaxPauses, kills : 0 .. MaxKills, launches : 1 .. MaxLaunches]

\* The items an import of the whole file makes.
Whole(w) == {i \in [folder : Names, entry : Entries] :
               \E x \in ToSet(Content[w]) : x.name = i.folder /\ i.entry \in ToSet(x.entries)}

\* An import that reports success without having been resumed too early has
\* copied every entry of every folder, whichever calls failed, were answered
\* late or were sent twice; and no import files an entry under another folder.
\* (Resuming with a slot still posted makes processNextFolder change the folder
\* under the list of entries of the one before.)
CopiesTheWallet ==
  \A w \in Wallets \ raced :
    /\ stored[w] \subseteq Whole(w)
    /\ job[w].result = "ok" /\ Marker[w] # "fresh" => Whole(w) \subseteq stored[w]

\* The utility only quits on its own when every subjob has answered or one of
\* them failed, and each answers once, except where resuming started a second
\* chain of slots: a result counted twice or a job forgotten would end it early.
QuitsWhenDone ==
  /\ \A w \in Wallets \ raced : job[w].results <= 1
  /\ app \in {"quitting", "ended"} =>
       parent.failed \/ \A w \in Wallets : job[w].result \in {"ok", "failed"}

\* After a kill no new item is sent to the service, whatever slots are posted
\* and whichever answers arrive between the kill and the deletion of the job -
\* while the utility quits because all were killed, or goes on because a later
\* one refused.
KilledIsQuiet ==
  [][\A w \in Wallets : job[w].killed => Len(calls'[w]) <= Len(calls[w])]_vars

\* A subjob that a click stopped half way, because a later one refused: it will
\* never give its result, and the importer job waits for all of them.
Abandoned == \E w \in ToSet(parent.subjobs) : job[w].killed \/ job[w].paused

\* Every launch ends, the second like the first, whatever the service answers,
\* unless a click left some subjob killed or suspended for good.
ImportEnds == (app = "running" ~> app \in {"ended", "crashed"}) \/ <>[]Abandoned

\* importsinglewalletjob.cpp:83-86: a wallet is imported again only when its
\* file is newer than the one the collection was made from. Here no file changes.
ImportedOnce ==
  [][\A w \in imported : Len(calls'[w]) > Len(calls[w]) => Last(calls'[w]).op # "create"]_vars

=============================================================================
