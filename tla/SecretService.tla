--------------------------- MODULE SecretService ---------------------------
(***************************************************************************)
(* ksecretsserviced between the bus and the files: the objects clients      *)
(* call (Service, Collection, Item, Session, Prompt), the backend master    *)
(* with its one manager, the jobs of the ksecret backend and the dialogs    *)
(* they open. One thread, but several clients: a prompt's jobs end when the *)
(* user answers, and every other call may come before that. A message box   *)
(* spins a loop of its own, so what follows it waits for the inner boxes.   *)
(*                                                                         *)
(* What a collection keeps in memory and on file is KSecretCollection's     *)
(* subject; here its objects matter: which exist, who knows them, and what  *)
(* happens when a call reaches one that was deleted. That is undefined      *)
(* behaviour, and a run ends there (broken).                                *)
(***************************************************************************)
EXTENDS Naturals, Sequences, FiniteSets, FiniteSetsExt, SequencesExt

CONSTANTS
  Colls,       \* collection ids
  Found,       \* those whose file is there when the daemon starts
  Items,       \* item ids, each with attributes of its own
  Stored,      \* Stored[c]: items in the file of a found collection
  Sessions,
  None,
  MaxPrompts, MaxJobs, MaxLocks

ASSUME ServiceAssumption ==
  /\ Found \subseteq Colls /\ None \notin Colls
  /\ Stored \in [Found -> SUBSET Items]
  /\ {MaxPrompts, MaxJobs, MaxLocks} \subseteq Nat

VARIABLES
  coll,      \* coll[c]: the KSecretCollection, its m_items and what hangs on them
  watched,   \* collections whose collectionDeleted the manager forwards
  master,    \* BackendMaster::m_collections
  paths,     \* Service::m_collections
  gone,      \* frontend Collections with m_deleted set
  listed,    \* listed[c]: Collection::m_itemPaths
  bus,       \* bus[c][i]: frontend Item object: "none", "good", or "stale" (m_item deleted)
  sessions,  \* open Session objects
  prompts,   \* prompt objects, in the order they were made
  jobs,      \* jobs of the prompts
  boxes,     \* jobs waiting in a message box, innermost last
  broken,    \* a deleted or absent object was used, or an assertion failed
  lost,      \* history: collections locked with items, or deleted, or with a loaded item deleted
  locks      \* bound: Lock calls that closed a collection

backend == <<coll, watched, master, paths, gone, listed, bus>>
asking == <<prompts, jobs, boxes>>
vars == <<backend, sessions, asking, broken, lost, locks>>

Kinds == {"create", "unlock", "change"}
Final == {"ok", "no", "failed"}
Stages == {"idle", "new", "ask", "acl", "box"} \cup Final

\* locked, items (m_items), file (the items on file once every change is saved,
\* by lock() at the latest), wired (signals connected), dead (in m_items, but
\* deleted), rot (m_lookupHashes still refers to deleted items), knows (has an
\* ACL entry for the client's program).
NoColl == [here |-> "none", locked |-> TRUE, items |-> {}, file |-> {}, wired |-> {}, dead |-> {},
           rot |-> FALSE, knows |-> FALSE]

Init ==
  /\ coll = [c \in Colls |-> NoColl]
  /\ watched = {} /\ master = {} /\ paths = {} /\ gone = {}
  /\ listed = [c \in Colls |-> {}]
  /\ bus = [c \in Colls |-> [i \in Items |-> "none"]]
  /\ sessions = {}
  /\ prompts = <<>> /\ jobs = <<>> /\ boxes = <<>>
  /\ broken = FALSE /\ lost = {}
  /\ locks = 0

-----------------------------------------------------------------------------
Live(c) == coll[c].here = "live"
Open(c) == Live(c) /\ ~coll[c].locked
OnBus == {c \in Colls : coll[c].here # "none"}   \* frontend Collections are never destroyed
Sound(c) == Open(c) /\ coll[c].dead = {} /\ ~coll[c].rot

Break == broken' = TRUE /\ UNCHANGED <<backend, sessions, asking, lost, locks>>

JobsOf(p, js) == {j \in DOMAIN js : js[j].prompt = p}

\* addCollection: the manager announces it, the master and the service list it.
Announce(C) == master' = master \cup C /\ paths' = paths \cup C

\* slotStartupDiscovery, when the event loop starts: the manager watches none of these.
Discover ==
  /\ ~broken /\ \E c \in Found : coll[c].here = "none"
  /\ coll' = [c \in Colls |-> IF c \in Found THEN [NoColl EXCEPT !.here = "live", !.file = Stored[c]]
                                             ELSE coll[c]]
  /\ Announce(Found)
  /\ UNCHANGED <<watched, gone, listed, bus, sessions, asking, broken, lost, locks>>

OpenSession(s) ==
  /\ ~broken /\ sessions' = sessions \cup {s}
  /\ UNCHANGED <<backend, asking, broken, lost, locks>>

CloseSession(s) ==
  /\ ~broken /\ s \in sessions /\ sessions' = sessions \ {s}
  /\ UNCHANGED <<backend, asking, broken, lost, locks>>

-----------------------------------------------------------------------------
\* A prompt object and a job; history: shut, the collections closed since the
\* prompt was made; refused, whether a create job could not store its ACL answer.
NewPrompt(kind, coldly) ==
  [kind |-> kind, locked |-> coldly, prompted |-> FALSE, dismissed |-> FALSE,
   completed |-> <<>>, shut |-> {}]

NewJob(p, c) == [prompt |-> p, coll |-> c, stage |-> "idle", refused |-> FALSE]

Room(n) == Len(prompts) < MaxPrompts /\ Len(jobs) + n <= MaxJobs

Ask(kind, coldly, cs) ==
  /\ prompts' = Append(prompts, NewPrompt(kind, coldly))
  /\ jobs' = jobs \o [k \in DOMAIN cs |-> NewJob(Len(prompts) + 1, cs[k])]
  /\ UNCHANGED boxes

CreateCollection(coldly) ==
  /\ ~broken /\ Room(1)
  /\ Ask("create", coldly, <<None>>)
  /\ UNCHANGED <<backend, sessions, broken, lost, locks>>

\* Service::unlock: what is open is answered at once, the rest - these, in the
\* order given, a path given twice with two jobs - gets one prompt.
Unlock(closed) ==
  /\ ~broken /\ closed # <<>> /\ Room(Len(closed))
  /\ \A c \in ToSet(closed) : c \in OnBus /\ coll[c].locked
  /\ IF \A c \in ToSet(closed) : Live(c)
     THEN /\ Ask("unlock", FALSE, closed)
          /\ UNCHANGED <<backend, sessions, broken, lost, locks>>
     ELSE Break

ChangePassword(c) ==
  /\ ~broken /\ c \in OnBus /\ Room(1)
  /\ IF Live(c) THEN /\ Ask("change", FALSE, <<c>>)
                     /\ UNCHANGED <<backend, sessions, broken, lost, locks>>
                ELSE Break

-----------------------------------------------------------------------------
\* completed(dismissed, paths): the prompt tells its client.
Tell(ps, p, dismissed, cs) == [ps EXCEPT ![p].completed = Append(@, [dismissed |-> dismissed, paths |-> cs])]

\* Slip: the jobs' result() is not looked at.
Ended(p, js) == {js[j].coll : j \in {k \in JobsOf(p, js) : js[k].stage \in Final}}

Succeeded(p, js) == {js[j].coll : j \in {k \in JobsOf(p, js) : js[k].stage = "ok"}}

\* ServiceMultiPrompt::jobResult completes when it waits for no job any more,
\* SingleJobPrompt::jobResult at its job's result. Slip: at the first result.
FirstResult(p, js) == \E j \in JobsOf(p, js) : js[j].stage \in Final

\* Slip: a job that failed is still waited for.
NoFailures(p, js) == \A j \in JobsOf(p, js) : js[j].stage \in {"ok", "no"}

AllResults(p, js) == \A j \in JobsOf(p, js) : js[j].stage \in Final

Report(p, js) == IF AllResults(p, js) THEN Tell(prompts, p, FALSE, Succeeded(p, js)) ELSE prompts

\* Job j goes to stage s; a failed job of a single prompt shows a message box
\* first, and its prompt completes after that.
Move(j, s) ==
  LET p == jobs[j].prompt
      shown == IF s = "failed" /\ prompts[p].kind # "unlock" THEN "box" ELSE s
      js == [jobs EXCEPT ![j].stage = shown]
  IN /\ jobs' = js
     /\ boxes' = IF shown = "box" THEN Append(boxes, j) ELSE boxes
     /\ prompts' = IF shown \in Final THEN Report(p, js) ELSE prompts

\* KSecretUnlockCollectionJob::start, as a job and as the first step of a
\* change of password. A caller is always a valid peer, and a locked collection
\* knows no program's permission: so the password is asked.
Started(j) ==
  LET c == jobs[j].coll
  IN IF prompts[jobs[j].prompt].kind = "create" THEN "new"
     ELSE IF ~coll[c].locked THEN IF prompts[jobs[j].prompt].kind = "change" THEN "new" ELSE "ok"
     ELSE "ask"

\* Slip: a second prompt() starts the jobs again.
MayPromptAgain(p) == ~prompts[p].dismissed

MayPrompt(p) == ~prompts[p].prompted

Prompt(p) ==
  LET js == [j \in DOMAIN jobs |-> IF jobs[j].prompt = p THEN [jobs[j] EXCEPT !.stage = Started(j)]
                                                        ELSE jobs[j]]
      asked == [prompts EXCEPT ![p].prompted = TRUE]
  IN /\ ~broken /\ MayPrompt(p)
     /\ IF \A j \in JobsOf(p, jobs) : jobs[j].coll = None \/ Live(jobs[j].coll)
        THEN /\ jobs' = js
             /\ prompts' = IF AllResults(p, js) THEN Tell(asked, p, FALSE, Succeeded(p, js)) ELSE asked
             /\ UNCHANGED <<boxes, backend, sessions, broken, lost, locks>>
        ELSE Break

Dismiss(p) ==
  /\ ~broken /\ MayPrompt(p)
  /\ prompts' = Tell([prompts EXCEPT ![p].prompted = TRUE, ![p].dismissed = TRUE], p, TRUE, {})
  /\ jobs' = [j \in DOMAIN jobs |-> IF jobs[j].prompt = p THEN [jobs[j] EXCEPT !.stage = "no"] ELSE jobs[j]]
  /\ UNCHANGED <<boxes, backend, sessions, broken, lost, locks>>

Kind(j) == prompts[jobs[j].prompt].kind
At(j, s) == ~broken /\ j \in DOMAIN jobs /\ jobs[j].stage = s

-----------------------------------------------------------------------------
\* KSecretCreateCollectionJob::newPasswordJobResult: the collection is written,
\* announced, locked again when the client wants it so; then the ACL dialog.
NewPassword(j, c) ==
  /\ At(j, "new") /\ Kind(j) = "create"
  /\ c \notin Found /\ coll[c].here = "none"
  /\ coll' = [coll EXCEPT ![c] = [NoColl EXCEPT !.here = "live", !.locked = prompts[jobs[j].prompt].locked]]
  /\ Announce({c})
  /\ jobs' = [jobs EXCEPT ![j].coll = c, ![j].stage = "acl"]
  /\ UNCHANGED <<watched, gone, listed, bus, sessions, prompts, boxes, broken, lost, locks>>

\* The dialog is cancelled, or the file cannot be written.
NoNewPassword(j) ==
  /\ At(j, "new")
  /\ Move(j, "failed")
  /\ UNCHANGED <<backend, sessions, broken, lost, locks>>

\* slotNewPasswordFinished keeps the old password; the job's result stays false.
NotChanged(j) ==
  /\ At(j, "new") /\ Kind(j) = "change"
  /\ Move(j, "no")
  /\ UNCHANGED <<backend, sessions, broken, lost, locks>>

\* tryUnlock: the items it gets from the file are new objects; itemChanged makes
\* the frontend list those it does not list yet.
Loaded(c, got) ==
  LET now == coll[c].items \cup got
  IN /\ coll' = [coll EXCEPT ![c].locked = FALSE, ![c].items = now, ![c].wired = {}, ![c].dead = {}]
     /\ listed' = [listed EXCEPT ![c] = @ \cup now]
     /\ bus' = [bus EXCEPT ![c] = [i \in Items |-> IF i \in now \ listed[c] THEN "good" ELSE @[i]]]
     /\ UNCHANGED <<watched, master, paths, gone>>

\* KSecretUnlockCollectionJob::askPasswordJobResult. Any password opens the
\* collection, and an open one takes any (someone else opened it while the dialog
\* was up). What is got is all that is on file, but nothing with a wrong password
\* and less than all when the end is missing; tryUnlock then goes through the
\* pointers it did not replace as well. Only when the file cannot be opened is the
\* password asked for again, which changes nothing here.
AskPassword(j, got) ==
  LET c == jobs[j].coll
      next == IF Kind(j) = "change" THEN "new" ELSE IF coll[c].knows THEN "ok" ELSE "acl"
  IN /\ At(j, "ask")
     /\ got \subseteq coll[c].file
     /\ IF ~Live(c) \/ (coll[c].locked /\ ~(coll[c].dead \subseteq got)) THEN Break
        ELSE /\ Move(j, next)
             /\ IF Open(c) THEN UNCHANGED backend ELSE Loaded(c, got)
             /\ UNCHANGED <<sessions, broken, lost, locks>>

NoPassword(j) ==
  /\ At(j, "ask")
  /\ Move(j, "failed")
  /\ UNCHANGED <<backend, sessions, broken, lost, locks>>

\* askAclPrefsJobResult of both jobs: the answer is stored when the collection
\* is open and the client's program is a file (exe). A create job's result makes
\* the manager watch the collection; when the answer is not stored, the job
\* emits its result, and after that once more.
AclAnswer(j, exe) ==
  LET c == jobs[j].coll
      stored == Open(c) /\ exe
      create == Kind(j) = "create"
  IN /\ At(j, "acl")
     /\ IF ~Live(c) THEN Break
        ELSE /\ coll' = [coll EXCEPT ![c].knows = @ \/ stored,
                                    ![c].file = IF stored THEN coll[c].items ELSE @]
             /\ watched' = IF create THEN watched \cup {c} ELSE watched
             /\ IF create /\ ~stored
                THEN /\ jobs' = [jobs EXCEPT ![j].stage = "box", ![j].refused = TRUE]
                     /\ boxes' = Append(boxes, j)
                     /\ UNCHANGED prompts
                ELSE Move(j, IF ~stored THEN "failed" ELSE IF Kind(j) = "change" THEN "new" ELSE "ok")
             /\ UNCHANGED <<master, paths, gone, listed, bus, sessions, broken, lost, locks>>

\* The unlock job's ACL dialog is cancelled: the collection stays open.
NoAcl(j) ==
  /\ At(j, "acl") /\ Kind(j) # "create"
  /\ Move(j, "failed")
  /\ UNCHANGED <<backend, sessions, broken, lost, locks>>

Innermost == Last(boxes)

\* The user closes the innermost box: the prompt completes without a result;
\* a create job then still has its second result to emit, with a second box.
CloseBox ==
  LET j == Innermost
      p == jobs[j].prompt
      again == jobs[j].refused /\ prompts[p].completed = <<>>
  IN /\ ~broken /\ boxes # <<>>
     /\ IF again /\ ~Live(jobs[j].coll) THEN Break
        ELSE /\ prompts' = Tell(prompts, p, FALSE, {})
             /\ jobs' = IF again THEN jobs ELSE [jobs EXCEPT ![j].stage = "failed"]
             /\ boxes' = IF again THEN boxes ELSE Front(boxes)
             /\ UNCHANGED <<backend, sessions, broken, lost, locks>>

-----------------------------------------------------------------------------
Shut(c) == prompts' = [p \in DOMAIN prompts |-> [prompts[p] EXCEPT !.shut = @ \cup {c}]]

\* KSecretCollection::lock deletes every item object, and neither m_items nor
\* m_lookupHashes nor the frontend forgets them.
Lock(c) ==
  /\ ~broken /\ c \in OnBus /\ locks < MaxLocks
  /\ IF ~Live(c) \/ (Open(c) /\ coll[c].dead # {}) THEN Break
     ELSE /\ Open(c) /\ locks' = locks + 1
          /\ coll' = [coll EXCEPT ![c].locked = TRUE, ![c].dead = coll[c].items, ![c].wired = {},
                                  ![c].rot = @ \/ coll[c].items # {}]
          /\ bus' = [bus EXCEPT ![c] = [i \in Items |-> IF @[i] = "none" THEN "none" ELSE "stale"]]
          /\ lost' = IF coll[c].items # {} THEN lost \cup {c} ELSE lost
          /\ Shut(c)
          /\ UNCHANGED <<watched, master, paths, gone, listed, sessions, jobs, boxes, broken>>

\* Collection::deleteCollection; a second call gets an error. Only the manager's
\* forwarding takes it from the master's and the service's list. Slip: the
\* paths of collections are never taken away.
UnlistedNever(c, known) == known

Unlisted(c, known) == IF c \in watched THEN known \ {c} ELSE known

DeleteCollection(c) ==
  /\ ~broken /\ c \in OnBus \ gone
  /\ IF coll[c].dead # {} THEN Break
     ELSE /\ gone' = gone \cup {c}
          /\ coll' = [coll EXCEPT ![c] = [NoColl EXCEPT !.here = "gone"]]
          /\ bus' = [bus EXCEPT ![c] = [i \in Items |-> IF @[i] = "none" THEN "none" ELSE "stale"]]
          /\ master' = Unlisted(c, master)
          /\ paths' = Unlisted(c, paths)
          /\ lost' = lost \cup {c}
          /\ Shut(c)
          /\ UNCHANGED <<watched, listed, sessions, jobs, boxes, broken, locks>>

\* Service::searchItems asks every collection of the master, Collection::searchItems its own.
Search ==
  /\ ~broken
  /\ \/ \E c \in master : ~Live(c) \/ (Open(c) /\ ~Sound(c))
     \/ \E c \in OnBus : ~Live(c)
  /\ Break

\* Collection::createItem: on a refusal (locked, or there and not to be
\* replaced) it still dereferences the job's item.
CreateItem(c, i, replace) ==
  /\ ~broken /\ c \in OnBus /\ sessions # {}
  /\ IF ~Sound(c) \/ (i \in coll[c].items /\ ~replace) THEN Break
     ELSE /\ i \notin coll[c].items /\ bus[c][i] = "none"
          /\ coll' = [coll EXCEPT ![c].items = @ \cup {i}, ![c].file = coll[c].items \cup {i},
                                  ![c].wired = @ \cup {i}]
          /\ listed' = [listed EXCEPT ![c] = @ \cup {i}]
          /\ bus' = [bus EXCEPT ![c][i] = "good"]
          /\ UNCHANGED <<watched, master, paths, gone, sessions, asking, broken, lost, locks>>

\* KSecretItem::deleteItem; the collection hears of it when the item is wired,
\* and the frontend from the collection. The Item object stays on the bus.
\* Slip: the frontend does not take it from its list.
HeardOf(c, i) == i \in coll[c].wired

ListDropsNone(c, i) == FALSE

ListDrops(c, i) == HeardOf(c, i)

DeleteItem(c, i) ==
  /\ ~broken /\ bus[c][i] # "none"
  /\ IF bus[c][i] = "stale" THEN Break
     ELSE /\ bus' = [bus EXCEPT ![c][i] = "stale"]
          /\ coll' = IF HeardOf(c, i)
                     THEN [coll EXCEPT ![c].items = @ \ {i}, ![c].file = coll[c].items \ {i},
                                       ![c].wired = @ \ {i}]
                     ELSE [coll EXCEPT ![c].dead = @ \cup {i}, ![c].rot = TRUE]
          /\ listed' = IF ListDrops(c, i) THEN [listed EXCEPT ![c] = @ \ {i}] ELSE listed
          /\ lost' = IF HeardOf(c, i) THEN lost ELSE lost \cup {c}
          /\ UNCHANGED <<watched, master, paths, gone, sessions, asking, broken, locks>>

\* Item::getSecret, label, attributes, ...: through m_item; a secret needs a
\* session, else the assertion stops the daemon.
UseItem(c, i, secret) ==
  /\ ~broken /\ bus[c][i] # "none"
  /\ bus[c][i] = "stale" \/ (secret /\ sessions = {})
  /\ Break

-----------------------------------------------------------------------------
Client ==
  \/ \E s \in Sessions : OpenSession(s) \/ CloseSession(s)
  \/ \E coldly \in BOOLEAN : CreateCollection(coldly)
  \/ \E closed \in SeqOf(Colls, 2) : Unlock(closed)
  \/ \E c \in Colls : ChangePassword(c) \/ Lock(c) \/ DeleteCollection(c)
  \/ \E p \in DOMAIN prompts : Prompt(p) \/ Dismiss(p)
  \/ Search
  \/ \E c \in Colls, i \in Items :
       \/ \E replace \in BOOLEAN : CreateItem(c, i, replace)
       \/ \E secret \in BOOLEAN : UseItem(c, i, secret)
       \/ DeleteItem(c, i)

\* The user answers the dialog of job j: at last with a password for a file that
\* can be opened, or by cancelling.
Answer(j) ==
  \/ \E c \in Colls : NewPassword(j, c)
  \/ NoNewPassword(j) \/ NotChanged(j)
  \/ (\E got \in SUBSET Items : AskPassword(j, got)) \/ NoPassword(j)
  \/ \E exe \in BOOLEAN : AclAnswer(j, exe)
  \/ NoAcl(j)

User == CloseBox \/ \E j \in DOMAIN jobs : Answer(j)

Next == Discover \/ Client \/ User

Spec == Init /\ [][Next]_vars

FairSpec == Spec /\ WF_vars(CloseBox) /\ \A j \in 1..MaxJobs : WF_vars(Answer(j))

-----------------------------------------------------------------------------
\* Type invariant; and a box is open for exactly the jobs that wait in one.
TypeOK ==
  /\ \A c \in Colls : /\ coll[c].here \in {"none", "live", "gone"}
                       /\ coll[c].wired \cup coll[c].dead \subseteq coll[c].items
                       /\ coll[c].items \cup coll[c].file \cup listed[c] \subseteq Items
                       /\ bus[c] \in [Items -> {"none", "good", "stale"}]
  /\ watched \cup master \cup paths \cup gone \cup lost \subseteq Colls /\ sessions \subseteq Sessions
  /\ \A p \in DOMAIN prompts : prompts[p].kind \in Kinds
  /\ \A j \in DOMAIN jobs : jobs[j].prompt \in DOMAIN prompts /\ jobs[j].stage \in Stages
  /\ ToSet(boxes) = {j \in DOMAIN jobs : jobs[j].stage = "box"} /\ IsInjective(boxes)

\* A prompt completes once, however often prompt() and dismiss() are called
\* (prompt.cpp m_prompted) and whatever becomes of its jobs; only a create job
\* that could not store the ACL answer makes it complete again. This and the
\* next one are proved in SecretServiceProofs; the run checks
\* PromptsKeepWord, which says the same and more as the clients see it.
CompletesOnce ==
  \A p \in DOMAIN prompts :
    Len(prompts[p].completed) <= 1 \/ \E j \in JobsOf(p, jobs) : jobs[j].refused

\* When a client hears that its prompt is over, no dialog of that prompt is
\* left on the screen (ServiceMultiPrompt waits for m_jobs to be empty).
NothingLeftBehind ==
  \A p \in DOMAIN prompts : prompts[p].completed # <<>> =>
    \A j \in JobsOf(p, jobs) : jobs[j].stage \in Final \/ jobs[j].refused

\* A job of the prompt was started and has yet to give its last result.
Unanswered(p) == \E j \in JobsOf(p, jobs) : jobs[j].stage \notin Final \cup {"idle"}

\* What the clients see of the prompts.
Seen(p) ==
  [about   |-> {jobs[j].coll : j \in JobsOf(p, jobs)} \ {None},
   creates |-> prompts[p].kind = "create",
   state   |-> IF ~prompts[p].prompted THEN "made" ELSE IF Unanswered(p) THEN "waits" ELSE "over",
   told    |-> prompts[p].completed]

Board == [p \in DOMAIN prompts |-> Seen(p)]

Promise == INSTANCE PromptPromise WITH
  Names <- 1..MaxPrompts, Subjects <- Colls, promises <- Board

\* Every prompt keeps PromptPromise, whatever its jobs, their dialogs and boxes,
\* other prompts and other calls do meanwhile (prompt.cpp: SingleJobPrompt and
\* ServiceMultiPrompt together).
PromptsKeepWord == Promise!Spec

\* A collection a prompt reported as unlocked, or as created, is open - unless
\* a client locked or deleted it since that prompt was made.
ReportedIsOpen ==
  \A p \in DOMAIN prompts : \A k \in DOMAIN prompts[p].completed :
    \A c \in prompts[p].completed[k].paths : Open(c) \/ c \in prompts[p].shut

\* Master and service list the same collections: every live one, and no
\* deleted one that was created in this session - unless it was deleted before
\* its creator had answered the ACL dialog.
ListsAreLive ==
  /\ master = paths
  /\ \A c \in Colls : Live(c) => c \in paths
  /\ \A c \in paths : \/ Live(c) \/ c \in Found
                      \/ \E j \in DOMAIN jobs : jobs[j].coll = c /\ jobs[j].stage = "acl"

\* The frontend's items are the backend's: an open collection lists exactly
\* the items it holds, each with a sound object - until it is locked with
\* items, or loses an item that was loaded from its file.
ItemsAgree ==
  \A c \in Colls \ lost : Open(c) =>
    /\ listed[c] = coll[c].items
    /\ \A i \in listed[c] : bus[c][i] = "good"

\* A prompt that was prompted completes when the user answers each dialog.
PromptsComplete ==
  \A p \in 1..MaxPrompts :
    (p \in DOMAIN prompts /\ prompts[p].prompted) ~> (broken \/ (p \in DOMAIN prompts /\ prompts[p].completed # <<>>))

\* "Emitted when an existing collection was deleted or disappeared."
\* (frontend/secret/service.h): a deleted collection leaves the list.
DeletedIsUnlisted == \A c \in paths : Live(c)
=============================================================================
