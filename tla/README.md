# Verification of ksecrets

TLA+ models of KDE's secret storage, TLC runs that check them, and TLAPS proofs
about them. `PROJECT.json` maps every definition to the lines it stands for and
lists runs, findings, hazards and theorems.

`lib/` below means `src/src/runtime/ksecrets_store/`, `daemon/` means
`src/src/runtime/ksecretsserviced/`.

## 1. The system

ksecrets is two programs in one repository. The new one, `ksecrets_store`, is a
library that every client process links: the processes share nothing but one
encrypted file, its backup, and two keys in the kernel keyring. The old one,
`ksecretsserviced`, is a daemon that owns one file per collection and serves
clients over D-Bus. (CMake no longer descends into the daemon, the importer and
`secretsync`; they are modelled as their source stands.)

| component | state | operations | talks to |
|---|---|---|---|
| **secrets file and store**, `lib/ksecrets_file.cpp`, `ksecrets_store.cpp` | the file, its `.bkp`, a temporary file; per process a descriptor with a flock, the header, the entities in memory, `status_` | `setup`, `createCollection`, `save`, end of the store or the process | other processes through files and flock; keys; crypt buffer |
| **entities and crypt buffer**, `ksecrets_data.cpp`, `crypt_buffer.cpp` | a byte buffer per entity, reused by every write | serialize, encrypt, decrypt | the file; one static cipher per process |
| **keys, credentials, PAM**, `crypting_engine.cpp`, `pam_credentials.cpp`, `pam_ksecrets/` | two keys in the session keyring; per process the key names, flags and a cipher handle; per store a MAC object | `setCredentials`, `kss_set_credentials`, `kss_delete_credentials`, reading keys | every process of the session |
| **client API**, `src/src/api` | none: each call runs an empty function | | |
| **daemon collections**, `daemon/backend/ksecret` | per collection: items, lookup hashes, permissions, a key, locked and dirty flags, a sync timer, the `.ksecret` file | create, unlock, lock, delete, items, search, sync | jobs; Qt files and timers |
| **daemon jobs**, `ksecretjobs.cpp`, `backend/*.cpp` | one state machine per client request | dialogs, then operations on the collection | collections, user interface |
| **temporary collections**, `daemon/backend/temporary` | the same in memory only | | |
| **daemon frontend**, `daemon/frontend/secret` | sessions, prompts, objects on the bus | the Secret Service API | jobs, D-Bus |
| **daemon user interface**, `daemon/ui` | one object per open dialog | ask a password, a new one, a permission | jobs, the user |
| **importer**, `kwl2kss` | per wallet: status, lists of folders and entries, flags; the list of sub-jobs | import, suspend, resume, kill | KWallet, client API, the job tracker |
| **wallet class**, `kwl2kss/kwalletbackend` | entries, digests of their names, a key, the file | open, sync, close, folders, entries | the importer; a file |
| **secretsync** | a backlog of connections, one job, two protocol phases | connect, exchange, time out, sync timer | peers |
| **tools**, `kio`, `ksecrets`, `ksecrets-crypt` | none of their own | | client API |

What is hard about it:

* **Interleaving of processes.** `save()` is open, write, close (which drops the
  flock), rename, rename, open, flock. Between any two of these another process
  does one of its own.
* **Crashes and failures in the middle** of that sequence, and of the two
  `add_key` calls with which a key pair is stored.
* **Stale state.** A store saves the entities it loaded at setup. A MAC object
  keeps a key the keyring no longer has. A process that stores keys and one that
  finds them do different things with the cipher.
* **Call order.** `setCredentials` before `setup` derives with another salt than
  after it.
* **Interleaving of jobs.** The daemon has one thread, but a job returns to the
  event loop at each dialog, and then other jobs lock or delete its collection.
* **Dangling pointers.** Locking frees the items and keeps the pointers; objects
  on the bus outlive what they stand for.
* **Nested event loops.** A message box of one prompt, and the password dialog of
  one wallet's import, let everything else go on, and what follows them waits for
  the inner ones.
* **Chains of posted slots.** An import is a slot that posts the next; suspend,
  resume, kill and answers of the service come in between.
* **Two records of one thing.** A wallet keeps entries and the digests of their
  names, the frontend the lists of what the backend has.
* **Retries.** A sync that fails is repeated until it succeeds or the collection
  goes away.

## 2. Modules

| module | models | role |
|---|---|---|
| `SecretsFile` | `ksecrets_file.cpp`, the calls of `ksecrets_store.cpp` | detailed: one step per system call |
| `Catalogue` | what the file promises: a list that grows by whole collections | abstract; `SecretsFile` implements it |
| `StoreKeys` | `crypting_engine.cpp`, `pam_credentials.cpp`, `setCredentials` | the keys; files are one step |
| `KSecretCollection` | `ksecretcollection.cpp`, `ksecretitem.cpp`, `ksecretstream.cpp` | one collection and its file |
| `CollectionJobs` | `ksecretjobs.cpp`, `backendjob.cpp`, the start of the manager | EXTENDS it with the jobs of several clients |
| `SecretService` | `daemon/frontend/secret`, `backendmaster.cpp`, `ksecretcollectionmanager.cpp`, the jobs again as prompts see them | several collections and prompts; contents are left to `KSecretCollection` |
| `PromptPromise` | what a prompt promises its client: when it answers, how often, and about what | abstract; `SecretService` implements it |
| `WalletImport` | `importsinglewalletjob.cpp`, `kwlimporterjob.cpp`, `main.cpp` of `kwl2kss` | several wallets, calls to the service answered in any order |
| `KWalletFile` | `kwalletbackend.cc`, `kwalletentry.cc` | one wallet and its file |
| `SyncServer` | `syncdaemon.cpp`, `syncserverjob.cpp`, `syncprotocol.cpp` | the server and its clients, requests in pieces |
| `ConnectionQueue` | what the server promises: clients are served in turn, each once | abstract; `SyncServer` implements it |
| `TemporaryCollection` | `daemon/backend/temporary` | one collection and the view its signals give |
| `SecretDevice` | `ksecretdevice.h`, `ksecretstream.cpp`, the end of `serialize()` | one save and one load, chunk by chunk |
| `Parts` | | composes the importer, `KWalletFile`, `SyncServer`, `TemporaryCollection` and `SecretDevice`, which do not interact |
| `MC…` | | values, symmetry sets and state views for TLC |
| `SecretsFileProofs`, `StoreKeysProofs`, `CollectionJobsProofs`, `SecretServiceProofs`, `WalletImportProofs`, `KWalletFileProofs`, `SyncServerProofs` | | theorems about the module each is named for |
| `PartsProofs` | | theorems about `SecretDevice`, `TemporaryCollection` and `Parts` |

### SecretsFile

A process (`Stores`) has at most one store object. `pc` is its next system call:

    setup:  SetupStat  Unlink  Creat  WriteNewHeader  WriteNewRest
            Open  Lock  Read
    save:   WriteTemp  CloseRead  Backup  Install  Open  Lock  Read

`stage` tells which caller of `openAndCheck` is running: `setup`, the save of the
collection directory, or the save of the collection. An inode has contents of
one of four kinds: `empty`, `torn` (stops within the header), `headed` (fails a
later check) or `sealed` (header and MAC are in order). `data[i].ents` is the set
of entities in it, `data[i].dir` what its directory entity lists, `data[i].bad` the
entities whose bytes do not read back; a sealed file with a bad directory may be
refused or come back empty (`ReadOutcomes`), and `Listing` is what a client can
read of it. Writing a temporary file is one step because nobody else
sees the file before the rename; `Unlink`/`Creat`/two writes are four because
they happen under the public name.

Constants say what is not decided by the code: `Faults` (crash, write, rename,
lock failures), `InitialFile`, whether the library has its assertions
(`AssertsOn`), whether libgcrypt refuses a handle without a key
(`CipherChecksKey`), and whether clients look at the result of `setup`
(`ChecksSetup`; `createCollection` itself does not). `acked` is a history
variable. The runs have `AssertsOn` and `ChecksSetup` TRUE and `CipherChecksKey`
FALSE; the theorems hold for every value.

`Image` and `ReadOutcomes` keep what the crypt buffer does to the entities: an
entity object that is written a second time appends to its old buffer and does
not read back. So does a save that failed: the buffers it wrote are worn, and so
is what a file with bad entities gives when it is loaded. A second
`createCollection` of a store object therefore writes a directory that nobody can
read: `CopyKept` names this as an exception, and `AckedListed` is checked with
`MaxCreates = 1`.

### StoreKeys

Key pairs are `[password, salt]`, so that two keys differ exactly when
`kss_derive_keys` was given something different. `keyring` holds two of them
because the two `add_key` calls are two steps. `named`, `creds`, `cipher` are
the process-wide statics, `macKey` is the key a MAC object took on first use,
`iv` whether the process has its IV, `fd`/`flock`/`leaked` the descriptors,
including those that a second `setup` forgets, and `locked` is `locked_`, with
which `save()` opens its new file. `SetupFirst`, `Rekey`, `AddKeyFails` and
`Deletes` open up call orders and faults one by one.

`Save` does not ask for a status, because `createCollection` and `saveData` do not:
a store whose setup failed behind the header has the file's salt, and what it saves
gets a MAC with whatever key it has. `ChecksSetup` says whether clients save only
with a store that was set up. The histories `accepted` (the last setup of the
process succeeded) and `blind` (a store that was refused has saved) are what the
properties say it with.

### KSecretCollection and CollectionJobs

`mem` is `m_items`: an item, nothing, or a pointer to a deleted item (`Freed`).
`wired` is the set of items whose signals are connected to the collection; only
`createItem` connects them, `tryUnlock` does not. `hash` is what
`m_lookupHashes` leads to and `stale` whether it also holds pointers to deleted
items. `key` is the password from which the filter's key was made: it is set
before `tryUnlock` looks at the file. A save is not whole: `serialize()` commits the
file without closing the encrypting device, which loses its last part-chunk. `Tails`
is what that may cut into - at most `TailItems` items, and permissions only when
nothing whole comes behind them - and an item cut off comes back as nothing or as
`Garbage`. Where exactly the cut falls is the subject of `SecretDevice`. Reading a deleted item yields `Garbage`, a
match in a search, or the end of the process (`Restart`, possible at any time).

A job is where its client waits: `newPassword`, `newAcl`, `password`, `acl`. The
dialog results are the inputs. `DeleteJob` turns jobs that still point to the
collection into orphans, which can only fail or end the daemon.

### SecretService

`coll[c]` is what matters about a backend collection to those who hold pointers
to it: whether it lives, is locked, which items it has, which are in its file, which
of them are wired, and which pointers in `m_items` (`dead`) and in `m_lookupHashes` (`rot`) dangle.
`master`, `paths`, `listed` and `bus` are the lists that must follow it:
`BackendMaster::m_collections`, `Service::m_collections`, `Collection::m_itemPaths`
and the `Item` objects. `watched` are the collections whose `collectionDeleted`
reaches the master: those created in this session, after their job's result.

Any password opens a collection, as in the code; what is got with it is some of
the items on file (`AskPassword(j, got)`). `jobs[j].stage` is the dialog a job has open, or `box` for its message box;
`boxes` is the stack of these. A call that reaches a deleted object ends the
behaviour (`broken`): from there on the code has no defined meaning. Histories
(`shut`, `refused`, `lost`) say what the exceptions in the properties refer to.

`Board` is what clients see of the prompts, and the mapping to `PromptPromise`:
a prompt is about the collections of its jobs, it waits while one of these was
started and has yet to give its last result, and it told what it completed with.

### WalletImport and KWalletFile

A step of `WalletImport` delivers the oldest posted slot, an answer of the
service, the answer to a dialog, or a click. `dialogs` is the stack of nested
loops inside `run()`. `job[w]` has the flags and lists of one sub-job, `parent`
what `KCompositeJob` and `KJob` keep for the importer. `raced` is the set of
wallets resumed while a step of theirs was under way: these get a second chain
over the same lists, and the properties say what still holds of the others. What
is posted to a job that has been deleted is dropped when its turn comes (`Drop`);
Qt drops it at the deletion, and nobody looks at the queue in between.

`KWalletFile` keeps `entries` and `hashes` apart as the code does, and the
password as the blocks that `password2hash` digests; ciphers and digests are
taken as perfect. Folders have no digests when they are made while the wallet is
closed, which the code allows, or by writing an entry into a folder that is not
there; `made` is the history of these. A file of kind `damaged` is refused after
some of its digests have been read, so that `RefuseFile` may leave others than
there were.

### SyncServer, TemporaryCollection, SecretDevice, Parts

A request travels in one or two pieces, because `readLine` reads what is there.
`build` says whether assertions are compiled in: the error state has no phase, and
`changeState` asserts one. The backlog and the one job are together a
`ConnectionQueue`; a client whose connection was closed has been served. `view` in
`TemporaryCollection` is what a listener knows that follows the signals. An item
that was deleted lives until the event loop destroys it (`doomed`), its pointer and
its signals work until then, and `SetItem` and `DeleteItem` reach it; `revived` is
the history of those that were changed in that time. In
`SecretDevice` a field is a number of units, each marked with its field and place,
so that a unit that comes back in the wrong place is seen; `Close` is there
because the class offers it, and `Commit` goes on without it, as `serialize()`
does.

In `Parts` a step is a step of one of the five. `running` is the set of those that
move in a behaviour, one of `Groups`.

## 3. Runs

| run | what it asks | states |
|---|---|---|
| `SecretsFile_solo` | one writer, every fault, a file with a collection, two creations per store: does memory cover the open file, and does a readable copy of all that was reported stay at the path or at `.bkp`? | 2.0 million |
| `SecretsFile_live` | two writers that may crash, and a missing file: is the flock exclusive, are directory and entities always together, does every call return? | 60 thousand |
| `SecretsFile_readers` | one writer with failing writes, one reader: acknowledged collections stay listed, the backup is never ahead, the reader sees whole files, and all of it refines `Catalogue` | 2 thousand |
| `SecretsFile_doc_lost`, `_doc_crash` | promises of the documentation; see Findings | violation |
| `StoreKeys_session` | the calls in the order that works, PAM, and key deletion: does the same password always open the file? | 316 thousand |
| `StoreKeys_rekey` | any call order, saves of refused stores among them: one lock per file, and a file keeps its salt, and its MAC key unless such a store saves | 1.4 million |
| `StoreKeys_doc_salt` | the documented order; see Findings | violation |
| `CollectionJobs_clients` | two clients and their jobs on one collection, whose saves lose their end | 245 thousand |
| `CollectionJobs_doc_password` | a comment; see Findings | violation |
| `SecretService_clients` | two prompts, a collection found at start and one that may be created, an item, and every call on them: do prompts keep `PromptPromise` and tell the truth, do the lists agree? | 506 thousand |
| `Parts_each` | the five small parts: is an import complete, does it end, does a wallet open as saved, is everyone served and in turn, what does a listener know, what of a save reads back? | 539 thousand |

**What the properties say.**

* `LockExclusive`: a flock has one holder, with an open descriptor, who is not
  waiting for another one.
* `CatalogueCoherent`: no directory, in a file or in memory, names a collection
  whose entity is not beside it.
* `CopyKept`: with one process, crashes and failures anywhere leave a file, at the
  path or at `.bkp`, that lists readably what was there and all that was reported.
  Two things may end that, and the property names them: the rename by which a file
  that `setup` created beside the backup becomes the backup itself (`Recreated`, see
  `SecretsFile_doc_crash`), and a file with a buffer that was written twice
  (`Unreadable`). With one creation per store object the second does not come up,
  which is what the theorem adds.
* `FileWithinMemory`: a store that is open holds every entity of the file it has
  open, so that its save drops none of these. What others installed since is
  another matter.
* `BackupIsOlder`, `AckedListed`: when only writes fail and a store object creates
  one collection, the file has what its backup has, and lists what was reported.
* `ReadersSeeWholeFiles`, `ImplementsCatalogue`: a reader takes its snapshot at
  one moment, and `save()` commits at one moment (the second rename).
* `CallsReturn`: nobody waits for a flock for ever.
* `SamePasswordOpens`, `EntitiesReadable`: what one process wrote another one with
  the same password accepts and decrypts.
* `KeyStays`, `OneLockPerFile`: whatever order, a file keeps the salt it was created
  with, and its MAC key until a store that was refused saves (`blind`); forgotten
  descriptors never make two locks on one inode.
* `DirtyIsPending`, `ChangesDrain`: unsaved changes have a running timer and an
  open collection, and do not stay for ever.
* `SavedUnlessDirty`: a clean open collection has in its file what clients created
  since it was opened, all but the end of the stream: `TailItems` items at most, and
  the permissions unless no whole item follows them.
* `LockKeepsChanges`: who is told that a collection is locked finds as much in the
  file; and nothing but a deletion touches the file of a locked collection.
* `SearchFindsLive`: an item that can be reached is found by its attributes.
* `UnlockReported`: a successful unlock is true at the moment it is reported.
* `PromptsKeepWord`, `PromptsComplete`: a prompt is shown or dismissed, completes
  once, with no dialog of its own left and naming nothing it was not made for, and
  does complete when the user answers. A create job that is refused makes its
  prompt say so twice (Findings); the abstract prompt admits that and no more.
* `ReportedIsOpen`: what a prompt reports as unlocked or created is open, unless a
  client closed it since the prompt was made.
* `ListsAreLive`, `ItemsAgree`: master, service and bus know the collections and
  items that exist; the exceptions are the ones the code has (Findings).
* `CopiesTheWallet`: an import that reports success has copied every entry, and
  none under another folder, also when a launch before it failed half way.
* `QuitsWhenDone`, `ImportEndsInTime`, `KilledIsQuiet`:
  the importer quits after the last answer or the first failure; every launch ends
  unless a click left a sub-job stopped; and a killed job makes no further call,
  whether the importer goes on or quits because all were killed.
* `NeverDeniesAnEntry`: an open wallet denies an entry it has only when the whole
  folder has no digest, and then the folder was made by writing into it or while the
  wallet was closed - where the code does deny entries (Findings).
* `OpensAsSaved`: a wallet opens with its password only and as it was saved.
* `SidesAgree`, `ServesInOrder`, `EveryoneIsServed`: a client past its greeting has
  the server's version and a server that is past it too, clients are served in turn and once, and a silent one does not keep the
  next from being served.
* `ViewIsContents`: a listener knows what the collection holds and, besides, exactly
  the deleted items that were changed before they were destroyed.
* `OnlyTheEndIsLost`: whatever the sizes of fields, a save reads back except for
  less than a chunk at the end.

**Bounds.** Two processes are enough for every pairwise race over one file; a
third would only queue at the flock. `Inodes` has four numbers for one process
and six for two: path, backup, and per process an open and a temporary file, so
that allocation never fails. One or two names can be created per object: the
first save and a later one differ, a third repeats the second. `MaxFiles` is the
number of times the file is created or replaced: two or three give a file under
an old and a new salt. Two items and two attribute maps let
one item be changed, deleted or sought beside another. One secret is enough for
that, since every value is an attribute map and a secret and the maps differ; the
theorems of section 5 hold for any number. Two passwords are the right and the
wrong one; two clients give every pair of jobs.

In `SecretService_clients` one prompt may open both collections while the other
creates, opens or changes one; three jobs (`MaxJobs`) make every pair of stages
meet. One `Lock` (`MaxLocks`) per behaviour: a second one meets the dangling
pointers of the first, where a behaviour ends. A save cuts into one item
(`TailItems`), which beside a whole one is every case; the theorems hold for any
number. `Parts_each` has three wallets - an open
one with two folders and an empty one, one with a password, and a stub of less
than 60 bytes - which are in the list before and behind one another, and either clicks, one pause
(`MaxPauses`) and one kill (`MaxKills`), or a second launch after the first ended
or crashed (`MaxLaunches`); passwords of five blocks, because the
fifth is where `password2hash` changes its method; two sync clients of two
versions; three ids of temporary items, one of them matched by a search for
another; and five fields (`MaxFields`) of one, two or four units against a chunk
of three, so that fields end before, at and behind the end of a chunk. One part
moves in a behaviour (`MCGroups`), and those that do not start in one way only
(`Resting`): they have no state in common, and by `PartsAlone` what holds of each
holds of all together.

**Symmetry** permutes processes, unseeded names, clients and passwords that no
constant singles out; no liveness run uses it. **Views**: `FileState` replaces
inode numbers by what they stand for (contents and who refers to them), which is
all the actions compare. `CallState` in addition drops `bkp` and `acked`, which
no action reads while free inodes remain. `JobState` drops `result`, which no
action reads.

**Seeded files.** A file that exists at the start is one that a store has left
behind: with the names in `Seeded` after as many creations, with an empty list
after a first `createCollection` that ended between the save of the directory
and that of the collection.

**Fairness.** `SystemCall` is weakly fair: a process that is in a call goes on
with it. `Lock` is strongly fair: Linux wakes the waiters of a flock in their
order. `Destroy` is weakly fair because `ksecrets_store.h` asks clients to keep
the store "locked as briefly as possible": one that never lets go blocks the
others, and the code has no timeout against it. In `CollectionJobs`, `Sync` is
weakly fair: a running single-shot timer fires, and a disk does not refuse every
write from some moment on. Dialogs and jobs are not fair there: users may leave a
dialog open. In `SecretService`, `CloseBox` and `Answer(j)` are weakly fair: the
property is about a user who answers every dialog, at last with a password for a
file that can be opened, or by cancelling. In `WalletImport` the event loop
delivers what is posted, the service answers each wallet's calls, the user answers
the open dialog, and `exec()` returns after `quit()`; clicks are not fair. In `SyncServer`
the event loop accepts connections, and the job's loop reads or times out
(`SERVER_READ_TIMEOUT`); clients are not fair.

## 4. Findings

* **`SecretsFile_doc_lost`.** `save()` closes `readFile_` and with it drops the
  flock. A second writer that has opened the file by then locks the one that is
  about to become the backup, loads that, and later replaces the first one's file
  by its own memory. A collection that was reported as created is gone. In this run
  every store is set up to write, and so takes the lock (`LockingSpec`).
* **`SecretsFile_doc_crash`.** After a crash between the renames, `setup` does not
  look for `.bkp` but creates an empty file, and the first save renames that over
  the backup.
* **`StoreKeys_doc_salt`.** `setup` before `setCredentials`, the order the
  documentation prescribes, derives keys with the salt of the file, while the
  creator of the file derived with zeros.
* **`CollectionJobs_doc_password`.** A daemon that has just started (`RestartedSpec`)
  opens a collection it found with any password. It appears empty, and the next sync
  writes that over the file, encrypted with the wrong password.

Five more expectations of comments and tests that the code does not meet have a
configuration to run by hand; TLC finds each violated:

* `SecretsFile_doc_truncate.cfg` (module `MCSecretsFile`, `LockedFileIntact`):
  `creat()` after a failed `stat()` empties the file that another process has
  created and locked meanwhile (`ksecrets_file.cpp:69`; `ksecrets_store.h:64`).
* `WalletImport_doc_once.cfg` (`MCParts`, `ImportedOnce`): nothing writes the item
  that marks a collection as imported, so that each launch imports every wallet
  again (`importsinglewalletjob.cpp:82-86`).
* `SecretService_doc_deleted.cfg` (`MCSecretService`, `DeletedIsUnlisted`): a
  collection found at start stays in the list after its deletion
  (`service.h:140`, `ksecretcollectionmanager.cpp:65-88`).
* `CollectionJobs_doc_saved.cfg` (`MCCollectionJobs`, `SavedWhole`): `serialize()`
  calls `commit()` of a device that nobody closes, and only its `close()` writes the
  last part-chunk (`ksecretdevice.h:143-186`). The end of every save, less than one
  chunk, is not in the file, although `m_dirty` is cleared and "the collection was
  correctly serialized" (`ksecretcollection.cpp:616`, `623`).
* `Parts_doc_lists.cfg` (`MCParts`, `RequestsAreHandled`):
  `connectToSecretService()` returns false, so that every `LIST ITEMS` is answered
  501 and the server hangs up (`syncprotocol.cpp:205`). Two tests of secretsync,
  `tests/protocoltest.cpp:49-63` and `tests/socketconnectiontest.cpp:88-115`, expect
  every request to be handled until `client->isDone()`.

Further behaviour that the models contain and that a maintainer should know of:

* a second `createCollection` in the life of a store writes an unreadable entity;
* a store whose setup failed can still save: with the salt read, it replaces the
  file by one with another MAC key (`ksecrets_store.cpp:207-238`);
* `readOnly_` is not looked at after `setup`, and even a read-only `setup`
  deletes a file of zero bytes and creates it again;
* `save()` leaves `writeFile_` open when its MAC fails, and the next `save()`
  asserts that it is closed;
* when the save of the collection directory fails, an assertion ends the process;
* the names of the keys are statics, so that every process must set credentials
  once although the keyring already has the keys;
* a second `setup` of a store waits for the lock it has itself leaked;
* `kss_set_credentials` opens the store before it has the keys for it;
* with `SetupFirst` and `AddKeyFails`, `EntitiesReadable` does not hold: the keyring
  then pairs the encrypting key of one call with the MAC key of another;
* an application whose permission is *deny* is told that the collection is
  unlocked, since permissions are read only while it is open and then any entry
  counts as "known";
* unlocked items (those loaded from a file) do not mark the collection dirty when
  they are changed or deleted;
* two unlock jobs at a time can change the key with which an open collection is
  saved;
* a collection in memory keeps the signals of an item it has deleted until the event
  loop destroys that: changed in between, it comes back to the frontend's list and
  stays there (`temporarycollection.cpp:167`, `179-183`; frontend
  `collection.cpp:265-273`);
* an entry written into a folder without digests is denied until the wallet was
  saved and opened again (`kwalletbackend.cc:797-815`, `885-895`), and a damaged
  file leaves the digests half replaced (`384-408`);
* a refused `createItem` still dereferences the job's item, and so does `search`
  the items of a collection that was locked before;
* a create job that cannot store the permission emits its result twice, and its
  prompt completes twice;
* a cancelled dialog is reported as an error with `dismissed` false;
* `changePassword` asks for a new password and keeps the old one;
* resuming an import while one of its steps is under way makes two chains over
  the same lists: entries are skipped or filed in the wrong folder, and the job
  may report twice;
* kill, suspend and resume stop at the first sub-job that refuses; the earlier
  ones stay stopped, and the importer waits for them for ever;
* a click that reaches a sub-job already deleted, or a quit while a password
  dialog is open, uses freed objects;
* in a debug build one malformed request stops the sync server; in any build no
  exchange gets past its greeting, because `connectToSecretService` returns false.

## 5. Proofs

Proved with TLAPS, for all values of the constants that satisfy the named
assumptions. `ConstantsAssumption`, `KeysAssumption`, `CollectionAssumption`,
`ServiceAssumption` and `SyncAssumption` say that the special values are not
members of the sets they are added to and that bounds are numbers;
`KWalletAssumption` that passwords are sequences of numbers and blocks not empty;
`TemporaryAssumption` that a search for attributes finds the items with exactly
these; `DeviceAssumption` that no field of a stream is empty; `ImportAssumption`
that no wallet is listed twice and no file has two folders of a name, which a
directory and a `QMap` give, and that the importer may be launched at all;
`PartsAssumption` is these for the parts. `PROJECT.json` lists each theorem.

**SecretsFile** (`SecretsFileProofs`): `Spec => []TypeOK`, `[]LockExclusive`,
`[]CatalogueCoherent`, for any number of processes, inodes and names and any set
of faults. None of the three is inductive. `IInv` adds:

* `DescriptorOpen`: who is about to lock or read has a descriptor. Without it a
  lock on `NoInode` would break the typing of `Read`.
* `SavingSomething`: within a save there is a name and the directory entity
  exists. Without it the end of a save could acknowledge nothing, and a new
  directory entry could come without the directory.
* `LockHeldAt`: the steps at which a flock can be held. It excludes the two
  renames and the reopening, where `readFile` changes: that is why dropping the
  flock *before* the renames keeps locks exclusive, though it loses updates.

The proof has one lemma per group of actions and conjunct. The temporal step is
the same everywhere: `Init => IInv`, `IInv /\ [Next]_vars => IInv'`, PTL.

The other properties of the file hold in regimes, which are hypotheses of their
theorems: a second writer or a crash between the renames breaks them (section 4).

* `OneWriter` (at most one process creates collections; any number read; any
  fault): `[]FileWithinMemory`. Only the writer's own save can change the file it
  has open, and `Phase` says where in `setup` or `save` a step of either is, so
  that what `Read` finds is what the writer has just written (`Covers`).
* `Alone` (one process, a file that lists something, a client that looks at the
  result of `setup`, one `createCollection` for a store object; any fault):
  `CopyKept`. `ListAtPath` says where the list is - while `setup` recreates a file,
  at the backup - `Carries` that a good store that has saved nothing yet has it in
  memory with buffers that were never written, and what is written then is a list
  that reads back; `Sited` which files the steps of a call are about.
* `Quiet` (one writer and any number of readers, a file that lists something,
  and only writes fail): `[]BackupIsOlder`, `[]ReadersSeeWholeFiles`,
  `[]AckedListed`. Here one `createCollection` for a store object is a hypothesis
  too, since a second one writes a worn buffer (section 4). `QInv` says what the
  current file - the path, or the backup between the renames - has to do with the
  writer's memory at each `pc`, and that every file a reader can have open is whole.

In the regime `Quiet` TLAPS also proves the refinement: `Spec => ImplementsCatalogue`
(`SaveIsAtomic`). The mapping reads the list from `Current` and a reader's view
from its memory, or, while it is about to read, from the file it has opened. The
second rename, `Install`, is the commit; opening the file is where a reader takes
its snapshot; every other system call is a stutter, because only a temporary file,
which no other process has open, is ever written (`QuietData`).

**StoreKeys** (`StoreKeysProofs`): `[]TypeOK`, `[]OneLockPerFile` and `KeyStays` for
any order of calls. `IInv` adds:

* `InodeInv`: no descriptor, forgotten ones included, is of a younger file than
  the one at the path. Without it the lock that `save()` takes over to its new
  file could meet one that somebody holds already.
* `CallInv`: what a step of `setup()` saw holds at its next one, and no store is in
  good state in between.
* `KeyInv`: every open descriptor of a real file has the salt of the one at the path,
  and its MAC key until a store that was refused has saved; behind the lock the
  store has that salt in memory, and one that was accepted has the key, too. It is
  why replacing a file keeps the salt, and an accepted store the key.

For two properties the order of calls is an assumption of the theorem.
`[]EntitiesReadable` holds under `ClientsFirst` (credentials before `setup()`, PAM in
processes of its own, and clients that look at the result of `setup()`): then no process ever gives a key to its cipher
(`ReadyInv`). `[]SamePasswordOpens` needs `OnePassword` too: one password, and no
change of credentials with the file open, so that every key is of `FirstKeys`.
The proof uses neither that `add_key` succeeds nor that keys are never deleted.

**CollectionJobs** (`CollectionJobsProofs`): `[]TypeOK`, `[]DirtyIsPending`,
`[]SavedUnlessDirty`, `[]SearchFindsLive` and the action properties
`UnlockReported` and `LockKeepsChanges`. `IInv` adds:

* `WiredItemsLive`: only items held by an open collection send it signals. Hence
  unlocking finds nothing wired, `SavedUnlessDirty` holds trivially just after it,
  and serializing never writes a wired item as garbage.
* `NothingWithoutObject`: a new collection starts empty, without permissions.
* `DialogsHaveCollection`: a dialog that closes finds its collection. It makes
  the steps after a dialog (`Password`, `Permission`, `NewPermission`) happen
  with `alive`, without which `DirtyIsPending` and `UnlockReported` would fail.

Each operation of the collection keeps `CollInv`; each job adds
`DialogsHaveCollection`. `UnlockReported` follows from `IInv` and a case split
over who can end a waiting job with "true": only `Password` and `Permission` of
that client. In `LockKeepsChanges`, only a lock job locks and says so
(`OnlyLockLocks`), and it saves first when there is something to save; if there was not,
`SavedUnlessDirty` of the state before says so much of the file already. Both speak
of all but the end of a save, `AllButTheEnd`, which is what `Serialized` leaves.
A locked collection is clean, so that no timer writes it (`LockedFileStays`).

**SecretService** (`SecretServiceProofs`): every invariant of the run, and
`CompletesOnce` and `NothingLeftBehind`, which say of the jobs what
`PromptPromise` says of what clients see. `IInv` has these parts:

* `AskInv`: a prompt that does not unlock has one job; who has a message box is
  in the stack, once; and a prompt that completed has only jobs that ended, or a
  create job that was refused, the one that emits its result twice. The last says
  why the box that closes cannot be of a prompt that is over.
* `BackInv`: what a collection that does not live still holds (nothing), that the
  items wired and the items dangling are apart and both in `m_items`, and that an
  object on the bus that is usable stands for an item that exists.
* `ReportInv`: a job that ended well left its collection open unless it was shut
  since, also while other jobs of its prompt go on; a prompt reports the
  collections of such jobs.
* `ListInv`: a live collection is found at start, or watched, or its creator still
  waits for the answer about the permission - the three ways in which the master
  comes to know it, of which only the second hears of a deletion.

`Spec => PromptsKeepWord` (`PromptsKeepTheirWord`) is the refinement. A step of the
service changes what is seen of one prompt at most: a job belongs to one prompt,
and `Seen` depends on that prompt and its jobs only. Calls that ask for something
are `Make`; `prompt()` is `Show`, or `Answer` at once when there is nothing to
ask; the end of a dialog is `Answer` when it was the last that waited, else a
stutter (`MoveSeen`); closing a box is one of these, or the `Admit` or `Repeat` of
a refused create job (`CloseBoxSeen`). That an answer is the first follows from
`AskInv`. What `IInv` does not have is `NewInv`: a prompt to create is about
nothing before its password dialog is answered, and then about one collection for
ever (`Create`).

**WalletImport** (`WalletImportProofs`): `[]TypeOK`, `[]CopiesTheWallet`,
`[]QuitsWhenDone` and the action property `KilledIsQuiet`, for any wallets and
contents. The argument is that a job is one chain: of posted slots, calls and a
dialog at most one is under way (`OneChain`), so that its lists are what it has
still to copy. `ToCopy` says exactly what that is between any two steps - the
folders to come, the rest of the current folder or all of it when it will begin
again, the item in the call - and `Copied` that this and what is stored are the
whole wallet. `Resume` breaks the chain when it comes while a step is under way
(`raced`); of such a job only `Begun` is left, which is what the slots need to be
well typed, and which says that no click reaches a job before its first folder
is done. `Accounted` says that who is off the list of sub-jobs has given a result.

**SyncServer** (`SyncServerProofs`): `[]TypeOK` and `[]SidesAgree`. The sides are
never in step, and what relates them is where the one reply of a session can be:
`Greeted` says that a 200 on its way is for a client that still waits for it in
its greeting, has nothing else on its way and spoke the server's version, and
that the server is past the greeting; `Served` that the server passes it only with
such a reply; `OnItsWay` that a piece of a request is never taken for the whole
unless nothing is left behind it. A closed connection ends all of this.

`Spec => ServesInOrder` is the refinement of `ConnectionQueue`: `Connect` is
`Arrive`, `Serve` is `Begin`, and each way in which a session ends hangs up, which
is `End`; reading a request that does not end it, and all that clients do, are
stutters. It needs of `SyncInv` that who has yet to connect is
neither in the backlog nor in the session, and has had nothing closed.

TLC checked these invariants on small instances first.

**KWalletFile** (`KWalletFileProofs`): `[]NeverDeniesAnEntry` and `OpensAsSaved`.
`NeverDeniesAnEntry` speaks of open objects; `DigestInv` says the same of closed
ones (`Covered`), that an open object's folders have digests unless they are in
`made` (`Listed`), and that closed objects have folders but no entries (`Bare`),
which is why opening may take the digests of the file and keep a folder that is not
in it. For
`OpensAsSaved`, `OpenInv` keeps a password beside every hash, in the object and in
the file, and closed objects with no folders but those in `made`; the rest is
`HashInjective`: the last block tells how long a password is and the blocks before
it are full (`HashReadable`), so that no two passwords have the same blocks,
whatever their length. `[]TypeOK` (`WalletTypes`) rests on `OpenInv` too: only an
open object saves, and it has a password.

**TemporaryCollection** (`PartsProofs`): `[]ViewIsContents`, with
the invariant that there are no items, and none waits for its destruction, where
the collection is not reached; and
`[]TypeOK` and `[]AttributesTellItems` (creating items never makes two of the
same attributes), which are inductive.

**SecretDevice** (`PartsProofs`): `[]OnlyTheEndIsLost` and `[]TypeOK`,
for fields of any sizes and any chunk, under `DeviceAssumption`: no field is empty
(the stream writes the size of whatever it writes) and a chunk has room for
something. The argument is that reading asks for the same sizes in the same order
as writing did. What was written lies in byte strings, the chunks and behind them
what the buffer still has (`Laid`): field k whole in the string `home[k]`, from
`at[k]` on, right behind the field before it or at the start of the next string
when that one is used up. A chunk takes the field that filled it along, so writing
keeps this (`AtEnd` says where the next field goes). While reading, the place of
the next field is where the device is, or the start of the chunk it takes next
(`Reading`). A field is lost exactly when its home is the last string, which
`commit()` did not write; homes only grow, hence a suffix; and that string is
shorter than a chunk.

**Parts** (`PartsProofs`): `PartsAlone` says that the composition is each of its
parts, whatever the others do: `PartsInit` gives each its first state, and a step
is a step of the part or leaves its variables alone (`PartsStep`). Hence what is
proved of `KWalletFile`, `SyncServer`, `TemporaryCollection` and `SecretDevice`
holds of the parts beside one another (`PartsNeverDenyAnEntry`, `PartsSidesAgree`,
`PartsServeInOrder` and so on, and `[]PartsTypeOK`). The importer is there as itself,
so that its own theorems apply. These theorems use no fairness.

**Model-checked only.** Liveness (`CallsReturn`, `ChangesDrain`,
`PromptsComplete`, `ImportEndsInTime`, `EveryoneIsServed`), because fairness is
about ENABLED. Every safety invariant, action property and refinement that a run
checks is a theorem; those of the secrets file and two of `StoreKeys` hold in the
regimes named above, which are the regimes of their runs or wider.

## 6. Not modelled, and assumptions

* **Client API**: its calls are empty. **Tools**: no state of their own. Of the
  **dialogs** only the outcomes and the order in which they end.
* **`SecureBuffer`** and the wallet's ciphers and digests: data without control
  that a property here depends on. Nothing in the daemon opens a `SecureBuffer`.
  A folder list that is empty is written as a length and random bytes by the
  crypt buffer; what a load makes of these is left to `ReadOutcomes`.
* **Stubs of `KSecretsStore`** (items, search, deletion): they return at once.
* **Unlock and lock of single items**: `Service::unlock` reaches these jobs only
  through an item pointer that is no longer valid.
* **Codecs of a session**: a session is open or not.
* **The lists of computers** of secretsync and its widgets; its client jobs are
  empty.
* **Threads within a process**: `setup()` runs in a thread, and the models assume
  the documented use, one call after the other.
* **External**: inode allocation, flock and crashes are POSIX; the session keyring
  is the user session keyring; decryption with a wrong key yields no contents;
  `QSaveFile` writes all or nothing. `KJob`, `KCompositeJob` and the event queue
  are modelled as the importer uses them.

## 7. What could come next

1. How far `Quiet` can be weakened for `SaveIsAtomic`: a writer that crashes
   refines a catalogue that may forget, and then `SecretsFile_solo` and `_readers`
   could share a configuration.
2. An abstract collection that both `KSecretCollection` and `TemporaryCollection`
   refine.
3. The exchange of secretsync as an abstract session that both sides refine;
   `SidesAgree` is the part of it that is stated.
