---------------------------- MODULE SecretsFile ----------------------------
(***************************************************************************)
(* The secrets file of ksecrets_store: several processes, each with one    *)
(* KSecretsStore object, set the same path up, load it, and add            *)
(* collections to it.  Every system call that another process can observe  *)
(* is a step of its own: stat, unlink, creat, the writes that fill a new   *)
(* file, open, flock, the reads, and the close / rename / rename / open    *)
(* sequence with which KSecretsFile::save replaces the file.               *)
(*                                                                         *)
(* A process has called setCredentials before it sets the store up, and    *)
(* the key in the keyring stays the same (module StoreKeys is about keys). *)
(* A temporary file left behind by a failed save is never opened again and *)
(* is not kept in the state.                                               *)
(***************************************************************************)
EXTENDS Naturals, FiniteSets

CONSTANTS
  Stores,          \* processes, each with at most one live KSecretsStore
  Writers,         \* those that may ask for read-write and create collections
  Collections,     \* collection names a client may ask for
  Seeded,          \* names listed by a file that exists at the start
  Inodes,          \* inode numbers, reused once nothing refers to them
  NoInode,         \* no directory entry, or a descriptor equal to -1
  Dir,             \* the CollectionDirectory entity
  NoStore,         \* nobody wrote the header
  NoCollection,    \* no createCollection in progress
  InitialFile,     \* "missing" or "populated": what path names at the start
  Faults,          \* which of "crash", "write", "rename", "lock" may happen
  ChecksSetup,     \* clients use only a store whose setup returned Good
  AssertsOn,       \* the library is built without NDEBUG
  CipherChecksKey, \* libgcrypt refuses a cipher handle without a key
  MaxCreates       \* createCollection calls of one store object

ASSUME ConstantsAssumption ==
  /\ NoInode \notin Inodes
  /\ Dir \notin Collections
  /\ NoStore \notin Stores
  /\ Writers \subseteq Stores
  /\ NoCollection \notin Collections
  /\ Seeded \subseteq Collections
  /\ InitialFile \in {"missing", "populated"}
  /\ Faults \subseteq {"crash", "write", "rename", "lock"}
  /\ ChecksSetup \in BOOLEAN
  /\ AssertsOn \in BOOLEAN
  /\ CipherChecksKey \in BOOLEAN
  /\ Inodes # {}
  /\ MaxCreates \in Nat

VARIABLES
  path, bkp,     \* the inodes that the secrets path and its .bkp name
  data,          \* contents of every inode
  readFile,      \* readFile_: the open inode
  flock,         \* the description behind readFile_ holds the flock
  work,          \* the inode create() or save() is writing
  writeOpen,     \* writeFile_ was left open by an earlier save
  readOnly,      \* the flag given to setup
  locked,        \* locked_
  eof,           \* eof_
  headOk,        \* fileHead_ holds a header with the right magic
  status,        \* status_ of the store
  ents,          \* entities_: the names of the entities in memory
  dir,           \* entries_ of the CollectionDirectory in memory
  worn,          \* entities whose buffer was written before, see Image
  pc,            \* next system call
  stage,         \* "setup", or what save() adds: "dir" or "coll"
  want,          \* the argument of createCollection
  creates,       \* calls of createCollection so far
  acked          \* history: names whose createCollection returned Good

fsVars   == <<path, bkp, data>>
fdVars   == <<readFile, flock, work, writeOpen>>
objVars  == <<readOnly, locked, eof, headOk, status>>
memVars  == <<ents, dir, worn>>
ctlVars  == <<pc, stage, want, creates, acked>>
vars     == <<fsVars, fdVars, objVars, memVars, ctlVars>>

-----------------------------------------------------------------------------
(* Contents of a file. "torn" stops inside the header, "headed" has a      *)
(* header and fails a later check, "sealed" has a MAC that fits it; whether *)
(* the entities of a sealed file read back is what bad says.               *)

Entities == Collections \cup {Dir}

Content ==
  [kind : {"empty", "torn", "headed", "sealed"},
   by   : Stores \cup {NoStore},   \* whose header a created file carries
   ents : SUBSET Entities,
   dir  : SUBSET Collections,      \* names the directory entity lists
   bad  : SUBSET Entities]         \* entities whose bytes do not read back

Empty == [kind |-> "empty", by |-> NoStore, ents |-> {}, dir |-> {}, bad |-> {}]

Populated == [kind |-> "sealed", by |-> NoStore,
              ents |-> Seeded \cup {Dir}, dir |-> Seeded, bad |-> {}]

Steps == {"new", "unlink", "creat", "header", "rest", "open", "lock", "read",
          "ready", "temp", "close", "backup", "install", "aborted"}

Statuses == {"CredentialsSet", "Good", "SystemError", "CannotOpenFile",
             "CannotLockFile", "CannotReadFile", "InvalidFile"}

TypeOK ==
  /\ path \in Inodes \cup {NoInode}
  /\ bkp \in Inodes \cup {NoInode}
  /\ data \in [Inodes -> Content]
  /\ readFile \in [Stores -> Inodes \cup {NoInode}]
  /\ flock \in [Stores -> BOOLEAN]
  /\ work \in [Stores -> Inodes \cup {NoInode}]
  /\ writeOpen \in [Stores -> BOOLEAN]
  /\ readOnly \in [Stores -> BOOLEAN]
  /\ locked \in [Stores -> BOOLEAN]
  /\ eof \in [Stores -> BOOLEAN]
  /\ headOk \in [Stores -> BOOLEAN]
  /\ status \in [Stores -> Statuses]
  /\ ents \in [Stores -> SUBSET Entities]
  /\ dir \in [Stores -> SUBSET Collections]
  /\ worn \in [Stores -> SUBSET Entities]
  /\ pc \in [Stores -> Steps]
  /\ stage \in [Stores -> {"setup", "dir", "coll"}]
  /\ want \in [Stores -> Collections \cup {NoCollection}]
  /\ creates \in [Stores -> 0 .. MaxCreates]
  /\ acked \in SUBSET Collections

-----------------------------------------------------------------------------
Init ==
  /\ \/ /\ InitialFile = "missing"
        /\ path = NoInode
        /\ data = [i \in Inodes |-> Empty]
     \/ /\ InitialFile = "populated"
        /\ path \in Inodes
        /\ path = CHOOSE i \in Inodes : TRUE
        /\ data = [i \in Inodes |-> IF i = path THEN Populated ELSE Empty]
  /\ bkp = NoInode
  /\ readFile = [s \in Stores |-> NoInode]
  /\ flock = [s \in Stores |-> FALSE]
  /\ work = [s \in Stores |-> NoInode]
  /\ writeOpen = [s \in Stores |-> FALSE]
  /\ readOnly = [s \in Stores |-> FALSE]
  /\ locked = [s \in Stores |-> FALSE]
  /\ eof = [s \in Stores |-> FALSE]
  /\ headOk = [s \in Stores |-> FALSE]
  /\ status = [s \in Stores |-> "CredentialsSet"]
  /\ ents = [s \in Stores |-> {}]
  /\ dir = [s \in Stores |-> {}]
  /\ worn = [s \in Stores |-> {}]
  /\ pc = [s \in Stores |-> "new"]
  /\ stage = [s \in Stores |-> "setup"]
  /\ want = [s \in Stores |-> NoCollection]
  /\ creates = [s \in Stores |-> 0]
  /\ acked = {}

-----------------------------------------------------------------------------
(* Helpers *)

Put(f, s, v) == [f EXCEPT ![s] = v]

\* The file i with its kind and the author of its header changed.
Mark(i, kind, by) == Put(data, i, [data[i] EXCEPT !.kind = kind, !.by = by])

MayFail(fault) == fault \in Faults

Referenced(i) ==
  \/ i \in {path, bkp}
  \/ \E s \in Stores : i \in {readFile[s], work[s]}

FreeInodes == {i \in Inodes : ~Referenced(i)}

NewInode == CHOOSE i \in FreeInodes : TRUE

-----------------------------------------------------------------------------
(* Faulty variants of the definitions below them: what a plausible mistake  *)
(* in the code would make of each.  Only mutation runs use them.            *)

\* flock() called with LOCK_SH.
LockFreeShared(i) == TRUE

\* save() renames the temporary file before the MAC is in it.
ImageWithoutMac(s) ==
  [kind |-> "headed", by |-> NoStore, ents |-> ents[s], dir |-> dir[s], bad |-> {}]

\* The directory is saved before the collection is in entities_.
AddCollectionLate(s, c) ==
  /\ dir' = Put(dir, s, dir[s] \cup {c})
  /\ UNCHANGED <<ents, worn>>

\* setup() runs openAndCheck with justCheck and keeps entities_ empty.
LoadNothing(s, d) == UNCHANGED memVars

\* save() reopens the file without closing readFile_ first.
CloseReadForgotten(s) ==
  /\ pc[s] = "close"
  /\ pc' = Put(pc, s, "backup")
  /\ UNCHANGED <<fsVars, fdVars, objVars, memVars, stage, want, creates, acked>>

\* A failed save leaves the call in a step of its own.
NotSavedStage(s) ==
  /\ pc' = Put(pc, s, "failed")
  /\ want' = Put(want, s, NoCollection)
  /\ UNCHANGED <<stage, acked>>

-----------------------------------------------------------------------------
(* More helpers *)

\* A flock belongs to an open file description and excludes every other
\* description of the same inode.
LockFree(i) == \A t \in Stores : flock[t] => readFile[t] # i

\* openAndCheck(lock, ...): setup() locks unless read-only, save() passes locked_.
WantsLock(s) == IF stage[s] = "setup" THEN ~readOnly[s] ELSE locked[s]

\* filePath_ is empty until setup() has found or created the file.
HasPath(s) == status[s] \notin {"CredentialsSet", "SystemError"}

\* What save() writes. SecretsEntity::write serialises into buffer_ without
\* emptying it; once encrypt() has dropped the clear text, a second write of the
\* same object puts the new text behind as many uninitialised bytes as the first
\* one wrote, and the entity does not read back.
Image(s) ==
  [kind |-> IF headOk[s] THEN "sealed" ELSE "headed",
   by   |-> NoStore,
   ents |-> ents[s],
   dir  |-> dir[s],
   bad  |-> IF CipherChecksKey THEN ents[s] ELSE worn[s] \cap ents[s]]

\* The directory entry and the new collection object, whose buffer is fresh.
AddCollection(s, c) ==
  /\ dir' = Put(dir, s, dir[s] \cup {c})
  /\ ents' = Put(ents, s, ents[s] \cup {c})
  /\ worn' = Put(worn, s, worn[s] \ {c})

\* The entities a failing save wrote before it stopped are worn, too.
Wear(s, written) == worn' = Put(worn, s, worn[s] \cup written)

-----------------------------------------------------------------------------
(* setup() *)

SetupFailed(s, result) ==
  /\ status' = Put(status, s, result)
  /\ pc' = Put(pc, s, "ready")

\* The checks of setup() in the caller's thread. A missing file asked for
\* read-only is reported to the caller and leaves the store as it was.
SetupStat(s) ==
  /\ pc[s] = "new"
  /\ \E ro \in BOOLEAN :
       /\ s \notin Writers => ro
       /\ readOnly' = Put(readOnly, s, ro)
       /\ \/ /\ path = NoInode
             /\ pc' = Put(pc, s, IF ro THEN "ready" ELSE "creat")
          \/ /\ path # NoInode
             /\ data[path].kind = "empty"
             /\ pc' = Put(pc, s, "unlink")
          \/ /\ path # NoInode
             /\ data[path].kind # "empty"
             /\ pc' = Put(pc, s, "open")
  /\ stage' = Put(stage, s, "setup")
  /\ UNCHANGED <<fsVars, fdVars, locked, eof, headOk, status, memVars,
                 want, creates, acked>>

\* unlink() takes away whatever the path names by now.
Unlink(s) ==
  /\ pc[s] = "unlink"
  /\ path' = NoInode
  /\ pc' = Put(pc, s, "creat")
  /\ UNCHANGED <<bkp, data, fdVars, objVars, memVars, stage, want, creates, acked>>

\* creat() truncates a file that appeared since stat().
Creat(s) ==
  /\ pc[s] = "creat"
  /\ \/ /\ path # NoInode
        /\ work' = Put(work, s, path)
        /\ data' = Put(data, path, Empty)
        /\ pc' = Put(pc, s, "header")
        /\ UNCHANGED <<path, status>>
     \/ /\ path = NoInode
        /\ FreeInodes # {}
        /\ path' = NewInode
        /\ work' = Put(work, s, NewInode)
        /\ data' = Put(data, NewInode, Empty)
        /\ pc' = Put(pc, s, "header")
        /\ UNCHANGED status
     \/ /\ MayFail("write")
        /\ SetupFailed(s, "SystemError")
        /\ UNCHANGED <<path, data, work>>
  /\ UNCHANGED <<bkp, readFile, flock, writeOpen, readOnly, locked, eof, headOk,
                 memVars, stage, want, creates, acked>>

WriteNewHeader(s) ==
  /\ pc[s] = "header"
  /\ \/ /\ data' = Mark(work[s], "headed", s)
        /\ pc' = Put(pc, s, "rest")
        /\ UNCHANGED <<work, status>>
     \/ /\ MayFail("write")
        /\ data' \in {data, Mark(work[s], "torn", NoStore)}
        /\ work' = Put(work, s, NoInode)
        /\ SetupFailed(s, "SystemError")
  /\ UNCHANGED <<path, bkp, readFile, flock, writeOpen, readOnly, locked, eof,
                 headOk, memVars, stage, want, creates, acked>>

\* The count and the MAC. The MAC fits the header this store wrote; a failing
\* write of the MAC goes unnoticed because write() then returns -1, not 0.
WriteNewRest(s) ==
  /\ pc[s] = "rest"
  /\ work' = Put(work, s, NoInode)
  /\ \/ /\ data' = Mark(work[s], IF data[work[s]].by = s THEN "sealed" ELSE "headed",
                          data[work[s]].by)
        /\ pc' = Put(pc, s, "open")
        /\ UNCHANGED status
     \/ /\ MayFail("write")
        /\ pc' = Put(pc, s, "open")
        /\ UNCHANGED <<data, status>>
     \/ /\ MayFail("write")
        /\ SetupFailed(s, "SystemError")
        /\ UNCHANGED data
  /\ UNCHANGED <<path, bkp, readFile, flock, writeOpen, readOnly, locked, eof,
                 headOk, memVars, stage, want, creates, acked>>

-----------------------------------------------------------------------------
(* The end of save(): what emplace_entity() and createCollection() do next *)

Saved(s) ==
  \/ /\ stage[s] = "dir"
     /\ stage' = Put(stage, s, "coll")
     /\ AddCollection(s, want[s])
     /\ pc' = Put(pc, s, "temp")
     /\ UNCHANGED <<want, acked>>
  \/ /\ stage[s] = "coll"
     /\ pc' = Put(pc, s, "ready")
     /\ acked' = acked \cup {want[s]}
     /\ want' = Put(want, s, NoCollection)
     /\ UNCHANGED <<stage, memVars>>

\* collectionsDir() asserts that the directory could be saved.
NotSaved(s) ==
  /\ pc' = Put(pc, s, IF stage[s] = "dir" /\ AssertsOn THEN "aborted" ELSE "ready")
  /\ want' = Put(want, s, NoCollection)
  /\ UNCHANGED <<stage, acked>>

-----------------------------------------------------------------------------
(* openAndCheck(), called by setup() and again at the end of save() *)

OpenFailed(s, result) ==
  IF stage[s] = "setup"
  THEN SetupFailed(s, result) /\ UNCHANGED <<stage, want, acked>>
  ELSE NotSaved(s) /\ UNCHANGED status

Open(s) ==
  /\ pc[s] = "open"
  /\ readFile' = Put(readFile, s, path)
  /\ \/ /\ path = NoInode
        /\ OpenFailed(s, "CannotOpenFile")
     \/ /\ path # NoInode
        /\ pc' = Put(pc, s, IF WantsLock(s) THEN "lock" ELSE "read")
        /\ UNCHANGED <<status, stage, want, acked>>
  /\ UNCHANGED <<fsVars, flock, work, writeOpen, readOnly, locked, eof, headOk,
                 memVars, creates>>

Lock(s) ==
  /\ pc[s] = "lock"
  /\ locked' = Put(locked, s, TRUE)
  /\ \/ /\ LockFree(readFile[s])
        /\ flock' = Put(flock, s, TRUE)
        /\ pc' = Put(pc, s, "read")
        /\ UNCHANGED <<status, stage, want, acked>>
     \/ /\ MayFail("lock")
        /\ OpenFailed(s, "CannotLockFile")
        /\ UNCHANGED flock
  /\ UNCHANGED <<fsVars, readFile, work, writeOpen, readOnly, eof, headOk, memVars,
                 creates>>

\* What reading contents d may end in: the result, fileHead_ and eof_ after it.
\* eof_ is never cleared. A "headed" file may carry the header of a store that had
\* none itself, and may end early or fail the MAC. A directory that does not read
\* back yields no names, or fails when its garbage reads as a number. So does a
\* directory without names: its count, 0, runs into the random bytes that pad the
\* cipher block.
ReadOutcomes(s, d) ==
  {o \in [result : Statuses, head : BOOLEAN, eof : BOOLEAN] :
     \/ /\ eof[s] \/ d.kind = "empty"
        /\ o = [result |-> "CannotReadFile", head |-> headOk[s], eof |-> TRUE]
     \/ /\ ~eof[s]
        /\ d.kind = "torn"
        /\ o.result = "CannotReadFile"
        /\ o.eof
     \/ /\ ~eof[s]
        /\ d.kind = "headed"
        /\ o.result = "InvalidFile"
     \/ /\ ~eof[s]
        /\ d.kind = "sealed"
        /\ o.head
        /\ ~o.eof
        /\ \/ o.result = "Good"
           \/ /\ o.result = "InvalidFile"
              /\ Dir \in d.ents
              /\ Dir \in d.bad \/ d.dir = {}
              /\ ~CipherChecksKey}

\* readEntities(false) replaces entities_. An unreadable directory comes back
\* empty and fresh; an unreadable collection keeps its garbage.
Load(s, d) ==
  /\ ents' = Put(ents, s, d.ents)
  /\ dir' = Put(dir, s, IF Dir \in d.bad THEN {} ELSE d.dir)
  /\ worn' = Put(worn, s, d.bad \ {Dir})

Read(s) ==
  /\ pc[s] = "read"
  /\ \E o \in ReadOutcomes(s, data[readFile[s]]) :
       /\ headOk' = Put(headOk, s, o.head)
       /\ eof' = Put(eof, s, o.eof)
       /\ \/ /\ o.result = "Good"
             /\ stage[s] = "setup"
             /\ status' = Put(status, s, "Good")
             /\ pc' = Put(pc, s, "ready")
             /\ Load(s, data[readFile[s]])
             /\ UNCHANGED <<stage, want, acked>>
          \/ /\ o.result = "Good"
             /\ stage[s] # "setup"
             /\ Saved(s)
             /\ UNCHANGED status
          \/ /\ o.result # "Good"
             /\ OpenFailed(s, o.result)
             /\ UNCHANGED memVars
  /\ UNCHANGED <<fsVars, fdVars, readOnly, locked, creates>>

-----------------------------------------------------------------------------
(* createCollection() and save() *)

\* A name the directory lists is refused without any change. The store does not
\* look at its own status here; ChecksSetup says whether its client does.
CreateCollection(s, c) ==
  /\ s \in Writers
  /\ pc[s] = "ready"
  /\ ChecksSetup => status[s] = "Good"
  /\ creates[s] < MaxCreates
  /\ creates' = Put(creates, s, creates[s] + 1)
  /\ \/ /\ Dir \notin ents[s]
        /\ ents' = Put(ents, s, ents[s] \cup {Dir})
        /\ stage' = Put(stage, s, "dir")
        /\ UNCHANGED <<dir, worn>>
     \/ /\ Dir \in ents[s]
        /\ c \notin dir[s]
        /\ AddCollection(s, c)
        /\ stage' = Put(stage, s, "coll")
  /\ want' = Put(want, s, c)
  /\ pc' = Put(pc, s, "temp")
  /\ UNCHANGED <<fsVars, fdVars, objVars, acked>>

\* save() up to the closing of the temporary file, which no other process sees.
\* A failure before the MAC closes writeFile_; a failure at the MAC or at
\* readlink() does not, and the next save() asserts that it is closed.
WriteTemp(s) ==
  /\ pc[s] = "temp"
  /\ \/ /\ writeOpen[s] => ~AssertsOn
        /\ FreeInodes # {}
        /\ work' = Put(work, s, NewInode)
        /\ data' = Put(data, NewInode, Image(s))
        /\ writeOpen' = Put(writeOpen, s, FALSE)
        /\ Wear(s, ents[s])
        /\ pc' = Put(pc, s, "close")
        /\ UNCHANGED <<stage, want, acked>>
     \/ /\ writeOpen[s]
        /\ AssertsOn
        /\ pc' = Put(pc, s, "aborted")
        /\ UNCHANGED <<data, work, writeOpen, worn, stage, want, acked>>
     \/ /\ MayFail("write")
        /\ writeOpen[s] => ~AssertsOn
        /\ \E written \in SUBSET ents[s] : Wear(s, written)
        /\ writeOpen' = Put(writeOpen, s, FALSE)
        /\ NotSaved(s)
        /\ UNCHANGED <<data, work>>
     \/ /\ MayFail("write")
        /\ writeOpen[s] => ~AssertsOn
        /\ Wear(s, ents[s])
        /\ writeOpen' = Put(writeOpen, s, TRUE)
        /\ NotSaved(s)
        /\ UNCHANGED <<data, work>>
  /\ UNCHANGED <<path, bkp, readFile, flock, objVars, ents, dir, creates>>

\* closeFile(readFile_) drops the flock with the description.
CloseRead(s) ==
  /\ pc[s] = "close"
  /\ readFile' = Put(readFile, s, NoInode)
  /\ flock' = Put(flock, s, FALSE)
  /\ pc' = Put(pc, s, "backup")
  /\ UNCHANGED <<fsVars, work, writeOpen, objVars, memVars, stage, want, creates, acked>>

\* The old file is removed where it should become the backup.
BackupUnlinks(s) ==
  /\ pc[s] = "backup"
  /\ path # NoInode
  /\ path' = NoInode
  /\ pc' = Put(pc, s, "install")
  /\ UNCHANGED <<bkp, data, fdVars, objVars, memVars, stage, want, creates, acked>>

Backup(s) ==
  /\ pc[s] = "backup"
  /\ \/ /\ HasPath(s)
        /\ path # NoInode
        /\ bkp' = path
        /\ path' = NoInode
        /\ pc' = Put(pc, s, "install")
        /\ UNCHANGED <<work, stage, want, acked>>
     \/ /\ ~HasPath(s) \/ path = NoInode \/ MayFail("rename")
        /\ work' = Put(work, s, NoInode)
        /\ NotSaved(s)
        /\ UNCHANGED <<path, bkp>>
  /\ UNCHANGED <<data, readFile, flock, writeOpen, objVars, memVars, creates>>

\* The second rename replaces whatever the path names by now. It fails, for
\* one, when the working directory is on another file system.
Install(s) ==
  /\ pc[s] = "install"
  /\ work' = Put(work, s, NoInode)
  /\ \/ /\ path' = work[s]
        /\ pc' = Put(pc, s, "open")
        /\ UNCHANGED <<stage, want, acked>>
     \/ /\ MayFail("rename")
        /\ NotSaved(s)
        /\ UNCHANGED path
  /\ UNCHANGED <<bkp, data, readFile, flock, writeOpen, objVars, memVars, creates>>

-----------------------------------------------------------------------------
(* The end of a store object or of its process *)

Forget(s) ==
  /\ readFile' = Put(readFile, s, NoInode)
  /\ flock' = Put(flock, s, FALSE)
  /\ work' = Put(work, s, NoInode)
  /\ writeOpen' = Put(writeOpen, s, FALSE)
  /\ readOnly' = Put(readOnly, s, FALSE)
  /\ locked' = Put(locked, s, FALSE)
  /\ eof' = Put(eof, s, FALSE)
  /\ headOk' = Put(headOk, s, FALSE)
  /\ status' = Put(status, s, "CredentialsSet")
  /\ ents' = Put(ents, s, {})
  /\ dir' = Put(dir, s, {})
  /\ worn' = Put(worn, s, {})
  /\ pc' = Put(pc, s, "new")
  /\ stage' = Put(stage, s, "setup")
  /\ want' = Put(want, s, NoCollection)
  /\ creates' = Put(creates, s, 0)
  /\ UNCHANGED <<fsVars, acked>>

\* ~KSecretsFile closes readFile_ and writeFile_; an aborted process ends.
Destroy(s) ==
  /\ pc[s] \in {"ready", "aborted"}
  /\ Forget(s)

\* The process dies between two system calls.
Crash(s) ==
  /\ MayFail("crash")
  /\ pc[s] \notin {"new", "ready", "aborted"}
  /\ Forget(s)

-----------------------------------------------------------------------------
SystemCall(s) ==
  \/ Unlink(s) \/ Creat(s) \/ WriteNewHeader(s) \/ WriteNewRest(s)
  \/ Open(s) \/ Read(s)
  \/ WriteTemp(s) \/ CloseRead(s) \/ Backup(s) \/ Install(s)

Next ==
  \E s \in Stores :
    \/ SetupStat(s)
    \/ \E c \in Collections : CreateCollection(s, c)
    \/ SystemCall(s)
    \/ Lock(s)
    \/ Destroy(s)
    \/ Crash(s)

Spec == Init /\ [][Next]_vars

\* A process runs on until its call returns; the kernel wakes the waiters of a
\* flock in turn; and clients keep the store "locked as briefly as possible",
\* as the class documentation asks them to.
FairSpec ==
  /\ Spec
  /\ \A s \in Stores :
       /\ WF_vars(SystemCall(s))
       /\ SF_vars(Lock(s))
       /\ WF_vars(Destroy(s))

-----------------------------------------------------------------------------
(* Safety *)

\* The names a client reads from contents d: the directory and the collection
\* must both read back.
Listing(d) ==
  IF d.kind = "sealed" /\ Dir \notin d.bad THEN d.dir \ d.bad ELSE {}

\* At most one process holds the flock of an inode, only through an open
\* descriptor, and never while it waits for another one (KSecretsFile::lock,
\* and closeFile before the reopening in backupAndReplaceWithWritten).
LockExclusive ==
  \A s \in Stores :
    flock[s] => /\ readFile[s] # NoInode
                /\ pc[s] # "lock"
                /\ \A t \in Stores \ {s} : flock[t] => readFile[t] # readFile[s]

Coherent(entities, names) ==
  names # {} => names \cup {Dir} \subseteq entities

\* Whatever fails, crashes or races: a directory never names a collection whose
\* entity is not next to it, neither in memory nor in any file.
CatalogueCoherent ==
  /\ \A s \in Stores : Coherent(ents[s], dir[s])
  /\ \A i \in Inodes : Coherent(data[i].ents, data[i].dir)

\* One file, at the path or at .bkp, lists the collections that were there at
\* the start and all whose creation was reported, and they read back.
Kept ==
  \E i \in {path, bkp} \ {NoInode} : Seeded \cup acked \subseteq Listing(data[i])

\* A file that setup() has put beside the real backup, and that holds no entity
\* yet, becomes the backup (openCreateReadWrite after a crash inside
\* backupAndReplaceWithWritten).
Recreated == bkp' # bkp /\ data[bkp'].ents = {}

\* A file at the path or at .bkp has entities that do not read back, because a
\* store object wrote them with buffers it had written before.
Unreadable == \E i \in {path, bkp} \ {NoInode} : data[i].bad # {}

\* A process that dies between any two system calls of setup() or save(), or
\* whose write, rename or lock fails, leaves such a file. Nothing loses it but a
\* file recreated beside the backup or one with unreadable entities.
CopyKept == [][Kept => Kept' \/ Recreated \/ Unreadable']_vars

\* The file never loses an entity its backup still has.
BackupIsOlder ==
  path # NoInode /\ bkp # NoInode => data[bkp].ents \subseteq data[path].ents

\* A store that is open holds every entity of the file it has open, so that its
\* next save drops none of them.
FileWithinMemory ==
  \A s \in Stores :
    pc[s] = "ready" /\ status[s] = "Good" /\ readFile[s] # NoInode
      => data[readFile[s]].ents \subseteq ents[s]

\* A collection whose creation was reported is listed by the file at the path.
AckedListed ==
  (\A s \in Stores : pc[s] \in {"new", "ready"})
    => /\ path # NoInode
       /\ acked \subseteq Listing(data[path])

\* A process that sets up while another one saves reads the file before or the
\* file after, or finds none; it never takes a half-written one for corrupt.
ReadersSeeWholeFiles ==
  \A s \in Stores : status[s] \in {"CredentialsSet", "Good", "CannotOpenFile"}

(***************************************************************************)
(* Refinement: with one writing process, save() commits at its second      *)
(* rename and a reader takes its snapshot when it opens the file.  Between *)
(* the two renames the backup still is the list.                           *)
(***************************************************************************)
Readers == Stores \ Writers

Listed ==
  IF path # NoInode THEN Listing(data[path])
  ELSE IF bkp # NoInode THEN Listing(data[bkp]) ELSE {}

ReaderView ==
  [r \in Readers |->
     IF pc[r] = "read" THEN Listing(data[readFile[r]]) ELSE dir[r]]

Promise == INSTANCE Catalogue WITH listed <- Listed, view <- ReaderView

\* Seen through its clients' eyes, the rename protocol of save() is one atomic
\* commit, also while other processes read and while writes fail.
ImplementsCatalogue == Promise!CatalogueSpec

(***************************************************************************)
(* The inductive invariant behind TypeOK, LockExclusive and                *)
(* CatalogueCoherent, which SecretsFileProofs proves.                      *)
(***************************************************************************)

\* A process locks or reads only through a descriptor that open() returned.
DescriptorOpen ==
  \A s \in Stores : pc[s] \in {"lock", "read"} => readFile[s] \in Inodes

\* Only setup() creates files. Inside save() there is a name being created, and
\* the directory exists.
SavingSomething ==
  \A s \in Stores :
    /\ pc[s] \in {"unlink", "creat", "header", "rest"} => stage[s] = "setup"
    /\ pc[s] \in {"temp", "close", "backup", "install"} => stage[s] # "setup"
    /\ pc[s] \in {"temp", "close", "backup", "install", "open", "lock", "read"}
       /\ stage[s] # "setup"
         => want[s] \in Collections /\ Dir \in ents[s]

\* The steps at which a flock can be held; save() has dropped it when it renames.
LockHeldAt ==
  \A s \in Stores :
    flock[s] => /\ readFile[s] \in Inodes
                /\ pc[s] \in {"read", "ready", "temp", "close", "aborted"}

IInv ==
  /\ TypeOK
  /\ DescriptorOpen
  /\ SavingSomething
  /\ LockHeldAt
  /\ LockExclusive
  /\ CatalogueCoherent

(***************************************************************************)
(* What the documentation and the tests say, and the code does not do.     *)
(***************************************************************************)

\* "even if your application crashes, the file won't get corrupted": what was
\* reported as created is still in the file or in its backup.
AckedSurvives ==
  acked \subseteq UNION {data[i].ents : i \in {path, bkp} \ {NoInode}}

\* "exclusively locked": nobody else changes a file while a store holds it.
LockedFileIntact ==
  [][\A s \in Stores : flock[s] => data'[readFile[s]] = data[readFile[s]]]_vars

(***************************************************************************)
(* Liveness                                                                *)
(***************************************************************************)

\* A call returns: no process waits for a flock for ever.
CallsReturn ==
  \A s \in Stores :
    pc[s] \notin {"new", "ready", "aborted"} ~> pc[s] \in {"new", "ready", "aborted"}

=============================================================================
