------------------------- MODULE KSecretCollection -------------------------
(***************************************************************************)
(* One collection of the daemon and its .ksecret file: what              *)
(* KSecretCollection keeps in memory while it is unlocked, when it writes   *)
(* that to the file, and what locking and unlocking leave behind. The jobs  *)
(* that call these operations are in module CollectionJobs.                 *)
(*                                                                         *)
(* The daemon has one thread, so every operation is one step; the sync     *)
(* timer, failing writes and the end of the process come between them.     *)
(* An item is its attributes and its secret; labels, dates and content     *)
(* types change along with these. Reading a freed item may also end the    *)
(* process, which Crash allows at any time.                                *)
(*                                                                         *)
(* A save is not whole: serialize() commits the file without closing the   *)
(* encrypting device, so that the last part-chunk, less than               *)
(* BUFFER_CHUNK_SIZE bytes, is not written (see module SecretDevice). It   *)
(* holds the end of the stream, which is permissions and then items.       *)
(***************************************************************************)
EXTENDS Naturals, FiniteSets

CONSTANTS
  Ids,              \* item ids; createId never returns one in use
  Attributes,       \* attribute maps, which all share one key
  Secrets,
  Passwords,        \* what users type
  DefaultPassword,  \* "ksecretdefaultpwd", standing in for an empty one
  Clients,          \* the peers, each running one application
  TailItems,        \* how many items the last part-chunk of a save can cut into
  NoItem,           \* nothing under this id
  Freed,            \* a pointer in m_items to a deleted item
  Garbage           \* what a freed item, or one that was cut off, is taken for

ASSUME CollectionAssumption ==
  /\ DefaultPassword \in Passwords
  /\ TailItems \in Nat
  /\ {NoItem, Freed, Garbage} \cap [attributes : Attributes, secret : Secrets] = {}

VARIABLES
  file,    \* the .ksecret file
  alive,   \* the KSecretCollection object exists
  locked,  \* m_locked
  dirty,   \* m_dirty
  timer,   \* m_syncTimer is active
  key,     \* m_cryptKey of the encryption filter: the password it came from
  mem,     \* m_items
  wired,   \* items whose itemChanged and itemDeleted reach the collection
  hash,    \* items m_lookupHashes leads to
  stale,   \* m_lookupHashes also holds pointers to deleted items
  acl      \* applications with an entry in m_acls

collVars == <<file, alive, locked, dirty, timer, key, mem, wired, hash, stale, acl>>

-----------------------------------------------------------------------------
Items == [attributes : Attributes, secret : Secrets]

Live(i) == mem[i] \notin {NoItem, Freed}

Nothing == [i \in Ids |-> NoItem]

NoFile == [present |-> FALSE, password |-> DefaultPassword, items |-> Nothing, acl |-> {}]

CollTypeOK ==
  /\ file \in [present : BOOLEAN, password : Passwords, acl : SUBSET Clients,
               items : [Ids -> Items \cup {NoItem, Garbage}]]
  /\ alive \in BOOLEAN
  /\ locked \in BOOLEAN
  /\ dirty \in BOOLEAN
  /\ timer \in BOOLEAN
  /\ key \in Passwords
  /\ mem \in [Ids -> Items \cup {NoItem, Freed, Garbage}]
  /\ wired \in SUBSET Ids
  /\ hash \in SUBSET Ids
  /\ stale \in BOOLEAN
  /\ acl \in SUBSET Clients

CollInit ==
  /\ file = NoFile
  /\ alive = FALSE
  /\ locked = FALSE
  /\ dirty = FALSE
  /\ timer = FALSE
  /\ key = DefaultPassword
  /\ mem = Nothing
  /\ wired = {}
  /\ hash = {}
  /\ stale = FALSE
  /\ acl = {}

-----------------------------------------------------------------------------
(* Faulty variants of definitions further down: what a plausible mistake in *)
(* the code would make of each.  Only mutation runs use them.               *)

\* sync() does not start the timer again when serialize() fails.
SyncGivesUp ==
  /\ alive
  /\ timer
  /\ dirty
  /\ timer' = FALSE
  /\ UNCHANGED <<file, alive, locked, dirty, key, mem, wired, hash, stale, acl>>

\* createFromFile leaves the filter without a password.
ForgetPassword ==
  /\ dirty' = FALSE
  /\ timer' = FALSE
  /\ key' = NoItem
  /\ mem' = Nothing
  /\ wired' = {}
  /\ hash' = {}
  /\ stale' = FALSE
  /\ acl' = {}

\* tryUnlock leaves m_lookupHashes as it was.
IndexNothing(m) == hash

\* setDirty() starts the timer and does not set m_dirty.
SetTimerOnly ==
  /\ timer' = TRUE
  /\ UNCHANGED dirty

\* lock() and the timer take the collection as written without writing it.
SerializedNever ==
  /\ UNCHANGED file
  /\ dirty' = FALSE

\* setApplicationPermission does not look whether the collection is locked.
AcceptsAlways(exists) == exists

-----------------------------------------------------------------------------
(* Helpers *)

\* Only an unlocked collection can become dirty.
SetDirty ==
  /\ dirty' = (dirty \/ ~locked)
  /\ timer' = TRUE

\* What may be in the last part-chunk, which is as short as the stream is.
Tails == {tail \in SUBSET {i \in Ids : mem[i] # NoItem} : Cardinality(tail) <= TailItems}

\* What serialize() writes, through a QSaveFile, when the items in DOMAIN rest did
\* not get there whole. What is read past the end of the stream is empty, so that
\* such an item comes back without its contents, or without its id.
Image(rest, kept) ==
  [present |-> TRUE, password |-> key, acl |-> kept,
   items |-> [i \in Ids |-> IF i \in DOMAIN rest THEN rest[i]
                            ELSE IF mem[i] = Freed THEN Garbage ELSE mem[i]]]

\* serialize() succeeds, or has nothing to do. Permissions come before items.
Serialized ==
  /\ \/ ~dirty /\ UNCHANGED file
     \/ /\ dirty
        /\ \E tail \in Tails :
             \E rest \in [tail -> {NoItem, Garbage}], kept \in SUBSET acl :
               /\ kept = acl \/ tail = {i \in Ids : mem[i] # NoItem}
               /\ file' = Image(rest, kept)
  /\ dirty' = FALSE

\* The items that m_lookupHashes leads to once items m are entered into it.
Index(m) == {i \in Ids : m[i] \notin {NoItem, Freed}}

\* searchItems for one attribute map.
Search(a) == {i \in hash : mem[i] \in [attributes : {a}, secret : Secrets]}

\* An item that was cut off may have kept its attributes, and is then found too.
MayFind(a) == Search(a) \cup {i \in hash : mem[i] = Garbage}

\* The contents are decrypted with the key in the filter. With a wrong one they
\* are empty, and KSecretStream::isValid does not tell. Items come in addition
\* to the pointers m_items already holds.
Contents(w) ==
  IF w = file.password
  THEN [i \in Ids |-> IF file.items[i] # NoItem THEN file.items[i] ELSE mem[i]]
  ELSE mem

-----------------------------------------------------------------------------
(* Operations *)

\* KSecretCollection::create, setLabel and, for a collection to be created
\* locked, lock(), whose failure is ignored.
Create(w, lockIt) ==
  LET fresh == [NoFile EXCEPT !.present = TRUE, !.password = w] IN
  /\ ~alive
  /\ ~file.present
  /\ file' = fresh
  /\ alive' = TRUE
  /\ key' = w
  /\ timer' = TRUE
  /\ \/ lockIt /\ locked' = TRUE /\ dirty' = FALSE
     \/ locked' = FALSE /\ dirty' = TRUE
  /\ UNCHANGED <<mem, wired, hash, stale, acl>>

\* tryUnlockPassword. The filter gets the password even when there is nothing to
\* unlock. Only a file that cannot be opened keeps the collection locked.
TryUnlockPassword(w) ==
  /\ key' = w
  /\ \/ /\ locked
        /\ file.present
        /\ locked' = FALSE
        /\ mem' = Contents(w)
        /\ hash' = Index(mem')
        /\ acl' = IF w = file.password THEN acl \cup file.acl ELSE acl
     \/ UNCHANGED <<locked, mem, hash, acl>>
  /\ UNCHANGED <<file, alive, dirty, timer, wired, stale>>

\* The items are deleted and their pointers stay: empty() is not clear().
Lock ==
  /\ Serialized
  /\ locked' = TRUE
  /\ mem' = [i \in Ids |-> IF mem[i] = NoItem THEN NoItem ELSE Freed]
  /\ hash' = {}
  /\ stale' = (stale \/ hash # {})
  /\ wired' = {}
  /\ UNCHANGED <<alive, timer, key, acl>>

\* setApplicationPermission wants an open collection and an executable that exists.
Accepts(exists) == exists /\ ~locked

SetApplicationPermission(c, exists) ==
  /\ \/ Accepts(exists) /\ acl' = acl \cup {c} /\ SetDirty
     \/ ~Accepts(exists) /\ UNCHANGED <<acl, dirty, timer>>
  /\ UNCHANGED <<file, alive, locked, key, mem, wired, hash, stale>>

\* An item with the same attributes is replaced, or keeps the new one out. What is
\* left of a deleted item may match as well, and takes the new contents with it.
CreateItem(item, replace) ==
  /\ alive
  /\ ~locked
  /\ \/ /\ replace
        /\ \E i \in MayFind(item.attributes) : mem' = [mem EXCEPT ![i] = item]
        /\ UNCHANGED <<wired, hash>>
     \/ /\ Search(item.attributes) = {}
        /\ \E i \in Ids :
             /\ mem[i] = NoItem
             /\ file.items[i] = NoItem
             /\ mem' = [mem EXCEPT ![i] = item]
             /\ wired' = wired \cup {i}
             /\ hash' = hash \cup {i}
     \/ replace /\ stale /\ UNCHANGED <<mem, wired, hash>>
  /\ SetDirty
  /\ UNCHANGED <<file, alive, locked, key, stale, acl>>

\* setSecret and setAttributes of an item. The collection hears of it only when
\* it has created the item itself.
ChangeItem(i, item) ==
  /\ alive
  /\ ~locked
  /\ Live(i)
  /\ mem[i] # Garbage =>
       mem[i].attributes = item.attributes \/ mem[i].secret = item.secret
  /\ mem' = [mem EXCEPT ![i] = item]
  /\ hash' = hash \cup {i}
  /\ IF i \in wired THEN SetDirty ELSE UNCHANGED <<dirty, timer>>
  /\ UNCHANGED <<file, alive, locked, key, wired, stale, acl>>

\* The pointers to an item that was loaded stay in m_items and m_lookupHashes.
DeleteItem(i) ==
  /\ alive
  /\ ~locked
  /\ Live(i)
  /\ hash' = hash \ {i}
  /\ wired' = wired \ {i}
  /\ IF i \in wired
     THEN mem' = [mem EXCEPT ![i] = NoItem] /\ SetDirty /\ UNCHANGED stale
     ELSE mem' = [mem EXCEPT ![i] = Freed] /\ stale' = TRUE /\ UNCHANGED <<dirty, timer>>
  /\ UNCHANGED <<file, alive, locked, key, acl>>

\* The sync timer, which fires once; a failing write starts it again.
Sync ==
  /\ alive
  /\ timer
  /\ Serialized
  /\ timer' = FALSE
  /\ UNCHANGED <<alive, locked, key, mem, wired, hash, stale, acl>>

SyncFails ==
  /\ alive
  /\ timer
  /\ dirty
  /\ UNCHANGED collVars

\* Without the object there are no items and there is no timer.
Forget ==
  /\ dirty' = FALSE
  /\ timer' = FALSE
  /\ key' = DefaultPassword
  /\ mem' = Nothing
  /\ wired' = {}
  /\ hash' = {}
  /\ stale' = FALSE
  /\ acl' = {}

\* deleteCollection ends the object also when the file cannot be removed.
DeleteCollection ==
  /\ alive
  /\ alive' = FALSE
  /\ locked' = FALSE
  /\ file' \in {NoFile, file}
  /\ Forget

\* The daemon ends and starts again: createFromFile finds what is on the disk.
Crash ==
  /\ alive' = file.present
  /\ locked' = file.present
  /\ Forget
  /\ UNCHANGED file

-----------------------------------------------------------------------------
(* Safety *)

\* Changes wait for a running timer, and never in a locked collection: setDirty
\* asserts that, and lock() must not leave unsaved changes to a timer that can
\* no longer write them.
DirtyIsPending == dirty => alive /\ ~locked /\ timer

\* The file holds what clients created, changed or replaced in the open collection
\* and the permissions that they were given, all but what the last part-chunk cut
\* off: a few items, and of the permissions only what no whole item comes after.
AllButTheEnd(f) ==
  /\ \E tail \in SUBSET Ids :
       /\ Cardinality(tail) <= TailItems
       /\ \A i \in wired \ tail : f.present /\ f.items[i] = mem[i]
  /\ acl \subseteq f.acl \/ \A i \in Ids : f.items[i] \in {NoItem, Garbage}

\* So much is in the file as soon as m_dirty is false, whatever failed in between;
\* the permissions also when the collection was locked since.
SavedUnlessDirty == alive /\ ~dirty => AllButTheEnd(file)

\* An item that a client can still reach is found by a search for its attributes,
\* so that createItem does not make a second one.
SearchFindsLive ==
  alive /\ ~locked =>
    \A i \in Ids : Live(i) /\ mem[i] # Garbage => i \in Search(mem[i].attributes)

\* The signals that reach the collection come from items it holds while open.
WiredItemsLive == \A i \in wired : alive /\ ~locked /\ Live(i)

\* A collection that is to be created starts without items and permissions.
NothingWithoutObject == ~alive => mem = Nothing /\ acl = {}

(***************************************************************************)
(* What a comment says, and the code does not do.                          *)
(***************************************************************************)

\* "The first unlock attempt would fail so the unlock job will prompt the user":
\* only the password of the file opens the collection.
OpensWithItsPasswordOnly ==
  [][alive /\ alive' /\ locked /\ ~locked' => key' = file.password]_collVars

\* "ok, the collection was correctly serialized": once m_dirty is false again the
\* file has every item that clients created in the open collection.
SavedWhole ==
  alive /\ ~dirty /\ ~locked => \A i \in wired : file.items[i] = mem[i]

(***************************************************************************)
(* Liveness                                                                *)
(***************************************************************************)

\* Changes are written, given up with the collection, or lost in a crash; they
\* do not stay unsaved for ever.
ChangesDrain == dirty ~> ~dirty

=============================================================================
