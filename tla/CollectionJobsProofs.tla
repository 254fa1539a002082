------------------------ MODULE CollectionJobsProofs ------------------------
(***************************************************************************)
(* What TLAPS proves of CollectionJobs for any sets of items, passwords    *)
(* and clients. CollInv is what the operations of the collection keep; the *)
(* jobs add to it that a dialog never outlives its collection, which is    *)
(* what makes it safe to go on with the collection when the dialog closes. *)
(***************************************************************************)
EXTENDS CollectionJobs, FiniteSetTheorems, TLAPS

CollInv ==
  /\ CollTypeOK
  /\ DirtyIsPending
  /\ SavedUnlessDirty
  /\ SearchFindsLive
  /\ WiredItemsLive
  /\ NothingWithoutObject

-----------------------------------------------------------------------------
(* Helpers *)

LEMMA NoFileType ==
  NoFile \in [present : BOOLEAN, password : Passwords, acl : SUBSET Clients,
              items : [Ids -> Items \cup {NoItem, Garbage}]]
  BY CollectionAssumption DEF NoFile, Nothing

Files == [present : BOOLEAN, password : Passwords, acl : SUBSET Clients,
          items : [Ids -> Items \cup {NoItem, Garbage}]]

\* What serialize() writes is a file again, and holds every item that a signal can
\* still come from but those the last part-chunk cut into.
LEMMA ImageKeeps ==
  ASSUME CollTypeOK, WiredItemsLive, NEW tail \in Tails, NEW rest \in [tail -> {NoItem, Garbage}],
         NEW kept \in SUBSET acl, kept = acl \/ tail = {i \in Ids : mem[i] # NoItem}
  PROVE  Image(rest, kept) \in Files /\ AllButTheEnd(Image(rest, kept))
<1>1. tail \subseteq Ids /\ Cardinality(tail) <= TailItems
  BY DEF Tails
<1>2. /\ Image(rest, kept).present /\ Image(rest, kept).password = key /\ Image(rest, kept).acl = kept
      /\ \A i \in tail : Image(rest, kept).items[i] \in {NoItem, Garbage}
      /\ \A i \in Ids \ tail :
           Image(rest, kept).items[i] = IF mem[i] = Freed THEN Garbage ELSE mem[i]
  BY <1>1 DEF Image
<1>3. Image(rest, kept) \in Files
  BY DEF Image, Files, CollTypeOK
<1>4. \A i \in wired \ tail : Image(rest, kept).items[i] = mem[i]
  BY <1>2 DEF CollTypeOK, WiredItemsLive, Live
<1>5. kept = acl \/ \A i \in Ids : Image(rest, kept).items[i] \in {NoItem, Garbage}
  <2>1. CASE tail = {i \in Ids : mem[i] # NoItem}
    <3>1. \A i \in Ids \ tail : (mem[i] = NoItem /\ NoItem # Freed) \/ mem[i] = Freed
      BY <2>1
    <3>. QED
      BY <1>2, <2>1, <3>1
  <2>. QED
    BY <2>1
<1>. QED
  BY <1>1, <1>2, <1>3, <1>4, <1>5 DEF AllButTheEnd

\* Serializing leaves a file that agrees with the items of an open collection.
LEMMA SerializedKeeps ==
  ASSUME CollInv, Serialized
  PROVE  /\ file' \in Files
         /\ dirty' = FALSE
         /\ alive => AllButTheEnd(file')
<1>1. CASE dirty
  <2>1. PICK tail \in Tails :
          \E rest \in [tail -> {NoItem, Garbage}], kept \in SUBSET acl :
            /\ kept = acl \/ tail = {i \in Ids : mem[i] # NoItem}
            /\ file' = Image(rest, kept)
    BY <1>1 DEF Serialized
  <2>2. PICK rest \in [tail -> {NoItem, Garbage}], kept \in SUBSET acl :
          /\ kept = acl \/ tail = {i \in Ids : mem[i] # NoItem}
          /\ file' = Image(rest, kept)
    BY <2>1
  <2>. QED
    BY <2>2, ImageKeeps DEF CollInv, Serialized
<1>2. CASE ~dirty
  BY <1>2 DEF CollInv, Serialized, CollTypeOK, SavedUnlessDirty, Files
<1>. QED  BY <1>1, <1>2

\* Fewer items, the same permissions: the file goes on to hold them.
LEMMA StillThere ==
  ASSUME AllButTheEnd(file), file' = file, wired' \subseteq wired, acl' = acl,
         \A i \in wired' : mem'[i] = mem[i]
  PROVE  AllButTheEnd(file)'
  BY DEF AllButTheEnd

\* The contents of a file are items or what was read of freed ones.
LEMMA ContentsType ==
  ASSUME CollTypeOK, NEW w
  PROVE  Contents(w) \in [Ids -> Items \cup {NoItem, Freed, Garbage}]
  BY DEF Contents, CollTypeOK

-----------------------------------------------------------------------------
(* The operations keep CollInv *)

LEMMA InitKeeps == CollInit => CollInv
<1>. SUFFICES ASSUME CollInit PROVE CollInv
  OBVIOUS
<1>1. CollTypeOK
  BY NoFileType, CollectionAssumption DEF CollInit, CollTypeOK, Nothing
<1>. QED
  BY <1>1 DEF CollInit, CollInv, DirtyIsPending, SavedUnlessDirty, SearchFindsLive,
              WiredItemsLive, NothingWithoutObject

LEMMA UnchangedKeeps ==
  ASSUME CollInv, UNCHANGED collVars
  PROVE  CollInv'
<1>1. CollTypeOK' /\ DirtyIsPending' /\ WiredItemsLive' /\ NothingWithoutObject'
  BY DEF collVars, CollInv, CollTypeOK, DirtyIsPending, WiredItemsLive, NothingWithoutObject, Live
<1>2. SavedUnlessDirty' /\ SearchFindsLive'
  BY DEF collVars, CollInv, SavedUnlessDirty, AllButTheEnd, SearchFindsLive, Live, Search
<1>. QED  BY <1>1, <1>2 DEF CollInv

LEMMA CreateKeeps ==
  ASSUME CollInv, NEW w \in Passwords, NEW lockIt \in BOOLEAN, Create(w, lockIt)
  PROVE  CollInv'
<1>1. mem = Nothing /\ mem' = Nothing /\ wired = {} /\ wired' = {}
  BY DEF Create, CollInv, NothingWithoutObject, WiredItemsLive, CollTypeOK
<1>2. file' \in [present : BOOLEAN, password : Passwords, acl : SUBSET Clients,
                 items : [Ids -> Items \cup {NoItem, Garbage}]]
  BY NoFileType DEF Create
<1>3. CollTypeOK'
  BY <1>2 DEF Create, CollInv, CollTypeOK
<1>4. acl' = {}
  BY DEF Create, CollInv, NothingWithoutObject
<1>5. SavedUnlessDirty'
  BY <1>1, <1>4, FS_EmptySet, CollectionAssumption DEF SavedUnlessDirty, AllButTheEnd
<1>. QED
  BY <1>1, <1>3, <1>5 DEF Create, CollInv, DirtyIsPending, SearchFindsLive,
                          WiredItemsLive, NothingWithoutObject, Nothing, Live

LEMMA TryUnlockPasswordKeeps ==
  ASSUME CollInv, NEW w \in Passwords, alive, TryUnlockPassword(w)
  PROVE  CollInv'
<1>1. CASE UNCHANGED <<locked, mem, hash, acl>>
  <2>1. CollTypeOK' /\ DirtyIsPending' /\ WiredItemsLive' /\ NothingWithoutObject'
    BY <1>1 DEF TryUnlockPassword, CollInv, CollTypeOK, DirtyIsPending, WiredItemsLive,
                NothingWithoutObject, Live
  <2>2. SavedUnlessDirty' /\ SearchFindsLive'
    BY <1>1 DEF TryUnlockPassword, CollInv, SavedUnlessDirty, AllButTheEnd, SearchFindsLive, Live, Search
  <2>. QED  BY <2>1, <2>2 DEF CollInv
<1>2. CASE ~UNCHANGED <<locked, mem, hash, acl>>
  <2>1. /\ locked
        /\ locked' = FALSE
        /\ mem' = Contents(w)
        /\ hash' = Index(mem')
        /\ acl' \in SUBSET Clients
    BY <1>2 DEF TryUnlockPassword, CollInv, CollTypeOK
  <2>2. wired = {} /\ ~dirty
    BY <2>1 DEF CollInv, WiredItemsLive, DirtyIsPending, CollTypeOK
  <2>3. CollTypeOK'
    <3>1. mem' \in [Ids -> Items \cup {NoItem, Freed, Garbage}]
      BY <2>1, ContentsType DEF CollInv
    <3>. QED
      BY <2>1, <3>1 DEF TryUnlockPassword, CollInv, CollTypeOK, Index
  <2>4. SearchFindsLive'
    <3>. SUFFICES ASSUME NEW i \in Ids, mem'[i] \notin {NoItem, Freed, Garbage}
                  PROVE  i \in Search(mem[i].attributes)'
      BY DEF SearchFindsLive, Live
    <3>1. i \in hash'
      BY <2>1 DEF Index
    <3>2. mem'[i] \in Items
      BY <2>3 DEF CollTypeOK
    <3>. QED
      BY <3>1, <3>2 DEF Search, Items
  <2>5. AllButTheEnd(file)'
    <3>1. AllButTheEnd(file) /\ wired' = {} /\ UNCHANGED file
      BY <2>2 DEF TryUnlockPassword, CollInv, SavedUnlessDirty
    <3>2. acl' = acl \/ acl' = acl \cup file.acl
      BY DEF TryUnlockPassword
    <3>. QED
      BY <3>1, <3>2 DEF AllButTheEnd
  <2>. QED
    BY <2>1, <2>2, <2>3, <2>4, <2>5
    DEF TryUnlockPassword, CollInv, DirtyIsPending, SavedUnlessDirty, WiredItemsLive,
        NothingWithoutObject
<1>. QED  BY <1>1, <1>2

LEMMA LockKeeps ==
  ASSUME CollInv, alive, Lock
  PROVE  CollInv'
<1>1. file' \in Files /\ dirty' = FALSE /\ AllButTheEnd(file')
  BY SerializedKeeps DEF Lock
<1>2. CollTypeOK'
  BY <1>1 DEF Lock, CollInv, CollTypeOK, Files
<1>3. AllButTheEnd(file)'
  <2>1. wired' = {} /\ acl' = acl
    BY DEF Lock
  <2>. QED
    BY <1>1, <2>1 DEF AllButTheEnd
<1>. QED
  BY <1>1, <1>2, <1>3
  DEF Lock, CollInv, DirtyIsPending, SavedUnlessDirty, SearchFindsLive, WiredItemsLive,
      NothingWithoutObject

LEMMA SetApplicationPermissionKeeps ==
  ASSUME CollInv, NEW c \in Clients, NEW exists \in BOOLEAN, alive,
         SetApplicationPermission(c, exists)
  PROVE  CollInv'
<1>1. UNCHANGED <<file, alive, locked, key, mem, wired, hash, stale>>
  BY DEF SetApplicationPermission
<1>2. \/ ~locked /\ acl' = acl \cup {c} /\ dirty' /\ timer' /\ dirty' \in BOOLEAN
      \/ UNCHANGED <<acl, dirty, timer>>
  BY DEF SetApplicationPermission, Accepts, SetDirty, CollInv, CollTypeOK
<1>3. CollTypeOK'
  <2>1. acl' \in SUBSET Clients /\ dirty' \in BOOLEAN /\ timer' \in BOOLEAN
    BY DEF SetApplicationPermission, SetDirty, CollInv, CollTypeOK
  <2>. QED
    BY <1>1, <2>1 DEF CollInv, CollTypeOK
<1>4. SearchFindsLive'
  BY <1>1 DEF CollInv, SearchFindsLive, Live, Search
<1>5. DirtyIsPending' /\ SavedUnlessDirty'
  BY <1>1, <1>2, StillThere DEF CollInv, DirtyIsPending, SavedUnlessDirty
<1>. QED
  BY <1>1, <1>3, <1>4, <1>5 DEF CollInv, WiredItemsLive, NothingWithoutObject, Live

\* An item whose hash is entered is found by its attributes.
LEMMA ItemFound ==
  ASSUME CollTypeOK', NEW i \in hash', mem'[i] \in Items
  PROVE  i \in Search(mem[i].attributes)'
  BY DEF Search, CollTypeOK, Items

LEMMA CreateItemKeeps ==
  ASSUME CollInv, NEW item \in Items, NEW replace \in BOOLEAN, CreateItem(item, replace)
  PROVE  CollInv'
<1>. DEFINE Into(i) ==
       /\ mem' = [mem EXCEPT ![i] = item]
       /\ \/ i \in hash /\ wired' = wired /\ hash' = hash
          \/ wired' = wired \cup {i} /\ hash' = hash \cup {i}
<1>1. (\E i \in Ids : Into(i)) \/ UNCHANGED <<mem, wired, hash>>
  BY DEF CreateItem, MayFind, Search, CollInv, CollTypeOK
<1>2. /\ alive /\ alive' /\ ~locked /\ ~locked' /\ dirty' /\ timer'
      /\ UNCHANGED <<file, key, stale, acl>>
  BY DEF CreateItem, SetDirty, CollInv, CollTypeOK
<1>3. CollTypeOK'
  <2>1. mem' \in [Ids -> Items \cup {NoItem, Freed, Garbage}]
    BY <1>1 DEF CollInv, CollTypeOK
  <2>2. hash' \in SUBSET Ids /\ wired' \in SUBSET Ids
    BY <1>1 DEF CollInv, CollTypeOK
  <2>3. dirty' \in BOOLEAN /\ timer' \in BOOLEAN /\ alive' \in BOOLEAN /\ locked' \in BOOLEAN
    BY DEF CreateItem, SetDirty, CollInv, CollTypeOK
  <2>. QED
    BY <1>2, <2>1, <2>2, <2>3 DEF CollInv, CollTypeOK
<1>4. WiredItemsLive'
  <2>1. item \notin {NoItem, Freed}
    BY CollectionAssumption DEF Items
  <2>. QED
    BY <1>1, <1>2, <2>1 DEF CollInv, CollTypeOK, WiredItemsLive, Live
<1>5. SearchFindsLive'
  <2>. SUFFICES ASSUME NEW j \in Ids, mem'[j] \notin {NoItem, Freed, Garbage}
                PROVE  j \in Search(mem[j].attributes)'
    BY DEF SearchFindsLive, Live
  <2>1. mem'[j] \in Items
    BY <1>3 DEF CollTypeOK
  <2>2. CASE mem'[j] = mem[j]
    <3>1. j \in hash'
      BY <1>1, <1>2, <2>2 DEF CollInv, SearchFindsLive, Live, Search
    <3>. QED
      BY <1>3, <2>1, <3>1, ItemFound
  <2>3. CASE mem'[j] # mem[j]
    <3>1. j \in hash'
      BY <1>1, <2>3 DEF CollInv, CollTypeOK
    <3>. QED
      BY <1>3, <2>1, <3>1, ItemFound
  <2>. QED  BY <2>2, <2>3
<1>. QED
  BY <1>2, <1>3, <1>4, <1>5
  DEF CollInv, DirtyIsPending, SavedUnlessDirty, NothingWithoutObject

LEMMA ChangeItemKeeps ==
  ASSUME CollInv, NEW i \in Ids, NEW item \in Items, ChangeItem(i, item)
  PROVE  CollInv'
<1>1. alive /\ alive' /\ ~locked /\ ~locked' /\ wired' = wired /\ file' = file /\ acl' = acl
  BY DEF ChangeItem
<1>2. mem' = [mem EXCEPT ![i] = item] /\ hash' = hash \cup {i}
  BY DEF ChangeItem
<1>3. \/ i \in wired /\ dirty' /\ timer'
      \/ i \notin wired /\ dirty' = dirty /\ timer' = timer
  BY <1>1 DEF ChangeItem, SetDirty, CollInv, CollTypeOK
<1>4. CollTypeOK'
  BY <1>1, <1>2, <1>3 DEF ChangeItem, CollInv, CollTypeOK
<1>5. WiredItemsLive'
  <2>1. item \notin {NoItem, Freed}
    BY CollectionAssumption DEF Items
  <2>. QED
    BY <1>1, <1>2, <2>1 DEF CollInv, CollTypeOK, WiredItemsLive, Live
<1>6. SearchFindsLive'
  <2>. SUFFICES ASSUME NEW j \in Ids, mem'[j] \notin {NoItem, Freed, Garbage}
                PROVE  j \in Search(mem[j].attributes)'
    BY DEF SearchFindsLive, Live
  <2>1. mem'[j] \in Items
    BY <1>4 DEF CollTypeOK
  <2>2. j \in hash'
    <3>1. CASE j = i
      BY <1>2, <3>1
    <3>2. CASE j # i
      <4>1. mem'[j] = mem[j]
        BY <1>2, <3>2 DEF CollInv, CollTypeOK
      <4>. QED
        BY <1>1, <1>2, <4>1 DEF CollInv, SearchFindsLive, Live, Search
    <3>. QED  BY <3>1, <3>2
  <2>. QED
    BY <1>4, <2>1, <2>2, ItemFound
<1>7. SavedUnlessDirty'
  <2>1. i \notin wired => \A j \in wired : mem'[j] = mem[j]
    BY <1>2 DEF CollInv, CollTypeOK
  <2>. QED
    BY <1>1, <1>3, <2>1, StillThere DEF CollInv, SavedUnlessDirty
<1>. QED
  BY <1>1, <1>3, <1>4, <1>5, <1>6, <1>7
  DEF CollInv, DirtyIsPending, NothingWithoutObject

LEMMA DeleteItemKeeps ==
  ASSUME CollInv, NEW i \in Ids, DeleteItem(i)
  PROVE  CollInv'
<1>1. alive /\ alive' /\ ~locked /\ ~locked' /\ file' = file /\ acl' = acl
  BY DEF DeleteItem
<1>2. /\ \E gone \in {NoItem, Freed} : mem' = [mem EXCEPT ![i] = gone]
      /\ hash' = hash \ {i}
      /\ wired' = wired \ {i}
  BY DEF DeleteItem
<1>3. \/ i \in wired /\ dirty' /\ timer'
      \/ i \notin wired /\ dirty' = dirty /\ timer' = timer
  BY <1>1 DEF DeleteItem, SetDirty, CollInv, CollTypeOK
<1>4. CollTypeOK'
  BY <1>1, <1>2, <1>3 DEF DeleteItem, CollInv, CollTypeOK
<1>5. \A j \in Ids : j # i => mem'[j] = mem[j]
  BY <1>2 DEF CollInv, CollTypeOK
<1>6. mem'[i] \in {NoItem, Freed}
  BY <1>2 DEF CollInv, CollTypeOK
<1>7. SearchFindsLive'
  <2>. SUFFICES ASSUME NEW j \in Ids, mem'[j] \notin {NoItem, Freed, Garbage}
                PROVE  j \in Search(mem[j].attributes)'
    BY DEF SearchFindsLive, Live
  <2>1. mem'[j] \in Items
    BY <1>4 DEF CollTypeOK
  <2>2. j \in hash'
    BY <1>1, <1>2, <1>5, <1>6 DEF CollInv, SearchFindsLive, Live, Search
  <2>. QED
    BY <1>4, <2>1, <2>2, ItemFound
<1>8. WiredItemsLive' /\ SavedUnlessDirty'
  <2>1. wired' \subseteq wired /\ \A j \in wired' : mem'[j] = mem[j]
    BY <1>2, <1>5 DEF CollInv, CollTypeOK
  <2>. QED
    BY <1>1, <1>2, <1>3, <2>1, StillThere
    DEF CollInv, CollTypeOK, WiredItemsLive, SavedUnlessDirty, Live
<1>. QED
  BY <1>1, <1>3, <1>4, <1>7, <1>8 DEF CollInv, DirtyIsPending, NothingWithoutObject

LEMMA SyncKeeps ==
  ASSUME CollInv, Sync \/ SyncFails
  PROVE  CollInv'
<1>1. CASE Sync
  <2>1. CollTypeOK'
    BY <1>1, SerializedKeeps DEF Sync, CollInv, CollTypeOK, Files
  <2>2. SavedUnlessDirty'
    <3>1. alive /\ AllButTheEnd(file') /\ UNCHANGED <<wired, mem, acl>>
      BY <1>1, SerializedKeeps DEF Sync
    <3>. QED
      BY <3>1 DEF SavedUnlessDirty, AllButTheEnd
  <2>. QED
    BY <1>1, <2>1, <2>2, SerializedKeeps
    DEF Sync, CollInv, DirtyIsPending, SearchFindsLive, WiredItemsLive,
        NothingWithoutObject, Live, Search
<1>2. CASE SyncFails
  BY <1>2, UnchangedKeeps DEF SyncFails
<1>. QED  BY <1>1, <1>2

LEMMA ForgetKeeps ==
  ASSUME CollInv, Forget, file' \in {NoFile, file}, alive' \in BOOLEAN, locked' \in BOOLEAN
  PROVE  CollInv'
<1>1. CollTypeOK'
  BY NoFileType, CollectionAssumption DEF Forget, CollInv, CollTypeOK, Nothing
<1>2. SavedUnlessDirty'
  <2>1. wired' = {} /\ acl' = {}
    BY DEF Forget
  <2>. QED
    BY <2>1, FS_EmptySet, CollectionAssumption DEF SavedUnlessDirty, AllButTheEnd
<1>. QED
  BY <1>1, <1>2
  DEF Forget, CollInv, DirtyIsPending, SearchFindsLive, WiredItemsLive,
      NothingWithoutObject, Nothing, Live

-----------------------------------------------------------------------------
(* The jobs *)

JobsOK == job \in [Clients -> {"none", "newPassword", "newAcl", "password", "acl", "orphan"}]

ResultsOK == result \in [Clients -> {"none", "true", "false", "failedTwice"}]

\* Asking keeps the state of the jobs well formed, and is allowed with a collection.
LEMMA AskUserKeeps ==
  ASSUME JobsOK, ResultsOK, DialogsHaveCollection, NEW c \in Clients,
         NEW dialog \in {"newPassword", "newAcl", "password", "acl"}, AskUser(c, dialog),
         alive => alive', dialog # "newPassword" => alive'
  PROVE  JobsOK' /\ ResultsOK' /\ DialogsHaveCollection'
  BY DEF AskUser, JobsOK, ResultsOK, DialogsHaveCollection

LEMMA EmitResultKeeps ==
  ASSUME JobsOK, ResultsOK, DialogsHaveCollection, NEW c \in Clients, NEW r,
         EmitResult(c, r), alive => alive'
  PROVE  JobsOK' /\ ResultsOK' /\ DialogsHaveCollection'
  BY DEF EmitResult, JobsOK, ResultsOK, DialogsHaveCollection

LEMMA EmitTwiceKeeps ==
  ASSUME JobsOK, ResultsOK, DialogsHaveCollection, NEW c \in Clients,
         EmitTwice(c), alive => alive'
  PROVE  JobsOK' /\ ResultsOK' /\ DialogsHaveCollection'
  BY DEF EmitTwice, JobsOK, ResultsOK, DialogsHaveCollection

LEMMA CreationKeeps ==
  ASSUME IInv, NEW c \in Clients,
         \/ StartCreate(c) \/ NotCreated(c)
         \/ \E w \in Passwords, lockIt \in BOOLEAN : NewPassword(c, w, lockIt)
         \/ \E exists \in BOOLEAN : NewPermission(c, exists)
  PROVE  IInv'
<1>. USE DEF IInv, TypeOK, CollInv, JobsOK, ResultsOK
<1>1. CASE StartCreate(c)
  BY <1>1, UnchangedKeeps, AskUserKeeps DEF StartCreate, collVars
<1>2. CASE NotCreated(c)
  BY <1>2, UnchangedKeeps, EmitResultKeeps DEF NotCreated, collVars
<1>3. ASSUME NEW w \in Passwords, NEW lockIt \in BOOLEAN, NewPassword(c, w, lockIt)
      PROVE  IInv'
  BY <1>3, CreateKeeps, AskUserKeeps DEF NewPassword, Create
<1>4. ASSUME NEW exists \in BOOLEAN, NewPermission(c, exists)
      PROVE  IInv'
  <2>1. alive /\ alive' = alive
    BY <1>4 DEF NewPermission, SetApplicationPermission, DialogsHaveCollection
  <2>. QED
    BY <1>4, <2>1, SetApplicationPermissionKeeps, EmitResultKeeps, EmitTwiceKeeps DEF NewPermission
<1>. QED  BY <1>1, <1>2, <1>3, <1>4

LEMMA UnlockingKeeps ==
  ASSUME IInv, NEW c \in Clients,
         \/ StartUnlock(c) \/ UnlockCancelled(c)
         \/ \E w \in Passwords : Password(c, w)
         \/ \E exists \in BOOLEAN : Permission(c, exists)
  PROVE  IInv'
<1>. USE DEF IInv, TypeOK, CollInv, JobsOK, ResultsOK
<1>1. CASE StartUnlock(c)
  BY <1>1, UnchangedKeeps, AskUserKeeps, EmitResultKeeps DEF StartUnlock, collVars
<1>2. CASE UnlockCancelled(c)
  BY <1>2, UnchangedKeeps, EmitResultKeeps DEF UnlockCancelled, collVars
<1>3. ASSUME NEW w \in Passwords, Password(c, w)
      PROVE  IInv'
  <2>1. alive /\ alive' = alive /\ TryUnlockPassword(w)
    BY <1>3 DEF Password, TryUnlockPassword, DialogsHaveCollection
  <2>2. JobsOK' /\ ResultsOK' /\ DialogsHaveCollection'
    BY <1>3, <2>1, AskUserKeeps, EmitResultKeeps DEF Password
  <2>. QED
    BY <2>1, <2>2, TryUnlockPasswordKeeps
<1>4. ASSUME NEW exists \in BOOLEAN, Permission(c, exists)
      PROVE  IInv'
  <2>1. alive /\ alive' = alive
    BY <1>4 DEF Permission, SetApplicationPermission, DialogsHaveCollection
  <2>. QED
    BY <1>4, <2>1, SetApplicationPermissionKeeps, EmitResultKeeps DEF Permission
<1>. QED  BY <1>1, <1>2, <1>3, <1>4

LEMMA EndingKeeps ==
  ASSUME IInv, NEW c \in Clients, LockJob(c) \/ DeleteJob(c) \/ Orphaned(c)
  PROVE  IInv'
<1>. USE DEF IInv, TypeOK, CollInv, JobsOK, ResultsOK
<1>1. CASE LockJob(c)
  <2>1. CASE Lock /\ EmitResult(c, TRUE)
    BY <1>1, <2>1, LockKeeps, EmitResultKeeps DEF LockJob, Lock
  <2>2. CASE (EmitResult(c, TRUE) \/ EmitResult(c, FALSE)) /\ UNCHANGED collVars
    BY <2>2, UnchangedKeeps, EmitResultKeeps DEF collVars
  <2>. QED  BY <1>1, <2>1, <2>2 DEF LockJob
<1>2. CASE DeleteJob(c)
  <2>1. CollInv'
    BY <1>2, ForgetKeeps DEF DeleteJob, DeleteCollection
  <2>2. JobsOK' /\ ResultsOK' /\ DialogsHaveCollection'
    BY <1>2 DEF DeleteJob, DialogsHaveCollection
  <2>. QED  BY <2>1, <2>2
<1>3. CASE Orphaned(c)
  BY <1>3, UnchangedKeeps, EmitResultKeeps DEF Orphaned, collVars
<1>. QED  BY <1>1, <1>2, <1>3

LEMMA ItemJobKeeps ==
  ASSUME IInv, ItemJob
  PROVE  IInv'
<1>1. CollInv'
  BY CreateItemKeeps, ChangeItemKeeps, DeleteItemKeeps DEF ItemJob, IInv, TypeOK, CollInv
<1>2. alive' = alive /\ job' = job /\ result' = result
  BY DEF ItemJob, CreateItem, ChangeItem, DeleteItem
<1>. QED
  BY <1>1, <1>2 DEF IInv, TypeOK, CollInv, DialogsHaveCollection

LEMMA SyncTimerKeeps ==
  ASSUME IInv, SyncTimer
  PROVE  IInv'
<1>1. CollInv'
  BY SyncKeeps DEF SyncTimer, IInv, TypeOK, CollInv
<1>2. alive' = alive /\ job' = job /\ result' = result
  BY DEF SyncTimer, Sync, SyncFails, collVars
<1>. QED
  BY <1>1, <1>2 DEF IInv, TypeOK, CollInv, DialogsHaveCollection

LEMMA RestartKeeps ==
  ASSUME IInv, Restart
  PROVE  IInv'
<1>1. CollInv'
  BY ForgetKeeps DEF Restart, Crash, IInv, TypeOK, CollInv, CollTypeOK
<1>. QED
  BY <1>1 DEF Restart, IInv, TypeOK, CollInv, DialogsHaveCollection

-----------------------------------------------------------------------------
(* The theorems *)

\* Every reachable state satisfies the inductive invariant: a dialog that closes
\* finds the collection it was opened for, and the parts below.
THEOREM Inductive == Spec => []IInv
<1>1. Init => IInv
  BY InitKeeps DEF Init, IInv, TypeOK, CollInv, DialogsHaveCollection
<1>2. IInv /\ [Next]_vars => IInv'
  <2>. SUFFICES ASSUME IInv, [Next]_vars PROVE IInv'
    OBVIOUS
  <2>1. CASE UNCHANGED vars
    <3>1. CollInv'
      BY <2>1, UnchangedKeeps DEF vars, IInv, TypeOK, CollInv
    <3>. QED
      BY <2>1, <3>1 DEF vars, collVars, IInv, TypeOK, CollInv, DialogsHaveCollection
  <2>2. CASE Next
    BY <2>2, CreationKeeps, UnlockingKeeps, EndingKeeps, ItemJobKeeps, SyncTimerKeeps,
       RestartKeeps
    DEF Next
  <2>. QED  BY <2>1, <2>2
<1>. QED  BY <1>1, <1>2, PTL DEF Spec

\* The variables of the collection and of its jobs keep their types.
THEOREM TypeCorrect == Spec => []TypeOK
<1>1. IInv => TypeOK
  BY DEF IInv
<1>. QED  BY <1>1, Inductive, PTL

\* setDirty, lock, sync: unsaved changes always have a running timer, and are
\* never left in a locked collection or without one.
THEOREM DirtyPending == Spec => []DirtyIsPending
<1>1. IInv => DirtyIsPending
  BY DEF IInv
<1>. QED  BY <1>1, Inductive, PTL

\* serialize: the file of a clean open collection has the items that clients created
\* since it was opened, as they are in memory, all but the few at the end of the
\* stream; and the permissions, also of a locked collection, if any item got there whole.
THEOREM SavedWhenClean == Spec => []SavedUnlessDirty
<1>1. IInv => SavedUnlessDirty
  BY DEF IInv
<1>. QED  BY <1>1, Inductive, PTL

\* searchItems: an item that a client can still reach is found by its attributes.
THEOREM SearchComplete == Spec => []SearchFindsLive
<1>1. IInv => SearchFindsLive
  BY DEF IInv
<1>. QED  BY <1>1, Inductive, PTL

\* KSecretUnlockCollectionJob reports success after its dialogs only about a
\* collection that exists and is open at that moment.
THEOREM UnlockIsReal == Spec => UnlockReported
<1>. DEFINE Reported ==
       \A c \in Clients :
         job[c] \in {"password", "acl"} /\ job'[c] = "none" /\ result'[c] = "true"
           => alive' /\ ~locked'
<1>1. IInv /\ [Next]_vars => [Reported]_vars
  <2>. SUFFICES ASSUME IInv, Next, NEW c \in Clients,
                       job[c] \in {"password", "acl"}, job'[c] = "none", result'[c] = "true"
                PROVE  alive' /\ ~locked'
    BY DEF vars
  <2>1. alive
    BY DEF IInv, DialogsHaveCollection
  <2>2. job'[c] # job[c]
    OBVIOUS
  <2>3. ~ItemJob /\ ~SyncTimer
    BY <2>2 DEF ItemJob, SyncTimer
  <2>4. ~Restart
    BY DEF Restart
  <2>5. PICK d \in Clients :
          \/ StartCreate(d) \/ NotCreated(d)
          \/ \E w \in Passwords, lockIt \in BOOLEAN : NewPassword(d, w, lockIt)
          \/ \E exists \in BOOLEAN : NewPermission(d, exists) \/ Permission(d, exists)
          \/ StartUnlock(d) \/ UnlockCancelled(d)
          \/ \E w \in Passwords : Password(d, w)
          \/ LockJob(d) \/ DeleteJob(d) \/ Orphaned(d)
    BY <2>3, <2>4 DEF Next
  <2>6. ~DeleteJob(d)
    BY DEF DeleteJob, IInv, TypeOK
  <2>7. d = c
    <3>. SUFFICES ASSUME d # c PROVE job'[c] = job[c]
      BY <2>2
    <3>. QED
      BY <2>5, <2>6
      DEF StartCreate, NotCreated, NewPassword, NewPermission, Permission, StartUnlock,
          UnlockCancelled, Password, LockJob, Orphaned, AskUser, EmitResult, EmitTwice, IInv, TypeOK
  <2>8. ~UnlockCancelled(c)
    BY DEF UnlockCancelled, EmitResult, IInv, TypeOK
  <2>9. \/ \E exists \in BOOLEAN : Permission(c, exists)
        \/ \E w \in Passwords : Password(c, w)
    BY <2>5, <2>6, <2>7, <2>8
    DEF StartCreate, NotCreated, NewPassword, NewPermission, StartUnlock, LockJob, Orphaned
  <2>10. ASSUME NEW exists \in BOOLEAN, Permission(c, exists)
         PROVE  alive' /\ ~locked'
    <3>1. Accepts(exists)
      BY <2>10 DEF Permission, EmitResult, IInv, TypeOK
    <3>. QED
      BY <2>1, <2>10, <3>1 DEF Permission, SetApplicationPermission, Accepts
  <2>11. ASSUME NEW w \in Passwords, Password(c, w)
         PROVE  alive' /\ ~locked'
    <3>1. ~AskUser(c, "password")
      BY DEF AskUser, IInv, TypeOK
    <3>. QED
      BY <2>1, <2>11, <3>1 DEF Password, TryUnlockPassword
  <2>. QED  BY <2>9, <2>10, <2>11
<1>. QED  BY <1>1, Inductive, PTL DEF Spec, UnlockReported

-----------------------------------------------------------------------------
\* Who was told that a collection is locked did nothing else; neither an ended
\* job nor the end of the daemon says so.
LEMMA OnlyLockLocks ==
  ASSUME IInv, Next, NEW c \in Clients, result'[c] = "true", alive, ~locked, locked'
  PROVE  \E d \in Clients : LockJob(d) /\ Lock
<1>1. ~Restart
  BY DEF Restart
<1>2. ~ItemJob
  BY DEF ItemJob, CreateItem, ChangeItem, DeleteItem
<1>3. ~SyncTimer
  BY DEF SyncTimer, Sync, SyncFails, collVars
<1>4. ASSUME NEW d \in Clients PROVE ~DeleteJob(d)
  BY DEF DeleteJob, DeleteCollection
<1>5. ASSUME NEW d \in Clients
      PROVE  /\ ~StartCreate(d) /\ ~NotCreated(d) /\ ~StartUnlock(d) /\ ~UnlockCancelled(d)
             /\ ~Orphaned(d)
  BY DEF StartCreate, NotCreated, StartUnlock, UnlockCancelled, Orphaned, collVars
<1>6. ASSUME NEW d \in Clients, NEW w \in Passwords, NEW lockIt \in BOOLEAN
      PROVE  ~NewPassword(d, w, lockIt) /\ ~Password(d, w)
  BY DEF NewPassword, Create, Password, TryUnlockPassword
<1>7. ASSUME NEW d \in Clients, NEW exists \in BOOLEAN
      PROVE  ~NewPermission(d, exists) /\ ~Permission(d, exists)
  BY DEF NewPermission, Permission, SetApplicationPermission
<1>8. PICK d \in Clients : LockJob(d)
  BY <1>1, <1>2, <1>3, <1>4, <1>5, <1>6, <1>7 DEF Next
<1>. QED
  BY <1>8 DEF LockJob, collVars

\* In a locked collection only its deletion touches the file: the timer that was
\* left running finds nothing to write.
LEMMA LockedFileStays ==
  ASSUME IInv, Next, alive, locked, file' # file
  PROVE  ~file'.present
<1>1. ~dirty
  BY DEF IInv, DirtyIsPending
<1>2. \E d \in Clients : DeleteJob(d)
  <2>1. ~Restart /\ ~ItemJob /\ ~SyncTimer
    BY <1>1 DEF Restart, Crash, ItemJob, CreateItem, ChangeItem, DeleteItem, SyncTimer, Sync,
                SyncFails, Serialized, collVars
  <2>2. ASSUME NEW d \in Clients
        PROVE  /\ ~StartCreate(d) /\ ~NotCreated(d) /\ ~StartUnlock(d) /\ ~UnlockCancelled(d)
               /\ ~Orphaned(d) /\ ~LockJob(d)
    BY <1>1 DEF StartCreate, NotCreated, StartUnlock, UnlockCancelled, Orphaned, LockJob, collVars
  <2>3. ASSUME NEW d \in Clients, NEW w \in Passwords, NEW lockIt \in BOOLEAN
        PROVE  ~NewPassword(d, w, lockIt) /\ ~Password(d, w)
    BY DEF NewPassword, Create, Password, TryUnlockPassword
  <2>4. ASSUME NEW d \in Clients, NEW exists \in BOOLEAN
        PROVE  ~NewPermission(d, exists) /\ ~Permission(d, exists)
    BY DEF NewPermission, Permission, SetApplicationPermission
  <2>. QED
    BY <2>1, <2>2, <2>3, <2>4 DEF Next
<1>. QED
  BY <1>2 DEF DeleteJob, DeleteCollection, NoFile

\* KSecretLockCollectionJob, lock, serialize: the result of a lock job means that
\* what the collection held, all but the end that the save cut off, is on the disk,
\* and stays there while it is locked.
THEOREM LockIsKept == Spec => LockKeepsChanges
<1>. DEFINE Kept ==
       /\ (\E c \in Clients : result'[c] = "true") /\ alive /\ ~locked /\ locked'
            => AllButTheEnd(file')
       /\ alive /\ locked /\ file' # file => ~file'.present
<1>1. IInv /\ [Next]_vars => [Kept]_vars
  <2>. SUFFICES ASSUME IInv, Next PROVE Kept
    OBVIOUS
  <2>1. ASSUME NEW c \in Clients, result'[c] = "true", alive, ~locked, locked'
        PROVE  AllButTheEnd(file')
    <3>1. CollInv /\ Serialized
      BY <2>1, OnlyLockLocks DEF IInv, TypeOK, CollInv, Lock
    <3>. QED
      BY <2>1, <3>1, SerializedKeeps
  <2>. QED
    BY <2>1, LockedFileStays
<1>. QED  BY <1>1, Inductive, PTL DEF Spec, LockKeepsChanges
=============================================================================
