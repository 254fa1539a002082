------------------------- MODULE SecretsFileProofs -------------------------
(***************************************************************************)
(* What TLAPS proves of SecretsFile for any number of processes, inodes    *)
(* and collections, with every fault possible.                             *)
(***************************************************************************)
EXTENDS SecretsFile, TLAPS

-----------------------------------------------------------------------------
(* The inodes *)

\* creat() and mkostemp() return an inode that nothing refers to.
LEMMA NewInodeFree ==
  ASSUME FreeInodes # {}
  PROVE  /\ NewInode \in Inodes
         /\ \A s \in Stores : NewInode # readFile[s]
<1>1. NewInode \in FreeInodes
  BY DEF NewInode
<1>. QED
  BY <1>1 DEF FreeInodes, Referenced

-----------------------------------------------------------------------------
(* Type correctness *)

LEMMA TypingInit == Init => TypeOK
  BY ConstantsAssumption
  DEF Init, TypeOK, Content, Empty, Populated, Entities, Steps, Statuses

LEMMA TypingSetup ==
  ASSUME TypeOK, NEW s \in Stores,
         SetupStat(s) \/ Unlink(s)
  PROVE  TypeOK'
<1>. USE DEF TypeOK, Put, Steps, fsVars, fdVars, objVars, memVars
<1>1. CASE SetupStat(s)
  BY <1>1 DEF SetupStat
<1>2. CASE Unlink(s)
  BY <1>2 DEF Unlink
<1>. QED  BY <1>1, <1>2

\* Writing a part of a file keeps its contents well formed.
LEMMA MarkType ==
  ASSUME data \in [Inodes -> Content], NEW i,
         NEW k \in {"empty", "torn", "headed", "sealed"}, NEW b \in Stores \cup {NoStore}
  PROVE  Mark(i, k, b) \in [Inodes -> Content]
<1>1. CASE i \in Inodes
  <2>1. [data[i] EXCEPT !.kind = k, !.by = b] \in Content
    BY <1>1 DEF Content
  <2>. QED  BY <2>1, <1>1 DEF Mark, Put
<1>2. CASE i \notin Inodes
  BY <1>2 DEF Mark, Put
<1>. QED  BY <1>1, <1>2

LEMMA TypingCreation ==
  ASSUME TypeOK, NEW s \in Stores,
         Creat(s) \/ WriteNewHeader(s) \/ WriteNewRest(s)
  PROVE  TypeOK'
<1>. USE DEF TypeOK, Put, Steps, Statuses, SetupFailed, memVars
<1>1. CASE Creat(s)
  <2>1. Empty \in Content
    BY DEF Content, Empty
  <2>. QED
    BY <1>1, <2>1, NewInodeFree DEF Creat
<1>2. CASE WriteNewHeader(s)
  <2>1. /\ Mark(work[s], "headed", s) \in [Inodes -> Content]
        /\ Mark(work[s], "torn", NoStore) \in [Inodes -> Content]
    BY MarkType
  <2>2. data' \in [Inodes -> Content]
    BY <1>2, <2>1 DEF WriteNewHeader
  <2>. QED
    BY <1>2, <2>2 DEF WriteNewHeader
<1>3. CASE WriteNewRest(s)
  <2>. DEFINE by == data[work[s]].by
  <2>1. CASE data' = data
    BY <1>3, <2>1 DEF WriteNewRest
  <2>2. CASE data' # data
    <3>1. by \in Stores \cup {NoStore}
      BY <1>3, <2>2 DEF WriteNewRest, Content, Mark
    <3>2. data' \in [Inodes -> Content]
      <4>. HIDE DEF by
      <4>1. Mark(work[s], IF by = s THEN "sealed" ELSE "headed", by) \in [Inodes -> Content]
        BY <3>1, MarkType
      <4>. QED
        BY <1>3, <2>2, <4>1 DEF WriteNewRest, by
    <3>. QED
      BY <1>3, <3>2 DEF WriteNewRest
  <2>. QED  BY <2>1, <2>2
<1>. QED  BY <1>1, <1>2, <1>3

\* NotSaved leaves the call; OpenFailed and SetupFailed report the result.
LEMMA OpenFailedType ==
  ASSUME TypeOK, NEW s \in Stores, NEW r \in Statuses, OpenFailed(s, r)
  PROVE  /\ pc' \in [Stores -> Steps]
         /\ stage' = stage
         /\ want' \in [Stores -> Collections \cup {NoCollection}]
         /\ status' \in [Stores -> Statuses]
         /\ acked' = acked
  BY DEF OpenFailed, SetupFailed, NotSaved, TypeOK, Put, Steps

LEMMA TypingOpening ==
  ASSUME TypeOK, NEW s \in Stores, Open(s) \/ Lock(s)
  PROVE  TypeOK'
<1>1. /\ pc' \in [Stores -> Steps]
      /\ stage' = stage
      /\ want' \in [Stores -> Collections \cup {NoCollection}]
      /\ status' \in [Stores -> Statuses]
      /\ acked' = acked
  <2>1. CASE OpenFailed(s, "CannotOpenFile") \/ OpenFailed(s, "CannotLockFile")
    BY <2>1, OpenFailedType DEF Statuses
  <2>2. CASE ~(OpenFailed(s, "CannotOpenFile") \/ OpenFailed(s, "CannotLockFile"))
    BY <2>2 DEF Open, Lock, TypeOK, Put, Steps
  <2>. QED  BY <2>1, <2>2
<1>2. CASE Open(s)
  BY <1>1, <1>2 DEF Open, TypeOK, Put, fsVars, memVars
<1>3. CASE Lock(s)
  BY <1>1, <1>3 DEF Lock, TypeOK, Put, fsVars, memVars
<1>. QED  BY <1>2, <1>3

LEMMA LoadType ==
  ASSUME TypeOK, NEW s \in Stores, NEW d \in Content, Load(s, d)
  PROVE  /\ ents' \in [Stores -> SUBSET Entities]
         /\ dir' \in [Stores -> SUBSET Collections]
         /\ worn' \in [Stores -> SUBSET Entities]
<1>1. /\ d.ents \in SUBSET Entities
      /\ d.dir \in SUBSET Collections
      /\ d.bad \in SUBSET Entities
  BY DEF Content
<1>. QED  BY <1>1 DEF Load, TypeOK, Put

LEMMA AddCollectionType ==
  ASSUME TypeOK, NEW s \in Stores, NEW c \in Collections, AddCollection(s, c)
  PROVE  /\ ents' \in [Stores -> SUBSET Entities]
         /\ dir' \in [Stores -> SUBSET Collections]
         /\ worn' \in [Stores -> SUBSET Entities]
  BY DEF AddCollection, TypeOK, Put, Entities

\* What reading contents may leave behind.
LEMMA ReadOutcomesType ==
  ASSUME TypeOK, NEW s \in Stores, NEW d \in Content, NEW o \in ReadOutcomes(s, d)
  PROVE  /\ o.result \in Statuses
         /\ o.head \in BOOLEAN
         /\ o.eof \in BOOLEAN
  BY DEF ReadOutcomes

LEMMA TypingRead ==
  ASSUME TypeOK, DescriptorOpen, SavingSomething, NEW s \in Stores, Read(s)
  PROVE  TypeOK'
<1>. DEFINE d == data[readFile[s]]
<1>1. d \in Content
  BY DEF Read, DescriptorOpen, TypeOK
<1>2. PICK o \in ReadOutcomes(s, d) :
        /\ headOk' = Put(headOk, s, o.head)
        /\ eof' = Put(eof, s, o.eof)
        /\ \/ /\ stage[s] = "setup"
              /\ status' = Put(status, s, "Good")
              /\ pc' = Put(pc, s, "ready")
              /\ Load(s, d)
              /\ UNCHANGED <<stage, want, acked>>
           \/ /\ stage[s] # "setup"
              /\ Saved(s)
              /\ UNCHANGED status
           \/ /\ OpenFailed(s, o.result)
              /\ UNCHANGED memVars
  BY DEF Read
<1>. HIDE DEF d
<1>3. /\ o.result \in Statuses
      /\ o.head \in BOOLEAN
      /\ o.eof \in BOOLEAN
  BY <1>1, ReadOutcomesType
<1>4. /\ ents' \in [Stores -> SUBSET Entities]
      /\ dir' \in [Stores -> SUBSET Collections]
      /\ worn' \in [Stores -> SUBSET Entities]
      /\ pc' \in [Stores -> Steps]
      /\ stage' \in [Stores -> {"setup", "dir", "coll"}]
      /\ want' \in [Stores -> Collections \cup {NoCollection}]
      /\ status' \in [Stores -> Statuses]
      /\ acked' \in SUBSET Collections
  <2>1. CASE Load(s, d) /\ status' = Put(status, s, "Good")
             /\ pc' = Put(pc, s, "ready") /\ UNCHANGED <<stage, want, acked>>
    BY <1>1, <2>1, LoadType DEF TypeOK, Put, Steps, Statuses
  <2>2. CASE stage[s] # "setup" /\ Saved(s) /\ UNCHANGED status
    <3>1. want[s] \in Collections
      BY <2>2 DEF Read, SavingSomething
    <3>2. CASE AddCollection(s, want[s])
      BY <2>2, <3>1, <3>2, AddCollectionType DEF Saved, TypeOK, Put, Steps, memVars
    <3>3. CASE UNCHANGED memVars
      BY <2>2, <3>1, <3>3 DEF Saved, TypeOK, Put, Steps, memVars
    <3>. QED  BY <2>2, <3>2, <3>3 DEF Saved
  <2>3. CASE OpenFailed(s, o.result) /\ UNCHANGED memVars
    BY <1>3, <2>3, OpenFailedType DEF TypeOK, memVars
  <2>. QED  BY <1>2, <2>1, <2>2, <2>3
<1>. QED
  BY <1>2, <1>3, <1>4 DEF Read, TypeOK, Put, fsVars, fdVars

LEMMA NotSavedType ==
  ASSUME TypeOK, NEW s \in Stores, NotSaved(s)
  PROVE  /\ pc' \in [Stores -> Steps]
         /\ stage' = stage
         /\ want' \in [Stores -> Collections \cup {NoCollection}]
         /\ acked' = acked
  BY DEF NotSaved, TypeOK, Put, Steps

LEMMA ImageType ==
  ASSUME TypeOK, NEW s \in Stores
  PROVE  Image(s) \in Content
  BY DEF Image, TypeOK, Content

LEMMA TypingCreate ==
  ASSUME TypeOK, NEW s \in Stores, NEW c \in Collections, CreateCollection(s, c)
  PROVE  TypeOK'
<1>1. /\ ents' \in [Stores -> SUBSET Entities]
      /\ dir' \in [Stores -> SUBSET Collections]
      /\ worn' \in [Stores -> SUBSET Entities]
  <2>1. CASE AddCollection(s, c)
    BY <2>1, AddCollectionType
  <2>2. CASE ents' = Put(ents, s, ents[s] \cup {Dir}) /\ UNCHANGED <<dir, worn>>
    BY <2>2 DEF TypeOK, Put, Entities
  <2>. QED  BY <2>1, <2>2 DEF CreateCollection
<1>2. creates' \in [Stores -> 0 .. MaxCreates]
  BY ConstantsAssumption DEF CreateCollection, TypeOK, Put
<1>. QED
  BY <1>1, <1>2 DEF CreateCollection, TypeOK, Put, Steps, fsVars, fdVars, objVars

LEMMA TypingWriteTemp ==
  ASSUME TypeOK, NEW s \in Stores, WriteTemp(s)
  PROVE  TypeOK'
<1>1. worn' \in [Stores -> SUBSET Entities]
  BY DEF WriteTemp, Wear, TypeOK, Put
<1>2. /\ pc' \in [Stores -> Steps]
      /\ stage' = stage
      /\ want' \in [Stores -> Collections \cup {NoCollection}]
      /\ acked' = acked
  <2>1. CASE NotSaved(s)
    BY <2>1, NotSavedType
  <2>2. CASE ~NotSaved(s)
    BY <2>2 DEF WriteTemp, TypeOK, Put, Steps
  <2>. QED  BY <2>1, <2>2
<1>3. /\ data' \in [Inodes -> Content]
      /\ work' \in [Stores -> Inodes \cup {NoInode}]
      /\ writeOpen' \in [Stores -> BOOLEAN]
  <2>1. Image(s) \in Content
    BY ImageType
  <2>2. FreeInodes # {} => NewInode \in Inodes
    BY NewInodeFree
  <2>3. CASE UNCHANGED <<data, work>>
    BY <2>3 DEF WriteTemp, TypeOK, Put
  <2>4. CASE /\ work' = Put(work, s, NewInode)
             /\ data' = Put(data, NewInode, Image(s))
             /\ writeOpen' = Put(writeOpen, s, FALSE)
             /\ FreeInodes # {}
    <3>. HIDE DEF NewInode, Image, FreeInodes
    <3>. QED  BY <2>1, <2>2, <2>4 DEF TypeOK, Put
  <2>. QED  BY <2>3, <2>4 DEF WriteTemp
<1>. QED
  BY <1>1, <1>2, <1>3 DEF WriteTemp, TypeOK, objVars

LEMMA TypingReplace ==
  ASSUME TypeOK, NEW s \in Stores,
         CloseRead(s) \/ Backup(s) \/ Install(s)
  PROVE  TypeOK'
<1>. USE DEF TypeOK, Put, fsVars, objVars, memVars
<1>1. CASE CloseRead(s)
  BY <1>1 DEF CloseRead, Steps
<1>2. CASE NotSaved(s) /\ (Backup(s) \/ Install(s))
  BY <1>2, NotSavedType DEF Backup, Install
<1>3. CASE ~NotSaved(s) /\ Backup(s)
  BY <1>3 DEF Backup, Steps
<1>4. CASE ~NotSaved(s) /\ Install(s)
  BY <1>4 DEF Install, Steps
<1>. QED  BY <1>1, <1>2, <1>3, <1>4

LEMMA TypingForget ==
  ASSUME TypeOK, NEW s \in Stores, Forget(s)
  PROVE  TypeOK'
  BY ConstantsAssumption DEF Forget, TypeOK, Put, Steps, Statuses, fsVars

LEMMA TypingStep ==
  ASSUME TypeOK, DescriptorOpen, SavingSomething, [Next]_vars
  PROVE  TypeOK'
<1>1. CASE UNCHANGED vars
  BY <1>1 DEF vars, fsVars, fdVars, objVars, memVars, ctlVars, TypeOK
<1>2. ASSUME NEW s \in Stores, SetupStat(s) \/ Unlink(s)
      PROVE  TypeOK'
  BY <1>2, TypingSetup
<1>3. ASSUME NEW s \in Stores, Creat(s) \/ WriteNewHeader(s) \/ WriteNewRest(s)
      PROVE  TypeOK'
  BY <1>3, TypingCreation
<1>4. ASSUME NEW s \in Stores, Open(s) \/ Lock(s)
      PROVE  TypeOK'
  BY <1>4, TypingOpening
<1>5. ASSUME NEW s \in Stores, Read(s)
      PROVE  TypeOK'
  BY <1>5, TypingRead
<1>6. ASSUME NEW s \in Stores, NEW c \in Collections, CreateCollection(s, c)
      PROVE  TypeOK'
  BY <1>6, TypingCreate
<1>7. ASSUME NEW s \in Stores, WriteTemp(s)
      PROVE  TypeOK'
  BY <1>7, TypingWriteTemp
<1>8. ASSUME NEW s \in Stores, CloseRead(s) \/ Backup(s) \/ Install(s)
      PROVE  TypeOK'
  BY <1>8, TypingReplace
<1>9. ASSUME NEW s \in Stores, Destroy(s) \/ Crash(s)
      PROVE  TypeOK'
  BY <1>9, TypingForget DEF Destroy, Crash
<1>. QED
  BY <1>1, <1>2, <1>3, <1>4, <1>5, <1>6, <1>7, <1>8, <1>9 DEF Next, SystemCall

-----------------------------------------------------------------------------
(* Who is where: descriptors, the call in progress, the flock *)

\* How the store s moves on; every other store keeps its own state.
LEMMA OthersKeep ==
  ASSUME TypeOK, NEW s \in Stores, NEW t \in Stores, s # t,
         \/ SetupStat(s) \/ SystemCall(s) \/ Lock(s) \/ Destroy(s) \/ Crash(s)
         \/ \E c \in Collections : CreateCollection(s, c)
  PROVE  /\ pc'[t] = pc[t]
         /\ stage'[t] = stage[t]
         /\ want'[t] = want[t]
         /\ readFile'[t] = readFile[t]
         /\ flock'[t] = flock[t]
         /\ ents'[t] = ents[t]
         /\ dir'[t] = dir[t]
<1>. USE DEF TypeOK, Put, fsVars, fdVars, objVars, memVars, NotSaved, SetupFailed,
             OpenFailed
<1>1. CASE SetupStat(s)
  BY <1>1 DEF SetupStat
<1>2. CASE Unlink(s) \/ Creat(s) \/ WriteNewHeader(s) \/ WriteNewRest(s)
  BY <1>2 DEF Unlink, Creat, WriteNewHeader, WriteNewRest
<1>3. CASE Open(s) \/ Lock(s)
  BY <1>3 DEF Open, Lock
<1>4. CASE Read(s)
  BY <1>4 DEF Read, Load, Saved, AddCollection
<1>5. CASE WriteTemp(s)
  BY <1>5 DEF WriteTemp, Wear
<1>6. CASE CloseRead(s) \/ Backup(s) \/ Install(s)
  BY <1>6 DEF CloseRead, Backup, Install
<1>7. CASE Destroy(s) \/ Crash(s)
  BY <1>7 DEF Destroy, Crash, Forget
<1>8. CASE \E c \in Collections : CreateCollection(s, c)
  BY <1>8 DEF CreateCollection, AddCollection
<1>. QED
  BY <1>1, <1>2, <1>3, <1>4, <1>5, <1>6, <1>7, <1>8 DEF SystemCall

\* The parts of the invariant that speak of one store.
Placed(s) ==
  /\ pc[s] \in {"lock", "read"} => readFile[s] \in Inodes
  /\ pc[s] \in {"unlink", "creat", "header", "rest"} => stage[s] = "setup"
  /\ pc[s] \in {"temp", "close", "backup", "install"} => stage[s] # "setup"
  /\ pc[s] \in {"temp", "close", "backup", "install", "open", "lock", "read"}
     /\ stage[s] # "setup"
       => want[s] \in Collections /\ Dir \in ents[s]
  /\ flock[s] => /\ readFile[s] \in Inodes
                 /\ pc[s] \in {"read", "ready", "temp", "close", "aborted"}

LEMMA PlacedEverywhere ==
  (\A s \in Stores : Placed(s)) <=> DescriptorOpen /\ SavingSomething /\ LockHeldAt
  BY DEF Placed, DescriptorOpen, SavingSomething, LockHeldAt

\* Where a step of s leaves s.
LEMMA PlacedStep ==
  ASSUME TypeOK, NEW s \in Stores, Placed(s),
         \/ SetupStat(s) \/ SystemCall(s) \/ Lock(s) \/ Destroy(s) \/ Crash(s)
         \/ \E c \in Collections : CreateCollection(s, c)
  PROVE  Placed(s)'
<1>. USE DEF Placed, TypeOK, Put, fsVars, fdVars, objVars, memVars, NotSaved,
             SetupFailed, OpenFailed
<1>1. CASE SetupStat(s)
  BY <1>1 DEF SetupStat
<1>2. CASE Unlink(s)
  BY <1>2 DEF Unlink
<1>3. CASE Creat(s)
  BY <1>3 DEF Creat
<1>4. CASE WriteNewHeader(s)
  BY <1>4 DEF WriteNewHeader
<1>5. CASE WriteNewRest(s)
  BY <1>5 DEF WriteNewRest
<1>6. CASE Open(s)
  BY <1>6 DEF Open
<1>7. CASE Lock(s)
  BY <1>7 DEF Lock
<1>8. CASE Read(s)
  BY <1>8 DEF Read, Saved, AddCollection
<1>9. CASE WriteTemp(s)
  BY <1>9 DEF WriteTemp
<1>10. CASE CloseRead(s) \/ Backup(s) \/ Install(s)
  BY <1>10, ConstantsAssumption DEF CloseRead, Backup, Install
<1>11. CASE Destroy(s) \/ Crash(s)
  BY <1>11 DEF Destroy, Crash, Forget
<1>12. CASE \E c \in Collections : CreateCollection(s, c)
  BY <1>12 DEF CreateCollection, AddCollection
<1>. QED
  BY <1>1, <1>2, <1>3, <1>4, <1>5, <1>6, <1>7, <1>8, <1>9, <1>10, <1>11, <1>12
  DEF SystemCall

\* A flock appears only where nobody else holds one, and its descriptor stays.
LEMMA LockStep ==
  ASSUME TypeOK, NEW s \in Stores, Placed(s),
         \/ SetupStat(s) \/ SystemCall(s) \/ Lock(s) \/ Destroy(s) \/ Crash(s)
         \/ \E c \in Collections : CreateCollection(s, c),
         flock'[s]
  PROVE  /\ readFile'[s] = readFile[s]
         /\ flock[s] \/ LockFree(readFile[s])
<1>. USE DEF Placed, TypeOK, Put, fsVars, fdVars, objVars, memVars
<1>1. CASE SetupStat(s)
  BY <1>1 DEF SetupStat
<1>2. CASE Unlink(s) \/ Creat(s) \/ WriteNewHeader(s) \/ WriteNewRest(s)
  BY <1>2 DEF Unlink, Creat, WriteNewHeader, WriteNewRest
<1>3. CASE Open(s) \/ Lock(s)
  BY <1>3 DEF Open, Lock
<1>4. CASE Read(s) \/ WriteTemp(s)
  BY <1>4 DEF Read, WriteTemp
<1>5. CASE CloseRead(s) \/ Backup(s) \/ Install(s)
  BY <1>5 DEF CloseRead, Backup, Install
<1>6. CASE Destroy(s) \/ Crash(s)
  BY <1>6 DEF Destroy, Crash, Forget
<1>7. CASE \E c \in Collections : CreateCollection(s, c)
  BY <1>7 DEF CreateCollection
<1>. QED
  BY <1>1, <1>2, <1>3, <1>4, <1>5, <1>6, <1>7 DEF SystemCall

LEMMA LockingStep ==
  ASSUME TypeOK, DescriptorOpen, SavingSomething, LockHeldAt, LockExclusive, [Next]_vars
  PROVE  DescriptorOpen' /\ SavingSomething' /\ LockHeldAt' /\ LockExclusive'
<1>1. CASE UNCHANGED vars
  BY <1>1 DEF vars, fsVars, fdVars, objVars, memVars, ctlVars, DescriptorOpen,
     SavingSomething, LockHeldAt, LockExclusive
<1>2. CASE Next
  <2>1. PICK s \in Stores :
          \/ SetupStat(s) \/ SystemCall(s) \/ Lock(s) \/ Destroy(s) \/ Crash(s)
          \/ \E c \in Collections : CreateCollection(s, c)
    BY <1>2 DEF Next
  <2>2. \A t \in Stores : Placed(t)
    BY PlacedEverywhere
  <2>3. Placed(s)'
    BY <2>1, <2>2, PlacedStep
  <2>4. \A t \in Stores \ {s} :
          /\ Placed(t)'
          /\ flock'[t] = flock[t]
          /\ readFile'[t] = readFile[t]
    BY <2>1, <2>2, OthersKeep DEF Placed
  <2>5. DescriptorOpen' /\ SavingSomething' /\ LockHeldAt'
    BY <2>3, <2>4, PlacedEverywhere DEF Placed, DescriptorOpen, SavingSomething, LockHeldAt
  <2>6. flock'[s] => /\ readFile'[s] = readFile[s]
                     /\ flock[s] \/ LockFree(readFile[s])
    BY <2>1, <2>2, LockStep
  <2>7. LockExclusive'
    BY <2>4, <2>5, <2>6, ConstantsAssumption
    DEF LockExclusive, LockFree, LockHeldAt
  <2>. QED  BY <2>5, <2>7
<1>. QED  BY <1>1, <1>2

-----------------------------------------------------------------------------
(* The directory and the collections it names *)

\* A collection joins the directory together with its entity.
LEMMA AddCollectionCoherent ==
  ASSUME TypeOK, NEW s \in Stores, NEW c \in Collections,
         Coherent(ents[s], dir[s]), Dir \in ents[s], AddCollection(s, c)
  PROVE  Coherent(ents'[s], dir'[s])
  BY DEF AddCollection, Coherent, TypeOK, Put

LEMMA MemoryCoherentStep ==
  ASSUME TypeOK, DescriptorOpen, SavingSomething, CatalogueCoherent,
         NEW s \in Stores,
         \/ SetupStat(s) \/ SystemCall(s) \/ Lock(s) \/ Destroy(s) \/ Crash(s)
         \/ \E c \in Collections : CreateCollection(s, c)
  PROVE  Coherent(ents'[s], dir'[s])
<1>1. Coherent(ents[s], dir[s])
  BY DEF CatalogueCoherent
<1>. USE DEF fsVars, fdVars, objVars, memVars
<1>2. CASE \/ SetupStat(s) \/ Unlink(s) \/ Creat(s) \/ WriteNewHeader(s)
           \/ WriteNewRest(s) \/ Open(s) \/ Lock(s) \/ WriteTemp(s) \/ CloseRead(s)
           \/ Backup(s) \/ Install(s)
  BY <1>1, <1>2 DEF SetupStat, Unlink, Creat, WriteNewHeader, WriteNewRest, Open, Lock,
     WriteTemp, CloseRead, Backup, Install
<1>3. CASE Read(s)
  <2>1. CASE Load(s, data[readFile[s]])
    <3>1. /\ readFile[s] \in Inodes
          /\ Coherent(data[readFile[s]].ents, data[readFile[s]].dir)
      BY <1>3 DEF Read, DescriptorOpen, CatalogueCoherent
    <3>. QED
      BY <2>1, <3>1 DEF Load, Coherent, TypeOK, Put
  <2>2. CASE AddCollection(s, want[s]) /\ stage[s] = "dir"
    <3>1. want[s] \in Collections /\ Dir \in ents[s]
      BY <1>3, <2>2 DEF Read, SavingSomething
    <3>. QED
      BY <1>1, <2>2, <3>1, AddCollectionCoherent
  <2>3. CASE UNCHANGED memVars
    BY <1>1, <2>3
  <2>. QED
    BY <1>3, <2>1, <2>2, <2>3 DEF Read, Saved
<1>4. CASE Destroy(s) \/ Crash(s)
  BY <1>4 DEF Destroy, Crash, Forget, Coherent, TypeOK, Put
<1>5. CASE \E c \in Collections : CreateCollection(s, c)
  <2>1. PICK c \in Collections : CreateCollection(s, c)
    BY <1>5
  <2>2. CASE Dir \in ents[s]
    BY <1>1, <2>1, <2>2, AddCollectionCoherent DEF CreateCollection
  <2>3. CASE Dir \notin ents[s]
    BY <1>1, <2>1, <2>3 DEF CreateCollection, Coherent, TypeOK, Put
  <2>. QED  BY <2>2, <2>3
<1>. QED
  BY <1>2, <1>3, <1>4, <1>5 DEF SystemCall

\* Files are written from a coherent memory, or empty.
LEMMA FilesCoherentStep ==
  ASSUME TypeOK, CatalogueCoherent, NEW s \in Stores,
         \/ SetupStat(s) \/ SystemCall(s) \/ Lock(s) \/ Destroy(s) \/ Crash(s)
         \/ \E c \in Collections : CreateCollection(s, c)
  PROVE  \A i \in Inodes : Coherent(data'[i].ents, data'[i].dir)
<1>1. \A i \in Inodes : Coherent(data[i].ents, data[i].dir)
  BY DEF CatalogueCoherent
<1>. USE DEF fsVars, fdVars, objVars, memVars
<1>2. CASE UNCHANGED data
  BY <1>1, <1>2
<1>3. CASE Creat(s) /\ data' # data
  <2>1. Coherent(Empty.ents, Empty.dir)
    BY DEF Empty, Coherent
  <2>2. PICK j : data' = Put(data, j, Empty)
    BY <1>3 DEF Creat
  <2>. QED
    BY <1>1, <2>1, <2>2 DEF Put, TypeOK
<1>4. CASE (WriteNewHeader(s) \/ WriteNewRest(s)) /\ data' # data
  <2>1. PICK j, k, b : data' = Mark(j, k, b)
    BY <1>4 DEF WriteNewHeader, WriteNewRest
  <2>2. \A i \in Inodes : data'[i].ents = data[i].ents /\ data'[i].dir = data[i].dir
    <3>. SUFFICES ASSUME NEW i \in Inodes
                  PROVE  data'[i].ents = data[i].ents /\ data'[i].dir = data[i].dir
      OBVIOUS
    <3>1. data[i] \in Content
      BY DEF TypeOK
    <3>2. CASE i = j
      BY <2>1, <3>1, <3>2 DEF Mark, Put, TypeOK, Content
    <3>3. CASE i # j
      BY <2>1, <3>3 DEF Mark, Put, TypeOK
    <3>. QED  BY <3>2, <3>3
  <2>. QED
    BY <1>1, <2>2
<1>5. CASE WriteTemp(s) /\ data' # data
  <2>1. Coherent(Image(s).ents, Image(s).dir)
    BY DEF Image, CatalogueCoherent
  <2>2. data' = Put(data, NewInode, Image(s))
    BY <1>5 DEF WriteTemp
  <2>. HIDE DEF Image, NewInode
  <2>. QED
    BY <1>1, <2>1, <2>2 DEF Put, TypeOK
<1>6. \/ UNCHANGED data \/ Creat(s) \/ WriteNewHeader(s) \/ WriteNewRest(s) \/ WriteTemp(s)
  BY DEF SystemCall, SetupStat, Unlink, Open, Lock, Read, CloseRead, Backup, Install,
     Destroy, Crash, Forget, CreateCollection
<1>. QED
  BY <1>2, <1>3, <1>4, <1>5, <1>6

LEMMA CoherentStep ==
  ASSUME TypeOK, DescriptorOpen, SavingSomething, CatalogueCoherent, [Next]_vars
  PROVE  CatalogueCoherent'
<1>1. CASE UNCHANGED vars
  BY <1>1 DEF vars, fsVars, memVars, CatalogueCoherent
<1>2. CASE Next
  <2>1. PICK s \in Stores :
          \/ SetupStat(s) \/ SystemCall(s) \/ Lock(s) \/ Destroy(s) \/ Crash(s)
          \/ \E c \in Collections : CreateCollection(s, c)
    BY <1>2 DEF Next
  <2>2. \A i \in Inodes : Coherent(data'[i].ents, data'[i].dir)
    BY <2>1, FilesCoherentStep
  <2>3. Coherent(ents'[s], dir'[s])
    BY <2>1, MemoryCoherentStep
  <2>4. \A t \in Stores \ {s} : ents'[t] = ents[t] /\ dir'[t] = dir[t]
    BY <2>1, OthersKeep
  <2>5. \A t \in Stores : Coherent(ents'[t], dir'[t])
    BY <2>3, <2>4 DEF CatalogueCoherent
  <2>. QED  BY <2>2, <2>5 DEF CatalogueCoherent
<1>. QED  BY <1>1, <1>2

-----------------------------------------------------------------------------
(* The inductive invariant and its consequences *)

LEMMA InitInv == Init => IInv
<1>. SUFFICES ASSUME Init PROVE IInv
  OBVIOUS
<1>1. TypeOK
  BY TypingInit
<1>2. DescriptorOpen /\ SavingSomething /\ LockHeldAt /\ LockExclusive
  BY DEF Init, DescriptorOpen, SavingSomething, LockHeldAt, LockExclusive
<1>3. CatalogueCoherent
  BY DEF Init, CatalogueCoherent, Coherent, Empty, Populated
<1>. QED  BY <1>1, <1>2, <1>3 DEF IInv

LEMMA StepInv == IInv /\ [Next]_vars => IInv'
  BY TypingStep, LockingStep, CoherentStep DEF IInv

\* The invariant is inductive, whatever the constants are.
THEOREM Invariance == Spec => []IInv
  BY InitInv, StepInv, PTL DEF Spec

\* Every variable keeps its type, also across failed calls and crashes: no step
\* reads a file without a descriptor or saves without a name to create.
THEOREM TypeCorrect == Spec => []TypeOK
<1>1. IInv => TypeOK
  BY DEF IInv
<1>. QED  BY <1>1, Invariance, PTL

\* However many processes set up, save, fail and crash, no two of them hold the
\* flock of one file (KSecretsFile::lock, backupAndReplaceWithWritten).
THEOREM MutualExclusion == Spec => []LockExclusive
<1>1. IInv => LockExclusive
  BY DEF IInv
<1>. QED  BY <1>1, Invariance, PTL

\* No failure, crash or race of createCollection() leaves a directory that names
\* a collection whose entity is missing, in a file or in memory.
THEOREM Coherence == Spec => []CatalogueCoherent
<1>1. IInv => CatalogueCoherent
  BY DEF IInv
<1>. QED  BY <1>1, Invariance, PTL

-----------------------------------------------------------------------------
(***************************************************************************)
(* Where a call stands, for any constants: what the further invariants,    *)
(* each of its own regime, rest on.                                        *)
(***************************************************************************)

Step(s) ==
  \/ SetupStat(s) \/ SystemCall(s) \/ Lock(s) \/ Destroy(s) \/ Crash(s)
  \/ \E c \in Collections : CreateCollection(s, c)

\* A store sets up before it saves; it writes a file of its own until it closes
\* or installs it; it saves for a client that saw setup() succeed.
Phase(s) ==
  /\ pc[s] = "new" => stage[s] = "setup" /\ readFile[s] = NoInode
  /\ stage[s] = "setup" /\ pc[s] # "ready" => status[s] = "CredentialsSet"
  /\ pc[s] \in {"header", "rest", "close", "backup", "install"} <=> work[s] # NoInode
  /\ stage[s] # "setup" => s \in Writers /\ (ChecksSetup => status[s] = "Good")

\* FileWithinMemory, and the two files that become the open one: the file a
\* save wrote, and what the path names when the save opens it again.
Covers(s) ==
  /\ status[s] = "Good" /\ readFile[s] # NoInode => data[readFile[s]].ents \subseteq ents[s]
  /\ stage[s] # "setup" /\ work[s] # NoInode => data[work[s]].ents \subseteq ents[s]
  /\ stage[s] # "setup" /\ pc[s] = "open" /\ path # NoInode => data[path].ents \subseteq ents[s]

OneWriter == \A s, t \in Writers : s = t

PInv == IInv /\ \A s \in Stores : Phase(s)

MInv == PInv /\ \A s \in Stores : Covers(s)

(***************************************************************************)
(* One process alone that creates one collection per store object,         *)
(* whatever fails.                                                         *)
(***************************************************************************)

Alone == /\ ChecksSetup /\ ~CipherChecksKey /\ MaxCreates <= 1 /\ Seeded # {}
         /\ \A s, t \in Stores : s = t

Good(i) == i \in Inodes /\ data[i].kind = "sealed"

Known == Seeded \cup acked

Lists(i) == i # NoInode /\ Known \subseteq Listing(data[i])

\* Which inodes a call works on.
Sited(s) ==
  /\ pc[s] = "unlink" /\ path # NoInode => data[path].kind = "empty"
  /\ pc[s] = "creat" => path = NoInode
  /\ pc[s] \in {"header", "rest"} => work[s] = path /\ data[path].ents = {}
  /\ pc[s] \in {"lock", "read"} => readFile[s] = path
  /\ pc[s] \in {"close", "backup", "install"} => work[s] # path /\ work[s] # bkp
  /\ pc[s] = "install" => path = NoInode
  /\ stage[s] # "setup" => creates[s] = 1

\* The store has in memory, fit to be written, what the list has to name.
Ready(s) ==
  headOk[s] /\ Known \subseteq dir[s] \ worn[s] /\ Dir \notin worn[s]

\* A save that starts from the list carries all of it into the new file.
Carries(s) ==
  /\ status[s] = "Good" /\ creates[s] = 0 /\ Lists(path) => Ready(s)
  /\ pc[s] = "temp" =>
       /\ stage[s] = "dir" => dir[s] = {}
       /\ stage[s] = "coll" => want[s] \in dir[s] \ worn[s]
       /\ Lists(path) => stage[s] = "coll" /\ Ready(s)
  /\ pc[s] \in {"close", "backup", "install"} =>
       /\ data[work[s]].ents # {}
       /\ stage[s] = "dir" => Listing(data[work[s]]) = {}
       /\ stage[s] = "coll" => Listing(data[work[s]]) = {} \/ want[s] \in Listing(data[work[s]])
       /\ Lists(path) \/ (pc[s] = "install" /\ Lists(bkp)) => Lists(work[s])
  /\ pc[s] \in {"open", "lock", "read"} /\ stage[s] # "setup" =>
       /\ path # NoInode /\ data[path].ents # {}
       /\ stage[s] = "dir" => Listing(data[path]) = {}
       /\ stage[s] = "coll" => Listing(data[path]) = {} \/ want[s] \in Listing(data[path])

\* The list is at the path, unless setup() has put a new file there.
ListAtPath == Kept /\ path # NoInode => Lists(path) \/ data[path].ents = {}

VInv ==
  /\ PInv /\ (path = NoInode \/ path # bkp) /\ ListAtPath
  /\ \A s \in Stores : Sited(s) /\ Carries(s)

(***************************************************************************)
(* One writer that creates one collection per store object, and any number *)
(* of readers, when only writes fail.                                      *)
(***************************************************************************)

Quiet == /\ OneWriter /\ ChecksSetup /\ ~CipherChecksKey /\ MaxCreates <= 1
         /\ InitialFile = "populated" /\ Seeded # {} /\ Faults \subseteq {"write"}

\* The file that holds the list: between the renames of save(), the backup.
Current == IF path # NoInode THEN path ELSE bkp

Whole(i) == /\ Good(i) /\ data[i].bad = {}
            /\ Dir \in data[i].ents /\ data[i].dir # {}

\* What a store knows. A writer that opened the file has what it holds, and
\* what it saves is that and the new collection.
Orderly(s) ==
  /\ pc[s] \notin {"unlink", "creat", "header", "rest"} /\ stage[s] # "dir"
  /\ status[s] \in {"CredentialsSet", "Good", "CannotOpenFile"} /\ ~eof[s]
  /\ readFile[s] # NoInode => Whole(readFile[s])
  /\ status[s] = "Good" => headOk[s] /\ Dir \in ents[s] /\ (creates[s] = 0 => worn[s] = {})
  /\ pc[s] = "temp" => worn[s] = {}
  /\ status[s] # "Good" => dir[s] = {}
  /\ s \notin Writers => pc[s] # "lock" /\ (pc[s] # "new" => readOnly[s])

OrderlyWriter(s) ==
  /\ status[s] = "Good" => data[Current].ents \subseteq ents[s] /\ data[Current].dir \subseteq dir[s]
  /\ status[s] = "Good" /\ creates[s] = 0 => dir[s] = data[Current].dir
  /\ pc[s] \in {"temp", "close", "backup", "install"} =>
       dir[s] = data[Current].dir \cup {want[s]} /\ want[s] \notin data[Current].dir
  /\ pc[s] \in {"close", "backup", "install"} =>
       /\ Whole(work[s]) /\ data[work[s]].dir = dir[s] /\ data[work[s]].ents = ents[s]
  /\ pc[s] \in {"lock", "read"} => readFile[s] = path
  /\ pc[s] \in {"open", "lock", "read"} /\ stage[s] # "setup" =>
       data[path].dir = dir[s] /\ want[s] \in dir[s]
  /\ pc[s] = "install" <=> path = NoInode

QInv ==
  /\ PInv /\ BackupIsOlder /\ Whole(Current) /\ acked \subseteq data[Current].dir
  /\ \A i \in {path, bkp} \ {NoInode} : Whole(i)
  /\ Writers = {} => path # NoInode
  /\ \A s \in Stores : Orderly(s)
  /\ \A s \in Writers : OrderlyWriter(s)

-----------------------------------------------------------------------------
LEMMA StepOfNext ==
  ASSUME [Next]_vars, ~UNCHANGED vars
  PROVE  \E s \in Stores : Step(s)
  BY DEF Next, Step

\* The other stores keep the rest of their state, too.
LEMMA OthersKeepAll ==
  ASSUME TypeOK, NEW s \in Stores, NEW t \in Stores, s # t, Step(s)
  PROVE  /\ pc'[t] = pc[t] /\ stage'[t] = stage[t] /\ want'[t] = want[t]
         /\ readFile'[t] = readFile[t] /\ work'[t] = work[t]
         /\ ents'[t] = ents[t] /\ dir'[t] = dir[t] /\ worn'[t] = worn[t]
         /\ status'[t] = status[t] /\ headOk'[t] = headOk[t] /\ eof'[t] = eof[t]
         /\ readOnly'[t] = readOnly[t] /\ creates'[t] = creates[t]
<1>1. /\ pc'[t] = pc[t] /\ stage'[t] = stage[t] /\ want'[t] = want[t]
      /\ readFile'[t] = readFile[t] /\ ents'[t] = ents[t] /\ dir'[t] = dir[t]
  BY OthersKeep DEF Step
<1>. USE DEF TypeOK, Put, fsVars, fdVars, objVars, memVars, NotSaved, SetupFailed,
             OpenFailed
<1>2. /\ work'[t] = work[t] /\ worn'[t] = worn[t] /\ status'[t] = status[t]
      /\ headOk'[t] = headOk[t] /\ eof'[t] = eof[t]
      /\ readOnly'[t] = readOnly[t] /\ creates'[t] = creates[t]
  <2>1. CASE SetupStat(s)
    BY <2>1 DEF SetupStat
  <2>2. CASE Unlink(s) \/ Creat(s) \/ WriteNewHeader(s) \/ WriteNewRest(s)
    BY <2>2 DEF Unlink, Creat, WriteNewHeader, WriteNewRest
  <2>3. CASE Open(s) \/ Lock(s)
    BY <2>3 DEF Open, Lock
  <2>4. CASE Read(s)
    BY <2>4 DEF Read, Load, Saved, AddCollection
  <2>5. CASE WriteTemp(s)
    BY <2>5 DEF WriteTemp, Wear
  <2>6. CASE CloseRead(s) \/ Backup(s) \/ Install(s)
    BY <2>6 DEF CloseRead, Backup, Install
  <2>7. CASE Destroy(s) \/ Crash(s)
    BY <2>7 DEF Destroy, Crash, Forget
  <2>8. CASE \E c \in Collections : CreateCollection(s, c)
    BY <2>8 DEF CreateCollection, AddCollection
  <2>. QED
    BY <2>1, <2>2, <2>3, <2>4, <2>5, <2>6, <2>7, <2>8 DEF Step, SystemCall
<1>. QED  BY <1>1, <1>2

\* A file in use changes only under creat() of its path, or under the one that
\* fills it in; neither adds an entity.
LEMMA DataKept ==
  ASSUME TypeOK, NEW s \in Stores, Step(s), NEW i \in Inodes, Referenced(i)
  PROVE  /\ data'[i].ents \subseteq data[i].ents
         /\ data'[i] = data[i] \/ (pc[s] = "creat" /\ i = path) \/ (pc[s] \in {"header", "rest"} /\ i = work[s])
<1>1. data[i] \in Content
  BY DEF TypeOK
<1>. USE DEF fsVars, fdVars, objVars, memVars
<1>2. CASE UNCHANGED data
  BY <1>2
<1>3. CASE Creat(s) /\ data' # data
  <2>1. i # NewInode \/ FreeInodes = {}
    BY DEF NewInode, FreeInodes
  <2>2. data' = Put(data, path, Empty) \/ (data' = Put(data, NewInode, Empty) /\ FreeInodes # {})
    BY <1>3 DEF Creat
  <2>. HIDE DEF NewInode, FreeInodes
  <2>3. pc[s] = "creat"
    BY <1>3 DEF Creat
  <2>. QED
    BY <2>1, <2>2, <2>3 DEF Put, TypeOK, Empty
<1>4. CASE (WriteNewHeader(s) \/ WriteNewRest(s)) /\ data' # data
  <2>1. PICK k, b : data' = Mark(work[s], k, b)
    BY <1>4 DEF WriteNewHeader, WriteNewRest
  <2>2. pc[s] \in {"header", "rest"}
    BY <1>4 DEF WriteNewHeader, WriteNewRest
  <2>3. CASE i = work[s]
    BY <1>1, <2>1, <2>2, <2>3 DEF Mark, Put, TypeOK, Content
  <2>4. CASE i # work[s]
    BY <2>1, <2>4 DEF Mark, Put, TypeOK
  <2>. QED  BY <2>3, <2>4
<1>5. CASE WriteTemp(s) /\ data' # data
  <2>1. i # NewInode \/ FreeInodes = {}
    BY DEF NewInode, FreeInodes
  <2>2. data' = Put(data, NewInode, Image(s)) /\ FreeInodes # {}
    BY <1>5 DEF WriteTemp
  <2>. HIDE DEF Image, NewInode, FreeInodes
  <2>. QED
    BY <2>1, <2>2 DEF Put, TypeOK
<1>6. \/ UNCHANGED data \/ Creat(s) \/ WriteNewHeader(s) \/ WriteNewRest(s) \/ WriteTemp(s)
  BY DEF Step, SystemCall, SetupStat, Unlink, Open, Lock, Read, CloseRead, Backup, Install,
     Destroy, Crash, Forget, CreateCollection
<1>. QED
  BY <1>2, <1>3, <1>4, <1>5, <1>6

\* The four system calls that change what the path names.
LEMMA PathStep ==
  ASSUME TypeOK, NEW s \in Stores, Step(s)
  PROVE  \/ path' = path /\ bkp' = bkp
         \/ pc[s] = "unlink" /\ path' = NoInode /\ bkp' = bkp
         \/ /\ pc[s] = "creat" /\ path = NoInode /\ FreeInodes # {} /\ path' = NewInode
            /\ data' = Put(data, NewInode, Empty) /\ bkp' = bkp
         \/ pc[s] = "backup" /\ path # NoInode /\ path' = NoInode /\ bkp' = path
         \/ pc[s] = "install" /\ path' = work[s] /\ bkp' = bkp
<1>. USE DEF fsVars, fdVars, objVars, memVars
<1>1. CASE Unlink(s)
  BY <1>1 DEF Unlink
<1>2. CASE Creat(s)
  BY <1>2 DEF Creat
<1>3. CASE Backup(s)
  BY <1>3 DEF Backup
<1>4. CASE Install(s)
  BY <1>4 DEF Install
<1>. QED
  BY <1>1, <1>2, <1>3, <1>4 DEF Step, SystemCall, SetupStat, WriteNewHeader, WriteNewRest, Open,
     Lock, Read, WriteTemp, CloseRead, Destroy, Crash, Forget, CreateCollection

LEMMA PhaseStep ==
  ASSUME TypeOK, NEW s \in Stores, Placed(s), Phase(s), Step(s)
  PROVE  Phase(s)'
<1>. USE ConstantsAssumption DEF Phase, Placed, TypeOK, Put, fsVars, fdVars, objVars, memVars, NotSaved,
             SetupFailed, OpenFailed
<1>1. CASE SetupStat(s)
  BY <1>1 DEF SetupStat
<1>2. CASE Unlink(s)
  BY <1>2 DEF Unlink
<1>3. CASE Creat(s)
  <2>1. FreeInodes # {} => NewInode \in Inodes
    BY NewInodeFree
  <2>. HIDE DEF NewInode, FreeInodes
  <2>. QED
    BY <1>3, <2>1 DEF Creat
<1>4. CASE WriteNewHeader(s)
  BY <1>4 DEF WriteNewHeader
<1>5. CASE WriteNewRest(s)
  BY <1>5 DEF WriteNewRest
<1>6. CASE Open(s)
  BY <1>6 DEF Open
<1>7. CASE Lock(s)
  BY <1>7 DEF Lock
<1>8. CASE Read(s)
  BY <1>8 DEF Read, Saved, AddCollection
<1>9. CASE WriteTemp(s)
  <2>1. FreeInodes # {} => NewInode \in Inodes
    BY NewInodeFree
  <2>. HIDE DEF NewInode, FreeInodes
  <2>. QED
    BY <1>9, <2>1 DEF WriteTemp
<1>10. CASE CloseRead(s) \/ Backup(s) \/ Install(s)
  BY <1>10 DEF CloseRead, Backup, Install
<1>11. CASE Destroy(s) \/ Crash(s)
  BY <1>11 DEF Destroy, Crash, Forget
<1>12. CASE \E c \in Collections : CreateCollection(s, c)
  BY <1>12 DEF CreateCollection, AddCollection
<1>. QED
  BY <1>1, <1>2, <1>3, <1>4, <1>5, <1>6, <1>7, <1>8, <1>9, <1>10, <1>11, <1>12
  DEF Step, SystemCall

LEMMA PInvStep == PInv /\ [Next]_vars => PInv'
<1>. SUFFICES ASSUME PInv, [Next]_vars PROVE PInv'
  OBVIOUS
<1>1. IInv'
  BY StepInv DEF PInv
<1>2. CASE UNCHANGED vars
  BY <1>1, <1>2 DEF PInv, Phase, vars, fdVars, objVars, ctlVars
<1>3. CASE ~UNCHANGED vars
  <2>1. PICK s \in Stores : Step(s)
    BY <1>3, StepOfNext
  <2>2. TypeOK /\ \A t \in Stores : Placed(t) /\ Phase(t)
    BY PlacedEverywhere DEF PInv, IInv
  <2>3. Phase(s)'
    BY <2>1, <2>2, PhaseStep
  <2>4. ASSUME NEW t \in Stores \ {s} PROVE Phase(t)'
    <3>1. /\ pc'[t] = pc[t] /\ stage'[t] = stage[t] /\ readFile'[t] = readFile[t]
          /\ work'[t] = work[t] /\ status'[t] = status[t]
      BY <2>1, <2>2, OthersKeepAll
    <3>. QED  BY <2>2, <3>1 DEF Phase
  <2>. QED  BY <1>1, <2>3, <2>4 DEF PInv
<1>. QED  BY <1>2, <1>3

LEMMA PInvInit == Init => PInv
<1>. SUFFICES ASSUME Init PROVE PInv
  OBVIOUS
<1>1. IInv
  BY InitInv
<1>. QED
  BY <1>1 DEF PInv, Phase, Init

\* For the inductive steps: what one step leaves of everything.
LEMMA StepFacts ==
  ASSUME PInv, NEW s \in Stores, Step(s)
  PROVE  /\ TypeOK /\ TypeOK' /\ IInv
         /\ \A t \in Stores : Placed(t) /\ Phase(t)
         /\ Placed(s)' /\ Phase(s)'
<1>1. TypeOK /\ \A t \in Stores : Placed(t) /\ Phase(t)
  BY PlacedEverywhere DEF PInv, IInv
<1>2. TypeOK'
  BY TypingStep DEF Next, Step, PInv, IInv
<1>3. Placed(s)' /\ Phase(s)'
  BY <1>1, PlacedStep, PhaseStep DEF Step
<1>. QED  BY <1>1, <1>2, <1>3 DEF PInv


-----------------------------------------------------------------------------
(* What a store read stays in its memory *)

\* What a step of s does to the claims of s.
LEMMA CoversStep ==
  ASSUME PInv, NEW s \in Stores, Step(s), Covers(s)
  PROVE  Covers(s)'
<1>1. TypeOK /\ TypeOK' /\ Placed(s) /\ Phase(s) /\ Phase(s)' /\ Placed(s)'
  BY StepFacts
<1>2. \A i \in {readFile[s], work[s], path} \ {NoInode} : data'[i].ents \subseteq data[i].ents
  <2>. SUFFICES ASSUME NEW i \in {readFile[s], work[s], path} \ {NoInode}
                PROVE  data'[i].ents \subseteq data[i].ents
    OBVIOUS
  <2>1. i \in Inodes /\ Referenced(i)
    BY <1>1 DEF TypeOK, Referenced
  <2>. QED  BY <1>1, <2>1, DataKept
<1>. USE DEF Covers, Placed, Phase
<1>3. ASSUME UNCHANGED <<ents, readFile, status, path>>, work'[s] \in {work[s], NoInode},
             stage'[s] = stage[s] \/ stage'[s] = "setup",
             pc'[s] # "open" \/ pc[s] = "open" \/ stage[s] = "setup"
      PROVE  Covers(s)'
  BY <1>2, <1>3
<1>4. CASE SetupStat(s) \/ Lock(s)
  <2>1. CASE SetupStat(s)
    BY <1>1, <1>2, <2>1 DEF SetupStat, TypeOK, Put, fdVars, memVars, fsVars
  <2>2. CASE Lock(s)
    BY <1>1, <1>2, <2>2 DEF Lock, OpenFailed, SetupFailed, NotSaved, TypeOK, Put, memVars, fsVars
  <2>. QED  BY <1>4, <2>1, <2>2
<1>5. CASE Unlink(s) \/ Creat(s) \/ WriteNewHeader(s) \/ WriteNewRest(s)
  <2>1. stage[s] = "setup" /\ status[s] = "CredentialsSet"
    BY <1>1, <1>5 DEF Unlink, Creat, WriteNewHeader, WriteNewRest
  <2>2. stage'[s] = "setup" /\ status'[s] # "Good"
    BY <1>1, <1>5, <2>1 DEF Unlink, Creat, WriteNewHeader, WriteNewRest, SetupFailed, TypeOK, Put, objVars
  <2>. QED  BY <2>2
<1>6. CASE Open(s)
  <2>1. CASE path = NoInode
    BY <1>1, <1>2, <1>6, <2>1 DEF Open, OpenFailed, SetupFailed, NotSaved, TypeOK, Put, memVars, fsVars
  <2>2. CASE path # NoInode
    BY <1>1, <1>2, <1>6, <2>2 DEF Open, TypeOK, Put, memVars, fsVars
  <2>. QED  BY <2>1, <2>2
<1>7. CASE Read(s)
  <2>1. UNCHANGED <<data, path, readFile, work>>
    BY <1>7 DEF Read, fsVars, fdVars
  <2>2. CASE Load(s, data[readFile[s]]) /\ stage[s] = "setup" /\ UNCHANGED stage
    BY <1>1, <2>1, <2>2 DEF Load, TypeOK, Put
  <2>3. CASE stage[s] # "setup" /\ Saved(s) /\ UNCHANGED status
    <3>1. ents[s] \subseteq ents'[s] /\ pc'[s] # "open"
      BY <1>1, <2>3 DEF Saved, AddCollection, TypeOK, Put, memVars
    <3>. QED  BY <1>1, <1>7, <2>1, <2>3, <3>1 DEF Read
  <2>4. ASSUME NEW r, r # "Good", OpenFailed(s, r), UNCHANGED memVars
        PROVE  Covers(s)'
    BY <1>1, <1>7, <2>1, <2>4 DEF Read, OpenFailed, SetupFailed, NotSaved, TypeOK, Put, memVars
  <2>. QED  BY <1>7, <2>2, <2>3, <2>4 DEF Read
<1>8. CASE WriteTemp(s)
  <2>1. UNCHANGED <<ents, readFile, status, path>> /\ stage' = stage
    BY <1>8 DEF WriteTemp, NotSaved, objVars
  <2>2. CASE UNCHANGED work
    BY <1>1, <1>2, <1>8, <2>1, <2>2 DEF WriteTemp, NotSaved, TypeOK, Put
  <2>3. CASE work' = Put(work, s, NewInode) /\ data' = Put(data, NewInode, Image(s)) /\ FreeInodes # {}
    <3>1. NewInode \in Inodes /\ Image(s).ents = ents[s] /\ pc'[s] # "open"
      BY <1>1, <1>8, NewInodeFree, <2>3 DEF Image, WriteTemp, NotSaved, TypeOK, Put
    <3>2. data'[NewInode].ents = ents[s] /\ work'[s] = NewInode
      <4>. HIDE DEF NewInode, Image
      <4>. QED  BY <1>1, <2>3, <3>1 DEF TypeOK, Put
    <3>. QED  BY <1>1, <1>2, <2>1, <3>1, <3>2
  <2>. QED  BY <1>8, <2>2, <2>3 DEF WriteTemp
<1>9. CASE CloseRead(s)
  BY <1>1, <1>2, <1>9, ConstantsAssumption DEF CloseRead, TypeOK, Put, memVars, objVars, fsVars
<1>10. CASE Backup(s)
  <2>1. readFile[s] = NoInode \/ status[s] # "Good" \/ UNCHANGED readFile
    BY <1>10 DEF Backup
  <2>. QED
    BY <1>1, <1>2, <1>10, ConstantsAssumption DEF Backup, NotSaved, TypeOK, Put, memVars, objVars
<1>11. CASE Install(s)
  BY <1>1, <1>2, <1>11, ConstantsAssumption DEF Install, NotSaved, TypeOK, Put, memVars, objVars
<1>12. CASE Destroy(s) \/ Crash(s)
  BY <1>1, <1>12 DEF Destroy, Crash, Forget, TypeOK, Put
<1>13. CASE \E c \in Collections : CreateCollection(s, c)
  BY <1>1, <1>2, <1>13 DEF CreateCollection, AddCollection, TypeOK, Put, fsVars, fdVars, objVars
<1>. QED
  BY <1>4, <1>5, <1>6, <1>7, <1>8, <1>9, <1>10, <1>11, <1>12, <1>13 DEF Step, SystemCall

\* No other store takes the path from a save but by an empty file.
LEMMA CoversOthers ==
  ASSUME PInv, OneWriter, NEW s \in Stores, Step(s), NEW t \in Stores, t # s, Covers(t)
  PROVE  Covers(t)'
<1>1. /\ TypeOK /\ TypeOK' /\ Placed(s) /\ Phase(s) /\ Phase(t)
  BY StepFacts
<1>2. \A i \in {readFile[t], work[t], path} \ {NoInode} : data'[i].ents \subseteq data[i].ents
  <2>. SUFFICES ASSUME NEW i \in {readFile[t], work[t], path} \ {NoInode}
                PROVE  data'[i].ents \subseteq data[i].ents
    OBVIOUS
  <2>1. i \in Inodes /\ Referenced(i)
    BY <1>1 DEF TypeOK, Referenced
  <2>. QED  BY <1>1, <2>1, DataKept
<1>3. /\ pc'[t] = pc[t] /\ stage'[t] = stage[t] /\ readFile'[t] = readFile[t]
      /\ work'[t] = work[t] /\ status'[t] = status[t] /\ ents'[t] = ents[t]
  BY <1>1, OthersKeepAll
<1>4. ASSUME stage[t] # "setup", path' # NoInode
      PROVE  path' = path \/ data'[path'].ents = {}
  <2>1. stage[s] = "setup" /\ pc[s] # "install"
    BY <1>1, <1>4 DEF Phase, Placed, OneWriter
  <2>2. CASE FreeInodes # {} /\ path' = NewInode /\ data' = Put(data, NewInode, Empty)
    <3>1. NewInode \in Inodes
      BY <2>2, NewInodeFree
    <3>. HIDE DEF NewInode
    <3>. QED  BY <1>1, <2>2, <3>1 DEF Put, Empty, TypeOK
  <2>. QED  BY <1>1, <1>4, <2>1, <2>2, PathStep
<1>. QED
  BY <1>2, <1>3, <1>4 DEF Covers

LEMMA MInvStep == OneWriter /\ MInv /\ [Next]_vars => MInv'
<1>. SUFFICES ASSUME OneWriter, MInv, [Next]_vars PROVE MInv'
  OBVIOUS
<1>1. PInv /\ PInv'
  BY PInvStep DEF MInv
<1>2. CASE UNCHANGED vars
  BY <1>1, <1>2 DEF MInv, Covers, vars, fsVars, fdVars, objVars, memVars, ctlVars
<1>3. CASE ~UNCHANGED vars
  <2>1. PICK s \in Stores : Step(s)
    BY <1>3, StepOfNext
  <2>2. \A t \in Stores : Covers(t)'
    BY <1>1, <2>1, CoversStep, CoversOthers DEF MInv
  <2>. QED  BY <1>1, <2>2 DEF MInv
<1>. QED  BY <1>2, <1>3

LEMMA MInvInit == Init => MInv
<1>. SUFFICES ASSUME Init PROVE MInv
  OBVIOUS
<1>1. PInv
  BY PInvInit
<1>. QED
  BY <1>1 DEF MInv, Covers, Init

\* A store with a good setup() has every entity of the file it has open, so that
\* its next save() drops none: after any failed or crashed calls, with any number
\* of processes, if only one of them creates collections.
THEOREM SaveDropsNothing ==
  ASSUME OneWriter PROVE Spec => []FileWithinMemory
<1>1. MInv => FileWithinMemory
  BY DEF MInv, Covers, FileWithinMemory
<1>. QED
  BY <1>1, MInvInit, MInvStep, PTL DEF Spec

-----------------------------------------------------------------------------
(* The list is kept, whatever fails *)

\* Nothing refers to the inode that creat() or mkostemp() returns.
LEMMA NewInodeFresh ==
  ASSUME FreeInodes # {}
  PROVE  /\ NewInode \in Inodes /\ NewInode # path /\ NewInode # bkp
         /\ \A s \in Stores : NewInode # readFile[s] /\ NewInode # work[s]
<1>1. NewInode \in FreeInodes
  BY DEF NewInode
<1>. QED
  BY <1>1 DEF FreeInodes, Referenced

\* What a step must leave: the invariant, and the list unless the step makes a
\* file without entities the backup.
After(s) ==
  /\ Sited(s)' /\ Carries(s)' /\ ListAtPath'
  /\ path' = NoInode \/ path' # bkp'
  /\ Kept => Kept' \/ (bkp' # bkp /\ data[bkp'].ents = {})

\* What the proof of one step starts from.
Before(s) ==
  /\ PInv /\ Alone /\ Sited(s) /\ Carries(s) /\ ListAtPath
  /\ path = NoInode \/ path # bkp
  /\ Step(s)

LEMMA BeforeFacts ==
  ASSUME NEW s \in Stores, Before(s)
  PROVE  /\ TypeOK /\ TypeOK' /\ CatalogueCoherent /\ Placed(s) /\ Phase(s) /\ Phase(s)' /\ Placed(s)'
         /\ creates[s] \in 0 .. 1 /\ MaxCreates \in 0 .. 1 /\ Known # {}
         /\ path \in Inodes \cup {NoInode} /\ bkp \in Inodes \cup {NoInode} /\ NoInode \notin Inodes
<1>1. TypeOK /\ TypeOK' /\ IInv /\ Placed(s) /\ Phase(s) /\ Phase(s)' /\ Placed(s)'
  BY StepFacts DEF Before
<1>2. creates[s] \in 0 .. MaxCreates /\ MaxCreates \in Nat /\ MaxCreates <= 1
  BY <1>1, ConstantsAssumption DEF Before, Alone, TypeOK
<1>3. creates[s] \in 0 .. 1 /\ MaxCreates \in 0 .. 1
  BY <1>2
<1>4. Known # {}
  BY DEF Before, Alone, Known
<1>. QED  BY <1>1, <1>3, <1>4, ConstantsAssumption DEF IInv, TypeOK

\* Contents without entities list nothing.
LEMMA EmptyListing ==
  ASSUME NEW d, Coherent(d.ents, d.dir), Listing(d) # {}
  PROVE  d.ents # {} /\ d.kind = "sealed" /\ Dir \notin d.bad
  BY DEF Coherent, Listing

LEMMA ListedHasEntities ==
  ASSUME NEW s \in Stores, Before(s), NEW i \in Inodes \cup {NoInode}, Lists(i)
  PROVE  data[i].ents # {} /\ data[i].kind = "sealed" /\ Dir \notin data[i].bad /\ i \in Inodes
<1>1. i \in Inodes /\ Coherent(data[i].ents, data[i].dir)
  BY BeforeFacts DEF Lists, CatalogueCoherent
<1>2. Listing(data[i]) # {}
  BY BeforeFacts DEF Lists
<1>. QED  BY <1>1, <1>2, EmptyListing

LEMMA KeptIsListed == Kept <=> Lists(path) \/ Lists(bkp)
  BY DEF Kept, Lists, Known

\* Steps that change no file and report nothing.
LEMMA AfterQuiet ==
  ASSUME NEW s \in Stores, Before(s), UNCHANGED <<path, bkp, data, acked>>, Sited(s)', Carries(s)'
  PROVE  After(s)
  BY DEF Before, After, ListAtPath, Kept, Lists, Known, Listing

LEMMA AfterSetup ==
  ASSUME NEW s \in Stores, Before(s), SetupStat(s) \/ Destroy(s) \/ Crash(s)
  PROVE  After(s)
<1>1. UNCHANGED <<path, bkp, data, acked>>
  BY DEF SetupStat, Destroy, Crash, Forget, fsVars
<1>2. TypeOK /\ TypeOK' /\ Placed(s) /\ Phase(s) /\ Sited(s) /\ Carries(s) /\ creates[s] \in 0 .. 1
  BY BeforeFacts DEF Before
<1>3. stage'[s] = "setup" /\ status'[s] = "CredentialsSet"
      /\ pc'[s] \in {"new", "ready", "creat", "unlink", "open"}
  BY <1>2 DEF SetupStat, Destroy, Crash, Forget, Phase, TypeOK, Put, objVars
<1>4. Carries(s)'
  BY <1>3 DEF Carries
<1>5. /\ pc'[s] = "unlink" => path # NoInode /\ data[path].kind = "empty"
      /\ pc'[s] = "creat" => path = NoInode
  BY <1>2 DEF SetupStat, Destroy, Crash, Forget, TypeOK, Put
<1>6. Sited(s)'
  BY <1>1, <1>3, <1>5 DEF Sited
<1>. QED  BY <1>1, <1>4, <1>6, AfterQuiet

LEMMA AfterCreation ==
  ASSUME NEW s \in Stores, Before(s), Unlink(s) \/ Creat(s) \/ WriteNewHeader(s) \/ WriteNewRest(s)
  PROVE  After(s)
<1>1. /\ TypeOK /\ TypeOK' /\ Placed(s) /\ Phase(s) /\ Phase(s)' /\ Sited(s) /\ Known # {}
      /\ path \in Inodes \cup {NoInode} /\ bkp \in Inodes \cup {NoInode} /\ NoInode \notin Inodes
      /\ path = NoInode \/ path # bkp
  BY BeforeFacts DEF Before
<1>2. stage[s] = "setup" /\ status[s] = "CredentialsSet" /\ UNCHANGED <<stage, bkp, acked>>
  BY <1>1 DEF Phase, Placed, Unlink, Creat, WriteNewHeader, WriteNewRest, SetupFailed
<1>3. status'[s] # "Good" /\ stage'[s] = "setup" /\ pc'[s] \in {"creat", "header", "rest", "open", "ready"}
  BY <1>1, <1>2 DEF Unlink, Creat, WriteNewHeader, WriteNewRest, SetupFailed, TypeOK, Put, objVars
<1>4. Carries(s)'
  BY <1>3 DEF Carries
<1>5. path' = path \/ path' = NoInode \/ (FreeInodes # {} /\ path' = NewInode)
  BY DEF Unlink, Creat, WriteNewHeader, WriteNewRest
<1>6. path' = NoInode \/ path' # bkp'
  BY <1>1, <1>2, <1>5, NewInodeFresh
<1>7. ~Lists(path)
  <2>. SUFFICES ASSUME Lists(path) PROVE FALSE
    OBVIOUS
  <2>1. path # NoInode /\ data[path].ents # {} /\ data[path].kind = "sealed"
    BY <1>1, ListedHasEntities DEF Lists
  <2>. QED  BY <1>1, <2>1 DEF Sited, Unlink, Creat, WriteNewHeader, WriteNewRest
<1>8. bkp # NoInode => data'[bkp] = data[bkp]
  <2>. SUFFICES ASSUME bkp # NoInode PROVE data'[bkp] = data[bkp]
    OBVIOUS
  <2>1. bkp \in Inodes /\ Referenced(bkp)
    BY <1>1 DEF Referenced
  <2>2. pc[s] = "creat" => path = NoInode
    BY <1>1 DEF Sited
  <2>3. pc[s] \in {"header", "rest"} => work[s] = path /\ path # NoInode
    BY <1>1 DEF Sited, Phase
  <2>4. \/ data'[bkp] = data[bkp]
        \/ pc[s] = "creat" /\ bkp = path
        \/ pc[s] \in {"header", "rest"} /\ bkp = work[s]
    BY ONLY <1>1, <2>1, Step(s), Before(s), s \in Stores, DataKept DEF Before
  <2>. QED  BY <1>1, <2>1, <2>2, <2>3, <2>4
<1>9. /\ pc'[s] = "creat" => path' = NoInode
      /\ pc'[s] \in {"header", "rest"} => work'[s] = path'
  <2>1. CASE Creat(s)
    <3>. HIDE DEF NewInode, FreeInodes
    <3>. QED
      BY <1>1, <2>1 DEF Creat, SetupFailed, TypeOK, Put
  <2>2. CASE ~Creat(s)
    BY <1>1, <2>2 DEF Sited, Unlink, WriteNewHeader, WriteNewRest, SetupFailed, TypeOK, Put, fdVars
  <2>. QED  BY <2>1, <2>2
<1>10. path' # NoInode => data'[path'].ents = {}
  <2>1. CASE Unlink(s)
    BY <2>1 DEF Unlink
  <2>2. CASE Creat(s)
    <3>1. path = NoInode
      BY <1>1, <2>2 DEF Sited, Creat
    <3>2. CASE path' = NewInode /\ data' = Put(data, NewInode, Empty) /\ FreeInodes # {}
      <4>1. NewInode \in Inodes
        BY <3>2, NewInodeFresh
      <4>. HIDE DEF NewInode
      <4>. QED  BY <1>1, <3>2, <4>1 DEF TypeOK, Put, Empty
    <3>. QED  BY <2>2, <3>1, <3>2 DEF Creat
  <2>3. CASE WriteNewHeader(s) \/ WriteNewRest(s)
    <3>1. path' = path /\ work[s] = path /\ data[path].ents = {} /\ path \in Inodes
      BY <1>1, <2>3 DEF Sited, Phase, WriteNewHeader, WriteNewRest
    <3>2. data'[path].ents \subseteq data[path].ents
      <4>1. Referenced(path)
        BY DEF Referenced
      <4>. QED
        BY ONLY <1>1, <3>1, <4>1, Before(s), s \in Stores, DataKept DEF Before
    <3>. QED  BY <3>1, <3>2
  <2>. QED  BY <2>1, <2>2, <2>3
<1>11. Sited(s)'
  BY <1>1, <1>3, <1>9, <1>10 DEF Sited, Phase
<1>12. ListAtPath'
  BY <1>10 DEF ListAtPath
<1>13. Kept => Kept'
  <2>1. Lists(bkp) => Lists(bkp)'
    BY <1>2, <1>8 DEF Lists, Known, Listing
  <2>2. Kept' <=> Lists(path)' \/ Lists(bkp)'
    BY DEF Kept, Lists, Known
  <2>. QED  BY <1>7, <2>1, <2>2, KeptIsListed
<1>. QED  BY <1>4, <1>6, <1>11, <1>12, <1>13 DEF After

LEMMA AfterOpening ==
  ASSUME NEW s \in Stores, Before(s), Open(s) \/ Lock(s) \/ CloseRead(s)
  PROVE  After(s)
<1>1. UNCHANGED <<path, bkp, data, acked, work, creates, ents, dir, worn, headOk, stage>>
  BY DEF Open, Lock, CloseRead, fsVars, memVars, OpenFailed, SetupFailed, NotSaved, objVars
<1>2. /\ TypeOK /\ TypeOK' /\ Placed(s) /\ Phase(s) /\ Phase(s)' /\ Sited(s) /\ Carries(s)
      /\ NoInode \notin Inodes
  BY BeforeFacts DEF Before
<1>3. want'[s] = want[s] \/ pc'[s] \in {"ready", "aborted"}
  BY <1>2 DEF Open, Lock, CloseRead, OpenFailed, SetupFailed, NotSaved, TypeOK, Put
<1>4. pc'[s] \in {"lock", "read"} => readFile'[s] = path
  BY <1>2 DEF Open, Lock, CloseRead, OpenFailed, SetupFailed, NotSaved, TypeOK, Put, Sited
<1>5. \/ pc[s] \in {"open", "lock"} /\ pc'[s] \in {"lock", "read", "ready", "aborted"}
      \/ pc[s] = "close" /\ pc'[s] = "backup"
  BY <1>2 DEF Open, Lock, CloseRead, OpenFailed, SetupFailed, NotSaved, TypeOK, Put
<1>6. status'[s] = "Good" => status[s] = "Good"
  BY <1>2 DEF Open, Lock, CloseRead, OpenFailed, SetupFailed, NotSaved, TypeOK, Put, objVars
<1>7. Sited(s)'
  BY <1>1, <1>2, <1>4, <1>5 DEF Sited
<1>8. Carries(s)'
  BY <1>1, <1>2, <1>3, <1>5, <1>6 DEF Carries, Ready, Lists, Known, Listing
<1>. QED  BY <1>1, <1>7, <1>8, AfterQuiet

LEMMA AfterCreate ==
  ASSUME NEW s \in Stores, Before(s), NEW c \in Collections, CreateCollection(s, c)
  PROVE  After(s)
<1>1. UNCHANGED <<path, bkp, data, acked, headOk, status>>
  BY DEF CreateCollection, fsVars, objVars
<1>2. /\ TypeOK /\ CatalogueCoherent /\ Placed(s) /\ Phase(s) /\ Sited(s) /\ Carries(s)
      /\ creates[s] \in 0 .. 1 /\ MaxCreates \in 0 .. 1 /\ Alone /\ Known # {}
  BY BeforeFacts DEF Before
<1>3. creates[s] = 0 /\ creates'[s] = 1 /\ status[s] = "Good" /\ pc'[s] = "temp"
      /\ want'[s] = c /\ stage'[s] \in {"dir", "coll"}
  BY <1>2 DEF CreateCollection, Alone, TypeOK, Put
<1>4. Lists(path) => Ready(s)
  BY <1>2, <1>3 DEF Carries
<1>5. Coherent(ents[s], dir[s])
  BY <1>2 DEF CatalogueCoherent
<1>6. CASE stage'[s] = "dir"
  <2>1. Dir \notin ents[s] /\ dir'[s] = dir[s]
    BY <1>2, <1>6 DEF CreateCollection, TypeOK, Put
  <2>2. dir[s] = {}
    BY <1>5, <2>1 DEF Coherent
  <2>3. ~Lists(path)
    BY <1>2, <1>4, <2>2 DEF Ready
  <2>4. Carries(s)'
    BY <1>1, <1>3, <1>6, <2>1, <2>2, <2>3 DEF Carries, Lists, Known, Listing
  <2>5. Sited(s)'
    BY <1>3 DEF Sited
  <2>. QED  BY <1>1, <2>4, <2>5, AfterQuiet
<1>7. CASE stage'[s] = "coll"
  <2>1. dir'[s] = dir[s] \cup {c} /\ worn'[s] = worn[s] \ {c}
    BY <1>2, <1>7 DEF CreateCollection, AddCollection, TypeOK, Put
  <2>2. Dir \notin worn[s] => Dir \notin worn'[s]
    BY <2>1
  <2>3. Lists(path)' => Ready(s)'
    BY <1>1, <1>4, <2>1, <2>2 DEF Ready, Lists, Known, Listing
  <2>4. Carries(s)'
    BY <1>3, <1>7, <2>1, <2>3 DEF Carries
  <2>5. Sited(s)'
    BY <1>3 DEF Sited
  <2>. QED  BY <1>1, <2>4, <2>5, AfterQuiet
<1>. QED  BY <1>3, <1>6, <1>7

LEMMA AfterRead ==
  ASSUME NEW s \in Stores, Before(s), Read(s)
  PROVE  After(s)
<1>1. /\ TypeOK /\ TypeOK' /\ CatalogueCoherent /\ Placed(s) /\ Phase(s) /\ Sited(s) /\ Carries(s)
      /\ NoInode \notin Inodes /\ Known # {} /\ ListAtPath /\ (path = NoInode \/ path # bkp)
      /\ Alone /\ path \in Inodes \cup {NoInode} /\ creates[s] \in 0 .. 1
  BY BeforeFacts DEF Before
<1>2. /\ UNCHANGED <<path, bkp, data, work, readFile, creates>>
      /\ readFile[s] = path /\ path # NoInode /\ path \in Inodes /\ pc[s] = "read"
  BY <1>1 DEF Read, fsVars, fdVars, Sited, Placed
<1>. DEFINE d == data[path]
<1>3. PICK o \in ReadOutcomes(s, d) :
        /\ headOk' = Put(headOk, s, o.head)
        /\ \/ /\ o.result = "Good" /\ stage[s] = "setup" /\ UNCHANGED <<stage, want, acked>>
              /\ status' = Put(status, s, "Good") /\ pc' = Put(pc, s, "ready") /\ Load(s, d)
           \/ o.result = "Good" /\ stage[s] # "setup" /\ Saved(s) /\ UNCHANGED status
           \/ o.result # "Good" /\ OpenFailed(s, o.result) /\ UNCHANGED memVars
  BY <1>2 DEF Read
<1>4. o.result = "Good" => o.head
  BY <1>3 DEF ReadOutcomes
<1>5. d \in Content /\ Coherent(d.ents, d.dir)
  BY <1>1, <1>2 DEF TypeOK, CatalogueCoherent
<1>6. pc'[s] \in {"ready", "aborted", "temp"} /\ (stage'[s] # "setup" => stage[s] # "setup")
  BY <1>1, <1>3 DEF OpenFailed, SetupFailed, NotSaved, Saved, TypeOK, Put
<1>7. Sited(s)'
  BY <1>1, <1>2, <1>6 DEF Sited
<1>8. CASE stage[s] = "setup"
  <2>1. acked' = acked /\ pc'[s] \in {"ready", "aborted"} /\ Phase(s)
    BY <1>1, <1>3, <1>8 DEF OpenFailed, SetupFailed, TypeOK, Put
  <2>2. status'[s] = "Good" => o.result = "Good"
    BY <1>1, <1>2, <1>3, <1>8 DEF OpenFailed, SetupFailed, NotSaved, TypeOK, Put, Phase
  <2>3. status'[s] = "Good" /\ Lists(path)' => Ready(s)'
    <3>. SUFFICES ASSUME status'[s] = "Good", Lists(path)' PROVE Ready(s)'
      OBVIOUS
    <3>1. o.result = "Good" /\ Load(s, d) /\ headOk'[s]
      BY <1>1, <1>3, <1>4, <1>8, <2>2 DEF TypeOK, Put
    <3>2. Lists(path) /\ Known' = Known
      BY <1>2, <2>1 DEF Lists, Known, Listing
    <3>3. Dir \notin d.bad
      BY <1>1, <3>2, ListedHasEntities
    <3>4. dir'[s] = d.dir /\ worn'[s] = d.bad \ {Dir}
      BY <1>1, <3>1, <3>3 DEF Load, TypeOK, Put
    <3>5. Known \subseteq d.dir \ d.bad
      BY <3>2 DEF Lists, Listing
    <3>. QED  BY <3>1, <3>2, <3>4, <3>5 DEF Ready
  <2>4. Carries(s)'
    BY <2>1, <2>3 DEF Carries
  <2>. QED  BY <1>2, <1>7, <2>1, <2>4, AfterQuiet
<1>9. CASE stage[s] = "dir" \/ (stage[s] = "coll" /\ o.result # "Good")
  <2>1. acked' = acked /\ pc'[s] \in {"ready", "aborted", "temp"} /\ (pc'[s] = "temp" => stage[s] = "dir" /\ o.result = "Good")
    BY <1>1, <1>3, <1>9 DEF OpenFailed, SetupFailed, NotSaved, Saved, TypeOK, Put
  <2>2. creates'[s] = 1
    BY <1>1, <1>2, <1>9 DEF Sited
  <2>3. ASSUME pc'[s] = "temp"
        PROVE  stage'[s] = "coll" /\ want'[s] \in dir'[s] \ worn'[s] /\ ~Lists(path)'
    <3>1. stage[s] = "dir" /\ Saved(s) /\ AddCollection(s, want[s]) /\ stage'[s] = "coll" /\ want' = want
      BY <1>1, <1>3, <1>9, <2>1, <2>3 DEF Saved, TypeOK, Put
    <3>2. want'[s] \in dir'[s] \ worn'[s]
      BY <1>1, <3>1 DEF AddCollection, TypeOK, Put
    <3>3. Listing(data[path]) = {}
      BY <1>1, <1>2, <3>1 DEF Carries
    <3>4. ~Lists(path)'
      <4>1. Listing(data[path])' = Listing(data[path]) /\ Known' = Known /\ Known # {}
        BY <1>1, <1>2, <2>1 DEF Known, Listing
      <4>. QED  BY ONLY <3>3, <4>1 DEF Lists
    <3>. QED  BY <3>1, <3>2, <3>4
  <2>4. Carries(s)'
    BY <2>1, <2>2, <2>3 DEF Carries
  <2>. QED  BY <1>2, <1>7, <2>1, <2>4, AfterQuiet
<1>10. CASE stage[s] = "coll" /\ o.result = "Good"
  <2>1. acked' = acked \cup {want[s]} /\ pc'[s] = "ready" /\ creates'[s] = 1
    BY <1>1, <1>2, <1>3, <1>10 DEF Saved, TypeOK, Put, Sited
  <2>2. Carries(s)'
    BY <2>1 DEF Carries
  <2>3. Known' = Known \cup {want[s]}
    BY <2>1 DEF Known
  <2>4. Kept' => Kept
    BY <1>2, <2>1 DEF Kept, Listing
  <2>5. Kept => Lists(path)'
    <3>. SUFFICES ASSUME Kept PROVE Lists(path)'
      OBVIOUS
    <3>1. data[path].ents # {} /\ (Listing(data[path]) = {} \/ want[s] \in Listing(data[path]))
      BY <1>1, <1>2, <1>10 DEF Carries
    <3>2. Lists(path)
      <4>1. path # NoInode /\ ListAtPath
        BY <1>1, <1>2
      <4>2. Lists(path) \/ data[path].ents = {}
        BY ONLY <4>1, Kept DEF ListAtPath
      <4>. QED  BY ONLY <3>1, <4>2
    <3>3. want[s] \in Listing(data[path])
      <4>1. Known # {}
        BY <1>1
      <4>. QED  BY ONLY <3>1, <3>2, <4>1 DEF Lists
    <3>. QED  BY <1>2, <2>3, <3>2, <3>3 DEF Lists, Listing
  <2>6. Lists(path)' => Kept'
    BY DEF Kept, Lists, Known
  <2>. QED  BY <1>1, <1>2, <1>7, <2>2, <2>4, <2>5, <2>6 DEF After, ListAtPath
<1>. QED  BY <1>1, <1>8, <1>9, <1>10 DEF TypeOK

LEMMA AfterTemp ==
  ASSUME NEW s \in Stores, Before(s), WriteTemp(s)
  PROVE  After(s)
<1>1. /\ TypeOK /\ TypeOK' /\ CatalogueCoherent /\ Placed(s) /\ Phase(s) /\ Sited(s) /\ Carries(s)
      /\ NoInode \notin Inodes /\ Known # {} /\ ListAtPath /\ (path = NoInode \/ path # bkp)
      /\ Alone /\ path \in Inodes \cup {NoInode} /\ bkp \in Inodes \cup {NoInode}
  BY BeforeFacts DEF Before
<1>2. /\ UNCHANGED <<path, bkp, readFile, headOk, status, ents, dir, creates, stage, acked>>
      /\ pc[s] = "temp" /\ stage[s] # "setup" /\ creates[s] = 1
  BY <1>1 DEF WriteTemp, NotSaved, objVars, Placed, Sited
<1>3. \A i \in {path, bkp} \ {NoInode} : data'[i] = data[i]
  <2>. SUFFICES ASSUME NEW i \in {path, bkp} \ {NoInode} PROVE data'[i] = data[i]
    OBVIOUS
  <2>1. i \in Inodes /\ Referenced(i)
    BY <1>1 DEF Referenced
  <2>. QED  BY ONLY <1>1, <1>2, <2>1, Before(s), s \in Stores, DataKept DEF Before
<1>4. /\ Lists(path)' = Lists(path) /\ Lists(bkp)' = Lists(bkp)
      /\ path # NoInode => data'[path] = data[path]
  BY <1>2, <1>3 DEF Lists, Known, Listing
<1>5. (Kept <=> Kept') /\ ListAtPath'
  <2>1. Kept' <=> Lists(path)' \/ Lists(bkp)'
    BY DEF Kept, Lists, Known
  <2>2. Kept <=> Kept'
    BY <1>4, <2>1, KeptIsListed
  <2>3. ListAtPath /\ path' = path /\ (path # NoInode => data'[path] = data[path])
    BY <1>1, <1>2, <1>4
  <2>4. Lists(path)' <=> Lists(path)
    BY <1>4
  <2>. QED  BY ONLY <2>2, <2>3, <2>4 DEF ListAtPath
<1>6. CASE pc'[s] # "close"
  <2>1. pc'[s] \in {"ready", "aborted"}
    BY <1>1, <1>6 DEF WriteTemp, NotSaved, TypeOK, Put
  <2>2. Carries(s)' /\ Sited(s)'
    BY <1>2, <2>1 DEF Carries, Sited
  <2>. QED  BY <1>1, <1>2, <1>5, <2>2 DEF After
<1>7. CASE pc'[s] = "close"
  <2>1. /\ FreeInodes # {} /\ work' = Put(work, s, NewInode) /\ data' = Put(data, NewInode, Image(s))
        /\ want' = want
    BY <1>1, <1>7 DEF WriteTemp, NotSaved, TypeOK, Put
  <2>2. NewInode \in Inodes /\ NewInode # path /\ NewInode # bkp
    BY <2>1, NewInodeFresh
  <2>. DEFINE j == NewInode  d == Image(s)
  <2>3. work'[s] = j /\ data'[j] = d
    <3>. HIDE DEF j, d
    <3>1. work' = Put(work, s, j) /\ data' = Put(data, j, d) /\ j \in Inodes
      BY <2>1, <2>2 DEF j, d
    <3>. QED  BY <1>1, <3>1 DEF TypeOK, Put
  <2>4. /\ d.ents = ents[s] /\ d.dir = dir[s] /\ d.bad = worn[s] \cap ents[s]
        /\ d.kind = IF headOk[s] THEN "sealed" ELSE "headed"
    BY <1>1 DEF Image, Alone
  <2>. HIDE DEF j, d
  <2>5. d.ents # {} /\ Dir \in ents[s]
    BY <1>1, <1>2, <2>4 DEF Placed
  <2>6. stage[s] = "dir" => Listing(d) = {}
    BY <1>1, <1>2, <2>4 DEF Carries, Listing
  <2>7. stage[s] = "coll" => Listing(d) = {} \/ want[s] \in Listing(d)
    BY <1>1, <1>2, <2>4 DEF Carries, Listing
  <2>8. Lists(path) => Known \subseteq Listing(d)
    BY <1>1, <1>2, <2>4 DEF Carries, Ready, Listing
  <2>9. Lists(work[s])' <=> Known \subseteq Listing(d)
    <3>1. work'[s] # NoInode
      BY <1>1, <2>2, <2>3 DEF j
    <3>2. Known' = Known /\ data'[work'[s]] = d
      BY <1>2, <2>3 DEF Known
    <3>. QED  BY ONLY <3>1, <3>2 DEF Lists, Listing
  <2>10. Carries(s)'
    <3>1. Listing(data[work[s]])' = Listing(d) /\ data'[work'[s]].ents = d.ents
      BY <2>3 DEF Listing
    <3>. QED  BY <1>2, <1>4, <1>7, <2>1, <2>5, <2>6, <2>7, <2>8, <2>9, <3>1 DEF Carries
  <2>11. Sited(s)'
    BY <1>2, <1>7, <2>2, <2>3 DEF Sited, j
  <2>. QED  BY <1>1, <1>2, <1>5, <2>10, <2>11 DEF After
<1>. QED  BY <1>6, <1>7

LEMMA AfterRename ==
  ASSUME NEW s \in Stores, Before(s), Backup(s) \/ Install(s)
  PROVE  After(s)
<1>1. /\ TypeOK /\ TypeOK' /\ Placed(s) /\ Phase(s) /\ Sited(s) /\ Carries(s)
      /\ NoInode \notin Inodes /\ Known # {} /\ ListAtPath /\ (path = NoInode \/ path # bkp)
      /\ path \in Inodes \cup {NoInode} /\ bkp \in Inodes \cup {NoInode}
  BY BeforeFacts DEF Before
<1>2. /\ UNCHANGED <<data, stage, status, creates, acked>> /\ creates[s] = 1 /\ stage[s] # "setup"
      /\ pc[s] \in {"backup", "install"} /\ work[s] # NoInode
  BY <1>1 DEF Backup, Install, NotSaved, objVars, Placed, Sited, Phase
<1>3. \A i : Lists(i) => Known' \subseteq Listing(data'[i])
  BY <1>2 DEF Lists, Known, Listing
<1>4. Kept' <=> Lists(path)' \/ Lists(bkp)'
  BY DEF Kept, Lists, Known
<1>5. Lists(path)' = (path' # NoInode /\ Known \subseteq Listing(data[path']))
      /\ Lists(bkp)' = (bkp' # NoInode /\ Known \subseteq Listing(data[bkp']))
  BY <1>2 DEF Lists, Known, Listing
<1>6. CASE path' = path /\ bkp' = bkp
  <2>1. pc'[s] \in {"ready", "aborted"}
    <3>1. path' = work[s] => FALSE
      BY <1>1, <1>2, <1>6 DEF Sited
    <3>2. path # NoInode /\ path' = NoInode => FALSE
      BY <1>6
    <3>. QED  BY <1>1, <3>1, <3>2 DEF Backup, Install, NotSaved, TypeOK, Put
  <2>2. Carries(s)' /\ Sited(s)'
    BY <1>2, <2>1 DEF Carries, Sited
  <2>3. Kept' <=> Kept
    BY <1>2, <1>6 DEF Kept, Listing
  <2>. QED  BY <1>1, <1>2, <1>5, <1>6, <2>2, <2>3 DEF After, ListAtPath, Lists
<1>7. CASE path' = NoInode /\ bkp' = path /\ path # NoInode /\ pc[s] = "backup"
  <2>1. pc'[s] = "install" /\ work'[s] = work[s] /\ want'[s] = want[s]
    BY <1>1, <1>7 DEF Backup, Install, NotSaved, TypeOK, Put
  <2>2. ListAtPath'
    BY <1>7 DEF ListAtPath
  <2>3. Sited(s)'
    BY <1>1, <1>2, <1>7, <2>1 DEF Sited
  <2>4. Lists(bkp)' => Lists(path)
    BY <1>5, <1>7 DEF Lists
  <2>5. Lists(path) => Lists(work[s])
    BY <1>1, <1>7 DEF Carries
  <2>6. Lists(work[s]) => Lists(work[s])'
    BY <1>2, <2>1 DEF Lists, Known, Listing
  <2>7. ~Lists(path)'
    BY <1>5, <1>7
  <2>8. Carries(s)'
    BY <1>1, <1>2, <1>7, <2>1, <2>4, <2>5, <2>6, <2>7 DEF Carries, Listing
  <2>9. Kept => Kept' \/ (bkp' # bkp /\ data[bkp'].ents = {})
    <3>1. bkp' # bkp /\ bkp' = path
      BY <1>1, <1>7
    <3>2. Kept => Lists(path) \/ data[path].ents = {}
      <4>1. ListAtPath /\ path # NoInode
        BY <1>1, <1>7
      <4>. QED  BY ONLY <4>1 DEF ListAtPath
    <3>3. Lists(path) => Lists(bkp)'
      BY <1>2, <1>7 DEF Lists, Known, Listing
    <3>. QED  BY ONLY <1>4, <3>1, <3>2, <3>3
  <2>. QED  BY ONLY <1>7, <2>2, <2>3, <2>8, <2>9 DEF After
<1>8. CASE path' = work[s] /\ bkp' = bkp /\ pc[s] = "install" /\ pc'[s] = "open"
  <2>1. path = NoInode /\ work[s] # bkp /\ stage'[s] = stage[s] /\ want'[s] = want[s]
    BY <1>1, <1>2, <1>8 DEF Sited, Install, Backup, NotSaved, TypeOK, Put
  <2>2. Sited(s)'
    BY <1>1, <1>2, <1>8 DEF Sited
  <2>3. ~Lists(path)
    BY <2>1 DEF Lists
  <2>4. /\ data[work[s]].ents # {}
        /\ stage[s] = "dir" => Listing(data[work[s]]) = {}
        /\ stage[s] = "coll" => Listing(data[work[s]]) = {} \/ want[s] \in Listing(data[work[s]])
        /\ Lists(bkp) => Lists(work[s])
    BY <1>1, <1>8 DEF Carries
  <2>5. Carries(s)'
    BY <1>2, <1>8, <2>1, <2>4 DEF Carries, Listing
  <2>6. Kept => Kept'
    BY <1>4, <1>5, <1>8, <2>3, KeptIsListed DEF Lists
  <2>7. Lists(work[s]) => Lists(path)'
    BY <1>5, <1>8 DEF Lists
  <2>8. Lists(bkp)' => Lists(bkp)
    BY <1>5, <1>8 DEF Lists
  <2>9. ListAtPath'
    BY <1>4, <2>4, <2>7, <2>8 DEF ListAtPath
  <2>. QED  BY <1>2, <1>8, <2>1, <2>2, <2>5, <2>6, <2>9 DEF After
<1>. QED
  BY <1>1, <1>2, <1>6, <1>7, <1>8 DEF Backup, Install, TypeOK, Put

LEMMA AfterStep ==
  ASSUME NEW s \in Stores, Before(s)
  PROVE  After(s)
<1>1. CASE SetupStat(s) \/ Destroy(s) \/ Crash(s)
  BY <1>1, AfterSetup
<1>2. CASE Unlink(s) \/ Creat(s) \/ WriteNewHeader(s) \/ WriteNewRest(s)
  BY <1>2, AfterCreation
<1>3. CASE Open(s) \/ Lock(s) \/ CloseRead(s)
  BY <1>3, AfterOpening
<1>4. CASE Read(s)
  BY <1>4, AfterRead
<1>5. CASE WriteTemp(s)
  BY <1>5, AfterTemp
<1>6. CASE Backup(s) \/ Install(s)
  BY <1>6, AfterRename
<1>7. CASE \E c \in Collections : CreateCollection(s, c)
  BY <1>7, AfterCreate
<1>. QED
  BY <1>1, <1>2, <1>3, <1>4, <1>5, <1>6, <1>7 DEF Before, Step, SystemCall

LEMMA VInvStep ==
  Alone /\ VInv /\ [Next]_vars => VInv' /\ (Kept => Kept' \/ Recreated)
<1>. SUFFICES ASSUME Alone, VInv, [Next]_vars
              PROVE  VInv' /\ (Kept => Kept' \/ Recreated)
  OBVIOUS
<1>1. PInv /\ PInv'
  BY PInvStep DEF VInv
<1>2. CASE UNCHANGED vars
  <2>1. /\ UNCHANGED <<path, bkp, data, acked, headOk, status, creates, pc, stage, want>>
        /\ UNCHANGED <<ents, dir, worn, readFile, work>>
    BY <1>2 DEF vars, fsVars, fdVars, objVars, memVars, ctlVars
  <2>2. (Kept' <=> Kept) /\ (ListAtPath' <=> ListAtPath)
    BY <2>1 DEF ListAtPath, Kept, Lists, Known, Listing
  <2>3. ASSUME NEW s \in Stores PROVE Sited(s)' /\ Carries(s)'
    <3>1. Sited(s) /\ Carries(s)
      BY DEF VInv
    <3>. QED  BY <2>1, <3>1 DEF Sited, Carries, Ready, Lists, Known, Listing
  <2>. QED  BY <1>1, <2>1, <2>2, <2>3 DEF VInv
<1>3. CASE ~UNCHANGED vars
  <2>1. PICK s \in Stores : Step(s)
    BY <1>3, StepOfNext
  <2>2. Before(s)
    BY <1>1, <2>1 DEF VInv, Before
  <2>3. After(s)
    BY <2>2, AfterStep
  <2>. QED  BY <1>1, <2>3 DEF VInv, After, Alone, Recreated
<1>. QED  BY <1>2, <1>3

LEMMA VInvInit == Alone /\ Init => VInv
<1>. SUFFICES ASSUME Alone, Init PROVE VInv
  OBVIOUS
<1>1. PInv
  BY PInvInit
<1>2. /\ path = NoInode \/ (path \in Inodes /\ data[path] = Populated)
      /\ bkp = NoInode /\ acked = {} /\ NoInode \notin Inodes
  BY ConstantsAssumption DEF Init
<1>3. Lists(path) \/ path = NoInode
  BY <1>2 DEF Lists, Known, Listing, Populated
<1>4. ASSUME NEW s \in Stores PROVE Sited(s) /\ Carries(s)
  BY <1>4 DEF Init, Sited, Carries
<1>. QED  BY <1>1, <1>2, <1>3, <1>4 DEF VInv, ListAtPath

\* A file that lists what was there and all that was reported, and in which all
\* of it reads back, stays at the path or as its backup: a process that crashes,
\* or whose write, rename or lock fails, at any step of setup() or save(), loses
\* it only when it makes a file that setup() created beside the backup the backup
\* itself. It needs one process whose client uses no store that failed to set up
\* and creates one collection for each store object; then no unreadable file is
\* an excuse.
THEOREM CopyIsKept ==
  ASSUME Alone PROVE Spec => CopyKept /\ [][Kept => Kept' \/ Recreated]_vars
<1>1. (Kept => Kept' \/ Recreated) => (Kept => Kept' \/ Recreated \/ Unreadable')
  OBVIOUS
<1>. QED
  BY <1>1, VInvInit, VInvStep, PTL DEF Spec, CopyKept

-----------------------------------------------------------------------------
(* Files and their readers while only writes fail *)

\* What one step leaves alone: the contents of every file in use, the state of
\* the other stores, and the path unless the writer renames.
LEMMA QuietFacts ==
  ASSUME Quiet, QInv, NEW s \in Stores, Step(s)
  PROVE  /\ TypeOK /\ TypeOK' /\ Placed(s) /\ Phase(s) /\ Placed(s)' /\ Phase(s)'
         /\ \A i \in Inodes : Referenced(i) => data'[i] = data[i]
         /\ \/ path' = path /\ bkp' = bkp
            \/ pc[s] = "backup" /\ path # NoInode /\ path' = NoInode /\ bkp' = path
            \/ pc[s] = "install" /\ path' = work[s] /\ bkp' = bkp
<1>1. PInv /\ Orderly(s)
  BY DEF QInv
<1>2. TypeOK /\ TypeOK' /\ Placed(s) /\ Phase(s) /\ Placed(s)' /\ Phase(s)'
  BY <1>1, StepFacts
<1>3. pc[s] \notin {"unlink", "creat", "header", "rest"}
  BY <1>1 DEF Orderly
<1>4. ASSUME NEW i \in Inodes, Referenced(i) PROVE data'[i] = data[i]
  BY <1>2, <1>3, <1>4, DataKept
<1>5. \/ path' = path /\ bkp' = bkp
      \/ pc[s] = "backup" /\ path # NoInode /\ path' = NoInode /\ bkp' = path
      \/ pc[s] = "install" /\ path' = work[s] /\ bkp' = bkp
  BY <1>2, <1>3, PathStep
<1>. QED  BY <1>2, <1>4, <1>5

\* The files that matter are in use, so that they keep their contents.
LEMMA QuietData ==
  ASSUME Quiet, QInv, NEW s \in Stores, Step(s)
  PROVE  /\ Current \in Inodes /\ data'[Current] = data[Current]
         /\ path # NoInode => path \in Inodes /\ data'[path] = data[path]
         /\ bkp # NoInode => bkp \in Inodes /\ data'[bkp] = data[bkp]
         /\ \A t \in Stores :
              /\ readFile[t] # NoInode => readFile[t] \in Inodes /\ data'[readFile[t]] = data[readFile[t]]
              /\ work[t] # NoInode => work[t] \in Inodes /\ data'[work[t]] = data[work[t]]
<1>1. TypeOK /\ \A i \in Inodes : Referenced(i) => data'[i] = data[i]
  BY QuietFacts
<1>2. Current \in Inodes /\ Current \in {path, bkp}
  BY DEF QInv, Whole, Good, Current
<1>. QED
  BY <1>1, <1>2 DEF Referenced, TypeOK

\* The other stores still know what they knew.
LEMMA OrderlyOthers ==
  ASSUME Quiet, QInv, NEW s \in Stores, Step(s), NEW t \in Stores, t # s
  PROVE  Orderly(t)'
<1>1. TypeOK /\ Orderly(t)
  BY QuietFacts DEF QInv
<1>2. /\ pc'[t] = pc[t] /\ stage'[t] = stage[t] /\ readFile'[t] = readFile[t] /\ dir'[t] = dir[t]
      /\ ents'[t] = ents[t] /\ worn'[t] = worn[t] /\ status'[t] = status[t] /\ headOk'[t] = headOk[t]
      /\ eof'[t] = eof[t] /\ readOnly'[t] = readOnly[t] /\ creates'[t] = creates[t]
  BY ONLY <1>1, Step(s), s \in Stores, t \in Stores, t # s, OthersKeepAll
<1>3. readFile[t] # NoInode => data'[readFile[t]] = data[readFile[t]]
  BY QuietData
<1>. QED
  BY <1>1, <1>2, <1>3 DEF Orderly, Whole, Good

LEMMA OrderlyWriterOthers ==
  ASSUME Quiet, QInv, NEW s \in Stores, Step(s), NEW t \in Writers, t # s
  PROVE  OrderlyWriter(t)'
<1>1. TypeOK /\ OrderlyWriter(t) /\ Phase(s) /\ Placed(s) /\ t \in Stores /\ Phase(t)
  BY QuietFacts, ConstantsAssumption DEF QInv, PInv
<1>2. /\ pc'[t] = pc[t] /\ stage'[t] = stage[t] /\ readFile'[t] = readFile[t] /\ dir'[t] = dir[t]
      /\ ents'[t] = ents[t] /\ work'[t] = work[t] /\ status'[t] = status[t]
      /\ creates'[t] = creates[t] /\ want'[t] = want[t]
  BY ONLY <1>1, Step(s), s \in Stores, t # s, OthersKeepAll
<1>3. stage[s] = "setup" /\ pc[s] \notin {"backup", "install"}
  BY <1>1 DEF Quiet, OneWriter, Phase, Placed
<1>4. path' = path /\ bkp' = bkp /\ Current' = Current
  BY <1>3, QuietFacts DEF Current
<1>5. /\ data'[Current] = data[Current] /\ (path # NoInode => data'[path] = data[path])
      /\ work[t] # NoInode => data'[work[t]] = data[work[t]]
  BY <1>1, QuietData
<1>6. pc[t] \in {"close", "backup", "install"} => work[t] # NoInode
  BY <1>1 DEF Phase
<1>7. pc[t] \in {"open", "lock", "read"} => path # NoInode
  BY <1>1 DEF OrderlyWriter
<1>. QED
  BY <1>1, <1>2, <1>4, <1>5, <1>6, <1>7 DEF OrderlyWriter, Whole, Good

\* What the store that moves knows afterwards.
Knows(s) == Orderly(s) /\ (s \in Writers => OrderlyWriter(s))

\* A store that saves is the writer's, and its call is the one of this object.
LEMMA SavingFacts ==
  ASSUME Quiet, QInv, NEW s \in Stores, stage[s] # "setup"
  PROVE  /\ s \in Writers /\ status[s] = "Good" /\ stage[s] = "coll"
         /\ Orderly(s) /\ OrderlyWriter(s)
  BY DEF QInv, PInv, Phase, Quiet, Orderly, IInv, TypeOK

\* setup() finds a whole file, or none when it only wants to read.
LEMMA KnowsSetup ==
  ASSUME Quiet, QInv, NEW s \in Stores, Step(s), SetupStat(s)
  PROVE  Knows(s)' /\ UNCHANGED <<fsVars, acked>>
<1>1. TypeOK /\ TypeOK' /\ Phase(s) /\ Orderly(s) /\ (s \in Writers => OrderlyWriter(s))
  BY QuietFacts DEF QInv
<1>2. path # NoInode => data[path].kind # "empty"
  BY DEF QInv, Whole, Good
<1>3. UNCHANGED <<fsVars, readFile, work, eof, headOk, status, memVars, want, creates, acked>>
  BY DEF SetupStat, fdVars
<1>4. pc[s] = "new" /\ stage'[s] = "setup" /\ readFile[s] = NoInode /\ status[s] = "CredentialsSet"
  BY <1>1 DEF SetupStat, Phase, TypeOK, Put
<1>5. /\ pc'[s] \in {"ready", "open", "creat"} /\ (s \notin Writers => readOnly'[s])
      /\ pc'[s] = "creat" => s \in Writers /\ path = NoInode
  BY <1>1, <1>2 DEF SetupStat, TypeOK, Put
<1>6. s \in Writers => path # NoInode
  BY <1>1, <1>4 DEF OrderlyWriter
<1>7. Orderly(s)'
  BY <1>1, <1>3, <1>4, <1>5, <1>6 DEF Orderly, memVars
<1>8. s \in Writers => OrderlyWriter(s)'
  BY <1>1, <1>3, <1>4, <1>5, <1>6 DEF OrderlyWriter, fsVars
<1>. QED  BY <1>3, <1>7, <1>8 DEF Knows

\* What open() returns is whole, also to the writer that opens its file again.
LEMMA KnowsOpen ==
  ASSUME Quiet, QInv, NEW s \in Stores, Step(s), Open(s)
  PROVE  Knows(s)' /\ UNCHANGED <<fsVars, acked>>
<1>1. TypeOK /\ TypeOK' /\ Phase(s) /\ Orderly(s) /\ (s \in Writers => OrderlyWriter(s))
  BY QuietFacts DEF QInv
<1>2. UNCHANGED <<fsVars, work, readOnly, eof, headOk, memVars, creates>> /\ readFile'[s] = path /\ pc[s] = "open"
  BY <1>1 DEF Open, TypeOK, Put
<1>3. path # NoInode => Whole(path)
  BY DEF QInv
<1>4. CASE path = NoInode
  <2>1. s \notin Writers /\ stage[s] = "setup" /\ status[s] = "CredentialsSet"
    BY <1>1, <1>2, <1>4 DEF OrderlyWriter, Phase
  <2>2. /\ pc'[s] = "ready" /\ status'[s] = "CannotOpenFile" /\ UNCHANGED <<stage, want, acked>>
    BY <1>1, <1>4, <2>1, ConstantsAssumption DEF Open, OpenFailed, SetupFailed, TypeOK, Put
  <2>3. Orderly(s)'
    BY <1>1, <1>2, <1>4, <2>1, <2>2 DEF Orderly, memVars
  <2>. QED  BY <1>2, <2>1, <2>2, <2>3 DEF Knows
<1>5. CASE path # NoInode
  <2>1. UNCHANGED <<status, stage, want, acked>> /\ pc'[s] = IF WantsLock(s) THEN "lock" ELSE "read"
    BY <1>1, <1>5 DEF Open, TypeOK, Put
  <2>2. s \notin Writers => pc'[s] = "read"
    BY <1>1, <1>2, <2>1 DEF WantsLock, Phase, Orderly
  <2>3. Orderly(s)'
    BY <1>1, <1>2, <1>3, <1>5, <2>1, <2>2 DEF Orderly, Whole, Good, memVars, fsVars
  <2>4. s \in Writers => OrderlyWriter(s)'
    BY <1>1, <1>2, <1>5, <2>1 DEF OrderlyWriter, Current, memVars, fsVars
  <2>. QED  BY <1>2, <2>1, <2>3, <2>4 DEF Knows
<1>. QED  BY <1>4, <1>5

\* Nothing but write fails, so that flock() returns with the lock.
LEMMA KnowsLock ==
  ASSUME Quiet, QInv, NEW s \in Stores, Step(s), Lock(s)
  PROVE  Knows(s)' /\ UNCHANGED <<fsVars, acked>>
<1>1. TypeOK /\ TypeOK' /\ Phase(s) /\ Orderly(s) /\ (s \in Writers => OrderlyWriter(s))
  BY QuietFacts DEF QInv
<1>2. /\ UNCHANGED <<fsVars, readFile, work, readOnly, eof, headOk, memVars, creates, status, stage, want, acked>>
      /\ pc[s] = "lock" /\ pc'[s] = "read"
  BY <1>1 DEF Lock, MayFail, Quiet, TypeOK, Put
<1>3. Orderly(s)'
  BY <1>1, <1>2 DEF Orderly, Whole, Good, memVars, fsVars
<1>4. s \in Writers => OrderlyWriter(s)'
  BY <1>1, <1>2 DEF OrderlyWriter, Current, memVars, fsVars
<1>. QED  BY <1>2, <1>3, <1>4 DEF Knows

\* A whole file reads as it is.
LEMMA WholeReads ==
  ASSUME Quiet, NEW s \in Stores, NEW i, Whole(i), ~eof[s], NEW o \in ReadOutcomes(s, data[i])
  PROVE  o.result = "Good" /\ o.head /\ ~o.eof
  BY DEF Whole, Good, ReadOutcomes, Quiet

LEMMA ReadFacts ==
  ASSUME Quiet, QInv, NEW s \in Stores, Step(s), Read(s)
  PROVE  /\ pc[s] = "read" /\ Whole(readFile[s]) /\ status'[s] = "Good" /\ headOk'[s] /\ ~eof'[s]
         /\ UNCHANGED <<fsVars, fdVars, readOnly, creates, stage>>
         /\ \/ /\ stage[s] = "setup" /\ pc'[s] = "ready" /\ Load(s, data[readFile[s]]) /\ UNCHANGED <<want, acked>>
            \/ /\ stage[s] = "coll" /\ pc'[s] = "ready" /\ UNCHANGED memVars
               /\ acked' = acked \cup {want[s]} /\ want'[s] = NoCollection
<1>1. TypeOK /\ Phase(s) /\ Placed(s) /\ Orderly(s)
  BY QuietFacts DEF QInv
<1>2. pc[s] = "read" /\ Whole(readFile[s]) /\ ~eof[s]
  BY <1>1, ConstantsAssumption DEF Read, Orderly, Placed
<1>3. PICK o \in ReadOutcomes(s, data[readFile[s]]) :
        /\ headOk' = Put(headOk, s, o.head) /\ eof' = Put(eof, s, o.eof)
        /\ \/ /\ stage[s] = "setup" /\ status' = Put(status, s, "Good") /\ pc' = Put(pc, s, "ready")
              /\ Load(s, data[readFile[s]]) /\ UNCHANGED <<stage, want, acked>>
           \/ stage[s] # "setup" /\ Saved(s) /\ UNCHANGED status
           \/ o.result # "Good"
  BY DEF Read
<1>4. o.result = "Good" /\ o.head /\ ~o.eof
  BY ONLY <1>2, <1>3, Quiet, s \in Stores, WholeReads
<1>5. UNCHANGED <<fsVars, fdVars, readOnly, creates>>
  BY DEF Read
<1>6. CASE stage[s] = "setup"
  BY <1>1, <1>2, <1>3, <1>4, <1>5, <1>6 DEF TypeOK, Put
<1>7. CASE stage[s] # "setup"
  <2>1. stage[s] = "coll" /\ status[s] = "Good"
    BY <1>7, SavingFacts
  <2>. QED
    BY <1>1, <1>2, <1>3, <1>4, <1>5, <2>1 DEF TypeOK, Put, Saved
<1>. QED  BY <1>6, <1>7

LEMMA KnowsRead ==
  ASSUME Quiet, QInv, NEW s \in Stores, Step(s), Read(s)
  PROVE  /\ Knows(s)' /\ UNCHANGED fsVars
         /\ acked' = acked \/ (stage[s] = "coll" /\ acked' = acked \cup {want[s]})
<1>1. TypeOK /\ TypeOK' /\ Phase(s) /\ Orderly(s) /\ (s \in Writers => OrderlyWriter(s))
  BY QuietFacts DEF QInv
<1>2. /\ pc[s] = "read" /\ Whole(readFile[s]) /\ status'[s] = "Good" /\ headOk'[s] /\ ~eof'[s]
      /\ UNCHANGED <<fsVars, fdVars, readOnly, creates, stage>> /\ pc'[s] = "ready"
      /\ \/ /\ stage[s] = "setup" /\ Load(s, data[readFile[s]]) /\ UNCHANGED <<want, acked>>
         \/ /\ stage[s] = "coll" /\ UNCHANGED memVars
            /\ acked' = acked \cup {want[s]} /\ want'[s] = NoCollection
  BY ReadFacts
<1>. DEFINE d == data[readFile[s]]
<1>3. CASE stage[s] = "setup"
  <2>1. /\ d.bad = {} /\ Dir \in d.ents
        /\ ents'[s] = d.ents /\ dir'[s] = d.dir /\ worn'[s] = {}
    <3>1. d.bad = {} /\ Dir \in d.ents
      BY <1>2 DEF Whole
    <3>2. Load(s, d)
      BY <1>2, <1>3
    <3>. HIDE DEF d
    <3>. QED  BY <1>1, <3>1, <3>2 DEF Load, TypeOK, Put
  <2>2. Orderly(s)'
    BY <1>1, <1>2, <1>3, <2>1 DEF Orderly, Whole, Good, fsVars, fdVars
  <2>3. s \in Writers => OrderlyWriter(s)'
    <3>. SUFFICES ASSUME s \in Writers PROVE OrderlyWriter(s)'
      OBVIOUS
    <3>1. readFile[s] = path /\ path # NoInode /\ Current' = path /\ data' = data /\ path' = path
      BY <1>1, <1>2 DEF OrderlyWriter, Current, fsVars
    <3>. QED  BY <1>1, <1>2, <1>3, <2>1, <3>1 DEF OrderlyWriter
  <2>. QED  BY <1>2, <1>3, <2>2, <2>3 DEF Knows
<1>4. CASE stage[s] = "coll"
  <2>1. s \in Writers /\ status[s] = "Good"
    BY <1>4, SavingFacts
  <2>2. Orderly(s)'
    BY <1>1, <1>2, <1>4, <2>1 DEF Orderly, Whole, Good, fsVars, fdVars, memVars
  <2>3. OrderlyWriter(s)'
    BY <1>1, <1>2, <1>4, <2>1 DEF OrderlyWriter, Current, fsVars, fdVars, memVars
  <2>. QED  BY <1>2, <1>4, <2>2, <2>3 DEF Knows
<1>. QED  BY <1>2, <1>3, <1>4

\* A save writes what the file holds and the new collection, and it stays whole
\* because every buffer it writes is fresh.
LEMMA KnowsTemp ==
  ASSUME Quiet, QInv, NEW s \in Stores, Step(s), WriteTemp(s)
  PROVE  Knows(s)' /\ UNCHANGED <<path, bkp, acked>>
<1>1. TypeOK /\ TypeOK' /\ Phase(s) /\ Placed(s)
  BY QuietFacts
<1>2. /\ s \in Writers /\ status[s] = "Good" /\ stage[s] = "coll" /\ pc[s] = "temp"
      /\ Orderly(s) /\ OrderlyWriter(s)
  BY <1>1, SavingFacts DEF WriteTemp, Placed
<1>3. UNCHANGED <<path, bkp, readFile, objVars, ents, dir, creates, acked>> /\ stage' = stage
  BY DEF WriteTemp, NotSaved
<1>4. creates[s] # 0 /\ path # NoInode
  BY <1>2 DEF OrderlyWriter
<1>5. /\ data'[Current] = data[Current] /\ data'[path] = data[path] /\ Current' = Current
      /\ readFile[s] # NoInode => data'[readFile[s]] = data[readFile[s]]
  BY <1>3, <1>4, QuietData DEF Current
<1>6. CASE pc'[s] = "close"
  <2>1. /\ work' = Put(work, s, NewInode) /\ data' = Put(data, NewInode, Image(s)) /\ FreeInodes # {}
        /\ want' = want
    BY <1>1, <1>6 DEF WriteTemp, NotSaved, TypeOK, Put
  <2>2. /\ Image(s).kind = "sealed" /\ Image(s).bad = {} /\ Image(s).ents = ents[s] /\ Image(s).dir = dir[s]
    BY <1>2 DEF Image, Orderly, Quiet
  <2>3. NewInode \in Inodes
    BY <2>1, NewInodeFresh
  <2>4. Dir \in ents[s] /\ dir[s] # {}
    BY <1>2 DEF Orderly, OrderlyWriter
  <2>5. Whole(work[s])' /\ data'[work'[s]].dir = dir[s] /\ data'[work'[s]].ents = ents[s]
    <3>1. work'[s] \in Inodes /\ data'[work'[s]] = Image(s)
      <4>. HIDE DEF NewInode, FreeInodes, Image
      <4>. QED  BY <1>1, <2>1, <2>3 DEF TypeOK, Put
    <3>. HIDE DEF Image
    <3>. QED  BY <2>2, <2>4, <3>1 DEF Whole, Good
  <2>6. Orderly(s)'
    BY <1>2, <1>3, <1>4, <1>5, <1>6 DEF Orderly, Whole, Good, objVars
  <2>7. OrderlyWriter(s)'
    BY <1>2, <1>3, <1>4, <1>5, <1>6, <2>1, <2>5 DEF OrderlyWriter, objVars
  <2>. QED  BY <1>3, <2>6, <2>7 DEF Knows
<1>7. CASE pc'[s] # "close"
  <2>1. pc'[s] \in {"ready", "aborted"}
    BY <1>1, <1>7 DEF WriteTemp, NotSaved, TypeOK, Put
  <2>2. Orderly(s)'
    BY <1>2, <1>3, <1>4, <1>5, <2>1 DEF Orderly, Whole, Good, objVars
  <2>3. OrderlyWriter(s)'
    BY <1>2, <1>3, <1>4, <1>5, <2>1 DEF OrderlyWriter, objVars
  <2>. QED  BY <1>3, <2>2, <2>3 DEF Knows
<1>. QED  BY <1>6, <1>7

LEMMA KnowsCloseRead ==
  ASSUME Quiet, QInv, NEW s \in Stores, Step(s), CloseRead(s)
  PROVE  Knows(s)' /\ UNCHANGED <<fsVars, acked>>
<1>1. TypeOK /\ TypeOK' /\ Phase(s) /\ Placed(s)
  BY QuietFacts
<1>2. /\ s \in Writers /\ status[s] = "Good" /\ pc[s] = "close" /\ Orderly(s) /\ OrderlyWriter(s)
  BY <1>1, SavingFacts DEF CloseRead, Placed
<1>3. /\ UNCHANGED <<fsVars, work, objVars, memVars, stage, want, creates, acked>>
      /\ pc'[s] = "backup" /\ readFile'[s] = NoInode
  BY <1>1 DEF CloseRead, TypeOK, Put
<1>4. Orderly(s)'
  BY <1>2, <1>3 DEF Orderly, objVars, memVars
<1>5. OrderlyWriter(s)'
  BY <1>2, <1>3 DEF OrderlyWriter, Current, Whole, Good, objVars, memVars, fsVars
<1>. QED  BY <1>3, <1>4, <1>5 DEF Knows

\* The first rename leaves the list where it is, under another name.
LEMMA KnowsBackup ==
  ASSUME Quiet, QInv, NEW s \in Stores, Step(s), Backup(s)
  PROVE  /\ Knows(s)' /\ UNCHANGED <<data, acked>> /\ Current' = Current
         /\ path' = NoInode /\ bkp' = path /\ s \in Writers
<1>1. TypeOK /\ TypeOK' /\ Phase(s) /\ Placed(s)
  BY QuietFacts
<1>2. /\ s \in Writers /\ status[s] = "Good" /\ pc[s] = "backup" /\ Orderly(s) /\ OrderlyWriter(s)
  BY <1>1, SavingFacts DEF Backup, Placed
<1>3. path # NoInode /\ HasPath(s) /\ ~MayFail("rename")
  BY <1>2 DEF OrderlyWriter, HasPath, MayFail, Quiet
<1>4. /\ UNCHANGED <<data, readFile, work, objVars, memVars, stage, want, creates, acked>>
      /\ pc'[s] = "install" /\ path' = NoInode /\ bkp' = path
  BY <1>1, <1>3 DEF Backup, TypeOK, Put
<1>5. Current' = Current
  BY <1>3, <1>4 DEF Current
<1>6. Orderly(s)'
  BY <1>2, <1>4 DEF Orderly, Whole, Good, objVars, memVars
<1>7. OrderlyWriter(s)'
  BY <1>2, <1>4, <1>5 DEF OrderlyWriter, Whole, Good, objVars, memVars
<1>. QED  BY <1>2, <1>4, <1>5, <1>6, <1>7 DEF Knows

\* The second rename is the moment at which the list grows, by one name.
LEMMA KnowsInstall ==
  ASSUME Quiet, QInv, NEW s \in Stores, Step(s), Install(s)
  PROVE  /\ Knows(s)' /\ UNCHANGED <<data, bkp, acked>> /\ s \in Writers
         /\ path = NoInode /\ path' = work[s] /\ Whole(work[s])
         /\ want[s] \in Collections /\ want[s] \notin data[bkp].dir
         /\ data[work[s]].dir = data[bkp].dir \cup {want[s]}
         /\ data[bkp].ents \subseteq data[work[s]].ents
<1>1. TypeOK /\ TypeOK' /\ Phase(s) /\ Placed(s)
  BY QuietFacts
<1>2. /\ s \in Writers /\ status[s] = "Good" /\ pc[s] = "install" /\ Orderly(s) /\ OrderlyWriter(s)
      /\ stage[s] = "coll"
  BY <1>1, SavingFacts DEF Install, Placed
<1>3. path = NoInode /\ ~MayFail("rename") /\ Current = bkp /\ want[s] \in Collections
  BY <1>1, <1>2 DEF OrderlyWriter, MayFail, Quiet, Current, Placed
<1>4. /\ UNCHANGED <<bkp, data, readFile, objVars, memVars, stage, want, creates, acked>>
      /\ pc'[s] = "open" /\ path' = work[s]
  BY <1>1, <1>3 DEF Install, TypeOK, Put
<1>5. /\ Whole(work[s]) /\ want[s] \notin data[bkp].dir /\ data[work[s]].dir = dir[s]
      /\ data[work[s]].ents = ents[s] /\ dir[s] = data[bkp].dir \cup {want[s]}
      /\ data[bkp].ents \subseteq ents[s]
  BY <1>2, <1>3 DEF OrderlyWriter
<1>6. Current' = work[s] /\ work[s] # NoInode
  BY <1>4, <1>5, ConstantsAssumption DEF Current, Whole, Good
<1>7. Orderly(s)'
  BY <1>2, <1>4 DEF Orderly, Whole, Good, objVars, memVars
<1>8. OrderlyWriter(s)'
  BY <1>2, <1>4, <1>5, <1>6 DEF OrderlyWriter, objVars, memVars
<1>. QED  BY <1>2, <1>3, <1>4, <1>5, <1>7, <1>8 DEF Knows

LEMMA KnowsDestroy ==
  ASSUME Quiet, QInv, NEW s \in Stores, Step(s), Destroy(s)
  PROVE  Knows(s)' /\ UNCHANGED <<fsVars, acked>>
<1>1. TypeOK /\ TypeOK' /\ (s \in Writers => OrderlyWriter(s))
  BY QuietFacts DEF QInv
<1>2. UNCHANGED <<fsVars, acked>> /\ pc[s] \in {"ready", "aborted"}
  BY DEF Destroy, Forget
<1>3. /\ readFile'[s] = NoInode /\ eof'[s] = FALSE /\ status'[s] = "CredentialsSet"
      /\ dir'[s] = {} /\ pc'[s] = "new" /\ stage'[s] = "setup"
  BY <1>1 DEF Destroy, Forget, TypeOK, Put
<1>4. Orderly(s)'
  BY <1>3 DEF Orderly
<1>5. s \in Writers => OrderlyWriter(s)'
  BY <1>1, <1>2, <1>3 DEF OrderlyWriter, fsVars
<1>. QED  BY <1>2, <1>4, <1>5 DEF Knows

\* The object's only save starts from what setup() read.
LEMMA KnowsCreate ==
  ASSUME Quiet, QInv, NEW s \in Stores, Step(s), NEW c \in Collections, CreateCollection(s, c)
  PROVE  Knows(s)' /\ UNCHANGED <<fsVars, acked>>
<1>1. TypeOK /\ TypeOK' /\ Orderly(s) /\ s \in Writers /\ OrderlyWriter(s)
  BY QuietFacts DEF QInv, CreateCollection
<1>2. status[s] = "Good" /\ creates[s] = 0 /\ pc[s] = "ready" /\ UNCHANGED <<fsVars, fdVars, objVars, acked>>
  <2>1. creates[s] < MaxCreates /\ MaxCreates \in Nat /\ creates[s] \in 0 .. MaxCreates
    BY <1>1, ConstantsAssumption DEF CreateCollection, TypeOK
  <2>2. creates[s] = 0
    BY <2>1 DEF Quiet
  <2>. QED  BY <2>2 DEF CreateCollection, Quiet
<1>3. Dir \in ents[s] /\ worn[s] = {} /\ dir[s] = data[Current].dir /\ headOk[s]
  BY <1>1, <1>2 DEF Orderly, OrderlyWriter
<1>4. /\ c \notin dir[s] /\ AddCollection(s, c) /\ stage'[s] = "coll" /\ want'[s] = c
      /\ pc'[s] = "temp" /\ creates'[s] = 1
  BY <1>1, <1>2, <1>3 DEF CreateCollection, TypeOK, Put
<1>5. ents'[s] = ents[s] \cup {c} /\ dir'[s] = dir[s] \cup {c} /\ worn'[s] = {}
  BY <1>1, <1>3, <1>4 DEF AddCollection, TypeOK, Put
<1>6. Orderly(s)'
  BY <1>1, <1>2, <1>3, <1>4, <1>5 DEF Orderly, Whole, Good, fsVars, fdVars, objVars
<1>7. OrderlyWriter(s)'
  BY <1>1, <1>2, <1>3, <1>4, <1>5 DEF OrderlyWriter, Current, fsVars, fdVars, objVars
<1>. QED  BY <1>2, <1>6, <1>7 DEF Knows

\* What the three files and the history say of each other.
FilesAgree ==
  /\ BackupIsOlder /\ Whole(Current) /\ acked \subseteq data[Current].dir
  /\ \A i \in {path, bkp} \ {NoInode} : Whole(i)
  /\ Writers = {} => path # NoInode

LEMMA FilesAgreeStep ==
  ASSUME Quiet, QInv, NEW s \in Stores, Step(s)
  PROVE  Knows(s)' /\ FilesAgree'
<1>1. FilesAgree /\ TypeOK
  BY QuietFacts DEF QInv, FilesAgree
<1>2. /\ Current \in Inodes /\ data'[Current] = data[Current]
      /\ path # NoInode => path \in Inodes /\ data'[path] = data[path]
      /\ bkp # NoInode => bkp \in Inodes /\ data'[bkp] = data[bkp]
  BY QuietData
<1>3. ASSUME path' = path, bkp' = bkp, acked' \subseteq data[Current].dir
      PROVE  FilesAgree'
  BY <1>1, <1>2, <1>3 DEF FilesAgree, BackupIsOlder, Whole, Good, Current
<1>4. acked \subseteq data[Current].dir
  BY DEF QInv
<1>5. CASE SetupStat(s) \/ Open(s) \/ Lock(s) \/ WriteTemp(s) \/ CloseRead(s) \/ Destroy(s)
  <2>1. Knows(s)' /\ path' = path /\ bkp' = bkp /\ acked' = acked
    BY <1>5, KnowsSetup, KnowsOpen, KnowsLock, KnowsTemp, KnowsCloseRead, KnowsDestroy DEF fsVars
  <2>. QED  BY <1>3, <1>4, <2>1
<1>6. CASE \E c \in Collections : CreateCollection(s, c)
  <2>1. Knows(s)' /\ path' = path /\ bkp' = bkp /\ acked' = acked
    BY <1>6, KnowsCreate DEF fsVars
  <2>. QED  BY <1>3, <1>4, <2>1
<1>7. CASE Read(s)
  <2>1. /\ Knows(s)' /\ path' = path /\ bkp' = bkp
        /\ acked' = acked \/ (stage[s] = "coll" /\ acked' = acked \cup {want[s]})
    BY <1>7, KnowsRead DEF fsVars
  <2>2. stage[s] = "coll" => want[s] \in data[Current].dir
    <3>. SUFFICES ASSUME stage[s] = "coll" PROVE want[s] \in data[Current].dir
      OBVIOUS
    <3>1. OrderlyWriter(s) /\ pc[s] = "read"
      BY <1>7, SavingFacts DEF Read
    <3>. QED  BY <3>1 DEF OrderlyWriter, Current
  <2>. QED  BY <1>3, <1>4, <2>1, <2>2
<1>8. CASE Backup(s)
  <2>1. /\ Knows(s)' /\ data' = data /\ acked' = acked /\ Current' = Current
        /\ path' = NoInode /\ bkp' = path /\ s \in Writers
    BY <1>8, KnowsBackup
  <2>. QED
    BY <1>1, <2>1, ConstantsAssumption DEF FilesAgree, BackupIsOlder, Whole, Good
<1>9. CASE Install(s)
  <2>1. /\ Knows(s)' /\ data' = data /\ bkp' = bkp /\ acked' = acked /\ s \in Writers
        /\ path = NoInode /\ path' = work[s] /\ Whole(work[s])
        /\ data[work[s]].dir = data[bkp].dir \cup {want[s]}
        /\ data[bkp].ents \subseteq data[work[s]].ents
    BY <1>9, KnowsInstall
  <2>2. Current = bkp /\ Current' = work[s] /\ path' # NoInode
    BY <2>1, ConstantsAssumption DEF Current, Whole, Good
  <2>. QED
    BY <1>1, <2>1, <2>2 DEF FilesAgree, BackupIsOlder, Whole, Good
<1>10. CASE Unlink(s) \/ Creat(s) \/ WriteNewHeader(s) \/ WriteNewRest(s) \/ Crash(s)
  BY <1>10 DEF QInv, Orderly, Unlink, Creat, WriteNewHeader, WriteNewRest, Crash, MayFail, Quiet
<1>. QED
  BY <1>5, <1>6, <1>7, <1>8, <1>9, <1>10 DEF Step, SystemCall

LEMMA QInvStep == Quiet /\ QInv /\ [Next]_vars => QInv'
<1>. SUFFICES ASSUME Quiet, QInv, [Next]_vars PROVE QInv'
  OBVIOUS
<1>1. PInv'
  BY PInvStep DEF QInv
<1>2. CASE UNCHANGED vars
  BY <1>1, <1>2 DEF QInv, BackupIsOlder, Current, Whole, Good, Orderly, OrderlyWriter,
                    vars, fsVars, fdVars, objVars, memVars, ctlVars
<1>3. CASE ~UNCHANGED vars
  <2>1. PICK s \in Stores : Step(s)
    BY <1>3, StepOfNext
  <2>2. Knows(s)' /\ FilesAgree'
    BY <2>1, FilesAgreeStep
  <2>3. \A t \in Stores \ {s} : Orderly(t)'
    BY <2>1, OrderlyOthers
  <2>4. \A t \in Writers \ {s} : OrderlyWriter(t)'
    BY <2>1, OrderlyWriterOthers
  <2>. QED
    BY <1>1, <2>2, <2>3, <2>4 DEF QInv, FilesAgree, Knows
<1>. QED  BY <1>2, <1>3

LEMMA QInvInit == Quiet /\ Init => QInv
<1>. SUFFICES ASSUME Quiet, Init PROVE QInv
  OBVIOUS
<1>1. PInv
  BY PInvInit
<1>2. path \in Inodes /\ data[path] = Populated /\ bkp = NoInode /\ acked = {} /\ path # NoInode
  BY ConstantsAssumption DEF Quiet, Init
<1>3. Whole(path) /\ Current = path
  BY <1>2 DEF Whole, Good, Populated, Quiet, Current
<1>4. \A s \in Stores : Orderly(s)
  BY DEF Init, Orderly
<1>5. \A s \in Writers : OrderlyWriter(s)
  BY <1>2, ConstantsAssumption DEF Init, OrderlyWriter
<1>. QED
  BY <1>1, <1>2, <1>3, <1>4, <1>5 DEF QInv, BackupIsOlder

LEMMA QuietInvariance ==
  ASSUME Quiet PROVE Spec => []QInv
  BY QInvInit, QInvStep, PTL DEF Spec

\* A save that replaces the file never loses an entity its backup still has: with
\* one writer, one createCollection() for a store object, and nothing that fails
\* but the writing of a temporary file.
THEOREM BackupNeverAhead ==
  ASSUME Quiet PROVE Spec => []BackupIsOlder
<1>1. QInv => BackupIsOlder
  BY DEF QInv
<1>. QED  BY <1>1, QuietInvariance, PTL

\* In the same regime, a process that sets up while another one saves finds the
\* old file, the new one, or none between the two renames; never one it takes for
\* corrupt, whatever the number of readers.
THEOREM ReadersNeverDeceived ==
  ASSUME Quiet PROVE Spec => []ReadersSeeWholeFiles
<1>1. QInv => ReadersSeeWholeFiles
  BY DEF QInv, Orderly, ReadersSeeWholeFiles
<1>. QED  BY <1>1, QuietInvariance, PTL

\* In the same regime, what createCollection() reported is in the list that the
\* file shows as soon as no call is in progress, also after failed writes.
THEOREM AckedIsListed ==
  ASSUME Quiet PROVE Spec => []AckedListed
<1>1. QInv => AckedListed
  <2>. SUFFICES ASSUME QInv, \A s \in Stores : pc[s] \in {"new", "ready"}
                PROVE  path # NoInode /\ acked \subseteq Listing(data[path])
    BY DEF AckedListed
  <2>1. path # NoInode
    BY ConstantsAssumption DEF QInv, OrderlyWriter
  <2>2. Whole(path) /\ acked \subseteq data[path].dir
    BY <2>1 DEF QInv, Current
  <2>. QED  BY <2>1, <2>2 DEF Listing, Whole, Good
<1>. QED  BY <1>1, QuietInvariance, PTL

-----------------------------------------------------------------------------
(* The rename protocol of save() implements one atomic commit *)

\* What a reader has seen of the list.
Seen(r) == IF pc[r] = "read" THEN Listing(data[readFile[r]]) ELSE dir[r]

LEMMA WholeListing ==
  ASSUME NEW i, Whole(i)
  PROVE  Listing(data[i]) = data[i].dir
  BY DEF Whole, Good, Listing

\* The list is what the current file holds.
LEMMA ListedIsCurrent ==
  ASSUME QInv
  PROVE  Listed = data[Current].dir /\ Listed = Listing(data[Current])
<1>1. Whole(Current) /\ Current # NoInode
  BY ConstantsAssumption DEF QInv, Whole, Good
<1>2. Listed = Listing(data[Current])
  BY <1>1 DEF Listed, Current
<1>. QED  BY <1>1, <1>2, WholeListing

\* A store that does not move sees what it saw.
LEMMA SeenByOthers ==
  ASSUME Quiet, QInv, NEW s \in Stores, Step(s), NEW r \in Stores, r # s
  PROVE  Seen(r)' = Seen(r)
<1>1. TypeOK /\ Placed(r)
  BY QuietFacts, StepFacts DEF QInv
<1>2. pc'[r] = pc[r] /\ readFile'[r] = readFile[r] /\ dir'[r] = dir[r]
  BY ONLY <1>1, Step(s), s \in Stores, r \in Stores, r # s, OthersKeepAll
<1>3. pc[r] = "read" => data'[readFile[r]] = data[readFile[r]]
  BY <1>1, QuietData, ConstantsAssumption DEF Placed
<1>. QED
  BY <1>2, <1>3 DEF Seen, Listing

\* A reader takes its view when it opens the file, keeps it while it reads, and
\* gives it up with the store.
LEMMA ReaderSteps ==
  ASSUME Quiet, QInv, NEW r \in Readers, Step(r)
  PROVE  /\ path' = path /\ bkp' = bkp
         /\ Seen(r)' \in {Seen(r), Listed, {}}
<1>1. /\ TypeOK /\ TypeOK' /\ Phase(r) /\ Placed(r) /\ Orderly(r) /\ r \in Stores /\ r \notin Writers
  BY QuietFacts DEF QInv, Readers
<1>2. stage[r] = "setup"
  BY <1>1 DEF Phase
<1>3. path' = path /\ bkp' = bkp
  BY <1>1, <1>2, QuietFacts DEF Placed
<1>. USE DEF fsVars, memVars
<1>4. CASE SetupStat(r)
  BY <1>1, <1>4 DEF SetupStat, Seen, TypeOK, Put
<1>5. CASE Open(r)
  <2>1. path # NoInode => Listed = Listing(data[path])
    BY DEF Listed
  <2>2. path # NoInode => pc'[r] \in {"lock", "read"} /\ readFile'[r] = path
    BY <1>1, <1>5 DEF Open, TypeOK, Put
  <2>3. path = NoInode => pc'[r] = "ready"
    BY <1>1, <1>2, <1>5, ConstantsAssumption DEF Open, OpenFailed, SetupFailed, TypeOK, Put
  <2>4. UNCHANGED <<data, dir>> /\ pc[r] = "open"
    BY <1>5 DEF Open
  <2>. QED
    BY <1>3, <2>1, <2>2, <2>3, <2>4 DEF Seen, Listing
<1>6. CASE Read(r)
  <2>1. /\ pc[r] = "read" /\ Whole(readFile[r]) /\ pc'[r] = "ready" /\ Load(r, data[readFile[r]])
    BY <1>1, <1>2, <1>6, ReadFacts
  <2>2. dir'[r] = data[readFile[r]].dir
    BY <1>1, <2>1 DEF Load, Whole, TypeOK, Put
  <2>. QED  BY <1>3, <2>1, <2>2, WholeListing DEF Seen
<1>7. CASE Destroy(r)
  BY <1>1, <1>7 DEF Destroy, Forget, Seen, TypeOK, Put
<1>8. ~Lock(r) /\ ~Crash(r) /\ ~\E c \in Collections : CreateCollection(r, c)
  BY <1>1 DEF Orderly, Lock, Crash, MayFail, Quiet, CreateCollection
<1>9. \/ Unlink(r) \/ Creat(r) \/ WriteNewHeader(r) \/ WriteNewRest(r)
      \/ WriteTemp(r) \/ CloseRead(r) \/ Backup(r) \/ Install(r)
      => FALSE
  BY <1>1, <1>2 DEF Orderly, Placed, Unlink, Creat, WriteNewHeader, WriteNewRest, WriteTemp,
                    CloseRead, Backup, Install
<1>. QED
  BY <1>3, <1>4, <1>5, <1>6, <1>7, <1>8, <1>9 DEF Step, SystemCall

\* The writer's second rename is a commit, and nothing else it does changes the list.
LEMMA WriterSteps ==
  ASSUME Quiet, QInv, NEW s \in Writers, Step(s)
  PROVE  \/ data'[Current'].dir = data[Current].dir
         \/ \E c \in Collections \ data[Current].dir :
              data'[Current'].dir = data[Current].dir \cup {c}
<1>1. s \in Stores
  BY ConstantsAssumption
<1>2. data'[Current] = data[Current]
  BY <1>1, QuietData
<1>3. CASE pc[s] = "install" /\ path' = work[s] /\ bkp' = bkp
  <2>1. stage[s] # "setup" /\ Placed(s)
    BY <1>1, <1>3, QuietFacts DEF Placed
  <2>2. /\ OrderlyWriter(s) /\ path = NoInode
    BY <1>1, <1>3, <2>1, SavingFacts DEF OrderlyWriter
  <2>3. /\ Whole(work[s]) /\ data[work[s]].dir = dir[s] /\ want[s] \notin data[Current].dir
        /\ dir[s] = data[Current].dir \cup {want[s]}
    BY <1>3, <2>2 DEF OrderlyWriter
  <2>4. work[s] # NoInode /\ data'[work[s]] = data[work[s]] /\ Current' = work[s]
    BY <1>1, <1>3, <2>3, QuietData, ConstantsAssumption DEF Current, Whole, Good
  <2>5. want[s] \in Collections
    BY <1>3, <2>1 DEF Placed
  <2>. QED  BY <2>3, <2>4, <2>5
<1>4. CASE path' = path /\ bkp' = bkp
  BY <1>2, <1>4 DEF Current
<1>5. CASE pc[s] = "backup" /\ path # NoInode /\ path' = NoInode /\ bkp' = path
  BY <1>2, <1>5 DEF Current
<1>. QED  BY <1>1, <1>3, <1>4, <1>5, QuietFacts

LEMMA CatalogueStep == Quiet /\ QInv /\ QInv' /\ [Next]_vars => [Promise!CatalogueNext]_<<Listed, ReaderView>>
<1>. SUFFICES ASSUME Quiet, QInv, QInv', [Next]_vars, ~UNCHANGED vars
              PROVE  Promise!CatalogueNext \/ UNCHANGED <<Listed, ReaderView>>
  BY DEF Listed, Listing, ReaderView, vars, fsVars, fdVars, memVars, ctlVars
<1>1. PICK s \in Stores : Step(s)
  BY StepOfNext
<1>2. Listed = data[Current].dir /\ Listed' = data'[Current'].dir
  <2>1. QInv => Listed = data[Current].dir
    BY ListedIsCurrent
  <2>2. Whole(Current)' /\ Current' # NoInode
    BY ConstantsAssumption DEF QInv, Whole, Good
  <2>3. Listed' = Listing(data[Current])'
    BY <2>2 DEF Listed, Current
  <2>. QED  BY <2>1, <2>2, <2>3 DEF Whole, Good, Listing
<1>3. ReaderView = [r \in Readers |-> Seen(r)] /\ ReaderView' = [r \in Readers |-> Seen(r)']
  BY DEF ReaderView, Seen
<1>4. \A r \in Readers \ {s} : Seen(r)' = Seen(r)
  BY <1>1, SeenByOthers DEF Readers
<1>5. CASE s \in Writers
  <2>1. UNCHANGED ReaderView
    BY <1>3, <1>4, <1>5 DEF Readers
  <2>2. Listed' = Listed \/ \E c \in Collections : c \notin Listed /\ Listed' = Listed \cup {c}
    BY <1>1, <1>2, <1>5, WriterSteps
  <2>. QED
    BY <2>1, <2>2 DEF Promise!CatalogueNext, Promise!Commit
<1>6. CASE s \in Readers
  <2>1. path' = path /\ bkp' = bkp /\ Seen(s)' \in {Seen(s), Listed, {}}
    BY <1>1, <1>6, ReaderSteps
  <2>2. UNCHANGED Listed
    BY <1>1, <1>2, <2>1, QuietData DEF Current
  <2>3. ReaderView' = [ReaderView EXCEPT ![s] = Seen(s)']
    BY <1>3, <1>4, <1>6
  <2>4. CASE Seen(s)' = Seen(s)
    BY <1>3, <1>4, <2>2, <2>4
  <2>5. CASE Seen(s)' = Listed
    BY <1>6, <2>2, <2>3, <2>5 DEF Promise!CatalogueNext, Promise!Snapshot
  <2>6. CASE Seen(s)' = {}
    BY <1>6, <2>2, <2>3, <2>6 DEF Promise!CatalogueNext, Promise!Close
  <2>. QED  BY <2>1, <2>4, <2>5, <2>6
<1>. QED  BY <1>5, <1>6 DEF Readers

LEMMA CatalogueStart == Quiet /\ Init => Promise!CatalogueInit
<1>. SUFFICES ASSUME Quiet, Init PROVE Promise!CatalogueInit
  OBVIOUS
<1>1. path \in Inodes /\ data[path] = Populated /\ path # NoInode
  BY ConstantsAssumption DEF Quiet, Init
<1>2. Listed = Seeded
  BY <1>1 DEF Listed, Listing, Populated
<1>3. ReaderView = [r \in Readers |-> {}]
  BY DEF Init, ReaderView, Readers
<1>. QED  BY <1>2, <1>3 DEF Promise!CatalogueInit

\* In the same regime - one writer, one createCollection() for a store object,
\* and only writes fail - the whole rename protocol, with its temporary file, its
\* flock, its backup and its second opening, is one atomic commit in the eyes of
\* its clients, for any number of readers and any names.
THEOREM SaveIsAtomic ==
  ASSUME Quiet PROVE Spec => ImplementsCatalogue
<1>1. Quiet /\ Init => Promise!CatalogueInit
  BY CatalogueStart
<1>2. Quiet /\ QInv /\ QInv' /\ [Next]_vars => [Promise!CatalogueNext]_<<Listed, ReaderView>>
  BY CatalogueStep
<1>. QED
  BY <1>1, <1>2, QuietInvariance, PTL
  DEF Spec, ImplementsCatalogue, Promise!CatalogueSpec, Promise!catalogueVars
=============================================================================
