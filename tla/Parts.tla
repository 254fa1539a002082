-------------------------------- MODULE Parts --------------------------------
(***************************************************************************)
(* Five parts side by side: the importer, the wallet class it reads with,   *)
(* the synchronization server, a collection kept in memory, and the device *)
(* a collection is written through. None of them has state in common with  *)
(* another: a step of the whole is a step of one of them. `running' says   *)
(* which of them move in a behaviour; the others keep their first state.   *)
(***************************************************************************)
EXTENDS WalletImport

CONSTANTS
  Groups,  \* sets of parts that run together
  WalletFolders, Global, WalletKeys, Values, Passwords, Block,  \* see KWalletFile
  Clients, Versions, Version, Asserts, MaxTicks,                \* see SyncServer
  Ids, Attributes, Matching, Labels,                            \* see TemporaryCollection
  Sizes, Chunk, Least, MaxFields                                \* see SecretDevice

VARIABLES
  running,
  open, folder, entries, hashes, passhash, file, password, made,
  daemon, build, backlog, service, upstream, down, client, ticks,
  there, items, doomed, view, spent, merged, revived,
  phase, fields, buffer, pos, chunks, got

walletVars == <<open, folder, entries, hashes, passhash, file, password, made>>
syncVars == <<daemon, build, backlog, service, upstream, down, client, ticks>>
memoryVars == <<there, items, doomed, view, spent, merged, revived>>
deviceVars == <<phase, fields, buffer, pos, chunks, got>>

Wallet == INSTANCE KWalletFile WITH Folders <- WalletFolders, Keys <- WalletKeys
Sync == INSTANCE SyncServer WITH job <- service
Memory == INSTANCE TemporaryCollection
Device == INSTANCE SecretDevice

ASSUME PartsAssumption ==
  Wallet!KWalletAssumption /\ Sync!SyncAssumption /\ Memory!TemporaryAssumption /\ Device!DeviceAssumption

-----------------------------------------------------------------------------
PartsInit ==
  /\ running \in Groups
  /\ Init /\ Wallet!Init /\ Sync!Init /\ Memory!Init /\ Device!Init

PartsNext ==
  /\ UNCHANGED running
  /\ \/ /\ "importer" \in running /\ Next
        /\ UNCHANGED <<walletVars, syncVars, memoryVars, deviceVars>>
     \/ /\ "wallet" \in running /\ Wallet!Next
        /\ UNCHANGED <<vars, syncVars, memoryVars, deviceVars>>
     \/ /\ "sync" \in running /\ Sync!Next
        /\ UNCHANGED <<vars, walletVars, memoryVars, deviceVars>>
     \/ /\ "memory" \in running /\ Memory!Next
        /\ UNCHANGED <<vars, walletVars, syncVars, deviceVars>>
     \/ /\ "device" \in running /\ Device!Next
        /\ UNCHANGED <<vars, walletVars, syncVars, memoryVars>>

partsVars == <<running, vars, walletVars, syncVars, memoryVars, deviceVars>>

\* The fairness of the importer and of the server, where they run.
PartsFairness ==
  /\ WF_vars("importer" \in running /\ Deliver)
  /\ \A w \in Wallets : WF_vars("importer" \in running /\ Answer(w))
  /\ WF_vars("importer" \in running /\ (AcceptPassword \/ RejectDialog))
  /\ WF_vars("importer" \in running /\ Exit)
  /\ WF_syncVars("sync" \in running /\ Sync!Serve)
  /\ WF_syncVars("sync" \in running /\ (Sync!Read \/ Sync!Timeout))

PartsSpec == PartsInit /\ [][PartsNext]_partsVars /\ PartsFairness

-----------------------------------------------------------------------------
\* The types of all five parts.
PartsTypeOK == TypeOK /\ Wallet!TypeOK /\ Sync!TypeOK /\ Memory!TypeOK /\ Device!TypeOK

\* See WalletImport: every launch of the importer ends.
ImportEndsInTime == "importer" \in running => ImportEnds

\* See KWalletFile.
NeverDeniesAnEntry == Wallet!NeverDeniesAnEntry
OpensAsSaved == Wallet!OpensAsSaved

\* See SyncServer.
SidesAgree == Sync!SidesAgree
RequestsAreHandled == Sync!RequestsAreHandled
ServesInOrder == Sync!ServesInOrder
EveryoneIsServed == Sync!EveryoneIsServed

\* See TemporaryCollection.
ViewIsContents == Memory!ViewIsContents
AttributesTellItems == Memory!AttributesTellItems

\* See SecretDevice.
OnlyTheEndIsLost == Device!OnlyTheEndIsLost
=============================================================================
