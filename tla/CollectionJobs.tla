-------------------------- MODULE CollectionJobs --------------------------
(***************************************************************************)
(* The jobs of ksecretjobs.cpp on one collection: creating, unlocking,     *)
(* locking and deleting it for several clients at a time. A job that asks  *)
(* the user something returns to the event loop until the dialog closes,   *)
(* and whatever the other jobs do to the collection comes in between.      *)
(***************************************************************************)
EXTENDS KSecretCollection

VARIABLES
  job,     \* what the job of a client waits for
  result   \* result() of the client's last job

vars == <<collVars, job, result>>

TypeOK ==
  /\ CollTypeOK
  /\ job \in [Clients -> {"none", "newPassword", "newAcl", "password", "acl", "orphan"}]
  /\ result \in [Clients -> {"none", "true", "false", "failedTwice"}]

Init ==
  /\ CollInit
  /\ job = [c \in Clients |-> "none"]
  /\ result = [c \in Clients |-> "none"]

-----------------------------------------------------------------------------
AskUser(c, dialog) ==
  /\ job' = [job EXCEPT ![c] = dialog]
  /\ result' = [result EXCEPT ![c] = "none"]

EmitResult(c, r) ==
  /\ job' = [job EXCEPT ![c] = "none"]
  /\ result' = [result EXCEPT ![c] = IF r THEN "true" ELSE "false"]

\* The listeners hear of the failure, and then of the same result again.
EmitTwice(c) ==
  /\ job' = [job EXCEPT ![c] = "none"]
  /\ result' = [result EXCEPT ![c] = "failedTwice"]

-----------------------------------------------------------------------------
(* KSecretCreateCollectionJob *)

StartCreate(c) ==
  /\ job[c] = "none"
  /\ ~alive
  /\ AskUser(c, "newPassword")
  /\ UNCHANGED collVars

NewPassword(c, w, lockIt) ==
  /\ job[c] = "newPassword"
  /\ Create(w, lockIt)
  /\ AskUser(c, "newAcl")

\* The dialog was cancelled, or the first serialize() failed.
NotCreated(c) ==
  /\ job[c] = "newPassword"
  /\ EmitResult(c, FALSE)
  /\ UNCHANGED collVars

\* There is no return after a permission that could not be stored.
NewPermission(c, exists) ==
  /\ job[c] = "newAcl"
  /\ SetApplicationPermission(c, exists)
  /\ \/ Accepts(exists) /\ EmitResult(c, TRUE)
     \/ ~Accepts(exists) /\ EmitTwice(c)

-----------------------------------------------------------------------------
(* KSecretUnlockCollectionJob *)

\* A locked collection knows no permissions, so that the user is always asked,
\* unless the process that wants it is gone.
StartUnlock(c) ==
  /\ job[c] = "none"
  /\ alive
  /\ \/ ~locked /\ EmitResult(c, TRUE)
     \/ locked /\ (AskUser(c, "password") \/ EmitResult(c, FALSE))
  /\ UNCHANGED collVars

\* When the file cannot be opened the user is asked again, and a second time for
\* an application that the collection does not know yet.
Password(c, w) ==
  /\ job[c] = "password"
  /\ TryUnlockPassword(w)
  /\ \/ locked' /\ AskUser(c, "password")
     \/ ~locked' /\ c \in acl' /\ EmitResult(c, TRUE)
     \/ ~locked' /\ c \notin acl' /\ AskUser(c, "acl")

\* The collection stays open.
UnlockCancelled(c) ==
  /\ job[c] \in {"password", "acl"}
  /\ EmitResult(c, FALSE)
  /\ UNCHANGED collVars

Permission(c, exists) ==
  /\ job[c] = "acl"
  /\ SetApplicationPermission(c, exists)
  /\ EmitResult(c, Accepts(exists))

-----------------------------------------------------------------------------
(* KSecretLockCollectionJob, KSecretDeleteCollectionJob *)

LockJob(c) ==
  /\ job[c] = "none"
  /\ alive
  /\ \/ locked /\ EmitResult(c, TRUE) /\ UNCHANGED collVars
     \/ ~locked /\ Lock /\ EmitResult(c, TRUE)
     \/ dirty /\ EmitResult(c, FALSE) /\ UNCHANGED collVars

\* Jobs with an open dialog keep their pointer to the collection.
DeleteJob(c) ==
  /\ job[c] = "none"
  /\ DeleteCollection
  /\ job' = [d \in Clients |->
               IF job[d] \in {"newAcl", "password", "acl"} THEN "orphan" ELSE job[d]]
  /\ result' = [result EXCEPT ![c] = "true"]

\* The dialog of such a job closes: unless that ends the daemon, the job fails.
Orphaned(c) ==
  /\ job[c] = "orphan"
  /\ EmitResult(c, FALSE)
  /\ UNCHANGED collVars

-----------------------------------------------------------------------------
(* KSecretCreateItemJob, KSecretDeleteItemJob and the changes of an item *)

ItemJob ==
  /\ \/ \E item \in Items, replace \in BOOLEAN : CreateItem(item, replace)
     \/ \E i \in Ids : DeleteItem(i) \/ \E item \in Items : ChangeItem(i, item)
  /\ UNCHANGED <<job, result>>

SyncTimer ==
  /\ Sync \/ SyncFails
  /\ UNCHANGED <<job, result>>

Restart ==
  /\ Crash
  /\ job' = [c \in Clients |-> "none"]
  /\ result' = [c \in Clients |-> "none"]

-----------------------------------------------------------------------------
Next ==
  \/ \E c \in Clients :
       \/ StartCreate(c) \/ NotCreated(c)
       \/ \E w \in Passwords, lockIt \in BOOLEAN : NewPassword(c, w, lockIt)
       \/ \E exists \in BOOLEAN : NewPermission(c, exists) \/ Permission(c, exists)
       \/ StartUnlock(c) \/ UnlockCancelled(c)
       \/ \E w \in Passwords : Password(c, w)
       \/ LockJob(c) \/ DeleteJob(c) \/ Orphaned(c)
  \/ ItemJob
  \/ SyncTimer
  \/ Restart

Spec == Init /\ [][Next]_vars

\* A single-shot timer fires, and the disk does not stay full for ever.
FairSpec == Spec /\ WF_vars(Sync /\ UNCHANGED <<job, result>>)

-----------------------------------------------------------------------------
(* Properties *)

\* A client that waited for its dialogs is told that the collection is unlocked
\* only if it is so when it is told, whatever other jobs did in the meantime.
UnlockReported ==
  [][\A c \in Clients :
       job[c] \in {"password", "acl"} /\ job'[c] = "none" /\ result'[c] = "true"
         => alive' /\ ~locked']_vars

\* A client that is told its collection is locked can rely on it: what was created
\* and changed while it was open is in the file, all but the end that every save
\* loses, though earlier writes may have failed, and a timer that fires later writes
\* nothing over it.
LockKeepsChanges ==
  [][/\ (\E c \in Clients : result'[c] = "true") /\ alive /\ ~locked /\ locked'
          => AllButTheEnd(file')
     /\ alive /\ locked /\ file' # file => ~file'.present]_vars

\* A job with an open dialog has a collection to return to, or is an orphan.
DialogsHaveCollection ==
  \A c \in Clients : job[c] \in {"newAcl", "password", "acl"} => alive

\* The inductive invariant of CollectionJobsProofs.
IInv ==
  /\ TypeOK
  /\ DirtyIsPending
  /\ SavedUnlessDirty
  /\ SearchFindsLive
  /\ WiredItemsLive
  /\ NothingWithoutObject
  /\ DialogsHaveCollection

=============================================================================
