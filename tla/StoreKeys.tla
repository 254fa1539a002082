----------------------------- MODULE StoreKeys -----------------------------
(***************************************************************************)
(* The keys of ksecrets_store: the two keys in the kernel keyring that all *)
(* processes of a session share, what each process caches of them in its   *)
(* CryptingEngine and each store in its MAC, and how setup() and           *)
(* setCredentials() of a store follow each other.                          *)
(*                                                                         *)
(* Creating and replacing the file are one step each; their steps are      *)
(* those of module SecretsFile. A process has at most one store at a time. *)
(* Its session keyring is the user session keyring, so that it finds what  *)
(* kss_store_keys put there.                                               *)
(***************************************************************************)
EXTENDS Naturals

CONSTANTS
  Procs,          \* processes of one user session
  Clients,        \* those that use KSecretsStore
  PamCallers,     \* those that call kss_set_credentials
  Passwords,      \* what their users type
  NoKey,          \* no key in a place that may hold one
  NoEntities,     \* a file without entities is encrypted with no key
  Lost,           \* random bytes, written because encrypting failed
  MaxFiles,       \* how many times the file is created or replaced
  SetupFirst,     \* clients may call setup before setCredentials
  Rekey,          \* clients may call setCredentials on a store they set up
  AddKeyFails,    \* add_key may fail
  Deletes,        \* kss_delete_credentials may be called
  ChecksSetup     \* clients use only stores whose setup() returned Good

ASSUME KeysAssumption ==
  /\ MaxFiles \in Nat
  /\ Passwords # {}
  /\ {SetupFirst, Rekey, AddKeyFails, Deletes, ChecksSetup} \subseteq BOOLEAN
  /\ Clients \cup PamCallers \subseteq Procs
  /\ {NoKey, NoEntities, Lost} \cap [password : Passwords, salt : Nat] = {}

VARIABLES
  keyring,    \* the encrypting key and the MAC key, see kss_store_keys
  file,       \* the file at the path
  named,      \* keyNameEncrypting and keyNameMac are set in the process
  creds,      \* has_credentials_
  iv,         \* has_iv_
  cipher,     \* the key given to gcry_cipher_setkey
  status,     \* status_ of the store
  salt,       \* salt_ in fileHead_ of the store
  macKey,     \* the key mac_ was initialised with, kept while need_init_ is false
  fd,         \* the file that readFile_ has open (inode 0: none)
  flock,      \* whether that descriptor holds the flock
  locked,     \* locked_, which decides whether save() locks what it reopens
  leaked,     \* locked inodes whose descriptor the store has forgotten
  pc,         \* "idle", or the next step of a call on the store
  pending,    \* what setCredentials has derived and not yet stored
  pam,        \* phase of kss_set_credentials
  accepted,   \* history: the last setup() of the store returned Good
  blind       \* history: a store that setup() had refused replaced the file

engineVars == <<named, creds, cipher, iv>>
storeVars  == <<status, salt, macKey>>
lockVars   == <<fd, flock, locked, leaked>>
callVars   == <<pc, pending, pam>>
history    == <<accepted, blind>>
vars == <<keyring, file, engineVars, storeVars, lockVars, callVars, history>>

-----------------------------------------------------------------------------
Salts == 0 .. MaxFiles        \* 0: the zeros of a fresh fileHead_
Keys == [password : Passwords, salt : Salts]
MaybeKey == Keys \cup {NoKey}

\* mac, cipher: the keys of the MAC and of the entities.
File ==
  [inode : 0 .. MaxFiles, kind : {"missing", "empty", "valid"}, salt : Salts,
   mac : MaybeKey, cipher : MaybeKey \cup {NoEntities, Lost}]

NoFile ==
  [inode |-> 0, kind |-> "missing", salt |-> 0, mac |-> NoKey, cipher |-> NoEntities]

TypeOK ==
  /\ keyring \in [enc : MaybeKey, mac : MaybeKey]
  /\ file \in File
  /\ named \in [Procs -> BOOLEAN]
  /\ creds \in [Procs -> BOOLEAN]
  /\ cipher \in [Procs -> MaybeKey]
  /\ iv \in [Procs -> BOOLEAN]
  /\ status \in [Procs -> {"JustCreated", "CredentialsSet", "CannotDeriveKeys",
                           "SystemError", "CannotReadFile", "InvalidFile", "Good"}]
  /\ salt \in [Procs -> Salts]
  /\ macKey \in [Procs -> MaybeKey]
  /\ fd \in [Procs -> File]
  /\ flock \in [Procs -> BOOLEAN]
  /\ locked \in [Procs -> BOOLEAN]
  /\ leaked \in [Procs -> SUBSET (1 .. MaxFiles)]
  /\ pc \in [Procs -> {"idle", "encrypting", "mac", "revoke",
                       "open", "openLock", "lock", "check"}]
  /\ pending \in [Procs -> MaybeKey]
  /\ pam \in [Procs -> {"no", "setup", "credentials"}]
  /\ accepted \in [Procs -> BOOLEAN]
  /\ blind \in BOOLEAN

Init ==
  /\ keyring = [enc |-> NoKey, mac |-> NoKey]
  /\ file = NoFile
  /\ named = [p \in Procs |-> FALSE]
  /\ creds = [p \in Procs |-> FALSE]
  /\ cipher = [p \in Procs |-> NoKey]
  /\ iv = [p \in Procs |-> FALSE]
  /\ status = [p \in Procs |-> "JustCreated"]
  /\ salt = [p \in Procs |-> 0]
  /\ macKey = [p \in Procs |-> NoKey]
  /\ fd = [p \in Procs |-> NoFile]
  /\ flock = [p \in Procs |-> FALSE]
  /\ locked = [p \in Procs |-> FALSE]
  /\ leaked = [p \in Procs |-> {}]
  /\ pc = [p \in Procs |-> "idle"]
  /\ pending = [p \in Procs |-> NoKey]
  /\ pam = [p \in Procs |-> "no"]
  /\ accepted = [p \in Procs |-> FALSE]
  /\ blind = FALSE

-----------------------------------------------------------------------------
(* Helpers *)

Put(f, p, v) == [f EXCEPT ![p] = v]

(* Faulty variants of definitions further down: what a plausible mistake in *)
(* the code would make of each.  Only mutation runs use them.               *)

\* kss_read_key's result ignored, and the buffer used as it is.
FoundMacUnchecked(p) ==
  IF named[p] /\ keyring.mac # NoKey THEN keyring.mac ELSE Lost

\* isReady looks at the keyring only, and not at has_credentials_.
IsReadyByKeyring(p) == named[p] /\ keyring.enc # NoKey

\* MAC::reset asks for the key again and again, in every save().
ResetMacAlways(p) == IF named[p] THEN keyring.mac ELSE NoKey

\* flock() called with LOCK_SH.
LockedShared(i) == FALSE

\* The keys are derived with the salt of the file that is there.
DeriveWithFileSalt(p, w) ==
  /\ named' = Put(named, p, TRUE)
  /\ pending' = Put(pending, p, [password |-> w, salt |-> file.salt])
  /\ pc' = Put(pc, p, "encrypting")
  /\ UNCHANGED <<keyring, file, creds, cipher, iv, storeVars, lockVars, history>>

-----------------------------------------------------------------------------
(* More helpers *)

\* kss_read_key: without setCredentials in this process there is no name to ask for.
FoundEnc(p) == IF named[p] THEN keyring.enc ELSE NoKey
FoundMac(p) == IF named[p] THEN keyring.mac ELSE NoKey

\* MAC::reset reads the key once in the life of the store.
ResetMac(p) == IF macKey[p] = NoKey THEN FoundMac(p) ELSE macKey[p]

\* CryptingEngine::isReady: only a process that has not stored credentials
\* itself ever gives a key to the cipher.
IsReady(p) == creds[p] \/ FoundEnc(p) # NoKey

CipherInUse(p) == IF ~creds[p] /\ FoundEnc(p) # NoKey THEN FoundEnc(p) ELSE cipher[p]

MakeReady(p) ==
  /\ creds' = Put(creds, p, IsReady(p))
  /\ cipher' = Put(cipher, p, CipherInUse(p))

\* A flock() by any open descriptor, forgotten ones included, keeps others out.
Locked(i) == \E q \in Procs : (flock[q] /\ fd[q].inode = i) \/ i \in leaked[q]

-----------------------------------------------------------------------------
(* setCredentials() *)

\* The keys are derived with the salt in fileHead_, zeros before setup.
Derive(p, w) ==
  /\ named' = Put(named, p, TRUE)
  /\ pending' = Put(pending, p, [password |-> w, salt |-> salt[p]])
  /\ pc' = Put(pc, p, "encrypting")
  /\ UNCHANGED <<keyring, file, creds, cipher, iv, storeVars, lockVars, history>>

\* The store checks no state here. Rekey says whether clients call this again.
SetCredentials(p, w) ==
  /\ p \in Clients
  /\ pc[p] = "idle"
  /\ pam[p] = "no"
  /\ fd[p] = NoFile \/ Rekey
  /\ Derive(p, w)
  /\ UNCHANGED pam

CredentialsFailed(p) ==
  /\ AddKeyFails
  /\ status' = Put(status, p, "CannotDeriveKeys")
  /\ pc' = Put(pc, p, "idle")
  /\ pending' = Put(pending, p, NoKey)

StoreEncryptingKey(p) ==
  /\ pc[p] = "encrypting"
  /\ \/ /\ keyring' = [keyring EXCEPT !.enc = pending[p]]
        /\ pc' = Put(pc, p, "mac")
        /\ UNCHANGED <<status, pending>>
     \/ /\ CredentialsFailed(p)
        /\ UNCHANGED keyring
  /\ UNCHANGED <<file, engineVars, salt, macKey, lockVars, pam, history>>

StoreMacKey(p) ==
  /\ pc[p] = "mac"
  /\ \/ /\ keyring' = [keyring EXCEPT !.mac = pending[p]]
        /\ creds' = Put(creds, p, TRUE)
        /\ status' = Put(status, p, "CredentialsSet")
        /\ pc' = Put(pc, p, "idle")
        /\ pending' = Put(pending, p, NoKey)
     \/ /\ CredentialsFailed(p)
        /\ UNCHANGED <<keyring, creds>>
  /\ UNCHANGED <<file, named, cipher, iv, salt, macKey, lockVars, pam, history>>

-----------------------------------------------------------------------------
(* setup() *)

\* An empty file is replaced even for a read-only store. create() leaves an
\* empty file behind when it finds no MAC key.
Create(p) ==
  LET i == file.inode + 1 IN
  /\ file.inode < MaxFiles
  /\ \/ /\ FoundMac(p) # NoKey
        /\ file' = [inode |-> i, kind |-> "valid", salt |-> i, mac |-> FoundMac(p),
                    cipher |-> NoEntities]
     \/ /\ FoundMac(p) = NoKey
        /\ file' = [NoFile EXCEPT !.inode = i, !.kind = "empty"]

BeginSetup(p, ro) ==
  /\ pc[p] = "idle"
  /\ status[p] \in {"JustCreated", "CredentialsSet"}
  /\ \/ /\ file.kind = "valid"
        /\ UNCHANGED file
     \/ /\ file.kind = "empty" \/ (file.kind = "missing" /\ ~ro)
        /\ Create(p)
  /\ IF file'.kind = "valid"
     THEN pc' = Put(pc, p, IF ro THEN "open" ELSE "openLock") /\ UNCHANGED status
     ELSE status' = Put(status, p, "SystemError") /\ UNCHANGED pc
  /\ UNCHANGED <<keyring, engineVars, salt, macKey, lockVars, pending, history>>

Setup(p, ro) ==
  /\ p \in Clients
  /\ pam[p] = "no"
  /\ SetupFirst \/ status[p] = "CredentialsSet"
  /\ fd[p] = NoFile \/ Rekey
  /\ BeginSetup(p, ro)
  /\ UNCHANGED pam

\* readFile_ is overwritten: a descriptor it held before stays open, and locked.
Open(p) ==
  /\ pc[p] \in {"open", "openLock"}
  /\ leaked' = IF flock[p] THEN Put(leaked, p, leaked[p] \cup {fd[p].inode}) ELSE leaked
  /\ fd' = Put(fd, p, file)
  /\ flock' = Put(flock, p, FALSE)
  /\ macKey' = Put(macKey, p, ResetMac(p))
  /\ pc' = Put(pc, p, IF pc[p] = "open" THEN "check" ELSE "lock")
  /\ accepted' = Put(accepted, p, FALSE)
  /\ UNCHANGED <<keyring, file, engineVars, status, salt, locked, pending, pam, blind>>

Lock(p) ==
  /\ pc[p] = "lock"
  /\ ~Locked(fd[p].inode)
  /\ flock' = Put(flock, p, TRUE)
  /\ locked' = Put(locked, p, TRUE)
  /\ pc' = Put(pc, p, "check")
  /\ UNCHANGED <<keyring, file, engineVars, storeVars, fd, leaked, pending, pam, history>>

\* Without a MAC key even the header counts as unreadable, but its salt stays in
\* fileHead_. Entities encrypted with another key read as garbage, which the
\* reader may take for an empty directory or for an error.
Check(p) ==
  /\ pc[p] = "check"
  /\ salt' = Put(salt, p, fd[p].salt)
  /\ macKey' = Put(macKey, p, ResetMac(p))
  /\ \/ /\ ResetMac(p) = NoKey
        /\ status' = Put(status, p, "CannotReadFile")
        /\ UNCHANGED <<creds, cipher, iv>>
     \/ /\ ResetMac(p) # NoKey
        /\ iv' = Put(iv, p, TRUE)
        /\ IF fd[p].cipher = NoEntities THEN UNCHANGED <<creds, cipher>> ELSE MakeReady(p)
        /\ \/ /\ ResetMac(p) = fd[p].mac
              /\ status' = Put(status, p, "Good")
           \/ /\ \/ ResetMac(p) # fd[p].mac
                 \/ fd[p].cipher \notin {NoEntities, CipherInUse(p)}
              /\ status' = Put(status, p, "InvalidFile")
  /\ accepted' = Put(accepted, p, status'[p] = "Good")
  /\ pc' = Put(pc, p, "idle")
  /\ UNCHANGED <<keyring, file, named, lockVars, pending, pam, blind>>

-----------------------------------------------------------------------------
(* createCollection(): save() as seen by the keys *)

\* A store without a path has nothing to rename, so that only its entities have
\* been encrypted. Reopening sets the IV, decrypts what was written, and locks
\* when the store has ever locked. Without a MAC key save() writes nothing.
Save(p) ==
  /\ p \in Clients
  /\ pc[p] = "idle"
  /\ pam[p] = "no"
  /\ ChecksSetup => accepted[p]
  /\ ResetMac(p) # NoKey
  /\ macKey' = Put(macKey, p, ResetMac(p))
  /\ \/ /\ fd[p] = NoFile
        /\ IF iv[p] THEN MakeReady(p) ELSE UNCHANGED <<creds, cipher>>
        /\ UNCHANGED <<file, iv, lockVars, blind>>
     \/ /\ fd[p] # NoFile
        /\ file.inode < MaxFiles
        /\ file' = [inode |-> file.inode + 1, kind |-> "valid", salt |-> salt[p],
                    mac |-> ResetMac(p),
                    cipher |-> IF iv[p] /\ IsReady(p) THEN CipherInUse(p) ELSE Lost]
        /\ fd' = Put(fd, p, file')
        /\ flock' = Put(flock, p, locked[p])
        /\ iv' = Put(iv, p, TRUE)
        /\ MakeReady(p)
        /\ blind' = (blind \/ ~accepted[p])
        /\ UNCHANGED <<locked, leaked>>
  /\ UNCHANGED <<keyring, named, status, salt, callVars, accepted>>

-----------------------------------------------------------------------------
(* The end of a store and of its process *)

\* ~KSecretsFile closes readFile_ only.
CloseStore(p) ==
  /\ status' = Put(status, p, "JustCreated")
  /\ salt' = Put(salt, p, 0)
  /\ macKey' = Put(macKey, p, NoKey)
  /\ fd' = Put(fd, p, NoFile)
  /\ flock' = Put(flock, p, FALSE)
  /\ locked' = Put(locked, p, FALSE)
  /\ pam' = Put(pam, p, "no")
  /\ accepted' = Put(accepted, p, FALSE)
  /\ UNCHANGED blind

Destroy(p) ==
  /\ pc[p] = "idle"
  /\ pam[p] = "no"
  /\ CloseStore(p)
  /\ UNCHANGED <<keyring, file, engineVars, leaked, pc, pending>>

Exit(p) ==
  /\ CloseStore(p)
  /\ leaked' = Put(leaked, p, {})
  /\ named' = Put(named, p, FALSE)
  /\ creds' = Put(creds, p, FALSE)
  /\ cipher' = Put(cipher, p, NoKey)
  /\ iv' = Put(iv, p, FALSE)
  /\ pc' = Put(pc, p, "idle")
  /\ pending' = Put(pending, p, NoKey)
  /\ UNCHANGED <<keyring, file>>

-----------------------------------------------------------------------------
(* pam_ksecrets: kss_set_credentials and kss_delete_credentials *)

PamSetup(p) ==
  /\ p \in PamCallers
  /\ pam[p] = "no"
  /\ status[p] = "JustCreated"
  /\ fd[p] = NoFile
  /\ BeginSetup(p, TRUE)
  /\ pam' = Put(pam, p, "setup")

PamCredentials(p, w) ==
  /\ pc[p] = "idle"
  /\ pam[p] = "setup"
  /\ status[p] = "Good"
  /\ Derive(p, w)
  /\ pam' = Put(pam, p, "credentials")

PamReturn(p) ==
  /\ pc[p] = "idle"
  /\ \/ pam[p] = "setup" /\ status[p] # "Good"
     \/ pam[p] = "credentials"
  /\ CloseStore(p)
  /\ UNCHANGED <<keyring, file, engineVars, leaked, pc, pending>>

RevokeEncryptingKey(p) ==
  /\ Deletes
  /\ pc[p] = "idle"
  /\ pam[p] = "no"
  /\ FoundEnc(p) # NoKey
  /\ keyring' = [keyring EXCEPT !.enc = NoKey]
  /\ pc' = Put(pc, p, "revoke")
  /\ UNCHANGED <<file, engineVars, storeVars, lockVars, pending, pam, history>>

RevokeMacKey(p) ==
  /\ pc[p] = "revoke"
  /\ keyring' = [keyring EXCEPT !.mac = NoKey]
  /\ pc' = Put(pc, p, "idle")
  /\ UNCHANGED <<file, engineVars, storeVars, lockVars, pending, pam, history>>

-----------------------------------------------------------------------------
Next ==
  \E p \in Procs :
    \/ \E w \in Passwords : SetCredentials(p, w) \/ PamCredentials(p, w)
    \/ StoreEncryptingKey(p) \/ StoreMacKey(p)
    \/ \E ro \in BOOLEAN : Setup(p, ro)
    \/ Open(p) \/ Lock(p) \/ Check(p)
    \/ Save(p)
    \/ Destroy(p) \/ Exit(p)
    \/ PamSetup(p) \/ PamReturn(p)
    \/ RevokeEncryptingKey(p) \/ RevokeMacKey(p)

Spec == Init /\ [][Next]_vars

-----------------------------------------------------------------------------
(* Properties *)

\* With one password everywhere no store takes the file for a forgery: the salt
\* that went into the keys is the same for all (CryptingEngine::setCredentials).
SamePasswordOpens == \A p \in Procs : status[p] # "InvalidFile"

\* What one store wrote the next one can decrypt: all processes leave the cipher
\* in the same state (CryptingEngine::isReady, setCredentials).
EntitiesReadable ==
  \A p \in Procs :
    status[p] = "Good" => fd[p].cipher \in {NoEntities, CipherInUse(p)}

\* Whatever setCredentials and kss_delete_credentials do to the keyring, a file
\* keeps the salt it was created with, and its MAC key too (MAC::reset), unless a
\* store that setup() refused has replaced it: save() does not ask for the status.
KeyStays ==
  [][file.kind = "valid" =>
       file'.salt = file.salt /\ (file'.mac = file.mac \/ blind')]_vars

\* No two descriptors, forgotten ones included, hold the lock of one file.
OneLockPerFile ==
  \A p, q \in Procs :
    /\ flock[p] /\ flock[q] /\ p # q => fd[p].inode # fd[q].inode
    /\ flock[p] => fd[p].inode \notin leaked[q]
    /\ p # q => leaked[p] \cap leaked[q] = {}

=============================================================================
