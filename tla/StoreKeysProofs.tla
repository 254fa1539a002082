-------------------------- MODULE StoreKeysProofs --------------------------
(***************************************************************************)
(* What TLAPS proves of StoreKeys for any number of processes, passwords    *)
(* and files, with every order of calls and every failing add_key.          *)
(***************************************************************************)
EXTENDS StoreKeys, TLAPS

\* A valid file has a number, its descriptors are of that number or an older
\* one, and a flock is held through an open one.
InodeInv ==
  /\ file.kind = "valid" => file.inode >= 1
  /\ \A p \in Procs :
       /\ fd[p].kind = "valid" => fd[p].inode >= 1
       /\ fd[p].inode <= file.inode
       /\ flock[p] => fd[p].kind = "valid"
       /\ \A i \in leaked[p] : i <= file.inode

\* What a call has found out about the file stays true until its next step.
CallInv ==
  \A p \in Procs :
    /\ pc[p] \in {"open", "openLock"} => file.kind = "valid"
    /\ pc[p] \in {"lock", "check"} => fd[p].kind = "valid"

\* An open descriptor, whichever file it is of, has the salt of the file at the
\* path, which a store that has got through setup() has in memory. It has the MAC
\* key of that file too, until a store that was refused replaces the file; one
\* that was accepted has the key of the file it opened or wrote last.
KeyInv ==
  \A p \in Procs :
    /\ fd[p].kind = "valid" =>
         /\ file.kind = "valid"
         /\ fd[p].salt = file.salt
         /\ fd[p].mac = file.mac \/ blind
         /\ pc[p] \notin {"lock", "check"} => salt[p] = fd[p].salt
    /\ fd[p].kind # "valid" => fd[p] = NoFile
    /\ accepted[p] => fd[p].kind = "valid" /\ macKey[p] # NoKey /\ macKey[p] = fd[p].mac

IInv == TypeOK /\ InodeInv /\ CallInv /\ KeyInv /\ OneLockPerFile

LEMMA InvInit == Init => IInv
<1> SUFFICES ASSUME Init PROVE IInv
  OBVIOUS
<1>1. TypeOK
  <2>1. NoFile \in File /\ NoKey \in MaybeKey /\ 0 \in Salts
    BY KeysAssumption DEF NoFile, File, MaybeKey, Salts
  <2>2. /\ keyring \in [enc : MaybeKey, mac : MaybeKey] /\ file \in File
        /\ cipher \in [Procs -> MaybeKey] /\ macKey \in [Procs -> MaybeKey]
        /\ pending \in [Procs -> MaybeKey] /\ fd \in [Procs -> File]
        /\ salt \in [Procs -> Salts]
    BY <2>1 DEF Init
  <2>3. /\ named \in [Procs -> BOOLEAN] /\ creds \in [Procs -> BOOLEAN] /\ iv \in [Procs -> BOOLEAN]
        /\ flock \in [Procs -> BOOLEAN] /\ locked \in [Procs -> BOOLEAN]
        /\ accepted \in [Procs -> BOOLEAN] /\ blind \in BOOLEAN
        /\ leaked \in [Procs -> SUBSET (1 .. MaxFiles)]
    BY DEF Init
  <2> QED
    BY <2>2, <2>3 DEF Init, TypeOK
<1>2. InodeInv /\ CallInv /\ KeyInv /\ OneLockPerFile
  BY KeysAssumption DEF Init, InodeInv, CallInv, KeyInv, OneLockPerFile, NoFile
<1> QED
  BY <1>1, <1>2 DEF IInv

\* Either add_key call puts a pending key into the keyring.
LEMMA StoredKey ==
  ASSUME TypeOK, NEW p \in Procs, StoreEncryptingKey(p) \/ StoreMacKey(p)
  PROVE  keyring' \in [enc : MaybeKey, mac : MaybeKey]
<1>1. keyring \in [enc : MaybeKey, mac : MaybeKey] /\ pending[p] \in MaybeKey
  BY DEF TypeOK
<1>2. \/ keyring' = keyring
      \/ keyring' = [keyring EXCEPT !.enc = pending[p]]
      \/ keyring' = [keyring EXCEPT !.mac = pending[p]]
  BY DEF StoreEncryptingKey, StoreMacKey
<1>. QED  BY <1>1, <1>2

\* The calls that store credentials, and those that delete them, leave the file
\* and every descriptor alone.
LEMMA CredentialsInv ==
  ASSUME IInv, NEW p \in Procs,
         \/ \E w \in Passwords : SetCredentials(p, w) \/ PamCredentials(p, w)
         \/ StoreEncryptingKey(p) \/ StoreMacKey(p)
         \/ RevokeEncryptingKey(p) \/ RevokeMacKey(p)
  PROVE  IInv'
<1> USE DEF IInv, TypeOK, InodeInv, CallInv, KeyInv, OneLockPerFile, Put, engineVars, storeVars, lockVars,
            history
<1>1. ASSUME NEW w \in Passwords, SetCredentials(p, w) PROVE IInv'
  BY <1>1 DEF SetCredentials, Derive, MaybeKey, Keys
<1>2. ASSUME NEW w \in Passwords, PamCredentials(p, w) PROVE IInv'
  BY <1>2 DEF PamCredentials, Derive, MaybeKey, Keys
<1>3. CASE StoreEncryptingKey(p)
  <2>1. UNCHANGED <<file, salt, macKey, fd, flock, leaked, locked, iv, accepted, blind>>
    BY <1>3 DEF StoreEncryptingKey
  <2>2. /\ pc[p] = "encrypting"
        /\ pc' = [pc EXCEPT ![p] = "mac"] \/ pc' = [pc EXCEPT ![p] = "idle"]
        /\ \/ status' = status
           \/ status' = [status EXCEPT ![p] = "CredentialsSet"]
           \/ status' = [status EXCEPT ![p] = "CannotDeriveKeys"]
    BY <1>3 DEF StoreEncryptingKey, CredentialsFailed
  <2>3. TypeOK'
    <3>1. keyring' \in [enc : MaybeKey, mac : MaybeKey]
      BY <1>3, StoredKey
    <3>2. /\ pending' \in [Procs -> MaybeKey] /\ creds' \in [Procs -> BOOLEAN]
          /\ UNCHANGED <<named, cipher, pam>>
      BY <1>3 DEF StoreEncryptingKey, CredentialsFailed, MaybeKey
    <3> QED
      BY <2>1, <2>2, <3>1, <3>2
  <2> QED
    BY <2>1, <2>2, <2>3
<1>4. CASE StoreMacKey(p)
  <2>1. UNCHANGED <<file, salt, macKey, fd, flock, leaked, locked, iv, accepted, blind>>
    BY <1>4 DEF StoreMacKey
  <2>2. /\ pc[p] = "mac"
        /\ pc' = [pc EXCEPT ![p] = "idle"]
        /\ \/ status' = status
           \/ status' = [status EXCEPT ![p] = "CredentialsSet"]
           \/ status' = [status EXCEPT ![p] = "CannotDeriveKeys"]
    BY <1>4 DEF StoreMacKey, CredentialsFailed
  <2>3. TypeOK'
    <3>1. keyring' \in [enc : MaybeKey, mac : MaybeKey]
      BY <1>4, StoredKey
    <3>2. /\ pending' \in [Procs -> MaybeKey] /\ creds' \in [Procs -> BOOLEAN]
          /\ UNCHANGED <<named, cipher, pam>>
      BY <1>4 DEF StoreMacKey, CredentialsFailed, MaybeKey
    <3> QED
      BY <2>1, <2>2, <3>1, <3>2
  <2> QED
    BY <2>1, <2>2, <2>3
<1>5. CASE RevokeEncryptingKey(p)
  BY <1>5 DEF RevokeEncryptingKey, MaybeKey
<1>6. CASE RevokeMacKey(p)
  BY <1>6 DEF RevokeMacKey, MaybeKey
<1> QED
  BY <1>1, <1>2, <1>3, <1>4, <1>5, <1>6

\* create() makes a well formed file with the next number.
LEMMA CreateFile ==
  ASSUME TypeOK, NEW p \in Procs, Create(p)
  PROVE  /\ file' \in File /\ file'.inode = file.inode + 1 /\ file.inode \in Nat
         /\ file'.kind = "valid" => file'.inode >= 1
         /\ file'.cipher = NoEntities
<1> DEFINE i == file.inode + 1
<1>1. file.inode \in Nat /\ i \in 1 .. MaxFiles
  BY KeysAssumption DEF Create, TypeOK, File
<1> HIDE DEF i
<1>2. CASE file' = [inode |-> i, kind |-> "valid", salt |-> i, mac |-> FoundMac(p), cipher |-> NoEntities]
  <2>1. FoundMac(p) \in MaybeKey
    BY DEF FoundMac, TypeOK, MaybeKey
  <2> QED
    BY KeysAssumption, <1>1, <1>2, <2>1 DEF File, Salts, i
<1>3. CASE file' = [NoFile EXCEPT !.inode = i, !.kind = "empty"]
  <2>1. file' = [inode |-> i, kind |-> "empty", salt |-> 0, mac |-> NoKey, cipher |-> NoEntities]
    BY <1>3 DEF NoFile
  <2> QED
    BY KeysAssumption, <1>1, <2>1 DEF File, Salts, MaybeKey, i
<1> QED
  BY <1>2, <1>3 DEF Create, i

LEMMA BeginSetupInv ==
  ASSUME IInv, NEW p \in Procs, NEW ro \in BOOLEAN, BeginSetup(p, ro),
         pam' \in [Procs -> {"no", "setup", "credentials"}]
  PROVE  IInv'
<1> USE DEF Put, engineVars, lockVars, history
<1>1. /\ UNCHANGED <<keyring, named, creds, cipher, iv, salt, macKey, fd, flock, locked, leaked, pending,
                     accepted, blind>>
      /\ pc[p] = "idle"
  BY DEF BeginSetup
<1>2. \/ file' = file
      \/ /\ file.kind # "valid" /\ file' \in File /\ file'.inode = file.inode + 1
         /\ file.inode \in Nat /\ (file'.kind = "valid" => file'.inode >= 1)
  BY CreateFile DEF BeginSetup, IInv
<1>3. \/ /\ file'.kind = "valid" /\ status' = status
         /\ pc' = [pc EXCEPT ![p] = IF ro THEN "open" ELSE "openLock"]
      \/ pc' = pc /\ status' = [status EXCEPT ![p] = "SystemError"]
  BY DEF BeginSetup
<1>4. TypeOK'
  BY <1>1, <1>2, <1>3 DEF IInv, TypeOK
<1>5. InodeInv'
  <2>1. \A q \in Procs : fd[q].inode \in Nat /\ leaked[q] \subseteq Nat
    BY DEF IInv, TypeOK, File
  <2> QED
    BY <1>1, <1>2, <2>1 DEF IInv, InodeInv
<1>6. CallInv'
  BY <1>1, <1>2, <1>3 DEF IInv, CallInv, TypeOK
<1>7. KeyInv'
  BY <1>1, <1>2, <1>3 DEF IInv, KeyInv, TypeOK
<1>8. OneLockPerFile'
  BY <1>1 DEF IInv, OneLockPerFile
<1> QED
  BY <1>4, <1>5, <1>6, <1>7, <1>8 DEF IInv

LEMMA SetupInv ==
  ASSUME IInv, NEW p \in Procs, NEW ro \in BOOLEAN, Setup(p, ro) \/ PamSetup(p)
  PROVE  IInv'
<1>1. CASE Setup(p, ro)
  BY <1>1, BeginSetupInv DEF Setup, IInv, TypeOK
<1>2. CASE PamSetup(p)
  <2>1. pam' \in [Procs -> {"no", "setup", "credentials"}]
    BY <1>2 DEF PamSetup, IInv, TypeOK, Put
  <2> QED
    BY <1>2, <2>1, BeginSetupInv DEF PamSetup
<1> QED
  BY <1>1, <1>2

LEMMA ResetMacType ==
  ASSUME TypeOK, NEW p \in Procs
  PROVE  ResetMac(p) \in MaybeKey
  BY DEF ResetMac, FoundMac, TypeOK, MaybeKey

\* Opening forgets a locked descriptor, which keeps its lock.
LEMMA OpenInv ==
  ASSUME IInv, NEW p \in Procs, Open(p)
  PROVE  IInv'
<1> USE DEF Put, engineVars
<1>1. /\ UNCHANGED <<keyring, file, named, creds, cipher, iv, status, salt, locked, pending, pam, blind>>
      /\ accepted' = [accepted EXCEPT ![p] = FALSE]
      /\ fd' = [fd EXCEPT ![p] = file] /\ flock' = [flock EXCEPT ![p] = FALSE]
      /\ leaked' = IF flock[p] THEN [leaked EXCEPT ![p] = leaked[p] \cup {fd[p].inode}] ELSE leaked
      /\ macKey' = [macKey EXCEPT ![p] = ResetMac(p)]
      /\ pc[p] \in {"open", "openLock"}
      /\ \/ pc' = [pc EXCEPT ![p] = "check"]
         \/ pc' = [pc EXCEPT ![p] = "lock"]
  BY DEF Open
<1>2. file.kind = "valid" /\ file.inode >= 1 /\ file \in File
  BY <1>1 DEF IInv, TypeOK, CallInv, InodeInv
<1>3. flock[p] => fd[p].inode \in 1 .. MaxFiles /\ fd[p].inode <= file.inode
  BY KeysAssumption DEF IInv, TypeOK, InodeInv, File
<1>4. TypeOK'
  BY <1>1, <1>2, <1>3, ResetMacType DEF IInv, TypeOK
<1>5. InodeInv'
  <2>1. file.inode \in Nat
    BY <1>2, KeysAssumption DEF File
  <2> QED
    BY <1>1, <1>2, <1>3, <2>1 DEF IInv, InodeInv, TypeOK
<1>6. CallInv'
  BY <1>1, <1>2 DEF IInv, CallInv, TypeOK
<1>7. KeyInv'
  BY <1>1, <1>2 DEF IInv, KeyInv, TypeOK
<1>8. OneLockPerFile'
  BY <1>1 DEF IInv, OneLockPerFile, TypeOK
<1> QED
  BY <1>4, <1>5, <1>6, <1>7, <1>8 DEF IInv

LEMMA LockInv ==
  ASSUME IInv, NEW p \in Procs, Lock(p)
  PROVE  IInv'
<1> USE DEF Put, engineVars, storeVars, history
<1>1. TypeOK' /\ InodeInv' /\ CallInv' /\ KeyInv'
  BY DEF Lock, IInv, TypeOK, InodeInv, CallInv, KeyInv
<1>2. OneLockPerFile'
  BY DEF Lock, Locked, IInv, OneLockPerFile, TypeOK
<1> QED
  BY <1>1, <1>2 DEF IInv

LEMMA CheckInv ==
  ASSUME IInv, NEW p \in Procs, Check(p)
  PROVE  IInv'
<1> USE DEF Put
<1>1. /\ UNCHANGED <<keyring, file, named, fd, flock, locked, leaked, pending, pam, blind>>
      /\ pc[p] = "check" /\ pc' = [pc EXCEPT ![p] = "idle"]
      /\ salt' = [salt EXCEPT ![p] = fd[p].salt]
      /\ macKey' = [macKey EXCEPT ![p] = ResetMac(p)]
  BY DEF Check, lockVars
<1>2. \/ /\ \/ status' = [status EXCEPT ![p] = "CannotReadFile"]
            \/ status' = [status EXCEPT ![p] = "InvalidFile"]
         /\ accepted' = [accepted EXCEPT ![p] = FALSE]
      \/ /\ status' = [status EXCEPT ![p] = "Good"]
         /\ accepted' = [accepted EXCEPT ![p] = TRUE]
         /\ ResetMac(p) # NoKey /\ ResetMac(p) = fd[p].mac
  <2>1. accepted' = [accepted EXCEPT ![p] = status'[p] = "Good"]
    BY DEF Check
  <2>2. status \in [Procs -> {"JustCreated", "CredentialsSet", "CannotDeriveKeys",
                              "SystemError", "CannotReadFile", "InvalidFile", "Good"}]
    BY DEF IInv, TypeOK
  <2>3. \/ status' = [status EXCEPT ![p] = "CannotReadFile"]
        \/ status' = [status EXCEPT ![p] = "InvalidFile"]
        \/ /\ status' = [status EXCEPT ![p] = "Good"]
           /\ ResetMac(p) # NoKey /\ ResetMac(p) = fd[p].mac
    BY DEF Check
  <2> QED
    BY <2>1, <2>2, <2>3
<1>3. creds' \in [Procs -> BOOLEAN] /\ cipher' \in [Procs -> MaybeKey] /\ iv' \in [Procs -> BOOLEAN]
  <2>1. \/ UNCHANGED <<creds, cipher>>
        \/ /\ creds' = [creds EXCEPT ![p] = IsReady(p)]
           /\ cipher' = [cipher EXCEPT ![p] = CipherInUse(p)]
    BY DEF Check, MakeReady
  <2>2. iv' = iv \/ iv' = [iv EXCEPT ![p] = TRUE]
    BY DEF Check
  <2>3. IsReady(p) \in BOOLEAN /\ CipherInUse(p) \in MaybeKey
    BY DEF IsReady, CipherInUse, FoundEnc, IInv, TypeOK, MaybeKey
  <2>4. creds' \in [Procs -> BOOLEAN] /\ cipher' \in [Procs -> MaybeKey]
    BY <2>1, <2>3 DEF IInv, TypeOK
  <2>5. iv' \in [Procs -> BOOLEAN]
    BY <2>2 DEF IInv, TypeOK
  <2> QED
    BY <2>4, <2>5
<1>4. fd[p].salt \in Salts
  BY DEF IInv, TypeOK, File
<1>5. TypeOK'
  BY <1>1, <1>2, <1>3, <1>4, ResetMacType DEF IInv, TypeOK
<1>6. InodeInv' /\ OneLockPerFile'
  BY <1>1 DEF IInv, InodeInv, OneLockPerFile
<1>7. CallInv'
  BY <1>1, <1>2 DEF IInv, CallInv, TypeOK
<1>8. KeyInv'
  BY <1>1, <1>2 DEF IInv, KeyInv, CallInv, TypeOK
<1> QED
  BY <1>5, <1>6, <1>7, <1>8 DEF IInv

\* A store that has been set up writes the salt of the file it replaces, and an
\* accepted one its MAC key; the new file, which nobody has open yet, is locked or not.
LEMMA SaveInv ==
  ASSUME IInv, NEW p \in Procs, Save(p)
  PROVE  IInv' /\ (file.kind = "valid" => file'.salt = file.salt /\ (file'.mac = file.mac \/ blind'))
<1> USE DEF Put, callVars
<1>1. /\ UNCHANGED <<keyring, named, status, salt, pc, pending, pam, accepted>>
      /\ macKey' = [macKey EXCEPT ![p] = ResetMac(p)]
      /\ pc[p] = "idle" /\ ResetMac(p) # NoKey
      /\ accepted[p] => ResetMac(p) = macKey[p]
  BY DEF Save, ResetMac, IInv, KeyInv
<1>2. creds' \in [Procs -> BOOLEAN] /\ cipher' \in [Procs -> MaybeKey]
  BY DEF Save, MakeReady, IsReady, CipherInUse, FoundEnc, IInv, TypeOK, MaybeKey
<1>3. CASE fd[p] = NoFile
  <2>1. UNCHANGED <<file, iv, fd, flock, locked, leaked, blind>>
    BY <1>3 DEF Save, lockVars
  <2>2. TypeOK'
    BY <1>1, <1>2, <2>1, ResetMacType DEF IInv, TypeOK
  <2>3. InodeInv' /\ CallInv' /\ OneLockPerFile'
    BY <1>1, <2>1 DEF IInv, InodeInv, CallInv, OneLockPerFile
  <2>4. KeyInv'
    BY <1>1, <1>3, <2>1 DEF IInv, KeyInv, TypeOK, NoFile
  <2> QED
    BY <2>1, <2>2, <2>3, <2>4 DEF IInv
<1>4. CASE fd[p] # NoFile
  <2> DEFINE f == [inode |-> file.inode + 1, kind |-> "valid", salt |-> salt[p], mac |-> ResetMac(p),
                   cipher |-> IF iv[p] /\ IsReady(p) THEN CipherInUse(p) ELSE Lost]
  <2>1. /\ file' = f /\ fd' = [fd EXCEPT ![p] = f] /\ file.inode < MaxFiles
        /\ UNCHANGED <<locked, leaked>> /\ flock' = [flock EXCEPT ![p] = locked[p]]
        /\ iv' = [iv EXCEPT ![p] = TRUE] /\ blind' = (blind \/ ~accepted[p])
    BY <1>4 DEF Save
  <2>2. CipherInUse(p) \in MaybeKey
    BY DEF CipherInUse, FoundEnc, IInv, TypeOK, MaybeKey
  <2>3. /\ fd[p].kind = "valid" /\ file.kind = "valid" /\ salt[p] = file.salt
        /\ ResetMac(p) = file.mac \/ blind'
    BY <1>1, <1>4, <2>1 DEF IInv, KeyInv
  <2>4. file.inode \in Nat /\ file.inode + 1 \in 0 .. MaxFiles
    BY <2>1, KeysAssumption DEF IInv, TypeOK, File
  <2>5. /\ f.inode = file.inode + 1 /\ f.kind = "valid"
        /\ f.mac = ResetMac(p) /\ f.salt = file.salt /\ f \in File
    <3>1. ResetMac(p) \in MaybeKey /\ salt[p] \in Salts
      BY ResetMacType DEF IInv, TypeOK
    <3> QED
      BY <2>2, <2>3, <2>4, <3>1 DEF File
  <2> HIDE DEF f
  <2>6. TypeOK'
    BY <1>1, <1>2, <2>1, <2>5, ResetMacType DEF IInv, TypeOK
  <2>7. \A q \in Procs : /\ fd[q].inode \in Nat /\ fd[q].inode <= file.inode
                         /\ leaked[q] \subseteq Nat /\ \A i \in leaked[q] : i <= file.inode
    BY DEF IInv, InodeInv, TypeOK, File
  <2>8. InodeInv'
    BY <1>1, <2>1, <2>4, <2>5, <2>7 DEF IInv, InodeInv, TypeOK
  <2>9. CallInv'
    BY <1>1, <2>1, <2>5 DEF IInv, CallInv, TypeOK
  <2>10. KeyInv'
    <3> SUFFICES ASSUME NEW q \in Procs
                 PROVE  /\ fd'[q].kind = "valid" =>
                             /\ file'.kind = "valid"
                             /\ fd'[q].salt = file'.salt
                             /\ fd'[q].mac = file'.mac \/ blind'
                             /\ pc'[q] \notin {"lock", "check"} => salt'[q] = fd'[q].salt
                        /\ fd'[q].kind # "valid" => fd'[q] = NoFile
                        /\ accepted'[q] =>
                             fd'[q].kind = "valid" /\ macKey'[q] # NoKey /\ macKey'[q] = fd'[q].mac
      BY DEF KeyInv
    <3>1. CASE q = p
      BY <1>1, <2>1, <2>3, <2>5, <3>1 DEF IInv, KeyInv, TypeOK
    <3>2. CASE q # p
      <4>1. fd'[q] = fd[q] /\ macKey'[q] = macKey[q]
        BY <1>1, <2>1, <3>2 DEF IInv, TypeOK
      <4> QED
        BY <1>1, <2>1, <2>3, <2>5, <4>1 DEF IInv, KeyInv
    <3> QED
      BY <3>1, <3>2
  <2>11. OneLockPerFile'
    BY <1>1, <2>1, <2>4, <2>5, <2>7 DEF IInv, OneLockPerFile, TypeOK
  <2> QED
    BY <2>1, <2>3, <2>5, <2>6, <2>8, <2>9, <2>10, <2>11 DEF IInv
<1> QED
  BY <1>3, <1>4

LEMMA EndInv ==
  ASSUME IInv, NEW p \in Procs, Destroy(p) \/ Exit(p) \/ PamReturn(p)
  PROVE  IInv'
<1> USE DEF Put, engineVars
<1>1. /\ CloseStore(p) /\ UNCHANGED <<keyring, file>>
      /\ leaked' = leaked \/ leaked' = [leaked EXCEPT ![p] = {}]
      /\ pc' = [pc EXCEPT ![p] = "idle"]
  BY DEF Destroy, Exit, PamReturn, IInv, TypeOK
<1>2. TypeOK'
  <2>1. NoFile \in File /\ NoKey \in MaybeKey /\ 0 \in Salts
    BY KeysAssumption DEF NoFile, File, MaybeKey, Salts
  <2>2. /\ named' \in [Procs -> BOOLEAN] /\ creds' \in [Procs -> BOOLEAN] /\ iv' \in [Procs -> BOOLEAN]
        /\ cipher' \in [Procs -> MaybeKey] /\ pending' \in [Procs -> MaybeKey]
    <3>1. CASE Exit(p)
      BY <2>1, <3>1 DEF Exit, IInv, TypeOK
    <3>2. CASE Destroy(p) \/ PamReturn(p)
      BY <3>2 DEF Destroy, PamReturn, IInv, TypeOK
    <3> QED
      BY <3>1, <3>2
  <2>3. QED
    <3>1. /\ status' = [status EXCEPT ![p] = "JustCreated"] /\ salt' = [salt EXCEPT ![p] = 0]
          /\ macKey' = [macKey EXCEPT ![p] = NoKey] /\ fd' = [fd EXCEPT ![p] = NoFile]
          /\ flock' = [flock EXCEPT ![p] = FALSE] /\ pam' = [pam EXCEPT ![p] = "no"]
          /\ locked' = [locked EXCEPT ![p] = FALSE] /\ accepted' = [accepted EXCEPT ![p] = FALSE]
          /\ UNCHANGED blind
      BY <1>1 DEF CloseStore
    <3>2. leaked' \in [Procs -> SUBSET (1 .. MaxFiles)]
      BY <1>1 DEF IInv, TypeOK
    <3> QED
      BY <1>1, <2>1, <2>2, <3>1, <3>2 DEF IInv, TypeOK
<1>3. NoFile.kind = "missing" /\ NoFile.inode = 0 /\ file.inode \in Nat
  BY KeysAssumption DEF NoFile, IInv, TypeOK, File
<1>4. InodeInv'
  BY <1>1, <1>3 DEF CloseStore, IInv, InodeInv, TypeOK
<1>5. CallInv' /\ KeyInv'
  BY <1>1, <1>3 DEF CloseStore, IInv, CallInv, KeyInv, TypeOK
<1>6. OneLockPerFile'
  BY <1>1 DEF CloseStore, IInv, OneLockPerFile, TypeOK
<1> QED
  BY <1>2, <1>4, <1>5, <1>6 DEF IInv

LEMMA InvStep == IInv /\ [Next]_vars => IInv'
<1> SUFFICES ASSUME IInv, [Next]_vars PROVE IInv'
  OBVIOUS
<1>1. CASE UNCHANGED vars
  BY <1>1 DEF vars, engineVars, storeVars, lockVars, callVars, history,
              IInv, TypeOK, InodeInv, CallInv, KeyInv, OneLockPerFile
<1>2. CASE Next
  BY <1>2, CredentialsInv, SetupInv, OpenInv, LockInv, CheckInv, SaveInv, EndInv DEF Next
<1> QED
  BY <1>1, <1>2

\* Every variable keeps to its type; among them the numbers of forgotten
\* descriptors, which readFile_ drops when setup() overwrites it.
THEOREM TypeCorrect == Spec => []TypeOK
<1>1. IInv => TypeOK
  BY DEF IInv
<1> QED
  BY InvInit, InvStep, <1>1, PTL DEF Spec

\* No two descriptors hold the lock of one file, forgotten ones included, in
\* whatever order clients call setup, setCredentials and createCollection.
THEOREM OneLock == Spec => []OneLockPerFile
<1>1. IInv => OneLockPerFile
  BY DEF IInv
<1> QED
  BY InvInit, InvStep, <1>1, PTL DEF Spec

KeyKept ==
  file.kind = "valid" => file'.salt = file.salt /\ (file'.mac = file.mac \/ blind')

LEMMA KeyKeptStep == IInv /\ [Next]_vars => KeyKept
<1> SUFFICES ASSUME IInv, [Next]_vars, file.kind = "valid"
             PROVE  file'.salt = file.salt /\ (file'.mac = file.mac \/ blind')
  BY DEF KeyKept
<1>1. CASE \E p \in Procs : Save(p)
  BY <1>1, SaveInv
<1>2. CASE ~\E p \in Procs : Save(p)
  <2>1. file' = file
    BY <1>2 DEF Next, vars, SetCredentials, PamCredentials, Derive, StoreEncryptingKey, StoreMacKey,
                Setup, PamSetup, BeginSetup, Open, Lock, Check, Destroy, Exit, PamReturn,
                RevokeEncryptingKey, RevokeMacKey
  <2> QED
    BY <2>1
<1> QED
  BY <1>1, <1>2

\* A file keeps the salt it was created with, and its MAC key too, whatever
\* setCredentials and kss_delete_credentials do to the keyring meanwhile, as long as
\* no store that setup() refused saves; clients are free to use such stores.
THEOREM KeyStaysHolds == Spec => KeyStays
<1>1. KeyStays <=> [][KeyKept]_vars
  BY PTL DEF KeyStays, KeyKept
<1> QED
  BY InvInit, InvStep, KeyKeptStep, <1>1, PTL DEF Spec

-----------------------------------------------------------------------------
(* The order of calls that works *)

\* Clients give the store its credentials before they set it up, as the order of
\* the documentation does not; PAM has processes of its own.
ClientsFirst == ~SetupFirst /\ ChecksSetup /\ Clients \cap PamCallers = {}

\* A client that is in setup() or past it has stored credentials itself, so that
\* it never gives a key to its cipher; a PAM process has no name to ask for one,
\* and its store never becomes good. A client saves only through a store that
\* setup() has accepted, which has set the IV.
ReadyInv ==
  \A p \in Procs :
    /\ p \in Clients =>
         (status[p] \in {"CredentialsSet", "Good"} \/ pc[p] \in {"open", "openLock", "lock", "check"} => creds[p])
    /\ accepted[p] => creds[p] /\ iv[p]
    /\ p \notin Clients => ~named[p] /\ ~creds[p] /\ macKey[p] = NoKey /\ status[p] # "Good"
                         /\ pc[p] \notin {"encrypting", "mac"}
    /\ cipher[p] = NoKey
    /\ fd[p].cipher \in {NoEntities, NoKey}

CipherInv == IInv /\ ReadyInv /\ file.cipher \in {NoEntities, NoKey}

LEMMA CipherInit == Init => CipherInv
  BY InvInit DEF Init, CipherInv, ReadyInv, NoFile

\* Who does not store credentials finds no key; who does keeps its cipher as it is.
LEMMA CipherKept ==
  ASSUME CipherInv, NEW p \in Procs
  PROVE  /\ p \notin Clients => ResetMac(p) = NoKey
         /\ creds[p] => CipherInUse(p) = NoKey /\ IsReady(p) /\ (MakeReady(p) => UNCHANGED <<creds, cipher>>)
  BY DEF CipherInv, ReadyInv, IInv, TypeOK, ResetMac, FoundMac, CipherInUse, IsReady, MakeReady, Put

LEMMA CipherStep ==
  ASSUME ClientsFirst
  PROVE  CipherInv /\ [Next]_vars => CipherInv'
<1> SUFFICES ASSUME CipherInv, [Next]_vars
             PROVE  ReadyInv' /\ file'.cipher \in {NoEntities, NoKey}
  BY InvStep DEF CipherInv
<1> USE DEF CipherInv, ReadyInv, IInv, TypeOK, Put, engineVars, storeVars, lockVars, callVars, history
<1>1. ASSUME NEW p \in Procs, NEW w \in Passwords, SetCredentials(p, w) PROVE ReadyInv' /\ UNCHANGED file
  BY <1>1 DEF SetCredentials, Derive
<1>2. ASSUME NEW p \in Procs, NEW w \in Passwords, PamCredentials(p, w) PROVE ReadyInv' /\ UNCHANGED file
  BY <1>2 DEF PamCredentials, Derive
<1>3. ASSUME NEW p \in Procs, StoreEncryptingKey(p) PROVE ReadyInv' /\ UNCHANGED file
  BY <1>3 DEF StoreEncryptingKey, CredentialsFailed
<1>4. ASSUME NEW p \in Procs, StoreMacKey(p) PROVE ReadyInv' /\ UNCHANGED file
  BY <1>4 DEF StoreMacKey, CredentialsFailed
<1>5. ASSUME NEW p \in Procs, NEW ro \in BOOLEAN, BeginSetup(p, ro), p \in Clients => creds[p]
      PROVE  ReadyInv' /\ file'.cipher \in {NoEntities, NoKey}
  <2>1. /\ UNCHANGED <<named, creds, cipher, iv, macKey, fd, accepted>>
        /\ \/ status' = status /\ pc' = [pc EXCEPT ![p] = "open"]
           \/ status' = status /\ pc' = [pc EXCEPT ![p] = "openLock"]
           \/ pc' = pc /\ status' = [status EXCEPT ![p] = "SystemError"]
    BY <1>5 DEF BeginSetup
  <2>2. file' = file \/ file'.cipher = NoEntities
    <3>1. file' = file \/ Create(p)
      BY <1>5 DEF BeginSetup
    <3>2. Create(p) => file'.cipher = NoEntities
      BY CreateFile
    <3> QED
      BY <3>1, <3>2
  <2>3. ReadyInv'
    <3>1. CASE status' = status
      BY <1>5, <2>1, <3>1
    <3>2. CASE pc' = pc /\ status' = [status EXCEPT ![p] = "SystemError"]
      BY <1>5, <2>1, <3>2
    <3> QED
      BY <2>1, <3>1, <3>2
  <2> QED
    BY <2>2, <2>3
<1>6. ASSUME NEW p \in Procs, NEW ro \in BOOLEAN, Setup(p, ro)
      PROVE  ReadyInv' /\ file'.cipher \in {NoEntities, NoKey}
  BY <1>5, <1>6 DEF Setup, ClientsFirst
<1>7. ASSUME NEW p \in Procs, PamSetup(p)
      PROVE  ReadyInv' /\ file'.cipher \in {NoEntities, NoKey}
  BY <1>5, <1>7 DEF PamSetup, ClientsFirst
<1>8. ASSUME NEW p \in Procs, Open(p) PROVE ReadyInv' /\ UNCHANGED file
  BY <1>8, CipherKept DEF Open
<1>9. ASSUME NEW p \in Procs, Lock(p) PROVE ReadyInv' /\ UNCHANGED file
  BY <1>9 DEF Lock
<1>10. ASSUME NEW p \in Procs, Check(p) PROVE ReadyInv' /\ UNCHANGED file
  <2>1. UNCHANGED <<named, file, fd>> /\ pc[p] = "check" /\ pc' = [pc EXCEPT ![p] = "idle"]
        /\ macKey' = [macKey EXCEPT ![p] = ResetMac(p)]
    BY <1>10 DEF Check
  <2>2. CASE p \in Clients
    <3>1. creds[p]
      BY <2>1, <2>2
    <3>2. UNCHANGED <<creds, cipher>>
      BY <1>10, <3>1, CipherKept DEF Check
    <3>3. \/ status' = [status EXCEPT ![p] = "CannotReadFile"]
          \/ status' = [status EXCEPT ![p] = "InvalidFile"]
          \/ status' = [status EXCEPT ![p] = "Good"]
      BY <1>10 DEF Check
    <3>4. /\ accepted' = [accepted EXCEPT ![p] = status'[p] = "Good"]
          /\ status'[p] = "Good" => iv' = [iv EXCEPT ![p] = TRUE]
          /\ iv' = iv \/ iv' = [iv EXCEPT ![p] = TRUE]
      <4>1. status'[p] # "Good" \/ ResetMac(p) # NoKey
        BY <1>10 DEF Check
      <4> QED
        BY <1>10, <4>1 DEF Check
    <3> QED
      BY <2>1, <2>2, <3>1, <3>2, <3>3, <3>4
  <2>3. CASE p \notin Clients
    <3>1. ResetMac(p) = NoKey
      BY <2>3, CipherKept
    <3>2. /\ UNCHANGED <<creds, cipher, iv>> /\ status' = [status EXCEPT ![p] = "CannotReadFile"]
          /\ accepted' = [accepted EXCEPT ![p] = FALSE]
      BY <1>10, <3>1 DEF Check
    <3> QED
      BY <2>1, <2>3, <3>1, <3>2
  <2> QED
    BY <2>2, <2>3
<1>11. ASSUME NEW p \in Procs, Save(p) PROVE ReadyInv' /\ file'.cipher \in {NoEntities, NoKey}
  <2>1. p \in Clients /\ accepted[p] /\ creds[p] /\ iv[p]
    BY <1>11 DEF Save, ClientsFirst
  <2>2. fd[p] # NoFile
    BY <2>1 DEF KeyInv, NoFile
  <2>3. /\ UNCHANGED <<creds, cipher, named, status, pc, accepted>>
        /\ file'.cipher = NoKey /\ fd' = [fd EXCEPT ![p] = file']
        /\ iv' = [iv EXCEPT ![p] = TRUE] /\ macKey' = [macKey EXCEPT ![p] = ResetMac(p)]
    BY <1>11, <2>1, <2>2, CipherKept DEF Save
  <2> QED
    BY <2>1, <2>3
<1>12. ASSUME NEW p \in Procs, Destroy(p) \/ PamReturn(p) PROVE ReadyInv' /\ UNCHANGED file
  BY <1>12 DEF Destroy, PamReturn, CloseStore, NoFile
<1>13. ASSUME NEW p \in Procs, Exit(p) PROVE ReadyInv' /\ UNCHANGED file
  BY <1>13 DEF Exit, CloseStore, NoFile
<1>14. ASSUME NEW p \in Procs, RevokeEncryptingKey(p) \/ RevokeMacKey(p) PROVE ReadyInv' /\ UNCHANGED file
  BY <1>14 DEF RevokeEncryptingKey, RevokeMacKey
<1>15. CASE UNCHANGED vars
  BY <1>15 DEF vars
<1> HIDE DEF CipherInv, ReadyInv, IInv, TypeOK
<1>16. file.cipher \in {NoEntities, NoKey}
  BY DEF CipherInv
<1> QED
  BY <1>1, <1>2, <1>3, <1>4, <1>6, <1>7, <1>8, <1>9, <1>10, <1>11, <1>12, <1>13, <1>14, <1>15, <1>16 DEF Next

\* What an accepted store wrote another decrypts, whatever passwords they were given and
\* whichever add_key failed: with credentials before setup(), every cipher is
\* left in the same state, without a key (CryptingEngine::isReady returns early).
THEOREM EntitiesReadableHolds ==
  ASSUME ClientsFirst
  PROVE  Spec => []EntitiesReadable
<1>1. CipherInv => EntitiesReadable
  <2> SUFFICES ASSUME CipherInv, NEW p \in Procs, status[p] = "Good"
               PROVE  fd[p].cipher \in {NoEntities, CipherInUse(p)}
    BY DEF EntitiesReadable
  <2>1. creds[p] /\ fd[p].cipher \in {NoEntities, NoKey}
    BY DEF CipherInv, ReadyInv
  <2> QED
    BY <2>1, CipherKept
<1>2. CipherInv /\ [Next]_vars => CipherInv'
  BY CipherStep
<1> QED
  BY CipherInit, <1>1, <1>2, PTL DEF Spec

\* In addition no client changes its credentials, and all have one password.
OnePassword == ~Rekey /\ \A v, w \in Passwords : v = w

\* The keys that clients derive before setup(), with a salt of zeros.
FirstKeys == [password : Passwords, salt : {0}]

\* There are no other keys; a store has another salt only with the file open.
FirstKeysInv ==
  /\ keyring.mac \in FirstKeys \cup {NoKey}
  /\ file.kind = "valid" => file.mac \in FirstKeys
  /\ \A p \in Procs :
       /\ fd[p].kind = "valid" => fd[p].mac \in FirstKeys
       /\ {macKey[p], pending[p]} \subseteq FirstKeys \cup {NoKey}
       /\ fd[p].kind # "valid" => salt[p] = 0
       /\ pam[p] # "no" => p \in PamCallers

OpensInv == CipherInv /\ FirstKeysInv /\ SamePasswordOpens

LEMMA OpensInit == Init => OpensInv
  BY CipherInit DEF Init, OpensInv, FirstKeysInv, SamePasswordOpens, NoFile

LEMMA OpensStep ==
  ASSUME ClientsFirst, OnePassword
  PROVE  OpensInv /\ [Next]_vars => OpensInv'
<1> SUFFICES ASSUME OpensInv, [Next]_vars
             PROVE  FirstKeysInv' /\ SamePasswordOpens'
  BY CipherStep DEF OpensInv
<1>0. IInv /\ TypeOK /\ CallInv /\ KeyInv /\ ReadyInv /\ CipherInv
  BY DEF OpensInv, CipherInv, IInv
<1> DEFINE Goal == FirstKeysInv' /\ SamePasswordOpens'
<1> USE DEF OpensInv, FirstKeysInv, SamePasswordOpens, Put, engineVars, storeVars, lockVars, callVars, history
<1>1. ASSUME NEW p \in Procs, NEW w \in Passwords, SetCredentials(p, w) PROVE Goal
  <2>1. salt[p] = 0
    <3>1. fd[p] = NoFile
      BY <1>1 DEF SetCredentials, OnePassword
    <3> QED
      BY <3>1 DEF NoFile
  <2>2. [password |-> w, salt |-> salt[p]] \in FirstKeys
    BY <2>1 DEF FirstKeys
  <2> QED
    BY <1>0, <1>1, <2>2 DEF SetCredentials, Derive, TypeOK
<1>2. ASSUME NEW p \in Procs, NEW w \in Passwords, PamCredentials(p, w) PROVE FALSE
  BY <1>0, <1>2 DEF PamCredentials, ReadyInv, ClientsFirst
<1>3. ASSUME NEW p \in Procs, StoreEncryptingKey(p) PROVE Goal
  <2>1. keyring'.mac = keyring.mac
    BY <1>0, <1>3 DEF StoreEncryptingKey, TypeOK
  <2>2. /\ UNCHANGED <<file, salt, macKey, fd, pam>>
        /\ pending' = pending \/ pending' = [pending EXCEPT ![p] = NoKey]
        /\ status' = status \/ status' = [status EXCEPT ![p] = "CannotDeriveKeys"]
    BY <1>3 DEF StoreEncryptingKey, CredentialsFailed
  <2> QED
    BY <1>0, <2>1, <2>2 DEF TypeOK
<1>4. ASSUME NEW p \in Procs, StoreMacKey(p) PROVE Goal
  <2>1. keyring'.mac \in {keyring.mac, pending[p]}
    BY <1>0, <1>4 DEF StoreMacKey, TypeOK
  <2>2. /\ UNCHANGED <<file, salt, macKey, fd, pam>>
        /\ pending' = [pending EXCEPT ![p] = NoKey]
        /\ \/ status' = [status EXCEPT ![p] = "CredentialsSet"]
           \/ status' = [status EXCEPT ![p] = "CannotDeriveKeys"]
    BY <1>4 DEF StoreMacKey, CredentialsFailed
  <2> QED
    BY <1>0, <2>1, <2>2 DEF TypeOK
<1>5. ASSUME NEW p \in Procs, NEW ro \in BOOLEAN, BeginSetup(p, ro),
             \A q \in Procs : pam'[q] # "no" => q \in PamCallers
      PROVE  Goal
  <2>1. /\ UNCHANGED <<keyring, macKey, pending, fd, salt>>
        /\ status' = status \/ status' = [status EXCEPT ![p] = "SystemError"]
        /\ file' = file \/ Create(p)
    BY <1>5 DEF BeginSetup
  <2>2. file'.kind = "valid" => file'.mac \in FirstKeys
    <3>1. CASE file' = [inode |-> file.inode + 1, kind |-> "valid", salt |-> file.inode + 1,
                        mac |-> FoundMac(p), cipher |-> NoEntities] /\ FoundMac(p) # NoKey
      BY <3>1 DEF FoundMac
    <3>2. CASE file' = [NoFile EXCEPT !.inode = file.inode + 1, !.kind = "empty"]
      <4>1. [NoFile EXCEPT !.inode = file.inode + 1, !.kind = "empty"].kind = "empty"
        BY DEF NoFile
      <4> QED
        BY <3>2, <4>1
    <3>3. CASE file' = file
      BY <3>3
    <3> QED
      BY <2>1, <3>1, <3>2, <3>3 DEF Create
  <2> QED
    BY <1>0, <1>5, <2>1, <2>2 DEF TypeOK
<1>6. ASSUME NEW p \in Procs, NEW ro \in BOOLEAN, Setup(p, ro) PROVE Goal
  BY <1>5, <1>6 DEF Setup
<1>7. ASSUME NEW p \in Procs, PamSetup(p) PROVE Goal
  <2>1. \A q \in Procs : pam'[q] # "no" => q \in PamCallers
    BY <1>0, <1>7 DEF PamSetup, TypeOK
  <2> QED
    BY <1>5, <1>7, <2>1 DEF PamSetup
<1>8. ASSUME NEW p \in Procs, Open(p) PROVE Goal
  <2>1. ResetMac(p) \in FirstKeys \cup {NoKey} /\ file.kind = "valid"
    BY <1>0, <1>8 DEF Open, CallInv, ResetMac, FoundMac
  <2> QED
    BY <1>0, <1>8, <2>1 DEF Open, TypeOK
<1>9. ASSUME NEW p \in Procs, Lock(p) PROVE Goal
  BY <1>9 DEF Lock
<1>10. ASSUME NEW p \in Procs, Check(p) PROVE Goal
  <2>1. ResetMac(p) \in FirstKeys \cup {NoKey} /\ fd[p].kind = "valid"
    BY <1>0, <1>10 DEF Check, CallInv, ResetMac, FoundMac
  <2>2. fd[p].mac \in FirstKeys
    BY <2>1
  <2>3. \A k, l \in FirstKeys : k = l
    BY DEF FirstKeys, OnePassword
  <2>4. ResetMac(p) # NoKey => ResetMac(p) = fd[p].mac /\ fd[p].cipher \in {NoEntities, CipherInUse(p)}
    <3> SUFFICES ASSUME ResetMac(p) # NoKey
                 PROVE  ResetMac(p) = fd[p].mac /\ fd[p].cipher \in {NoEntities, CipherInUse(p)}
      OBVIOUS
    <3>1. p \in Clients
      BY <1>0, CipherKept
    <3>2. creds[p] /\ fd[p].cipher \in {NoEntities, NoKey}
      BY <1>0, <1>10, <3>1 DEF Check, ReadyInv
    <3>3. CipherInUse(p) = NoKey
      BY <1>0, <3>2, CipherKept
    <3> QED
      BY <2>1, <2>2, <2>3, <3>2, <3>3
  <2>5. \/ status' = [status EXCEPT ![p] = "CannotReadFile"]
        \/ status' = [status EXCEPT ![p] = "Good"]
    BY <1>10, <2>4 DEF Check
  <2>6. /\ UNCHANGED <<keyring, file, fd, pending, pam>>
        /\ salt' = [salt EXCEPT ![p] = fd[p].salt] /\ macKey' = [macKey EXCEPT ![p] = ResetMac(p)]
    BY <1>10 DEF Check
  <2>7. keyring.mac \in FirstKeys \cup {NoKey} /\ (file.kind = "valid" => file.mac \in FirstKeys)
    OBVIOUS
  <2>8. FirstKeysInv'
    BY <1>0, <2>1, <2>6, <2>7 DEF TypeOK
  <2>9. SamePasswordOpens'
    BY <1>0, <2>5 DEF TypeOK
  <2> QED
    BY <2>8, <2>9
<1>11. ASSUME NEW p \in Procs, Save(p) PROVE Goal
  <2>1. ResetMac(p) \in FirstKeys
    BY <1>0, <1>11 DEF Save, ResetMac, FoundMac
  <2>2. /\ UNCHANGED <<keyring, status, salt, pending, pam>>
        /\ macKey' = [macKey EXCEPT ![p] = ResetMac(p)]
        /\ \/ file' = file /\ fd' = fd
           \/ file'.mac = ResetMac(p) /\ file'.kind = "valid" /\ fd' = [fd EXCEPT ![p] = file']
    BY <1>11 DEF Save
  <2> QED
    BY <1>0, <2>1, <2>2 DEF TypeOK
<1>12. ASSUME NEW p \in Procs, CloseStore(p), UNCHANGED <<keyring, file>>,
              pending' = pending \/ pending' = [pending EXCEPT ![p] = NoKey]
       PROVE  Goal
  <2>1. NoFile.kind = "missing"
    BY DEF NoFile
  <2>2. FirstKeysInv'
    BY <1>0, <1>12, <2>1 DEF CloseStore, TypeOK
  <2>3. SamePasswordOpens'
    BY <1>0, <1>12 DEF CloseStore, TypeOK
  <2> QED
    BY <2>2, <2>3
<1>13. ASSUME NEW p \in Procs, Destroy(p) \/ PamReturn(p) \/ Exit(p) PROVE Goal
  BY <1>12, <1>13 DEF Destroy, PamReturn, Exit
<1>14. ASSUME NEW p \in Procs, RevokeEncryptingKey(p) \/ RevokeMacKey(p) PROVE Goal
  <2>1. keyring'.mac \in {keyring.mac, NoKey}
    BY <1>0, <1>14 DEF RevokeEncryptingKey, RevokeMacKey, TypeOK
  <2> QED
    BY <1>14, <2>1 DEF RevokeEncryptingKey, RevokeMacKey
<1>15. CASE UNCHANGED vars
  BY <1>15 DEF vars
<1> HIDE DEF OpensInv, FirstKeysInv, SamePasswordOpens
<1> QED
  BY <1>1, <1>2, <1>3, <1>4, <1>6, <1>7, <1>8, <1>9, <1>10, <1>11, <1>13, <1>14, <1>15 DEF Next

\* With one password everywhere no store takes the file for a forgery, for any
\* number of processes and files and whenever keys are revoked: all keys come
\* from the zeros of a fresh fileHead_ (CryptingEngine::setCredentials).
THEOREM SamePasswordOpensHolds ==
  ASSUME ClientsFirst, OnePassword
  PROVE  Spec => []SamePasswordOpens
<1>1. OpensInv => SamePasswordOpens
  BY DEF OpensInv
<1>2. OpensInv /\ [Next]_vars => OpensInv'
  BY OpensStep
<1> QED
  BY OpensInit, <1>1, <1>2, PTL DEF Spec
=============================================================================
