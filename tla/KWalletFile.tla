----------------------------- MODULE KWalletFile -----------------------------
(***************************************************************************)
(* KWallet::Backend, the class kwl2kss reads wallets with: one object and   *)
(* its .kwl file. The object keeps the decrypted entries while it is open  *)
(* and, open or not, digests of folder and entry names by which it can say *)
(* that something does not exist without the password.                     *)
(*                                                                         *)
(* One thread; every call is a step. A digest is the name it is taken of,   *)
(* and the digest of a password is the blocks password2hash hashes apart.   *)
(* The file is written through KSaveFile: whole or not at all. Left out:   *)
(* entries of a type that no writer produces, and removeEntry in a folder   *)
(* that does not exist, where the code has no defined behaviour.           *)
(***************************************************************************)
EXTENDS Naturals, Sequences, FiniteSets, Functions, SequencesExt

CONSTANTS
  Folders,    \* folder names
  Global,     \* the empty name, of the global folder
  Keys,       \* entry names
  Values,     \* an entry's type and value
  Passwords,  \* sequences of characters
  Block       \* characters hashed together: 16

KWalletAssumption ==
  Global \in Folders /\ Block \in Nat \ {0} /\ \A p \in Passwords : p \in Seq(Nat)

VARIABLES
  open,      \* _open
  folder,    \* _folder
  entries,   \* _entries: folders to their maps of entries
  hashes,    \* _hashes: digests of folders to the digests of their entries
  passhash,  \* _passhash
  file,      \* the .kwl file
  password,  \* history: the password behind _passhash
  made       \* history: folders made while the object was closed, or by writing into
             \* them, since it was closed last

vars == <<open, folder, entries, hashes, passhash, file, password, made>>

-----------------------------------------------------------------------------
\* Maps with keys in D and values in R.
Maps(D, R) == UNION {[S -> R] : S \in SUBSET D}

Without(m, k) == Restrict(m, DOMAIN m \ {k})

With(m, k, v) == [x \in DOMAIN m \cup {k} |-> IF x = k THEN v ELSE m[x]]

Empty == [x \in {} |-> {}]

EntryMaps == Maps(Keys, Values)

Smaller(a, b) == IF a < b THEN a ELSE b

\* Slip: the last block is cut to Block characters like the others.
Password2HashCut(p) ==
  [i \in 1 .. Smaller(4, 1 + (Len(p) - 1) \div Block) |->
     SubSeq(p, (i - 1) * Block + 1, Smaller(i * Block, Len(p)))]

\* password2hash: three blocks of Block characters and one of all the rest,
\* each only when the password reaches that far.
Password2Hash(p) ==
  IF p = <<>> THEN << <<>> >>
  ELSE [i \in 1 .. Smaller(4, 1 + (Len(p) - 1) \div Block) |->
          SubSeq(p, (i - 1) * Block + 1, IF i = 4 THEN Len(p) ELSE Smaller(i * Block, Len(p)))]

\* A wallet file: the digests in the clear, the entries under the password's.
WalletFiles == [kind : {"wallet"}, entries : Maps(Folders, EntryMaps),
                passhash : {Password2Hash(p) : p \in Passwords}, password : Passwords]

\* What a path may lead to instead: nothing, less than 60 bytes, a file with
\* another magic, version, cipher or hash, or a wallet whose contents are damaged.
NoWallets == [kind : {"absent", "short", "foreign", "damaged"}]

NameDigests(es) == [f \in DOMAIN es |-> DOMAIN es[f]]

Image(h, p) == [kind |-> "wallet", entries |-> entries, passhash |-> h, password |-> p]

IsWallet == file.kind = "wallet"

Init ==
  /\ open = FALSE
  /\ folder = Global
  /\ entries = Empty
  /\ hashes = Empty
  /\ \E p \in Passwords : password = p /\ passhash = Password2Hash(p)
  /\ file \in NoWallets
  /\ made = {}

-----------------------------------------------------------------------------
\* openInternal with this passhash: no wallet yet, so that one is created and
\* written with whatever the object holds.
CreateWallet(h, p) ==
  /\ file.kind \in {"absent", "short"}
  /\ open' = TRUE
  /\ \/ file' = Image(h, p)
     \/ file' = [kind |-> "short"]
  /\ UNCHANGED <<entries, hashes>>

\* The digests are read before the password is known to be right; the entries
\* of each folder of the file replace what the object has under that name.
LoadWallet(h) ==
  /\ IsWallet
  /\ hashes' = NameDigests(file.entries)
  /\ IF file.passhash = h
     THEN /\ entries' = [f \in DOMAIN file.entries \cup DOMAIN entries |->
                           IF f \in DOMAIN file.entries THEN file.entries[f] ELSE entries[f]]
          /\ open' = TRUE
     ELSE UNCHANGED <<entries, open>>
  /\ UNCHANGED file

\* The file cannot be opened, or is not a wallet of this version; or it is found
\* damaged when its digests replace those the object has, or part of them does.
RefuseFile ==
  /\ \/ UNCHANGED hashes
     \/ file.kind = "damaged" /\ hashes' \in Maps(Folders, SUBSET Keys)
  /\ UNCHANGED <<open, entries, file>>

OpenInternal(p) ==
  /\ passhash' = Password2Hash(p)
  /\ password' = p
  /\ CreateWallet(Password2Hash(p), p) \/ LoadWallet(Password2Hash(p)) \/ RefuseFile

\* open, and openPreHashed with a hash of a size password2hash returns. An
\* object already open answers -255 and keeps everything.
Open ==
  /\ ~open
  /\ \E p \in Passwords : OpenInternal(p)
  /\ UNCHANGED <<folder, made>>

\* Slip: sync() does not look whether the object is open.
SyncAlways ==
  /\ file' = Image(passhash, password)
  /\ UNCHANGED <<open, folder, entries, hashes, passhash, password, made>>

Sync ==
  /\ open
  /\ file' = Image(passhash, password)
  /\ UNCHANGED <<open, folder, entries, hashes, passhash, password, made>>

\* Slip: the entries stay in memory.
ClearedNot == UNCHANGED entries

Cleared == entries' = Empty

\* close(save): a failing sync() leaves the object open. The digests and the
\* current folder stay.
Close ==
  /\ \/ open /\ file' = Image(passhash, password)
     \/ UNCHANGED file
  /\ Cleared
  /\ open' = FALSE
  /\ passhash' = << >> /\ password' = << >>
  /\ made' = {}
  /\ UNCHANGED <<folder, hashes>>

SetPassword ==
  /\ \E p \in Passwords : password' = p /\ passhash' = Password2Hash(p)
  /\ UNCHANGED <<open, folder, entries, hashes, file, made>>

SetFolder ==
  /\ folder' \in Folders
  /\ UNCHANGED <<open, entries, hashes, passhash, file, password, made>>

-----------------------------------------------------------------------------
\* None of createFolder and renameEntry looks whether the object is open.
CreateFolder(f) ==
  /\ f \notin DOMAIN entries
  /\ entries' = With(entries, f, Empty)
  /\ hashes' = With(hashes, f, {})
  /\ made' = IF open THEN made ELSE made \cup {f}
  /\ UNCHANGED <<open, folder, passhash, file, password>>

CurrentMap == IF folder \in DOMAIN entries THEN entries[folder] ELSE Empty

\* operator[] makes the current folder if there is none.
MadeByWriting == made \cup ({folder} \ DOMAIN entries)

\* Slip: the entry's digest is left out when the folder has one already.
HashedOnce(ks) ==
  IF folder \in DOMAIN hashes /\ hashes[folder] = {} THEN [hashes EXCEPT ![folder] = ks] ELSE hashes

\* A folder that has no digest, made by writing into it, gets none for its entries.
Hashed(ks) == IF folder \in DOMAIN hashes THEN [hashes EXCEPT ![folder] = ks] ELSE hashes

\* Even when nothing is renamed, operator[] is called.
RenameEntry(k, n) ==
  LET m == CurrentMap
      renamed == k \in DOMAIN m /\ n \notin DOMAIN m
  IN /\ entries' = With(entries, folder, IF renamed THEN With(Without(m, k), n, m[k]) ELSE m)
     /\ hashes' = IF renamed /\ folder \in DOMAIN hashes
                  THEN Hashed((hashes[folder] \ {k}) \cup {n}) ELSE hashes
     /\ made' = MadeByWriting
     /\ UNCHANGED <<open, folder, passhash, file, password>>

WriteEntry(k, v) ==
  /\ open
  /\ entries' = With(entries, folder, With(CurrentMap, k, v))
  /\ hashes' = Hashed((IF folder \in DOMAIN hashes THEN hashes[folder] ELSE {}) \cup {k})
  /\ made' = MadeByWriting
  /\ UNCHANGED <<open, folder, passhash, file, password>>

RemoveEntry(k) ==
  /\ open /\ folder \in DOMAIN entries /\ k \in DOMAIN entries[folder]
  /\ entries' = With(entries, folder, Without(entries[folder], k))
  /\ hashes' = Hashed((IF folder \in DOMAIN hashes THEN hashes[folder] ELSE {}) \ {k})
  /\ UNCHANGED <<open, folder, passhash, file, password, made>>

RemoveFolder(f) ==
  /\ open /\ f \in DOMAIN entries
  /\ folder' = IF folder = f THEN Global ELSE folder
  /\ entries' = Without(entries, f)
  /\ hashes' = Without(hashes, f)
  /\ made' = made \ {f}
  /\ UNCHANGED <<open, passhash, file, password>>

\* Another program deletes, cuts or damages the file.
FileLost ==
  /\ file' \in [kind : {"absent", "short", "damaged"}]
  /\ UNCHANGED <<open, folder, entries, hashes, passhash, password, made>>

Next ==
  \/ Open \/ Sync \/ Close \/ SetPassword \/ SetFolder
  \/ \E f \in Folders : CreateFolder(f) \/ RemoveFolder(f)
  \/ \E k \in Keys : RemoveEntry(k) \/ (\E v \in Values : WriteEntry(k, v)) \/ (\E n \in Keys : RenameEntry(k, n))
  \/ FileLost

Spec == Init /\ [][Next]_vars

-----------------------------------------------------------------------------
TypeOK ==
  /\ open \in BOOLEAN /\ made \subseteq Folders
  /\ folder \in Folders
  /\ entries \in Maps(Folders, EntryMaps)
  /\ hashes \in Maps(Folders, SUBSET Keys)
  /\ password \in Passwords \cup {<<>>}
  /\ passhash \in {Password2Hash(p) : p \in Passwords} \cup {<<>>}
  /\ file \in NoWallets \cup WalletFiles

FolderDoesNotExist(f) == f \notin DOMAIN hashes

EntryDoesNotExist(f, k) == FolderDoesNotExist(f) \/ k \notin hashes[f]

\* An open wallet says of an entry it has that it does not exist only when its
\* whole folder has no digest, and only a folder that was made by writing into it,
\* or while the object was closed, has none - and has one again when it was saved
\* and reopened. (entryDoesNotExist answers from digests that writing, renaming and
\* removing keep up by hand, and that a failed open replaces.)
NeverDeniesAnEntry ==
  open => \A f \in DOMAIN entries : \A k \in DOMAIN entries[f] :
            EntryDoesNotExist(f, k) => FolderDoesNotExist(f) /\ f \in made

\* A wallet only opens with the password it was last saved with - no two
\* passwords have the same blocks, however long they are - and gives what was
\* saved in it and nothing of what the object held before, unless folders were
\* made while it was closed.
OpensAsSaved ==
  [][~open /\ open' /\ IsWallet =>
       password' = file.password /\ (made = {} => entries' = file.entries)]_vars

=============================================================================
