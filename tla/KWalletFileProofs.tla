-------------------------- MODULE KWalletFileProofs --------------------------
(***************************************************************************)
(* Proofs about KWalletFile, for any folders, entry names, values,          *)
(* passwords and block size.                                               *)
(***************************************************************************)
EXTENDS KWalletFile, SequenceTheorems, TLAPS

-----------------------------------------------------------------------------
(* The maps *)

LEMMA WithShape ==
  ASSUME NEW m, NEW k, NEW v
  PROVE  /\ DOMAIN With(m, k, v) = DOMAIN m \cup {k}
         /\ With(m, k, v)[k] = v
         /\ \A x \in DOMAIN m : x # k => With(m, k, v)[x] = m[x]
  BY DEF With

LEMMA WithoutShape ==
  ASSUME NEW m, NEW k
  PROVE  /\ DOMAIN Without(m, k) = DOMAIN m \ {k}
         /\ \A x \in DOMAIN m : x # k => Without(m, k)[x] = m[x]
  BY DEF Without, Restrict

LEMMA EmptyShape == DOMAIN Empty = {}
  BY DEF Empty

-----------------------------------------------------------------------------
(* Digests *)

\* No digest that exists for a folder leaves out an entry, whether the object
\* is open or not; a closed object has folders at most, and no entries.
Covered == \A f \in DOMAIN entries : f \in DOMAIN hashes => DOMAIN entries[f] \subseteq hashes[f]

Bare == ~open => \A f \in DOMAIN entries : DOMAIN entries[f] = {}

\* The folders of an open object have digests, but those made by writing into
\* them or while it was closed; a closed object has no others.
Listed == \A f \in DOMAIN entries : f \in made \/ (open /\ f \in DOMAIN hashes)

DigestInv == Covered /\ Bare /\ Listed /\ open \in BOOLEAN

LEMMA CoveredNeverDenies == DigestInv => NeverDeniesAnEntry
  BY DEF DigestInv, Covered, Listed, NeverDeniesAnEntry, FolderDoesNotExist, EntryDoesNotExist

LEMMA DigestInit == Init => DigestInv
  BY EmptyShape DEF Init, DigestInv, Covered, Bare, Listed

\* Opening takes the digests of the file, and its entries over those the object
\* still has: a folder that is not in the file loses its digest, not its name.
LEMMA DigestOpen ==
  ASSUME DigestInv, Open
  PROVE  DigestInv'
<1> USE DEF DigestInv, Covered, Bare, Listed
<1>1. PICK p \in Passwords : ~open /\ OpenInternal(p) /\ made' = made
  BY DEF Open
<1>2. CASE CreateWallet(Password2Hash(p), p)
  BY <1>1, <1>2 DEF CreateWallet
<1>3. CASE LoadWallet(Password2Hash(p))
  <2>1. hashes' = NameDigests(file.entries)
    BY <1>3 DEF LoadWallet
  <2>2. CASE file.passhash = Password2Hash(p)
    <3>1. /\ entries' = [f \in DOMAIN file.entries \cup DOMAIN entries |->
                           IF f \in DOMAIN file.entries THEN file.entries[f] ELSE entries[f]]
          /\ open' = TRUE
      BY <1>3, <2>2 DEF LoadWallet
    <3> QED
      BY <1>1, <2>1, <3>1 DEF NameDigests
  <2>3. CASE file.passhash # Password2Hash(p)
    <3>1. entries' = entries /\ open' = open
      BY <1>3, <2>3 DEF LoadWallet
    <3> QED
      BY <1>1, <3>1
  <2> QED
    BY <2>2, <2>3
<1>4. CASE RefuseFile
  BY <1>1, <1>4 DEF RefuseFile
<1> QED
  BY <1>1, <1>2, <1>3, <1>4 DEF OpenInternal

\* The digests of the current folder after an update of its entries.
LEMMA HashedShape ==
  ASSUME NEW ks
  PROVE  /\ DOMAIN Hashed(ks) = DOMAIN hashes
         /\ folder \in DOMAIN hashes => Hashed(ks)[folder] = ks
         /\ \A f \in DOMAIN hashes : f # folder => Hashed(ks)[f] = hashes[f]
  BY DEF Hashed

\* An update of the current folder keeps every digest complete when the new
\* digests cover its new entries.
LEMMA DigestUpdate ==
  ASSUME DigestInv, NEW m, NEW ks,
         entries' = With(entries, folder, m),
         \/ hashes' = Hashed(ks)
         \/ hashes' = hashes /\ (folder \in DOMAIN hashes => hashes[folder] = ks),
         folder \in DOMAIN hashes => DOMAIN m \subseteq ks,
         open' = open, open \/ DOMAIN m = {},
         made' = MadeByWriting \/ (made' = made /\ folder \in DOMAIN entries)
  PROVE  DigestInv'
<1>1. /\ DOMAIN entries' = DOMAIN entries \cup {folder}
      /\ entries'[folder] = m
      /\ \A f \in DOMAIN entries : f # folder => entries'[f] = entries[f]
  BY DEF With
<1>2. /\ DOMAIN hashes' = DOMAIN hashes
      /\ folder \in DOMAIN hashes => hashes'[folder] = ks
      /\ \A f \in DOMAIN hashes : f # folder => hashes'[f] = hashes[f]
  BY HashedShape
<1>3. made \subseteq made' /\ (folder \in DOMAIN entries \/ folder \in made')
  BY DEF MadeByWriting
<1>4. Covered' /\ Bare'
  BY <1>1, <1>2 DEF DigestInv, Covered, Bare
<1>5. Listed'
  BY <1>1, <1>2, <1>3 DEF DigestInv, Listed
<1> QED
  BY <1>4, <1>5 DEF DigestInv

LEMMA DigestStep == DigestInv /\ [Next]_vars => DigestInv'
<1> SUFFICES ASSUME DigestInv, [Next]_vars PROVE DigestInv'
  OBVIOUS
<1>0. folder \in DOMAIN hashes => DOMAIN CurrentMap \subseteq hashes[folder]
  BY EmptyShape DEF DigestInv, Covered, CurrentMap
<1>1. CASE Open
  BY <1>1, DigestOpen
<1>2. CASE Sync
  BY <1>2 DEF Sync, DigestInv, Covered, Bare, Listed
<1>3. CASE Close
  BY <1>3, EmptyShape DEF Close, Cleared, DigestInv, Covered, Bare, Listed
<1>4. CASE SetPassword \/ SetFolder \/ FileLost
  BY <1>4 DEF SetPassword, SetFolder, FileLost, DigestInv, Covered, Bare, Listed
<1>5. ASSUME NEW f \in Folders, CreateFolder(f) PROVE DigestInv'
  <2>1. /\ entries' = With(entries, f, Empty) /\ open' = open /\ hashes' = With(hashes, f, {})
        /\ made' = IF open THEN made ELSE made \cup {f}
    BY <1>5 DEF CreateFolder
  <2>2. /\ DOMAIN entries' = DOMAIN entries \cup {f}
        /\ entries'[f] = Empty
        /\ \A x \in DOMAIN entries : x # f => entries'[x] = entries[x]
    BY <2>1 DEF With
  <2>3. /\ DOMAIN hashes' = DOMAIN hashes \cup {f}
        /\ \A x \in DOMAIN hashes : x # f => hashes'[x] = hashes[x]
    BY <2>1 DEF With
  <2> QED
    BY <2>1, <2>2, <2>3, EmptyShape DEF DigestInv, Covered, Bare, Listed
<1>6. ASSUME NEW f \in Folders, RemoveFolder(f) PROVE DigestInv'
  <2>1. /\ entries' = Without(entries, f) /\ open' = open /\ hashes' = Without(hashes, f)
        /\ made' = made \ {f}
    BY <1>6 DEF RemoveFolder
  <2>2. /\ DOMAIN entries' = DOMAIN entries \ {f}
        /\ \A x \in DOMAIN entries : x # f => entries'[x] = entries[x]
    BY <2>1, WithoutShape
  <2>3. /\ DOMAIN hashes' = DOMAIN hashes \ {f}
        /\ \A x \in DOMAIN hashes : x # f => hashes'[x] = hashes[x]
    BY <2>1, WithoutShape
  <2> QED
    BY <2>1, <2>2, <2>3 DEF DigestInv, Covered, Bare, Listed
<1>7. ASSUME NEW k \in Keys, RemoveEntry(k) PROVE DigestInv'
  <2> DEFINE old == IF folder \in DOMAIN hashes THEN hashes[folder] ELSE {}
             m == Without(entries[folder], k)
             ks == old \ {k}
  <2>1. /\ entries' = With(entries, folder, m) /\ open' = open /\ open /\ hashes' = Hashed(ks)
        /\ made' = made /\ folder \in DOMAIN entries
    BY <1>7 DEF RemoveEntry
  <2>2. CurrentMap = entries[folder]
    BY <1>7 DEF RemoveEntry, CurrentMap
  <2>3. DOMAIN m = DOMAIN entries[folder] \ {k}
    BY WithoutShape
  <2>4. folder \in DOMAIN hashes => DOMAIN m \subseteq ks
    BY <1>0, <2>2, <2>3
  <2> HIDE DEF m, ks
  <2> QED
    BY <2>1, <2>4, DigestUpdate
<1>8. ASSUME NEW k \in Keys, NEW v \in Values, WriteEntry(k, v) PROVE DigestInv'
  <2> DEFINE old == IF folder \in DOMAIN hashes THEN hashes[folder] ELSE {}
             m == With(CurrentMap, k, v)
             ks == old \cup {k}
  <2>1. /\ entries' = With(entries, folder, m) /\ open' = open /\ open /\ hashes' = Hashed(ks)
        /\ made' = MadeByWriting
    BY <1>8 DEF WriteEntry
  <2>2. DOMAIN m = DOMAIN CurrentMap \cup {k}
    BY WithShape
  <2>3. folder \in DOMAIN hashes => DOMAIN m \subseteq ks
    BY <1>0, <2>2
  <2> HIDE DEF m, ks
  <2> QED
    BY <2>1, <2>3, DigestUpdate
<1>9. ASSUME NEW k \in Keys, NEW n \in Keys, RenameEntry(k, n) PROVE DigestInv'
  <2> DEFINE m == CurrentMap
             new == With(Without(m, k), n, m[k])
             ks == (hashes[folder] \ {k}) \cup {n}
  <2>1. open' = open /\ made' = MadeByWriting
    BY <1>9 DEF RenameEntry
  <2>2. open \/ DOMAIN m = {}
    BY EmptyShape DEF DigestInv, Bare, CurrentMap
  <2>3. CASE k \in DOMAIN m /\ n \notin DOMAIN m
    <3>1. /\ entries' = With(entries, folder, new)
          /\ hashes' = IF folder \in DOMAIN hashes THEN Hashed(ks) ELSE hashes
      BY <1>9, <2>3 DEF RenameEntry
    <3>2. DOMAIN new = DOMAIN Without(m, k) \cup {n} /\ DOMAIN Without(m, k) = DOMAIN m \ {k}
      BY WithShape, WithoutShape
    <3>3. folder \in DOMAIN hashes => DOMAIN new \subseteq ks
      BY <1>0, <3>2
    <3>4. \/ hashes' = Hashed(ks)
          \/ hashes' = hashes /\ (folder \in DOMAIN hashes => hashes[folder] = ks)
      BY <3>1
    <3>5. open
      BY <2>2, <2>3
    <3> HIDE DEF new, ks, m
    <3> QED
      BY <2>1, <3>1, <3>3, <3>4, <3>5, DigestUpdate
  <2>4. CASE ~(k \in DOMAIN m /\ n \notin DOMAIN m)
    <3>1. entries' = With(entries, folder, m) /\ hashes' = hashes
      BY <1>9, <2>4 DEF RenameEntry
    <3> DEFINE same == hashes[folder]
    <3>2. folder \in DOMAIN hashes => DOMAIN m \subseteq same
      BY <1>0
    <3>3. \/ hashes' = Hashed(same)
          \/ hashes' = hashes /\ (folder \in DOMAIN hashes => hashes[folder] = same)
      BY <3>1
    <3> HIDE DEF same, m
    <3> QED
      BY <2>1, <2>2, <3>1, <3>2, <3>3, DigestUpdate
  <2> QED
    BY <2>3, <2>4
<1>10. CASE UNCHANGED vars
  BY <1>10 DEF vars, DigestInv, Covered, Bare, Listed
<1> QED
  BY <1>1, <1>2, <1>3, <1>4, <1>5, <1>6, <1>7, <1>8, <1>9, <1>10 DEF Next

\* For any folders and names, an open wallet denies an entry it has only while the
\* entry's whole folder has no digest, and such a folder was made by writing into it
\* or while the object was closed: kwalletbackend.cc keeps the digests of names up
\* by hand in every call that changes entries, and reads them from the file apart.
THEOREM NeverDeniesAnEntryHolds == Spec => []NeverDeniesAnEntry
  BY DigestInit, DigestStep, CoveredNeverDenies, PTL DEF Spec

-----------------------------------------------------------------------------
(* Digests of passwords *)

LEMMA Division ==
  ASSUME NEW a \in Nat, NEW b \in Nat \ {0}
  PROVE  /\ a \div b \in Nat
         /\ (a \div b) * b <= a
         /\ a < (a \div b) * b + b
  BY SMT

\* How many blocks a password has, and how long it must be for that.
LEMMA BlockCount ==
  ASSUME NEW n \in Nat \ {0}, NEW b \in Nat \ {0},
         NEW c, c = Smaller(4, 1 + (n - 1) \div b)
  PROVE  \/ c = 1 /\ n <= b
         \/ c = 2 /\ b < n /\ n <= 2 * b
         \/ c = 3 /\ 2 * b < n /\ n <= 3 * b
         \/ c = 4 /\ 3 * b < n
<1> DEFINE d == (n - 1) \div b
<1>1. d \in Nat /\ d * b <= n - 1 /\ n - 1 < d * b + b
  BY Division
<1>2. c = Smaller(4, 1 + d)
  OBVIOUS
<1> HIDE DEF d
<1>3. CASE d = 0
  BY <1>1, <1>2, <1>3 DEF Smaller
<1>4. CASE d = 1
  BY <1>1, <1>2, <1>4 DEF Smaller
<1>5. CASE d = 2
  BY <1>1, <1>2, <1>5 DEF Smaller
<1>6. CASE d >= 3
  <2>1. 3 * b <= d * b
    BY <1>1, <1>6
  <2>2. d * b \in Nat
    BY <1>1
  <2> QED
    BY <1>1, <1>2, <1>6, <2>1, <2>2 DEF Smaller
<1> QED
  BY <1>1, <1>3, <1>4, <1>5, <1>6

\* A stretch of a password, and the characters in it.
LEMMA Stretch ==
  ASSUME NEW p \in Seq(Nat), NEW a \in Nat, NEW z \in Nat, a <= z, z <= Len(p)
  PROVE  /\ Len(SubSeq(p, a + 1, z)) = z - a
         /\ \A j \in 1 .. z - a : SubSeq(p, a + 1, z)[j] = p[a + j]
<1>1. \A i \in a + 1 .. z : p[i] \in Nat
  BY SMT
<1>2. a + 1 \in Int /\ z \in Int
  OBVIOUS
<1>3. /\ Len(SubSeq(p, a + 1, z)) = IF a + 1 <= z THEN z - (a + 1) + 1 ELSE 0
      /\ \A i \in 1 .. z - (a + 1) + 1 : SubSeq(p, a + 1, z)[i] = p[(a + 1) + i - 1]
  BY ONLY <1>1, <1>2, SubSeqProperties
<1> QED
  BY <1>3

\* A password of c blocks can be read off its hash: the last block tells how
\* long it is, and those before it are full.
Readable(p, h, c) ==
  /\ DOMAIN h = 1 .. c /\ Len(h[c]) \in Nat
  /\ Len(p) = (c - 1) * Block + Len(h[c])
  /\ \A i \in 1 .. c - 1 : \A j \in 1 .. Block : p[(i - 1) * Block + j] = h[i][j]
  /\ \A j \in 1 .. Len(h[c]) : p[(c - 1) * Block + j] = h[c][j]

LEMMA HashReadable ==
  ASSUME KWalletAssumption, NEW p \in Seq(Nat)
  PROVE  \E c \in 1 .. 4 : Readable(p, Password2Hash(p), c)
<1> DEFINE h == Password2Hash(p)
           n == Len(p)
           c == Smaller(4, 1 + (n - 1) \div Block)
<1>0. Block \in Nat \ {0} /\ n \in Nat
  BY DEF KWalletAssumption
<1>1. CASE p = <<>>
  <2>1. h = << <<>> >>
    BY <1>1 DEF Password2Hash
  <2>2. DOMAIN h = 1 .. 1 /\ h[1] = <<>> /\ Len(<<>>) = 0 /\ n = 0
    BY <1>1, <2>1
  <2> HIDE DEF h
  <2>3. Readable(p, h, 1)
    BY <1>0, <2>2 DEF Readable
  <2> QED
    BY <2>3 DEF h
<1>2. CASE p # <<>>
  <2>1. n \in Nat \ {0}
    BY <1>0, <1>2, EmptySeq
  <2>2. h = [i \in 1 .. c |-> SubSeq(p, (i - 1) * Block + 1, IF i = 4 THEN n ELSE Smaller(i * Block, n))]
    BY <1>2 DEF Password2Hash
  <2> HIDE DEF h
  <2>3. \/ c = 1 /\ n <= Block
        \/ c = 2 /\ Block < n /\ n <= 2 * Block
        \/ c = 3 /\ 2 * Block < n /\ n <= 3 * Block
        \/ c = 4 /\ 3 * Block < n
    BY <1>0, <2>1, BlockCount
  <2> HIDE DEF c, n
  <2>4. ASSUME NEW i \in 1 .. c, i < c
        PROVE  /\ Len(h[i]) = Block
               /\ \A j \in 1 .. Block : h[i][j] = p[(i - 1) * Block + j]
    <3> DEFINE a == (i - 1) * Block
    <3>0. i \in 1 .. 3 /\ i # 4
      BY <2>3, <2>4
    <3>1. /\ a \in Nat /\ i * Block = a + Block /\ i * Block <= n
          /\ h[i] = SubSeq(p, a + 1, a + Block)
      <4>1. a \in Nat /\ i * Block = a + Block
        BY <1>0, <3>0
      <4>2. i * Block <= n
        <5>1. CASE i = 1
          BY <1>0, <2>3, <2>4, <5>1
        <5>2. CASE i = 2
          BY <1>0, <2>3, <2>4, <5>2
        <5>3. CASE i = 3
          BY <1>0, <2>3, <2>4, <5>3
        <5> QED
          BY <3>0, <5>1, <5>2, <5>3
      <4>3. h[i] = SubSeq(p, a + 1, Smaller(i * Block, n))
        BY <2>2, <3>0
      <4> HIDE DEF a
      <4>4. Smaller(i * Block, n) = a + Block
        BY <1>0, <4>1, <4>2 DEF Smaller
      <4> QED
        BY <4>1, <4>2, <4>3, <4>4
    <3> HIDE DEF a
    <3>2. a + Block \in Nat /\ a <= a + Block /\ a + Block <= Len(p) /\ (a + Block) - a = Block
      BY <1>0, <3>1 DEF n
    <3>3. /\ Len(SubSeq(p, a + 1, a + Block)) = Block
          /\ \A j \in 1 .. Block : SubSeq(p, a + 1, a + Block)[j] = p[a + j]
      BY <3>1, <3>2, Stretch
    <3> QED
      BY <3>1, <3>3 DEF a
  <2>5. /\ Len(h[c]) = n - (c - 1) * Block
        /\ \A j \in 1 .. Len(h[c]) : h[c][j] = p[(c - 1) * Block + j]
    <3> DEFINE a == (c - 1) * Block
    <3>0. c \in 1 .. c
      BY <2>3
    <3>1. a \in Nat /\ a <= n /\ h[c] = SubSeq(p, a + 1, n)
      <4>1. a \in Nat /\ a <= n
        BY <1>0, <2>3
      <4>2. h[c] = SubSeq(p, a + 1, IF c = 4 THEN n ELSE Smaller(c * Block, n))
        BY <2>2, <3>0
      <4>3. c # 4 => Smaller(c * Block, n) = n
        BY <1>0, <2>3 DEF Smaller
      <4> QED
        BY <4>1, <4>2, <4>3
    <3> HIDE DEF a
    <3>2. /\ Len(SubSeq(p, a + 1, n)) = n - a
          /\ \A j \in 1 .. n - a : SubSeq(p, a + 1, n)[j] = p[a + j]
      BY <1>0, <3>1, Stretch DEF n
    <3> QED
      BY <3>1, <3>2 DEF a
  <2>6. c \in 1 .. 4 /\ DOMAIN h = 1 .. c
    BY <2>2, <2>3
  <2>7. n = (c - 1) * Block + Len(h[c])
    BY <1>0, <2>3, <2>5
  <2>8. Len(h[c]) \in Nat
    BY <1>0, <2>3, <2>5
  <2>9. Readable(p, h, c)
    BY <2>4, <2>5, <2>6, <2>7, <2>8 DEF Readable, n
  <2> QED
    BY <2>6, <2>9 DEF h
<1> QED
  BY <1>1, <1>2

\* Two passwords have different blocks, however long they are.
LEMMA HashInjective ==
  ASSUME KWalletAssumption, NEW p \in Seq(Nat), NEW q \in Seq(Nat),
         Password2Hash(p) = Password2Hash(q)
  PROVE  p = q
<1> DEFINE h == Password2Hash(p)
<1>0. Block \in Nat \ {0}
  BY DEF KWalletAssumption
<1>1. PICK c \in 1 .. 4 : Readable(p, h, c)
  BY HashReadable
<1>2. PICK d \in 1 .. 4 : Readable(q, h, d)
  BY HashReadable
<1> HIDE DEF h
<1>3. c = d
  BY <1>1, <1>2 DEF Readable
<1>4. Len(p) = Len(q)
  BY <1>1, <1>2, <1>3 DEF Readable
<1>5. ASSUME NEW k \in 1 .. Len(p) PROVE p[k] = q[k]
  <2>1. ASSUME NEW i \in 1 .. c - 1, NEW j \in 1 .. Block, k = (i - 1) * Block + j PROVE p[k] = q[k]
    BY <1>1, <1>2, <1>3, <2>1 DEF Readable
  <2>2. ASSUME NEW j \in 1 .. Len(h[c]), k = (c - 1) * Block + j PROVE p[k] = q[k]
    BY <1>1, <1>2, <1>3, <2>2 DEF Readable
  <2>3. Len(p) = (c - 1) * Block + Len(h[c]) /\ Len(p) \in Nat /\ Len(h[c]) \in Nat
    BY <1>1 DEF Readable
  <2>4. CASE k > (c - 1) * Block
    <3> DEFINE a == (c - 1) * Block
    <3>1. a \in Nat
      BY <1>0
    <3>2. Len(p) = a + Len(h[c]) /\ k > a
      BY <2>3, <2>4
    <3> HIDE DEF a
    <3>3. k - a \in 1 .. Len(h[c]) /\ k = a + (k - a)
      BY <2>3, <3>1, <3>2
    <3> QED
      BY <2>2, <3>3 DEF a
  <2>5. CASE k <= (c - 1) * Block
    <3>1. \E i \in 1 .. c - 1 : (i - 1) * Block < k /\ k <= i * Block
      <4>1. CASE k <= Block
        <5>1. c # 1
          BY <1>0, <2>5
        <5>2. 1 \in 1 .. c - 1 /\ (1 - 1) * Block < k /\ k <= 1 * Block
          BY <1>0, <4>1, <5>1
        <5> QED
          BY <5>2
      <4>2. CASE Block < k /\ k <= 2 * Block
        BY <1>0, <2>5, <4>2
      <4>3. CASE 2 * Block < k
        BY <1>0, <2>5, <4>3
      <4> QED
        BY <1>0, <4>1, <4>2, <4>3
    <3>2. PICK i \in 1 .. c - 1 : (i - 1) * Block < k /\ k <= i * Block
      BY <3>1
    <3>3. k - (i - 1) * Block \in 1 .. Block /\ k = (i - 1) * Block + (k - (i - 1) * Block)
      BY <1>0, <3>2
    <3> QED
      BY <2>1, <3>3
  <2> QED
    BY <1>0, <2>4, <2>5
<1> QED
  BY <1>4, <1>5, SeqEqual

-----------------------------------------------------------------------------
(* Opening *)

\* An open object and a file keep a password beside its hash; a closed object
\* has no folder but those made since it was closed.
OpenInv ==
  /\ open \in BOOLEAN /\ (open \/ DOMAIN entries \subseteq made)
  /\ open => password \in Passwords /\ passhash = Password2Hash(password)
  /\ entries = [f \in DOMAIN entries |-> entries[f]]
  /\ IsWallet => /\ file.password \in Passwords /\ file.passhash = Password2Hash(file.password)
                 /\ file.entries = [f \in DOMAIN file.entries |-> file.entries[f]]

LEMMA OpenInit == Init => OpenInv
  BY EmptyShape DEF Init, OpenInv, IsWallet, NoWallets, Empty

\* What sync() and the creation of a wallet write is a wallet like any other.
LEMMA ImageInv ==
  ASSUME NEW p \in Passwords, NEW h, h = Password2Hash(p),
         entries = [f \in DOMAIN entries |-> entries[f]], file' = Image(h, p)
  PROVE  /\ file'.password \in Passwords /\ file'.passhash = Password2Hash(file'.password)
         /\ file'.entries = [f \in DOMAIN file'.entries |-> file'.entries[f]]
<1>1. file'.password = p /\ file'.passhash = h /\ file'.entries = entries
  BY DEF Image
<1> QED
  BY <1>1

LEMMA WithFunction ==
  ASSUME NEW m, NEW k, NEW v
  PROVE  With(m, k, v) = [x \in DOMAIN With(m, k, v) |-> With(m, k, v)[x]]
  BY DEF With

LEMMA OpenPreserves ==
  ASSUME OpenInv, Open
  PROVE  OpenInv'
<1>1. PICK p \in Passwords : ~open /\ OpenInternal(p) /\ made' = made
  BY DEF Open
<1>2. password' = p /\ passhash' = Password2Hash(p)
  BY <1>1 DEF OpenInternal
<1>3. CASE CreateWallet(Password2Hash(p), p)
  <2>1. open' = TRUE /\ entries' = entries
    BY <1>3 DEF CreateWallet
  <2>2. CASE file' = Image(Password2Hash(p), p)
    BY <1>1, <1>2, <2>1, <2>2, ImageInv DEF OpenInv
  <2>3. CASE file' = [kind |-> "short"]
    BY <1>1, <1>2, <2>1, <2>3 DEF OpenInv, IsWallet
  <2> QED
    BY <1>3, <2>2, <2>3 DEF CreateWallet
<1>4. CASE LoadWallet(Password2Hash(p))
  <2>1. file' = file
    BY <1>4 DEF LoadWallet
  <2>2. CASE file.passhash = Password2Hash(p)
    BY <1>1, <1>2, <1>4, <2>1, <2>2 DEF LoadWallet, OpenInv, IsWallet
  <2>3. CASE file.passhash # Password2Hash(p)
    BY <1>1, <1>2, <1>4, <2>1, <2>3 DEF LoadWallet, OpenInv, IsWallet
  <2> QED
    BY <2>2, <2>3
<1>5. CASE RefuseFile
  BY <1>1, <1>5 DEF RefuseFile, OpenInv, IsWallet
<1> QED
  BY <1>1, <1>3, <1>4, <1>5 DEF OpenInternal

LEMMA OpenStep == OpenInv /\ [Next]_vars => OpenInv'
<1> SUFFICES ASSUME OpenInv, [Next]_vars PROVE OpenInv'
  OBVIOUS
<1> USE DEF OpenInv, IsWallet
<1>1. CASE Open
  BY <1>1, OpenPreserves
<1>2. CASE Sync
  <2>1. file' = Image(passhash, password) /\ password \in Passwords /\ passhash = Password2Hash(password)
    BY <1>2 DEF Sync
  <2> QED
    BY <1>2, <2>1, ImageInv DEF Sync
<1>3. CASE Close
  <2>1. open' = FALSE /\ entries' = Empty
    BY <1>3 DEF Close, Cleared
  <2>2. CASE file' = file
    BY <2>1, <2>2, EmptyShape DEF Empty
  <2>3. CASE open /\ file' = Image(passhash, password)
    BY <2>1, <2>3, EmptyShape, ImageInv DEF Empty
  <2> QED
    BY <1>3, <2>2, <2>3 DEF Close
<1>4. CASE SetPassword
  BY <1>4 DEF SetPassword
<1>5. CASE SetFolder
  BY <1>5 DEF SetFolder
<1>6. ASSUME NEW f \in Folders, CreateFolder(f) PROVE OpenInv'
  BY <1>6, WithFunction DEF CreateFolder, With
<1>7. ASSUME NEW f \in Folders, RemoveFolder(f) PROVE OpenInv'
  BY <1>7 DEF RemoveFolder, Without, Restrict
<1>8. ASSUME NEW k \in Keys, RemoveEntry(k) PROVE OpenInv'
  BY <1>8 DEF RemoveEntry, With
<1>9. ASSUME NEW k \in Keys, NEW v \in Values, WriteEntry(k, v) PROVE OpenInv'
  BY <1>9 DEF WriteEntry, MadeByWriting, With
<1>10. ASSUME NEW k \in Keys, NEW n \in Keys, RenameEntry(k, n) PROVE OpenInv'
  <2>1. \E m : entries' = With(entries, folder, m)
    BY <1>10 DEF RenameEntry
  <2>2. entries' = [x \in DOMAIN entries' |-> entries'[x]]
    BY <2>1 DEF With
  <2>3. open' = open /\ made' = MadeByWriting /\ UNCHANGED <<passhash, file, password>>
    BY <1>10 DEF RenameEntry
  <2>4. DOMAIN entries' = DOMAIN entries \cup {folder}
    BY <2>1 DEF With
  <2> QED
    BY <2>2, <2>3, <2>4 DEF MadeByWriting
<1>11. CASE FileLost
  BY <1>11 DEF FileLost
<1>12. CASE UNCHANGED vars
  BY <1>12 DEF vars
<1> QED
  BY <1>1, <1>2, <1>3, <1>4, <1>5, <1>6, <1>7, <1>8, <1>9, <1>10, <1>11, <1>12 DEF Next

OpensRight ==
  ~open /\ open' /\ IsWallet => password' = file.password /\ (made = {} => entries' = file.entries)

LEMMA OpensRightStep ==
  ASSUME KWalletAssumption, OpenInv, [Next]_vars
  PROVE  OpensRight
<1> SUFFICES ASSUME ~open, open', IsWallet
             PROVE  password' = file.password /\ (made = {} => entries' = file.entries)
  BY DEF OpensRight
<1>1. CASE Open
  <2>1. PICK p \in Passwords : OpenInternal(p)
    BY <1>1 DEF Open
  <2>2. LoadWallet(Password2Hash(p))
    BY <2>1 DEF OpenInternal, CreateWallet, RefuseFile, IsWallet
  <2>3. file.passhash = Password2Hash(p)
    BY <2>2 DEF LoadWallet
  <2>4. file.password \in Passwords /\ Password2Hash(file.password) = Password2Hash(p)
    BY <2>3 DEF OpenInv
  <2>5. file.password = p
    BY <2>4, HashInjective DEF KWalletAssumption
  <2>6. made = {} => DOMAIN entries = {}
    BY DEF OpenInv
  <2>7. entries' = [f \in DOMAIN file.entries \cup DOMAIN entries |->
                     IF f \in DOMAIN file.entries THEN file.entries[f] ELSE entries[f]]
    BY <2>2, <2>3 DEF LoadWallet
  <2>8. made = {} => entries' = file.entries
    BY <2>6, <2>7 DEF OpenInv
  <2> QED
    BY <2>1, <2>5, <2>8 DEF OpenInternal
<1>2. CASE ~Open
  BY <1>2 DEF Next, vars, Sync, Close, SetPassword, SetFolder, CreateFolder, RemoveFolder,
              RemoveEntry, WriteEntry, RenameEntry, FileLost
<1> QED
  BY <1>1, <1>2

\* A wallet only opens with the password it was saved with, of any length and
\* for any block size, and gives what was saved in it (kwalletbackend.cc
\* compares hashes of blocks, and reads the entries over those it still has).
THEOREM OpensAsSavedHolds ==
  ASSUME KWalletAssumption
  PROVE  Spec => OpensAsSaved
<1>1. OpenInv /\ [Next]_vars => OpensRight
  BY OpensRightStep
<1>2. OpensAsSaved <=> [][OpensRight]_vars
  BY PTL DEF OpensAsSaved, OpensRight
<1> QED
  BY OpenInit, OpenStep, <1>1, <1>2, PTL DEF Spec

-----------------------------------------------------------------------------
(* Types *)

LEMMA MapsShape ==
  ASSUME NEW D, NEW R, NEW m
  PROVE  m \in Maps(D, R) <=> /\ m = [x \in DOMAIN m |-> m[x]] /\ DOMAIN m \subseteq D
                              /\ \A x \in DOMAIN m : m[x] \in R
  BY DEF Maps

LEMMA EmptyMap ==
  ASSUME NEW D, NEW R
  PROVE  Empty \in Maps(D, R)
  BY DEF Maps, Empty

LEMMA WithMap ==
  ASSUME NEW D, NEW R, NEW m \in Maps(D, R), NEW k \in D, NEW v \in R
  PROVE  With(m, k, v) \in Maps(D, R)
<1>1. With(m, k, v) = [x \in DOMAIN With(m, k, v) |-> With(m, k, v)[x]]
  BY WithFunction
<1>2. DOMAIN m \subseteq D /\ \A x \in DOMAIN m : m[x] \in R
  BY MapsShape
<1>3. /\ DOMAIN With(m, k, v) = DOMAIN m \cup {k} /\ With(m, k, v)[k] = v
      /\ \A x \in DOMAIN m : x # k => With(m, k, v)[x] = m[x]
  BY DEF With
<1>4. DOMAIN With(m, k, v) \subseteq D /\ \A x \in DOMAIN With(m, k, v) : With(m, k, v)[x] \in R
  BY <1>2, <1>3
<1> QED
  BY <1>1, <1>4, MapsShape

LEMMA WithoutMap ==
  ASSUME NEW D, NEW R, NEW m \in Maps(D, R), NEW k
  PROVE  Without(m, k) \in Maps(D, R)
<1>1. Without(m, k) = [x \in DOMAIN Without(m, k) |-> Without(m, k)[x]]
  BY DEF Without, Restrict
<1>2. DOMAIN m \subseteq D /\ \A x \in DOMAIN m : m[x] \in R
  BY MapsShape
<1>3. /\ DOMAIN Without(m, k) = DOMAIN m \ {k}
      /\ \A x \in DOMAIN m : x # k => Without(m, k)[x] = m[x]
  BY WithoutShape
<1>4. DOMAIN Without(m, k) \subseteq D /\ \A x \in DOMAIN Without(m, k) : Without(m, k)[x] \in R
  BY <1>2, <1>3
<1> QED
  BY <1>1, <1>4, MapsShape

\* The entries of the current folder, or those of a folder not yet there.
LEMMA CurrentType == TypeOK => CurrentMap \in EntryMaps
<1> SUFFICES ASSUME TypeOK PROVE CurrentMap \in EntryMaps
  OBVIOUS
<1>1. CASE folder \in DOMAIN entries
  BY <1>1, MapsShape DEF TypeOK, CurrentMap
<1>2. CASE folder \notin DOMAIN entries
  BY <1>2, EmptyMap DEF CurrentMap, EntryMaps
<1> QED
  BY <1>1, <1>2

LEMMA HashedType ==
  ASSUME TypeOK, NEW ks \in SUBSET Keys
  PROVE  Hashed(ks) \in Maps(Folders, SUBSET Keys)
<1>1. CASE folder \in DOMAIN hashes
  <2>1. Hashed(ks) = [hashes EXCEPT ![folder] = ks]
    BY <1>1 DEF Hashed
  <2>2. hashes = [x \in DOMAIN hashes |-> hashes[x]] /\ DOMAIN hashes \subseteq Folders
        /\ \A x \in DOMAIN hashes : hashes[x] \in SUBSET Keys
    BY MapsShape DEF TypeOK
  <2>3. /\ DOMAIN Hashed(ks) = DOMAIN hashes
        /\ Hashed(ks) = [x \in DOMAIN Hashed(ks) |-> Hashed(ks)[x]]
        /\ \A x \in DOMAIN hashes : Hashed(ks)[x] = IF x = folder THEN ks ELSE hashes[x]
    BY <2>1, <2>2
  <2> QED
    BY <2>2, <2>3, MapsShape
<1>2. CASE folder \notin DOMAIN hashes
  BY <1>2 DEF Hashed, TypeOK
<1> QED
  BY <1>1, <1>2

\* The digests of the current folder, if there are any.
LEMMA DigestsType ==
  ASSUME TypeOK
  PROVE  (IF folder \in DOMAIN hashes THEN hashes[folder] ELSE {}) \in SUBSET Keys
  BY MapsShape DEF TypeOK

\* What is written, and by whom, is a wallet: it needs a password beside the hash.
LEMMA ImageType ==
  ASSUME TypeOK, NEW p \in Passwords
  PROVE  Image(Password2Hash(p), p) \in WalletFiles
  BY DEF TypeOK, Image, WalletFiles

LEMMA OpenType ==
  ASSUME TypeOK, Open
  PROVE  TypeOK'
<1>1. PICK p \in Passwords : OpenInternal(p) /\ UNCHANGED <<folder, made>>
  BY DEF Open
<1>2. /\ password' \in Passwords \cup {<<>>} /\ folder' \in Folders /\ made' \subseteq Folders
      /\ passhash' \in {Password2Hash(q) : q \in Passwords} \cup {<<>>}
  BY <1>1 DEF OpenInternal, TypeOK
<1>3. CASE CreateWallet(Password2Hash(p), p)
  <2>1. open' = TRUE /\ UNCHANGED <<entries, hashes>>
    BY <1>3 DEF CreateWallet
  <2>2. file' \in NoWallets \cup WalletFiles
    BY <1>3, ImageType DEF CreateWallet, NoWallets
  <2> QED
    BY <1>2, <2>1, <2>2 DEF TypeOK
<1>4. CASE LoadWallet(Password2Hash(p))
  <2>1. file' = file /\ file \in WalletFiles
    BY <1>4 DEF LoadWallet, IsWallet, TypeOK, NoWallets
  <2>2. PICK es \in Maps(Folders, EntryMaps) : es = file.entries
    BY <2>1 DEF WalletFiles
  <2>3. /\ DOMAIN es \subseteq Folders /\ \A f \in DOMAIN es : es[f] \in EntryMaps
        /\ DOMAIN entries \subseteq Folders /\ \A f \in DOMAIN entries : entries[f] \in EntryMaps
    BY <2>2, MapsShape DEF TypeOK
  <2>4. hashes' \in Maps(Folders, SUBSET Keys)
    <3>1. hashes' = [f \in DOMAIN es |-> DOMAIN es[f]]
      BY <1>4, <2>2 DEF LoadWallet, NameDigests
    <3>2. \A f \in DOMAIN es : DOMAIN es[f] \in SUBSET Keys
      BY <2>3, MapsShape DEF EntryMaps
    <3> QED
      BY <2>3, <3>1, <3>2, MapsShape
  <2>5. entries' \in Maps(Folders, EntryMaps) /\ open' \in BOOLEAN
    <3>1. CASE file.passhash = Password2Hash(p)
      <4>1. entries' = [f \in DOMAIN es \cup DOMAIN entries |-> IF f \in DOMAIN es THEN es[f] ELSE entries[f]]
            /\ open' = TRUE
        BY <1>4, <2>2, <3>1 DEF LoadWallet
      <4>2. DOMAIN entries' \subseteq Folders /\ \A f \in DOMAIN entries' : entries'[f] \in EntryMaps
        BY <2>3, <4>1
      <4>3. entries' = [f \in DOMAIN entries' |-> entries'[f]]
        BY <4>1
      <4>4. entries' \in Maps(Folders, EntryMaps)
        BY <4>2, <4>3, MapsShape
      <4> QED
        BY <4>1, <4>4
    <3>2. CASE file.passhash # Password2Hash(p)
      BY <1>4, <3>2 DEF LoadWallet, TypeOK
    <3> QED
      BY <3>1, <3>2
  <2> QED
    BY <1>2, <2>1, <2>4, <2>5 DEF TypeOK
<1>5. CASE RefuseFile
  BY <1>2, <1>5 DEF RefuseFile, TypeOK
<1> QED
  BY <1>1, <1>3, <1>4, <1>5 DEF OpenInternal

\* The actions on folders and entries change nothing else but `made'.
LEMMA ContentsType ==
  ASSUME TypeOK, entries' \in Maps(Folders, EntryMaps), hashes' \in Maps(Folders, SUBSET Keys),
         folder' \in Folders, made' \subseteq Folders, UNCHANGED <<open, passhash, file, password>>
  PROVE  TypeOK'
  BY DEF TypeOK

LEMMA TypeStep ==
  ASSUME KWalletAssumption, TypeOK, OpenInv, [Next]_vars
  PROVE  TypeOK'
<1>1. CASE Open
  BY <1>1, OpenType
<1>2. CASE Sync
  <2>1. password \in Passwords /\ file' = Image(Password2Hash(password), password)
    BY <1>2 DEF Sync, OpenInv
  <2>2. file' \in WalletFiles
    BY <2>1, ImageType
  <2> QED
    BY <1>2, <2>2 DEF Sync, TypeOK
<1>3. CASE Close
  <2>1. file' \in NoWallets \cup WalletFiles
    <3>1. CASE open /\ file' = Image(passhash, password)
      BY <3>1, ImageType DEF OpenInv
    <3> QED
      BY <1>3, <3>1 DEF Close, TypeOK
  <2>2. entries' \in Maps(Folders, EntryMaps)
    BY <1>3, EmptyMap DEF Close, Cleared
  <2> QED
    BY <1>3, <2>1, <2>2 DEF Close, TypeOK
<1>4. CASE SetPassword
  BY <1>4 DEF SetPassword, TypeOK
<1>5. CASE SetFolder
  BY <1>5 DEF SetFolder, TypeOK
<1>6. ASSUME NEW f \in Folders, CreateFolder(f) PROVE TypeOK'
  <2>1. Empty \in EntryMaps /\ {} \in SUBSET Keys
    BY EmptyMap DEF EntryMaps
  <2>2. entries' \in Maps(Folders, EntryMaps) /\ hashes' \in Maps(Folders, SUBSET Keys)
    BY <1>6, <2>1, WithMap DEF CreateFolder, TypeOK
  <2> QED
    BY <1>6, <2>2, ContentsType DEF CreateFolder, TypeOK
<1>7. ASSUME NEW f \in Folders, RemoveFolder(f) PROVE TypeOK'
  <2>1. entries' \in Maps(Folders, EntryMaps) /\ hashes' \in Maps(Folders, SUBSET Keys)
    BY <1>7, WithoutMap DEF RemoveFolder, TypeOK
  <2> QED
    BY <1>7, <2>1, ContentsType DEF RemoveFolder, TypeOK, KWalletAssumption
<1>8. ASSUME NEW k \in Keys, RemoveEntry(k) PROVE TypeOK'
  <2>1. entries[folder] \in EntryMaps
    BY <1>8, MapsShape DEF RemoveEntry, TypeOK
  <2>2. Without(entries[folder], k) \in EntryMaps
    BY <2>1, WithoutMap DEF EntryMaps
  <2>3. entries' \in Maps(Folders, EntryMaps)
    BY <1>8, <2>2, WithMap DEF RemoveEntry, TypeOK
  <2>4. hashes' \in Maps(Folders, SUBSET Keys)
    BY <1>8, DigestsType, HashedType DEF RemoveEntry
  <2> QED
    BY <1>8, <2>3, <2>4, ContentsType DEF RemoveEntry, TypeOK
<1>9. ASSUME NEW k \in Keys, NEW v \in Values, WriteEntry(k, v) PROVE TypeOK'
  <2>1. With(CurrentMap, k, v) \in EntryMaps
    BY CurrentType, WithMap DEF EntryMaps
  <2>2. entries' \in Maps(Folders, EntryMaps)
    BY <1>9, <2>1, WithMap DEF WriteEntry, TypeOK
  <2>3. hashes' \in Maps(Folders, SUBSET Keys)
    BY <1>9, DigestsType, HashedType DEF WriteEntry
  <2> QED
    BY <1>9, <2>2, <2>3, ContentsType DEF WriteEntry, MadeByWriting, TypeOK
<1>10. ASSUME NEW k \in Keys, NEW n \in Keys, RenameEntry(k, n) PROVE TypeOK'
  <2>1. PICK m : m = CurrentMap
    OBVIOUS
  <2>2. m \in EntryMaps
    BY <2>1, CurrentType
  <2>3. PICK r : r = (k \in DOMAIN m /\ n \notin DOMAIN m)
    OBVIOUS
  <2>4. (IF r THEN With(Without(m, k), n, m[k]) ELSE m) \in EntryMaps
    <3>1. CASE r
      <4>1. m[k] \in Values
        BY <2>2, <2>3, <3>1, MapsShape DEF EntryMaps
      <4>2. Without(m, k) \in EntryMaps
        BY <2>2, WithoutMap DEF EntryMaps
      <4>3. With(Without(m, k), n, m[k]) \in EntryMaps
        BY <4>1, <4>2, WithMap DEF EntryMaps
      <4> QED
        BY <3>1, <4>3
    <3> QED
      BY <2>2, <3>1
  <2>5. entries' \in Maps(Folders, EntryMaps)
    <3>1. entries' = With(entries, folder, IF r THEN With(Without(m, k), n, m[k]) ELSE m)
      BY <1>10, <2>1, <2>3 DEF RenameEntry
    <3> QED
      BY <2>4, <3>1, WithMap DEF TypeOK
  <2>6. hashes' \in Maps(Folders, SUBSET Keys)
    <3>1. CASE r /\ folder \in DOMAIN hashes
      <4>1. hashes' = Hashed((hashes[folder] \ {k}) \cup {n})
        BY <1>10, <2>1, <2>3, <3>1 DEF RenameEntry
      <4>2. (hashes[folder] \ {k}) \cup {n} \in SUBSET Keys
        BY <3>1, DigestsType
      <4> QED
        BY <4>1, <4>2, HashedType
    <3>2. CASE ~(r /\ folder \in DOMAIN hashes)
      BY <1>10, <2>1, <2>3, <3>2 DEF RenameEntry, TypeOK
    <3> QED
      BY <3>1, <3>2
  <2> QED
    BY <1>10, <2>5, <2>6, ContentsType DEF RenameEntry, MadeByWriting, TypeOK
<1>11. CASE FileLost
  BY <1>11 DEF FileLost, TypeOK, NoWallets
<1>12. CASE UNCHANGED vars
  BY <1>12 DEF vars, TypeOK
<1> QED
  BY <1>1, <1>2, <1>3, <1>4, <1>5, <1>6, <1>7, <1>8, <1>9, <1>10, <1>11, <1>12 DEF Next

\* Every variable of the wallet keeps its type. That what sync() and close()
\* write is a wallet file needs OpenInv: an open object has a password.
THEOREM WalletTypes ==
  ASSUME KWalletAssumption
  PROVE  Spec => []TypeOK
<1>1. Init => TypeOK
  BY EmptyMap DEF Init, TypeOK, KWalletAssumption
<1>2. TypeOK /\ OpenInv /\ [Next]_vars => TypeOK'
  BY TypeStep
<1> QED
  BY <1>1, <1>2, OpenInit, OpenStep, PTL DEF Spec
=============================================================================
