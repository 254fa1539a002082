------------------------- MODULE WalletImportProofs -------------------------
(***************************************************************************)
(* Proofs about kwl2kss: what an import copies, when the utility quits, and *)
(* that a killed job is quiet. Each job is a chain of posted slots, calls   *)
(* and one dialog, of which at most one is under way until the user resumes *)
(* the job too early; everything else rests on that.                        *)
(***************************************************************************)
EXTENDS WalletImport, SequenceTheorems, FiniteSetTheorems, TLAPS

\* What is posted to w's job in the queue q, its own deletion aside.
PostedTo(q, w) == {i \in DOMAIN q : q[i].job = w /\ q[i].slot # "delete"}

SlotsOf(q, w) == {q[i].slot : i \in PostedTo(q, w)}

Once(q, w) == \A i, j \in PostedTo(q, w) : i = j

Asking(w) == w \in ToSet(dialogs)

Early == {"checkImportNeeded", "run", "onWalletOpened"}

Late == {"processCurrentFolder", "processNextEntry", "processNextFolder"}

FolderNames(w) == ToSet(FolderList(w))

\* The wallet is not open yet: its marker, its file or its password is looked at.
Opening(w) ==
  \/ SlotsOf(posted, w) \cap Early # {} \/ Asking(w)
  \/ \E k \in DOMAIN calls[w] : calls[w][k].op # "create"

\* For every job, raced or not: what a job in a folder has got, and what is
\* behind it once its first folder is done - only then can a click reach it.
Begun(w) ==
  /\ job[w].status # "Initializing" => ~Opening(w) /\ job[w].folder # None
  /\ job[w].killed \/ w \in raced => job[w].status # "Initializing"
  /\ SlotsOf(posted, w) \cap Late # {} => job[w].folder # None
  /\ \A k \in DOMAIN calls[w] : calls[w][k].op = "create" =>
       job[w].folder # None /\ calls[w][k].folder \in Names /\ calls[w][k].entry \in Entries
  /\ job[w].folder # None => job[w].folder \in FolderNames(w)
  /\ ToSet(job[w].folders) \subseteq FolderNames(w)

\* One thing is under way for a job, and nothing after its result.
OneChain(w) ==
  /\ Once(posted, w) /\ Len(calls[w]) <= 1
  /\ SlotsOf(posted, w) # {} => calls[w] = <<>> /\ ~Asking(w)
  /\ calls[w] # <<>> => ~Asking(w)
  /\ Opening(w) => job[w].folder = None
  /\ job[w].results <= 1
  /\ job[w].results = 1 =>
       SlotsOf(posted, w) = {} /\ calls[w] = <<>> /\ ~Asking(w) /\ w \notin ToSet(parent.subjobs)

\* The job goes through its list of entries, where it is between two of them.
InEntries(w) ==
  SlotsOf(posted, w) \cap {"processNextEntry", "processNextFolder"} # {} \/ calls[w] # <<>>

\* What is left to copy once the wallet is open: the folders to come, the rest
\* of the current one - or all of it, when the job will begin it again - and
\* the items that have been sent.
ToCopy(w) ==
  {i \in [folder : Names, entry : Entries] :
     \/ i.folder \in ToSet(job[w].folders)
     \/ i.folder = job[w].folder /\ (InEntries(w) => i.entry \in ToSet(job[w].entries))
     \/ \E k \in DOMAIN calls[w] : i.folder = calls[w][k].folder /\ i.entry = calls[w][k].entry}

Copied(w) ==
  /\ stored[w] \subseteq Whole(w)
  /\ job[w].result = "ok" /\ Marker[w] # "fresh" => Whole(w) \subseteq stored[w]
  /\ InEntries(w) /\ job[w].folder # None => ToSet(job[w].entries) \subseteq ToSet(EntryList(w, job[w].folder))
  /\ "processNextFolder" \in SlotsOf(posted, w) => job[w].entries = <<>>
  /\ \A k \in DOMAIN calls[w] : calls[w][k].op = "create" =>
       calls[w][k].folder = job[w].folder /\ calls[w][k].entry \in ToSet(EntryList(w, job[w].folder))
  /\ job[w].folder # None => Whole(w) \subseteq stored[w] \cup ToCopy(w)

Knows(w) == Begun(w) /\ (w \notin raced => OneChain(w) /\ Copied(w))

\* main() has posted run(), and nothing else has happened in this launch.
Started == posted # <<[job |-> None, slot |-> "run"]>>

Fresh ==
  /\ calls = [w \in Wallets |-> <<>>] /\ dialogs = <<>> /\ job = [w \in Wallets |-> NewJob]
  /\ parent = NewParent /\ app = "running" /\ raced = {}

Whereabouts ==
  /\ Started => \A i \in DOMAIN posted : posted[i].job \in Wallets
  /\ ~Started => Fresh
  /\ IsInjective(dialogs) /\ IsInjective(parent.subjobs)
  /\ raced # {} \/ parent.paused => clicks.pauses > 0

\* A job that is off the list has given its result.
Accounted ==
  /\ Started => \A w \in Wallets : w \in ToSet(parent.subjobs) \/ job[w].result \in {"ok", "failed"}
  /\ app \in {"quitting", "ended"} /\ ~parent.failed => parent.subjobs = <<>>

IInv == TypeOK /\ Whereabouts /\ Accounted /\ \A w \in Wallets : Knows(w)

-----------------------------------------------------------------------------
(* Sequences: the queue, the dialogs, the list of subjobs *)

Events == [job : Wallets \cup {None}, slot : Slots]

LEMMA ToSetIs ==
  ASSUME NEW s, NEW x
  PROVE  x \in ToSet(s) <=> \E i \in DOMAIN s : s[i] = x
  BY DEF ToSet

LEMMA SlotIs ==
  ASSUME NEW q, NEW w, NEW x
  PROVE  x \in SlotsOf(q, w) <=> \E i \in DOMAIN q : q[i].job = w /\ q[i].slot # "delete" /\ q[i].slot = x
  BY DEF SlotsOf, PostedTo

\* What is posted after the oldest event is taken out of the queue.
LEMMA TailPosted ==
  ASSUME NEW q \in Seq(Events), q # <<>>, NEW w
  PROVE  /\ Tail(q) \in Seq(Events)
         /\ Once(q, w) => Once(Tail(q), w)
         /\ SlotsOf(Tail(q), w) \subseteq SlotsOf(q, w)
         /\ Head(q).job # w \/ Head(q).slot = "delete" => SlotsOf(Tail(q), w) = SlotsOf(q, w)
         /\ Head(q).job = w /\ Head(q).slot # "delete" =>
              /\ Head(q).slot \in SlotsOf(q, w) /\ SlotsOf(q, w) \subseteq SlotsOf(Tail(q), w) \cup {Head(q).slot}
              /\ Once(q, w) => SlotsOf(Tail(q), w) = {}
<1>1. /\ Tail(q) \in Seq(Events) /\ Len(Tail(q)) = Len(q) - 1 /\ Len(q) \in Nat \ {0}
      /\ \A i \in 1 .. Len(Tail(q)) : Tail(q)[i] = q[i + 1]
      /\ Head(q) = q[1] /\ DOMAIN q = 1 .. Len(q) /\ DOMAIN Tail(q) = 1 .. Len(Tail(q))
  BY HeadTailProperties, LenProperties, EmptySeq
<1>. HIDE DEF Events
<1>. DEFINE r == Tail(q)
<1>2. \A i \in PostedTo(r, w) : i \in Nat \ {0} /\ i + 1 \in PostedTo(q, w) /\ r[i] = q[i + 1]
  BY <1>1 DEF PostedTo
<1>3. \A i \in PostedTo(q, w) : i \in Nat /\ (i = 1 \/ (i - 1 \in PostedTo(r, w) /\ r[i - 1] = q[i]))
  BY <1>1 DEF PostedTo
<1>4. 1 \in PostedTo(q, w) <=> q[1].job = w /\ q[1].slot # "delete"
  BY <1>1 DEF PostedTo
<1>5. SlotsOf(r, w) \subseteq SlotsOf(q, w)
  BY <1>2 DEF SlotsOf
<1>6. Once(q, w) => Once(r, w)
  BY <1>2 DEF Once
<1>7. 1 \notin PostedTo(q, w) => SlotsOf(q, w) \subseteq SlotsOf(r, w)
  BY <1>3 DEF SlotsOf
<1>8. 1 \in PostedTo(q, w) => q[1].slot \in SlotsOf(q, w)
  BY DEF SlotsOf
<1>9. 1 \in PostedTo(q, w) /\ Once(q, w) => PostedTo(r, w) = {}
  BY <1>2 DEF Once
<1>10. PostedTo(r, w) = {} => SlotsOf(r, w) = {}
  BY DEF SlotsOf
<1>11. SlotsOf(q, w) \subseteq SlotsOf(r, w) \cup {q[1].slot}
  BY <1>3 DEF SlotsOf
<1>. QED  BY <1>1, <1>4, <1>5, <1>6, <1>7, <1>8, <1>9, <1>10, <1>11

\* What is posted after an event is.
LEMMA AppendPosted ==
  ASSUME NEW q \in Seq(Events), NEW e \in Events, NEW w
  PROVE  /\ Append(q, e) \in Seq(Events)
         /\ e.job # w \/ e.slot = "delete" =>
              SlotsOf(Append(q, e), w) = SlotsOf(q, w) /\ (Once(q, w) => Once(Append(q, e), w))
         /\ e.job = w /\ e.slot # "delete" =>
              /\ SlotsOf(Append(q, e), w) = SlotsOf(q, w) \cup {e.slot}
              /\ SlotsOf(q, w) = {} => Once(Append(q, e), w)
<1>. DEFINE r == Append(q, e)
            n == Len(q) + 1
<1>1. /\ r \in Seq(Events) /\ Len(r) = n /\ Len(q) \in Nat /\ DOMAIN q = 1 .. Len(q)
      /\ DOMAIN r = 1 .. n /\ r[n] = e /\ \A i \in 1 .. Len(q) : r[i] = q[i]
  BY AppendProperties, LenProperties
<1>. HIDE DEF r, Events
<1>2. \A i : i \in PostedTo(r, w) <=> i \in PostedTo(q, w) \/ (i = n /\ e.job = w /\ e.slot # "delete")
  BY <1>1 DEF PostedTo
<1>3. \A i \in PostedTo(q, w) : r[i] = q[i]
  BY <1>1 DEF PostedTo
<1>4. e.job # w \/ e.slot = "delete" =>
        SlotsOf(r, w) = SlotsOf(q, w) /\ (Once(q, w) => Once(r, w))
  BY <1>2, <1>3 DEF SlotsOf, Once
<1>5. e.job = w /\ e.slot # "delete" => SlotsOf(r, w) = SlotsOf(q, w) \cup {e.slot}
  <2>. SUFFICES ASSUME e.job = w, e.slot # "delete" PROVE SlotsOf(r, w) = SlotsOf(q, w) \cup {e.slot}
    OBVIOUS
  <2>1. ASSUME NEW x PROVE x \in SlotsOf(r, w) <=> x \in SlotsOf(q, w) \/ x = e.slot
    <3>1. x \in SlotsOf(r, w) <=> \E i \in PostedTo(r, w) : r[i].slot = x
      BY DEF SlotsOf
    <3>2. x \in SlotsOf(q, w) <=> \E i \in PostedTo(q, w) : q[i].slot = x
      BY DEF SlotsOf
    <3>. QED  BY <1>1, <1>2, <1>3, <3>1, <3>2
  <2>. QED  BY <2>1
<1>6. SlotsOf(q, w) = {} => PostedTo(q, w) = {}
  BY DEF SlotsOf
<1>7. SlotsOf(q, w) = {} => Once(r, w)
  BY <1>2, <1>6 DEF Once
<1>. QED  BY <1>1, <1>4, <1>5, <1>7 DEF r

\* What is posted after several events are.
LEMMA ConcatPosted ==
  ASSUME NEW q \in Seq(Events), NEW t \in Seq(Events), NEW w
  PROVE  /\ q \o t \in Seq(Events)
         /\ SlotsOf(q \o t, w) = SlotsOf(q, w) \cup SlotsOf(t, w)
         /\ Once(q, w) /\ SlotsOf(t, w) = {} => Once(q \o t, w)
         /\ Once(t, w) /\ SlotsOf(q, w) = {} => Once(q \o t, w)
<1>. DEFINE r == q \o t
            n == Len(q)
<1>1. /\ r \in Seq(Events) /\ Len(r) = n + Len(t) /\ n \in Nat /\ Len(t) \in Nat
      /\ DOMAIN q = 1 .. n /\ DOMAIN t = 1 .. Len(t) /\ DOMAIN r = 1 .. n + Len(t)
      /\ \A i \in 1 .. n + Len(t) : r[i] = IF i <= n THEN q[i] ELSE t[i - n]
  BY ConcatProperties, LenProperties
<1>. HIDE DEF r, n, Events
<1>2. \A i \in PostedTo(r, w) : \/ i \in PostedTo(q, w) /\ r[i] = q[i]
                                \/ i \in Int /\ i - n \in PostedTo(t, w) /\ r[i] = t[i - n]
  BY <1>1 DEF PostedTo
<1>3. \A i \in PostedTo(q, w) : i \in PostedTo(r, w) /\ r[i] = q[i]
  BY <1>1 DEF PostedTo
<1>4. \A i \in PostedTo(t, w) : i \in Int /\ i + n \in PostedTo(r, w) /\ r[i + n] = t[i]
  <2>. SUFFICES ASSUME NEW i \in PostedTo(t, w)
                PROVE  i \in Int /\ i + n \in PostedTo(r, w) /\ r[i + n] = t[i]
    OBVIOUS
  <2>1. i \in 1 .. Len(t)
    BY <1>1 DEF PostedTo
  <2>2. i + n \in 1 .. n + Len(t) /\ ~(i + n <= n) /\ (i + n) - n = i
    BY <1>1, <2>1
  <2>3. r[i + n] = t[i]
    BY <1>1, <2>2
  <2>. QED  BY <1>1, <2>1, <2>2, <2>3 DEF PostedTo
<1>5. SlotsOf(r, w) \subseteq SlotsOf(q, w) \cup SlotsOf(t, w)
  BY <1>2 DEF SlotsOf
<1>6. SlotsOf(q, w) \subseteq SlotsOf(r, w)
  BY <1>3 DEF SlotsOf
<1>7. SlotsOf(t, w) \subseteq SlotsOf(r, w)
  BY <1>4 DEF SlotsOf
<1>8. \A s : SlotsOf(s, w) = {} => PostedTo(s, w) = {}
  BY DEF SlotsOf
<1>9. Once(q, w) /\ SlotsOf(t, w) = {} => Once(r, w)
  BY <1>2, <1>8 DEF Once
<1>10. Once(t, w) /\ SlotsOf(q, w) = {} => Once(r, w)
  <2>. SUFFICES ASSUME Once(t, w), SlotsOf(q, w) = {}, NEW i \in PostedTo(r, w), NEW j \in PostedTo(r, w)
                PROVE  i = j
    BY DEF Once
  <2>1. PostedTo(q, w) = {}
    BY <1>8
  <2>2. i \in Int /\ j \in Int /\ i - n = j - n
    BY <1>2, <2>1 DEF Once
  <2>. QED  BY <1>1, <2>2
<1>. QED  BY <1>1, <1>5, <1>6, <1>7, <1>9, <1>10 DEF r

LEMMA RemoveAtIs ==
  ASSUME NEW S, NEW s \in Seq(S), NEW p \in DOMAIN s
  PROVE  /\ RemoveAt(s, p) \in Seq(S) /\ Len(RemoveAt(s, p)) = Len(s) - 1
         /\ \A i \in 1 .. Len(s) - 1 : RemoveAt(s, p)[i] = IF i < p THEN s[i] ELSE s[i + 1]
<1>. DEFINE a == SubSeq(s, 1, p - 1)
            b == SubSeq(s, p + 1, Len(s))
            r == a \o b
<1>1. Len(s) \in Nat /\ DOMAIN s = 1 .. Len(s) /\ p \in 1 .. Len(s) /\ \A i \in 1 .. Len(s) : s[i] \in S
  BY LenProperties
<1>2. a \in Seq(S) /\ Len(a) = p - 1 /\ \A i \in 1 .. p - 1 : a[i] = s[i]
  <2>1. \A i \in 1 .. p - 1 : s[i] \in S
    BY <1>1
  <2>. QED  BY <1>1, <2>1, SubSeqProperties
<1>3. b \in Seq(S) /\ Len(b) = Len(s) - p /\ \A i \in 1 .. Len(s) - p : b[i] = s[p + i]
  <2>1. \A i \in p + 1 .. Len(s) : s[i] \in S
    BY <1>1
  <2>2. /\ b \in Seq(S)
        /\ Len(b) = IF p + 1 <= Len(s) THEN Len(s) - (p + 1) + 1 ELSE 0
        /\ \A i \in 1 .. Len(s) - (p + 1) + 1 : b[i] = s[p + 1 + i - 1]
    BY <1>1, <2>1, SubSeqProperties
  <2>. HIDE DEF b
  <2>3. Len(b) = IF p + 1 <= Len(s) THEN Len(s) - (p + 1) + 1 ELSE 0
    BY <2>2
  <2>4. CASE p + 1 <= Len(s)
    <3>1. Len(b) = Len(s) - p
      BY ONLY <1>1, <2>3, <2>4
    <3>2. ASSUME NEW i \in 1 .. Len(s) - p PROVE b[i] = s[p + i]
      <4>1. i \in 1 .. Len(s) - (p + 1) + 1 /\ p + 1 + i - 1 = p + i
        BY <1>1
      <4>. QED  BY <2>2, <4>1
    <3>. QED  BY <2>2, <3>1, <3>2
  <2>5. CASE ~(p + 1 <= Len(s))
    <3>1. Len(s) - p = 0
      BY ONLY <1>1, <2>5
    <3>2. Len(b) = 0
      BY ONLY <2>3, <2>5
    <3>. QED  BY <2>2, <3>1, <3>2
  <2>. QED  BY <2>4, <2>5
<1>. HIDE DEF a, b
<1>4. /\ r \in Seq(S) /\ Len(r) = Len(a) + Len(b)
      /\ \A i \in 1 .. Len(a) + Len(b) : r[i] = IF i <= Len(a) THEN a[i] ELSE b[i - Len(a)]
  BY <1>2, <1>3, ConcatProperties
<1>. HIDE DEF r
<1>5. Len(a) + Len(b) = Len(s) - 1
  BY <1>1, <1>2, <1>3
<1>6. ASSUME NEW i \in 1 .. Len(s) - 1 PROVE r[i] = IF i < p THEN s[i] ELSE s[i + 1]
  <2>1. CASE i < p
    BY <1>1, <1>2, <1>4, <1>5, <2>1
  <2>2. CASE ~(i < p)
    <3>1. i - (p - 1) \in 1 .. Len(s) - p /\ p + (i - (p - 1)) = i + 1 /\ ~(i <= p - 1)
      BY <1>1, <2>2
    <3>2. b[i - (p - 1)] = s[i + 1]
      BY <1>3, <3>1
    <3>. QED  BY <1>2, <1>4, <1>5, <2>2, <3>1, <3>2
  <2>. QED  BY <2>1, <2>2
<1>7. RemoveAt(s, p) = r
  BY DEF RemoveAt, r, a, b
<1>. QED  BY <1>4, <1>5, <1>6, <1>7

\* An element of what is left was there before.
LEMMA RemoveAtKeeps ==
  ASSUME NEW S, NEW s \in Seq(S), NEW p \in DOMAIN s
  PROVE  /\ \A i \in DOMAIN RemoveAt(s, p) : \E j \in DOMAIN s : RemoveAt(s, p)[i] = s[j]
         /\ Len(s) <= 1 => RemoveAt(s, p) = <<>>
<1>1. Len(s) \in Nat /\ DOMAIN s = 1 .. Len(s)
  BY LenProperties
<1>. DEFINE r == RemoveAt(s, p)
<1>2. /\ r \in Seq(S) /\ Len(r) = Len(s) - 1
      /\ \A i \in 1 .. Len(s) - 1 : r[i] = IF i < p THEN s[i] ELSE s[i + 1]
  BY RemoveAtIs
<1>. HIDE DEF r
<1>3. DOMAIN r = 1 .. Len(s) - 1 /\ Len(r) \in Nat
  BY <1>2, LenProperties
<1>4. \A i \in DOMAIN r : r[i] = s[i] \/ r[i] = s[i + 1]
  BY <1>2, <1>3
<1>5. \A i \in DOMAIN r : i \in DOMAIN s /\ i + 1 \in DOMAIN s
  BY <1>1, <1>3
<1>6. Len(s) <= 1 => Len(r) = 0
  BY <1>1, <1>2, <1>3
<1>7. Len(s) <= 1 => r = <<>>
  BY <1>2, <1>6, EmptySeq
<1>. QED  BY <1>4, <1>5, <1>7 DEF r

\* A list without repetitions, and one of its members taken out.
LEMMA WithoutIs ==
  ASSUME NEW S, NEW s \in Seq(S), IsInjective(s), NEW w
  PROVE  /\ Without(s, w) \in Seq(S) /\ IsInjective(Without(s, w))
         /\ ToSet(Without(s, w)) = ToSet(s) \ {w}
         /\ s = <<>> => Without(s, w) = <<>>
<1>1. CASE w \notin ToSet(s)
  BY <1>1 DEF Without
<1>2. CASE w \in ToSet(s)
  <2>. DEFINE p == CHOOSE i \in DOMAIN s : s[i] = w
              r == RemoveAt(s, p)
  <2>1. p \in DOMAIN s /\ s[p] = w
    BY <1>2, ToSetIs
  <2>. HIDE DEF p
  <2>2. Len(s) \in Nat /\ DOMAIN s = 1 .. Len(s) /\ p \in 1 .. Len(s)
    BY <2>1, LenProperties
  <2>3. /\ r \in Seq(S) /\ Len(r) = Len(s) - 1
        /\ \A i \in 1 .. Len(s) - 1 : r[i] = IF i < p THEN s[i] ELSE s[i + 1]
    BY <2>1, RemoveAtIs
  <2>. HIDE DEF r
  <2>4. DOMAIN r = 1 .. Len(s) - 1
    BY <2>3, LenProperties
  <2>5. s # <<>>
    BY <2>1
  <2>6. IsInjective(r)
    <3>. SUFFICES ASSUME NEW i \in DOMAIN r, NEW j \in DOMAIN r, r[i] = r[j] PROVE i = j
      BY DEF IsInjective
    <3>. DEFINE k == IF i < p THEN i ELSE i + 1
                l == IF j < p THEN j ELSE j + 1
    <3>1. i \in Int /\ j \in Int /\ p \in Int /\ k \in DOMAIN s /\ l \in DOMAIN s
      BY <2>2, <2>4
    <3>2. s[k] = s[l]
      BY <2>3, <2>4
    <3>3. k = l
      BY <3>1, <3>2 DEF IsInjective
    <3>. QED  BY <3>1, <3>3
  <2>7. \A x : x \in ToSet(r) <=> x \in ToSet(s) /\ x # w
    <3>1. ASSUME NEW x, x \in ToSet(r) PROVE x \in ToSet(s) /\ x # w
      BY <2>1, <2>2, <2>3, <2>4, <3>1 DEF ToSet, IsInjective
    <3>2. ASSUME NEW x, x \in ToSet(s), x # w PROVE x \in ToSet(r)
      <4>1. PICK i \in 1 .. Len(s) : s[i] = x /\ i # p
        BY <2>1, <2>2, <3>2 DEF ToSet
      <4>2. CASE i < p
        BY <2>2, <2>3, <2>4, <4>1, <4>2 DEF ToSet
      <4>3. CASE i > p
        <5>1. i - 1 \in 1 .. Len(s) - 1 /\ r[i - 1] = s[i]
          BY <2>2, <2>3, <2>4, <4>1, <4>3
        <5>. QED  BY <2>4, <4>1, <5>1 DEF ToSet
      <4>. QED  BY <2>2, <4>1, <4>2, <4>3
    <3>. QED  BY <3>1, <3>2
  <2>8. Without(s, w) = r
    BY <1>2 DEF Without, r, p
  <2>. QED  BY <2>3, <2>5, <2>6, <2>7, <2>8
<1>. QED  BY <1>1, <1>2

LEMMA HeadTailSet ==
  ASSUME NEW S, NEW s \in Seq(S), s # <<>>
  PROVE  /\ Head(s) \in S /\ Tail(s) \in Seq(S) /\ ToSet(s) = {Head(s)} \cup ToSet(Tail(s))
         /\ IsInjective(s) => IsInjective(Tail(s)) /\ Head(s) \notin ToSet(Tail(s))
<1>1. /\ Head(s) \in S /\ Tail(s) \in Seq(S) /\ Len(Tail(s)) = Len(s) - 1 /\ Len(s) \in Nat \ {0}
      /\ \A i \in 1 .. Len(Tail(s)) : Tail(s)[i] = s[i + 1]
      /\ Head(s) = s[1] /\ DOMAIN s = 1 .. Len(s) /\ DOMAIN Tail(s) = 1 .. Len(Tail(s))
  BY HeadTailProperties, LenProperties, EmptySeq
<1>. DEFINE t == Tail(s)
<1>. HIDE DEF t
<1>2. \A x : x \in ToSet(s) <=> x = s[1] \/ x \in ToSet(t)
  <2>1. ASSUME NEW x, x \in ToSet(s), x # s[1] PROVE x \in ToSet(t)
    <3>1. PICK i \in 1 .. Len(s) : s[i] = x
      BY <1>1, <2>1 DEF ToSet
    <3>2. i - 1 \in 1 .. Len(t) /\ t[i - 1] = x
      BY <1>1, <2>1, <3>1 DEF t
    <3>. QED  BY <1>1, <3>2 DEF ToSet, t
  <2>2. ASSUME NEW x, x \in ToSet(t) PROVE x \in ToSet(s)
    BY <1>1, <2>2 DEF ToSet, t
  <2>3. s[1] \in ToSet(s)
    BY <1>1 DEF ToSet
  <2>. QED  BY <2>1, <2>2, <2>3
<1>3. IsInjective(s) => IsInjective(t) /\ s[1] \notin ToSet(t)
  BY <1>1 DEF IsInjective, ToSet, t
<1>. QED  BY <1>1, <1>2, <1>3 DEF t

LEMMA EmptySet == ToSet(<<>>) = {} /\ IsInjective(<<>>) /\ DOMAIN <<>> = {}
<1>1. DOMAIN <<>> = {}
  OBVIOUS
<1>. QED  BY <1>1 DEF ToSet, IsInjective

-----------------------------------------------------------------------------
(* The files *)

LEMMA ContentIs ==
  ASSUME NEW w \in Wallets
  PROVE  /\ Content[w] \in Seq(Folders) /\ Content[w] # <<>>
         /\ FolderList(w) \in Seq(Names) /\ FolderList(w) # <<>> /\ FolderNames(w) \subseteq Names
         /\ DOMAIN FolderList(w) = DOMAIN Content[w]
         /\ \A x \in ToSet(Content[w]) :
              x \in Folders /\ x.name \in FolderNames(w) /\ EntryList(w, x.name) = x.entries
         /\ \A f \in FolderNames(w) : \E x \in ToSet(Content[w]) : x.name = f
<1>1. Content[w] \in Seq(Folders) /\ Content[w] # <<>>
  BY ImportAssumption
<1>2. \A i, j \in DOMAIN Content[w] : Content[w][i].name = Content[w][j].name => i = j
  BY ImportAssumption
<1>. DEFINE c == Content[w]
            n == Len(c)
<1>3. n \in Nat /\ DOMAIN c = 1 .. n /\ \A i \in 1 .. n : c[i] \in Folders
  BY <1>1, LenProperties
<1>. HIDE DEF c
<1>4. \A i \in 1 .. n : c[i].name \in Names
  BY <1>3 DEF Folders
<1>5. FolderList(w) = [i \in 1 .. n |-> c[i].name]
  BY <1>3 DEF FolderList, c
<1>6. FolderList(w) \in Seq(Names) /\ DOMAIN FolderList(w) = 1 .. n
  <2>1. [i \in 1 .. n |-> c[i].name] \in [1 .. n -> Names]
    BY <1>4
  <2>. QED  BY <1>3, <1>5, <2>1, SeqDef
<1>7. n # 0
  BY <1>1, <1>3, EmptySeq DEF c
<1>8. FolderList(w) # <<>>
  <2>1. 1 \in DOMAIN FolderList(w)
    BY <1>3, <1>6, <1>7
  <2>. QED  BY <2>1
<1>9. FolderNames(w) = {c[i].name : i \in 1 .. n}
  BY <1>5, <1>6 DEF FolderNames, ToSet
<1>10. FolderNames(w) \subseteq Names
  BY <1>4, <1>9
<1>11. ToSet(c) = {c[i] : i \in 1 .. n}
  BY <1>3 DEF ToSet
<1>12. ASSUME NEW x \in ToSet(c)
       PROVE  x \in Folders /\ x.name \in FolderNames(w) /\ EntryList(w, x.name) = x.entries
  <2>1. PICK i \in 1 .. n : x = c[i]
    BY <1>11
  <2>2. \A y \in ToSet(c) : y.name = x.name => y = x
    BY <1>2, <1>3, <1>11, <2>1 DEF c
  <2>3. (CHOOSE y \in ToSet(c) : y.name = x.name) = x
    BY <2>2
  <2>. QED  BY <1>3, <1>9, <2>1, <2>3 DEF EntryList, c
<1>13. \A f \in FolderNames(w) : \E x \in ToSet(c) : x.name = f
  BY <1>9, <1>11
<1>. QED  BY <1>1, <1>3, <1>6, <1>8, <1>10, <1>12, <1>13 DEF c

LEMMA EntryListType ==
  ASSUME NEW w \in Wallets, NEW f \in FolderNames(w)
  PROVE  EntryList(w, f) \in Seq(Entries)
<1>1. PICK x \in ToSet(Content[w]) : x.name = f
  BY ContentIs
<1>2. x \in Folders /\ EntryList(w, f) = x.entries
  BY <1>1, ContentIs
<1>. QED  BY <1>2 DEF Folders

\* An item of the whole file is an entry of the folder it is filed under.
LEMMA WholeMeans ==
  ASSUME NEW w \in Wallets, NEW f \in Names, NEW e \in Entries
  PROVE  [folder |-> f, entry |-> e] \in Whole(w) <=> f \in FolderNames(w) /\ e \in ToSet(EntryList(w, f))
<1>. DEFINE it == [folder |-> f, entry |-> e]
<1>1. it \in [folder : Names, entry : Entries] /\ it.folder = f /\ it.entry = e
  OBVIOUS
<1>. HIDE DEF it
<1>2. it \in Whole(w) <=> \E x \in ToSet(Content[w]) : x.name = f /\ e \in ToSet(x.entries)
  BY <1>1 DEF Whole
<1>3. ASSUME NEW x \in ToSet(Content[w]), x.name = f
      PROVE  f \in FolderNames(w) /\ EntryList(w, f) = x.entries
  BY <1>3, ContentIs
<1>4. f \in FolderNames(w) => \E x \in ToSet(Content[w]) : x.name = f
  BY ContentIs
<1>. QED  BY <1>2, <1>3, <1>4 DEF it

LEMMA InWhole ==
  ASSUME NEW w \in Wallets, NEW i \in Whole(w)
  PROVE  i.folder \in FolderNames(w) /\ i.entry \in ToSet(EntryList(w, i.folder))
         /\ i.folder \in Names /\ i.entry \in Entries /\ i \in [folder : Names, entry : Entries]
<1>1. i \in [folder : Names, entry : Entries]
  BY DEF Whole
<1>2. i.folder \in Names /\ i.entry \in Entries /\ i = [folder |-> i.folder, entry |-> i.entry]
  BY <1>1
<1>. QED  BY <1>1, <1>2, WholeMeans

LEMMA NoneIsNot == None \notin Names /\ None \notin Wallets
  BY ImportAssumption

-----------------------------------------------------------------------------
(* A job to which nothing new happens *)

\* Nothing is posted to w's job but perhaps dropped, and its job is where it was.
Still(w) ==
  /\ SlotsOf(posted', w) \subseteq SlotsOf(posted, w)
  /\ Once(posted, w) => Once(posted', w)
  /\ calls'[w] = calls[w] /\ stored'[w] = stored[w]
  /\ Asking(w)' => Asking(w)
  /\ (w \in ToSet(parent.subjobs))' => w \in ToSet(parent.subjobs)
  /\ w \in raced => w \in raced'
  /\ w \in raced' => w \in raced \/ job[w].status # "Initializing"
  /\ job'[w].killed => job[w].killed \/ job[w].status # "Initializing"
  /\ job'[w].result \in {job[w].result, "killed"}
  /\ job'[w].status = job[w].status /\ job'[w].folders = job[w].folders
  /\ job'[w].folder = job[w].folder /\ job'[w].entries = job[w].entries
  /\ job'[w].results = job[w].results

LEMMA StillKnows == ASSUME NEW w \in Wallets, Knows(w), Still(w) PROVE Knows(w)'
<1>1. Opening(w)' => Opening(w)
  BY DEF Opening, Still
<1>2. InEntries(w)' => InEntries(w)
  BY DEF InEntries, Still
<1>3. Begun(w)'
  <2>1. (job[w].status # "Initializing" => ~Opening(w) /\ job[w].folder # None)'
    BY <1>1 DEF Knows, Begun, Still
  <2>2. (job[w].killed \/ w \in raced => job[w].status # "Initializing")'
    BY DEF Knows, Begun, Still
  <2>3. (SlotsOf(posted, w) \cap Late # {} => job[w].folder # None)'
    BY DEF Knows, Begun, Still
  <2>4. (\A k \in DOMAIN calls[w] : calls[w][k].op = "create" =>
            job[w].folder # None /\ calls[w][k].folder \in Names /\ calls[w][k].entry \in Entries)'
    BY DEF Knows, Begun, Still
  <2>5. /\ (job[w].folder # None => job[w].folder \in FolderNames(w))'
        /\ (ToSet(job[w].folders) \subseteq FolderNames(w))'
    BY DEF Knows, Begun, Still, FolderNames, FolderList
  <2>. QED  BY <2>1, <2>2, <2>3, <2>4, <2>5 DEF Begun
<1>4. ASSUME w \notin raced' PROVE OneChain(w)'
  BY <1>1, <1>4 DEF Knows, OneChain, Still
<1>5. ASSUME w \notin raced' PROVE Copied(w)'
  <2>1. Copied(w)
    BY <1>5 DEF Knows, Still
  <2>2. /\ (stored[w] \subseteq Whole(w))'
        /\ (job[w].result = "ok" /\ Marker[w] # "fresh" => Whole(w) \subseteq stored[w])'
    BY <2>1 DEF Copied, Still, Whole
  <2>3. /\ (InEntries(w) /\ job[w].folder # None => ToSet(job[w].entries) \subseteq ToSet(EntryList(w, job[w].folder)))'
        /\ ("processNextFolder" \in SlotsOf(posted, w) => job[w].entries = <<>>)'
    BY <1>2, <2>1 DEF Copied, Still, EntryList
  <2>4. (\A k \in DOMAIN calls[w] : calls[w][k].op = "create" =>
            calls[w][k].folder = job[w].folder /\ calls[w][k].entry \in ToSet(EntryList(w, job[w].folder)))'
    BY <2>1 DEF Copied, Still, EntryList
  <2>5. ToCopy(w) \subseteq ToCopy(w)'
    BY <1>2 DEF ToCopy, Still
  <2>6. (job[w].folder # None => Whole(w) \subseteq stored[w] \cup ToCopy(w))'
    BY <2>1, <2>5 DEF Copied, Still, Whole
  <2>. QED  BY <2>2, <2>3, <2>4, <2>6 DEF Copied
<1>. QED  BY <1>3, <1>4, <1>5 DEF Knows

\* A job that has no folder yet, and none of the calls that need one.
LEMMA UnopenedKnows ==
  ASSUME NEW w \in Wallets, stored'[w] \subseteq Whole(w), OneChain(w)',
         job'[w].folder = None, ToSet(job'[w].folders) \subseteq FolderNames(w), job'[w].status = "Initializing",
         ~job'[w].killed, w \notin raced',
         job'[w].result = "ok" /\ Marker[w] # "fresh" => Whole(w) \subseteq stored'[w],
         SlotsOf(posted', w) \cap Late = {}, \A k \in DOMAIN calls'[w] : calls'[w][k].op # "create"
  PROVE  Knows(w)'
<1>1. Begun(w)'
  BY DEF Begun
<1>2. Copied(w)'
  BY DEF Copied, Whole, Late
<1>. QED  BY <1>1, <1>2 DEF Knows

-----------------------------------------------------------------------------
(* A job to which something happens, and the others *)

\* The oldest event was for w's job, or none was taken; at most one is posted to it.
Posts(w) ==
  \/ posted' = posted
  \/ \E s \in Slots : posted' = Append(posted, [job |-> w, slot |-> s])
  \/ /\ posted # <<>> /\ Head(posted).job = w
     /\ \/ posted' = Tail(posted)
        \/ \E s \in Slots : posted' = Append(Tail(posted), [job |-> w, slot |-> s])

\* Only w's job is concerned.
Moves(w) ==
  /\ Posts(w)
  /\ \A v \in Wallets \ {w} : /\ calls'[v] = calls[v] /\ job'[v] = job[v] /\ stored'[v] = stored[v]
                              /\ Asking(v)' => Asking(v)
  /\ ToSet(parent'.subjobs) \subseteq ToSet(parent.subjobs)
  /\ raced' = raced /\ Started

LEMMA EventIs ==
  ASSUME NEW w \in Wallets, NEW s \in Slots
  PROVE  [job |-> w, slot |-> s] \in Events
  BY DEF Events

LEMMA PostsTyped ==
  ASSUME TypeOK, NEW w \in Wallets, Posts(w)
  PROVE  posted' \in Seq(Events)
<1>1. posted \in Seq(Events)
  BY DEF TypeOK, Events
<1>2. \A s \in Slots : [job |-> w, slot |-> s] \in Events
  BY EventIs
<1>. HIDE DEF Events
<1>3. posted # <<>> => Tail(posted) \in Seq(Events)
  BY <1>1, TailPosted
<1>4. \A q \in Seq(Events) : \A e \in Events : Append(q, e) \in Seq(Events)
  BY AppendPosted
<1>. QED  BY <1>1, <1>2, <1>3, <1>4 DEF Posts

LEMMA MovesOthers ==
  ASSUME TypeOK, NEW w \in Wallets, Moves(w), NEW v \in Wallets \ {w}
  PROVE  Still(v)
<1>1. posted \in Seq(Events)
  BY DEF TypeOK, Events
<1>2. \A s \in Slots : [job |-> w, slot |-> s] \in Events
  BY EventIs
<1>. HIDE DEF Events
<1>3. posted # <<>> /\ Head(posted).job = w =>
        /\ Tail(posted) \in Seq(Events) /\ SlotsOf(Tail(posted), v) = SlotsOf(posted, v)
        /\ Once(posted, v) => Once(Tail(posted), v)
  BY <1>1, TailPosted
<1>4. \A q \in Seq(Events) : \A e \in Events : e.job = w =>
        SlotsOf(Append(q, e), v) = SlotsOf(q, v) /\ (Once(q, v) => Once(Append(q, e), v))
  BY AppendPosted
<1>5. \A q \in Seq(Events) : \A s \in Slots :
        /\ SlotsOf(Append(q, [job |-> w, slot |-> s]), v) = SlotsOf(q, v)
        /\ Once(q, v) => Once(Append(q, [job |-> w, slot |-> s]), v)
  <2>. SUFFICES ASSUME NEW q \in Seq(Events), NEW s \in Slots
                PROVE  /\ SlotsOf(Append(q, [job |-> w, slot |-> s]), v) = SlotsOf(q, v)
                       /\ Once(q, v) => Once(Append(q, [job |-> w, slot |-> s]), v)
    OBVIOUS
  <2>1. [job |-> w, slot |-> s].job = w
    OBVIOUS
  <2>. QED  BY <1>2, <1>4, <2>1
<1>6. SlotsOf(posted', v) \subseteq SlotsOf(posted, v) /\ (Once(posted, v) => Once(posted', v))
  BY <1>1, <1>3, <1>5 DEF Moves, Posts
<1>7. /\ calls'[v] = calls[v] /\ job'[v] = job[v] /\ stored'[v] = stored[v] /\ raced' = raced
      /\ Asking(v)' => Asking(v)
      /\ (v \in ToSet(parent.subjobs))' => v \in ToSet(parent.subjobs)
  BY DEF Moves, ToSet
<1>. QED  BY <1>6, <1>7 DEF Still

\* What is posted to w's job once the slot that is due has been taken.
LEMMA Takes ==
  ASSUME TypeOK, NEW w \in Wallets, NEW s \in Slots \ {"delete"}, Due(w, s)
  PROVE  /\ Tail(posted) \in Seq(Events) /\ posted # <<>> /\ Head(posted).job = w /\ Started
         /\ s \in SlotsOf(posted, w)
         /\ SlotsOf(Tail(posted), w) \subseteq SlotsOf(posted, w)
         /\ Once(posted, w) => /\ Once(Tail(posted), w)
                               /\ SlotsOf(Tail(posted), w) = {} /\ SlotsOf(posted, w) = {s}
<1>1. posted \in Seq(Events) /\ posted # <<>>
  BY DEF TypeOK, Events, Due
<1>2. Head(posted) = [job |-> w, slot |-> s]
  BY DEF Due
<1>3. Head(posted).job = w /\ Head(posted).slot = s
  BY <1>2
<1>4. Started
  <2>1. ~Started => Head(posted).job = None
    BY DEF Started
  <2>. QED  BY <1>3, <2>1, NoneIsNot
<1>. HIDE DEF Events
<1>5. /\ Tail(posted) \in Seq(Events)
      /\ Once(posted, w) => Once(Tail(posted), w)
      /\ SlotsOf(Tail(posted), w) \subseteq SlotsOf(posted, w)
      /\ s \in SlotsOf(posted, w) /\ SlotsOf(posted, w) \subseteq SlotsOf(Tail(posted), w) \cup {s}
      /\ Once(posted, w) => SlotsOf(Tail(posted), w) = {}
  BY <1>1, <1>3, TailPosted
<1>. QED  BY <1>1, <1>3, <1>4, <1>5

\* What is posted to w's job once s has been.
LEMMA Adds ==
  ASSUME NEW q \in Seq(Events), NEW w \in Wallets, NEW s \in Slots
  PROVE  /\ s # "delete" => SlotsOf(Append(q, [job |-> w, slot |-> s]), w) = SlotsOf(q, w) \cup {s}
         /\ SlotsOf(q, w) = {} => Once(Append(q, [job |-> w, slot |-> s]), w)
         /\ s = "delete" => SlotsOf(Append(q, [job |-> w, slot |-> s]), w) = SlotsOf(q, w)
<1>. DEFINE e == [job |-> w, slot |-> s]
<1>1. e \in Events /\ e.job = w /\ e.slot = s
  BY EventIs
<1>. HIDE DEF Events, e
<1>2. s # "delete" => /\ SlotsOf(Append(q, e), w) = SlotsOf(q, w) \cup {s}
                      /\ SlotsOf(q, w) = {} => Once(Append(q, e), w)
  BY <1>1, AppendPosted
<1>3. s = "delete" => SlotsOf(Append(q, e), w) = SlotsOf(q, w) /\ (Once(q, w) => Once(Append(q, e), w))
  BY <1>1, AppendPosted
<1>4. SlotsOf(q, w) = {} => Once(q, w)
  BY DEF SlotsOf, Once
<1>. QED  BY <1>2, <1>3, <1>4 DEF e

\* Finish takes the job off the list, and the list is what ends the utility.
LEMMA FinishIs ==
  ASSUME TypeOK, Whereabouts, NEW w \in Wallets, NEW outcome \in {"ok", "failed"},
         NEW STATE begun, begun \in [Wallets -> Jobs], Finish(begun, w, outcome)
  PROVE  /\ job' = [begun EXCEPT ![w].result = outcome, ![w].results = @ + 1]
         /\ job' \in [Wallets -> Jobs] /\ app' \in {"running", "quitting", "ended", "crashed"}
         /\ parent' \in [subjobs : Seq(Wallets), failed : BOOLEAN, paused : BOOLEAN]
         /\ parent'.paused = parent.paused /\ IsInjective(parent'.subjobs)
         /\ ToSet(parent'.subjobs) = ToSet(parent.subjobs) \ {w}
         /\ app' \in {"quitting", "ended"} /\ ~parent'.failed =>
              parent'.subjobs = <<>> \/ (app \in {"quitting", "ended"} /\ ~parent.failed)
         /\ parent.subjobs = <<>> => parent'.subjobs = <<>>
<1>. DEFINE left == Without(parent.subjobs, w)
<1>1. /\ parent \in [subjobs : Seq(Wallets), failed : BOOLEAN, paused : BOOLEAN]
      /\ app \in {"running", "quitting", "ended", "crashed"}
  BY DEF TypeOK
<1>2. parent.subjobs \in Seq(Wallets) /\ IsInjective(parent.subjobs)
  BY <1>1 DEF Whereabouts
<1>3. /\ left \in Seq(Wallets) /\ IsInjective(left) /\ ToSet(left) = ToSet(parent.subjobs) \ {w}
      /\ parent.subjobs = <<>> => left = <<>>
  BY <1>2, WithoutIs
<1>. HIDE DEF left
<1>4. /\ job' = [begun EXCEPT ![w].result = outcome, ![w].results = @ + 1]
      /\ parent' = [parent EXCEPT !.subjobs = left, !.failed = @ \/ outcome = "failed"]
      /\ app' = IF QuitsWith(left, outcome = "failed") THEN "quitting" ELSE app
  BY DEF Finish, left
<1>5. job' \in [Wallets -> Jobs]
  <2>1. begun[w] \in Jobs
    OBVIOUS
  <2>2. begun[w].results + 1 \in Nat
    BY <2>1 DEF Jobs
  <2>3. \A r \in Jobs : \A n \in Nat : [r EXCEPT !.result = outcome, !.results = n] \in Jobs
    BY DEF Jobs
  <2>4. [begun[w] EXCEPT !.result = outcome, !.results = @ + 1] \in Jobs
    BY ONLY <2>1, <2>2, <2>3
  <2>. QED  BY <1>4, <2>4
<1>6. /\ parent' \in [subjobs : Seq(Wallets), failed : BOOLEAN, paused : BOOLEAN]
      /\ parent'.subjobs = left /\ parent'.paused = parent.paused
      /\ parent'.failed = (parent.failed \/ outcome = "failed")
  BY <1>1, <1>3, <1>4
<1>7. app' \in {"quitting", "ended"} /\ ~parent'.failed =>
        left = <<>> \/ (app \in {"quitting", "ended"} /\ ~parent.failed)
  BY <1>4, <1>6 DEF QuitsWith
<1>8. app' \in {"running", "quitting", "ended", "crashed"}
  BY <1>1, <1>4
<1>. QED  BY <1>3, <1>4, <1>5, <1>6, <1>7, <1>8

LEMMA CallIs ==
  ASSUME TypeOK, NEW w \in Wallets, NEW op \in {"search", "getSecret", "create"},
         NEW STATE e, e \in Entries \cup {None}, Call(w, op, e)
  PROVE  /\ calls' \in [Wallets -> Seq(Requests)] /\ \A v \in Wallets \ {w} : calls'[v] = calls[v]
         /\ Len(calls'[w]) = Len(calls[w]) + 1 /\ calls'[w] # <<>>
         /\ \A k \in DOMAIN calls'[w] : \/ k \in DOMAIN calls[w] /\ calls'[w][k] = calls[w][k]
                                        \/ /\ calls'[w][k].op = op /\ calls'[w][k].entry = e
                                           /\ calls'[w][k].folder = job[w].folder
         /\ \E k \in DOMAIN calls'[w] : calls'[w][k].op = op /\ calls'[w][k].entry = e
                                        /\ calls'[w][k].folder = job[w].folder
<1>. DEFINE c == [op |-> op, folder |-> job[w].folder, entry |-> e]
            s == calls[w]
<1>1. calls \in [Wallets -> Seq(Requests)] /\ job[w].folder \in Names \cup {None}
  BY DEF TypeOK, Jobs
<1>2. c \in Requests /\ s \in Seq(Requests) /\ c.op = op /\ c.entry = e /\ c.folder = job[w].folder
  BY <1>1 DEF Requests
<1>3. calls' = [calls EXCEPT ![w] = Append(s, c)]
  BY DEF Call
<1>. HIDE DEF c
<1>4. /\ Append(s, c) \in Seq(Requests) /\ Len(Append(s, c)) = Len(s) + 1 /\ Len(s) \in Nat
      /\ DOMAIN s = 1 .. Len(s) /\ DOMAIN Append(s, c) = 1 .. Len(s) + 1
      /\ \A k \in 1 .. Len(s) : Append(s, c)[k] = s[k]
      /\ Append(s, c)[Len(s) + 1] = c
  BY <1>2, AppendProperties, LenProperties
<1>5. calls' \in [Wallets -> Seq(Requests)] /\ calls'[w] = Append(s, c) /\ \A v \in Wallets \ {w} : calls'[v] = calls[v]
  BY <1>1, <1>3, <1>4
<1>6. Len(s) + 1 \in DOMAIN Append(s, c)
  BY <1>4
<1>7. Append(s, c) # <<>>
  BY <1>6
<1>8. \A k \in DOMAIN Append(s, c) : k \in DOMAIN s \/ k = Len(s) + 1
  BY <1>4
<1>. QED  BY <1>2, <1>4, <1>5, <1>6, <1>7, <1>8

\* A job whose wallet is not open: one thing is under way, and no click reaches it.
LEMMA OpeningMeans ==
  ASSUME NEW w \in Wallets, Knows(w), Opening(w)
  PROVE  /\ w \notin raced /\ ~job[w].killed /\ job[w].status = "Initializing" /\ job[w].folder = None
         /\ OneChain(w) /\ Copied(w)
  BY DEF Knows, Begun, OneChain

\* A job that is not at any of these has no folder.
LEMMA NoFolders ==
  ASSUME TypeOK, NEW w \in Wallets, Knows(w), Opening(w)
  PROVE  SlotsOf(posted, w) \cap Late = {} /\ \A k \in DOMAIN calls[w] : calls[w][k].op # "create"
  BY OpeningMeans DEF Knows, Begun

LEMMA NothingYet ==
  ASSUME NEW w \in Wallets, OneChain(w), SlotsOf(posted, w) # {} \/ calls[w] # <<>> \/ Asking(w), TypeOK
  PROVE  job[w].results = 0
  BY DEF OneChain, TypeOK, Jobs

-----------------------------------------------------------------------------
(* The handlers *)

LEMMA CheckImportNeededIs ==
  ASSUME IInv, NEW w \in Wallets, CheckImportNeeded(w)
  PROVE  TypeOK' /\ Moves(w) /\ Knows(w)'
<1>1. TypeOK /\ Knows(w)
  BY DEF IInv
<1>2. /\ posted' = Tail(posted) /\ Call(w, "search", None) /\ Due(w, "checkImportNeeded")
      /\ UNCHANGED <<app, dialogs, parent, job, stored, raced, imported, clicks>>
  BY DEF CheckImportNeeded
<1>3. "checkImportNeeded" \in Slots \ {"delete"} /\ "checkImportNeeded" \in Early
  BY DEF Slots, Early
<1>4. /\ Tail(posted) \in Seq(Events) /\ posted # <<>> /\ Head(posted).job = w /\ Started
      /\ "checkImportNeeded" \in SlotsOf(posted, w)
      /\ Once(posted, w) => Once(Tail(posted), w) /\ SlotsOf(Tail(posted), w) = {}
  BY <1>1, <1>2, <1>3, Takes
<1>5. /\ calls' \in [Wallets -> Seq(Requests)] /\ \A v \in Wallets \ {w} : calls'[v] = calls[v]
      /\ Len(calls'[w]) = Len(calls[w]) + 1 /\ calls'[w] # <<>>
      /\ \A k \in DOMAIN calls'[w] : \/ k \in DOMAIN calls[w] /\ calls'[w][k] = calls[w][k]
                                     \/ calls'[w][k].op = "search"
  BY <1>1, <1>2, CallIs
<1>6. TypeOK'
  BY <1>1, <1>2, <1>4, <1>5 DEF TypeOK, Events
<1>7. Moves(w)
  BY <1>2, <1>4, <1>5 DEF Moves, Posts, Asking
<1>8. Opening(w)
  BY <1>3, <1>4 DEF Opening
<1>9. /\ w \notin raced /\ ~job[w].killed /\ job[w].status = "Initializing" /\ job[w].folder = None
      /\ OneChain(w) /\ Copied(w) /\ job[w].results = 0
      /\ SlotsOf(posted, w) \cap Late = {} /\ \A k \in DOMAIN calls[w] : calls[w][k].op # "create"
      /\ ToSet(job[w].folders) \subseteq FolderNames(w)
  BY <1>1, <1>4, <1>8, OpeningMeans, NoFolders, NothingYet DEF Knows, Begun
<1>10. /\ Once(posted', w) /\ SlotsOf(posted', w) = {} /\ calls[w] = <<>>
       /\ stored[w] \subseteq Whole(w) /\ (job[w].result = "ok" /\ Marker[w] # "fresh" => Whole(w) \subseteq stored[w])
  BY <1>2, <1>4, <1>9 DEF OneChain, Copied
<1>11. ~Asking(w)'
  BY <1>2, <1>4, <1>9 DEF OneChain, Asking
<1>12. Len(calls'[w]) <= 1 /\ \A k \in DOMAIN calls'[w] : calls'[w][k].op # "create"
  BY <1>5, <1>9, <1>10
<1>13. OneChain(w)'
  BY <1>2, <1>5, <1>9, <1>10, <1>11, <1>12 DEF OneChain
<1>14. Knows(w)'
  BY <1>2, <1>9, <1>10, <1>12, <1>13, UnopenedKnows
<1>. QED  BY <1>6, <1>7, <1>14

LEMMA AnsweredIs ==
  ASSUME TypeOK, NEW w \in Wallets, NEW i \in DOMAIN calls[w], Answered(w, i)
  PROVE  /\ calls' \in [Wallets -> Seq(Requests)] /\ \A v \in Wallets \ {w} : calls'[v] = calls[v]
         /\ Len(calls'[w]) = Len(calls[w]) - 1
         /\ \A k \in DOMAIN calls'[w] : \E j \in DOMAIN calls[w] : calls'[w][k] = calls[w][j]
         /\ Len(calls[w]) <= 1 => calls'[w] = <<>>
<1>1. calls \in [Wallets -> Seq(Requests)] /\ calls[w] \in Seq(Requests)
  BY DEF TypeOK
<1>2. calls' = [calls EXCEPT ![w] = RemoveAt(calls[w], i)]
  BY DEF Answered
<1>3. RemoveAt(calls[w], i) \in Seq(Requests) /\ Len(RemoveAt(calls[w], i)) = Len(calls[w]) - 1
  BY <1>1, RemoveAtIs
<1>4. /\ \A k \in DOMAIN RemoveAt(calls[w], i) : \E j \in DOMAIN calls[w] : RemoveAt(calls[w], i)[k] = calls[w][j]
      /\ Len(calls[w]) <= 1 => RemoveAt(calls[w], i) = <<>>
  BY <1>1, RemoveAtKeeps
<1>5. calls'[w] = RemoveAt(calls[w], i)
  BY <1>1, <1>2
<1>6. calls' \in [Wallets -> Seq(Requests)] /\ \A v \in Wallets \ {w} : calls'[v] = calls[v]
  BY <1>1, <1>2, <1>3
<1>. QED  BY <1>3, <1>4, <1>5, <1>6

LEMMA GoesIs ==
  ASSUME TypeOK, NEW w \in Wallets, NEW s \in Slots \ {"delete"}, Goes(w, s)
  PROVE  /\ posted' \in Seq(Events) /\ Posts(w) /\ SlotsOf(posted', w) = SlotsOf(posted, w) \cup {s}
         /\ SlotsOf(posted, w) = {} => Once(posted', w)
<1>1. posted \in Seq(Events) /\ posted' = Append(posted, [job |-> w, slot |-> s])
  BY DEF TypeOK, Events, Goes
<1>2. Posts(w)
  BY <1>1 DEF Posts
<1>. QED  BY <1>1, <1>2, PostsTyped, Adds

LEMMA StopsIs ==
  ASSUME TypeOK, Whereabouts, NEW w \in Wallets, NEW outcome \in {"ok", "failed"}, Stops(w, outcome)
  PROVE  /\ posted' \in Seq(Events) /\ Posts(w) /\ SlotsOf(posted', w) = SlotsOf(posted, w)
         /\ SlotsOf(posted, w) = {} => Once(posted', w)
         /\ job' = [job EXCEPT ![w].result = outcome, ![w].results = @ + 1]
         /\ job' \in [Wallets -> Jobs] /\ app' \in {"running", "quitting", "ended", "crashed"}
         /\ parent' \in [subjobs : Seq(Wallets), failed : BOOLEAN, paused : BOOLEAN]
         /\ ToSet(parent'.subjobs) = ToSet(parent.subjobs) \ {w}
         /\ \A v \in Wallets \ {w} : job'[v] = job[v]
<1>1. posted \in Seq(Events) /\ posted' = Append(posted, [job |-> w, slot |-> "delete"]) /\ job \in [Wallets -> Jobs]
  BY DEF TypeOK, Events, Stops
<1>2. "delete" \in Slots /\ Finish(job, w, outcome)
  BY DEF Slots, Stops
<1>3. Posts(w)
  BY <1>1, <1>2 DEF Posts
<1>4. posted' \in Seq(Events)
  BY <1>3, PostsTyped
<1>5. SlotsOf(posted', w) = SlotsOf(posted, w) /\ (SlotsOf(posted, w) = {} => Once(posted', w))
  BY <1>1, <1>2, Adds
<1>6. /\ job' = [job EXCEPT ![w].result = outcome, ![w].results = @ + 1]
      /\ job' \in [Wallets -> Jobs] /\ app' \in {"running", "quitting", "ended", "crashed"}
      /\ parent' \in [subjobs : Seq(Wallets), failed : BOOLEAN, paused : BOOLEAN]
      /\ ToSet(parent'.subjobs) = ToSet(parent.subjobs) \ {w}
  BY <1>1, <1>2, FinishIs
<1>. QED  BY <1>1, <1>3, <1>4, <1>5, <1>6

\* The next step of opening a wallet is posted.
LEMMA OpeningGoes ==
  ASSUME TypeOK, NEW w \in Wallets, Knows(w), Opening(w), NEW s \in Early, Goes(w, s),
         SlotsOf(posted, w) = {}, calls'[w] = <<>>, ~Asking(w)', UNCHANGED <<stored, raced>>
  PROVE  Knows(w)'
<1>1. /\ w \notin raced /\ ~job[w].killed /\ job[w].status = "Initializing" /\ job[w].folder = None
      /\ OneChain(w) /\ Copied(w) /\ job[w].results = 0
      /\ ToSet(job[w].folders) \subseteq FolderNames(w)
  BY OpeningMeans, NothingYet DEF Knows, Begun, Opening
<1>2. s \in Slots \ {"delete"} /\ Early \cap Late = {}
  BY DEF Early, Slots, Late
<1>3. SlotsOf(posted', w) = {s} /\ Once(posted', w) /\ job' = job /\ parent' = parent
  BY <1>2, GoesIs DEF Goes
<1>4. Len(calls'[w]) <= 1 /\ DOMAIN calls'[w] = {}
  BY EmptySet
<1>5. OneChain(w)'
  BY <1>1, <1>3, <1>4 DEF OneChain
<1>6. /\ stored'[w] \subseteq Whole(w)
      /\ job'[w].result = "ok" /\ Marker[w] # "fresh" => Whole(w) \subseteq stored'[w]
  BY <1>1, <1>3 DEF Copied
<1>7. SlotsOf(posted', w) \cap Late = {}
  BY <1>2, <1>3
<1>. QED  BY <1>1, <1>3, <1>4, <1>5, <1>6, <1>7, UnopenedKnows

\* The import ends before its wallet is open.
LEMMA OpeningStops ==
  ASSUME TypeOK, Whereabouts, NEW w \in Wallets, Knows(w), Opening(w),
         NEW outcome \in {"ok", "failed"}, outcome = "ok" => Marker[w] = "fresh", Stops(w, outcome),
         SlotsOf(posted, w) = {}, calls'[w] = <<>>, ~Asking(w)', UNCHANGED <<stored, raced>>
  PROVE  Knows(w)'
<1>1. /\ w \notin raced /\ ~job[w].killed /\ job[w].status = "Initializing" /\ job[w].folder = None
      /\ OneChain(w) /\ Copied(w) /\ job[w].results = 0
      /\ ToSet(job[w].folders) \subseteq FolderNames(w)
  BY OpeningMeans, NothingYet DEF Knows, Begun, Opening
<1>2. /\ SlotsOf(posted', w) = {} /\ Once(posted', w)
      /\ job' = [job EXCEPT ![w].result = outcome, ![w].results = @ + 1]
      /\ ToSet(parent'.subjobs) = ToSet(parent.subjobs) \ {w}
  BY StopsIs
<1>3. job[w] \in Jobs /\ job \in [Wallets -> Jobs]
  BY DEF TypeOK
<1>4. job'[w] = [job[w] EXCEPT !.result = outcome, !.results = @ + 1]
  BY <1>2, <1>3
<1>5. /\ job'[w].result = outcome /\ job'[w].results = 1 /\ job'[w].killed = job[w].killed
      /\ job'[w].folder = None /\ job'[w].folders = job[w].folders /\ job'[w].status = "Initializing"
  BY <1>1, <1>3, <1>4 DEF Jobs
<1>6. Len(calls'[w]) <= 1 /\ DOMAIN calls'[w] = {}
  BY EmptySet
<1>7. w \notin ToSet(parent.subjobs)'
  BY <1>2 DEF ToSet
<1>8. OneChain(w)'
  BY <1>1, <1>2, <1>5, <1>6, <1>7 DEF OneChain
<1>9. stored'[w] \subseteq Whole(w)
  BY <1>1 DEF Copied
<1>. QED  BY <1>1, <1>2, <1>5, <1>6, <1>8, <1>9, UnopenedKnows

LEMMA CallsMeanStarted == ASSUME Whereabouts, NEW w \in Wallets, calls[w] # <<>> PROVE Started
  BY DEF Whereabouts, Fresh

\* The answer about the marker, or about its secret.
LEMMA MarkerAnswerIs ==
  ASSUME IInv, NEW w \in Wallets, NEW i \in DOMAIN calls[w], UNCHANGED <<dialogs, raced, imported, clicks>>,
         CheckImportNeededItems(w, i) \/ CheckImportNeededSecret(w, i)
  PROVE  TypeOK' /\ Moves(w) /\ Knows(w)'
<1>1. TypeOK /\ Knows(w) /\ Whereabouts
  BY DEF IInv
<1>2. calls[w][i].op \in {"search", "getSecret"} /\ UNCHANGED stored
  BY DEF CheckImportNeededItems, CheckImportNeededSecret
<1>3. Opening(w) /\ calls[w] # <<>>
  BY <1>2, EmptySet DEF Opening
<1>4. OneChain(w)
  BY <1>1, <1>3, OpeningMeans
<1>5. Len(calls[w]) <= 1 /\ SlotsOf(posted, w) = {} /\ ~Asking(w) /\ Once(posted, w)
  BY <1>3, <1>4 DEF OneChain
<1>6. Started /\ ~Asking(w)'
  BY <1>1, <1>3, <1>5, CallsMeanStarted DEF Asking
<1>7. "run" \in Early /\ Early \subseteq Slots \ {"delete"}
  BY DEF Early, Slots
<1>8. ASSUME Answered(w, i), NEW outcome \in {"ok", "failed"}, outcome = "ok" => Marker[w] = "fresh", Stops(w, outcome)
      PROVE  TypeOK' /\ Moves(w) /\ Knows(w)'
  <2>1. calls' \in [Wallets -> Seq(Requests)] /\ calls'[w] = <<>> /\ \A v \in Wallets \ {w} : calls'[v] = calls[v]
    BY <1>1, <1>5, <1>8, AnsweredIs
  <2>2. /\ posted' \in Seq(Events) /\ Posts(w)
        /\ job' \in [Wallets -> Jobs] /\ app' \in {"running", "quitting", "ended", "crashed"}
        /\ parent' \in [subjobs : Seq(Wallets), failed : BOOLEAN, paused : BOOLEAN]
        /\ ToSet(parent'.subjobs) = ToSet(parent.subjobs) \ {w} /\ \A v \in Wallets \ {w} : job'[v] = job[v]
    BY <1>1, <1>8, StopsIs
  <2>3. TypeOK'
    BY <1>1, <1>2, <2>1, <2>2 DEF TypeOK, Events
  <2>4. Moves(w)
    BY <1>2, <1>6, <2>1, <2>2 DEF Moves, Asking
  <2>5. Knows(w)'
    BY <1>1, <1>2, <1>3, <1>5, <1>6, <1>8, <2>1, OpeningStops
  <2>. QED  BY <2>3, <2>4, <2>5
<1>9. ASSUME Answered(w, i), Goes(w, "run") PROVE TypeOK' /\ Moves(w) /\ Knows(w)'
  <2>1. calls' \in [Wallets -> Seq(Requests)] /\ calls'[w] = <<>> /\ \A v \in Wallets \ {w} : calls'[v] = calls[v]
    BY <1>1, <1>5, <1>9, AnsweredIs
  <2>2. posted' \in Seq(Events) /\ Posts(w) /\ UNCHANGED <<app, parent, job>>
    BY <1>1, <1>7, <1>9, GoesIs DEF Goes
  <2>3. TypeOK'
    BY <1>1, <1>2, <2>1, <2>2 DEF TypeOK, Events
  <2>4. Moves(w)
    BY <1>2, <1>6, <2>1, <2>2 DEF Moves, Asking
  <2>5. Knows(w)'
    BY <1>1, <1>2, <1>3, <1>5, <1>6, <1>7, <1>9, <2>1, OpeningGoes
  <2>. QED  BY <2>3, <2>4, <2>5
<1>10. ASSUME calls' = [calls EXCEPT ![w][i].op = "getSecret"], UNCHANGED <<app, parent, job, posted>>
       PROVE  TypeOK' /\ Moves(w) /\ Knows(w)'
  <2>. DEFINE c == [calls[w][i] EXCEPT !.op = "getSecret"]
  <2>1. calls \in [Wallets -> Seq(Requests)] /\ calls[w] \in Seq(Requests) /\ calls[w][i] \in Requests
        /\ DOMAIN calls[w] = 1 .. Len(calls[w])
    BY <1>1, LenProperties DEF TypeOK
  <2>2. c \in Requests /\ c.op = "getSecret"
    BY <2>1 DEF Requests
  <2>3. calls' = [calls EXCEPT ![w] = [calls[w] EXCEPT ![i] = c]]
    BY <1>10, <2>1
  <2>. HIDE DEF c
  <2>4. /\ [calls[w] EXCEPT ![i] = c] \in Seq(Requests) /\ Len([calls[w] EXCEPT ![i] = c]) = Len(calls[w])
        /\ \A j \in 1 .. Len(calls[w]) : [calls[w] EXCEPT ![i] = c][j] = IF j = i THEN c ELSE calls[w][j]
    BY <2>1, <2>2, ExceptSeq
  <2>5. calls' \in [Wallets -> Seq(Requests)] /\ calls'[w] = [calls[w] EXCEPT ![i] = c] /\ \A v \in Wallets \ {w} : calls'[v] = calls[v]
    BY <2>1, <2>3, <2>4
  <2>6. DOMAIN calls'[w] = DOMAIN calls[w]
    BY <2>5
  <2>7. \A k \in DOMAIN calls[w] : calls[w][k].op # "create"
    BY <1>1, <1>3, NoFolders
  <2>8. \A k \in DOMAIN calls'[w] : calls'[w][k].op # "create"
    BY <2>1, <2>2, <2>4, <2>5, <2>6, <2>7
  <2>9. TypeOK'
    BY <1>1, <1>2, <1>10, <2>5 DEF TypeOK
  <2>10. Moves(w)
    BY <1>2, <1>6, <1>10, <2>5 DEF Moves, Posts, Asking
  <2>11. /\ w \notin raced /\ ~job[w].killed /\ job[w].status = "Initializing" /\ job[w].folder = None
         /\ OneChain(w) /\ Copied(w) /\ job[w].results = 0 /\ SlotsOf(posted, w) \cap Late = {}
         /\ ToSet(job[w].folders) \subseteq FolderNames(w)
    BY <1>1, <1>3, OpeningMeans, NothingYet, NoFolders DEF Knows, Begun
  <2>12. OneChain(w)'
    BY <1>6, <1>10, <1>5, <2>4, <2>5, <2>11 DEF OneChain
  <2>13. stored'[w] \subseteq Whole(w) /\ (job'[w].result = "ok" /\ Marker[w] # "fresh" => Whole(w) \subseteq stored'[w])
    BY <1>2, <1>10, <2>11 DEF Copied
  <2>14. Knows(w)'
    BY <1>10, <2>8, <2>11, <2>12, <2>13, UnopenedKnows
  <2>. QED  BY <2>9, <2>10, <2>14
<1>. QED  BY <1>8, <1>9, <1>10 DEF CheckImportNeededItems, CheckImportNeededSecret

LEMMA Pushed ==
  ASSUME NEW S, NEW s \in Seq(S), NEW w \in S
  PROVE  /\ <<w>> \o s \in Seq(S) /\ ToSet(<<w>> \o s) = {w} \cup ToSet(s)
         /\ IsInjective(s) /\ w \notin ToSet(s) => IsInjective(<<w>> \o s)
<1>. DEFINE r == <<w>> \o s
            n == Len(s)
<1>1. /\ r \in Seq(S) /\ n \in Nat /\ DOMAIN s = 1 .. n /\ DOMAIN r = 1 .. 1 + n
      /\ \A i \in 1 .. 1 + n : r[i] = IF i <= 1 THEN <<w>>[i] ELSE s[i - 1]
  <2>1. <<w>> \in Seq(S) /\ Len(<<w>>) = 1
    OBVIOUS
  <2>2. /\ r \in Seq(S) /\ Len(r) = 1 + n /\ n \in Nat
        /\ \A i \in 1 .. 1 + n : r[i] = IF i <= 1 THEN <<w>>[i] ELSE s[i - 1]
    BY <2>1, ConcatProperties, LenProperties
  <2>. QED  BY <2>2, LenProperties
<1>2. r[1] = w
  BY <1>1
<1>. HIDE DEF r
<1>3. \A i \in DOMAIN r : i = 1 \/ (i - 1 \in DOMAIN s /\ r[i] = s[i - 1] /\ i \in Int)
  BY <1>1
<1>4. \A i \in DOMAIN s : i \in Int /\ i + 1 \in DOMAIN r /\ r[i + 1] = s[i]
  <2>. SUFFICES ASSUME NEW i \in 1 .. n PROVE i \in Int /\ i + 1 \in DOMAIN r /\ r[i + 1] = s[i]
    BY <1>1
  <2>1. i + 1 \in 1 .. 1 + n /\ ~(i + 1 <= 1) /\ (i + 1) - 1 = i
    BY <1>1
  <2>. QED  BY <1>1, <2>1
<1>5. 1 \in DOMAIN r
  BY <1>1
<1>6. ToSet(r) = {w} \cup ToSet(s)
  BY <1>2, <1>3, <1>4, <1>5 DEF ToSet
<1>7. IsInjective(s) /\ w \notin ToSet(s) => IsInjective(r)
  <2>. SUFFICES ASSUME IsInjective(s), w \notin ToSet(s), NEW i \in DOMAIN r, NEW j \in DOMAIN r, r[i] = r[j]
                PROVE  i = j
    BY DEF IsInjective
  <2>1. CASE i = 1 \/ j = 1
    BY <1>2, <1>3, <2>1 DEF ToSet
  <2>2. CASE i # 1 /\ j # 1
    <3>1. i - 1 = j - 1
      BY <1>3, <2>2 DEF IsInjective
    <3>. QED  BY <1>3, <2>2, <3>1
  <2>. QED  BY <2>1, <2>2
<1>. QED  BY <1>1, <1>6, <1>7 DEF r

\* The next step of a wallet that is not open yet, whichever way it is under way.
LEMMA StaysOpening ==
  ASSUME TypeOK, NEW w \in Wallets, Knows(w), Opening(w), UNCHANGED <<parent, job, stored, raced>>,
         Once(posted', w), SlotsOf(posted', w) \subseteq Early, calls'[w] = <<>>,
         SlotsOf(posted', w) # {} => ~Asking(w)'
  PROVE  Knows(w)'
<1>1. /\ w \notin raced /\ ~job[w].killed /\ job[w].status = "Initializing" /\ job[w].folder = None
      /\ OneChain(w) /\ Copied(w) /\ ToSet(job[w].folders) \subseteq FolderNames(w)
  BY OpeningMeans DEF Knows, Begun
<1>2. SlotsOf(posted', w) \cap Late = {} /\ DOMAIN calls'[w] = {} /\ Len(calls'[w]) <= 1
  BY EmptySet DEF Early, Late
<1>3. job[w].results = 0
  BY <1>1, NothingYet DEF Opening, OneChain
<1>4. OneChain(w)'
  BY <1>1, <1>2, <1>3 DEF OneChain
<1>5. stored'[w] \subseteq Whole(w) /\ (job'[w].result = "ok" /\ Marker[w] # "fresh" => Whole(w) \subseteq stored'[w])
  BY <1>1 DEF Copied
<1>. QED  BY <1>1, <1>2, <1>4, <1>5, UnopenedKnows

LEMMA RunIs ==
  ASSUME IInv, NEW w \in Wallets, Run(w)
  PROVE  TypeOK' /\ Moves(w) /\ Knows(w)' /\ IsInjective(dialogs')
<1>1. TypeOK /\ Knows(w) /\ IsInjective(dialogs) /\ dialogs \in Seq(Wallets)
  BY DEF IInv, Whereabouts, TypeOK
<1>2. Due(w, "run") /\ UNCHANGED <<app, calls, parent, job, stored, raced, imported, clicks>>
  BY DEF Run
<1>3. {"run", "onWalletOpened"} \subseteq (Slots \ {"delete"}) \cap Early
  BY DEF Slots, Early
<1>4. /\ Tail(posted) \in Seq(Events) /\ posted # <<>> /\ Head(posted).job = w /\ Started
      /\ "run" \in SlotsOf(posted, w)
      /\ Once(posted, w) => Once(Tail(posted), w) /\ SlotsOf(Tail(posted), w) = {}
  BY <1>1, <1>2, <1>3, Takes
<1>5. Opening(w)
  BY <1>3, <1>4 DEF Opening
<1>6. OneChain(w)
  BY <1>1, <1>5, OpeningMeans
<1>7. calls'[w] = <<>> /\ ~Asking(w) /\ Once(Tail(posted), w) /\ SlotsOf(Tail(posted), w) = {}
  BY <1>2, <1>4, <1>6 DEF OneChain
<1>8. CASE Then(w, "onWalletOpened") /\ UNCHANGED dialogs
  <2>1. posted' = Append(Tail(posted), [job |-> w, slot |-> "onWalletOpened"])
    BY <1>8 DEF Then
  <2>. DEFINE q == Tail(posted)
  <2>a. "onWalletOpened" \in Slots /\ "onWalletOpened" # "delete"
    BY <1>3
  <2>b. /\ SlotsOf(Append(q, [job |-> w, slot |-> "onWalletOpened"]), w) = SlotsOf(q, w) \cup {"onWalletOpened"}
        /\ Once(Append(q, [job |-> w, slot |-> "onWalletOpened"]), w)
    BY <1>4, <1>7, <2>a, Adds
  <2>2. SlotsOf(posted', w) = {"onWalletOpened"} /\ Once(posted', w) /\ Posts(w)
    BY <1>4, <1>7, <2>1, <2>a, <2>b DEF Posts
  <2>3. TypeOK'
    BY <1>1, <1>2, <1>8, <2>2, PostsTyped DEF TypeOK, Events
  <2>4. Moves(w)
    BY <1>2, <1>4, <1>8, <2>2 DEF Moves, Asking
  <2>5. ~Asking(w)'
    BY <1>7, <1>8 DEF Asking
  <2>6. Knows(w)'
    BY <1>1, <1>2, <1>3, <1>5, <1>7, <2>2, <2>5, StaysOpening
  <2>. QED  BY <1>1, <1>8, <2>3, <2>4, <2>6
<1>9. CASE posted' = Tail(posted) /\ dialogs' = <<w>> \o dialogs
  <2>1. dialogs' \in Seq(Wallets) /\ ToSet(dialogs') = {w} \cup ToSet(dialogs) /\ IsInjective(dialogs')
    BY <1>1, <1>7, <1>9, Pushed DEF Asking
  <2>2. TypeOK'
    BY <1>1, <1>2, <1>4, <1>9, <2>1 DEF TypeOK, Events
  <2>3. \A v \in Wallets \ {w} : Asking(v)' => Asking(v)
    BY <2>1 DEF Asking, ToSet
  <2>4. Moves(w)
    BY <1>2, <1>4, <1>9, <2>3 DEF Moves, Posts
  <2>5. Knows(w)'
    BY <1>1, <1>2, <1>5, <1>7, <1>9, StaysOpening
  <2>. QED  BY <2>1, <2>2, <2>4, <2>5
<1>. QED  BY <1>8, <1>9 DEF Run

\* What the user's answer does to the innermost dialog.
LEMMA DialogIs ==
  ASSUME IInv, dialogs # <<>>, dialogs' = Tail(dialogs), NEW w \in Wallets, w = Head(dialogs)
  PROVE  /\ dialogs' \in Seq(Wallets) /\ IsInjective(dialogs') /\ Started /\ Opening(w) /\ ~Asking(w)'
         /\ \A v \in Wallets : Asking(v)' => Asking(v)
         /\ SlotsOf(posted, w) = {} /\ calls[w] = <<>>
<1>1. Knows(w) /\ IsInjective(dialogs) /\ dialogs \in Seq(Wallets) /\ Whereabouts
  BY DEF IInv, Whereabouts, TypeOK
<1>2. /\ Tail(dialogs) \in Seq(Wallets) /\ ToSet(dialogs) = {w} \cup ToSet(Tail(dialogs))
      /\ IsInjective(Tail(dialogs)) /\ w \notin ToSet(Tail(dialogs))
  BY <1>1, HeadTailSet
<1>3. Asking(w) /\ ~Asking(w)' /\ \A v \in Wallets : Asking(v)' => Asking(v)
  BY <1>2 DEF Asking, ToSet
<1>4. Opening(w)
  BY <1>3 DEF Opening
<1>5. OneChain(w)
  BY <1>1, <1>4, OpeningMeans
<1>6. SlotsOf(posted, w) = {} /\ calls[w] = <<>>
  BY <1>3, <1>5 DEF OneChain
<1>7. Started
  BY <1>1 DEF Whereabouts, Fresh
<1>. QED  BY <1>2, <1>3, <1>4, <1>6, <1>7

LEMMA AcceptPasswordIs ==
  ASSUME IInv, NEW w \in Wallets, w = Head(dialogs), AcceptPassword
  PROVE  TypeOK' /\ Moves(w) /\ Knows(w)' /\ IsInjective(dialogs')
<1>1. TypeOK /\ Knows(w)
  BY DEF IInv
<1>2. /\ dialogs # <<>> /\ dialogs' = Tail(dialogs) /\ posted' = Append(posted, [job |-> w, slot |-> "onWalletOpened"])
      /\ UNCHANGED <<app, calls, parent, job, stored, raced, imported, clicks>>
  BY DEF AcceptPassword
<1>3. /\ dialogs' \in Seq(Wallets) /\ IsInjective(dialogs') /\ Started /\ Opening(w) /\ ~Asking(w)'
      /\ \A v \in Wallets : Asking(v)' => Asking(v)
      /\ SlotsOf(posted, w) = {} /\ calls[w] = <<>>
  BY <1>2, DialogIs
<1>4. "onWalletOpened" \in Slots \ {"delete"} /\ "onWalletOpened" \in Early
  BY DEF Slots, Early
<1>5. Goes(w, "onWalletOpened")
  BY <1>2 DEF Goes
<1>6. Posts(w) /\ posted' \in Seq(Events)
  BY <1>1, <1>4, <1>5, GoesIs
<1>7. TypeOK'
  BY <1>1, <1>2, <1>3, <1>6 DEF TypeOK, Events
<1>8. Moves(w)
  BY <1>2, <1>3, <1>6 DEF Moves
<1>9. Knows(w)'
  BY <1>1, <1>2, <1>3, <1>4, <1>5, OpeningGoes
<1>. QED  BY <1>3, <1>7, <1>8, <1>9

LEMMA RejectDialogIs ==
  ASSUME IInv, NEW w \in Wallets, w = Head(dialogs), RejectDialog
  PROVE  TypeOK' /\ Moves(w) /\ Knows(w)' /\ IsInjective(dialogs')
<1>1. TypeOK /\ Knows(w) /\ Whereabouts
  BY DEF IInv
<1>2. /\ dialogs # <<>> /\ dialogs' = Tail(dialogs) /\ Stops(w, "failed")
      /\ UNCHANGED <<calls, stored, raced, imported, clicks>>
  BY DEF RejectDialog
<1>3. /\ dialogs' \in Seq(Wallets) /\ IsInjective(dialogs') /\ Started /\ Opening(w) /\ ~Asking(w)'
      /\ \A v \in Wallets : Asking(v)' => Asking(v)
      /\ SlotsOf(posted, w) = {} /\ calls[w] = <<>>
  BY <1>2, DialogIs
<1>4. /\ posted' \in Seq(Events) /\ Posts(w)
      /\ job' \in [Wallets -> Jobs] /\ app' \in {"running", "quitting", "ended", "crashed"}
      /\ parent' \in [subjobs : Seq(Wallets), failed : BOOLEAN, paused : BOOLEAN]
      /\ ToSet(parent'.subjobs) = ToSet(parent.subjobs) \ {w} /\ \A v \in Wallets \ {w} : job'[v] = job[v]
  BY <1>1, <1>2, StopsIs
<1>5. TypeOK'
  BY <1>1, <1>2, <1>3, <1>4 DEF TypeOK, Events
<1>6. Moves(w)
  BY <1>2, <1>3, <1>4 DEF Moves
<1>7. Knows(w)'
  BY <1>1, <1>2, <1>3, OpeningStops
<1>. QED  BY <1>3, <1>5, <1>6, <1>7

-----------------------------------------------------------------------------
(* An open wallet *)

LEMMA OpenedIsNotOpening ==
  ASSUME NEW w \in Wallets, Knows(w), job[w].folder # None
  PROVE  ~Opening(w)
  BY DEF Knows, Begun, OneChain

\* What a step of an open wallet may do for Begun to hold on.
LEMMA WorksBegun ==
  ASSUME NEW w \in Wallets, Knows(w), job[w].folder # None, UNCHANGED dialogs,
         w \in raced' => w \in raced \/ job[w].status # "Initializing",
         SlotsOf(posted', w) \cap Early \subseteq SlotsOf(posted, w),
         job'[w].killed = job[w].killed, job[w].status # "Initializing" => job'[w].status # "Initializing",
         job'[w].folder \in FolderNames(w), ToSet(job'[w].folders) \subseteq FolderNames(w),
         \A k \in DOMAIN calls'[w] :
            \/ \E j \in DOMAIN calls[w] : calls'[w][k] = calls[w][j]
            \/ calls'[w][k].op = "create" /\ calls'[w][k].folder \in Names /\ calls'[w][k].entry \in Entries
  PROVE  Begun(w)'
<1>1. ~Opening(w) /\ Begun(w)
  BY OpenedIsNotOpening DEF Knows
<1>2. job'[w].folder # None
  BY ContentIs, NoneIsNot
<1>3. ~Opening(w)'
  BY <1>1 DEF Opening, Asking
<1>. QED  BY <1>1, <1>2, <1>3 DEF Begun

\* Where a slot of an open wallet finds its job.
LEMMA LateMeans ==
  ASSUME TypeOK, NEW w \in Wallets, NEW s \in Late, Knows(w), Due(w, s)
  PROVE  /\ Tail(posted) \in Seq(Events) /\ posted # <<>> /\ Head(posted).job = w /\ Started
         /\ s \in SlotsOf(posted, w) /\ SlotsOf(Tail(posted), w) \subseteq SlotsOf(posted, w)
         /\ job[w].folder # None /\ job[w].folder \in FolderNames(w) /\ ToSet(job[w].folders) \subseteq FolderNames(w)
         /\ w \notin raced => /\ Once(Tail(posted), w) /\ SlotsOf(Tail(posted), w) = {} /\ SlotsOf(posted, w) = {s}
                              /\ calls[w] = <<>> /\ ~Asking(w) /\ job[w].results = 0
                              /\ OneChain(w) /\ Copied(w)
<1>1. s \in Slots \ {"delete"}
  BY DEF Late, Slots
<1>2. /\ Tail(posted) \in Seq(Events) /\ posted # <<>> /\ Head(posted).job = w /\ Started
      /\ s \in SlotsOf(posted, w) /\ SlotsOf(Tail(posted), w) \subseteq SlotsOf(posted, w)
      /\ Once(posted, w) => Once(Tail(posted), w) /\ SlotsOf(Tail(posted), w) = {} /\ SlotsOf(posted, w) = {s}
  BY <1>1, Takes
<1>3. /\ job[w].folder # None /\ job[w].folder \in FolderNames(w) /\ ToSet(job[w].folders) \subseteq FolderNames(w)
  BY <1>2 DEF Knows, Begun
<1>4. w \notin raced => OneChain(w) /\ Copied(w)
  BY DEF Knows
<1>5. OneChain(w) => job[w].results = 0
  BY <1>2, NothingYet
<1>. QED  BY <1>2, <1>3, <1>4, <1>5 DEF OneChain

LEMMA IdleIs ==
  ASSUME IInv, NEW w \in Wallets, posted # <<>>, Head(posted).job = w, posted' = Tail(posted),
         UNCHANGED <<app, calls, dialogs, parent, stored, raced, imported, clicks>>,
         \/ job' = job
         \/ job' = [job EXCEPT ![w].alive = FALSE]
  PROVE  TypeOK' /\ Moves(w) /\ Knows(w)'
<1>1. TypeOK /\ Knows(w) /\ posted \in Seq(Events)
  BY DEF IInv, TypeOK, Events
<1>2. job \in [Wallets -> Jobs] /\ job[w] \in Jobs
  BY <1>1 DEF TypeOK
<1>3. [job[w] EXCEPT !.alive = FALSE] \in Jobs
  BY <1>2 DEF Jobs
<1>4. /\ job' \in [Wallets -> Jobs] /\ \A v \in Wallets \ {w} : job'[v] = job[v]
      /\ job'[w] = job[w] \/ job'[w] = [job[w] EXCEPT !.alive = FALSE]
  BY <1>2, <1>3
<1>5. /\ job'[w].killed = job[w].killed /\ job'[w].result = job[w].result /\ job'[w].status = job[w].status
      /\ job'[w].folders = job[w].folders /\ job'[w].folder = job[w].folder
      /\ job'[w].entries = job[w].entries /\ job'[w].results = job[w].results
  BY <1>2, <1>4 DEF Jobs
<1>. HIDE DEF Events
<1>6. /\ Tail(posted) \in Seq(Events) /\ SlotsOf(Tail(posted), w) \subseteq SlotsOf(posted, w)
      /\ Once(posted, w) => Once(Tail(posted), w)
  BY <1>1, TailPosted
<1>7. Started
  <2>1. ~Started => Head(posted).job = None
    BY DEF Started
  <2>. QED  BY <2>1, NoneIsNot
<1>8. TypeOK'
  BY <1>1, <1>4, <1>6 DEF TypeOK, Events
<1>9. Moves(w)
  BY <1>4, <1>7 DEF Moves, Posts, Asking
<1>10. Still(w)
  BY <1>5, <1>6 DEF Still, Asking
<1>11. Knows(w)'
  BY <1>1, <1>10, StillKnows
<1>. QED  BY <1>8, <1>9, <1>11

\* Its first folder is the current one, and all others are to come.
LEMMA OnWalletOpenedIs ==
  ASSUME IInv, NEW w \in Wallets, OnWalletOpened(w)
  PROVE  TypeOK' /\ Moves(w) /\ Knows(w)'
<1>. DEFINE l == FolderList(w)
            q == Tail(posted)
<1>1. TypeOK /\ Knows(w)
  BY DEF IInv
<1>2. /\ Due(w, "onWalletOpened") /\ posted' = Append(q, [job |-> w, slot |-> "processCurrentFolder"])
      /\ job' = [job EXCEPT ![w].folder = Head(l), ![w].folders = Tail(l)]
      /\ UNCHANGED <<app, calls, dialogs, parent, stored, raced, imported, clicks>>
  BY DEF OnWalletOpened, Then
<1>3. /\ {"onWalletOpened", "processCurrentFolder"} \subseteq Slots \ {"delete"}
      /\ "onWalletOpened" \in Early /\ "processCurrentFolder" \notin Early
  BY DEF Slots, Early
<1>4. /\ q \in Seq(Events) /\ posted # <<>> /\ Head(posted).job = w /\ Started
      /\ "onWalletOpened" \in SlotsOf(posted, w)
      /\ Once(posted, w) => Once(q, w) /\ SlotsOf(q, w) = {}
  BY <1>1, <1>2, <1>3, Takes
<1>5. Opening(w)
  BY <1>3, <1>4 DEF Opening
<1>6. /\ w \notin raced /\ ~job[w].killed /\ job[w].status = "Initializing" /\ OneChain(w) /\ Copied(w)
  BY <1>1, <1>5, OpeningMeans
<1>7. calls[w] = <<>> /\ ~Asking(w) /\ SlotsOf(q, w) = {} /\ job[w].results = 0
  BY <1>1, <1>4, <1>6, NothingYet DEF OneChain
<1>8. /\ SlotsOf(Append(q, [job |-> w, slot |-> "processCurrentFolder"]), w) = SlotsOf(q, w) \cup {"processCurrentFolder"}
      /\ Once(Append(q, [job |-> w, slot |-> "processCurrentFolder"]), w)
  BY <1>3, <1>4, <1>7, Adds
<1>9. SlotsOf(posted', w) = {"processCurrentFolder"} /\ Once(posted', w) /\ Posts(w)
  BY <1>2, <1>3, <1>4, <1>7, <1>8 DEF Posts
<1>10. l \in Seq(Names) /\ l # <<>> /\ FolderNames(w) \subseteq Names
  BY ContentIs
<1>11. Head(l) \in Names /\ Tail(l) \in Seq(Names) /\ FolderNames(w) = {Head(l)} \cup ToSet(Tail(l))
  BY <1>10, HeadTailSet DEF FolderNames
<1>12. job \in [Wallets -> Jobs] /\ job[w] \in Jobs
  BY <1>1 DEF TypeOK
<1>. HIDE DEF l
<1>13. [job[w] EXCEPT !.folder = Head(l), !.folders = Tail(l)] \in Jobs
  BY <1>11, <1>12 DEF Jobs
<1>14. /\ job' \in [Wallets -> Jobs] /\ \A v \in Wallets \ {w} : job'[v] = job[v]
       /\ job'[w] = [job[w] EXCEPT !.folder = Head(l), !.folders = Tail(l)]
  BY <1>2, <1>12, <1>13
<1>15. /\ job'[w].folder = Head(l) /\ job'[w].folders = Tail(l) /\ job'[w].killed = job[w].killed
       /\ job'[w].status = job[w].status /\ job'[w].result = job[w].result /\ job'[w].results = job[w].results
  BY <1>12, <1>14 DEF Jobs
<1>16. TypeOK'
  BY <1>1, <1>2, <1>9, <1>14, PostsTyped DEF TypeOK, Events
<1>17. Moves(w)
  BY <1>2, <1>4, <1>9, <1>14 DEF Moves, Asking
<1>18. calls'[w] = <<>> /\ DOMAIN calls'[w] = {} /\ Len(calls'[w]) = 0 /\ ~Asking(w)'
  BY <1>2, <1>7, EmptySet DEF Asking
<1>19. ~Opening(w)' /\ ~InEntries(w)'
  BY <1>3, <1>9, <1>18 DEF Opening, InEntries
<1>20. Begun(w)'
  <2>1. job'[w].folder # None /\ job'[w].folder \in FolderNames(w) /\ ToSet(job'[w].folders) \subseteq FolderNames(w)
    BY <1>11, <1>15, NoneIsNot
  <2>. QED  BY <1>2, <1>6, <1>15, <1>18, <1>19, <2>1 DEF Begun
<1>21. OneChain(w)'
  BY <1>7, <1>9, <1>15, <1>18, <1>19 DEF OneChain
<1>22. Copied(w)'
  <2>1. Whole(w) \subseteq ToCopy(w)'
    <3>1. ASSUME NEW i \in Whole(w) PROVE i \in ToCopy(w)'
      <4>1. i \in [folder : Names, entry : Entries] /\ i.folder \in ToSet(job'[w].folders) \cup {job'[w].folder}
        BY <1>11, <1>15, InWhole
      <4>. QED  BY <1>19, <4>1 DEF ToCopy
    <3>. QED  BY <3>1
  <2>2. stored'[w] \subseteq Whole(w) /\ (job'[w].result = "ok" /\ Marker[w] # "fresh" => Whole(w) \subseteq stored'[w])
    BY <1>2, <1>6, <1>15 DEF Copied
  <2>3. "processNextFolder" \notin SlotsOf(posted', w)
    BY <1>9
  <2>. QED  BY <1>18, <1>19, <2>1, <2>2, <2>3 DEF Copied, Whole
<1>. QED  BY <1>16, <1>17, <1>20, <1>21, <1>22 DEF Knows

\* Its entries are to come, and nothing else changes.
LEMMA ProcessCurrentFolderIs ==
  ASSUME IInv, NEW w \in Wallets, ProcessCurrentFolder(w)
  PROVE  TypeOK' /\ Moves(w) /\ Knows(w)'
<1>. DEFINE l == EntryList(w, job[w].folder)
            q == Tail(posted)
<1>1. TypeOK /\ Knows(w)
  BY DEF IInv
<1>2. Due(w, "processCurrentFolder") /\ UNCHANGED <<dialogs, stored, raced, imported, clicks>>
  BY DEF ProcessCurrentFolder
<1>3. /\ "processCurrentFolder" \in Late /\ "processNextEntry" \in Late /\ Late \subseteq Slots \ {"delete"}
      /\ Late \cap Early = {}
  BY DEF Slots, Early, Late
<1>4. /\ q \in Seq(Events) /\ posted # <<>> /\ Head(posted).job = w /\ Started
      /\ SlotsOf(q, w) \subseteq SlotsOf(posted, w)
      /\ job[w].folder # None /\ job[w].folder \in FolderNames(w) /\ ToSet(job[w].folders) \subseteq FolderNames(w)
      /\ w \notin raced => /\ SlotsOf(q, w) = {} /\ calls[w] = <<>> /\ ~Asking(w) /\ job[w].results = 0
                           /\ OneChain(w) /\ Copied(w)
  BY <1>1, <1>2, <1>3, LateMeans
<1>5. CASE ~CanProceed(w)
  BY <1>2, <1>4, <1>5, IdleIs DEF ProcessCurrentFolder, Idle
<1>6. CASE CanProceed(w)
  <2>1. /\ posted' = Append(q, [job |-> w, slot |-> "processNextEntry"])
        /\ job' = [job EXCEPT ![w].entries = l] /\ UNCHANGED <<app, calls, parent>>
    BY <1>6 DEF ProcessCurrentFolder, Then
  <2>2. l \in Seq(Entries)
    BY <1>4, EntryListType
  <2>. HIDE DEF l
  <2>3. job \in [Wallets -> Jobs] /\ job[w] \in Jobs
    BY <1>1 DEF TypeOK
  <2>4. [job[w] EXCEPT !.entries = l] \in Jobs
    BY <2>2, <2>3 DEF Jobs
  <2>5. /\ job' \in [Wallets -> Jobs] /\ \A v \in Wallets \ {w} : job'[v] = job[v]
        /\ job'[w] = [job[w] EXCEPT !.entries = l]
    BY <2>1, <2>3, <2>4
  <2>6. /\ job'[w].entries = l /\ job'[w].folders = job[w].folders /\ job'[w].killed = job[w].killed
        /\ job'[w].status = job[w].status /\ job'[w].result = job[w].result /\ job'[w].results = job[w].results
        /\ job'[w].folder = job[w].folder
    BY <2>3, <2>5 DEF Jobs
  <2>7. /\ SlotsOf(Append(q, [job |-> w, slot |-> "processNextEntry"]), w) = SlotsOf(q, w) \cup {"processNextEntry"}
        /\ SlotsOf(q, w) = {} => Once(Append(q, [job |-> w, slot |-> "processNextEntry"]), w)
    BY <1>3, <1>4, Adds
  <2>8. /\ SlotsOf(posted', w) = SlotsOf(q, w) \cup {"processNextEntry"} /\ Posts(w)
        /\ SlotsOf(q, w) = {} => Once(posted', w)
    BY <1>3, <1>4, <2>1, <2>7 DEF Posts
  <2>9. TypeOK'
    BY <1>1, <1>2, <2>1, <2>5, <2>8, PostsTyped DEF TypeOK, Events
  <2>10. Moves(w)
    BY <1>2, <1>4, <2>1, <2>5, <2>8 DEF Moves, Asking
  <2>11. Begun(w)'
    <3>1. SlotsOf(posted', w) \cap Early \subseteq SlotsOf(posted, w)
      BY <1>3, <1>4, <2>8
    <3>. QED  BY <1>1, <1>2, <1>4, <2>1, <2>6, <3>1, WorksBegun
  <2>12. ASSUME w \notin raced' PROVE OneChain(w)' /\ Copied(w)'
    <3>1. /\ SlotsOf(q, w) = {} /\ calls[w] = <<>> /\ ~Asking(w) /\ job[w].results = 0
          /\ OneChain(w) /\ Copied(w) /\ w \notin raced
      BY <1>2, <1>4, <2>12
    <3>2. SlotsOf(posted', w) = {"processNextEntry"} /\ Once(posted', w)
      BY <2>8, <3>1
    <3>3. calls'[w] = <<>> /\ DOMAIN calls'[w] = {} /\ Len(calls'[w]) = 0 /\ ~Asking(w)'
      BY <1>2, <2>1, <3>1, EmptySet DEF Asking
    <3>4. InEntries(w)' /\ ~Opening(w)'
      BY <1>3, <3>2, <3>3 DEF InEntries, Opening
    <3>5. OneChain(w)'
      BY <2>6, <3>1, <3>2, <3>3, <3>4 DEF OneChain
    <3>6. Whole(w) \subseteq stored[w] \cup ToCopy(w)'
      <4>1. ASSUME NEW i \in Whole(w), i \notin stored[w] PROVE i \in ToCopy(w)'
        <5>1. i \in [folder : Names, entry : Entries] /\ i.entry \in ToSet(EntryList(w, i.folder))
          BY InWhole
        <5>2. i \in ToCopy(w)
          BY <1>4, <3>1, <4>1 DEF Copied
        <5>3. i.folder \in ToSet(job[w].folders) \/ i.folder = job[w].folder
          BY <3>1, <5>2, EmptySet DEF ToCopy
        <5>. QED  BY <2>6, <5>1, <5>3 DEF ToCopy, l
      <4>. QED  BY <4>1
    <3>7. stored'[w] \subseteq Whole(w) /\ (job'[w].result = "ok" /\ Marker[w] # "fresh" => Whole(w) \subseteq stored'[w])
      BY <1>2, <2>6, <3>1 DEF Copied
    <3>8. ToSet(job'[w].entries) \subseteq ToSet(EntryList(w, job'[w].folder))
      BY <2>6 DEF l
    <3>9. Copied(w)'
      BY <1>2, <3>2, <3>3, <3>6, <3>7, <3>8 DEF Copied, Whole, EntryList
    <3>. QED  BY <3>5, <3>9
  <2>. QED  BY <2>9, <2>10, <2>11, <2>12 DEF Knows
<1>. QED  BY <1>5, <1>6

\* The next entry is sent to the service, or the folder is done.
LEMMA ProcessNextEntryIs ==
  ASSUME IInv, NEW w \in Wallets, ProcessNextEntry(w)
  PROVE  TypeOK' /\ Moves(w) /\ Knows(w)'
<1>. DEFINE q == Tail(posted)
<1>1. TypeOK /\ Knows(w)
  BY DEF IInv
<1>2. Due(w, "processNextEntry") /\ UNCHANGED <<dialogs, stored, raced, imported, clicks>>
  BY DEF ProcessNextEntry
<1>3. /\ "processNextFolder" \in Late /\ "processNextEntry" \in Late /\ Late \subseteq Slots \ {"delete"}
      /\ Late \cap Early = {}
  BY DEF Slots, Early, Late
<1>4. /\ q \in Seq(Events) /\ posted # <<>> /\ Head(posted).job = w /\ Started
      /\ SlotsOf(q, w) \subseteq SlotsOf(posted, w) /\ "processNextEntry" \in SlotsOf(posted, w)
      /\ job[w].folder # None /\ job[w].folder \in FolderNames(w) /\ ToSet(job[w].folders) \subseteq FolderNames(w)
      /\ w \notin raced => /\ SlotsOf(q, w) = {} /\ calls[w] = <<>> /\ ~Asking(w) /\ job[w].results = 0
                           /\ OneChain(w) /\ Copied(w) /\ Once(q, w)
  BY <1>1, <1>2, <1>3, LateMeans
<1>5. /\ job \in [Wallets -> Jobs] /\ job[w] \in Jobs /\ job[w].entries \in Seq(Entries)
      /\ InEntries(w) /\ job[w].folder \in Names
  BY <1>1, <1>4, ContentIs DEF TypeOK, Jobs, InEntries
<1>6. ASSUME NEW i \in Whole(w), i \notin stored[w], w \notin raced
      PROVE  \/ i.folder \in ToSet(job[w].folders)
             \/ i.folder = job[w].folder /\ i.entry \in ToSet(job[w].entries)
  <2>1. i \in ToCopy(w)
    BY <1>4, <1>6 DEF Copied
  <2>. QED  BY <1>4, <1>5, <1>6, <2>1, EmptySet DEF ToCopy
<1>7. CASE ~CanProceed(w)
  BY <1>2, <1>4, <1>7, IdleIs DEF ProcessNextEntry, Idle
<1>8. CASE CanProceed(w) /\ job[w].entries = <<>>
  <2>1. /\ posted' = Append(q, [job |-> w, slot |-> "processNextFolder"])
        /\ UNCHANGED <<app, calls, parent, job>>
    BY <1>8 DEF ProcessNextEntry, Then
  <2>2. /\ SlotsOf(Append(q, [job |-> w, slot |-> "processNextFolder"]), w) = SlotsOf(q, w) \cup {"processNextFolder"}
        /\ SlotsOf(q, w) = {} => Once(Append(q, [job |-> w, slot |-> "processNextFolder"]), w)
    BY <1>3, <1>4, Adds
  <2>3. /\ SlotsOf(posted', w) = SlotsOf(q, w) \cup {"processNextFolder"} /\ Posts(w)
        /\ SlotsOf(q, w) = {} => Once(posted', w)
    BY <1>3, <1>4, <2>1, <2>2 DEF Posts
  <2>4. TypeOK'
    BY <1>1, <1>2, <2>1, <2>3, PostsTyped DEF TypeOK, Events
  <2>5. Moves(w)
    BY <1>2, <1>4, <2>1, <2>3 DEF Moves, Asking
  <2>6. Begun(w)'
    <3>1. SlotsOf(posted', w) \cap Early \subseteq SlotsOf(posted, w)
      BY <1>3, <1>4, <2>3
    <3>. QED  BY <1>1, <1>2, <1>4, <2>1, <3>1, WorksBegun
  <2>7. ASSUME w \notin raced' PROVE OneChain(w)' /\ Copied(w)'
    <3>1. /\ SlotsOf(q, w) = {} /\ calls[w] = <<>> /\ ~Asking(w) /\ job[w].results = 0
          /\ OneChain(w) /\ Copied(w) /\ w \notin raced
      BY <1>2, <1>4, <2>7
    <3>2. SlotsOf(posted', w) = {"processNextFolder"} /\ Once(posted', w)
      BY <2>3, <3>1
    <3>3. calls'[w] = <<>> /\ DOMAIN calls'[w] = {} /\ Len(calls'[w]) = 0 /\ ~Asking(w)'
      BY <1>2, <2>1, <3>1, EmptySet DEF Asking
    <3>4. InEntries(w)' /\ ~Opening(w)'
      BY <1>3, <3>2, <3>3 DEF InEntries, Opening
    <3>5. OneChain(w)'
      BY <2>1, <3>1, <3>2, <3>3, <3>4 DEF OneChain
    <3>6. ToCopy(w) \subseteq ToCopy(w)'
      BY <1>5, <2>1 DEF ToCopy
    <3>7. Copied(w)'
      BY <1>2, <1>5, <1>8, <2>1, <3>1, <3>3, <3>6 DEF Copied, Whole, EntryList
    <3>. QED  BY <3>5, <3>7
  <2>. QED  BY <2>4, <2>5, <2>6, <2>7 DEF Knows
<1>9. CASE CanProceed(w) /\ job[w].entries # <<>>
  <2>. DEFINE e == Head(job[w].entries)
              es == Tail(job[w].entries)
  <2>1. /\ job' = [job EXCEPT ![w].entries = es] /\ Call(w, "create", e) /\ posted' = q
        /\ UNCHANGED <<app, parent>>
    BY <1>5, <1>9 DEF ProcessNextEntry
  <2>2. e \in Entries /\ es \in Seq(Entries) /\ ToSet(job[w].entries) = {e} \cup ToSet(es)
    BY <1>5, <1>9, HeadTailSet
  <2>. HIDE DEF e, es
  <2>3. [job[w] EXCEPT !.entries = es] \in Jobs
    BY <1>5, <2>2 DEF Jobs
  <2>4. /\ job' \in [Wallets -> Jobs] /\ \A v \in Wallets \ {w} : job'[v] = job[v]
        /\ job'[w] = [job[w] EXCEPT !.entries = es]
    BY <1>5, <2>1, <2>3
  <2>5. /\ job'[w].entries = es /\ job'[w].folders = job[w].folders /\ job'[w].killed = job[w].killed
        /\ job'[w].status = job[w].status /\ job'[w].result = job[w].result /\ job'[w].results = job[w].results
        /\ job'[w].folder = job[w].folder
    BY <1>5, <2>4 DEF Jobs
  <2>6. /\ calls' \in [Wallets -> Seq(Requests)] /\ \A v \in Wallets \ {w} : calls'[v] = calls[v]
        /\ Len(calls'[w]) = Len(calls[w]) + 1 /\ calls'[w] # <<>>
        /\ \A k \in DOMAIN calls'[w] : \/ k \in DOMAIN calls[w] /\ calls'[w][k] = calls[w][k]
                                       \/ /\ calls'[w][k].op = "create" /\ calls'[w][k].entry = e
                                          /\ calls'[w][k].folder = job[w].folder
        /\ \E k \in DOMAIN calls'[w] : calls'[w][k].op = "create" /\ calls'[w][k].entry = e
                                       /\ calls'[w][k].folder = job[w].folder
    BY <1>1, <2>1, <2>2, CallIs
  <2>7. TypeOK'
    BY <1>1, <1>2, <1>4, <2>1, <2>4, <2>6 DEF TypeOK, Events
  <2>8. Moves(w)
    BY <1>2, <1>4, <2>1, <2>4, <2>6 DEF Moves, Posts, Asking
  <2>9. Begun(w)'
    <3>1. SlotsOf(posted', w) \cap Early \subseteq SlotsOf(posted, w)
      BY <1>4, <2>1
    <3>2. \A k \in DOMAIN calls'[w] :
             \/ \E j \in DOMAIN calls[w] : calls'[w][k] = calls[w][j]
             \/ calls'[w][k].op = "create" /\ calls'[w][k].folder \in Names /\ calls'[w][k].entry \in Entries
      BY <1>5, <2>2, <2>6
    <3>. QED  BY <1>1, <1>2, <1>4, <2>5, <3>1, <3>2, WorksBegun
  <2>10. ASSUME w \notin raced' PROVE OneChain(w)' /\ Copied(w)'
    <3>1. /\ SlotsOf(q, w) = {} /\ calls[w] = <<>> /\ ~Asking(w) /\ job[w].results = 0 /\ Once(q, w)
          /\ OneChain(w) /\ Copied(w) /\ w \notin raced
      BY <1>2, <1>4, <2>10
    <3>2. SlotsOf(posted', w) = {} /\ Once(posted', w)
      BY <2>1, <3>1
    <3>3. /\ Len(calls'[w]) = 1 /\ ~Asking(w)' /\ InEntries(w)'
          /\ \A k \in DOMAIN calls'[w] : calls'[w][k].op = "create" /\ calls'[w][k].entry = e
                                         /\ calls'[w][k].folder = job[w].folder
      BY <1>2, <2>6, <3>1, EmptySet DEF Asking, InEntries
    <3>4. ~Opening(w)'
      BY <3>2, <3>3 DEF Opening
    <3>5. OneChain(w)'
      BY <2>5, <3>1, <3>2, <3>3, <3>4 DEF OneChain
    <3>6. Whole(w) \subseteq stored[w] \cup ToCopy(w)'
      <4>1. ASSUME NEW i \in Whole(w), i \notin stored[w] PROVE i \in ToCopy(w)'
        <5>1. i \in [folder : Names, entry : Entries]
          BY InWhole
        <5>2. CASE i.folder \in ToSet(job[w].folders)
          BY <2>5, <5>1, <5>2 DEF ToCopy
        <5>3. CASE i.folder = job[w].folder /\ i.entry \in ToSet(es)
          BY <2>5, <5>1, <5>3 DEF ToCopy
        <5>4. CASE i.folder = job[w].folder /\ i.entry = e
          BY <2>6, <5>1, <5>4 DEF ToCopy
        <5>. QED  BY <1>6, <2>2, <3>1, <4>1, <5>2, <5>3, <5>4
      <4>. QED  BY <4>1
    <3>7. stored'[w] \subseteq Whole(w) /\ (job'[w].result = "ok" /\ Marker[w] # "fresh" => Whole(w) \subseteq stored'[w])
      BY <1>2, <2>5, <3>1 DEF Copied
    <3>8. ToSet(job[w].entries) \subseteq ToSet(EntryList(w, job[w].folder))
      BY <1>4, <1>5, <3>1 DEF Copied
    <3>9. e \in ToSet(EntryList(w, job[w].folder)) /\ ToSet(es) \subseteq ToSet(EntryList(w, job[w].folder))
      BY <2>2, <3>8
    <3>10. job'[w].entries = es /\ job'[w].folder = job[w].folder /\ stored'[w] = stored[w]
      BY <1>2, <2>5
    <3>11. "processNextFolder" \notin SlotsOf(posted', w)
      BY <3>2
    <3>12. \A k \in DOMAIN calls'[w] : calls'[w][k].op = "create" =>
             /\ calls'[w][k].folder = job'[w].folder
             /\ calls'[w][k].entry \in ToSet(EntryList(w, job'[w].folder))
      BY <3>3, <3>9, <3>10
    <3>13. Copied(w)'
      BY <3>6, <3>7, <3>9, <3>10, <3>11, <3>12 DEF Copied, Whole, EntryList
    <3>. QED  BY <3>5, <3>13
  <2>. QED  BY <2>7, <2>8, <2>9, <2>10 DEF Knows
<1>. QED  BY <1>7, <1>8, <1>9

\* The next folder begins, or all of them are copied.
LEMMA ProcessNextFolderIs ==
  ASSUME IInv, NEW w \in Wallets, ProcessNextFolder(w)
  PROVE  TypeOK' /\ Moves(w) /\ Knows(w)'
<1>. DEFINE q == Tail(posted)
            begun == [job EXCEPT ![w].status = "ProcessingNextFolder"]
<1>1. TypeOK /\ Knows(w) /\ Whereabouts
  BY DEF IInv
<1>2. Due(w, "processNextFolder") /\ UNCHANGED <<dialogs, stored, raced, imported, clicks>>
  BY DEF ProcessNextFolder
<1>3. /\ "processNextFolder" \in Late /\ "processCurrentFolder" \in Late /\ Late \subseteq Slots \ {"delete"}
      /\ Late \cap Early = {} /\ "delete" \in Slots
  BY DEF Slots, Early, Late
<1>4. /\ q \in Seq(Events) /\ posted # <<>> /\ Head(posted).job = w /\ Started
      /\ SlotsOf(q, w) \subseteq SlotsOf(posted, w) /\ "processNextFolder" \in SlotsOf(posted, w)
      /\ job[w].folder # None /\ job[w].folder \in FolderNames(w) /\ ToSet(job[w].folders) \subseteq FolderNames(w)
      /\ w \notin raced => /\ SlotsOf(q, w) = {} /\ calls[w] = <<>> /\ ~Asking(w) /\ job[w].results = 0
                           /\ OneChain(w) /\ Copied(w) /\ Once(q, w)
  BY <1>1, <1>2, <1>3, LateMeans
<1>5. /\ job \in [Wallets -> Jobs] /\ job[w] \in Jobs /\ job[w].folders \in Seq(Names) /\ InEntries(w)
  BY <1>1, <1>4 DEF TypeOK, Jobs, InEntries
<1>6. ASSUME NEW i \in Whole(w), i \notin stored[w], w \notin raced
      PROVE  i.folder \in ToSet(job[w].folders)
  <2>1. i \in ToCopy(w) /\ ToSet(job[w].entries) = {}
    BY <1>4, <1>6, EmptySet DEF Copied
  <2>. QED  BY <1>4, <1>5, <1>6, <2>1, EmptySet DEF ToCopy
<1>7. [job[w] EXCEPT !.status = "ProcessingNextFolder"] \in Jobs
  BY <1>5 DEF Jobs
<1>8. /\ begun \in [Wallets -> Jobs] /\ \A v \in Wallets \ {w} : begun[v] = job[v]
      /\ begun[w] = [job[w] EXCEPT !.status = "ProcessingNextFolder"] /\ begun[w] \in Jobs
  BY <1>5, <1>7
<1>9. /\ begun[w].status = "ProcessingNextFolder" /\ begun[w].folders = job[w].folders /\ begun[w].killed = job[w].killed
      /\ begun[w].folder = job[w].folder /\ begun[w].entries = job[w].entries
      /\ begun[w].result = job[w].result /\ begun[w].results = job[w].results
  BY <1>5, <1>8 DEF Jobs
<1>10. CASE ~CanProceed(w)
  BY <1>2, <1>4, <1>10, IdleIs DEF ProcessNextFolder, Idle
<1>11. CASE CanProceed(w) /\ job[w].folders = <<>>
  <2>1. Finish(begun, w, "ok") /\ posted' = Append(q, [job |-> w, slot |-> "delete"]) /\ UNCHANGED calls
    BY <1>11 DEF ProcessNextFolder, Then
  <2>. HIDE DEF begun
  <2>2. /\ job' = [begun EXCEPT ![w].result = "ok", ![w].results = @ + 1]
        /\ job' \in [Wallets -> Jobs] /\ app' \in {"running", "quitting", "ended", "crashed"}
        /\ parent' \in [subjobs : Seq(Wallets), failed : BOOLEAN, paused : BOOLEAN]
        /\ ToSet(parent'.subjobs) = ToSet(parent.subjobs) \ {w}
    BY <1>1, <1>8, <2>1, FinishIs
  <2>3. /\ \A v \in Wallets \ {w} : job'[v] = job[v]
        /\ job'[w] = [begun[w] EXCEPT !.result = "ok", !.results = @ + 1]
    BY <1>8, <2>2
  <2>4. /\ job'[w].status = "ProcessingNextFolder" /\ job'[w].folders = job[w].folders /\ job'[w].killed = job[w].killed
        /\ job'[w].folder = job[w].folder /\ job'[w].entries = job[w].entries
        /\ job'[w].result = "ok" /\ job'[w].results = job[w].results + 1
    BY <1>8, <1>9, <2>3 DEF Jobs
  <2>5. /\ SlotsOf(Append(q, [job |-> w, slot |-> "delete"]), w) = SlotsOf(q, w)
        /\ SlotsOf(q, w) = {} => Once(Append(q, [job |-> w, slot |-> "delete"]), w)
    BY <1>3, <1>4, Adds
  <2>6. /\ SlotsOf(posted', w) = SlotsOf(q, w) /\ Posts(w) /\ (SlotsOf(q, w) = {} => Once(posted', w))
    BY <1>3, <1>4, <2>1, <2>5 DEF Posts
  <2>7. TypeOK'
    BY <1>1, <1>2, <2>1, <2>2, <2>6, PostsTyped DEF TypeOK, Events
  <2>8. Moves(w)
    BY <1>2, <1>4, <2>1, <2>2, <2>3, <2>6 DEF Moves, Asking
  <2>9. Begun(w)'
    <3>1. SlotsOf(posted', w) \cap Early \subseteq SlotsOf(posted, w)
      BY <1>4, <2>6
    <3>. QED  BY <1>1, <1>2, <1>4, <2>1, <2>4, <3>1, WorksBegun
  <2>10. ASSUME w \notin raced' PROVE OneChain(w)' /\ Copied(w)'
    <3>1. /\ SlotsOf(q, w) = {} /\ calls[w] = <<>> /\ ~Asking(w) /\ job[w].results = 0 /\ Once(q, w)
          /\ OneChain(w) /\ Copied(w) /\ w \notin raced
      BY <1>2, <1>4, <2>10
    <3>2. SlotsOf(posted', w) = {} /\ Once(posted', w)
      BY <2>6, <3>1
    <3>3. /\ calls'[w] = <<>> /\ DOMAIN calls'[w] = {} /\ Len(calls'[w]) = 0 /\ ~Asking(w)'
          /\ ~InEntries(w)' /\ ~Opening(w)'
      BY <1>2, <2>1, <3>1, <3>2, EmptySet DEF Asking, InEntries, Opening
    <3>4. (w \notin ToSet(parent.subjobs))'
      BY <2>2 DEF ToSet
    <3>5. OneChain(w)'
      BY <2>4, <3>1, <3>2, <3>3, <3>4 DEF OneChain
    <3>6. Whole(w) \subseteq stored[w]
      BY <1>6, <1>11, <3>1, EmptySet
    <3>7. Copied(w)'
      BY <1>2, <3>1, <3>2, <3>3, <3>6 DEF Copied, Whole
    <3>. QED  BY <3>5, <3>7
  <2>. QED  BY <2>7, <2>8, <2>9, <2>10 DEF Knows
<1>12. CASE CanProceed(w) /\ job[w].folders # <<>>
  <2>. DEFINE f == Head(job[w].folders)
              fs == Tail(job[w].folders)
  <2>1. /\ job' = [begun EXCEPT ![w].folder = f, ![w].folders = Tail(begun[w].folders)]
        /\ posted' = Append(q, [job |-> w, slot |-> "processCurrentFolder"])
        /\ UNCHANGED <<app, calls, parent>>
    BY <1>8, <1>12 DEF ProcessNextFolder, Then
  <2>2. f \in Names /\ fs \in Seq(Names) /\ ToSet(job[w].folders) = {f} \cup ToSet(fs)
    BY <1>5, <1>12, HeadTailSet
  <2>3. job' = [begun EXCEPT ![w].folder = f, ![w].folders = fs]
    BY <1>9, <2>1
  <2>. HIDE DEF f, fs, begun
  <2>4. [begun[w] EXCEPT !.folder = f, !.folders = fs] \in Jobs
    BY <1>8, <2>2 DEF Jobs
  <2>5. /\ job' \in [Wallets -> Jobs] /\ \A v \in Wallets \ {w} : job'[v] = job[v]
        /\ job'[w] = [begun[w] EXCEPT !.folder = f, !.folders = fs]
    BY <1>8, <2>3, <2>4
  <2>6. /\ job'[w].status = "ProcessingNextFolder" /\ job'[w].folders = fs /\ job'[w].killed = job[w].killed
        /\ job'[w].folder = f /\ job'[w].entries = job[w].entries
        /\ job'[w].result = job[w].result /\ job'[w].results = job[w].results
    BY <1>8, <1>9, <2>5 DEF Jobs
  <2>7. /\ SlotsOf(Append(q, [job |-> w, slot |-> "processCurrentFolder"]), w) = SlotsOf(q, w) \cup {"processCurrentFolder"}
        /\ SlotsOf(q, w) = {} => Once(Append(q, [job |-> w, slot |-> "processCurrentFolder"]), w)
    BY <1>3, <1>4, Adds
  <2>8. /\ SlotsOf(posted', w) = SlotsOf(q, w) \cup {"processCurrentFolder"} /\ Posts(w)
        /\ SlotsOf(q, w) = {} => Once(posted', w)
    BY <1>3, <1>4, <2>1, <2>7 DEF Posts
  <2>9. TypeOK'
    BY <1>1, <1>2, <2>1, <2>5, <2>8, PostsTyped DEF TypeOK, Events
  <2>10. Moves(w)
    BY <1>2, <1>4, <2>1, <2>5, <2>8 DEF Moves, Asking
  <2>11. Begun(w)'
    <3>1. SlotsOf(posted', w) \cap Early \subseteq SlotsOf(posted, w)
      BY <1>3, <1>4, <2>8
    <3>2. f \in FolderNames(w) /\ ToSet(fs) \subseteq FolderNames(w)
      BY <1>4, <2>2
    <3>. QED  BY <1>1, <1>2, <1>4, <2>1, <2>6, <3>1, <3>2, WorksBegun
  <2>12. ASSUME w \notin raced' PROVE OneChain(w)' /\ Copied(w)'
    <3>1. /\ SlotsOf(q, w) = {} /\ calls[w] = <<>> /\ ~Asking(w) /\ job[w].results = 0 /\ Once(q, w)
          /\ OneChain(w) /\ Copied(w) /\ w \notin raced
      BY <1>2, <1>4, <2>12
    <3>2. SlotsOf(posted', w) = {"processCurrentFolder"} /\ Once(posted', w)
      BY <2>8, <3>1
    <3>3. /\ calls'[w] = <<>> /\ DOMAIN calls'[w] = {} /\ Len(calls'[w]) = 0 /\ ~Asking(w)'
      BY <1>2, <2>1, <3>1, EmptySet DEF Asking
    <3>4. ~InEntries(w)' /\ ~Opening(w)'
      BY <1>3, <3>2, <3>3 DEF InEntries, Opening
    <3>5. OneChain(w)'
      BY <2>6, <3>1, <3>2, <3>3, <3>4 DEF OneChain
    <3>6. Whole(w) \subseteq stored[w] \cup ToCopy(w)'
      <4>1. ASSUME NEW i \in Whole(w), i \notin stored[w] PROVE i \in ToCopy(w)'
        <5>1. i \in [folder : Names, entry : Entries] /\ i.folder \in {f} \cup ToSet(fs)
          BY <1>6, <2>2, <3>1, <4>1, InWhole
        <5>. QED  BY <2>6, <3>4, <5>1 DEF ToCopy
      <4>. QED  BY <4>1
    <3>7. stored'[w] \subseteq Whole(w) /\ (job'[w].result = "ok" /\ Marker[w] # "fresh" => Whole(w) \subseteq stored'[w])
      BY <1>2, <2>6, <3>1 DEF Copied
    <3>8. Copied(w)'
      BY <1>2, <3>2, <3>3, <3>4, <3>6, <3>7 DEF Copied, Whole
    <3>. QED  BY <3>5, <3>8
  <2>. QED  BY <2>9, <2>10, <2>11, <2>12 DEF Knows
<1>. QED  BY <1>10, <1>11, <1>12

\* The answer to createItem: the item is there, or the import has failed.
LEMMA CreateItemFinishedIs ==
  ASSUME IInv, NEW w \in Wallets, NEW i \in DOMAIN calls[w], UNCHANGED <<dialogs, raced, imported, clicks>>,
         CreateItemFinished(w, i)
  PROVE  TypeOK' /\ Moves(w) /\ Knows(w)'
<1>. DEFINE it == [folder |-> calls[w][i].folder, entry |-> calls[w][i].entry]
<1>1. TypeOK /\ Knows(w) /\ Whereabouts
  BY DEF IInv
<1>2. calls[w][i].op = "create" /\ Answered(w, i)
  BY DEF CreateItemFinished
<1>3. /\ calls' \in [Wallets -> Seq(Requests)] /\ \A v \in Wallets \ {w} : calls'[v] = calls[v]
      /\ \A k \in DOMAIN calls'[w] : \E j \in DOMAIN calls[w] : calls'[w][k] = calls[w][j]
      /\ Len(calls[w]) <= 1 => calls'[w] = <<>>
  BY <1>1, <1>2, AnsweredIs
<1>4. calls[w] # <<>>
  BY EmptySet
<1>5. /\ job[w].folder # None /\ job[w].folder \in FolderNames(w) /\ ToSet(job[w].folders) \subseteq FolderNames(w)
      /\ calls[w][i].folder \in Names /\ calls[w][i].entry \in Entries
  BY <1>1, <1>2 DEF Knows, Begun
<1>6. /\ job \in [Wallets -> Jobs] /\ job[w] \in Jobs /\ InEntries(w)
      /\ stored \in [Wallets -> SUBSET [folder : Names, entry : Entries]]
  BY <1>1, <1>4 DEF TypeOK, InEntries
<1>7. it \in [folder : Names, entry : Entries] /\ it.folder = calls[w][i].folder /\ it.entry = calls[w][i].entry
  BY <1>5
<1>8. Started
  BY <1>1, <1>4, CallsMeanStarted
<1>9. ASSUME w \notin raced
      PROVE  /\ OneChain(w) /\ Copied(w) /\ SlotsOf(posted, w) = {} /\ ~Asking(w) /\ job[w].results = 0
             /\ Len(calls[w]) <= 1 /\ calls'[w] = <<>> /\ Once(posted, w)
             /\ it \in Whole(w) /\ it.folder = job[w].folder
             /\ \A k \in DOMAIN calls[w] : k = i
  <2>1. OneChain(w) /\ Copied(w)
    BY <1>1, <1>9 DEF Knows
  <2>2. SlotsOf(posted, w) = {} /\ ~Asking(w) /\ Len(calls[w]) <= 1 /\ Once(posted, w) /\ job[w].results = 0
    BY <1>1, <1>4, <2>1, NothingYet DEF OneChain
  <2>3. calls[w][i].folder = job[w].folder /\ calls[w][i].entry \in ToSet(EntryList(w, job[w].folder))
    BY <1>2, <2>1 DEF Copied
  <2>4. it \in Whole(w)
    BY <1>5, <2>3, WholeMeans
  <2>5. calls[w] \in Seq(Requests)
    BY <1>1 DEF TypeOK
  <2>6. DOMAIN calls[w] = 1 .. Len(calls[w]) /\ Len(calls[w]) \in Nat
    BY <2>5, LenProperties
  <2>7. \A k \in DOMAIN calls[w] : k = i
    BY <2>2, <2>6
  <2>. QED  BY <1>3, <1>7, <2>1, <2>2, <2>3, <2>4, <2>7
<1>. HIDE DEF it
<1>10. ASSUME NEW x \in Whole(w), x \notin stored[w], w \notin raced
       PROVE  /\ x \in [folder : Names, entry : Entries]
              /\ \/ x.folder \in ToSet(job[w].folders)
                 \/ x.folder = job[w].folder /\ x.entry \in ToSet(job[w].entries)
                 \/ x = it
  <2>1. x \in ToCopy(w) /\ x \in [folder : Names, entry : Entries]
    BY <1>5, <1>9, <1>10, InWhole DEF Copied
  <2>2. ASSUME NEW k \in DOMAIN calls[w], x.folder = calls[w][k].folder, x.entry = calls[w][k].entry
        PROVE  x = it
    <3>1. x.folder = it.folder /\ x.entry = it.entry
      BY <1>7, <1>9, <1>10, <2>2
    <3>. QED  BY <1>7, <2>1, <3>1
  <2>. QED  BY <1>6, <2>1, <2>2 DEF ToCopy
<1>11. ASSUME stored' = Stores(w, calls[w][i])
       PROVE  /\ stored' \in [Wallets -> SUBSET [folder : Names, entry : Entries]]
              /\ stored'[w] = stored[w] \cup {it} /\ \A v \in Wallets \ {w} : stored'[v] = stored[v]
  BY <1>6, <1>7, <1>11 DEF Stores, it
<1>12. {"processNextEntry"} \subseteq Late /\ Late \subseteq Slots \ {"delete"} /\ Late \cap Early = {}
  BY DEF Slots, Early, Late
<1>13. CASE stored' = Stores(w, calls[w][i]) /\ Goes(w, "processNextEntry")
  <2>1. /\ posted' \in Seq(Events) /\ Posts(w) /\ SlotsOf(posted', w) = SlotsOf(posted, w) \cup {"processNextEntry"}
        /\ SlotsOf(posted, w) = {} => Once(posted', w)
        /\ UNCHANGED <<app, parent, job>>
    BY <1>1, <1>12, <1>13, GoesIs DEF Goes
  <2>2. TypeOK'
    BY <1>1, <1>3, <1>11, <1>13, <2>1 DEF TypeOK, Events
  <2>3. Moves(w)
    BY <1>3, <1>8, <1>11, <1>13, <2>1 DEF Moves, Asking
  <2>4. Begun(w)'
    <3>1. SlotsOf(posted', w) \cap Early \subseteq SlotsOf(posted, w)
      BY <1>12, <2>1
    <3>. QED  BY <1>1, <1>3, <1>5, <2>1, <3>1, WorksBegun
  <2>5. ASSUME w \notin raced' PROVE OneChain(w)' /\ Copied(w)'
    <3>1. w \notin raced
      BY <2>5
    <3>2. SlotsOf(posted', w) = {"processNextEntry"} /\ Once(posted', w)
      BY <1>9, <2>1, <3>1
    <3>3. calls'[w] = <<>> /\ DOMAIN calls'[w] = {} /\ Len(calls'[w]) = 0 /\ ~Asking(w)'
      BY <1>9, <3>1, EmptySet DEF Asking
    <3>4. InEntries(w)' /\ ~Opening(w)'
      BY <1>12, <3>2, <3>3 DEF InEntries, Opening
    <3>5. OneChain(w)'
      BY <1>9, <2>1, <3>1, <3>2, <3>3, <3>4 DEF OneChain
    <3>6. Whole(w) \subseteq stored'[w] \cup ToCopy(w)'
      BY <1>10, <1>11, <1>13, <2>1, <3>1 DEF ToCopy
    <3>7. stored'[w] \subseteq Whole(w) /\ (job'[w].result = "ok" /\ Marker[w] # "fresh" => Whole(w) \subseteq stored'[w])
      BY <1>9, <1>11, <1>13, <2>1, <3>1 DEF Copied
    <3>8. ToSet(job'[w].entries) \subseteq ToSet(EntryList(w, job'[w].folder))
      BY <1>5, <1>6, <1>9, <2>1, <3>1 DEF Copied
    <3>9. Copied(w)'
      BY <3>2, <3>3, <3>6, <3>7, <3>8 DEF Copied, Whole, EntryList
    <3>. QED  BY <3>5, <3>9
  <2>. QED  BY <2>2, <2>3, <2>4, <2>5 DEF Knows
<1>14. CASE stored' = Stores(w, calls[w][i]) /\ UNCHANGED <<app, parent, job, posted>>
  <2>1. TypeOK'
    BY <1>1, <1>3, <1>11, <1>14 DEF TypeOK
  <2>2. Moves(w)
    BY <1>3, <1>8, <1>11, <1>14 DEF Moves, Posts, Asking
  <2>3. Begun(w)'
    BY <1>1, <1>3, <1>5, <1>14, WorksBegun
  <2>4. ASSUME w \notin raced' PROVE OneChain(w)' /\ Copied(w)'
    <3>1. w \notin raced
      BY <2>4
    <3>2. SlotsOf(posted', w) = {} /\ Once(posted', w)
      BY <1>9, <1>14, <3>1
    <3>3. /\ calls'[w] = <<>> /\ DOMAIN calls'[w] = {} /\ Len(calls'[w]) = 0 /\ ~Asking(w)'
          /\ ~InEntries(w)' /\ ~Opening(w)'
      BY <1>9, <3>1, <3>2, EmptySet DEF Asking, InEntries, Opening
    <3>4. OneChain(w)'
      BY <1>9, <1>14, <3>1, <3>2, <3>3 DEF OneChain
    <3>5. Whole(w) \subseteq stored'[w] \cup ToCopy(w)'
      BY <1>10, <1>11, <1>14, <3>1, <3>3 DEF ToCopy
    <3>6. stored'[w] \subseteq Whole(w) /\ (job'[w].result = "ok" /\ Marker[w] # "fresh" => Whole(w) \subseteq stored'[w])
      BY <1>9, <1>11, <1>14, <3>1 DEF Copied
    <3>7. Copied(w)'
      BY <3>2, <3>3, <3>5, <3>6 DEF Copied, Whole
    <3>. QED  BY <3>4, <3>7
  <2>. QED  BY <2>1, <2>2, <2>3, <2>4 DEF Knows
<1>15. CASE Stops(w, "failed") /\ UNCHANGED stored
  <2>1. /\ posted' \in Seq(Events) /\ Posts(w) /\ SlotsOf(posted', w) = SlotsOf(posted, w)
        /\ SlotsOf(posted, w) = {} => Once(posted', w)
        /\ job' = [job EXCEPT ![w].result = "failed", ![w].results = @ + 1]
        /\ job' \in [Wallets -> Jobs] /\ app' \in {"running", "quitting", "ended", "crashed"}
        /\ parent' \in [subjobs : Seq(Wallets), failed : BOOLEAN, paused : BOOLEAN]
        /\ ToSet(parent'.subjobs) = ToSet(parent.subjobs) \ {w}
        /\ \A v \in Wallets \ {w} : job'[v] = job[v]
    BY <1>1, <1>15, StopsIs
  <2>2. job'[w] = [job[w] EXCEPT !.result = "failed", !.results = @ + 1]
    BY <1>6, <2>1
  <2>3. /\ job'[w].status = job[w].status /\ job'[w].folders = job[w].folders /\ job'[w].killed = job[w].killed
        /\ job'[w].folder = job[w].folder /\ job'[w].entries = job[w].entries
        /\ job'[w].result = "failed" /\ job'[w].results = job[w].results + 1
    BY <1>6, <2>2 DEF Jobs
  <2>4. TypeOK'
    BY <1>1, <1>3, <1>15, <2>1 DEF TypeOK, Events
  <2>5. Moves(w)
    BY <1>3, <1>8, <1>15, <2>1 DEF Moves, Asking
  <2>6. Begun(w)'
    BY <1>1, <1>3, <1>5, <2>1, <2>3, WorksBegun
  <2>7. ASSUME w \notin raced' PROVE OneChain(w)' /\ Copied(w)'
    <3>1. w \notin raced
      BY <2>7
    <3>2. SlotsOf(posted', w) = {} /\ Once(posted', w)
      BY <1>9, <2>1, <3>1
    <3>3. /\ calls'[w] = <<>> /\ DOMAIN calls'[w] = {} /\ Len(calls'[w]) = 0 /\ ~Asking(w)'
          /\ ~InEntries(w)' /\ ~Opening(w)'
      BY <1>9, <3>1, <3>2, EmptySet DEF Asking, InEntries, Opening
    <3>4. (w \notin ToSet(parent.subjobs))'
      BY <2>1 DEF ToSet
    <3>5. OneChain(w)'
      BY <1>9, <2>3, <3>1, <3>2, <3>3, <3>4 DEF OneChain
    <3>6. Whole(w) \subseteq stored'[w] \cup ToCopy(w)'
      BY <1>9, <1>10, <1>15, <2>3, <3>1, <3>3 DEF ToCopy
    <3>7. stored'[w] \subseteq Whole(w)
      BY <1>9, <1>15, <3>1 DEF Copied
    <3>8. Copied(w)'
      BY <2>3, <3>2, <3>3, <3>6, <3>7 DEF Copied, Whole
    <3>. QED  BY <3>5, <3>8
  <2>. QED  BY <2>4, <2>5, <2>6, <2>7 DEF Knows
<1>. QED  BY <1>13, <1>14, <1>15 DEF CreateItemFinished

-----------------------------------------------------------------------------
(* The queue belongs to the jobs, and the list of subjobs to the importer job *)

Owned(q) == \A i \in DOMAIN q : q[i].job \in Wallets

LEMMA OwnedIsStarted ==
  ASSUME NEW q, Owned(q) PROVE q # <<[job |-> None, slot |-> "run"]>>
<1>. SUFFICES ASSUME q = <<[job |-> None, slot |-> "run"]>> PROVE FALSE
  OBVIOUS
<1>1. 1 \in DOMAIN q /\ q[1].job = None
  OBVIOUS
<1>. QED  BY <1>1, NoneIsNot DEF Owned

LEMMA OwnedQueues ==
  ASSUME NEW q \in Seq(Events), Owned(q)
  PROVE  /\ q # <<>> => Owned(Tail(q))
         /\ \A w \in Wallets : \A s \in Slots : Owned(Append(q, [job |-> w, slot |-> s]))
         /\ \A t \in Seq(Events) : Owned(t) => Owned(q \o t)
<1>. HIDE DEF Events
<1>1. q # <<>> => Owned(Tail(q))
  <2>. SUFFICES ASSUME q # <<>> PROVE Owned(Tail(q))
    OBVIOUS
  <2>1. /\ Len(Tail(q)) = Len(q) - 1 /\ Len(q) \in Nat
        /\ \A i \in 1 .. Len(Tail(q)) : Tail(q)[i] = q[i + 1]
        /\ DOMAIN q = 1 .. Len(q) /\ DOMAIN Tail(q) = 1 .. Len(Tail(q))
    BY HeadTailProperties, LenProperties
  <2>2. \A i \in DOMAIN Tail(q) : i + 1 \in DOMAIN q
    BY <2>1
  <2>. QED  BY <2>1, <2>2 DEF Owned
<1>2. ASSUME NEW w \in Wallets, NEW s \in Slots PROVE Owned(Append(q, [job |-> w, slot |-> s]))
  <2>. DEFINE e == [job |-> w, slot |-> s]
  <2>1. e \in Events /\ e.job = w
    BY EventIs
  <2>. HIDE DEF e
  <2>2. /\ Len(q) \in Nat /\ DOMAIN q = 1 .. Len(q) /\ DOMAIN Append(q, e) = 1 .. Len(q) + 1
        /\ \A i \in 1 .. Len(q) : Append(q, e)[i] = q[i]
        /\ Append(q, e)[Len(q) + 1] = e
    BY <2>1, AppendProperties, LenProperties
  <2>3. \A i \in DOMAIN Append(q, e) : i \in DOMAIN q \/ i = Len(q) + 1
    BY <2>2
  <2>. QED  BY <2>1, <2>2, <2>3 DEF Owned, e
<1>3. ASSUME NEW t \in Seq(Events), Owned(t) PROVE Owned(q \o t)
  <2>1. /\ Len(q) \in Nat /\ Len(t) \in Nat /\ DOMAIN q = 1 .. Len(q) /\ DOMAIN t = 1 .. Len(t)
        /\ DOMAIN (q \o t) = 1 .. Len(q) + Len(t)
        /\ \A i \in 1 .. Len(q) + Len(t) : (q \o t)[i] = IF i <= Len(q) THEN q[i] ELSE t[i - Len(q)]
    BY ConcatProperties, LenProperties
  <2>. DEFINE r == q \o t
  <2>. HIDE DEF r
  <2>2. ASSUME NEW i \in DOMAIN r PROVE r[i].job \in Wallets
    <3>1. i \in 1 .. Len(q) + Len(t)
      BY <2>1 DEF r
    <3>2. CASE i <= Len(q)
      BY <2>1, <3>1, <3>2 DEF Owned, r
    <3>3. CASE ~(i <= Len(q))
      <4>1. i - Len(q) \in DOMAIN t /\ r[i] = t[i - Len(q)]
        BY <2>1, <3>1, <3>3 DEF r
      <4>. QED  BY <1>3, <4>1 DEF Owned
    <3>. QED  BY <3>2, <3>3
  <2>. QED  BY <2>2 DEF Owned, r
<1>. QED  BY <1>1, <1>2, <1>3

LEMMA MovesWhereabouts ==
  ASSUME IInv, NEW w \in Wallets, Moves(w), IsInjective(dialogs'), IsInjective(parent'.subjobs),
         parent'.paused = parent.paused, clicks' = clicks
  PROVE  Whereabouts' /\ Started'
<1>1. TypeOK /\ Whereabouts /\ Posts(w) /\ Started /\ raced' = raced
  BY DEF IInv, Moves
<1>2. posted \in Seq(Events) /\ Owned(posted)
  BY <1>1 DEF TypeOK, Events, Whereabouts, Owned
<1>. HIDE DEF Events
<1>3. \A s \in Slots : Owned(Append(posted, [job |-> w, slot |-> s]))
  BY <1>2, OwnedQueues
<1>4. ASSUME posted # <<>>
      PROVE  /\ Owned(Tail(posted))
             /\ \A s \in Slots : Owned(Append(Tail(posted), [job |-> w, slot |-> s]))
  <2>1. Owned(Tail(posted)) /\ Tail(posted) \in Seq(Events)
    BY <1>2, <1>4, OwnedQueues, TailPosted
  <2>. QED  BY <2>1, OwnedQueues
<1>5. Owned(posted')
  BY <1>1, <1>2, <1>3, <1>4 DEF Posts
<1>6. Started'
  BY <1>5, OwnedIsStarted DEF Started
<1>7. (\A i \in DOMAIN posted : posted[i].job \in Wallets)'
  BY <1>5 DEF Owned
<1>. QED  BY <1>1, <1>6, <1>7 DEF Whereabouts

\* Nobody's result has changed.
LEMMA SameAccounts ==
  ASSUME IInv, Started, UNCHANGED <<app, parent>>, \A v \in Wallets : job'[v].result = job[v].result
  PROVE  Accounted'
  BY DEF IInv, Accounted

LEMMA FinishAccounts ==
  ASSUME IInv, Started, NEW w \in Wallets, NEW outcome \in {"ok", "failed"},
         NEW STATE begun, begun \in [Wallets -> Jobs], \A v \in Wallets \ {w} : begun[v] = job[v],
         Finish(begun, w, outcome)
  PROVE  Accounted' /\ IsInjective(parent'.subjobs) /\ parent'.paused = parent.paused
<1>1. TypeOK /\ Whereabouts /\ Accounted
  BY DEF IInv
<1>2. /\ job' = [begun EXCEPT ![w].result = outcome, ![w].results = @ + 1]
      /\ parent'.paused = parent.paused /\ IsInjective(parent'.subjobs)
      /\ ToSet(parent'.subjobs) = ToSet(parent.subjobs) \ {w}
      /\ app' \in {"quitting", "ended"} /\ ~parent'.failed =>
           parent'.subjobs = <<>> \/ (app \in {"quitting", "ended"} /\ ~parent.failed)
      /\ parent.subjobs = <<>> => parent'.subjobs = <<>>
  BY <1>1, FinishIs
<1>3. /\ \A v \in Wallets \ {w} : job'[v] = job[v]
      /\ job'[w] = [begun[w] EXCEPT !.result = outcome, !.results = @ + 1] /\ begun[w] \in Jobs
  BY <1>2
<1>4. job'[w].result = outcome
  BY <1>3 DEF Jobs
<1>5. \A v \in Wallets : v \in ToSet(parent'.subjobs) \/ job'[v].result \in {"ok", "failed"}
  BY <1>1, <1>2, <1>3, <1>4 DEF Accounted
<1>6. (app \in {"quitting", "ended"} /\ ~parent.failed => parent.subjobs = <<>>)'
  BY <1>1, <1>2 DEF Accounted
<1>. QED  BY <1>2, <1>5, <1>6 DEF Accounted, ToSet

LEMMA MovesKeep ==
  ASSUME IInv, NEW w \in Wallets, Moves(w), TypeOK', Knows(w)', Accounted', IsInjective(dialogs'),
         IsInjective(parent'.subjobs), parent'.paused = parent.paused, clicks' = clicks
  PROVE  IInv'
<1>1. Whereabouts'
  BY MovesWhereabouts
<1>2. ASSUME NEW v \in Wallets \ {w} PROVE Knows(v)'
  BY MovesOthers, StillKnows DEF IInv
<1>. QED  BY <1>1, <1>2 DEF IInv

\* A step of w's job: a slot of its own, the answer to a call, or to its dialog.
Turn(w) ==
  \/ CheckImportNeeded(w) \/ Run(w) \/ OnWalletOpened(w)
  \/ ProcessCurrentFolder(w) \/ ProcessNextEntry(w) \/ ProcessNextFolder(w)
  \/ Delete(w) \/ Drop(w) \/ Answer(w)
  \/ w = Head(dialogs) /\ (AcceptPassword \/ RejectDialog)

LEMMA TurnKeeps == ASSUME IInv, NEW w \in Wallets, Turn(w) PROVE IInv'
<1>1. /\ TypeOK /\ IsInjective(dialogs) /\ IsInjective(parent.subjobs) /\ job \in [Wallets -> Jobs]
      /\ Whereabouts /\ \A v \in Wallets : job[v] \in Jobs
  BY DEF IInv, Whereabouts, TypeOK
<1>2. ASSUME Started, job' = job, UNCHANGED <<app, parent>> PROVE Accounted'
  BY <1>2, SameAccounts
<1>3. CASE CheckImportNeeded(w)
  <2>1. TypeOK' /\ Moves(w) /\ Knows(w)' /\ Started
    BY <1>3, CheckImportNeededIs DEF Moves
  <2>2. UNCHANGED <<app, dialogs, parent, job, clicks>>
    BY <1>3 DEF CheckImportNeeded
  <2>. QED  BY <1>1, <1>2, <2>1, <2>2, MovesKeep
<1>4. CASE Run(w)
  <2>1. TypeOK' /\ Moves(w) /\ Knows(w)' /\ Started /\ IsInjective(dialogs')
    BY <1>4, RunIs DEF Moves
  <2>2. UNCHANGED <<app, parent, job, clicks>>
    BY <1>4 DEF Run
  <2>. QED  BY <1>1, <1>2, <2>1, <2>2, MovesKeep
<1>5. CASE OnWalletOpened(w)
  <2>1. TypeOK' /\ Moves(w) /\ Knows(w)' /\ Started
    BY <1>5, OnWalletOpenedIs DEF Moves
  <2>2. UNCHANGED <<app, dialogs, parent, clicks>>
    BY <1>5 DEF OnWalletOpened
  <2>3. \A v \in Wallets : job'[v].result = job[v].result
    BY <1>1, <1>5 DEF OnWalletOpened, Jobs
  <2>. QED  BY <1>1, <2>1, <2>2, <2>3, SameAccounts, MovesKeep
<1>6. CASE ProcessCurrentFolder(w)
  <2>1. TypeOK' /\ Moves(w) /\ Knows(w)' /\ Started
    BY <1>6, ProcessCurrentFolderIs DEF Moves
  <2>2. UNCHANGED <<app, dialogs, parent, clicks>>
    BY <1>6 DEF ProcessCurrentFolder, Idle
  <2>3. \A v \in Wallets : job'[v].result = job[v].result
    BY <1>1, <1>6 DEF ProcessCurrentFolder, Idle, Jobs
  <2>. QED  BY <1>1, <2>1, <2>2, <2>3, SameAccounts, MovesKeep
<1>7. CASE ProcessNextEntry(w)
  <2>1. TypeOK' /\ Moves(w) /\ Knows(w)' /\ Started
    BY <1>7, ProcessNextEntryIs DEF Moves
  <2>2. UNCHANGED <<app, dialogs, parent, clicks>>
    BY <1>7 DEF ProcessNextEntry, Idle
  <2>3. \A v \in Wallets : job'[v].result = job[v].result
    BY <1>1, <1>7 DEF ProcessNextEntry, Idle, Jobs
  <2>. QED  BY <1>1, <2>1, <2>2, <2>3, SameAccounts, MovesKeep
<1>8. CASE ProcessNextFolder(w)
  <2>. DEFINE begun == [job EXCEPT ![w].status = "ProcessingNextFolder"]
  <2>1. TypeOK' /\ Moves(w) /\ Knows(w)' /\ Started
    BY <1>8, ProcessNextFolderIs DEF Moves
  <2>2. UNCHANGED <<dialogs, clicks>>
    BY <1>8 DEF ProcessNextFolder
  <2>3. begun \in [Wallets -> Jobs] /\ \A v \in Wallets \ {w} : begun[v] = job[v]
    BY <1>1 DEF Jobs
  <2>4. CASE Finish(begun, w, "ok")
    <3>. HIDE DEF begun
    <3>1. Accounted' /\ IsInjective(parent'.subjobs) /\ parent'.paused = parent.paused
      BY <2>1, <2>3, <2>4, FinishAccounts
    <3>. QED  BY <1>1, <2>1, <2>2, <3>1, MovesKeep
  <2>5. CASE UNCHANGED <<app, parent>> /\ \A v \in Wallets : job'[v].result = job[v].result
    BY <1>1, <2>1, <2>2, <2>5, SameAccounts, MovesKeep
  <2>6. \/ Finish(begun, w, "ok")
        \/ UNCHANGED <<app, parent>> /\ job' = job
        \/ /\ UNCHANGED <<app, parent>>
           /\ job' = [begun EXCEPT ![w].folder = Head(job[w].folders), ![w].folders = Tail(@)]
    BY <1>8 DEF ProcessNextFolder, Idle
  <2>7. job' = [begun EXCEPT ![w].folder = Head(job[w].folders), ![w].folders = Tail(@)] =>
          \A v \in Wallets : job'[v].result = job[v].result
    BY <1>1 DEF Jobs
  <2>. QED  BY <2>4, <2>5, <2>6, <2>7
<1>9. CASE Delete(w) \/ Drop(w)
  <2>1. /\ posted # <<>> /\ Head(posted).job = w /\ posted' = Tail(posted)
        /\ UNCHANGED <<app, calls, dialogs, parent, stored, raced, imported, clicks>>
        /\ job' = job \/ job' = [job EXCEPT ![w].alive = FALSE]
    BY <1>9 DEF Delete, Drop, Due
  <2>2. TypeOK' /\ Moves(w) /\ Knows(w)' /\ Started
    BY <2>1, IdleIs DEF Moves
  <2>3. \A v \in Wallets : job'[v].result = job[v].result
    <3>1. ASSUME job' = [job EXCEPT ![w].alive = FALSE], NEW v \in Wallets PROVE job'[v].result = job[v].result
      BY <1>1, <3>1 DEF Jobs
    <3>. QED  BY <2>1, <3>1
  <2>. QED  BY <1>1, <2>1, <2>2, <2>3, SameAccounts, MovesKeep
<1>10. CASE Answer(w)
  <2>1. PICK i \in DOMAIN calls[w] :
          CheckImportNeededItems(w, i) \/ CheckImportNeededSecret(w, i) \/ CreateItemFinished(w, i)
    BY <1>10 DEF Answer
  <2>2. UNCHANGED <<dialogs, raced, imported, clicks>>
    BY <1>10 DEF Answer
  <2>3. TypeOK' /\ Moves(w) /\ Knows(w)' /\ Started
    BY <2>1, <2>2, MarkerAnswerIs, CreateItemFinishedIs DEF Moves
  <2>4. \/ UNCHANGED <<app, parent, job>>
        \/ \E outcome \in {"ok", "failed"} : Finish(job, w, outcome)
    BY <2>1 DEF CheckImportNeededItems, CheckImportNeededSecret, CreateItemFinished, Goes, Stops
  <2>5. CASE UNCHANGED <<app, parent, job>>
    BY <1>1, <1>2, <2>2, <2>3, <2>5, MovesKeep
  <2>6. ASSUME NEW outcome \in {"ok", "failed"}, Finish(job, w, outcome) PROVE IInv'
    <3>1. Accounted' /\ IsInjective(parent'.subjobs) /\ parent'.paused = parent.paused
      BY <1>1, <2>3, <2>6, FinishAccounts
    <3>. QED  BY <1>1, <2>2, <2>3, <3>1, MovesKeep
  <2>. QED  BY <2>4, <2>5, <2>6
<1>11. CASE w = Head(dialogs) /\ AcceptPassword
  <2>1. TypeOK' /\ Moves(w) /\ Knows(w)' /\ Started /\ IsInjective(dialogs')
    BY <1>11, AcceptPasswordIs DEF Moves
  <2>2. UNCHANGED <<app, parent, job, clicks>>
    BY <1>11 DEF AcceptPassword
  <2>. QED  BY <1>1, <1>2, <2>1, <2>2, MovesKeep
<1>12. CASE w = Head(dialogs) /\ RejectDialog
  <2>1. TypeOK' /\ Moves(w) /\ Knows(w)' /\ Started /\ IsInjective(dialogs')
    BY <1>12, RejectDialogIs DEF Moves
  <2>2. clicks' = clicks /\ Finish(job, w, "failed")
    BY <1>12 DEF RejectDialog, Stops
  <2>3. Accounted' /\ IsInjective(parent'.subjobs) /\ parent'.paused = parent.paused
    BY <1>1, <2>1, <2>2, FinishAccounts
  <2>. QED  BY <2>1, <2>2, <2>3, MovesKeep
<1>. QED  BY <1>3, <1>4, <1>5, <1>6, <1>7, <1>8, <1>9, <1>10, <1>11, <1>12 DEF Turn

-----------------------------------------------------------------------------
(* The steps that are about all jobs *)

\* One event for each of several jobs.
LEMMA BatchIs ==
  ASSUME NEW n \in Nat, NEW s \in [1 .. n -> Wallets], \A i, j \in 1 .. n : s[i] = s[j] => i = j,
         NEW sl \in Slots, NEW t, t = [i \in 1 .. n |-> [job |-> s[i], slot |-> sl]]
  PROVE  /\ t \in Seq(Events) /\ Owned(t)
         /\ \A w : /\ Once(t, w) /\ SlotsOf(t, w) \subseteq {sl}
                   /\ sl = "delete" \/ (\A i \in 1 .. n : s[i] # w) => SlotsOf(t, w) = {}
<1>1. \A i \in 1 .. n : [job |-> s[i], slot |-> sl] \in Events
  BY EventIs
<1>2. t \in [1 .. n -> Events]
  BY <1>1
<1>3. t \in Seq(Events)
  BY <1>2, SeqDef
<1>4. DOMAIN t = 1 .. n /\ \A i \in 1 .. n : t[i].job = s[i] /\ t[i].slot = sl
  OBVIOUS
<1>. HIDE DEF Events
<1>5. Owned(t)
  BY <1>4 DEF Owned
<1>6. ASSUME NEW w
      PROVE  /\ Once(t, w) /\ SlotsOf(t, w) \subseteq {sl}
             /\ sl = "delete" \/ (\A i \in 1 .. n : s[i] # w) => SlotsOf(t, w) = {}
  <2>1. \A i \in PostedTo(t, w) : i \in 1 .. n /\ s[i] = w /\ sl # "delete" /\ t[i].slot = sl
    BY <1>4 DEF PostedTo
  <2>2. SlotsOf(t, w) \subseteq {sl}
    BY <2>1 DEF SlotsOf
  <2>3. Once(t, w)
    BY <2>1 DEF Once
  <2>4. sl = "delete" \/ (\A i \in 1 .. n : s[i] # w) => SlotsOf(t, w) = {}
    BY <2>1 DEF SlotsOf
  <2>. QED  BY <2>2, <2>3, <2>4
<1>. QED  BY <1>3, <1>5, <1>6

\* The queue a launch starts with holds nothing for a job.
LEMMA StartQueue ==
  LET q == <<[job |-> None, slot |-> "run"]>>
  IN q \in Seq(Events) /\ \A w \in Wallets : Once(q, w) /\ SlotsOf(q, w) = {}
<1>. DEFINE e == [job |-> None, slot |-> "run"]
            q == <<e>>
<1>1. e \in Events /\ e.job = None
  BY DEF Events, Slots
<1>. HIDE DEF e, Events
<1>2. q \in Seq(Events) /\ DOMAIN q = {1} /\ q[1] = e
  BY <1>1
<1>3. ASSUME NEW w \in Wallets PROVE Once(q, w) /\ SlotsOf(q, w) = {}
  <2>1. PostedTo(q, w) = {}
    BY <1>1, <1>2, NoneIsNot DEF PostedTo
  <2>. QED  BY <2>1 DEF Once, SlotsOf
<1>. QED  BY <1>2, <1>3 DEF e

LEMMA NewJobIs ==
  /\ NewJob \in Jobs /\ [NewJob EXCEPT !.alive = TRUE] \in Jobs
  /\ ToSet(NewJob.folders) = {}
<1>1. <<>> \in Seq(Names) /\ <<>> \in Seq(Entries) /\ 0 \in Nat
  OBVIOUS
<1>2. NewJob \in Jobs /\ NewJob.folders = <<>>
  BY <1>1 DEF NewJob, Jobs
<1>3. [NewJob EXCEPT !.alive = TRUE] \in Jobs
  BY <1>2 DEF Jobs
<1>. QED  BY <1>2, <1>3, EmptySet

\* A launch begins.
LEMMA FreshKnows ==
  ASSUME posted = <<[job |-> None, slot |-> "run"]>>, Fresh, NEW w \in Wallets, stored[w] = {}
  PROVE  Knows(w)
<1>1. /\ calls[w] = <<>> /\ DOMAIN calls[w] = {} /\ ~Asking(w) /\ Len(calls[w]) = 0
      /\ Once(posted, w) /\ SlotsOf(posted, w) = {}
  BY StartQueue, EmptySet DEF Fresh, Asking
<1>2. /\ job[w] = NewJob /\ job[w].status = "Initializing" /\ ~job[w].killed /\ job[w].folder = None
      /\ job[w].result = "none" /\ job[w].results = 0 /\ ToSet(job[w].folders) = {} /\ w \notin raced
  <2>1. job[w] = NewJob /\ w \notin raced
    BY DEF Fresh
  <2>. QED  BY <2>1, NewJobIs DEF NewJob
<1>3. ~Opening(w) /\ ~InEntries(w)
  BY <1>1 DEF Opening, InEntries
<1>. QED  BY <1>1, <1>2, <1>3 DEF Knows, Begun, OneChain, Copied

LEMMA InitIs == ASSUME Init PROVE IInv
<1>1. TypeOK
  <2>1. posted \in Seq(Events)
    BY StartQueue DEF Init
  <2>2. parent \in [subjobs : Seq(Wallets), failed : BOOLEAN, paused : BOOLEAN]
    BY DEF Init, NewParent
  <2>3. clicks \in [pauses : 0 .. MaxPauses, kills : 0 .. MaxKills, launches : 1 .. MaxLaunches]
    BY ImportAssumption DEF Init
  <2>. QED  BY <2>1, <2>2, <2>3, NewJobIs DEF Init, TypeOK, Events
<1>2. Fresh /\ ~Started
  BY DEF Init, Fresh, Started
<1>3. \A w \in Wallets : Knows(w)
  BY <1>2, FreshKnows DEF Init
<1>4. IsInjective(dialogs) /\ IsInjective(parent.subjobs)
  BY EmptySet DEF Init, NewParent
<1>5. Whereabouts /\ Accounted
  BY <1>2, <1>4 DEF Init, Whereabouts, Accounted, NewParent
<1>. QED  BY <1>1, <1>3, <1>5 DEF IInv

LEMMA RunParentKeeps == ASSUME IInv, RunParent PROVE IInv'
<1>. DEFINE t == [i \in DOMAIN Order |-> [job |-> Order[i], slot |-> "checkImportNeeded"]]
<1>1. TypeOK /\ Whereabouts /\ posted \in Seq(Events) /\ \A w \in Wallets : Knows(w)
  BY DEF IInv, TypeOK, Events
<1>2. /\ posted # <<>> /\ Head(posted) = [job |-> None, slot |-> "run"]
      /\ parent' = [parent EXCEPT !.subjobs = Order]
      /\ job' = [w \in Wallets |-> [NewJob EXCEPT !.alive = TRUE]]
      /\ posted' = Tail(posted) \o t
      /\ UNCHANGED <<app, calls, dialogs, stored, raced, imported, clicks>>
  BY DEF RunParent
<1>3. ~Started
  <2>1. ASSUME Started PROVE FALSE
    <3>1. Owned(posted)
      BY <1>1, <2>1 DEF Whereabouts, Owned
    <3>2. 1 \in DOMAIN posted /\ posted[1] = Head(posted)
      BY <1>1, <1>2, HeadTailProperties, LenProperties
    <3>. QED  BY <1>2, <3>1, <3>2, NoneIsNot DEF Owned
  <2>. QED  BY <2>1
<1>4. Fresh /\ Tail(posted) = <<>>
  <2>1. posted = <<[job |-> None, slot |-> "run"]>> /\ Fresh
    BY <1>1, <1>3 DEF Whereabouts, Started
  <2>2. Len(posted) = 1
    BY <2>1
  <2>3. Tail(posted) \in Seq(Events) /\ Len(Tail(posted)) = 0
    BY <1>1, <1>2, <2>2, HeadTailProperties
  <2>. QED  BY <2>1, <2>3, EmptySeq
<1>5. Order \in Seq(Wallets) /\ ToSet(Order) = Wallets /\ IsInjective(Order) /\ "checkImportNeeded" \in Slots \ {"delete"}
  BY ImportAssumption DEF Slots
<1>6. Len(Order) \in Nat /\ DOMAIN Order = 1 .. Len(Order) /\ Order \in [1 .. Len(Order) -> Wallets]
  BY <1>5, LenProperties
<1>7. \A i, j \in 1 .. Len(Order) : Order[i] = Order[j] => i = j
  BY <1>5, <1>6 DEF IsInjective
<1>8. t = [i \in 1 .. Len(Order) |-> [job |-> Order[i], slot |-> "checkImportNeeded"]]
  BY <1>6
<1>. HIDE DEF t, Events
<1>9. /\ t \in Seq(Events) /\ Owned(t)
      /\ \A w : Once(t, w) /\ SlotsOf(t, w) \subseteq {"checkImportNeeded"}
  <2>. DEFINE n == Len(Order)
              sl == "checkImportNeeded"
  <2>1. /\ n \in Nat /\ Order \in [1 .. n -> Wallets] /\ sl \in Slots
        /\ \A i, j \in 1 .. n : Order[i] = Order[j] => i = j
        /\ t = [i \in 1 .. n |-> [job |-> Order[i], slot |-> sl]]
    BY <1>5, <1>6, <1>7, <1>8
  <2>. HIDE DEF n, sl
  <2>2. /\ t \in Seq(Events) /\ Owned(t)
        /\ \A w : /\ Once(t, w) /\ SlotsOf(t, w) \subseteq {sl}
                  /\ sl = "delete" \/ (\A i \in 1 .. n : Order[i] # w) => SlotsOf(t, w) = {}
    BY ONLY <2>1, BatchIs
  <2>3. t \in Seq(Events) /\ Owned(t) /\ \A w : Once(t, w) /\ SlotsOf(t, w) \subseteq {sl}
    BY ONLY <2>2
  <2>. QED  BY <2>3 DEF sl
<1>10. posted' = t
  BY <1>2, <1>4, <1>9, ConcatEmptySeq
<1>11. job' \in [Wallets -> Jobs]
  BY <1>2, NewJobIs
<1>12. /\ parent' \in [subjobs : Seq(Wallets), failed : BOOLEAN, paused : BOOLEAN]
       /\ parent'.subjobs = Order /\ parent'.paused = FALSE
  BY <1>1, <1>2, <1>4, <1>5 DEF TypeOK, Fresh, NewParent
<1>13. TypeOK'
  BY <1>1, <1>2, <1>9, <1>10, <1>11, <1>12 DEF TypeOK, Events
<1>14. Started' /\ Owned(posted')
  BY <1>9, <1>10, OwnedIsStarted DEF Started
<1>15. Whereabouts'
  <2>1. (\A i \in DOMAIN posted : posted[i].job \in Wallets)'
    BY <1>14 DEF Owned
  <2>. QED  BY <1>1, <1>2, <1>4, <1>5, <1>12, <1>14, <2>1 DEF Whereabouts, Fresh
<1>16. Accounted'
  BY <1>2, <1>4, <1>5, <1>12 DEF Accounted, Fresh
<1>17. ASSUME NEW w \in Wallets PROVE Knows(w)'
  <2>1. job'[w] = [NewJob EXCEPT !.alive = TRUE]
    BY <1>2
  <2>2. /\ job'[w].folder = None /\ ToSet(job'[w].folders) = {} /\ job'[w].status = "Initializing"
        /\ ~job'[w].killed /\ job'[w].result = "none" /\ job'[w].results = 0
    BY <2>1, NewJobIs DEF NewJob
  <2>3. /\ calls'[w] = <<>> /\ DOMAIN calls'[w] = {} /\ Len(calls'[w]) = 0 /\ ~Asking(w)' /\ raced' = {}
    BY <1>2, <1>4, EmptySet DEF Fresh, Asking
  <2>4. Once(posted', w) /\ SlotsOf(posted', w) \subseteq {"checkImportNeeded"}
    BY <1>9, <1>10
  <2>5. SlotsOf(posted', w) \cap Late = {}
    BY <2>4 DEF Late
  <2>6. OneChain(w)'
    BY <2>2, <2>3, <2>4 DEF OneChain
  <2>7. stored'[w] \subseteq Whole(w)
    BY <1>1, <1>2, <1>4 DEF Fresh, Knows, Copied
  <2>. QED  BY <2>2, <2>3, <2>5, <2>6, <2>7, UnopenedKnows
<1>. QED  BY <1>13, <1>15, <1>16, <1>17 DEF IInv

LEMMA RelaunchKeeps == ASSUME IInv, Relaunch PROVE IInv'
<1>1. TypeOK /\ Whereabouts /\ \A w \in Wallets : Knows(w)
  BY DEF IInv
<1>2. /\ app \in {"ended", "crashed"} /\ MayRelaunch /\ app' = "running"
      /\ posted' = <<[job |-> None, slot |-> "run"]>>
      /\ calls' = [w \in Wallets |-> <<>>] /\ dialogs' = <<>>
      /\ parent' = NewParent /\ job' = [w \in Wallets |-> NewJob]
      /\ imported' = imported \cup {w \in Wallets : job[w].result = "ok"}
      /\ clicks' = [clicks EXCEPT !.launches = @ + 1]
      /\ UNCHANGED <<stored, raced>>
  BY DEF Relaunch
<1>3. clicks \in [pauses : 0 .. MaxPauses, kills : 0 .. MaxKills, launches : 1 .. MaxLaunches]
      /\ MaxPauses \in Nat /\ MaxKills \in Nat /\ MaxLaunches \in Nat
  BY <1>1, ImportAssumption DEF TypeOK
<1>4. clicks.pauses = 0 /\ raced = {}
  BY <1>1, <1>2, <1>3 DEF MayRelaunch, Whereabouts
<1>5. Fresh'
  BY <1>2, <1>4 DEF Fresh
<1>6. posted' \in Seq(Events) /\ parent' \in [subjobs : Seq(Wallets), failed : BOOLEAN, paused : BOOLEAN]
  BY <1>2, StartQueue DEF NewParent
<1>7. clicks' \in [pauses : 0 .. MaxPauses, kills : 0 .. MaxKills, launches : 1 .. MaxLaunches]
  BY <1>2, <1>3 DEF MayRelaunch
<1>8. TypeOK'
  BY <1>1, <1>2, <1>6, <1>7, NewJobIs DEF TypeOK, Events
<1>9. ~Started' /\ IsInjective(dialogs') /\ IsInjective(parent'.subjobs) /\ ~parent'.paused /\ raced' = {}
  BY <1>2, <1>4, EmptySet DEF Started, NewParent
<1>10. Whereabouts' /\ Accounted'
  BY <1>2, <1>5, <1>9 DEF Whereabouts, Accounted
<1>11. ASSUME NEW w \in Wallets PROVE Knows(w)'
  <2>1. /\ job'[w].folder = None /\ ToSet(job'[w].folders) = {} /\ job'[w].status = "Initializing"
        /\ ~job'[w].killed /\ job'[w].result = "none" /\ job'[w].results = 0
    BY <1>2, NewJobIs DEF NewJob
  <2>2. /\ calls'[w] = <<>> /\ DOMAIN calls'[w] = {} /\ Len(calls'[w]) = 0 /\ ~Asking(w)' /\ raced' = {}
    BY <1>2, <1>4, EmptySet DEF Asking
  <2>3. Once(posted', w) /\ SlotsOf(posted', w) = {}
    BY <1>2, StartQueue
  <2>4. OneChain(w)'
    BY <2>1, <2>2, <2>3 DEF OneChain
  <2>5. stored'[w] \subseteq Whole(w)
    BY <1>1, <1>2, <1>4 DEF Knows, Copied
  <2>. QED  BY <2>1, <2>2, <2>3, <2>4, <2>5, UnopenedKnows
<1>. QED  BY <1>8, <1>10, <1>11 DEF IInv

\* Only the process itself ends.
LEMMA EndKeeps ==
  ASSUME IInv, Started, app' \in {"ended", "crashed"}, app' = "ended" => app = "quitting",
         UNCHANGED <<posted, calls, dialogs, parent, job, stored, raced, imported, clicks>>
  PROVE  IInv'
<1>1. TypeOK /\ Whereabouts /\ Accounted
  BY DEF IInv
<1>2. TypeOK'
  BY <1>1 DEF TypeOK
<1>3. Whereabouts' /\ Accounted'
  BY <1>1 DEF Whereabouts, Accounted, Started
<1>4. ASSUME NEW w \in Wallets PROVE Knows(w)'
  <2>1. Still(w)
    BY DEF Still, Asking
  <2>. QED  BY <2>1, StillKnows DEF IInv
<1>. QED  BY <1>2, <1>3, <1>4 DEF IInv

\* The subjobs a click reaches.
LEMMA ReachedAre ==
  ASSUME IInv, NEW n \in 0 .. Len(parent.subjobs), Walks(n, Agreeable) \/ Walks(n, Suspendable)
  PROVE  /\ n \in Nat /\ Started /\ parent.subjobs # <<>> /\ app = "running"
         /\ \A k \in 1 .. n : k \in DOMAIN parent.subjobs /\ parent.subjobs[k] \in Wallets
         /\ \A j, k \in 1 .. n : parent.subjobs[j] = parent.subjobs[k] => j = k
         /\ First(n) \subseteq Wallets /\ First(n) \subseteq ToSet(parent.subjobs)
         /\ \A w \in First(n) : job[w].status # "Initializing"
<1>1. parent.subjobs \in Seq(Wallets) /\ IsInjective(parent.subjobs) /\ Whereabouts
  BY DEF IInv, TypeOK, Whereabouts
<1>2. Len(parent.subjobs) \in Nat /\ DOMAIN parent.subjobs = 1 .. Len(parent.subjobs)
      /\ \A k \in 1 .. Len(parent.subjobs) : parent.subjobs[k] \in Wallets
  BY <1>1, LenProperties
<1>3. n \in Nat /\ \A k \in 1 .. n : k \in DOMAIN parent.subjobs /\ parent.subjobs[k] \in Wallets
  BY <1>2
<1>4. \A j, k \in 1 .. n : parent.subjobs[j] = parent.subjobs[k] => j = k
  BY <1>1, <1>3 DEF IsInjective
<1>5. First(n) \subseteq Wallets /\ First(n) \subseteq ToSet(parent.subjobs)
  BY <1>3 DEF First, ToSet
<1>6. /\ parent.subjobs # <<>> /\ app = "running"
      /\ \A k \in 1 .. n : job[parent.subjobs[k]].status # "Initializing"
  BY DEF Walks, Agreeable, Suspendable, Initializing
<1>7. \A w \in First(n) : job[w].status # "Initializing"
  BY <1>6 DEF First
<1>8. Started
  BY <1>1, <1>6 DEF Whereabouts, Fresh, NewParent
<1>. QED  BY <1>3, <1>4, <1>5, <1>6, <1>7, <1>8

LEMMA SuspendKeeps == ASSUME IInv, Suspend PROVE IInv'
<1>1. TypeOK /\ Whereabouts /\ Accounted
  BY DEF IInv
<1>2. PICK n \in 0 .. Len(parent.subjobs) :
        /\ Walks(n, Suspendable)
        /\ job' = [w \in Wallets |-> IF w \in First(n) THEN [job[w] EXCEPT !.suspended = TRUE, !.paused = TRUE]
                                     ELSE job[w]]
        /\ parent' = [parent EXCEPT !.paused = (n = Len(parent.subjobs))]
  BY DEF Suspend
<1>3. /\ clicks.pauses < MaxPauses /\ clicks' = [clicks EXCEPT !.pauses = @ + 1]
      /\ UNCHANGED <<app, posted, calls, dialogs, stored, raced, imported>>
  BY DEF Suspend, MayClick
<1>4. Started /\ \A w \in First(n) : job[w].status # "Initializing"
  BY <1>2, ReachedAre
<1>5. ASSUME NEW w \in Wallets
      PROVE  /\ job'[w] \in Jobs /\ job'[w].killed = job[w].killed /\ job'[w].result = job[w].result
             /\ job'[w].status = job[w].status /\ job'[w].folders = job[w].folders /\ job'[w].folder = job[w].folder
             /\ job'[w].entries = job[w].entries /\ job'[w].results = job[w].results
  <2>1. job[w] \in Jobs
    BY <1>1 DEF TypeOK
  <2>2. job'[w] = job[w] \/ job'[w] = [job[w] EXCEPT !.suspended = TRUE, !.paused = TRUE]
    BY <1>2
  <2>. QED  BY <2>1, <2>2 DEF Jobs
<1>6. job' \in [Wallets -> Jobs]
  BY <1>2, <1>5
<1>7. /\ parent' \in [subjobs : Seq(Wallets), failed : BOOLEAN, paused : BOOLEAN]
      /\ parent'.subjobs = parent.subjobs /\ parent'.failed = parent.failed
  BY <1>1, <1>2 DEF TypeOK
<1>8. /\ clicks' \in [pauses : 0 .. MaxPauses, kills : 0 .. MaxKills, launches : 1 .. MaxLaunches]
      /\ clicks'.pauses > 0
  <2>1. clicks \in [pauses : 0 .. MaxPauses, kills : 0 .. MaxKills, launches : 1 .. MaxLaunches]
    BY <1>1 DEF TypeOK
  <2>2. MaxPauses \in Nat /\ MaxKills \in Nat /\ MaxLaunches \in Nat
    BY ImportAssumption
  <2>3. clicks.pauses + 1 \in 1 .. MaxPauses
    BY <1>3, <2>1, <2>2
  <2>. QED  BY <1>3, <2>1, <2>2, <2>3
<1>9. TypeOK'
  BY <1>1, <1>3, <1>6, <1>7, <1>8 DEF TypeOK
<1>10. Whereabouts'
  BY <1>1, <1>3, <1>4, <1>7, <1>8 DEF Whereabouts, Started
<1>11. Accounted'
  BY <1>1, <1>3, <1>4, <1>5, <1>7 DEF Accounted, Started, ToSet
<1>12. ASSUME NEW w \in Wallets PROVE Knows(w)'
  <2>1. Still(w)
    BY <1>3, <1>5, <1>7 DEF Still, Asking, ToSet
  <2>. QED  BY <2>1, StillKnows DEF IInv
<1>. QED  BY <1>9, <1>10, <1>11, <1>12 DEF IInv

LEMMA KillKeeps == ASSUME IInv, Kill PROVE IInv'
<1>1. TypeOK /\ Whereabouts /\ Accounted /\ posted \in Seq(Events)
  BY DEF IInv, TypeOK, Events
<1>2. PICK n \in 0 .. Len(parent.subjobs) :
        /\ Walks(n, Agreeable)
        /\ job' = [w \in Wallets |-> IF w \in First(n) THEN [job[w] EXCEPT !.killed = TRUE, !.result = "killed"]
                                     ELSE job[w]]
        /\ posted' = posted \o [i \in 1 .. n |-> [job |-> parent.subjobs[i], slot |-> "delete"]]
        /\ app' = IF n = Len(parent.subjobs) THEN "quitting" ELSE app
        /\ parent' = [parent EXCEPT !.failed = @ \/ n = Len(parent.subjobs)]
  BY DEF Kill
<1>3. /\ clicks.kills < MaxKills /\ clicks' = [clicks EXCEPT !.kills = @ + 1]
      /\ UNCHANGED <<calls, dialogs, stored, raced, imported>>
  BY DEF Kill, MayClick
<1>4. /\ n \in Nat /\ Started
      /\ \A k \in 1 .. n : k \in DOMAIN parent.subjobs /\ parent.subjobs[k] \in Wallets
      /\ \A j, k \in 1 .. n : parent.subjobs[j] = parent.subjobs[k] => j = k
      /\ First(n) \subseteq ToSet(parent.subjobs) /\ \A w \in First(n) : job[w].status # "Initializing"
  BY <1>2, ReachedAre
<1>5. ASSUME NEW w \in Wallets
      PROVE  /\ job'[w] \in Jobs
             /\ job'[w].killed => job[w].killed \/ job[w].status # "Initializing"
             /\ w \notin First(n) => job'[w] = job[w]
             /\ job'[w].result \in {job[w].result, "killed"}
             /\ job'[w].status = job[w].status /\ job'[w].folders = job[w].folders /\ job'[w].folder = job[w].folder
             /\ job'[w].entries = job[w].entries /\ job'[w].results = job[w].results
  <2>1. job[w] \in Jobs
    BY <1>1 DEF TypeOK
  <2>2. CASE w \notin First(n)
    <3>1. job'[w] = job[w]
      BY <1>2, <2>2
    <3>. QED  BY <2>1, <3>1
  <2>3. CASE w \in First(n)
    <3>1. job'[w] = [job[w] EXCEPT !.killed = TRUE, !.result = "killed"]
      BY <1>2, <2>3
    <3>. QED  BY <1>4, <2>1, <2>3, <3>1 DEF Jobs
  <2>. QED  BY <2>2, <2>3
<1>6. job' \in [Wallets -> Jobs]
  BY <1>2, <1>5
<1>7. /\ parent' \in [subjobs : Seq(Wallets), failed : BOOLEAN, paused : BOOLEAN]
      /\ parent'.subjobs = parent.subjobs /\ parent'.paused = parent.paused
      /\ parent'.failed = (parent.failed \/ n = Len(parent.subjobs))
  BY <1>1, <1>2 DEF TypeOK
<1>8. /\ clicks' \in [pauses : 0 .. MaxPauses, kills : 0 .. MaxKills, launches : 1 .. MaxLaunches]
      /\ clicks'.pauses = clicks.pauses
  <2>1. clicks \in [pauses : 0 .. MaxPauses, kills : 0 .. MaxKills, launches : 1 .. MaxLaunches]
    BY <1>1 DEF TypeOK
  <2>2. MaxPauses \in Nat /\ MaxKills \in Nat /\ MaxLaunches \in Nat
    BY ImportAssumption
  <2>3. clicks.kills + 1 \in 1 .. MaxKills
    BY <1>3, <2>1, <2>2
  <2>. QED  BY <1>3, <2>1, <2>2, <2>3
<1>. DEFINE s == [k \in 1 .. n |-> parent.subjobs[k]]
            t == [i \in 1 .. n |-> [job |-> s[i], slot |-> "delete"]]
<1>9. /\ s \in [1 .. n -> Wallets] /\ (\A i, j \in 1 .. n : s[i] = s[j] => i = j) /\ "delete" \in Slots
      /\ t = [i \in 1 .. n |-> [job |-> parent.subjobs[i], slot |-> "delete"]]
  BY <1>4 DEF Slots
<1>. HIDE DEF s, Events
<1>10. t \in Seq(Events) /\ Owned(t) /\ \A w : SlotsOf(t, w) = {}
  <2>. DEFINE sl == "delete"
              u == [i \in 1 .. n |-> [job |-> s[i], slot |-> sl]]
  <2>1. n \in Nat /\ s \in [1 .. n -> Wallets] /\ (\A i, j \in 1 .. n : s[i] = s[j] => i = j) /\ sl \in Slots
    BY <1>4, <1>9
  <2>. HIDE DEF u
  <2>2. u \in Seq(Events) /\ Owned(u) /\ \A w : sl = "delete" => SlotsOf(u, w) = {}
    BY ONLY <2>1, BatchIs DEF u
  <2>. QED  BY <2>2 DEF u
<1>. HIDE DEF t
<1>11. posted' = posted \o t
  BY <1>2, <1>9
<1>12. /\ posted' \in Seq(Events)
       /\ \A w : SlotsOf(posted', w) = SlotsOf(posted, w) /\ (Once(posted, w) => Once(posted', w))
  <2>1. /\ posted \o t \in Seq(Events)
        /\ \A w : SlotsOf(posted \o t, w) = SlotsOf(posted, w) /\ (Once(posted, w) => Once(posted \o t, w))
    <3>1. ASSUME NEW w
          PROVE  /\ posted \o t \in Seq(Events)
                 /\ SlotsOf(posted \o t, w) = SlotsOf(posted, w) \cup SlotsOf(t, w)
                 /\ Once(posted, w) /\ SlotsOf(t, w) = {} => Once(posted \o t, w)
      BY <1>1, <1>10, ConcatPosted
    <3>. QED  BY <1>10, <3>1
  <2>. QED  BY <1>11, <2>1
<1>13. Owned(posted')
  <2>1. Owned(posted)
    BY <1>1, <1>4 DEF Whereabouts, Owned
  <2>2. Owned(posted \o t)
    BY <1>1, <1>10, <2>1, OwnedQueues
  <2>. QED  BY <1>11, <2>2
<1>14. app' \in {"running", "quitting", "ended", "crashed"}
  BY <1>1, <1>2 DEF TypeOK
<1>15. TypeOK'
  BY <1>1, <1>3, <1>6, <1>7, <1>8, <1>12, <1>14 DEF TypeOK, Events
<1>16. Whereabouts'
  <2>1. Started'
    BY <1>13, OwnedIsStarted DEF Started
  <2>2. (\A i \in DOMAIN posted : posted[i].job \in Wallets)'
    BY <1>13 DEF Owned
  <2>. QED  BY <1>1, <1>3, <1>7, <1>8, <2>1, <2>2 DEF Whereabouts
<1>17. Accounted'
  <2>1. \A w \in Wallets : w \in ToSet(parent.subjobs) \/ job'[w].result \in {"ok", "failed"}
    BY <1>1, <1>4, <1>5 DEF Accounted
  <2>2. (app \in {"quitting", "ended"} /\ ~parent.failed => parent.subjobs = <<>>)'
    BY <1>1, <1>2, <1>7 DEF Accounted
  <2>. QED  BY <1>7, <2>1, <2>2 DEF Accounted, ToSet
<1>18. ASSUME NEW w \in Wallets PROVE Knows(w)'
  <2>1. Still(w)
    BY <1>3, <1>5, <1>7, <1>12 DEF Still, Asking, ToSet
  <2>. QED  BY <2>1, StillKnows DEF IInv
<1>. QED  BY <1>15, <1>16, <1>17, <1>18 DEF IInv

LEMMA AscendingIs ==
  ASSUME NEW n \in Nat, NEW S \in SUBSET (1 .. n), NEW goes \in Ascending(S)
  PROVE  /\ Cardinality(S) \in Nat /\ goes \in [1 .. Cardinality(S) -> S]
         /\ DOMAIN goes = 1 .. Cardinality(S)
         /\ \A i, j \in 1 .. Cardinality(S) : goes[i] = goes[j] => i = j
<1>1. IsFiniteSet(S) /\ \A k \in S : k \in Int
  <2>1. 0 \in Int /\ 1 \in Int /\ n \in Int /\ S \subseteq 1 .. n
    OBVIOUS
  <2>2. IsFiniteSet(1 .. n)
    BY <2>1, FS_Interval
  <2>3. IsFiniteSet(S)
    BY ONLY <2>1, <2>2, FS_Subset
  <2>. QED  BY <2>1, <2>3
<1>2. Cardinality(S) \in Nat
  BY <1>1, FS_CardinalityType
<1>. DEFINE c == Cardinality(S)
<1>. HIDE DEF c
<1>a. c \in Nat
  BY <1>2 DEF c
<1>3. goes \in [1 .. c -> S] /\ \A i, j \in 1 .. c : i < j => goes[i] < goes[j]
  BY DEF Ascending, c
<1>4. ASSUME NEW i \in 1 .. c, NEW j \in 1 .. c, goes[i] = goes[j] PROVE i = j
  <2>1. goes[i] \in Int /\ goes[j] \in Int /\ i \in Int /\ j \in Int
    <3>1. goes[i] \in S /\ goes[j] \in S
      BY <1>3
    <3>2. i \in Int /\ j \in Int
      BY <1>a
    <3>. QED  BY <1>1, <3>1, <3>2
  <2>2. ~(goes[i] < goes[j]) /\ ~(goes[j] < goes[i])
    BY <1>4, <2>1
  <2>. QED  BY <1>3, <2>1, <2>2
<1>. QED  BY <1>2, <1>3, <1>4 DEF c

\* A job that begins its current folder again, with nothing else under way.
LEMMA ResumedKnows ==
  ASSUME IInv, NEW w \in Wallets, UNCHANGED <<calls, dialogs, stored>>, ~job[w].killed,
         job[w].status # "Initializing", w \in ToSet(parent.subjobs), job'[w] = Resumed(w),
         SlotsOf(posted', w) \subseteq SlotsOf(posted, w) \cup {"processNextEntry"},
         SlotsOf(posted, w) = {} => Once(posted', w),
         w \notin raced' => w \notin raced /\ calls[w] = <<>> /\ SlotsOf(posted, w) = {}
  PROVE  Knows(w)' /\ job'[w] \in Jobs /\ job'[w].result = job[w].result
<1>. DEFINE l == EntryList(w, job[w].folder)
<1>1. Knows(w) /\ job[w] \in Jobs
  BY DEF IInv, TypeOK
<1>2. job[w].folder # None /\ job[w].folder \in FolderNames(w) /\ ToSet(job[w].folders) \subseteq FolderNames(w) /\ ~Opening(w)
  BY <1>1 DEF Knows, Begun
<1>3. job'[w] = [job[w] EXCEPT !.suspended = FALSE, !.paused = FALSE, !.entries = l]
  BY DEF Resumed
<1>4. l \in Seq(Entries)
  BY <1>2, EntryListType
<1>. HIDE DEF l
<1>5. /\ job'[w] \in Jobs /\ job'[w].entries = l /\ job'[w].folders = job[w].folders /\ job'[w].killed = job[w].killed
      /\ job'[w].status = job[w].status /\ job'[w].result = job[w].result /\ job'[w].results = job[w].results
      /\ job'[w].folder = job[w].folder
  BY <1>1, <1>3, <1>4 DEF Jobs
<1>6. Begun(w)'
  <2>1. SlotsOf(posted', w) \cap Early \subseteq SlotsOf(posted, w)
    BY DEF Early
  <2>. QED  BY <1>1, <1>2, <1>5, <2>1, WorksBegun
<1>7. ASSUME w \notin raced' PROVE OneChain(w)' /\ Copied(w)'
  <2>1. w \notin raced /\ calls[w] = <<>> /\ SlotsOf(posted, w) = {} /\ OneChain(w) /\ Copied(w) /\ ~Asking(w)
    BY <1>1, <1>2, <1>7 DEF Knows, Opening
  <2>2. SlotsOf(posted', w) \subseteq {"processNextEntry"} /\ Once(posted', w)
    BY <2>1
  <2>3. calls'[w] = <<>> /\ DOMAIN calls'[w] = {} /\ Len(calls'[w]) = 0 /\ ~Asking(w)'
    BY <2>1, EmptySet DEF Asking
  <2>4. ~Opening(w)'
    BY <2>2, <2>3 DEF Opening, Early
  <2>5. job[w].results \in Nat /\ job[w].results <= 1 /\ job[w].results # 1
    BY <1>1, <2>1 DEF OneChain, Jobs
  <2>6. OneChain(w)'
    BY <1>5, <2>2, <2>3, <2>4, <2>5 DEF OneChain
  <2>7. Whole(w) \subseteq stored[w] \cup ToCopy(w)'
    <3>1. ASSUME NEW i \in Whole(w), i \notin stored[w] PROVE i \in ToCopy(w)'
      <4>1. i \in [folder : Names, entry : Entries] /\ i.entry \in ToSet(EntryList(w, i.folder))
        BY InWhole
      <4>2. i \in ToCopy(w)
        BY <1>2, <2>1, <3>1 DEF Copied
      <4>3. i.folder \in ToSet(job[w].folders) \/ i.folder = job[w].folder
        BY <2>1, <4>2, EmptySet DEF ToCopy
      <4>. QED  BY <1>5, <4>1, <4>3 DEF ToCopy, l
    <3>. QED  BY <3>1
  <2>8. stored'[w] \subseteq Whole(w) /\ (job'[w].result = "ok" /\ Marker[w] # "fresh" => Whole(w) \subseteq stored'[w])
    BY <1>5, <2>1 DEF Copied
  <2>9. ToSet(job'[w].entries) \subseteq ToSet(EntryList(w, job'[w].folder))
    BY <1>5 DEF l
  <2>10. Copied(w)'
    BY <2>2, <2>3, <2>7, <2>8, <2>9 DEF Copied, Whole, EntryList
  <2>. QED  BY <2>6, <2>10
<1>. QED  BY <1>5, <1>6, <1>7 DEF Knows

LEMMA ResumeKeeps == ASSUME IInv, Resume PROVE IInv'
<1>1. TypeOK /\ Whereabouts /\ Accounted /\ posted \in Seq(Events) /\ \A w \in Wallets : Knows(w) /\ job[w] \in Jobs
  BY DEF IInv, TypeOK, Events
<1>2. PICK n \in 0 .. Len(parent.subjobs) :
        /\ Walks(n, Agreeable)
        /\ job' = [w \in Wallets |-> IF w \in First(n) THEN Resumed(w) ELSE job[w]]
        /\ \E goes \in Ascending({k \in 1 .. n : ~job[parent.subjobs[k]].killed}) :
             posted' = posted \o [i \in DOMAIN goes |-> [job |-> parent.subjobs[goes[i]], slot |-> "processNextEntry"]]
        /\ raced' = raced \cup {w \in First(n) : UnderWay(w)}
        /\ parent' = [parent EXCEPT !.paused = n # Len(parent.subjobs)]
  BY DEF Resume
<1>3. parent.paused /\ UNCHANGED <<app, calls, dialogs, stored, imported, clicks>>
  BY DEF Resume
<1>4. /\ n \in Nat /\ Started
      /\ \A k \in 1 .. n : k \in DOMAIN parent.subjobs /\ parent.subjobs[k] \in Wallets
      /\ \A j, k \in 1 .. n : parent.subjobs[j] = parent.subjobs[k] => j = k
      /\ First(n) \subseteq Wallets /\ First(n) \subseteq ToSet(parent.subjobs)
      /\ \A w \in First(n) : job[w].status # "Initializing"
  BY <1>2, ReachedAre
<1>. DEFINE S == {k \in 1 .. n : ~job[parent.subjobs[k]].killed}
<1>5. PICK goes \in Ascending(S) :
        posted' = posted \o [i \in DOMAIN goes |-> [job |-> parent.subjobs[goes[i]], slot |-> "processNextEntry"]]
  BY <1>2
<1>. DEFINE m == Cardinality(S)
            s == [i \in 1 .. m |-> parent.subjobs[goes[i]]]
            t == [i \in DOMAIN goes |-> [job |-> parent.subjobs[goes[i]], slot |-> "processNextEntry"]]
<1>6. S \in SUBSET (1 .. n) /\ \A k \in S : ~job[parent.subjobs[k]].killed
  OBVIOUS
<1>. HIDE DEF S, Events
<1>7. /\ m \in Nat /\ goes \in [1 .. m -> S] /\ DOMAIN goes = 1 .. m
      /\ \A i, j \in 1 .. m : goes[i] = goes[j] => i = j
  BY <1>4, <1>6, AscendingIs
<1>. HIDE DEF m
<1>8. \A i \in 1 .. m : goes[i] \in 1 .. n /\ goes[i] \in S
  BY <1>6, <1>7
<1>9. /\ s \in [1 .. m -> Wallets] /\ (\A i, j \in 1 .. m : s[i] = s[j] => i = j)
      /\ \A i \in 1 .. m : s[i] \in First(n) /\ ~job[s[i]].killed
  BY <1>4, <1>6, <1>7, <1>8 DEF First
<1>10. t = [i \in 1 .. m |-> [job |-> s[i], slot |-> "processNextEntry"]]
  BY <1>7
<1>. HIDE DEF s, t
<1>11. /\ t \in Seq(Events) /\ Owned(t)
       /\ \A w : /\ Once(t, w) /\ SlotsOf(t, w) \subseteq {"processNextEntry"}
                 /\ w \notin First(n) \/ job[w].killed => SlotsOf(t, w) = {}
  <2>. DEFINE sl == "processNextEntry"
  <2>1. /\ m \in Nat /\ s \in [1 .. m -> Wallets] /\ \A i, j \in 1 .. m : s[i] = s[j] => i = j
        /\ sl \in Slots /\ t = [i \in 1 .. m |-> [job |-> s[i], slot |-> sl]]
    BY <1>7, <1>9, <1>10 DEF Slots
  <2>. HIDE DEF sl
  <2>2. /\ t \in Seq(Events) /\ Owned(t)
        /\ \A w : /\ Once(t, w) /\ SlotsOf(t, w) \subseteq {sl}
                  /\ sl = "delete" \/ (\A i \in 1 .. m : s[i] # w) => SlotsOf(t, w) = {}
    BY ONLY <2>1, BatchIs
  <2>3. \A w : w \notin First(n) \/ job[w].killed => \A i \in 1 .. m : s[i] # w
    BY <1>9
  <2>. QED  BY <2>2, <2>3 DEF sl
<1>12. posted' = posted \o t
  BY <1>5 DEF t
<1>13. ASSUME NEW w
       PROVE  /\ SlotsOf(posted', w) = SlotsOf(posted, w) \cup SlotsOf(t, w)
              /\ Once(posted, w) /\ SlotsOf(t, w) = {} => Once(posted', w)
              /\ Once(t, w) /\ SlotsOf(posted, w) = {} => Once(posted', w)
  <2>1. /\ SlotsOf(posted \o t, w) = SlotsOf(posted, w) \cup SlotsOf(t, w)
        /\ Once(posted, w) /\ SlotsOf(t, w) = {} => Once(posted \o t, w)
        /\ Once(t, w) /\ SlotsOf(posted, w) = {} => Once(posted \o t, w)
    BY <1>1, <1>11, ConcatPosted
  <2>. QED  BY <1>12, <2>1
<1>14. posted' \in Seq(Events) /\ Owned(posted')
  <2>1. Owned(posted)
    BY <1>1, <1>4 DEF Whereabouts, Owned
  <2>2. Owned(posted \o t) /\ posted \o t \in Seq(Events)
    BY <1>1, <1>11, <2>1, OwnedQueues, ConcatPosted
  <2>. QED  BY <1>12, <2>2
<1>15. /\ parent' \in [subjobs : Seq(Wallets), failed : BOOLEAN, paused : BOOLEAN]
       /\ parent'.subjobs = parent.subjobs /\ parent'.failed = parent.failed
  BY <1>1, <1>2 DEF TypeOK
<1>16. raced' \subseteq Wallets /\ \A w : w \in raced' <=> w \in raced \/ (w \in First(n) /\ UnderWay(w))
  BY <1>1, <1>2, <1>4 DEF TypeOK
<1>17. ASSUME NEW w \in Wallets
       PROVE  Knows(w)' /\ job'[w] \in Jobs /\ job'[w].result = job[w].result
  <2>1. CASE w \in First(n) /\ ~job[w].killed
    <3>1. job'[w] = Resumed(w) /\ w \in ToSet(parent.subjobs) /\ job[w].status # "Initializing"
      BY <1>2, <1>4, <2>1
    <3>2. /\ SlotsOf(posted', w) \subseteq SlotsOf(posted, w) \cup {"processNextEntry"}
          /\ SlotsOf(posted, w) = {} => Once(posted', w)
      BY <1>11, <1>13
    <3>3. w \notin raced' => w \notin raced /\ calls[w] = <<>> /\ SlotsOf(posted, w) = {}
      BY <1>16, <2>1 DEF UnderWay, SlotsOf, PostedTo
    <3>. QED  BY <1>3, <2>1, <3>1, <3>2, <3>3, ResumedKnows
  <2>2. CASE w \notin First(n) \/ job[w].killed
    <3>1. job'[w] = job[w] \/ job'[w] = [job[w] EXCEPT !.suspended = FALSE, !.paused = FALSE]
      BY <1>2, <2>2 DEF Resumed
    <3>2. /\ job'[w] \in Jobs /\ job'[w].killed = job[w].killed /\ job'[w].result = job[w].result
          /\ job'[w].status = job[w].status /\ job'[w].folders = job[w].folders /\ job'[w].folder = job[w].folder
          /\ job'[w].entries = job[w].entries /\ job'[w].results = job[w].results
      BY <1>1, <3>1 DEF Jobs
    <3>3. SlotsOf(posted', w) = SlotsOf(posted, w) /\ (Once(posted, w) => Once(posted', w))
      BY <1>11, <1>13, <2>2
    <3>4. /\ w \in raced => w \in raced'
          /\ w \in raced' => w \in raced \/ job[w].status # "Initializing"
      BY <1>4, <1>16
    <3>5. Still(w)
      BY <1>3, <1>15, <3>2, <3>3, <3>4 DEF Still, Asking, ToSet
    <3>. QED  BY <1>1, <3>2, <3>5, StillKnows
  <2>. QED  BY <2>1, <2>2
<1>18. job' \in [Wallets -> Jobs]
  BY <1>2, <1>17
<1>19. TypeOK'
  BY <1>1, <1>3, <1>14, <1>15, <1>16, <1>18 DEF TypeOK, Events
<1>20. Whereabouts'
  <2>1. Started'
    BY <1>14, OwnedIsStarted DEF Started
  <2>2. (\A i \in DOMAIN posted : posted[i].job \in Wallets)'
    BY <1>14 DEF Owned
  <2>. QED  BY <1>1, <1>3, <1>15, <2>1, <2>2 DEF Whereabouts
<1>21. Accounted'
  BY <1>1, <1>3, <1>4, <1>15, <1>17 DEF Accounted, ToSet
<1>. QED  BY <1>17, <1>19, <1>20, <1>21 DEF IInv

-----------------------------------------------------------------------------
(* The theorems *)

LEMMA NextIs ==
  ASSUME Next
  PROVE  \/ RunParent \/ Kill \/ Suspend \/ Resume \/ TouchDeleted \/ Exit \/ Relaunch
         \/ \E w \in Wallets : Turn(w)
         \/ Head(dialogs) \notin Wallets /\ (AcceptPassword \/ RejectDialog)
  BY DEF Next, Deliver, User, Turn

LEMMA NextKeeps == ASSUME IInv, [Next]_vars PROVE IInv'
<1>1. TypeOK /\ Whereabouts /\ dialogs \in Seq(Wallets)
  BY DEF IInv, TypeOK
<1>2. CASE TouchDeleted
  <2>1. Started
    BY <1>1, <1>2, EmptySet DEF TouchDeleted, Whereabouts, Fresh, NewParent
  <2>. QED  BY <1>2, <2>1, EndKeeps DEF TouchDeleted
<1>3. CASE Exit
  <2>1. Started
    BY <1>1, <1>3 DEF Exit, Whereabouts, Fresh
  <2>2. app' \in {"ended", "crashed"} /\ app = "quitting"
    BY <1>3 DEF Exit
  <2>. QED  BY <1>3, <2>1, <2>2, EndKeeps DEF Exit
<1>4. CASE AcceptPassword \/ RejectDialog
  <2>1. Head(dialogs) \in Wallets
    BY <1>1, <1>4, HeadTailSet DEF AcceptPassword, RejectDialog
  <2>2. PICK w \in Wallets : w = Head(dialogs)
    BY <2>1
  <2>. QED  BY <1>4, <2>2, TurnKeeps DEF Turn
<1>5. CASE UNCHANGED vars
  <2>1. \A w \in Wallets : Knows(w)'
    <3>1. ASSUME NEW w \in Wallets PROVE Knows(w)'
      <4>1. Still(w)
        BY <1>5 DEF Still, Asking, vars
      <4>. QED  BY <4>1, StillKnows DEF IInv
    <3>. QED  BY <3>1
  <2>2. TypeOK'
    BY <1>1, <1>5 DEF TypeOK, vars
  <2>3. Whereabouts' /\ Accounted'
    BY <1>5 DEF IInv, Whereabouts, Started, Fresh, Accounted, vars
  <2>. QED  BY <2>1, <2>2, <2>3 DEF IInv
<1>. QED  BY <1>2, <1>3, <1>4, <1>5, NextIs, RunParentKeeps, KillKeeps, SuspendKeeps, ResumeKeeps, RelaunchKeeps, TurnKeeps

LEMMA Inductive == Spec => []IInv
<1>1. Init => IInv
  BY InitIs
<1>2. IInv /\ [Next]_vars => IInv'
  BY NextKeeps
<1>. QED  BY <1>1, <1>2, PTL DEF Spec

\* Every variable of the importer keeps to its type.
THEOREM ImportTypes == Spec => []TypeOK
<1>1. IInv => TypeOK
  BY DEF IInv
<1>. QED  BY <1>1, Inductive, PTL

\* importsinglewalletjob.cpp: however the calls, the dialogs and the clicks fall,
\* an import that reports success has copied every entry of every folder of its
\* file, and none has ever filed an entry under a folder it is not in - except
\* for a job resumed while a step of its own was under way.
THEOREM SuccessMeansCopied == Spec => []CopiesTheWallet
<1>1. IInv => CopiesTheWallet
  BY DEF IInv, Knows, Copied, CopiesTheWallet
<1>. QED  BY <1>1, Inductive, PTL

\* kwlimporterjob.cpp: the utility quits by itself only when all imports have
\* given their result, or one of them failed; and an import gives one result.
THEOREM QuitsOnlyWhenDone == Spec => []QuitsWhenDone
<1>1. ASSUME IInv PROVE QuitsWhenDone
  <2>1. \A w \in Wallets \ raced : job[w].results <= 1
    BY <1>1 DEF IInv, Knows, OneChain
  <2>2. ASSUME app \in {"quitting", "ended"}, ~parent.failed
        PROVE  \A w \in Wallets : job[w].result \in {"ok", "failed"}
    <3>1. parent.subjobs = <<>> /\ Started
      BY <1>1, <2>2 DEF IInv, Accounted, Whereabouts, Fresh
    <3>. QED  BY <1>1, <3>1, EmptySet DEF IInv, Accounted
  <2>. QED  BY <2>1, <2>2 DEF QuitsWhenDone
<1>2. IInv => QuitsWhenDone
  BY <1>1
<1>. QED  BY <1>2, Inductive, PTL

LEMMA KilledStep ==
  ASSUME IInv, [Next]_vars, NEW w \in Wallets, job[w].killed
  PROVE  Len(calls'[w]) <= Len(calls[w])
<1>1. TypeOK /\ Knows(w) /\ Whereabouts
  BY DEF IInv
<1>2. calls \in [Wallets -> Seq(Requests)] /\ Len(calls[w]) \in Nat
  BY <1>1, LenProperties DEF TypeOK
<1>3. ~Opening(w) /\ ~CanProceed(w)
  BY <1>1 DEF Knows, Begun, CanProceed
<1>4. ASSUME NEW v \in Wallets, CheckImportNeeded(v) PROVE Len(calls'[w]) <= Len(calls[w])
  <2>1. v # w
    <3>1. ASSUME v = w PROVE FALSE
      <4>1. "checkImportNeeded" \in SlotsOf(posted, w)
        BY <1>1, <1>4, <3>1, Takes DEF CheckImportNeeded, Slots
      <4>. QED  BY <1>3, <4>1 DEF Opening, Early
    <3>. QED  BY <3>1
  <2>. QED  BY <1>2, <1>4, <2>1, CheckImportNeededIs DEF Moves
<1>5. ASSUME NEW v \in Wallets, ProcessNextEntry(v) PROVE Len(calls'[w]) <= Len(calls[w])
  <2>1. CASE v = w
    BY <1>2, <1>3, <1>5, <2>1 DEF ProcessNextEntry, Idle
  <2>2. CASE v # w
    BY <1>2, <1>5, <2>2, ProcessNextEntryIs DEF Moves
  <2>. QED  BY <2>1, <2>2
<1>6. ASSUME NEW v \in Wallets, Answer(v) PROVE Len(calls'[w]) <= Len(calls[w])
  <2>1. PICK i \in DOMAIN calls[v] :
          CheckImportNeededItems(v, i) \/ CheckImportNeededSecret(v, i) \/ CreateItemFinished(v, i)
    BY <1>6 DEF Answer
  <2>2. UNCHANGED <<dialogs, raced, imported, clicks>>
    BY <1>6 DEF Answer
  <2>3. CASE v # w
    BY <1>2, <2>1, <2>2, <2>3, MarkerAnswerIs, CreateItemFinishedIs DEF Moves
  <2>4. CASE v = w
    <3>1. calls[w][i].op = "create"
      BY <1>3, <2>1, <2>4 DEF Opening
    <3>2. Answered(w, i)
      BY <2>1, <2>4, <3>1 DEF CheckImportNeededItems, CheckImportNeededSecret, CreateItemFinished
    <3>3. Len(calls'[w]) = Len(calls[w]) - 1
      BY <1>1, <2>1, <2>4, <3>2, AnsweredIs
    <3>. QED  BY <1>2, <3>3
  <2>. QED  BY <2>3, <2>4
<1>7. CASE UNCHANGED calls
  BY <1>2, <1>7
<1>8. Relaunch => calls'[w] = <<>>
  BY DEF Relaunch
<1>9. RunParent \/ Kill \/ Suspend \/ Resume \/ TouchDeleted \/ Exit \/ AcceptPassword \/ RejectDialog => UNCHANGED calls
  BY DEF RunParent, Kill, Suspend, Resume, TouchDeleted, Exit, AcceptPassword, RejectDialog
<1>10. ASSUME NEW v \in Wallets,
              Run(v) \/ OnWalletOpened(v) \/ ProcessCurrentFolder(v) \/ ProcessNextFolder(v) \/ Delete(v) \/ Drop(v)
       PROVE  UNCHANGED calls
  BY <1>10 DEF Run, OnWalletOpened, ProcessCurrentFolder, ProcessNextFolder, Delete, Drop, Idle
<1>11. UNCHANGED vars => UNCHANGED calls
  BY DEF vars
<1>12. CASE calls'[w] = <<>>
  BY <1>2, <1>12
<1>. QED  BY <1>4, <1>5, <1>6, <1>7, <1>8, <1>9, <1>10, <1>11, <1>12 DEF Next, Deliver, User

\* importsinglewalletjob.cpp: after a kill the job sends nothing more to the
\* service, whatever is posted to it and whichever answers are on their way,
\* whether the utility goes on or ends.
THEOREM KilledSendsNothing == Spec => KilledIsQuiet
<1>1. IInv /\ [Next]_vars =>
        [\A w \in Wallets : job[w].killed => Len(calls'[w]) <= Len(calls[w])]_vars
  BY KilledStep
<1>. QED  BY <1>1, Inductive, PTL DEF Spec, KilledIsQuiet
=============================================================================
