----------------------------- MODULE PartsProofs -----------------------------
(***************************************************************************)
(* Proofs about the two small parts, the device and the collection in       *)
(* memory, and what the parts promise when they run side by side.           *)
(*                                                                          *)
(* SecretDevice, for fields of any sizes and any chunk: what was written    *)
(* lies in a sequence of byte strings, the chunks and behind them what the  *)
(* buffer has when the file is committed. A field lies whole in one of      *)
(* them, right behind the field before it or at the start of the next; that *)
(* is why reading, which asks for the same sizes, finds it.                 *)
(*                                                                          *)
(* TemporaryCollection, for any ids, attributes and labels: items only      *)
(* change where the collection is reached, so that before and after its     *)
(* life both sides start from nothing; that is what the inductive invariant *)
(* adds to what the listener believes.                                      *)
(*                                                                          *)
(* Parts: a step of the whole is a step of each part or leaves it alone, so *)
(* that whatever is proved of a part alone, here and in the modules of the  *)
(* larger ones, holds of it beside the others.                              *)
(***************************************************************************)
EXTENDS Parts, WalletImportProofs

Units == Nat \X Nat

\* The fields of sizes fs lie in the byte strings g: field k in the one of
\* number home[k], from at[k] on.
Laid(fs, g, home, at) ==
  /\ g \in Seq(Seq(Units)) /\ g # <<>>
  /\ home \in [DOMAIN fs -> DOMAIN g] /\ at \in [DOMAIN fs -> Nat]
  /\ \A k \in DOMAIN fs :
       /\ at[k] + fs[k] <= Len(g[home[k]])
       /\ \A j \in 1..fs[k] : g[home[k]][at[k] + j] = <<k, j>>
       /\ k = 1 => home[k] = 1 /\ at[k] = 0
       /\ \A i \in DOMAIN fs : i < k => home[i] <= home[k]
       /\ \A i \in DOMAIN fs : k = i + 1 =>
            \/ home[k] = home[i] /\ at[k] = at[i] + fs[i]
            \/ home[k] = home[i] + 1 /\ at[k] = 0 /\ at[i] + fs[i] = Len(g[home[i]])

\* The next field belongs at the end of the last byte string.
AtEnd(fs, g, home, at) ==
  LET n == Len(fs)
      m == Len(g)
  IN IF fs = <<>> THEN m = 1 /\ g[1] = <<>>
     ELSE \/ home[n] = m /\ at[n] + fs[n] = Len(g[m])
          \/ home[n] = m - 1 /\ g[m] = <<>> /\ at[n] + fs[n] = Len(g[m - 1])

\* While the file is written, and when it is closed: what the buffer still has
\* is the last byte string.
Saving ==
  /\ pos = 0 /\ got = <<>>
  /\ \E home, at : /\ Laid(fields, Append(chunks, buffer), home, at)
                   /\ phase = "writing" => AtEnd(fields, Append(chunks, buffer), home, at)

\* While it is read, d of the byte strings have been taken; the last of them is
\* not in the file.
Reading(g, home, at, d) ==
  /\ Laid(fields, g, home, at) /\ Len(g[Len(g)]) < Chunk
  /\ d \in 0..(Len(g) - 1) /\ chunks = SubSeq(g, d + 1, Len(g) - 1)
  /\ \A k \in DOMAIN got : got[k] = Device!Bytes(k) <=> home[k] < Len(g)
  /\ \A k \in DOMAIN fields : k = Len(got) + 1 =>
       \/ home[k] = d /\ buffer = g[d] /\ pos = at[k]
       \/ home[k] = d + 1 /\ pos >= Len(buffer) /\ (home[k] < Len(g) => at[k] = 0)

Typed ==
  /\ phase \in {"writing", "closed", "reading"}
  /\ fields \in Seq(Sizes) /\ pos \in Nat
  /\ buffer \in Seq(Units) /\ chunks \in Seq(Seq(Units))
  /\ got \in Seq(Seq(Units)) /\ Len(got) <= Len(fields)

DeviceInv ==
  /\ Typed
  /\ phase # "reading" => Saving /\ Len(buffer) < Chunk
  /\ phase = "reading" => \E g, home, at, d : Reading(g, home, at, d)

-----------------------------------------------------------------------------
LEMMA SizeIs ==
  ASSUME Device!DeviceAssumption, NEW fs \in Seq(Sizes), NEW k \in DOMAIN fs
  PROVE  k \in Nat \ {0} /\ k <= Len(fs) /\ fs[k] \in Nat \ {0}
<1>1. fs[k] \in Sizes /\ k \in 1..Len(fs) /\ Len(fs) \in Nat
  OBVIOUS
<1>2. fs[k] \in Nat \ {0}
  BY <1>1 DEF Device!DeviceAssumption
<1> QED
  BY <1>1, <1>2

\* The last of several byte strings, and the ones before it.
LEMMA Behind ==
  ASSUME NEW c \in Seq(Seq(Units)), NEW b \in Seq(Units)
  PROVE  /\ Append(c, b) \in Seq(Seq(Units)) /\ Append(c, b) # <<>>
         /\ Len(Append(c, b)) = Len(c) + 1 /\ Len(c) \in Nat
         /\ DOMAIN Append(c, b) = 1..(Len(c) + 1)
         /\ Append(c, b)[Len(c) + 1] = b
         /\ \A i \in 1..Len(c) : Append(c, b)[i] = c[i]
<1> DEFINE S == Seq(Units)
<1>1. c \in Seq(S) /\ b \in S
  OBVIOUS
<1> HIDE DEF S
<1>2. /\ Append(c, b) \in Seq(S) /\ Append(c, b) # <<>>
      /\ Len(Append(c, b)) = Len(c) + 1 /\ Len(c) \in Nat
      /\ DOMAIN Append(c, b) = 1..(Len(c) + 1)
      /\ Append(c, b)[Len(c) + 1] = b
      /\ \A i \in 1..Len(c) : Append(c, b)[i] = c[i]
  BY <1>1
<1> QED
  BY <1>2 DEF S

LEMMA Joined ==
  ASSUME NEW b \in Seq(Units), NEW t \in Seq(Units)
  PROVE  /\ b \o t \in Seq(Units) /\ Len(b) \in Nat /\ Len(t) \in Nat /\ Len(b \o t) = Len(b) + Len(t)
         /\ \A i \in 1..Len(b) : (b \o t)[i] = b[i]
         /\ \A i \in 1..Len(t) : (b \o t)[Len(b) + i] = t[i]
  OBVIOUS

LEMMA DeviceInit == Device!DeviceAssumption /\ Device!Init => DeviceInv
<1> SUFFICES ASSUME Device!DeviceAssumption, Device!Init PROVE DeviceInv
  OBVIOUS
<1>1. Typed
  BY DEF Device!Init, Typed
<1>2. /\ DOMAIN <<>> = {} /\ Append(chunks, buffer) \in Seq(Seq(Units))
      /\ Len(Append(chunks, buffer)) = 1 /\ Append(chunks, buffer)[1] = <<>>
  BY DEF Device!Init
<1>3. Laid(<<>>, Append(chunks, buffer), [k \in {} |-> 1], [k \in {} |-> 0])
  <2> DEFINE g == Append(chunks, buffer)
  <2>1. g \in Seq(Seq(Units)) /\ g # <<>> /\ DOMAIN <<>> = {}
    BY <1>1, <1>2, Behind DEF Typed
  <2> HIDE DEF g
  <2>2. Laid(<<>>, g, [k \in {} |-> 1], [k \in {} |-> 0])
    BY <2>1 DEF Laid
  <2> QED
    BY <2>2 DEF g
<1>4. Saving
  BY <1>2, <1>3 DEF Device!Init, Saving, AtEnd
<1>5. Len(buffer) < Chunk
  BY DEF Device!Init, Device!DeviceAssumption
<1> QED
  BY <1>1, <1>4, <1>5 DEF DeviceInv, Device!Init

\* Whatever is put behind the last byte string, the fields lie where they were.
LEMMA LaidLonger ==
  ASSUME Device!DeviceAssumption, NEW fs \in Seq(Sizes), NEW c \in Seq(Seq(Units)), NEW b \in Seq(Units),
         NEW t \in Seq(Units), NEW home, NEW at, Laid(fs, Append(c, b), home, at)
  PROVE  Laid(fs, Append(c, b \o t), home, at)
<1> DEFINE g == Append(c, b)
           h == Append(c, b \o t)
<1>1. /\ g \in Seq(Seq(Units)) /\ Len(g) = Len(c) + 1 /\ DOMAIN g = 1..(Len(c) + 1)
      /\ g[Len(c) + 1] = b /\ \A i \in 1..Len(c) : g[i] = c[i]
  BY Behind
<1>2. /\ h \in Seq(Seq(Units)) /\ h # <<>> /\ Len(h) = Len(c) + 1 /\ DOMAIN h = 1..(Len(c) + 1)
      /\ h[Len(c) + 1] = b \o t /\ \A i \in 1..Len(c) : h[i] = c[i]
  BY Behind, Joined
<1>3. Len(b \o t) >= Len(b) /\ Len(b) \in Nat /\ Len(b \o t) \in Nat /\ Len(c) \in Nat
      /\ \A i \in 1..Len(b) : (b \o t)[i] = b[i]
  BY Joined
<1> HIDE DEF g, h
<1>4. home \in [DOMAIN fs -> DOMAIN h] /\ at \in [DOMAIN fs -> Nat]
  BY <1>1, <1>2 DEF Laid, g
<1>5. ASSUME NEW k \in DOMAIN fs
      PROVE  /\ at[k] + fs[k] <= Len(h[home[k]])
             /\ \A j \in 1..fs[k] : h[home[k]][at[k] + j] = <<k, j>>
  <2>1. at[k] \in Nat /\ fs[k] \in Nat /\ home[k] \in 1..(Len(c) + 1)
    BY <1>2, <1>4, SizeIs
  <2>2. at[k] + fs[k] <= Len(g[home[k]]) /\ \A j \in 1..fs[k] : g[home[k]][at[k] + j] = <<k, j>>
    BY DEF Laid, g
  <2>3. CASE home[k] \in 1..Len(c)
    <3>1. h[home[k]] = g[home[k]]
      BY <1>1, <1>2, <2>3
    <3> QED
      BY <2>2, <3>1
  <2>4. CASE home[k] = Len(c) + 1
    <3>1. at[k] + fs[k] <= Len(b) /\ h[home[k]] = b \o t /\ g[home[k]] = b
      BY <1>1, <1>2, <2>2, <2>4
    <3>2. ASSUME NEW j \in 1..fs[k] PROVE (b \o t)[at[k] + j] = <<k, j>>
      <4>1. at[k] + j \in 1..Len(b)
        BY <1>3, <2>1, <3>1
      <4> QED
        BY <1>3, <2>2, <3>1, <4>1
    <3>3. at[k] + fs[k] <= Len(b \o t)
      BY <1>3, <2>1, <3>1
    <3> QED
      BY <3>1, <3>2, <3>3
  <2>5. home[k] \in 1..Len(c) \/ home[k] = Len(c) + 1
    BY <1>3, <2>1
  <2> QED
    BY <2>3, <2>4, <2>5
<1>6. ASSUME NEW k \in DOMAIN fs, NEW i \in DOMAIN fs, k = i + 1
      PROVE  \/ home[k] = home[i] /\ at[k] = at[i] + fs[i]
             \/ home[k] = home[i] + 1 /\ at[k] = 0 /\ at[i] + fs[i] = Len(h[home[i]])
  <2>1. \/ home[k] = home[i] /\ at[k] = at[i] + fs[i]
        \/ home[k] = home[i] + 1 /\ at[k] = 0 /\ at[i] + fs[i] = Len(g[home[i]])
    BY <1>6 DEF Laid, g
  <2>2. home[k] \in 1..(Len(c) + 1) /\ home[i] \in 1..(Len(c) + 1)
    BY <1>2, <1>4
  <2>3. home[k] = home[i] + 1 => home[i] \in 1..Len(c)
    BY <1>3, <2>2
  <2> QED
    BY <1>1, <1>2, <2>1, <2>3
<1>7. ASSUME NEW k \in DOMAIN fs
      PROVE  /\ k = 1 => home[k] = 1 /\ at[k] = 0
             /\ \A i \in DOMAIN fs : i < k => home[i] <= home[k]
  BY DEF Laid
<1> QED
  BY <1>2, <1>4, <1>5, <1>6, <1>7 DEF Laid, h

\* A byte string more, for what comes.
LEMMA LaidFurther ==
  ASSUME NEW fs \in Seq(Sizes), NEW c \in Seq(Seq(Units)), c # <<>>, NEW home, NEW at, Laid(fs, c, home, at)
  PROVE  Laid(fs, Append(c, <<>>), home, at)
<1> DEFINE h == Append(c, <<>>)
<1>1. /\ h \in Seq(Seq(Units)) /\ h # <<>> /\ DOMAIN h = 1..(Len(c) + 1) /\ Len(c) \in Nat
      /\ DOMAIN c = 1..Len(c) /\ \A i \in 1..Len(c) : h[i] = c[i]
  BY Behind
<1> HIDE DEF h
<1>2. home \in [DOMAIN fs -> 1..Len(c)] /\ at \in [DOMAIN fs -> Nat]
  BY <1>1 DEF Laid
<1>3. home \in [DOMAIN fs -> DOMAIN h]
  BY <1>1, <1>2
<1>4. \A k \in DOMAIN fs : h[home[k]] = c[home[k]]
  BY <1>1, <1>2
<1> QED
  BY <1>1, <1>2, <1>3, <1>4 DEF Laid, h

\* The units of a field, as the stream hands them to the device.
LEMMA UnitsOf ==
  ASSUME NEW k \in Nat, NEW n \in Nat
  PROVE  /\ [j \in 1..n |-> <<k, j>>] \in Seq(Units) /\ Len([j \in 1..n |-> <<k, j>>]) = n
         /\ \A j \in 1..n : [i \in 1..n |-> <<k, i>>][j] = <<k, j>>
<1>1. \A j \in 1..n : <<k, j>> \in Units
  BY DEF Units
<1> QED
  BY <1>1

\* A field more, behind the others.
LEMMA LaidMore ==
  ASSUME Device!DeviceAssumption, NEW fs \in Seq(Sizes), NEW c \in Seq(Seq(Units)), NEW b \in Seq(Units),
         NEW home, NEW at, Laid(fs, Append(c, b), home, at), AtEnd(fs, Append(c, b), home, at), NEW n \in Sizes
  PROVE  LET gs == Append(fs, n)
             h == Append(c, b \o [j \in 1..n |-> <<Len(fs) + 1, j>>])
         IN  \E home2, at2 : /\ Laid(gs, h, home2, at2)
                             /\ home2[Len(gs)] = Len(h) /\ at2[Len(gs)] + gs[Len(gs)] = Len(h[Len(h)])
<1> DEFINE gs == Append(fs, n)
           u == [j \in 1..n |-> <<Len(fs) + 1, j>>]
           g == Append(c, b)
           h == Append(c, b \o u)
           N == Len(fs)
           M == Len(c) + 1
           home2 == [k \in 1..(N + 1) |-> IF k \in 1..N THEN home[k] ELSE M]
           at2 == [k \in 1..(N + 1) |-> IF k \in 1..N THEN at[k] ELSE Len(b)]
<1>1. n \in Nat /\ n # 0 /\ N \in Nat /\ M \in Nat /\ M >= 1 /\ Len(b) \in Nat /\ DOMAIN fs = 1..N
  BY DEF Device!DeviceAssumption
<1>2. gs \in Seq(Sizes) /\ Len(gs) = N + 1 /\ DOMAIN gs = 1..(N + 1) /\ gs[N + 1] = n /\ \A k \in 1..N : gs[k] = fs[k]
  OBVIOUS
<1>3. u \in Seq(Units) /\ Len(u) = n /\ \A j \in 1..n : u[j] = <<N + 1, j>>
  <2>1. Len(fs) + 1 \in Nat
    BY <1>1
  <2> QED
    BY <1>1, <2>1, UnitsOf
<1> HIDE DEF u
<1>3a. b \o u \in Seq(Units) /\ Len(b \o u) = Len(b) + n /\ \A j \in 1..n : (b \o u)[Len(b) + j] = <<N + 1, j>>
  <2>1. \A i \in 1..Len(u) : (b \o u)[Len(b) + i] = u[i]
    BY <1>3, Joined
  <2>2. b \o u \in Seq(Units) /\ Len(b \o u) = Len(b) + Len(u)
    BY <1>3, Joined
  <2> QED
    BY <1>3, <2>1, <2>2
<1>4. /\ h \in Seq(Seq(Units)) /\ h # <<>> /\ Len(h) = M /\ DOMAIN h = 1..M
      /\ h[M] = b \o u /\ \A i \in 1..Len(c) : h[i] = c[i]
      /\ Len(h[M]) = Len(b) + n /\ \A j \in 1..n : h[M][Len(b) + j] = <<N + 1, j>>
  <2> DEFINE w == b \o u
  <2>1. w \in Seq(Units) /\ Len(w) = Len(b) + n /\ \A j \in 1..n : w[Len(b) + j] = <<N + 1, j>>
    BY <1>3a
  <2> HIDE DEF w
  <2>2. /\ Append(c, w) \in Seq(Seq(Units)) /\ Append(c, w) # <<>>
        /\ Len(Append(c, w)) = M /\ DOMAIN Append(c, w) = 1..M
        /\ Append(c, w)[M] = w /\ \A i \in 1..Len(c) : Append(c, w)[i] = c[i]
    BY <2>1, Behind
  <2> QED
    BY <2>1, <2>2 DEF w
<1>5. Len(g) = M /\ DOMAIN g = 1..M /\ g[M] = b /\ \A i \in 1..Len(c) : g[i] = c[i]
  BY Behind
<1>6. Laid(fs, h, home, at)
  BY <1>3, LaidLonger
<1>7. /\ \A k \in 1..N : home2[k] = home[k] /\ at2[k] = at[k]
      /\ home2[N + 1] = M /\ at2[N + 1] = Len(b)
  BY <1>1
<1>8. /\ \A k \in 1..N : home[k] \in 1..M /\ at[k] \in Nat
      /\ fs = <<>> => M = 1 /\ b = <<>>
      /\ fs # <<>> => \/ home[N] = M /\ at[N] + fs[N] = Len(b)
                      \/ home[N] = M - 1 /\ Len(b) = 0 /\ at[N] + fs[N] = Len(h[M - 1])
  <2>1. \A k \in 1..N : home[k] \in 1..M /\ at[k] \in Nat
    BY <1>1, <1>4, <1>6 DEF Laid
  <2>2. fs = <<>> => M = 1 /\ b = <<>>
    BY <1>5 DEF AtEnd
  <2>3. ASSUME fs # <<>>
        PROVE  \/ home[N] = M /\ at[N] + fs[N] = Len(b)
               \/ home[N] = M - 1 /\ Len(b) = 0 /\ at[N] + fs[N] = Len(h[M - 1])
    <3>1. \/ home[N] = M /\ at[N] + fs[N] = Len(g[M])
          \/ home[N] = M - 1 /\ g[M] = <<>> /\ at[N] + fs[N] = Len(g[M - 1])
      BY <1>5, <2>3 DEF AtEnd
    <3>2. N \in 1..N
      BY <1>1, <2>3, EmptySeq
    <3>3. home[N] = M - 1 => M - 1 \in 1..Len(c)
      BY <1>1, <2>1, <3>2
    <3> QED
      BY <1>4, <1>5, <3>1, <3>3
  <2> QED
    BY <2>1, <2>2, <2>3
<1> HIDE DEF gs, u, g, h, home2, at2, M, N
<1>9. home2 \in [DOMAIN gs -> DOMAIN h] /\ at2 \in [DOMAIN gs -> Nat]
  <2>1. ASSUME NEW k \in 1..(N + 1)
        PROVE  (IF k \in 1..N THEN home[k] ELSE M) \in 1..M /\ (IF k \in 1..N THEN at[k] ELSE Len(b)) \in Nat
    BY <1>1, <1>8
  <2> QED
    BY <1>2, <1>4, <2>1 DEF home2, at2
<1>10. ASSUME NEW k \in 1..N
       PROVE  /\ at2[k] + gs[k] <= Len(h[home2[k]])
              /\ \A j \in 1..gs[k] : h[home2[k]][at2[k] + j] = <<k, j>>
              /\ k = 1 => home2[k] = 1 /\ at2[k] = 0
              /\ \A i \in DOMAIN gs : i < k => home2[i] <= home2[k]
              /\ \A i \in DOMAIN gs : k = i + 1 =>
                   \/ home2[k] = home2[i] /\ at2[k] = at2[i] + gs[i]
                   \/ home2[k] = home2[i] + 1 /\ at2[k] = 0 /\ at2[i] + gs[i] = Len(h[home2[i]])
  <2>1. home2[k] = home[k] /\ at2[k] = at[k] /\ gs[k] = fs[k] /\ k \in DOMAIN fs
    BY <1>1, <1>2, <1>7
  <2>2. \A i \in DOMAIN gs : i < k \/ k = i + 1 => i \in DOMAIN fs /\ home2[i] = home[i] /\ at2[i] = at[i] /\ gs[i] = fs[i]
    BY <1>1, <1>2, <1>7
  <2>3. /\ at[k] + fs[k] <= Len(h[home[k]])
        /\ \A j \in 1..fs[k] : h[home[k]][at[k] + j] = <<k, j>>
        /\ k = 1 => home[k] = 1 /\ at[k] = 0
    BY <1>6, <2>1 DEF Laid
  <2>4. ASSUME NEW i \in DOMAIN gs, i < k PROVE home2[i] <= home2[k]
    <3>1. i \in DOMAIN fs /\ home2[i] = home[i]
      BY <2>2, <2>4
    <3>2. home[i] <= home[k]
      BY <1>6, <2>1, <2>4, <3>1 DEF Laid
    <3> QED
      BY <2>1, <3>1, <3>2
  <2>5. ASSUME NEW i \in DOMAIN gs, k = i + 1
        PROVE  \/ home2[k] = home2[i] /\ at2[k] = at2[i] + gs[i]
               \/ home2[k] = home2[i] + 1 /\ at2[k] = 0 /\ at2[i] + gs[i] = Len(h[home2[i]])
    <3>1. i \in DOMAIN fs /\ home2[i] = home[i] /\ at2[i] = at[i] /\ gs[i] = fs[i]
      BY <2>2, <2>5
    <3>2. \/ home[k] = home[i] /\ at[k] = at[i] + fs[i]
          \/ home[k] = home[i] + 1 /\ at[k] = 0 /\ at[i] + fs[i] = Len(h[home[i]])
      BY <1>6, <2>1, <2>5, <3>1 DEF Laid
    <3> QED
      BY <2>1, <3>1, <3>2
  <2>6. at2[k] + gs[k] <= Len(h[home2[k]]) /\ \A j \in 1..gs[k] : h[home2[k]][at2[k] + j] = <<k, j>>
    BY <2>1, <2>3
  <2> QED
    BY <2>1, <2>3, <2>4, <2>5, <2>6
<1>11. ASSUME NEW k, k = N + 1
       PROVE  /\ at2[k] + gs[k] <= Len(h[home2[k]])
              /\ \A j \in 1..gs[k] : h[home2[k]][at2[k] + j] = <<k, j>>
              /\ k = 1 => home2[k] = 1 /\ at2[k] = 0
              /\ \A i \in DOMAIN gs : i < k => home2[i] <= home2[k]
              /\ \A i \in DOMAIN gs : k = i + 1 =>
                   \/ home2[k] = home2[i] /\ at2[k] = at2[i] + gs[i]
                   \/ home2[k] = home2[i] + 1 /\ at2[k] = 0 /\ at2[i] + gs[i] = Len(h[home2[i]])
  <2>1. home2[k] = M /\ at2[k] = Len(b) /\ gs[k] = n /\ Len(h[M]) = Len(b) + n
    BY <1>2, <1>4, <1>7, <1>11
  <2>2. at2[k] + gs[k] <= Len(h[home2[k]]) /\ \A j \in 1..gs[k] : h[home2[k]][at2[k] + j] = <<k, j>>
    <3>1. Len(b) + n <= Len(h[M])
      BY <1>1, <2>1
    <3>2. \A j \in 1..n : h[M][Len(b) + j] = <<k, j>>
      BY <1>4, <1>11
    <3> QED
      BY <2>1, <3>1, <3>2
  <2>3. k = 1 => home2[k] = 1 /\ at2[k] = 0
    <3>1. k = 1 => fs = <<>>
      BY <1>1, <1>11, EmptySeq DEF N
    <3> QED
      BY <1>8, <2>1, <3>1
  <2>4. ASSUME NEW i \in DOMAIN gs, i < k PROVE home2[i] <= home2[k]
    <3>1. i \in 1..N
      BY <1>1, <1>2, <1>11, <2>4
    <3>2. home2[i] = home[i] /\ home[i] \in 1..M
      BY <1>7, <1>8, <3>1
    <3> QED
      BY <1>1, <2>1, <3>2
  <2>5. ASSUME NEW i \in DOMAIN gs, k = i + 1
        PROVE  \/ home2[k] = home2[i] /\ at2[k] = at2[i] + gs[i]
               \/ home2[k] = home2[i] + 1 /\ at2[k] = 0 /\ at2[i] + gs[i] = Len(h[home2[i]])
    <3>1. i = N /\ i \in 1..N /\ fs # <<>>
      BY <1>1, <1>2, <1>11, <2>5, EmptySeq
    <3>2. home2[i] = home[N] /\ at2[i] = at[N] /\ gs[i] = fs[N]
      BY <1>2, <1>7, <3>1
    <3>3. home[N] = M - 1 => home[N] + 1 = M
      BY <1>1
    <3> QED
      BY <1>8, <2>1, <3>1, <3>2, <3>3
  <2> QED
    BY <2>2, <2>3, <2>4, <2>5
<1>12. Laid(gs, h, home2, at2)
  <2>1. \A k \in DOMAIN gs : k \in 1..N \/ k = N + 1
    BY <1>1, <1>2
  <2> QED
    BY <1>4, <1>9, <1>10, <1>11, <2>1 DEF Laid
<1>13. home2[Len(gs)] = Len(h) /\ at2[Len(gs)] + gs[Len(gs)] = Len(h[Len(h)])
  BY <1>2, <1>4, <1>7
<1> QED
  BY <1>12, <1>13 DEF gs, h, u

LEMMA WriteStep ==
  ASSUME Device!DeviceAssumption, DeviceInv, NEW n \in Sizes, Device!Write(n)
  PROVE  DeviceInv'
<1> DEFINE u == [j \in 1..n |-> <<Len(fields) + 1, j>>]
           filled == buffer \o u
           gs == Append(fields, n)
           h == Append(chunks, filled)
<1>1. /\ phase = "writing" /\ Typed /\ pos = 0 /\ got = <<>>
      /\ fields' = gs /\ UNCHANGED <<phase, pos, got>>
  BY DEF Device!Write, DeviceInv, Saving
<1>2. n \in Nat /\ Len(fields) \in Nat /\ Len(fields) + 1 \in Nat /\ Chunk \in Nat /\ Chunk > 0
  BY <1>1 DEF Device!DeviceAssumption, Typed
<1>3. u \in Seq(Units)
  BY <1>2, UnitsOf
<1> HIDE DEF u
<1>4. filled \in Seq(Units) /\ Len(filled) \in Nat
  BY <1>1, <1>3, Joined DEF Typed
<1>5. PICK home, at : Laid(fields, Append(chunks, buffer), home, at) /\ AtEnd(fields, Append(chunks, buffer), home, at)
  BY <1>1 DEF DeviceInv, Saving
<1>6. PICK home2, at2 :
        /\ Laid(gs, h, home2, at2)
        /\ home2[Len(gs)] = Len(h) /\ at2[Len(gs)] + gs[Len(gs)] = Len(h[Len(h)])
  BY <1>1, <1>5, LaidMore DEF Typed, u
<1>7. gs \in Seq(Sizes) /\ gs # <<>> /\ Len(got) <= Len(gs)
  BY <1>1, <1>2 DEF Typed
<1>8. /\ h \in Seq(Seq(Units)) /\ h # <<>> /\ Len(h) \in Nat /\ Len(h) > 0 /\ h[Len(h)] = filled
  <2> HIDE DEF filled
  <2> QED
    BY <1>1, <1>4, Behind DEF Typed
<1> HIDE DEF filled
<1>9. CASE Len(filled) >= Chunk
  <2>1. chunks' = h /\ buffer' = <<>>
    <3>1. chunks' = h /\ buffer' = SubSeq(filled, Len(filled) + 1, Len(filled))
      BY <1>9 DEF Device!Write, Device!WholeChunk, filled, u
    <3>2. SubSeq(filled, Len(filled) + 1, Len(filled)) = <<>>
      BY <1>4
    <3> QED
      BY <3>1, <3>2
  <2>2. Laid(gs, Append(h, <<>>), home2, at2)
    BY <1>6, <1>7, <1>8, LaidFurther
  <2>3. AtEnd(gs, Append(h, <<>>), home2, at2)
    <3> HIDE DEF h, gs
    <3>1. /\ Len(Append(h, <<>>)) = Len(h) + 1 /\ Append(h, <<>>)[Len(h) + 1] = <<>>
          /\ Append(h, <<>>)[Len(h)] = h[Len(h)] /\ (Len(h) + 1) - 1 = Len(h)
      BY <1>8, Behind
    <3> QED
      BY <1>6, <1>7, <3>1 DEF AtEnd
  <2>4. Typed' /\ Len(buffer') < Chunk
    BY <1>1, <1>2, <1>7, <1>8, <2>1 DEF Typed
  <2>5. Saving'
    BY <1>1, <2>1, <2>2, <2>3 DEF Saving
  <2> QED
    BY <1>1, <2>4, <2>5 DEF DeviceInv
<1>10. CASE ~(Len(filled) >= Chunk)
  <2>1. buffer' = filled /\ chunks' = chunks
    BY <1>10 DEF Device!Write, filled, u
  <2>2. AtEnd(gs, h, home2, at2)
    BY <1>6, <1>7 DEF AtEnd
  <2>3. Typed' /\ Len(buffer') < Chunk
    BY <1>1, <1>2, <1>4, <1>7, <1>10, <2>1 DEF Typed
  <2>4. Saving'
    BY <1>1, <1>6, <2>1, <2>2 DEF Saving
  <2> QED
    BY <1>1, <2>3, <2>4 DEF DeviceInv
<1> QED
  BY <1>9, <1>10

LEMMA CloseStep ==
  ASSUME Device!DeviceAssumption, DeviceInv, Device!Close
  PROVE  DeviceInv'
<1>1. /\ phase = "writing" /\ phase' = "closed" /\ Typed /\ pos = 0 /\ got = <<>>
      /\ buffer' = <<>> /\ UNCHANGED <<fields, pos, got>>
  BY DEF Device!Close, DeviceInv, Saving
<1>2. PICK home, at : Laid(fields, Append(chunks, buffer), home, at)
  BY <1>1 DEF DeviceInv, Saving
<1>3. chunks' \in Seq(Seq(Units)) /\ Laid(fields, Append(chunks', <<>>), home, at)
  <2>1. CASE buffer = <<>>
    BY <1>1, <1>2, <2>1 DEF Device!Close, Typed
  <2>2. ASSUME NEW t \in Seq(Units), chunks' = Append(chunks, buffer \o t)
        PROVE  chunks' \in Seq(Seq(Units)) /\ Laid(fields, Append(chunks', <<>>), home, at)
    <3>1. Laid(fields, chunks', home, at)
      BY <1>1, <1>2, <2>2, LaidLonger DEF Typed
    <3>2. chunks' \in Seq(Seq(Units)) /\ chunks' # <<>>
      BY <3>1 DEF Laid
    <3> QED
      BY <1>1, <3>1, <3>2, LaidFurther DEF Typed
  <2>3. CASE buffer # <<>> /\ Len(buffer) < Least
    <3>1. <<Device!Pad, Device!Pad>> \in Seq(Units)
      BY DEF Device!Pad, Units
    <3>2. chunks' = Append(chunks, buffer \o <<Device!Pad, Device!Pad>>)
      BY <2>3 DEF Device!Close
    <3> QED
      BY <2>2, <3>1, <3>2
  <2>4. CASE buffer # <<>> /\ ~(Len(buffer) < Least)
    <3>1. <<>> \in Seq(Units) /\ buffer \o <<>> = buffer
      BY <1>1 DEF Typed
    <3>2. chunks' = Append(chunks, buffer)
      BY <2>4 DEF Device!Close
    <3> QED
      BY <2>2, <3>1, <3>2
  <2> QED
    BY <2>1, <2>3, <2>4
<1>4. Typed' /\ Len(buffer') < Chunk
  BY <1>1, <1>3 DEF Typed, Device!DeviceAssumption
<1>5. Saving'
  BY <1>1, <1>3 DEF Saving
<1> QED
  BY <1>1, <1>4, <1>5 DEF DeviceInv

LEMMA CommitStep ==
  ASSUME Device!DeviceAssumption, DeviceInv, Device!Commit
  PROVE  DeviceInv'
<1>1. /\ phase # "reading" /\ phase' = "reading" /\ Typed /\ got = <<>> /\ Len(buffer) < Chunk
      /\ buffer' = <<>> /\ pos' = 0 /\ UNCHANGED <<fields, chunks, got>>
  BY DEF Device!Commit, DeviceInv, Saving
<1>2. PICK g, home, at : g = Append(chunks, buffer) /\ Laid(fields, g, home, at)
  BY <1>1 DEF DeviceInv, Saving
<1>3. g \in Seq(Seq(Units)) /\ Len(g) \in Nat /\ Len(g) > 0 /\ Len(g[Len(g)]) < Chunk /\ Len(g) - 1 = Len(chunks)
  BY <1>1, <1>2, Behind DEF Typed
<1>4. SubSeq(g, 0 + 1, Len(g) - 1) = chunks
  BY <1>1, <1>2, <1>3 DEF Typed
<1>5. ASSUME NEW k \in DOMAIN fields, k = Len(got) + 1 PROVE home[k] = 1 /\ at[k] = 0
  BY <1>1, <1>2, <1>5 DEF Laid
<1>6. Typed'
  BY <1>1 DEF Typed
<1>7. Reading(g, home, at, 0)'
  <2>1. 0 \in 0..(Len(g) - 1) /\ DOMAIN got = {} /\ Len(<<>>) = 0
    BY <1>1, <1>3
  <2> QED
    BY <1>1, <1>2, <1>3, <1>4, <1>5, <2>1 DEF Reading
<1> QED
  BY <1>1, <1>6, <1>7 DEF DeviceInv

\* The first of the chunks that are left, and the others.
LEMMA NextChunk ==
  ASSUME NEW S, NEW g \in Seq(S), NEW m \in 1..Len(g), NEW i \in 1..m
  PROVE  SubSeq(g, i, m) # <<>> /\ Head(SubSeq(g, i, m)) = g[i] /\ Tail(SubSeq(g, i, m)) = SubSeq(g, i + 1, m)
<1> DEFINE t == SubSeq(g, i, m)
           r == SubSeq(g, i + 1, m)
<1>1. m \in Nat /\ i \in Nat /\ i >= 1 /\ i <= m /\ m <= Len(g) /\ Len(g) \in Nat
  OBVIOUS
<1>2. t \in Seq(S) /\ Len(t) = m - i + 1 /\ \A j \in 1..(m - i + 1) : t[j] = g[i + j - 1]
  BY <1>1
<1>3. r \in Seq(S) /\ Len(r) = m - i /\ \A j \in 1..(m - i) : r[j] = g[i + j]
  BY <1>1
<1> HIDE DEF t, r
<1>4. t # <<>> /\ Head(t) = g[i]
  BY <1>1, <1>2
<1>5. Tail(t) \in Seq(S) /\ Len(Tail(t)) = m - i /\ \A j \in 1..(m - i) : Tail(t)[j] = t[j + 1]
  BY <1>1, <1>2, <1>4
<1>6. \A j \in 1..(m - i) : t[j + 1] = g[i + j]
  BY <1>1, <1>2
<1>7. Tail(t) = r
  BY <1>1, <1>3, <1>5, <1>6
<1> QED
  BY <1>4, <1>7 DEF t, r

\* Reading a field finds it where it lies: where the last one ended, or at the
\* start of the next chunk, when that is in the file.
LEMMA ReadStep ==
  ASSUME Device!DeviceAssumption, DeviceInv, Device!Read
  PROVE  DeviceInv'
<1>1. /\ phase = "reading" /\ Typed /\ Len(got) < Len(fields)
      /\ UNCHANGED <<phase, fields>>
  BY DEF Device!Read, DeviceInv
<1>2. PICK k, n : k = Len(got) + 1 /\ n = fields[k]
  OBVIOUS
<1> DEFINE short == Len(buffer) < pos + n
           from == IF short THEN 0 ELSE pos
           source == IF ~short THEN buffer ELSE IF chunks = <<>> THEN <<>> ELSE Head(chunks)
           out == [j \in 1..n |-> IF from + j <= Len(source) THEN source[from + j] ELSE Device!Stray]
<1>3. /\ buffer' = source /\ pos' = from + n
      /\ chunks' = IF short /\ chunks # <<>> THEN Tail(chunks) ELSE chunks
      /\ got' = Append(got, out)
  BY <1>2 DEF Device!Read
<1>4. PICK g, home, at, d : Reading(g, home, at, d)
  BY <1>1 DEF DeviceInv
<1>5. /\ k \in DOMAIN fields /\ DOMAIN fields = 1..Len(fields) /\ Len(fields) \in Nat
      /\ Len(got) \in Nat /\ k \in Nat /\ k >= 1 /\ n \in Nat /\ n >= 1
      /\ pos \in Nat /\ Len(buffer) \in Nat
  <2>1. Len(fields) \in Nat /\ Len(got) \in Nat /\ pos \in Nat /\ Len(buffer) \in Nat /\ DOMAIN fields = 1..Len(fields)
    BY <1>1 DEF Typed
  <2>2. k \in DOMAIN fields
    BY <1>1, <1>2, <2>1
  <2> QED
    BY <1>1, <1>2, <2>1, <2>2, SizeIs DEF Typed
<1>6. /\ Laid(fields, g, home, at) /\ Len(g[Len(g)]) < Chunk
      /\ d \in 0..(Len(g) - 1) /\ chunks = SubSeq(g, d + 1, Len(g) - 1)
      /\ \A i \in DOMAIN got : got[i] = Device!Bytes(i) <=> home[i] < Len(g)
      /\ \/ home[k] = d /\ buffer = g[d] /\ pos = at[k]
         \/ home[k] = d + 1 /\ pos >= Len(buffer) /\ (home[k] < Len(g) => at[k] = 0)
  BY <1>2, <1>4, <1>5 DEF Reading
<1>7. /\ g \in Seq(Seq(Units)) /\ Len(g) \in Nat /\ home[k] \in 1..Len(g) /\ at[k] \in Nat
      /\ at[k] + n <= Len(g[home[k]]) /\ \A j \in 1..n : g[home[k]][at[k] + j] = <<k, j>>
      /\ Len(g[home[k]]) \in Nat
  <2>1. g \in Seq(Seq(Units)) /\ home[k] \in DOMAIN g /\ at[k] \in Nat
    BY <1>5, <1>6 DEF Laid
  <2>2. Len(g) \in Nat /\ home[k] \in 1..Len(g) /\ g[home[k]] \in Seq(Units)
    BY <2>1
  <2>3. Len(g[home[k]]) \in Nat
    BY <2>2
  <2>4. at[k] + n <= Len(g[home[k]]) /\ \A j \in 1..n : g[home[k]][at[k] + j] = <<k, j>>
    BY <1>2, <1>5, <1>6 DEF Laid
  <2> QED
    BY <2>1, <2>2, <2>3, <2>4
<1>8. ASSUME home[k] < Len(g)
      PROVE  source = g[home[k]] /\ from = at[k] /\ chunks' = SubSeq(g, home[k] + 1, Len(g) - 1)
  <2>1. CASE home[k] = d /\ buffer = g[d] /\ pos = at[k]
    <3>1. ~short
      BY <1>5, <1>7, <2>1
    <3> QED
      BY <1>3, <1>6, <2>1, <3>1
  <2>2. CASE home[k] = d + 1 /\ pos >= Len(buffer) /\ at[k] = 0
    <3>1. short
      BY <1>5, <2>2
    <3>2. /\ chunks # <<>> /\ Head(chunks) = g[d + 1]
          /\ Tail(chunks) = SubSeq(g, (d + 1) + 1, Len(g) - 1)
      <4>1. d + 1 \in 1..(Len(g) - 1) /\ Len(g) - 1 \in 1..Len(g)
        BY <1>6, <1>7, <1>8, <2>2
      <4> QED
        BY <1>6, <1>7, <4>1, NextChunk
    <3> QED
      BY <1>3, <2>2, <3>1, <3>2
  <2> QED
    BY <1>6, <1>8, <2>1, <2>2
<1>9. ASSUME ~(home[k] < Len(g))
      PROVE  home[k] = Len(g) /\ d = Len(g) - 1 /\ short /\ source = <<>> /\ from = 0 /\ chunks' = chunks
  <2>1. home[k] = Len(g) /\ home[k] = d + 1 /\ pos >= Len(buffer)
    BY <1>6, <1>7, <1>9
  <2>2. short /\ d = Len(g) - 1
    BY <1>5, <1>6, <1>7, <2>1
  <2>3. chunks = <<>>
    BY <1>6, <1>7, <2>2
  <2> QED
    BY <1>3, <2>1, <2>2, <2>3
<1> HIDE DEF short, from, source
<1>10. source \in Seq(Units) /\ Len(source) \in Nat /\ from \in Nat
  <2>1. CASE home[k] < Len(g)
    <3>1. g[home[k]] \in Seq(Units)
      BY <1>7
    <3> QED
      BY <1>7, <1>8, <2>1, <3>1
  <2>2. CASE ~(home[k] < Len(g))
    <3>1. source = <<>> /\ from = 0
      BY <1>9, <2>2
    <3>2. <<>> \in Seq(Units) /\ Len(<<>>) = 0
      OBVIOUS
    <3> QED
      BY <3>1, <3>2
  <2> QED
    BY <2>1, <2>2
<1>11. out \in Seq(Units)
  <2>1. ASSUME NEW j \in 1..n PROVE (IF from + j <= Len(source) THEN source[from + j] ELSE Device!Stray) \in Units
    <3>1. Device!Stray \in Units
      BY DEF Device!Stray, Units
    <3>2. ASSUME from + j <= Len(source) PROVE source[from + j] \in Units
      <4>1. from + j \in 1..Len(source)
        BY <1>5, <1>10, <3>2
      <4> QED
        BY <1>10, <4>1
    <3> QED
      BY <3>1, <3>2
  <2> QED
    BY <1>5, <2>1
<1>12. out = Device!Bytes(k) <=> home[k] < Len(g)
  <2>1. CASE home[k] < Len(g)
    <3>1. ASSUME NEW j \in 1..n PROVE from + j <= Len(source) /\ source[from + j] = <<k, j>>
      <4>1. at[k] + j <= at[k] + n
        BY <1>5, <1>7
      <4>2. at[k] + j <= Len(g[home[k]])
        BY <1>5, <1>7, <4>1
      <4> QED
        BY <1>7, <1>8, <2>1, <4>2
    <3>2. out = [j \in 1..n |-> <<k, j>>]
      BY <3>1
    <3> QED
      BY <1>2, <2>1, <3>2 DEF Device!Bytes
  <2>2. CASE ~(home[k] < Len(g))
    <3>1. out[1] = <<0, 1>> /\ Device!Bytes(k)[1] = <<k, 1>>
      <4>1. 1 \in 1..n /\ ~(from + 1 <= Len(source))
        BY <1>5, <1>9, <2>2
      <4> QED
        BY <1>2, <4>1 DEF Device!Stray, Device!Bytes
    <3> QED
      BY <1>5, <2>2, <3>1
  <2> QED
    BY <2>1, <2>2
<1> HIDE DEF out
<1>13. Typed'
  <2>1. /\ got' \in Seq(Seq(Units)) /\ Len(got') = Len(got) + 1 /\ Len(got') <= Len(fields')
        /\ pos' \in Nat /\ buffer' \in Seq(Units)
    BY <1>1, <1>3, <1>5, <1>10, <1>11 DEF Typed
  <2>2. chunks' \in Seq(Seq(Units))
    BY <1>1, <1>3 DEF Typed
  <2> QED
    BY <1>1, <2>1, <2>2 DEF Typed
<1>14. got' \in Seq(Seq(Units)) /\ Len(got') = k /\ DOMAIN got' = 1..k /\ got'[k] = out /\ \A i \in 1..(k - 1) : got'[i] = got[i]
  BY <1>1, <1>2, <1>3, <1>5, <1>11 DEF Typed
<1>15. ASSUME NEW i \in DOMAIN got'
       PROVE  got'[i] = Device!Bytes(i)' <=> home[i] < Len(g)
  <2>1. Device!Bytes(i)' = Device!Bytes(i)
    BY <1>1 DEF Device!Bytes
  <2>2. i = k \/ i \in 1..(k - 1)
    BY <1>5, <1>14
  <2>3. CASE i \in 1..(k - 1)
    <3>1. i \in DOMAIN got
      BY <1>1, <1>2, <1>5, <2>3 DEF Typed
    <3> QED
      BY <1>6, <1>14, <2>1, <2>3, <3>1
  <2> QED
    BY <1>12, <1>14, <2>1, <2>2, <2>3
<1>16. PICK e : e = IF home[k] < Len(g) THEN home[k] ELSE d
  OBVIOUS
<1>17. e \in 0..(Len(g) - 1) /\ chunks' = SubSeq(g, e + 1, Len(g) - 1)
  <2>1. CASE home[k] < Len(g)
    BY <1>7, <1>8, <1>16, <2>1
  <2>2. CASE ~(home[k] < Len(g))
    BY <1>6, <1>9, <1>16, <2>2
  <2> QED
    BY <2>1, <2>2
<1>18. ASSUME NEW i \in DOMAIN fields, i = k + 1
       PROVE  \/ home[i] = e /\ buffer' = g[e] /\ pos' = at[i]
              \/ home[i] = e + 1 /\ pos' >= Len(buffer') /\ (home[i] < Len(g) => at[i] = 0)
  <2>1. /\ home[i] \in 1..Len(g) /\ home[k] <= home[i]
        /\ \/ home[i] = home[k] /\ at[i] = at[k] + n
           \/ home[i] = home[k] + 1 /\ at[i] = 0 /\ at[k] + n = Len(g[home[k]])
    <3>1. k < i /\ k \in DOMAIN fields /\ n = fields[k] /\ i = k + 1
      BY <1>2, <1>5, <1>18
    <3>2. home[i] \in DOMAIN g /\ home[k] <= home[i]
      BY <1>6, <1>18, <3>1 DEF Laid
    <3>3. \/ home[i] = home[k] /\ at[i] = at[k] + n
          \/ home[i] = home[k] + 1 /\ at[i] = 0 /\ at[k] + n = Len(g[home[k]])
      BY <1>6, <1>18, <3>1 DEF Laid
    <3>4. DOMAIN g = 1..Len(g)
      BY <1>6 DEF Laid
    <3> QED
      BY <3>2, <3>3, <3>4
  <2>2. CASE home[k] < Len(g)
    <3>1. e = home[k] /\ buffer' = g[e] /\ pos' = at[k] + n
      BY <1>3, <1>8, <1>16, <2>2
    <3> QED
      BY <1>7, <2>1, <3>1
  <2>3. CASE ~(home[k] < Len(g))
    <3>1. e = Len(g) - 1 /\ buffer' = <<>> /\ pos' = 0 + n /\ home[k] = Len(g)
      BY <1>3, <1>9, <1>16, <2>3
    <3>2. home[i] = e + 1 /\ ~(home[i] < Len(g))
      BY <1>7, <2>1, <3>1
    <3> QED
      BY <1>5, <3>1, <3>2
  <2> QED
    BY <2>2, <2>3
<1>19. Reading(g, home, at, e)'
  <2>1. ASSUME NEW i \in DOMAIN fields', i = Len(got') + 1
        PROVE  \/ home[i] = e /\ buffer' = g[e] /\ pos' = at[i]
               \/ home[i] = e + 1 /\ pos' >= Len(buffer') /\ (home[i] < Len(g) => at[i] = 0)
    BY <1>1, <1>14, <1>18, <2>1
  <2>2. Laid(fields, g, home, at)'
    BY <1>1, <1>6
  <2> QED
    BY <1>6, <1>15, <1>17, <2>1, <2>2 DEF Reading
<1> QED
  BY <1>1, <1>13, <1>19 DEF DeviceInv

LEMMA DeviceStep == Device!DeviceAssumption /\ DeviceInv /\ [Device!Next]_(Device!vars) => DeviceInv'
<1> SUFFICES ASSUME Device!DeviceAssumption, DeviceInv, [Device!Next]_(Device!vars) PROVE DeviceInv'
  OBVIOUS
<1>1. CASE UNCHANGED Device!vars
  <2>1. Typed' /\ UNCHANGED <<phase, fields, buffer, pos, chunks, got>>
    BY <1>1 DEF Device!vars, DeviceInv, Typed
  <2>2. CASE phase # "reading"
    BY <2>1, <2>2 DEF DeviceInv, Saving
  <2>3. CASE phase = "reading"
    <3>1. PICK g, home, at, d : Reading(g, home, at, d)
      BY <2>3 DEF DeviceInv
    <3>2. Reading(g, home, at, d)'
      BY <2>1, <3>1 DEF Reading, Device!Bytes
    <3> QED
      BY <2>1, <2>3, <3>2 DEF DeviceInv
  <2> QED
    BY <2>2, <2>3
<1> QED
  BY <1>1, WriteStep, CloseStep, CommitStep, ReadStep DEF Device!Next

-----------------------------------------------------------------------------
\* As many units as there are places in a sequence, at most.
LEMMA Counted ==
  ASSUME NEW s \in Seq(Units), NEW T, \A x \in T : \E i \in 1..Len(s) : s[i] = x
  PROVE  Cardinality(T) \in Nat /\ Cardinality(T) <= Len(s)
<1>1. Len(s) \in Nat
  OBVIOUS
<1>2. CASE T = {}
  BY <1>1, <1>2, FS_EmptySet
<1>3. CASE T # {}
  <2>1. PICK t : t \in T
    BY <1>3
  <2> DEFINE f == [i \in 1..Len(s) |-> IF s[i] \in T THEN s[i] ELSE t]
  <2>2. f \in [1..Len(s) -> T] /\ \A x \in T : \E i \in 1..Len(s) : f[i] = x
    BY <2>1
  <2>3. f \in Surjection(1..Len(s), T)
    BY <2>2 DEF Surjection
  <2>4. IsFiniteSet(1..Len(s)) /\ Cardinality(1..Len(s)) = Len(s)
    BY <1>1, FS_Interval
  <2>5. IsFiniteSet(T) /\ Cardinality(T) <= Cardinality(1..Len(s))
    BY <2>3, <2>4, FS_Surjection
  <2> QED
    BY <2>4, <2>5, FS_CardinalityType
<1> QED
  BY <1>2, <1>3

\* For fields of any sizes and any chunk, what a save and a load lose is the end
\* of the stream, and less than a chunk of it (KSecretDevice writes a chunk when
\* it is full, and serialize() commits without close()).
THEOREM OnlyTheEndIsLostHolds ==
  ASSUME Device!DeviceAssumption
  PROVE  Device!Spec => []Device!OnlyTheEndIsLost
<1>0. \A S : Device!Cardinality(S) = Cardinality(S)
  BY DEF Device!Cardinality, Cardinality
<1>1. DeviceInv => Device!OnlyTheEndIsLost
  <2> SUFFICES ASSUME DeviceInv PROVE Device!OnlyTheEndIsLost
    OBVIOUS
  <2>1. CASE phase # "reading"
    <3>1. DOMAIN got = {} /\ Device!Missing = {} /\ Device!Lost = {}
      BY <2>1 DEF DeviceInv, Saving, Device!Missing, Device!Lost
    <3>2. Cardinality({}) = 0 /\ 0 < Chunk
      BY FS_EmptySet DEF Device!DeviceAssumption
    <3> QED
      BY <1>0, <3>1, <3>2 DEF Device!OnlyTheEndIsLost
  <2>2. CASE phase = "reading"
    <3>1. PICK g, home, at, d : Reading(g, home, at, d)
      BY <2>2 DEF DeviceInv
    <3> DEFINE s == g[Len(g)]
    <3>2. /\ g \in Seq(Seq(Units)) /\ g # <<>> /\ DOMAIN got \subseteq DOMAIN fields
          /\ \A k \in DOMAIN fields : home[k] \in 1..Len(g) /\ at[k] \in Nat
          /\ s \in Seq(Units) /\ Len(s) < Chunk /\ Len(g) \in Nat
      <4>1. /\ g \in Seq(Seq(Units)) /\ g # <<>> /\ Len(s) < Chunk
            /\ home \in [DOMAIN fields -> DOMAIN g] /\ at \in [DOMAIN fields -> Nat]
        BY <3>1 DEF Reading, Laid
      <4>2. DOMAIN g = 1..Len(g) /\ Len(g) \in Nat /\ Len(g) \in DOMAIN g /\ s \in Seq(Units)
        <5> DEFINE S == Seq(Units)
        <5>1. g \in Seq(S) /\ g # <<>>
          BY <4>1
        <5> HIDE DEF S
        <5>2. DOMAIN g = 1..Len(g) /\ Len(g) \in Nat /\ Len(g) \in DOMAIN g /\ s \in S
          BY <5>1
        <5> QED
          BY <5>2 DEF S
      <4>3. DOMAIN got \subseteq DOMAIN fields
        BY DEF DeviceInv, Typed
      <4> QED
        BY <4>1, <4>2, <4>3
    <3>3. ASSUME NEW k \in DOMAIN got PROVE k \in Device!Missing <=> home[k] = Len(g)
      BY <3>1, <3>2 DEF Reading, Device!Missing
    <3>4. ASSUME NEW k \in Device!Missing, NEW i \in DOMAIN got, i > k PROVE i \in Device!Missing
      <4>1. k \in DOMAIN got /\ home[k] = Len(g)
        BY <3>3 DEF Device!Missing
      <4>2. home[k] <= home[i]
        BY <3>1, <3>2, <3>4, <4>1 DEF Reading, Laid
      <4> QED
        BY <3>2, <3>3, <4>1, <4>2
    <3>5. ASSUME NEW x \in Device!Lost PROVE \E i \in 1..Len(s) : s[i] = x
      <4>0. PICK k \in Device!Missing : x \in {<<k, j>> : j \in 1..fields[k]}
        BY DEF Device!Lost
      <4>1. PICK j \in 1..fields[k] : x = <<k, j>>
        BY <4>0
      <4>2. k \in DOMAIN got /\ k \in DOMAIN fields /\ home[k] = Len(g)
        BY <3>2, <3>3 DEF Device!Missing
      <4>3. s[at[k] + j] = <<k, j>> /\ at[k] + fields[k] <= Len(s)
        BY <3>1, <4>2 DEF Reading, Laid
      <4>4. fields[k] \in Nat /\ at[k] \in Nat /\ Len(s) \in Nat
        BY <3>2, <4>2, SizeIs DEF DeviceInv, Typed
      <4>5. at[k] + j \in 1..Len(s)
        BY <4>3, <4>4
      <4> QED
        BY <4>1, <4>3, <4>5
    <3>6. Cardinality(Device!Lost) \in Nat /\ Cardinality(Device!Lost) <= Len(s)
      BY <3>2, <3>5, Counted
    <3>7. Cardinality(Device!Lost) < Chunk
      <4>1. Len(s) \in Nat /\ Chunk \in Nat
        BY <3>2 DEF Device!DeviceAssumption
      <4> QED
        BY <3>2, <3>6, <4>1
    <3> QED
      BY <1>0, <3>4, <3>7 DEF Device!OnlyTheEndIsLost
  <2> QED
    BY <2>1, <2>2
<1> QED
  BY <1>1, DeviceInit, DeviceStep, PTL DEF Device!Spec

\* Every variable of the device keeps its type.
THEOREM DeviceTypes ==
  ASSUME Device!DeviceAssumption
  PROVE  Device!Spec => []Device!TypeOK
<1>1. DeviceInv => Device!TypeOK
  BY DEF DeviceInv, Typed, Device!TypeOK
<1> QED
  BY <1>1, DeviceInit, DeviceStep, PTL DEF Device!Spec

-----------------------------------------------------------------------------
\* Before the collection exists, and after it was collected, it has no items, and
\* none waits for the event loop.
NoneOutside == ~Memory!Reached => items = <<>> /\ doomed = {}

\* The listener starts with nothing, and keeps a record of two fields.
ViewInv ==
  /\ there \in {"none", "live", "deleted", "collected"}
  /\ view = [known |-> view.known, items |-> view.items]
  /\ view.known \in BOOLEAN
  /\ there = "none" => view.items = <<>> /\ revived = {}

MemoryInv == NoneOutside /\ ViewInv /\ Memory!ViewIsContents

\* An empty function has no item to change or delete.
LEMMA EmptyDomain == DOMAIN <<>> = {}
  OBVIOUS

LEMMA MemoryInit == Memory!Init => MemoryInv
  BY DEF Memory!Init, MemoryInv, NoneOutside, ViewInv, Memory!ViewIsContents, Memory!Reached

LEMMA MemoryStep == MemoryInv /\ [Memory!Next]_(Memory!vars) => MemoryInv'
<1> SUFFICES ASSUME MemoryInv, [Memory!Next]_(Memory!vars) PROVE MemoryInv'
  OBVIOUS
<1> USE DEF MemoryInv, NoneOutside, ViewInv, Memory!ViewIsContents, Memory!Reached
<1>1. CASE Memory!CreateCollection
  BY <1>1 DEF Memory!CreateCollection
<1>2. CASE Memory!DeleteCollection
  BY <1>2 DEF Memory!DeleteCollection
<1>3. CASE Memory!Collect
  BY <1>3 DEF Memory!Collect
<1>4. ASSUME NEW i \in Ids, NEW held \in Memory!Held, NEW replace \in BOOLEAN, Memory!CreateItem(i, held, replace)
      PROVE  MemoryInv'
  <2>1. /\ items' = Memory!With(items, i, held)
        /\ view' = [view EXCEPT !.items = Memory!With(view.items, i, held)]
        /\ Memory!Reached /\ UNCHANGED <<there, doomed, revived>>
    BY <1>4 DEF Memory!CreateItem, Memory!Announced
  <2> QED
    BY <2>1 DEF Memory!With
<1>5. ASSUME NEW i \in Ids, NEW held \in Memory!Held, Memory!SetItem(i, held)
      PROVE  MemoryInv'
  <2>1. /\ view' = [view EXCEPT !.items = Memory!With(view.items, i, held)]
        /\ i \in DOMAIN items \cup doomed /\ UNCHANGED <<there, doomed>>
    BY <1>5 DEF Memory!SetItem, Memory!Announced
  <2>2. Memory!Reached
    BY <2>1, EmptyDomain
  <2>3. CASE i \in DOMAIN items
    <3>1. items' = Memory!With(items, i, held) /\ revived' = revived
      BY <1>5, <2>3 DEF Memory!SetItem
    <3> QED
      BY <2>1, <2>2, <3>1 DEF Memory!With
  <2>4. CASE i \notin DOMAIN items
    <3>1. items' = items /\ revived' = revived \cup {i}
      BY <1>5, <2>4 DEF Memory!SetItem
    <3> QED
      BY <2>1, <2>2, <2>4, <3>1 DEF Memory!With
  <2> QED
    BY <2>3, <2>4
<1>6. ASSUME NEW i \in Ids, Memory!DeleteItem(i)
      PROVE  MemoryInv'
  <2>1. /\ items' = Memory!Without(items, i)
        /\ view' = [view EXCEPT !.items = Memory!Without(view.items, i)]
        /\ revived' = revived \ {i} /\ there' = there
        /\ i \in DOMAIN items \cup doomed
    BY <1>6 DEF Memory!DeleteItem
  <2>2. Memory!Reached
    BY <2>1, EmptyDomain
  <2> QED
    BY <2>1, <2>2 DEF Memory!Without
<1>7. CASE UNCHANGED Memory!vars
  BY <1>7 DEF Memory!vars
<1> QED
  BY <1>1, <1>2, <1>3, <1>4, <1>5, <1>6, <1>7 DEF Memory!Next

\* A listener that follows the signals of the collection and of its items
\* believes what the collection holds and, besides, exactly the deleted items that
\* were changed since, for any ids, attributes and labels (temporarycollection.cpp
\* blocks the setters' signals while it replaces an item and sends one itself, and
\* leaves those of a deleted item connected).
THEOREM ViewIsContentsHolds == Memory!Spec => []Memory!ViewIsContents
<1>1. MemoryInv => Memory!ViewIsContents
  BY DEF MemoryInv
<1> QED
  BY MemoryInit, MemoryStep, <1>1, PTL DEF Memory!Spec

-----------------------------------------------------------------------------
\* A search for the attributes of an item finds it.
LEMMA SearchFindsSame ==
  ASSUME Memory!TemporaryAssumption, NEW a \in Attributes, NEW k \in DOMAIN items, items[k].attributes = a
  PROVE  k \in Memory!Duplicates(a)
  BY DEF Memory!TemporaryAssumption, Memory!Duplicates, Memory!FoundBySearch

LEMMA AttributesStep ==
  ASSUME Memory!TemporaryAssumption
  PROVE  Memory!AttributesTellItems /\ [Memory!Next]_(Memory!vars) => Memory!AttributesTellItems'
<1> SUFFICES ASSUME Memory!AttributesTellItems, [Memory!Next]_(Memory!vars), ~merged' PROVE Memory!AttributesTellItems'
  BY DEF Memory!AttributesTellItems
<1> USE DEF Memory!AttributesTellItems
<1>1. CASE Memory!CreateCollection
  BY <1>1 DEF Memory!CreateCollection
<1>2. CASE Memory!DeleteCollection
  BY <1>2 DEF Memory!DeleteCollection
<1>3. CASE Memory!Collect
  BY <1>3, EmptyDomain DEF Memory!Collect
<1>4. ASSUME NEW i \in Ids, NEW held \in Memory!Held, NEW replace \in BOOLEAN, Memory!CreateItem(i, held, replace)
      PROVE  Memory!AttributesTellItems'
  <2>1. /\ items' = Memory!With(items, i, held)
        /\ ~merged
    BY <1>4 DEF Memory!CreateItem
  <2>2. held.attributes \in Attributes
    BY DEF Memory!Held
  <2>3. ASSUME NEW k \in DOMAIN items, items[k].attributes = held.attributes
        PROVE  k = i
    <3>1. k \in Memory!Duplicates(held.attributes)
      BY <2>2, <2>3, SearchFindsSame
    <3>2. i \in Memory!Duplicates(held.attributes)
      BY <3>1, <1>4 DEF Memory!CreateItem
    <3>3. i \in DOMAIN items /\ items[i].attributes = held.attributes
      BY <3>2 DEF Memory!Duplicates, Memory!FoundBySearch
    <3> QED
      BY <2>1, <2>3, <3>3
  <2> QED
    BY <2>1, <2>3 DEF Memory!With
<1>5. ASSUME NEW i \in Ids, NEW held \in Memory!Held, Memory!SetItem(i, held)
      PROVE  Memory!AttributesTellItems'
  BY <1>5 DEF Memory!SetItem, Memory!With
<1>6. ASSUME NEW i \in Ids, Memory!DeleteItem(i)
      PROVE  Memory!AttributesTellItems'
  BY <1>6 DEF Memory!DeleteItem, Memory!Without
<1>7. CASE UNCHANGED Memory!vars
  BY <1>7 DEF Memory!vars
<1> QED
  BY <1>1, <1>2, <1>3, <1>4, <1>5, <1>6, <1>7 DEF Memory!Next

\* Creating items, with replace or without, never makes two of the same
\* attributes, whatever else a search for them finds (temporarycollection.cpp
\* compares those found with what was asked for).
THEOREM AttributesTellItemsHolds ==
  ASSUME Memory!TemporaryAssumption
  PROVE  Memory!Spec => []Memory!AttributesTellItems
<1>1. Memory!Init => Memory!AttributesTellItems
  BY EmptyDomain DEF Memory!Init, Memory!AttributesTellItems
<1>2. Memory!AttributesTellItems /\ [Memory!Next]_(Memory!vars) => Memory!AttributesTellItems'
  BY AttributesStep
<1> QED
  BY <1>1, <1>2, PTL DEF Memory!Spec

-----------------------------------------------------------------------------
\* Every variable of the collection in memory keeps its type; an id that was
\* used, also by an item deleted or collected since, stays used.
LEMMA MemoryTypesStep ==
  Memory!TypeOK /\ [Memory!Next]_(Memory!vars) => Memory!TypeOK'
<1> SUFFICES ASSUME Memory!TypeOK, [Memory!Next]_(Memory!vars) PROVE Memory!TypeOK'
  OBVIOUS
<1> USE DEF Memory!TypeOK
<1>1. CASE Memory!CreateCollection
  BY <1>1 DEF Memory!CreateCollection
<1>2. CASE Memory!DeleteCollection
  BY <1>2 DEF Memory!DeleteCollection
<1>3. CASE Memory!Collect
  BY <1>3, EmptyDomain DEF Memory!Collect
<1>4. ASSUME NEW i \in Ids, NEW held \in Memory!Held, NEW replace \in BOOLEAN,
             Memory!CreateItem(i, held, replace)
      PROVE  Memory!TypeOK'
  <2>1. held \in Memory!Held /\ items' = Memory!With(items, i, held) /\ spent' = spent \cup {i}
    BY <1>4 DEF Memory!CreateItem
  <2> QED
    BY <1>4, <2>1 DEF Memory!CreateItem, Memory!With, Memory!Held
<1>5. ASSUME NEW i \in Ids, NEW held \in Memory!Held, Memory!SetItem(i, held)
      PROVE  Memory!TypeOK'
  BY <1>5 DEF Memory!SetItem, Memory!With, Memory!Held
<1>6. ASSUME NEW i \in Ids, Memory!DeleteItem(i)
      PROVE  Memory!TypeOK'
  BY <1>6 DEF Memory!DeleteItem, Memory!Without, Memory!Held
<1>7. CASE UNCHANGED Memory!vars
  BY <1>7 DEF Memory!vars
<1> QED
  BY <1>1, <1>2, <1>3, <1>4, <1>5, <1>6, <1>7 DEF Memory!Next

\* Every variable of the collection in memory keeps its type.
THEOREM MemoryTypes == Memory!Spec => []Memory!TypeOK
<1>1. Memory!Init => Memory!TypeOK
  BY EmptyDomain DEF Memory!Init, Memory!TypeOK
<1> QED
  BY <1>1, MemoryTypesStep, PTL DEF Memory!Spec

-----------------------------------------------------------------------------
\* The larger parts, with what is proved of them in modules of their own.
WalletP == INSTANCE KWalletFileProofs WITH Folders <- WalletFolders, Keys <- WalletKeys
SyncP == INSTANCE SyncServerProofs WITH job <- service

LEMMA PartsInitial ==
  PartsInit => Init /\ Wallet!Init /\ Sync!Init /\ Memory!Init /\ Device!Init
  BY DEF PartsInit

\* A step of the whole is a step of each part, or nothing to it.
LEMMA PartsStep ==
  [PartsNext]_partsVars => /\ [Next]_vars
                           /\ [Wallet!Next]_(Wallet!vars)
                           /\ [Sync!Next]_(Sync!vars)
                           /\ [Memory!Next]_(Memory!vars)
                           /\ [Device!Next]_(Device!vars)
  BY DEF PartsNext, partsVars, walletVars, syncVars, memoryVars, deviceVars,
         Wallet!vars, Sync!vars, Memory!vars, Device!vars

LEMMA SameAssumptions ==
  /\ WalletP!KWalletAssumption /\ SyncP!SyncAssumption
  /\ Memory!TemporaryAssumption /\ Device!DeviceAssumption
  BY PartsAssumption DEF Wallet!KWalletAssumption, WalletP!KWalletAssumption,
                         Sync!SyncAssumption, SyncP!SyncAssumption

LEMMA SameServer ==
  /\ Sync!Init => SyncP!Init
  /\ [Sync!Next]_(Sync!vars) => [SyncP!Next]_(SyncP!vars)
<1> USE DEF Sync!States, SyncP!States, Sync!NoJob, SyncP!NoJob, Sync!vars, SyncP!vars,
            Sync!Changed, SyncP!Changed, Sync!HangUp, SyncP!HangUp, Sync!Idle, SyncP!Idle
<1>1. Sync!Init => SyncP!Init
  BY DEF Sync!Init, SyncP!Init
<1>2. Sync!Serve => SyncP!Serve
  BY DEF Sync!Serve, SyncP!Serve
<1>3. Sync!Tick => SyncP!Tick
  BY DEF Sync!Tick, SyncP!Tick
<1>4. Sync!Timeout => SyncP!Timeout
  BY DEF Sync!Timeout, SyncP!Timeout, Sync!GivesUp, SyncP!GivesUp
<1>5. Sync!Read => SyncP!Read
  BY DEF Sync!Read, SyncP!Read, Sync!Handled, SyncP!Handled, Sync!Hello, SyncP!Hello
<1>6. \A c \in Clients : Sync!Connect(c) \/ Sync!Send(c) \/ Sync!Receive(c)
                         => SyncP!Connect(c) \/ SyncP!Send(c) \/ SyncP!Receive(c)
  BY DEF Sync!Connect, SyncP!Connect, Sync!Send, SyncP!Send, Sync!Receive, SyncP!Receive,
         Sync!OkReply, SyncP!OkReply
<1> QED
  BY <1>1, <1>2, <1>3, <1>4, <1>5, <1>6 DEF Sync!Next, SyncP!Next

LEMMA SameWallet ==
  /\ Wallet!Init => WalletP!Init
  /\ [Wallet!Next]_(Wallet!vars) => [WalletP!Next]_(WalletP!vars)
<1> USE DEF Wallet!vars, WalletP!vars, Wallet!Password2Hash, WalletP!Password2Hash,
            Wallet!Smaller, WalletP!Smaller, Wallet!Empty, WalletP!Empty,
            Wallet!Image, WalletP!Image, Wallet!With, WalletP!With,
            Wallet!Hashed, WalletP!Hashed, Wallet!CurrentMap, WalletP!CurrentMap,
            Wallet!MadeByWriting, WalletP!MadeByWriting,
            Wallet!Without, WalletP!Without, Wallet!Restrict, WalletP!Restrict
<1>1. Wallet!Init => WalletP!Init
  BY DEF Wallet!Init, WalletP!Init, Wallet!NoWallets, WalletP!NoWallets
<1>2. Wallet!Open => WalletP!Open
  BY DEF Wallet!Open, WalletP!Open, Wallet!OpenInternal, WalletP!OpenInternal,
         Wallet!CreateWallet, WalletP!CreateWallet, Wallet!LoadWallet, WalletP!LoadWallet,
         Wallet!RefuseFile, WalletP!RefuseFile, Wallet!IsWallet, WalletP!IsWallet,
         Wallet!NameDigests, WalletP!NameDigests, Wallet!Maps, WalletP!Maps
<1>3. Wallet!Sync => WalletP!Sync
  BY DEF Wallet!Sync, WalletP!Sync
<1>4. Wallet!Close => WalletP!Close
  BY DEF Wallet!Close, WalletP!Close, Wallet!Cleared, WalletP!Cleared
<1>5. Wallet!SetPassword => WalletP!SetPassword
  BY DEF Wallet!SetPassword, WalletP!SetPassword
<1>6. Wallet!SetFolder => WalletP!SetFolder
  BY DEF Wallet!SetFolder, WalletP!SetFolder
<1>7. \A f \in WalletFolders : Wallet!CreateFolder(f) \/ Wallet!RemoveFolder(f)
                               => WalletP!CreateFolder(f) \/ WalletP!RemoveFolder(f)
  BY DEF Wallet!CreateFolder, WalletP!CreateFolder, Wallet!RemoveFolder, WalletP!RemoveFolder
<1>8. \A k \in WalletKeys : Wallet!RemoveEntry(k) => WalletP!RemoveEntry(k)
  BY DEF Wallet!RemoveEntry, WalletP!RemoveEntry
<1>9. \A k \in WalletKeys, v \in Values : Wallet!WriteEntry(k, v) => WalletP!WriteEntry(k, v)
  BY DEF Wallet!WriteEntry, WalletP!WriteEntry
<1>10. \A k, n \in WalletKeys : Wallet!RenameEntry(k, n) => WalletP!RenameEntry(k, n)
  BY DEF Wallet!RenameEntry, WalletP!RenameEntry
<1>11. Wallet!FileLost => WalletP!FileLost
  BY DEF Wallet!FileLost, WalletP!FileLost
<1> QED
  BY <1>1, <1>2, <1>3, <1>4, <1>5, <1>6, <1>7, <1>8, <1>9, <1>10, <1>11 DEF Wallet!Next, WalletP!Next

\* What the wallet's and the server's theorems say, in the words of the whole.
LEMMA SameServerFacts ==
  /\ SyncP!TypeOK => Sync!TypeOK
  /\ SyncP!SidesAgree => Sync!SidesAgree
<1>1. SyncP!TypeOK => Sync!TypeOK
  BY DEF Sync!TypeOK, SyncP!TypeOK, Sync!States, SyncP!States, Sync!IsInjective, SyncP!IsInjective,
         Sync!ToSet, SyncP!ToSet
<1>2. SyncP!SidesAgree => Sync!SidesAgree
  BY DEF Sync!SidesAgree, SyncP!SidesAgree
<1> QED
  BY <1>1, <1>2

\* The queue a server promises to be is the same in both words.
LEMMA SameQueue == SyncP!ServesInOrder => ServesInOrder
<1>1. SyncP!Queue!Init => Sync!Queue!Init
  BY DEF SyncP!Queue!Init, Sync!Queue!Init
<1>2. [SyncP!Queue!Next]_(SyncP!Queue!queueVars) => [Sync!Queue!Next]_(Sync!Queue!queueVars)
  BY DEF SyncP!Queue!Next, Sync!Queue!Next, SyncP!Queue!Arrive, Sync!Queue!Arrive,
     SyncP!Queue!Begin, Sync!Queue!Begin, SyncP!Queue!End, Sync!Queue!End,
     SyncP!Queue!queueVars, Sync!Queue!queueVars, SyncP!Queue!ToSet, Sync!Queue!ToSet
<1> QED
  BY <1>1, <1>2, PTL DEF ServesInOrder, Sync!ServesInOrder, SyncP!ServesInOrder,
                         Sync!Queue!Spec, SyncP!Queue!Spec

LEMMA SameWalletFacts ==
  /\ WalletP!TypeOK => Wallet!TypeOK
  /\ WalletP!NeverDeniesAnEntry => NeverDeniesAnEntry
  /\ WalletP!OpensAsSaved => OpensAsSaved
<1>1. WalletP!TypeOK => Wallet!TypeOK
  BY DEF Wallet!TypeOK, WalletP!TypeOK, Wallet!Maps, WalletP!Maps, Wallet!EntryMaps, WalletP!EntryMaps,
         Wallet!Password2Hash, WalletP!Password2Hash, Wallet!Smaller, WalletP!Smaller,
         Wallet!NoWallets, WalletP!NoWallets, Wallet!WalletFiles, WalletP!WalletFiles
<1>2. WalletP!NeverDeniesAnEntry => NeverDeniesAnEntry
  BY DEF NeverDeniesAnEntry, Wallet!NeverDeniesAnEntry, WalletP!NeverDeniesAnEntry,
         Wallet!EntryDoesNotExist, WalletP!EntryDoesNotExist,
         Wallet!FolderDoesNotExist, WalletP!FolderDoesNotExist
<1>3. WalletP!OpensAsSaved => OpensAsSaved
  BY PTL DEF OpensAsSaved, Wallet!OpensAsSaved, WalletP!OpensAsSaved,
             Wallet!IsWallet, WalletP!IsWallet, Wallet!vars, WalletP!vars
<1> QED
  BY <1>1, <1>2, <1>3
-----------------------------------------------------------------------------
\* Whatever runs beside it, the importer is the importer: a behaviour of the
\* whole is one of each part alone, the fairness of which nothing here needs.
THEOREM PartsAlone ==
  PartsSpec => /\ Spec
               /\ Wallet!Spec
               /\ Sync!Init /\ [][Sync!Next]_(Sync!vars)
               /\ Memory!Spec
               /\ Device!Spec
  BY PartsInitial, PartsStep, PTL DEF PartsSpec, Spec, Wallet!Spec, Memory!Spec, Device!Spec

LEMMA WalletAlone == PartsSpec => WalletP!Spec
  BY PartsAlone, SameWallet, PTL DEF Wallet!Spec, WalletP!Spec

LEMMA ServerAlone == PartsSpec => []SyncP!SyncInv
<1>1. SyncP!Init => SyncP!SyncInv
  BY SameAssumptions, SyncP!SyncInit
<1>2. SyncP!SyncInv /\ [SyncP!Next]_(SyncP!vars) => SyncP!SyncInv'
  BY SameAssumptions, SyncP!SyncStep
<1> QED
  BY <1>1, <1>2, PartsAlone, SameServer, PTL

\* An open wallet denies an entry it has only in a folder that was made by writing
\* into it or while the object was closed (KWallet::Backend keeps the digests
\* entryDoesNotExist answers from by hand), also beside the other parts.
THEOREM PartsNeverDenyAnEntry == PartsSpec => []NeverDeniesAnEntry
<1>1. WalletP!Spec => []WalletP!NeverDeniesAnEntry
  BY WalletP!NeverDeniesAnEntryHolds
<1> QED
  BY <1>1, WalletAlone, SameWalletFacts, PTL

\* A wallet only opens with the password it was saved with, and gives what was
\* saved (password2hash, openInternal and close of KWallet::Backend).
THEOREM PartsOpenAsSaved == PartsSpec => OpensAsSaved
<1>1. WalletP!Spec => WalletP!OpensAsSaved
  BY SameAssumptions, WalletP!OpensAsSavedHolds
<1> QED
  BY <1>1, WalletAlone, SameWalletFacts, PTL

\* The two sides of a synchronization agree on how far it is (SyncServerJob and
\* the phases of syncprotocol.cpp).
THEOREM PartsSidesAgree == PartsSpec => []SidesAgree
<1>1. SyncP!SyncInv => SyncP!SidesAgree
  BY SyncP!SyncAgrees
<1> QED
  BY <1>1, ServerAlone, SameServerFacts, PTL DEF SidesAgree

\* Connections are served one at a time, in the order they came and once each
\* (SyncDaemon::onNewConnection): beside the other parts and with no fairness, the
\* server is a ConnectionQueue.
THEOREM PartsServeInOrder == PartsSpec => ServesInOrder
<1>1. SyncP!Init => SyncP!Queue!Init
  BY SameAssumptions, SyncP!QueueInit
<1>2. SyncP!SyncInv /\ [SyncP!Next]_(SyncP!vars) => [SyncP!Queue!Next]_(SyncP!Queue!queueVars)
  BY SameAssumptions, SyncP!QueueStep
<1> QED
  BY <1>1, <1>2, PartsAlone, ServerAlone, SameServer, SameQueue, PTL
  DEF SyncP!ServesInOrder, SyncP!Queue!Spec

\* A listener that follows the signals knows what a collection in memory holds and,
\* besides, only the deleted items that were changed since (TemporaryCollection,
\* TemporaryItem and the jobs on them).
THEOREM PartsViewIsContents == PartsSpec => []ViewIsContents
  BY PartsAlone, ViewIsContentsHolds, PTL DEF ViewIsContents

\* Creating items never makes two that no search tells apart
\* (TemporaryCollection::createItem).
THEOREM PartsAttributesTellItems == PartsSpec => []AttributesTellItems
<1>1. Memory!Spec => []Memory!AttributesTellItems
  BY SameAssumptions, AttributesTellItemsHolds
<1> QED
  BY <1>1, PartsAlone, PTL DEF AttributesTellItems

\* What a save and a load of a collection lose is the end of the stream, less
\* than a chunk of it (KSecretDevice).
THEOREM PartsLoseOnlyTheEnd == PartsSpec => []OnlyTheEndIsLost
<1>1. Device!Spec => []Device!OnlyTheEndIsLost
  BY SameAssumptions, OnlyTheEndIsLostHolds
<1> QED
  BY <1>1, PartsAlone, PTL DEF OnlyTheEndIsLost

\* Every variable of the five parts keeps its type, whichever of them run.
THEOREM PartsTypes == PartsSpec => []PartsTypeOK
<1>1. WalletP!Spec => []WalletP!TypeOK
  BY SameAssumptions, WalletP!WalletTypes
<1>2. SyncP!SyncInv => SyncP!TypeOK
  BY SyncP!SyncTyped
<1>3. Device!Spec => []Device!TypeOK
  BY SameAssumptions, DeviceTypes
<1> QED
  BY <1>1, <1>2, <1>3, ImportTypes, MemoryTypes, PartsAlone, WalletAlone, ServerAlone,
     SameWalletFacts, SameServerFacts, PTL DEF PartsTypeOK
=============================================================================
