---------------------------- MODULE SecretDevice ----------------------------
(***************************************************************************)
(* How a ksecret collection gets to its file and back: KSecretStream's      *)
(* fields go through KSecretDevice, which gathers them into chunks, encrypts *)
(* each and writes it as a byte array of its own. Reading asks for the      *)
(* fields in the same order, and decrypts a chunk whenever what is left of  *)
(* the last one is too short. One save, then one load of what it left.      *)
(***************************************************************************)
EXTENDS Naturals, Sequences, FiniteSets

CONSTANTS
  Sizes,     \* sizes a field may have; a unit stands for several bytes
  Chunk,     \* BUFFER_CHUNK_SIZE in these units
  Least,     \* the least close() leaves to encrypt: shorter ends are padded
  MaxFields

\* No field is empty: the stream writes the size of whatever it writes.
DeviceAssumption == Sizes \subseteq Nat \ {0} /\ Chunk \in Nat \ {0}

VARIABLES
  phase,   \* "writing", "closed", "reading"
  fields,  \* the sizes of the fields written, in order
  buffer,  \* m_buffer, a sequence of <<field, unit of it>>
  pos,     \* m_bufferPos; past the end of m_buffer after a read that fell short
  chunks,  \* what the file holds behind its header
  got      \* what the fields read so far came out as

vars == <<phase, fields, buffer, pos, chunks, got>>

Pad == <<0, 0>>
Stray == <<0, 1>> \* what memcpy finds behind the end of m_buffer

Init ==
  /\ phase = "writing" /\ fields = <<>> /\ buffer = <<>> /\ pos = 0
  /\ chunks = <<>> /\ got = <<>>

Bytes(k) == [j \in 1..fields[k] |-> <<k, j>>]

\* The chunk a full buffer becomes: all of it, with the field that filled it.
\* Slip: chunks have the same size, and the rest waits.
EvenChunk(buf) == SubSeq(buf, 1, Chunk)

WholeChunk(buf) == buf

\* writeData, for one operator<< of the stream.
Write(n) ==
  LET filled == buffer \o [j \in 1..n |-> <<Len(fields) + 1, j>>]
      out == WholeChunk(filled)
  IN /\ phase = "writing" /\ Len(fields) < MaxFields
     /\ fields' = Append(fields, n)
     /\ IF Len(filled) >= Chunk
        THEN chunks' = Append(chunks, out) /\ buffer' = SubSeq(filled, Len(out) + 1, Len(filled))
        ELSE buffer' = filled /\ UNCHANGED chunks
     /\ UNCHANGED <<phase, pos, got>>

\* close() writes what is left, padded when it is too short to encrypt. Neither
\* serialize() nor QSaveFile::commit() calls it.
Close ==
  /\ phase = "writing"
  /\ phase' = "closed"
  /\ chunks' = IF buffer = <<>> THEN chunks
               ELSE Append(chunks, IF Len(buffer) < Least THEN buffer \o <<Pad, Pad>> ELSE buffer)
  /\ buffer' = <<>>
  /\ UNCHANGED <<fields, pos, got>>

\* KSecretCollection::serialize commits; tryUnlock opens the file again, with a
\* device whose buffer is empty.
Commit ==
  /\ phase \in {"writing", "closed"}
  /\ phase' = "reading"
  /\ buffer' = <<>> /\ pos' = 0
  /\ UNCHANGED <<fields, chunks, got>>

\* readData: what is left of a chunk that is too short is thrown away, and the
\* caller's memory is filled to the size it asked for whatever there is.
Read ==
  LET n == fields[Len(got) + 1]
      short == Len(buffer) < pos + n
      from == IF short THEN 0 ELSE pos
      source == IF ~short THEN buffer ELSE IF chunks = <<>> THEN <<>> ELSE Head(chunks)
  IN /\ phase = "reading" /\ Len(got) < Len(fields)
     /\ buffer' = source
     /\ pos' = from + n
     /\ chunks' = IF short /\ chunks # <<>> THEN Tail(chunks) ELSE chunks
     /\ got' = Append(got, [j \in 1..n |-> IF from + j <= Len(source) THEN source[from + j] ELSE Stray])
     /\ UNCHANGED <<phase, fields>>

Next == (\E n \in Sizes : Write(n)) \/ Close \/ Commit \/ Read

Spec == Init /\ [][Next]_vars

-----------------------------------------------------------------------------
TypeOK ==
  /\ phase \in {"writing", "closed", "reading"}
  /\ fields \in Seq(Sizes) /\ pos \in Nat
  /\ Len(got) <= Len(fields)

\* The fields that do not come back, and the units of these.
Missing == {k \in DOMAIN got : got[k] # Bytes(k)}

Lost == UNION {{<<k, j>> : j \in 1..fields[k]} : k \in Missing}

\* Every field comes back as it was written, however fields and chunks fall
\* upon each other; only the end of a stream that was not closed may be lost,
\* and it is shorter than a chunk.
OnlyTheEndIsLost ==
  /\ \A k \in Missing : \A i \in DOMAIN got : i > k => i \in Missing
  /\ Cardinality(Lost) < Chunk
=============================================================================
