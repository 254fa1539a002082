-------------------------- MODULE SyncServerProofs --------------------------
(***************************************************************************)
(* Proofs about ksecretsync, for any clients and versions. The two sides of *)
(* a connection are never in step - a client sends and waits, the server    *)
(* answers and goes on - and what makes them agree is where the one reply   *)
(* of a session can be: it leaves when the server has passed the greeting,  *)
(* and the client that it is for has nothing else on its way.               *)
(***************************************************************************)
EXTENDS SyncServer, SequenceTheorems, TLAPS

Piece == [part : {"all", "head", "tail"}, version : Versions, request : {"HELLO", "LIST ITEMS"}]

Peer == [state : States \ {"DONE"}, phase : States, waits : BOOLEAN, version : Versions]

\* The variables keep their types; no 201 and no end of a session among them.
Types ==
  /\ daemon \in {"ready", "aborted"} /\ build \in BOOLEAN /\ ticks \in 0..MaxTicks
  /\ backlog \in Seq(Clients) /\ IsInjective(backlog)
  /\ job \in [serves : Clients \cup {None}, state : States, phase : States]
  /\ upstream \in [Clients -> Seq(Piece)]
  /\ down \in [Clients -> {None, "200", "closed"}]
  /\ client \in [Clients -> Peer]

InSession(c) == client[c].state \in {"HELLO", "LIST_ITEMS"}

\* Whoever has not connected has left no trace.
Unconnected(c) ==
  client[c].state = "INIT" =>
    upstream[c] = <<>> /\ down[c] = None /\ ~client[c].waits /\ c \notin ToSet(backlog) /\ job.serves # c

\* Whoever waits to be served may have sent its greeting, and has no reply.
InBacklog(c) ==
  c \in ToSet(backlog) => client[c].state = "HELLO" /\ down[c] = None /\ job.serves # c

\* Whoever is served has its connection, and the server is past the greeting
\* when the client is, or when the reply that tells it is on its way.
Served(c) ==
  job.serves = c =>
    /\ InSession(c) /\ down[c] # "closed" /\ job.phase = job.state
    /\ job.state = "HELLO" => client[c].state = "HELLO"
    /\ job.state # "HELLO" => job.state = "LIST_ITEMS"
    /\ job.state = "LIST_ITEMS" /\ client[c].state = "HELLO" => down[c] = "200"

\* What has been sent carries its sender's version; a second piece is only
\* behind a first that is not the whole; nothing is sent but by one that waits.
OnItsWay(c) ==
  /\ Len(upstream[c]) <= 2
  /\ Len(upstream[c]) = 2 => upstream[c][1].part # "all"
  /\ \A i \in DOMAIN upstream[c] : upstream[c][i].version = client[c].version
  /\ InSession(c) => client[c].phase = client[c].state /\ (upstream[c] # <<>> => client[c].waits)

\* The reply to a greeting, on its way and understood.
Greeted(c) ==
  /\ down[c] = "200" =>
       /\ client[c].state = "HELLO" /\ client[c].waits /\ client[c].version = Version
       /\ upstream[c] = <<>> /\ job.serves = c /\ job.state = "LIST_ITEMS"
  /\ client[c].state = "LIST_ITEMS" => client[c].version = Version

InStep(c) == Unconnected(c) /\ InBacklog(c) /\ Served(c) /\ OnItsWay(c) /\ Greeted(c)

SyncInv == Types /\ \A c \in Clients : InStep(c)

-----------------------------------------------------------------------------
LEMMA NoneIs == SyncAssumption => None \notin Clients /\ None # "200" /\ None # "closed"
  BY DEF SyncAssumption

LEMMA EmptyBacklog == IsInjective(<<>>) /\ ToSet(<<>>) = {}
<1>1. DOMAIN <<>> = {}
  OBVIOUS
<1> QED
  BY <1>1 DEF IsInjective, ToSet

\* A connection is added behind the others.
LEMMA Appended ==
  ASSUME NEW s \in Seq(Clients), IsInjective(s), NEW c \in Clients, c \notin ToSet(s)
  PROVE  Append(s, c) \in Seq(Clients) /\ IsInjective(Append(s, c)) /\ ToSet(Append(s, c)) = ToSet(s) \cup {c}
<1> DEFINE t == Append(s, c)
<1>1. /\ t \in Seq(Clients) /\ Len(s) \in Nat /\ DOMAIN s = 1..Len(s) /\ DOMAIN t = 1..(Len(s) + 1)
      /\ \A i \in 1..Len(s) : t[i] = s[i]
      /\ t[Len(s) + 1] = c
  OBVIOUS
<1>2. \A i \in 1..Len(s) : s[i] # c
  BY <1>1 DEF ToSet
<1>3. IsInjective(t)
  <2> SUFFICES ASSUME NEW i \in DOMAIN t, NEW j \in DOMAIN t, t[i] = t[j]
               PROVE  i = j
    BY DEF IsInjective
  <2>1. CASE i \in 1..Len(s) /\ j \in 1..Len(s)
    BY <1>1, <2>1 DEF IsInjective
  <2>2. CASE ~(i \in 1..Len(s)) \/ ~(j \in 1..Len(s))
    BY <1>1, <1>2, <2>2
  <2> QED
    BY <2>1, <2>2
<1>4. ToSet(t) = ToSet(s) \cup {c}
  <2>1. ASSUME NEW x PROVE x \in ToSet(t) <=> x \in ToSet(s) \cup {c}
    BY <1>1 DEF ToSet
  <2> QED
    BY <2>1
<1> QED
  BY <1>1, <1>3, <1>4

\* The oldest connection is taken from before the others.
LEMMA Taken ==
  ASSUME NEW s \in Seq(Clients), IsInjective(s), s # <<>>
  PROVE  /\ Tail(s) \in Seq(Clients) /\ IsInjective(Tail(s)) /\ Head(s) \in Clients
         /\ Head(s) \in ToSet(s) /\ ToSet(Tail(s)) = ToSet(s) \ {Head(s)}
<1> DEFINE t == Tail(s)
<1>1. /\ t \in Seq(Clients) /\ Len(s) \in Nat \ {0} /\ DOMAIN s = 1..Len(s) /\ DOMAIN t = 1..(Len(s) - 1)
      /\ \A i \in 1..(Len(s) - 1) : t[i] = s[i + 1]
      /\ Head(s) = s[1] /\ Head(s) \in Clients
  OBVIOUS
<1>2. IsInjective(t)
  BY <1>1 DEF IsInjective
<1>3. Head(s) \in ToSet(s)
  BY <1>1 DEF ToSet
<1>4. ASSUME NEW x PROVE x \in ToSet(t) <=> x \in ToSet(s) \ {Head(s)}
  <2>1. ASSUME NEW i \in DOMAIN t PROVE t[i] \in ToSet(s) /\ t[i] # Head(s)
    BY <1>1, <2>1 DEF ToSet, IsInjective
  <2>2. ASSUME NEW i \in DOMAIN s, s[i] # Head(s) PROVE s[i] \in ToSet(t)
    <3>1. i - 1 \in 1..(Len(s) - 1) /\ t[i - 1] = s[i]
      BY <1>1, <2>2
    <3> QED
      BY <1>1, <3>1 DEF ToSet
  <2> QED
    BY <2>1, <2>2 DEF ToSet
<1> QED
  BY <1>1, <1>2, <1>3, <1>4

\* Nothing changes for a client whose connection a step does not touch.
LEMMA Untouched ==
  ASSUME NEW d \in Clients, InStep(d),
         client'[d] = client[d], upstream'[d] = upstream[d], down'[d] = down[d],
         d \in ToSet(backlog') <=> d \in ToSet(backlog),
         job'.serves = d <=> job.serves = d, job.serves = d => job' = job
  PROVE  InStep(d)'
<1>1. Unconnected(d)' /\ InBacklog(d)'
  BY DEF InStep, Unconnected, InBacklog
<1>2. Served(d)' /\ OnItsWay(d)' /\ Greeted(d)'
  BY DEF InStep, Served, OnItsWay, Greeted, InSession
<1> QED
  BY <1>1, <1>2 DEF InStep

-----------------------------------------------------------------------------
LEMMA SyncInit == SyncAssumption /\ Init => SyncInv
<1> SUFFICES ASSUME SyncAssumption, Init PROVE SyncInv
  OBVIOUS
<1>1. Types
  <2>1. client \in [Clients -> Peer]
    <3> DEFINE First == {[state |-> "INIT", phase |-> "INIT", waits |-> FALSE, version |-> v] : v \in Versions}
    <3>1. ASSUME NEW v \in Versions
          PROVE  [state |-> "INIT", phase |-> "INIT", waits |-> FALSE, version |-> v] \in Peer
      BY DEF Peer, States
    <3>2. client \in [Clients -> First]
      BY DEF Init
    <3> QED
      BY <3>1, <3>2
  <2>2. job \in [serves : Clients \cup {None}, state : States, phase : States]
    BY DEF Init, NoJob, States
  <2>3. backlog \in Seq(Clients) /\ IsInjective(backlog) /\ ticks \in 0..MaxTicks
    BY EmptyBacklog DEF Init, SyncAssumption
  <2>4. upstream \in [Clients -> Seq(Piece)] /\ down \in [Clients -> {None, "200", "closed"}]
    BY DEF Init
  <2>5. daemon \in {"ready", "aborted"} /\ build \in BOOLEAN
    BY DEF Init, SyncAssumption
  <2> QED
    BY <2>1, <2>2, <2>3, <2>4, <2>5 DEF Types
<1>2. ASSUME NEW c \in Clients PROVE InStep(c)
  <2>1. client[c].state = "INIT" /\ ~client[c].waits /\ upstream[c] = <<>> /\ down[c] = None /\ job.serves = None
    BY DEF Init, NoJob
  <2>2. c \notin ToSet(backlog) /\ job.serves # c /\ down[c] # "200"
    BY <2>1, NoneIs, EmptyBacklog DEF Init
  <2> QED
    BY <2>1, <2>2 DEF InStep, Unconnected, InBacklog, Served, OnItsWay, Greeted, InSession
<1> QED
  BY <1>1, <1>2 DEF SyncInv

LEMMA ConnectStep ==
  ASSUME SyncAssumption, SyncInv, NEW c \in Clients, Connect(c)
  PROVE  SyncInv'
<1>1. Types /\ InStep(c)
  BY DEF SyncInv
<1>2. /\ client[c].state = "INIT" /\ upstream[c] = <<>> /\ down[c] = None /\ ~client[c].waits
      /\ c \notin ToSet(backlog) /\ job.serves # c /\ client[c] \in Peer
  BY <1>1 DEF Connect, InStep, Unconnected, Types
<1>3. /\ client' = [client EXCEPT ![c] = Changed(client[c], "HELLO")]
      /\ Changed(client[c], "HELLO") = [client[c] EXCEPT !.state = "HELLO", !.phase = "HELLO"]
      /\ backlog' = Append(backlog, c)
      /\ UNCHANGED <<daemon, build, job, upstream, down, ticks>>
  BY DEF Connect, Changed
<1>4. /\ client'[c] = [client[c] EXCEPT !.state = "HELLO", !.phase = "HELLO"]
      /\ client'[c] \in Peer /\ client'[c].state = "HELLO" /\ client'[c].phase = "HELLO"
      /\ client'[c].version = client[c].version
      /\ \A d \in Clients \ {c} : client'[d] = client[d]
  <2>1. client \in [Clients -> Peer] /\ client[c] \in Peer
    BY <1>1 DEF Types
  <2>2. client'[c] = [client[c] EXCEPT !.state = "HELLO", !.phase = "HELLO"]
    BY <2>1, <1>3
  <2> QED
    BY <2>1, <2>2, <1>3 DEF Peer, States
<1>5. backlog' \in Seq(Clients) /\ IsInjective(backlog') /\ ToSet(backlog') = ToSet(backlog) \cup {c}
  BY <1>1, <1>2, <1>3, Appended DEF Types
<1>6. Types'
  BY <1>1, <1>3, <1>4, <1>5 DEF Types
<1>7. InStep(c)'
  BY <1>2, <1>3, <1>4, <1>5, NoneIs DEF InStep, Unconnected, InBacklog, Served, OnItsWay, Greeted, InSession
<1>8. ASSUME NEW d \in Clients \ {c} PROVE InStep(d)'
  BY <1>3, <1>4, <1>5, Untouched DEF SyncInv
<1> QED
  BY <1>6, <1>7, <1>8 DEF SyncInv

\* A request that arrives whole, or in two pieces.
LEMMA OneOrTwo ==
  ASSUME NEW p \in Piece, NEW q \in Piece
  PROVE  /\ <<p>> \in Seq(Piece) /\ Len(<<p>>) = 1 /\ DOMAIN <<p>> = {1} /\ <<p>>[1] = p
         /\ <<p, q>> \in Seq(Piece) /\ Len(<<p, q>>) = 2 /\ DOMAIN <<p, q>> = {1, 2}
         /\ <<p, q>>[1] = p /\ <<p, q>>[2] = q
  OBVIOUS

LEMMA SendStep ==
  ASSUME SyncAssumption, SyncInv, NEW c \in Clients, Send(c)
  PROVE  SyncInv'
<1> DEFINE piece(part) == [part |-> part, version |-> client[c].version,
                           request |-> IF client[c].phase = "HELLO" THEN "HELLO" ELSE "LIST ITEMS"]
<1>1. Types /\ InStep(c)
  BY DEF SyncInv
<1>2. /\ InSession(c) /\ ~client[c].waits /\ down[c] # "closed" /\ client[c] \in Peer
      /\ client' = [client EXCEPT ![c].waits = TRUE]
      /\ UNCHANGED <<daemon, build, backlog, job, down, ticks>>
  BY <1>1 DEF Send, InSession, Types
<1>3. upstream[c] = <<>>
  BY <1>1, <1>2 DEF InStep, OnItsWay
<1>4. \A part \in {"all", "head", "tail"} : piece(part) \in Piece
  BY <1>2 DEF Peer, Piece
<1>5. /\ upstream'[c] \in {<<piece("all")>>, <<piece("head"), piece("tail")>>}
      /\ upstream' \in [Clients -> Seq(Piece)]
      /\ \A d \in Clients \ {c} : upstream'[d] = upstream[d]
  <2>1. upstream \in [Clients -> Seq(Piece)]
    BY <1>1 DEF Types
  <2>2. <<piece("all")>> \in Seq(Piece) /\ <<piece("head"), piece("tail")>> \in Seq(Piece)
    BY <1>4, OneOrTwo
  <2>3. \/ upstream' = [upstream EXCEPT ![c] = Append(<<>>, piece("all"))]
        \/ upstream' = [upstream EXCEPT ![c] = <<>> \o <<piece("head"), piece("tail")>>]
    BY <1>3 DEF Send
  <2>4. Append(<<>>, piece("all")) = <<piece("all")>>
    OBVIOUS
  <2>5. <<>> \o <<piece("head"), piece("tail")>> = <<piece("head"), piece("tail")>>
    BY <2>2, ConcatEmptySeq
  <2> HIDE DEF piece
  <2> QED
    BY <2>1, <2>2, <2>3, <2>4, <2>5
<1>6. /\ Len(upstream'[c]) <= 2 /\ upstream'[c] # <<>>
      /\ Len(upstream'[c]) = 2 => upstream'[c][1].part # "all"
      /\ \A i \in DOMAIN upstream'[c] : upstream'[c][i].version = client[c].version
  <2>1. piece("head").part # "all" /\ \A part \in {"all", "head", "tail"} : piece(part).version = client[c].version
    OBVIOUS
  <2> HIDE DEF piece
  <2>2. CASE upstream'[c] = <<piece("all")>>
    BY <1>4, <2>1, <2>2, OneOrTwo
  <2>3. CASE upstream'[c] = <<piece("head"), piece("tail")>>
    BY <1>4, <2>1, <2>3, OneOrTwo
  <2> QED
    BY <1>5, <2>2, <2>3 DEF piece
<1>7. /\ client' \in [Clients -> Peer] /\ client'[c].waits
      /\ client'[c].state = client[c].state /\ client'[c].phase = client[c].phase
      /\ client'[c].version = client[c].version
      /\ \A d \in Clients \ {c} : client'[d] = client[d]
  BY <1>1, <1>2 DEF Types, Peer
<1>8. Types'
  BY <1>1, <1>2, <1>5, <1>7 DEF Types
<1>9. InStep(c)'
  <2>1. down[c] # "200"
    BY <1>1, <1>2 DEF InStep, Greeted
  <2>2. Unconnected(c)' /\ InBacklog(c)' /\ Served(c)' /\ Greeted(c)'
    BY <1>1, <1>2, <1>7, <2>1 DEF InStep, Unconnected, InBacklog, Served, Greeted, InSession
  <2>3. OnItsWay(c)'
    <3>2. \A i \in DOMAIN upstream'[c] : upstream'[c][i].version = client'[c].version
      BY <1>6, <1>7
    <3>3. InSession(c)' => client'[c].phase = client'[c].state
      BY <1>1, <1>7 DEF InStep, OnItsWay, InSession
    <3> QED
      BY <1>6, <1>7, <3>2, <3>3 DEF OnItsWay
  <2> QED
    BY <2>2, <2>3 DEF InStep
<1>10. ASSUME NEW d \in Clients \ {c} PROVE InStep(d)'
  BY <1>2, <1>5, <1>7, Untouched DEF SyncInv
<1> QED
  BY <1>8, <1>9, <1>10 DEF SyncInv

\* The 200 of the greeting takes the client into the lists; a second reply, or
\* the end of the connection, is an error.
LEMMA ReceiveStep ==
  ASSUME SyncAssumption, SyncInv, NEW c \in Clients, Receive(c)
  PROVE  SyncInv'
<1>1. Types /\ InStep(c) /\ client[c] \in Peer
  BY DEF SyncInv, Types
<1>2. /\ client[c].waits /\ down[c] \in {"200", "closed"}
      /\ UNCHANGED <<daemon, build, backlog, job, upstream, ticks>>
  BY <1>1 DEF Receive, Types
<1>3. InSession(c) => client[c].phase = client[c].state
  BY <1>1 DEF InStep, OnItsWay
<1>4. CASE down[c] = "200"
  <2>1. /\ client[c].state = "HELLO" /\ client[c].phase = "HELLO" /\ client[c].version = Version
        /\ upstream[c] = <<>> /\ job.serves = c /\ job.state = "LIST_ITEMS"
    BY <1>1, <1>3, <1>4 DEF InStep, Greeted, InSession
  <2>2. OkReply(c) = "LIST_ITEMS" /\ down[c] # "closed"
    BY <1>4, <2>1 DEF OkReply
  <2>3. client' = [client EXCEPT ![c] = [Changed(@, "LIST_ITEMS") EXCEPT !.waits = FALSE]]
    BY <2>2 DEF Receive
  <2>4. Changed(client[c], "LIST_ITEMS") = [client[c] EXCEPT !.state = "LIST_ITEMS", !.phase = "LIST_ITEMS"]
    BY DEF Changed
  <2>5. /\ client' \in [Clients -> Peer]
        /\ client'[c].state = "LIST_ITEMS" /\ client'[c].phase = "LIST_ITEMS" /\ ~client'[c].waits
        /\ client'[c].version = client[c].version
        /\ \A d \in Clients \ {c} : client'[d] = client[d]
    BY <1>1, <2>3, <2>4 DEF Types, Peer, States
  <2>6. /\ down' \in [Clients -> {None, "200", "closed"}] /\ down'[c] = None
        /\ \A d \in Clients \ {c} : down'[d] = down[d]
    BY <1>1, <2>2 DEF Receive, Types
  <2>7. Types'
    BY <1>1, <1>2, <2>5, <2>6 DEF Types
  <2>8. InStep(c)'
    BY <1>1, <1>2, <2>1, <2>5, <2>6, NoneIs DEF InStep, Unconnected, InBacklog, Served, OnItsWay, Greeted, InSession
  <2>9. ASSUME NEW d \in Clients \ {c} PROVE InStep(d)'
    BY <1>2, <2>5, <2>6, Untouched DEF SyncInv
  <2> QED
    BY <2>7, <2>8, <2>9 DEF SyncInv
<1>5. CASE down[c] = "closed"
  <2>1. client' = [client EXCEPT ![c] = [Changed(@, "ERROR") EXCEPT !.waits = FALSE]]
    BY <1>5 DEF Receive
  <2>2. Changed(client[c], "ERROR") = [client[c] EXCEPT !.state = "ERROR"]
    BY DEF Changed
  <2>3. /\ client' \in [Clients -> Peer]
        /\ client'[c].state = "ERROR" /\ ~client'[c].waits /\ client'[c].version = client[c].version
        /\ \A d \in Clients \ {c} : client'[d] = client[d]
    BY <1>1, <2>1, <2>2 DEF Types, Peer, States
  <2>4. /\ down' \in [Clients -> {None, "200", "closed"}] /\ down'[c] = "closed"
        /\ \A d \in Clients \ {c} : down'[d] = down[d]
    BY <1>1, <1>5 DEF Receive, Types
  <2>5. Types'
    BY <1>1, <1>2, <2>3, <2>4 DEF Types
  <2>6. c \notin ToSet(backlog) /\ job.serves # c
    BY <1>1, <1>5, NoneIs DEF InStep, InBacklog, Served
  <2>7. InStep(c)'
    BY <1>1, <1>2, <2>3, <2>4, <2>6 DEF InStep, Unconnected, InBacklog, Served, OnItsWay, Greeted, InSession
  <2>8. ASSUME NEW d \in Clients \ {c} PROVE InStep(d)'
    BY <1>2, <2>3, <2>4, Untouched DEF SyncInv
  <2> QED
    BY <2>5, <2>7, <2>8 DEF SyncInv
<1> QED
  BY <1>2, <1>4, <1>5

LEMMA ServeStep ==
  ASSUME SyncAssumption, SyncInv, Serve
  PROVE  SyncInv'
<1>1. /\ Types /\ backlog # <<>> /\ job = NoJob
      /\ backlog' = Tail(backlog) /\ UNCHANGED <<daemon, build, upstream, down, client, ticks>>
  BY DEF SyncInv, Serve, Idle
<1>2. PICK c \in Clients :
        /\ c = Head(backlog) /\ backlog' \in Seq(Clients) /\ IsInjective(backlog')
        /\ c \in ToSet(backlog) /\ ToSet(backlog') = ToSet(backlog) \ {c}
  BY <1>1, Taken DEF Types
<1>3. job' = [serves |-> c, state |-> "HELLO", phase |-> "HELLO"] /\ job.serves = None
  BY <1>1, <1>2 DEF Serve, Changed, NoJob
<1>4. InStep(c) /\ client[c].state = "HELLO" /\ down[c] = None
  BY <1>2 DEF SyncInv, InStep, InBacklog
<1>5. Types'
  BY <1>1, <1>2, <1>3 DEF Types, States
<1>6. InStep(c)'
  <2>1. Unconnected(c)' /\ InBacklog(c)' /\ OnItsWay(c)'
    BY <1>1, <1>2, <1>4 DEF InStep, Unconnected, InBacklog, OnItsWay, InSession
  <2>2. Served(c)' /\ Greeted(c)'
    BY <1>1, <1>3, <1>4, NoneIs DEF InStep, Served, Greeted, InSession
  <2> QED
    BY <2>1, <2>2 DEF InStep
<1>7. ASSUME NEW d \in Clients \ {c} PROVE InStep(d)'
  <2>1. job.serves # d /\ job'.serves # d
    BY <1>3, NoneIs
  <2> QED
    BY <1>1, <1>2, <2>1, Untouched DEF SyncInv
<1> QED
  BY <1>5, <1>6, <1>7 DEF SyncInv

\* Of a client that is served: it is in its session, and not behind in the queue.
LEMMA ServedIs ==
  ASSUME SyncAssumption, SyncInv, NEW c \in Clients, job.serves = c
  PROVE  Types /\ InStep(c) /\ InSession(c) /\ c \notin ToSet(backlog)
  BY DEF SyncInv, InStep, Served, InBacklog

\* The job ends, and its socket with it, whatever was left to read from it.
LEMMA HangUpStep ==
  ASSUME SyncAssumption, SyncInv, NEW c \in Clients, job.serves = c, HangUp,
         upstream' \in [Clients -> Seq(Piece)], OnItsWay(c)',
         \A d \in Clients \ {c} : upstream'[d] = upstream[d],
         UNCHANGED <<daemon, build, backlog, client, ticks>>
  PROVE  SyncInv'
<1>1. Types /\ InStep(c) /\ InSession(c) /\ c \notin ToSet(backlog)
  BY ServedIs
<1>2. job' = [serves |-> None, state |-> "INIT", phase |-> "INIT"] /\ down' = [down EXCEPT ![c] = "closed"]
  BY DEF HangUp, NoJob
<1>3. down' \in [Clients -> {None, "200", "closed"}] /\ down'[c] = "closed" /\ \A d \in Clients \ {c} : down'[d] = down[d]
  BY <1>1, <1>2 DEF Types
<1>4. Types'
  BY <1>1, <1>2, <1>3 DEF Types, States
<1>5. InStep(c)'
  <2>1. Unconnected(c)' /\ InBacklog(c)' /\ Served(c)'
    BY <1>1, <1>2, NoneIs DEF Unconnected, InBacklog, Served, InSession
  <2>2. Greeted(c)'
    BY <1>1, <1>3 DEF InStep, Greeted
  <2> QED
    BY <2>1, <2>2 DEF InStep
<1>6. ASSUME NEW d \in Clients \ {c} PROVE InStep(d)'
  <2>1. job.serves # d /\ job'.serves # d
    BY <1>2, NoneIs
  <2> QED
    BY <1>3, <2>1, Untouched DEF SyncInv
<1> QED
  BY <1>4, <1>5, <1>6 DEF SyncInv

LEMMA TimeoutStep ==
  ASSUME SyncAssumption, SyncInv, Timeout
  PROVE  SyncInv'
<1>1. job.serves # None /\ HangUp /\ UNCHANGED <<daemon, build, backlog, upstream, client, ticks>>
  BY DEF Timeout
<1>2. PICK c \in Clients : c = job.serves
  BY <1>1 DEF SyncInv, Types
<1>3. InStep(c)
  BY <1>2, ServedIs
<1>4. upstream' \in [Clients -> Seq(Piece)] /\ \A d \in Clients \ {c} : upstream'[d] = upstream[d]
  BY <1>1 DEF SyncInv, Types
<1>5. OnItsWay(c)'
  BY <1>1, <1>3 DEF InStep, OnItsWay, InSession
<1> QED
  BY <1>1, <1>2, <1>4, <1>5, HangUpStep

LEMMA TickStep ==
  ASSUME SyncAssumption, SyncInv, Tick
  PROVE  SyncInv'
<1>1. ticks' \in 0..MaxTicks
  BY DEF Tick, SyncInv, Types, SyncAssumption
<1>2. Types'
  BY <1>1 DEF Tick, SyncInv, Types
<1>3. ASSUME NEW c \in Clients PROVE InStep(c)'
  BY Untouched DEF Tick, SyncInv
<1> QED
  BY <1>2, <1>3 DEF SyncInv

\* What one read returns of the pieces that arrived: a request of the client's
\* version; when it is a whole line, nothing is left behind it.
LEMMA Arrived ==
  ASSUME NEW s \in Seq(Piece), NEW v, s # <<>>, Len(s) <= 2, Len(s) = 2 => s[1].part # "all",
         \A i \in DOMAIN s : s[i].version = v
  PROVE  /\ Head(s) \in Piece /\ Head(s).version = v
         /\ [Head(s) EXCEPT !.part = "all"] \in Piece /\ [Head(s) EXCEPT !.part = "all"].version = v
         /\ Tail(s) \in Seq(Piece) /\ Len(Tail(s)) <= 2 /\ Len(Tail(s)) # 2
         /\ \A i \in DOMAIN Tail(s) : Tail(s)[i].version = v
         /\ Head(s).part = "all" => Tail(s) = <<>>
<1>1. /\ Len(s) \in Nat /\ Len(s) # 0 /\ Head(s) = s[1] /\ DOMAIN s = 1..Len(s) /\ Head(s) \in Piece
      /\ Tail(s) \in Seq(Piece) /\ Len(Tail(s)) = Len(s) - 1 /\ DOMAIN Tail(s) = 1..(Len(s) - 1)
      /\ \A i \in 1..(Len(s) - 1) : Tail(s)[i] = s[i + 1]
  OBVIOUS
<1>2. Head(s).version = v /\ \A i \in DOMAIN Tail(s) : Tail(s)[i].version = v
  BY <1>1
<1>3. Head(s).part = "all" => Tail(s) = <<>>
  BY <1>1, EmptySeq
<1>4. Len(Tail(s)) <= 2 /\ Len(Tail(s)) # 2
  <2> DEFINE n == Len(s)
             m == Len(Tail(s))
  <2>1. n \in Nat /\ n <= 2 /\ n # 0 /\ m = n - 1
    BY <1>1
  <2> HIDE DEF n, m
  <2>2. m <= 2 /\ m # 2
    BY <2>1
  <2> QED
    BY <2>2 DEF m
<1>5. [Head(s) EXCEPT !.part = "all"] \in Piece /\ [Head(s) EXCEPT !.part = "all"].version = v
  BY <1>1, <1>2 DEF Piece
<1> QED
  BY <1>1, <1>2, <1>3, <1>4, <1>5

\* What a request p of c comes to. After the greeting, the reply that says so
\* is sent to a client that waits for it.
LEMMA HandledStep ==
  ASSUME SyncAssumption, SyncInv, NEW c \in Clients, job.serves = c, upstream[c] # <<>>,
         NEW p \in Piece, p.version = client[c].version, p.part = "all" => upstream'[c] = <<>>,
         upstream' \in [Clients -> Seq(Piece)], OnItsWay(c)',
         \A d \in Clients \ {c} : upstream'[d] = upstream[d],
         UNCHANGED <<build, backlog, client, ticks>>,
         IF Handled(p) = "ERROR"
         THEN IF build THEN daemon' = "aborted" /\ UNCHANGED <<job, down>>
                       ELSE HangUp /\ UNCHANGED daemon
         ELSE /\ job' = Changed(job, Handled(p))
              /\ down' = [down EXCEPT ![c] = "200"]
              /\ UNCHANGED daemon
  PROVE  SyncInv'
<1>1. Types /\ InStep(c) /\ InSession(c) /\ c \notin ToSet(backlog)
  BY ServedIs
<1>2. CASE Handled(p) = "ERROR" /\ build
  <2>1. daemon' = "aborted" /\ UNCHANGED <<job, down>>
    BY <1>2
  <2>2. Types'
    BY <1>1, <2>1 DEF Types
  <2>3. down[c] # "200"
    BY <1>1 DEF InStep, Greeted
  <2>4. InStep(c)'
    BY <1>1, <2>1, <2>3 DEF InStep, Unconnected, InBacklog, Served, Greeted, InSession
  <2>5. ASSUME NEW d \in Clients \ {c} PROVE InStep(d)'
    BY <2>1, Untouched DEF SyncInv
  <2> QED
    BY <2>2, <2>4, <2>5 DEF SyncInv
<1>3. CASE Handled(p) = "ERROR" /\ ~build
  BY <1>3, HangUpStep
<1>4. CASE Handled(p) # "ERROR"
  <2>1. job.phase = "HELLO" /\ p.part = "all" /\ p.version = Version /\ Handled(p) = "LIST_ITEMS"
    BY <1>4 DEF Handled, Hello
  <2>2. /\ job' = [job EXCEPT !.state = "LIST_ITEMS", !.phase = "LIST_ITEMS"]
        /\ down' = [down EXCEPT ![c] = "200"] /\ UNCHANGED daemon
    BY <1>4, <2>1 DEF Changed
  <2>3. /\ job' \in [serves : Clients \cup {None}, state : States, phase : States]
        /\ job'.serves = c /\ job'.state = "LIST_ITEMS" /\ job'.phase = "LIST_ITEMS"
    BY <1>1, <2>2 DEF Types, States
  <2>4. /\ down' \in [Clients -> {None, "200", "closed"}] /\ down'[c] = "200"
        /\ \A d \in Clients \ {c} : down'[d] = down[d]
    BY <1>1, <2>2 DEF Types
  <2>5. client[c].state = "HELLO" /\ client[c].waits /\ client[c].version = Version /\ upstream'[c] = <<>>
    BY <1>1, <2>1 DEF InStep, Served, OnItsWay
  <2>6. Types'
    BY <1>1, <2>2, <2>3, <2>4 DEF Types
  <2>7. InStep(c)'
    BY <1>1, <2>3, <2>4, <2>5 DEF InStep, Unconnected, InBacklog, Served, Greeted, InSession
  <2>8. ASSUME NEW d \in Clients \ {c} PROVE InStep(d)'
    BY <2>3, <2>4, Untouched DEF SyncInv
  <2> QED
    BY <2>6, <2>7, <2>8 DEF SyncInv
<1> QED
  BY <1>2, <1>3, <1>4

LEMMA ReadStep ==
  ASSUME SyncAssumption, SyncInv, Read
  PROVE  SyncInv'
<1>1. job.serves # None /\ upstream[job.serves] # <<>> /\ UNCHANGED <<build, backlog, client, ticks>>
  BY DEF Read
<1>2. PICK c \in Clients : c = job.serves
  BY <1>1 DEF SyncInv, Types
<1>3. Types /\ InStep(c) /\ InSession(c) /\ upstream[c] \in Seq(Piece) /\ client[c].waits
  BY <1>1, <1>2, ServedIs DEF Types, InStep, OnItsWay
<1> DEFINE handle(p) ==
      IF Handled(p) = "ERROR"
      THEN IF build THEN daemon' = "aborted" /\ UNCHANGED <<job, down>>
                    ELSE HangUp /\ UNCHANGED daemon
      ELSE /\ job' = Changed(job, Handled(p))
           /\ down' = [down EXCEPT ![c] = "200"]
           /\ UNCHANGED daemon
<1>4. \/ upstream' = [upstream EXCEPT ![c] = Tail(@)] /\ handle(Head(upstream[c]))
      \/ upstream' = [upstream EXCEPT ![c] = <<>>] /\ handle([Head(upstream[c]) EXCEPT !.part = "all"])
  BY <1>2 DEF Read
<1> HIDE DEF handle
<1>5. /\ Len(upstream[c]) <= 2
      /\ Len(upstream[c]) = 2 => upstream[c][1].part # "all"
      /\ \A i \in DOMAIN upstream[c] : upstream[c][i].version = client[c].version
      /\ client[c].phase = client[c].state
  BY <1>3 DEF InStep, OnItsWay
<1>6. ASSUME NEW rest \in Seq(Piece), upstream' = [upstream EXCEPT ![c] = rest], Len(rest) <= 2, Len(rest) # 2,
             \A i \in DOMAIN rest : rest[i].version = client[c].version
      PROVE  /\ upstream' \in [Clients -> Seq(Piece)] /\ upstream'[c] = rest /\ OnItsWay(c)'
             /\ \A d \in Clients \ {c} : upstream'[d] = upstream[d]
  <2>1. /\ upstream' \in [Clients -> Seq(Piece)] /\ upstream'[c] = rest
        /\ \A d \in Clients \ {c} : upstream'[d] = upstream[d]
    BY <1>3, <1>6 DEF Types
  <2> QED
    BY <1>1, <1>3, <1>5, <1>6, <2>1 DEF OnItsWay, InSession
<1>7. CASE upstream' = [upstream EXCEPT ![c] = Tail(@)] /\ handle(Head(upstream[c]))
  <2> DEFINE s == upstream[c]
  <2>1. /\ Head(s) \in Piece /\ Head(s).version = client[c].version /\ Tail(s) \in Seq(Piece)
        /\ Len(Tail(s)) <= 2 /\ Len(Tail(s)) # 2
        /\ \A i \in DOMAIN Tail(s) : Tail(s)[i].version = client[c].version
        /\ Head(s).part = "all" => Tail(s) = <<>>
    BY <1>1, <1>2, <1>3, <1>5, Arrived
  <2>2. /\ upstream' \in [Clients -> Seq(Piece)] /\ upstream'[c] = Tail(s) /\ OnItsWay(c)'
        /\ \A d \in Clients \ {c} : upstream'[d] = upstream[d]
    BY <1>6, <1>7, <2>1
  <2> QED
    BY <1>1, <1>2, <1>7, <2>1, <2>2, HandledStep DEF handle
<1>8. CASE upstream' = [upstream EXCEPT ![c] = <<>>] /\ handle([Head(upstream[c]) EXCEPT !.part = "all"])
  <2> DEFINE p == [Head(upstream[c]) EXCEPT !.part = "all"]
  <2>1. p \in Piece /\ p.version = client[c].version
    BY <1>1, <1>2, <1>3, <1>5, Arrived
  <2>2. <<>> \in Seq(Piece) /\ Len(<<>>) <= 2 /\ Len(<<>>) # 2 /\ DOMAIN <<>> = {}
    OBVIOUS
  <2>3. /\ upstream' \in [Clients -> Seq(Piece)] /\ upstream'[c] = <<>> /\ OnItsWay(c)'
        /\ \A d \in Clients \ {c} : upstream'[d] = upstream[d]
    BY <1>6, <1>8, <2>2
  <2> QED
    BY <1>1, <1>2, <1>8, <2>1, <2>3, HandledStep DEF handle
<1> QED
  BY <1>4, <1>7, <1>8

LEMMA SyncStep == SyncAssumption /\ SyncInv /\ [Next]_vars => SyncInv'
<1> SUFFICES ASSUME SyncAssumption, SyncInv, [Next]_vars PROVE SyncInv'
  OBVIOUS
<1>1. CASE UNCHANGED vars
  <2>1. Types'
    BY <1>1 DEF SyncInv, Types, vars
  <2>2. ASSUME NEW c \in Clients PROVE InStep(c)'
    BY <1>1, Untouched DEF SyncInv, vars
  <2> QED
    BY <2>1, <2>2 DEF SyncInv
<1> QED
  BY <1>1, ConnectStep, SendStep, ReceiveStep, ServeStep, ReadStep, TimeoutStep, TickStep DEF Next

-----------------------------------------------------------------------------
LEMMA SyncTyped == SyncInv => TypeOK
<1> SUFFICES ASSUME SyncInv PROVE TypeOK
  OBVIOUS
<1>1. job.serves \notin ToSet(backlog) /\ ToSet(backlog) \subseteq Clients
  BY DEF SyncInv, InStep, InBacklog, Types, ToSet
<1>2. ASSUME NEW c \in Clients
      PROVE  /\ {client[c].state, client[c].phase} \subseteq States
             /\ down[c] \in {None, "200", "201", "closed"} /\ Len(upstream[c]) <= 2
  BY DEF SyncInv, InStep, OnItsWay, Types, Peer
<1> QED
  BY <1>1, <1>2 DEF SyncInv, Types, TypeOK

LEMMA SyncAgrees == SyncInv => SidesAgree
<1> SUFFICES ASSUME SyncInv PROVE SidesAgree
  OBVIOUS
<1>1. ASSUME NEW c \in Clients
      PROVE  client[c].state = "LIST_ITEMS" =>
               client[c].version = Version /\ (job.serves = c => job.state # "HELLO")
  BY DEF SyncInv, InStep, Served, Greeted, Types, Peer
<1> QED
  BY <1>1 DEF SidesAgree

\* Every variable keeps its type and no connection is in two places, for any
\* clients and versions (SyncDaemon serves one connection at a time and takes
\* each out of the server's queue once).
THEOREM SyncTypes ==
  ASSUME SyncAssumption
  PROVE  Spec => []TypeOK
  BY SyncInit, SyncStep, SyncTyped, PTL DEF Spec

\* A client that has passed its greeting spoke the server's version, and the
\* server it is served by has passed it too (SyncServerJob's loop and the phases
\* of syncprotocol.cpp).
THEOREM SidesAgreeHolds ==
  ASSUME SyncAssumption
  PROVE  Spec => []SidesAgree
  BY SyncInit, SyncStep, SyncAgrees, PTL DEF Spec

-----------------------------------------------------------------------------
\* The server as a ConnectionQueue: a session begins with Serve and ends with
\* HangUp; nothing else is seen of it by those who wait.
Closed == {c \in Clients : down[c] = "closed"}

LEMMA QueueWords == \A s : Queue!ToSet(s) = ToSet(s)
  BY DEF Queue!ToSet, ToSet

LEMMA QueueInit == SyncAssumption /\ Init => Queue!Init
<1> SUFFICES ASSUME SyncAssumption, Init PROVE Queue!Init
  OBVIOUS
<1>1. job.serves = None /\ backlog = <<>>
  BY DEF Init, NoJob
<1>2. Closed = {}
  BY NoneIs DEF Init, Closed
<1> QED
  BY <1>1, <1>2 DEF Queue!Init, Closed

LEMMA ConnectArrives ==
  ASSUME SyncAssumption, SyncInv, NEW c \in Clients, Connect(c)
  PROVE  Queue!Arrive(c)
<1>1. /\ client[c].state = "INIT" /\ backlog' = Append(backlog, c)
      /\ UNCHANGED <<job, down>>
  BY DEF Connect
<1>2. down[c] = None /\ c \notin ToSet(backlog) /\ job.serves # c
  BY <1>1 DEF SyncInv, InStep, Unconnected
<1>3. c \notin Closed
  BY <1>2, NoneIs DEF Closed
<1> QED
  BY <1>1, <1>2, <1>3, QueueWords DEF Queue!Arrive, Closed

LEMMA ServeBegins == SyncAssumption /\ SyncInv /\ Serve => Queue!Begin
<1> SUFFICES ASSUME SyncAssumption, SyncInv, Serve PROVE Queue!Begin
  OBVIOUS
<1>1. job.serves = None
  BY DEF Serve, Idle, NoJob
<1>2. job'.serves = Head(backlog)
  BY DEF Serve, Changed, NoJob
<1> QED
  BY <1>1, <1>2 DEF Serve, Queue!Begin

LEMMA HangUpEnds ==
  ASSUME SyncAssumption, SyncInv, job.serves # None, HangUp, UNCHANGED backlog
  PROVE  Queue!End
<1>1. job'.serves = None
  BY DEF HangUp, NoJob
<1>2. job.serves \in Clients /\ down \in [Clients -> {None, "200", "closed"}]
  BY DEF SyncInv, Types
<1>3. Closed' = Closed \cup {job.serves}
  BY <1>2 DEF HangUp, Closed
<1> QED
  BY <1>1, <1>3 DEF Queue!End, Closed

\* A request that is answered, or that ends an aborting build, ends no session.
LEMMA ReadGoesOn ==
  ASSUME SyncAssumption, SyncInv, Read
  PROVE  Queue!End \/ UNCHANGED <<backlog, job.serves, Closed>>
<1> DEFINE c == job.serves
<1>1. c # None /\ c \in Clients /\ down \in [Clients -> {None, "200", "closed"}] /\ UNCHANGED backlog
  BY DEF Read, SyncInv, Types
<1>2. down[c] # "closed"
  BY <1>1 DEF SyncInv, InStep, Served
<1>3. \/ HangUp
      \/ UNCHANGED <<job, down>>
      \/ \E s : job' = Changed(job, s) /\ down' = [down EXCEPT ![c] = "200"]
  BY DEF Read
<1>4. CASE HangUp
  BY <1>1, <1>4, HangUpEnds
<1>5. CASE UNCHANGED <<job, down>>
  BY <1>1, <1>5 DEF Closed
<1>6. ASSUME NEW s, job' = Changed(job, s), down' = [down EXCEPT ![c] = "200"]
      PROVE  UNCHANGED <<backlog, job.serves, Closed>>
  <2>1. job'.serves = job.serves
    BY <1>6 DEF Changed, SyncInv, Types
  <2>2. Closed' = Closed
    BY <1>1, <1>2, <1>6 DEF Closed
  <2> QED
    BY <1>1, <2>1, <2>2
<1> QED
  BY <1>3, <1>4, <1>5, <1>6

LEMMA ReceiveKeepsClosed ==
  ASSUME SyncAssumption, SyncInv, NEW c \in Clients, Receive(c)
  PROVE  UNCHANGED <<backlog, job.serves, Closed>>
<1>1. down \in [Clients -> {None, "200", "closed"}]
  BY DEF SyncInv, Types
<1>2. Closed' = Closed
  BY <1>1, NoneIs DEF Receive, Closed
<1> QED
  BY <1>2 DEF Receive

LEMMA QueueStep ==
  SyncAssumption /\ SyncInv /\ [Next]_vars => [Queue!Next]_(Queue!queueVars)
<1> SUFFICES ASSUME SyncAssumption, SyncInv, [Next]_vars
             PROVE  Queue!Next \/ UNCHANGED <<backlog, job.serves, Closed>>
  BY DEF Queue!queueVars, Closed
<1>1. CASE UNCHANGED vars \/ Tick
  BY <1>1 DEF vars, Tick, Closed
<1>2. ASSUME NEW c \in Clients, Connect(c)
      PROVE  Queue!Next
  BY <1>2, ConnectArrives DEF Queue!Next
<1>3. ASSUME NEW c \in Clients, Send(c)
      PROVE  UNCHANGED <<backlog, job.serves, Closed>>
  BY <1>3 DEF Send, Closed
<1>4. CASE Serve
  BY <1>4, ServeBegins DEF Queue!Next
<1>5. CASE Timeout
  <2>1. job.serves # None /\ HangUp /\ UNCHANGED backlog
    BY <1>5 DEF Timeout
  <2> QED
    BY <2>1, HangUpEnds DEF Queue!Next
<1> QED
  BY <1>1, <1>2, <1>3, <1>4, <1>5, ReadGoesOn, ReceiveKeepsClosed DEF Next, Queue!Next

\* SyncServer implements ConnectionQueue, for any clients and versions: whoever
\* connects is served in turn and once (SyncDaemon::onNewConnection, and the loop
\* and time-out of SyncServerJob).
THEOREM ServesInOrderHolds ==
  ASSUME SyncAssumption
  PROVE  Spec => ServesInOrder
  BY SyncInit, SyncStep, QueueInit, QueueStep, PTL DEF Spec, ServesInOrder, Queue!Spec
=============================================================================
