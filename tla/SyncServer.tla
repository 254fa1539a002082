----------------------------- MODULE SyncServer -----------------------------
(***************************************************************************)
(* ksecretsync: a daemon that answers the synchronization protocol. Its one *)
(* thread serves a connection from beginning to end inside SyncServerJob's  *)
(* loop, with blocking reads; other connections and the sync timer wait.    *)
(* A request is whatever bytes one read returns: the network may hand over  *)
(* a line in two pieces. The client is the peer's SyncProtocolClient, with  *)
(* one request under way at a time.                                         *)
(***************************************************************************)
EXTENDS Naturals, Sequences, FiniteSets, FiniteSetsExt, SequencesExt

CONSTANTS
  Clients,
  Versions,   \* protocol versions the clients speak; the server speaks Version
  Version,
  None,
  Asserts,    \* builds considered: TRUE when Q_ASSERT stops the program
  MaxTicks

\* A reply is told from none, and a job from no job.
SyncAssumption ==
  None \notin Clients \cup {"200", "201", "closed"} /\ Asserts \subseteq BOOLEAN /\ MaxTicks \in Nat

VARIABLES
  daemon,   \* "ready", or "aborted"
  build,    \* whether assertions are on
  backlog,  \* pending connections, oldest first
  job,      \* SyncServerJob: the client served, protocol state and phase
  upstream, \* upstream[c]: pieces of requests on their way to the server
  down,     \* down[c]: the reply on its way, "closed" after the server hung up
  client,   \* client[c]: state and phase of its protocol, whether it waits, its version
  ticks     \* SyncJobs the timer created; their start() is empty, they never end

vars == <<daemon, build, backlog, job, upstream, down, client, ticks>>

States == {"INIT", "HELLO", "LIST_ITEMS", "DONE", "ERROR"}

NoJob == [serves |-> None, state |-> "INIT", phase |-> "INIT"]

Init ==
  /\ daemon = "ready" /\ build \in Asserts
  /\ backlog = <<>> /\ job = NoJob
  /\ upstream = [c \in Clients |-> <<>>]
  /\ down = [c \in Clients |-> None]
  /\ client \in [Clients -> {[state |-> "INIT", phase |-> "INIT", waits |-> FALSE, version |-> v] : v \in Versions}]
  /\ ticks = 0

-----------------------------------------------------------------------------
\* changeState: DONE and ERROR keep the phase object there was. In the default
\* branch, that of ERROR, stands an assertion.
Changed(peer, s) ==
  IF s \in {"HELLO", "LIST_ITEMS"} THEN [peer EXCEPT !.state = s, !.phase = s] ELSE [peer EXCEPT !.state = s]

\* PhaseHello::handleRequest compares the whole line, with the version in it;
\* PhaseListItems::handleRequest finds no secret service to connect to.
\* Slip: the version is not looked at.
HelloOfAnyVersion(piece) == piece.part = "all" /\ piece.request = "HELLO"

Hello(piece) == piece.part = "all" /\ piece.request = "HELLO" /\ piece.version = Version

Handled(piece) == IF job.phase = "HELLO" /\ Hello(piece) THEN "LIST_ITEMS" ELSE "ERROR"

\* PhaseHello and PhaseListItems::handleOkReply: 201 would end the session, and
\* no server sends it.
OkReply(c) == IF client[c].phase = "HELLO" THEN "LIST_ITEMS"
              ELSE IF down[c] = "201" THEN "DONE" ELSE "ERROR"

-----------------------------------------------------------------------------
Connect(c) ==
  /\ client[c].state = "INIT"
  /\ client' = [client EXCEPT ![c] = Changed(@, "HELLO")]
  /\ backlog' = Append(backlog, c)
  /\ UNCHANGED <<daemon, build, job, upstream, down, ticks>>

\* SyncProtocolClient::nextRequest, written to the socket: it arrives whole or in two pieces.
Send(c) ==
  LET piece(part) == [part |-> part, version |-> client[c].version,
                      request |-> IF client[c].phase = "HELLO" THEN "HELLO" ELSE "LIST ITEMS"]
  IN /\ client[c].state \in {"HELLO", "LIST_ITEMS"} /\ ~client[c].waits /\ down[c] # "closed"
     /\ \/ upstream' = [upstream EXCEPT ![c] = Append(@, piece("all"))]
        \/ upstream' = [upstream EXCEPT ![c] = @ \o <<piece("head"), piece("tail")>>]
     /\ client' = [client EXCEPT ![c].waits = TRUE]
     /\ UNCHANGED <<daemon, build, backlog, job, down, ticks>>

\* SyncProtocolClient::handleReply; a connection that was closed is an error.
Receive(c) ==
  /\ client[c].waits /\ down[c] # None
  /\ client' = [client EXCEPT ![c] = [Changed(@, IF down[c] = "closed" THEN "ERROR" ELSE OkReply(c))
                                      EXCEPT !.waits = FALSE]]
  /\ down' = [down EXCEPT ![c] = IF @ = "closed" THEN @ ELSE None]
  /\ UNCHANGED <<daemon, build, backlog, job, upstream, ticks>>

Idle == daemon = "ready" /\ job = NoJob

\* SyncDaemon::onNewConnection. Slip: the latest connection first.
ServeLatest ==
  /\ Idle /\ backlog # <<>>
  /\ job' = Changed([NoJob EXCEPT !.serves = Last(backlog)], "HELLO")
  /\ backlog' = Front(backlog)
  /\ UNCHANGED <<daemon, build, upstream, down, client, ticks>>

Serve ==
  /\ Idle /\ backlog # <<>>
  /\ job' = Changed([NoJob EXCEPT !.serves = Head(backlog)], "HELLO")
  /\ backlog' = Tail(backlog)
  /\ UNCHANGED <<daemon, build, upstream, down, client, ticks>>

\* The job's result: it is deleted with its socket.
HangUp == job' = NoJob /\ down' = [down EXCEPT ![job.serves] = "closed"]

\* One turn of the loop: what arrived - a piece, or both pieces at once - is a
\* request. An error ends the loop before the reply is written.
Read ==
  LET c == job.serves
      got == Head(upstream[c])
      both == Len(upstream[c]) = 2
      handle(piece) ==
        IF Handled(piece) = "ERROR"
        THEN IF build THEN daemon' = "aborted" /\ UNCHANGED <<job, down>>
                      ELSE HangUp /\ UNCHANGED daemon
        ELSE /\ job' = Changed(job, Handled(piece))
             /\ down' = [down EXCEPT ![c] = "200"]
             /\ UNCHANGED daemon
  IN /\ daemon = "ready" /\ c # None /\ upstream[c] # <<>>
     /\ \/ /\ upstream' = [upstream EXCEPT ![c] = Tail(@)]
           /\ handle(got)
        \/ /\ both /\ upstream' = [upstream EXCEPT ![c] = <<>>]
           /\ handle([got EXCEPT !.part = "all"])
     /\ UNCHANGED <<build, backlog, client, ticks>>

\* waitForReadyRead gives up after SERVER_READ_TIMEOUT. Slip: it does not.
NeverGivesUp(c) == FALSE

GivesUp(c) == upstream[c] = <<>>

Timeout ==
  /\ daemon = "ready" /\ job.serves # None /\ GivesUp(job.serves)
  /\ HangUp
  /\ UNCHANGED <<daemon, build, backlog, upstream, client, ticks>>

\* SyncDaemon::doSync: the jobs it makes do nothing and are never deleted.
Tick ==
  /\ Idle /\ ticks < MaxTicks
  /\ ticks' = ticks + 1
  /\ UNCHANGED <<daemon, build, backlog, job, upstream, down, client>>

Next ==
  \/ \E c \in Clients : Connect(c) \/ Send(c) \/ Receive(c)
  \/ Serve \/ Read \/ Timeout \/ Tick

\* The server's thread goes on for as long as there is a connection or a request.
Spec == Init /\ [][Next]_vars /\ WF_vars(Serve) /\ WF_vars(Read \/ Timeout)

-----------------------------------------------------------------------------
\* Every variable keeps to its type, and one connection is never both served
\* and waiting, nor waiting twice.
TypeOK ==
  /\ daemon \in {"ready", "aborted"} /\ build \in BOOLEAN /\ ticks \in 0..MaxTicks
  /\ job.serves \in Clients \cup {None} /\ {job.state, job.phase} \subseteq States
  /\ IsInjective(backlog) /\ job.serves \notin ToSet(backlog) /\ ToSet(backlog) \subseteq Clients
  /\ \A c \in Clients : /\ {client[c].state, client[c].phase} \subseteq States
                         /\ down[c] \in {None, "200", "201", "closed"}
                         /\ Len(upstream[c]) <= 2

\* A client is past its greeting only when the server is, and understood its version.
SidesAgree ==
  \A c \in Clients : client[c].state = "LIST_ITEMS" =>
    client[c].version = Version /\ (job.serves = c => job.state # "HELLO")

\* "QVERIFY(server->handleRequest( request, response ) );" (tests/protocoltest.cpp):
\* whatever a client of the server's version asks, in one piece, is handled, until
\* that client is done.
RequestsAreHandled ==
  [][\A c \in Clients :
       /\ job.serves = c /\ client[c].version = Version
       /\ Len(upstream[c]) = 1 /\ Head(upstream[c]).part = "all" /\ upstream'[c] = <<>>
       => daemon' = "ready" /\ down'[c] # "closed"]_vars

\* Sessions come one at a time, in the order of connection, and none comes back:
\* QTcpServer's queue and the one job together are a ConnectionQueue.
Queue == INSTANCE ConnectionQueue WITH
  waiting <- backlog, serving <- job.serves, over <- {c \in Clients : down[c] = "closed"}

ServesInOrder == Queue!Spec

\* Whoever connects is served or refused in the end: a silent client ahead of
\* it costs a timeout, not the service - unless an assertion stopped the daemon.
EveryoneIsServed ==
  \A c \in Clients : (c \in ToSet(backlog)) ~> (daemon = "aborted" \/ c \notin ToSet(backlog))
=============================================================================
