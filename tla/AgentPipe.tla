----------------------------- MODULE AgentPipe -----------------------------
(* The elevated agent and its clients: ElevatedService on the agent's main *)
(* thread, the acceptor thread of PipeServer, any number of PipeClients,   *)
(* and the one pipe instance that the acceptor holds at a time.            *)
EXTENDS Naturals

CONSTANTS Clients, None,
          Requests,     \* messages a client may send: [payload, version, key]
          AgentKey,     \* the key the agent was built with
          HeaderSize,   \* sizeof(MessageHeader)
          BufferSize,   \* the read buffer (64 KiB)
          MaxRequests   \* bound: requests of one client

Keys == {m.key : m \in Requests} \cup {AgentKey}

\* A serialized message, as the pipe carries it.
Message == [size : Nat, magic : BOOLEAN, version : Nat, payloadSize : Nat,
            id : Clients \X Nat, hmac : Keys]

ASSUME RequestsAssumption ==
    \A m \in Requests : m.payload \in Nat /\ m.version \in Nat
ASSUME SizesAssumption == HeaderSize \in Nat /\ BufferSize \in Nat /\ MaxRequests \in Nat
ASSUME NoneAssumption ==
    /\ None \notin Clients /\ None # "stop" /\ "stop" \notin Clients
    /\ None \notin Message

VARIABLES running, stopRequested, mainPc,   \* ElevatedService, PipeServer::stop
          accPc,                            \* PipeServer::runLoop
          pipe,                             \* the acceptor's pipe instance
          cliPc, request, reply, sent,      \* PipeClient::request, by client
          handled, missed                   \* history

service    == <<running, stopRequested, mainPc>>
clientVars == <<cliPc, request, reply, sent>>
agentVars  == <<service, accPc, pipe, clientVars, handled, missed>>

\* A pipe: who is at its other end, and the message in each direction.
NoPipe   == [exists |-> FALSE, peer |-> None, open |-> FALSE, in |-> None, out |-> None]
FreePipe == [NoPipe EXCEPT !.exists = TRUE]

(***************************************************************************)
(* Messages.                                                               *)
(***************************************************************************)
\* The authentication code is modelled by what it depends on: the key.
Serialize(m, key) ==
    [size |-> HeaderSize + m.payload, magic |-> TRUE, version |-> m.version,
     payloadSize |-> m.payload, id |-> m.id, hmac |-> key]

\* Mutant: the authentication code is not compared.
DeserializeUnchecked(b, key) ==
    IF b.size < HeaderSize \/ ~b.magic \/ b.size < HeaderSize + b.payloadSize \/ b.version # 1
    THEN [ok |-> FALSE, id |-> None]
    ELSE [ok |-> TRUE, id |-> b.id]

Deserialize(b, key) ==
    IF \/ b.size < HeaderSize \/ ~b.magic
       \/ b.version # 1
       \/ b.size < HeaderSize + b.payloadSize
       \/ b.hmac # key
    THEN [ok |-> FALSE, id |-> None]
    ELSE [ok |-> TRUE, id |-> b.id]

\* ElevatedService::handle answers every request with a Pong.
Handle(id) == Serialize([payload |-> 0, version |-> 1, id |-> id], AgentKey)

(***************************************************************************)
(* The agent's main thread.                                                *)
(***************************************************************************)
AgentInit ==
    /\ running = FALSE /\ stopRequested = FALSE /\ mainPc = "start"
    /\ accPc = "none" /\ pipe = NoPipe
    /\ cliPc = [c \in Clients |-> "idle"]
    /\ request = [c \in Clients |-> None] /\ reply = [c \in Clients |-> None]
    /\ sent = [c \in Clients |-> 0]
    /\ handled = {} /\ missed = FALSE

\* runConsole and PipeServer::start.  The acceptor may fail to build its
\* security descriptor, and ends with running still set.
StartServer ==
    /\ mainPc = "start"
    /\ running' = TRUE /\ mainPc' = "sleep"
    /\ accPc' \in {"loop", "ended"}
    /\ UNCHANGED <<stopRequested, pipe, clientVars, handled, missed>>

RequestShutdown ==
    /\ mainPc = "sleep"
    /\ stopRequested' = TRUE
    /\ UNCHANGED <<running, mainPc, accPc, pipe, clientVars, handled, missed>>

\* runConsole leaves its loop; running.exchange(false) of PipeServer::stop.
StopExchange ==
    /\ mainPc = "sleep" /\ stopRequested
    /\ running' = FALSE /\ mainPc' = "wake"
    /\ UNCHANGED <<stopRequested, accPc, pipe, clientVars, handled, missed>>

Free == pipe.exists /\ pipe.peer = None

\* Mutant: stop does not connect to wake the acceptor.
NobodyConnects == pipe

\* The connection that wakes the acceptor, if it finds a free instance; it
\* is closed at once.
DummyConnects == IF Free THEN [pipe EXCEPT !.peer = "stop"] ELSE pipe

\* It misses an acceptor that has tested running and not yet created.
StopWakes ==
    /\ mainPc = "wake"
    /\ pipe' = DummyConnects
    /\ missed' = (accPc = "create")
    /\ mainPc' = "join"
    /\ UNCHANGED <<running, stopRequested, accPc, clientVars, handled>>

StopJoins ==
    /\ mainPc = "join" /\ accPc = "ended"
    /\ mainPc' = "done"
    /\ UNCHANGED <<running, stopRequested, accPc, pipe, clientVars, handled, missed>>

(***************************************************************************)
(* The acceptor.                                                           *)
(***************************************************************************)
TestRunning ==
    /\ accPc = "loop"
    /\ accPc' = IF running THEN "create" ELSE "ended"
    /\ UNCHANGED <<service, pipe, clientVars, handled, missed>>

\* CreateNamedPipe.  A failure ends the loop, and running stays set.
CreatePipe ==
    /\ accPc = "create"
    /\ \/ pipe' = FreePipe /\ accPc' = "connect"
       \/ accPc' = "ended" /\ UNCHANGED pipe
    /\ UNCHANGED <<service, clientVars, handled, missed>>

\* ConnectNamedPipe returns once somebody is there, also if it was there
\* before or, with an error, has left again.
AcceptClient ==
    /\ accPc = "connect" /\ pipe.peer # None
    /\ IF running /\ pipe.open
       THEN accPc' = "read" /\ UNCHANGED pipe
       ELSE accPc' = "loop" /\ pipe' = NoPipe
    /\ UNCHANGED <<service, clientVars, handled, missed>>

\* ReadFile, deserialize, the handler and WriteFile.  A request that is
\* larger than the buffer makes ReadFile fail; it is dropped like one that
\* does not parse, and one of a client that has left.
ServeRequest ==
    /\ accPc = "read" /\ (pipe.in # None \/ ~pipe.open)
    /\ LET parsed == Deserialize(pipe.in, AgentKey) IN
         IF pipe.in # None /\ pipe.in.size <= BufferSize /\ parsed.ok
         THEN /\ handled' = handled \cup {parsed.id}
              /\ pipe' = [pipe EXCEPT !.in = None, !.out = IF pipe.open THEN Handle(parsed.id) ELSE None]
         ELSE pipe' = [pipe EXCEPT !.in = None] /\ UNCHANGED handled
    /\ accPc' = "flush"
    /\ UNCHANGED <<service, clientVars, missed>>

\* Mutant: the pipe is disconnected without waiting for the client.
Unflushed == TRUE

\* Mutant: the agent waits for the client to close its end first.
ClientLeft == ~pipe.open

\* FlushFileBuffers waits until the client has read the answer or left.
Flushed == pipe.out = None \/ ~pipe.open

\* Disconnect and close: what has not been read is lost.
ClosePipe ==
    /\ accPc = "flush" /\ Flushed
    /\ pipe' = NoPipe /\ accPc' = "loop"
    /\ UNCHANGED <<service, clientVars, handled, missed>>

(***************************************************************************)
(* A client.                                                               *)
(***************************************************************************)
Connected(c) == pipe.exists /\ pipe.peer = c

Ends(c, how) == cliPc' = [cliPc EXCEPT ![c] = how]

\* WaitNamedPipe: an instance is free, or the time is up.
WaitForPipe(c) ==
    /\ cliPc[c] = "idle" /\ sent[c] < MaxRequests
    /\ \E m \in Requests :
         request' = [request EXCEPT ![c] =
           [id |-> <<c, sent[c]>>, payload |-> m.payload, version |-> m.version, key |-> m.key]]
    /\ sent' = [sent EXCEPT ![c] = @ + 1] /\ reply' = [reply EXCEPT ![c] = None]
    /\ \/ Free /\ Ends(c, "open")
       \/ Ends(c, "failed")
    /\ UNCHANGED <<service, accPc, pipe, handled, missed>>

\* CreateFile: another client may have taken the instance meanwhile.
OpenPipe(c) ==
    /\ cliPc[c] = "open"
    /\ \/ Free /\ pipe' = [pipe EXCEPT !.peer = c, !.open = TRUE] /\ Ends(c, "write")
       \/ ~Free /\ Ends(c, "failed") /\ UNCHANGED pipe
    /\ UNCHANGED <<service, accPc, request, reply, sent, handled, missed>>

WriteRequest(c) ==
    /\ cliPc[c] = "write"
    /\ \/ /\ Connected(c)
          /\ pipe' = [pipe EXCEPT !.in = Serialize(request[c], request[c].key)]
          /\ Ends(c, "read")
       \/ ~Connected(c) /\ Ends(c, "failed") /\ UNCHANGED pipe
    /\ UNCHANGED <<service, accPc, request, reply, sent, handled, missed>>

\* ReadFile waits without a limit, for an answer or for the pipe to break;
\* then the handle is closed and the answer deserialized.
ReadReply(c) ==
    /\ cliPc[c] = "read"
    /\ \/ /\ Connected(c) /\ pipe.out # None
          /\ pipe' = [pipe EXCEPT !.out = None, !.open = FALSE]
          /\ LET parsed == Deserialize(pipe.out, request[c].key) IN
               /\ reply' = [reply EXCEPT ![c] = parsed.id]
               /\ Ends(c, IF parsed.ok THEN "answered" ELSE "failed")
       \/ ~Connected(c) /\ Ends(c, "failed") /\ UNCHANGED <<pipe, reply>>
    /\ UNCHANGED <<service, accPc, request, sent, handled, missed>>

\* The caller takes the result.
Return(c) ==
    /\ cliPc[c] \in {"answered", "failed"}
    /\ Ends(c, "idle")
    /\ UNCHANGED <<service, accPc, pipe, request, reply, sent, handled, missed>>

\* The client process dies, and its end of the pipe is closed.
ClientDies(c) ==
    /\ cliPc[c] \in {"open", "write", "read"}
    /\ pipe' = IF Connected(c) THEN [pipe EXCEPT !.open = FALSE] ELSE pipe
    /\ Ends(c, "dead")
    /\ UNCHANGED <<service, accPc, request, reply, sent, handled, missed>>

Main     == StartServer \/ StopExchange \/ StopWakes \/ StopJoins
Acceptor == TestRunning \/ CreatePipe \/ AcceptClient \/ ServeRequest \/ ClosePipe
Client(c) == OpenPipe(c) \/ WriteRequest(c) \/ ReadReply(c)

AgentNext ==
    \/ Main \/ RequestShutdown \/ Acceptor
    \/ \E c \in Clients : Client(c) \/ WaitForPipe(c) \/ Return(c) \/ ClientDies(c)

\* Threads that can run do run; PipeClient writes once it is connected.
AgentFairness ==
    /\ WF_agentVars(Main) /\ WF_agentVars(Acceptor)
    /\ \A c \in Clients : WF_agentVars(Client(c))

AgentSpec == AgentInit /\ [][AgentNext]_agentVars /\ AgentFairness

(***************************************************************************)
(* Properties.                                                             *)
(***************************************************************************)
\* An answer that a client accepts is the answer to its own last request,
\* which the agent has handled; only requests made with the agent's key and
\* that fit its buffer are handled.
AnswersMatch ==
    /\ \A c \in Clients : cliPc[c] = "answered" =>
         reply[c] = request[c].id /\ request[c].id \in handled
    /\ \A c \in Clients : request[c] # None /\ request[c].id \in handled =>
         request[c].key = AgentKey /\ HeaderSize + request[c].payload <= BufferSize

\* A client that is told of a failure and has not died can repeat its
\* request: the agent has not handled it.  Disconnecting without flushing
\* would throw away the answer of a request that was carried out.
FailureMeansNotHandled ==
    \A c \in Clients : cliPc[c] = "failed" => request[c].id \notin handled

\* PipeServer::stop returns, whatever the acceptor and the clients were
\* doing, unless its one wake-up came between the acceptor's test of
\* running and its next instance: nobody wakes it from that one.
StopReturns == mainPc = "wake" ~> (mainPc = "done" \/ missed)

\* A request ends although neither side has a timeout once connected.
RequestsEnd == \A c \in Clients : cliPc[c] = "read" ~> cliPc[c] # "read"
=============================================================================
