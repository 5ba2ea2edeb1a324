---------------------------- MODULE AgentProofs ----------------------------
(***************************************************************************)
(* Proofs about the agent and its clients, for any number of clients and   *)
(* any requests: answers belong to requests, and a failure means that the  *)
(* request was not carried out.                                            *)
(***************************************************************************)
EXTENDS AgentPipe, TLAPS

Request == [id : Clients \X Nat, payload : Nat, version : Nat, key : Keys]
Pipe == [exists : BOOLEAN, peer : Clients \cup {None, "stop"}, open : BOOLEAN,
         in : Message \cup {None}, out : Message \cup {None}]

\* The types of what the two sides share and remember.
AgentTypeOK ==
    /\ accPc \in {"none", "loop", "create", "connect", "read", "flush", "ended"}
    /\ pipe \in Pipe
    /\ cliPc \in [Clients -> {"idle", "open", "write", "read", "answered", "failed", "dead"}]
    /\ request \in [Clients -> Request \cup {None}]
    /\ reply \in [Clients -> (Clients \X Nat) \cup {None}]
    /\ sent \in [Clients -> Nat]
    /\ handled \subseteq Clients \X Nat

\* Requests are numbered: that of a client is its latest, and nothing that
\* it has not yet sent has been handled.
Numbered ==
    /\ \A c \in Clients : IF sent[c] = 0 THEN request[c] = None /\ cliPc[c] = "idle"
                          ELSE request[c] \in Request /\ request[c].id = <<c, sent[c] - 1>>
    /\ \A h \in handled : h[2] < sent[h[1]]

\* The acceptor and the pipe instance: it exists between two steps of the
\* loop, and an answer only between the handler and the disconnection.
Instance ==
    /\ mainPc = "start" => accPc = "none"
    /\ accPc \in {"none", "loop", "create", "ended"} => pipe = NoPipe
    /\ accPc \in {"connect", "read", "flush"} => pipe.exists
    /\ accPc \in {"read", "flush"} => pipe.peer \in Clients
    /\ pipe.peer \notin Clients => ~pipe.open /\ pipe.in = None
    /\ pipe.out # None => accPc = "flush" /\ pipe.in = None

\* Who is at the other end, and what it wrote or is to read.
Peer ==
    \A c \in Clients : pipe.peer = c =>
      /\ pipe.open <=> cliPc[c] \in {"write", "read"}
      /\ pipe.in # None => /\ cliPc[c] \in {"read", "dead"}
                           /\ pipe.in = Serialize(request[c], request[c].key)
      /\ pipe.out # None => /\ cliPc[c] \in {"read", "dead"}
                            /\ pipe.out = Handle(request[c].id)
                            /\ request[c].id \in handled

\* A request that was handled was the agent's to handle, and its client has
\* the answer, is about to read it, has gone on, or is dead.
Accounted ==
    \A c \in Clients : sent[c] > 0 /\ request[c].id \in handled =>
      /\ request[c].key = AgentKey /\ HeaderSize + request[c].payload <= BufferSize
      /\ \/ cliPc[c] \in {"idle", "answered", "dead"}
         \/ cliPc[c] = "read" /\ pipe.peer = c /\ pipe.out # None

Answered ==
    \A c \in Clients : cliPc[c] = "answered" => reply[c] = request[c].id /\ request[c].id \in handled

IInv == AgentTypeOK /\ Numbered /\ Instance /\ Peer /\ Accounted /\ Answered
-----------------------------------------------------------------------------
(* Messages                                                                *)

\* The fields of a message that the client writes, and of an answer; neither
\* is mistaken for an empty pipe.
LEMMA MessageFacts ==
    ASSUME NEW r \in Request
    PROVE  /\ Serialize(r, r.key) \in Message /\ Serialize(r, r.key) # None
           /\ Serialize(r, r.key).id = r.id
           /\ Handle(r.id) \in Message /\ Handle(r.id) # None
<1>1. Serialize(r, r.key) \in Message
  BY SizesAssumption DEF Request, Message, Serialize
<1>2. Handle(r.id) \in Message
  BY SizesAssumption DEF Request, Message, Handle, Serialize, Keys
<1> QED  BY <1>1, <1>2, NoneAssumption DEF Serialize

\* deserialize accepts a request if it has the agent's key and version 1.
LEMMA ParsedRequest ==
    ASSUME NEW r \in Request, Deserialize(Serialize(r, r.key), AgentKey).ok
    PROVE  /\ r.key = AgentKey
           /\ Serialize(r, r.key).size = HeaderSize + r.payload
           /\ Deserialize(Serialize(r, r.key), AgentKey).id = r.id
BY SizesAssumption DEF Request, Deserialize, Serialize

\* A client with the agent's key accepts the agent's answer.
LEMMA ParsedAnswer ==
    ASSUME NEW r \in Request, r.key = AgentKey
    PROVE  /\ Deserialize(Handle(r.id), r.key).ok
           /\ Deserialize(Handle(r.id), r.key).id = r.id
BY SizesAssumption DEF Request, Deserialize, Serialize, Handle

\* Whatever was read, the result of deserialize names a request or none.
LEMMA ParsedType ==
    ASSUME NEW b \in Message, NEW key
    PROVE  /\ Deserialize(b, key).ok \in BOOLEAN
           /\ Deserialize(b, key).id \in (Clients \X Nat) \cup {None}
           /\ Deserialize(b, key).ok => Deserialize(b, key).id = b.id
BY DEF Message, Deserialize
-----------------------------------------------------------------------------
(* The inductive invariant                                                 *)

\* No instance, and one that nobody has connected to yet.
LEMMA PipeFacts == NoPipe \in Pipe /\ FreePipe \in Pipe
BY DEF NoPipe, FreePipe, Pipe

\* The pipe and both processes start with nothing sent.
LEMMA InitInv == AgentInit => IInv
BY NoneAssumption DEF AgentInit, IInv, AgentTypeOK, Numbered, Instance, Peer, Accounted, Answered, NoPipe, Pipe

\* Every step of the agent's threads and of its clients keeps the invariant.
LEMMA StepInv == IInv /\ [AgentNext]_agentVars => IInv'
<1> SUFFICES ASSUME IInv, [AgentNext]_agentVars PROVE IInv'
  OBVIOUS
<1> USE DEF service, clientVars
<1>1. CASE StartServer
  BY <1>1 DEF StartServer, IInv, AgentTypeOK, Numbered, Instance, Peer, Accounted, Answered
<1>2. CASE RequestShutdown
  BY <1>2 DEF RequestShutdown, IInv, AgentTypeOK, Numbered, Instance, Peer, Accounted, Answered
<1>3. CASE StopExchange
  BY <1>3 DEF StopExchange, IInv, AgentTypeOK, Numbered, Instance, Peer, Accounted, Answered
<1>4. CASE StopWakes
  <2>0. /\ pipe' \in Pipe /\ pipe'.exists = pipe.exists /\ pipe'.open = pipe.open
        /\ pipe'.in = pipe.in /\ pipe'.out = pipe.out
        /\ IF Free THEN pipe'.peer = "stop" ELSE pipe' = pipe
    BY <1>4 DEF StopWakes, DummyConnects, Pipe, IInv, AgentTypeOK
  <2>1. AgentTypeOK'
    BY <1>4, <2>0 DEF StopWakes, IInv, AgentTypeOK
  <2>2. Numbered'
    BY <1>4, <2>0 DEF StopWakes, IInv, Numbered
  <2>3. Instance'
    <3>1. CASE Free
      BY <1>4, <2>0, <3>1, NoneAssumption DEF StopWakes, Free, IInv, Instance, NoPipe
    <3>2. CASE ~Free
      BY <1>4, <2>0, <3>2 DEF StopWakes, IInv, Instance
    <3> QED  BY <3>1, <3>2
  <2>4. Peer'
    BY <1>4, NoneAssumption, <2>0 DEF StopWakes, DummyConnects, Free, IInv, AgentTypeOK, Instance, Peer
  <2>5. Accounted'
    BY <1>4, NoneAssumption, <2>0 DEF StopWakes, DummyConnects, Free, IInv, AgentTypeOK, Instance, Peer, Accounted
  <2>6. Answered'
    BY <1>4, <2>0 DEF StopWakes, IInv, Answered
  <2> QED  BY <2>1, <2>2, <2>3, <2>4, <2>5, <2>6 DEF IInv
<1>5. CASE StopJoins
  BY <1>5 DEF StopJoins, IInv, AgentTypeOK, Numbered, Instance, Peer, Accounted, Answered
<1>6. CASE TestRunning
  BY <1>6 DEF TestRunning, IInv, AgentTypeOK, Numbered, Instance, Peer, Accounted, Answered
<1>7. CASE CreatePipe
  <2>1. AgentTypeOK'
    BY <1>7, PipeFacts DEF CreatePipe, IInv, AgentTypeOK
  <2>2. Numbered'
    BY <1>7, PipeFacts DEF CreatePipe, IInv, Numbered
  <2>3. Instance'
    BY <1>7, NoneAssumption, PipeFacts DEF CreatePipe, FreePipe, IInv, AgentTypeOK, Instance, Peer, Accounted, NoPipe
  <2>4. Peer'
    BY <1>7, NoneAssumption, PipeFacts DEF CreatePipe, FreePipe, IInv, AgentTypeOK, Instance, Peer, Accounted, NoPipe
  <2>5. Accounted'
    BY <1>7, PipeFacts DEF CreatePipe, FreePipe, IInv, AgentTypeOK, Numbered, Instance, Accounted
  <2>6. Answered'
    BY <1>7, PipeFacts DEF CreatePipe, IInv, Answered
  <2> QED  BY <2>1, <2>2, <2>3, <2>4, <2>5, <2>6 DEF IInv
<1>8. CASE AcceptClient
  <2>1. AgentTypeOK'
    BY <1>8, PipeFacts DEF AcceptClient, IInv, AgentTypeOK
  <2>2. Numbered'
    BY <1>8, PipeFacts DEF AcceptClient, IInv, Numbered
  <2>3. Instance'
    BY <1>8, NoneAssumption, PipeFacts DEF AcceptClient, IInv, AgentTypeOK, Instance, Peer, Accounted, NoPipe
  <2>4. Peer'
    BY <1>8, NoneAssumption, PipeFacts DEF AcceptClient, IInv, AgentTypeOK, Instance, Peer, Accounted, NoPipe
  <2>5. Accounted'
    BY <1>8, PipeFacts DEF AcceptClient, IInv, AgentTypeOK, Numbered, Instance, Accounted
  <2>6. Answered'
    BY <1>8, PipeFacts DEF AcceptClient, IInv, Answered
  <2> QED  BY <2>1, <2>2, <2>3, <2>4, <2>5, <2>6 DEF IInv
<1>9. CASE ServeRequest
  <2> DEFINE c == pipe.peer
             parsed == Deserialize(pipe.in, AgentKey)
             served == pipe.in # None /\ pipe.in.size <= BufferSize /\ parsed.ok
  <2>a. c \in Clients /\ pipe.exists /\ pipe.out = None /\ accPc' = "flush"
    BY <1>9 DEF ServeRequest, IInv, Instance
  <2>b. pipe.in # None =>
          /\ request[c] \in Request /\ sent[c] > 0 /\ cliPc[c] \in {"read", "dead"}
          /\ pipe.in = Serialize(request[c], request[c].key)
    BY <2>a, <1>9 DEF ServeRequest, IInv, Numbered, Peer, AgentTypeOK
  <2>c. served => /\ parsed.id = request[c].id /\ request[c].key = AgentKey
                  /\ HeaderSize + request[c].payload <= BufferSize
    BY <2>b, ParsedRequest
  <2>d. IF served
        THEN /\ handled' = handled \cup {request[c].id}
             /\ pipe' = [pipe EXCEPT !.in = None, !.out = IF pipe.open THEN Handle(request[c].id) ELSE None]
        ELSE pipe' = [pipe EXCEPT !.in = None] /\ handled' = handled
    BY <1>9, <2>c DEF ServeRequest
  <2> HIDE DEF parsed, served
  <2>0. /\ pipe' \in Pipe /\ pipe'.exists /\ pipe'.peer = c /\ pipe'.open = pipe.open /\ pipe'.in = None
        /\ pipe'.out = IF served /\ pipe.open THEN Handle(request[c].id) ELSE None
        /\ handled' = IF served THEN handled \cup {request[c].id} ELSE handled
        /\ served => pipe.in # None /\ Handle(request[c].id) \in Message /\ Handle(request[c].id) # None
        /\ UNCHANGED <<cliPc, request, reply, sent, mainPc>>
    <3>1. served => pipe.in # None /\ Handle(request[c].id) \in Message /\ Handle(request[c].id) # None
      BY <2>b, MessageFacts DEF served
    <3>2. UNCHANGED <<cliPc, request, reply, sent, mainPc>>
      BY <1>9 DEF ServeRequest
    <3>3. pipe \in Pipe
      BY DEF IInv, AgentTypeOK
    <3>4. CASE served
      BY <2>a, <2>d, <3>1, <3>2, <3>3, <3>4 DEF Pipe
    <3>5. CASE ~served
      BY <2>a, <2>d, <3>2, <3>3, <3>5 DEF Pipe
    <3> QED  BY <3>1, <3>2, <3>4, <3>5
  <2>1. AgentTypeOK'
    BY NoneAssumption, <2>a, <2>b, <2>c, <2>0 DEF IInv, AgentTypeOK, Numbered, Instance, Peer, Accounted, Answered, Pipe, NoPipe, Request
  <2>2. Numbered'
    BY <2>a, <2>b, <2>c, <2>0 DEF IInv, AgentTypeOK, Numbered
  <2>3. Instance'
    BY NoneAssumption, <2>a, <2>b, <2>c, <2>0 DEF IInv, AgentTypeOK, Instance, Peer, Accounted, NoPipe
  <2>4. Peer'
    BY <2>a, <2>b, <2>c, <2>0 DEF IInv, Peer
  <2>5. Accounted'
    BY NoneAssumption, <2>a, <2>b, <2>c, <2>0 DEF IInv, AgentTypeOK, Numbered, Instance, Peer, Accounted, NoPipe
  <2>6. Answered'
    BY <2>a, <2>b, <2>c, <2>0 DEF IInv, Answered
  <2> QED  BY <2>1, <2>2, <2>3, <2>4, <2>5, <2>6 DEF IInv
<1>10. CASE ClosePipe
  <2>1. AgentTypeOK'
    BY <1>10, PipeFacts DEF ClosePipe, IInv, AgentTypeOK
  <2>2. Numbered'
    BY <1>10, PipeFacts DEF ClosePipe, IInv, Numbered
  <2>3. Instance'
    BY <1>10, NoneAssumption, PipeFacts DEF ClosePipe, Flushed, IInv, AgentTypeOK, Instance, Peer, Accounted, NoPipe
  <2>4. Peer'
    BY <1>10, NoneAssumption, PipeFacts DEF ClosePipe, Flushed, IInv, AgentTypeOK, Instance, Peer, Accounted, NoPipe
  <2>5. Accounted'
    BY <1>10, NoneAssumption, PipeFacts DEF ClosePipe, Flushed, IInv, AgentTypeOK, Instance, Peer, Accounted
  <2>6. Answered'
    BY <1>10, PipeFacts DEF ClosePipe, IInv, Answered
  <2> QED  BY <2>1, <2>2, <2>3, <2>4, <2>5, <2>6 DEF IInv
<1>11. ASSUME NEW c \in Clients, OpenPipe(c) PROVE IInv'
  <2>0. /\ pipe' \in Pipe /\ pipe'.exists = pipe.exists
        /\ pipe'.in = pipe.in /\ pipe'.out = pipe.out
        /\ IF Free THEN pipe'.peer = c /\ pipe'.open = TRUE ELSE pipe' = pipe
    BY <1>11 DEF OpenPipe, Pipe, IInv, AgentTypeOK
  <2>1. AgentTypeOK'
    BY <1>11, <2>0 DEF OpenPipe, Free, Ends, IInv, AgentTypeOK
  <2>2. Numbered'
    BY <1>11, <2>0 DEF OpenPipe, Free, Ends, IInv, AgentTypeOK, Numbered
  <2>3. Instance'
    BY <1>11, NoneAssumption, <2>0 DEF OpenPipe, Free, Ends, IInv, AgentTypeOK, Instance, Peer, Accounted, NoPipe
  <2>4. Peer'
    BY <1>11, NoneAssumption, <2>0 DEF OpenPipe, Free, Ends, IInv, AgentTypeOK, Instance, Peer
  <2>5. Accounted'
    BY <1>11, NoneAssumption, <2>0 DEF OpenPipe, Free, Ends, IInv, AgentTypeOK, Instance, Peer, Accounted
  <2>6. Answered'
    BY <1>11, <2>0 DEF OpenPipe, Free, Ends, IInv, AgentTypeOK, Answered
  <2> QED  BY <2>1, <2>2, <2>3, <2>4, <2>5, <2>6 DEF IInv
<1>12. ASSUME NEW c \in Clients, WriteRequest(c) PROVE IInv'
  <2>0. /\ pipe' \in Pipe /\ pipe'.exists = pipe.exists /\ pipe'.peer = pipe.peer
        /\ pipe'.open = pipe.open /\ pipe'.out = pipe.out
        /\ pipe'.in = IF Connected(c) THEN Serialize(request[c], request[c].key) ELSE pipe.in
        /\ request[c] \in Request
    <3>1. request[c] \in Request
      BY <1>12 DEF WriteRequest, IInv, Numbered
    <3> QED  BY <1>12, <3>1, MessageFacts DEF WriteRequest, Pipe, IInv, AgentTypeOK
  <2>1. AgentTypeOK'
    BY <1>12, MessageFacts, <2>0 DEF WriteRequest, Connected, Ends, IInv, AgentTypeOK
  <2>2. Numbered'
    BY <1>12, MessageFacts, <2>0 DEF WriteRequest, Connected, Ends, IInv, AgentTypeOK, Numbered
  <2>3. Instance'
    BY <1>12, NoneAssumption, MessageFacts, <2>0 DEF WriteRequest, Connected, Ends, IInv, AgentTypeOK, Instance, Peer, Accounted, NoPipe
  <2>4. Peer'
    BY <1>12, NoneAssumption, MessageFacts, <2>0 DEF WriteRequest, Connected, Ends, IInv, AgentTypeOK, Instance, Peer, Accounted, NoPipe
  <2>5. Accounted'
    BY <1>12, MessageFacts, <2>0 DEF WriteRequest, Connected, Ends, IInv, AgentTypeOK, Accounted
  <2>6. Answered'
    BY <1>12, MessageFacts, <2>0 DEF WriteRequest, Connected, Ends, IInv, AgentTypeOK, Answered
  <2> QED  BY <2>1, <2>2, <2>3, <2>4, <2>5, <2>6 DEF IInv
<1>13. ASSUME NEW c \in Clients, ReadReply(c) PROVE IInv'
  <2>0. /\ pipe' \in Pipe /\ pipe'.exists = pipe.exists /\ pipe'.peer = pipe.peer /\ pipe'.in = pipe.in
        /\ IF Connected(c) THEN pipe'.out = None /\ ~pipe'.open ELSE pipe' = pipe
        /\ request[c] \in Request
    BY <1>13 DEF ReadReply, Pipe, IInv, AgentTypeOK, Numbered
  <2>1. AgentTypeOK'
    BY <1>13, NoneAssumption, MessageFacts, ParsedAnswer, ParsedType, <2>0 DEF ReadReply, Connected, Ends, IInv, AgentTypeOK, Instance, Peer
  <2>2. Numbered'
    BY <1>13, MessageFacts, ParsedAnswer, ParsedType, <2>0 DEF ReadReply, Connected, Ends, IInv, AgentTypeOK, Numbered
  <2>3. Instance'
    BY <1>13, MessageFacts, ParsedAnswer, ParsedType, <2>0 DEF ReadReply, IInv, Instance
  <2>4. Peer'
    BY <1>13, NoneAssumption, MessageFacts, ParsedAnswer, ParsedType, <2>0 DEF ReadReply, Connected, Ends, IInv, AgentTypeOK, Instance, Peer, Accounted, NoPipe
  <2>5. Accounted'
    BY <1>13, NoneAssumption, MessageFacts, ParsedAnswer, ParsedType, <2>0 DEF ReadReply, Connected, Ends, IInv, AgentTypeOK, Instance, Peer, Accounted
  <2>6. Answered'
    BY <1>13, NoneAssumption, MessageFacts, ParsedAnswer, ParsedType, <2>0 DEF ReadReply, Connected, Ends, IInv, AgentTypeOK, Numbered, Instance, Peer, Accounted, Answered, NoPipe
  <2> QED  BY <2>1, <2>2, <2>3, <2>4, <2>5, <2>6 DEF IInv
<1>14. ASSUME NEW c \in Clients, WaitForPipe(c) PROVE IInv'
  <2>0. PICK m \in Requests : request' = [request EXCEPT ![c] =
           [id |-> <<c, sent[c]>>, payload |-> m.payload, version |-> m.version, key |-> m.key]]
    BY <1>14 DEF WaitForPipe
  <2>r. /\ request'[c] \in Request /\ request'[c].id = <<c, sent[c]>>
        /\ \A d \in Clients \ {c} : request'[d] = request[d]
    BY <2>0, RequestsAssumption DEF Request, Keys, IInv, AgentTypeOK
  <2>1. AgentTypeOK'
    BY <1>14, <2>r DEF WaitForPipe, Free, Ends, IInv, AgentTypeOK
  <2>2. Numbered'
    BY <1>14, <2>r DEF WaitForPipe, Free, Ends, IInv, AgentTypeOK, Numbered
  <2>3. Instance'
    BY <1>14, <2>r DEF WaitForPipe, IInv, Instance
  <2>4. Peer'
    BY <1>14, <2>r DEF WaitForPipe, Free, Ends, IInv, AgentTypeOK, Peer
  <2>5. Accounted'
    BY <1>14, <2>r DEF WaitForPipe, Free, Ends, IInv, AgentTypeOK, Numbered, Instance, Accounted
  <2>6. Answered'
    BY <1>14, <2>r DEF WaitForPipe, Free, Ends, IInv, AgentTypeOK, Answered
  <2> QED  BY <2>1, <2>2, <2>3, <2>4, <2>5, <2>6 DEF IInv
<1>15. ASSUME NEW c \in Clients, Return(c) PROVE IInv'
  <2>1. AgentTypeOK'
    BY <1>15 DEF Return, Ends, IInv, AgentTypeOK
  <2>2. Numbered'
    BY <1>15 DEF Return, Ends, IInv, AgentTypeOK, Numbered
  <2>3. Instance'
    BY <1>15 DEF Return, IInv, Instance
  <2>4. Peer'
    BY <1>15 DEF Return, Ends, IInv, AgentTypeOK, Peer
  <2>5. Accounted'
    BY <1>15 DEF Return, Ends, IInv, AgentTypeOK, Accounted
  <2>6. Answered'
    BY <1>15 DEF Return, Ends, IInv, AgentTypeOK, Answered
  <2> QED  BY <2>1, <2>2, <2>3, <2>4, <2>5, <2>6 DEF IInv
<1>16. ASSUME NEW c \in Clients, ClientDies(c) PROVE IInv'
  <2>0. /\ pipe' \in Pipe /\ pipe'.exists = pipe.exists /\ pipe'.peer = pipe.peer
        /\ pipe'.in = pipe.in /\ pipe'.out = pipe.out
        /\ IF Connected(c) THEN ~pipe'.open ELSE pipe' = pipe
    BY <1>16 DEF ClientDies, Pipe, IInv, AgentTypeOK
  <2>1. AgentTypeOK'
    BY <1>16, <2>0 DEF ClientDies, Connected, Ends, IInv, AgentTypeOK
  <2>2. Numbered'
    BY <1>16, <2>0 DEF ClientDies, Connected, Ends, IInv, AgentTypeOK, Numbered
  <2>3. Instance'
    <3>1. CASE Connected(c)
      BY <1>16, <2>0, <3>1 DEF ClientDies, Connected, IInv, Instance, NoPipe
    <3>2. CASE ~Connected(c)
      BY <1>16, <2>0, <3>2 DEF ClientDies, IInv, Instance
    <3> QED  BY <3>1, <3>2
  <2>4. Peer'
    BY <1>16, NoneAssumption, <2>0 DEF ClientDies, Connected, Ends, IInv, AgentTypeOK, Instance, Peer, Accounted, NoPipe
  <2>5. Accounted'
    BY <1>16, <2>0 DEF ClientDies, Connected, Ends, IInv, AgentTypeOK, Accounted
  <2>6. Answered'
    BY <1>16, <2>0 DEF ClientDies, Connected, Ends, IInv, AgentTypeOK, Answered
  <2> QED  BY <2>1, <2>2, <2>3, <2>4, <2>5, <2>6 DEF IInv
<1>17. CASE UNCHANGED agentVars
  BY <1>17 DEF agentVars, IInv, AgentTypeOK, Numbered, Instance, Peer, Accounted, Answered
<1> QED
  BY <1>1, <1>2, <1>3, <1>4, <1>5, <1>6, <1>7, <1>8, <1>9, <1>10, <1>11, <1>12, <1>13, <1>14, <1>15, <1>16, <1>17 DEF AgentNext, Main, Acceptor, Client

\* The invariant holds in every state of the agent and its clients.
LEMMA AgentInvariant == AgentSpec => []IInv
BY InitInv, StepInv, PTL DEF AgentSpec

\* PipeClient::request returns the answer to its own request, and the agent
\* handles what has its key and fits its buffer only.
THEOREM AnswersBelong == AgentSpec => []AnswersMatch
<1>1. IInv => AnswersMatch
  BY DEF IInv, AgentTypeOK, Numbered, Accounted, Answered, AnswersMatch
<1> QED  BY <1>1, AgentInvariant, PTL

\* What PipeClient::request reports as failed was not carried out, so that it
\* can be repeated.
THEOREM FailuresAreClean == AgentSpec => []FailureMeansNotHandled
<1>1. IInv => FailureMeansNotHandled
  BY DEF IInv, AgentTypeOK, Numbered, Accounted, FailureMeansNotHandled
<1> QED  BY <1>1, AgentInvariant, PTL
=============================================================================
