-------------------------------- MODULE Messaging --------------------------------
(***************************************************************************)
(* Messages between agents of one process and of several: the start-up of  *)
(* a process, Context::operator+ of a message, the registry and the        *)
(* accepted messages, and the TCP protocol with its server thread          *)
(* (lib/democle: messaging.cpp, democle.cpp, agent.cpp, tcp_protocol.cpp). *)
(*                                                                         *)
(* Threads: the main thread of each process, which is client code and runs *)
(* the steps Main[p]; the TCP thread of a process that registers "tcp";    *)
(* the engine thread of each agent.  An exception that leaves any of them  *)
(* ends the process.  The main thread may also return, which ends the      *)
(* process with whatever its other threads were doing.                     *)
(*                                                                         *)
(* A queue is the FIFO channel of EventChannel, a knowledge base the       *)
(* duplicate-free set of BeliefBase.  A packet fits one segment.           *)
(***************************************************************************)
EXTENDS Subsequences, SequencesExt

CONSTANTS
  Processes,  \* operating-system processes, one host and port each
  Agents,     \* names of agents
  Home,       \* Home[a] is the process of agent a
  Main,       \* Main[p]: the steps of main, records [op, agent]
  Accepts,    \* Accepts[a]: the templates listed in accepts(...)
  Beliefs,    \* messages that are beliefs; the others are reactors
  Routes,     \* what bodies send: on event `on`, agent sends `msg` to `to`
  Calls,      \* what bodies call: on event `on`, agent calls `procedure`
  MayEnd,     \* processes whose main may return
  Here,       \* the process part of a destination that is a plain name
  ToSender,   \* the destination c.sender()
  Nobody,     \* the agent with the empty name
  Backlog,    \* the backlog given to listen()
  MaxSends    \* bound: messages sent

ASSUME HomeAssumption ==
  /\ Home \in [Agents -> Processes]
  /\ Here \notin Processes
  /\ Nobody \notin Agents

\* main creates, starts and posts to agents of its process, and registers the protocol
\* at most once.
ASSUME MainAssumption ==
  \A p \in Processes :
    /\ Main[p] \in Seq(ToSet(Main[p]))
    /\ \A i, j \in DOMAIN Main[p] :
         Main[p][i].op = "protocol" /\ Main[p][j].op = "protocol" => i = j
    /\ \A step \in ToSet(Main[p]) :
         step.op = "protocol" \/ (step.agent \in Agents /\ Home[step.agent] = p)

ASSUME AcceptAssumption == \A a \in Agents : Accepts[a] \in Seq(ToSet(Accepts[a]))

ASSUME BoundAssumption == Backlog \in Nat \ {0} /\ MaxSends \in Nat

VARIABLES
  status,    \* "up", "returned" or "terminated"
  main,      \* the next step of main
  registry,  \* DEMOCLE::registry, the agents constructed in the process
  accepted,  \* Agent::accepted_messages
  started,   \* agents whose engine thread runs
  inbox,     \* the event queue of each agent
  kb,        \* beliefs received by each agent
  engine,    \* the engine thread of each agent
  server,    \* the TCP thread of each process
  conns,     \* connections established and not yet closed by the server, in order
  sends      \* history: the messages sent, and what became of them

vars == <<status, main, registry, accepted, started, inbox, kb, engine, server,
          conns, sends>>

\* An address is a plain name, [process |-> Here, agent |-> a], or the URL of an
\* agent of some process.
Address == [process : Processes \cup {Here}, agent : Agents \cup {Nobody}]

ASSUME RouteAssumption == \A r \in Routes : r.to \in Address \cup {ToSender}

\* The sender of an event that is no message: the empty string.
NoSender == [process |-> Here, agent |-> Nobody]

\* Who an address means in process p.
Resolve(address, p) ==
  IF address.process = Here THEN [address EXCEPT !.process = p] ELSE address

Up(p) == status[p] = "up"

Idle == [pc |-> "idle", evts |-> <<>>, id |-> 0]

Init ==
  /\ status = [p \in Processes |-> "up"]
  /\ main = [p \in Processes |-> 1]
  /\ registry = [p \in Processes |-> {}]
  /\ accepted = [a \in Agents |-> {}]
  /\ started = {}
  /\ inbox = [a \in Agents |-> <<>>]
  /\ kb = [a \in Agents |-> {}]
  /\ engine = [a \in Agents |-> Idle]
  /\ server = [p \in Processes |-> [pc |-> "off", conn |-> 0, last |-> 0]]
  /\ conns = <<>>
  /\ sends = <<>>

agentVars == <<registry, accepted, started, inbox, kb>>

(***************************************************************************)
(* The end of a process closes its sockets: a peer that reads from one on  *)
(* which nothing was sent gets end-of-file, and connections to it vanish.  *)
(***************************************************************************)
Stop(p, how) ==
  /\ status' = [status EXCEPT ![p] = how]
  /\ LET left == ElementsAt(conns, {i \in DOMAIN conns : conns[i].to # p}) IN
       conns' = [i \in DOMAIN left |->
                   IF Home[sends[left[i].id].from] = p /\ left[i].data = "none"
                   THEN [left[i] EXCEPT !.data = "eof"] ELSE left[i]]

MainReturns(p) ==
  /\ p \in MayEnd
  /\ Up(p)
  /\ main[p] > Len(Main[p])
  /\ Stop(p, "returned")
  /\ UNCHANGED <<main, agentVars, engine, server, sends>>

(***************************************************************************)
(* The main thread.                                                        *)
(***************************************************************************)
MainStep(p, op) ==
  /\ Up(p)
  /\ main[p] \in DOMAIN Main[p]
  /\ Main[p][main[p]].op = op
  /\ main' = [main EXCEPT ![p] = @ + 1]
  /\ UNCHANGED <<status, kb, engine, conns, sends>>

Subject(p) == Main[p][main[p]].agent

\* register_protocol("tcp", ...): the protocol is registered and its thread created.
RegisterProtocol(p) ==
  /\ MainStep(p, "protocol")
  /\ server' = [server EXCEPT ![p].pc = "bind"]
  /\ UNCHANGED agentVars

\* Fault: the constructor does not register the agent.
CreateUnregistered(p) ==
  /\ MainStep(p, "create")
  /\ UNCHANGED <<agentVars, server>>

\* The constructor registers the agent.
Create(p) ==
  /\ MainStep(p, "create")
  /\ registry' = [registry EXCEPT ![p] = @ \cup {Subject(p)}]
  /\ UNCHANGED <<accepted, started, inbox, kb, server>>

\* Fault: the "/" is searched from the end of the string, so that the name goes wrong
\* if there are several templates.
AcceptFromEnd(a) ==
  accepted' = IF Len(Accepts[a]) = 1 THEN [accepted EXCEPT ![a] = @ \cup {Head(Accepts[a])}]
              ELSE accepted

\* accepts(...) makes one string of its arguments, of which accept_messages takes
\* the name before the first "/" and the number after it: the first template.
AcceptMessages(a) ==
  accepted' = [accepted EXCEPT ![a] = @ \cup {Head(Accepts[a])}]

\* Agent::start: run(), which calls accepts, and the engine thread.
Start(p) ==
  /\ MainStep(p, "start")
  /\ IF Accepts[Subject(p)] = <<>> THEN UNCHANGED accepted
                                   ELSE AcceptMessages(Subject(p))
  /\ started' = started \cup {Subject(p)}
  /\ UNCHANGED <<registry, inbox, kb, server>>

\* main posts an event of its own, which has no sender.
Post(p) ==
  /\ MainStep(p, "post")
  /\ inbox' = [inbox EXCEPT ![Subject(p)] =
                 Append(@, [msg |-> Main[p][main[p]].msg, id |-> 0, sender |-> NoSender])]
  /\ UNCHANGED <<registry, accepted, started, kb, server>>

(***************************************************************************)
(* DEMOCLE::put_message_in_queue in process p, by its TCP thread or by the *)
(* engine of the sender.  It throws unless the agent is found and accepts  *)
(* the message.  Agent::operator+ pushes an event for a reactor, and for a *)
(* belief only if the agent does not hold it yet.                          *)
(***************************************************************************)
Deliverable(p, msg, to) == to \in registry[p] /\ msg \in accepted[to]

Arrived(id) == [sends EXCEPT ![id].arrived = @ + 1]

\* Fault: the event is put before those that wait.
PutFirst(id, msg, to, sender) ==
  /\ IF msg \in kb[to]
     THEN UNCHANGED inbox
     ELSE inbox' = [inbox EXCEPT ![to] =
                      <<[msg |-> msg, id |-> id, sender |-> sender]>> \o @]
  /\ kb' = [kb EXCEPT ![to] = @ \cup ({msg} \cap Beliefs)]
  /\ UNCHANGED <<registry, accepted, started>>

\* Fault: reactors go through the knowledge base, too.
PutAsserted(id, msg, to, sender) ==
  /\ IF msg \in kb[to]
     THEN UNCHANGED inbox
     ELSE inbox' = [inbox EXCEPT ![to] =
                      Append(@, [msg |-> msg, id |-> id, sender |-> sender])]
  /\ kb' = [kb EXCEPT ![to] = @ \cup {msg}]
  /\ UNCHANGED <<registry, accepted, started>>

PutMessage(id, msg, to, sender) ==
  /\ IF msg \in kb[to]
     THEN UNCHANGED inbox
     ELSE inbox' = [inbox EXCEPT ![to] =
                      Append(@, [msg |-> msg, id |-> id, sender |-> sender])]
  /\ kb' = [kb EXCEPT ![to] = @ \cup ({msg} \cap Beliefs)]
  /\ UNCHANGED <<registry, accepted, started>>

(***************************************************************************)
(* The engine of agent a: Engine::run and the bodies.                      *)
(***************************************************************************)
EngineAt(a, pc) == a \in started /\ Up(Home[a]) /\ engine[a].pc = pc

TakeEvent(a) ==
  /\ EngineAt(a, "idle")
  /\ inbox[a] # <<>>
  /\ engine' = [engine EXCEPT ![a] = [@ EXCEPT !.pc = "body", !.evts = <<Head(inbox[a])>>]]
  /\ inbox' = [inbox EXCEPT ![a] = Tail(@)]
  /\ UNCHANGED <<status, main, registry, accepted, started, kb, server, conns, sends>>

\* The event whose body runs; c.sender() is its sender.
evt(a) == Last(engine[a].evts)

\* Context::operator<<: a new event, without a sender, is executed inside the body.
CallProcedure(a) ==
  /\ EngineAt(a, "body")
  /\ \E call \in Calls :
       /\ call.agent = a /\ call.on = evt(a).msg
       /\ engine' = [engine EXCEPT ![a].evts =
                       Append(@, [msg |-> call.procedure, id |-> 0, sender |-> NoSender])]
  /\ UNCHANGED <<status, main, agentVars, server, conns, sends>>

\* Fault: the sender is a variable of the engine, and a procedure leaves it empty.
BodyReturnsSender(a) ==
  /\ EngineAt(a, "body")
  /\ engine' = [engine EXCEPT ![a] =
                  IF Len(@.evts) = 1 THEN Idle
                  ELSE [@ EXCEPT !.evts = <<[Head(@) EXCEPT !.sender = NoSender]>>]]
  /\ UNCHANGED <<status, main, agentVars, server, conns, sends>>

\* To the body that called it, or to Engine::run.
BodyReturns(a) ==
  /\ EngineAt(a, "body")
  /\ engine' = [engine EXCEPT ![a] =
                  IF Len(@.evts) = 1 THEN Idle
                  ELSE [@ EXCEPT !.evts = Front(engine[a].evts)]]
  /\ UNCHANGED <<status, main, agentVars, server, conns, sends>>

\* c + (destination, message): the body picks one of its routes.
Destination(a, r) == IF r.to = ToSender THEN evt(a).sender ELSE r.to

Sending(a, r) ==
  /\ EngineAt(a, "body")
  /\ Len(sends) < MaxSends
  /\ r.agent = a /\ r.on = evt(a).msg
  /\ UNCHANGED <<main, server>>

Message(a, r) ==
  [from |-> a, to |-> Destination(a, r), msg |-> r.msg, arrived |-> 0, lost |-> FALSE]

\* The destination is not a URL.
SendLocal(a) ==
  \E r \in Routes :
    LET m  == Message(a, r)
        id == Len(sends) + 1
    IN  /\ Sending(a, r)
        /\ m.to.process = Here
        /\ UNCHANGED engine
        /\ IF Deliverable(Home[a], m.msg, m.to.agent)
           THEN /\ PutMessage(id, m.msg, m.to.agent, [process |-> Here, agent |-> a])
                /\ sends' = Append(sends, [m EXCEPT !.arrived = 1])
                /\ UNCHANGED <<status, conns>>
           ELSE /\ Stop(Home[a], "terminated")
                /\ sends' = Append(sends, [m EXCEPT !.lost = TRUE])
                /\ UNCHANGED agentVars

\* The destination is a URL: without the protocol, send_message throws.
SendRemote(a) ==
  \E r \in Routes :
    LET m == Message(a, r) IN
      /\ Sending(a, r)
      /\ m.to.process # Here
      /\ UNCHANGED agentVars
      /\ IF server[Home[a]].pc # "off"
         THEN /\ engine' = [engine EXCEPT ![a].pc = "connect", ![a].id = Len(sends) + 1]
              /\ sends' = Append(sends, m)
              /\ UNCHANGED <<status, conns>>
         ELSE /\ Stop(Home[a], "terminated")
              /\ sends' = Append(sends, [m EXCEPT !.lost = TRUE])
              /\ UNCHANGED engine

(***************************************************************************)
(* TCPProtocol::send_message, still in the thread of the engine.           *)
(***************************************************************************)
Listening(q) == Up(q) /\ server[q].pc \in {"accept", "read", "put"}

Peer(a) == sends[engine[a].id].to.process

\* The places of the connections that the server of q has not accepted yet.
Waiting(q) == {i \in DOMAIN conns : conns[i].to = q /\ ~ conns[i].accepted}

SendReturns(a) == engine' = [engine EXCEPT ![a].pc = "body", ![a].id = 0]

\* The kernel of the peer completes the connection without its process.
Connect(a) ==
  /\ EngineAt(a, "connect")
  /\ Listening(Peer(a))
  /\ Cardinality(Waiting(Peer(a))) < Backlog
  /\ conns' = Append(conns, [id |-> engine[a].id, to |-> Peer(a), accepted |-> FALSE,
                             data |-> "none"])
  /\ engine' = [engine EXCEPT ![a].pc = "send"]
  /\ UNCHANGED <<status, main, agentVars, server, sends>>

\* connect returns an error: a line on cerr and a return.
ConnectFails(a) ==
  /\ EngineAt(a, "connect")
  /\ sends' = [sends EXCEPT ![engine[a].id].lost = TRUE]
  /\ SendReturns(a)
  /\ UNCHANGED <<status, main, agentVars, server, conns>>

\* Fault: the sender tries until the peer listens.
ConnectRetried(a) == EngineAt(a, "connect") /\ ~ Listening(Peer(a)) /\ UNCHANGED vars

\* Fault: the error is printed and the function goes on.
ConnectUnchecked(a) ==
  /\ EngineAt(a, "connect")
  /\ ~ Listening(Peer(a))
  /\ sends' = [sends EXCEPT ![engine[a].id].lost = TRUE]
  /\ engine' = [engine EXCEPT ![a].pc = "send"]
  /\ UNCHANGED <<status, main, agentVars, server, conns>>

ConnectRefused(a) ==
  /\ EngineAt(a, "connect")
  /\ ~ Listening(Peer(a))
  /\ ConnectFails(a)

\* The kernel gives up on a full backlog.
ConnectTimesOut(a) ==
  /\ EngineAt(a, "connect")
  /\ Listening(Peer(a))
  /\ Cardinality(Waiting(Peer(a))) >= Backlog
  /\ ConnectFails(a)

\* send and close; the result of send is not looked at.
SendPacket(a) ==
  /\ EngineAt(a, "send")
  /\ conns' = [i \in DOMAIN conns |->
                 IF conns[i].id = engine[a].id THEN [conns[i] EXCEPT !.data = "packet"]
                                               ELSE conns[i]]
  /\ sends' = IF \E c \in ToSet(conns) : c.id = engine[a].id THEN sends
              ELSE [sends EXCEPT ![engine[a].id].lost = TRUE]
  /\ SendReturns(a)
  /\ UNCHANGED <<status, main, agentVars, server>>

(***************************************************************************)
(* TCPProtocol::run, the TCP thread of process p.                          *)
(***************************************************************************)
ServerAt(p, pc) == Up(p) /\ server[p].pc = pc

Listen(p) ==
  /\ ServerAt(p, "bind")
  /\ server' = [server EXCEPT ![p].pc = "accept"]
  /\ UNCHANGED <<status, main, agentVars, engine, conns, sends>>

\* Fault: one client is served, without the loop.
AcceptOnce(p) ==
  /\ ServerAt(p, "accept")
  /\ server[p].last = 0
  /\ Waiting(p) # {}
  /\ LET i == Nth(Waiting(p), 1) IN
       /\ server' = [server EXCEPT ![p].pc = "read", ![p].conn = conns[i].id]
       /\ conns' = [conns EXCEPT ![i].accepted = TRUE]
  /\ UNCHANGED <<status, main, agentVars, engine, sends>>

\* The kernel hands over the connection that was completed first.
Accept(p) ==
  /\ ServerAt(p, "accept")
  /\ Waiting(p) # {}
  /\ LET i == Nth(Waiting(p), 1) IN
       /\ server' = [server EXCEPT ![p].pc = "read", ![p].conn = conns[i].id]
       /\ conns' = [conns EXCEPT ![i].accepted = TRUE]
  /\ UNCHANGED <<status, main, agentVars, engine, sends>>

Reading(p, data) ==
  /\ ServerAt(p, "read")
  /\ \E c \in ToSet(conns) : c.id = server[p].conn /\ c.data = data

\* read blocks until the packet is there; the packet is copied to the buffer of the
\* stream, which lies at the same place in every iteration.
Read(p) ==
  /\ Reading(p, "packet")
  /\ server' = [server EXCEPT ![p].pc = "put", ![p].last = server[p].conn]
  /\ UNCHANGED <<status, main, agentVars, engine, conns, sends>>

\* End-of-file: nothing is copied, and the buffer holds what the previous iteration
\* left there, or anything, which the magic number refuses with an exception.
ReadNothing(p) ==
  /\ Reading(p, "eof")
  /\ \/ /\ server[p].last # 0
        /\ server' = [server EXCEPT ![p].pc = "put"]
        /\ UNCHANGED <<status, conns>>
     \/ Stop(p, "terminated") /\ UNCHANGED server
  /\ UNCHANGED <<main, agentVars, engine, sends>>

\* Fault: the packet carries the name of the sender only.
SourceName(id) == [process |-> Here, agent |-> sends[id].from]

\* The sender of a remote message is the URL of the sending agent.
SourceUrl(id) == [process |-> Home[sends[id].from], agent |-> sends[id].from]

Put(p) ==
  /\ ServerAt(p, "put")
  /\ LET id == server[p].last
         m  == sends[id]
     IN  IF Deliverable(p, m.msg, m.to.agent)
         THEN /\ PutMessage(id, m.msg, m.to.agent, SourceUrl(id))
              /\ sends' = Arrived(id)
              /\ conns' = ElementsAt(conns, {i \in DOMAIN conns :
                                               conns[i].id # server[p].conn})
              /\ server' = [server EXCEPT ![p].pc = "accept", ![p].conn = 0]
              /\ UNCHANGED status
         ELSE Stop(p, "terminated") /\ UNCHANGED <<agentVars, server, sends>>
  /\ UNCHANGED <<main, engine>>

-------------------------------------------------------------------------------
MainThread(p) == RegisterProtocol(p) \/ Create(p) \/ Start(p) \/ Post(p)

Server(p) == Listen(p) \/ Accept(p) \/ Read(p) \/ ReadNothing(p) \/ Put(p)

Engine(a) ==
  \/ TakeEvent(a) \/ CallProcedure(a) \/ BodyReturns(a) \/ SendLocal(a) \/ SendRemote(a)
  \/ Connect(a) \/ ConnectRefused(a) \/ SendPacket(a)

Next ==
  \/ \E p \in Processes : MainThread(p) \/ Server(p) \/ MainReturns(p)
  \/ \E a \in Agents : Engine(a) \/ ConnectTimesOut(a)

Spec == Init /\ [][Next]_vars

\* The operating system runs every thread.  main need not return, and no timeout is
\* counted on.
FairSpec ==
  /\ Spec
  /\ \A p \in Processes : WF_vars(MainThread(p)) /\ WF_vars(Server(p))
  /\ \A a \in Agents : WF_vars(Engine(a))

-------------------------------------------------------------------------------
Messages == {r.msg : r \in Routes}

Templates == UNION {ToSet(Accepts[a]) : a \in Agents}

Posted ==
  {step.msg : step \in {s \in UNION {ToSet(Main[p]) : p \in Processes} : s.op = "post"}}

Procedures == {call.procedure : call \in Calls}

Events ==
  [msg : Posted \cup Procedures, id : {0}, sender : {NoSender}]
  \cup [msg : Messages, id : DOMAIN sends, sender : Address]

EngineStates ==
  [pc : {"idle", "body", "connect", "send"}, evts : Seq(Events), id : 0 .. Len(sends)]

ServerStates ==
  [pc : {"off", "bind", "accept", "read", "put"}, conn : 0 .. Len(sends), last : 0 .. Len(sends)]

Connections ==
  [id : DOMAIN sends, to : Processes, accepted : BOOLEAN, data : {"none", "packet", "eof"}]

Sends == [from : Agents, to : Address, msg : Messages, arrived : Nat, lost : BOOLEAN]

\* The types of the variables.
TypeOK ==
  /\ status \in [Processes -> {"up", "returned", "terminated"}]
  /\ main \in [Processes -> Nat]
  /\ \A p \in Processes : main[p] \in 1 .. Len(Main[p]) + 1
  /\ registry \in [Processes -> SUBSET Agents]
  /\ accepted \in [Agents -> SUBSET Templates]
  /\ started \subseteq Agents
  /\ inbox \in [Agents -> Seq(Events)]
  /\ kb \in [Agents -> SUBSET Beliefs]
  /\ engine \in [Agents -> EngineStates]
  /\ server \in [Processes -> ServerStates]
  /\ conns \in Seq(Connections)
  /\ sends \in Seq(Sends) /\ Len(sends) <= MaxSends

\* The event of a message is in the queue of the agent it was addressed to, with the
\* formula that was sent, and c.sender() used as a destination reaches the agent
\* that sent it, in this process or in another (tcp_protocol.cpp:129, 158,
\* democle.cpp:56).  It holds of messages that are read twice, too, and of an event
\* whose body has called procedures, which have no sender (context.cpp:57).
IsRight(a, e) ==
  e.id # 0 =>
    LET m == sends[e.id] IN
      /\ Resolve(m.to, Home[m.from]) = [process |-> Home[a], agent |-> a]
      /\ Resolve(e.sender, Home[a]) = [process |-> Home[m.from], agent |-> m.from]
      /\ e.msg = m.msg

RightSender ==
  \A a \in Agents : \A e \in ToSet(inbox[a]) \cup ToSet(engine[a].evts) : IsRight(a, e)

\* While no process has ended, a message is at one place: its sender or a connection
\* has it, or it was delivered once, or the sender knows that it is lost.  So none
\* vanishes in silence and none is delivered twice.
InFlight(id) == (\E a \in Agents : engine[a].id = id) \/ (\E c \in ToSet(conns) : c.id = id)

One(condition) == IF condition THEN 1 ELSE 0

AllUp == \A p \in Processes : Up(p)

OnePlace ==
  AllUp =>
    \A id \in DOMAIN sends :
      sends[id].arrived + One(sends[id].lost) + One(InFlight(id)) = 1

\* No exception ends a process.
NoProcessTerminates == \A p \in Processes : status[p] # "terminated"

\* Once the agents of a process are started, no exception ends it before a process
\* has ended otherwise: whatever their order, messages find their agents, and the
\* agents accept them (democle.cpp:45-58, tcp_protocol.cpp:119-132).
AllStarted(p) == \A a \in Agents : Home[a] = p => a \in started

StartedSurvive ==
  [][\A p \in Processes :
       (AllStarted(p) /\ \A q \in Processes : Up(q)) => status'[p] # "terminated"]_vars

\* While no process ends, all messages that are sent arrive, or their senders are
\* refused the connection: again and again none is on its way.
Settled(id) == sends[id].arrived > 0 \/ sends[id].lost

MessagesArrive ==
  []<>(\/ \A id \in DOMAIN sends : Settled(id)
       \/ \E p \in Processes : ~ Up(p))

\* Whatever becomes of the peer, and with the TCP threads of two processes each
\* waiting for a packet while the engines wait for room in a backlog, an engine that
\* sends gets back to its body, without a timeout, unless its own process ends.
SendersReturn ==
  \A a \in Agents :
    []<>(engine[a].pc \in {"body", "idle"} \/ ~ Up(Home[a]))

(***************************************************************************)
(* The inductive invariants behind these.                                  *)
(***************************************************************************)
\* Who works on what: an engine that connects or sends has a message of its own agent
\* in hand, and connections and servers have messages to their process.
EngineInv ==
  \A a \in Agents :
    /\ engine[a].pc # "idle" => engine[a].evts # <<>>
    /\ engine[a].pc \in {"connect", "send"} <=> engine[a].id # 0
    /\ engine[a].id # 0 =>
         sends[engine[a].id].from = a /\ sends[engine[a].id].to.process \in Processes

ToProcess(id, p) == id # 0 => sends[id].to.process = p

ServerInv ==
  /\ \A i \in DOMAIN conns : ToProcess(conns[i].id, conns[i].to)
  /\ \A p \in Processes :
       /\ \A a \in registry[p] : Home[a] = p
       /\ ToProcess(server[p].conn, p) /\ ToProcess(server[p].last, p)
       /\ server[p].pc = "put" => server[p].last # 0

LinkInv == TypeOK /\ EngineInv /\ ServerInv /\ RightSender

\* While no process has ended, every connection has a message of its own, which its
\* sender gives up when the packet is sent, and the server puts what it has read.
ConnInv ==
  /\ \A i, j \in DOMAIN conns : conns[i].id = conns[j].id => i = j
  /\ \A i \in DOMAIN conns :
       /\ conns[i].data # "eof"
       /\ \A a \in Agents : engine[a].id = conns[i].id =>
            engine[a].pc = "send" /\ conns[i].data = "none"
  /\ \A a \in Agents : engine[a].pc = "send" =>
       \E i \in DOMAIN conns : conns[i].id = engine[a].id
  /\ \A p \in Processes : server[p].pc = "put" =>
       /\ server[p].last = server[p].conn
       /\ \E i \in DOMAIN conns : conns[i].id = server[p].conn /\ conns[i].data = "packet"

MessageInv == LinkInv /\ OnePlace /\ (AllUp => ConnInv)

(***************************************************************************)
(* The programs whose agents survive, and the invariant behind it.         *)
(***************************************************************************)
\* accepts lists the message, and lists it first.
Welcomes(a, msg) == a \in Agents /\ Accepts[a] # <<>> /\ Head(Accepts[a]) = msg

\* main constructs an agent before it starts it, and registers the protocol before it
\* starts an agent whose bodies may send to a URL.
OrderlyMain ==
  \A p \in Processes : \A i \in DOMAIN Main[p] :
    Main[p][i].op = "start" =>
      /\ \E j \in 1 .. i - 1 : Main[p][j].op = "create" /\ Main[p][j].agent = Main[p][i].agent
      /\ (\E r \in Routes : /\ r.agent = Main[p][i].agent
                            /\ r.to = ToSender \/ r.to.process # Here)
           => \E j \in 1 .. i - 1 : Main[p][j].op = "protocol"

\* Bodies send to agents what these accept; those that answer run on messages, and the
\* agents that send these accept the answer.
OrderlyRoutes ==
  \A r \in Routes :
    \/ /\ r.to = ToSender
       /\ r.on \notin Posted \cup Procedures
       /\ \A s \in Routes : s.msg = r.on => Welcomes(s.agent, r.msg)
    \/ /\ r.to # ToSender
       /\ Welcomes(r.to.agent, r.msg)
       /\ Home[r.to.agent] = IF r.to.process = Here THEN Home[r.agent] ELSE r.to.process

Orderly == OrderlyMain /\ OrderlyRoutes

\* What main has done is there: agents are registered and accept their messages when
\* they are started, and the protocol runs.
DoneInv ==
  \A p \in Processes :
    /\ \A i \in 1 .. main[p] - 1 :
         /\ Main[p][i].op = "create" => Main[p][i].agent \in registry[p]
         /\ Main[p][i].op = "protocol" => server[p].pc # "off"
    /\ \A a \in started : Home[a] = p =>
         /\ \E i \in 1 .. main[p] - 1 : Main[p][i].op = "start" /\ Main[p][i].agent = a
         /\ Accepts[a] # <<>> => Head(Accepts[a]) \in accepted[a]

\* Messages are addressed to agents that accept them.
AddressedInv ==
  \A id \in DOMAIN sends :
    /\ Welcomes(sends[id].to.agent, sends[id].msg)
    /\ Home[sends[id].to.agent] = Resolve(sends[id].to, Home[sends[id].from]).process
    /\ \E r \in Routes : r.agent = sends[id].from /\ r.msg = sends[id].msg

SurvivalInv == MessageInv /\ DoneInv /\ AddressedInv

(***************************************************************************)
(* What has become of a message: in transit as long as an engine or a      *)
(* connection has it; one that vanished with a process is lost.            *)
(***************************************************************************)
Fate(id) ==
  IF sends[id].arrived > 0 THEN "delivered"
  ELSE IF InFlight(id) /\ ~ sends[id].lost THEN "transit" ELSE "lost"

Seen(a, e) ==
  [msg |-> e.msg, id |-> e.id,
   sender |-> IF e.id = 0 THEN NoSender ELSE Resolve(e.sender, Home[a])]

BusSent ==
  [id \in DOMAIN sends |->
     [from |-> sends[id].from, msg |-> sends[id].msg,
      to |-> Resolve(sends[id].to, Home[sends[id].from])]]

BusFate == [id \in DOMAIN sends |-> Fate(id)]

BusInbox == [a \in Agents |-> [i \in DOMAIN inbox[a] |-> Seen(a, inbox[a][i])]]

Bus == INSTANCE MessageBus WITH
         sent <- BusSent, fate <- BusFate, inbox <- BusInbox, ended <- ~ AllUp

\* Registries, connections, buffers and URLs do what MessageBus promises: each
\* message is delivered to its addressee once and in the order in which its sender
\* sent them, unless it is lost; a second time only after a process has ended
\* (messaging.cpp:13-36, tcp_protocol.cpp:107-165, democle.cpp:45-58).
ImplementsBus == Bus!Spec

(***************************************************************************)
(* The inductive invariants behind it.                                     *)
(***************************************************************************)
\* No program names an agent of its own process by a URL: such a message would go
\* through the TCP thread, and a later one to the plain name could overtake it.
Unmixed == \A r \in Routes : r.to = ToSender \/ r.to.process # Home[r.agent]

Pending(id) == sends[id].arrived = 0 /\ ~ sends[id].lost

\* No URL of the own process comes up, and what an engine sends is its last message.
HandInv ==
  /\ \A id \in DOMAIN sends : sends[id].to.process # Home[sends[id].from]
  /\ \A a \in Agents :
       /\ \A e \in ToSet(inbox[a]) \cup ToSet(engine[a].evts) : e.sender.process # Home[a]
       /\ engine[a].id # 0 =>
            /\ Pending(engine[a].id)
            /\ \A id \in DOMAIN sends : sends[id].from = a => id <= engine[a].id

\* Connections carry one message each, those of one agent to one process in the order
\* sent, and a server works on the first to its process.
OrderInv ==
  /\ \A i, j \in DOMAIN conns :
       /\ conns[i].id = conns[j].id => i = j
       /\ i < j /\ conns[i].to = conns[j].to =>
            /\ ~ conns[j].accepted
            /\ sends[conns[i].id].from = sends[conns[j].id].from => conns[i].id < conns[j].id
  /\ \A i \in DOMAIN conns :
       /\ Pending(conns[i].id)
       /\ conns[i].accepted => /\ server[conns[i].to].pc \in {"read", "put"}
                               /\ server[conns[i].to].conn = conns[i].id
       /\ \A a \in Agents : engine[a].id = conns[i].id =>
            engine[a].pc = "send" /\ conns[i].data # "packet"

\* A server puts what it has just read, or, when a process has ended, again what was
\* delivered.  It is started once.
PutInv ==
  \A p \in Processes :
    /\ server[p].pc # "put" /\ server[p].last # 0 => sends[server[p].last].arrived > 0
    /\ server[p].pc \in {"read", "put"} /\ Up(p) =>
         \E i \in DOMAIN conns :
           /\ conns[i].id = server[p].conn /\ conns[i].accepted
           /\ server[p].pc = "put" =>
                \/ server[p].last = server[p].conn /\ conns[i].data = "packet"
                \/ sends[server[p].last].arrived > 0 /\ ~ AllUp
    /\ \A i \in DOMAIN Main[p] :
         i >= main[p] /\ Main[p][i].op = "protocol" => server[p].pc = "off"

BusInv == MessageInv /\ HandInv /\ OrderInv /\ PutInv
===============================================================================
