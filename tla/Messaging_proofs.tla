----------------------------- MODULE Messaging_proofs ----------------------------
(***************************************************************************)
(* Theorems about messages, for any processes, agents and programs: who    *)
(* gets which message from whom, that the processes of agents that are     *)
(* started survive, and, if no program names an agent of its own process   *)
(* by a URL, that Messaging implements MessageBus.                         *)
(***************************************************************************)
EXTENDS Messaging, Subsequences_proofs

(***************************************************************************)
(* The invariant, actor by actor.                                          *)
(***************************************************************************)
EngineOK(a) ==
  /\ engine[a] \in EngineStates
  /\ engine[a].pc # "idle" => engine[a].evts # <<>>
  /\ engine[a].pc \in {"connect", "send"} <=> engine[a].id # 0
  /\ engine[a].id # 0 =>
       sends[engine[a].id].from = a /\ sends[engine[a].id].to.process \in Processes
  /\ \A e \in ToSet(engine[a].evts) : IsRight(a, e)

InboxOK(a) ==
  /\ inbox[a] \in Seq(Events)
  /\ \A e \in ToSet(inbox[a]) : IsRight(a, e)

ConnsOK ==
  /\ conns \in Seq(Connections)
  /\ \A i \in DOMAIN conns : ToProcess(conns[i].id, conns[i].to)

ServerOK(p) ==
  /\ server[p] \in ServerStates
  /\ ToProcess(server[p].conn, p) /\ ToProcess(server[p].last, p)
  /\ server[p].pc = "put" => server[p].last # 0

SendsOK == sends \in Seq(Sends) /\ Len(sends) <= MaxSends

MainOK ==
  /\ status \in [Processes -> {"up", "returned", "terminated"}]
  /\ main \in [Processes -> Nat]
  /\ \A p \in Processes : main[p] \in 1 .. Len(Main[p]) + 1
  /\ registry \in [Processes -> SUBSET Agents]
  /\ \A p \in Processes : \A a \in registry[p] : Home[a] = p
  /\ accepted \in [Agents -> SUBSET Templates]
  /\ started \subseteq Agents
  /\ kb \in [Agents -> SUBSET Beliefs]

Shapes ==
  /\ DOMAIN inbox = Agents /\ inbox = [a \in Agents |-> inbox[a]]
  /\ DOMAIN engine = Agents /\ engine = [a \in Agents |-> engine[a]]
  /\ DOMAIN server = Processes /\ server = [p \in Processes |-> server[p]]

Parts ==
  /\ Shapes /\ SendsOK /\ MainOK /\ ConnsOK
  /\ \A a \in Agents : EngineOK(a) /\ InboxOK(a)
  /\ \A p \in Processes : ServerOK(p)

LEMMA LinkParts == LinkInv <=> Parts
<1>1. ASSUME LinkInv PROVE Parts
  <2>1. Shapes /\ SendsOK /\ MainOK
    BY <1>1 DEF LinkInv, TypeOK, ServerInv, Shapes, SendsOK, MainOK
  <2>2. ConnsOK
    BY <1>1 DEF LinkInv, TypeOK, ServerInv, ConnsOK
  <2>3. ASSUME NEW a \in Agents PROVE EngineOK(a) /\ InboxOK(a)
    BY <1>1 DEF LinkInv, TypeOK, EngineInv, RightSender, EngineOK, InboxOK
  <2>4. ASSUME NEW p \in Processes PROVE ServerOK(p)
    BY <1>1 DEF LinkInv, TypeOK, ServerInv, ServerOK
  <2>5. QED
    BY <2>1, <2>2, <2>3, <2>4 DEF Parts
<1>2. ASSUME Parts PROVE LinkInv
  <2>1. /\ inbox \in [Agents -> Seq(Events)]
        /\ engine \in [Agents -> EngineStates]
        /\ server \in [Processes -> ServerStates]
    BY <1>2 DEF Parts, Shapes, EngineOK, InboxOK, ServerOK
  <2>2. TypeOK
    BY <1>2, <2>1 DEF Parts, SendsOK, MainOK, ConnsOK, TypeOK
  <2>3. EngineInv
    BY <1>2 DEF Parts, EngineOK, EngineInv
  <2>4. ServerInv
    BY <1>2 DEF Parts, MainOK, ConnsOK, ServerOK, ServerInv
  <2>5. RightSender
    BY <1>2 DEF Parts, EngineOK, InboxOK, RightSender
  <2>6. QED
    BY <2>2, <2>3, <2>4, <2>5 DEF LinkInv
<1>3. QED
  BY <1>1, <1>2

(***************************************************************************)
(* What was said of the messages stays true when others are sent.          *)
(***************************************************************************)
SendsGrow ==
  /\ SendsOK'
  /\ \A id \in DOMAIN sends :
       /\ id \in DOMAIN sends' /\ sends'[id].from = sends[id].from
       /\ sends'[id].to = sends[id].to /\ sends'[id].msg = sends[id].msg

LEMMA GrowTypes ==
  ASSUME SendsOK, SendsGrow
  PROVE  /\ DOMAIN sends \subseteq DOMAIN sends'
         /\ 0 .. Len(sends) \subseteq 0 .. Len(sends')
         /\ Events \subseteq Events' /\ Seq(Events) \subseteq Seq(Events')
         /\ DOMAIN sends = 1 .. Len(sends) /\ Len(sends) \in Nat
         /\ \A a \in Agents, e \in Events : IsRight(a, e) => IsRight(a, e)'
         /\ \A id \in 0 .. Len(sends), p \in Processes : ToProcess(id, p) => ToProcess(id, p)'
<1>1. /\ DOMAIN sends = 1 .. Len(sends) /\ Len(sends) \in Nat
      /\ DOMAIN sends' = 1 .. Len(sends') /\ Len(sends') \in Nat
  BY DEF SendsOK, SendsGrow
<1>2. DOMAIN sends \subseteq DOMAIN sends'
  BY DEF SendsGrow
<1>3. Len(sends) <= Len(sends')
  <2>1. CASE Len(sends) = 0
    BY <1>1, <2>1
  <2>2. CASE Len(sends) # 0
    BY <1>1, <1>2, <2>2
  <2>3. QED
    BY <2>1, <2>2
<1>4. 0 .. Len(sends) \subseteq 0 .. Len(sends')
  BY <1>1, <1>3
<1>5. Events \subseteq Events'
  BY <1>2 DEF Events
<1>6. Seq(Events) \subseteq Seq(Events')
  <2> DEFINE E == Events
             F == Events'
  <2>1. E \subseteq F
    BY <1>5
  <2> HIDE DEF E, F
  <2>2. ASSUME NEW s \in Seq(E) PROVE s \in Seq(F)
    BY <2>1, SeqMonotonic
  <2>3. QED
    BY <2>2 DEF E, F
<1>7. ASSUME NEW a \in Agents, NEW e \in Events, IsRight(a, e) PROVE IsRight(a, e)'
  <2>1. e.id = 0 \/ e.id \in DOMAIN sends
    BY DEF Events
  <2>2. QED
    BY <1>7, <2>1 DEF SendsGrow, IsRight, Resolve
<1>8. ASSUME NEW id \in 0 .. Len(sends), NEW p \in Processes, ToProcess(id, p)
      PROVE  ToProcess(id, p)'
  <2>1. id = 0 \/ id \in DOMAIN sends
    BY <1>1
  <2>2. QED
    BY <1>8, <2>1 DEF SendsGrow, ToProcess
<1>9. QED
  BY <1>1, <1>2, <1>4, <1>5, <1>6, <1>7, <1>8

LEMMA EngineStays ==
  ASSUME SendsOK, SendsGrow, NEW a \in Agents, EngineOK(a), engine'[a] = engine[a]
  PROVE  EngineOK(a)'
<1>1. /\ 0 .. Len(sends) \subseteq 0 .. Len(sends')
      /\ Seq(Events) \subseteq Seq(Events')
      /\ \A e \in Events : IsRight(a, e) => IsRight(a, e)'
      /\ DOMAIN sends = 1 .. Len(sends) /\ Len(sends) \in Nat
  BY GrowTypes
<1>2. /\ engine[a].evts \in Seq(Events) /\ engine[a].id \in 0 .. Len(sends)
      /\ engine[a] \in EngineStates
  BY DEF EngineOK, EngineStates
<1>3. engine'[a] \in EngineStates'
  BY <1>1, <1>2 DEF EngineStates
<1>4. \A e \in ToSet(engine'[a].evts) : IsRight(a, e)'
  BY <1>1, <1>2 DEF EngineOK, ToSet
<1>5. engine[a].id # 0 => /\ sends'[engine[a].id].from = a
                          /\ sends'[engine[a].id].to.process \in Processes
  BY <1>1, <1>2 DEF EngineOK, SendsGrow
<1>6. QED
  BY <1>3, <1>4, <1>5 DEF EngineOK

LEMMA InboxStays ==
  ASSUME SendsOK, SendsGrow, NEW a \in Agents, InboxOK(a), inbox'[a] = inbox[a]
  PROVE  InboxOK(a)'
<1>1. /\ Seq(Events) \subseteq Seq(Events')
      /\ \A e \in Events : IsRight(a, e) => IsRight(a, e)'
  BY GrowTypes
<1>2. inbox[a] \in Seq(Events)
  BY DEF InboxOK
<1>3. \A e \in ToSet(inbox'[a]) : IsRight(a, e)'
  BY <1>1, <1>2 DEF InboxOK, ToSet
<1>4. QED
  BY <1>1, <1>2, <1>3 DEF InboxOK

LEMMA ServerStays ==
  ASSUME SendsOK, SendsGrow, NEW p \in Processes, ServerOK(p), server'[p] = server[p]
  PROVE  ServerOK(p)'
<1>1. /\ 0 .. Len(sends) \subseteq 0 .. Len(sends')
      /\ \A id \in 0 .. Len(sends) : ToProcess(id, p) => ToProcess(id, p)'
  BY GrowTypes
<1>2. server[p].conn \in 0 .. Len(sends) /\ server[p].last \in 0 .. Len(sends)
  BY DEF ServerOK, ServerStates
<1>3. server'[p] \in ServerStates'
  BY <1>1, <1>2 DEF ServerOK, ServerStates
<1>4. ToProcess(server[p].conn, p)' /\ ToProcess(server[p].last, p)'
  <2>1. ToProcess(server[p].conn, p) /\ ToProcess(server[p].last, p)
    BY DEF ServerOK
  <2>2. QED
    BY <1>1, <1>2, <2>1 DEF ToProcess
<1>5. QED
  BY <1>3, <1>4 DEF ServerOK

\* Connections that are no new ones.
LEMMA ConnsStay ==
  ASSUME SendsOK, SendsGrow, ConnsOK,
         Len(conns') \in Nat, conns' = [i \in 1 .. Len(conns') |-> conns'[i]],
         \A i \in 1 .. Len(conns') :
           /\ conns'[i] \in Connections
           /\ \E j \in DOMAIN conns : conns'[i].id = conns[j].id /\ conns'[i].to = conns[j].to
  PROVE  ConnsOK'
<1>1. /\ DOMAIN sends \subseteq DOMAIN sends' /\ DOMAIN sends = 1 .. Len(sends)
      /\ Len(sends) \in Nat
      /\ \A id \in 0 .. Len(sends), p \in Processes : ToProcess(id, p) => ToProcess(id, p)'
  BY GrowTypes
<1>2. \A i \in 1 .. Len(conns') : conns'[i] \in Connections'
  BY <1>1 DEF Connections
<1>3. conns' \in Seq(Connections')
  BY <1>2
<1>4. ASSUME NEW i \in DOMAIN conns' PROVE ToProcess(conns[i].id, conns[i].to)'
  <2>1. i \in 1 .. Len(conns')
    BY <1>3
  <2>2. PICK j \in DOMAIN conns : conns'[i].id = conns[j].id /\ conns'[i].to = conns[j].to
    BY <2>1
  <2>3. ToProcess(conns[j].id, conns[j].to) /\ conns'[i] \in Connections
    BY <2>1 DEF ConnsOK
  <2>4. conns'[i].id \in 0 .. Len(sends) /\ conns'[i].to \in Processes
    BY <1>1, <2>3 DEF Connections
  <2>5. conns'[i].id # 0 => /\ conns'[i].id \in DOMAIN sends
                             /\ sends[conns'[i].id].to.process = conns'[i].to
    BY <1>1, <2>2, <2>3, <2>4 DEF ToProcess
  <2>6. QED
    BY <2>5 DEF ToProcess, SendsGrow
<1>5. QED
  BY <1>3, <1>4 DEF ConnsOK

LEMMA ConnsUnchanged ==
  ASSUME SendsOK, SendsGrow, ConnsOK, UNCHANGED conns
  PROVE  ConnsOK'
<1>1. /\ Len(conns') \in Nat /\ conns' = [i \in 1 .. Len(conns') |-> conns'[i]]
      /\ DOMAIN conns = 1 .. Len(conns) /\ \A i \in DOMAIN conns : conns[i] \in Connections
  BY DEF ConnsOK
<1>2. QED
  BY <1>1, ConnsStay

LEMMA SendsSame ==
  ASSUME SendsOK, UNCHANGED sends
  PROVE  SendsGrow
BY DEF SendsOK, SendsGrow

\* The end of a process.
LEMMA Stopped ==
  ASSUME Parts, SendsGrow, NEW p \in Processes, NEW how \in {"returned", "terminated"},
         Stop(p, how)
  PROVE  /\ status' \in [Processes -> {"up", "returned", "terminated"}] /\ ~ AllUp'
         /\ ConnsOK'
<1> DEFINE I    == {i \in DOMAIN conns : conns[i].to # p}
           left == ElementsAt(conns, I)
<1>1. conns \in Seq(Connections) /\ SendsOK /\ ConnsOK
  BY DEF Parts, ConnsOK
<1>2. /\ left \in Seq(Connections) /\ Len(left) = Cardinality(I) /\ Cardinality(I) \in Nat
      /\ \A k \in 1 .. Cardinality(I) : Nth(I, k) \in I /\ left[k] = conns[Nth(I, k)]
  BY <1>1, ElementsAtProperties
<1>3. conns' = [i \in DOMAIN left |->
                  IF Home[sends[left[i].id].from] = p /\ left[i].data = "none"
                  THEN [left[i] EXCEPT !.data = "eof"] ELSE left[i]]
  BY DEF Stop
<1> HIDE DEF left
<1>4. DOMAIN left = 1 .. Cardinality(I)
  BY <1>2
<1>5. ASSUME NEW i \in 1 .. Cardinality(I)
      PROVE  /\ conns'[i] \in Connections
             /\ \E j \in DOMAIN conns : conns'[i].id = conns[j].id /\ conns'[i].to = conns[j].to
  <2>1. left[i] \in Connections /\ Nth(I, i) \in DOMAIN conns /\ left[i] = conns[Nth(I, i)]
    BY <1>2, <1>4
  <2>2. conns'[i] = left[i] \/ conns'[i] = [left[i] EXCEPT !.data = "eof"]
    BY <1>3, <1>4
  <2>3. /\ conns'[i] \in Connections
        /\ conns'[i].id = left[i].id /\ conns'[i].to = left[i].to
    BY <2>1, <2>2 DEF Connections
  <2>4. QED
    BY <2>1, <2>3
<1>6. /\ Len(conns') = Cardinality(I)
      /\ conns' = [i \in 1 .. Len(conns') |-> conns'[i]]
  BY <1>2, <1>3, <1>4
<1> HIDE DEF I
<1>7. ConnsOK'
  BY <1>1, <1>2, <1>5, <1>6, ConnsStay
<1>8. status' = [status EXCEPT ![p] = how] /\ status \in [Processes -> {"up", "returned", "terminated"}]
  BY DEF Stop, Parts, MainOK
<1>9. QED
  BY <1>7, <1>8 DEF AllUp, Up

\* What a step has to be checked for: the parts it changes.
LEMMA Framed ==
  ASSUME Parts, SendsGrow, Shapes', MainOK', ConnsOK',
         \A a \in Agents : engine'[a] = engine[a] \/ EngineOK(a)',
         \A a \in Agents : inbox'[a] = inbox[a] \/ InboxOK(a)',
         \A p \in Processes : server'[p] = server[p] \/ ServerOK(p)'
  PROVE  Parts'
<1>1. SendsOK /\ SendsOK'
  BY DEF Parts, SendsGrow
<1>2. ASSUME NEW a \in Agents PROVE EngineOK(a)' /\ InboxOK(a)'
  BY <1>1, EngineStays, InboxStays DEF Parts
<1>3. ASSUME NEW p \in Processes PROVE ServerOK(p)'
  BY <1>1, ServerStays DEF Parts
<1>4. QED
  BY <1>1, <1>2, <1>3 DEF Parts

(***************************************************************************)
(* The main thread.                                                        *)
(***************************************************************************)
LEMMA MainSteps ==
  ASSUME Parts, NEW p \in Processes, NEW op, MainStep(p, op)
  PROVE  /\ Main[p][main[p]] \in ToSet(Main[p]) /\ Main[p][main[p]].op = op
         /\ op # "protocol" => Subject(p) \in Agents /\ Home[Subject(p)] = p
         /\ main' \in [Processes -> Nat]
         /\ \A q \in Processes : main'[q] \in 1 .. Len(Main[q]) + 1
         /\ SendsGrow /\ ConnsOK' /\ UNCHANGED <<status, kb, engine, conns, sends>>
<1>1. /\ main[p] \in DOMAIN Main[p] /\ Main[p][main[p]].op = op
      /\ main' = [main EXCEPT ![p] = @ + 1]
      /\ UNCHANGED <<status, kb, engine, conns, sends>>
  BY DEF MainStep
<1>2. Main[p] \in Seq(ToSet(Main[p]))
  BY MainAssumption
<1>3. Main[p][main[p]] \in ToSet(Main[p]) /\ main[p] \in 1 .. Len(Main[p])
  BY <1>1, <1>2 DEF ToSet
<1>4. SendsOK /\ ConnsOK /\ SendsGrow
  BY <1>1, SendsSame DEF Parts
<1>5. ConnsOK'
  BY <1>1, <1>4, ConnsUnchanged
<1>6. op # "protocol" => Subject(p) \in Agents /\ Home[Subject(p)] = p
  BY <1>1, <1>3, MainAssumption DEF Subject
<1>7. /\ main' \in [Processes -> Nat]
      /\ \A q \in Processes : main'[q] \in 1 .. Len(Main[q]) + 1
  BY <1>1, <1>2, <1>3 DEF Parts, MainOK
<1>8. QED
  BY <1>1, <1>3, <1>4, <1>5, <1>6, <1>7

LEMMA RegisterProtocolKeeps ==
  ASSUME Parts, NEW p \in Processes, RegisterProtocol(p)
  PROVE  Parts'
<1>1. MainStep(p, "protocol") /\ server' = [server EXCEPT ![p].pc = "bind"]
      /\ UNCHANGED agentVars
  BY DEF RegisterProtocol
<1>2. MainOK' /\ ConnsOK' /\ SendsGrow
  BY <1>1, MainSteps DEF Parts, MainOK, agentVars
<1>3. Shapes'
  BY <1>1 DEF Parts, Shapes, MainStep, agentVars
<1>4. ServerOK(p)'
  BY <1>1 DEF Parts, Shapes, MainStep, ServerOK, ServerStates, ToProcess
<1>5. \A q \in Processes : q # p => server'[q] = server[q]
  BY <1>1 DEF Parts, Shapes
<1>6. UNCHANGED <<engine, inbox>>
  BY <1>1 DEF MainStep, agentVars
<1>7. QED
  BY <1>2, <1>3, <1>4, <1>5, <1>6, Framed

LEMMA CreateKeeps ==
  ASSUME Parts, NEW p \in Processes, Create(p)
  PROVE  Parts'
<1>1. /\ MainStep(p, "create")
      /\ registry' = [registry EXCEPT ![p] = @ \cup {Subject(p)}]
      /\ UNCHANGED <<accepted, started, inbox, kb, server>>
  BY DEF Create
<1>2. MainOK' /\ ConnsOK' /\ SendsGrow /\ UNCHANGED engine
  BY <1>1, MainSteps DEF Parts, MainOK
<1>3. Shapes'
  BY <1>1, <1>2 DEF Parts, Shapes
<1>4. QED
  BY <1>1, <1>2, <1>3, Framed

LEMMA StartKeeps ==
  ASSUME Parts, NEW p \in Processes, Start(p)
  PROVE  Parts'
<1>1. /\ MainStep(p, "start")
      /\ IF Accepts[Subject(p)] = <<>> THEN UNCHANGED accepted
                                       ELSE AcceptMessages(Subject(p))
      /\ started' = started \cup {Subject(p)}
      /\ UNCHANGED <<registry, inbox, kb, server>>
  BY DEF Start
<1>2. Subject(p) \in Agents
  BY <1>1, MainSteps
<1>3. accepted' \in [Agents -> SUBSET Templates]
  <2>1. CASE Accepts[Subject(p)] = <<>>
    BY <1>1, <2>1 DEF Parts, MainOK
  <2>2. CASE Accepts[Subject(p)] # <<>>
    <3>1. Head(Accepts[Subject(p)]) \in ToSet(Accepts[Subject(p)])
      BY <1>2, <2>2, AcceptAssumption, HeadHolds
    <3>2. Head(Accepts[Subject(p)]) \in Templates
      BY <1>2, <3>1 DEF Templates
    <3>3. QED
      BY <1>1, <2>2, <3>2 DEF AcceptMessages, Parts, MainOK
  <2>3. QED
    BY <2>1, <2>2
<1>4. MainOK' /\ ConnsOK' /\ SendsGrow /\ UNCHANGED engine
  BY <1>1, <1>2, <1>3, MainSteps DEF Parts, MainOK
<1>5. Shapes'
  BY <1>1, <1>4 DEF Parts, Shapes
<1>6. QED
  BY <1>1, <1>4, <1>5, Framed

\* An event that is right for agent a comes to its queue.
LEMMA InboxGrows ==
  ASSUME Parts, SendsGrow, NEW a \in Agents, NEW e, e \in Events', IsRight(a, e)',
         inbox' = [inbox EXCEPT ![a] = Append(@, e)]
  PROVE  /\ \A b \in Agents : inbox'[b] = inbox[b] \/ InboxOK(b)'
         /\ DOMAIN inbox' = Agents /\ inbox' = [b \in Agents |-> inbox'[b]]
<1>1. SendsOK /\ inbox[a] \in Seq(Events) /\ \A x \in ToSet(inbox[a]) : IsRight(a, x)
  BY DEF Parts, InboxOK
<1>2. /\ Seq(Events) \subseteq Seq(Events')
      /\ \A x \in Events : IsRight(a, x) => IsRight(a, x)'
  BY <1>1, GrowTypes
<1>3. /\ inbox'[a] = Append(inbox[a], e)
      /\ \A b \in Agents : b # a => inbox'[b] = inbox[b]
      /\ DOMAIN inbox' = Agents /\ inbox' = [b \in Agents |-> inbox'[b]]
  BY DEF Parts, Shapes
<1>4. inbox[a] \in Seq(Events')
  BY <1>1, <1>2
<1> DEFINE E == Events'
<1>5. e \in E /\ inbox[a] \in Seq(E)
  BY <1>4
<1> HIDE DEF E
<1>6. /\ ToSet(inbox'[a]) = ToSet(inbox[a]) \cup {e}
      /\ inbox'[a] \in Seq(E)
  BY <1>3, <1>5, AppendHolds, AppendProperties
<1>7. \A x \in ToSet(inbox[a]) : x \in Events
  BY <1>1 DEF ToSet
<1>8. \A x \in ToSet(inbox'[a]) : IsRight(a, x)'
  BY <1>1, <1>2, <1>6, <1>7
<1>9. InboxOK(a)'
  BY <1>6, <1>8 DEF InboxOK, E
<1>10. QED
  BY <1>3, <1>9

LEMMA PostKeeps ==
  ASSUME Parts, NEW p \in Processes, Post(p)
  PROVE  Parts'
<1>1. /\ MainStep(p, "post") /\ UNCHANGED <<registry, accepted, started, kb, server>>
  BY DEF Post
<1>2. PICK a, e : /\ a = Subject(p)
                  /\ e = [msg |-> Main[p][main[p]].msg, id |-> 0, sender |-> NoSender]
  OBVIOUS
<1>3. inbox' = [inbox EXCEPT ![a] = Append(@, e)]
  BY <1>2 DEF Post
<1>4. /\ a \in Agents /\ SendsGrow /\ ConnsOK' /\ UNCHANGED engine
      /\ Main[p][main[p]] \in ToSet(Main[p]) /\ Main[p][main[p]].op = "post"
  BY <1>1, <1>2, MainSteps
<1>5. e \in Events' /\ IsRight(a, e)'
  BY <1>2, <1>4 DEF Events, Posted, IsRight
<1>6. /\ \A b \in Agents : inbox'[b] = inbox[b] \/ InboxOK(b)'
      /\ DOMAIN inbox' = Agents /\ inbox' = [b \in Agents |-> inbox'[b]]
  BY <1>3, <1>4, <1>5, InboxGrows
<1>7. MainOK'
  BY <1>1, MainSteps DEF Parts, MainOK
<1>8. Shapes'
  BY <1>1, <1>4, <1>6 DEF Parts, Shapes
<1>9. QED
  BY <1>1, <1>4, <1>6, <1>7, <1>8, Framed

(***************************************************************************)
(* The engines and the bodies.                                             *)
(***************************************************************************)
\* What an engine step leaves alone in the rest of the state.
LEMMA Quiet ==
  ASSUME Parts, UNCHANGED <<status, main, registry, accepted, started, kb, sends>>
  PROVE  /\ MainOK' /\ SendsGrow /\ Events' = Events /\ EngineStates' = EngineStates
         /\ \A a, e : IsRight(a, e)' = IsRight(a, e)
         /\ conns' = conns => ConnsOK'
<1>1. MainOK' /\ SendsGrow
  BY SendsSame DEF Parts, MainOK
<1>2. /\ Events' = Events /\ EngineStates' = EngineStates
      /\ \A a, e : IsRight(a, e)' = IsRight(a, e)
  BY DEF Events, EngineStates, IsRight
<1>3. conns' = conns => ConnsOK'
  BY <1>1, ConnsUnchanged DEF Parts
<1>4. QED
  BY <1>1, <1>2, <1>3

LEMMA OneEvent ==
  ASSUME NEW E, NEW e \in E
  PROVE  <<e>> \in Seq(E) /\ ToSet(<<e>>) = {e} /\ <<e>> # <<>>
BY DEF ToSet

LEMMA TakeEventKeeps ==
  ASSUME Parts, NEW a \in Agents, TakeEvent(a)
  PROVE  Parts'
<1>1. /\ engine[a].pc = "idle" /\ inbox[a] # <<>>
      /\ engine' = [engine EXCEPT ![a] = [@ EXCEPT !.pc = "body", !.evts = <<Head(inbox[a])>>]]
      /\ inbox' = [inbox EXCEPT ![a] = Tail(@)]
      /\ UNCHANGED <<status, main, registry, accepted, started, kb, server, conns, sends>>
  BY DEF TakeEvent, EngineAt
<1>2. /\ MainOK' /\ ConnsOK' /\ SendsGrow /\ Events' = Events /\ EngineStates' = EngineStates
      /\ \A b, e : IsRight(b, e)' = IsRight(b, e)
  BY <1>1, Quiet
<1>3. Shapes'
  BY <1>1 DEF Parts, Shapes
<1>4. inbox[a] \in Seq(Events) /\ \A e \in ToSet(inbox[a]) : IsRight(a, e)
  BY DEF Parts, InboxOK
<1>5. /\ Head(inbox[a]) \in ToSet(inbox[a]) /\ ToSet(Tail(inbox[a])) \subseteq ToSet(inbox[a])
      /\ Head(inbox[a]) \in Events /\ Tail(inbox[a]) \in Seq(Events)
  <2> DEFINE E == Events
  <2>1. inbox[a] \in Seq(E)
    BY <1>4
  <2> HIDE DEF E
  <2>2. /\ Head(inbox[a]) \in ToSet(inbox[a]) /\ ToSet(Tail(inbox[a])) \subseteq ToSet(inbox[a])
        /\ Head(inbox[a]) \in E /\ Tail(inbox[a]) \in Seq(E)
    BY <1>1, <2>1, HeadHolds, HeadTailProperties
  <2>3. QED
    BY <2>2 DEF E
<1>6. InboxOK(a)'
  <2>1. inbox'[a] = Tail(inbox[a])
    BY <1>1 DEF Parts, Shapes
  <2>2. QED
    BY <1>2, <1>4, <1>5, <2>1 DEF InboxOK
<1>7. EngineOK(a)'
  <2>1. engine'[a] = [engine[a] EXCEPT !.pc = "body", !.evts = <<Head(inbox[a])>>]
    BY <1>1 DEF Parts, Shapes
  <2>2. engine[a] \in EngineStates /\ engine[a].id = 0
    BY <1>1 DEF Parts, EngineOK
  <2>3. /\ <<Head(inbox[a])>> \in Seq(Events) /\ <<Head(inbox[a])>> # <<>>
        /\ ToSet(<<Head(inbox[a])>>) = {Head(inbox[a])}
    BY <1>5, OneEvent
  <2>4. engine'[a] \in EngineStates /\ engine'[a].id = 0
    BY <2>1, <2>2, <2>3 DEF EngineStates
  <2>5. engine'[a].pc = "body" /\ engine'[a].evts = <<Head(inbox[a])>>
    BY <2>1, <2>2 DEF EngineStates
  <2>6. QED
    BY <1>2, <1>4, <1>5, <2>3, <2>4, <2>5 DEF EngineOK
<1>8. /\ \A b \in Agents : engine'[b] = engine[b] \/ EngineOK(b)'
      /\ \A b \in Agents : inbox'[b] = inbox[b] \/ InboxOK(b)'
  BY <1>1, <1>6, <1>7 DEF Parts, Shapes
<1>9. QED
  BY <1>1, <1>2, <1>3, <1>8, Framed

\* The engine of a goes on with other events or another place, without a message.
LEMMA BodyOnly ==
  ASSUME Parts, NEW a \in Agents, NEW evts, NEW pc \in {"idle", "body"},
         engine' = [engine EXCEPT ![a] = [pc |-> pc, evts |-> evts, id |-> 0]],
         evts \in Seq(Events), pc # "idle" => evts # <<>>, \A e \in ToSet(evts) : IsRight(a, e),
         UNCHANGED <<status, main, registry, accepted, started, inbox, kb, server, conns, sends>>
  PROVE  Parts'
<1>1. /\ MainOK' /\ ConnsOK' /\ SendsGrow /\ Events' = Events /\ EngineStates' = EngineStates
      /\ \A b, e : IsRight(b, e)' = IsRight(b, e)
  BY Quiet
<1>2. Shapes'
  BY DEF Parts, Shapes
<1>3. engine'[a] = [pc |-> pc, evts |-> evts, id |-> 0]
  BY DEF Parts, Shapes
<1>4. Len(sends) \in Nat
  BY DEF Parts, SendsOK
<1>5. engine'[a] \in EngineStates
  BY <1>3, <1>4 DEF EngineStates
<1>6. EngineOK(a)'
  BY <1>1, <1>3, <1>5 DEF EngineOK
<1>7. \A b \in Agents : engine'[b] = engine[b] \/ EngineOK(b)'
  BY <1>6 DEF Parts, Shapes
<1>8. QED
  BY <1>1, <1>2, <1>7, Framed

LEMMA InBody ==
  ASSUME Parts, NEW a \in Agents, EngineAt(a, "body")
  PROVE  /\ engine[a] = [pc |-> "body", evts |-> engine[a].evts, id |-> 0]
         /\ engine[a].evts \in Seq(Events) /\ engine[a].evts # <<>>
         /\ Len(engine[a].evts) \in Nat \ {0}
         /\ \A e \in ToSet(engine[a].evts) : IsRight(a, e)
         /\ evt(a) \in Events /\ evt(a) \in ToSet(engine[a].evts)
<1>1. engine[a] \in EngineStates /\ engine[a].pc = "body" /\ engine[a].id = 0
  BY DEF EngineAt, Parts, EngineOK
<1>2. /\ engine[a] = [pc |-> "body", evts |-> engine[a].evts, id |-> 0]
      /\ engine[a].evts \in Seq(Events)
  BY <1>1 DEF EngineStates
<1>3. engine[a].evts # <<>> /\ \A e \in ToSet(engine[a].evts) : IsRight(a, e)
  BY <1>1 DEF Parts, EngineOK
<1> DEFINE E == Events
<1>4. engine[a].evts \in Seq(E)
  BY <1>2
<1> HIDE DEF E
<1>5. Len(engine[a].evts) \in Nat \ {0}
  BY <1>3, <1>4, EmptySeq
<1>6. evt(a) \in E /\ evt(a) \in ToSet(engine[a].evts)
  BY <1>4, <1>5 DEF evt, Last, ToSet
<1>7. QED
  BY <1>1, <1>2, <1>3, <1>5, <1>6 DEF E

LEMMA CallProcedureKeeps ==
  ASSUME Parts, NEW a \in Agents, CallProcedure(a)
  PROVE  Parts'
<1>1. PICK call \in Calls :
        engine' = [engine EXCEPT ![a].evts =
                     Append(@, [msg |-> call.procedure, id |-> 0, sender |-> NoSender])]
  BY DEF CallProcedure
<1>2. PICK e : e = [msg |-> call.procedure, id |-> 0, sender |-> NoSender]
  OBVIOUS
<1>3. /\ engine[a] = [pc |-> "body", evts |-> engine[a].evts, id |-> 0]
      /\ engine[a].evts \in Seq(Events) /\ \A x \in ToSet(engine[a].evts) : IsRight(a, x)
  BY InBody DEF CallProcedure
<1>4. e \in Events /\ IsRight(a, e)
  BY <1>2 DEF Events, Procedures, IsRight
<1>5. PICK evts : evts = Append(engine[a].evts, e)
  OBVIOUS
<1>6. evts \in Seq(Events) /\ evts # <<>> /\ ToSet(evts) = ToSet(engine[a].evts) \cup {e}
  <2> DEFINE E == Events
  <2>1. engine[a].evts \in Seq(E) /\ e \in E
    BY <1>3, <1>4
  <2> HIDE DEF E
  <2>2. evts \in Seq(E) /\ evts # <<>> /\ ToSet(evts) = ToSet(engine[a].evts) \cup {e}
    BY <1>5, <2>1, AppendHolds, AppendProperties
  <2>3. QED
    BY <2>2 DEF E
<1>7. engine' = [engine EXCEPT ![a] = [pc |-> "body", evts |-> evts, id |-> 0]]
  <2>1. [engine[a] EXCEPT !.evts = evts] = [pc |-> "body", evts |-> evts, id |-> 0]
    BY <1>3
  <2>2. QED
    BY <1>1, <1>2, <1>5, <2>1
<1>8. UNCHANGED <<status, main, registry, accepted, started, inbox, kb, server, conns, sends>>
  BY DEF CallProcedure, agentVars
<1>9. QED
  BY <1>3, <1>4, <1>6, <1>7, <1>8, BodyOnly

LEMMA BodyReturnsKeeps ==
  ASSUME Parts, NEW a \in Agents, BodyReturns(a)
  PROVE  Parts'
<1>1. /\ EngineAt(a, "body")
      /\ engine' = [engine EXCEPT ![a] =
                      IF Len(@.evts) = 1 THEN Idle
                      ELSE [@ EXCEPT !.evts = Front(engine[a].evts)]]
      /\ UNCHANGED <<status, main, registry, accepted, started, inbox, kb, server, conns, sends>>
  BY DEF BodyReturns, agentVars
<1>2. /\ engine[a] = [pc |-> "body", evts |-> engine[a].evts, id |-> 0]
      /\ engine[a].evts \in Seq(Events) /\ engine[a].evts # <<>>
      /\ Len(engine[a].evts) \in Nat \ {0}
      /\ \A e \in ToSet(engine[a].evts) : IsRight(a, e)
  BY <1>1, InBody
<1>3. CASE Len(engine[a].evts) = 1
  <2>1. engine' = [engine EXCEPT ![a] = [pc |-> "idle", evts |-> <<>>, id |-> 0]]
    BY <1>1, <1>3 DEF Idle
  <2>2. <<>> \in Seq(Events) /\ ToSet(<<>>) = {}
    BY EmptyHolds
  <2>3. QED
    BY <1>1, <2>1, <2>2, BodyOnly
<1>4. CASE Len(engine[a].evts) # 1
  <2>1. PICK evts : evts = Front(engine[a].evts)
    OBVIOUS
  <2>2. /\ evts \in Seq(Events) /\ Len(evts) = Len(engine[a].evts) - 1
        /\ \A i \in 1 .. Len(engine[a].evts) - 1 : evts[i] = engine[a].evts[i]
    <3> DEFINE E == Events
    <3>1. engine[a].evts \in Seq(E)
      BY <1>2
    <3> HIDE DEF E
    <3>2. /\ evts \in Seq(E) /\ Len(evts) = Len(engine[a].evts) - 1
          /\ \A i \in 1 .. Len(engine[a].evts) - 1 : evts[i] = engine[a].evts[i]
      BY <1>2, <2>1, <3>1, FrontHolds
    <3>3. QED
      BY <3>2 DEF E
  <2>3. evts # <<>> /\ \A e \in ToSet(evts) : e \in ToSet(engine[a].evts)
    <3>1. Len(evts) # 0
      BY <1>2, <1>4, <2>2
    <3>2. DOMAIN evts = 1 .. Len(engine[a].evts) - 1
      BY <2>2
    <3>3. DOMAIN engine[a].evts = 1 .. Len(engine[a].evts)
      BY <1>2
    <3>4. ASSUME NEW i \in DOMAIN evts PROVE evts[i] \in ToSet(engine[a].evts)
      <4>1. i \in DOMAIN engine[a].evts /\ evts[i] = engine[a].evts[i]
        BY <1>2, <2>2, <3>2, <3>3
      <4>2. QED
        BY <4>1 DEF ToSet
    <3>5. QED
      BY <3>1, <3>4 DEF ToSet
  <2>4. engine' = [engine EXCEPT ![a] = [pc |-> "body", evts |-> evts, id |-> 0]]
    <3>1. [engine[a] EXCEPT !.evts = evts] = [pc |-> "body", evts |-> evts, id |-> 0]
      BY <1>2
    <3>2. (IF Len(engine[a].evts) = 1 THEN Idle
           ELSE [engine[a] EXCEPT !.evts = Front(engine[a].evts)])
            = [pc |-> "body", evts |-> evts, id |-> 0]
      BY <1>4, <2>1, <3>1
    <3> DEFINE next == IF Len(engine[a].evts) = 1 THEN Idle
                       ELSE [engine[a] EXCEPT !.evts = Front(engine[a].evts)]
    <3>3. engine' = [engine EXCEPT ![a] = next]
      BY <1>1
    <3>4. next = [pc |-> "body", evts |-> evts, id |-> 0]
      BY <3>2
    <3> HIDE DEF next
    <3>5. QED
      BY <3>3, <3>4
  <2>5. QED
    BY <1>1, <1>2, <2>2, <2>3, <2>4, BodyOnly
<1>5. QED
  BY <1>3, <1>4

(***************************************************************************)
(* Sending.                                                                *)
(***************************************************************************)
LEMMA MessageTypes ==
  ASSUME Parts, NEW a \in Agents, NEW r \in Routes, EngineAt(a, "body")
  PROVE  /\ Message(a, r) \in Sends /\ Message(a, r).from = a
         /\ Message(a, r).arrived = 0 /\ Message(a, r).lost = FALSE
<1>1. Destination(a, r) \in Address
  <2>1. evt(a) \in Events
    BY InBody
  <2>2. evt(a).sender \in Address
    BY <2>1 DEF Events, NoSender, Address
  <2>3. QED
    BY <2>2, RouteAssumption DEF Destination
<1>2. r.msg \in Messages
  BY DEF Messages
<1>3. QED
  BY <1>1, <1>2 DEF Message, Sends

LEMMA Sent ==
  ASSUME SendsOK, Len(sends) < MaxSends, NEW m \in Sends, sends' = Append(sends, m)
  PROVE  /\ SendsGrow /\ sends'[Len(sends) + 1] = m /\ Len(sends') = Len(sends) + 1
         /\ Len(sends) \in Nat /\ DOMAIN sends' = 1 .. Len(sends) + 1
         /\ DOMAIN sends = 1 .. Len(sends)
         /\ \A id \in DOMAIN sends : sends'[id] = sends[id]
<1>1. sends \in Seq(Sends) /\ Len(sends) \in Nat
  BY DEF SendsOK
<1> DEFINE S == Sends
<1>2. sends \in Seq(S) /\ m \in S
  BY <1>1
<1> HIDE DEF S
<1>3. /\ sends' \in Seq(S) /\ Len(sends') = Len(sends) + 1
      /\ sends'[Len(sends) + 1] = m /\ \A i \in 1 .. Len(sends) : sends'[i] = sends[i]
  BY <1>2, AppendProperties
<1>4. DOMAIN sends' = 1 .. Len(sends) + 1 /\ DOMAIN sends = 1 .. Len(sends)
  BY <1>2, <1>3
<1>5. SendsOK'
  BY <1>1, <1>3, BoundAssumption DEF SendsOK, S, Sends, Messages
<1>6. QED
  BY <1>1, <1>3, <1>4, <1>5 DEF SendsGrow

LEMMA PutKeeps ==
  ASSUME Parts, SendsGrow, NEW id, NEW msg, NEW to \in Agents, NEW sender,
         PutMessage(id, msg, to, sender),
         [msg |-> msg, id |-> id, sender |-> sender] \in Events',
         IsRight(to, [msg |-> msg, id |-> id, sender |-> sender])',
         status' \in [Processes -> {"up", "returned", "terminated"}], UNCHANGED main
  PROVE  /\ MainOK' /\ \A b \in Agents : inbox'[b] = inbox[b] \/ InboxOK(b)'
         /\ DOMAIN inbox' = Agents /\ inbox' = [b \in Agents |-> inbox'[b]]
<1>1. MainOK'
  BY DEF PutMessage, Parts, MainOK
<1>2. CASE msg \in kb[to]
  BY <1>1, <1>2 DEF PutMessage, Parts, Shapes
<1>3. CASE msg \notin kb[to]
  <2>1. PICK e : e = [msg |-> msg, id |-> id, sender |-> sender]
    OBVIOUS
  <2>2. inbox' = [inbox EXCEPT ![to] = Append(@, e)]
    BY <1>3, <2>1 DEF PutMessage
  <2>3. e \in Events' /\ IsRight(to, e)'
    BY <2>1
  <2>4. QED
    BY <1>1, <2>2, <2>3, InboxGrows
<1>4. QED
  BY <1>2, <1>3

LEMMA SendLocalKeeps ==
  ASSUME Parts, NEW a \in Agents, SendLocal(a)
  PROVE  Parts'
<1>1. PICK r \in Routes :
        LET m  == Message(a, r)
            id == Len(sends) + 1
        IN  /\ Sending(a, r)
            /\ m.to.process = Here
            /\ UNCHANGED engine
            /\ IF Deliverable(Home[a], m.msg, m.to.agent)
               THEN /\ PutMessage(id, m.msg, m.to.agent, [process |-> Here, agent |-> a])
                    /\ sends' = Append(sends, [m EXCEPT !.arrived = 1])
                    /\ UNCHANGED <<status, conns>>
               ELSE /\ Stop(Home[a], "terminated")
                    /\ sends' = Append(sends, [m EXCEPT !.lost = TRUE])
                    /\ UNCHANGED agentVars
  BY DEF SendLocal
<1>2. PICK m, id : m = Message(a, r) /\ id = Len(sends) + 1
  OBVIOUS
<1>3. /\ EngineAt(a, "body") /\ Len(sends) < MaxSends /\ m.to.process = Here
      /\ UNCHANGED <<engine, main, server>>
  BY <1>1, <1>2 DEF Sending
<1>4. m \in Sends /\ m.from = a /\ SendsOK
  BY <1>2, <1>3, MessageTypes DEF Parts
<1>5. CASE Deliverable(Home[a], m.msg, m.to.agent)
  <2>1. PICK s, to, sender : /\ s = [m EXCEPT !.arrived = 1] /\ to = m.to.agent
                             /\ sender = [process |-> Here, agent |-> a]
    OBVIOUS
  <2>2. /\ PutMessage(id, m.msg, to, sender) /\ sends' = Append(sends, s)
        /\ UNCHANGED <<status, conns>>
    BY <1>1, <1>2, <1>5, <2>1
  <2>3. s \in Sends /\ s.from = a /\ s.to = m.to /\ s.msg = m.msg
    BY <1>4, <2>1 DEF Sends
  <2>4. SendsGrow /\ sends'[id] = s /\ id \in DOMAIN sends' /\ id # 0
    BY <1>2, <1>3, <1>4, <2>2, <2>3, Sent
  <2>5. to \in Agents /\ Home[to] = Home[a] /\ Home[a] \in Processes
    BY <1>5, <2>1, HomeAssumption DEF Deliverable, Parts, MainOK
  <2>6. [msg |-> m.msg, id |-> id, sender |-> sender] \in Events'
    BY <1>4, <2>1, <2>4 DEF Events, Sends, Address
  <2>7. m.to = [process |-> Here, agent |-> to]
    BY <1>3, <1>4, <2>1 DEF Sends, Address
  <2>8. IsRight(to, [msg |-> m.msg, id |-> id, sender |-> sender])'
    <3>1. /\ Resolve(s.to, Home[s.from]) = [process |-> Home[to], agent |-> to]
          /\ Resolve(sender, Home[to]) = [process |-> Home[s.from], agent |-> s.from]
      BY <2>1, <2>3, <2>5, <2>7 DEF Resolve
    <3>2. QED
      BY <2>3, <2>4, <3>1 DEF IsRight
  <2>9. status' \in [Processes -> {"up", "returned", "terminated"}]
    BY <2>2 DEF Parts, MainOK
  <2>10. /\ MainOK' /\ \A b \in Agents : inbox'[b] = inbox[b] \/ InboxOK(b)'
         /\ DOMAIN inbox' = Agents /\ inbox' = [b \in Agents |-> inbox'[b]]
    BY <1>3, <2>2, <2>4, <2>5, <2>6, <2>8, <2>9, PutKeeps
  <2>11. ConnsOK'
    BY <1>4, <2>2, <2>4, ConnsUnchanged DEF Parts
  <2>12. Shapes'
    BY <1>3, <2>10 DEF Parts, Shapes
  <2>13. QED
    BY <1>3, <2>4, <2>10, <2>11, <2>12, Framed
<1>6. CASE ~ Deliverable(Home[a], m.msg, m.to.agent)
  <2>1. PICK s : s = [m EXCEPT !.lost = TRUE]
    OBVIOUS
  <2>2. Stop(Home[a], "terminated") /\ sends' = Append(sends, s) /\ UNCHANGED agentVars
    BY <1>1, <1>2, <1>6, <2>1
  <2>3. s \in Sends
    BY <1>4, <2>1 DEF Sends
  <2>4. SendsGrow /\ Home[a] \in Processes
    BY <1>3, <1>4, <2>2, <2>3, Sent, HomeAssumption
  <2>5. status' \in [Processes -> {"up", "returned", "terminated"}] /\ ConnsOK'
    BY <2>2, <2>4, Stopped
  <2>6. MainOK'
    BY <1>3, <2>2, <2>5 DEF Parts, MainOK, agentVars
  <2>7. Shapes' /\ UNCHANGED inbox
    BY <1>3, <2>2 DEF Parts, Shapes, agentVars
  <2>8. QED
    BY <1>3, <2>4, <2>5, <2>6, <2>7, Framed
<1>7. QED
  BY <1>5, <1>6

LEMMA SendRemoteKeeps ==
  ASSUME Parts, NEW a \in Agents, SendRemote(a)
  PROVE  Parts'
<1>1. PICK r \in Routes :
        LET m == Message(a, r) IN
          /\ Sending(a, r)
          /\ m.to.process # Here
          /\ UNCHANGED agentVars
          /\ IF server[Home[a]].pc # "off"
             THEN /\ engine' = [engine EXCEPT ![a].pc = "connect", ![a].id = Len(sends) + 1]
                  /\ sends' = Append(sends, m)
                  /\ UNCHANGED <<status, conns>>
             ELSE /\ Stop(Home[a], "terminated")
                  /\ sends' = Append(sends, [m EXCEPT !.lost = TRUE])
                  /\ UNCHANGED engine
  BY DEF SendRemote
<1>2. PICK m, id : m = Message(a, r) /\ id = Len(sends) + 1
  OBVIOUS
<1>3. /\ EngineAt(a, "body") /\ Len(sends) < MaxSends /\ m.to.process # Here
      /\ UNCHANGED <<main, server, agentVars>>
  BY <1>1, <1>2 DEF Sending
<1>4. m \in Sends /\ m.from = a /\ SendsOK
  BY <1>2, <1>3, MessageTypes DEF Parts
<1>5. CASE server[Home[a]].pc # "off"
  <2>1. /\ engine' = [engine EXCEPT ![a].pc = "connect", ![a].id = id]
        /\ sends' = Append(sends, m) /\ UNCHANGED <<status, conns>>
    BY <1>1, <1>2, <1>5
  <2>2. /\ SendsGrow /\ sends'[id] = m /\ id # 0 /\ id \in 0 .. Len(sends')
    BY <1>2, <1>3, <1>4, <2>1, Sent
  <2>3. /\ engine[a] = [pc |-> "body", evts |-> engine[a].evts, id |-> 0]
        /\ engine[a].evts \in Seq(Events) /\ engine[a].evts # <<>>
        /\ \A e \in ToSet(engine[a].evts) : IsRight(a, e)
    BY <1>3, InBody
  <2>4. engine'[a] = [pc |-> "connect", evts |-> engine[a].evts, id |-> id]
    <3>1. engine'[a] = [engine[a] EXCEPT !.pc = "connect", !.id = id]
      BY <2>1 DEF Parts, Shapes
    <3>2. QED
      BY <2>3, <3>1
  <2>5. /\ Seq(Events) \subseteq Seq(Events')
        /\ \A e \in Events : IsRight(a, e) => IsRight(a, e)'
    BY <1>4, <2>2, GrowTypes
  <2>6. \A e \in ToSet(engine[a].evts) : e \in Events
    BY <2>3 DEF ToSet
  <2>7. \A e \in ToSet(engine'[a].evts) : IsRight(a, e)'
    BY <2>3, <2>4, <2>5, <2>6
  <2>8. engine'[a] \in EngineStates'
    BY <2>2, <2>3, <2>4, <2>5 DEF EngineStates
  <2>9. m.to.process \in Processes
    BY <1>3, <1>4 DEF Sends, Address
  <2>10. EngineOK(a)'
    BY <1>4, <2>2, <2>3, <2>4, <2>7, <2>8, <2>9 DEF EngineOK
  <2>11. MainOK' /\ Shapes' /\ UNCHANGED inbox
    BY <1>3, <2>1 DEF Parts, MainOK, Shapes, agentVars
  <2>12. ConnsOK'
    BY <1>4, <2>1, <2>2, ConnsUnchanged DEF Parts
  <2>13. \A b \in Agents : engine'[b] = engine[b] \/ EngineOK(b)'
    BY <2>1, <2>10 DEF Parts, Shapes
  <2>14. QED
    BY <1>3, <2>2, <2>11, <2>12, <2>13, Framed
<1>6. CASE server[Home[a]].pc = "off"
  <2>1. PICK s : s = [m EXCEPT !.lost = TRUE]
    OBVIOUS
  <2>2. Stop(Home[a], "terminated") /\ sends' = Append(sends, s) /\ UNCHANGED engine
    BY <1>1, <1>2, <1>6, <2>1
  <2>3. s \in Sends
    BY <1>4, <2>1 DEF Sends
  <2>4. SendsGrow /\ Home[a] \in Processes
    BY <1>3, <1>4, <2>2, <2>3, Sent, HomeAssumption
  <2>5. status' \in [Processes -> {"up", "returned", "terminated"}] /\ ConnsOK'
    BY <2>2, <2>4, Stopped
  <2>6. MainOK'
    BY <1>3, <2>2, <2>5 DEF Parts, MainOK, agentVars
  <2>7. Shapes' /\ UNCHANGED inbox
    BY <1>3, <2>2 DEF Parts, Shapes, agentVars
  <2>8. QED
    BY <1>3, <2>2, <2>4, <2>5, <2>6, <2>7, Framed
<1>7. QED
  BY <1>5, <1>6

(***************************************************************************)
(* TCPProtocol::send_message.                                              *)
(***************************************************************************)
\* Something is learnt of the message id.
LEMMA Learnt ==
  ASSUME SendsOK, NEW id \in DOMAIN sends, NEW s \in Sends, sends' = [sends EXCEPT ![id] = s],
         s.from = sends[id].from, s.to = sends[id].to, s.msg = sends[id].msg
  PROVE  /\ SendsGrow /\ DOMAIN sends' = DOMAIN sends /\ Len(sends') = Len(sends)
         /\ sends'[id] = s /\ \A j \in DOMAIN sends : j # id => sends'[j] = sends[j]
<1>1. /\ sends \in Seq(Sends) /\ Len(sends) \in Nat /\ Len(sends) <= MaxSends
      /\ DOMAIN sends = 1 .. Len(sends)
  BY DEF SendsOK
<1> DEFINE S == Sends
<1>2. sends \in Seq(S) /\ s \in S
  BY <1>1
<1> HIDE DEF S
<1>3. sends' \in Seq(S) /\ Len(sends') = Len(sends) /\ DOMAIN sends' = DOMAIN sends
  BY <1>2, ExceptSeq
<1>4. sends'[id] = s /\ \A j \in DOMAIN sends : j # id => sends'[j] = sends[j]
  OBVIOUS
<1>5. SendsOK'
  BY <1>1, <1>3 DEF SendsOK, S, Sends, Messages
<1>6. QED
  BY <1>3, <1>4, <1>5 DEF SendsGrow

LEMMA WithMessage ==
  ASSUME Parts, NEW a \in Agents, EngineAt(a, "connect") \/ EngineAt(a, "send")
  PROVE  /\ engine[a] \in EngineStates /\ engine[a].evts # <<>>
         /\ engine[a].pc \in {"connect", "send"} /\ engine[a].id \in DOMAIN sends
         /\ sends[engine[a].id] \in Sends /\ sends[engine[a].id].from = a
         /\ Peer(a) = sends[engine[a].id].to.process /\ Peer(a) \in Processes
         /\ DOMAIN sends = 1 .. Len(sends)
<1>1. /\ engine[a] \in EngineStates /\ engine[a].pc \in {"connect", "send"}
      /\ engine[a].id # 0 /\ engine[a].evts # <<>>
      /\ sends[engine[a].id].from = a /\ sends[engine[a].id].to.process \in Processes
  BY DEF Parts, EngineOK, EngineAt
<1>2. sends \in Seq(Sends) /\ Len(sends) \in Nat /\ DOMAIN sends = 1 .. Len(sends)
  BY DEF Parts, SendsOK
<1>3. engine[a].id \in DOMAIN sends
  BY <1>1, <1>2 DEF EngineStates
<1> DEFINE S == Sends
<1>4. sends \in Seq(S)
  BY <1>2
<1> HIDE DEF S
<1>5. sends[engine[a].id] \in S
  BY <1>3, <1>4
<1>6. QED
  BY <1>1, <1>2, <1>3, <1>5 DEF Peer, S

\* SendReturns, and the way from connect to send.
LEMMA EngineMoves ==
  ASSUME Parts, SendsGrow, NEW a \in Agents, EngineAt(a, "connect") \/ EngineAt(a, "send"),
         NEW r, \/ r = [engine[a] EXCEPT !.pc = "body", !.id = 0]
                \/ r = [engine[a] EXCEPT !.pc = "send"],
         engine' = [engine EXCEPT ![a] = r]
  PROVE  /\ \A b \in Agents : engine'[b] = engine[b] \/ EngineOK(b)'
         /\ DOMAIN engine' = Agents /\ engine' = [b \in Agents |-> engine'[b]]
<1>1. /\ engine[a] \in EngineStates /\ engine[a].evts # <<>>
      /\ engine[a].pc \in {"connect", "send"} /\ engine[a].id \in DOMAIN sends
      /\ engine[a].id \in 1 .. Len(sends)
      /\ sends[engine[a].id].from = a /\ sends[engine[a].id].to.process \in Processes
  BY WithMessage
<1>2. /\ Seq(Events) \subseteq Seq(Events') /\ 0 .. Len(sends) \subseteq 0 .. Len(sends')
      /\ \A e \in Events : IsRight(a, e) => IsRight(a, e)' /\ Len(sends) \in Nat
  BY GrowTypes DEF Parts
<1>3. /\ engine'[a] = r /\ \A b \in Agents : b # a => engine'[b] = engine[b]
      /\ DOMAIN engine' = Agents /\ engine' = [b \in Agents |-> engine'[b]]
  BY DEF Parts, Shapes
<1>4. /\ engine[a].evts \in Seq(Events)
      /\ \A e \in ToSet(engine[a].evts) : e \in Events /\ IsRight(a, e)
  <2>1. engine[a].evts \in Seq(Events)
    BY <1>1 DEF EngineStates
  <2>2. \A e \in ToSet(engine[a].evts) : e \in Events
    BY <2>1 DEF ToSet
  <2>3. QED
    BY <2>1, <2>2 DEF Parts, EngineOK
<1>5. /\ r.evts = engine[a].evts
      /\ (r.pc = "body" /\ r.id = 0) \/ (r.pc = "send" /\ r.id = engine[a].id)
      /\ r = [pc |-> r.pc, evts |-> r.evts, id |-> r.id]
  <2>1. engine[a] = [pc |-> engine[a].pc, evts |-> engine[a].evts, id |-> engine[a].id]
    BY <1>1 DEF EngineStates
  <2>2. \/ r = [pc |-> "body", evts |-> engine[a].evts, id |-> 0]
        \/ r = [pc |-> "send", evts |-> engine[a].evts, id |-> engine[a].id]
    BY <2>1
  <2>3. CASE r = [pc |-> "body", evts |-> engine[a].evts, id |-> 0]
    BY <2>3
  <2>4. CASE r = [pc |-> "send", evts |-> engine[a].evts, id |-> engine[a].id]
    BY <2>4
  <2>5. QED
    BY <2>2, <2>3, <2>4
<1>6. r \in EngineStates'
  <2>1. r.evts \in Seq(Events')
    BY <1>2, <1>4, <1>5
  <2>2. r.id \in 0 .. Len(sends')
    BY <1>1, <1>2, <1>5
  <2>3. QED
    BY <1>5, <2>1, <2>2 DEF EngineStates
<1>7. \A e \in ToSet(r.evts) : IsRight(a, e)'
  BY <1>2, <1>4, <1>5
<1>8. r.id # 0 => sends'[r.id].from = a /\ sends'[r.id].to.process \in Processes
  BY <1>1, <1>5 DEF SendsGrow
<1>9. r.id # 0 <=> r.pc \in {"connect", "send"}
  BY <1>1, <1>5
<1>10. EngineOK(a)'
  BY <1>1, <1>3, <1>5, <1>6, <1>7, <1>8, <1>9 DEF EngineOK
<1>11. QED
  BY <1>3, <1>10

LEMMA ConnectKeeps ==
  ASSUME Parts, NEW a \in Agents, Connect(a)
  PROVE  Parts'
<1>1. PICK c, r : /\ c = [id |-> engine[a].id, to |-> Peer(a), accepted |-> FALSE, data |-> "none"]
                  /\ r = [engine[a] EXCEPT !.pc = "send"]
  OBVIOUS
<1>2. /\ EngineAt(a, "connect")
      /\ conns' = Append(conns, c)
      /\ engine' = [engine EXCEPT ![a] = r]
      /\ UNCHANGED <<status, main, registry, accepted, started, inbox, kb, server, sends>>
  BY <1>1 DEF Connect, agentVars
<1>3. MainOK' /\ SendsGrow
  BY <1>2, Quiet
<1>4. /\ \A b \in Agents : engine'[b] = engine[b] \/ EngineOK(b)'
      /\ DOMAIN engine' = Agents /\ engine' = [b \in Agents |-> engine'[b]]
  BY <1>1, <1>2, <1>3, EngineMoves, Zenon
<1>5. c \in Connections /\ ToProcess(c.id, c.to)
  BY <1>1, <1>2, WithMessage DEF Connections, ToProcess
<1>6. ConnsOK'
  <2> DEFINE C == Connections
  <2>1. conns \in Seq(C) /\ c \in C /\ \A i \in DOMAIN conns : ToProcess(conns[i].id, conns[i].to)
    BY <1>5 DEF Parts, ConnsOK
  <2> HIDE DEF C
  <2>2. /\ conns' \in Seq(C) /\ Len(conns') = Len(conns) + 1 /\ conns'[Len(conns) + 1] = c
        /\ Len(conns) \in Nat
        /\ \A i \in 1 .. Len(conns) : conns'[i] = conns[i] /\ i \in DOMAIN conns
    BY <1>2, <2>1, AppendProperties
  <2>3. C' = C
    BY <1>2 DEF C, Connections
  <2>4. ASSUME NEW i \in DOMAIN conns'
        PROVE  conns'[i].id # 0 => sends'[conns'[i].id].to.process = conns'[i].to
    <3>1. i = Len(conns) + 1 \/ i \in 1 .. Len(conns)
      BY <2>2
    <3>2. CASE i = Len(conns) + 1
      BY <1>2, <1>5, <2>2, <3>2 DEF ToProcess
    <3>3. CASE i \in 1 .. Len(conns)
      BY <1>2, <2>1, <2>2, <3>3 DEF ToProcess
    <3>4. QED
      BY <3>1, <3>2, <3>3
  <2>5. QED
    BY <2>2, <2>3, <2>4 DEF ConnsOK, ToProcess, C
<1>7. Shapes'
  BY <1>2, <1>4 DEF Parts, Shapes
<1>8. QED
  BY <1>2, <1>3, <1>4, <1>6, <1>7, Framed

LEMMA ConnectFailsKeeps ==
  ASSUME Parts, NEW a \in Agents, ConnectFails(a)
  PROVE  Parts'
<1>1. PICK s, r : /\ s = [sends[engine[a].id] EXCEPT !.lost = TRUE]
                  /\ r = [engine[a] EXCEPT !.pc = "body", !.id = 0]
  OBVIOUS
<1>2. /\ EngineAt(a, "connect")
      /\ sends' = [sends EXCEPT ![engine[a].id] = s]
      /\ engine' = [engine EXCEPT ![a] = r]
      /\ UNCHANGED <<status, main, registry, accepted, started, inbox, kb, server, conns>>
  BY <1>1 DEF ConnectFails, SendReturns, agentVars
<1>3. engine[a].id \in DOMAIN sends /\ sends[engine[a].id] \in Sends
  BY <1>2, WithMessage
<1>4. /\ s \in Sends /\ s.from = sends[engine[a].id].from /\ s.to = sends[engine[a].id].to
      /\ s.msg = sends[engine[a].id].msg
  BY <1>1, <1>3 DEF Sends
<1>5. SendsGrow
  BY <1>2, <1>3, <1>4, Learnt DEF Parts
<1>6. /\ \A b \in Agents : engine'[b] = engine[b] \/ EngineOK(b)'
      /\ DOMAIN engine' = Agents /\ engine' = [b \in Agents |-> engine'[b]]
  BY <1>1, <1>2, <1>5, EngineMoves, Zenon
<1>7. ConnsOK' /\ MainOK' /\ Shapes'
  BY <1>2, <1>5, <1>6, ConnsUnchanged DEF Parts, MainOK, Shapes
<1>8. QED
  BY <1>2, <1>5, <1>6, <1>7, Framed

LEMMA SendPacketKeeps ==
  ASSUME Parts, NEW a \in Agents, SendPacket(a)
  PROVE  Parts'
<1>1. PICK s, r : /\ s = [sends[engine[a].id] EXCEPT !.lost = TRUE]
                  /\ r = [engine[a] EXCEPT !.pc = "body", !.id = 0]
  OBVIOUS
<1>2. /\ EngineAt(a, "send")
      /\ conns' = [i \in DOMAIN conns |->
                     IF conns[i].id = engine[a].id THEN [conns[i] EXCEPT !.data = "packet"]
                                                   ELSE conns[i]]
      /\ sends' = sends \/ sends' = [sends EXCEPT ![engine[a].id] = s]
      /\ engine' = [engine EXCEPT ![a] = r]
      /\ UNCHANGED <<status, main, registry, accepted, started, inbox, kb, server>>
  BY <1>1 DEF SendPacket, SendReturns, agentVars
<1>3. engine[a].id \in DOMAIN sends /\ sends[engine[a].id] \in Sends
  BY <1>2, WithMessage
<1>4. /\ s \in Sends /\ s.from = sends[engine[a].id].from /\ s.to = sends[engine[a].id].to
      /\ s.msg = sends[engine[a].id].msg
  BY <1>1, <1>3 DEF Sends
<1>5. SendsGrow
  BY <1>2, <1>3, <1>4, Learnt, SendsSame DEF Parts
<1>6. /\ \A b \in Agents : engine'[b] = engine[b] \/ EngineOK(b)'
      /\ DOMAIN engine' = Agents /\ engine' = [b \in Agents |-> engine'[b]]
  BY <1>1, <1>2, <1>5, EngineMoves, Zenon
<1>7. ConnsOK'
  <2>1. /\ SendsOK /\ ConnsOK /\ conns \in Seq(Connections)
        /\ Len(conns) \in Nat /\ DOMAIN conns = 1 .. Len(conns)
    BY DEF Parts, ConnsOK
  <2>2. /\ Len(conns') = Len(conns)
        /\ conns' = [i \in 1 .. Len(conns') |-> conns'[i]]
    BY <1>2, <2>1
  <2>3. ASSUME NEW i \in 1 .. Len(conns')
        PROVE  /\ conns'[i] \in Connections
               /\ \E j \in DOMAIN conns : conns'[i].id = conns[j].id /\ conns'[i].to = conns[j].to
    <3>1. i \in DOMAIN conns /\ conns[i] \in Connections
      BY <2>1, <2>2
    <3>2. conns'[i] = conns[i] \/ conns'[i] = [conns[i] EXCEPT !.data = "packet"]
      BY <1>2, <3>1
    <3>3. /\ conns'[i] \in Connections
          /\ conns'[i].id = conns[i].id /\ conns'[i].to = conns[i].to
      BY <3>1, <3>2 DEF Connections
    <3>4. QED
      BY <3>1, <3>3
  <2>4. QED
    BY <1>5, <2>1, <2>2, <2>3, ConnsStay
<1>8. MainOK' /\ Shapes'
  BY <1>2, <1>6 DEF Parts, MainOK, Shapes
<1>9. QED
  BY <1>2, <1>5, <1>6, <1>7, <1>8, Framed

(***************************************************************************)
(* TCPProtocol::run.                                                       *)
(***************************************************************************)
\* A server moves on with messages to its process.
LEMMA ServerMoves ==
  ASSUME Parts, SendsGrow, NEW p \in Processes, NEW s, server' = [server EXCEPT ![p] = s],
         s \in ServerStates, ToProcess(s.conn, p), ToProcess(s.last, p),
         s.pc = "put" => s.last # 0
  PROVE  /\ \A q \in Processes : server'[q] = server[q] \/ ServerOK(q)'
         /\ DOMAIN server' = Processes /\ server' = [q \in Processes |-> server'[q]]
<1>1. /\ server'[p] = s /\ \A q \in Processes : q # p => server'[q] = server[q]
      /\ DOMAIN server' = Processes /\ server' = [q \in Processes |-> server'[q]]
  BY DEF Parts, Shapes
<1>2. /\ 0 .. Len(sends) \subseteq 0 .. Len(sends')
      /\ \A id \in 0 .. Len(sends) : ToProcess(id, p) => ToProcess(id, p)'
  BY GrowTypes DEF Parts
<1>3. s.conn \in 0 .. Len(sends) /\ s.last \in 0 .. Len(sends) /\ s \in ServerStates'
  BY <1>2 DEF ServerStates
<1>4. ToProcess(s.conn, p)' /\ ToProcess(s.last, p)'
  BY <1>2, <1>3
<1>5. ServerOK(p)'
  BY <1>1, <1>3, <1>4 DEF ServerOK, ToProcess
<1>6. QED
  BY <1>1, <1>5

LEMMA ListenKeeps ==
  ASSUME Parts, NEW p \in Processes, Listen(p)
  PROVE  Parts'
<1>1. PICK s : s = [server[p] EXCEPT !.pc = "accept"]
  OBVIOUS
<1>2. /\ server' = [server EXCEPT ![p] = s]
      /\ UNCHANGED <<status, main, registry, accepted, started, inbox, kb, engine, conns, sends>>
  BY <1>1 DEF Listen, agentVars
<1>3. MainOK' /\ SendsGrow /\ ConnsOK'
  BY <1>2, Quiet
<1>4. server[p] \in ServerStates /\ ToProcess(server[p].conn, p) /\ ToProcess(server[p].last, p)
  BY DEF Parts, ServerOK
<1>5. s \in ServerStates /\ s.conn = server[p].conn /\ s.last = server[p].last /\ s.pc # "put"
  BY <1>1, <1>4 DEF ServerStates
<1>6. /\ \A q \in Processes : server'[q] = server[q] \/ ServerOK(q)'
      /\ DOMAIN server' = Processes /\ server' = [q \in Processes |-> server'[q]]
  BY <1>2, <1>3, <1>4, <1>5, ServerMoves
<1>7. Shapes'
  BY <1>2, <1>6 DEF Parts, Shapes
<1>8. QED
  BY <1>2, <1>3, <1>6, <1>7, Framed

\* The connection that Accept takes.
LEMMA FirstWaiting ==
  ASSUME Parts, NEW p \in Processes, Waiting(p) # {}
  PROVE  Nth(Waiting(p), 1) \in Waiting(p)
<1>1. conns \in Seq(Connections) /\ Len(conns) \in Nat /\ DOMAIN conns = 1 .. Len(conns)
  BY DEF Parts, ConnsOK
<1>2. Waiting(p) \in SUBSET DOMAIN conns /\ Waiting(p) \in SUBSET Nat
  BY <1>1 DEF Waiting
<1>3. IsFiniteSet(Waiting(p))
  <2>1. IsFiniteSet(1 .. Len(conns))
    BY <1>1, FS_Interval
  <2>2. QED
    BY <1>1, <1>2, <2>1, FS_Subset
<1>4. Cardinality(Waiting(p)) \in Nat /\ Cardinality(Waiting(p)) # 0
  BY <1>3, FS_CardinalityType, FS_EmptySet
<1>5. 1 \in 1 .. Cardinality(Waiting(p))
  BY <1>4
<1>6. QED
  BY <1>2, <1>3, <1>5, NthMember

LEMMA AcceptKeeps ==
  ASSUME Parts, NEW p \in Processes, Accept(p)
  PROVE  Parts'
<1>1. PICK i : i = Nth(Waiting(p), 1)
  OBVIOUS
<1>2. PICK s, c : /\ s = [server[p] EXCEPT !.pc = "read", !.conn = conns[i].id]
                  /\ c = [conns[i] EXCEPT !.accepted = TRUE]
  OBVIOUS
<1>3. /\ server' = [server EXCEPT ![p] = s]
      /\ conns' = [conns EXCEPT ![i] = c]
      /\ UNCHANGED <<status, main, registry, accepted, started, inbox, kb, engine, sends>>
      /\ Waiting(p) # {}
  BY <1>1, <1>2 DEF Accept, agentVars
<1>4. i \in DOMAIN conns /\ conns[i].to = p
  BY <1>1, <1>3, FirstWaiting DEF Waiting
<1>5. /\ conns \in Seq(Connections) /\ conns[i] \in Connections /\ SendsOK /\ ConnsOK
      /\ Len(conns) \in Nat /\ DOMAIN conns = 1 .. Len(conns)
      /\ ToProcess(conns[i].id, p) /\ DOMAIN sends = 1 .. Len(sends) /\ Len(sends) \in Nat
  BY <1>4 DEF Parts, ConnsOK, SendsOK
<1>6. MainOK' /\ SendsGrow
  BY <1>3, Quiet
<1>7. /\ server[p] \in ServerStates /\ ToProcess(server[p].last, p)
      /\ conns[i].id \in 0 .. Len(sends)
  BY <1>5 DEF Parts, ServerOK, Connections
<1>8. s \in ServerStates /\ s.conn = conns[i].id /\ s.last = server[p].last /\ s.pc # "put"
  BY <1>2, <1>7 DEF ServerStates
<1>9. /\ \A q \in Processes : server'[q] = server[q] \/ ServerOK(q)'
      /\ DOMAIN server' = Processes /\ server' = [q \in Processes |-> server'[q]]
  BY <1>3, <1>5, <1>6, <1>7, <1>8, ServerMoves
<1>10. ConnsOK'
  <2>1. Len(conns') = Len(conns) /\ conns' = [j \in 1 .. Len(conns') |-> conns'[j]]
    <3>1. conns' = [j \in 1 .. Len(conns) |-> IF j = i THEN c ELSE conns[j]]
      BY <1>3, <1>5
    <3>2. QED
      BY <1>5, <3>1
  <2>2. ASSUME NEW j \in 1 .. Len(conns')
        PROVE  /\ conns'[j] \in Connections
               /\ \E k \in DOMAIN conns : conns'[j].id = conns[k].id /\ conns'[j].to = conns[k].to
    <3>1. j \in DOMAIN conns /\ conns[j] \in Connections
      BY <1>5, <2>1
    <3>2. conns'[j] = IF j = i THEN c ELSE conns[j]
      BY <1>3, <1>4, <3>1
    <3>3. c \in Connections /\ c.id = conns[i].id /\ c.to = conns[i].to
      BY <1>2, <1>5 DEF Connections
    <3>4. QED
      BY <3>1, <3>2, <3>3
  <2>3. QED
    BY <1>5, <1>6, <2>1, <2>2, ConnsStay
<1>11. Shapes'
  BY <1>3, <1>9 DEF Parts, Shapes
<1>12. QED
  BY <1>3, <1>6, <1>9, <1>10, <1>11, Framed

LEMMA ReadKeeps ==
  ASSUME Parts, NEW p \in Processes, Read(p)
  PROVE  Parts'
<1>1. PICK s : s = [server[p] EXCEPT !.pc = "put", !.last = server[p].conn]
  OBVIOUS
<1>2. /\ server' = [server EXCEPT ![p] = s]
      /\ UNCHANGED <<status, main, registry, accepted, started, inbox, kb, engine, conns, sends>>
      /\ \E c \in ToSet(conns) : c.id = server[p].conn
  BY <1>1 DEF Read, Reading, agentVars
<1>3. MainOK' /\ SendsGrow /\ ConnsOK'
  BY <1>2, Quiet
<1>4. /\ server[p] \in ServerStates /\ ToProcess(server[p].conn, p)
      /\ conns \in Seq(Connections) /\ sends \in Seq(Sends)
  BY DEF Parts, ServerOK, ConnsOK, SendsOK
<1>5. server[p].conn # 0
  <2>1. PICK c \in ToSet(conns) : c.id = server[p].conn
    BY <1>2
  <2>2. c \in Connections
    BY <1>4, <2>1 DEF ToSet
  <2>3. QED
    BY <1>4, <2>1, <2>2 DEF Connections
<1>6. s \in ServerStates /\ s.conn = server[p].conn /\ s.last = server[p].conn
  BY <1>1, <1>4 DEF ServerStates
<1>7. /\ \A q \in Processes : server'[q] = server[q] \/ ServerOK(q)'
      /\ DOMAIN server' = Processes /\ server' = [q \in Processes |-> server'[q]]
  BY <1>2, <1>3, <1>4, <1>5, <1>6, ServerMoves
<1>8. Shapes'
  BY <1>2, <1>7 DEF Parts, Shapes
<1>9. QED
  BY <1>2, <1>3, <1>7, <1>8, Framed

LEMMA ReadNothingKeeps ==
  ASSUME Parts, NEW p \in Processes, ReadNothing(p)
  PROVE  Parts'
<1>1. UNCHANGED <<main, registry, accepted, started, inbox, kb, engine, sends>>
  BY DEF ReadNothing, agentVars
<1>2. SendsGrow /\ SendsOK
  BY <1>1, SendsSame DEF Parts
<1>3. CASE /\ server[p].last # 0
           /\ server' = [server EXCEPT ![p].pc = "put"]
           /\ UNCHANGED <<status, conns>>
  <2>1. PICK s : s = [server[p] EXCEPT !.pc = "put"]
    OBVIOUS
  <2>2. server' = [server EXCEPT ![p] = s]
    BY <1>3, <2>1
  <2>3. MainOK' /\ ConnsOK'
    BY <1>1, <1>3, Quiet
  <2>4. server[p] \in ServerStates /\ ToProcess(server[p].conn, p) /\ ToProcess(server[p].last, p)
    BY DEF Parts, ServerOK
  <2>5. s \in ServerStates /\ s.conn = server[p].conn /\ s.last = server[p].last
    BY <2>1, <2>4 DEF ServerStates
  <2>6. /\ \A q \in Processes : server'[q] = server[q] \/ ServerOK(q)'
        /\ DOMAIN server' = Processes /\ server' = [q \in Processes |-> server'[q]]
    BY <1>2, <1>3, <2>2, <2>4, <2>5, ServerMoves
  <2>7. Shapes'
    BY <1>1, <2>6 DEF Parts, Shapes
  <2>8. QED
    BY <1>1, <1>2, <2>3, <2>6, <2>7, Framed
<1>4. CASE Stop(p, "terminated") /\ UNCHANGED server
  <2>1. status' \in [Processes -> {"up", "returned", "terminated"}] /\ ConnsOK'
    BY <1>2, <1>4, Stopped
  <2>2. MainOK' /\ Shapes'
    BY <1>1, <1>4, <2>1 DEF Parts, MainOK, Shapes
  <2>3. QED
    BY <1>1, <1>2, <1>4, <2>1, <2>2, Framed
<1>5. QED
  BY <1>3, <1>4 DEF ReadNothing

LEMMA MainReturnsKeeps ==
  ASSUME Parts, NEW p \in Processes, MainReturns(p)
  PROVE  Parts'
<1>1. /\ Stop(p, "returned")
      /\ UNCHANGED <<main, registry, accepted, started, inbox, kb, engine, server, sends>>
  BY DEF MainReturns, agentVars
<1>2. SendsGrow
  BY <1>1, SendsSame DEF Parts
<1>3. status' \in [Processes -> {"up", "returned", "terminated"}] /\ ConnsOK'
  BY <1>1, <1>2, Stopped
<1>4. MainOK' /\ Shapes'
  BY <1>1, <1>3 DEF Parts, MainOK, Shapes
<1>5. QED
  BY <1>1, <1>2, <1>3, <1>4, Framed

\* The packet is put: the queue of the addressee, the history, the connection, the server.
LEMMA PutDelivers ==
  ASSUME Parts, NEW p \in Processes, NEW id, id = server[p].last,
         ServerAt(p, "put"), Deliverable(p, sends[id].msg, sends[id].to.agent),
         PutMessage(id, sends[id].msg, sends[id].to.agent, SourceUrl(id)),
         sends' = Arrived(id),
         conns' = ElementsAt(conns, {i \in DOMAIN conns : conns[i].id # server[p].conn}),
         server' = [server EXCEPT ![p].pc = "accept", ![p].conn = 0],
         UNCHANGED <<status, main, engine>>
  PROVE  Parts'
<1>1. /\ server[p] \in ServerStates /\ ToProcess(id, p) /\ id # 0
      /\ sends \in Seq(Sends) /\ DOMAIN sends = 1 .. Len(sends) /\ Len(sends) \in Nat
      /\ SendsOK
  BY DEF Parts, ServerOK, ServerAt, SendsOK
<1>2. id \in DOMAIN sends
  BY <1>1 DEF ServerStates
<1>3. sends[id] \in Sends
  <2> DEFINE S == Sends
  <2>1. sends \in Seq(S)
    BY <1>1
  <2> HIDE DEF S
  <2>2. sends[id] \in S
    BY <1>2, <2>1
  <2>3. QED
    BY <2>2 DEF S
<1>4. PICK m, to, s, e :
        /\ m = sends[id] /\ to = m.to.agent /\ s = [m EXCEPT !.arrived = m.arrived + 1]
        /\ e = [msg |-> m.msg, id |-> id, sender |-> SourceUrl(id)]
  OBVIOUS
<1>5. sends' = [sends EXCEPT ![id] = s]
  BY <1>4 DEF Arrived
<1>6. s \in Sends /\ s.from = m.from /\ s.to = m.to /\ s.msg = m.msg
  BY <1>3, <1>4, SMTT(30) DEF Sends
<1>7. SendsGrow /\ DOMAIN sends' = DOMAIN sends /\ sends'[id] = s
  <2>1. s.from = sends[id].from /\ s.to = sends[id].to /\ s.msg = sends[id].msg
    BY <1>4, <1>6
  <2>2. QED
    BY <1>1, <1>2, <1>5, <1>6, <2>1, Learnt
<1>8. to \in Agents /\ Home[to] = p
  BY <1>4 DEF Deliverable, Parts, MainOK
<1>9. /\ m.from \in Agents /\ Home[m.from] \in Processes
      /\ m.to = [process |-> p, agent |-> to] /\ m.msg \in Messages
  BY <1>1, <1>3, <1>4, HomeAssumption DEF Sends, Address, ToProcess
<1>10. SourceUrl(id) = [process |-> Home[m.from], agent |-> m.from]
  BY <1>4 DEF SourceUrl
<1>11. e \in Events'
  BY <1>2, <1>4, <1>7, <1>9, <1>10 DEF Events, Address
<1>12. IsRight(to, e)'
  <2>1. /\ Resolve(s.to, Home[s.from]) = [process |-> Home[to], agent |-> to]
        /\ Resolve(SourceUrl(id), Home[to]) = [process |-> Home[s.from], agent |-> s.from]
    BY <1>6, <1>8, <1>9, <1>10, HomeAssumption DEF Resolve
  <2>2. QED
    BY <1>4, <1>6, <1>7, <2>1, Zenon DEF IsRight
<1>13. status' \in [Processes -> {"up", "returned", "terminated"}]
  BY DEF Parts, MainOK
<1>14. /\ MainOK' /\ \A b \in Agents : inbox'[b] = inbox[b] \/ InboxOK(b)'
       /\ DOMAIN inbox' = Agents /\ inbox' = [b \in Agents |-> inbox'[b]]
  <2>1. PICK msg, sender : msg = m.msg /\ sender = SourceUrl(id)
    OBVIOUS
  <2>2. PutMessage(id, msg, to, sender)
    BY <1>4, <2>1
  <2>3. e = [msg |-> msg, id |-> id, sender |-> sender]
    BY <1>4, <2>1
  <2>4. QED
    BY <1>7, <1>8, <1>11, <1>12, <1>13, <2>2, <2>3, PutKeeps
<1>15. PICK t : t = [server[p] EXCEPT !.pc = "accept", !.conn = 0]
  OBVIOUS
<1>16. /\ t \in ServerStates /\ t.conn = 0 /\ t.last = id /\ t.pc # "put"
       /\ server' = [server EXCEPT ![p] = t]
  <2>1. t \in ServerStates /\ t.conn = 0 /\ t.last = server[p].last /\ t.pc # "put"
    <3>1. /\ server[p].last \in 0 .. Len(sends)
          /\ server[p] = [pc |-> server[p].pc, conn |-> server[p].conn, last |-> server[p].last]
      BY <1>1 DEF ServerStates
    <3>2. t = [pc |-> "accept", conn |-> 0, last |-> server[p].last]
      BY <1>15, <3>1
    <3>3. 0 \in 0 .. Len(sends)
      BY <1>1
    <3>4. QED
      BY <3>1, <3>2, <3>3 DEF ServerStates
  <2>2. server' = [server EXCEPT ![p] = t]
    BY <1>15
  <2>3. QED
    BY <2>1, <2>2
<1>17. /\ \A q \in Processes : server'[q] = server[q] \/ ServerOK(q)'
       /\ DOMAIN server' = Processes /\ server' = [q \in Processes |-> server'[q]]
  <2>1. ToProcess(t.conn, p) /\ ToProcess(t.last, p)
    BY <1>1, <1>16 DEF ToProcess
  <2>2. QED
    BY <1>7, <1>16, <2>1, ServerMoves
<1>18. ConnsOK'
  <2> DEFINE I == {i \in DOMAIN conns : conns[i].id # server[p].conn}
  <2>1. conns \in Seq(Connections) /\ ConnsOK /\ I \subseteq DOMAIN conns
    BY DEF Parts, ConnsOK
  <2>2. /\ conns' \in Seq(Connections) /\ Len(conns') = Cardinality(I) /\ Cardinality(I) \in Nat
        /\ \A k \in 1 .. Cardinality(I) : Nth(I, k) \in I /\ conns'[k] = conns[Nth(I, k)]
    BY <2>1, ElementsAtProperties
  <2> HIDE DEF I
  <2>3. ASSUME NEW k \in 1 .. Len(conns')
        PROVE  /\ conns'[k] \in Connections
               /\ \E j \in DOMAIN conns : conns'[k].id = conns[j].id /\ conns'[k].to = conns[j].to
    <3>1. Nth(I, k) \in DOMAIN conns /\ conns'[k] = conns[Nth(I, k)]
      BY <2>1, <2>2
    <3>2. conns[Nth(I, k)] \in Connections
      BY <2>1, <3>1
    <3>3. QED
      BY <3>1, <3>2
  <2>4. Len(conns') \in Nat /\ conns' = [k \in 1 .. Len(conns') |-> conns'[k]]
    <3>1. conns' = [k \in 1 .. Cardinality(I) |-> conns[Nth(I, k)]]
      BY DEF ElementsAt, I
    <3>2. QED
      BY <2>2, <3>1
  <2>5. QED
    BY <1>1, <1>7, <2>1, <2>3, <2>4, ConnsStay
<1>19. Shapes'
  BY <1>14, <1>17 DEF Parts, Shapes
<1>20. QED
  BY <1>7, <1>14, <1>17, <1>18, <1>19, Framed

LEMMA PutStepKeeps ==
  ASSUME Parts, NEW p \in Processes, Put(p)
  PROVE  Parts'
<1>1. PICK id : id = server[p].last
  OBVIOUS
<1>2. ServerAt(p, "put") /\ UNCHANGED <<main, engine>>
  BY DEF Put
<1>3. CASE Deliverable(p, sends[id].msg, sends[id].to.agent)
  BY <1>1, <1>2, <1>3, PutDelivers DEF Put
<1>4. CASE ~ Deliverable(p, sends[id].msg, sends[id].to.agent)
  <2>1. /\ Stop(p, "terminated")
        /\ UNCHANGED <<registry, accepted, started, inbox, kb, server, sends>>
    BY <1>1, <1>4 DEF Put, agentVars
  <2>2. SendsGrow
    BY <2>1, SendsSame DEF Parts
  <2>3. status' \in [Processes -> {"up", "returned", "terminated"}] /\ ConnsOK'
    BY <2>1, <2>2, Stopped
  <2>4. MainOK' /\ Shapes'
    BY <1>2, <2>1, <2>3 DEF Parts, MainOK, Shapes
  <2>5. QED
    BY <1>2, <2>1, <2>2, <2>3, <2>4, Framed
<1>5. QED
  BY <1>3, <1>4

(***************************************************************************)
(* Every step.                                                             *)
(***************************************************************************)
LEMMA LinkInit == Init => LinkInv
<1> SUFFICES ASSUME Init PROVE Parts
  BY LinkParts
<1>1. SendsOK /\ sends = <<>> /\ Len(sends) = 0
  BY BoundAssumption DEF Init, SendsOK
<1>2. MainOK
  <2>1. \A p \in Processes : Len(Main[p]) \in Nat
    BY MainAssumption
  <2>2. QED
    BY <2>1 DEF Init, MainOK
<1>3. ConnsOK
  BY DEF Init, ConnsOK
<1>4. Shapes
  BY DEF Init, Shapes
<1>5. ASSUME NEW a \in Agents PROVE EngineOK(a) /\ InboxOK(a)
  <2>1. inbox[a] = <<>> /\ engine[a] = [pc |-> "idle", evts |-> <<>>, id |-> 0]
    BY <1>5 DEF Init, Idle
  <2>2. <<>> \in Seq(Events) /\ ToSet(<<>>) = {}
    BY EmptyHolds
  <2>3. QED
    BY <1>1, <2>1, <2>2 DEF EngineOK, InboxOK, EngineStates
<1>6. ASSUME NEW p \in Processes PROVE ServerOK(p)
  BY <1>1, <1>6 DEF Init, ServerOK, ServerStates, ToProcess
<1>7. QED
  BY <1>1, <1>2, <1>3, <1>4, <1>5, <1>6 DEF Parts

LEMMA LinkStep == LinkInv /\ [Next]_vars => LinkInv'
<1> SUFFICES ASSUME Parts, [Next]_vars PROVE Parts'
  BY LinkParts, PTL
<1>1. ASSUME NEW p \in Processes, MainThread(p) PROVE Parts'
  BY <1>1, RegisterProtocolKeeps, CreateKeeps, StartKeeps, PostKeeps DEF MainThread
<1>2. ASSUME NEW p \in Processes, Server(p) PROVE Parts'
  BY <1>2, ListenKeeps, AcceptKeeps, ReadKeeps, ReadNothingKeeps, PutStepKeeps DEF Server
<1>3. ASSUME NEW p \in Processes, MainReturns(p) PROVE Parts'
  BY <1>3, MainReturnsKeeps
<1>4. ASSUME NEW a \in Agents, Engine(a) PROVE Parts'
  BY <1>4, TakeEventKeeps, CallProcedureKeeps, BodyReturnsKeeps, SendLocalKeeps,
     SendRemoteKeeps, ConnectKeeps, ConnectFailsKeeps, SendPacketKeeps
     DEF Engine, ConnectRefused
<1>5. ASSUME NEW a \in Agents, ConnectTimesOut(a) PROVE Parts'
  BY <1>5, ConnectFailsKeeps DEF ConnectTimesOut
<1>6. CASE UNCHANGED vars
  <2>1. UNCHANGED <<status, main, registry, accepted, started, inbox, kb, engine, server,
                    conns, sends>>
    BY <1>6 DEF vars
  <2>2. MainOK' /\ SendsGrow /\ ConnsOK'
    BY <2>1, Quiet
  <2>3. Shapes'
    BY <2>1 DEF Parts, Shapes
  <2>4. QED
    BY <2>1, <2>2, <2>3, Framed
<1>7. QED
  BY <1>1, <1>2, <1>3, <1>4, <1>5, <1>6 DEF Next

(***************************************************************************)
(* Where a message is, while no process has ended.                         *)
(***************************************************************************)
Placed ==
  \A id \in DOMAIN sends : sends[id].arrived + One(sends[id].lost) + One(InFlight(id)) = 1

\* InFlight by the places of connections.
LEMMA Flying ==
  \A id : InFlight(id) <=> \/ \E a \in Agents : engine[a].id = id
                           \/ \E i \in DOMAIN conns : conns[i].id = id
BY DEF InFlight, ToSet

LEMMA FlyingNext ==
  \A id : InFlight(id)' <=> \/ \E a \in Agents : engine'[a].id = id
                            \/ \E i \in DOMAIN conns' : conns'[i].id = id
BY DEF InFlight, ToSet

LEMMA LinkFacts ==
  ASSUME Parts
  PROVE  /\ sends \in Seq(Sends) /\ DOMAIN sends = 1 .. Len(sends) /\ Len(sends) \in Nat
         /\ conns \in Seq(Connections) /\ DOMAIN conns = 1 .. Len(conns) /\ Len(conns) \in Nat
         /\ \A id \in DOMAIN sends : sends[id] \in Sends
         /\ \A i \in DOMAIN conns : conns[i] \in Connections /\ conns[i].id \in DOMAIN sends
         /\ \A a \in Agents : /\ engine[a] \in EngineStates /\ engine[a].id \in 0 .. Len(sends)
                              /\ engine[a].pc = "send" => engine[a].id # 0
         /\ \A p \in Processes : server[p] \in ServerStates
         /\ \A a, b \in Agents : engine[a].id = engine[b].id /\ engine[a].id # 0 => a = b
<1>1. /\ sends \in Seq(Sends) /\ DOMAIN sends = 1 .. Len(sends) /\ Len(sends) \in Nat
  BY DEF Parts, SendsOK
<1>2. conns \in Seq(Connections) /\ DOMAIN conns = 1 .. Len(conns) /\ Len(conns) \in Nat
  BY DEF Parts, ConnsOK
<1>3. \A id \in DOMAIN sends : sends[id] \in Sends
  <2> DEFINE S == Sends
  <2>1. sends \in Seq(S)
    BY <1>1
  <2> HIDE DEF S
  <2>2. \A id \in DOMAIN sends : sends[id] \in S
    BY <2>1
  <2>3. QED
    BY <2>2 DEF S
<1>4. \A i \in DOMAIN conns : conns[i] \in Connections /\ conns[i].id \in DOMAIN sends
  <2> DEFINE C == Connections
  <2>1. conns \in Seq(C)
    BY <1>2
  <2> HIDE DEF C
  <2>2. \A i \in DOMAIN conns : conns[i] \in C
    BY <2>1
  <2>3. QED
    BY <2>2 DEF C, Connections
<1>5. ASSUME NEW a \in Agents
      PROVE  /\ engine[a] \in EngineStates /\ engine[a].id \in 0 .. Len(sends)
             /\ engine[a].pc = "send" => engine[a].id # 0
  BY DEF Parts, EngineOK, EngineStates
<1>6. \A p \in Processes : server[p] \in ServerStates
  BY DEF Parts, ServerOK
<1>7. ASSUME NEW a \in Agents, NEW b \in Agents, engine[a].id = engine[b].id, engine[a].id # 0
      PROVE  a = b
  <2>1. sends[engine[a].id].from = a
    BY <1>7 DEF Parts, EngineOK
  <2>2. sends[engine[b].id].from = b
    BY <1>7 DEF Parts, EngineOK
  <2>3. QED
    BY <1>7, <2>1, <2>2
<1>8. QED
  BY <1>1, <1>2, <1>3, <1>4, <1>5, <1>6, <1>7

\* Steps that touch neither messages nor connections.
LEMMA Unmoved ==
  ASSUME Parts, ConnInv, Placed, UNCHANGED <<sends, conns>>,
         \A a \in Agents : /\ engine'[a].id = engine[a].id
                           /\ engine'[a].pc = "send" <=> engine[a].pc = "send",
         \A p \in Processes : server'[p].pc = "put" => server'[p] = server[p]
  PROVE  ConnInv' /\ Placed'
<1>1. ConnInv'
  BY DEF ConnInv
<1>2. \A id : InFlight(id)' <=> InFlight(id)
  BY DEF InFlight, ToSet
<1>3. Placed'
  BY <1>2 DEF Placed, One
<1>4. QED
  BY <1>1, <1>3

LEMMA MainKeepsPlace ==
  ASSUME Parts, ConnInv, Placed, NEW p \in Processes, MainThread(p) \/ Listen(p)
  PROVE  ConnInv' /\ Placed'
<1>1. UNCHANGED <<sends, conns, engine>>
  BY DEF MainThread, RegisterProtocol, Create, Start, Post, MainStep, Listen
<1>2. \/ UNCHANGED server
      \/ server' = [server EXCEPT ![p].pc = "bind"]
      \/ server' = [server EXCEPT ![p].pc = "accept"]
  BY DEF MainThread, RegisterProtocol, Create, Start, Post, Listen
<1>3. /\ server = [q \in Processes |-> server[q]] /\ DOMAIN server = Processes
      /\ server[p] \in ServerStates
  BY DEF Parts, Shapes, ServerOK
<1>4. ASSUME NEW q \in Processes, server'[q].pc = "put" PROVE server'[q] = server[q]
  BY <1>2, <1>3, <1>4 DEF ServerStates
<1>5. QED
  BY <1>1, <1>4, Unmoved

LEMMA BodyKeepsPlace ==
  ASSUME Parts, ConnInv, Placed, NEW a \in Agents,
         TakeEvent(a) \/ CallProcedure(a) \/ BodyReturns(a)
  PROVE  ConnInv' /\ Placed'
<1>1. UNCHANGED <<sends, conns, server>>
  BY DEF TakeEvent, CallProcedure, BodyReturns
<1>2. /\ engine = [b \in Agents |-> engine[b]] /\ DOMAIN engine = Agents
      /\ engine[a] \in EngineStates
      /\ engine[a].pc \in {"connect", "send"} <=> engine[a].id # 0
  BY DEF Parts, Shapes, EngineOK
<1>3. /\ engine[a].pc \in {"idle", "body"} /\ engine[a].id = 0
      /\ engine'[a].pc \in {"idle", "body"} /\ engine'[a].id = 0
      /\ \A b \in Agents : b # a => engine'[b] = engine[b]
  <2>1. CASE TakeEvent(a)
    BY <1>2, <2>1 DEF TakeEvent, EngineAt, EngineStates
  <2>2. CASE CallProcedure(a)
    <3>1. PICK x : engine' = [engine EXCEPT ![a].evts = x]
      BY <2>2 DEF CallProcedure
    <3>2. engine[a].pc = "body"
      BY <2>2 DEF CallProcedure, EngineAt
    <3>3. QED
      BY <1>2, <3>1, <3>2 DEF EngineStates
  <2>3. CASE BodyReturns(a)
    <3>1. engine[a].pc = "body" /\ engine[a].id = 0
      BY <1>2, <2>3 DEF BodyReturns, EngineAt
    <3>2. PICK x : \/ engine' = [engine EXCEPT ![a] = Idle]
                   \/ engine' = [engine EXCEPT ![a] = [engine[a] EXCEPT !.evts = x]]
      BY <2>3 DEF BodyReturns
    <3>3. QED
      BY <1>2, <3>1, <3>2 DEF EngineStates, Idle
  <2>4. QED
    BY <2>1, <2>2, <2>3
<1>4. \A b \in Agents : /\ engine'[b].id = engine[b].id
                        /\ engine'[b].pc = "send" <=> engine[b].pc = "send"
  BY <1>3
<1>5. QED
  BY <1>1, <1>4, Unmoved

LEMMA SendLocalKeepsPlace ==
  ASSUME Parts, ConnInv, Placed, NEW a \in Agents, SendLocal(a), AllUp'
  PROVE  ConnInv' /\ Placed'
<1>1. PICK r \in Routes :
        LET m  == Message(a, r)
            id == Len(sends) + 1
        IN  /\ Sending(a, r)
            /\ m.to.process = Here
            /\ UNCHANGED engine
            /\ IF Deliverable(Home[a], m.msg, m.to.agent)
               THEN /\ PutMessage(id, m.msg, m.to.agent, [process |-> Here, agent |-> a])
                    /\ sends' = Append(sends, [m EXCEPT !.arrived = 1])
                    /\ UNCHANGED <<status, conns>>
               ELSE /\ Stop(Home[a], "terminated")
                    /\ sends' = Append(sends, [m EXCEPT !.lost = TRUE])
                    /\ UNCHANGED agentVars
  BY DEF SendLocal
<1>2. PICK m, id : m = Message(a, r) /\ id = Len(sends) + 1
  OBVIOUS
<1>3. /\ EngineAt(a, "body") /\ Len(sends) < MaxSends /\ UNCHANGED <<engine, server>>
  BY <1>1 DEF Sending
<1>4. m \in Sends /\ m.lost = FALSE /\ SendsOK
  BY <1>2, <1>3, MessageTypes DEF Parts
<1>5. Deliverable(Home[a], m.msg, m.to.agent)
  <2>1. SUFFICES ASSUME ~ Deliverable(Home[a], m.msg, m.to.agent) PROVE FALSE
    OBVIOUS
  <2>2. PICK s : s = [m EXCEPT !.lost = TRUE]
    OBVIOUS
  <2>3. Stop(Home[a], "terminated") /\ sends' = Append(sends, s)
    BY <1>1, <1>2, <2>1, <2>2
  <2>4. s \in Sends
    BY <1>4, <2>2 DEF Sends
  <2>5. SendsGrow /\ Home[a] \in Processes
    BY <1>3, <1>4, <2>3, <2>4, Sent, HomeAssumption
  <2>6. QED
    BY <2>3, <2>5, Stopped
<1>6. PICK s : s = [m EXCEPT !.arrived = 1]
  OBVIOUS
<1>7. sends' = Append(sends, s) /\ UNCHANGED conns
  BY <1>1, <1>2, <1>5, <1>6
<1>8. s \in Sends /\ s.arrived = 1 /\ s.lost = FALSE
  BY <1>4, <1>6 DEF Sends
<1>9. /\ sends'[id] = s /\ DOMAIN sends' = 1 .. Len(sends) + 1 /\ Len(sends) \in Nat
      /\ DOMAIN sends = 1 .. Len(sends)
      /\ \A j \in DOMAIN sends : sends'[j] = sends[j]
  BY <1>2, <1>3, <1>4, <1>7, <1>8, Sent
<1>10. ConnInv'
  BY <1>3, <1>7 DEF ConnInv
<1>11. \A j : InFlight(j)' <=> InFlight(j)
  BY <1>3, <1>7 DEF InFlight, ToSet
<1>12. ~ InFlight(id)
  BY <1>2, <1>9, LinkFacts, Flying
<1>13. ASSUME NEW j \in DOMAIN sends'
       PROVE  sends'[j].arrived + One(sends'[j].lost) + One(InFlight(j)') = 1
  <2>1. CASE j = id
    BY <1>8, <1>9, <1>11, <1>12, <2>1 DEF One
  <2>2. CASE j # id
    <3>1. j \in DOMAIN sends
      BY <1>2, <1>9, <2>2
    <3>2. QED
      BY <1>9, <1>11, <3>1 DEF Placed, One
  <2>3. QED
    BY <2>1, <2>2
<1>14. Placed'
  BY <1>13 DEF Placed, One
<1>15. QED
  BY <1>10, <1>14

LEMMA SendRemoteKeepsPlace ==
  ASSUME Parts, ConnInv, Placed, NEW a \in Agents, SendRemote(a), AllUp'
  PROVE  ConnInv' /\ Placed'
<1>1. PICK r \in Routes :
        LET m == Message(a, r) IN
          /\ Sending(a, r)
          /\ m.to.process # Here
          /\ UNCHANGED agentVars
          /\ IF server[Home[a]].pc # "off"
             THEN /\ engine' = [engine EXCEPT ![a].pc = "connect", ![a].id = Len(sends) + 1]
                  /\ sends' = Append(sends, m)
                  /\ UNCHANGED <<status, conns>>
             ELSE /\ Stop(Home[a], "terminated")
                  /\ sends' = Append(sends, [m EXCEPT !.lost = TRUE])
                  /\ UNCHANGED engine
  BY DEF SendRemote
<1>2. PICK m, id : m = Message(a, r) /\ id = Len(sends) + 1
  OBVIOUS
<1>3. /\ EngineAt(a, "body") /\ Len(sends) < MaxSends /\ UNCHANGED server
  BY <1>1 DEF Sending
<1>4. m \in Sends /\ m.lost = FALSE /\ m.arrived = 0 /\ SendsOK
  BY <1>2, <1>3, MessageTypes DEF Parts
<1>5. server[Home[a]].pc # "off"
  <2>1. SUFFICES ASSUME server[Home[a]].pc = "off" PROVE FALSE
    OBVIOUS
  <2>2. PICK s : s = [m EXCEPT !.lost = TRUE]
    OBVIOUS
  <2>3. Stop(Home[a], "terminated") /\ sends' = Append(sends, s)
    BY <1>1, <1>2, <2>1, <2>2
  <2>4. s \in Sends
    BY <1>4, <2>2 DEF Sends
  <2>5. SendsGrow /\ Home[a] \in Processes
    BY <1>3, <1>4, <2>3, <2>4, Sent, HomeAssumption
  <2>6. QED
    BY <2>3, <2>5, Stopped
<1>6. /\ engine' = [engine EXCEPT ![a].pc = "connect", ![a].id = id]
      /\ sends' = Append(sends, m) /\ UNCHANGED conns
  BY <1>1, <1>2, <1>5
<1>7. /\ sends'[id] = m /\ DOMAIN sends' = 1 .. Len(sends) + 1 /\ Len(sends) \in Nat
      /\ DOMAIN sends = 1 .. Len(sends)
      /\ \A j \in DOMAIN sends : sends'[j] = sends[j]
  BY <1>2, <1>3, <1>4, <1>6, Sent
<1>8. /\ engine'[a].pc = "connect" /\ engine'[a].id = id
      /\ engine[a].id = 0 /\ engine[a].pc = "body"
      /\ \A b \in Agents : b # a => engine'[b] = engine[b]
  <2>1. /\ engine = [b \in Agents |-> engine[b]] /\ DOMAIN engine = Agents
        /\ engine[a] = [pc |-> "body", evts |-> engine[a].evts, id |-> 0]
    BY <1>3, InBody DEF Parts, Shapes
  <2>2. engine'[a] = [engine[a] EXCEPT !.pc = "connect", !.id = id]
    BY <1>6, <2>1
  <2>3. engine'[a] = [pc |-> "connect", evts |-> engine[a].evts, id |-> id]
    BY <2>1, <2>2
  <2>4. QED
    BY <1>6, <2>1, <2>3
<1>9. \A i \in DOMAIN conns : conns[i].id # id
  BY <1>2, <1>7, LinkFacts
<1>10. ConnInv'
  <2>1. ASSUME NEW i \in DOMAIN conns, NEW b \in Agents, engine'[b].id = conns[i].id
        PROVE  engine'[b].pc = "send" /\ conns[i].data = "none"
    BY <1>8, <1>9, <2>1 DEF ConnInv
  <2>2. ASSUME NEW b \in Agents, engine'[b].pc = "send"
        PROVE  \E i \in DOMAIN conns : conns[i].id = engine'[b].id
    BY <1>8, <2>2 DEF ConnInv
  <2>3. /\ \A i, j \in DOMAIN conns : conns[i].id = conns[j].id => i = j
        /\ \A i \in DOMAIN conns : conns[i].data # "eof"
        /\ \A p \in Processes : server[p].pc = "put" =>
             /\ server[p].last = server[p].conn
             /\ \E i \in DOMAIN conns : conns[i].id = server[p].conn /\ conns[i].data = "packet"
    BY DEF ConnInv
  <2>4. conns' = conns /\ server' = server
    BY <1>3, <1>6
  <2>5. QED
    BY <2>1, <2>2, <2>3, <2>4 DEF ConnInv
<1>11. InFlight(id)' /\ \A j \in DOMAIN sends : InFlight(j)' <=> InFlight(j)
  <2>1. InFlight(id)'
    BY <1>8, FlyingNext
  <2>2. \A j \in DOMAIN sends : j # id /\ j # 0
    BY <1>2, <1>7
  <2>3. ASSUME NEW j \in DOMAIN sends PROVE InFlight(j)' <=> InFlight(j)
    BY <1>6, <1>8, <2>2, Flying, FlyingNext
  <2>4. QED
    BY <2>1, <2>3
<1>12. ASSUME NEW j \in DOMAIN sends'
       PROVE  sends'[j].arrived + One(sends'[j].lost) + One(InFlight(j)') = 1
  <2>1. CASE j = id
    BY <1>4, <1>7, <1>11, <2>1 DEF One
  <2>2. CASE j # id
    <3>1. j \in DOMAIN sends
      BY <1>2, <1>7, <2>2
    <3>2. QED
      BY <1>7, <1>11, <3>1 DEF Placed, One
  <2>3. QED
    BY <2>1, <2>2
<1>13. Placed'
  BY <1>12 DEF Placed, One
<1>14. QED
  BY <1>10, <1>13

LEMMA ConnectKeepsPlace ==
  ASSUME Parts, ConnInv, Placed, NEW a \in Agents, Connect(a)
  PROVE  ConnInv' /\ Placed'
<1>1. PICK c, id : /\ id = engine[a].id
                   /\ c = [id |-> id, to |-> Peer(a), accepted |-> FALSE, data |-> "none"]
  OBVIOUS
<1>2. /\ EngineAt(a, "connect") /\ conns' = Append(conns, c)
      /\ engine' = [engine EXCEPT ![a].pc = "send"] /\ UNCHANGED <<sends, server>>
  BY <1>1 DEF Connect
<1>3. /\ engine[a].pc = "connect" /\ id \in DOMAIN sends /\ id # 0
      /\ c \in Connections
  BY <1>1, <1>2, WithMessage DEF EngineAt, Connections
<1>4. /\ Len(conns) \in Nat /\ DOMAIN conns = 1 .. Len(conns)
      /\ DOMAIN conns' = 1 .. Len(conns) + 1
      /\ conns'[Len(conns) + 1] = c /\ \A i \in 1 .. Len(conns) : conns'[i] = conns[i]
  <2> DEFINE C == Connections
  <2>1. conns \in Seq(C) /\ c \in C
    BY <1>3 DEF Parts, ConnsOK
  <2> HIDE DEF C
  <2>2. QED
    BY <1>2, <2>1, AppendProperties
<1>5. /\ engine'[a].pc = "send" /\ engine'[a].id = id
      /\ \A b \in Agents : b # a => engine'[b] = engine[b] /\ engine[b].id # id
  <2>1. engine = [b \in Agents |-> engine[b]] /\ DOMAIN engine = Agents
    BY DEF Parts, Shapes
  <2>2. engine[a] \in EngineStates
    BY LinkFacts
  <2>3. \A b \in Agents : b # a => engine[b].id # id
    BY <1>1, <1>3, LinkFacts
  <2>4. QED
    BY <1>1, <1>2, <2>1, <2>2, <2>3 DEF EngineStates
<1>6. \A i \in DOMAIN conns : conns[i].id # id
  BY <1>1, <1>3 DEF ConnInv
<1>7. \A i \in DOMAIN conns' : \/ (i \in DOMAIN conns /\ conns'[i] = conns[i])
                              \/ (conns'[i] = c /\ i = Len(conns) + 1)
  BY <1>4
<1>8. ConnInv'
  <2>1. \A i, j \in DOMAIN conns' : conns'[i].id = conns'[j].id => i = j
    BY <1>1, <1>6, <1>7 DEF ConnInv
  <2>2. ASSUME NEW i \in DOMAIN conns'
        PROVE  /\ conns'[i].data # "eof"
               /\ \A b \in Agents : engine'[b].id = conns'[i].id =>
                    engine'[b].pc = "send" /\ conns'[i].data = "none"
    BY <1>1, <1>5, <1>6, <1>7 DEF ConnInv
  <2>3. ASSUME NEW b \in Agents, engine'[b].pc = "send"
        PROVE  \E i \in DOMAIN conns' : conns'[i].id = engine'[b].id
    BY <1>1, <1>4, <1>5, <2>3 DEF ConnInv
  <2>4. ASSUME NEW p \in Processes, server'[p].pc = "put"
        PROVE  /\ server'[p].last = server'[p].conn
               /\ \E i \in DOMAIN conns' : conns'[i].id = server'[p].conn /\ conns'[i].data = "packet"
    BY <1>2, <1>4, <2>4 DEF ConnInv
  <2>5. QED
    BY <2>1, <2>2, <2>3, <2>4 DEF ConnInv
<1>9. \A j : InFlight(j)' <=> InFlight(j)
  <2>2. \A b \in Agents : engine'[b].id = engine[b].id
    BY <1>1, <1>5
  <2>3. \A j : (\E i \in DOMAIN conns' : conns'[i].id = j)
                 <=> (j = id \/ \E i \in DOMAIN conns : conns[i].id = j)
    BY <1>1, <1>4, <1>7
  <2>4. QED
    BY <1>1, <2>2, <2>3, Flying, FlyingNext
<1>10. Placed'
  BY <1>2, <1>9 DEF Placed, One
<1>11. QED
  BY <1>8, <1>10

\* The message id is an agent's alone, and it gives it up.
LEMMA Returned ==
  ASSUME Parts, NEW a \in Agents, engine[a].id # 0, SendReturns(a)
  PROVE  /\ engine'[a].id = 0 /\ engine'[a].pc = "body"
         /\ \A b \in Agents : b # a => engine'[b] = engine[b] /\ engine[b].id # engine[a].id
<1>1. engine = [b \in Agents |-> engine[b]] /\ DOMAIN engine = Agents
  BY DEF Parts, Shapes
<1>2. engine[a] \in EngineStates
  BY LinkFacts
<1>3. \A b \in Agents : b # a => engine[b].id # engine[a].id
  BY LinkFacts
<1>4. engine[a] = [pc |-> engine[a].pc, evts |-> engine[a].evts, id |-> engine[a].id]
  BY <1>2 DEF EngineStates
<1>5. engine'[a] = [engine[a] EXCEPT !.pc = "body", !.id = 0]
  BY <1>1 DEF SendReturns
<1>6. engine'[a] = [pc |-> "body", evts |-> engine[a].evts, id |-> 0]
  BY <1>4, <1>5
<1>7. QED
  BY <1>1, <1>3, <1>6 DEF SendReturns

LEMMA ConnectFailsKeepsPlace ==
  ASSUME Parts, ConnInv, Placed, NEW a \in Agents, ConnectFails(a)
  PROVE  ConnInv' /\ Placed'
<1>1. PICK id, s : id = engine[a].id /\ s = [sends[id] EXCEPT !.lost = TRUE]
  OBVIOUS
<1>2. /\ EngineAt(a, "connect") /\ sends' = [sends EXCEPT ![id] = s]
      /\ SendReturns(a) /\ UNCHANGED <<server, conns>>
  BY <1>1 DEF ConnectFails
<1>3. /\ engine[a].pc = "connect" /\ id \in DOMAIN sends /\ id # 0
      /\ sends[id] \in Sends /\ SendsOK
  BY <1>1, <1>2, WithMessage DEF EngineAt, Parts
<1>4. /\ engine'[a].id = 0 /\ engine'[a].pc = "body"
      /\ \A b \in Agents : b # a => engine'[b] = engine[b] /\ engine[b].id # id
  BY <1>1, <1>2, <1>3, Returned
<1>5. \A i \in DOMAIN conns : conns[i].id # id /\ conns[i].id # 0
  BY <1>1, <1>3, LinkFacts DEF ConnInv
<1>6. ConnInv'
  BY <1>2, <1>4, <1>5 DEF ConnInv
<1>7. /\ InFlight(id) /\ ~ InFlight(id)'
      /\ \A j \in DOMAIN sends : j # id => (InFlight(j)' <=> InFlight(j))
  <2>1. InFlight(id)
    BY <1>1, Flying
  <2>2. ~ InFlight(id)'
    BY <1>2, <1>3, <1>4, <1>5, FlyingNext
  <2>3. \A j \in DOMAIN sends : j # 0
    BY LinkFacts
  <2>4. ASSUME NEW j \in DOMAIN sends, j # id PROVE InFlight(j)' <=> InFlight(j)
    BY <1>1, <1>2, <1>4, <2>3, <2>4, Flying, FlyingNext
  <2>5. QED
    BY <2>1, <2>2, <2>4
<1>8. /\ s \in Sends /\ s.lost = TRUE /\ s.arrived = sends[id].arrived
      /\ s.from = sends[id].from /\ s.to = sends[id].to /\ s.msg = sends[id].msg
  BY <1>1, <1>3 DEF Sends
<1>9. /\ DOMAIN sends' = DOMAIN sends /\ sends'[id] = s
      /\ \A j \in DOMAIN sends : j # id => sends'[j] = sends[j]
  BY <1>2, <1>3, <1>8, Learnt
<1>10. sends[id].arrived = 0
  <2>1. sends[id].arrived + One(sends[id].lost) + One(InFlight(id)) = 1 /\ sends[id].arrived \in Nat
    BY <1>3 DEF Placed, Sends
  <2>2. QED
    BY <1>7, <2>1 DEF One
<1>11. ASSUME NEW j \in DOMAIN sends'
       PROVE  sends'[j].arrived + One(sends'[j].lost) + One(InFlight(j)') = 1
  <2>1. CASE j = id
    BY <1>7, <1>8, <1>9, <1>10, <2>1 DEF One
  <2>2. CASE j # id
    BY <1>7, <1>9, <2>2 DEF Placed, One
  <2>3. QED
    BY <2>1, <2>2
<1>12. Placed'
  BY <1>11 DEF Placed, One
<1>13. QED
  BY <1>6, <1>12

LEMMA SendPacketKeepsPlace ==
  ASSUME Parts, ConnInv, Placed, NEW a \in Agents, SendPacket(a)
  PROVE  ConnInv' /\ Placed'
<1>1. PICK id : id = engine[a].id
  OBVIOUS
<1>2. /\ EngineAt(a, "send") /\ SendReturns(a) /\ UNCHANGED server
      /\ conns' = [i \in DOMAIN conns |->
                     IF conns[i].id = id THEN [conns[i] EXCEPT !.data = "packet"] ELSE conns[i]]
  BY <1>1 DEF SendPacket
<1>3. /\ engine[a].pc = "send" /\ id \in DOMAIN sends /\ id # 0
  BY <1>1, <1>2, WithMessage, LinkFacts DEF EngineAt
<1>4. /\ engine'[a].id = 0 /\ engine'[a].pc = "body"
      /\ \A b \in Agents : b # a => engine'[b] = engine[b] /\ engine[b].id # id
  BY <1>1, <1>2, <1>3, Returned
<1>5. PICK k \in DOMAIN conns : conns[k].id = id
  BY <1>1, <1>3 DEF ConnInv
<1>6. sends' = sends
  <2>1. conns[k] \in ToSet(conns)
    BY <1>5 DEF ToSet
  <2>2. QED
    BY <1>1, <1>5, <2>1 DEF SendPacket
<1>7. /\ DOMAIN conns' = DOMAIN conns
      /\ \A i \in DOMAIN conns :
           /\ conns'[i].id = conns[i].id /\ conns[i].id # 0
           /\ conns[i].id # id => conns'[i] = conns[i]
           /\ conns[i].id = id => conns'[i].data = "packet"
  <2>1. DOMAIN conns' = DOMAIN conns
    BY <1>2
  <2>2. ASSUME NEW i \in DOMAIN conns
        PROVE  /\ conns'[i].id = conns[i].id /\ conns[i].id # 0
               /\ conns[i].id # id => conns'[i] = conns[i]
               /\ conns[i].id = id => conns'[i].data = "packet"
    <3>1. conns[i] \in Connections /\ conns[i].id # 0
      BY LinkFacts
    <3>2. conns'[i] = IF conns[i].id = id THEN [conns[i] EXCEPT !.data = "packet"] ELSE conns[i]
      BY <1>2
    <3>3. QED
      BY <3>1, <3>2 DEF Connections
  <2>3. QED
    BY <2>1, <2>2
<1>8. ConnInv'
  <2>1. \A i, j \in DOMAIN conns' : conns'[i].id = conns'[j].id => i = j
    BY <1>7 DEF ConnInv
  <2>2. ASSUME NEW i \in DOMAIN conns'
        PROVE  /\ conns'[i].data # "eof"
               /\ \A b \in Agents : engine'[b].id = conns'[i].id =>
                    engine'[b].pc = "send" /\ conns'[i].data = "none"
    BY <1>4, <1>7 DEF ConnInv
  <2>3. ASSUME NEW b \in Agents, engine'[b].pc = "send"
        PROVE  \E i \in DOMAIN conns' : conns'[i].id = engine'[b].id
    BY <1>4, <1>7, <2>3 DEF ConnInv
  <2>4. ASSUME NEW p \in Processes, server'[p].pc = "put"
        PROVE  /\ server'[p].last = server'[p].conn
               /\ \E i \in DOMAIN conns' : conns'[i].id = server'[p].conn /\ conns'[i].data = "packet"
    <3>1. /\ server[p].last = server[p].conn /\ server' = server
          /\ \E i \in DOMAIN conns : conns[i].id = server[p].conn /\ conns[i].data = "packet"
      BY <1>2, <2>4 DEF ConnInv
    <3>2. QED
      BY <1>7, <3>1
  <2>5. QED
    BY <2>1, <2>2, <2>3, <2>4 DEF ConnInv
<1>9. ASSUME NEW j \in DOMAIN sends PROVE InFlight(j)' <=> InFlight(j)
  <2>1. j # 0
    BY LinkFacts
  <2>2. (\E i \in DOMAIN conns' : conns'[i].id = j) <=> (\E i \in DOMAIN conns : conns[i].id = j)
    BY <1>7
  <2>3. CASE j = id
    BY <1>5, <2>2, <2>3, Flying, FlyingNext
  <2>4. CASE j # id
    BY <1>1, <1>4, <2>1, <2>2, <2>4, Flying, FlyingNext
  <2>5. QED
    BY <2>3, <2>4
<1>10. Placed'
  BY <1>6, <1>9 DEF Placed, One
<1>11. QED
  BY <1>8, <1>10

LEMMA AcceptKeepsPlace ==
  ASSUME Parts, ConnInv, Placed, NEW p \in Processes, Accept(p)
  PROVE  ConnInv' /\ Placed'
<1>1. PICK k : k = Nth(Waiting(p), 1)
  OBVIOUS
<1>2. /\ server' = [server EXCEPT ![p].pc = "read", ![p].conn = conns[k].id]
      /\ conns' = [conns EXCEPT ![k].accepted = TRUE]
      /\ UNCHANGED <<engine, sends>> /\ Waiting(p) # {}
  BY <1>1 DEF Accept
<1>3. k \in DOMAIN conns
  BY <1>1, <1>2, FirstWaiting DEF Waiting
<1>4. /\ DOMAIN conns' = DOMAIN conns
      /\ \A i \in DOMAIN conns : conns'[i].id = conns[i].id /\ conns'[i].data = conns[i].data
  <2>1. DOMAIN conns' = DOMAIN conns
    BY <1>2
  <2>2. ASSUME NEW i \in DOMAIN conns
        PROVE  conns'[i].id = conns[i].id /\ conns'[i].data = conns[i].data
    <3>1. conns'[i] = IF i = k THEN [conns[i] EXCEPT !.accepted = TRUE] ELSE conns[i]
      BY <1>2, <1>3
    <3>2. conns[i] \in Connections
      BY LinkFacts
    <3>3. QED
      BY <3>1, <3>2 DEF Connections
  <2>3. QED
    BY <2>1, <2>2
<1>5. \A q \in Processes : server'[q].pc = "put" => server'[q] = server[q]
  <2>1. /\ server = [q \in Processes |-> server[q]] /\ DOMAIN server = Processes
        /\ server[p] \in ServerStates
    BY DEF Parts, Shapes, ServerOK
  <2>2. server'[p] = [server[p] EXCEPT !.pc = "read", !.conn = conns[k].id]
    BY <1>2, <2>1
  <2>3. server'[p].pc = "read"
    BY <2>1, <2>2 DEF ServerStates
  <2>4. QED
    BY <1>2, <2>1, <2>3
<1>6. ConnInv'
  <2>1. /\ \A i, j \in DOMAIN conns' : conns'[i].id = conns'[j].id => i = j
        /\ \A i \in DOMAIN conns' :
             /\ conns'[i].data # "eof"
             /\ \A b \in Agents : engine'[b].id = conns'[i].id =>
                  engine'[b].pc = "send" /\ conns'[i].data = "none"
    BY <1>2, <1>4 DEF ConnInv
  <2>2. ASSUME NEW b \in Agents, engine'[b].pc = "send"
        PROVE  \E i \in DOMAIN conns' : conns'[i].id = engine'[b].id
    BY <1>2, <1>4, <2>2 DEF ConnInv
  <2>3. ASSUME NEW q \in Processes, server'[q].pc = "put"
        PROVE  /\ server'[q].last = server'[q].conn
               /\ \E i \in DOMAIN conns' : conns'[i].id = server'[q].conn /\ conns'[i].data = "packet"
    BY <1>4, <1>5, <2>3 DEF ConnInv
  <2>4. QED
    BY <2>1, <2>2, <2>3 DEF ConnInv
<1>7. \A j : InFlight(j)' <=> InFlight(j)
  BY <1>2, <1>4, Flying, FlyingNext
<1>8. Placed'
  BY <1>2, <1>7 DEF Placed, One
<1>9. QED
  BY <1>6, <1>8

LEMMA ReadKeepsPlace ==
  ASSUME Parts, ConnInv, Placed, NEW p \in Processes, Read(p)
  PROVE  ConnInv' /\ Placed'
<1>1. /\ server' = [server EXCEPT ![p].pc = "put", ![p].last = server[p].conn]
      /\ UNCHANGED <<conns, engine, sends>>
      /\ \E c \in ToSet(conns) : c.id = server[p].conn /\ c.data = "packet"
  BY DEF Read, Reading
<1>2. \E i \in DOMAIN conns : conns[i].id = server[p].conn /\ conns[i].data = "packet"
  BY <1>1 DEF ToSet
<1>3. /\ server'[p].last = server[p].conn /\ server'[p].conn = server[p].conn
      /\ \A q \in Processes : q # p => server'[q] = server[q]
  <2>1. /\ server = [q \in Processes |-> server[q]] /\ DOMAIN server = Processes
        /\ server[p] \in ServerStates
    BY DEF Parts, Shapes, ServerOK
  <2>2. server'[p] = [server[p] EXCEPT !.pc = "put", !.last = server[p].conn]
    BY <1>1, <2>1
  <2>3. server[p] = [pc |-> server[p].pc, conn |-> server[p].conn, last |-> server[p].last]
    BY <2>1 DEF ServerStates
  <2>4. server'[p] = [pc |-> "put", conn |-> server[p].conn, last |-> server[p].conn]
    BY <2>2, <2>3
  <2>5. QED
    BY <1>1, <2>1, <2>4
<1>4. ConnInv'
  <2>1. ASSUME NEW q \in Processes, server'[q].pc = "put"
        PROVE  /\ server'[q].last = server'[q].conn
               /\ \E i \in DOMAIN conns : conns[i].id = server'[q].conn /\ conns[i].data = "packet"
    BY <1>2, <1>3, <2>1 DEF ConnInv
  <2>2. conns' = conns /\ engine' = engine
    BY <1>1
  <2>3. QED
    BY <2>1, <2>2, ZenonT(30) DEF ConnInv
<1>5. \A j : InFlight(j)' <=> InFlight(j)
  BY <1>1, Flying, FlyingNext
<1>6. QED
  BY <1>1, <1>4, <1>5 DEF Placed, One

\* While no process has ended, no connection is at its end without a packet.
LEMMA NothingToRead ==
  ASSUME Parts, ConnInv, NEW p \in Processes
  PROVE  ~ ReadNothing(p)
<1> SUFFICES ASSUME ReadNothing(p) PROVE FALSE
  OBVIOUS
<1>1. \E i \in DOMAIN conns : conns[i].data = "eof"
  BY DEF ReadNothing, Reading, ToSet
<1>2. QED
  BY <1>1 DEF ConnInv

LEMMA PutKeepsPlace ==
  ASSUME Parts, ConnInv, Placed, NEW p \in Processes, Put(p), AllUp'
  PROVE  ConnInv' /\ Placed'
<1>1. PICK id, s : id = server[p].last /\ s = [sends[id] EXCEPT !.arrived = sends[id].arrived + 1]
  OBVIOUS
<1>2. Deliverable(p, sends[id].msg, sends[id].to.agent)
  <2>1. SUFFICES ASSUME ~ Deliverable(p, sends[id].msg, sends[id].to.agent) PROVE FALSE
    OBVIOUS
  <2>2. Stop(p, "terminated") /\ UNCHANGED sends
    BY <1>1, <2>1 DEF Put
  <2>3. SendsGrow
    BY <2>2, SendsSame DEF Parts
  <2>4. QED
    BY <2>2, <2>3, Stopped
<1>3. /\ server[p].pc = "put" /\ server[p].conn = id
  BY <1>1 DEF Put, ServerAt, ConnInv
<1>4. PICK k \in DOMAIN conns : conns[k].id = id /\ conns[k].data = "packet"
  BY <1>3 DEF ConnInv
<1> DEFINE I == {i \in DOMAIN conns : conns[i].id # id}
<1>5. /\ sends' = [sends EXCEPT ![id] = s]
      /\ conns' = ElementsAt(conns, I)
      /\ server' = [server EXCEPT ![p].pc = "accept", ![p].conn = 0]
      /\ UNCHANGED engine
  BY <1>1, <1>2, <1>3 DEF Put, Arrived
<1>6. id \in DOMAIN sends /\ id # 0 /\ sends[id] \in Sends /\ SendsOK
  BY <1>4, LinkFacts DEF Parts
<1>7. /\ s \in Sends /\ s.arrived = sends[id].arrived + 1 /\ s.lost = sends[id].lost
      /\ s.from = sends[id].from /\ s.to = sends[id].to /\ s.msg = sends[id].msg
  BY <1>1, <1>6 DEF Sends
<1>8. /\ DOMAIN sends' = DOMAIN sends /\ sends'[id] = s
      /\ \A j \in DOMAIN sends : j # id => sends'[j] = sends[j]
  BY <1>5, <1>6, <1>7, Learnt
<1>9. I \in SUBSET DOMAIN conns /\ I \in SUBSET Nat /\ conns \in Seq(Connections)
  BY LinkFacts
<1>10. /\ IsFiniteSet(I) /\ conns' \in Seq(Connections) /\ DOMAIN conns' = 1 .. Cardinality(I)
       /\ \A n \in 1 .. Cardinality(I) : Nth(I, n) \in I /\ conns'[n] = conns[Nth(I, n)]
       /\ \A i \in I : \E n \in 1 .. Cardinality(I) : conns'[n] = conns[i]
  <2> DEFINE C == Connections
             t == ElementsAt(conns, I)
  <2>1. conns \in Seq(C) /\ I \in SUBSET DOMAIN conns
    BY <1>9
  <2> HIDE DEF C, I
  <2>2. /\ IsFiniteSet(I) /\ Cardinality(I) \in Nat /\ t \in Seq(C) /\ Len(t) = Cardinality(I)
        /\ \A n \in 1 .. Cardinality(I) : Nth(I, n) \in I /\ t[n] = conns[Nth(I, n)]
        /\ \A i \in I : \E n \in 1 .. Cardinality(I) : t[n] = conns[i]
    BY <2>1, ElementsAtProperties
  <2> HIDE DEF t
  <2>3. DOMAIN t = 1 .. Cardinality(I)
    BY <2>2
  <2>4. conns' = t
    BY <1>5 DEF I, t
  <2>5. QED
    BY <2>2, <2>3, <2>4 DEF C
<1>11. /\ \A i \in I : i \in DOMAIN conns /\ conns[i].id # id
       /\ \A i \in DOMAIN conns : conns[i].id # id => i \in I
  OBVIOUS
<1>12. \A b \in Agents : engine[b].id # id
  BY <1>4 DEF ConnInv
<1> HIDE DEF I
<1>13. /\ server'[p].pc = "accept" /\ \A q \in Processes : q # p => server'[q] = server[q]
  <2>1. /\ server = [q \in Processes |-> server[q]] /\ DOMAIN server = Processes
        /\ server[p] \in ServerStates
    BY DEF Parts, Shapes, ServerOK
  <2>2. server'[p] = [server[p] EXCEPT !.pc = "accept", !.conn = 0]
    BY <1>5, <2>1
  <2>3. QED
    BY <1>5, <2>1, <2>2 DEF ServerStates
<1>14. ConnInv'
  <2>1. ASSUME NEW i \in DOMAIN conns', NEW j \in DOMAIN conns', conns'[i].id = conns'[j].id
        PROVE  i = j
    <3>1. Nth(I, i) = Nth(I, j)
      BY <1>10, <1>11, <2>1 DEF ConnInv
    <3>2. ~ (i < j) /\ ~ (j < i)
      <4>1. i \in 1 .. Cardinality(I) /\ j \in 1 .. Cardinality(I) /\ Nth(I, i) \in Nat
        BY <1>9, <1>10
      <4>2. i < j => Nth(I, i) < Nth(I, j)
        BY <1>9, <1>10, <4>1, NthIncreases
      <4>3. j < i => Nth(I, j) < Nth(I, i)
        BY <1>9, <1>10, <4>1, NthIncreases
      <4>4. QED
        BY <3>1, <4>1, <4>2, <4>3
    <3>3. i \in Int /\ j \in Int
      BY <1>10
    <3>4. QED
      BY <3>2, <3>3
  <2>2. ASSUME NEW i \in DOMAIN conns'
        PROVE  /\ conns'[i].data # "eof"
               /\ \A b \in Agents : engine'[b].id = conns'[i].id =>
                    engine'[b].pc = "send" /\ conns'[i].data = "none"
    BY <1>5, <1>10, <1>11 DEF ConnInv
  <2>3. ASSUME NEW b \in Agents, engine'[b].pc = "send"
        PROVE  \E i \in DOMAIN conns' : conns'[i].id = engine'[b].id
    <3>1. PICK i \in DOMAIN conns : conns[i].id = engine[b].id
      BY <1>5, <2>3 DEF ConnInv
    <3>2. i \in I
      BY <1>11, <1>12, <3>1
    <3>3. QED
      BY <1>5, <1>10, <3>1, <3>2
  <2>4. ASSUME NEW q \in Processes, server'[q].pc = "put"
        PROVE  /\ server'[q].last = server'[q].conn
               /\ \E i \in DOMAIN conns' : conns'[i].id = server'[q].conn /\ conns'[i].data = "packet"
    <3>1. q # p /\ server'[q] = server[q]
      BY <1>13, <2>4
    <3>2. PICK i \in DOMAIN conns : conns[i].id = server[q].conn /\ conns[i].data = "packet"
      BY <2>4, <3>1 DEF ConnInv
    <3>3. server[q].conn # id
      <4>1. ToProcess(server[q].conn, q) /\ ToProcess(server[p].last, p)
        BY DEF Parts, ServerOK
      <4>2. QED
        BY <1>1, <1>6, <3>1, <4>1 DEF ToProcess
    <3>4. i \in I
      BY <1>11, <3>2, <3>3
    <3>5. QED
      BY <1>10, <2>4, <3>1, <3>2, <3>4 DEF ConnInv
  <2>5. QED
    BY <2>1, <2>2, <2>3, <2>4 DEF ConnInv
<1>15. InFlight(id) /\ ~ InFlight(id)'
  <2>1. InFlight(id)
    BY <1>4, Flying
  <2>2. \A i \in DOMAIN conns' : conns'[i].id # id
    BY <1>10, <1>11
  <2>3. QED
    BY <1>5, <1>12, <2>1, <2>2, FlyingNext
<1>16. ASSUME NEW j \in DOMAIN sends, j # id PROVE InFlight(j)' <=> InFlight(j)
  <2>1. (\E i \in DOMAIN conns' : conns'[i].id = j) <=> (\E i \in DOMAIN conns : conns[i].id = j)
    BY <1>10, <1>11, <1>16, Zenon
  <2>2. QED
    BY <1>5, <2>1, Flying, FlyingNext
<1>17. sends[id].arrived = 0 /\ sends[id].lost = FALSE
  <2>1. /\ sends[id].arrived + One(sends[id].lost) + One(InFlight(id)) = 1
        /\ sends[id].arrived \in Nat /\ sends[id].lost \in BOOLEAN
    BY <1>6 DEF Placed, Sends
  <2>2. QED
    BY <1>15, <2>1 DEF One
<1>18. ASSUME NEW j \in DOMAIN sends'
       PROVE  sends'[j].arrived + One(sends'[j].lost) + One(InFlight(j)') = 1
  <2>1. CASE j = id
    BY <1>7, <1>8, <1>15, <1>17, <2>1 DEF One
  <2>2. CASE j # id
    BY <1>8, <1>16, <2>2 DEF Placed, One
  <2>3. QED
    BY <2>1, <2>2
<1>19. Placed'
  BY <1>18 DEF Placed, One
<1>20. QED
  BY <1>14, <1>19

(***************************************************************************)
(* The theorems.                                                           *)
(***************************************************************************)
\* A process that has ended stays so.
LEMMA NeverUpAgain == LinkInv /\ [Next]_vars /\ AllUp' => AllUp
<1> SUFFICES ASSUME Parts, [Next]_vars, AllUp' PROVE AllUp
  BY LinkParts
<1>1. UNCHANGED status \/ \E p \in Processes, how \in {"returned", "terminated"} : Stop(p, how)
  <2>1. UNCHANGED vars => UNCHANGED status
    BY DEF vars
  <2>2. ASSUME NEW p \in Processes, MainThread(p) PROVE UNCHANGED status
    BY <2>2 DEF MainThread, RegisterProtocol, Create, Start, Post, MainStep
  <2>3. ASSUME NEW p \in Processes, MainReturns(p) PROVE Stop(p, "returned")
    BY <2>3 DEF MainReturns
  <2>4. ASSUME NEW p \in Processes, Server(p)
        PROVE  UNCHANGED status \/ Stop(p, "terminated")
    BY <2>4 DEF Server, Listen, Accept, Read, ReadNothing, Put
  <2>5. ASSUME NEW a \in Agents, Engine(a) \/ ConnectTimesOut(a)
        PROVE  UNCHANGED status \/ (Home[a] \in Processes /\ Stop(Home[a], "terminated"))
    BY <2>5, HomeAssumption
       DEF Engine, TakeEvent, CallProcedure, BodyReturns, SendLocal, SendRemote, Connect,
           ConnectRefused, ConnectTimesOut, ConnectFails, SendPacket
  <2>6. Next => \/ \E p \in Processes : MainThread(p) \/ Server(p) \/ MainReturns(p)
                \/ \E a \in Agents : Engine(a) \/ ConnectTimesOut(a)
    BY DEF Next
  <2>7. QED
    BY <2>1, <2>2, <2>3, <2>4, <2>5, <2>6
<1>2. ASSUME NEW p \in Processes, NEW how \in {"returned", "terminated"}, Stop(p, how)
      PROVE  AllUp
  <2>1. status' = [status EXCEPT ![p] = how] /\ DOMAIN status = Processes
    BY <1>2 DEF Stop, Parts, MainOK
  <2>2. QED
    BY <2>1 DEF AllUp, Up
<1>3. QED
  BY <1>1, <1>2 DEF AllUp, Up

LEMMA PlaceStep ==
  ASSUME Parts, ConnInv, Placed, [Next]_vars, AllUp'
  PROVE  ConnInv' /\ Placed'
<1>1. ASSUME NEW p \in Processes, MainThread(p) PROVE ConnInv' /\ Placed'
  BY <1>1, MainKeepsPlace
<1>2. ASSUME NEW p \in Processes, Server(p) PROVE ConnInv' /\ Placed'
  BY <1>2, MainKeepsPlace, AcceptKeepsPlace, ReadKeepsPlace, NothingToRead, PutKeepsPlace
     DEF Server
<1>3. ASSUME NEW p \in Processes PROVE ~ MainReturns(p)
  <2>1. SUFFICES ASSUME MainReturns(p) PROVE FALSE
    OBVIOUS
  <2>2. Stop(p, "returned") /\ UNCHANGED sends
    BY <2>1 DEF MainReturns
  <2>3. SendsGrow
    BY <2>2, SendsSame DEF Parts
  <2>4. QED
    BY <2>2, <2>3, Stopped
<1>4. ASSUME NEW a \in Agents, Engine(a) PROVE ConnInv' /\ Placed'
  BY <1>4, BodyKeepsPlace, SendLocalKeepsPlace, SendRemoteKeepsPlace, ConnectKeepsPlace,
     ConnectFailsKeepsPlace, SendPacketKeepsPlace DEF Engine, ConnectRefused
<1>5. ASSUME NEW a \in Agents, ConnectTimesOut(a) PROVE ConnInv' /\ Placed'
  BY <1>5, ConnectFailsKeepsPlace DEF ConnectTimesOut
<1>6. CASE UNCHANGED vars
  <2>1. UNCHANGED <<sends, conns, engine, server>>
    BY <1>6 DEF vars
  <2>2. QED
    BY <2>1, Unmoved
<1>7. QED
  BY <1>1, <1>2, <1>3, <1>4, <1>5, <1>6 DEF Next

LEMMA OnePlaceIs == OnePlace <=> (AllUp => Placed)
BY DEF OnePlace, Placed

LEMMA MessageInit == Init => MessageInv
<1> SUFFICES ASSUME Init PROVE MessageInv
  OBVIOUS
<1>1. LinkInv
  BY LinkInit
<1>2. Placed /\ ConnInv
  BY DEF Init, Placed, ConnInv, Idle
<1>3. QED
  BY <1>1, <1>2, OnePlaceIs DEF MessageInv

LEMMA MessageStep == MessageInv /\ [Next]_vars => MessageInv'
<1> SUFFICES ASSUME MessageInv, [Next]_vars PROVE MessageInv'
  OBVIOUS
<1>1. LinkInv /\ Parts /\ LinkInv'
  BY LinkParts, LinkStep DEF MessageInv
<1>2. AllUp' => ConnInv' /\ Placed'
  <2>1. SUFFICES ASSUME AllUp' PROVE ConnInv' /\ Placed'
    OBVIOUS
  <2>2. AllUp
    BY <1>1, <2>1, NeverUpAgain
  <2>3. ConnInv /\ Placed
    BY <2>2, OnePlaceIs DEF MessageInv
  <2>4. QED
    BY <1>1, <2>1, <2>3, PlaceStep
<1>3. OnePlace'
  BY <1>2 DEF OnePlace, Placed
<1>4. QED
  BY <1>1, <1>2, <1>3 DEF MessageInv

\* The inductive invariant of the messages: who works on which message, and where a
\* message is while no process has ended.
THEOREM MessageInvariant == Spec => []MessageInv
BY MessageInit, MessageStep, PTL DEF Spec

\* The types of the variables, for any processes, agents and programs.
THEOREM TypeCorrect == Spec => []TypeOK
<1>1. MessageInv => TypeOK
  BY DEF MessageInv, LinkInv
<1>2. QED
  BY <1>1, MessageInvariant, PTL

\* An event in a queue or in a body is the message it says, and its sender is the agent
\* that sent it, whatever becomes of the processes (democle.cpp:45-58,
\* tcp_protocol.cpp:107-165, context.cpp:57).
THEOREM SendersAreRight == Spec => []RightSender
<1>1. MessageInv => RightSender
  BY DEF MessageInv, LinkInv
<1>2. QED
  BY <1>1, MessageInvariant, PTL

\* While no process has ended, no message vanishes and none is delivered twice
\* (messaging.cpp:13-36, tcp_protocol.cpp:107-165).
THEOREM MessagesHaveOnePlace == Spec => []OnePlace
<1>1. MessageInv => OnePlace
  BY DEF MessageInv
<1>2. QED
  BY <1>1, MessageInvariant, PTL

(***************************************************************************)
(* Programs in order: what main has done stays done.                       *)
(***************************************************************************)
LEMMA MainDone ==
  ASSUME Parts, DoneInv, NEW p \in Processes, MainThread(p)
  PROVE  DoneInv'
<1>1. PICK n : n = main[p]
  OBVIOUS
<1>2. /\ n \in DOMAIN Main[p] /\ main' = [main EXCEPT ![p] = n + 1] /\ main \in [Processes -> Nat]
      /\ RegisterProtocol(p) \/ Create(p) \/ Start(p) \/ Post(p)
  BY <1>1 DEF MainThread, RegisterProtocol, Create, Start, Post, MainStep, Parts, MainOK
<1>3. main'[p] = n + 1 /\ n \in Nat /\ \A q \in Processes : q # p => main'[q] = main[q]
  BY <1>1, <1>2
<1>4. /\ \A q \in Processes : registry[q] \subseteq registry'[q]
      /\ \A a \in Agents : accepted[a] \subseteq accepted'[a]
      /\ \A q \in Processes : server[q].pc # "off" => server'[q].pc # "off"
  <2>1. /\ registry \in [Processes -> SUBSET Agents] /\ accepted \in [Agents -> SUBSET Templates]
        /\ server = [q \in Processes |-> server[q]] /\ DOMAIN server = Processes
        /\ \A q \in Processes : server[q] \in ServerStates
    BY LinkFacts DEF Parts, Shapes, MainOK
  <2>2. CASE RegisterProtocol(p)
    BY <2>1, <2>2 DEF RegisterProtocol, agentVars, ServerStates
  <2>3. CASE Create(p)
    BY <2>1, <2>3 DEF Create
  <2>4. CASE Start(p)
    BY <2>1, <2>4 DEF Start, AcceptMessages
  <2>5. CASE Post(p)
    BY <2>1, <2>5 DEF Post
  <2>6. QED
    BY <1>2, <2>2, <2>3, <2>4, <2>5
<1>5. /\ Main[p][n].op = "create" => Main[p][n].agent \in registry'[p]
      /\ Main[p][n].op = "protocol" => server'[p].pc # "off"
  <2>1. /\ registry \in [Processes -> SUBSET Agents]
        /\ server = [q \in Processes |-> server[q]] /\ DOMAIN server = Processes
        /\ server[p] \in ServerStates
    BY LinkFacts DEF Parts, Shapes, MainOK
  <2>2. CASE RegisterProtocol(p)
    <3>1. server' = [server EXCEPT ![p].pc = "bind"] /\ Main[p][n].op = "protocol"
      BY <1>1, <2>2 DEF RegisterProtocol, MainStep
    <3>2. QED
      BY <2>1, <3>1 DEF ServerStates
  <2>3. CASE Create(p)
    BY <1>1, <2>1, <2>3 DEF Create, MainStep, Subject
  <2>4. CASE Start(p) \/ Post(p)
    BY <1>1, <2>4 DEF Start, Post, MainStep
  <2>5. QED
    BY <1>2, <2>2, <2>3, <2>4
<1>6. /\ UNCHANGED started
      \/ /\ Main[p][n].op = "start" /\ started' = started \cup {Main[p][n].agent}
         /\ Main[p][n].agent \in Agents /\ Home[Main[p][n].agent] = p
         /\ Accepts[Main[p][n].agent] # <<>> =>
              Head(Accepts[Main[p][n].agent]) \in accepted'[Main[p][n].agent]
  <2>1. CASE Start(p)
    <3>1. /\ MainStep(p, "start") /\ Subject(p) = Main[p][n].agent
          /\ started' = started \cup {Subject(p)}
          /\ Accepts[Subject(p)] # <<>> => AcceptMessages(Subject(p))
      BY <1>1, <2>1 DEF Start, Subject
    <3>2. Main[p][n].op = "start" /\ Subject(p) \in Agents /\ Home[Subject(p)] = p
      BY <1>1, <3>1, MainSteps
    <3>3. accepted \in [Agents -> SUBSET Templates]
      BY DEF Parts, MainOK
    <3>4. QED
      BY <3>1, <3>2, <3>3 DEF AcceptMessages
  <2>2. CASE RegisterProtocol(p) \/ Create(p) \/ Post(p)
    BY <2>2 DEF RegisterProtocol, Create, Post, agentVars
  <2>3. QED
    BY <1>2, <2>1, <2>2
<1>7. ASSUME NEW q \in Processes, NEW i \in 1 .. main'[q] - 1
      PROVE  /\ Main[q][i].op = "create" => Main[q][i].agent \in registry'[q]
             /\ Main[q][i].op = "protocol" => server'[q].pc # "off"
  <2>1. CASE i \in 1 .. main[q] - 1
    BY <1>4, <2>1 DEF DoneInv
  <2>2. CASE i \notin 1 .. main[q] - 1
    <3>1. q = p /\ i = n
      BY <1>1, <1>3, <2>2
    <3>2. QED
      BY <1>5, <3>1
  <2>3. QED
    BY <2>1, <2>2
<1>8. ASSUME NEW q \in Processes, NEW a \in started', Home[a] = q
      PROVE  /\ \E i \in 1 .. main'[q] - 1 : Main[q][i].op = "start" /\ Main[q][i].agent = a
             /\ Accepts[a] # <<>> => Head(Accepts[a]) \in accepted'[a]
  <2>1. CASE a \in started
    <3>1. a \in Agents
      BY <2>1 DEF Parts, MainOK
    <3>2. PICK i \in 1 .. main[q] - 1 : Main[q][i].op = "start" /\ Main[q][i].agent = a
      BY <1>8, <2>1 DEF DoneInv
    <3>3. Accepts[a] # <<>> => Head(Accepts[a]) \in accepted'[a]
      BY <1>4, <1>8, <2>1, <3>1 DEF DoneInv
    <3>4. main[q] \in Nat
      BY <1>2
    <3>5. i \in 1 .. main'[q] - 1
      BY <1>1, <1>3, <3>2, <3>4
    <3>6. QED
      BY <3>2, <3>3, <3>5
  <2>2. CASE a \notin started
    <3>1. a = Main[p][n].agent /\ q = p /\ Main[p][n].op = "start"
      BY <1>6, <1>8, <2>2
    <3>2. n \in 1 .. main'[q] - 1
      <4>1. n \in 1 .. n /\ main'[q] - 1 = n
        <5>1. n >= 1
          BY <1>1 DEF Parts, MainOK
        <5>2. QED
          BY <1>3, <3>1, <5>1
      <4>2. QED
        BY <4>1
    <3>3. QED
      BY <1>6, <2>2, <3>1, <3>2
  <2>3. QED
    BY <2>1, <2>2
<1>9. QED
  BY <1>7, <1>8 DEF DoneInv

\* Other threads construct and start nothing, and no server stops to listen.
LEMMA OthersDone ==
  ASSUME Parts, DoneInv, UNCHANGED <<main, registry, accepted, started>>,
         \/ UNCHANGED server
         \/ \E p \in Processes : \E s : server' = [server EXCEPT ![p] = s] /\ s.pc # "off"
  PROVE  DoneInv'
<1>1. \A q \in Processes : server[q].pc # "off" => server'[q].pc # "off"
  <2>1. server = [q \in Processes |-> server[q]] /\ DOMAIN server = Processes
    BY DEF Parts, Shapes
  <2>2. QED
    BY <2>1
<1>2. QED
  BY <1>1 DEF DoneInv

LEMMA ServerDone ==
  ASSUME Parts, DoneInv, NEW p \in Processes, Server(p)
  PROVE  DoneInv'
<1>1. UNCHANGED <<main, registry, accepted, started>>
  BY Zenon DEF Server, Listen, Accept, Read, ReadNothing, Put, PutMessage, agentVars
<1>2. server[p] \in ServerStates
  BY LinkFacts
<1>3. \/ UNCHANGED server
      \/ server' = [server EXCEPT ![p] = [server[p] EXCEPT !.pc = "accept"]]
      \/ \E id : server' = [server EXCEPT ![p] = [server[p] EXCEPT !.pc = "read", !.conn = id]]
      \/ server' = [server EXCEPT ![p] = [server[p] EXCEPT !.pc = "put", !.last = server[p].conn]]
      \/ server' = [server EXCEPT ![p] = [server[p] EXCEPT !.pc = "put"]]
      \/ server' = [server EXCEPT ![p] = [server[p] EXCEPT !.pc = "accept", !.conn = 0]]
  <2>1. CASE Listen(p)
    BY <2>1 DEF Listen
  <2>2. CASE Accept(p)
    BY <2>2, Zenon DEF Accept
  <2>3. CASE Read(p)
    BY <2>3, Zenon DEF Read
  <2>4. CASE ReadNothing(p)
    BY <2>4, Zenon DEF ReadNothing
  <2>5. CASE Put(p)
    BY <2>5, Zenon DEF Put
  <2>6. QED
    BY <2>1, <2>2, <2>3, <2>4, <2>5, Zenon DEF Server
<1>4. \/ UNCHANGED server
      \/ \E s : server' = [server EXCEPT ![p] = s] /\ s.pc # "off"
  <2>1. /\ [server[p] EXCEPT !.pc = "accept"].pc # "off"
        /\ \A id : [server[p] EXCEPT !.pc = "read", !.conn = id].pc # "off"
        /\ [server[p] EXCEPT !.pc = "put", !.last = server[p].conn].pc # "off"
        /\ [server[p] EXCEPT !.pc = "put"].pc # "off"
        /\ [server[p] EXCEPT !.pc = "accept", !.conn = 0].pc # "off"
    BY <1>2 DEF ServerStates
  <2>2. QED
    BY <1>3, <2>1, Zenon
<1>5. QED
  BY <1>1, <1>4, OthersDone

LEMMA EngineDone ==
  ASSUME Parts, DoneInv, NEW a \in Agents, Engine(a) \/ ConnectTimesOut(a)
  PROVE  DoneInv'
<1>1. UNCHANGED <<main, registry, accepted, started, server>>
  BY DEF Engine, TakeEvent, CallProcedure, BodyReturns, SendLocal, SendRemote, Sending, Connect,
     ConnectRefused, ConnectTimesOut, ConnectFails, SendPacket, PutMessage, agentVars
<1>2. QED
  BY <1>1, OthersDone

(***************************************************************************)
(* What bodies send.                                                       *)
(***************************************************************************)
\* The destination of a route accepts its message, also when it is the sender of the event.
LEMMA RouteWelcomed ==
  ASSUME Parts, AddressedInv, OrderlyRoutes, NEW a \in Agents, NEW r \in Routes,
         EngineAt(a, "body"), r.on = evt(a).msg, r.agent = a
  PROVE  /\ Welcomes(Destination(a, r).agent, r.msg)
         /\ Home[Destination(a, r).agent] = Resolve(Destination(a, r), Home[a]).process
<1>1. CASE r.to # ToSender
  <2>1. /\ Destination(a, r) = r.to /\ r.to \in Address
        /\ Welcomes(r.to.agent, r.msg)
        /\ Home[r.to.agent] = IF r.to.process = Here THEN Home[a] ELSE r.to.process
    BY <1>1, RouteAssumption DEF Destination, OrderlyRoutes
  <2>2. Resolve(r.to, Home[a]).process = IF r.to.process = Here THEN Home[a] ELSE r.to.process
    BY <2>1 DEF Resolve, Address
  <2>3. QED
    BY <2>1, <2>2
<1>2. CASE r.to = ToSender
  <2>1. PICK e : e = evt(a)
    OBVIOUS
  <2>2. e \in Events /\ IsRight(a, e) /\ Destination(a, r) = e.sender /\ e.msg = r.on
    BY <1>2, <2>1, InBody DEF Destination
  <2>3. /\ r.on \notin Posted \cup Procedures
        /\ \A s \in Routes : s.msg = r.on => Welcomes(s.agent, r.msg)
    BY <1>2 DEF OrderlyRoutes
  <2>4. e.id \in DOMAIN sends /\ e.sender \in Address
    BY <2>2, <2>3 DEF Events
  <2>5. e.id # 0
    BY <2>4, LinkFacts
  <2>6. PICK m : m = sends[e.id]
    OBVIOUS
  <2>7. /\ Resolve(e.sender, Home[a]) = [process |-> Home[m.from], agent |-> m.from]
        /\ m.msg = r.on
    BY <2>2, <2>5, <2>6 DEF IsRight
  <2>8. PICK s \in Routes : s.agent = m.from /\ s.msg = m.msg
    BY <2>4, <2>6 DEF AddressedInv
  <2>9. Welcomes(m.from, r.msg)
    BY <2>3, <2>7, <2>8
  <2>10. e.sender.agent = m.from
    <3>1. Resolve(e.sender, Home[a]).agent = e.sender.agent
      BY <2>4 DEF Resolve, Address
    <3>2. QED
      BY <2>7, <3>1
  <2>11. QED
    BY <2>2, <2>7, <2>9, <2>10
<1>3. QED
  BY <1>1, <1>2

\* Messages that are lost or arrive are what they were.
LEMMA WordsStay ==
  ASSUME Parts, AddressedInv,
         \/ UNCHANGED sends
         \/ \E id : sends' = [sends EXCEPT ![id].lost = TRUE]
         \/ \E id : sends' = [sends EXCEPT ![id].arrived = @ + 1]
  PROVE  AddressedInv'
<1>1. DOMAIN sends' = DOMAIN sends
  OBVIOUS
<1>2. ASSUME NEW j \in DOMAIN sends
      PROVE  /\ sends'[j].from = sends[j].from /\ sends'[j].to = sends[j].to
             /\ sends'[j].msg = sends[j].msg
  <2>1. sends[j] \in Sends
    BY LinkFacts
  <2>2. \/ sends'[j] = sends[j]
        \/ sends'[j] = [sends[j] EXCEPT !.lost = TRUE]
        \/ sends'[j] = [sends[j] EXCEPT !.arrived = @ + 1]
    OBVIOUS
  <2>3. QED
    BY <2>1, <2>2 DEF Sends
<1>3. QED
  BY <1>1, <1>2 DEF AddressedInv

\* A body sends one message more.
LEMMA SendAddressed ==
  ASSUME Parts, AddressedInv, OrderlyRoutes, NEW a \in Agents, SendLocal(a) \/ SendRemote(a)
  PROVE  AddressedInv'
<1>1. PICK r \in Routes :
        /\ Sending(a, r)
        /\ \/ sends' = Append(sends, Message(a, r))
           \/ sends' = Append(sends, [Message(a, r) EXCEPT !.arrived = 1])
           \/ sends' = Append(sends, [Message(a, r) EXCEPT !.lost = TRUE])
  <2>1. CASE SendLocal(a)
    BY <2>1 DEF SendLocal
  <2>2. CASE SendRemote(a)
    BY <2>2 DEF SendRemote
  <2>3. QED
    BY <2>1, <2>2
<1>2. /\ EngineAt(a, "body") /\ Len(sends) < MaxSends /\ r.agent = a /\ r.on = evt(a).msg
  BY <1>1 DEF Sending
<1>3. PICK m : m = Message(a, r)
  OBVIOUS
<1>4. m \in Sends /\ m.from = a /\ m.to = Destination(a, r) /\ m.msg = r.msg
  BY <1>2, <1>3, MessageTypes DEF Message
<1>5. PICK s \in Sends : /\ sends' = Append(sends, s)
                         /\ s.from = a /\ s.to = Destination(a, r) /\ s.msg = r.msg
  <2>1. \/ sends' = Append(sends, m)
        \/ sends' = Append(sends, [m EXCEPT !.arrived = 1])
        \/ sends' = Append(sends, [m EXCEPT !.lost = TRUE])
    BY <1>1, <1>3
  <2>2. [m EXCEPT !.arrived = 1] \in Sends /\ [m EXCEPT !.lost = TRUE] \in Sends
    BY <1>4 DEF Sends
  <2>3. /\ [m EXCEPT !.arrived = 1].from = m.from /\ [m EXCEPT !.lost = TRUE].from = m.from
        /\ [m EXCEPT !.arrived = 1].to = m.to /\ [m EXCEPT !.lost = TRUE].to = m.to
        /\ [m EXCEPT !.arrived = 1].msg = m.msg /\ [m EXCEPT !.lost = TRUE].msg = m.msg
    BY <1>4 DEF Sends
  <2>4. QED
    BY <1>4, <2>1, <2>2, <2>3
<1>6. /\ sends'[Len(sends) + 1] = s /\ DOMAIN sends' = 1 .. Len(sends) + 1
      /\ DOMAIN sends = 1 .. Len(sends) /\ Len(sends) \in Nat
      /\ \A id \in DOMAIN sends : sends'[id] = sends[id]
  BY <1>2, <1>5, Sent DEF Parts
<1>7. /\ Welcomes(s.to.agent, s.msg)
      /\ Home[s.to.agent] = Resolve(s.to, Home[s.from]).process
      /\ r.agent = s.from /\ r.msg = s.msg
  BY <1>2, <1>5, RouteWelcomed
<1>8. ASSUME NEW id \in DOMAIN sends'
      PROVE  /\ Welcomes(sends'[id].to.agent, sends'[id].msg)
             /\ Home[sends'[id].to.agent] = Resolve(sends'[id].to, Home[sends'[id].from]).process
             /\ \E t \in Routes : t.agent = sends'[id].from /\ t.msg = sends'[id].msg
  <2>1. id \in DOMAIN sends \/ id = Len(sends) + 1
    BY <1>6
  <2>2. CASE id \in DOMAIN sends
    BY <1>6, <2>2 DEF AddressedInv
  <2>3. CASE id = Len(sends) + 1
    BY <1>6, <1>7, <2>3
  <2>4. QED
    BY <2>1, <2>2, <2>3
<1>9. QED
  BY <1>8 DEF AddressedInv

LEMMA SurvivalInit == Init => SurvivalInv
<1> SUFFICES ASSUME Init PROVE SurvivalInv
  OBVIOUS
<1>1. MessageInv
  BY MessageInit
<1>2. DoneInv
  <2>1. \A p \in Processes : main[p] = 1
    BY DEF Init
  <2>2. \A p \in Processes : 1 .. main[p] - 1 = {}
    BY <2>1
  <2>3. started = {}
    BY DEF Init
  <2>4. QED
    BY <2>2, <2>3 DEF DoneInv
<1>3. AddressedInv
  BY DEF Init, AddressedInv
<1>4. QED
  BY <1>1, <1>2, <1>3 DEF SurvivalInv

LEMMA SurvivalStep == OrderlyRoutes /\ SurvivalInv /\ [Next]_vars => SurvivalInv'
<1> SUFFICES ASSUME OrderlyRoutes, SurvivalInv, [Next]_vars PROVE SurvivalInv'
  OBVIOUS
<1>1. MessageInv' /\ Parts /\ DoneInv /\ AddressedInv
  BY MessageStep, LinkParts DEF SurvivalInv, MessageInv
<1>2. ASSUME NEW p \in Processes, MainThread(p) PROVE DoneInv' /\ AddressedInv'
  <2>1. UNCHANGED sends
    BY <1>2 DEF MainThread, RegisterProtocol, Create, Start, Post, MainStep
  <2>2. QED
    BY <1>1, <1>2, <2>1, MainDone, WordsStay
<1>3. ASSUME NEW p \in Processes, Server(p) PROVE DoneInv' /\ AddressedInv'
  <2>1. UNCHANGED sends \/ \E id : sends' = [sends EXCEPT ![id].arrived = @ + 1]
    BY <1>3 DEF Server, Listen, Accept, Read, ReadNothing, Put, Arrived
  <2>2. QED
    BY <1>1, <1>3, <2>1, ServerDone, WordsStay
<1>4. ASSUME NEW p \in Processes, MainReturns(p) PROVE DoneInv' /\ AddressedInv'
  <2>1. UNCHANGED <<main, registry, accepted, started, server, sends>>
    BY <1>4 DEF MainReturns, agentVars
  <2>2. QED
    BY <1>1, <2>1, OthersDone, WordsStay
<1>5. ASSUME NEW a \in Agents, Engine(a) \/ ConnectTimesOut(a) PROVE DoneInv' /\ AddressedInv'
  <2>1. CASE SendLocal(a) \/ SendRemote(a)
    BY <1>1, <1>5, <2>1, EngineDone, SendAddressed
  <2>2. CASE ~ (SendLocal(a) \/ SendRemote(a))
    <3>1. UNCHANGED sends \/ \E id : sends' = [sends EXCEPT ![id].lost = TRUE]
      BY <1>5, <2>2 DEF Engine, TakeEvent, CallProcedure, BodyReturns, Connect, ConnectRefused,
         ConnectTimesOut, ConnectFails, SendPacket
    <3>2. QED
      BY <1>1, <1>5, <3>1, EngineDone, WordsStay
  <2>3. QED
    BY <2>1, <2>2
<1>6. ASSUME UNCHANGED vars PROVE DoneInv' /\ AddressedInv'
  <2>1. UNCHANGED <<main, registry, accepted, started, server, sends>>
    BY <1>6 DEF vars
  <2>2. QED
    BY <1>1, <2>1, OthersDone, WordsStay
<1>7. DoneInv' /\ AddressedInv'
  BY <1>2, <1>3, <1>4, <1>5, <1>6 DEF Next
<1>8. QED
  BY <1>1, <1>7 DEF SurvivalInv

\* An agent that is started is found, accepts what it lists first, and can send to URLs.
LEMMA StartedReady ==
  ASSUME Parts, DoneInv, OrderlyMain, NEW a \in started
  PROVE  /\ a \in Agents /\ a \in registry[Home[a]]
         /\ \A msg : Welcomes(a, msg) => Deliverable(Home[a], msg, a)
         /\ (\E r \in Routes : r.agent = a /\ (r.to = ToSender \/ r.to.process # Here))
              => server[Home[a]].pc # "off"
<1>1. a \in Agents /\ Home[a] \in Processes
  BY HomeAssumption DEF Parts, MainOK
<1>2. PICK p \in Processes : p = Home[a]
  BY <1>1
<1>3. PICK i \in 1 .. main[p] - 1 : Main[p][i].op = "start" /\ Main[p][i].agent = a
  BY <1>2 DEF DoneInv
<1>4. main[p] \in 1 .. Len(Main[p]) + 1 /\ Len(Main[p]) \in Nat /\ DOMAIN Main[p] = 1 .. Len(Main[p])
  BY MainAssumption DEF Parts, MainOK
<1>5. i \in DOMAIN Main[p] /\ \A j \in 1 .. i - 1 : j \in 1 .. main[p] - 1
  BY <1>4
<1>6. a \in registry[p]
  <2>1. PICK j \in 1 .. i - 1 : Main[p][j].op = "create" /\ Main[p][j].agent = a
    BY <1>3, <1>5 DEF OrderlyMain
  <2>2. QED
    BY <1>5, <2>1 DEF DoneInv
<1>7. ASSUME NEW msg, Welcomes(a, msg) PROVE Deliverable(p, msg, a)
  BY <1>2, <1>6, <1>7 DEF DoneInv, Welcomes, Deliverable
<1>8. ASSUME \E r \in Routes : r.agent = a /\ (r.to = ToSender \/ r.to.process # Here)
      PROVE  server[p].pc # "off"
  <2>1. PICK j \in 1 .. i - 1 : Main[p][j].op = "protocol"
    BY <1>3, <1>5, <1>8 DEF OrderlyMain
  <2>2. QED
    BY <1>5, <2>1 DEF DoneInv
<1>9. QED
  BY <1>1, <1>2, <1>6, <1>7, <1>8

LEMMA Survives ==
  ASSUME Orderly, SurvivalInv, [Next]_vars, NEW p \in Processes, AllStarted(p),
         \A q \in Processes : Up(q)
  PROVE  status'[p] # "terminated"
<1>1. Parts /\ DoneInv /\ AddressedInv /\ ConnInv /\ OrderlyMain /\ OrderlyRoutes
  BY LinkParts DEF SurvivalInv, MessageInv, AllUp, Orderly
<1>2. status[p] = "up" /\ status \in [Processes -> {"up", "returned", "terminated"}]
  BY <1>1 DEF Up, Parts, MainOK
<1>3. \A a \in Agents : Home[a] = p => a \in started
  BY DEF AllStarted
<1>4. ASSUME NEW q \in Processes, NEW how, Stop(q, how), q # p \/ how # "terminated"
      PROVE  status'[p] # "terminated"
  BY <1>2, <1>4 DEF Stop
<1>5. CASE UNCHANGED status
  BY <1>2, <1>5
<1>6. ASSUME NEW a \in Agents, SendLocal(a) PROVE status'[p] # "terminated"
  <2>1. PICK r \in Routes :
          /\ Sending(a, r) /\ Message(a, r).to.process = Here
          /\ \/ UNCHANGED status
             \/ /\ ~ Deliverable(Home[a], Message(a, r).msg, Message(a, r).to.agent)
                /\ Stop(Home[a], "terminated")
    BY <1>6 DEF SendLocal
  <2>2. CASE Home[a] # p
    BY <1>4, <1>5, <2>1, <2>2, HomeAssumption
  <2>3. CASE Home[a] = p
    <3>1. PICK b : b = Destination(a, r).agent
      OBVIOUS
    <3>2. Welcomes(b, r.msg) /\ Home[b] = Resolve(Destination(a, r), Home[a]).process
      BY <1>1, <2>1, <3>1, RouteWelcomed DEF Sending
    <3>3. Destination(a, r) \in Address /\ Destination(a, r).process = Here
      BY <1>1, <2>1, MessageTypes DEF Sending, Message, Sends
    <3>4. Home[b] = p /\ b \in Agents
      BY <2>3, <3>2, <3>3 DEF Resolve, Address, Welcomes
    <3>5. Deliverable(p, r.msg, b)
      BY <1>1, <1>3, <3>2, <3>4, StartedReady
    <3>6. UNCHANGED status
      BY <2>1, <2>3, <3>1, <3>5 DEF Message
    <3>7. QED
      BY <1>5, <3>6
  <2>4. QED
    BY <2>2, <2>3
<1>7. ASSUME NEW a \in Agents, SendRemote(a) PROVE status'[p] # "terminated"
  <2>1. PICK r \in Routes :
          /\ Sending(a, r) /\ Message(a, r).to.process # Here
          /\ UNCHANGED status \/ (server[Home[a]].pc = "off" /\ Stop(Home[a], "terminated"))
    BY <1>7 DEF SendRemote
  <2>2. r.agent = a /\ a \in started /\ (r.to = ToSender \/ r.to.process # Here)
    BY <2>1 DEF Sending, EngineAt, Message, Destination
  <2>3. server[Home[a]].pc # "off"
    BY <1>1, <2>2, StartedReady
  <2>4. QED
    BY <1>5, <2>1, <2>3
<1>8. ASSUME NEW q \in Processes, Put(q) PROVE status'[p] # "terminated"
  <2>1. PICK id : id = server[q].last
    OBVIOUS
  <2>2. /\ UNCHANGED status \/ ( /\ ~ Deliverable(q, sends[id].msg, sends[id].to.agent)
                                 /\ Stop(q, "terminated"))
        /\ ServerAt(q, "put")
    BY <1>8, <2>1 DEF Put
  <2>3. CASE q # p
    BY <1>4, <1>5, <2>2, <2>3
  <2>4. CASE q = p
    <3>1. id # 0 /\ id \in DOMAIN sends /\ ToProcess(id, p)
      BY <1>1, <2>1, <2>2, <2>4, LinkFacts DEF Parts, ServerOK, ServerAt, ServerStates
    <3>2. PICK b : b = sends[id].to.agent
      OBVIOUS
    <3>3. /\ Welcomes(b, sends[id].msg)
          /\ Home[b] = Resolve(sends[id].to, Home[sends[id].from]).process
      BY <1>1, <3>1, <3>2 DEF AddressedInv
    <3>4. Home[b] = p /\ b \in Agents
      <4>1. sends[id].to.process = p /\ p # Here
        BY <3>1, HomeAssumption DEF ToProcess
      <4>2. QED
        BY <3>3, <4>1 DEF Resolve, Welcomes
    <3>5. Deliverable(p, sends[id].msg, b)
      BY <1>1, <1>3, <3>3, <3>4, StartedReady
    <3>6. UNCHANGED status
      BY <2>2, <2>4, <3>2, <3>5
    <3>7. QED
      BY <1>5, <3>6
  <2>5. QED
    BY <2>3, <2>4
<1>9. ASSUME NEW q \in Processes, MainThread(q) \/ Server(q) \/ MainReturns(q)
      PROVE  status'[p] # "terminated"
  <2>1. CASE MainThread(q)
    <3>1. UNCHANGED status
      BY <2>1 DEF MainThread, RegisterProtocol, Create, Start, Post, MainStep
    <3>2. QED
      BY <1>5, <3>1
  <2>2. CASE Listen(q) \/ Accept(q) \/ Read(q)
    <3>1. UNCHANGED status
      BY <2>2 DEF Listen, Accept, Read
    <3>2. QED
      BY <1>5, <3>1
  <2>3. CASE ReadNothing(q)
    BY <1>1, <2>3, NothingToRead
  <2>4. CASE MainReturns(q)
    <3>1. Stop(q, "returned")
      BY <2>4 DEF MainReturns
    <3>2. QED
      BY <1>4, <3>1
  <2>5. QED
    BY <1>8, <1>9, <2>1, <2>2, <2>3, <2>4 DEF Server
<1>10. ASSUME NEW a \in Agents, Engine(a) \/ ConnectTimesOut(a) PROVE status'[p] # "terminated"
  <2>1. CASE ~ (SendLocal(a) \/ SendRemote(a))
    <3>1. UNCHANGED status
      BY <1>10, <2>1 DEF Engine, TakeEvent, CallProcedure, BodyReturns, Connect, ConnectRefused,
         ConnectTimesOut, ConnectFails, SendPacket
    <3>2. QED
      BY <1>5, <3>1
  <2>2. QED
    BY <1>6, <1>7, <2>1
<1>11. UNCHANGED vars => UNCHANGED status
  BY DEF vars
<1>12. QED
  BY <1>5, <1>9, <1>10, <1>11 DEF Next

\* In programs in order, agents that are started survive: whatever the order of the
\* processes, messages find their agents and the agents accept them, and no exception
\* ends a process whose agents are started before a process has ended otherwise
\* (democle.cpp:45-58, tcp_protocol.cpp:107-132).
THEOREM StartedAgentsSurvive ==
  ASSUME Orderly
  PROVE  Spec => StartedSurvive
<1> DEFINE Survive ==
      \A p \in Processes :
        (AllStarted(p) /\ \A q \in Processes : Up(q)) => status'[p] # "terminated"
<1>1. Init => SurvivalInv
  BY SurvivalInit
<1>2. SurvivalInv /\ [Next]_vars => SurvivalInv'
  BY SurvivalStep DEF Orderly
<1>3. SurvivalInv /\ [Next]_vars => [Survive]_vars
  BY Survives
<1>4. QED
  BY <1>1, <1>2, <1>3, PTL DEF Spec, StartedSurvive

(***************************************************************************)
(* The bus: the invariant behind the refinement, part by part.             *)
(***************************************************************************)
Elsewhere(a, s) == \A e \in ToSet(s) : e.sender.process # Home[a]

HandOf(a) ==
  engine[a].id # 0 => /\ Pending(engine[a].id)
                      /\ \A id \in DOMAIN sends : sends[id].from = a => id <= engine[a].id

Abroad == \A id \in DOMAIN sends : sends[id].to.process # Home[sends[id].from]

Pairs ==
  \A i, j \in DOMAIN conns :
    /\ conns[i].id = conns[j].id => i = j
    /\ i < j /\ conns[i].to = conns[j].to =>
         /\ ~ conns[j].accepted
         /\ sends[conns[i].id].from = sends[conns[j].id].from => conns[i].id < conns[j].id

Unsettled == \A i \in DOMAIN conns : Pending(conns[i].id)

Served ==
  \A i \in DOMAIN conns : conns[i].accepted =>
    /\ server[conns[i].to].pc \in {"read", "put"} /\ server[conns[i].to].conn = conns[i].id

NotYet ==
  \A i \in DOMAIN conns : \A a \in Agents : engine[a].id = conns[i].id =>
    engine[a].pc = "send" /\ conns[i].data # "packet"

Done == \A p \in Processes :
  server[p].pc # "put" /\ server[p].last # 0 => sends[server[p].last].arrived > 0

Works(p, i) ==
  /\ conns[i].id = server[p].conn /\ conns[i].accepted
  /\ server[p].pc = "put" => \/ server[p].last = server[p].conn /\ conns[i].data = "packet"
                             \/ sends[server[p].last].arrived > 0 /\ ~ AllUp

Serving == \A p \in Processes :
  server[p].pc \in {"read", "put"} /\ Up(p) => \E i \in DOMAIN conns : Works(p, i)

Once == \A p \in Processes : \A i \in DOMAIN Main[p] :
  i >= main[p] /\ Main[p][i].op = "protocol" => server[p].pc = "off"

LEMMA BusParts ==
  /\ HandInv <=> /\ Abroad
                 /\ \A a \in Agents : Elsewhere(a, inbox[a]) /\ Elsewhere(a, engine[a].evts)
                 /\ \A a \in Agents : HandOf(a)
  /\ OrderInv <=> Pairs /\ Unsettled /\ Served /\ NotYet
  /\ PutInv <=> Done /\ Serving /\ Once
<1>1. HandInv <=> /\ Abroad
                  /\ \A a \in Agents : Elsewhere(a, inbox[a]) /\ Elsewhere(a, engine[a].evts)
                  /\ \A a \in Agents : HandOf(a)
  BY DEF HandInv, Abroad, Elsewhere, HandOf
<1>2. OrderInv <=> Pairs /\ Unsettled /\ Served /\ NotYet
  BY DEF OrderInv, Pairs, Unsettled, Served, NotYet
<1>3. PutInv <=> Done /\ Serving /\ Once
  BY DEF PutInv, Done, Serving, Once, Works
<1>4. QED
  BY <1>1, <1>2, <1>3

\* The connections that are left, in their order.
Kept(f) ==
  /\ \A k \in DOMAIN conns' :
       /\ f[k] \in DOMAIN conns /\ conns'[k].id = conns[f[k]].id
       /\ conns'[k].to = conns[f[k]].to /\ conns'[k].accepted = conns[f[k]].accepted
  /\ \A k, l \in DOMAIN conns' : k < l => f[k] < f[l]

LEMMA PairsKept ==
  ASSUME Parts, Parts', SendsGrow, Pairs, NEW f, Kept(f)
  PROVE  Pairs'
<1> SUFFICES ASSUME NEW i \in DOMAIN conns', NEW j \in DOMAIN conns'
             PROVE  /\ conns'[i].id = conns'[j].id => i = j
                    /\ i < j /\ conns'[i].to = conns'[j].to =>
                         /\ ~ conns'[j].accepted
                         /\ sends'[conns'[i].id].from = sends'[conns'[j].id].from
                              => conns'[i].id < conns'[j].id
  BY DEF Pairs
<1>1. /\ f[i] \in DOMAIN conns /\ conns'[i].id = conns[f[i]].id /\ conns'[i].to = conns[f[i]].to
      /\ f[j] \in DOMAIN conns /\ conns'[j].id = conns[f[j]].id /\ conns'[j].to = conns[f[j]].to
      /\ conns'[j].accepted = conns[f[j]].accepted
      /\ i < j => f[i] < f[j]
      /\ j < i => f[j] < f[i]
  BY DEF Kept
<1>2. DOMAIN conns = 1 .. Len(conns) /\ DOMAIN conns' = 1 .. Len(conns')
  BY DEF Parts, ConnsOK
<1>3. conns'[i].id = conns'[j].id => i = j
  <2>1. SUFFICES ASSUME conns'[i].id = conns'[j].id PROVE i = j
    OBVIOUS
  <2>2. f[i] = f[j]
    BY <1>1, <2>1 DEF Pairs
  <2>3. ~ (i < j) /\ ~ (j < i)
    BY <1>1, <1>2, <2>2
  <2>4. QED
    BY <1>2, <2>3
<1>4. ASSUME i < j, conns'[i].to = conns'[j].to
      PROVE  /\ ~ conns'[j].accepted
             /\ sends'[conns'[i].id].from = sends'[conns'[j].id].from
                  => conns'[i].id < conns'[j].id
  <2>1. /\ ~ conns[f[j]].accepted
        /\ sends[conns[f[i]].id].from = sends[conns[f[j]].id].from
             => conns[f[i]].id < conns[f[j]].id
    BY <1>1, <1>4 DEF Pairs
  <2>2. conns[f[i]].id \in DOMAIN sends /\ conns[f[j]].id \in DOMAIN sends
    BY <1>1, LinkFacts
  <2>3. QED
    BY <1>1, <2>1, <2>2 DEF SendsGrow
<1>5. QED
  BY <1>3, <1>4

\* The end of a process takes the connections to it, and the ends of those from it.
LEMMA StopKeeps ==
  ASSUME Parts, NEW p \in Processes, NEW how, Stop(p, how)
  PROVE  \E f :
           /\ Kept(f)
           /\ \A k \in DOMAIN conns' :
                \/ conns'[k].data = conns[f[k]].data
                \/ conns[f[k]].data = "none" /\ conns'[k].data = "eof"
           /\ \A i \in DOMAIN conns : conns[i].to # p => \E k \in DOMAIN conns' : f[k] = i
<1> DEFINE I    == {i \in DOMAIN conns : conns[i].to # p}
           left == ElementsAt(conns, I)
<1>1. /\ conns \in Seq(Connections) /\ DOMAIN conns = 1 .. Len(conns)
      /\ I \in SUBSET DOMAIN conns /\ I \in SUBSET Nat
  BY LinkFacts
<1>2. /\ IsFiniteSet(I) /\ left \in Seq(Connections)
      /\ Len(left) = Cardinality(I) /\ Cardinality(I) \in Nat
      /\ \A k \in 1 .. Cardinality(I) : Nth(I, k) \in I /\ left[k] = conns[Nth(I, k)]
  BY <1>1, ElementsAtProperties
<1>3. conns' = [i \in DOMAIN left |->
                  IF Home[sends[left[i].id].from] = p /\ left[i].data = "none"
                  THEN [left[i] EXCEPT !.data = "eof"] ELSE left[i]]
  BY DEF Stop
<1>4. \A i \in DOMAIN conns : conns[i].to # p => i \in I
  OBVIOUS
<1> HIDE DEF left
<1>5. DOMAIN left = 1 .. Cardinality(I) /\ DOMAIN conns' = 1 .. Cardinality(I)
  BY <1>2, <1>3
<1> HIDE DEF I
<1> DEFINE f == [k \in 1 .. Cardinality(I) |-> Nth(I, k)]
<1>6. ASSUME NEW k \in DOMAIN conns'
      PROVE  /\ f[k] \in DOMAIN conns /\ conns'[k].id = conns[f[k]].id
             /\ conns'[k].to = conns[f[k]].to /\ conns'[k].accepted = conns[f[k]].accepted
             /\ \/ conns'[k].data = conns[f[k]].data
                \/ conns[f[k]].data = "none" /\ conns'[k].data = "eof"
  <2>1. /\ f[k] = Nth(I, k) /\ f[k] \in DOMAIN conns /\ left[k] = conns[f[k]]
    BY <1>1, <1>2, <1>5
  <2>2. left[k] \in Connections
    BY <2>1, LinkFacts
  <2>3. \/ conns'[k] = left[k]
        \/ conns'[k] = [left[k] EXCEPT !.data = "eof"] /\ left[k].data = "none"
    BY <1>3, <1>5
  <2>4. QED
    BY <2>1, <2>2, <2>3 DEF Connections
<1>7. ASSUME NEW k \in DOMAIN conns', NEW l \in DOMAIN conns', k < l PROVE f[k] < f[l]
  BY <1>1, <1>2, <1>5, <1>7, NthIncreases
<1>8. ASSUME NEW i \in DOMAIN conns, conns[i].to # p PROVE \E k \in DOMAIN conns' : f[k] = i
  BY <1>1, <1>2, <1>4, <1>5, <1>8, MemberNth, ZenonT(30)
<1>9. Kept(f)
  BY <1>6, <1>7 DEF Kept
<1> HIDE DEF f
<1>10. QED
  BY <1>6, <1>8, <1>9

LEMMA OrderEnds ==
  ASSUME Parts, Parts', SendsGrow, OrderInv, PutInv,
         \A id \in DOMAIN sends : sends'[id] = sends[id],
         NEW p \in Processes, NEW how \in {"returned", "terminated"}, Stop(p, how),
         UNCHANGED <<main, engine, server>>
  PROVE  OrderInv' /\ PutInv'
<1>1. PICK f :
        /\ Kept(f)
        /\ \A k \in DOMAIN conns' :
             \/ conns'[k].data = conns[f[k]].data
             \/ conns[f[k]].data = "none" /\ conns'[k].data = "eof"
        /\ \A i \in DOMAIN conns : conns[i].to # p => \E k \in DOMAIN conns' : f[k] = i
  BY StopKeeps
<1>2. /\ Pairs /\ Unsettled /\ Served /\ NotYet /\ Done /\ Serving /\ Once
  BY BusParts
<1>3. Pairs'
  BY <1>1, <1>2, PairsKept
<1>4. ASSUME NEW k \in DOMAIN conns'
      PROVE  /\ Pending(conns[k].id)'
             /\ conns'[k].accepted => /\ server'[conns'[k].to].pc \in {"read", "put"}
                                      /\ server'[conns'[k].to].conn = conns'[k].id
             /\ \A a \in Agents : engine'[a].id = conns'[k].id =>
                  engine'[a].pc = "send" /\ conns'[k].data # "packet"
  <2>1. /\ f[k] \in DOMAIN conns /\ conns'[k].id = conns[f[k]].id
        /\ conns'[k].to = conns[f[k]].to /\ conns'[k].accepted = conns[f[k]].accepted
        /\ conns'[k].data = "packet" => conns[f[k]].data = "packet"
    BY <1>1 DEF Kept
  <2>2. conns'[k].id \in DOMAIN sends
    BY <2>1, LinkFacts
  <2>3. QED
    BY <1>2, <2>1, <2>2 DEF Unsettled, Pending, Served, NotYet
<1>5. OrderInv'
  BY <1>3, <1>4 DEF OrderInv, Pairs
<1>6. Done'
  <2>1. \A q \in Processes : server[q].last # 0 => server[q].last \in DOMAIN sends
    BY LinkFacts DEF ServerStates
  <2>2. QED
    BY <1>2, <2>1 DEF Done
<1>7. Once'
  BY <1>2 DEF Once
<1>8. status' = [status EXCEPT ![p] = how] /\ DOMAIN status = Processes
  BY DEF Stop, Parts, MainOK
<1>9. ~ AllUp'
  BY <1>8 DEF AllUp, Up
<1>10. ASSUME NEW q \in Processes, server'[q].pc \in {"read", "put"}, Up(q)'
       PROVE  \E k \in DOMAIN conns' : Works(q, k)'
  <2>1. q # p /\ Up(q)
    BY <1>8, <1>10 DEF Up
  <2>2. PICK i \in DOMAIN conns : Works(q, i)
    BY <1>2, <1>10, <2>1 DEF Serving
  <2>3. conns[i].to = q
    <3>1. ToProcess(conns[i].id, conns[i].to) /\ ToProcess(server[q].conn, q)
      BY DEF Parts, ConnsOK, ServerOK
    <3>2. conns[i].id # 0
      BY LinkFacts
    <3>3. QED
      BY <2>2, <3>1, <3>2 DEF Works, ToProcess
  <2>4. PICK k \in DOMAIN conns' : f[k] = i
    BY <1>1, <2>1, <2>3
  <2>5. /\ conns'[k].id = conns[i].id /\ conns'[k].accepted = conns[i].accepted
        /\ conns[i].data = "packet" => conns'[k].data = "packet"
    BY <1>1, <2>4 DEF Kept
  <2>6. server[q].last # 0 => sends'[server[q].last] = sends[server[q].last]
    BY LinkFacts DEF ServerStates
  <2>7. server[q].pc = "put" => server[q].last # 0
    BY DEF Parts, ServerOK
  <2>8. Works(q, k)'
    BY <1>9, <2>2, <2>5, <2>6, <2>7 DEF Works
  <2>9. QED
    BY <2>8
<1>11. Serving'
  BY <1>10 DEF Serving
<1>12. QED
  BY <1>5, <1>6, <1>7, <1>11 DEF PutInv, Done, Serving, Once, Works

\* What an action has to be checked for.
LEMMA HandFramed ==
  ASSUME HandInv, Abroad', \A a \in Agents : HandOf(a)',
         \A a \in Agents : inbox'[a] = inbox[a] \/ Elsewhere(a, inbox'[a]),
         \A a \in Agents : engine'[a].evts = engine[a].evts \/ Elsewhere(a, engine'[a].evts)
  PROVE  HandInv'
<1>1. \A a \in Agents : Elsewhere(a, inbox[a]) /\ Elsewhere(a, engine[a].evts)
  BY BusParts
<1>2. \A a \in Agents : Elsewhere(a, inbox'[a]) /\ Elsewhere(a, engine'[a].evts)
  BY <1>1
<1>3. QED
  BY <1>2 DEF HandInv, HandOf, Abroad, Elsewhere

LEMMA HandSame ==
  ASSUME HandInv, UNCHANGED sends, \A a \in Agents : engine'[a].id \in {engine[a].id, 0}
  PROVE  Abroad' /\ \A a \in Agents : HandOf(a)'
<1>1. Abroad /\ \A a \in Agents : HandOf(a)
  BY BusParts
<1>2. QED
  BY <1>1 DEF Abroad, HandOf, Pending

LEMMA InboxElsewhere ==
  ASSUME Parts, HandInv, NEW to \in Agents, NEW e, e.sender.process # Home[to],
         inbox' = [inbox EXCEPT ![to] = Append(@, e)]
  PROVE  \A b \in Agents : inbox'[b] = inbox[b] \/ Elsewhere(b, inbox'[b])
<1>1. Elsewhere(to, inbox[to]) /\ inbox[to] \in Seq(Events)
  BY BusParts DEF Parts, InboxOK
<1>2. /\ inbox'[to] = Append(inbox[to], e) /\ \A b \in Agents : b # to => inbox'[b] = inbox[b]
  BY DEF Parts, Shapes
<1>3. ToSet(inbox'[to]) = ToSet(inbox[to]) \cup {e}
  <2> DEFINE E == Events
             F == E \cup {e}
  <2>1. inbox[to] \in Seq(E) /\ E \subseteq F /\ e \in F
    BY <1>1
  <2> HIDE DEF E, F
  <2>2. inbox[to] \in Seq(F)
    BY <2>1, SeqMonotonic
  <2>3. QED
    BY <1>2, <2>1, <2>2, AppendHolds
<1>4. QED
  BY <1>1, <1>2, <1>3 DEF Elsewhere

\* Steps of main, of bodies and the start of a server.
LEMMA Steady ==
  ASSUME Parts, Parts', OrderInv, PutInv, UNCHANGED <<status, sends, conns>>,
         \A a \in Agents : /\ engine'[a].id = engine[a].id
                           /\ engine'[a].pc = "send" <=> engine[a].pc = "send",
         \A p \in Processes : \/ server'[p] = server[p]
                              \/ /\ server[p].pc \in {"off", "bind"}
                                 /\ server'[p].pc \in {"bind", "accept"}
                                 /\ server'[p].last = server[p].last,
         Once'
  PROVE  OrderInv' /\ PutInv'
<1>1. /\ Pairs /\ Unsettled /\ Served /\ NotYet /\ Done /\ Serving
  BY BusParts
<1>2. Pairs' /\ Unsettled' /\ NotYet'
  BY <1>1 DEF Pairs, Unsettled, Pending, NotYet
<1>3. Served'
  <2>1. \A i \in DOMAIN conns : conns[i].to \in Processes
    BY LinkFacts DEF Connections
  <2>2. QED
    BY <1>1, <2>1 DEF Served
<1>4. Done'
  BY <1>1 DEF Done
<1>5. ASSUME NEW p \in Processes, server'[p].pc \in {"read", "put"}, Up(p)'
      PROVE  \E i \in DOMAIN conns' : Works(p, i)'
  <2>1. server'[p] = server[p] /\ Up(p) /\ (AllUp' <=> AllUp)
    BY <1>5 DEF Up, AllUp
  <2>2. PICK i \in DOMAIN conns : Works(p, i)
    BY <1>1, <1>5, <2>1 DEF Serving
  <2>3. Works(p, i)'
    BY <2>1, <2>2 DEF Works
  <2>4. QED
    BY <2>3
<1>6. Serving'
  BY <1>5 DEF Serving
<1>7. OrderInv'
  BY <1>2, <1>3 DEF OrderInv, Pairs, Unsettled, Served, NotYet
<1>8. PutInv'
  BY <1>4, <1>6 DEF PutInv, Done, Serving, Once, Works
<1>9. QED
  BY <1>7, <1>8

HasBus == Parts /\ MessageInv /\ HandInv /\ OrderInv /\ PutInv

MoreBus == HandInv' /\ OrderInv' /\ PutInv'

LEMMA MainKeepsBus ==
  ASSUME HasBus, Parts', NEW p \in Processes, MainThread(p)
  PROVE  MoreBus
<1>1. /\ \E op : MainStep(p, op) /\ (op = "protocol" <=> RegisterProtocol(p))
      /\ \/ RegisterProtocol(p)
         \/ UNCHANGED server
      /\ \/ UNCHANGED inbox
         \/ Post(p)
  <2>1. CASE RegisterProtocol(p)
    BY <2>1 DEF RegisterProtocol, agentVars
  <2>2. CASE Create(p) \/ Start(p) \/ Post(p)
    <3>1. PICK op \in {"create", "start", "post"} : MainStep(p, op)
      BY <2>2 DEF Create, Start, Post
    <3>2. Main[p][main[p]].op = op
      BY <3>1 DEF MainStep
    <3>3. ~ RegisterProtocol(p)
      BY <3>2 DEF RegisterProtocol, MainStep
    <3>4. QED
      BY <2>2, <3>1, <3>3 DEF Create, Start, Post
  <2>3. QED
    BY <2>1, <2>2 DEF MainThread
<1>2. PICK op : MainStep(p, op) /\ (op = "protocol" <=> RegisterProtocol(p))
  BY <1>1
<1>3. /\ UNCHANGED <<status, kb, engine, conns, sends>> /\ Parts
      /\ main' = [main EXCEPT ![p] = @ + 1] /\ main[p] \in DOMAIN Main[p]
      /\ Main[p][main[p]].op = op /\ HandInv /\ OrderInv /\ PutInv
  BY <1>2 DEF MainStep, HasBus
<1>4. ASSUME NEW a \in Agents PROVE inbox'[a] = inbox[a] \/ Elsewhere(a, inbox'[a])
  <2>1. CASE UNCHANGED inbox
    BY <2>1
  <2>2. CASE Post(p)
    <3>1. PICK to, e : /\ to = Subject(p)
                       /\ e = [msg |-> Main[p][main[p]].msg, id |-> 0, sender |-> NoSender]
      OBVIOUS
    <3>2. inbox' = [inbox EXCEPT ![to] = Append(@, e)] /\ MainStep(p, "post")
      BY <2>2, <3>1 DEF Post
    <3>3. to \in Agents /\ Home[to] \in Processes
      BY <1>3, <3>1, <3>2, MainSteps, HomeAssumption
    <3>4. e.sender.process # Home[to]
      BY <3>1, <3>3, HomeAssumption DEF NoSender
    <3>5. QED
      BY <1>3, <3>2, <3>3, <3>4, InboxElsewhere
  <2>3. QED
    BY <1>1, <2>1, <2>2
<1>5. HandInv'
  BY <1>3, <1>4, HandSame, HandFramed
<1>6. Once /\ main \in [Processes -> Nat] /\ main'[p] = main[p] + 1
  BY <1>3, BusParts DEF Parts, MainOK
<1>7. CASE RegisterProtocol(p)
  <2>1. /\ server' = [server EXCEPT ![p].pc = "bind"] /\ op = "protocol"
        /\ server = [q \in Processes |-> server[q]] /\ DOMAIN server = Processes
        /\ server[p] \in ServerStates
    BY <1>2, <1>3, <1>7 DEF RegisterProtocol, Parts, Shapes, ServerOK
  <2>2. server[p].pc = "off"
    BY <1>3, <1>6, <2>1 DEF Once
  <2>3. /\ server'[p].pc = "bind" /\ server'[p].last = server[p].last
        /\ \A q \in Processes : q # p => server'[q] = server[q]
    BY <2>1 DEF ServerStates
  <2>4. Once'
    <3>1. DOMAIN Main[p] = 1 .. Len(Main[p])
      BY MainAssumption
    <3>2. \A i \in DOMAIN Main[p] : ~ (i >= main[p] + 1 /\ Main[p][i].op = "protocol")
      BY <1>3, <1>6, <2>1, <3>1, MainAssumption
    <3>3. \A q \in Processes : q # p => main'[q] = main[q]
      BY <1>3, <1>6
    <3>4. QED
      BY <1>6, <2>3, <3>2, <3>3 DEF Once
  <2>5. OrderInv' /\ PutInv'
    BY <1>3, <2>2, <2>3, <2>4, Steady
  <2>6. QED
    BY <1>5, <2>5 DEF MoreBus
<1>8. CASE UNCHANGED server
  <2>1. \A q \in Processes : main'[q] \in Nat /\ main'[q] >= main[q]
    BY <1>3, <1>6
  <2>2. \A q \in Processes : DOMAIN Main[q] \subseteq Nat
    <3>1. \A q \in Processes : DOMAIN Main[q] = 1 .. Len(Main[q])
      BY MainAssumption
    <3>2. QED
      BY <3>1
  <2>3. Once'
    BY <1>6, <1>8, <2>1, <2>2 DEF Once
  <2>4. OrderInv' /\ PutInv'
    BY <1>3, <1>8, <2>3, Steady
  <2>5. QED
    BY <1>5, <2>4 DEF MoreBus
<1>9. QED
  BY <1>1, <1>7, <1>8

LEMMA ListenKeepsBus ==
  ASSUME HasBus, Parts', NEW p \in Processes, Listen(p)
  PROVE  MoreBus
<1>1. /\ server[p].pc = "bind" /\ server' = [server EXCEPT ![p].pc = "accept"]
      /\ UNCHANGED <<status, main, inbox, engine, conns, sends>>
      /\ Parts /\ HandInv /\ OrderInv /\ PutInv
  BY DEF Listen, ServerAt, agentVars, HasBus
<1>2. HandInv'
  BY <1>1, HandSame, HandFramed
<1>3. /\ server = [q \in Processes |-> server[q]] /\ DOMAIN server = Processes
      /\ server[p] \in ServerStates
  BY <1>1 DEF Parts, Shapes, ServerOK
<1>4. /\ server'[p].pc = "accept" /\ server'[p].last = server[p].last
      /\ \A q \in Processes : q # p => server'[q] = server[q]
  BY <1>1, <1>3 DEF ServerStates
<1>5. Once'
  <2>1. Once
    BY <1>1, BusParts
  <2>2. QED
    BY <1>1, <1>4, <2>1 DEF Once
<1>6. OrderInv' /\ PutInv'
  BY <1>1, <1>4, <1>5, Steady
<1>7. QED
  BY <1>2, <1>6 DEF MoreBus

LEMMA BodyKeepsBus ==
  ASSUME HasBus, Parts', NEW a \in Agents, TakeEvent(a) \/ CallProcedure(a) \/ BodyReturns(a)
  PROVE  MoreBus
<1>1. /\ UNCHANGED <<status, main, server, conns, sends>>
      /\ Parts /\ HandInv /\ OrderInv /\ PutInv
  BY DEF TakeEvent, CallProcedure, BodyReturns, HasBus
<1>2. /\ engine = [b \in Agents |-> engine[b]] /\ DOMAIN engine = Agents
      /\ inbox = [b \in Agents |-> inbox[b]] /\ DOMAIN inbox = Agents
      /\ engine[a] \in EngineStates
      /\ engine[a].pc \in {"connect", "send"} <=> engine[a].id # 0
      /\ Elsewhere(a, inbox[a]) /\ Elsewhere(a, engine[a].evts)
      /\ inbox[a] \in Seq(Events) /\ engine[a].evts \in Seq(Events)
  BY <1>1, BusParts DEF Parts, Shapes, EngineOK, InboxOK, EngineStates
<1>3. engine[a] = [pc |-> engine[a].pc, evts |-> engine[a].evts, id |-> engine[a].id]
  BY <1>2 DEF EngineStates
<1> DEFINE E == Events
<1>4. inbox[a] \in Seq(E) /\ engine[a].evts \in Seq(E)
  BY <1>2
<1> HIDE DEF E
<1>5. /\ engine[a].pc \in {"idle", "body"} /\ engine[a].id = 0
      /\ engine'[a].pc \in {"idle", "body"} /\ engine'[a].id = 0
      /\ Elsewhere(a, engine'[a].evts)
      /\ \A b \in Agents : b # a => engine'[b] = engine[b]
  <2>1. CASE TakeEvent(a)
    <3>1. /\ engine[a].pc = "idle" /\ inbox[a] # <<>>
          /\ engine' = [engine EXCEPT ![a] = [@ EXCEPT !.pc = "body", !.evts = <<Head(inbox[a])>>]]
      BY <2>1 DEF TakeEvent, EngineAt
    <3>2. engine'[a].evts = <<Head(inbox[a])>> /\ engine'[a].pc = "body" /\ engine'[a].id = 0
      <4>1. engine'[a] = [engine[a] EXCEPT !.pc = "body", !.evts = <<Head(inbox[a])>>]
        BY <1>2, <3>1
      <4>2. engine'[a] = [pc |-> "body", evts |-> <<Head(inbox[a])>>, id |-> engine[a].id]
        BY <1>3, <4>1
      <4>3. QED
        BY <1>2, <3>1, <4>2
    <3>3. Head(inbox[a]) \in ToSet(inbox[a])
      BY <1>4, <3>1, HeadHolds
    <3>4. Elsewhere(a, <<Head(inbox[a])>>)
      BY <1>2, <3>3 DEF Elsewhere, ToSet
    <3>5. QED
      BY <1>2, <3>1, <3>2, <3>4
  <2>2. CASE CallProcedure(a)
    <3>1. PICK call \in Calls :
            engine' = [engine EXCEPT ![a].evts =
                         Append(@, [msg |-> call.procedure, id |-> 0, sender |-> NoSender])]
      BY <2>2 DEF CallProcedure
    <3>2. PICK e : e = [msg |-> call.procedure, id |-> 0, sender |-> NoSender]
      OBVIOUS
    <3>3. /\ engine[a].pc = "body" /\ engine'[a].evts = Append(engine[a].evts, e)
          /\ engine'[a].pc = "body" /\ engine'[a].id = engine[a].id
      <4>1. engine[a].pc = "body"
        BY <2>2 DEF CallProcedure, EngineAt
      <4>2. engine'[a] = [engine[a] EXCEPT !.evts = Append(engine[a].evts, e)]
        BY <1>2, <3>1, <3>2
      <4>3. engine'[a] = [pc |-> engine[a].pc, evts |-> Append(engine[a].evts, e), id |-> engine[a].id]
        BY <1>3, <4>2
      <4>4. QED
        BY <4>1, <4>3
    <3>4. e.sender.process # Home[a]
      BY <3>2, HomeAssumption DEF NoSender
    <3>5. e \in E
      BY <3>2 DEF E, Events, Procedures
    <3>6. ToSet(engine'[a].evts) = ToSet(engine[a].evts) \cup {e}
      BY <1>4, <3>3, <3>5, AppendHolds
    <3>7. QED
      BY <1>2, <3>1, <3>3, <3>4, <3>6 DEF Elsewhere
  <2>3. CASE BodyReturns(a)
    <3>1. engine[a].pc = "body" /\ engine[a].id = 0
      BY <1>2, <2>3 DEF BodyReturns, EngineAt
    <3>2. \/ engine' = [engine EXCEPT ![a] = Idle]
          \/ engine' = [engine EXCEPT ![a] = [engine[a] EXCEPT !.evts = Front(engine[a].evts)]]
      BY <2>3 DEF BodyReturns
    <3>3. CASE engine' = [engine EXCEPT ![a] = Idle]
      <4>1. engine'[a] = [pc |-> "idle", evts |-> <<>>, id |-> 0]
        BY <1>2, <3>3 DEF Idle
      <4>2. Elsewhere(a, <<>>)
        BY EmptyHolds DEF Elsewhere
      <4>3. QED
        BY <1>2, <3>1, <3>3, <4>1, <4>2
    <3>4. CASE engine' = [engine EXCEPT ![a] = [engine[a] EXCEPT !.evts = Front(engine[a].evts)]]
      <4>1. /\ engine'[a].evts = Front(engine[a].evts) /\ engine'[a].pc = "body"
            /\ engine'[a].id = 0
        <5>1. engine'[a] = [engine[a] EXCEPT !.evts = Front(engine[a].evts)]
          BY <1>2, <3>4
        <5>2. engine'[a] = [pc |-> engine[a].pc, evts |-> Front(engine[a].evts), id |-> engine[a].id]
          BY <1>3, <5>1
        <5>3. QED
          BY <3>1, <5>2
      <4>2. engine[a].evts # <<>>
        BY <1>1, <3>1 DEF Parts, EngineOK
      <4>3. PICK s : s = engine[a].evts
        OBVIOUS
      <4>4. /\ Front(s) \in Seq(E) /\ Len(Front(s)) = Len(s) - 1 /\ s \in Seq(E)
            /\ \A i \in 1 .. Len(s) - 1 : Front(s)[i] = s[i]
        BY <1>4, <4>2, <4>3, FrontHolds
      <4>5. ASSUME NEW i \in DOMAIN Front(s) PROVE Front(s)[i] \in ToSet(s)
        <5>1. i \in DOMAIN s /\ Front(s)[i] = s[i]
          BY <4>4
        <5>2. QED
          BY <5>1 DEF ToSet
      <4>6. Elsewhere(a, Front(s))
        BY <1>2, <4>3, <4>5 DEF Elsewhere, ToSet
      <4>7. QED
        BY <1>2, <3>1, <3>4, <4>1, <4>3, <4>6
    <3>5. QED
      BY <3>2, <3>3, <3>4
  <2>4. QED
    BY <2>1, <2>2, <2>3
<1>6. ASSUME NEW b \in Agents PROVE inbox'[b] = inbox[b] \/ Elsewhere(b, inbox'[b])
  <2>1. CASE TakeEvent(a)
    <3>1. inbox' = [inbox EXCEPT ![a] = Tail(@)] /\ inbox[a] # <<>>
      BY <2>1 DEF TakeEvent
    <3>2. ToSet(Tail(inbox[a])) \subseteq ToSet(inbox[a])
      BY <1>4, <3>1, HeadHolds
    <3>3. QED
      BY <1>2, <3>1, <3>2 DEF Elsewhere
  <2>2. CASE CallProcedure(a) \/ BodyReturns(a)
    BY <2>2 DEF CallProcedure, BodyReturns, agentVars
  <2>3. QED
    BY <2>1, <2>2
<1>7. HandInv'
  BY <1>1, <1>5, <1>6, HandSame, HandFramed
<1>8. Once'
  <2>1. Once
    BY <1>1, BusParts
  <2>2. QED
    BY <1>1, <2>1 DEF Once
<1>9. OrderInv' /\ PutInv'
  BY <1>1, <1>5, <1>8, Steady
<1>10. QED
  BY <1>7, <1>9 DEF MoreBus

\* Steps after which the connections and their messages are the same.
LEMMA OrderSame ==
  ASSUME Parts, Parts', SendsGrow, OrderInv, PutInv, UNCHANGED <<status, main, server, conns>>,
         \A i \in DOMAIN conns : sends'[conns[i].id] = sends[conns[i].id],
         \A id \in DOMAIN sends : sends[id].arrived > 0 => sends'[id].arrived > 0,
         \A b \in Agents : \/ engine'[b] = engine[b]
                           \/ \A i \in DOMAIN conns : engine'[b].id # conns[i].id
  PROVE  OrderInv' /\ PutInv'
<1>1. /\ Pairs /\ Unsettled /\ Served /\ NotYet /\ Done /\ Serving /\ Once
  BY BusParts
<1>2. Pairs' /\ Unsettled' /\ Served'
  BY <1>1 DEF Pairs, Unsettled, Pending, Served
<1>3. NotYet'
  <2>1. SUFFICES ASSUME NEW i \in DOMAIN conns, NEW b \in Agents, engine'[b].id = conns[i].id
                 PROVE  engine'[b].pc = "send" /\ conns[i].data # "packet"
    BY DEF NotYet
  <2>2. engine'[b] = engine[b]
    BY <2>1
  <2>3. QED
    BY <1>1, <2>1, <2>2 DEF NotYet
<1>4. \A p \in Processes : server[p].last # 0 => server[p].last \in DOMAIN sends
  BY LinkFacts DEF ServerStates
<1>5. Done' /\ Once'
  BY <1>1, <1>4 DEF Done, Once
<1>6. ASSUME NEW p \in Processes, server'[p].pc \in {"read", "put"}, Up(p)'
      PROVE  \E i \in DOMAIN conns' : Works(p, i)'
  <2>1. Up(p) /\ (AllUp' <=> AllUp)
    BY <1>6 DEF Up, AllUp
  <2>2. PICK i \in DOMAIN conns : Works(p, i)
    BY <1>1, <1>6, <2>1 DEF Serving
  <2>3. server[p].pc = "put" => server[p].last # 0
    BY DEF Parts, ServerOK
  <2>4. Works(p, i)'
    BY <1>4, <2>1, <2>2, <2>3 DEF Works
  <2>5. QED
    BY <2>4
<1>7. Serving'
  BY <1>6 DEF Serving
<1>8. OrderInv'
  BY <1>2, <1>3 DEF OrderInv, Pairs, Unsettled, Served, NotYet
<1>9. PutInv'
  BY <1>5, <1>7 DEF PutInv, Done, Serving, Once, Works
<1>10. QED
  BY <1>8, <1>9

\* An agent sends to another process, or to a plain name.
LEMMA HandNew ==
  ASSUME Parts, HandInv, NEW a \in Agents, NEW s \in Sends, Len(sends) < MaxSends,
         sends' = Append(sends, s), s.from = a, s.to.process # Home[a],
         \A b \in Agents : b # a => engine'[b] = engine[b],
         engine'[a].id = 0 \/ (engine'[a].id = Len(sends) + 1 /\ s.arrived = 0 /\ ~ s.lost)
  PROVE  Abroad' /\ \A b \in Agents : HandOf(b)'
<1>1. /\ sends'[Len(sends) + 1] = s /\ DOMAIN sends' = 1 .. Len(sends) + 1
      /\ Len(sends) \in Nat /\ DOMAIN sends = 1 .. Len(sends)
      /\ \A id \in DOMAIN sends : sends'[id] = sends[id]
  BY Sent DEF Parts
<1>2. Abroad /\ \A b \in Agents : HandOf(b)
  BY BusParts
<1>3. ASSUME NEW id \in DOMAIN sends' PROVE id \in DOMAIN sends \/ id = Len(sends) + 1
  BY <1>1
<1>4. Abroad'
  BY <1>1, <1>2, <1>3 DEF Abroad
<1>5. ASSUME NEW b \in Agents PROVE HandOf(b)'
  <2>1. CASE b = a
    <3>1. SUFFICES ASSUME engine'[a].id # 0 PROVE HandOf(a)'
      BY <2>1 DEF HandOf
    <3>2. \A id \in DOMAIN sends' : id <= engine'[a].id
      BY <1>1, <3>1
    <3>3. QED
      BY <1>1, <3>1, <3>2 DEF HandOf, Pending
  <2>2. CASE b # a
    <3>1. SUFFICES ASSUME engine[b].id # 0 PROVE HandOf(b)'
      BY <2>2 DEF HandOf
    <3>2. engine[b].id \in DOMAIN sends /\ engine'[b] = engine[b]
      BY <1>1, <2>2, <3>1, LinkFacts
    <3>3. sends'[engine'[b].id].arrived = 0 /\ ~ sends'[engine'[b].id].lost
      BY <1>1, <1>2, <3>1, <3>2 DEF HandOf, Pending
    <3>4. \A id \in DOMAIN sends' : sends'[id].from = b => id <= engine'[b].id
      BY <1>1, <1>2, <1>3, <2>2, <3>1, <3>2 DEF HandOf
    <3>5. QED
      BY <3>3, <3>4 DEF HandOf, Pending
  <2>3. QED
    BY <2>1, <2>2
<1>6. QED
  BY <1>4, <1>5

\* What a body sends does not go to a URL of its own process.
LEMMA NeverHome ==
  ASSUME Parts, HandInv, Unmixed, NEW a \in Agents, NEW r \in Routes, EngineAt(a, "body"),
         r.agent = a
  PROVE  Message(a, r).to.process # Home[a]
<1>1. evt(a) \in ToSet(engine[a].evts) /\ Elsewhere(a, engine[a].evts)
  BY InBody, BusParts
<1>2. evt(a).sender.process # Home[a]
  BY <1>1 DEF Elsewhere
<1>3. r.to = ToSender \/ r.to.process # Home[a]
  BY DEF Unmixed
<1>4. Destination(a, r).process # Home[a]
  BY <1>2, <1>3 DEF Destination
<1>5. QED
  BY <1>4 DEF Message

\* What becomes of a message that a body sends to a plain name.
LEMMA LocalSend ==
  ASSUME HasBus, NEW a \in Agents, SendLocal(a)
  PROVE  \E s \in Sends :
           /\ EngineAt(a, "body") /\ Len(sends) < MaxSends /\ UNCHANGED <<main, engine, server>>
           /\ sends' = Append(sends, s) /\ s.from = a /\ s.to.process = Here
           /\ \/ /\ s.arrived = 1 /\ ~ s.lost /\ UNCHANGED <<status, conns>>
                 /\ Deliverable(Home[a], s.msg, s.to.agent)
                 /\ PutMessage(Len(sends) + 1, s.msg, s.to.agent, [process |-> Here, agent |-> a])
              \/ /\ s.arrived = 0 /\ s.lost
                 /\ Stop(Home[a], "terminated") /\ UNCHANGED agentVars
<1>1. PICK r \in Routes :
        LET m  == Message(a, r)
            id == Len(sends) + 1
        IN  /\ Sending(a, r)
            /\ m.to.process = Here
            /\ UNCHANGED engine
            /\ IF Deliverable(Home[a], m.msg, m.to.agent)
               THEN /\ PutMessage(id, m.msg, m.to.agent, [process |-> Here, agent |-> a])
                    /\ sends' = Append(sends, [m EXCEPT !.arrived = 1])
                    /\ UNCHANGED <<status, conns>>
               ELSE /\ Stop(Home[a], "terminated")
                    /\ sends' = Append(sends, [m EXCEPT !.lost = TRUE])
                    /\ UNCHANGED agentVars
  BY DEF SendLocal
<1>2. PICK m : m = Message(a, r)
  OBVIOUS
<1>3. /\ EngineAt(a, "body") /\ Len(sends) < MaxSends /\ UNCHANGED <<main, engine, server>>
      /\ m.to.process = Here
  BY <1>1, <1>2 DEF Sending
<1>4. m \in Sends /\ m.from = a /\ m.arrived = 0 /\ m.lost = FALSE
  BY <1>2, <1>3, MessageTypes DEF HasBus
<1>5. CASE Deliverable(Home[a], m.msg, m.to.agent)
  <2>1. PICK s : s = [m EXCEPT !.arrived = 1]
    OBVIOUS
  <2>2. s \in Sends /\ s.from = a /\ s.to = m.to /\ s.msg = m.msg /\ s.arrived = 1 /\ ~ s.lost
    BY <1>4, <2>1 DEF Sends
  <2>3. QED
    BY <1>1, <1>2, <1>3, <1>5, <2>1, <2>2
<1>6. CASE ~ Deliverable(Home[a], m.msg, m.to.agent)
  <2>1. PICK s : s = [m EXCEPT !.lost = TRUE]
    OBVIOUS
  <2>2. s \in Sends /\ s.from = a /\ s.to = m.to /\ s.arrived = 0 /\ s.lost
    BY <1>4, <2>1 DEF Sends
  <2>3. QED
    BY <1>1, <1>2, <1>3, <1>6, <2>1, <2>2
<1>7. QED
  BY <1>5, <1>6

\* And to a URL.
LEMMA RemoteSend ==
  ASSUME HasBus, Unmixed, NEW a \in Agents, SendRemote(a)
  PROVE  \E s \in Sends :
           /\ EngineAt(a, "body") /\ Len(sends) < MaxSends
           /\ UNCHANGED <<main, server, agentVars>>
           /\ sends' = Append(sends, s) /\ s.from = a
           /\ s.to.process # Here /\ s.to.process # Home[a] /\ s.arrived = 0
           /\ \/ /\ ~ s.lost /\ UNCHANGED <<status, conns>>
                 /\ engine' = [engine EXCEPT ![a] = [pc |-> "connect", evts |-> engine[a].evts,
                                                     id |-> Len(sends) + 1]]
              \/ /\ s.lost /\ Stop(Home[a], "terminated") /\ UNCHANGED engine
<1>1. PICK r \in Routes :
        LET m == Message(a, r) IN
          /\ Sending(a, r)
          /\ m.to.process # Here
          /\ UNCHANGED agentVars
          /\ IF server[Home[a]].pc # "off"
             THEN /\ engine' = [engine EXCEPT ![a].pc = "connect", ![a].id = Len(sends) + 1]
                  /\ sends' = Append(sends, m)
                  /\ UNCHANGED <<status, conns>>
             ELSE /\ Stop(Home[a], "terminated")
                  /\ sends' = Append(sends, [m EXCEPT !.lost = TRUE])
                  /\ UNCHANGED engine
  BY DEF SendRemote
<1>2. PICK m : m = Message(a, r)
  OBVIOUS
<1>3. /\ EngineAt(a, "body") /\ Len(sends) < MaxSends /\ UNCHANGED <<main, server, agentVars>>
      /\ m.to.process # Here /\ r.agent = a
  BY <1>1, <1>2 DEF Sending
<1>4. m \in Sends /\ m.from = a /\ m.arrived = 0 /\ m.lost = FALSE /\ m.to.process # Home[a]
  BY <1>2, <1>3, MessageTypes, NeverHome DEF HasBus
<1>5. CASE server[Home[a]].pc # "off"
  <2>1. PICK n : n = Len(sends) + 1
    OBVIOUS
  <2>2. engine' = [engine EXCEPT ![a].pc = "connect", ![a].id = n]
    BY <1>1, <1>5, <2>1
  <2>3. engine[a] = [pc |-> engine[a].pc, evts |-> engine[a].evts, id |-> engine[a].id]
    <3>1. engine[a] \in EngineStates
      BY LinkFacts DEF HasBus
    <3>2. QED
      BY <3>1 DEF EngineStates
  <2>4. engine = [b \in Agents |-> engine[b]] /\ DOMAIN engine = Agents
    BY DEF HasBus, Parts, Shapes
  <2>5. engine'[a] = [engine[a] EXCEPT !.pc = "connect", !.id = n]
    BY <2>2, <2>4
  <2>6. engine'[a] = [pc |-> "connect", evts |-> engine[a].evts, id |-> n]
    BY <2>3, <2>5
  <2>7. engine' = [engine EXCEPT ![a] = engine'[a]]
    BY <2>2, <2>4
  <2>8. engine' = [engine EXCEPT ![a] = [pc |-> "connect", evts |-> engine[a].evts, id |-> n]]
    BY <2>6, <2>7
  <2>9. QED
    BY <1>1, <1>2, <1>3, <1>4, <1>5, <2>1, <2>8
<1>6. CASE server[Home[a]].pc = "off"
  <2>1. PICK s : s = [m EXCEPT !.lost = TRUE]
    OBVIOUS
  <2>2. s \in Sends /\ s.from = a /\ s.to = m.to /\ s.arrived = 0 /\ s.lost
    BY <1>4, <2>1 DEF Sends
  <2>3. QED
    BY <1>1, <1>2, <1>3, <1>4, <1>6, <2>1, <2>2
<1>7. QED
  BY <1>5, <1>6

LEMMA SendLocalKeepsBus ==
  ASSUME HasBus, Parts', Unmixed, NEW a \in Agents, SendLocal(a)
  PROVE  MoreBus
<1>1. PICK s \in Sends :
        /\ EngineAt(a, "body") /\ Len(sends) < MaxSends /\ UNCHANGED <<main, engine, server>>
        /\ sends' = Append(sends, s) /\ s.from = a /\ s.to.process = Here
        /\ \/ /\ s.arrived = 1 /\ ~ s.lost /\ UNCHANGED <<status, conns>>
              /\ Deliverable(Home[a], s.msg, s.to.agent)
              /\ PutMessage(Len(sends) + 1, s.msg, s.to.agent, [process |-> Here, agent |-> a])
           \/ /\ s.arrived = 0 /\ s.lost
              /\ Stop(Home[a], "terminated") /\ UNCHANGED agentVars
  BY LocalSend
<1>2. Parts /\ HandInv /\ OrderInv /\ PutInv /\ Home[a] \in Processes
  BY HomeAssumption DEF HasBus
<1>3. SendsGrow /\ \A id \in DOMAIN sends : sends'[id] = sends[id]
  BY <1>1, <1>2, Sent DEF Parts
<1>4. Abroad' /\ \A b \in Agents : HandOf(b)'
  <2>1. engine[a].id = 0
    <3>1. engine[a] = [pc |-> "body", evts |-> engine[a].evts, id |-> 0]
      BY <1>1, <1>2, InBody
    <3>2. QED
      BY <3>1
  <2>2. s.to.process # Home[a]
    BY <1>1, <1>2, HomeAssumption
  <2>3. QED
    BY <1>1, <1>2, <2>1, <2>2, HandNew
<1>5. CASE Deliverable(Home[a], s.msg, s.to.agent) /\ UNCHANGED <<status, conns>>
           /\ PutMessage(Len(sends) + 1, s.msg, s.to.agent, [process |-> Here, agent |-> a])
  <2>1. PICK to, e : /\ to = s.to.agent
                     /\ e = [msg |-> s.msg, id |-> Len(sends) + 1,
                             sender |-> [process |-> Here, agent |-> a]]
    OBVIOUS
  <2>2. to \in Agents /\ e.sender.process # Home[to]
    <3>1. to \in Agents /\ Home[to] \in Processes
      BY <1>2, <1>5, <2>1, HomeAssumption DEF Deliverable, Parts, MainOK
    <3>2. QED
      BY <2>1, <3>1, HomeAssumption
  <2>3. UNCHANGED inbox \/ inbox' = [inbox EXCEPT ![to] = Append(@, e)]
    BY <1>5, <2>1 DEF PutMessage
  <2>4. \A b \in Agents : inbox'[b] = inbox[b] \/ Elsewhere(b, inbox'[b])
    BY <1>2, <2>2, <2>3, InboxElsewhere
  <2>5. HandInv'
    BY <1>1, <1>2, <1>4, <2>4, HandFramed
  <2>6. \A i \in DOMAIN conns : conns[i].id \in DOMAIN sends
    BY <1>2, LinkFacts
  <2>7. OrderInv' /\ PutInv'
    BY <1>1, <1>2, <1>3, <1>5, <2>6, OrderSame
  <2>8. QED
    BY <2>5, <2>7 DEF MoreBus
<1>6. CASE Stop(Home[a], "terminated") /\ UNCHANGED agentVars
  <2>1. HandInv'
    BY <1>1, <1>2, <1>4, <1>6, HandFramed DEF agentVars
  <2>2. OrderInv' /\ PutInv'
    BY <1>1, <1>2, <1>3, <1>6, OrderEnds
  <2>3. QED
    BY <2>1, <2>2 DEF MoreBus
<1>7. QED
  BY <1>1, <1>5, <1>6

LEMMA SendRemoteKeepsBus ==
  ASSUME HasBus, Parts', Unmixed, NEW a \in Agents, SendRemote(a)
  PROVE  MoreBus
<1>1. PICK s \in Sends :
        /\ EngineAt(a, "body") /\ Len(sends) < MaxSends
        /\ UNCHANGED <<main, server, agentVars>>
        /\ sends' = Append(sends, s) /\ s.from = a
        /\ s.to.process # Here /\ s.to.process # Home[a] /\ s.arrived = 0
        /\ \/ /\ ~ s.lost /\ UNCHANGED <<status, conns>>
              /\ engine' = [engine EXCEPT ![a] = [pc |-> "connect", evts |-> engine[a].evts,
                                                  id |-> Len(sends) + 1]]
           \/ /\ s.lost /\ Stop(Home[a], "terminated") /\ UNCHANGED engine
  BY RemoteSend
<1>2. Parts /\ HandInv /\ OrderInv /\ PutInv /\ Home[a] \in Processes
  BY HomeAssumption DEF HasBus
<1>3. SendsGrow /\ \A id \in DOMAIN sends : sends'[id] = sends[id]
  BY <1>1, <1>2, Sent DEF Parts
<1>4. CASE ~ s.lost /\ UNCHANGED <<status, conns>>
           /\ engine' = [engine EXCEPT ![a] = [pc |-> "connect", evts |-> engine[a].evts,
                                               id |-> Len(sends) + 1]]
  <2>1. engine = [b \in Agents |-> engine[b]] /\ DOMAIN engine = Agents
    BY <1>2 DEF Parts, Shapes
  <2>2. /\ engine'[a].id = Len(sends) + 1 /\ engine'[a].evts = engine[a].evts
        /\ \A b \in Agents : b # a => engine'[b] = engine[b]
    BY <1>4, <2>1
  <2>3. Abroad' /\ \A b \in Agents : HandOf(b)'
    BY <1>1, <1>2, <1>4, <2>2, HandNew
  <2>4. HandInv'
    BY <1>1, <1>2, <2>2, <2>3, HandFramed DEF agentVars
  <2>5. \A i \in DOMAIN conns : conns[i].id \in DOMAIN sends /\ conns[i].id # engine'[a].id
    BY <1>2, <2>2, LinkFacts
  <2>6. OrderInv' /\ PutInv'
    BY <1>1, <1>2, <1>3, <1>4, <2>2, <2>5, OrderSame
  <2>7. QED
    BY <2>4, <2>6 DEF MoreBus
<1>5. CASE Stop(Home[a], "terminated") /\ UNCHANGED engine
  <2>1. engine[a].id = 0
    <3>1. engine[a] = [pc |-> "body", evts |-> engine[a].evts, id |-> 0]
      BY <1>1, <1>2, InBody
    <3>2. QED
      BY <3>1
  <2>2. Abroad' /\ \A b \in Agents : HandOf(b)'
    BY <1>1, <1>2, <1>5, <2>1, HandNew
  <2>3. HandInv'
    BY <1>1, <1>2, <1>5, <2>2, HandFramed DEF agentVars
  <2>4. OrderInv' /\ PutInv'
    BY <1>1, <1>2, <1>3, <1>5, OrderEnds
  <2>5. QED
    BY <2>3, <2>4 DEF MoreBus
<1>6. QED
  BY <1>1, <1>4, <1>5

\* A message is given up whose agent returns to its body.
LEMMA HandReturns ==
  ASSUME Parts, HandInv, NEW a \in Agents, engine[a].id # 0, SendReturns(a),
         UNCHANGED inbox, DOMAIN sends' = DOMAIN sends,
         \A id \in DOMAIN sends : /\ sends'[id].from = sends[id].from
                                  /\ sends'[id].to = sends[id].to
                                  /\ id # engine[a].id => sends'[id] = sends[id]
  PROVE  HandInv'
<1>1. /\ engine'[a].id = 0
      /\ \A b \in Agents : b # a => engine'[b] = engine[b] /\ engine[b].id # engine[a].id
  BY Returned
<1>2. engine'[a].evts = engine[a].evts
  <2>1. engine[a] \in EngineStates
    BY LinkFacts
  <2>2. engine[a] = [pc |-> engine[a].pc, evts |-> engine[a].evts, id |-> engine[a].id]
    BY <2>1 DEF EngineStates
  <2>3. engine'[a] = [engine[a] EXCEPT !.pc = "body", !.id = 0]
    BY DEF SendReturns, Parts, Shapes
  <2>4. engine'[a] = [pc |-> "body", evts |-> engine[a].evts, id |-> 0]
    BY <2>2, <2>3
  <2>5. QED
    BY <2>4
<1>3. Abroad /\ \A b \in Agents : HandOf(b)
  BY BusParts
<1>4. Abroad'
  BY <1>3 DEF Abroad
<1>5. ASSUME NEW b \in Agents PROVE HandOf(b)'
  <2>1. CASE engine'[b].id = 0
    BY <2>1 DEF HandOf
  <2>2. CASE engine'[b].id # 0
    <3>1. b # a /\ engine'[b] = engine[b] /\ engine[b].id # engine[a].id
      BY <1>1, <2>2
    <3>2. engine[b].id \in DOMAIN sends
      BY <2>2, <3>1, LinkFacts
    <3>3. QED
      BY <1>3, <2>2, <3>1, <3>2 DEF HandOf, Pending
  <2>3. QED
    BY <2>1, <2>2
<1>6. \A b \in Agents : engine'[b].evts = engine[b].evts
  BY <1>1, <1>2
<1>7. QED
  BY <1>4, <1>5, <1>6, HandFramed

LEMMA ConnectFailsKeepsBus ==
  ASSUME HasBus, Parts', NEW a \in Agents, ConnectFails(a)
  PROVE  MoreBus
<1>1. PICK id, s : id = engine[a].id /\ s = [sends[id] EXCEPT !.lost = TRUE]
  OBVIOUS
<1>2. /\ EngineAt(a, "connect") /\ sends' = [sends EXCEPT ![id] = s] /\ SendReturns(a)
      /\ UNCHANGED <<status, main, inbox, server, conns>>
      /\ Parts /\ HandInv /\ OrderInv /\ PutInv
  BY <1>1 DEF ConnectFails, HasBus, agentVars
<1>3. /\ engine[a].pc = "connect" /\ id \in DOMAIN sends /\ id # 0
      /\ sends[id] \in Sends /\ SendsOK
  BY <1>1, <1>2, WithMessage DEF EngineAt, Parts
<1>4. /\ s \in Sends /\ s.arrived = sends[id].arrived
      /\ s.from = sends[id].from /\ s.to = sends[id].to /\ s.msg = sends[id].msg
  BY <1>1, <1>3 DEF Sends
<1>5. /\ SendsGrow /\ DOMAIN sends' = DOMAIN sends /\ sends'[id] = s
      /\ \A j \in DOMAIN sends : j # id => sends'[j] = sends[j]
  BY <1>2, <1>3, <1>4, Learnt
<1>6. HandInv'
  BY <1>1, <1>2, <1>3, <1>4, <1>5, HandReturns
<1>7. \A i \in DOMAIN conns : conns[i].id # id /\ conns[i].id # 0 /\ conns[i].id \in DOMAIN sends
  <2>1. NotYet
    BY <1>2, BusParts
  <2>2. QED
    BY <1>1, <1>2, <1>3, <2>1, LinkFacts DEF NotYet
<1>8. \A b \in Agents : engine'[b] = engine[b] \/ engine'[b].id = 0
  BY <1>1, <1>2, <1>3, Returned
<1>9. OrderInv' /\ PutInv'
  BY <1>2, <1>4, <1>5, <1>7, <1>8, OrderSame
<1>10. QED
  BY <1>6, <1>9 DEF MoreBus

\* The completed connection comes after those of earlier messages.
LEMMA ConnectKeepsBus ==
  ASSUME HasBus, Parts', NEW a \in Agents, Connect(a)
  PROVE  MoreBus
<1>1. PICK c, id : /\ id = engine[a].id
                   /\ c = [id |-> id, to |-> Peer(a), accepted |-> FALSE, data |-> "none"]
  OBVIOUS
<1>2. /\ EngineAt(a, "connect") /\ conns' = Append(conns, c)
      /\ engine' = [engine EXCEPT ![a].pc = "send"]
      /\ UNCHANGED <<status, main, inbox, sends, server>>
      /\ Parts /\ HandInv /\ OrderInv /\ PutInv
  BY <1>1 DEF Connect, HasBus, agentVars
<1>3. /\ engine[a].pc = "connect" /\ id \in DOMAIN sends /\ id # 0 /\ id \in Nat
      /\ c \in Connections /\ sends[id].from = a
  <2>1. /\ id \in DOMAIN sends /\ Peer(a) \in Processes /\ sends[id].from = a
        /\ DOMAIN sends = 1 .. Len(sends)
    BY <1>1, <1>2, WithMessage
  <2>2. QED
    BY <1>1, <1>2, <2>1 DEF EngineAt, Connections
<1>4. /\ Len(conns) \in Nat /\ DOMAIN conns = 1 .. Len(conns)
      /\ DOMAIN conns' = 1 .. Len(conns) + 1
      /\ conns'[Len(conns) + 1] = c /\ \A i \in 1 .. Len(conns) : conns'[i] = conns[i]
  <2> DEFINE C == Connections
  <2>1. conns \in Seq(C) /\ c \in C
    BY <1>2, <1>3 DEF Parts, ConnsOK
  <2> HIDE DEF C
  <2>2. QED
    BY <1>2, <2>1, AppendProperties
<1>5. /\ engine'[a].pc = "send" /\ engine'[a].id = id /\ engine'[a].evts = engine[a].evts
      /\ \A b \in Agents : b # a => engine'[b] = engine[b] /\ engine[b].id # id
  <2>1. engine = [b \in Agents |-> engine[b]] /\ DOMAIN engine = Agents
    BY <1>2 DEF Parts, Shapes
  <2>2. engine[a] \in EngineStates
    BY <1>2, LinkFacts
  <2>3. engine[a] = [pc |-> engine[a].pc, evts |-> engine[a].evts, id |-> engine[a].id]
    BY <2>2 DEF EngineStates
  <2>4. engine'[a] = [engine[a] EXCEPT !.pc = "send"]
    BY <1>2, <2>1
  <2>5. engine'[a] = [pc |-> "send", evts |-> engine[a].evts, id |-> engine[a].id]
    BY <2>3, <2>4
  <2>6. \A b \in Agents : b # a => engine[b].id # id
    BY <1>1, <1>2, <1>3, LinkFacts
  <2>7. QED
    BY <1>1, <1>2, <2>1, <2>5, <2>6
<1>6. /\ Pairs /\ Unsettled /\ Served /\ NotYet /\ Done /\ Serving /\ Once /\ HandOf(a)
      /\ Abroad /\ \A b \in Agents : HandOf(b)
  BY <1>2, BusParts
<1>7. /\ \A i \in DOMAIN conns : conns[i].id # id /\ conns[i].id \in Nat /\ conns[i].id \in DOMAIN sends
      /\ \A i \in DOMAIN conns : sends[conns[i].id].from = a => conns[i].id < id
  <2>1. \A i \in DOMAIN conns : conns[i].id # id
    BY <1>1, <1>3, <1>6 DEF NotYet
  <2>2. \A i \in DOMAIN conns : conns[i].id \in DOMAIN sends /\ conns[i].id \in Nat
    BY <1>2, LinkFacts
  <2>3. \A j \in DOMAIN sends : sends[j].from = a => j <= id
    BY <1>1, <1>3, <1>6 DEF HandOf
  <2>4. QED
    BY <1>3, <2>1, <2>2, <2>3
<1>8. \A i \in DOMAIN conns' : \/ (i \in DOMAIN conns /\ conns'[i] = conns[i])
                              \/ (conns'[i] = c /\ i = Len(conns) + 1)
  BY <1>4
<1>9. Pairs'
  <2>1. SUFFICES ASSUME NEW i \in DOMAIN conns', NEW j \in DOMAIN conns'
                 PROVE  /\ conns'[i].id = conns'[j].id => i = j
                        /\ i < j /\ conns'[i].to = conns'[j].to =>
                             /\ ~ conns'[j].accepted
                             /\ sends[conns'[i].id].from = sends[conns'[j].id].from
                                  => conns'[i].id < conns'[j].id
    BY <1>2 DEF Pairs
  <2>2. CASE i \in DOMAIN conns /\ conns'[i] = conns[i] /\ j \in DOMAIN conns /\ conns'[j] = conns[j]
    BY <1>6, <2>2 DEF Pairs
  <2>3. CASE i \in DOMAIN conns /\ conns'[i] = conns[i] /\ conns'[j] = c /\ j = Len(conns) + 1
    BY <1>1, <1>3, <1>7, <2>3
  <2>4. CASE conns'[i] = c /\ i = Len(conns) + 1 /\ j \in DOMAIN conns /\ conns'[j] = conns[j]
    BY <1>1, <1>4, <1>7, <2>4
  <2>5. CASE i = Len(conns) + 1 /\ j = Len(conns) + 1
    BY <1>4, <2>5
  <2>6. QED
    BY <1>8, <2>2, <2>3, <2>4, <2>5
<1>10. Unsettled' /\ Served'
  <2>1. Pending(id)
    BY <1>1, <1>3, <1>6 DEF HandOf
  <2>2. QED
    BY <1>1, <1>2, <1>6, <1>8, <2>1 DEF Unsettled, Served, Pending
<1>11. NotYet'
  BY <1>1, <1>5, <1>6, <1>7, <1>8 DEF NotYet
<1>12. Done' /\ Once'
  BY <1>2, <1>6 DEF Done, Once
<1>13. ASSUME NEW p \in Processes, server'[p].pc \in {"read", "put"}, Up(p)'
       PROVE  \E i \in DOMAIN conns' : Works(p, i)'
  <2>1. Up(p) /\ (AllUp' <=> AllUp)
    BY <1>2, <1>13 DEF Up, AllUp
  <2>2. PICK i \in DOMAIN conns : Works(p, i)
    BY <1>2, <1>6, <1>13, <2>1 DEF Serving
  <2>3. i \in DOMAIN conns' /\ conns'[i] = conns[i]
    BY <1>4
  <2>4. Works(p, i)'
    BY <1>2, <2>1, <2>2, <2>3 DEF Works
  <2>5. QED
    BY <2>3, <2>4
<1>14. Serving'
  BY <1>13 DEF Serving
<1>15. HandInv'
  <2>1. \A b \in Agents : engine'[b].evts = engine[b].evts
    BY <1>5
  <2>2. \A b \in Agents : engine'[b].id = engine[b].id
    BY <1>1, <1>5
  <2>3. QED
    BY <1>2, <2>1, <2>2, HandSame, HandFramed
<1>16. QED
  BY <1>9, <1>10, <1>11, <1>12, <1>14, <1>15
     DEF MoreBus, OrderInv, PutInv, Pairs, Unsettled, Served, NotYet, Done, Serving, Once, Works

\* The packet is on a connection, or, when its connection is gone, lost.
LEMMA SendPacketKeepsBus ==
  ASSUME HasBus, Parts', NEW a \in Agents, SendPacket(a)
  PROVE  MoreBus
<1>1. PICK id : id = engine[a].id
  OBVIOUS
<1>2. /\ EngineAt(a, "send") /\ SendReturns(a)
      /\ conns' = [i \in DOMAIN conns |->
                     IF conns[i].id = id THEN [conns[i] EXCEPT !.data = "packet"] ELSE conns[i]]
      /\ UNCHANGED <<status, main, inbox, server>>
      /\ Parts /\ HandInv /\ OrderInv /\ PutInv
  BY <1>1 DEF SendPacket, HasBus, agentVars
<1>3. /\ engine[a].pc = "send" /\ id \in DOMAIN sends /\ id # 0
      /\ sends[id] \in Sends /\ SendsOK
  BY <1>1, <1>2, WithMessage DEF EngineAt, Parts
<1>4. /\ engine'[a].id = 0
      /\ \A b \in Agents : b # a => engine'[b] = engine[b] /\ engine[b].id # id
  BY <1>1, <1>2, <1>3, Returned
<1>5. /\ Pairs /\ Unsettled /\ Served /\ NotYet /\ Done /\ Serving /\ Once
  BY <1>2, BusParts
<1>6. \A i \in DOMAIN conns : conns[i].id \in DOMAIN sends /\ conns[i].id # 0 /\ conns[i] \in Connections
  BY <1>2, LinkFacts
<1>7. CASE \E c \in ToSet(conns) : c.id = engine[a].id
  <2>1. UNCHANGED sends /\ SendsGrow
    BY <1>2, <1>7, SendsSame DEF SendPacket, Parts
  <2>2. HandInv'
    BY <1>1, <1>2, <1>3, <2>1, HandReturns
  <2>3. DOMAIN conns' = DOMAIN conns
    BY <1>2
  <2>4. ASSUME NEW i \in DOMAIN conns
        PROVE  /\ conns'[i].id = conns[i].id /\ conns'[i].to = conns[i].to
               /\ conns'[i].accepted = conns[i].accepted
               /\ conns'[i].data = IF conns[i].id = id THEN "packet" ELSE conns[i].data
    BY <1>2, <1>6 DEF Connections
  <2>5. Pairs' /\ Unsettled' /\ Served'
    BY <1>2, <1>5, <2>1, <2>3, <2>4 DEF Pairs, Unsettled, Pending, Served
  <2>6. ASSUME NEW i \in DOMAIN conns, NEW b \in Agents, engine'[b].id = conns'[i].id
        PROVE  engine'[b].pc = "send" /\ conns'[i].data # "packet"
    <3>1. b # a
      BY <1>4, <1>6, <2>4, <2>6
    <3>2. engine'[b] = engine[b] /\ engine[b].id = conns[i].id /\ conns[i].id # id
      BY <1>4, <2>4, <2>6, <3>1
    <3>3. QED
      BY <1>5, <2>4, <3>2 DEF NotYet
  <2>7. NotYet'
    BY <2>3, <2>6 DEF NotYet
  <2>8. Done' /\ Once'
    BY <1>2, <1>5, <2>1 DEF Done, Once
  <2>9. ASSUME NEW p \in Processes, server'[p].pc \in {"read", "put"}, Up(p)'
        PROVE  \E i \in DOMAIN conns' : Works(p, i)'
    <3>1. Up(p) /\ (AllUp' <=> AllUp)
      BY <1>2, <2>9 DEF Up, AllUp
    <3>2. PICK i \in DOMAIN conns : Works(p, i)
      BY <1>2, <1>5, <2>9, <3>1 DEF Serving
    <3>3. Works(p, i)'
      BY <1>2, <2>1, <2>4, <3>1, <3>2 DEF Works
    <3>4. QED
      BY <2>3, <3>3
  <2>10. Serving'
    BY <2>9 DEF Serving
  <2>11. QED
    BY <2>2, <2>5, <2>7, <2>8, <2>10
       DEF MoreBus, OrderInv, PutInv, Pairs, Unsettled, Served, NotYet, Done, Serving, Once, Works
<1>8. CASE ~ \E c \in ToSet(conns) : c.id = engine[a].id
  <2>1. PICK s : s = [sends[id] EXCEPT !.lost = TRUE]
    OBVIOUS
  <2>2. sends' = [sends EXCEPT ![id] = s]
    BY <1>1, <1>3, <1>8, <2>1 DEF SendPacket
  <2>3. /\ s \in Sends /\ s.arrived = sends[id].arrived
        /\ s.from = sends[id].from /\ s.to = sends[id].to /\ s.msg = sends[id].msg
    BY <1>3, <2>1 DEF Sends
  <2>4. /\ SendsGrow /\ DOMAIN sends' = DOMAIN sends /\ sends'[id] = s
        /\ \A j \in DOMAIN sends : j # id => sends'[j] = sends[j]
    BY <1>3, <2>2, <2>3, Learnt
  <2>5. HandInv'
    BY <1>1, <1>2, <1>3, <2>3, <2>4, HandReturns
  <2>6. \A i \in DOMAIN conns : conns[i].id # id
    BY <1>1, <1>8 DEF ToSet
  <2>7. conns' = conns
    <3>1. conns = [i \in DOMAIN conns |-> conns[i]]
      <4> DEFINE C == Connections
      <4>1. conns \in Seq(C)
        BY <1>2, LinkFacts
      <4> HIDE DEF C
      <4>2. QED
        BY <4>1
    <3>2. QED
      BY <1>2, <2>6, <3>1
  <2>8. \A b \in Agents : engine'[b] = engine[b] \/ engine'[b].id = 0
    BY <1>4
  <2>9. OrderInv' /\ PutInv'
    BY <1>2, <1>6, <2>3, <2>4, <2>6, <2>7, <2>8, OrderSame
  <2>10. QED
    BY <2>5, <2>9 DEF MoreBus
<1>9. QED
  BY <1>7, <1>8

\* A server takes the connection that was completed first.
LEMMA AcceptKeepsBus ==
  ASSUME HasBus, Parts', NEW p \in Processes, Accept(p)
  PROVE  MoreBus
<1>1. PICK k : k = Nth(Waiting(p), 1)
  OBVIOUS
<1>2. /\ server' = [server EXCEPT ![p].pc = "read", ![p].conn = conns[k].id]
      /\ conns' = [conns EXCEPT ![k].accepted = TRUE]
      /\ UNCHANGED <<status, main, inbox, engine, sends>> /\ Waiting(p) # {}
      /\ server[p].pc = "accept" /\ Parts /\ HandInv /\ OrderInv /\ PutInv
  BY <1>1 DEF Accept, ServerAt, agentVars, HasBus
<1>3. /\ k \in DOMAIN conns /\ conns[k].to = p /\ ~ conns[k].accepted
      /\ \A i \in DOMAIN conns : i < k /\ conns[i].to = p => conns[i].accepted
  <2>1. Waiting(p) \in SUBSET Nat /\ IsFiniteSet(Waiting(p))
    <3>1. Len(conns) \in Nat /\ DOMAIN conns = 1 .. Len(conns)
      BY <1>2, LinkFacts
    <3>2. Waiting(p) \in SUBSET DOMAIN conns
      BY DEF Waiting
    <3>3. IsFiniteSet(1 .. Len(conns))
      BY <3>1, FS_Interval
    <3>4. QED
      BY <3>1, <3>2, <3>3, FS_Subset
  <2>2. k \in Waiting(p) /\ \A j \in Waiting(p) : k <= j
    BY <1>1, <1>2, <2>1, FirstIsLeast
  <2>3. \A i \in DOMAIN conns : i \in Nat
    BY <1>2, LinkFacts
  <2>4. QED
    BY <2>2, <2>3 DEF Waiting
<1>4. ASSUME NEW i \in DOMAIN conns
      PROVE  /\ conns'[i].id = conns[i].id /\ conns'[i].data = conns[i].data
             /\ conns'[i].to = conns[i].to
             /\ conns'[i].accepted = IF i = k THEN TRUE ELSE conns[i].accepted
  <2>1. conns'[i] = IF i = k THEN [conns[i] EXCEPT !.accepted = TRUE] ELSE conns[i]
    BY <1>2, <1>3
  <2>2. conns[i] \in Connections
    BY <1>2, LinkFacts
  <2>3. QED
    BY <2>1, <2>2 DEF Connections
<1>5. DOMAIN conns' = DOMAIN conns
  BY <1>2
<1>6. /\ server'[p].pc = "read" /\ server'[p].conn = conns[k].id
      /\ server'[p].last = server[p].last
      /\ \A q \in Processes : q # p => server'[q] = server[q]
  <2>1. /\ server = [q \in Processes |-> server[q]] /\ DOMAIN server = Processes
        /\ server[p] \in ServerStates
    BY <1>2 DEF Parts, Shapes, ServerOK
  <2>2. server'[p] = [server[p] EXCEPT !.pc = "read", !.conn = conns[k].id]
    BY <1>2, <2>1
  <2>3. server[p] = [pc |-> server[p].pc, conn |-> server[p].conn, last |-> server[p].last]
    BY <2>1 DEF ServerStates
  <2>4. server'[p] = [pc |-> "read", conn |-> conns[k].id, last |-> server[p].last]
    BY <2>2, <2>3
  <2>5. QED
    BY <1>2, <2>1, <2>4
<1>7. /\ Pairs /\ Unsettled /\ Served /\ NotYet /\ Done /\ Serving /\ Once
  BY <1>2, BusParts
<1>8. \A i \in DOMAIN conns : conns[i].to = p => ~ conns[i].accepted
  BY <1>2, <1>7 DEF Served
<1>9. Pairs'
  <2>1. SUFFICES ASSUME NEW i \in DOMAIN conns, NEW j \in DOMAIN conns,
                        i < j, conns'[i].to = conns'[j].to
                 PROVE  /\ ~ conns'[j].accepted
                        /\ sends[conns'[i].id].from = sends[conns'[j].id].from
                             => conns'[i].id < conns'[j].id
    BY <1>2, <1>4, <1>5, <1>7 DEF Pairs
  <2>2. conns[i].to = conns[j].to
    BY <1>4, <2>1
  <2>3. /\ ~ conns[j].accepted
        /\ sends[conns[i].id].from = sends[conns[j].id].from => conns[i].id < conns[j].id
    BY <1>7, <2>1, <2>2 DEF Pairs
  <2>4. j # k
    BY <1>3, <1>8, <2>1, <2>2
  <2>5. QED
    BY <1>4, <2>3, <2>4
<1>10. Unsettled' /\ NotYet'
  BY <1>2, <1>4, <1>5, <1>7 DEF Unsettled, Pending, NotYet
<1>11. ASSUME NEW i \in DOMAIN conns, conns'[i].accepted
       PROVE  /\ server'[conns'[i].to].pc \in {"read", "put"}
              /\ server'[conns'[i].to].conn = conns'[i].id
  <2>1. CASE i = k
    BY <1>3, <1>4, <1>6, <2>1
  <2>2. CASE i # k
    <3>1. conns[i].accepted /\ conns[i].to # p /\ conns[i].to \in Processes
      <4>1. conns[i].to \in Processes
        BY <1>2, LinkFacts DEF Connections
      <4>2. QED
        BY <1>4, <1>8, <1>11, <2>2, <4>1
    <3>2. server'[conns[i].to] = server[conns[i].to]
      BY <1>6, <3>1
    <3>3. server[conns[i].to].pc \in {"read", "put"} /\ server[conns[i].to].conn = conns[i].id
      BY <1>7, <3>1 DEF Served
    <3>4. conns'[i].to = conns[i].to /\ conns'[i].id = conns[i].id
      BY <1>4
    <3>5. QED
      BY <3>2, <3>3, <3>4
  <2>3. QED
    BY <2>1, <2>2
<1>12. Served'
  BY <1>5, <1>11 DEF Served
<1>13. Done'
  <2>1. ASSUME NEW q \in Processes, server'[q].pc # "put", server'[q].last # 0
        PROVE  sends[server'[q].last].arrived > 0
    <3>1. CASE q = p
      BY <1>2, <1>6, <1>7, <2>1, <3>1 DEF Done
    <3>2. CASE q # p
      BY <1>6, <1>7, <2>1, <3>2 DEF Done
    <3>3. QED
      BY <3>1, <3>2
  <2>2. QED
    BY <1>2, <2>1 DEF Done
<1>14. Once'
  <2>1. ASSUME NEW q \in Processes, NEW i \in DOMAIN Main[q], i >= main[q],
               Main[q][i].op = "protocol"
        PROVE  server'[q].pc = "off"
    <3>1. server[q].pc = "off"
      BY <1>7, <2>1 DEF Once
    <3>2. QED
      BY <1>2, <1>6, <3>1
  <2>2. QED
    BY <1>2, <2>1 DEF Once
<1>15. ASSUME NEW q \in Processes, server'[q].pc \in {"read", "put"}, Up(q)'
       PROVE  \E i \in DOMAIN conns' : Works(q, i)'
  <2>1. CASE q = p
    <3>1. Works(p, k)'
      BY <1>3, <1>4, <1>6 DEF Works
    <3>2. QED
      BY <1>3, <1>5, <2>1, <3>1
  <2>2. CASE q # p
    <3>1. server'[q] = server[q] /\ Up(q) /\ (AllUp' <=> AllUp)
      BY <1>2, <1>6, <1>15, <2>2 DEF Up, AllUp
    <3>2. PICK i \in DOMAIN conns : Works(q, i)
      BY <1>7, <1>15, <3>1 DEF Serving
    <3>3. Works(q, i)'
      BY <1>2, <1>4, <3>1, <3>2 DEF Works
    <3>4. QED
      BY <1>5, <3>3
  <2>3. QED
    BY <2>1, <2>2
<1>16. Serving'
  BY <1>15 DEF Serving
<1>17. HandInv'
  BY <1>2, HandSame, HandFramed
<1>18. QED
  BY <1>9, <1>10, <1>12, <1>13, <1>14, <1>16, <1>17
     DEF MoreBus, OrderInv, PutInv, Pairs, Unsettled, Served, NotYet, Done, Serving, Once, Works

\* A server goes from the read to the put, of a packet or of what is left in its buffer.
LEMMA ServerReads ==
  ASSUME HasBus, Parts', NEW p \in Processes, server[p].pc = "read", Up(p), NEW s,
         server' = [server EXCEPT ![p] = s], s.pc = "put", s.conn = server[p].conn,
         UNCHANGED <<status, main, inbox, engine, conns, sends>>,
         \A i \in DOMAIN conns : conns[i].id = server[p].conn =>
           \/ s.last = server[p].conn /\ conns[i].data = "packet"
           \/ sends[s.last].arrived > 0 /\ ~ AllUp
  PROVE  MoreBus
<1>1. Parts /\ HandInv /\ OrderInv /\ PutInv
  BY DEF HasBus
<1>2. /\ Pairs /\ Unsettled /\ Served /\ NotYet /\ Done /\ Serving /\ Once
  BY <1>1, BusParts
<1>3. server'[p] = s /\ \A q \in Processes : q # p => server'[q] = server[q]
  BY <1>1 DEF Parts, Shapes
<1>4. Pairs' /\ Unsettled' /\ NotYet'
  BY <1>2 DEF Pairs, Unsettled, Pending, NotYet
<1>5. Served'
  <2>1. \A i \in DOMAIN conns : conns[i].to \in Processes
    BY <1>1, LinkFacts DEF Connections
  <2>2. QED
    BY <1>2, <1>3, <2>1 DEF Served
<1>6. Done'
  BY <1>2, <1>3 DEF Done
<1>7. Once'
  <2>1. ASSUME NEW q \in Processes, NEW i \in DOMAIN Main[q], i >= main[q],
               Main[q][i].op = "protocol"
        PROVE  server'[q].pc = "off"
    <3>1. server[q].pc = "off"
      BY <1>2, <2>1 DEF Once
    <3>2. QED
      BY <1>3, <3>1
  <2>2. QED
    BY <2>1 DEF Once
<1>8. ASSUME NEW q \in Processes, server'[q].pc \in {"read", "put"}, Up(q)'
      PROVE  \E i \in DOMAIN conns' : Works(q, i)'
  <2>1. Up(q) /\ (AllUp' <=> AllUp)
    BY <1>8 DEF Up, AllUp
  <2>2. server[q].pc \in {"read", "put"}
    BY <1>3, <1>8
  <2>3. PICK i \in DOMAIN conns : Works(q, i)
    BY <1>2, <2>1, <2>2 DEF Serving
  <2>4. Works(q, i)'
    <3>1. CASE q = p
      BY <1>3, <2>1, <2>3, <3>1 DEF Works
    <3>2. CASE q # p
      BY <1>3, <2>1, <2>3, <3>2 DEF Works
    <3>3. QED
      BY <3>1, <3>2
  <2>5. QED
    BY <2>4
<1>9. Serving'
  BY <1>8 DEF Serving
<1>10. HandInv'
  BY <1>1, HandSame, HandFramed
<1>11. QED
  BY <1>4, <1>5, <1>6, <1>7, <1>9, <1>10
     DEF MoreBus, OrderInv, PutInv, Pairs, Unsettled, Served, NotYet, Done, Serving, Once, Works

LEMMA ReadKeepsBus ==
  ASSUME HasBus, Parts', NEW p \in Processes, Read(p)
  PROVE  MoreBus
<1>1. /\ server[p].pc = "read" /\ Up(p)
      /\ server' = [server EXCEPT ![p].pc = "put", ![p].last = server[p].conn]
      /\ UNCHANGED <<status, main, inbox, engine, conns, sends>>
      /\ \E c \in ToSet(conns) : c.id = server[p].conn /\ c.data = "packet"
  BY DEF Read, Reading, ServerAt, agentVars
<1>2. PICK k \in DOMAIN conns : conns[k].id = server[p].conn /\ conns[k].data = "packet"
  BY <1>1 DEF ToSet
<1>3. \A i \in DOMAIN conns : conns[i].id = server[p].conn => conns[i].data = "packet"
  BY <1>2, BusParts DEF HasBus, Pairs
<1>4. PICK s : s = [pc |-> "put", conn |-> server[p].conn, last |-> server[p].conn]
  OBVIOUS
<1>5. server' = [server EXCEPT ![p] = s]
  <2>1. /\ server = [q \in Processes |-> server[q]] /\ DOMAIN server = Processes
        /\ server[p] \in ServerStates
    BY DEF HasBus, Parts, Shapes, ServerOK
  <2>2. server'[p] = [server[p] EXCEPT !.pc = "put", !.last = server[p].conn]
    BY <1>1, <2>1
  <2>3. server[p] = [pc |-> server[p].pc, conn |-> server[p].conn, last |-> server[p].last]
    BY <2>1 DEF ServerStates
  <2>4. server'[p] = s
    BY <1>4, <2>2, <2>3
  <2>5. QED
    BY <1>1, <2>1, <2>4
<1>6. s.pc = "put" /\ s.conn = server[p].conn /\ s.last = server[p].conn
  BY <1>4
<1>7. QED
  BY <1>1, <1>3, <1>5, <1>6, ServerReads

LEMMA ReadNothingKeepsBus ==
  ASSUME HasBus, Parts', NEW p \in Processes, ReadNothing(p)
  PROVE  MoreBus
<1>1. /\ server[p].pc = "read" /\ Up(p)
      /\ UNCHANGED <<main, inbox, engine, sends>>
      /\ \/ /\ server[p].last # 0 /\ server' = [server EXCEPT ![p].pc = "put"]
            /\ UNCHANGED <<status, conns>>
         \/ Stop(p, "terminated") /\ UNCHANGED server
      /\ Parts /\ HandInv /\ OrderInv /\ PutInv
  BY DEF ReadNothing, Reading, ServerAt, agentVars, HasBus
<1>2. ~ AllUp
  BY NothingToRead DEF HasBus, MessageInv
<1>3. CASE server[p].last # 0 /\ server' = [server EXCEPT ![p].pc = "put"]
           /\ UNCHANGED <<status, conns>>
  <2>1. PICK s : s = [pc |-> "put", conn |-> server[p].conn, last |-> server[p].last]
    OBVIOUS
  <2>2. server' = [server EXCEPT ![p] = s]
    <3>1. /\ server = [q \in Processes |-> server[q]] /\ DOMAIN server = Processes
          /\ server[p] \in ServerStates
      BY <1>1 DEF Parts, Shapes, ServerOK
    <3>2. server'[p] = [server[p] EXCEPT !.pc = "put"]
      BY <1>3, <3>1
    <3>3. server[p] = [pc |-> server[p].pc, conn |-> server[p].conn, last |-> server[p].last]
      BY <3>1 DEF ServerStates
    <3>4. server'[p] = s
      BY <2>1, <3>2, <3>3
    <3>5. QED
      BY <1>3, <3>1, <3>4
  <2>3. sends[s.last].arrived > 0
    BY <1>1, <1>3, <2>1, BusParts DEF Done
  <2>4. QED
    BY <1>1, <1>2, <1>3, <2>1, <2>2, <2>3, ServerReads
<1>4. CASE Stop(p, "terminated") /\ UNCHANGED server
  <2>1. HandInv'
    BY <1>1, HandSame, HandFramed
  <2>2. SendsGrow
    BY <1>1, SendsSame DEF Parts
  <2>3. OrderInv' /\ PutInv'
    BY <1>1, <1>4, <2>2, OrderEnds
  <2>4. QED
    BY <2>1, <2>3 DEF MoreBus
<1>5. QED
  BY <1>1, <1>3, <1>4

LEMMA MainReturnsKeepsBus ==
  ASSUME HasBus, Parts', NEW p \in Processes, MainReturns(p)
  PROVE  MoreBus
<1>1. /\ Stop(p, "returned") /\ UNCHANGED <<main, inbox, engine, server, sends>>
      /\ Parts /\ HandInv /\ OrderInv /\ PutInv
  BY DEF MainReturns, agentVars, HasBus
<1>2. HandInv'
  BY <1>1, HandSame, HandFramed
<1>3. SendsGrow
  BY <1>1, SendsSame DEF Parts
<1>4. OrderInv' /\ PutInv'
  BY <1>1, <1>3, OrderEnds
<1>5. QED
  BY <1>2, <1>4 DEF MoreBus

\* The server closes its connection; the others are left.
LEMMA Closed ==
  ASSUME Parts, NEW p \in Processes,
         conns' = ElementsAt(conns, {i \in DOMAIN conns : conns[i].id # server[p].conn})
  PROVE  \E f :
           /\ Kept(f)
           /\ \A k \in DOMAIN conns' : /\ f[k] \in DOMAIN conns /\ conns'[k] = conns[f[k]]
                                       /\ conns'[k].id # server[p].conn
           /\ \A i \in DOMAIN conns : conns[i].id # server[p].conn =>
                \E k \in DOMAIN conns' : f[k] = i
<1> DEFINE I == {i \in DOMAIN conns : conns[i].id # server[p].conn}
           C == Connections
           t == ElementsAt(conns, I)
<1>1. /\ conns \in Seq(C) /\ I \in SUBSET DOMAIN conns /\ I \in SUBSET Nat
      /\ \A i \in I : conns[i].id # server[p].conn
      /\ \A i \in DOMAIN conns : conns[i].id # server[p].conn => i \in I
      /\ conns' = t
  BY LinkFacts
<1> HIDE DEF C, I
<1>2. /\ IsFiniteSet(I) /\ Cardinality(I) \in Nat /\ t \in Seq(C) /\ Len(t) = Cardinality(I)
      /\ \A n \in 1 .. Cardinality(I) : Nth(I, n) \in I /\ t[n] = conns[Nth(I, n)]
  BY <1>1, ElementsAtProperties
<1> HIDE DEF t
<1>3. DOMAIN conns' = 1 .. Cardinality(I)
  BY <1>1, <1>2
<1> DEFINE f == [n \in 1 .. Cardinality(I) |-> Nth(I, n)]
<1>4. ASSUME NEW k \in DOMAIN conns'
      PROVE  /\ f[k] \in DOMAIN conns /\ conns'[k] = conns[f[k]]
             /\ conns'[k].id # server[p].conn
  <2>1. f[k] = Nth(I, k) /\ f[k] \in I /\ t[k] = conns[f[k]]
    BY <1>2, <1>3
  <2>2. QED
    BY <1>1, <2>1
<1>5. ASSUME NEW k \in DOMAIN conns', NEW l \in DOMAIN conns', k < l PROVE f[k] < f[l]
  BY <1>1, <1>2, <1>3, <1>5, NthIncreases
<1>6. ASSUME NEW i \in DOMAIN conns, conns[i].id # server[p].conn
      PROVE  \E k \in DOMAIN conns' : f[k] = i
  <2>1. PICK k \in 1 .. Cardinality(I) : Nth(I, k) = i
    BY <1>1, <1>2, <1>6, MemberNth
  <2>2. k \in DOMAIN conns' /\ f[k] = i
    BY <1>3, <2>1
  <2>3. QED
    BY <2>2
<1> HIDE DEF f
<1>7. Kept(f)
  BY <1>4, <1>5 DEF Kept
<1>8. QED
  BY <1>4, <1>6, <1>7

\* What a server does with the packet in its buffer.
Delivers(p, id) ==
  /\ id \in DOMAIN sends /\ id # 0 /\ sends[id] \in Sends
  /\ sends[id].to = [process |-> p, agent |-> sends[id].to.agent]
  /\ sends[id].to.agent \in Agents /\ Home[sends[id].to.agent] = p
  /\ Home[sends[id].from] # p
  /\ SendsGrow /\ DOMAIN sends' = DOMAIN sends
  /\ sends'[id].arrived = sends[id].arrived + 1 /\ sends'[id].lost = sends[id].lost
  /\ \A j \in DOMAIN sends : j # id => sends'[j] = sends[j]
  /\ server'[p].pc = "accept" /\ server'[p].last = id
  /\ \A q \in Processes : q # p => server'[q] = server[q]
  /\ \E k \in DOMAIN conns :
       /\ conns[k].id = server[p].conn /\ conns[k].accepted
       /\ \/ id = server[p].conn /\ conns[k].data = "packet"
          \/ sends[id].arrived > 0 /\ ~ AllUp

LEMMA PutMade ==
  ASSUME HasBus, NEW p \in Processes, Put(p), NEW id, id = server[p].last,
         Deliverable(p, sends[id].msg, sends[id].to.agent)
  PROVE  Delivers(p, id)
<1>1. /\ Parts /\ HandInv /\ OrderInv /\ PutInv
      /\ ServerAt(p, "put") /\ sends' = Arrived(id)
      /\ server' = [server EXCEPT ![p].pc = "accept", ![p].conn = 0]
  BY DEF HasBus, Put
<1>2. /\ id # 0 /\ id \in DOMAIN sends /\ ToProcess(id, p) /\ SendsOK
      /\ server[p] \in ServerStates
  BY <1>1, LinkFacts DEF Parts, ServerOK, ServerAt, ServerStates
<1>3. sends[id] \in Sends
  BY <1>1, <1>2, LinkFacts
<1>4. /\ sends[id].to = [process |-> p, agent |-> sends[id].to.agent]
      /\ sends[id].to.agent \in Agents /\ Home[sends[id].to.agent] = p
  <2>1. sends[id].to.agent \in Agents /\ Home[sends[id].to.agent] = p
    BY <1>1 DEF Deliverable, Parts, MainOK
  <2>2. sends[id].to.process = p
    BY <1>2 DEF ToProcess
  <2>3. sends[id].to \in Address
    BY <1>3 DEF Sends
  <2>4. QED
    BY <2>1, <2>2, <2>3 DEF Address
<1>5. Home[sends[id].from] # p
  BY <1>1, <1>2, BusParts DEF Abroad, ToProcess
<1>6. PICK s : s = [sends[id] EXCEPT !.arrived = sends[id].arrived + 1]
  OBVIOUS
<1>7. /\ s \in Sends /\ s.arrived = sends[id].arrived + 1 /\ s.lost = sends[id].lost
      /\ s.from = sends[id].from /\ s.to = sends[id].to /\ s.msg = sends[id].msg
  BY <1>3, <1>6 DEF Sends
<1>8. sends' = [sends EXCEPT ![id] = s]
  BY <1>1, <1>6 DEF Arrived
<1>9. /\ SendsGrow /\ DOMAIN sends' = DOMAIN sends /\ sends'[id] = s
      /\ \A j \in DOMAIN sends : j # id => sends'[j] = sends[j]
  BY <1>2, <1>7, <1>8, Learnt
<1>10. /\ server'[p].pc = "accept" /\ server'[p].last = id
       /\ \A q \in Processes : q # p => server'[q] = server[q]
  <2>1. server = [q \in Processes |-> server[q]] /\ DOMAIN server = Processes
    BY <1>1 DEF Parts, Shapes
  <2>2. server'[p] = [server[p] EXCEPT !.pc = "accept", !.conn = 0]
    BY <1>1, <2>1
  <2>3. server[p] = [pc |-> server[p].pc, conn |-> server[p].conn, last |-> server[p].last]
    BY <1>2 DEF ServerStates
  <2>4. server'[p] = [pc |-> "accept", conn |-> 0, last |-> server[p].last]
    BY <2>2, <2>3
  <2>5. QED
    BY <1>1, <2>1, <2>4
<1>11. PICK k \in DOMAIN conns : Works(p, k)
  BY <1>1, BusParts DEF Serving, ServerAt
<1>12. \/ id = server[p].conn /\ conns[k].data = "packet"
       \/ sends[id].arrived > 0 /\ ~ AllUp
  BY <1>1, <1>11 DEF Works, ServerAt
<1>13. QED
  BY <1>2, <1>3, <1>4, <1>5, <1>7, <1>9, <1>10, <1>11, <1>12 DEF Works, Delivers

LEMMA PutKeepsBus ==
  ASSUME HasBus, Parts', NEW p \in Processes, Put(p)
  PROVE  MoreBus
<1>1. PICK id : id = server[p].last
  OBVIOUS
<1>2. /\ Parts /\ HandInv /\ OrderInv /\ PutInv /\ ServerAt(p, "put")
      /\ UNCHANGED <<main, engine>>
  BY DEF HasBus, Put
<1>3. CASE ~ Deliverable(p, sends[id].msg, sends[id].to.agent)
  <2>1. Stop(p, "terminated") /\ UNCHANGED <<inbox, server, sends>>
    BY <1>1, <1>3 DEF Put, agentVars
  <2>2. HandInv'
    BY <1>2, <2>1, HandSame, HandFramed
  <2>3. SendsGrow
    BY <1>2, <2>1, SendsSame DEF Parts
  <2>4. OrderInv' /\ PutInv'
    BY <1>2, <2>1, <2>3, OrderEnds
  <2>5. QED
    BY <2>2, <2>4 DEF MoreBus
<1>4. CASE Deliverable(p, sends[id].msg, sends[id].to.agent)
  <2>1. /\ PutMessage(id, sends[id].msg, sends[id].to.agent, SourceUrl(id))
        /\ conns' = ElementsAt(conns, {i \in DOMAIN conns : conns[i].id # server[p].conn})
        /\ UNCHANGED status
    BY <1>1, <1>4 DEF Put
  <2>2. Delivers(p, id)
    BY <1>1, <1>4, PutMade
  <2>3. PICK k \in DOMAIN conns :
          /\ conns[k].id = server[p].conn /\ conns[k].accepted
          /\ \/ id = server[p].conn /\ conns[k].data = "packet"
             \/ sends[id].arrived > 0 /\ ~ AllUp
    BY <2>2 DEF Delivers
  <2>4. PICK f :
          /\ Kept(f)
          /\ \A n \in DOMAIN conns' : /\ f[n] \in DOMAIN conns /\ conns'[n] = conns[f[n]]
                                      /\ conns'[n].id # server[p].conn
          /\ \A i \in DOMAIN conns : conns[i].id # server[p].conn =>
               \E n \in DOMAIN conns' : f[n] = i
    BY <1>2, <2>1, Closed
  <2>5. /\ Pairs /\ Unsettled /\ Served /\ NotYet /\ Done /\ Serving /\ Once
        /\ Abroad /\ \A b \in Agents : HandOf(b)
    BY <1>2, BusParts
  <2>6. /\ \A b \in Agents : engine[b].id # id
        /\ \A n \in DOMAIN conns' : conns'[n].id # id /\ conns'[n].id \in DOMAIN sends
    <3>1. \A n \in DOMAIN conns' : conns'[n].id \in DOMAIN sends /\ Pending(conns'[n].id)
      BY <1>2, <2>4, <2>5, LinkFacts DEF Unsettled
    <3>2. CASE id = server[p].conn /\ conns[k].data = "packet"
      BY <2>3, <2>4, <2>5, <3>1, <3>2 DEF NotYet
    <3>3. CASE sends[id].arrived > 0
      BY <2>2, <2>5, <3>1, <3>3 DEF HandOf, Pending, Delivers
    <3>4. QED
      BY <2>3, <3>1, <3>2, <3>3
  <2>7. Pairs'
    BY <1>2, <2>2, <2>4, <2>5, PairsKept DEF Delivers
  <2>8. Unsettled' /\ NotYet'
    BY <1>2, <2>2, <2>4, <2>5, <2>6 DEF Unsettled, Pending, NotYet, Delivers
  <2>9. ASSUME NEW n \in DOMAIN conns', conns'[n].accepted
        PROVE  /\ server'[conns'[n].to].pc \in {"read", "put"}
               /\ server'[conns'[n].to].conn = conns'[n].id
    <3>1. /\ conns'[n] = conns[f[n]] /\ f[n] \in DOMAIN conns
          /\ conns'[n].id # server[p].conn
      BY <2>4
    <3>2. /\ server[conns[f[n]].to].pc \in {"read", "put"}
          /\ server[conns[f[n]].to].conn = conns[f[n]].id
      BY <2>5, <2>9, <3>1 DEF Served
    <3>3. conns[f[n]].to # p /\ conns[f[n]].to \in Processes
      <4>1. conns[f[n]].to \in Processes
        BY <1>2, <3>1, LinkFacts DEF Connections
      <4>2. QED
        BY <3>1, <3>2, <4>1
    <3>4. server'[conns[f[n]].to] = server[conns[f[n]].to]
      BY <2>2, <3>3 DEF Delivers
    <3>5. QED
      BY <3>1, <3>2, <3>4
  <2>10. Served'
    BY <2>9 DEF Served
  <2>11. \A j \in DOMAIN sends : sends[j].arrived > 0 => sends'[j].arrived > 0
    BY <2>2 DEF Sends, Delivers
  <2>12. ASSUME NEW q \in Processes, server'[q].pc # "put", server'[q].last # 0
         PROVE  sends'[server'[q].last].arrived > 0
    <3>1. CASE q = p
      BY <2>2, <3>1 DEF Sends, Delivers
    <3>2. CASE q # p
      <4>1. server'[q] = server[q] /\ server[q].last \in DOMAIN sends
        BY <1>2, <2>2, <2>12, <3>2, LinkFacts DEF ServerStates, Delivers
      <4>2. QED
        BY <2>5, <2>11, <2>12, <4>1 DEF Done
    <3>3. QED
      BY <3>1, <3>2
  <2>13. Done'
    BY <2>12 DEF Done
  <2>14. Once'
    <3>1. ASSUME NEW q \in Processes, NEW i \in DOMAIN Main[q], i >= main[q],
                 Main[q][i].op = "protocol"
          PROVE  server'[q].pc = "off"
      <4>1. server[q].pc = "off"
        BY <2>5, <3>1 DEF Once
      <4>2. QED
        BY <1>2, <2>2, <4>1 DEF ServerAt, Delivers
    <3>2. QED
      BY <1>2, <3>1 DEF Once
  <2>15. ASSUME NEW q \in Processes, server'[q].pc \in {"read", "put"}, Up(q)'
         PROVE  \E n \in DOMAIN conns' : Works(q, n)'
    <3>1. q # p /\ server'[q] = server[q] /\ Up(q) /\ (AllUp' <=> AllUp)
      BY <2>1, <2>2, <2>15 DEF Up, AllUp, Delivers
    <3>2. PICK i \in DOMAIN conns : Works(q, i)
      BY <2>5, <2>15, <3>1 DEF Serving
    <3>3. conns[i].id # server[p].conn
      <4>1. ToProcess(server[q].conn, q) /\ ToProcess(server[p].conn, p)
        BY <1>2 DEF Parts, ServerOK
      <4>2. conns[i].id = server[q].conn /\ conns[i].id # 0
        BY <1>2, <3>2, LinkFacts DEF Works
      <4>3. QED
        BY <3>1, <4>1, <4>2 DEF ToProcess
    <3>4. PICK n \in DOMAIN conns' : f[n] = i
      BY <2>4, <3>3
    <3>5. conns'[n] = conns[i]
      BY <2>4, <3>4
    <3>6. server[q].pc = "put" => server[q].last \in DOMAIN sends
      BY <1>2, LinkFacts DEF Parts, ServerOK, ServerStates
    <3>7. Works(q, n)'
      BY <2>11, <3>1, <3>2, <3>5, <3>6 DEF Works
    <3>8. QED
      BY <3>7
  <2>16. Serving'
    BY <2>15 DEF Serving
  <2>17. Abroad'
    BY <2>2, <2>5 DEF Abroad, SendsGrow, Delivers
  <2>18. \A b \in Agents : HandOf(b)'
    <3>1. ASSUME NEW b \in Agents, engine[b].id # 0 PROVE HandOf(b)'
      <4>1. engine[b].id \in DOMAIN sends /\ engine'[b] = engine[b] /\ engine[b].id # id
        BY <1>2, <2>6, <3>1, LinkFacts
      <4>2. sends'[engine[b].id] = sends[engine[b].id]
        BY <2>2, <4>1 DEF Delivers
      <4>3. \A j \in DOMAIN sends' : sends'[j].from = b => j <= engine[b].id
        BY <2>2, <2>5, <3>1 DEF HandOf, SendsGrow, Delivers
      <4>4. QED
        BY <2>5, <3>1, <4>1, <4>2, <4>3 DEF HandOf, Pending
    <3>2. QED
      BY <1>2, <3>1 DEF HandOf
  <2>19. \A b \in Agents : inbox'[b] = inbox[b] \/ Elsewhere(b, inbox'[b])
    <3>1. PICK to, e : /\ to = sends[id].to.agent
                       /\ e = [msg |-> sends[id].msg, id |-> id, sender |-> SourceUrl(id)]
      OBVIOUS
    <3>2. to \in Agents /\ e.sender.process # Home[to]
      BY <2>2, <3>1 DEF SourceUrl, Delivers
    <3>3. UNCHANGED inbox \/ inbox' = [inbox EXCEPT ![to] = Append(@, e)]
      BY <2>1, <3>1 DEF PutMessage
    <3>4. QED
      BY <1>2, <3>2, <3>3, InboxElsewhere
  <2>20. HandInv'
    BY <1>2, <2>17, <2>18, <2>19, HandFramed
  <2>21. QED
    BY <2>7, <2>8, <2>10, <2>13, <2>14, <2>16, <2>20
       DEF MoreBus, OrderInv, PutInv, Pairs, Unsettled, Served, NotYet, Done, Serving, Once, Works
<1>5. QED
  BY <1>3, <1>4

(***************************************************************************)
(* Every step.                                                             *)
(***************************************************************************)
LEMMA BusInit == Init => BusInv
<1> SUFFICES ASSUME Init PROVE BusInv
  OBVIOUS
<1>1. MessageInv
  BY MessageInit
<1>2. /\ inbox = [a \in Agents |-> <<>>] /\ engine = [a \in Agents |-> Idle]
      /\ server = [p \in Processes |-> [pc |-> "off", conn |-> 0, last |-> 0]]
      /\ conns = <<>> /\ sends = <<>>
  BY DEF Init
<1>3. ToSet(<<>>) = {}
  BY EmptyHolds
<1>4. HandInv
  BY <1>2, <1>3 DEF HandInv, Idle
<1>5. OrderInv /\ PutInv
  BY <1>2 DEF OrderInv, PutInv
<1>6. QED
  BY <1>1, <1>4, <1>5 DEF BusInv

LEMMA BusStep == Unmixed /\ BusInv /\ [Next]_vars => BusInv'
<1> SUFFICES ASSUME Unmixed, BusInv, [Next]_vars PROVE BusInv'
  OBVIOUS
<1>1. HasBus /\ MessageInv' /\ Parts'
  <2>1. MessageInv'
    BY MessageStep DEF BusInv
  <2>2. LinkInv /\ LinkInv'
    BY <2>1 DEF BusInv, MessageInv
  <2>3. Parts /\ Parts'
    BY <2>2, LinkParts, PTL
  <2>4. QED
    BY <2>1, <2>3 DEF HasBus, BusInv
<1>2. ASSUME NEW p \in Processes, MainThread(p) \/ Server(p) \/ MainReturns(p) PROVE MoreBus
  BY <1>1, <1>2, MainKeepsBus, ListenKeepsBus, AcceptKeepsBus, ReadKeepsBus, ReadNothingKeepsBus,
     PutKeepsBus, MainReturnsKeepsBus DEF Server
<1>3. ASSUME NEW a \in Agents, Engine(a) \/ ConnectTimesOut(a) PROVE MoreBus
  BY <1>1, <1>3, BodyKeepsBus, SendLocalKeepsBus, SendRemoteKeepsBus, ConnectKeepsBus,
     ConnectFailsKeepsBus, SendPacketKeepsBus DEF Engine, ConnectRefused, ConnectTimesOut
<1>4. ASSUME UNCHANGED vars PROVE MoreBus
  <2>1. UNCHANGED <<status, main, inbox, engine, server, conns, sends>>
    BY <1>4 DEF vars
  <2>2. Parts /\ HandInv /\ OrderInv /\ PutInv
    BY <1>1 DEF HasBus
  <2>3. HandInv'
    BY <2>1, <2>2, HandSame, HandFramed
  <2>4. SendsGrow
    BY <2>1, <2>2, SendsSame DEF Parts
  <2>5. OrderInv' /\ PutInv'
    BY <1>1, <2>1, <2>2, <2>4, OrderSame
  <2>6. QED
    BY <2>3, <2>5 DEF MoreBus
<1>5. MoreBus
  BY <1>2, <1>3, <1>4 DEF Next
<1>6. QED
  BY <1>1, <1>5 DEF BusInv, MoreBus

\* In programs that name no agent of their own process by a URL, connections and servers
\* work on messages in the order in which they were sent (messaging.cpp:13-36,
\* tcp_protocol.cpp:107-165).
THEOREM BusInvariant ==
  ASSUME Unmixed
  PROVE  Spec => []BusInv
BY BusInit, BusStep, PTL DEF Spec

(***************************************************************************)
(* The refinement: the state of the bus, and what changes it.              *)
(***************************************************************************)
LEMMA Fates ==
  ASSUME NEW id
  PROVE  /\ Fate(id) = IF sends[id].arrived > 0 THEN "delivered"
                       ELSE IF InFlight(id) /\ ~ sends[id].lost THEN "transit" ELSE "lost"
         /\ Fate(id)' = IF sends'[id].arrived > 0 THEN "delivered"
                        ELSE IF InFlight(id)' /\ ~ sends'[id].lost THEN "transit" ELSE "lost"
BY DEF Fate

LEMMA SentSame ==
  ASSUME SendsGrow, DOMAIN sends' = DOMAIN sends
  PROVE  UNCHANGED BusSent
BY DEF BusSent, SendsGrow

LEMMA FateSame ==
  ASSUME DOMAIN sends' = DOMAIN sends, \A id \in DOMAIN sends : Fate(id)' = Fate(id)
  PROVE  UNCHANGED BusFate
BY DEF BusFate

LEMMA InboxSame ==
  ASSUME UNCHANGED inbox
  PROVE  UNCHANGED BusInbox
BY DEF BusInbox

\* The engines and the connections have what they had.
LEMMA FlightsSame ==
  ASSUME UNCHANGED sends, \A id \in DOMAIN sends : InFlight(id)' <=> InFlight(id)
  PROVE  UNCHANGED <<BusSent, BusFate>>
<1>1. \A id \in DOMAIN sends : Fate(id)' = Fate(id)
  BY Fates
<1>2. UNCHANGED BusFate
  BY <1>1, FateSame
<1>3. UNCHANGED BusSent
  BY DEF BusSent
<1>4. QED
  BY <1>2, <1>3

\* An event is appended to a queue, or taken from it.
LEMMA InboxAppend ==
  ASSUME Parts, NEW to \in Agents, NEW e, inbox' = [inbox EXCEPT ![to] = Append(@, e)]
  PROVE  /\ BusInbox' = [BusInbox EXCEPT ![to] = Append(@, Seen(to, e))]
         /\ Len(BusInbox'[to]) = Len(BusInbox[to]) + 1
         /\ Last(BusInbox'[to]) = Seen(to, e)
<1> DEFINE E == Events \cup {e}
           S == {Seen(to, x) : x \in E}
           s == BusInbox[to]
           t == Append(s, Seen(to, e))
<1>1. inbox[to] \in Seq(E) /\ e \in E /\ \A x \in E : Seen(to, x) \in S
  <2> DEFINE F == Events
  <2>1. inbox[to] \in Seq(F) /\ F \subseteq E
    BY DEF Parts, InboxOK
  <2> HIDE DEF F
  <2>2. inbox[to] \in Seq(E)
    BY <2>1, SeqMonotonic
  <2>3. QED
    BY <2>2
<1>2. \A b \in Agents : b # to => inbox'[b] = inbox[b]
  BY DEF Parts, Shapes
<1>3. inbox'[to] = Append(inbox[to], e)
  BY DEF Parts, Shapes
<1>4. s = [i \in DOMAIN inbox[to] |-> Seen(to, inbox[to][i])]
  BY DEF BusInbox
<1>5. BusInbox'[to] = [i \in DOMAIN inbox'[to] |-> Seen(to, inbox'[to][i])]
  BY DEF BusInbox
<1> HIDE DEF E, S, s
<1>6. PICK n \in Nat : n = Len(inbox[to]) /\ DOMAIN inbox[to] = 1 .. n
  BY <1>1
<1>7. /\ DOMAIN inbox'[to] = 1 .. n + 1 /\ inbox'[to][n + 1] = e
      /\ \A i \in 1 .. n : inbox'[to][i] = inbox[to][i] /\ inbox[to][i] \in E
  BY <1>1, <1>3, <1>6, AppendProperties
<1>8. s \in Seq(S) /\ Len(s) = n
  <2>1. s = [i \in 1 .. n |-> Seen(to, inbox[to][i])]
    BY <1>4, <1>6
  <2>2. \A i \in 1 .. n : Seen(to, inbox[to][i]) \in S
    BY <1>1, <1>7
  <2>3. QED
    BY <1>6, <2>1, <2>2
<1>9. /\ t \in Seq(S) /\ Len(t) = n + 1 /\ t[n + 1] = Seen(to, e)
      /\ \A i \in 1 .. n : t[i] = s[i]
  BY <1>1, <1>8, AppendProperties
<1> HIDE DEF t
<1>10. t = [i \in 1 .. n + 1 |-> t[i]]
  BY <1>9
<1>11. BusInbox'[to] = t
  <2>1. \A i \in 1 .. n + 1 : t[i] = Seen(to, inbox'[to][i])
    <3>1. ASSUME NEW i \in 1 .. n + 1 PROVE t[i] = Seen(to, inbox'[to][i])
      <4>1. i \in 1 .. n \/ i = n + 1
        OBVIOUS
      <4>2. CASE i \in 1 .. n
        BY <1>4, <1>6, <1>7, <1>9, <4>2
      <4>3. CASE i = n + 1
        BY <1>7, <1>9, <4>3
      <4>4. QED
        BY <4>1, <4>2, <4>3
    <3>2. QED
      BY <3>1
  <2>2. QED
    BY <1>5, <1>7, <1>10, <2>1
<1>12. BusInbox' = [BusInbox EXCEPT ![to] = t]
  <2>1. \A b \in Agents : b # to => BusInbox'[b] = BusInbox[b]
    BY <1>2 DEF BusInbox
  <2>2. /\ BusInbox' = [b \in Agents |-> BusInbox'[b]]
        /\ BusInbox = [b \in Agents |-> BusInbox[b]]
    BY DEF BusInbox
  <2>3. QED
    BY <1>11, <2>1, <2>2
<1>13. Last(t) = Seen(to, e)
  BY <1>9 DEF Last
<1>14. QED
  BY <1>8, <1>9, <1>11, <1>12, <1>13 DEF s, t

LEMMA InboxTail ==
  ASSUME Parts, NEW a \in Agents, inbox[a] # <<>>, inbox' = [inbox EXCEPT ![a] = Tail(@)]
  PROVE  BusInbox[a] # <<>> /\ BusInbox' = [BusInbox EXCEPT ![a] = Tail(@)]
<1> DEFINE E == Events
           S == {Seen(a, x) : x \in E}
           s == BusInbox[a]
           t == Tail(s)
<1>1. inbox[a] \in Seq(E) /\ \A x \in E : Seen(a, x) \in S
  BY DEF Parts, InboxOK
<1>2. inbox'[a] = Tail(inbox[a]) /\ \A b \in Agents : b # a => inbox'[b] = inbox[b]
  BY DEF Parts, Shapes
<1>3. s = [i \in DOMAIN inbox[a] |-> Seen(a, inbox[a][i])]
  BY DEF BusInbox
<1>4. BusInbox'[a] = [i \in DOMAIN inbox'[a] |-> Seen(a, inbox'[a][i])]
  BY DEF BusInbox
<1> HIDE DEF E, S, s
<1>5. PICK n \in Nat : n = Len(inbox[a]) /\ DOMAIN inbox[a] = 1 .. n /\ n # 0
  BY <1>1, EmptySeq
<1>6. /\ DOMAIN inbox'[a] = 1 .. n - 1
      /\ \A i \in 1 .. n - 1 : inbox'[a][i] = inbox[a][i + 1]
      /\ \A i \in 1 .. n : inbox[a][i] \in E
  <2>1. PICK u : u = Tail(inbox[a])
    OBVIOUS
  <2>2. u \in Seq(E) /\ Len(u) = n - 1 /\ \A i \in 1 .. Len(u) : u[i] = inbox[a][i + 1]
    BY <1>1, <1>5, <2>1, HeadTailProperties
  <2>3. DOMAIN u = 1 .. n - 1
    BY <2>2
  <2>4. \A i \in 1 .. n : inbox[a][i] \in E
    BY <1>1, <1>5
  <2>5. QED
    BY <1>2, <2>1, <2>2, <2>3, <2>4
<1>7. s \in Seq(S) /\ Len(s) = n /\ s # <<>>
  <2>1. s = [i \in 1 .. n |-> Seen(a, inbox[a][i])]
    BY <1>3, <1>5
  <2>2. \A i \in 1 .. n : Seen(a, inbox[a][i]) \in S
    BY <1>1, <1>6
  <2>3. QED
    BY <1>5, <2>1, <2>2
<1>8. t \in Seq(S) /\ Len(t) = n - 1 /\ \A i \in 1 .. n - 1 : t[i] = s[i + 1]
  BY <1>5, <1>7, HeadTailProperties
<1> HIDE DEF t
<1>9. t = [i \in 1 .. n - 1 |-> t[i]]
  BY <1>5, <1>8
<1>10. BusInbox'[a] = t
  <2>1. ASSUME NEW i \in 1 .. n - 1 PROVE t[i] = Seen(a, inbox'[a][i])
    <3>1. i + 1 \in 1 .. n
      BY <1>5
    <3>2. QED
      BY <1>3, <1>5, <1>6, <1>8, <3>1
  <2>2. QED
    BY <1>4, <1>6, <1>9, <2>1
<1>11. BusInbox' = [BusInbox EXCEPT ![a] = t]
  <2>1. \A b \in Agents : b # a => BusInbox'[b] = BusInbox[b]
    BY <1>2 DEF BusInbox
  <2>2. /\ BusInbox' = [b \in Agents |-> BusInbox'[b]]
        /\ BusInbox = [b \in Agents |-> BusInbox[b]]
    BY DEF BusInbox
  <2>3. QED
    BY <1>10, <2>1, <2>2
<1>12. QED
  BY <1>7, <1>11 DEF s, t

LEMMA SameWords == \A s : Bus!Last(s) = Last(s) /\ Bus!Front(s) = Front(s)
BY DEF Bus!Last, Last, Bus!Front, Front

BusMoves == Bus!Next \/ UNCHANGED Bus!vars

LEMMA BusStays ==
  ASSUME UNCHANGED <<BusSent, BusFate, BusInbox, kb, status>>
  PROVE  BusMoves
<1>1. UNCHANGED AllUp
  BY DEF AllUp, Up
<1>2. QED
  BY <1>1 DEF BusMoves, Bus!vars

\* What main does, and procedures do, is nothing to the bus, except that main posts events.
LEMMA MainIsBus ==
  ASSUME HasBus, NEW p \in Processes, MainThread(p)
  PROVE  BusMoves
<1>1. UNCHANGED <<status, kb, engine, conns, sends>> /\ (UNCHANGED inbox \/ Post(p))
  BY DEF MainThread, RegisterProtocol, Create, Start, Post, MainStep, agentVars
<1>2. UNCHANGED <<BusSent, BusFate>>
  <2>1. \A id \in DOMAIN sends : InFlight(id)' <=> InFlight(id)
    BY <1>1, Flying, FlyingNext
  <2>2. QED
    BY <1>1, <2>1, FlightsSame
<1>3. CASE UNCHANGED inbox
  BY <1>1, <1>2, <1>3, InboxSame, BusStays
<1>4. CASE Post(p)
  <2>1. PICK to, e : /\ to = Subject(p)
                     /\ e = [msg |-> Main[p][main[p]].msg, id |-> 0, sender |-> NoSender]
    OBVIOUS
  <2>2. inbox' = [inbox EXCEPT ![to] = Append(@, e)] /\ MainStep(p, "post")
    BY <1>4, <2>1 DEF Post
  <2>3. to \in Agents
    BY <2>1, <2>2, MainSteps DEF HasBus
  <2>4. PICK x : x = Seen(to, e)
    OBVIOUS
  <2>5. x.id = 0
    BY <2>1, <2>4 DEF Seen
  <2>6. /\ BusInbox' = [BusInbox EXCEPT ![to] = Append(@, x)]
        /\ Len(BusInbox'[to]) = Len(BusInbox[to]) + 1
        /\ Last(BusInbox'[to]) = x
    BY <2>2, <2>3, <2>4, InboxAppend DEF HasBus
  <2>7. Bus!Post(to)
    <3>1. (~ AllUp)' = ~ AllUp
      BY <1>1 DEF AllUp, Up
    <3>2. QED
      BY <1>1, <1>2, <2>5, <2>6, <3>1, SameWords DEF Bus!Post
  <2>8. QED
    BY <2>3, <2>7 DEF BusMoves, Bus!Next
<1>5. QED
  BY <1>1, <1>3, <1>4

LEMMA BodyKeepsIds ==
  ASSUME Parts, NEW a \in Agents, TakeEvent(a) \/ CallProcedure(a) \/ BodyReturns(a)
  PROVE  \A b \in Agents : engine'[b].id = engine[b].id
<1>1. /\ engine = [b \in Agents |-> engine[b]] /\ DOMAIN engine = Agents
      /\ engine[a] \in EngineStates
      /\ engine[a].pc \in {"connect", "send"} <=> engine[a].id # 0
  BY DEF Parts, Shapes, EngineOK
<1>2. engine'[a].id = engine[a].id
  <2>1. CASE TakeEvent(a)
    BY <1>1, <2>1 DEF TakeEvent, EngineStates
  <2>2. CASE CallProcedure(a)
    <3>1. PICK x : engine' = [engine EXCEPT ![a].evts = x]
      BY <2>2 DEF CallProcedure
    <3>2. QED
      BY <1>1, <3>1 DEF EngineStates
  <2>3. CASE BodyReturns(a)
    <3>1. engine[a].id = 0
      BY <1>1, <2>3 DEF BodyReturns, EngineAt
    <3>2. PICK x : \/ engine' = [engine EXCEPT ![a] = Idle]
                   \/ engine' = [engine EXCEPT ![a] = [engine[a] EXCEPT !.evts = x]]
      BY <2>3 DEF BodyReturns
    <3>3. QED
      BY <1>1, <3>1, <3>2 DEF EngineStates, Idle
  <2>4. QED
    BY <2>1, <2>2, <2>3
<1>3. \A b \in Agents : b # a => engine'[b] = engine[b]
  <2>1. PICK x : engine' = [engine EXCEPT ![a] = x]
    BY <1>1 DEF TakeEvent, CallProcedure, BodyReturns
  <2>2. QED
    BY <1>1, <2>1
<1>4. QED
  BY <1>2, <1>3

LEMMA BodyIsBus ==
  ASSUME HasBus, NEW a \in Agents, TakeEvent(a) \/ CallProcedure(a) \/ BodyReturns(a)
  PROVE  BusMoves
<1>1. /\ UNCHANGED <<status, kb, server, conns, sends>>
      /\ UNCHANGED inbox \/ TakeEvent(a)
  BY DEF TakeEvent, CallProcedure, BodyReturns, agentVars
<1>2. \A b \in Agents : engine'[b].id = engine[b].id
  BY BodyKeepsIds DEF HasBus
<1>3. UNCHANGED <<BusSent, BusFate>>
  <2>1. \A id \in DOMAIN sends : InFlight(id)' <=> InFlight(id)
    BY <1>1, <1>2, Flying, FlyingNext
  <2>2. QED
    BY <1>1, <2>1, FlightsSame
<1>4. CASE UNCHANGED inbox
  BY <1>1, <1>3, <1>4, InboxSame, BusStays
<1>5. CASE TakeEvent(a)
  <2>1. inbox[a] # <<>> /\ inbox' = [inbox EXCEPT ![a] = Tail(@)]
    BY <1>5 DEF TakeEvent
  <2>2. BusInbox[a] # <<>> /\ BusInbox' = [BusInbox EXCEPT ![a] = Tail(@)]
    BY <2>1, InboxTail DEF HasBus
  <2>3. (~ AllUp)' = ~ AllUp
    BY <1>1 DEF AllUp, Up
  <2>4. Bus!Take(a)
    BY <1>1, <1>3, <2>2, <2>3 DEF Bus!Take
  <2>5. QED
    BY <2>4 DEF BusMoves, Bus!Next
<1>6. QED
  BY <1>1, <1>4, <1>5

\* Servers that accept and read, and connections that are completed, are nothing to it.
LEMMA ServerIsBus ==
  ASSUME HasBus, NEW p \in Processes, Listen(p) \/ Accept(p) \/ Read(p)
  PROVE  BusMoves
<1>1. UNCHANGED <<status, inbox, kb, engine, sends>> /\ (UNCHANGED conns \/ Accept(p))
  BY DEF Listen, Accept, Read, agentVars
<1>2. DOMAIN conns' = DOMAIN conns /\ \A i \in DOMAIN conns : conns'[i].id = conns[i].id
  <2>1. CASE Accept(p)
    <3>1. PICK k : conns' = [conns EXCEPT ![k].accepted = TRUE]
      BY <2>1 DEF Accept
    <3>2. DOMAIN conns' = DOMAIN conns
      BY <3>1
    <3>3. ASSUME NEW i \in DOMAIN conns PROVE conns'[i].id = conns[i].id
      <4>1. \/ conns'[i] = conns[i]
            \/ conns'[i] = [conns[i] EXCEPT !.accepted = TRUE]
        BY <3>1
      <4>2. conns[i] \in Connections
        BY LinkFacts DEF HasBus
      <4>3. QED
        BY <4>1, <4>2 DEF Connections
    <3>4. QED
      BY <3>2, <3>3
  <2>2. QED
    BY <1>1, <2>1
<1>3. \A id \in DOMAIN sends : InFlight(id)' <=> InFlight(id)
  BY <1>1, <1>2, Flying, FlyingNext
<1>4. QED
  BY <1>1, <1>3, FlightsSame, InboxSame, BusStays

LEMMA ConnectIsBus ==
  ASSUME HasBus, NEW a \in Agents, Connect(a)
  PROVE  BusMoves
<1>1. PICK c, id : /\ id = engine[a].id
                   /\ c = [id |-> id, to |-> Peer(a), accepted |-> FALSE, data |-> "none"]
  OBVIOUS
<1>2. /\ EngineAt(a, "connect") /\ conns' = Append(conns, c)
      /\ engine' = [engine EXCEPT ![a].pc = "send"]
      /\ UNCHANGED <<status, inbox, kb, sends>> /\ Parts
  BY <1>1 DEF Connect, HasBus, agentVars
<1>3. id \in DOMAIN sends /\ c \in Connections
  <2>1. id \in DOMAIN sends /\ Peer(a) \in Processes
    BY <1>1, <1>2, WithMessage
  <2>2. QED
    BY <1>1, <2>1 DEF Connections
<1>4. /\ Len(conns) \in Nat /\ DOMAIN conns = 1 .. Len(conns)
      /\ DOMAIN conns' = 1 .. Len(conns) + 1
      /\ conns'[Len(conns) + 1] = c /\ \A i \in 1 .. Len(conns) : conns'[i] = conns[i]
  <2> DEFINE C == Connections
  <2>1. conns \in Seq(C) /\ c \in C
    BY <1>2, <1>3 DEF Parts, ConnsOK
  <2> HIDE DEF C
  <2>2. QED
    BY <1>2, <2>1, AppendProperties
<1>5. \A b \in Agents : engine'[b].id = engine[b].id
  <2>1. engine = [b \in Agents |-> engine[b]] /\ DOMAIN engine = Agents
    BY <1>2 DEF Parts, Shapes
  <2>2. engine[a] \in EngineStates
    BY <1>2, LinkFacts
  <2>3. engine'[a] = [engine[a] EXCEPT !.pc = "send"]
    BY <1>2, <2>1
  <2>4. engine'[a].id = engine[a].id
    BY <2>2, <2>3 DEF EngineStates
  <2>5. QED
    BY <1>2, <2>1, <2>4
<1>6. \A j \in DOMAIN sends : InFlight(j)' <=> InFlight(j)
  <2>1. \A j : (\E i \in DOMAIN conns' : conns'[i].id = j)
                 <=> (j = id \/ \E i \in DOMAIN conns : conns[i].id = j)
    <3>1. \A i \in DOMAIN conns' : i \in 1 .. Len(conns) \/ i = Len(conns) + 1
      BY <1>4
    <3>2. QED
      BY <1>1, <1>4, <3>1
  <2>2. QED
    BY <1>1, <1>5, <2>1, Flying, FlyingNext
<1>7. QED
  BY <1>2, <1>6, FlightsSame, InboxSame, BusStays

\* A message is sent.
BusMessage(s) == [from |-> s.from, msg |-> s.msg, to |-> Resolve(s.to, Home[s.from])]

LEMMA Lengths ==
  ASSUME Parts
  PROVE  /\ DOMAIN BusSent = DOMAIN sends /\ Len(BusSent) = Len(sends)
         /\ DOMAIN BusFate = DOMAIN sends /\ Len(BusFate) = Len(sends)
         /\ \A id \in DOMAIN sends : BusSent[id] = BusMessage(sends[id]) /\ BusFate[id] = Fate(id)
<1>1. DOMAIN sends = 1 .. Len(sends) /\ Len(sends) \in Nat
  BY LinkFacts
<1>2. QED
  BY <1>1 DEF BusSent, BusFate, BusMessage

LEMMA SentNew ==
  ASSUME Parts, NEW s \in Sends, Len(sends) < MaxSends, sends' = Append(sends, s)
  PROVE  /\ Len(BusSent') = Len(BusSent) + 1 /\ Len(BusSent') = Len(sends) + 1
         /\ Front(BusSent') = BusSent
         /\ Last(BusSent') = BusMessage(s) /\ DOMAIN BusSent' = DOMAIN sends'
<1>1. /\ sends'[Len(sends) + 1] = s /\ DOMAIN sends' = 1 .. Len(sends) + 1
      /\ Len(sends) \in Nat /\ DOMAIN sends = 1 .. Len(sends)
      /\ \A id \in DOMAIN sends : sends'[id] = sends[id]
  BY Sent DEF Parts
<1>2. \A id \in DOMAIN sends : sends[id] \in Sends
  BY LinkFacts
<1> DEFINE S == {BusMessage(x) : x \in Sends}
           t == BusSent'
           u == Front(t)
<1>3. PICK n \in Nat : n = Len(sends)
  BY <1>1, Zenon
<1>4. /\ t = [id \in 1 .. n + 1 |-> BusMessage(sends'[id])]
      /\ BusSent = [id \in 1 .. n |-> BusMessage(sends[id])]
  BY <1>1, <1>3 DEF BusSent, BusMessage
<1>5. \A id \in 1 .. n + 1 : BusMessage(sends'[id]) \in S
  <2>1. \A id \in 1 .. n + 1 : sends'[id] \in Sends
    <3>1. \A id \in 1 .. n + 1 : id \in 1 .. n \/ id = n + 1
      OBVIOUS
    <3>2. QED
      BY <1>1, <1>2, <1>3, <3>1
  <2>2. QED
    BY <2>1
<1> HIDE DEF S, t
<1>6. t \in Seq(S) /\ Len(t) = n + 1 /\ t # <<>>
  <2>1. PICK m \in Nat : m = n + 1
    OBVIOUS
  <2>2. t = [id \in 1 .. m |-> BusMessage(sends'[id])] /\ \A id \in 1 .. m : BusMessage(sends'[id]) \in S
    BY <1>4, <1>5, <2>1
  <2>3. t \in [1 .. m -> S]
    BY <2>2
  <2>4. t \in Seq(S) /\ Len(t) = m
    BY <2>3
  <2>5. QED
    BY <2>1, <2>4, EmptySeq
<1>7. /\ u \in Seq(S) /\ Len(u) = n /\ \A i \in 1 .. n : u[i] = t[i]
  BY <1>6, FrontHolds, SMTT(30)
<1> HIDE DEF u
<1>8. u = [i \in 1 .. n |-> u[i]]
  BY <1>7
<1>9. \A i \in 1 .. n : u[i] = BusMessage(sends[i])
  <2>1. ASSUME NEW i \in 1 .. n PROVE u[i] = BusMessage(sends[i])
    <3>1. i \in 1 .. n + 1
      OBVIOUS
    <3>2. u[i] = BusMessage(sends'[i])
      BY <1>4, <1>7, <3>1
    <3>3. QED
      BY <1>1, <1>3, <3>2
  <2>2. QED
    BY <2>1
<1>10. u = BusSent
  BY <1>4, <1>8, <1>9
<1>11. Last(t) = BusMessage(s)
  BY <1>1, <1>3, <1>4, <1>6 DEF Last
<1>12. Len(BusSent) = n /\ DOMAIN t = 1 .. n + 1
  BY <1>4
<1>13. QED
  BY <1>1, <1>3, <1>6, <1>10, <1>11, <1>12 DEF t, u

LEMMA FateNew ==
  ASSUME Parts, NEW s \in Sends, Len(sends) < MaxSends, sends' = Append(sends, s),
         NEW new, new = Len(sends) + 1, NEW x, x = Fate(new)',
         \A id \in DOMAIN sends : Fate(id)' = Fate(id)
  PROVE  BusFate' = Append(BusFate, x)
<1>1. /\ DOMAIN sends' = 1 .. Len(sends) + 1
      /\ Len(sends) \in Nat /\ DOMAIN sends = 1 .. Len(sends)
  BY Sent DEF Parts
<1>2. PICK n \in Nat : n = Len(sends) /\ new = n + 1
  BY <1>1, Zenon
<1> DEFINE S == {Fate(id) : id \in DOMAIN sends} \cup {x}
           f == BusFate
           t == Append(f, x)
<1>3. f = [id \in 1 .. n |-> Fate(id)] /\ BusFate' = [id \in 1 .. n + 1 |-> Fate(id)']
  BY <1>1, <1>2 DEF BusFate
<1>4. x \in S /\ \A id \in 1 .. n : Fate(id) \in S
  BY <1>1, <1>2
<1> HIDE DEF S, f
<1>5. f \in Seq(S) /\ Len(f) = n
  BY <1>3, <1>4
<1>6. t \in Seq(S) /\ Len(t) = n + 1 /\ t[n + 1] = x /\ \A i \in 1 .. n : t[i] = f[i]
  BY <1>4, <1>5, AppendProperties
<1> HIDE DEF t
<1>7. t = [i \in 1 .. n + 1 |-> t[i]]
  BY <1>6
<1>8. ASSUME NEW i \in 1 .. n + 1 PROVE t[i] = Fate(i)'
  <2>1. i \in 1 .. n \/ i = n + 1
    OBVIOUS
  <2>2. CASE i \in 1 .. n
    BY <1>1, <1>2, <1>3, <1>6, <2>2
  <2>3. CASE i = n + 1
    BY <1>2, <1>6, <2>3
  <2>4. QED
    BY <2>1, <2>2, <2>3
<1>9. BusFate' = t
  BY <1>3, <1>7, <1>8
<1>10. QED
  BY <1>9 DEF t, f

\* A process ends, of which a message may know that it is lost.
LEMMA EndIsBus ==
  ASSUME HasBus, Parts', NEW p \in Processes, NEW how \in {"returned", "terminated"},
         Stop(p, how), UNCHANGED <<inbox, kb, engine>>,
         \/ UNCHANGED sends
         \/ \E s \in Sends : /\ Len(sends) < MaxSends /\ sends' = Append(sends, s)
                             /\ s.arrived = 0 /\ s.lost
  PROVE  BusMoves
<1>1. SendsGrow /\ \A id \in DOMAIN sends : sends'[id] = sends[id]
  <2>1. CASE UNCHANGED sends
    BY <2>1, SendsSame DEF HasBus, Parts
  <2>2. CASE \E s \in Sends : Len(sends) < MaxSends /\ sends' = Append(sends, s)
    BY <2>2, Sent DEF HasBus, Parts
  <2>3. QED
    BY <2>1, <2>2
<1>2. (~ AllUp)' = TRUE
  BY <1>1, Stopped DEF HasBus
<1>3. /\ DOMAIN BusSent = DOMAIN sends /\ DOMAIN BusFate = DOMAIN sends
      /\ DOMAIN BusSent' = DOMAIN sends' /\ DOMAIN BusFate' = DOMAIN sends'
      /\ Len(BusFate') = Len(BusSent')
  <2>1. /\ DOMAIN BusSent = DOMAIN sends /\ DOMAIN BusFate = DOMAIN sends
        /\ DOMAIN BusSent' = DOMAIN sends' /\ DOMAIN BusFate' = DOMAIN sends'
    BY DEF BusSent, BusFate
  <2>2. DOMAIN sends' = 1 .. Len(sends') /\ Len(sends') \in Nat
    BY DEF Parts, SendsOK
  <2>3. Len(BusFate') = Len(sends') /\ Len(BusSent') = Len(sends')
    <3>1. PICK m \in Nat : m = Len(sends') /\ DOMAIN sends' = 1 .. m
      BY <2>2, Zenon
    <3>2. Len(BusFate') = m
      BY <3>1 DEF BusFate
    <3>3. Len(BusSent') = m
      BY <3>1 DEF BusSent
    <3>4. QED
      BY <3>1, <3>2, <3>3
  <2>4. QED
    BY <2>1, <2>3, Zenon
<1>4. \A id \in DOMAIN sends : InFlight(id)' => InFlight(id)
  <2>1. PICK f : Kept(f)
    BY StopKeeps DEF HasBus
  <2>2. \A k \in DOMAIN conns' : \E i \in DOMAIN conns : conns'[k].id = conns[i].id
    BY <2>1 DEF Kept
  <2>3. QED
    BY <2>2, Flying, FlyingNext
<1>5. ASSUME NEW id \in DOMAIN sends
      PROVE  \/ BusFate'[id] = BusFate[id]
             \/ BusFate[id] = "transit" /\ BusFate'[id] = "lost"
  <2>1. id \in DOMAIN sends' /\ sends'[id] = sends[id]
    BY <1>1 DEF SendsGrow
  <2>2. BusFate[id] = Fate(id) /\ BusFate'[id] = Fate(id)'
    BY <2>1 DEF BusFate
  <2>3. QED
    BY <1>4, <2>1, <2>2, Fates
<1>6. \/ UNCHANGED BusSent
      \/ Len(BusSent') = Len(BusSent) + 1 /\ Front(BusSent') = BusSent
  <2>1. CASE UNCHANGED sends
    BY <2>1 DEF BusSent
  <2>2. CASE \E s \in Sends : Len(sends) < MaxSends /\ sends' = Append(sends, s)
    BY <2>2, SentNew DEF HasBus
  <2>3. QED
    BY <2>1, <2>2
<1>7. ASSUME NEW id \in DOMAIN sends' \ DOMAIN sends PROVE BusFate'[id] = "lost"
  <2>1. PICK s \in Sends : /\ Len(sends) < MaxSends /\ sends' = Append(sends, s)
                           /\ s.arrived = 0 /\ s.lost
    BY <1>7
  <2>2. sends'[id] = s
    BY <1>7, <2>1, Sent DEF HasBus, Parts
  <2>3. BusFate'[id] = Fate(id)'
    BY DEF BusFate
  <2>4. QED
    BY <2>1, <2>2, <2>3, Fates
<1>8. UNCHANGED <<BusInbox, kb>>
  BY InboxSame
<1>9. Bus!End
  BY <1>2, <1>3, <1>5, <1>6, <1>7, <1>8, SameWords, Zenon DEF Bus!End
<1>10. QED
  BY <1>9 DEF BusMoves, Bus!Next

\* The event of a message comes to the queue of its addressee.
LEMMA RaiseIsBus ==
  ASSUME Parts, NEW m, NEW id, id # 0, NEW to \in Agents, NEW sender,
         m.to = [process |-> Home[to], agent |-> to],
         Resolve(sender, Home[to]) = [process |-> Home[m.from], agent |-> m.from],
         PutMessage(id, m.msg, to, sender)
  PROVE  Bus!Raise(to, m, id)
<1>1. PICK e : e = [msg |-> m.msg, id |-> id, sender |-> sender]
  OBVIOUS
<1>2. Seen(to, e) = [msg |-> m.msg, id |-> id,
                     sender |-> [process |-> Home[m.from], agent |-> m.from]]
  BY <1>1 DEF Seen
<1>3. CASE m.msg \in kb[to]
  BY <1>3, InboxSame DEF PutMessage, Bus!Raise, Bus!Place
<1>4. CASE m.msg \notin kb[to]
  <2>1. inbox' = [inbox EXCEPT ![to] = Append(@, e)]
    BY <1>1, <1>4 DEF PutMessage
  <2>2. BusInbox' = [BusInbox EXCEPT ![to] = Append(@, Seen(to, e))]
    BY <2>1, InboxAppend
  <2>3. QED
    BY <1>2, <1>4, <2>2 DEF PutMessage, Bus!Raise, Bus!Place
<1>5. QED
  BY <1>3, <1>4

LEMMA SendLocalIsBus ==
  ASSUME HasBus, Parts', NEW a \in Agents, SendLocal(a)
  PROVE  BusMoves
<1>1. PICK s \in Sends :
        /\ EngineAt(a, "body") /\ Len(sends) < MaxSends /\ UNCHANGED <<main, engine, server>>
        /\ sends' = Append(sends, s) /\ s.from = a /\ s.to.process = Here
        /\ \/ /\ s.arrived = 1 /\ ~ s.lost /\ UNCHANGED <<status, conns>>
              /\ Deliverable(Home[a], s.msg, s.to.agent)
              /\ PutMessage(Len(sends) + 1, s.msg, s.to.agent, [process |-> Here, agent |-> a])
           \/ /\ s.arrived = 0 /\ s.lost
              /\ Stop(Home[a], "terminated") /\ UNCHANGED agentVars
  BY LocalSend
<1>2. Parts /\ Home[a] \in Processes
  BY HomeAssumption DEF HasBus
<1>3. CASE s.arrived = 0 /\ s.lost /\ Stop(Home[a], "terminated") /\ UNCHANGED agentVars
  <2>1. UNCHANGED <<inbox, kb>>
    BY <1>3 DEF agentVars
  <2>2. QED
    BY <1>1, <1>2, <1>3, <2>1, EndIsBus
<1>4. CASE /\ s.arrived = 1 /\ ~ s.lost /\ UNCHANGED <<status, conns>>
           /\ Deliverable(Home[a], s.msg, s.to.agent)
           /\ PutMessage(Len(sends) + 1, s.msg, s.to.agent, [process |-> Here, agent |-> a])
  <2>1. PICK id, m, to : id = Len(sends) + 1 /\ m = BusMessage(s) /\ to = s.to.agent
    OBVIOUS
  <2>2. to \in Agents /\ Home[to] = Home[a]
    BY <1>2, <1>4, <2>1 DEF Deliverable, Parts, MainOK
  <2>3. /\ Len(BusSent') = Len(BusSent) + 1 /\ Len(BusSent') = id
        /\ Front(BusSent') = BusSent /\ Last(BusSent') = m
    BY <1>1, <1>2, <2>1, SentNew
  <2>4. /\ sends'[id] = s /\ id # 0 /\ \A j \in DOMAIN sends : sends'[j] = sends[j]
    BY <1>1, <1>2, <2>1, Sent DEF Parts
  <2>5. Fate(id)' = "delivered"
    BY <1>4, <2>4, Fates
  <2>6. \A j \in DOMAIN sends : Fate(j)' = Fate(j)
    <3>1. \A j : InFlight(j)' <=> InFlight(j)
      BY <1>1, <1>4, Flying, FlyingNext
    <3>2. QED
      BY <2>4, <3>1, Fates
  <2>7. BusFate' = Append(BusFate, "delivered")
    BY <1>1, <1>2, <2>1, <2>5, <2>6, FateNew
  <2>8. /\ m.msg = s.msg /\ m.from = a
        /\ m.to = [process |-> Home[to], agent |-> to]
    <3>1. s.to = [process |-> Here, agent |-> to]
      BY <1>1, <2>1 DEF Sends, Address
    <3>2. QED
      BY <1>1, <2>1, <2>2, <3>1 DEF BusMessage, Resolve
  <2>9. Bus!Raise(to, m, id)
    <3>1. PICK sender : sender = [process |-> Here, agent |-> a]
      OBVIOUS
    <3>2. Resolve(sender, Home[to]) = [process |-> Home[m.from], agent |-> m.from]
      BY <2>2, <2>8, <3>1 DEF Resolve
    <3>3. PutMessage(id, m.msg, to, sender)
      BY <1>4, <2>1, <2>8, <3>1
    <3>4. QED
      BY <1>2, <2>2, <2>4, <2>8, <3>2, <3>3, RaiseIsBus
  <2>10. (~ AllUp)' = ~ AllUp
    BY <1>4 DEF AllUp, Up
  <2>11. Bus!Send
    BY <2>2, <2>3, <2>7, <2>8, <2>9, <2>10, SameWords DEF Bus!Send
  <2>12. QED
    BY <2>11 DEF BusMoves, Bus!Next
<1>5. QED
  BY <1>1, <1>3, <1>4

LEMMA SendRemoteIsBus ==
  ASSUME HasBus, Parts', Unmixed, NEW a \in Agents, SendRemote(a)
  PROVE  BusMoves
<1>1. PICK s \in Sends :
        /\ EngineAt(a, "body") /\ Len(sends) < MaxSends
        /\ UNCHANGED <<main, server, agentVars>>
        /\ sends' = Append(sends, s) /\ s.from = a
        /\ s.to.process # Here /\ s.to.process # Home[a] /\ s.arrived = 0
        /\ \/ /\ ~ s.lost /\ UNCHANGED <<status, conns>>
              /\ engine' = [engine EXCEPT ![a] = [pc |-> "connect", evts |-> engine[a].evts,
                                                  id |-> Len(sends) + 1]]
           \/ /\ s.lost /\ Stop(Home[a], "terminated") /\ UNCHANGED engine
  BY RemoteSend
<1>2. Parts /\ Home[a] \in Processes
  BY HomeAssumption DEF HasBus
<1>3. UNCHANGED <<inbox, kb>>
  BY <1>1 DEF agentVars
<1>4. CASE s.lost /\ Stop(Home[a], "terminated") /\ UNCHANGED engine
  BY <1>1, <1>2, <1>3, <1>4, EndIsBus
<1>5. CASE /\ ~ s.lost /\ UNCHANGED <<status, conns>>
           /\ engine' = [engine EXCEPT ![a] = [pc |-> "connect", evts |-> engine[a].evts,
                                               id |-> Len(sends) + 1]]
  <2>1. PICK id, m : id = Len(sends) + 1 /\ m = BusMessage(s)
    OBVIOUS
  <2>2. /\ Len(BusSent') = Len(BusSent) + 1
        /\ Front(BusSent') = BusSent /\ Last(BusSent') = m
    BY <1>1, <1>2, <2>1, SentNew
  <2>3. /\ sends'[id] = s /\ id # 0 /\ \A j \in DOMAIN sends : sends'[j] = sends[j]
        /\ \A j \in DOMAIN sends : j # id /\ j # 0
    BY <1>1, <1>2, <2>1, Sent DEF Parts
  <2>4. /\ engine'[a].id = id /\ engine[a].id = 0
        /\ \A b \in Agents : b # a => engine'[b] = engine[b]
    <3>1. engine = [b \in Agents |-> engine[b]] /\ DOMAIN engine = Agents
      BY <1>2 DEF Parts, Shapes
    <3>2. engine[a] = [pc |-> "body", evts |-> engine[a].evts, id |-> 0]
      BY <1>1, <1>2, InBody
    <3>3. engine[a].id = 0
      BY <3>2
    <3>4. QED
      BY <1>5, <2>1, <3>1, <3>3
  <2>5. Fate(id)' = "transit"
    <3>1. InFlight(id)'
      BY <2>4, FlyingNext
    <3>2. ~ (s.arrived > 0)
      BY <1>1
    <3>3. QED
      BY <1>5, <2>3, <3>1, <3>2, Fates
  <2>6. \A j \in DOMAIN sends : Fate(j)' = Fate(j)
    <3>1. \A j \in DOMAIN sends : InFlight(j)' <=> InFlight(j)
      BY <1>5, <2>3, <2>4, Flying, FlyingNext
    <3>2. QED
      BY <2>3, <3>1, Fates
  <2>7. BusFate' = Append(BusFate, "transit")
    BY <1>1, <1>2, <2>1, <2>5, <2>6, FateNew
  <2>8. (~ AllUp)' = ~ AllUp
    BY <1>5 DEF AllUp, Up
  <2>9. m.from \in Agents
    BY <1>1, <2>1 DEF BusMessage
  <2>10. Bus!Send
    BY <1>3, <2>2, <2>7, <2>8, <2>9, InboxSame, SameWords DEF Bus!Send
  <2>11. QED
    BY <2>10 DEF BusMoves, Bus!Next
<1>6. QED
  BY <1>1, <1>4, <1>5

\* A message is lost with its connection, or for want of one.
LEMMA LoseIsBus ==
  ASSUME HasBus, NEW id \in DOMAIN sends, Pending(id), InFlight(id),
         NEW s \in Sends, sends' = [sends EXCEPT ![id] = s], s.lost, s.arrived = sends[id].arrived,
         s.from = sends[id].from, s.to = sends[id].to, s.msg = sends[id].msg,
         \A j \in DOMAIN sends : j # id => (InFlight(j)' <=> InFlight(j)),
         UNCHANGED <<status, inbox, kb>>
  PROVE  BusMoves
<1>1. /\ SendsGrow /\ DOMAIN sends' = DOMAIN sends /\ sends'[id] = s
      /\ \A j \in DOMAIN sends : j # id => sends'[j] = sends[j]
  BY Learnt DEF HasBus, Parts
<1>2. UNCHANGED <<BusSent, BusInbox>>
  BY <1>1, SentSame, InboxSame
<1>3. Fate(id) = "transit" /\ Fate(id)' = "lost"
  <2>1. ~ (sends[id].arrived > 0) /\ ~ (s.arrived > 0)
    BY DEF Pending
  <2>2. QED
    BY <1>1, <2>1, Fates DEF Pending
<1>4. \A j \in DOMAIN sends : j # id => Fate(j)' = Fate(j)
  BY <1>1, Fates
<1>5. BusFate' = [BusFate EXCEPT ![id] = "lost"]
  BY <1>1, <1>3, <1>4 DEF BusFate
<1>6. BusFate[id] = "transit" /\ id \in DOMAIN BusSent
  BY <1>3 DEF BusFate, BusSent
<1>7. (~ AllUp)' = ~ AllUp
  BY DEF AllUp, Up
<1>8. Bus!Lose(id)
  BY <1>2, <1>5, <1>6, <1>7 DEF Bus!Lose
<1>9. QED
  BY <1>6, <1>8 DEF BusMoves, Bus!Next

LEMMA ConnectFailsIsBus ==
  ASSUME HasBus, NEW a \in Agents, ConnectFails(a)
  PROVE  BusMoves
<1>1. PICK id, s : id = engine[a].id /\ s = [sends[id] EXCEPT !.lost = TRUE]
  OBVIOUS
<1>2. /\ EngineAt(a, "connect") /\ sends' = [sends EXCEPT ![id] = s] /\ SendReturns(a)
      /\ UNCHANGED <<status, inbox, kb, conns>> /\ Parts
  BY <1>1 DEF ConnectFails, HasBus, agentVars
<1>3. id \in DOMAIN sends /\ id # 0 /\ sends[id] \in Sends
  BY <1>1, <1>2, WithMessage, LinkFacts
<1>4. /\ s \in Sends /\ s.arrived = sends[id].arrived /\ s.lost
      /\ s.from = sends[id].from /\ s.to = sends[id].to /\ s.msg = sends[id].msg
  BY <1>1, <1>3 DEF Sends
<1>5. Pending(id) /\ InFlight(id)
  BY <1>1, <1>3, Flying DEF HasBus, HandInv
<1>6. ASSUME NEW j \in DOMAIN sends, j # id PROVE InFlight(j)' <=> InFlight(j)
  <2>1. /\ engine'[a].id = 0 /\ \A b \in Agents : b # a => engine'[b] = engine[b]
    BY <1>1, <1>2, <1>3, Returned
  <2>2. j # 0
    BY <1>2, LinkFacts
  <2>3. QED
    BY <1>1, <1>2, <1>6, <2>1, <2>2, Flying, FlyingNext
<1>7. QED
  BY <1>2, <1>3, <1>4, <1>5, <1>6, LoseIsBus

LEMMA SendPacketIsBus ==
  ASSUME HasBus, NEW a \in Agents, SendPacket(a)
  PROVE  BusMoves
<1>1. PICK id : id = engine[a].id
  OBVIOUS
<1>2. /\ EngineAt(a, "send") /\ SendReturns(a)
      /\ conns' = [i \in DOMAIN conns |->
                     IF conns[i].id = id THEN [conns[i] EXCEPT !.data = "packet"] ELSE conns[i]]
      /\ UNCHANGED <<status, inbox, kb>> /\ Parts
  BY <1>1 DEF SendPacket, HasBus, agentVars
<1>3. id \in DOMAIN sends /\ id # 0 /\ sends[id] \in Sends
  BY <1>1, <1>2, WithMessage, LinkFacts
<1>4. /\ engine'[a].id = 0 /\ \A b \in Agents : b # a => engine'[b] = engine[b]
  BY <1>1, <1>2, <1>3, Returned
<1>5. DOMAIN conns' = DOMAIN conns /\ \A i \in DOMAIN conns : conns'[i].id = conns[i].id
  <2>1. \A i \in DOMAIN conns : conns[i] \in Connections
    BY <1>2, LinkFacts
  <2>2. QED
    BY <1>2, <2>1 DEF Connections
<1>6. \A j \in DOMAIN sends : j # id => (InFlight(j)' <=> InFlight(j))
  <2>1. \A j \in DOMAIN sends : j # 0
    BY <1>2, LinkFacts
  <2>2. QED
    BY <1>1, <1>4, <1>5, <2>1, Flying, FlyingNext
<1>7. CASE \E c \in ToSet(conns) : c.id = engine[a].id
  <2>1. UNCHANGED sends
    BY <1>7 DEF SendPacket
  <2>2. \E i \in DOMAIN conns : conns[i].id = id
    BY <1>1, <1>7 DEF ToSet
  <2>3. InFlight(id) /\ InFlight(id)'
    BY <1>5, <2>2, Flying, FlyingNext
  <2>4. QED
    BY <1>2, <1>6, <2>1, <2>3, FlightsSame, InboxSame, BusStays
<1>8. CASE ~ \E c \in ToSet(conns) : c.id = engine[a].id
  <2>1. PICK s : s = [sends[id] EXCEPT !.lost = TRUE]
    OBVIOUS
  <2>2. sends' = [sends EXCEPT ![id] = s]
    BY <1>1, <1>3, <1>8, <2>1 DEF SendPacket
  <2>3. /\ s \in Sends /\ s.arrived = sends[id].arrived /\ s.lost
        /\ s.from = sends[id].from /\ s.to = sends[id].to /\ s.msg = sends[id].msg
    BY <1>3, <2>1 DEF Sends
  <2>4. Pending(id) /\ InFlight(id)
    BY <1>1, <1>3, Flying DEF HasBus, HandInv
  <2>5. QED
    BY <1>2, <1>3, <1>6, <2>2, <2>3, <2>4, LoseIsBus
<1>9. QED
  BY <1>7, <1>8

\* The packet that a server reads is the first on its way from its sender to the process.
LEMMA NoneBefore ==
  ASSUME HasBus, NEW k \in DOMAIN conns, conns[k].accepted
  PROVE  Bus!InOrder(conns[k].id)
<1>1. PICK id : id = conns[k].id
  OBVIOUS
<1>2. Parts /\ Pairs /\ \A b \in Agents : HandOf(b)
  BY BusParts DEF HasBus
<1>3. /\ id \in DOMAIN sends /\ DOMAIN sends = 1 .. Len(sends) /\ Len(sends) \in Nat
      /\ conns[k] \in Connections /\ DOMAIN conns = 1 .. Len(conns)
  BY <1>1, <1>2, LinkFacts
<1>4. ASSUME NEW j \in 1 .. id - 1, BusSent[j].from = BusSent[id].from,
             BusSent[j].to = BusSent[id].to, BusFate[j] = "transit"
      PROVE  FALSE
  <2>1. j \in DOMAIN sends /\ j < id
    BY <1>3
  <2>2. sends[j].from = sends[id].from /\ Fate(j) = "transit"
    BY <1>3, <1>4, <2>1 DEF BusSent, BusFate
  <2>3. InFlight(j)
    BY <2>2, Fates
  <2>4. ASSUME NEW b \in Agents, engine[b].id = j PROVE FALSE
    <3>1. sends[j].from = b /\ j # 0
      BY <1>2, <1>3, <2>1, <2>4 DEF Parts, EngineOK
    <3>2. id <= j
      BY <1>2, <1>3, <2>2, <2>4, <3>1 DEF HandOf
    <3>3. QED
      BY <1>3, <2>1, <3>2
  <2>5. ASSUME NEW i \in DOMAIN conns, conns[i].id = j PROVE FALSE
    <3>1. /\ sends[j].to.process = conns[i].to /\ sends[id].to.process = conns[k].to
          /\ conns[i].to \in Processes /\ conns[k].to \in Processes
      <4>1. ToProcess(conns[i].id, conns[i].to) /\ ToProcess(conns[k].id, conns[k].to)
        BY <1>2 DEF Parts, ConnsOK
      <4>2. conns[i] \in Connections /\ conns[i].id # 0 /\ conns[k].id # 0
        BY <1>2, LinkFacts
      <4>3. QED
        BY <1>1, <1>3, <2>5, <4>1, <4>2 DEF ToProcess, Connections
    <3>2. /\ BusSent[j].to = Resolve(sends[j].to, Home[sends[j].from])
          /\ BusSent[id].to = Resolve(sends[id].to, Home[sends[id].from])
      BY <1>3, <2>1 DEF BusSent
    <3>3. sends[j].to = sends[id].to
      BY <1>4, <3>1, <3>2, HomeAssumption DEF Resolve
    <3>4. conns[i].to = conns[k].to
      BY <3>1, <3>3
    <3>5. i # k
      BY <1>1, <1>3, <2>1, <2>5
    <3>6. CASE i < k
      BY <1>2, <3>4, <3>6 DEF Pairs
    <3>7. CASE k < i
      <4>1. id < j
        BY <1>1, <1>2, <2>2, <2>5, <3>4, <3>7 DEF Pairs
      <4>2. QED
        BY <1>3, <2>1, <4>1
    <3>8. QED
      BY <1>3, <3>5, <3>6, <3>7
  <2>6. QED
    BY <2>3, <2>4, <2>5, Flying
<1>5. Bus!InOrder(id)
  BY <1>4 DEF Bus!InOrder
<1>6. QED
  BY <1>1, <1>5

LEMMA ReadNothingIsBus ==
  ASSUME HasBus, Parts', NEW p \in Processes, ReadNothing(p)
  PROVE  BusMoves
<1>1. Parts /\ UNCHANGED <<inbox, kb, engine, sends>>
  BY DEF ReadNothing, HasBus, agentVars
<1>2. CASE UNCHANGED <<status, conns>>
  <2>1. \A id \in DOMAIN sends : InFlight(id)' <=> InFlight(id)
    BY <1>1, <1>2, Flying, FlyingNext
  <2>2. QED
    BY <1>1, <1>2, <2>1, FlightsSame, InboxSame, BusStays
<1>3. CASE Stop(p, "terminated")
  BY <1>1, <1>3, EndIsBus
<1>4. QED
  BY <1>2, <1>3 DEF ReadNothing

LEMMA MainReturnsIsBus ==
  ASSUME HasBus, Parts', NEW p \in Processes, MainReturns(p)
  PROVE  BusMoves
<1>1. Stop(p, "returned") /\ UNCHANGED <<inbox, kb, engine, sends>>
  BY DEF MainReturns, agentVars
<1>2. QED
  BY <1>1, EndIsBus

\* A server puts a packet: whether it has just read it, or has it in its buffer still.
LEMMA PutPacketIsBus ==
  ASSUME HasBus, NEW p \in Processes, Put(p), NEW id, id = server[p].last,
         Deliverable(p, sends[id].msg, sends[id].to.agent)
  PROVE  BusMoves
<1>1. Delivers(p, id)
  BY PutMade
<1>2. /\ Parts /\ Unsettled /\ NotYet /\ Pairs
      /\ UNCHANGED <<status, engine>>
      /\ PutMessage(id, sends[id].msg, sends[id].to.agent, SourceUrl(id))
      /\ conns' = ElementsAt(conns, {i \in DOMAIN conns : conns[i].id # server[p].conn})
  BY BusParts DEF HasBus, Put
<1>3. PICK k \in DOMAIN conns :
        /\ conns[k].id = server[p].conn /\ conns[k].accepted
        /\ \/ id = server[p].conn /\ conns[k].data = "packet"
           \/ sends[id].arrived > 0 /\ ~ AllUp
  BY <1>1 DEF Delivers
<1>4. PICK c : c = conns[k].id
  OBVIOUS
<1>5. c \in DOMAIN sends /\ c # 0 /\ Pending(c) /\ InFlight(c) /\ Fate(c) = "transit"
  <2>1. c \in DOMAIN sends /\ c # 0
    BY <1>2, <1>4, LinkFacts
  <2>2. Pending(c)
    BY <1>2, <1>4 DEF Unsettled
  <2>3. InFlight(c)
    BY <1>3, <1>4, Flying
  <2>4. ~ (sends[c].arrived > 0)
    BY <2>2 DEF Pending
  <2>5. QED
    BY <2>1, <2>2, <2>3, <2>4, Fates DEF Pending
<1>6. \A j \in DOMAIN sends : j # c => (InFlight(j)' <=> InFlight(j))
  <2>1. PICK f : /\ Kept(f)
                 /\ \A n \in DOMAIN conns' : f[n] \in DOMAIN conns /\ conns'[n] = conns[f[n]]
                 /\ \A i \in DOMAIN conns : conns[i].id # server[p].conn =>
                      \E n \in DOMAIN conns' : f[n] = i
    BY <1>2, Closed
  <2>2. ASSUME NEW j, j # c
        PROVE  (\E n \in DOMAIN conns' : conns'[n].id = j)
               <=> (\E i \in DOMAIN conns : conns[i].id = j)
    BY <1>3, <1>4, <2>1, <2>2
  <2>3. QED
    BY <1>2, <2>2, Flying, FlyingNext
<1>7. InFlight(c)' => InFlight(c)
  BY <1>5
<1>8. UNCHANGED BusSent /\ (~ AllUp)' = ~ AllUp
  BY <1>1, <1>2, SentSame DEF Delivers, AllUp, Up
<1>9. PICK m : m = BusMessage(sends[id])
  OBVIOUS
<1>10. PICK to : to = sends[id].to.agent
  OBVIOUS
<1>11. to \in Agents /\ Home[to] = p /\ id \in DOMAIN sends /\ id # 0 /\ sends[id] \in Sends
  BY <1>1, <1>10 DEF Delivers
<1>12. /\ m.msg = sends[id].msg /\ m.from = sends[id].from
       /\ m.to = [process |-> Home[to], agent |-> to]
  BY <1>1, <1>9, <1>10, <1>11, HomeAssumption DEF Delivers, BusMessage, Resolve
<1>13. Bus!Raise(to, m, id)
  <2>1. PICK s : s = SourceUrl(id)
    OBVIOUS
  <2>2. Resolve(s, Home[to]) = [process |-> Home[m.from], agent |-> m.from]
    <3>1. sends[id].from \in Agents
      BY <1>11 DEF Sends
    <3>2. Home[sends[id].from] # Here
      BY <3>1, HomeAssumption
    <3>3. s = [process |-> Home[m.from], agent |-> m.from]
      BY <1>12, <2>1 DEF SourceUrl
    <3>4. QED
      BY <1>12, <3>2, <3>3 DEF Resolve
  <2>3. PutMessage(id, m.msg, to, s)
    BY <1>2, <1>10, <1>12, <2>1
  <2>4. QED
    BY <1>2, <1>11, <1>12, <2>2, <2>3, RaiseIsBus
<1>14. /\ DOMAIN BusSent = DOMAIN sends /\ DOMAIN BusFate = DOMAIN sends
       /\ BusSent[id] = m /\ BusFate[id] = Fate(id)
       /\ BusFate = [j \in DOMAIN sends |-> Fate(j)]
       /\ BusFate' = [j \in DOMAIN sends |-> Fate(j)']
  BY <1>1, <1>2, <1>9, <1>11, Lengths DEF Delivers, BusFate
<1>15. \A j \in DOMAIN sends : j # id => sends'[j] = sends[j]
  BY <1>1 DEF Delivers
<1>16. CASE id = c
  <2>1. Fate(id)' = "delivered"
    <3>1. sends[id].arrived \in Nat
      BY <1>11 DEF Sends
    <3>2. sends'[id].arrived > 0
      BY <1>1, <3>1 DEF Delivers
    <3>3. QED
      BY <3>2, Fates
  <2>2. \A j \in DOMAIN sends : j # id => Fate(j)' = Fate(j)
    BY <1>6, <1>15, <1>16, Fates
  <2>3. BusFate' = [BusFate EXCEPT ![id] = "delivered"]
    BY <1>14, <2>1, <2>2
  <2>4. Bus!InOrder(id)
    BY <1>3, <1>4, <1>16, NoneBefore
  <2>5. BusFate[id] = "transit"
    BY <1>5, <1>14, <1>16
  <2>6. Bus!Deliver(id)
    BY <1>8, <1>11, <1>13, <1>14, <2>3, <2>4, <2>5 DEF Bus!Deliver
  <2>7. QED
    BY <1>11, <1>14, <2>6 DEF BusMoves, Bus!Next
<1>17. CASE id # c
  <2>1. sends[id].arrived > 0 /\ ~ AllUp
    BY <1>3, <1>4, <1>17
  <2>2. Fate(id) = "delivered" /\ Fate(id)' = "delivered"
    <3>1. sends[id].arrived \in Nat
      BY <1>11 DEF Sends
    <3>2. sends'[id].arrived > 0
      BY <1>1, <2>1, <3>1 DEF Delivers
    <3>3. QED
      BY <2>1, <3>2, Fates
  <2>3. \A j \in DOMAIN sends : j # c => Fate(j)' = Fate(j)
    <3>1. ASSUME NEW j \in DOMAIN sends, j # c, j # id PROVE Fate(j)' = Fate(j)
      BY <1>6, <1>15, <3>1, Fates
    <3>2. QED
      BY <2>2, <3>1
  <2>4. sends'[c] = sends[c] /\ ~ (sends[c].arrived > 0) /\ ~ sends[c].lost
    BY <1>5, <1>15, <1>17 DEF Pending
  <2>5. Fate(c)' = "transit" \/ Fate(c)' = "lost"
    BY <2>4, Fates
  <2>6. CASE Fate(c)' = "transit"
    <3>1. UNCHANGED BusFate
      BY <1>5, <1>14, <2>3, <2>6
    <3>2. Bus!Repeat(id)
      BY <1>8, <1>11, <1>13, <1>14, <2>1, <2>2, <3>1 DEF Bus!Repeat
    <3>3. QED
      BY <1>11, <1>14, <3>2 DEF BusMoves, Bus!Next
  <2>7. CASE Fate(c)' = "lost"
    <3>1. BusFate' = [BusFate EXCEPT ![c] = "lost"] /\ BusFate[c] = "transit"
      BY <1>5, <1>14, <2>3, <2>7
    <3>2. Bus!Repeat(id)
      BY <1>5, <1>8, <1>11, <1>13, <1>14, <2>1, <2>2, <3>1 DEF Bus!Repeat
    <3>3. QED
      BY <1>11, <1>14, <3>2 DEF BusMoves, Bus!Next
  <2>8. QED
    BY <2>5, <2>6, <2>7
<1>18. QED
  BY <1>16, <1>17

LEMMA PutIsBus ==
  ASSUME HasBus, Parts', NEW p \in Processes, Put(p)
  PROVE  BusMoves
<1>1. PICK id : id = server[p].last
  OBVIOUS
<1>2. CASE Deliverable(p, sends[id].msg, sends[id].to.agent)
  BY <1>1, <1>2, PutPacketIsBus
<1>3. CASE ~ Deliverable(p, sends[id].msg, sends[id].to.agent)
  <2>1. Stop(p, "terminated") /\ UNCHANGED <<inbox, kb, engine, sends>>
    BY <1>1, <1>3 DEF Put, agentVars
  <2>2. QED
    BY <2>1, EndIsBus
<1>4. QED
  BY <1>2, <1>3

LEMMA BusInitMaps == Init => Bus!Init
<1> SUFFICES ASSUME Init PROVE Bus!Init
  OBVIOUS
<1>1. BusSent = <<>> /\ BusFate = <<>>
  BY DEF Init, BusSent, BusFate
<1>2. BusInbox = [a \in Agents |-> <<>>]
  BY DEF Init, BusInbox
<1>3. kb = [a \in Agents |-> {}] /\ (~ AllUp) = FALSE
  BY DEF Init, AllUp, Up
<1>4. QED
  BY <1>1, <1>2, <1>3 DEF Bus!Init

\* Every step is a step of the bus, or none.
LEMMA BusStepMaps ==
  Unmixed /\ BusInv /\ BusInv' /\ [Next]_vars => [Bus!Next]_(Bus!vars)
<1> SUFFICES ASSUME Unmixed, BusInv, BusInv', [Next]_vars PROVE BusMoves
  BY DEF BusMoves
<1>1. HasBus /\ Parts'
  <2>1. LinkInv /\ LinkInv'
    BY DEF BusInv, MessageInv
  <2>2. Parts /\ Parts'
    BY <2>1, LinkParts, PTL
  <2>3. QED
    BY <2>2 DEF HasBus, BusInv
<1>2. ASSUME NEW p \in Processes, MainThread(p) \/ Server(p) \/ MainReturns(p) PROVE BusMoves
  BY <1>1, <1>2, MainIsBus, ServerIsBus, ReadNothingIsBus, PutIsBus, MainReturnsIsBus DEF Server
<1>3. ASSUME NEW a \in Agents, Engine(a) \/ ConnectTimesOut(a) PROVE BusMoves
  BY <1>1, <1>3, BodyIsBus, SendLocalIsBus, SendRemoteIsBus, ConnectIsBus, ConnectFailsIsBus,
     SendPacketIsBus DEF Engine, ConnectRefused, ConnectTimesOut
<1>4. ASSUME UNCHANGED vars PROVE BusMoves
  <2>1. UNCHANGED <<inbox, kb, status, engine, conns, sends>>
    BY <1>4 DEF vars
  <2>2. \A id \in DOMAIN sends : InFlight(id)' <=> InFlight(id)
    BY <2>1 DEF InFlight
  <2>3. QED
    BY <2>1, <2>2, FlightsSame, InboxSame, BusStays
<1>5. QED
  BY <1>2, <1>3, <1>4 DEF Next

\* In programs that name no agent of their own process by a URL, registries, connections,
\* buffers and URLs do what MessageBus promises: each message is delivered to its
\* addressee once, in the order in which its sender sent them, unless it is lost; a
\* second time only after a process has ended (messaging.cpp:13-36,
\* tcp_protocol.cpp:107-165, democle.cpp:45-58).
THEOREM BusIsImplemented ==
  ASSUME Unmixed
  PROVE  Spec => ImplementsBus
<1>1. Init => Bus!Init
  BY BusInitMaps
<1>2. BusInv /\ BusInv' /\ [Next]_vars => [Bus!Next]_(Bus!vars)
  BY BusStepMaps
<1>3. Spec => []BusInv
  BY BusInvariant
<1>4. QED
  BY <1>1, <1>2, <1>3, PTL DEF Spec, ImplementsBus, Bus!Spec
===============================================================================
