---------------------------- MODULE AgentStart_proofs -----------------------------
(***************************************************************************)
(* Theorems about the start of agents, for any agents, any programs of     *)
(* main and of run(), and any number of events.                            *)
(***************************************************************************)
EXTENDS AgentStart, Subsequences_proofs

EngineRecord == [pc : {"off", "sensors", "loop", "test"}, at : Nat, evt : Events \cup {NoEvent}]

\* The types of the variables, as the proofs need them.
Typed ==
  /\ client \in Clients
  /\ main \in [step : 1 .. Len(client.main) + 1, line : Nat]
  /\ ended \in BOOLEAN
  /\ current \in Agents \cup {Nobody}
  /\ registry \subseteq Agents
  /\ plans \in [Agents -> Seq(Agents \X Nat)]
  /\ sensors \in [Agents -> Seq(Sensors)]
  /\ owner \in [Sensors -> Agents \cup {Nobody}]
  /\ sensing \in [Sensors -> Nat]
  /\ queue \in [Agents -> Seq(Events)]
  /\ engine \in [Agents -> EngineRecord]

\* What the assumption on clients says of the client that runs.
LEMMA ClientOK ==
  ASSUME client \in Clients
  PROVE  /\ Len(client.main) \in Nat /\ DOMAIN client.main = 1 .. Len(client.main)
         /\ \A i \in DOMAIN client.main :
              /\ client.main[i].op \in {"construct", "start", "post"}
              /\ client.main[i].agent \in Agents
         /\ \A a \in Agents :
              /\ Len(Lines(a)) \in Nat /\ DOMAIN Lines(a) = 1 .. Len(Lines(a))
              /\ \A i \in DOMAIN Lines(a) :
                   \/ Lines(a)[i].op = "plan"
                   \/ Lines(a)[i].op = "attach" /\ Lines(a)[i].sensor \in Sensors
<1>1. client.main \in Seq(ToSet(client.main))
  BY ClientAssumption
<1>2. ASSUME NEW a \in Agents PROVE Lines(a) \in Seq(ToSet(Lines(a)))
  BY ClientAssumption DEF Lines
<1>3. QED
  BY <1>1, <1>2, LenProperties, ClientAssumption DEF Lines

LEMMA MadeOK ==
  ASSUME client \in Clients, NEW a \in Agents
  PROVE  /\ Made(a) \in Seq(Agents \X Nat) /\ DOMAIN Made(a) = DOMAIN Lines(a)
         /\ DOMAIN Lines(a) \in SUBSET Nat
         /\ \A i \in DOMAIN Lines(a) : Made(a)[i] = <<a, i>>
<1>1. Len(Lines(a)) \in Nat /\ DOMAIN Lines(a) = 1 .. Len(Lines(a))
  BY ClientOK
<1> DEFINE n == Len(Lines(a))
<1>2. Made(a) = [i \in 1 .. n |-> <<a, i>>] /\ \A i \in 1 .. n : <<a, i>> \in Agents \X Nat
  BY <1>1 DEF Made
<1> HIDE DEF n
<1>3. [i \in 1 .. n |-> <<a, i>>] \in Seq(Agents \X Nat)
  BY <1>1, <1>2 DEF n
<1>4. QED
  BY <1>1, <1>2, <1>3 DEF n

-------------------------------------------------------------------------------
\* The variables keep their types.
LEMMA TypedInit == Init => Typed
<1> SUFFICES ASSUME Init PROVE Typed
  OBVIOUS
<1>1. client \in Clients /\ Len(client.main) \in Nat
  BY ClientOK DEF Init
<1>2. /\ [a \in Agents |-> <<>>] \in [Agents -> Seq(Agents \X Nat)]
      /\ [a \in Agents |-> <<>>] \in [Agents -> Seq(Sensors)]
      /\ [a \in Agents |-> <<>>] \in [Agents -> Seq(Events)]
  BY EmptySeq
<1>3. main \in [step : 1 .. Len(client.main) + 1, line : Nat]
  BY <1>1 DEF Init
<1>4. Off \in EngineRecord
  BY DEF Off, EngineRecord
<1>5. engine \in [Agents -> EngineRecord]
  BY <1>4 DEF Init
<1>6. QED
  BY <1>1, <1>2, <1>3, <1>5 DEF Init, Typed

\* A command of main is about an agent; what is posted is an event.
LEMMA CommandOK ==
  ASSUME Typed, main.step \in DOMAIN client.main
  PROVE  /\ main.step \in Nat /\ main.step + 1 \in 1 .. Len(client.main) + 1
         /\ Subject \in Agents
         /\ client.main[main.step].op = "post" => client.main[main.step].evt \in Events
<1>1. main.step \in Nat /\ main.step + 1 \in 1 .. Len(client.main) + 1 /\ Subject \in Agents
  BY ClientOK DEF Typed, Subject
<1>2. ASSUME client.main[main.step].op = "post" PROVE client.main[main.step].evt \in Events
  BY <1>2 DEF Typed, Events
<1>3. QED
  BY <1>1, <1>2

\* A thread that is created, and what the engine thread does, keep the engines typed.
LEMMA EngineTyped ==
  ASSUME Typed, NEW a \in Agents, NEW r \in EngineRecord, engine' = [engine EXCEPT ![a] = r]
  PROVE  engine' \in [Agents -> EngineRecord]
BY DEF Typed

LEMMA EngineNew ==
  ASSUME NEW pc \in {"off", "sensors", "loop", "test"}, NEW at \in Nat,
         NEW evt \in Events \cup {NoEvent}
  PROVE  [pc |-> pc, at |-> at, evt |-> evt] \in EngineRecord
BY DEF EngineRecord

LEMMA EngineNext ==
  ASSUME NEW r \in EngineRecord
  PROVE  [r EXCEPT !.at = @ + 1] \in EngineRecord
BY DEF EngineRecord

\* The end of the sensors and the end of an event, as a record.
LEMMA LoopIs == [Off EXCEPT !.pc = "loop"] = [pc |-> "loop", at |-> 0, evt |-> NoEvent]
BY DEF Off

\* Each main step from one command or line to the next.
LEMMA NextStepIs ==
  ASSUME Typed, NextStep
  PROVE  main'.step = main.step + 1 /\ main'.line = 0
BY DEF NextStep

LEMMA NextLineIs ==
  ASSUME Typed, NextLine
  PROVE  main'.step = main.step /\ main'.line = main.line + 1
BY DEF NextLine, Typed

\* One step of main from a command to the next keeps main typed.
LEMMA NextStepTyped ==
  ASSUME Typed, main.step \in DOMAIN client.main, UNCHANGED client, NextStep
  PROVE  main' \in [step : 1 .. Len(client'.main) + 1, line : Nat]
BY CommandOK DEF NextStep

LEMMA NextLineTyped ==
  ASSUME Typed, UNCHANGED client, NextLine
  PROVE  main' \in [step : 1 .. Len(client'.main) + 1, line : Nat]
<1>1. main.step \in 1 .. Len(client.main) + 1 /\ main.line + 1 \in Nat
  BY DEF Typed
<1>2. main' = [step |-> main.step, line |-> main.line + 1]
  BY DEF NextLine, Typed
<1>3. QED
  BY <1>1, <1>2

LEMMA TypedStep == Typed /\ CurrentInv /\ [Next]_vars => Typed'
<1> SUFFICES ASSUME Typed, CurrentInv, [Next]_vars PROVE Typed'
  OBVIOUS
<1>1. CASE Construct
  <2>1. main.step \in DOMAIN client.main /\ UNCHANGED client /\ NextStep
    BY <1>1 DEF Construct, Doing
  <2>2. main' \in [step : 1 .. Len(client'.main) + 1, line : Nat] /\ Subject \in Agents
    BY <2>1, NextStepTyped, CommandOK
  <2>3. QED
    BY <1>1, <2>2 DEF Construct, Typed
<1>2. CASE Post
  <2>1. /\ main.step \in DOMAIN client.main /\ UNCHANGED client /\ NextStep
        /\ client.main[main.step].op = "post"
    BY <1>2 DEF Post, Doing
  <2>2. /\ main' \in [step : 1 .. Len(client'.main) + 1, line : Nat] /\ Subject \in Agents
        /\ client.main[main.step].evt \in Events
    BY <2>1, NextStepTyped, CommandOK
  <2>3. Append(queue[Subject], client.main[main.step].evt) \in Seq(Events)
    <3>1. queue[Subject] \in Seq(Events)
      BY <2>2 DEF Typed
    <3>2. QED
      BY <2>2, <3>1
  <2>4. queue' \in [Agents -> Seq(Events)]
    BY <1>2, <2>3 DEF Post, Typed
  <2>5. QED
    BY <1>2, <2>2, <2>4 DEF Post, Typed
<1>3. CASE Start
  <2>1. main.step \in DOMAIN client.main /\ UNCHANGED client /\ Subject \in Agents
    BY <1>3, CommandOK DEF Start, Doing
  <2>2. CASE Embedded
    <3>1. NextStep /\ CreateThread(Subject)
      BY <1>3, <2>2 DEF Start
    <3>2. main' \in [step : 1 .. Len(client'.main) + 1, line : Nat]
      BY <2>1, <3>1, NextStepTyped
    <3>3. engine' \in [Agents -> EngineRecord]
      BY <2>1, <3>1, EngineNew, EngineTyped DEF CreateThread
    <3>4. QED
      BY <1>3, <2>1, <3>2, <3>3 DEF Start, Typed
  <2>3. CASE ~ Embedded
    <3>1. main' = [main EXCEPT !.line = 1] /\ UNCHANGED engine
      BY <1>3, <2>3 DEF Start
    <3>2. main' \in [step : 1 .. Len(client'.main) + 1, line : Nat]
      BY <2>1, <3>1 DEF Typed
    <3>3. QED
      BY <1>3, <2>1, <3>1, <3>2 DEF Start, Typed
  <2>4. QED
    BY <2>2, <2>3
<1>4. CASE BuildPlan
  <2>1. /\ UNCHANGED client /\ NextLine /\ Subject \in Agents /\ current = Subject
        /\ main.line \in Nat
    BY <1>4, CommandOK DEF BuildPlan, InRun, CurrentInv, Typed
  <2>2. main' \in [step : 1 .. Len(client'.main) + 1, line : Nat]
    BY <2>1, NextLineTyped
  <2>3. Append(plans[current], <<Subject, main.line>>) \in Seq(Agents \X Nat)
    <3>1. plans[current] \in Seq(Agents \X Nat) /\ <<Subject, main.line>> \in Agents \X Nat
      BY <2>1 DEF Typed
    <3>2. QED
      BY <3>1
  <2>4. plans' \in [Agents -> Seq(Agents \X Nat)]
    BY <1>4, <2>3 DEF BuildPlan, Typed
  <2>5. QED
    BY <1>4, <2>2, <2>4 DEF BuildPlan, Typed
<1>5. CASE Attach
  <2> DEFINE s == Lines(Subject)[main.line].sensor
  <2>1. UNCHANGED client /\ NextLine /\ Subject \in Agents
    BY <1>5, CommandOK DEF Attach, InRun, CurrentInv
  <2>2. main' \in [step : 1 .. Len(client'.main) + 1, line : Nat]
    BY <2>1, NextLineTyped
  <2>3. s \in Sensors
    <3>1. main.line \in DOMAIN Lines(Subject) /\ Lines(Subject)[main.line].op = "attach"
      BY <1>5 DEF Attach, InRun
    <3>2. QED
      BY <2>1, <3>1, ClientOK DEF Typed
  <2> HIDE DEF s
  <2>4. Append(sensors[Subject], s) \in Seq(Sensors)
    <3>1. sensors[Subject] \in Seq(Sensors)
      BY <2>1 DEF Typed
    <3>2. QED
      BY <2>3, <3>1
  <2>5. /\ owner' = [owner EXCEPT ![s] = Subject]
        /\ sensors' = [sensors EXCEPT ![Subject] = Append(@, s)]
    BY <1>5 DEF Attach, s
  <2>6. sensors' \in [Agents -> Seq(Sensors)] /\ owner' \in [Sensors -> Agents \cup {Nobody}]
    BY <2>1, <2>4, <2>5 DEF Typed
  <2>7. QED
    BY <1>5, <2>2, <2>6 DEF Attach, Typed
<1>6. CASE Started
  <2>1. /\ main.step \in DOMAIN client.main /\ UNCHANGED client /\ Subject \in Agents
        /\ NextStep /\ CreateThread(Subject)
    BY <1>6, CommandOK DEF Started, CurrentInv, Typed
  <2>2. main' \in [step : 1 .. Len(client'.main) + 1, line : Nat]
    BY <2>1, NextStepTyped
  <2>3. engine' \in [Agents -> EngineRecord]
    BY <2>1, EngineNew, EngineTyped DEF CreateThread
  <2>4. QED
    BY <1>6, <2>2, <2>3 DEF Started, Typed
<1>7. CASE BadPlan \/ MainReturns
  BY <1>7 DEF BadPlan, MainReturns, Typed, mainVars
<1>8. ASSUME NEW a \in Agents, EngineThread(a) PROVE Typed'
  <2>0. UNCHANGED <<client, mainVars, ended>> /\ engine[a] \in EngineRecord
    BY <1>8 DEF EngineThread, StartSensor, AllSensors, TakeEvent, TestPlan, EventDone, Typed
  <2>1. CASE StartSensor(a)
    <3>1. engine' = [engine EXCEPT ![a] = [engine[a] EXCEPT !.at = @ + 1]]
      BY <2>1 DEF StartSensor
    <3>2. engine' \in [Agents -> EngineRecord]
      BY <2>0, <3>1, EngineNext, EngineTyped
    <3>3. sensing' \in [Sensors -> Nat]
      <4>1. PICK s : s = sensors[a][engine[a].at]
        OBVIOUS
      <4>2. sensing' = [sensing EXCEPT ![s] = @ + 1]
        BY <2>1, <4>1 DEF StartSensor
      <4>3. \A t \in Sensors : sensing'[t] \in Nat
        BY <4>2 DEF Typed
      <4>4. QED
        BY <4>2, <4>3 DEF Typed
    <3>4. QED
      BY <2>0, <2>1, <3>2, <3>3 DEF StartSensor, Typed, mainVars
  <2>2. CASE AllSensors(a)
    <3>1. engine' \in [Agents -> EngineRecord]
      BY <2>2, LoopIs, EngineNew, EngineTyped DEF AllSensors
    <3>2. QED
      BY <2>0, <2>2, <3>1 DEF AllSensors, Typed, mainVars
  <2>3. CASE TakeEvent(a)
    <3>1. queue[a] \in Seq(Events) /\ queue[a] # <<>>
      BY <2>3 DEF TakeEvent, Typed
    <3>2. Head(queue[a]) \in Events /\ Tail(queue[a]) \in Seq(Events)
      BY <3>1
    <3>3. engine' \in [Agents -> EngineRecord]
      BY <2>3, <3>2, EngineNew, EngineTyped DEF TakeEvent
    <3>4. queue' \in [Agents -> Seq(Events)]
      BY <2>3, <3>2 DEF TakeEvent, Typed
    <3>5. QED
      BY <2>0, <2>3, <3>3, <3>4 DEF TakeEvent, Typed, mainVars
  <2>4. CASE TestPlan(a)
    <3>1. engine' = [engine EXCEPT ![a] = [engine[a] EXCEPT !.at = @ + 1]]
      BY <2>4 DEF TestPlan
    <3>2. engine' \in [Agents -> EngineRecord]
      BY <2>0, <3>1, EngineNext, EngineTyped
    <3>3. QED
      BY <2>0, <2>4, <3>2 DEF TestPlan, Typed, mainVars
  <2>5. CASE EventDone(a)
    <3>1. engine' \in [Agents -> EngineRecord]
      BY <2>5, LoopIs, EngineNew, EngineTyped DEF EventDone
    <3>2. QED
      BY <2>0, <2>5, <3>1 DEF EventDone, Typed, mainVars
  <2>6. QED
    BY <1>8, <2>1, <2>2, <2>3, <2>4, <2>5 DEF EngineThread
<1>9. ASSUME NEW s \in Sensors, Tick(s) PROVE Typed'
  <2>1. owner[s] \in Agents /\ s \in Events
    BY <1>9 DEF Tick, Typed, Events
  <2>2. Append(queue[owner[s]], s) \in Seq(Events)
    <3>1. queue[owner[s]] \in Seq(Events)
      BY <2>1 DEF Typed
    <3>2. QED
      BY <2>1, <3>1
  <2>3. queue' \in [Agents -> Seq(Events)]
    BY <1>9, <2>2 DEF Tick, Typed
  <2>4. QED
    BY <1>9, <2>3 DEF Tick, Typed, mainVars
<1>10. CASE UNCHANGED vars
  BY <1>10 DEF vars, mainVars, Typed
<1>11. QED
  BY <1>1, <1>2, <1>3, <1>4, <1>5, <1>6, <1>7, <1>8, <1>9, <1>10 DEF Next, Main

-------------------------------------------------------------------------------
\* In run() the current engine is that of the agent that is started.
LEMMA CurrentInit == Init => CurrentInv
BY DEF Init, CurrentInv

LEMMA CurrentStep == Typed /\ CurrentInv /\ [Next]_vars => CurrentInv'
<1> SUFFICES ASSUME Typed, CurrentInv, [Next]_vars PROVE CurrentInv'
  OBVIOUS
<1>1. CASE Construct \/ Post \/ Started
  <2>1. main'.line = 0
    BY <1>1, NextStepIs DEF Construct, Post, Started
  <2>2. QED
    BY <2>1 DEF CurrentInv
<1>2. CASE Start
  <2>1. /\ main.step \in DOMAIN client.main /\ client.main[main.step].op = "start"
        /\ UNCHANGED client /\ current' = Subject
    BY <1>2 DEF Start, Doing
  <2>2. CASE Embedded
    <3>1. main'.line = 0
      BY <1>2, <2>2, NextStepIs DEF Start
    <3>2. QED
      BY <3>1 DEF CurrentInv
  <2>3. CASE ~ Embedded
    <3>1. main' = [main EXCEPT !.line = 1]
      BY <1>2, <2>3 DEF Start
    <3>2. main'.step = main.step /\ main'.line = 1
      BY <3>1 DEF Typed
    <3>3. Subject' = Subject /\ Lines(Subject)' = Lines(Subject)
      BY <2>1, <3>2 DEF Subject, Lines
    <3>4. Len(Lines(Subject)) \in Nat
      BY <2>1, CommandOK, ClientOK DEF Typed
    <3>5. QED
      BY <2>1, <2>3, <3>2, <3>3, <3>4 DEF CurrentInv
  <2>4. QED
    BY <2>2, <2>3
<1>3. CASE BuildPlan \/ Attach
  <2>1. /\ UNCHANGED <<client, current>> /\ main.line > 0 /\ main.line \in DOMAIN Lines(Subject)
        /\ main'.step = main.step /\ main'.line = main.line + 1
    BY <1>3, NextLineIs DEF BuildPlan, Attach, InRun
  <2>2. Subject' = Subject /\ Lines(Subject)' = Lines(Subject) /\ Subject \in Agents
    BY <2>1, CommandOK DEF Subject, Lines, CurrentInv
  <2>3. Len(Lines(Subject)) \in Nat /\ main.line + 1 <= Len(Lines(Subject)) + 1
    BY <2>1, <2>2, ClientOK DEF Typed
  <2>4. QED
    BY <2>1, <2>2, <2>3 DEF CurrentInv
<1>4. CASE UNCHANGED <<client, main, current>>
  <2>1. Subject' = Subject /\ Lines(Subject)' = Lines(Subject)
    BY <1>4 DEF Subject, Lines
  <2>2. QED
    BY <1>4, <2>1 DEF CurrentInv
<1>5. CASE BadPlan \/ MainReturns
  BY <1>4, <1>5 DEF BadPlan, MainReturns, mainVars
<1>6. ASSUME NEW a \in Agents, EngineThread(a) PROVE CurrentInv'
  BY <1>4, <1>6 DEF EngineThread, StartSensor, AllSensors, TakeEvent, TestPlan, EventDone, mainVars
<1>7. ASSUME NEW s \in Sensors, Tick(s) PROVE CurrentInv'
  BY <1>4, <1>7 DEF Tick, mainVars
<1>8. QED
  BY <1>1, <1>2, <1>3, <1>4, <1>5, <1>6, <1>7 DEF Next, Main, vars, mainVars

-------------------------------------------------------------------------------
\* An agent was started when main is past its start.
LEMMA StartedNext ==
  ASSUME Typed, main.step \in DOMAIN client.main, UNCHANGED client,
         main'.step = main.step + 1, NEW a \in Agents
  PROVE  WasStarted(a)' <=>
           \/ WasStarted(a)
           \/ client.main[main.step].op = "start" /\ client.main[main.step].agent = a
<1>1. main.step \in Nat /\ \A i \in DOMAIN client.main : i \in Nat
  BY CommandOK, ClientOK, SMTT(30) DEF Typed
<1>2. \A i \in DOMAIN client.main : i < main.step + 1 <=> i < main.step \/ i = main.step
  BY <1>1
<1>3. QED
  BY <1>2 DEF WasStarted

\* The agent that main starts now has not been started before.
LEMMA StartIsFirst ==
  ASSUME Typed, StartsOnce, main.step \in DOMAIN client.main,
         client.main[main.step].op = "start"
  PROVE  ~ WasStarted(Subject)
<1>1. main.step \in Nat /\ \A i \in DOMAIN client.main : i < main.step => i # main.step
  BY CommandOK, ClientOK DEF Typed
<1>2. QED
  BY <1>1 DEF StartsOnce, WasStarted, Subject, Typed

\* What the steps of main that execute no line of run() leave as it is.
LEMMA PassedSame ==
  ASSUME Typed, CurrentInv, StartsOnce, Construct \/ Post \/ Start \/ Started \/ UNCHANGED <<client, main>>,
         NEW a \in Agents
  PROVE  /\ Passed(a)' = Passed(a)
         /\ WasStarted(a) => WasStarted(a)'
         /\ WasStarted(a)' /\ Running(a)' => Running(a)
<1>0. UNCHANGED client /\ Lines(a)' = Lines(a)
  BY DEF Construct, Post, Start, Started, Lines
<1>1. CASE Construct \/ Post
  <2>1. /\ main.step \in DOMAIN client.main /\ client.main[main.step].op # "start"
        /\ main.line = 0 /\ main'.line = 0 /\ main'.step = main.step + 1
    BY <1>1, NextStepIs DEF Construct, Post, Doing
  <2>2. WasStarted(a)' <=> WasStarted(a)
    BY <1>0, <2>1, StartedNext
  <2>3. ~ Running(a) /\ ~ Running(a)'
    BY <2>1 DEF Running
  <2>4. QED
    BY <1>0, <2>2, <2>3 DEF Passed
<1>2. CASE Start
  <2>1. /\ main.step \in DOMAIN client.main /\ client.main[main.step].op = "start"
        /\ main.line = 0
    BY <1>2 DEF Start, Doing
  <2>2. ~ Running(a)
    BY <2>1 DEF Running
  <2>3. CASE Embedded
    <3>1. main'.line = 0 /\ main'.step = main.step + 1
      BY <1>2, <2>3, NextStepIs DEF Start
    <3>2. ~ Running(a)' /\ (WasStarted(a) => WasStarted(a)')
      BY <1>0, <2>1, <3>1, StartedNext DEF Running
    <3>3. QED
      BY <2>2, <2>3, <3>2 DEF Passed
  <2>4. CASE ~ Embedded
    <3>1. main' = [main EXCEPT !.line = 1]
      BY <1>2, <2>4 DEF Start
    <3>2. main'.line = 1 /\ main'.step = main.step
      BY <3>1 DEF Typed
    <3>3. Subject' = Subject /\ WasStarted(a)' = WasStarted(a)
      BY <1>0, <3>2 DEF Subject, WasStarted
    <3>4. Running(a)' => ~ WasStarted(a)
      BY <2>1, <3>3, StartIsFirst DEF Running
    <3>5. {i \in DOMAIN Lines(a) : i < 1} = {}
      BY ClientOK DEF Typed
    <3>6. Running(a)' => Passed(a)' = {}
      BY <1>0, <3>2, <3>5 DEF Passed
    <3>7. QED
      BY <1>0, <2>2, <3>3, <3>4, <3>6 DEF Passed
  <2>5. QED
    BY <2>3, <2>4
<1>3. CASE Started
  <2>1. /\ main.step \in DOMAIN client.main /\ client.main[main.step].op = "start"
        /\ main.line > 0 /\ main.line > Len(Lines(Subject)) /\ ~ Embedded
        /\ main'.line = 0 /\ main'.step = main.step + 1
    BY <1>3, NextStepIs DEF Started, CurrentInv
  <2>2. ~ Running(a)' /\ (WasStarted(a)' <=> WasStarted(a) \/ Subject = a)
    BY <1>0, <2>1, StartedNext DEF Running, Subject
  <2>3. Running(a) <=> Subject = a
    BY <2>1 DEF Running
  <2>4. Subject = a => {i \in DOMAIN Lines(a) : i < main.line} = DOMAIN Lines(a)
    <3>1. Len(Lines(a)) \in Nat /\ DOMAIN Lines(a) = 1 .. Len(Lines(a)) /\ main.line \in Nat
      BY ClientOK DEF Typed
    <3>2. Subject = a => main.line > Len(Lines(a))
      BY <2>1
    <3>3. Subject = a => \A i \in DOMAIN Lines(a) : i < main.line
      BY <3>1, <3>2
    <3>4. QED
      BY <3>3
  <2>5. QED
    BY <1>0, <2>1, <2>2, <2>3, <2>4 DEF Passed
<1>4. CASE UNCHANGED <<client, main>>
  <2>1. /\ WasStarted(a)' = WasStarted(a) /\ Running(a)' = Running(a)
        /\ main' = main
    BY <1>4 DEF WasStarted, Running, Subject
  <2>2. QED
    BY <1>0, <2>1 DEF Passed
<1>5. QED
  BY <1>1, <1>2, <1>3, <1>4

\* A line of run() that is executed is passed; nothing else changes.
LEMMA PassedNext ==
  ASSUME Typed, CurrentInv, BuildPlan \/ Attach, NEW a \in Agents
  PROVE  /\ Passed(a)' = Passed(a) \cup (IF a = Subject THEN {main.line} ELSE {})
         /\ WasStarted(a)' = WasStarted(a) /\ Running(a)' = Running(a)
<1>1. /\ UNCHANGED client /\ main.line > 0 /\ main.line \in DOMAIN Lines(Subject)
      /\ main'.step = main.step /\ main'.line = main.line + 1
  BY NextLineIs DEF BuildPlan, Attach, InRun
<1>2. /\ WasStarted(a)' = WasStarted(a) /\ Lines(a)' = Lines(a) /\ Subject' = Subject
      /\ main.line \in Nat
  BY <1>1 DEF WasStarted, Lines, Subject, Typed
<1>3. (Running(a) <=> a = Subject) /\ (Running(a)' <=> a = Subject) /\ Running(a)' = Running(a)
  BY <1>1, <1>2 DEF Running
<1>4. CASE a = Subject
  <2>1. \A i \in DOMAIN Lines(a) : i < main.line + 1 <=> i < main.line \/ i = main.line
    BY <1>2, ClientOK DEF Typed
  <2>2. {i \in DOMAIN Lines(a) : i < main.line + 1}
          = {i \in DOMAIN Lines(a) : i < main.line} \cup {main.line}
    BY <1>1, <1>4, <2>1, Zenon
  <2>3. QED
    BY <1>1, <1>2, <1>3, <1>4, <2>2 DEF Passed
<1>5. CASE a # Subject
  <2>1. ~ Running(a) /\ ~ Running(a)'
    BY <1>3, <1>5
  <2>2. Passed(a)' = Passed(a)
    BY <1>2, <2>1 DEF Passed
  <2>3. Passed(a) \cup (IF a = Subject THEN {main.line} ELSE {}) = Passed(a)
    BY <1>5
  <2>4. QED
    BY <1>2, <1>3, <2>2, <2>3
<1>6. QED
  BY <1>2, <1>3, <1>4, <1>5

\* What is passed are lines, those of a run() that goes on before the present one.
LEMMA PassedLines ==
  ASSUME NEW a \in Agents
  PROVE  /\ Passed(a) \in SUBSET DOMAIN Lines(a)
         /\ Running(a) => \A i \in Passed(a) : i < main.line
BY DEF Passed

-------------------------------------------------------------------------------
\* Before main, no line has been passed and no engine runs.
LEMMA NothingPassed ==
  ASSUME Init, NEW a \in Agents
  PROVE  Passed(a) = {} /\ ~ Running(a) /\ ~ WasStarted(a)
<1>1. main.line = 0 /\ main.step = 1
  BY DEF Init
<1>2. \A i \in DOMAIN client.main : ~ i < 1
  BY ClientOK DEF Init
<1>3. QED
  BY <1>1, <1>2 DEF Running, WasStarted, Passed

LEMMA PlansInit == Init => PlansInv /\ ThreadInv
<1> SUFFICES ASSUME Init PROVE PlansInv /\ ThreadInv
  OBVIOUS
<1>1. ASSUME NEW a \in Agents PROVE plans[a] = ElementsAt(Made(a), PlanLines(a) \cap Passed(a))
  <2>1. PlanLines(a) \cap Passed(a) = {}
    BY NothingPassed
  <2>2. /\ ElementsAt(Made(a), {}) \in Seq(Agents \X Nat)
        /\ Len(ElementsAt(Made(a), {})) = Cardinality({})
    BY MadeOK, ElementsAtProperties DEF Init
  <2>3. ElementsAt(Made(a), {}) = <<>>
    BY <2>2, FS_EmptySet, EmptySeq
  <2>4. QED
    BY <2>1, <2>3 DEF Init
<1>2. ThreadInv
  BY DEF Init, ThreadInv, Off
<1>3. QED
  BY <1>1, <1>2 DEF PlansInv

\* A plan is added at the end of the plans of its agent, whose line is the last one passed.
LEMMA PlansStep ==
  Typed /\ CurrentInv /\ StartsOnce /\ PlansInv /\ [Next]_vars => PlansInv'
<1> SUFFICES ASSUME Typed, CurrentInv, StartsOnce, PlansInv, [Next]_vars, NEW a \in Agents
             PROVE  plans'[a] = ElementsAt(Made(a)', PlanLines(a)' \cap Passed(a)')
  BY DEF PlansInv
<1>0. UNCHANGED client
  BY DEF Next, Main, Construct, Post, Start, BuildPlan, BadPlan, Attach, Started, MainReturns, EngineThread,
    StartSensor, AllSensors, TakeEvent, TestPlan, EventDone, Tick, vars
<1>1. Made(a)' = Made(a) /\ PlanLines(a)' = PlanLines(a) /\ Lines(a)' = Lines(a)
  BY <1>0 DEF Made, PlanLines, Lines
<1>2. plans[a] = ElementsAt(Made(a), PlanLines(a) \cap Passed(a))
  BY DEF PlansInv
<1>3. CASE BuildPlan
  <2>1. /\ main.line > 0 /\ main.line \in DOMAIN Lines(Subject) /\ Lines(Subject)[main.line].op = "plan"
        /\ plans' = [plans EXCEPT ![current] = Append(@, <<Subject, main.line>>)]
    BY <1>3 DEF BuildPlan, InRun
  <2>2. current = Subject /\ Passed(a)' = Passed(a) \cup (IF a = Subject THEN {main.line} ELSE {})
    BY <1>3, <2>1, PassedNext DEF CurrentInv
  <2>3. CASE a = Subject
    <3> DEFINE I == PlanLines(a) \cap Passed(a)
    <3>1. PlanLines(a)' \cap Passed(a)' = I \cup {main.line}
      BY <1>1, <2>1, <2>2, <2>3 DEF PlanLines
    <3>2. /\ I \in SUBSET DOMAIN Lines(a) /\ main.line \in DOMAIN Lines(a)
          /\ \A i \in I : i < main.line
      BY <2>1, <2>3, PassedLines DEF Running
    <3>3. /\ Made(a) \in Seq(Agents \X Nat) /\ DOMAIN Made(a) = DOMAIN Lines(a)
          /\ Made(a)[main.line] = <<Subject, main.line>>
      BY <2>3, <3>2, MadeOK DEF Typed
    <3> HIDE DEF I
    <3>4. ElementsAt(Made(a), I \cup {main.line})
            = Append(ElementsAt(Made(a), I), <<Subject, main.line>>)
      <4>1. I \in SUBSET DOMAIN Made(a) /\ main.line \in DOMAIN Made(a)
        BY <3>2, <3>3
      <4>2. ElementsAt(Made(a), I \cup {main.line})
              = Append(ElementsAt(Made(a), I), Made(a)[main.line])
        BY <3>2, <3>3, <4>1, ElementsAtAppend
      <4>3. QED
        BY <3>3, <4>2
    <3>5. plans'[a] = Append(plans[a], <<Subject, main.line>>)
      BY <2>1, <2>2, <2>3 DEF Typed
    <3>6. QED
      BY <1>1, <1>2, <3>1, <3>4, <3>5 DEF I
  <2>4. CASE a # Subject
    <3>1. plans'[a] = plans[a] /\ Passed(a)' = Passed(a)
      BY <2>1, <2>2, <2>4 DEF Typed
    <3>2. QED
      BY <1>1, <1>2, <3>1
  <2>5. QED
    BY <2>3, <2>4
<1>4. CASE Attach
  <2>1. Lines(Subject)[main.line].op = "attach" /\ UNCHANGED plans
    BY <1>4 DEF Attach, InRun
  <2>2. Passed(a)' = Passed(a) \cup (IF a = Subject THEN {main.line} ELSE {})
    BY <1>4, PassedNext
  <2>3. PlanLines(a) \cap Passed(a)' = PlanLines(a) \cap Passed(a)
    BY <2>1, <2>2 DEF PlanLines
  <2>4. QED
    BY <1>1, <1>2, <2>1, <2>3
<1>5. CASE ~ BuildPlan /\ ~ Attach
  <2>1. UNCHANGED plans /\ (Construct \/ Post \/ Start \/ Started \/ UNCHANGED <<client, main>>)
    BY <1>5 DEF Next, Main, Construct, Post, Start, BadPlan, Started, MainReturns, EngineThread,
      StartSensor, AllSensors, TakeEvent, TestPlan, EventDone, Tick, vars, mainVars
  <2>2. Passed(a)' = Passed(a)
    BY <2>1, PassedSame
  <2>3. QED
    BY <1>1, <1>2, <2>1, <2>2
<1>6. QED
  BY <1>3, <1>4, <1>5

\* No engine starts but at the end of start() of its agent.
LEMMA ThreadStep ==
  Typed /\ CurrentInv /\ StartsOnce /\ ThreadInv /\ [Next]_vars => ThreadInv'
<1> SUFFICES ASSUME Typed, CurrentInv, StartsOnce, ThreadInv, [Next]_vars, NEW a \in Agents,
                    engine'[a].pc # "off"
             PROVE  WasStarted(a)' /\ ~ Running(a)'
  BY DEF ThreadInv
<1>1. CASE engine[a].pc # "off"
  <2>1. WasStarted(a) /\ ~ Running(a)
    BY <1>1 DEF ThreadInv
  <2>2. CASE BuildPlan \/ Attach
    BY <2>1, <2>2, PassedNext
  <2>3. CASE ~ BuildPlan /\ ~ Attach
    <3>1. Construct \/ Post \/ Start \/ Started \/ UNCHANGED <<client, main>>
      BY <2>3 DEF Next, Main, BadPlan, MainReturns, EngineThread,
        StartSensor, AllSensors, TakeEvent, TestPlan, EventDone, Tick, vars, mainVars
    <3>2. QED
      BY <2>1, <3>1, PassedSame
  <2>4. QED
    BY <2>2, <2>3
<1>2. CASE engine[a].pc = "off"
  <2>1. /\ (Start /\ Embedded) \/ Started
        /\ CreateThread(Subject) /\ Subject = a
    <3>1. CASE UNCHANGED engine
      BY <1>2, <3>1
    <3>2. ASSUME NEW b \in Agents, EngineThread(b) PROVE engine'[a].pc = "off"
      BY <1>2, <3>2 DEF EngineThread, StartSensor, AllSensors, TakeEvent, TestPlan, EventDone,
        At, Typed
    <3>3. CASE (Start /\ Embedded) \/ Started
      <4>1. CreateThread(Subject)
        BY <3>3 DEF Start, Started
      <4>2. QED
        BY <1>2, <3>3, <4>1 DEF CreateThread, Typed
    <3>4. UNCHANGED engine \/ (\E b \in Agents : EngineThread(b)) \/ (Start /\ Embedded) \/ Started
      BY DEF Next, Main, Construct, Post, Start, BuildPlan, BadPlan, Attach, MainReturns, Tick, vars
    <3>5. QED
      BY <3>1, <3>2, <3>3, <3>4
  <2>2. /\ main.step \in DOMAIN client.main /\ client.main[main.step].op = "start"
        /\ UNCHANGED client /\ NextStep
    BY <2>1 DEF Start, Started, Doing, CurrentInv
  <2>3. main'.line = 0 /\ main'.step = main.step + 1
    BY <2>2, NextStepIs
  <2>4. WasStarted(a)'
    BY <2>1, <2>2, <2>3, StartedNext DEF Subject
  <2>5. QED
    BY <2>3, <2>4 DEF Running
<1>3. QED
  BY <1>1, <1>2

\* The inductive invariant of the plans.
StartInv == Typed /\ CurrentInv /\ PlansInv /\ ThreadInv

\* The plans that an engine has are the first ones of its agent's program.
LEMMA PlansArePrefix ==
  ASSUME StartInv, NEW a \in Agents
  PROVE  /\ IsPrefix(plans[a], Program(a))
         /\ engine[a].pc # "off" /\ ~ Embedded => plans[a] = Program(a)
<1> DEFINE I == PlanLines(a)
           J == PlanLines(a) \cap Passed(a)
<1>1. plans[a] = ElementsAt(Made(a), J) /\ Program(a) = ElementsAt(Made(a), I)
  BY DEF StartInv, PlansInv, Program
<1>2. /\ Made(a) \in Seq(Agents \X Nat) /\ I \in SUBSET DOMAIN Made(a) /\ J \in SUBSET I
      /\ DOMAIN Lines(a) \in SUBSET Nat
  BY MadeOK DEF StartInv, Typed, PlanLines
<1>3. Passed(a) = {} \/ Passed(a) = DOMAIN Lines(a) \/ Passed(a) = {i \in DOMAIN Lines(a) : i < main.line}
  BY DEF Passed
<1>4. \A i \in I \ J, j \in J : j < i
  <2>1. I \in SUBSET DOMAIN Lines(a)
    BY DEF PlanLines
  <2>2. main.line \in Nat
    BY DEF StartInv, Typed
  <2>3. \A i \in I \ J, j \in J : i \in Nat /\ j \in Nat /\ j < main.line /\ ~ i < main.line
    BY <1>2, <1>3, <2>1
  <2>4. QED
    BY <2>2, <2>3
<1>5. IsPrefix(plans[a], Program(a))
  <2> HIDE DEF I, J
  <2>1. QED
    BY <1>1, <1>2, <1>4, ElementsAtPrefix
<1>6. ASSUME engine[a].pc # "off", ~ Embedded PROVE plans[a] = Program(a)
  <2>1. Passed(a) = DOMAIN Lines(a)
    BY <1>6 DEF StartInv, ThreadInv, Passed
  <2>2. I = J
    BY <2>1 DEF PlanLines
  <2>3. QED
    BY <1>1, <2>2
<1>7. QED
  BY <1>5, <1>6

\* The current engine is that of the agent in whose run() main is, every engine has the
\* plans of the lines that have been executed, and runs only when they all have been.
THEOREM StartInvariant ==
  ASSUME StartsOnce
  PROVE  Spec => []StartInv
<1>1. Init => StartInv
  BY TypedInit, CurrentInit, PlansInit DEF StartInv
<1>2. StartInv /\ [Next]_vars => StartInv'
  BY StartsOnce, TypedStep, CurrentStep, PlansStep, ThreadStep DEF StartInv
<1>3. QED
  BY <1>1, <1>2, PTL DEF Spec

\* The plans of an engine are those of its own agent, in the order of run(), whatever
\* agents main constructs and starts in between (engine.cpp:20, agent.cpp:27).
THEOREM PlansAreOwn ==
  ASSUME StartsOnce
  PROVE  Spec => []OwnPlans
<1>1. StartInv => OwnPlans
  BY PlansArePrefix DEF OwnPlans
<1>2. QED
  BY <1>1, StartInvariant, PTL

\* With an operating system an engine tests its events against the whole program of its
\* agent, even those that were posted before the start (agent.cpp:25-35).
THEOREM ProgramIsWhole ==
  ASSUME StartsOnce, ~ Embedded
  PROVE  Spec => []WholeProgram
<1>1. StartInv => WholeProgram
  BY PlansArePrefix DEF WholeProgram
<1>2. QED
  BY <1>1, StartInvariant, PTL

-------------------------------------------------------------------------------
\* The parts of SensorInv: who has a sensor, and how many threads it has.
AttachedInv ==
  /\ \A a \in Agents : IsInjective(sensors[a])
  /\ \A a \in Agents, s \in Sensors :
       /\ owner[s] = a <=> s \in ToSet(sensors[a])
       /\ s \in ToSet(sensors[a]) =>
            \E i \in Passed(a) : Lines(a)[i].op = "attach" /\ Lines(a)[i].sensor = s

SensingInv ==
  /\ \A a \in Agents : \A i \in DOMAIN sensors[a] :
       sensing[sensors[a][i]] = IF StartedSensor(a, i) THEN 1 ELSE 0
  /\ \A s \in Sensors : owner[s] = Nobody => sensing[s] = 0
  /\ \A a \in Agents : engine[a].pc = "sensors" => engine[a].at >= 1

LEMMA SensorParts == SensorInv <=> AttachedInv /\ SensingInv
BY DEF SensorInv, AttachedInv, SensingInv

LEMMA SensorInit == Init => SensorInv
<1> SUFFICES ASSUME Init PROVE SensorInv
  OBVIOUS
<1>1. /\ \A a \in Agents : sensors[a] = <<>> /\ engine[a].pc = "off"
      /\ \A s \in Sensors : owner[s] = Nobody /\ sensing[s] = 0
  BY DEF Init, Off
<1>2. AttachedInv
  BY <1>1, NobodyAssumption, EmptyHolds DEF AttachedInv
<1>3. SensingInv
  BY <1>1 DEF SensingInv
<1>4. QED
  BY <1>2, <1>3, SensorParts

\* A step of main passes lines and takes none back.
LEMMA PassedGrows ==
  ASSUME Typed, CurrentInv, StartsOnce, [Next]_vars, NEW a \in Agents
  PROVE  Passed(a) \in SUBSET Passed(a)' /\ Lines(a)' = Lines(a)
<1>1. UNCHANGED client
  BY DEF Next, Main, Construct, Post, Start, BuildPlan, BadPlan, Attach, Started, MainReturns, EngineThread,
    StartSensor, AllSensors, TakeEvent, TestPlan, EventDone, Tick, vars
<1>2. CASE BuildPlan \/ Attach
  BY <1>1, <1>2, PassedNext DEF Lines
<1>3. CASE ~ BuildPlan /\ ~ Attach
  <2>1. Construct \/ Post \/ Start \/ Started \/ UNCHANGED <<client, main>>
    BY <1>3 DEF Next, Main, BadPlan, MainReturns, EngineThread,
      StartSensor, AllSensors, TakeEvent, TestPlan, EventDone, Tick, vars, mainVars
  <2>2. QED
    BY <1>1, <2>1, PassedSame DEF Lines
<1>4. QED
  BY <1>2, <1>3

\* Only attach gives an agent a sensor.
LEMMA AttachedSame ==
  ASSUME Typed, CurrentInv, StartsOnce, [Next]_vars, AttachedInv, UNCHANGED <<sensors, owner>>
  PROVE  AttachedInv'
<1>1. \A a \in Agents : Passed(a) \in SUBSET Passed(a)' /\ Lines(a)' = Lines(a)
  BY PassedGrows
<1>2. QED
  BY <1>1 DEF AttachedInv

\* The sensor of a line that is executed now belongs to nobody.
LEMMA AttachIsFirst ==
  ASSUME Typed, CurrentInv, AttachesOnce, AttachedInv, SensingInv, Attach,
         NEW s, s = Lines(Subject)[main.line].sensor
  PROVE  /\ Subject \in Agents /\ s \in Sensors
         /\ \A a \in Agents : s \notin ToSet(sensors[a])
         /\ sensing[s] = 0
<1>1. /\ Subject \in Agents /\ main.line > 0 /\ main.line \in DOMAIN Lines(Subject)
      /\ Lines(Subject)[main.line].op = "attach"
  BY CommandOK DEF Attach, InRun, CurrentInv
<1>2. s \in Sensors
  BY <1>1, ClientOK DEF Typed
<1>3. ASSUME NEW a \in Agents, s \in ToSet(sensors[a]) PROVE FALSE
  <2>1. PICK i \in Passed(a) : Lines(a)[i].op = "attach" /\ Lines(a)[i].sensor = s
    BY <1>2, <1>3 DEF AttachedInv
  <2>2. i \in DOMAIN Lines(a)
    BY <2>1, PassedLines
  <2>3. a = Subject /\ i = main.line
    BY <1>1, <2>1, <2>2, SMTT(30) DEF AttachesOnce, Lines, Typed
  <2>4. i < main.line
    BY <1>1, <2>1, <2>3, PassedLines DEF Running
  <2>5. main.line \in Nat
    BY DEF Typed
  <2>6. QED
    BY <2>3, <2>4, <2>5
<1>4. owner[s] \in Agents => s \in ToSet(sensors[owner[s]])
  BY <1>2 DEF AttachedInv
<1>5. owner[s] = Nobody
  BY <1>2, <1>3, <1>4 DEF Typed
<1>6. QED
  BY <1>1, <1>2, <1>3, <1>5 DEF SensingInv

LEMMA AttachStep ==
  ASSUME Typed, CurrentInv, ThreadInv, StartsOnce, AttachesOnce, AttachedInv, SensingInv, Attach
  PROVE  AttachedInv' /\ SensingInv'
<1>0. PICK a, s : a = Subject /\ s = Lines(Subject)[main.line].sensor
  OBVIOUS
<1>1. /\ a \in Agents /\ s \in Sensors
      /\ \A b \in Agents : s \notin ToSet(sensors[b])
      /\ sensing[s] = 0
  BY <1>0, AttachIsFirst
<1>2. /\ owner' = [owner EXCEPT ![s] = a]
      /\ sensors' = [sensors EXCEPT ![a] = Append(@, s)]
      /\ UNCHANGED <<client, engine, sensing>>
  BY <1>0 DEF Attach
<1>3. /\ Lines(a)[main.line].op = "attach" /\ Lines(a)[main.line].sensor = s
      /\ Running(a) /\ engine[a].pc = "off"
  BY <1>0, <1>1 DEF Attach, InRun, Running, ThreadInv
<1>4. /\ sensors[a] \in Seq(Sensors) /\ sensors'[a] = Append(sensors[a], s)
      /\ \A b \in Agents : b # a => sensors'[b] = sensors[b]
      /\ owner'[s] = a /\ \A t \in Sensors : t # s => owner'[t] = owner[t]
  BY <1>1, <1>2 DEF Typed
<1>5. /\ ToSet(sensors'[a]) = ToSet(sensors[a]) \cup {s}
      /\ IsInjective(sensors'[a])
  BY <1>1, <1>4, AppendHolds DEF AttachedInv
<1>6. \A b \in Agents : /\ Passed(b)' = Passed(b) \cup (IF b = a THEN {main.line} ELSE {})
                        /\ Lines(b)' = Lines(b)
  BY <1>0, <1>2, PassedNext DEF Lines
<1>7. ASSUME NEW b \in Agents, NEW t \in Sensors
      PROVE  /\ owner'[t] = b <=> t \in ToSet(sensors'[b])
             /\ t \in ToSet(sensors'[b]) =>
                  \E i \in Passed(b)' : Lines(b)'[i].op = "attach" /\ Lines(b)'[i].sensor = t
  <2>1. /\ owner[t] = b <=> t \in ToSet(sensors[b])
        /\ t \in ToSet(sensors[b]) =>
             \E i \in Passed(b) : Lines(b)[i].op = "attach" /\ Lines(b)[i].sensor = t
    BY DEF AttachedInv
  <2>2. CASE t = s
    BY <1>1, <1>3, <1>4, <1>5, <1>6, <2>1, <2>2
  <2>3. CASE t # s
    <3>1. owner'[t] = owner[t] /\ (t \in ToSet(sensors'[b]) <=> t \in ToSet(sensors[b]))
      BY <1>4, <1>5, <2>3
    <3>2. QED
      BY <1>6, <2>1, <3>1
  <2>4. QED
    BY <2>2, <2>3
<1>8. AttachedInv'
  BY <1>4, <1>5, <1>7 DEF AttachedInv
<1>9. ASSUME NEW b \in Agents, NEW i \in DOMAIN sensors'[b]
      PROVE  sensing'[sensors'[b][i]] = IF StartedSensor(b, i)' THEN 1 ELSE 0
  <2>1. StartedSensor(b, i)' = StartedSensor(b, i)
    BY <1>2 DEF StartedSensor
  <2>2. CASE b = a
    <3>1. ~ StartedSensor(b, i)
      BY <1>3, <2>2 DEF StartedSensor
    <3>2. (i \in DOMAIN sensors[a] /\ sensors'[a][i] = sensors[a][i]) \/ sensors'[a][i] = s
      BY <1>1, <1>4, <2>2
    <3>3. i \in DOMAIN sensors[a] => sensing[sensors[a][i]] = 0
      BY <1>1, <2>2, <3>1 DEF SensingInv
    <3>4. QED
      BY <1>1, <1>2, <2>1, <2>2, <3>1, <3>2, <3>3
  <2>3. CASE b # a
    BY <1>2, <1>4, <2>1, <2>3 DEF SensingInv
  <2>4. QED
    BY <2>2, <2>3
<1>10. \A t \in Sensors : owner'[t] = Nobody => sensing'[t] = 0
  BY <1>1, <1>2, <1>4, NobodyAssumption DEF SensingInv
<1>11. \A b \in Agents : engine'[b].pc = "sensors" => engine'[b].at >= 1
  BY <1>2 DEF SensingInv
<1>12. QED
  BY <1>8, <1>9, <1>10, <1>11 DEF SensingInv

\* The engine of a goes on to its next sensor.
LEMMA StartSensorStep ==
  ASSUME Typed, AttachedInv, SensingInv, NEW a \in Agents, StartSensor(a)
  PROVE  SensingInv'
<1>0. PICK k : k = engine[a].at
  OBVIOUS
<1>1. k \in Nat /\ k >= 1 /\ engine[a].pc = "sensors" /\ k <= Len(sensors[a])
  BY <1>0 DEF StartSensor, At, SensingInv, Typed, EngineRecord
<1>2. sensors[a] \in Seq(Sensors) /\ DOMAIN sensors[a] = 1 .. Len(sensors[a]) /\ k \in DOMAIN sensors[a]
  BY <1>1, LenProperties DEF Typed
<1>3. PICK s \in Sensors : s = sensors[a][k]
  BY <1>2, ElementOfSeq
<1>4. /\ sensing' = [sensing EXCEPT ![s] = @ + 1] /\ UNCHANGED <<sensors, owner>>
      /\ engine' = [engine EXCEPT ![a] = [engine[a] EXCEPT !.at = @ + 1]]
  BY <1>0, <1>3 DEF StartSensor, mainVars
<1>5. /\ engine'[a].pc = "sensors" /\ engine'[a].at = k + 1
      /\ \A b \in Agents : b # a => engine'[b] = engine[b]
  <2>1. engine'[a] = [engine[a] EXCEPT !.at = @ + 1] /\ engine[a] \in EngineRecord
    BY <1>4 DEF Typed
  <2>2. QED
    BY <1>0, <1>1, <1>4, <2>1 DEF EngineRecord, Typed
<1>6. owner[s] = a /\ \A b \in Agents : \A i \in DOMAIN sensors[b] : sensors[b][i] = s => b = a /\ i = k
  <2>1. s \in ToSet(sensors[a])
    BY <1>2, <1>3 DEF ToSet
  <2>2. owner[s] = a
    BY <2>1 DEF AttachedInv
  <2>3. ASSUME NEW b \in Agents, NEW i \in DOMAIN sensors[b], sensors[b][i] = s PROVE b = a /\ i = k
    <3>1. s \in ToSet(sensors[b])
      BY <2>3 DEF ToSet
    <3>2. b = a
      BY <2>2, <3>1 DEF AttachedInv
    <3>3. QED
      BY <1>2, <1>3, <2>3, <3>2 DEF AttachedInv, IsInjective
  <2>4. QED
    BY <2>2, <2>3
<1>7. ASSUME NEW b \in Agents, NEW i \in DOMAIN sensors[b]
      PROVE  sensing'[sensors[b][i]] = IF StartedSensor(b, i)' THEN 1 ELSE 0
  <2>1. sensing[sensors[b][i]] = IF StartedSensor(b, i) THEN 1 ELSE 0
    BY DEF SensingInv
  <2>2. CASE b = a /\ i = k
    <3>1. ~ StartedSensor(b, i) /\ StartedSensor(b, i)'
      BY <1>0, <1>1, <1>5, <2>2 DEF StartedSensor
    <3>2. sensing[s] = 0
      BY <1>3, <2>1, <2>2, <3>1
    <3>3. QED
      BY <1>3, <1>4, <2>2, <3>1, <3>2 DEF Typed
  <2>3. CASE ~ (b = a /\ i = k)
    <3>1. sensors[b][i] # s /\ sensors[b][i] \in Sensors
      BY <1>6, <2>3, ElementOfSeq, LenProperties DEF Typed
    <3>2. sensing'[sensors[b][i]] = sensing[sensors[b][i]]
      BY <1>4, <3>1 DEF Typed
    <3>3. i \in Nat
      BY LenProperties, SMTT(30) DEF Typed
    <3>4. StartedSensor(b, i)' <=> StartedSensor(b, i)
      BY <1>0, <1>1, <1>5, <2>3, <3>3 DEF StartedSensor
    <3>5. QED
      BY <2>1, <3>2, <3>4
  <2>4. QED
    BY <2>2, <2>3
<1>8. ASSUME NEW t \in Sensors, owner[t] = Nobody PROVE sensing'[t] = 0
  <2>1. t # s /\ sensing[t] = 0
    BY <1>6, <1>8, NobodyAssumption DEF SensingInv
  <2>2. QED
    BY <1>4, <2>1 DEF Typed
<1>9. \A b \in Agents : engine'[b].pc = "sensors" => engine'[b].at >= 1
  BY <1>1, <1>5 DEF SensingInv
<1>10. QED
  BY <1>4, <1>7, <1>8, <1>9 DEF SensingInv

\* The engine of a does something else.
LEMMA SensingSame ==
  ASSUME Typed, SensingInv, UNCHANGED <<sensors, owner, sensing>>, NEW a \in Agents,
         \A b \in Agents : b # a => engine'[b] = engine[b],
         \A i \in DOMAIN sensors[a] : StartedSensor(a, i)' <=> StartedSensor(a, i),
         engine'[a].pc = "sensors" => engine'[a].at >= 1
  PROVE  SensingInv'
<1>1. ASSUME NEW b \in Agents, NEW i \in DOMAIN sensors[b]
      PROVE  StartedSensor(b, i)' <=> StartedSensor(b, i)
  BY DEF StartedSensor
<1>2. QED
  BY <1>1 DEF SensingInv

\* A thread is created for an engine that was off: it has started no sensor.
LEMMA CreateThreadSensing ==
  ASSUME Typed, SensingInv, UNCHANGED <<sensors, owner, sensing>>, NEW a \in Agents,
         engine[a].pc = "off", CreateThread(a)
  PROVE  SensingInv'
<1>1. engine'[a] = [pc |-> "sensors", at |-> 1, evt |-> NoEvent]
  BY DEF CreateThread, Typed
<1>2. \A b \in Agents : b # a => engine'[b] = engine[b]
  BY DEF CreateThread, Typed
<1>3. \A i \in DOMAIN sensors[a] : i \in Nat /\ i >= 1
  BY LenProperties DEF Typed
<1>4. \A i \in DOMAIN sensors[a] : ~ StartedSensor(a, i) /\ ~ StartedSensor(a, i)'
  BY <1>1, <1>3 DEF StartedSensor
<1>5. QED
  BY <1>1, <1>2, <1>4, SensingSame

LEMMA EngineSensing ==
  ASSUME Typed, SensingInv, NEW a \in Agents,
         AllSensors(a) \/ TakeEvent(a) \/ TestPlan(a) \/ EventDone(a)
  PROVE  SensingInv'
<1>1. UNCHANGED <<sensors, owner, sensing>>
  BY DEF AllSensors, TakeEvent, TestPlan, EventDone, mainVars
<1>2. \A b \in Agents : b # a => engine'[b] = engine[b]
  BY DEF AllSensors, TakeEvent, TestPlan, EventDone, Typed
<1>3. engine'[a].pc \in {"loop", "test"}
  BY LoopIs DEF AllSensors, TakeEvent, TestPlan, EventDone, At, Typed, EngineRecord
<1>4. engine[a].pc \in {"loop", "test"} \/ (engine[a].pc = "sensors" /\ engine[a].at > Len(sensors[a]))
  BY DEF AllSensors, TakeEvent, TestPlan, EventDone, At
<1>5. \A i \in DOMAIN sensors[a] : StartedSensor(a, i) /\ StartedSensor(a, i)'
  <2>1. \A i \in DOMAIN sensors[a] : i \in 1 .. Len(sensors[a])
    BY LenProperties DEF Typed
  <2>2. Len(sensors[a]) \in Nat /\ engine[a].at \in Nat
    BY LenProperties DEF Typed, EngineRecord
  <2>3. QED
    BY <1>3, <1>4, <2>1, <2>2 DEF StartedSensor
<1>6. QED
  BY <1>1, <1>2, <1>3, <1>5, SensingSame

LEMMA SensorStep ==
  Typed /\ CurrentInv /\ ThreadInv /\ StartsOnce /\ AttachesOnce /\ SensorInv /\ [Next]_vars => SensorInv'
<1> SUFFICES ASSUME Typed, CurrentInv, ThreadInv, StartsOnce, AttachesOnce, SensorInv, [Next]_vars
             PROVE  AttachedInv' /\ SensingInv'
  BY DEF SensorInv, AttachedInv, SensingInv
<1>0. AttachedInv /\ SensingInv
  BY SensorParts
<1>1. CASE Attach
  BY <1>0, <1>1, AttachStep
<1>2. CASE ~ Attach
  <2>1. UNCHANGED <<sensors, owner>>
    BY <1>2 DEF Next, Main, Construct, Post, Start, BuildPlan, BadPlan, Started, MainReturns, EngineThread,
      StartSensor, AllSensors, TakeEvent, TestPlan, EventDone, Tick, vars, mainVars
  <2>2. AttachedInv'
    BY <1>0, <2>1, AttachedSame
  <2>3. CASE (Start /\ Embedded) \/ Started
    <3>1. /\ main.step \in DOMAIN client.main /\ client.main[main.step].op = "start"
          /\ CreateThread(Subject) /\ UNCHANGED sensing
      BY <2>3 DEF Start, Started, Doing, CurrentInv
    <3>2. Subject \in Agents /\ engine[Subject].pc = "off"
      BY <3>1, CommandOK, StartIsFirst DEF ThreadInv
    <3>3. QED
      BY <1>0, <2>1, <2>2, <3>1, <3>2, CreateThreadSensing
  <2>4. ASSUME NEW a \in Agents, EngineThread(a) PROVE SensingInv'
    BY <1>0, <2>4, StartSensorStep, EngineSensing DEF EngineThread
  <2>5. CASE UNCHANGED <<engine, sensing>>
    <3>1. ASSUME NEW a \in Agents, NEW i \in DOMAIN sensors[a]
          PROVE  StartedSensor(a, i)' <=> StartedSensor(a, i)
      BY <2>5 DEF StartedSensor
    <3>2. SensingInv'
      BY <1>0, <2>1, <2>5, <3>1 DEF SensingInv
    <3>3. QED
      BY <2>2, <3>2
  <2>6. \/ UNCHANGED <<engine, sensing>>
        \/ (Start /\ Embedded) \/ Started
        \/ \E a \in Agents : EngineThread(a)
    BY <1>2 DEF Next, Main, Construct, Post, Start, BuildPlan, BadPlan, MainReturns, Tick, vars, mainVars
  <2>7. SensingInv'
    BY <2>3, <2>4, <2>5, <2>6
  <2>8. QED
    BY <2>2, <2>7
<1>3. QED
  BY <1>1, <1>2

-------------------------------------------------------------------------------
\* The inductive invariant of the sensors follows from that of the plans.
THEOREM SensorInvariant ==
  ASSUME StartsOnce, AttachesOnce
  PROVE  Spec => [](StartInv /\ SensorInv)
<1>1. Init => StartInv /\ SensorInv
  BY TypedInit, CurrentInit, PlansInit, SensorInit DEF StartInv
<1>2. StartInv /\ SensorInv /\ [Next]_vars => (StartInv /\ SensorInv)'
  BY StartsOnce, AttachesOnce, TypedStep, CurrentStep, PlansStep, ThreadStep, SensorStep DEF StartInv
<1>3. QED
  BY <1>1, <1>2, PTL DEF Spec

\* A sensor has at most one thread, and none before the engine of its agent runs
\* (sensor.cpp:13-17, engine.cpp:183-189).
THEOREM TypeCorrect ==
  ASSUME StartsOnce, AttachesOnce
  PROVE  Spec => []TypeOK
<1>1. ASSUME Typed, SensorInv PROVE TypeOK
  <2>1. ASSUME NEW a \in Agents
        PROVE  /\ \A i \in DOMAIN plans[a] : plans[a][i] \in Agents \X Nat
               /\ \A i \in DOMAIN sensors[a] : sensors[a][i] \in Sensors
               /\ \A i \in DOMAIN queue[a] : queue[a][i] \in Events
    BY <1>1, ElementOfSeq, LenProperties DEF Typed
  <2>2. ASSUME NEW s \in Sensors PROVE sensing[s] \in 0 .. IF owner[s] = Nobody THEN 0 ELSE 1
    <3>1. CASE owner[s] = Nobody
      BY <1>1, <3>1 DEF SensorInv
    <3>2. CASE owner[s] # Nobody
      <4>1. owner[s] \in Agents
        BY <1>1, <3>2 DEF Typed
      <4>2. s \in ToSet(sensors[owner[s]])
        BY <1>1, <4>1 DEF SensorInv
      <4>3. PICK i \in DOMAIN sensors[owner[s]] : sensors[owner[s]][i] = s
        BY <4>2 DEF ToSet
      <4>4. sensing[s] \in {0, 1}
        BY <1>1, <4>1, <4>3 DEF SensorInv
      <4>5. QED
        BY <3>2, <4>4
    <3>3. QED
      BY <3>1, <3>2
  <2>3. QED
    BY <1>1, <2>1, <2>2 DEF Typed, TypeOK, EngineRecord
<1>2. QED
  BY <1>1, SensorInvariant, PTL DEF StartInv
===============================================================================
