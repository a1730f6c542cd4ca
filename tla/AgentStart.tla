------------------------------- MODULE AgentStart --------------------------------
(***************************************************************************)
(* How agents come to life (lib/democle: agent.cpp, agent.h, engine.h,     *)
(* engine.cpp, sensor.cpp, sensor_lib.cpp, the operators of                *)
(* democle_types.cpp that build plans).  The main thread constructs agents *)
(* and starts them.  start() makes the engine of the agent the current one *)
(* and calls run(), in which each plan is added to the current engine and  *)
(* each sensor is given its agent; then it creates the engine thread, which *)
(* starts the sensors and takes events.  Timers send ticks from threads of *)
(* their own.                                                              *)
(*                                                                         *)
(* An event is a model value; what bodies do is in ReasoningCycle.         *)
(***************************************************************************)
EXTENDS Integers, Sequences, SequencesExt, Subsequences

CONSTANTS
  Agents,
  Sensors,   \* timers, each with a name of its own: tick(name)
  Clients,   \* programs: records of main, its steps, and run, the lines of run()
  Embedded,  \* whether HAS_EMBEDDED is defined
  Nobody,    \* the null pointer
  NoEvent,
  MaxTicks   \* bound: ticks of a timer in a queue

ASSUME NobodyAssumption == Nobody \notin Agents
\* Main constructs, starts and sends; run() builds plans and attaches sensors.
ASSUME ClientAssumption ==
  \A c \in Clients :
    /\ c.main \in Seq(ToSet(c.main))
    /\ \A i \in DOMAIN c.main :
         c.main[i].op \in {"construct", "start", "post"} /\ c.main[i].agent \in Agents
    /\ \A a \in Agents :
         /\ c.run[a] \in Seq(ToSet(c.run[a]))
         /\ \A i \in DOMAIN c.run[a] :
              \/ c.run[a][i].op = "plan"
              \/ c.run[a][i].op = "attach" /\ c.run[a][i].sensor \in Sensors

ASSUME BoundAssumption == Embedded \in BOOLEAN /\ MaxTicks \in Nat \ {0}

VARIABLES
  client,    \* the program that runs, never changed
  main,      \* the main thread: its step, the line of run() it is in or 0
  ended,     \* the process has ended
  current,   \* Engine::current
  registry,  \* agents that get_agent finds
  plans,     \* Engine::plans: for each plan, the agent and the line of run() it is from
  sensors,   \* Agent::sensors
  owner,     \* Sensor::agent
  sensing,   \* how many threads each sensor has
  queue,     \* the event queue of each engine
  engine     \* the engine thread: a sensor to start, or a plan to test the event against

mainVars == <<main, current, registry, plans, sensors, owner>>

vars == <<client, mainVars, ended, sensing, queue, engine>>

Lines(a) == client.run[a]

Off == [pc |-> "off", at |-> 0, evt |-> NoEvent]

Init ==
  /\ client \in Clients
  /\ main = [step |-> 1, line |-> 0]
  /\ ended = FALSE
  /\ current = Nobody
  /\ registry = {}
  /\ plans = [a \in Agents |-> <<>>]
  /\ sensors = [a \in Agents |-> <<>>]
  /\ owner = [s \in Sensors |-> Nobody]
  /\ sensing = [s \in Sensors |-> 0]
  /\ queue = [a \in Agents |-> <<>>]
  /\ engine = [a \in Agents |-> Off]

(***************************************************************************)
(* The main thread.                                                        *)
(***************************************************************************)
Doing(op) ==
  /\ ~ ended
  /\ main.line = 0
  /\ main.step \in DOMAIN client.main
  /\ client.main[main.step].op = op

Subject == client.main[main.step].agent

NextStep == main' = [step |-> main.step + 1, line |-> 0]

\* Agent::Agent: the new engine becomes the current one, the agent is registered.
Construct ==
  /\ Doing("construct")
  /\ current' = Subject
  /\ registry' = registry \cup {Subject}
  /\ NextStep
  /\ UNCHANGED <<client, ended, plans, sensors, owner, sensing, queue, engine>>

\* agent + reactor or agent << procedure: an event in its queue, whether it is started or not.
Post ==
  /\ Doing("post")
  /\ queue' = [queue EXCEPT ![Subject] = Append(@, client.main[main.step].evt)]
  /\ NextStep
  /\ UNCHANGED <<client, ended, current, registry, plans, sensors, owner, sensing, engine>>

CreateThread(a) ==
  engine' = [engine EXCEPT ![a] = [pc |-> "sensors", at |-> 1, evt |-> NoEvent]]

\* Fault: the current engine is left as it was.
StartKeepsCurrent ==
  /\ Doing("start")
  /\ main' = [main EXCEPT !.line = 1]
  /\ UNCHANGED <<client, ended, current, registry, plans, sensors, owner, sensing, queue, engine>>

\* Fault: the engine thread is created before run() is called.
StartThreadFirst ==
  /\ Doing("start")
  /\ current' = Subject
  /\ main' = [main EXCEPT !.line = 1]
  /\ CreateThread(Subject)
  /\ UNCHANGED <<client, ended, registry, plans, sensors, owner, sensing, queue>>

\* Agent::start up to the call of run(), which the embedded build does not make.
Start ==
  /\ Doing("start")
  /\ current' = Subject
  /\ IF Embedded
     THEN NextStep /\ CreateThread(Subject)
     ELSE main' = [main EXCEPT !.line = 1] /\ UNCHANGED engine
  /\ UNCHANGED <<client, ended, registry, plans, sensors, owner, sensing, queue>>

InRun(op) ==
  /\ ~ ended
  /\ main.line > 0
  /\ main.line \in DOMAIN Lines(Subject)
  /\ Lines(Subject)[main.line].op = op

NextLine == main' = [main EXCEPT !.line = @ + 1]

\* What operator& checks: every element of a condition but the first.
CondFormed(cond) == \A i \in 2 .. Len(cond) : cond[i] \in {"belief", "predicate"}

\* The checks of the operators that build a plan.
WellFormed(p) ==
  /\ IF p.sign = "none" THEN p.kind = "procedure" ELSE p.kind \in {"belief", "reactor"}
  /\ CondFormed(p.cond)

\* trigger / condition >> body
BuildPlan ==
  /\ InRun("plan")
  /\ WellFormed(Lines(Subject)[main.line])
  /\ plans' = [plans EXCEPT ![current] = Append(@, <<Subject, main.line>>)]
  /\ NextLine
  /\ UNCHANGED <<client, ended, current, registry, sensors, owner, sensing, queue, engine>>

\* Fault: the plan is left out and run() goes on.
BadPlanSkipped ==
  /\ InRun("plan")
  /\ ~ WellFormed(Lines(Subject)[main.line])
  /\ NextLine
  /\ UNCHANGED <<client, ended, current, registry, plans, sensors, owner, sensing, queue, engine>>

\* NotABeliefException and NotAProcedureException, which no client catches.
BadPlan ==
  /\ InRun("plan")
  /\ ~ WellFormed(Lines(Subject)[main.line])
  /\ ended' = TRUE
  /\ UNCHANGED <<client, mainVars, sensing, queue, engine>>

\* Fault: the sensor is not given its agent.
AttachUnset ==
  /\ InRun("attach")
  /\ sensors' = [sensors EXCEPT ![Subject] = Append(@, Lines(Subject)[main.line].sensor)]
  /\ NextLine
  /\ UNCHANGED <<client, ended, current, registry, plans, owner, sensing, queue, engine>>

\* attach(s)
Attach ==
  /\ InRun("attach")
  /\ LET s == Lines(Subject)[main.line].sensor IN
       /\ owner' = [owner EXCEPT ![s] = Subject]
       /\ sensors' = [sensors EXCEPT ![Subject] = Append(@, s)]
  /\ NextLine
  /\ UNCHANGED <<client, ended, current, registry, plans, sensing, queue, engine>>

\* The end of run() and of start().
Started ==
  /\ ~ ended
  /\ main.line > 0
  /\ main.line > Len(Lines(Subject))
  /\ CreateThread(Subject)
  /\ NextStep
  /\ UNCHANGED <<client, ended, current, registry, plans, sensors, owner, sensing, queue>>

\* main returns when it has slept long enough.
MainReturns ==
  /\ ~ ended
  /\ main.step > Len(client.main)
  /\ ended' = TRUE
  /\ UNCHANGED <<client, mainVars, sensing, queue, engine>>

Main == Construct \/ Post \/ Start \/ BuildPlan \/ BadPlan \/ Attach \/ Started

(***************************************************************************)
(* The engine thread of agent a, and the thread of sensor s.               *)
(***************************************************************************)
At(a, pc) == ~ ended /\ engine[a].pc = pc

\* Fault: the engine thread runs the sensor itself.
SensorInEngine(a) ==
  /\ At(a, "sensors")
  /\ engine[a].at <= Len(sensors[a])
  /\ sensing' = [sensing EXCEPT ![sensors[a][engine[a].at]] = 1]
  /\ UNCHANGED <<client, mainVars, ended, queue, engine>>

\* Sensor::start
StartSensor(a) ==
  /\ At(a, "sensors")
  /\ engine[a].at <= Len(sensors[a])
  /\ sensing' = [sensing EXCEPT ![sensors[a][engine[a].at]] = @ + 1]
  /\ engine' = [engine EXCEPT ![a].at = @ + 1]
  /\ UNCHANGED <<client, mainVars, ended, queue>>

AllSensors(a) ==
  /\ At(a, "sensors")
  /\ engine[a].at > Len(sensors[a])
  /\ engine' = [engine EXCEPT ![a] = [Off EXCEPT !.pc = "loop"]]
  /\ UNCHANGED <<client, mainVars, ended, sensing, queue>>

\* event_queue.pop()
TakeEvent(a) ==
  /\ At(a, "loop")
  /\ queue[a] # <<>>
  /\ queue' = [queue EXCEPT ![a] = Tail(@)]
  /\ engine' = [engine EXCEPT ![a] = [pc |-> "test", at |-> 1, evt |-> Head(queue[a])]]
  /\ UNCHANGED <<client, mainVars, ended, sensing>>

\* One round of the loop of execute_event over plans.
TestPlan(a) ==
  /\ At(a, "test")
  /\ engine[a].at <= Len(plans[a])
  /\ engine' = [engine EXCEPT ![a].at = @ + 1]
  /\ UNCHANGED <<client, mainVars, ended, sensing, queue>>

\* Fault: the sensors are started again after each event.
EventDoneRestarts(a) ==
  /\ At(a, "test")
  /\ engine[a].at > Len(plans[a])
  /\ CreateThread(a)
  /\ UNCHANGED <<client, mainVars, ended, sensing, queue>>

\* The bodies of the plans that apply, and the end of the event.
EventDone(a) ==
  /\ At(a, "test")
  /\ engine[a].at > Len(plans[a])
  /\ engine' = [engine EXCEPT ![a] = [Off EXCEPT !.pc = "loop"]]
  /\ UNCHANGED <<client, mainVars, ended, sensing, queue>>

EngineThread(a) ==
  StartSensor(a) \/ AllSensors(a) \/ TakeEvent(a) \/ TestPlan(a) \/ EventDone(a)

\* Timer::sense sends tick(name), here the sensor itself, to the agent of the sensor.
Tick(s) ==
  /\ ~ ended
  /\ sensing[s] > 0
  /\ owner[s] # Nobody
  /\ Len(SelectSeq(queue[owner[s]], LAMBDA e : e = s)) < MaxTicks
  /\ queue' = [queue EXCEPT ![owner[s]] = Append(@, s)]
  /\ UNCHANGED <<client, mainVars, ended, sensing, engine>>

Next ==
  \/ Main
  \/ MainReturns
  \/ \E a \in Agents : EngineThread(a)
  \/ \E s \in Sensors : Tick(s)

Spec == Init /\ [][Next]_vars

\* The scheduler runs every thread; main may sleep for ever.
Fairness ==
  /\ WF_vars(Main)
  /\ \A a \in Agents : WF_vars(EngineThread(a))
  /\ \A s \in Sensors : WF_vars(Tick(s))

FairSpec == Spec /\ Fairness

-------------------------------------------------------------------------------
\* The lines of run() of a, as plans would be made from them.
Made(a) == [i \in DOMAIN Lines(a) |-> <<a, i>>]

PlanLines(a) == {i \in DOMAIN Lines(a) : Lines(a)[i].op = "plan"}

\* The plans that run() of a builds when it returns.
Program(a) == ElementsAt(Made(a), PlanLines(a))

Events ==
  Sensors \cup UNION {{c.main[i].evt : i \in {i \in DOMAIN c.main : c.main[i].op = "post"}}
                      : c \in Clients}

\* The types of the variables; a sensor has at most one thread, and only when the
\* engine of its agent has been started.
TypeOK ==
  /\ client \in Clients
  /\ main \in [step : 1 .. Len(client.main) + 1, line : Nat]
  /\ ended \in BOOLEAN
  /\ current \in Agents \cup {Nobody}
  /\ registry \subseteq Agents
  /\ \A a \in Agents :
       /\ \A i \in DOMAIN plans[a] : plans[a][i] \in Agents \X Nat
       /\ \A i \in DOMAIN sensors[a] : sensors[a][i] \in Sensors
       /\ \A i \in DOMAIN queue[a] : queue[a][i] \in Events
       /\ engine[a] \in [pc : {"off", "sensors", "loop", "test"}, at : Nat,
                         evt : Events \cup {NoEvent}]
  /\ owner \in [Sensors -> Agents \cup {Nobody}]
  /\ \A s \in Sensors : sensing[s] \in 0 .. IF owner[s] = Nobody THEN 0 ELSE 1

\* A plan is in the engine of the agent whose run() built it, in the order of run():
\* the current engine, one variable for all agents, is the right one whenever a plan
\* is added (engine.cpp:20, agent.cpp:27, democle_types.cpp:408-413).
OwnPlans == \A a \in Agents : IsPrefix(plans[a], Program(a))

\* An engine has the whole program of its agent when it takes its first event, even one
\* that was there before it was started; no event is tested against a program that is
\* incomplete because run() still works or failed (agent.cpp:25-35, engine.cpp:179-219).
WholeProgram == \A a \in Agents : engine[a].pc = "test" => plans[a] = Program(a)

\* An event that was posted, before or after the start, is executed.
EventsExecuted ==
  \A a \in Agents, e \in Events :
    Contains(queue[a], e) ~> (engine[a].evt = e \/ ended)

\* Every timer that an agent attached goes on ticking, and its ticks are executed by
\* this agent (sensor.cpp:13-28, sensor_lib.cpp:17-21, engine.cpp:183-189).
TimersTick ==
  \A a \in Agents, s \in Sensors :
    Contains(sensors[a], s) ~> (engine[a].evt = s \/ ended)

(***************************************************************************)
(* What the proofs rest on: how far main is in the run() of each agent.    *)
(***************************************************************************)
\* Main starts no agent twice, and no two lines of run() attach the same sensor.
StartsOnce ==
  \A c \in Clients : \A i, j \in DOMAIN c.main :
    c.main[i].op = "start" /\ c.main[j].op = "start" /\ c.main[i].agent = c.main[j].agent => i = j

AttachesOnce ==
  \A c \in Clients : \A a, b \in Agents : \A i \in DOMAIN c.run[a], j \in DOMAIN c.run[b] :
    /\ c.run[a][i].op = "attach" /\ c.run[b][j].op = "attach"
    /\ c.run[a][i].sensor = c.run[b][j].sensor
    => a = b /\ i = j

Running(a) == main.line > 0 /\ Subject = a

\* Main has called start() of a, which has returned.
WasStarted(a) ==
  \E i \in DOMAIN client.main :
    i < main.step /\ client.main[i].op = "start" /\ client.main[i].agent = a

\* The lines of run() of a that have been executed.
Passed(a) ==
  IF Running(a) THEN {i \in DOMAIN Lines(a) : i < main.line}
  ELSE IF WasStarted(a) /\ ~ Embedded THEN DOMAIN Lines(a) ELSE {}

\* In run() the engine of the agent that is started is the current one.
CurrentInv ==
  main.line > 0 =>
    /\ ~ Embedded
    /\ main.step \in DOMAIN client.main
    /\ client.main[main.step].op = "start"
    /\ main.line <= Len(Lines(Subject)) + 1
    /\ current = Subject

\* The engine of an agent has the plans of the lines that have been executed.
PlansInv == \A a \in Agents : plans[a] = ElementsAt(Made(a), PlanLines(a) \cap Passed(a))

\* An engine thread runs when start() of its agent has returned.
ThreadInv == \A a \in Agents : engine[a].pc # "off" => WasStarted(a) /\ ~ Running(a)

\* The engine of a has started the i-th sensor of a.
StartedSensor(a, i) ==
  engine[a].pc \in {"loop", "test"} \/ (engine[a].pc = "sensors" /\ i < engine[a].at)

\* An agent has the sensors of the lines that have been executed, and no other agent has
\* them; such a sensor has a thread when the engine has come to it.
SensorInv ==
  /\ \A a \in Agents : IsInjective(sensors[a])
  /\ \A a \in Agents, s \in Sensors :
       /\ owner[s] = a <=> s \in ToSet(sensors[a])
       /\ s \in ToSet(sensors[a]) =>
            \E i \in Passed(a) : Lines(a)[i].op = "attach" /\ Lines(a)[i].sensor = s
  /\ \A a \in Agents : \A i \in DOMAIN sensors[a] :
       sensing[sensors[a][i]] = IF StartedSensor(a, i) THEN 1 ELSE 0
  /\ \A s \in Sensors : owner[s] = Nobody => sensing[s] = 0
  /\ \A a \in Agents : engine[a].pc = "sensors" => engine[a].at >= 1
===============================================================================
