------------------------------ MODULE DigitalInputs ------------------------------
(***************************************************************************)
(* The digital inputs of the embedded build (lib/democle/sensor_lib.h,     *)
(* sensor_lib.cpp).  map_input_pin records the formula and the agent of a  *)
(* pin in two maps, creates the task of the handler if there is none, and  *)
(* attaches an interrupt to the pin.  The interrupt sets the bit of the    *)
(* pin in the notification value of the task; the task takes the value,    *)
(* clears it, and for each bit sends the formula to the agent.             *)
(*                                                                         *)
(* A notification value is the set of its bits: the pins are below 32, the *)
(* width of the value.  The maps have no lock: what the task does when it  *)
(* reads them while a pin is inserted is undefined, and here it crashes or *)
(* it does not.                                                            *)
(***************************************************************************)
EXTENDS Integers, Sequences, FiniteSetsExt

CONSTANTS
  Mappings,  \* the calls of map_input_pin, in order: records [pin, formula, agent]
  Beliefs,   \* formulas that are beliefs; the others are reactors
  Agents,
  Nothing,   \* the null pointer
  MaxEdges   \* bound: edges of each pin

Pins == {Mappings[i].pin : i \in DOMAIN Mappings}

Formulas == {Mappings[i].formula : i \in DOMAIN Mappings}

ASSUME PinAssumption ==
  /\ Mappings \in Seq({Mappings[i] : i \in DOMAIN Mappings})
  /\ Pins \subseteq 0 .. 31
  /\ \A i, j \in DOMAIN Mappings : Mappings[i].pin = Mappings[j].pin => i = j
  /\ \A i \in DOMAIN Mappings : Mappings[i].agent \in Agents
  /\ Nothing \notin Agents \cup Formulas

ASSUME BoundAssumption == MaxEdges \in Nat

VARIABLES
  client,      \* the thread that maps the pins: the call and the step in it
  belief_map,
  agent_map,
  attached,    \* pins with an interrupt
  notified,    \* the notification value of the task
  task,        \* the task of the handler: the value it took, and the edges it stands for
  kb,          \* beliefs of each agent
  queue,       \* events of each agent, never taken here
  crashed,     \* the program has crashed
  edges,       \* history: edges of each pin
  served       \* history: the edges of each pin that its agent has been told of

clientVars == <<client, belief_map, agent_map, attached>>

agentVars == <<kb, queue, served>>

vars == <<clientVars, notified, task, agentVars, crashed, edges>>

Init ==
  /\ client = [call |-> 1, pc |-> "event"]
  /\ belief_map = [p \in Pins |-> Nothing]
  /\ agent_map = [p \in Pins |-> Nothing]
  /\ attached = {}
  /\ notified = {}
  /\ task = [pc |-> "none", value |-> {}, edges |-> [p \in Pins |-> 0]]
  /\ kb = [a \in Agents |-> {}]
  /\ queue = [a \in Agents |-> <<>>]
  /\ crashed = FALSE
  /\ edges = [p \in Pins |-> 0]
  /\ served = [p \in Pins |-> 0]

(***************************************************************************)
(* map_input_pin.  In "event", "belief" and "agent" the insertion of the   *)
(* pin in that map is under way.                                           *)
(***************************************************************************)
Mapping == Mappings[client.call]

Step(pc, next) ==
  /\ ~ crashed
  /\ client.call \in DOMAIN Mappings
  /\ client.pc = pc
  /\ client' = next

Goto(pc) == [client EXCEPT !.pc = pc]

Inserting == client.call \in DOMAIN Mappings /\ client.pc \in {"event", "belief", "agent"}

\* Fault: the interrupt is attached first.
AddEventAttached ==
  /\ Step("event", Goto("belief"))
  /\ attached' = attached \cup {Mapping.pin}
  /\ UNCHANGED <<belief_map, agent_map, notified, task, agentVars, crashed, edges>>

\* event[pin] = false, which nothing reads.
AddEvent ==
  /\ Step("event", Goto("belief"))
  /\ UNCHANGED <<belief_map, agent_map, attached, notified, task, agentVars, crashed, edges>>

AddBelief ==
  /\ Step("belief", Goto("agent"))
  /\ belief_map' = [belief_map EXCEPT ![Mapping.pin] = Mapping.formula]
  /\ UNCHANGED <<agent_map, attached, notified, task, agentVars, crashed, edges>>

AddAgent ==
  /\ Step("agent", Goto("start"))
  /\ agent_map' = [agent_map EXCEPT ![Mapping.pin] = Mapping.agent]
  /\ UNCHANGED <<belief_map, attached, notified, task, agentVars, crashed, edges>>

\* The first call creates the task.
StartTask ==
  /\ Step("start", Goto("attach"))
  /\ task' = IF task.pc = "none" THEN [task EXCEPT !.pc = "wait"] ELSE task
  /\ UNCHANGED <<belief_map, agent_map, attached, notified, agentVars, crashed, edges>>

\* setup_digital
AttachInterrupt ==
  /\ Step("attach", [call |-> client.call + 1, pc |-> "event"])
  /\ attached' = attached \cup {Mapping.pin}
  /\ UNCHANGED <<belief_map, agent_map, notified, task, agentVars, crashed, edges>>

MapPins == AddEvent \/ AddBelief \/ AddAgent \/ StartTask \/ AttachInterrupt

(***************************************************************************)
(* The interrupt of a pin, and the task.                                   *)
(***************************************************************************)
\* send_event, which needs a task.
SendEvent(p) ==
  /\ ~ crashed
  /\ p \in attached
  /\ edges[p] < MaxEdges
  /\ edges' = [edges EXCEPT ![p] = @ + 1]
  /\ IF task.pc = "none"
     THEN crashed' = TRUE /\ UNCHANGED notified
     ELSE notified' = notified \cup {p} /\ UNCHANGED crashed
  /\ UNCHANGED <<clientVars, task, agentVars>>

\* Fault: the bits are not cleared.
WaitKeepsBits ==
  /\ ~ crashed
  /\ task.pc = "wait"
  /\ notified # {}
  /\ task' = [pc |-> "post", value |-> notified, edges |-> edges]
  /\ UNCHANGED <<clientVars, notified, agentVars, crashed, edges>>

\* xTaskNotifyWaitIndexed: blocks until there is a notification, takes the value, and
\* clears it.
Wait ==
  /\ ~ crashed
  /\ task.pc = "wait"
  /\ notified # {}
  /\ task' = [pc |-> "post", value |-> notified, edges |-> edges]
  /\ notified' = {}
  /\ UNCHANGED <<clientVars, agentVars, crashed, edges>>

\* Agent::operator+ of a reactor, or of a belief that may be there already.
Tell(a, f) ==
  /\ kb' = IF f \in Beliefs THEN [kb EXCEPT ![a] = @ \cup {f}] ELSE kb
  /\ queue' = IF f \in kb[a] THEN queue ELSE [queue EXCEPT ![a] = Append(@, f)]

\* Fault: the value is cleared when all bits have been dealt with.
PostClears ==
  /\ ~ crashed
  /\ task.pc = "post"
  /\ LET p    == Min(task.value)
         rest == task.value \ {p}
     IN  /\ agent_map[p] # Nothing /\ belief_map[p] # Nothing
         /\ Tell(agent_map[p], belief_map[p])
         /\ served' = [served EXCEPT ![p] = task.edges[p]]
         /\ task' = [task EXCEPT !.value = rest, !.pc = IF rest = {} THEN "wait" ELSE "post"]
         /\ notified' = IF rest = {} THEN {} ELSE notified
  /\ UNCHANGED <<clientVars, crashed, edges>>

\* The next bit of the value; the task waits again after the last one.
Post ==
  /\ ~ crashed
  /\ task.pc = "post"
  /\ LET p    == Min(task.value)
         rest == task.value \ {p}
     IN  /\ agent_map[p] # Nothing /\ belief_map[p] # Nothing
         /\ Tell(agent_map[p], belief_map[p])
         /\ served' = [served EXCEPT ![p] = task.edges[p]]
         /\ task' = [task EXCEPT !.value = rest, !.pc = IF rest = {} THEN "wait" ELSE "post"]
  /\ UNCHANGED <<clientVars, notified, crashed, edges>>

\* The task reads the maps while they change, or finds nothing for a pin.
PostCrashes ==
  /\ ~ crashed
  /\ task.pc = "post"
  /\ Inserting \/ Nothing \in {agent_map[Min(task.value)], belief_map[Min(task.value)]}
  /\ crashed' = TRUE
  /\ UNCHANGED <<clientVars, notified, task, agentVars, edges>>

Next ==
  \/ MapPins
  \/ \E p \in Pins : SendEvent(p)
  \/ Wait
  \/ Post
  \/ PostCrashes

Spec == Init /\ [][Next]_vars

\* FreeRTOS runs every task; inputs may stay as they are for ever.
Fairness == WF_vars(MapPins) /\ WF_vars(Wait \/ Post \/ PostCrashes)

FairSpec == Spec /\ Fairness

-------------------------------------------------------------------------------
\* Pins mapped to formula f of agent a.
PinsFor(a, f) ==
  {Mappings[i].pin : i \in {i \in DOMAIN Mappings : Mappings[i].agent = a /\ Mappings[i].formula = f}}

\* The events of formula f that agent a has, and the edges of the pins in P.
EventsOf(a, f) == {i \in DOMAIN queue[a] : queue[a][i] = f}

EdgesOf(P) == {e \in P \X (1 .. MaxEdges) : e[2] <= edges[e[1]]}

\* An agent gets no event without an edge: the events it has of a formula and the bits
\* that will give one are no more than the edges of the pins mapped to this formula of
\* this agent; for a formula that is not mapped there are none (sensor_lib.cpp:64-87).
NoSpuriousEvents ==
  \A a \in Agents, f \in Formulas :
    LET pins == PinsFor(a, f) IN
      Cardinality(EventsOf(a, f)) + Cardinality(pins \cap notified) + Cardinality(pins \cap task.value)
        <= Cardinality(EdgesOf(pins))

\* A program crashes only in the race that adding a pin has with the events of the pins
\* added before: with one pin it never does, nor when all pins are mapped; in no other
\* case is there an interrupt without a task or a bit without an agent
\* (sensor_lib.cpp:47-62, 77-78, the order of steps in sensor_lib.h:53-74).
CrashNeedsRace == crashed => client.call > 1 /\ Inserting

\* Edges may be merged, but none is forgotten: after an edge the agent is told of it or
\* of a later one of the same pin, even if it comes while the task deals with earlier
\* edges.
EdgesAnswered ==
  \A p \in Pins, n \in 1 .. MaxEdges :
    edges[p] = n ~> (served[p] >= n \/ crashed)

(***************************************************************************)
(* What the proofs rest on.                                                *)
(***************************************************************************)
\* A map has for a pin what the call for this pin gave, or nothing yet.
MapsInv ==
  \A i \in DOMAIN Mappings :
    /\ belief_map[Mappings[i].pin] \in {Nothing, Mappings[i].formula}
    /\ agent_map[Mappings[i].pin] \in {Nothing, Mappings[i].agent}

\* When a pin has its interrupt, both maps have the pin, and there is a task; bits are
\* those of such pins.
AttachedInv ==
  /\ \A i \in DOMAIN Mappings :
       /\ i < client.call \/ (i = client.call /\ client.pc \in {"agent", "start", "attach"})
            => belief_map[Mappings[i].pin] # Nothing
       /\ i < client.call \/ (i = client.call /\ client.pc \in {"start", "attach"})
            => agent_map[Mappings[i].pin] # Nothing
  /\ attached = {Mappings[i].pin : i \in {i \in DOMAIN Mappings : i < client.call}}
  /\ notified \cup task.value \subseteq attached
  /\ attached # {} \/ client.pc = "attach" => task.pc # "none"

\* The task has bits to deal with exactly when it does not wait.
TaskInv == task.pc = "post" <=> task.value # {}
===============================================================================
