-------------------------- MODULE DigitalInputs_proofs ---------------------------
(***************************************************************************)
(* Theorems about the digital inputs, for any pins, formulas and agents,   *)
(* and any number of edges.                                                *)
(***************************************************************************)
EXTENDS DigitalInputs, Subsequences_proofs

\* The types of the variables, as the proofs need them.
Typed ==
  /\ client \in [call : Nat \ {0}, pc : {"event", "belief", "agent", "start", "attach"}]
  /\ belief_map \in [Pins -> Formulas \cup {Nothing}]
  /\ agent_map \in [Pins -> Agents \cup {Nothing}]
  /\ attached \in SUBSET Pins
  /\ notified \in SUBSET Pins
  /\ task \in [pc : {"none", "wait", "post"}, value : SUBSET Pins, edges : [Pins -> Nat]]
  /\ queue \in [Agents -> Seq(Formulas)]
  /\ edges \in [Pins -> Nat]

\* What the assumption on the calls says.
LEMMA CallsOK ==
  /\ DOMAIN Mappings \in SUBSET Nat /\ IsFiniteSet(DOMAIN Mappings)
  /\ \A i \in DOMAIN Mappings :
       /\ Mappings[i].pin \in Pins /\ Mappings[i].formula \in Formulas
       /\ Mappings[i].agent \in Agents
  /\ \A p \in Pins : \E i \in DOMAIN Mappings : Mappings[i].pin = p
  /\ Pins \in SUBSET Nat /\ IsFiniteSet(Pins)
  /\ \A i, j \in DOMAIN Mappings : Mappings[i].pin = Mappings[j].pin => i = j
  /\ \A i \in DOMAIN Mappings : Mappings[i].formula # Nothing /\ Mappings[i].agent # Nothing
<1>1. DOMAIN Mappings = 1 .. Len(Mappings) /\ Len(Mappings) \in Nat
  <2>1. PICK S : Mappings \in Seq(S)
    BY PinAssumption
  <2>2. QED
    BY <2>1, LenProperties
<1>2. Pins \in SUBSET (0 .. 31) /\ IsFiniteSet(0 .. 31)
  <2>1. 0 \in Int /\ 31 \in Int
    OBVIOUS
  <2>2. IsFiniteSet(0 .. 31)
    BY <2>1, FS_Interval
  <2>3. QED
    BY <2>2, PinAssumption
<1>3. Pins \in SUBSET Nat /\ IsFiniteSet(Pins) /\ IsFiniteSet(DOMAIN Mappings)
  <2>1. IsFiniteSet(1 .. Len(Mappings))
    BY <1>1, FS_Interval
  <2>2. QED
    <3>1. 0 .. 31 \in SUBSET Nat
      OBVIOUS
    <3>2. IsFiniteSet(Pins)
      BY <1>2, FS_Subset
    <3>3. QED
      BY <1>1, <1>2, <2>1, <3>1, <3>2
<1>4. QED
  BY <1>1, <1>3, PinAssumption DEF Pins, Formulas

\* The pins of the calls before the present one.
Earlier == {Mappings[i].pin : i \in {i \in DOMAIN Mappings : i < client.call}}

-------------------------------------------------------------------------------
LEMMA InputInit == Init => Typed /\ MapsInv /\ AttachedInv /\ TaskInv
<1> SUFFICES ASSUME Init PROVE Typed /\ MapsInv /\ AttachedInv /\ TaskInv
  OBVIOUS
<1>1. /\ client.call = 1 /\ client.pc = "event" /\ task.pc = "none" /\ task.value = {}
      /\ attached = {} /\ notified = {}
  BY DEF Init
<1>2. Typed
  BY EmptySeq DEF Init, Typed
<1>3. MapsInv
  BY CallsOK DEF Init, MapsInv
<1>4. \A i \in DOMAIN Mappings : ~ i < 1 /\ i \in Nat
  BY PinAssumption, LenProperties
<1>5. AttachedInv
  BY <1>1, <1>4 DEF AttachedInv
<1>6. QED
  BY <1>1, <1>2, <1>3, <1>5 DEF TaskInv

\* The fields of the client after a step of map_input_pin.
LEMMA GotoIs ==
  ASSUME Typed, NEW pc \in {"event", "belief", "agent", "start", "attach"}, client' = Goto(pc)
  PROVE  /\ client' \in [call : Nat \ {0}, pc : {"event", "belief", "agent", "start", "attach"}]
         /\ client'.call = client.call /\ client'.pc = pc
BY DEF Typed, Goto

LEMMA MapTyped ==
  ASSUME Typed, MapPins
  PROVE  Typed'
<1>1. client.call \in DOMAIN Mappings /\ Mapping.pin \in Pins /\ Mapping.formula \in Formulas /\ Mapping.agent \in Agents
  BY CallsOK DEF MapPins, AddEvent, AddBelief, AddAgent, StartTask, AttachInterrupt, Step, Mapping
<1>2. client' \in [call : Nat \ {0}, pc : {"event", "belief", "agent", "start", "attach"}]
  <2>1. CASE AttachInterrupt
    BY <2>1 DEF AttachInterrupt, Step, Typed
  <2>2. CASE ~ AttachInterrupt
    BY <2>2, GotoIs DEF MapPins, AddEvent, AddBelief, AddAgent, StartTask, Step
  <2>3. QED
    BY <2>1, <2>2
<1>3. task' \in [pc : {"none", "wait", "post"}, value : SUBSET Pins, edges : [Pins -> Nat]]
  BY DEF MapPins, AddEvent, AddBelief, AddAgent, StartTask, AttachInterrupt, Typed
<1>4. /\ belief_map' \in [Pins -> Formulas \cup {Nothing}]
      /\ agent_map' \in [Pins -> Agents \cup {Nothing}]
      /\ attached' \in SUBSET Pins
  BY <1>1 DEF MapPins, AddEvent, AddBelief, AddAgent, StartTask, AttachInterrupt, Typed
<1>5. UNCHANGED <<notified, queue, edges>>
  BY DEF MapPins, AddEvent, AddBelief, AddAgent, StartTask, AttachInterrupt, agentVars
<1>6. QED
  BY <1>2, <1>3, <1>4, <1>5 DEF Typed

LEMMA MapMaps ==
  ASSUME Typed, MapsInv, MapPins
  PROVE  MapsInv'
<1>1. client.call \in DOMAIN Mappings
  BY DEF MapPins, AddEvent, AddBelief, AddAgent, StartTask, AttachInterrupt, Step
<1> DEFINE c == client.call
<1>2. ASSUME NEW i \in DOMAIN Mappings
      PROVE  /\ belief_map'[Mappings[i].pin] \in {belief_map[Mappings[i].pin], Mappings[i].formula}
             /\ agent_map'[Mappings[i].pin] \in {agent_map[Mappings[i].pin], Mappings[i].agent}
  <2>1. Mappings[i].pin \in Pins /\ Mappings[c].pin \in Pins
    BY <1>1, CallsOK
  <2>2. Mappings[i].pin = Mappings[c].pin => i = c
    BY <1>1, CallsOK
  <2>3. CASE AddBelief
    BY <2>1, <2>2, <2>3 DEF AddBelief, Mapping, Typed
  <2>4. CASE AddAgent
    BY <2>1, <2>2, <2>4 DEF AddAgent, Mapping, Typed
  <2>5. CASE AddEvent \/ StartTask \/ AttachInterrupt
    BY <2>5 DEF AddEvent, StartTask, AttachInterrupt
  <2>6. QED
    BY <2>3, <2>4, <2>5 DEF MapPins
<1>3. QED
  BY <1>2 DEF MapsInv

LEMMA MapTask ==
  ASSUME Typed, TaskInv, MapPins
  PROVE  TaskInv' /\ task'.value = task.value
BY DEF MapPins, AddEvent, AddBelief, AddAgent, StartTask, AttachInterrupt, TaskInv, Typed

\* The maps are filled in the order in which they are needed, and before the interrupt.
LEMMA MapAttached ==
  ASSUME Typed, MapsInv, TaskInv, AttachedInv, MapPins
  PROVE  AttachedInv'
<1> DEFINE c == client.call
<1>0. c \in DOMAIN Mappings /\ c \in Nat /\ UNCHANGED notified /\ task'.value = task.value
  BY MapTask DEF MapPins, AddEvent, AddBelief, AddAgent, StartTask, AttachInterrupt, Step, Typed
<1>1. /\ \A i \in DOMAIN Mappings : Mappings[i].pin \in Pins /\ i \in Nat
      /\ Mappings[c].formula # Nothing /\ Mappings[c].agent # Nothing
      /\ \A i \in DOMAIN Mappings : Mappings[i].pin = Mappings[c].pin => i = c
  BY <1>0, CallsOK
<1>2. CASE AttachInterrupt
  <2>1. /\ client.pc = "attach" /\ client'.call = c + 1 /\ client'.pc = "event"
        /\ attached' = attached \cup {Mappings[c].pin}
        /\ UNCHANGED <<belief_map, agent_map, task>>
    BY <1>2 DEF AttachInterrupt, Step, Mapping
  <2>2. \A i \in DOMAIN Mappings : i < c + 1 <=> i < c \/ i = c
    BY <1>0, <1>1
  <2>3. attached' = {Mappings[i].pin : i \in {i \in DOMAIN Mappings : i < c + 1}}
    BY <1>0, <2>1, <2>2 DEF AttachedInv
  <2>4. notified \cup task.value \subseteq attached'
    BY <2>1 DEF AttachedInv
  <2>5. task.pc # "none"
    BY <2>1 DEF AttachedInv
  <2> HIDE DEF c
  <2>6. \A i \in DOMAIN Mappings :
          i < c + 1 => belief_map[Mappings[i].pin] # Nothing /\ agent_map[Mappings[i].pin] # Nothing
    BY <2>1, <2>2 DEF AttachedInv, c
  <2>7. QED
    BY <1>0, <2>1, <2>3, <2>4, <2>5, <2>6 DEF AttachedInv
<1>3. CASE StartTask
  <2>1. /\ client.pc = "start" /\ client'.call = c /\ client'.pc = "attach"
        /\ UNCHANGED <<belief_map, agent_map, attached>> /\ task'.pc # "none"
    BY <1>3, GotoIs DEF StartTask, Step, Typed
  <2>2. QED
    BY <1>0, <2>1 DEF AttachedInv
<1>4. CASE AddAgent
  <2>1. /\ client.pc = "agent" /\ client'.call = c /\ client'.pc = "start"
        /\ UNCHANGED <<belief_map, attached, task>>
        /\ agent_map' = [agent_map EXCEPT ![Mappings[c].pin] = Mappings[c].agent]
    BY <1>4, GotoIs DEF AddAgent, Step, Mapping
  <2>2. \A i \in DOMAIN Mappings :
          agent_map'[Mappings[i].pin] = IF i = c THEN Mappings[c].agent ELSE agent_map[Mappings[i].pin]
    BY <1>1, <2>1 DEF Typed
  <2>3. QED
    BY <1>0, <1>1, <2>1, <2>2 DEF AttachedInv
<1>5. CASE AddBelief
  <2>1. /\ client.pc = "belief" /\ client'.call = c /\ client'.pc = "agent"
        /\ UNCHANGED <<agent_map, attached, task>>
        /\ belief_map' = [belief_map EXCEPT ![Mappings[c].pin] = Mappings[c].formula]
    BY <1>5, GotoIs DEF AddBelief, Step, Mapping
  <2>2. \A i \in DOMAIN Mappings :
          belief_map'[Mappings[i].pin] = IF i = c THEN Mappings[c].formula ELSE belief_map[Mappings[i].pin]
    BY <1>1, <2>1 DEF Typed
  <2>3. QED
    BY <1>0, <1>1, <2>1, <2>2 DEF AttachedInv
<1>6. CASE AddEvent
  <2>1. /\ client.pc = "event" /\ client'.call = c /\ client'.pc = "belief"
        /\ UNCHANGED <<agent_map, belief_map, attached, task>>
    BY <1>6, GotoIs DEF AddEvent, Step, Mapping
  <2>2. QED
    BY <1>0, <2>1 DEF AttachedInv
<1>7. QED
  BY <1>2, <1>3, <1>4, <1>5, <1>6 DEF MapPins

-------------------------------------------------------------------------------
\* An input with an interrupt has a task and its places in both maps.
LEMMA AttachedPin ==
  ASSUME Typed, AttachedInv, NEW p \in attached
  PROVE  /\ client.call > 1 /\ task.pc # "none"
         /\ belief_map[p] # Nothing /\ agent_map[p] # Nothing
<1>1. PICK i \in DOMAIN Mappings : i < client.call /\ Mappings[i].pin = p
  BY DEF AttachedInv
<1>2. client.call > 1
  <2>1. i \in 1 .. Len(Mappings) /\ client.call \in Nat
    BY <1>1, PinAssumption, LenProperties DEF Typed
  <2>2. QED
    BY <1>1, <2>1
<1>3. QED
  BY <1>1, <1>2 DEF AttachedInv

\* The next bit is a bit.
LEMMA NextBit ==
  ASSUME Typed, task.value # {}
  PROVE  Min(task.value) \in task.value
<1>1. task.value \in SUBSET Nat
  BY CallsOK DEF Typed
<1>2. PICK m \in task.value : \A k \in task.value : m <= k
  BY <1>1, LeastMember
<1>3. QED
  BY <1>2 DEF Min

LEMMA SendStep ==
  ASSUME Typed, MapsInv, AttachedInv, TaskInv, NEW p \in Pins, SendEvent(p)
  PROVE  /\ Typed' /\ MapsInv' /\ AttachedInv' /\ TaskInv'
         /\ notified' = notified \cup {p} /\ UNCHANGED crashed
<1>1. p \in attached /\ task.pc # "none"
  BY AttachedPin DEF SendEvent
<1>2. /\ notified' = notified \cup {p} /\ UNCHANGED crashed
      /\ edges' = [edges EXCEPT ![p] = @ + 1]
      /\ UNCHANGED <<client, belief_map, agent_map, attached, task, queue>>
  BY <1>1 DEF SendEvent, clientVars, agentVars
<1>3. Typed'
  BY <1>2 DEF Typed
<1>4. MapsInv' /\ TaskInv'
  BY <1>2 DEF MapsInv, TaskInv
<1>5. AttachedInv'
  BY <1>1, <1>2 DEF AttachedInv
<1>6. QED
  BY <1>2, <1>3, <1>4, <1>5

LEMMA WaitStep ==
  ASSUME Typed, MapsInv, AttachedInv, TaskInv, Wait
  PROVE  Typed' /\ MapsInv' /\ AttachedInv' /\ TaskInv'
<1>1. /\ task'.pc = "post" /\ task'.value = notified /\ notified # {} /\ notified' = {}
      /\ task' = [pc |-> "post", value |-> notified, edges |-> edges]
      /\ UNCHANGED <<client, belief_map, agent_map, attached, queue, edges>>
  BY DEF Wait, clientVars, agentVars
<1>2. Typed'
  BY <1>1 DEF Typed
<1>3. MapsInv' /\ TaskInv'
  BY <1>1 DEF MapsInv, TaskInv
<1>4. AttachedInv'
  BY <1>1 DEF AttachedInv
<1>5. QED
  BY <1>2, <1>3, <1>4

\* What Post does with the bit p.
LEMMA PostIs ==
  ASSUME Typed, TaskInv, Post, NEW p, p = Min(task.value)
  PROVE  /\ p \in task.value /\ p \in Pins
         /\ agent_map[p] \in Agents /\ belief_map[p] \in Formulas
         /\ Tell(agent_map[p], belief_map[p])
         /\ task'.value = task.value \ {p}
         /\ task'.pc = IF task.value \ {p} = {} THEN "wait" ELSE "post"
         /\ task' \in [pc : {"none", "wait", "post"}, value : SUBSET Pins, edges : [Pins -> Nat]]
         /\ UNCHANGED <<client, belief_map, agent_map, attached, notified, edges, crashed>>
<1>1. task.pc = "post" /\ task.value # {}
  BY DEF Post, TaskInv
<1>2. p \in task.value /\ p \in Pins
  BY <1>1, NextBit DEF Typed
<1>3. agent_map[p] # Nothing /\ belief_map[p] # Nothing /\ Tell(agent_map[p], belief_map[p])
  BY DEF Post
<1> DEFINE rest == task.value \ {p}
<1>4. task' = [task EXCEPT !.value = rest, !.pc = IF rest = {} THEN "wait" ELSE "post"]
  BY DEF Post
<1>5. rest \in SUBSET Pins
  BY DEF Typed
<1> HIDE DEF rest
<1>6. /\ task'.value = rest /\ task'.pc = IF rest = {} THEN "wait" ELSE "post"
      /\ task' \in [pc : {"none", "wait", "post"}, value : SUBSET Pins, edges : [Pins -> Nat]]
  BY <1>4, <1>5 DEF Typed
<1>7. QED
  BY <1>2, <1>3, <1>6 DEF Typed, rest, Post, clientVars

LEMMA PostStep ==
  ASSUME Typed, MapsInv, AttachedInv, TaskInv, Post
  PROVE  Typed' /\ MapsInv' /\ AttachedInv' /\ TaskInv'
<1>0. PICK p : p = Min(task.value)
  OBVIOUS
<1>1. /\ agent_map[p] \in Agents /\ belief_map[p] \in Formulas
      /\ Tell(agent_map[p], belief_map[p])
      /\ task'.value = task.value \ {p}
      /\ task'.pc = IF task.value \ {p} = {} THEN "wait" ELSE "post"
      /\ task' \in [pc : {"none", "wait", "post"}, value : SUBSET Pins, edges : [Pins -> Nat]]
      /\ UNCHANGED <<client, belief_map, agent_map, attached, notified, edges>>
  BY <1>0, PostIs
<1>2. queue' \in [Agents -> Seq(Formulas)]
  <2>1. queue[agent_map[p]] \in Seq(Formulas)
    BY <1>1 DEF Typed
  <2>2. Append(queue[agent_map[p]], belief_map[p]) \in Seq(Formulas)
    BY <1>1, <2>1
  <2>3. QED
    BY <1>1, <2>2 DEF Tell, Typed
<1>3. Typed'
  BY <1>1, <1>2 DEF Typed
<1>4. MapsInv' /\ TaskInv'
  BY <1>1 DEF MapsInv, TaskInv
<1>5. AttachedInv'
  <2>1. notified' \cup task'.value \subseteq attached'
    BY <1>1 DEF AttachedInv
  <2>2. task'.pc # "none"
    BY <1>1
  <2>3. QED
    BY <1>1, <2>1, <2>2 DEF AttachedInv
<1>6. QED
  BY <1>3, <1>4, <1>5

\* The inductive invariant of the maps, the interrupts and the task.
InputInv == Typed /\ MapsInv /\ AttachedInv /\ TaskInv

LEMMA InputStep == InputInv /\ [Next]_vars => InputInv'
<1> SUFFICES ASSUME InputInv, [Next]_vars PROVE InputInv'
  OBVIOUS
<1>1. Typed /\ MapsInv /\ AttachedInv /\ TaskInv
  BY DEF InputInv
<1>2. CASE MapPins
  BY <1>1, <1>2, MapTyped, MapMaps, MapTask, MapAttached DEF InputInv
<1>3. ASSUME NEW p \in Pins, SendEvent(p) PROVE InputInv'
  BY <1>1, <1>3, SendStep DEF InputInv
<1>4. CASE Wait
  BY <1>1, <1>4, WaitStep DEF InputInv
<1>5. CASE Post
  BY <1>1, <1>5, PostStep DEF InputInv
<1>6. CASE PostCrashes \/ UNCHANGED vars
  <2>1. UNCHANGED <<client, belief_map, agent_map, attached, notified, task, queue, edges>>
    BY <1>6 DEF PostCrashes, vars, clientVars, agentVars
  <2>2. Typed' /\ MapsInv'
    BY <1>1, <2>1 DEF Typed, MapsInv
  <2>3. AttachedInv' /\ TaskInv'
    BY <1>1, <2>1 DEF AttachedInv, TaskInv
  <2>4. QED
    BY <2>2, <2>3 DEF InputInv
<1>7. QED
  BY <1>2, <1>3, <1>4, <1>5, <1>6 DEF Next

\* Every interrupt has a task and every bit an agent: the maps are complete for the pins
\* that have an interrupt (sensor_lib.h:53-74).
THEOREM InputInvariant == Spec => []InputInv
<1>1. Init => InputInv
  BY InputInit DEF InputInv
<1>2. QED
  BY <1>1, InputStep, PTL DEF Spec

\* The first crash is in the race of a pin that is added, and then nothing changes.
LEMMA CrashStep == InputInv /\ CrashNeedsRace /\ [Next]_vars => CrashNeedsRace'
<1> SUFFICES ASSUME InputInv, CrashNeedsRace, [Next]_vars, crashed'
             PROVE  client'.call > 1 /\ Inserting'
  BY DEF CrashNeedsRace
<1>1. Typed /\ MapsInv /\ AttachedInv /\ TaskInv
  BY DEF InputInv
<1>2. CASE crashed
  <2>1. UNCHANGED client
    BY <1>2 DEF Next, MapPins, AddEvent, AddBelief, AddAgent, StartTask, AttachInterrupt, Step,
      SendEvent, Wait, Post, PostCrashes, vars, clientVars
  <2>2. QED
    BY <1>2, <2>1 DEF CrashNeedsRace, Inserting
<1>3. CASE ~ crashed
  <2>1. ASSUME NEW p \in Pins, SendEvent(p) PROVE UNCHANGED crashed
    BY <1>1, <2>1, SendStep
  <2>2. PostCrashes
    BY <1>3, <2>1 DEF Next, MapPins, AddEvent, AddBelief, AddAgent, StartTask, AttachInterrupt,
      Wait, Post, vars
  <2>3. task.value # {} /\ Min(task.value) \in attached
    BY <1>1, <2>2, NextBit DEF PostCrashes, TaskInv, AttachedInv
  <2>4. PICK p \in attached : p = Min(task.value)
    BY <2>3
  <2>5. client.call > 1 /\ belief_map[p] # Nothing /\ agent_map[p] # Nothing
    BY <1>1, AttachedPin
  <2>6. Inserting /\ UNCHANGED client
    BY <2>2, <2>4, <2>5 DEF PostCrashes, clientVars
  <2>7. QED
    BY <2>5, <2>6 DEF Inserting
<1>4. QED
  BY <1>2, <1>3

\* A program crashes only while a pin is inserted after another has its interrupt.
THEOREM CrashesNeedRaces == Spec => []CrashNeedsRace
<1>1. Init => CrashNeedsRace
  BY DEF Init, CrashNeedsRace
<1>2. QED
  BY <1>1, InputInvariant, CrashStep, PTL DEF Spec

-------------------------------------------------------------------------------
\* The places of an element in a sequence, and one more when it is appended.
Places(s, f) == {i \in DOMAIN s : s[i] = f}

LEMMA PlacesAppend ==
  ASSUME NEW S, NEW s \in Seq(S), NEW g \in S, NEW f
  PROVE  /\ Cardinality(Places(s, f)) \in Nat
         /\ Cardinality(Places(Append(s, g), f)) = Cardinality(Places(s, f)) + (IF f = g THEN 1 ELSE 0)
<1> DEFINE t == Append(s, g)
           n == Len(s)
<1>1. /\ n \in Nat /\ DOMAIN s = 1 .. n /\ DOMAIN t = 1 .. n + 1
      /\ t[n + 1] = g /\ \A i \in 1 .. n : t[i] = s[i]
  OBVIOUS
<1>2. IsFiniteSet(Places(s, f)) /\ Cardinality(Places(s, f)) \in Nat /\ n + 1 \notin Places(s, f)
  <2>1. IsFiniteSet(1 .. n)
    <3>1. 1 \in Int /\ n \in Int
      BY <1>1
    <3>2. QED
      BY <3>1, FS_Interval
  <2>2. Places(s, f) \in SUBSET (1 .. n) /\ n + 1 \notin 1 .. n
    BY <1>1 DEF Places
  <2>3. QED
    BY <2>1, <2>2, FS_Subset, FS_CardinalityType
<1> HIDE DEF t, n
<1>3. \A i \in 1 .. n + 1 : i \in 1 .. n \/ i = n + 1
  BY <1>1
<1>4. 1 .. n \in SUBSET (1 .. n + 1) /\ n + 1 \in 1 .. n + 1
  BY <1>1
<1>5. CASE f = g
  <2>1. Places(t, f) = Places(s, f) \cup {n + 1}
    BY <1>1, <1>3, <1>4, <1>5 DEF Places
  <2>2. QED
    BY <1>2, <1>5, <2>1, FS_AddElement DEF t
<1>6. CASE f # g
  <2>1. Places(t, f) = Places(s, f)
    BY <1>1, <1>3, <1>4, <1>6 DEF Places
  <2>2. QED
    BY <1>2, <1>6, <2>1 DEF t
<1>7. QED
  BY <1>2, <1>5, <1>6 DEF t

LEMMA EventsArePlaces ==
  ASSUME NEW a \in Agents, NEW f
  PROVE  EventsOf(a, f) = Places(queue[a], f)
BY DEF EventsOf, Places

\* A set of pins is finite, and a bit that is set or cleared counts one.
LEMMA BitCount ==
  ASSUME NEW P \in SUBSET Pins, NEW B \in SUBSET Pins, NEW p \in Pins
  PROVE  /\ Cardinality(P \cap B) \in Nat
         /\ Cardinality(P \cap (B \cup {p})) <= Cardinality(P \cap B) + (IF p \in P THEN 1 ELSE 0)
         /\ p \in B => Cardinality(P \cap (B \ {p})) = Cardinality(P \cap B) - (IF p \in P THEN 1 ELSE 0)
<1>1. IsFiniteSet(P \cap B) /\ Cardinality(P \cap B) \in Nat
  BY CallsOK, FS_Subset, FS_CardinalityType
<1>2. CASE p \in P
  <2>1. P \cap (B \cup {p}) = (P \cap B) \cup {p}
    BY <1>2
  <2>2. Cardinality((P \cap B) \cup {p}) <= Cardinality(P \cap B) + 1
    BY <1>1, FS_AddElement
  <2>3. P \cap (B \ {p}) = (P \cap B) \ {p}
    OBVIOUS
  <2>4. p \in B => Cardinality((P \cap B) \ {p}) = Cardinality(P \cap B) - 1
    BY <1>1, <1>2, FS_RemoveElement
  <2>5. QED
    BY <1>1, <1>2, <2>1, <2>2, <2>3, <2>4
<1>3. CASE p \notin P
  <2>1. P \cap (B \cup {p}) = P \cap B
    BY <1>3
  <2>2. P \cap (B \ {p}) = P \cap B
    BY <1>3
  <2>3. /\ Cardinality(P \cap (B \cup {p})) = Cardinality(P \cap B)
        /\ Cardinality(P \cap (B \ {p})) = Cardinality(P \cap B)
    BY <2>1, <2>2
  <2>4. (IF p \in P THEN 1 ELSE 0) = 0
    BY <1>3
  <2>5. QED
    BY <1>1, <2>3, <2>4
<1>4. QED
  BY <1>2, <1>3

LEMMA EdgesFinite ==
  ASSUME NEW P \in SUBSET Pins
  PROVE  IsFiniteSet(EdgesOf(P)) /\ Cardinality(EdgesOf(P)) \in Nat
<1>1. IsFiniteSet(P) /\ IsFiniteSet(1 .. MaxEdges)
  <2>1. IsFiniteSet(P)
    BY CallsOK, FS_Subset
  <2>2. 1 \in Int /\ MaxEdges \in Int
    BY BoundAssumption
  <2>3. QED
    BY <2>1, <2>2, FS_Interval
<1>2. IsFiniteSet(P \X (1 .. MaxEdges))
  BY <1>1, FS_Product
<1>3. EdgesOf(P) \in SUBSET (P \X (1 .. MaxEdges))
  BY DEF EdgesOf
<1>4. QED
  BY <1>2, <1>3, FS_Subset, FS_CardinalityType

\* An edge counts one for the pins it belongs to.
LEMMA EdgeCount ==
  ASSUME Typed, NEW P \in SUBSET Pins, NEW p \in Pins, SendEvent(p)
  PROVE  Cardinality(EdgesOf(P)') = Cardinality(EdgesOf(P)) + (IF p \in P THEN 1 ELSE 0)
<1> DEFINE n == edges[p] + 1
<1>1. /\ edges' = [edges EXCEPT ![p] = n] /\ edges[p] \in Nat /\ n \in 1 .. MaxEdges /\ ~ n <= edges[p]
  BY BoundAssumption DEF SendEvent, Typed
<1> HIDE DEF n
<1>2. \A q \in Pins : edges'[q] = IF q = p THEN n ELSE edges[q]
  BY <1>1 DEF Typed
<1>3. \A k \in 1 .. MaxEdges : k <= n <=> k <= edges[p] \/ k = n
  BY <1>1 DEF n
<1>4. \A e \in P \X (1 .. MaxEdges) : e[1] \in P /\ e[2] \in 1 .. MaxEdges /\ e = <<e[1], e[2]>>
  OBVIOUS
<1>5. EdgesOf(P)' = {e \in P \X (1 .. MaxEdges) : e[2] <= edges'[e[1]]}
  BY DEF EdgesOf
<1>6. CASE p \in P
  <2>1. <<p, n>> \in P \X (1 .. MaxEdges) /\ <<p, n>>[1] = p /\ <<p, n>>[2] = n
    BY <1>1, <1>6
  <2>2. <<p, n>> \notin EdgesOf(P)
    BY <1>1, <2>1 DEF EdgesOf
  <2>3. ASSUME NEW e \in P \X (1 .. MaxEdges)
        PROVE  e[2] <= edges'[e[1]] <=> e[2] <= edges[e[1]] \/ e = <<p, n>>
    <3>1. CASE e[1] = p
      BY <1>2, <1>3, <1>4, <2>1, <3>1
    <3>2. CASE e[1] # p
      BY <1>2, <1>4, <2>1, <3>2
    <3>3. QED
      BY <3>1, <3>2
  <2>4. EdgesOf(P)' = EdgesOf(P) \cup {<<p, n>>}
    BY <1>5, <2>1, <2>3 DEF EdgesOf
  <2>5. QED
    BY <1>6, <2>2, <2>4, EdgesFinite, FS_AddElement
<1>7. CASE p \notin P
  <2>1. \A e \in P \X (1 .. MaxEdges) : edges'[e[1]] = edges[e[1]]
    BY <1>2, <1>4, <1>7
  <2>2. EdgesOf(P)' = EdgesOf(P)
    BY <1>5, <2>1 DEF EdgesOf
  <2>3. QED
    BY <1>7, <2>2, EdgesFinite
<1>8. QED
  BY <1>6, <1>7

\* The pins of formula f of agent a are those for which the maps say so.
LEMMA PinsForIs ==
  ASSUME MapsInv, NEW p \in Pins, agent_map[p] # Nothing, belief_map[p] # Nothing,
         NEW a \in Agents, NEW f \in Formulas
  PROVE  p \in PinsFor(a, f) <=> agent_map[p] = a /\ belief_map[p] = f
<1>1. PICK i \in DOMAIN Mappings : Mappings[i].pin = p
  BY CallsOK
<1>2. agent_map[p] = Mappings[i].agent /\ belief_map[p] = Mappings[i].formula
  BY <1>1 DEF MapsInv
<1>3. \A j \in DOMAIN Mappings : Mappings[j].pin = p => j = i
  BY <1>1, CallsOK
<1>4. QED
  BY <1>1, <1>2, <1>3 DEF PinsFor

\* A step gives an event for a bit and a bit for an edge.
LEMMA SpuriousStep == InputInv /\ NoSpuriousEvents /\ [Next]_vars => NoSpuriousEvents'
<1> SUFFICES ASSUME InputInv, NoSpuriousEvents, [Next]_vars, NEW a \in Agents, NEW f \in Formulas
             PROVE  LET pins == PinsFor(a, f) IN
                      Cardinality(EventsOf(a, f)') + Cardinality(pins \cap notified')
                        + Cardinality(pins \cap task'.value)
                      <= Cardinality(EdgesOf(pins)')
  BY DEF NoSpuriousEvents
<1>0. Typed /\ MapsInv /\ AttachedInv /\ TaskInv
  BY DEF InputInv
<1>1. PICK P : P = PinsFor(a, f)
  OBVIOUS
<1>2. /\ P \in SUBSET Pins
      /\ Cardinality(EventsOf(a, f)) + Cardinality(P \cap notified) + Cardinality(P \cap task.value)
           <= Cardinality(EdgesOf(P))
  <2>1. P \in SUBSET Pins
    BY <1>1, CallsOK DEF PinsFor
  <2>2. QED
    BY <1>1, <2>1 DEF NoSpuriousEvents
<1>3. /\ queue[a] \in Seq(Formulas) /\ notified \in SUBSET Pins /\ task.value \in SUBSET Pins
      /\ Cardinality(EventsOf(a, f)) \in Nat /\ Cardinality(EdgesOf(P)) \in Nat
      /\ Cardinality(P \cap notified) \in Nat /\ Cardinality(P \cap task.value) \in Nat
  <2>1. queue[a] \in Seq(Formulas) /\ notified \in SUBSET Pins /\ task.value \in SUBSET Pins
    BY <1>0 DEF Typed
  <2>2. Cardinality(EventsOf(a, f)) \in Nat
    BY <2>1, PlacesAppend, EventsArePlaces
  <2>3. IsFiniteSet(P \cap notified) /\ IsFiniteSet(P \cap task.value)
    BY <1>2, CallsOK, FS_Subset
  <2>4. QED
    BY <1>2, <2>1, <2>2, <2>3, EdgesFinite, FS_CardinalityType
<1> SUFFICES Cardinality(EventsOf(a, f)') + Cardinality(P \cap notified') + Cardinality(P \cap task'.value)
               <= Cardinality(EdgesOf(P)')
  BY <1>1
<1>4. CASE UNCHANGED <<queue, notified, edges>> /\ task'.value = task.value
  BY <1>2, <1>4 DEF EventsOf, EdgesOf
<1>5. CASE MapPins
  <2>1. UNCHANGED <<queue, notified, edges>> /\ task'.value = task.value
    BY <1>0, <1>5, MapTask DEF MapPins, AddEvent, AddBelief, AddAgent, StartTask, AttachInterrupt, agentVars
  <2>2. QED
    BY <1>4, <2>1
<1>6. ASSUME NEW p \in Pins, SendEvent(p)
      PROVE  Cardinality(EventsOf(a, f)') + Cardinality(P \cap notified') + Cardinality(P \cap task'.value)
               <= Cardinality(EdgesOf(P)')
  <2>1. UNCHANGED <<queue, task>> /\ notified' = notified \cup {p}
    BY <1>0, <1>6, SendStep DEF SendEvent, agentVars
  <2>2. Cardinality(EdgesOf(P)') = Cardinality(EdgesOf(P)) + (IF p \in P THEN 1 ELSE 0)
    BY <1>0, <1>2, <1>6, EdgeCount
  <2>3. /\ Cardinality(P \cap notified') <= Cardinality(P \cap notified) + (IF p \in P THEN 1 ELSE 0)
        /\ Cardinality(P \cap notified') \in Nat
    <3>1. notified' \in SUBSET Pins
      BY <1>3, <2>1
    <3>2. QED
      BY <1>2, <1>3, <2>1, <3>1, BitCount
  <2>4. EventsOf(a, f)' = EventsOf(a, f) /\ task'.value = task.value
    BY <2>1 DEF EventsOf
  <2>5. QED
    BY <1>2, <1>3, <2>2, <2>3, <2>4
<1>7. CASE Wait
  <2>1. UNCHANGED <<queue, edges>> /\ task'.value = notified /\ notified' = {} /\ task.value = {}
    BY <1>0, <1>7 DEF Wait, TaskInv, agentVars
  <2>2. EventsOf(a, f)' = EventsOf(a, f) /\ EdgesOf(P)' = EdgesOf(P)
    BY <2>1 DEF EventsOf, EdgesOf
  <2>3. Cardinality(P \cap notified') = Cardinality(P \cap task.value)
    BY <2>1
  <2>4. Cardinality(P \cap task'.value) = Cardinality(P \cap notified)
    BY <2>1
  <2>5. QED
    BY <1>2, <1>3, <2>2, <2>3, <2>4
<1>8. CASE Post
  <2>0. PICK p : p = Min(task.value)
    OBVIOUS
  <2>1. /\ p \in task.value /\ p \in Pins /\ agent_map[p] \in Agents /\ belief_map[p] \in Formulas
        /\ Tell(agent_map[p], belief_map[p]) /\ task'.value = task.value \ {p}
        /\ UNCHANGED <<notified, edges, belief_map, agent_map>>
    BY <1>0, <1>8, <2>0, PostIs
  <2>2. p \in P <=> agent_map[p] = a /\ belief_map[p] = f
    <3>1. agent_map[p] # Nothing /\ belief_map[p] # Nothing
      BY <1>8, <2>0 DEF Post
    <3>2. QED
      BY <1>0, <1>1, <2>1, <3>1, PinsForIs
  <2>3. /\ Cardinality(P \cap task'.value)
             = Cardinality(P \cap task.value) - (IF p \in P THEN 1 ELSE 0)
    <3>1. P \in SUBSET Pins /\ task.value \in SUBSET Pins /\ p \in Pins /\ p \in task.value
      BY <1>2, <1>3, <2>1
    <3>2. Cardinality(P \cap (task.value \ {p}))
            = Cardinality(P \cap task.value) - (IF p \in P THEN 1 ELSE 0)
      BY <3>1, BitCount
    <3>3. QED
      BY <2>1, <3>2
  <2>4. /\ Cardinality(EventsOf(a, f)') <= Cardinality(EventsOf(a, f)) + (IF p \in P THEN 1 ELSE 0)
        /\ Cardinality(EventsOf(a, f)') \in Nat
    <3>1. CASE queue'[a] = queue[a]
      <4>1. EventsOf(a, f)' = EventsOf(a, f)
        BY <3>1 DEF EventsOf
      <4>2. QED
        BY <1>3, <4>1
    <3>2. CASE agent_map[p] = a /\ queue'[a] = Append(queue[a], belief_map[p])
      <4>1. EventsOf(a, f)' = Places(queue'[a], f)
        BY DEF EventsOf, Places
      <4>2. Cardinality(Places(Append(queue[a], belief_map[p]), f))
              = Cardinality(Places(queue[a], f)) + (IF f = belief_map[p] THEN 1 ELSE 0)
        BY <1>3, <2>1, PlacesAppend
      <4>3. EventsOf(a, f) = Places(queue[a], f)
        BY EventsArePlaces
      <4>4. QED
        BY <1>3, <2>2, <3>2, <4>1, <4>2, <4>3
    <3>3. queue'[a] = queue[a] \/ (agent_map[p] = a /\ queue'[a] = Append(queue[a], belief_map[p]))
      BY <1>0, <2>1 DEF Tell, Typed
    <3>4. QED
      BY <3>1, <3>2, <3>3
  <2>5. EdgesOf(P)' = EdgesOf(P)
    BY <2>1 DEF EdgesOf
  <2>6. QED
    BY <1>2, <1>3, <2>1, <2>3, <2>4, <2>5
<1>9. CASE PostCrashes \/ UNCHANGED vars
  BY <1>4, <1>9 DEF PostCrashes, vars, agentVars
<1>10. QED
  BY <1>5, <1>6, <1>7, <1>8, <1>9 DEF Next

\* An agent is told of no edge that was not there, however its pins and those of others
\* share formulas and edges are merged (sensor_lib.cpp:34-45, 64-87).
THEOREM EventsHaveEdges == Spec => []NoSpuriousEvents
<1>1. ASSUME Init PROVE NoSpuriousEvents
  <2>1. /\ \A a \in Agents : queue[a] = <<>>
        /\ notified = {} /\ task.value = {}
    BY <1>1 DEF Init
  <2>2. ASSUME NEW a \in Agents, NEW f \in Formulas
        PROVE  LET pins == PinsFor(a, f) IN
                 Cardinality(EventsOf(a, f)) + Cardinality(pins \cap notified)
                   + Cardinality(pins \cap task.value)
                 <= Cardinality(EdgesOf(pins))
    <3> DEFINE pins == PinsFor(a, f)
    <3>1. pins \in SUBSET Pins
      BY CallsOK DEF PinsFor
    <3>2. Cardinality(EdgesOf(pins)) \in Nat
      BY <3>1, EdgesFinite
    <3>3. EventsOf(a, f) = {} /\ pins \cap notified = {} /\ pins \cap task.value = {}
      BY <2>1 DEF EventsOf
    <3>4. /\ Cardinality(EventsOf(a, f)) = 0 /\ Cardinality(pins \cap notified) = 0
          /\ Cardinality(pins \cap task.value) = 0
      BY <3>3, FS_EmptySet
    <3> HIDE DEF pins
    <3>5. QED
      BY <3>2, <3>4 DEF pins
  <2>3. QED
    BY <2>2 DEF NoSpuriousEvents
<1>2. QED
  BY <1>1, InputInvariant, SpuriousStep, PTL DEF Spec
===============================================================================
