# A TLA+ model of DEMOCLE

DEMOCLE is a C++ library for declarative agents. An agent has beliefs and
plans. A plan is triggered by an event (a belief was added or removed, a reactor
was posted, a procedure was called), may have a condition over the beliefs, and
has a body in C++. Every agent has an engine that runs in a thread of its own;
other threads (the main program, sensors, other engines, the TCP server) post
events to it and change its beliefs. The library is in `src/lib/democle`; file
names below are relative to that directory, and `tests/` is `src/tests`.

This directory holds TLA+ modules that model the library, TLC configurations
that check them on small instances, and proofs, checked by TLAPS, of the
properties of the parts on which everything else rests.

## 1. The system

| Component | State | Operations | Modules |
|---|---|---|---|
| Event queue (`tsqueue.h`) | the queue, a mutex, a condition variable | `push`, `pop` | `EventChannel`, `TSQueue`, `TSQueue_proofs` |
| Knowledge base and engine operators (`engine.cpp`) | name to vector of formulas, a mutex | `assert_belief`, `retract_belief`, `get_matching_beliefs`; `+`, `-`, `<<` | `BeliefBase`, `BeliefEvents`, `BeliefBase_proofs` |
| Formulas, matching, predicates (`democle_types.cpp`, `predicates.h`) | bindings of variables in a `Context` | `match_and_bind`, `match_ground`, `make_ground`, predicates | `Matching` |
| Conditions (`condition.cpp`) | two arrays of contexts | `Condition::eval` | `ConditionEval`, `ConditionJoin`, `ReasoningCycle`, `ReasoningCycle_proofs` |
| Reasoning cycle (`engine.cpp`, `plan.cpp`, `context.cpp`, `intention.h`, `context_collector.cpp`) | activations of `execute_event`, contexts on the heap, the collector's set | `run`, `execute_event`, nested procedure calls, cut, `empty` | `Engine`, `ReasoningCycle`, `ReasoningCycle_proofs` |
| Messaging (`messaging.cpp`, `democle.cpp`) | registry of agents and of protocols | `c + (dest, msg)`, `put_message_in_queue` | `MessageBus`, `Messaging`, `Messaging_proofs` |
| Agents (`agent.cpp`, `engine.h`, the operators that build plans) | accepted messages, plans, sensors, `Engine::current` | construction, `accepts`, `start`, `run()` | `AgentStart`, `AgentStart_proofs`, `Messaging` (`accepts`) |
| Timers (`sensor.cpp`, `sensor_lib.cpp`) | a thread per sensor | `attach`, `start`, `sense` | `AgentStart`, `AgentStart_proofs` |
| Digital inputs (`sensor_lib.cpp`, embedded build) | two maps of pins, the notification value of a task | `map_input_pin`, `add`, `send_event`, `run` | `DigitalInputs`, `DigitalInputs_proofs` |
| TCP protocol (`tcp_protocol.cpp`) | the listening socket, one connection at a time, a buffer | `run`, `send_message` | `Messaging` (partly), `Messaging_proofs` |
| Packets (`packet.cpp`, `binary_stream.h`) | a buffer of 256 bytes | `put`, `get`, `fill` | `PacketCodec`, `Wire`, `Data_proofs` |
| URLs (`url.cpp`) | none | `parse` | `UrlParse`, `Data_proofs` |
| Values (`flexi_type.cpp`, `flexi_type.h`) | a type and a member for each type | constructors, `set`, `=`, comparisons | `Values`, `Data_proofs` |
| Goals (`goal.cpp`) | a list nobody reads | `<<` | none |

How they interact. A client thread calls `+`, `-` or `<<` of an engine: the
knowledge base is changed under its own mutex, the mutex is released, and the
event is pushed to the queue under the queue's mutex. The engine's thread pops
the event and tests every plan against it; each triggered plan evaluates its
condition, which locks the knowledge base once for every element and context;
then the bodies run until one is not cut. A body calls the same operators of
its own engine, calls procedures, which runs `execute_event` inside
`execute_event`, or sends messages. A message to a plain name is put in the
queue of the other agent by the sender's thread; a message to a URL passes over
TCP and is put there by the TCP thread of the other process. All of them share
the process: an exception that is not caught in any thread ends it.

What is hard here: any number of threads change the beliefs while the engine
joins over them; the change and its event are two steps; contexts are deleted by
hand at many places while activations are nested; formulas of plans are shared
mutable objects that get bound and unbound; processes start their TCP thread
before their agents; one static variable says to which engine a plan belongs;
interrupts come while their task works; and peers end at any moment. `PROJECT.json` lists these
hazards at their lines with the properties that cover them.

What makes each part correct:

* queue: a FIFO channel, no pop of an empty queue, no lost wake-up, no item left;
* knowledge base: no duplicates, and events that account for every change;
* conditions: exactly the solutions of the join, in the order of the beliefs;
* reasoning cycle: events are executed one at a time in the order of the queue, by
  the applicable plans in the order of the plans until one is not cut; every
  context is used while it is alive and deleted once, nothing is kept between
  events, and the engine always returns to its queue;
* messages: the right agent gets the right message with a sender that can be
  answered, exactly once and in the order sent; senders are not held for ever; no
  process of started agents is ended;
* start-up: an engine has the plans of its own agent, all of them, before its first
  event; timers go on ticking; every edge of an input is answered, and only edges;
* data: a message comes back from its packet, a URL from its text, and values of one
  type compare as they should.

## 2. Modules

```
EventChannel <--refines-- TSQueue           Matching            UrlParse  PacketCodec
                             |                 |                    |     |
                      TSQueue_proofs      ConditionEval              Wire      Values
                                          |    |     \               |  |      |  |
BeliefBase                     ConditionJoin   |    Engine           | MC_Data-+  |
    |                              |    |      |      |              |            |
BeliefEvents -- BeliefBase_proofs  |    |      |  +refines+          +Data_proofs-+
                                   |    |      |  |
                    MC_ConditionEval    |   ReasoningCycle   MessageBus <--refines-- Messaging
                                        |      |                                        |
                              ReasoningCycle_proofs                          Messaging_proofs

Subsequences -- used by Matching, Messaging, AgentStart                     Messaging_proofs
     |
Subsequences_proofs -- used by the proofs of ReasoningCycle, Messaging, AgentStart,
                       DigitalInputs and Data

AgentStart -- AgentStart_proofs         DigitalInputs -- DigitalInputs_proofs
```

Arrows up and down are EXTENDS, except for `refines`, which is an INSTANCE.
`MC_*` modules extend a component and give its constants for TLC. Definitions
that start with "Fault:" in their comment are variants of the definition below
them with a plausible bug; they are used by no specification and show that the
properties can be violated (`mutants` in `PROJECT.json`).

**EventChannel** is what the queue promises: a send appends, a receive takes the
head, one at a time.

**TSQueue** is `push` and `pop` at the grain of the mutex and the condition
variable. `pc` says where a thread is; a thread that waits for `m_cond` has pc
"wait"; `notify_one` wakes one of them, and a spurious wake-up may wake any.
Engines have one popper, but the template does not demand it, so poppers are a
set. `ImplementsChannel` is the refinement: `m_queue` is the channel.

**BeliefBase** is `operator+`, `-` and `<<` called by any threads. The vectors of
formulas are abstracted to the number of copies of each formula, which is what
duplicates and balance need. Formulas that `match_ground` can never match (a
variable without a value leaves a term without a type) are in the model:
`Matchable` excludes them. The queue takes one step here, which `TSQueue` allows.
**BeliefEvents** adds the history of the formulas on which two operators have overlapped:
for the others the events tell what the knowledge base holds.

**Matching** has formulas as records of a name and terms, and bindings as
functions; it translates `match_and_bind`, `make_ground`, `is_bound` and the
predicates. Values are of one type; what happens with several is in `Values`.

**ConditionEval** is `Condition::eval` over a knowledge base that is not changed
meanwhile, as a recursive function with one round for each element, and the meaning
of a condition in a set of beliefs, written without arrays or order: `Solutions`. Its
operators about plans, `Triggers`, `StartOf` and `Candidates`, are what `Engine` promises
and what `ReasoningCycle` is measured by; `Older` compares two solutions by the places
of the beliefs that they use. **ConditionJoin** puts one condition beside a knowledge base
that `assert_belief` and `retract_belief` change, and has the two properties that say what
`eval` makes of them.

**ReasoningCycle** is the engine's thread at work, with clients that change the
beliefs at every step. `stack` has a record for each activation of
`execute_event` with the locals of the function and of the `eval` it runs:
`pc` "test" is the loop over the plans, "eval" a condition, "run" and "body" the
loop over the intentions, "clean" the loop that deletes them, "empty" the call of
the collector. Contexts are addresses: `heap` maps the live ones to their
bindings, `objects` is `ContextCollector::_objects`, and `planCtx` is the pointer
that each plan's trigger keeps. A new context gets the least address that is
neither live nor pointed to by anything; so an address that is held is never
reused, and a dangling pointer is visible as one that is not in `heap`.
Bodies are client code: at "body" any statement may follow, in any order and any
number up to a bound, until the body returns or is cut. `seen` and `steady` are
history variables of an activation that is choosing: the beliefs that were there at
some moment of the choice, and those that were there all the time. `SelectionInv`, at the end
of the module, is the invariant that relates the contexts of a half-evaluated condition
to these two sets, and `OrderedPlans` the condition on the plans that it needs (section 5).

**Engine** is what those who write plans may count on, without contexts, arrays or
heap: an event is taken, the applicable plans are chosen in one step, and their
bodies run in order, each with the bindings it was chosen with, until one is not cut.
A choice is sound for the beliefs seen and complete for the steady ones (`Choice`);
when nobody changes the knowledge base the two sets are the same, and the choice is
that of the applicable plans exactly. `ReasoningCycle!ImplementsEngine` maps the
activations of `execute_event` to those of `Engine`: the loop over the plans and all
of `eval` stutter, the last round of the loop is `Choose`, and the bindings of an
intention are those that its context has now, so that a context that is deleted or
changed too early is no longer what was chosen.

**Messaging** is several processes, each with its main thread, its TCP thread and
the engines of its agents. `Main[p]` is the order in which main registers the
protocol, constructs and starts agents; `Routes` is what bodies send on which
event, with `c.sender()` as one possible destination. A connection is a record
with the identity of its message, whether the server has accepted it, and
whether the packet, end-of-file or nothing can be read from it; the kernel hands
connections over in the order in which they were completed. An engine has a stack
of events, because a procedure called from a body is an event without a sender. `Stop` is the end
of a process, by an exception or because main returns. When a read returns
nothing, the stream's buffer still holds the packet of the previous iteration or
was never set: the module takes both outcomes, a second delivery and the
exception of the magic number.

**MessageBus** is what the messages amount to: one in transit is delivered to its
addressee or lost, the messages of one agent to another in the order in which they
were sent, and each once, unless a process has ended. `Messaging!ImplementsBus` maps
connections, servers and the fields of the sender to it: a name used as a sender
becomes the agent it leads back to.

`Messaging` takes two things for granted that two modules of pure functions are
about. **UrlParse** is `url::parse` and the URL that `send_message` writes as the
sender of a message: `c.sender()` of a remote message is such a URL, and it has to
lead back to the process and agent it came from. Strings are sequences of
characters, and an iterator that is advanced past the end of the string gives
`Undefined`. **PacketCodec** is `DEMOCLEPacket` over `BinaryStream`. A number is the
sequence of its tagged bytes, so that a reader that is not where the writer was
gets no number at all; kinds, types, lengths and counts are written and read as
the code does, and `Message` is the order of the calls in `TCPProtocol::run`.

**Values** is an object of `flexi_type`, which has a type and a member for each type.
A comparison reads the member of the type of the first operand from both; a number
that was never written gives any value of its set, so that `Compare` is the set of
results that a build can produce. Objects are made, set again and copied. Strings are
their places in the order of strings, doubles are integers with a rounding function
`Narrow` for the conversions to `float` that the comparisons make.

**Wire** is a message on its way between two processes, the URL of its sender and the
packet, with the name of the sender and the formula growing without end, a character or
a term at a time; its properties are about `UrlParse` and `PacketCodec` together. **MC_Data**
bounds it, and puts it beside `Values`: a name that grows, a formula that grows, a value
that changes.

**AgentStart** is how a program sets up its agents. `client.main` is what main does,
`client.run[a]` the lines of the `run()` of agent `a`: plans, with the kinds that the
operators check, and timers. `main` says at which step main is and at which line of
`run()`. The constructor and `start` write `Engine::current`; `BuildPlan` adds a plan to
the engine that is current. `EngineThread` starts the sensors and takes events; it
goes through the plans one at a time, so that a plan that is added meanwhile would
show. `Embedded` selects the code of `start` for `HAS_EMBEDDED`.

**Subsequences** has the elements of a sequence at a set of its places, in their order.
It says without recursion what a loop keeps that goes over a vector and tests every
element: the plans that `run()` has built so far (`AgentStart`), the connections that
remain (`Messaging`), and the addresses that new contexts get (`ReasoningCycle`). `Subsequences_proofs` has what the other proofs need
of sequences, of subsets of a finite set, and of recursive functions.

**DigitalInputs** is the handler of interrupts of the embedded build: the steps of
`map_input_pin`, the interrupt, and the task. The FreeRTOS notification value is the
set of its bits. While `add` inserts a pin in one of the maps, which have no lock, a
read by the task is undefined: the program may crash. `edges` and `served` are history
variables that say which edges an agent has been told of.

## 3. What the runs check

| Run | Instance | States | Shows |
|---|---|---|---|
| `tsqueue` | 2 producers with 2 pushes each, 2 consumers | 3 939 | `PopSafe`, `NoLostWakeup`, `QueueInv`, refinement `ImplementsChannel`, liveness `EventuallyPopped` |
| `beliefs` | 2 threads, 4 calls, a belief, an unmatchable belief, a reactor, a procedure | 165 000 | `NoDuplicates`, `EventBalance`, `StoreInv`; `EventsFollowKB`: what the events say last of a formula is what the knowledge base holds, unless two operators on it overlapped |
| `condition` | every condition of 1 to 3 elements out of 10, every knowledge base of up to 4 beliefs in every order, every starting context | 72 000 | `EvalIsSolutions`, `FirstIsOldest` |
| `cycle` | 4 plans, 3 client calls, 2 statements, calls nested twice | 358 000 | `ContextsOwned`, `CollectorExact`, `NothingLeaks`, `SelectionCorrect` with a client at work, refinement `ImplementsEngine`, liveness `EngineReturns` |
| `messages` | 2 processes, 3 agents, of which one lists two templates, a procedure, backlog 1, both mains may return, the protocol registered first | 164 000 | `RightSender`, `OnePlace`, `StartedSurvive`, refinement `ImplementsBus`, liveness `SendersReturn` and `MessagesArrive` |
| `agents` | 2 agents with a timer each, 3 orders of main, 4 programs, 2 of them ill-formed | 8 100 | `OwnPlans`, `WholeProgram`, liveness `EventsExecuted` and `TimersTick` |
| `digital_inputs` | 3 pins, two with the same formula and agent, one with a belief, 3 edges each | 15 700 | `NoSpuriousEvents`, `CrashNeedsRace`, liveness `EdgesAnswered` |
| `data` | names of up to 4 characters with ":" and "/" in them; formulas of up to 3 terms of every type, a buffer of 60 bytes and reads of up to 240; values given any two of 11 values | 148 000 | `MessageReturns`, `AnswerFindsSender`, `ShortMessagesFit`, `PortlessUrlIsParsed`, `SameTypeExact` |
| `show_plans` | the agent of `tests/test_timer.cpp` | violation | finding 1 |
| `protocol_first` | the processes of `tests/ping_pong.cpp` | violation | finding 2 |
| `mixed_numbers` | the values of `data` | violation | finding 3 |
| `embedded_start` | the programs of `agents` in the embedded build | violation | finding 4 |

The bounds. `tsqueue`: two poppers are needed for one to take the item the other
was woken for, and two pushes each for a queue longer than the sleepers; the
theorems cover the rest. `beliefs`: four calls give two threads the full race of
an assertion and a retraction of one formula and the calls before it; the
theorems cover the rest. `condition`: an array of contexts is rebuilt for every
element after the first, so the third element is the first to work on the output
of a rebuilt array, and with two variables every pattern of sharing occurs; four
different beliefs are all that the run may assert, so the knowledge base needs no bound of its
own, and the theorems cover the rest.
`cycle`: two levels of calls nest an activation in the middle of another; the
plans have a join with a filter, two plans for one procedure (so that a cut has a
successor), a condition that begins with a predicate, and none at all; three
calls let a client change beliefs in the middle of a join and between the tests of
two plans. `MaxContexts` is above
what the instance ever holds: at least three addresses are free in every state,
and no step takes more than two. The theorems cover the rest. `messages`: four
messages are enough for a ping, its answer, a local message and one that meets a full
backlog or a peer that has
ended after an earlier packet has filled the buffer; the receiver lists a second template
in `accepts`, which nobody sends, so that `StartedSurvive` depends on which of several
is taken. `agents`: two agents are needed
for a plan to go to the wrong one; the orders start an agent before and after the
other is constructed, and post events before and after the start; two ticks of each
timer may wait in a queue. `digital_inputs`: the second and third pin are mapped while
edges of the first come, and three edges of a pin can be one that the task deals
with, one that waits and one that is merged with it. `data`: a name of four
characters holds the longest mark that `parse` looks for, "://", and one character
more; with three terms every type stands
before and after every other; the theorems cover other names, terms and sizes. Buffers
of 60 and 240 bytes stand for those of 256 and 1024 of a stream and of
`TCPProtocol::run`: the first is filled by some of these messages and not by others, and
the sizes occur in no other place; among five doubles one is no float.

`CHECK_DEADLOCK FALSE` is used where the system really stops: once the bounded
clients have made their calls, engines and servers wait for ever, as they should.
`tsqueue` is written so that spurious wake-ups keep it from stopping.

## 4. Fairness

* `TSQueue!Fairness`: a thread inside `push` or `pop` is scheduled, and a popper
  pops again, which is the loop of `Engine::run`. Nobody has to push.
* `ReasoningCycle!FairSpec`: weak fairness of the engine's steps: the thread is
  scheduled, and bodies end. A body that loops for ever stops its engine; the
  library cannot prevent it, so the property is about bodies that end. Clients
  have no fairness.
* `Messaging!FairSpec`: weak fairness of every thread of every process. The end of
  main and the timeout of `connect` are not fair: `SendersReturn` and
  `MessagesArrive` hold without the timeout ever coming.
* `AgentStart!Fairness`: main goes through its program, and engines and sensors are
  scheduled. That a tick is sent when there is room for it in the bound stands for
  the end of its sleep. Main need not return.
* `DigitalInputs!Fairness`: the task and the thread that maps the pins run; edges
  need not come.

## 5. What is proved

TLAPS checks these for every value of the constants, under the named
assumptions on them and no other.

`TSQueue_proofs` (from `ThreadAssumption`: producers and consumers are disjoint,
the consumers finite; `BoundAssumption`: the bound is a number):

* `QueueInvariant`: `Spec => []QueueInv`. `QueueInv` is `TypeOK`, `MutexInv` (a
  thread is between lock and unlock exactly when it owns the mutex), `RoleInv`
  (which places a thread of each kind can be at), `PopSafe` and `NoLostWakeup`.
  Neither of the last two is inductive alone: that nobody pops between the reading of
  the front and the pop needs the mutex, and that a notification is never lost
  needs to count the sleepers that are already awake: an item may be queued
  beyond their number only while its producer is between insertion and
  notification, and `MutexInv` lets only one thread be there.
* `TypeCorrect`, `PopIsSafe`, `WakeupIsSafe` follow from it.
* `QueueIsChannel`: `Spec => ImplementsChannel`. `PushInsert` is a send, `PopReturn`
  a receive, which needs `PopSafe` (the item read is still the head); every other
  step stutters.

`BeliefBase_proofs` (from `ThreadAssumption`, `FormulaAssumption`, `BoundAssumption`):

* `StoreInvariant`: `Spec => []StoreInv`. `StoreInv` adds to `NoDuplicates` and
  `EventBalance` the exclusion of the critical section and `PlaceInv`, what a
  thread knows where it stands: at "change" the result of its scan is still
  true, because the mutex has kept everybody else out. That is the step on which
  `NoDuplicates` rests; it is also why counts never get negative. `EventBalance`
  needs the lemmas on how the set of pending threads grows and shrinks by one.
* `TypeCorrect`, `NoDuplicatesStored`, `EventsBalance` follow from it.
* `EventsTellKB`: `EventsSpec => []EventsFollowKB`. The invariant of `FollowInvariant` is that on a
  formula without overlaps at most one thread is at work, and that the last event says
  what the knowledge base holds or this thread owes the event that will.

`Data_proofs`, about URLs (from `CharAssumption`: ":" and "/" are characters and `Lower` a
function on characters):

* `SourceUrlRoundTrip`: `parse` gives back every source URL whose protocol, host and
  port have no ":" and no "/", for names of any length and with any characters. The
  argument: the lemma `SourceUrlChars` says which character stands at which place of
  the concatenation, `FindFirst` that a search stops at a place before which the
  character does not occur, so that each of the three searches of `parse` finds the
  mark that `send_message` wrote, and `PartIs` that the parts between them are the parts
  that went in.
* `PortlessUrlParsesWithoutColon` is the same for a URL without a port, exactly when the name
  has no colon; that the path cannot come back otherwise is the other half of it.

`Data_proofs`, about packets (from `CharAssumption` and `StreamAssumption`: the size of the
buffer is a number; the numbers that are sent may be anything):

* `PacketReturns`: the reader gets back the source, the addressee and the formula, and stops at
  the last byte, whatever the strings, the terms and the length of the packet. `Stands`
  says that bytes stand somewhere in a longer stream, and `StandsJoin` takes them apart
  where the writer put them together; `NumberRead` and `StringRead` read one field wherever it stands.
  For the terms there are two recursive functions, the bytes that have been written
  after n terms and the terms that have been read. `RecursionExists` says that there
  are such functions, and `TermsWritten` and `TermsRead` go through their values by
  `BoundedInduction`: the reader of term n + 1 is where the writer of it was.
* `WireInvariant`: `WireSpec => []WireInv`, that what grows stays in its set. From it and
  the theorems on URLs and packets: `MessagesReturn`, `AnswersFindSender`, `PortlessUrlsAreParsed`, and
  `ShortMessagesAlwaysFit`, for which `TermsTake` counts the bytes of the terms. It is about
  the buffer of the writer and that of the reader, into which `fill` copies as much as one
  read got.

`Data_proofs`, about values (from `DataAssumption`: the members have their sets, the empty string is
one of the strings, rounding twice is rounding once, and a member that was never written
is neither an integer nor a double):

* `SameTypesCompare`: `Spec => []SameTypeExact`. The inductive invariant `ValueInv` is
  that the member of the type of the object holds the value it was last given
  (`Carries`), which `set` establishes whatever the object was before. `ReadsMeaning`
  says that a member that carries a value is read as this value, so that no
  comparison of two values of one type sees a member that was not written.

`Subsequences_proofs` (from nothing) has no result about the program, only the lemmas that the
other modules cite:

* `SubsetInduction`: what holds of the empty set and of a set with one more element
  holds of every finite set. The library's theorems about induction take an operator
  as a parameter, which no installed prover can instantiate; here the subsets for which
  the statement holds are a set, and the lemma `SetInduction` gets a least counterexample
  from the fact that strict inclusion is well-founded. With it the
  cardinalities that `Below` counts can be reasoned about.
* `RecursionExists`, `RecursionFromOne` and `BoundedInduction`: a recursive function whose steps stay
  in a set exists and does what its definition says, and what its first value has and a
  step keeps, all of its values have.
* `FlattenHolds`: what `FlattenSeq` makes of rows has the elements of all rows, and is ordered
  by a relation that orders each row and the elements of each row before those of later rows.
* `ElementsAtProperties`, and the lemmas beside it: the n-th member of a set of places
  exists, increases with n and is reached for every member; what the elements at a set
  of places become when one is appended, or when the places are those before some
  number; and what appending, concatenating, removing and taking the head do to the
  members of a sequence and to its being injective.

`ReasoningCycle_proofs`, about contexts (from `ThreadAssumption`: the engine's thread is no client;
`PlanAssumption` and `FormulaAssumption`: what the operators can build, and what
can be asserted and posted; `BoundAssumption`; and the `TermAssumption` of `Matching`):

* `CycleInvariant`: `Spec => []CycleInv`. `CycleInv` is `TypeOK`, `CollectorExact`,
  `NothingLeaks`, `PlaceInv` (where the evaluation of a condition is) and `OwnInv`.
  `OwnInv` says that the pointers an activation holds, in the variable of the
  loop, the two arrays and the intentions, are live and all different, and that no two
  activations hold a pointer in common. That no context is used after it was deleted
  needs all of it: a deletion in a nested call is harmless only because the callers
  hold other pointers, and a new context is none of theirs because they are live.
* `TypeCorrect`, `ContextsAreOwned`, `CollectorIsExact` and `NoContextLeaks` follow from it, for
  any plans, any number of statements and any depth of calls.

`ReasoningCycle_proofs`, about the choice of the plans (from the same assumptions, if the plans are
`OrderedPlans`: in a condition that starts with a belief, a predicate comes after the
beliefs that bind its terms, and has two terms, the two that `predicates.h` reads. A term
without a value is equal to nothing, so that `neq` of it is true and the other
predicates false: placed before its beliefs, a predicate lets through what it should stop,
or stops what it should let through, and the choice is neither sound nor complete. A condition
that starts with a predicate never holds, and needs no order):

* `SelectionInvariant`: `Spec => [](CycleInv /\ SelectionInv)`. `SelectionInv` has
  `CallersInv`: all activations but the innermost are in a body, so that only one is choosing.
  `IntentionsInv`: the intentions so far are right for the plans before the current one, in the
  beliefs seen and the steady ones. `EvaluationInv`, with `RoundInv` for the arrays: every
  context in `context_array` solves the elements before the current one, and every context in
  `next_context_array` the current one too, in beliefs that were seen; and every
  solution of the whole condition in steady beliefs agrees with a context that the loop has
  still to visit or has already put in the new array. The last is what a client may not
  destroy by retracting a belief between two rounds: the solution is then no longer
  one in steady beliefs, which only shrink, as those seen only grow. `CycleInv`
  is needed for the contexts to be different and live, so that writing to one changes no other.
* `SelectionIsCorrect`: `SelectionCorrect`, the invariant at the end of the loop.
* `EngineImplemented`: `Spec => ImplementsEngine`. The loop over the plans and every
  step of `eval` stutter: `Chosen` is left out of an activity that is choosing. `AllTested` is
  `Choose`, by `SelectionInv`. In "run" and "body" the bindings of the chosen intentions
  are read through the heap, and `OwnInv` shows that neither the body of a nested call nor a deletion
  changes them. `PopEvent` is `Take`; a statement of a body, its return and the
  clients' operators are the actions of `Engine` for them.

`ReasoningCycle_proofs`, about `Condition::eval` alone (from `JoinAssumption`: beliefs are ground,
and a condition is not empty and gives its predicates two arguments):

* `JoinInvariant`: `JoinSpec => []JoinInv`; a belief stands once in the knowledge base.
* `EvalReturnsSolutions`: `EvalIsSolutions` for conditions and knowledge bases of any length. The
  induction is over the rounds: after n of them the array holds the solutions of the
  first n elements (`RoundSolves`), which `RowContents` shows for one context and `FlattenHolds`
  for the array.
* `FirstUsesOldest`: `FirstIsOldest`. The same induction with the order: `OlderPairs` are the
  pairs of bindings of which the first uses older beliefs, and a round keeps every pair of the array
  among them. A context's row goes through different beliefs in the order of the
  knowledge base (`RowOrdered`), and contexts that extend different ones keep the order of
  these, because the places of the earlier elements do not change (`OlderExtended`). Nothing is
  older than itself, so no context occurs twice. No order of the predicates is needed.

`Messaging_proofs` (from `HomeAssumption`: an agent is in one process, and the
empty name is nobody's; `MainAssumption`: main constructs and starts agents of its own process, and
registers the protocol at most once, which a port allows; `RouteAssumption` and `AcceptAssumption`:
what can be written as a destination and after `accepts`; `BoundAssumption`):

* `MessageInvariant`: `Spec => []MessageInv`, with three parts. `LinkInv`: an engine that connects or sends
  has a message of its own agent in hand, and connections and servers have messages
  that are addressed to their process, from which `RightSender` follows. `OnePlace`. And
  `ConnInv`, while all processes run: every connection has a message of its own, its sender
  gives it up when the packet is sent, and the server puts what it has read. Without it
  `OnePlace` is not inductive: two connections with one message would deliver it twice.
* `TypeCorrect`, `SendersAreRight`, `MessagesHaveOnePlace` follow from it, for any processes, agents,
  programs and bodies.
* `StartedAgentsSurvive`: if the programs are `Orderly`, no exception ends a process
  whose agents are started. `Orderly` says of main that it constructs an agent
  before it starts it, and registers the protocol before it starts an agent that may
  send to a URL; and of the bodies that they send to agents what these accept, as the
  first of the arguments of `accepts`, and answer only those who accept the answer. Without
  any of these the code does throw. `SurvivalInv` adds `DoneInv`, which
  ties the registry and the accepted messages to the steps that main has done, and
  `AddressedInv`, that every message on its way has an addressee that accepts it.
* `BusIsImplemented`: `Spec => ImplementsBus`, if no program names an agent of its own process
  by a URL (`Unmixed`). Such a message goes through the TCP thread, and a later one to
  the plain name is put in the queue at once and overtakes it: for such programs the bus's
  order is not what the code gives. The invariant is `BusInvariant`: `HandInv` (what an engine sends is the
  last message of its agent), `OrderInv` (the connections of one agent to one process stand in the
  order in which the messages were sent, the server works on the first, and no
  two carry one message) and `PutInv` (a server puts what it has just read or, after the end
  of a process, what was delivered before). Every step is mapped: a send to a plain name is `Send`
  with delivery; a connection that is refused or times out and a packet that meets a peer that has ended
  are `Lose`; the server's put is `Deliver`, for
  which `OrderInv` shows that no earlier message is in transit, or `Repeat`; an end of a
  process is `End`; all else is a `Send`, a `Post`, a `Take`, or stutters.

`AgentStart_proofs` (from `ClientAssumption`: the lines of a program are what can be written;
`NobodyAssumption`; `BoundAssumption`):

* `PlansAreOwn` and `ProgramIsWhole`, if main starts no agent twice (`StartsOnce`), the latter
  outside the embedded build, where finding 4 refutes it. The invariant `StartInv` of
  `StartInvariant` has `CurrentInv`, that `Engine::current` is the engine of the agent
  that is started as long as `run()` is executed; and `PlansInv`, that an engine has
  exactly the plans of the lines that were executed, as the elements of the program at
  these places, so that one more line is one more plan at the end. An agent that is
  started twice gets its plans twice, as the code does.
* `SensorInvariant`, `TypeCorrect`: if also no sensor is attached by two lines
  (`AttachesOnce`), an agent has exactly the sensors of its lines, and each has one thread when
  the engine has come to it, none before.

`DigitalInputs_proofs` (from `PinAssumption`: pins below 32, each mapped once, to an agent;
`BoundAssumption`):

* `InputInvariant`: the maps are complete for the pins that have an interrupt; there is a
  task before there is an interrupt; the task works exactly when it has bits.
* `CrashesNeedRaces`: the only crash is the race of an insertion with the events of the pins
  mapped before.
* `EventsHaveEdges`: `NoSpuriousEvents`, by counting: an edge adds one to the edges of its
  pin and at most one bit; the task's taking of the bits moves them; an event
  takes its bit with it. When pins share a formula and an agent the sets of bits are
  those of all these pins together, and the lemmas on cardinality are about these sets.

The hypotheses of the theorems, `OrderedPlans`, `Orderly`, `Unmixed`, `StartsOnce` and
`AttachesOnce`, are about programs and not about states, and the programs of the runs `cycle`,
`messages` and `agents` fulfil them; `PlansAreOrdered` lets TLC check the first. They are hypotheses and not assumptions on the constants because the modules
model other programs as well: `protocol_first` has one.

Every invariant that a passing run checks, and every refinement, is stated by a theorem.
Liveness under fairness rests on TLC alone: it is out of the prover's reach, as is ENABLED. What recursion computes is proved where it is a recursive function (`Eval`, the
bytes and terms of a packet) or the fold of `FlattenSeq`, by induction over a set of
numbers; the library's induction theorems, which take an operator, are not used.

## 6. Findings

1. `show_plans` after `start` (`tests/test_timer.cpp:46-47`) reads freed memory.
   `AtomicFormula::unbind` (`democle_types.cpp:276`) resets the terms and not the
   pointer `ctx` of the formula, the context is deleted by `execute_event`
   (`engine.cpp:262`), and `operator<<` looks the variable up in `ctx`
   (`democle_types.cpp:28-43`). Run `show_plans`.
2. `register_protocol` starts the TCP thread at once, and the tests call it before
   they construct the agent (`tests/ping_pong.cpp:88-91`). A message that comes in
   between finds no agent, or one that has not called `accepts` yet: the exception
   is raised in the TCP thread, nothing catches it, and the process ends. Run
   `protocol_first`; `StartedSurvive` says that once the agents are started the
   exception cannot come any more.
3. A comparison of a double with an integer reads, from the integer, a member that
   was never written (`flexi_type.cpp:7-75`, `flexi_type.h:20-29`): in
   `tests/test_coins.cpp:32` the condition `gt(M, 0)` has the float of `change(2.0)` on
   its left. Run `mixed_numbers`.
4. In the embedded build `Agent::start` never calls `run()` (`agent.cpp:28-33`), so the
   agents of `src/src/main_pio.cpp` have no plans, and none of their pins is mapped.
   Run `embedded_start`; `DigitalInputs` is about a program in which something else
   calls the function that maps the pins.

Behaviours worth knowing that contradict no document of the repository: two
threads can queue the events of an assertion and a retraction in the other order
than the changes, if their operators overlap; a condition that begins with a predicate never holds; a
condition evaluated while others change the beliefs can join beliefs that were
never there together; `accepts(a/1, b/2)` accepts `a/1` only, and a
message `b/2` ends the process; a peer that ends
between `connect` and `send` makes the server deliver the previous message again
or end; the colon in the name of an agent of a URL without a port is taken for that of
a port; a procedure that is sent to another process arrives as a belief; an agent that
is constructed inside the `run()` of another takes the plans that follow; mapping a
second input pin while the first has edges is a race; `1 << pin` is undefined for the
pins from 32 on; `multiple` throws for unbound variables, which ends the process.

## 7. What is not modelled

* Values of different types inside `Matching`: the comparisons of `Values` would make
  a match a set of results there. Overflow of the arithmetic in bodies.
* The race in the registry's `std::map` and the 64 entries and characters of the
  accepted messages: lookups and registrations are single steps.
* Partial reads, failures of `bind`, `listen` and
  host lookup, and the descriptors lost by refused connections.
* What a write past the 256 bytes of a packet does, and a URL without a path: both are
  undefined. Variables in messages, which end the process that sends or receives them.
* Goals, which nothing reads; `get_named_beliefs` and `verify_matching_beliefs`,
  which nothing calls; printing; the tests and `main_pio.cpp`, which are client code
  and give the instances.
* Digital inputs from pin 32 on, and a pin that is mapped twice.

## 8. Plan

Done, in this order because everything an agent does passes through them: the
queue, the knowledge base, conditions, the reasoning cycle, messages, and the URLs,
packets and values that messages rest on; the abstract specifications `Engine` and
`MessageBus`; start-up, timers and digital inputs; the proofs of section 5.

Left: formulas with variables in messages, which `operator+` for messages does not
make ground.
