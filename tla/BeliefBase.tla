------------------------------ MODULE BeliefBase ------------------------------
(***************************************************************************)
(* The knowledge base of an engine and the three operators by which every  *)
(* thread of a program reaches it: Engine::operator+, operator- and        *)
(* operator<< (lib/democle/engine.cpp).  operator+ and operator- change    *)
(* the knowledge base under KnowledgeBase::m_mutex, release it, and only   *)
(* then push the event that announces the change: between the two steps    *)
(* any other thread may run.                                               *)
(*                                                                         *)
(* The map from names to vectors of formulas is the number of copies of    *)
(* each formula.  match_ground never matches a formula with an unbound or  *)
(* untyped term, even with itself: the formulas that it can match are the  *)
(* set Matchable, and two matchable formulas match when they are equal.    *)
(* The event queue takes events in one step, as TSQueue_proofs shows.      *)
(***************************************************************************)
EXTENDS Naturals, Sequences, FiniteSets

CONSTANTS
  Threads,     \* program threads: main, engines, sensors, the TCP server
  Formulas,    \* atomic formulas they pass
  Kind,        \* bel_type of each formula
  Matchable,   \* formulas with only typed, ground terms
  MaxCalls,    \* bound: operator calls in a behaviour
  NoThread     \* owner of a free mutex

Kinds == {"belief", "reactor", "predicate", "procedure"}

ASSUME ThreadAssumption == IsFiniteSet(Threads) /\ NoThread \notin Threads

ASSUME FormulaAssumption ==
  /\ Formulas # {}
  /\ Kind \in [Formulas -> Kinds]
  /\ Matchable \subseteq Formulas

ASSUME BoundAssumption == MaxCalls \in Nat

VARIABLES
  kb,            \* copies of each formula in the knowledge base
  m_mutex,       \* the thread that holds KnowledgeBase::m_mutex
  pc,            \* where each thread is in an operator
  type,          \* the event the operator pushes if it succeeds
  arg,           \* the formula it was called with (with type: any before a call)
  event_queue,   \* events pushed and not yet popped by the engine
  posted,        \* history: events pushed so far, by type and formula
  last,          \* history: "add" or "del", the last pushed for a formula
  calls          \* number of operator calls so far

vars == <<kb, m_mutex, pc, type, arg, event_queue, posted, last, calls>>

EventTypes == {"add", "del", "call"}

Event == [type : EventTypes, bel : Formulas]

Init ==
  /\ kb = [f \in Formulas |-> 0]
  /\ m_mutex = NoThread
  /\ pc = [t \in Threads |-> "idle"]
  /\ type = [t \in Threads |-> "add"]
  /\ arg = [t \in Threads |-> CHOOSE f \in Formulas : TRUE]
  /\ event_queue = <<>>
  /\ posted = [e \in EventTypes |-> [f \in Formulas |-> 0]]
  /\ last = [f \in Formulas |-> "none"]
  /\ calls = 0

Goto(t, label) == pc' = [pc EXCEPT ![t] = label]

\* Thread t enters an operator that may push an event of type ty.
Enter(t, ty, f, label) ==
  /\ pc[t] = "idle"
  /\ calls < MaxCalls
  /\ calls' = calls + 1
  /\ type' = [type EXCEPT ![t] = ty]
  /\ arg' = [arg EXCEPT ![t] = f]
  /\ Goto(t, label)
  /\ UNCHANGED <<kb, m_mutex, event_queue, posted, last>>

\* operator+: a reactor goes straight to the queue; anything else, even a
\* procedure or a predicate, is asserted.
Add(t, f) == Enter(t, "add", f, IF Kind[f] = "reactor" THEN "push" ELSE "lock")

\* operator- ignores all but beliefs.
Del(t, f) == Kind[f] = "belief" /\ Enter(t, "del", f, "lock")

\* operator<< ignores all but procedures.
Call(t, f) == Kind[f] = "procedure" /\ Enter(t, "call", f, "push")

\* Fault: the mutex does not exclude anybody.
KbNoLock(t) ==
  /\ pc[t] = "lock"
  /\ m_mutex' = t
  /\ Goto(t, "scan")
  /\ UNCHANGED <<kb, type, arg, event_queue, posted, last, calls>>

KbLock(t) ==
  /\ pc[t] = "lock"
  /\ m_mutex = NoThread
  /\ m_mutex' = t
  /\ Goto(t, "scan")
  /\ UNCHANGED <<kb, type, arg, event_queue, posted, last, calls>>

\* Some formula in the knowledge base has match_ground(f).
Found(f) == f \in Matchable /\ kb[f] > 0

\* Fault: retract_belief erases without having found the belief.
ScanDelOn(t) ==
  /\ pc[t] = "scan"
  /\ type[t] = "del" \/ ~ Found(arg[t])
  /\ Goto(t, "change")
  /\ UNCHANGED <<kb, m_mutex, type, arg, event_queue, posted, last, calls>>

\* assert_belief goes on when nothing matches, retract_belief when something
\* does; otherwise they return false and the operator pushes no event.
ScanOn(t) ==
  /\ pc[t] = "scan"
  /\ Found(arg[t]) <=> type[t] = "del"
  /\ Goto(t, "change")
  /\ UNCHANGED <<kb, m_mutex, type, arg, event_queue, posted, last, calls>>

\* Fault: the event is pushed even if nothing changed.
ScanFalsePush(t) ==
  /\ pc[t] = "scan"
  /\ Found(arg[t]) <=> type[t] = "add"
  /\ m_mutex' = NoThread
  /\ Goto(t, "push")
  /\ UNCHANGED <<kb, type, arg, event_queue, posted, last, calls>>

ScanFalse(t) ==
  /\ pc[t] = "scan"
  /\ Found(arg[t]) <=> type[t] = "add"
  /\ m_mutex' = NoThread
  /\ Goto(t, "idle")
  /\ UNCHANGED <<kb, type, arg, event_queue, posted, last, calls>>

\* Fault: the lock is held while the event is pushed, and never released.
ChangeLocked(t) ==
  /\ pc[t] = "change"
  /\ kb' = [kb EXCEPT ![arg[t]] = IF type[t] = "add" THEN @ + 1 ELSE @ - 1]
  /\ Goto(t, "push")
  /\ UNCHANGED <<m_mutex, type, arg, event_queue, posted, last, calls>>

\* Fault: retract_belief finds the belief and does not erase it.
ChangeNoErase(t) ==
  /\ pc[t] = "change"
  /\ kb' = [kb EXCEPT ![arg[t]] = IF type[t] = "add" THEN @ + 1 ELSE @]
  /\ m_mutex' = NoThread
  /\ Goto(t, "push")
  /\ UNCHANGED <<type, arg, event_queue, posted, last, calls>>

\* v.push_back(bel), or v.erase(it), and the release of the lock.
Change(t) ==
  /\ pc[t] = "change"
  /\ kb' = [kb EXCEPT ![arg[t]] = IF type[t] = "add" THEN @ + 1 ELSE @ - 1]
  /\ m_mutex' = NoThread
  /\ Goto(t, "push")
  /\ UNCHANGED <<type, arg, event_queue, posted, last, calls>>

Push(t) ==
  /\ pc[t] = "push"
  /\ event_queue' = Append(event_queue, [type |-> type[t], bel |-> arg[t]])
  /\ posted' = [posted EXCEPT ![type[t]][arg[t]] = @ + 1]
  /\ last' = [last EXCEPT ![arg[t]] = IF type[t] = "call" THEN @ ELSE type[t]]
  /\ Goto(t, "idle")
  /\ UNCHANGED <<kb, m_mutex, type, arg, calls>>

\* Engine::run takes the next event.
Pop ==
  /\ event_queue # <<>>
  /\ event_queue' = Tail(event_queue)
  /\ UNCHANGED <<kb, m_mutex, pc, type, arg, posted, last, calls>>

Step(t) ==
  \/ \E f \in Formulas : Add(t, f) \/ Del(t, f) \/ Call(t, f)
  \/ KbLock(t) \/ ScanOn(t) \/ ScanFalse(t) \/ Change(t) \/ Push(t)

Next == Pop \/ \E t \in Threads : Step(t)

Spec == Init /\ [][Next]_vars

-------------------------------------------------------------------------------
\* The types of the variables; in particular no count drops below zero.
TypeOK ==
  /\ kb \in [Formulas -> Nat]
  /\ m_mutex \in Threads \cup {NoThread}
  /\ pc \in [Threads -> {"idle", "lock", "scan", "change", "push"}]
  /\ type \in [Threads -> EventTypes]
  /\ arg \in [Threads -> Formulas]
  /\ event_queue \in Seq(Event)
  /\ posted \in [EventTypes -> [Formulas -> Nat]]
  /\ last \in [Formulas -> {"add", "del", "none"}]
  /\ calls \in 0 .. MaxCalls

\* However threads interleave, assert_belief never stores a second copy of a
\* formula that retract_belief could find (engine.cpp:22-41): a retraction
\* really removes the belief.
NoDuplicates == \A f \in Matchable : kb[f] <= 1

\* Threads that have changed the knowledge base and not yet pushed the event.
Pending(ty, f) == {t \in Threads : pc[t] = "push" /\ type[t] = ty /\ arg[t] = f}

\* Every change of the knowledge base is announced by exactly one event, and
\* every add or del event announces a change: the copies of f are the add events
\* less the del events, counting those about to be pushed (engine.cpp:125-157).
EventBalance ==
  \A f \in Formulas : Kind[f] # "reactor" =>
    kb[f] + posted["del"][f] + Cardinality(Pending("del", f))
      = posted["add"][f] + Cardinality(Pending("add", f))

(***************************************************************************)
(* The inductive invariant behind NoDuplicates and EventBalance.           *)
(***************************************************************************)
MutexInv == \A t \in Threads : pc[t] \in {"scan", "change"} <=> m_mutex = t

\* What each thread knows at each place of the operators.
PlaceInv ==
  \A t \in Threads :
    /\ pc[t] \in {"lock", "scan", "change"} =>
         /\ Kind[arg[t]] # "reactor"
         /\ type[t] \in {"add", "del"}
    /\ pc[t] = "change" => (Found(arg[t]) <=> type[t] = "del")

StoreInv ==
  /\ TypeOK
  /\ MutexInv
  /\ PlaceInv
  /\ NoDuplicates
  /\ EventBalance
===============================================================================
