--------------------------------- MODULE Engine ---------------------------------
(***************************************************************************)
(* What the engine of an agent promises to those who write its plans: it   *)
(* takes the events in the order in which they were posted, chooses for    *)
(* each one the applicable plans in the order in which they were defined,  *)
(* and runs their bodies in that order, each with the bindings it was      *)
(* chosen with, until one of them is not cut.  A procedure called from a   *)
(* body is dealt with inside that body.  There are no contexts, arrays or  *)
(* heap here: ReasoningCycle implements this specification.                *)
(*                                                                         *)
(* Other threads change the knowledge base while a choice is made.  An     *)
(* activity therefore remembers which beliefs have been seen in it, that   *)
(* is, were there at some moment of the choice, and which are steady, that *)
(* is, were there all the time.                                            *)
(***************************************************************************)
EXTENDS ConditionEval

CONSTANTS
  Plans,         \* sequence of [type, trigger, cond]; cond is <<>> if there is none
  Beliefs,       \* ground beliefs that threads assert and retract
  Reactors,      \* ground reactors that threads post
  Procedures,    \* ground procedures that threads call
  Clients,       \* threads other than the engine's
  EngineThread,  \* the thread of the engine, which runs the bodies
  NoEvent        \* a thread that owes no event

VARIABLES
  kb,          \* beliefs in the knowledge base, oldest first
  event_queue, \* events posted and not yet taken
  pending,     \* the event each thread is about to post
  activity     \* the events being dealt with, a called procedure after its caller

vars == <<kb, event_queue, pending, activity>>

Threads == Clients \cup {EngineThread}

Init ==
  /\ kb = <<>>
  /\ event_queue = <<>>
  /\ pending = [t \in Threads |-> NoEvent]
  /\ activity = <<>>

Begin(evt) ==
  [evt |-> evt, phase |-> "choose", seen |-> ToSet(kb), steady |-> ToSet(kb),
   chosen |-> <<>>, i |-> 1]

\* An activity that is still choosing takes notice of the new knowledge base.
Notice(x, beliefs) ==
  IF x.phase = "choose"
  THEN [x EXCEPT !.seen = @ \cup beliefs, !.steady = @ \cap beliefs]
  ELSE x

\* A thread changes the knowledge base, or does not, and owes an event.
Call(t) ==
  /\ pending[t] = NoEvent
  /\ \/ \E f \in Beliefs :
          \/ /\ f \notin ToSet(kb)
             /\ kb' = Append(kb, f)
             /\ pending' = [pending EXCEPT ![t] = [type |-> "add", bel |-> f]]
          \/ /\ \E i \in DOMAIN kb : kb[i] = f /\ kb' = RemoveAt(kb, i)
             /\ pending' = [pending EXCEPT ![t] = [type |-> "del", bel |-> f]]
     \/ \E f \in Reactors :
          pending' = [pending EXCEPT ![t] = [type |-> "add", bel |-> f]] /\ UNCHANGED kb
     \/ \E f \in Procedures :
          /\ t \in Clients
          /\ pending' = [pending EXCEPT ![t] = [type |-> "call", bel |-> f]]
          /\ UNCHANGED kb
  /\ activity' = [d \in DOMAIN activity |-> Notice(activity[d], ToSet(kb'))]
  /\ UNCHANGED event_queue

Post(t) ==
  /\ pending[t] # NoEvent
  /\ event_queue' = Append(event_queue, pending[t])
  /\ pending' = [pending EXCEPT ![t] = NoEvent]
  /\ UNCHANGED <<kb, activity>>

Take ==
  /\ activity = <<>>
  /\ event_queue # <<>>
  /\ activity' = <<Begin(Head(event_queue))>>
  /\ event_queue' = Tail(event_queue)
  /\ UNCHANGED <<kb, pending>>

current == Last(activity)

In(phase) == activity # <<>> /\ current.phase = phase

Become(x) == activity' = Front(activity) \o <<x>> /\ UNCHANGED <<kb, event_queue, pending>>

\* A choice that is sound: every plan has bindings that solve its condition in the
\* beliefs seen; and complete: no plan is left out that has a solution in the steady
\* beliefs.  When nobody changes the knowledge base the two sets are the same.
Choice(x, chosen) ==
  /\ \A m, n \in DOMAIN chosen : m < n => chosen[m].plan < chosen[n].plan
  /\ \A m \in DOMAIN chosen :
       chosen[m].binding \in Candidates(Plans[chosen[m].plan], x.evt, x.seen)
  /\ \A p \in DOMAIN Plans :
       Candidates(Plans[p], x.evt, x.steady) # {} =>
         \E m \in DOMAIN chosen : chosen[m].plan = p

\* The choice is made in one step, after any number of changes by other threads.
Choose ==
  /\ In("choose")
  /\ activity' # <<>>
  /\ LET chosen == Last(activity').chosen IN
       /\ Choice(current, chosen)
       /\ Become([current EXCEPT !.phase = "run", !.chosen = chosen,
                                 !.seen = {}, !.steady = {}])

RunBody ==
  /\ In("run")
  /\ current.i \in DOMAIN current.chosen
  /\ Become([current EXCEPT !.phase = "body"])

AtStatement == In("body") /\ pending[EngineThread] = NoEvent

CallProcedure ==
  /\ AtStatement
  /\ \E f \in Procedures :
       activity' = Append(activity, Begin([type |-> "call", bel |-> f]))
  /\ UNCHANGED <<kb, event_queue, pending>>

Cut ==
  /\ AtStatement
  /\ Become([current EXCEPT !.phase = "run", !.i = @ + 1])

\* A body that returns, or the last one that is cut, ends the activity.
Finish ==
  /\ AtStatement \/ (In("run") /\ current.i \notin DOMAIN current.chosen)
  /\ Become([current EXCEPT !.phase = "done", !.chosen = <<>>])

Return ==
  /\ In("done")
  /\ activity' = Front(activity)
  /\ UNCHANGED <<kb, event_queue, pending>>

Next ==
  \/ \E t \in Clients : Call(t) \/ Post(t)
  \/ AtStatement /\ Call(EngineThread)
  \/ Post(EngineThread)
  \/ Take \/ Choose \/ RunBody \/ CallProcedure \/ Cut \/ Finish \/ Return

Spec == Init /\ [][Next]_vars
===============================================================================
