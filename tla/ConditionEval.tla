----------------------------- MODULE ConditionEval -----------------------------
(***************************************************************************)
(* Condition::eval (lib/democle/condition.cpp) over a knowledge base that  *)
(* nobody changes meanwhile, and what a condition means: the bindings that *)
(* make every element true.  ReasoningCycle evaluates a condition element  *)
(* by element and context by context with the operators of this module,    *)
(* while other threads change the knowledge base.                          *)
(*                                                                         *)
(* A knowledge base is the sequence of its beliefs, oldest first.          *)
(***************************************************************************)
EXTENDS Matching, SequencesExt

\* Fault: new contexts are put before those that are there.
EvalArrayReversed(kb, e, bs) ==
  FlattenSeq(Reverse([i \in DOMAIN bs |-> EvalContext(kb, e, bs[i])]))

\* One element with every context of context_array.
EvalArray(kb, e, bs) ==
  FlattenSeq([i \in DOMAIN bs |-> EvalContext(kb, e, bs[i])])

\* The first element is special: the starting context is not in the array, and
\* a predicate puts nothing there.
EvalFirst(kb, e, start) ==
  IF IsPredicate(e) THEN <<>> ELSE GetMatching(kb, e, start)

\* The contexts that eval leaves in context_array: one round for each element.
Eval(kb, cond, start) ==
  LET round[n \in 1 .. Len(cond)] ==
        IF n = 1 THEN EvalFirst(kb, cond[1], start)
                 ELSE EvalArray(kb, cond[n], round[n - 1])
  IN  round[Len(cond)]

-------------------------------------------------------------------------------
(***************************************************************************)
(* The meaning of a condition, with no word of arrays or order, when the   *)
(* knowledge base holds a set of beliefs.                                  *)
(***************************************************************************)
\* The element is true under b.
Satisfied(beliefs, e, b) ==
  IF IsPredicate(e)
  THEN Holds(e, b)
  ELSE VarsOf(e) \subseteq DOMAIN b /\ Ground(e, b) \in beliefs

\* The indices of the beliefs among the elements.
BeliefsOf(cond) == {i \in DOMAIN cond : ~ IsPredicate(cond[i])}

CondVars(cond) == UNION {VarsOf(cond[i]) : i \in BeliefsOf(cond)}

\* The bindings that extend start to the variables of the condition's beliefs and
\* make every element true.
Solutions(beliefs, cond, start) ==
  {b \in [DOMAIN start \cup CondVars(cond) -> Values] :
     /\ \A v \in DOMAIN start : b[v] = start[v]
     /\ \A i \in DOMAIN cond : Satisfied(beliefs, cond[i], b)}

\* A predicate is evaluated only when the starting context or earlier beliefs have
\* bound its variables.
WellOrdered(cond, bound) ==
  \A i \in DOMAIN cond : IsPredicate(cond[i]) =>
    VarsOf(cond[i]) \subseteq bound \cup CondVars(SubSeq(cond, 1, i - 1))

\* Where the belief stands that makes the element true under b.
PlaceOf(kb, e, b) == CHOOSE i \in DOMAIN kb : kb[i] = Ground(e, b)

\* b uses older beliefs than c; the first element for which they differ decides.
Older(kb, cond, b, c) ==
  \E i \in BeliefsOf(cond) :
    /\ PlaceOf(kb, cond[i], b) < PlaceOf(kb, cond[i], c)
    /\ \A j \in BeliefsOf(cond) :
         j < i => PlaceOf(kb, cond[j], b) = PlaceOf(kb, cond[j], c)

\* The event triggers the plan, a record [type, trigger, cond].
Triggers(plan, evt) ==
  plan.type = evt.type /\ Matches(plan.trigger, evt.bel, NoBinding)

\* The starting context of a plan that the event triggers.
StartOf(plan, evt) == Extend(plan.trigger, evt.bel, NoBinding)

\* The bindings with which the plan is applicable to the event; the one of the start if
\* it has no condition.  A condition that starts with a predicate never holds
\* (condition.cpp:45-51, engine.cpp:234).
Candidates(plan, evt, beliefs) ==
  IF Triggers(plan, evt) /\ (plan.cond = <<>> \/ ~ IsPredicate(Head(plan.cond)))
  THEN Solutions(beliefs, plan.cond, StartOf(plan, evt))
  ELSE {}
===============================================================================
