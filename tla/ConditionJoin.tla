----------------------------- MODULE ConditionJoin -----------------------------
(***************************************************************************)
(* A condition and a knowledge base that assert_belief and retract_belief  *)
(* change: what Condition::eval makes of them is a join, in the order in   *)
(* which the beliefs were asserted.                                        *)
(***************************************************************************)
EXTENDS ConditionEval

CONSTANTS
  Facts,      \* beliefs that are asserted and retracted
  Conditions  \* conditions of plans

\* What operator& and operator+ take: a condition is not empty, and predicates.h reads
\* two arguments of every predicate.
ASSUME JoinAssumption ==
  /\ Facts \subseteq Fact
  /\ \A c \in Conditions :
       /\ c \in Seq(Template) /\ c # <<>>
       /\ \A i \in DOMAIN c : IsPredicate(c[i]) => Len(c[i].terms) >= 2

VARIABLES
  base,      \* the beliefs, oldest first
  condition

JoinInit == base = <<>> /\ condition \in Conditions

\* KnowledgeBase::assert_belief and retract_belief.
JoinAsserts(f) ==
  /\ ~ Contains(base, f)
  /\ base' = Append(base, f)
  /\ UNCHANGED condition

JoinRetracts(i) ==
  /\ base' = RemoveAt(base, i)
  /\ UNCHANGED condition

JoinNext == (\E f \in Facts : JoinAsserts(f)) \/ (\E i \in DOMAIN base : JoinRetracts(i))

JoinSpec == JoinInit /\ [][JoinNext]_<<base, condition>>

-------------------------------------------------------------------------------
\* eval returns exactly the solutions of the condition, each once, when it starts
\* with a belief and its predicates come after the beliefs that bind them
\* (condition.cpp:37-120): no join is missed, none is invented or repeated.
EvalIsSolutions ==
  \A start \in Bindings :
    (~ IsPredicate(condition[1]) /\ WellOrdered(condition, DOMAIN start)) =>
      LET bs == Eval(base, condition, start) IN
        /\ ToSet(bs) = Solutions(ToSet(base), condition, start)
        /\ IsInjective(bs)

\* multiple is evaluated only when its variables are bound; otherwise it throws.
Evaluates(start) ==
  \A i \in DOMAIN condition : condition[i].name = "multiple" =>
    VarsOf(condition[i]) \subseteq DOMAIN start \cup CondVars(SubSeq(condition, 1, i - 1))

\* The intention gets the first context (engine.cpp:242), and it is the solution
\* that uses the oldest beliefs: the order in which beliefs were asserted decides,
\* the first element of the condition first.
FirstIsOldest ==
  \A start \in Bindings : Evaluates(start) =>
    LET bs == Eval(base, condition, start) IN
      \A i \in DOMAIN bs \ {1} : Older(base, condition, bs[1], bs[i])
===============================================================================
