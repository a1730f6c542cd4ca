--------------------------- MODULE MC_ReasoningCycle ---------------------------
(***************************************************************************)
(* An agent with a procedure, a reactor and a belief as triggers, and      *)
(* conditions that join two beliefs, filter with a predicate, start with a *)
(* predicate, or are absent; and the agent of tests/test_timer.cpp.        *)
(***************************************************************************)
EXTENDS ReasoningCycle

CONSTANTS X, Y

MCVars == {X, Y}

MCValues == 1 .. 2

MCPredicates == {"neq", "gt"}

F(name, terms) == [name |-> name, terms |-> terms]

MCBeliefs == {F("number", <<v>>) : v \in MCValues}

MCReactors == {F("tick", <<1>>)}

MCProcedures == {F("sieve", <<>>)}

Plan(type, trigger, cond) == [type |-> type, trigger |-> trigger, cond |-> cond]

MCPlans ==
  <<Plan("call", F("sieve", <<>>),
         <<F("number", <<X>>), F("number", <<Y>>), F("gt", <<X, Y>>)>>),
    Plan("call", F("sieve", <<>>), <<>>),
    Plan("add", F("tick", <<X>>), <<F("gt", <<X, 1>>), F("number", <<X>>)>>),
    Plan("add", F("number", <<X>>), <<F("number", <<Y>>), F("neq", <<X, Y>>)>>)>>

-------------------------------------------------------------------------------
(***************************************************************************)
(* tests/test_timer.cpp: one plan, triggered by the timer.                 *)
(***************************************************************************)
TimerPlans == <<Plan("add", F("tick", <<X>>), <<F("state", <<Y>>)>>)>>

TimerBeliefs == {F("state", <<v>>) : v \in MCValues}

-------------------------------------------------------------------------------
\* The hypothesis of the theorems about the choice of the plans holds of these plans.
ASSUME PlansAreOrdered == OrderedPlans
===============================================================================
