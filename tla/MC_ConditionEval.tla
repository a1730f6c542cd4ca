--------------------------- MODULE MC_ConditionEval ----------------------------
(***************************************************************************)
(* Conditions of up to three elements evaluated over every knowledge base  *)
(* that assert_belief and retract_belief can build from four beliefs, for  *)
(* every starting context of two variables.                                *)
(***************************************************************************)
EXTENDS ConditionJoin

CONSTANTS X, Y

MCVars == {X, Y}

MCValues == 1 .. 2

MCPredicates == {"neq", "gt", "multiple"}

F(name, terms) == [name |-> name, terms |-> terms]

\* number(v) and pair(v, w).
MCFacts == {F("number", <<v>>) : v \in Values}
           \cup {F("pair", <<v, w>>) : v \in Values, w \in {2}}

BeliefPatterns == {F("number", <<X>>), F("number", <<Y>>), F("number", <<2>>),
                   F("pair", <<X, Y>>), F("pair", <<Y, Y>>), F("pair", <<X, 2>>)}

PredicatePatterns == {F("neq", <<X, Y>>), F("gt", <<X, 1>>), F("gt", <<Y, X>>),
                      F("multiple", <<X, Y>>)}

Elements == BeliefPatterns \cup PredicatePatterns

MCConditions == UNION {[1 .. n -> Elements] : n \in 1 .. 3}
===============================================================================
