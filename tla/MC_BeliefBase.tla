---------------------------- MODULE MC_BeliefBase -----------------------------
(***************************************************************************)
(* A belief, the same belief with an unbound term, a reactor and a         *)
(* procedure.                                                              *)
(***************************************************************************)
EXTENDS BeliefEvents

CONSTANTS number, open, tick, sieve

MCFormulas == {number, open, tick, sieve}

MCKind ==
  [f \in MCFormulas |-> CASE f = tick  -> "reactor"
                          [] f = sieve -> "procedure"
                          [] OTHER     -> "belief"]

MCMatchable == MCFormulas \ {open}
===============================================================================
