------------------------------- MODULE Matching --------------------------------
(***************************************************************************)
(* Formulas and how they match: AtomicFormula::match_and_bind, term and    *)
(* the predicates (lib/democle/democle_types.cpp, predicates.h), for       *)
(* values of one type.                                                     *)
(*                                                                         *)
(* A formula is a record [name, terms]; a term is a member of Vars or a    *)
(* ground value.  Beliefs in the knowledge base and events are ground.  A  *)
(* binding, the variables of a Context, maps some of Vars to values.       *)
(***************************************************************************)
EXTENDS Subsequences

CONSTANTS
  Vars,        \* names of variables (var(X))
  Values,      \* ground terms
  Predicates   \* names of formulas declared with predicate()

ASSUME TermAssumption == Vars \cap Values = {}

\* Formulas as plans write them, and ground ones.
Template == [name : STRING, terms : Seq(Vars \cup Values)]

Fact == [name : STRING, terms : Seq(Values)]

\* The variables of an empty Context.
NoBinding == [v \in {} |-> {}]

Bindings == UNION {[S -> Values] : S \in SUBSET Vars}

IsPredicate(f) == f.name \in Predicates

VarsOf(f) == {f.terms[i] : i \in DOMAIN f.terms} \cap Vars

\* term::is_bound and term::value under a binding.
IsBound(t, b) == t \notin Vars \/ t \in DOMAIN b

Val(t, b) == IF t \in Vars THEN b[t] ELSE t

\* What match_and_bind(f) leaves in the context when every variable of the
\* pattern that b does not bind takes the ground term at its first place.
Extend(pattern, f, b) ==
  [v \in DOMAIN b \cup VarsOf(pattern) |->
     IF v \in DOMAIN b THEN b[v]
     ELSE f.terms[CHOOSE i \in DOMAIN f.terms :
                    /\ pattern.terms[i] = v
                    /\ \A j \in 1 .. i - 1 : pattern.terms[j] # v]]

\* pattern.match_and_bind(f) under b succeeds.
Matches(pattern, f, b) ==
  /\ pattern.name = f.name
  /\ Len(pattern.terms) = Len(f.terms)
  /\ \A i \in DOMAIN f.terms :
       Val(pattern.terms[i], Extend(pattern, f, b)) = f.terms[i]

\* make_ground: f with its variables replaced by their values.
Ground(f, b) == [f EXCEPT !.terms = [i \in DOMAIN @ |-> Val(@[i], b)]]

\* A comparison of an unbound term is false.
Comparable(f, b) == \A i \in {1, 2} : IsBound(f.terms[i], b)

\* AtomicFormula::evaluate.  neq is the negation of eq, and so true of unbound terms.
\* multiple throws for unbound terms, which no engine catches, and divides by its second
\* argument: Holds stands for its result on bound terms and positive divisors.
Holds(f, b) ==
  LET x == Val(f.terms[1], b)
      y == Val(f.terms[2], b)
  IN  CASE f.name = "eq"  -> Comparable(f, b) /\ x = y
        [] f.name = "neq" -> Comparable(f, b) => x # y
        [] f.name = "gt"  -> Comparable(f, b) /\ x > y
        [] f.name = "geq" -> Comparable(f, b) /\ x >= y
        [] f.name = "lt"  -> Comparable(f, b) /\ x < y
        [] f.name = "leq" -> Comparable(f, b) /\ x <= y
        [] f.name = "multiple" -> x % y = 0

\* Fault: the scan stops at the first match.
GetFirstMatching(kb, pattern, b) ==
  LET found == ElementsAt(kb, {i \in DOMAIN kb : Matches(pattern, kb[i], b)})
  IN  IF found = <<>> THEN <<>> ELSE <<Extend(pattern, found[1], b)>>

\* KnowledgeBase::get_matching_beliefs: the contexts for pattern under b, one
\* for each belief that matches, in the order of the knowledge base.
GetMatching(kb, pattern, b) ==
  LET found == ElementsAt(kb, {i \in DOMAIN kb : Matches(pattern, kb[i], b)})
  IN  [i \in DOMAIN found |-> Extend(pattern, found[i], b)]

\* One element of the condition with one context of context_array: the contexts
\* it puts in next_context_array.
EvalContext(kb, e, b) ==
  IF IsPredicate(e) THEN IF Holds(e, b) THEN <<b>> ELSE <<>>
                    ELSE GetMatching(kb, e, b)
===============================================================================
