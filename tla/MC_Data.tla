--------------------------------- MODULE MC_Data ---------------------------------
(***************************************************************************)
(* The data that goes from one process to another: the URL of the sender,  *)
(* the packet that carries it with a formula, and the values of the terms. *)
(* Either the name of the sender grows, one character at a time and with   *)
(* ":" and "/" among them, or the formula, one term at a time, or a value  *)
(* is changed and copied.                                                  *)
(***************************************************************************)
EXTENDS Wire, Values

CONSTANTS MaxName, MaxTerms, MaxLetters

MCChars == {":", "/", "a", "A", "1"}

MCLower == [c \in MCChars |-> IF c = "A" THEN "a" ELSE c]

MCDoubles == 0 .. 4

\* 3 is no float.
MCNarrow == [d \in MCDoubles |-> IF d = 3 THEN 4 ELSE d]

Words == UNION {[1 .. n -> Letters] : n \in 1 .. 2}

Texts == UNION {[1 .. n -> {"a", "1"}] : n \in 0 .. MaxLetters}

Terms ==
  [type : {_int, _float}, val : {<<n>> : n \in Numbers}]
  \cup [type : {_string}, val : Texts]

FirstProcess == sender.protocol = <<"A">> /\ sender.host = <<"A">> /\ sender.port = <<"1">>

MCInit ==
  /\ sender \in [protocol : {<<"A">>, <<"a", "1">>}, host : Words,
                 port : {<<"1">>, <<"1", "1">>}, name : {<<>>}]
  /\ dest \in Texts
  /\ formula \in [name : {<<"a">>, <<"1", "a">>},
                  kind : {"belief", "reactor", "procedure"}, terms : {<<>>}]
  /\ FirstProcess \/ (dest = <<>> /\ formula.kind = "belief" /\ formula.name = <<"a">>)
  /\ Init

GrowName ==
  /\ formula.terms = <<>> /\ dest = <<>> /\ given.type = "no_type"
  /\ Len(sender.name) < MaxName
  /\ \E c \in Chars : NameGrows(c)
  /\ UNCHANGED vars

GrowFormula ==
  /\ FirstProcess /\ Len(sender.name) <= 1 /\ given.type = "no_type"
  /\ Len(formula.terms) < MaxTerms
  /\ \E t \in Terms : FormulaGrows(t)
  /\ UNCHANGED vars

ChangeValue ==
  /\ FirstProcess /\ sender.name = <<>> /\ dest = <<>> /\ formula.terms = <<>>
  /\ Next
  /\ UNCHANGED wireVars

MCNext == GrowName \/ GrowFormula \/ ChangeValue

MCSpec == MCInit /\ [][MCNext]_<<wireVars, vars>>

-------------------------------------------------------------------------------
\* NumbersCompare for doubles counted in halves.
NumbersCompareInHalves == NumbersCompare(2)
===============================================================================
