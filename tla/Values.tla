--------------------------------- MODULE Values ----------------------------------
(***************************************************************************)
(* flexi_type (lib/democle: flexi_type.h, flexi_type.cpp), the value of a  *)
(* term or of a variable.  An object has a member for each type; the       *)
(* constructors and set() write the member of one type and leave the       *)
(* others as they were, a number without any value and a string empty.  A  *)
(* comparison reads from both objects the member of the type of the first, *)
(* whatever the type of the second: the result is a set of Booleans, those *)
(* that a build can produce when it reads a number that was never written. *)
(*                                                                         *)
(* Strings are numbered in their order, and "" is the first.  Doubles are  *)
(* integers, and Narrow rounds them to float.                              *)
(***************************************************************************)
EXTENDS Integers

CONSTANTS
  Ints,     \* values of type int
  Doubles,  \* values of type double
  Strings,  \* places of the strings in their order
  Narrow,   \* Narrow[d] is (float)d
  Unset     \* a member that was never written

ASSUME DataAssumption ==
  /\ Ints \subseteq Int
  /\ Doubles \subseteq Int
  /\ Strings \subseteq Nat /\ 0 \in Strings
  /\ Narrow \in [Doubles -> Doubles]
  /\ \A d \in Doubles : Narrow[Narrow[d]] = Narrow[d]
  /\ Unset \notin Ints \cup Doubles

VARIABLES
  object,  \* an object of flexi_type
  given    \* history: the type and the value it was last given

vars == <<object, given>>

Val ==
  [type : {"_int"}, v : Ints]
  \cup [type : {"_float"}, v : Doubles]
  \cup [type : {"_string"}, v : Strings]

Object ==
  [type : {"no_type", "_int", "_float", "_string"}, value : Ints \cup {Unset},
   fvalue : Doubles \cup {Unset}, svalue : Strings]

\* flexi_type()
NoValue == [type |-> "no_type", value |-> Unset, fvalue |-> Unset, svalue |-> 0]

\* Fault: the type stays what it was.
SetKeepsType(o, x) ==
  CASE x.type = "_int"    -> [o EXCEPT !.value = x.v]
    [] x.type = "_float"  -> [o EXCEPT !.fvalue = x.v]
    [] x.type = "_string" -> [o EXCEPT !.svalue = x.v]

\* set(x)
Set(o, x) ==
  CASE x.type = "_int"    -> [o EXCEPT !.type = x.type, !.value = x.v]
    [] x.type = "_float"  -> [o EXCEPT !.type = x.type, !.fvalue = x.v]
    [] x.type = "_string" -> [o EXCEPT !.type = x.type, !.svalue = x.v]

\* flexi_type(x)
New(x) == Set(NoValue, x)

\* The conversions: what a build may read from the member of a type.
As(type, o) ==
  CASE type = "_int"    -> IF o.value = Unset THEN Ints ELSE {o.value}
    [] type = "_float"  -> {Narrow[d] : d \in IF o.fvalue = Unset THEN Doubles ELSE {o.fvalue}}
    [] type = "_string" -> {o.svalue}

Relations == {"==", "!=", ">", ">=", "<", "<="}

Rel(op, x, y) ==
  CASE op = "==" -> x = y
    [] op = "!=" -> x # y
    [] op = ">"  -> x > y
    [] op = ">=" -> x >= y
    [] op = "<"  -> x < y
    [] op = "<=" -> x <= y

\* a op b; an object without a type is unequal to everything and in no order.
Compare(op, a, b) ==
  IF a.type = "no_type"
  THEN {op = "!="}
  ELSE {Rel(op, x, y) : x \in As(a.type, a), y \in As(a.type, b)}

-------------------------------------------------------------------------------
\* The program makes an object, changes it, or copies another one to it: a value of
\* a new object, or one that was given a second value.
Init == object = NoValue /\ given = [type |-> "no_type", v |-> 0]

SetValue ==
  \E x \in Val :
    /\ object' = Set(object, x)
    /\ given' = x

\* operator= copies all members.
Assign ==
  \E x \in Val, y \in Val :
    /\ object' = Set(New(x), y)
    /\ given' = y

\* set(t) converts the value of t, which narrows a double.
Converted(x) == IF x.type = "_float" THEN [x EXCEPT !.v = Narrow[@]] ELSE x

SetFrom ==
  \E x \in Val :
    /\ object' = Set(object, Converted(x))
    /\ given' = Converted(x)

Next == SetValue \/ Assign \/ SetFrom

Spec == Init /\ [][Next]_vars

-------------------------------------------------------------------------------
\* The types of the variables.
TypeOK == object \in Object /\ given \in Val \cup {[type |-> "no_type", v |-> 0]}

\* The value that comparisons see.
Meaning(x) == IF x.type = "_float" THEN Narrow[x.v] ELSE x.v

\* The member of its type holds the value of the object.
Carries(o, x) ==
  /\ o.type = x.type
  /\ x.type = "_int" => o.value = x.v
  /\ x.type = "_float" => o.fvalue = x.v
  /\ x.type = "_string" => o.svalue = x.v

\* A comparison with a value of the same type has one result, that of the order of the
\* two values rounded to float, whatever other values the object had before: neither
\* a member left over from an earlier value nor one that was never written shows
\* (flexi_type.cpp:7-75, flexi_type.h:19-35).
SameTypeExact ==
  \A x \in Val : x.type = given.type =>
    \A op \in Relations :
      /\ Compare(op, object, New(x)) = {Rel(op, Meaning(given), Meaning(x))}
      /\ Compare(op, New(x), object) = {Rel(op, Meaning(x), Meaning(given))}

\* A double and an integer compare as numbers do, when a double d stands for the
\* number d / Unit.  tests/test_coins.cpp:32 relies on it: change(M) is called with
\* 2.0, and its plans have the condition gt(M, 0).
Number(x, Unit) == IF x.type = "_int" THEN x.v * Unit ELSE Narrow[x.v]

NumbersCompare(Unit) ==
  \A x \in Val :
    {x.type, given.type} \subseteq {"_int", "_float"} =>
      Compare(">", object, New(x)) = {Number(given, Unit) > Number(x, Unit)}
===============================================================================
