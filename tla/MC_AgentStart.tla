------------------------------ MODULE MC_AgentStart ------------------------------
(***************************************************************************)
(* Two agents, each with a timer, in the orders of the tests: the agent of *)
(* tests/test_timer.cpp and, as in tests/sieve.cpp, a second one.  In some *)
(* programs run() has a plan that is not well formed.                      *)
(***************************************************************************)
EXTENDS AgentStart, TLC

CONSTANTS a, b, tim1, tim2, state, go

Do(op, agent) == [op |-> op, agent |-> agent]

Send(agent, evt) == [op |-> "post", agent |-> agent, evt |-> evt]

Orders ==
  {<<Do("construct", a), Do("construct", b), Do("start", a), Do("start", b), Send(b, go)>>,
   <<Do("construct", a), Send(a, state), Do("start", a), Do("construct", b), Do("start", b)>>,
   <<Do("construct", a), Do("construct", b), Send(b, go), Do("start", b), Do("start", a),
     Send(a, state)>>}

Plan(sign, kind, cond) == [op |-> "plan", sign |-> sign, kind |-> kind, cond |-> cond]

Timer(s) == [op |-> "attach", sensor |-> s]

TickPlan == Plan("+", "reactor", <<"belief">>)

CallPlan == Plan("none", "procedure", <<"belief", "predicate">>)

\* +number(X) without its sign; a reactor in a condition.
IllFormed == {Plan("none", "belief", <<>>), Plan("+", "belief", <<"belief", "reactor">>)}

MCClients ==
  [main : Orders,
   run : {a :> <<Timer(tim1), TickPlan, CallPlan>> @@ b :> r :
            r \in {<<TickPlan, Timer(tim2), CallPlan>>, <<CallPlan>>}
                  \cup {<<Timer(tim2), p, TickPlan>> : p \in IllFormed}}]
===============================================================================
