------------------------------ MODULE MC_Messaging -------------------------------
(***************************************************************************)
(* The processes of tests/ping_pong.cpp, with a second agent, log, beside  *)
(* the receiver, which gets a belief of it and accepts a second message.   *)
(***************************************************************************)
EXTENDS Messaging

CONSTANTS p, q, sender, receiver, log, go, ping, pong, note, seen

Url(process, agent) == [process |-> process, agent |-> agent]

Step(op, agent) == [op |-> op, agent |-> agent]

MCHome == sender :> p @@ receiver :> q @@ log :> q

\* register_protocol comes first, as in the test.
SenderMain ==
  <<[op |-> "protocol"], Step("create", sender), Step("start", sender),
    [op |-> "post", agent |-> sender, msg |-> go]>>

ProtocolFirst ==
  p :> SenderMain
  @@ q :> <<[op |-> "protocol"], Step("create", receiver), Step("create", log),
            Step("start", receiver), Step("start", log)>>

\* The receiver lists two templates, of which accepts takes the first; nobody sends it
\* the second.
MCAccepts == sender :> <<pong>> @@ receiver :> <<ping, pong>> @@ log :> <<seen>>

Route(agent, on, to, msg) == [agent |-> agent, on |-> on, to |-> to, msg |-> msg]

PingPong ==
  {Route(sender, go, Url(q, receiver), ping),
   Route(receiver, ping, ToSender, pong),
   Route(sender, pong, Url(q, receiver), ping)}

\* The receiver also calls a procedure, whose plan tells log.
PingPongLog == PingPong \cup {Route(receiver, note, Url(Here, log), seen)}

MCCalls == {[agent |-> receiver, on |-> ping, procedure |-> note]}
===============================================================================
