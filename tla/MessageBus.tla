------------------------------- MODULE MessageBus -------------------------------
(***************************************************************************)
(* What a program that sends messages may count on.  A message is in       *)
(* transit until it is delivered or lost; it is delivered to the agent to  *)
(* which it was addressed, as an event from which its sender can be        *)
(* answered, and the messages that one agent sends to another are          *)
(* delivered in the order in which they were sent, each once.  Only when a *)
(* process has ended may a message be delivered again.  A belief that the  *)
(* addressee holds already raises no event.                                *)
(*                                                                         *)
(* There are no connections, servers, buffers or URLs here: Messaging      *)
(* implements this specification.                                          *)
(***************************************************************************)
EXTENDS Naturals, Sequences, SequencesExt

CONSTANTS
  Agents,   \* names of agents
  Home,     \* Home[a] is the process of agent a
  Beliefs   \* messages that are beliefs; the others are reactors

VARIABLES
  sent,     \* the messages, numbered in the order in which they were sent
  fate,     \* what has become of each: "transit", "delivered" or "lost"
  inbox,    \* events that each agent has not taken yet
  kb,       \* beliefs that each agent has received
  ended     \* whether a process has ended

vars == <<sent, fate, inbox, kb, ended>>

Place(a) == [process |-> Home[a], agent |-> a]

Init ==
  /\ sent = <<>>
  /\ fate = <<>>
  /\ inbox = [a \in Agents |-> <<>>]
  /\ kb = [a \in Agents |-> {}]
  /\ ended = FALSE

\* The event of message m, number id, for agent a.
Raise(a, m, id) ==
  /\ m.to = Place(a)
  /\ inbox' = IF m.msg \in kb[a] THEN inbox
              ELSE [inbox EXCEPT ![a] =
                      Append(@, [msg |-> m.msg, id |-> id, sender |-> Place(m.from)])]
  /\ kb' = [kb EXCEPT ![a] = @ \cup ({m.msg} \cap Beliefs)]

\* A message leaves; it may be delivered in the same step.
Send ==
  /\ Len(sent') = Len(sent) + 1
  /\ Front(sent') = sent
  /\ Last(sent').from \in Agents
  /\ \/ fate' = Append(fate, "transit") /\ UNCHANGED <<inbox, kb>>
     \/ /\ fate' = Append(fate, "delivered")
        /\ \E a \in Agents : Raise(a, Last(sent'), Len(sent'))
  /\ UNCHANGED ended

\* No earlier message of the sender to the addressee is still on its way.
InOrder(id) ==
  \A k \in 1 .. id - 1 :
    (sent[k].from = sent[id].from /\ sent[k].to = sent[id].to) => fate[k] # "transit"

Deliver(id) ==
  /\ fate[id] = "transit"
  /\ InOrder(id)
  /\ fate' = [fate EXCEPT ![id] = "delivered"]
  /\ \E a \in Agents : Raise(a, sent[id], id)
  /\ UNCHANGED <<sent, ended>>

Lose(id) ==
  /\ fate[id] = "transit"
  /\ fate' = [fate EXCEPT ![id] = "lost"]
  /\ UNCHANGED <<sent, inbox, kb, ended>>

\* After the end of a process a message may be delivered again, in the place of one
\* that is lost.
Repeat(id) ==
  /\ ended
  /\ fate[id] = "delivered"
  /\ \E a \in Agents : Raise(a, sent[id], id)
  /\ \/ UNCHANGED fate
     \/ \E k \in DOMAIN fate : fate[k] = "transit" /\ fate' = [fate EXCEPT ![k] = "lost"]
  /\ UNCHANGED <<sent, ended>>

\* An agent posts an event to itself, which is no message.
Post(a) ==
  /\ Len(inbox'[a]) = Len(inbox[a]) + 1
  /\ Last(inbox'[a]).id = 0
  /\ inbox' = [inbox EXCEPT ![a] = Append(@, Last(inbox'[a]))]
  /\ UNCHANGED <<sent, fate, kb, ended>>

Take(a) ==
  /\ inbox[a] # <<>>
  /\ inbox' = [inbox EXCEPT ![a] = Tail(@)]
  /\ UNCHANGED <<sent, fate, kb, ended>>

\* A process ends; a message that it could not deliver, and those that were on their
\* way to it, are lost.
End ==
  /\ ended' = TRUE
  /\ \/ UNCHANGED sent
     \/ Len(sent') = Len(sent) + 1 /\ Front(sent') = sent
  /\ Len(fate') = Len(sent')
  /\ \A id \in DOMAIN sent :
       fate'[id] = fate[id] \/ (fate[id] = "transit" /\ fate'[id] = "lost")
  /\ \A id \in DOMAIN sent' \ DOMAIN sent : fate'[id] = "lost"
  /\ UNCHANGED <<inbox, kb>>

Next ==
  \/ Send \/ End
  \/ \E id \in DOMAIN sent : Deliver(id) \/ Lose(id) \/ Repeat(id)
  \/ \E a \in Agents : Post(a) \/ Take(a)

Spec == Init /\ [][Next]_vars
===============================================================================
