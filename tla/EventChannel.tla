----------------------------- MODULE EventChannel -----------------------------
(***************************************************************************)
(* What the event queue of an engine promises the threads that use it,     *)
(* with no word of mutexes or condition variables: every event a producer  *)
(* sends enters one channel in a single step, and leaves it in a single    *)
(* step, in that order, to exactly one receiver.                           *)
(*                                                                         *)
(* The n-th event sent by producer p is the pair <<p, n>>.                 *)
(***************************************************************************)
EXTENDS Naturals, Sequences

CONSTANTS
  Producers,   \* threads that post events
  Consumers,   \* threads that take them
  MaxPushes    \* how many events a producer sends (bounds the model)

VARIABLES
  sent,        \* number of events each producer has sent
  channel,     \* events sent and not yet received, oldest first
  got          \* the event each consumer received last

channelVars == <<sent, channel, got>>

None == <<>>

Item == Producers \X (1 .. MaxPushes)

ChannelInit ==
  /\ sent = [p \in Producers |-> 0]
  /\ channel = <<>>
  /\ got = [c \in Consumers |-> None]

Send(p) ==
  /\ sent[p] < MaxPushes
  /\ sent' = [sent EXCEPT ![p] = @ + 1]
  /\ channel' = Append(channel, <<p, sent[p] + 1>>)
  /\ UNCHANGED got

Receive(c) ==
  /\ channel # <<>>
  /\ got' = [got EXCEPT ![c] = Head(channel)]
  /\ channel' = Tail(channel)
  /\ UNCHANGED sent

ChannelNext ==
  \/ \E p \in Producers : Send(p)
  \/ \E c \in Consumers : Receive(c)

ChannelSpec == ChannelInit /\ [][ChannelNext]_channelVars
===============================================================================
