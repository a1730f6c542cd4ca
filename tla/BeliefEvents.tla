----------------------------- MODULE BeliefEvents -----------------------------
(***************************************************************************)
(* What a plan that follows the events about a belief knows of the         *)
(* knowledge base.  The change of a belief and the push of its event are   *)
(* two steps, so that the events can come in another order than the        *)
(* changes; the history variable remembers for which formulas two          *)
(* operators have overlapped.                                              *)
(***************************************************************************)
EXTENDS BeliefBase

VARIABLE raced  \* history: formulas on which two threads have been at work at once

Working(t, f) == pc[t] # "idle" /\ arg[t] = f

\* Two threads are at work on f.
Overlap(f) == \E t, u \in Threads : t # u /\ Working(t, f) /\ Working(u, f)

EventsInit == Init /\ raced = {}

EventsNext == Next /\ raced' = raced \cup {f \in Formulas : Overlap(f)'}

EventsSpec == EventsInit /\ [][EventsNext]_<<vars, raced>>

-------------------------------------------------------------------------------
\* A plan that follows the events about a belief knows whether the knowledge base
\* holds it, as long as no two operators on this belief overlap, in whatever threads
\* they are and whatever happens to other beliefs: the last event posted about it is
\* an add exactly when it is there.  When they overlap the two pushes can be swapped,
\* and an add be announced last for a belief that is gone (engine.cpp:125-157).
EventsFollowKB ==
  \A f \in Matchable \ raced :
    (Kind[f] # "reactor" /\ \A t \in Threads : ~ Working(t, f)) =>
      (last[f] = "add" <=> kb[f] = 1)

(***************************************************************************)
(* The inductive invariant behind it.                                      *)
(***************************************************************************)
\* Thread t has changed f and not yet pushed the event.
Owes(t, f) == pc[t] = "push" /\ arg[t] = f /\ type[t] # "call"

\* The last event tells what the knowledge base holds, unless a thread owes a later one;
\* then that one will.
FollowInv ==
  \A f \in Formulas \ raced :
    /\ ~ Overlap(f)
    /\ f \in Matchable /\ Kind[f] # "reactor" =>
         /\ \/ \E t \in Threads : Owes(t, f)
            \/ last[f] = "add" <=> kb[f] = 1
         /\ \A t \in Threads : Owes(t, f) => (type[t] = "add" <=> kb[f] = 1)
===============================================================================
