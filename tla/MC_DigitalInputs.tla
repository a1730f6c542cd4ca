---------------------------- MODULE MC_DigitalInputs -----------------------------
(***************************************************************************)
(* The push button of main_pio.cpp on pin 22, a second one that sends the  *)
(* same tick to the same agent, and a switch that is a belief of another   *)
(* agent.                                                                  *)
(***************************************************************************)
EXTENDS DigitalInputs

CONSTANTS flash, other, tick, state

MCMappings ==
  <<[pin |-> 22, formula |-> tick, agent |-> flash],
    [pin |-> 26, formula |-> state, agent |-> other],
    [pin |-> 2, formula |-> tick, agent |-> flash]>>
===============================================================================
