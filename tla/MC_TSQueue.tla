------------------------------ MODULE MC_TSQueue ------------------------------
(***************************************************************************)
(* The queue with two producers and two consumers: enough for a producer   *)
(* to overtake another, for a consumer to steal the item another was woken *)
(* for, and for a notification to find one, two or no sleepers.            *)
(***************************************************************************)
EXTENDS TSQueue

===============================================================================
