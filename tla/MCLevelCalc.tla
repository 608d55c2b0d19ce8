---------------------------- MODULE MCLevelCalc ----------------------------
(* calculate_levels on every system graph over four systems.               *)
EXTENDS LevelCalc

MCN3 == 3
MCN4 == 4
=============================================================================
