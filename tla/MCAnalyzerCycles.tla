-------------------------- MODULE MCAnalyzerCycles --------------------------
(* detect_cycles on every system graph over three or four systems.         *)
EXTENDS AnalyzerCycles

MCN3 == 3
MCN4 == 4
=============================================================================
