---------------------------- MODULE MCAnalyzerMain ----------------------------
(* Four systems with the expected layers the code gives common_system,     *)
(* thread_system, logger_system and monitoring_system.                     *)
EXTENDS AnalyzerMain

MCN4 == 4

MCExpected == <<0, 1, 1, 2>>

MCFoundation == 1
=============================================================================
