------------------------ MODULE MCAnalyzerDeterminism ------------------------
(* Three systems: enough for one system to depend on two cycles.           *)
EXTENDS AnalyzerDeterminism

MCN3 == 3
=============================================================================
