------------------------- MODULE AnalyzerDeterminism -------------------------
(***************************************************************************)
(* Two runs of tools/dependency_analyzer.py on the same source tree.  Each *)
(* run is a separate Python process, and a set of strings is iterated in   *)
(* an order fixed by the process's hash seed, which differs from run to    *)
(* run; so the two runs of DependencyAnalyzer.detect_cycles see the same   *)
(* all_deps but may take the dependencies of a system in different        *)
(* orders.  Both are the module AnalyzerCycles, on one shared graph.       *)
(***************************************************************************)
EXTENDS DepGraph

VARIABLES
  graph,
  next1, visited1, recStack1, stack1, cycles1,   \* the first run
  next2, visited2, recStack2, stack2, cycles2    \* the second run

run1 == <<next1, visited1, recStack1, stack1, cycles1>>
run2 == <<next2, visited2, recStack2, stack2, cycles2>>
vars == <<graph, run1, run2>>

R1 == INSTANCE AnalyzerCycles
        WITH next <- next1, visited <- visited1, recStack <- recStack1,
             stack <- stack1, cycles <- cycles1

R2 == INSTANCE AnalyzerCycles
        WITH next <- next2, visited <- visited2, recStack <- recStack2,
             stack <- stack2, cycles <- cycles2

Init == R1!Init /\ R2!Init

Next ==
  \/ R1!Next /\ UNCHANGED run2
  \/ R2!Next /\ UNCHANGED run1

Spec == Init /\ [][Next]_vars

-----------------------------------------------------------------------------
(* spec section 8: re-running the pipeline on an unchanged tree produces   *)
(* byte-identical reports; in particular the two runs list the same cycles *)
(* in the same order (generate_report prints them as found).               *)
SameCyclesReported ==
  R1!Done /\ R2!Done => cycles1 = cycles2
=============================================================================
