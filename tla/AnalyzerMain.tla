----------------------------- MODULE AnalyzerMain -----------------------------
(***************************************************************************)
(* main of tools/dependency_analyzer.py after analyze_all_systems (module  *)
(* SystemScanner): generate_report calls detect_cycles (AnalyzerCycles),   *)
(* calculate_levels (LevelCalc) and runs the layer-violation loop over     *)
(* expected_layers; main writes the report and the Graphviz file, calls    *)
(* detect_cycles again for the summary and returns 1 if it found cycles.   *)
(*                                                                         *)
(* The two instances share all_deps, which nothing changes after the scan; *)
(* their locals are shown as they are on entry to each call.  The second   *)
(* detect_cycles and the second calculate_levels (generate_graphviz_file)  *)
(* run in the same process on the same sets, so they iterate them in the  *)
(* same order and return what the first calls returned.                    *)
(***************************************************************************)
EXTENDS DepGraph, Integers

CONSTANTS
  Expected,    \* expected_layers
  Foundation   \* 'common_system', exempt from the layer check

ASSUME PolicyAssumption ==
  /\ Expected \in [Node -> Nat]
  /\ Foundation \in Node

VARIABLES
  graph,        \* self.all_deps
  phase,        \* where main is
  violations,   \* violations: (system, dep, expected_level, dep_level)
  returnCode,   \* main's return value, passed to sys.exit
  cNext, cVisited, cRecStack, cStack, cCycles,                        \* detect_cycles
  lInDegree, lQueue, lLevel, lLevelSize, lInLevel, lLevels, lFinished \* calculate_levels

cVars == <<cNext, cVisited, cRecStack, cStack, cCycles>>
lVars == <<lInDegree, lQueue, lLevel, lLevelSize, lInLevel, lLevels, lFinished>>
vars == <<graph, phase, violations, returnCode, cVars, lVars>>

C == INSTANCE AnalyzerCycles
       WITH next <- cNext, visited <- cVisited, recStack <- cRecStack,
            stack <- cStack, cycles <- cCycles

L == INSTANCE LevelCalc
       WITH inDegree <- lInDegree, queue <- lQueue, level <- lLevel,
            levelSize <- lLevelSize, inLevel <- lInLevel, levels <- lLevels,
            finished <- lFinished

Init ==
  /\ C!Init
  /\ L!Init
  /\ phase = "cycles"
  /\ violations = {}
  /\ returnCode = 0

(* cycles = self.detect_cycles()                                           *)
CycleStep ==
  /\ phase = "cycles"
  /\ C!Next
  /\ UNCHANGED <<phase, violations, returnCode, lVars>>

(* The report's cycle section is written; levels = self.calculate_levels() *)
CyclesDone ==
  /\ phase = "cycles"
  /\ C!Done
  /\ phase' = "levels"
  /\ UNCHANGED <<graph, violations, returnCode, cVars, lVars>>

LevelStep ==
  /\ phase = "levels"
  /\ L!Next
  /\ UNCHANGED <<phase, violations, returnCode, cVars>>

(* The level sections are written from levels.                             *)
LevelsDone ==
  /\ phase = "levels"
  /\ lFinished
  /\ phase' = "policy"
  /\ UNCHANGED <<graph, violations, returnCode, cVars, lVars>>

(* The policy loop over expected_layers: a dependency whose expected      *)
(* level is not below its system's is a violation, common_system aside.  *)
CheckPolicy ==
  /\ phase = "policy"
  /\ violations' = {<<e[1], e[2], Expected[e[1]], Expected[e[2]]>> :
                      e \in {f \in graph : Expected[f[2]] >= Expected[f[1]]
                                             /\ f[2] # Foundation}}
  /\ phase' = "summary"
  /\ UNCHANGED <<graph, returnCode, cVars, lVars>>

(* cycles = analyzer.detect_cycles(); return 1 if cycles, else 0.          *)
Summary ==
  /\ phase = "summary"
  /\ returnCode' = IF cCycles # <<>> THEN 1 ELSE 0
  /\ phase' = "exit"
  /\ UNCHANGED <<graph, violations, cVars, lVars>>

Next ==
  \/ CycleStep
  \/ CyclesDone
  \/ LevelStep
  \/ LevelsDone
  \/ CheckPolicy
  \/ Summary

Spec == Init /\ [][Next]_vars

-----------------------------------------------------------------------------
(* spec section 4.6 and the glossary: a layer violation is an edge A->B   *)
(* target's expected level is not strictly lower than its source's, B not  *)
(* being the universal foundation module.                                  *)
LayerViolations(G) ==
  {e \in G : ~(Expected[e[2]] < Expected[e[1]]) /\ e[2] # Foundation}

(* main returns 1 exactly when the system graph has a cycle, although the *)
(* report's cycle list depends on the hash order and may hold lists that  *)
(* are not cycles.                                                         *)
ReturnCodeMatchesCycles ==
  phase = "exit" => (returnCode = 1 <=> Cyclic(graph))

(* spec section 8: once calculate_levels has returned, every system on a   *)
(* dependency cycle is listed under "Cyclic" (level -1) in the report.     *)
CycleSystemsListedCyclic ==
  phase \in {"policy", "summary", "exit"} =>
    \A s \in Node : OnCycle(graph, s) => lLevels[s] = L!Cycle

(* spec section 7: a detected cycle or a policy violation always produces  *)
(* exit code 1.                                                            *)
FindingsSetExitCode ==
  phase = "exit" => (returnCode = 1 <=> Cyclic(graph) \/ LayerViolations(graph) # {})
=============================================================================
