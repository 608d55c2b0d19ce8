--------------------------- MODULE CircularDepsMain ---------------------------
(***************************************************************************)
(* main of scripts/check_circular_deps.py: the include directory is        *)
(* checked, the graph built and counted, then find_direct_cycles and       *)
(* find_transitive_cycles run one after the other on the same graph, and   *)
(* each sets exit_code to 1 when it reports something.  The two scans are  *)
(* the modules DirectCycles and TransitiveCycles, instantiated on the      *)
(* graph built here; printing and the optional report file change no      *)
(* state and are left out.                                                 *)
(*                                                                         *)
(* build_dependency_graph returns, per header, the list of its resolved    *)
(* includes, in file order and with repetitions; the scans only ask which  *)
(* includes a header has, so they get the set of edges of these lists.     *)
(***************************************************************************)
EXTENDS DepGraph, SequencesExt

CONSTANT MaxIncludes  \* the most #include lines a header has

ASSUME MaxIncludesAssumption == MaxIncludes \in Nat

VARIABLES
  rootExists,  \* include_dir.exists()
  lists,       \* the include lists build_dependency_graph returns
  graph,       \* the include graph the scans see
  phase,       \* where main is
  totalDeps,   \* total_deps
  exitCode,    \* exit_code, and the status passed to sys.exit
  dSrcTodo, dCur, dDepTodo, dChecked, dCycles,          \* find_direct_cycles
  tNext, tVisited, tRecStack, tPath, tStack, tCycles    \* find_transitive_cycles

dVars == <<dSrcTodo, dCur, dDepTodo, dChecked, dCycles>>
tVars == <<tNext, tVisited, tRecStack, tPath, tStack, tCycles>>
vars == <<rootExists, lists, graph, phase, totalDeps, exitCode, dVars, tVars>>

D == INSTANCE DirectCycles
       WITH srcTodo <- dSrcTodo, cur <- dCur, depTodo <- dDepTodo,
            checked <- dChecked, cycles <- dCycles

T == INSTANCE TransitiveCycles
       WITH next <- tNext, visited <- tVisited, recStack <- tRecStack,
            path <- tPath, stack <- tStack, cycles <- tCycles

(* The edges of the include lists: graph[src] holds dst.                   *)
EdgesOf(l) == {e \in Node \X Node : e[2] \in Range(l[e[1]])}

(* sum(len(deps) for deps in graph.values())                               *)
TotalDeps(l) == SumFunction([s \in Node |-> Len(l[s])])

Init ==
  /\ rootExists \in BOOLEAN
  /\ lists \in [Node -> BoundedSeq(Node, MaxIncludes)]
  /\ graph = {}
  /\ phase = "start"
  /\ totalDeps = 0
  /\ exitCode = 0
  /\ D!Init
  /\ T!Init

(* if not include_dir.exists(): print the error; sys.exit(1)               *)
MissingRoot ==
  /\ phase = "start"
  /\ ~rootExists
  /\ exitCode' = 1
  /\ phase' = "exit"
  /\ UNCHANGED <<rootExists, lists, graph, totalDeps, dVars, tVars>>

(* graph = build_dependency_graph(include_dir); total_deps = ...; then     *)
(* direct_cycles = find_direct_cycles(graph) is called.                    *)
BuildGraph ==
  /\ phase = "start"
  /\ rootExists
  /\ graph' = EdgesOf(lists)
  /\ totalDeps' = TotalDeps(lists)
  /\ phase' = "direct"
  /\ dSrcTodo' = D!Sources(graph')
  /\ dCur' = 0
  /\ dDepTodo' = {}
  /\ dChecked' = {}
  /\ dCycles' = <<>>
  /\ UNCHANGED <<rootExists, lists, exitCode, tVars>>

(* A step of find_direct_cycles.                                           *)
DirectStep ==
  /\ phase = "direct"
  /\ D!Next
  /\ UNCHANGED <<rootExists, lists, graph, phase, totalDeps, exitCode, tVars>>

(* The call find_transitive_cycles(graph): its locals start empty.         *)
StartTransitive ==
  /\ tNext' = 1
  /\ tVisited' = {}
  /\ tRecStack' = {}
  /\ tPath' = <<>>
  /\ tStack' = <<>>
  /\ tCycles' = <<>>

(* if direct_cycles: exit_code = 1; then transitive_cycles =               *)
(* find_transitive_cycles(graph) is called.                                *)
DirectDone ==
  /\ phase = "direct"
  /\ D!Done
  /\ exitCode' = IF dCycles # <<>> THEN 1 ELSE exitCode
  /\ phase' = "transitive"
  /\ StartTransitive
  /\ UNCHANGED <<rootExists, lists, graph, totalDeps, dVars>>

(* A step of find_transitive_cycles.                                       *)
TransitiveStep ==
  /\ phase = "transitive"
  /\ T!Next
  /\ UNCHANGED <<rootExists, lists, graph, phase, totalDeps, exitCode, dVars>>

(* Mutant of TransitiveDone: the transitive cycles do not set exit_code.    *)
TransitiveDoneNoExit ==
  /\ phase = "transitive"
  /\ T!Done
  /\ phase' = "exit"
  /\ UNCHANGED <<rootExists, lists, graph, totalDeps, exitCode, dVars, tVars>>

(* if transitive_cycles: exit_code = 1; the summary and the report file    *)
(* are written and sys.exit(exit_code) ends the script.                    *)
TransitiveDone ==
  /\ phase = "transitive"
  /\ T!Done
  /\ exitCode' = IF tCycles # <<>> THEN 1 ELSE exitCode
  /\ phase' = "exit"
  /\ UNCHANGED <<rootExists, lists, graph, totalDeps, dVars, tVars>>

Next ==
  \/ MissingRoot
  \/ BuildGraph
  \/ DirectStep
  \/ DirectDone
  \/ TransitiveStep
  \/ TransitiveDone

(* One thread runs main to its end.                                        *)
Spec == Init /\ [][Next]_vars /\ WF_vars(Next)

-----------------------------------------------------------------------------
(* spec section 6: the script exits with 1 exactly when the include        *)
(* directory is missing or the include graph has a cycle, direct or       *)
(* transitive, whatever order headers and includes are met in.             *)
ExitCodeMatchesSpec ==
  phase = "exit" => (exitCode = 1 <=> ~rootExists \/ Cyclic(EdgesOf(lists)))

(* Every run of the script ends.                                           *)
Terminates == <>(phase = "exit")

(* The headers form one ring through all of them, of three or more.       *)
IsRing(G) ==
  /\ N >= 3
  /\ \A n \in Node : Cardinality(Succ(G, n)) = 1
  /\ \A m, n \in Node : <<m, n>> \in Reach(G)

(* spec section 8, scenario A->B, B->C, C->A: when the headers form one    *)
(* ring, the direct scan reports nothing, the transitive scan reports      *)
(* exactly one cycle, through every header, and the exit code is 1.        *)
RingScenario ==
  phase = "exit" /\ rootExists /\ IsRing(graph) =>
    /\ dCycles = <<>>
    /\ Len(tCycles) = 1
    /\ SeqNodes(tCycles[1]) = Node
    /\ exitCode = 1

(* The direct scan's inductive invariant (DirectCycles!IInv), the one the  *)
(* proofs of DirectCyclesProofs rest on, holds in every state of main: the *)
(* scan's reported pairs are the mutual pairs among those it has checked,  *)
(* each once, and checked covers every include already iterated.          *)
DirectScanInv == D!IInv

(* The pairs find_direct_cycles has reported, unordered, in order.        *)
ReportedSeq == [i \in 1..Len(dCycles) |-> D!Pair(dCycles[i][1], dCycles[i][2])]

(* The direct scan seen as PairReport: the graph is the one the include    *)
(* lists give, and the scan has returned once main has gone on to the      *)
(* transitive scan.                                                        *)
DR == INSTANCE PairReport
        WITH graph <- EdgesOf(lists), reported <- ReportedSeq,
             finished <- (phase \in {"transitive", "exit"} /\ rootExists)

(* spec sections 4.4 and 8, as a behaviour: in every run of main, the      *)
(* direct scan reports mutually including pairs one at a time, never one  *)
(* that is not mutual and never one twice, and returns only when all are  *)
(* reported, whatever order headers and includes are met in.              *)
DirectImplementsPairReport == DR!Spec

(* spec section 8, inside main: once find_direct_cycles has returned, the *)
(* pairs it reported are exactly the mutually including pairs of the      *)
(* graph built from the include lists, each once, in whatever order the   *)
(* headers and their includes were met.                                   *)
DirectScanExact ==
  phase \in {"transitive", "exit"} /\ rootExists => D!DirectCyclesExact
=============================================================================
