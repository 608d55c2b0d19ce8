------------------------- MODULE CircularDepsMainProofs -------------------------
(***************************************************************************)
(* Proofs about main of scripts/check_circular_deps.py (module             *)
(* CircularDepsMain), for every number of headers and every include list:  *)
(* the direct scan it calls keeps its inductive invariant in every state   *)
(* of main, so its result is exact once it has returned.                   *)
(*                                                                         *)
(* The lemmas about find_direct_cycles alone are those of                  *)
(* DirectCyclesProofs, instantiated on main's variables.  What is left to  *)
(* show is that main's other steps do not disturb the scan: BuildGraph     *)
(* starts it afresh on the graph it builds, and every later step leaves    *)
(* the graph and the scan's variables alone.                               *)
(***************************************************************************)
EXTENDS CircularDepsMain, TLAPS

DP == INSTANCE DirectCyclesProofs
        WITH srcTodo <- dSrcTodo, cur <- dCur, depTodo <- dDepTodo,
             checked <- dChecked, cycles <- dCycles

(* The lemmas of DP hold under DirectCycles' assumption on N, which is     *)
(* main's own.                                                             *)
LEMMA DPAssumption == DP!NAssumption
  BY NAssumption

(* D, the instance CircularDepsMain calls, and DP, the instance of the    *)
(* proofs, are the same module on the same variables: their invariants,   *)
(* initial states and steps coincide.                                      *)
LEMMA SameIInv == (D!IInv <=> DP!IInv) /\ (D!IInv' <=> DP!IInv')
  BY DEF D!IInv, DP!IInv, D!TypeOK, DP!TypeOK, D!ReportedPairs, DP!ReportedPairs,
        D!PairsOf, DP!PairsOf, D!CheckedCovers, DP!CheckedCovers, D!MutualPairs,
        DP!MutualPairs, D!Pair, DP!Pair, D!Succ, DP!Succ, D!Graphs, DP!Graphs, D!Node, DP!Node

LEMMA SameExact == D!DirectCyclesExact <=> DP!DirectCyclesExact
  BY DEF D!DirectCyclesExact, DP!DirectCyclesExact, D!Done, DP!Done, D!Pair, DP!Pair,
         D!MutualPairs, DP!MutualPairs

LEMMA SameNext == D!Next <=> DP!Next
  BY DEF D!Next, DP!Next, D!NextSource, DP!NextSource, D!Examine, DP!Examine,
         D!EndSource, DP!EndSource, D!Succ, DP!Succ, D!Pair, DP!Pair, D!Node, DP!Node

(* A step of main that changes neither the graph nor the direct scan's     *)
(* variables keeps the scan's invariant: it is a stutter of the scan.      *)
LEMMA DirectUntouched ==
  ASSUME DP!IInv, UNCHANGED <<graph, dVars>>
  PROVE  DP!IInv'
  <1>1. UNCHANGED DP!vars
    BY DEF dVars, DP!vars
  <1>2. [DP!Next]_DP!vars
    BY <1>1
  <1>. QED
    BY <1>2, DP!NextIInv, DPAssumption

(* BuildGraph calls find_direct_cycles on the graph it has just built: the *)
(* scan starts from its initial state on that graph.                       *)
LEMMA BuildGraphIInv ==
  ASSUME BuildGraph
  PROVE  DP!IInv'
  <1>1. EdgesOf(lists) \in Graphs
    BY DEF EdgesOf, Graphs
  <1>2. D!TypeOK'
    BY <1>1 DEF BuildGraph, D!TypeOK, D!Sources, Graphs, D!Graphs, D!Node, Node
  <1>3. D!ReportedPairs' = {}
    BY DEF BuildGraph, D!ReportedPairs, D!PairsOf
  <1>4. D!CheckedCovers'
    BY DEF BuildGraph, D!CheckedCovers, D!Sources
  <1>5. D!IInv'
    BY <1>2, <1>3, <1>4 DEF BuildGraph, D!IInv
  <1>. QED
    BY <1>5, SameIInv

(* The direct scan's invariant holds in the initial state of main, where   *)
(* the graph is still empty.                                               *)
LEMMA InitDirect == Init => DP!IInv
  <1>1. D!Init <=> DP!Init
    BY DEF D!Init, DP!Init, D!Sources, DP!Sources, D!Graphs, DP!Graphs, D!Node, DP!Node
  <1>. QED
    BY <1>1, DP!InitIInv, DPAssumption DEF Init

(* Every step of main keeps the direct scan's invariant.                   *)
LEMMA NextDirect == DP!IInv /\ [Next]_vars => DP!IInv'
  <1> SUFFICES ASSUME DP!IInv, [Next]_vars PROVE DP!IInv'
    OBVIOUS
  <1>1. CASE BuildGraph
    BY <1>1, BuildGraphIInv
  <1>2. CASE DirectStep
    BY <1>2, SameNext, DP!NextIInv, DPAssumption DEF DirectStep
  <1>3. CASE MissingRoot \/ DirectDone \/ TransitiveStep \/ TransitiveDone \/ UNCHANGED vars
    BY <1>3, DirectUntouched DEF MissingRoot, DirectDone, TransitiveStep, TransitiveDone, vars
  <1>. QED
    BY <1>1, <1>2, <1>3 DEF Next

(* For every number of headers and every include list, every state of main *)
(* satisfies find_direct_cycles' invariant: the pairs it has reported are  *)
(* exactly the mutual pairs among those it has checked, each once, and    *)
(* checked covers every include it has iterated (run circular_main checks  *)
(* it as DirectScanInv).                                                   *)
THEOREM DirectScanInvHolds == Spec => []DirectScanInv
  <1>1. DP!IInv => DirectScanInv
    BY SameIInv DEF DirectScanInv
  <1>. QED
    BY InitDirect, NextDirect, <1>1, PTL DEF Spec

(* For every number of headers and every include list, once main has       *)
(* called find_direct_cycles and it has returned, the pairs it reported    *)
(* are exactly the mutually including pairs of the graph, each once,       *)
(* whatever order headers and includes were met in (spec section 8).      *)
THEOREM DirectScanExactHolds == Spec => []DirectScanExact
  <1>1. DP!IInv => DirectScanExact
    BY DP!IInvExact, DPAssumption, SameExact DEF DirectScanExact
  <1>. QED
    BY InitDirect, NextDirect, <1>1, PTL DEF Spec
-----------------------------------------------------------------------------
(***************************************************************************)
(* main's direct scan implements PairReport.  The invariant MainInv adds  *)
(* to the scan's own what the mapping needs of main: the scan's list is   *)
(* empty before the graph is built, and while the direct scan runs, and   *)
(* after, the graph is the one the include lists give.                    *)
(***************************************************************************)
MainInv ==
  /\ DP!IInv
  /\ lists \in [Node -> Seq(Node)]
  /\ phase \in {"start", "direct", "transitive", "exit"}
  /\ phase = "start" => dCycles = <<>>
  /\ phase \in {"direct", "transitive"} => rootExists /\ graph = EdgesOf(lists)

(* A list of at most MaxIncludes includes is a sequence.                   *)
LEMMA BoundedIsSeq == BoundedSeq(Node, MaxIncludes) \subseteq Seq(Node)
  <1> SUFFICES ASSUME NEW l \in BoundedSeq(Node, MaxIncludes) PROVE l \in Seq(Node)
    OBVIOUS
  <1>1. PICK m \in 0..MaxIncludes : l \in [1..m -> Node]
    BY DEF BoundedSeq, SeqOf
  <1>. QED
    BY <1>1, MaxIncludesAssumption

(* main starts in a state of MainInv.                                      *)
LEMMA InitMainInv == Init => MainInv
  <1> SUFFICES ASSUME Init PROVE MainInv
    OBVIOUS
  <1>1. DP!IInv
    BY InitDirect
  <1>2. lists \in [Node -> Seq(Node)]
    BY BoundedIsSeq DEF Init
  <1>. QED
    BY <1>1, <1>2 DEF Init, MainInv, D!Init

(* Every step of main keeps MainInv.                                       *)
LEMMA NextMainInv == MainInv /\ [Next]_vars => MainInv'
  <1> SUFFICES ASSUME MainInv, [Next]_vars PROVE MainInv'
    OBVIOUS
  <1>1. DP!IInv'
    BY NextDirect DEF MainInv
  <1>2. CASE DirectStep
    <2>1. dCycles' = dCycles \/ phase # "start"
      BY <1>2 DEF DirectStep
    <2>. QED
      BY <1>1, <1>2 DEF DirectStep, MainInv
  <1>3. CASE MissingRoot \/ BuildGraph \/ DirectDone \/ TransitiveStep
              \/ TransitiveDone \/ UNCHANGED vars
    BY <1>1, <1>3 DEF MissingRoot, BuildGraph, DirectDone, StartTransitive, TransitiveStep,
                      TransitiveDone, vars, dVars, tVars, MainInv
  <1>. QED
    BY <1>2, <1>3 DEF Next

(* The two definitions of the mutual pairs, DirectCycles' and the         *)
(* abstract one, are the same.                                             *)
LEMMA SameMutual == \A G : D!MutualPairs(G) = DR!MutualPairs(G)
  BY DEF D!MutualPairs, DR!MutualPairs, D!Pair

(* The reported pairs of the mapping are the scan's reported pairs.        *)
LEMMA ReportedSeqPairs == SeqNodes(ReportedSeq) = D!ReportedPairs
  BY DEF SeqNodes, ReportedSeq, D!ReportedPairs, D!PairsOf

(* The initial state of main maps to an initial state of PairReport.       *)
LEMMA RefineInitPairs == Init => DR!Init
  <1> SUFFICES ASSUME Init PROVE DR!Init
    OBVIOUS
  <1>1. EdgesOf(lists) \in Graphs
    BY DEF EdgesOf, Graphs
  <1>2. ReportedSeq = <<>>
    BY DEF Init, D!Init, ReportedSeq
  <1>3. ~(phase \in {"transitive", "exit"} /\ rootExists)
    BY DEF Init
  <1>. QED
    BY <1>1, <1>2, <1>3 DEF DR!Init, DR!Graphs, Graphs, DR!Node, Node

(* A step of main that leaves the include lists, rootExists, the direct   *)
(* scan's list and whether it has returned alone is a stutter of          *)
(* PairReport.                                                             *)
LEMMA PairStutter ==
  ASSUME UNCHANGED <<lists, rootExists, dCycles>>,
         (phase \in {"transitive", "exit"})' = (phase \in {"transitive", "exit"})
  PROVE  UNCHANGED DR!vars
  BY DEF DR!vars, ReportedSeq

(* Examining an include that reports a pair is a Report step.              *)
LEMMA ExamineReports ==
  ASSUME MainInv, phase = "direct", NEW d \in Node, D!Examine(d),
         UNCHANGED <<rootExists, lists, graph, phase>>, dCycles' # dCycles
  PROVE  DR!Report
  <1>1. D!IInv
    BY SameIInv DEF MainInv
  <1>2. dCur \in Node /\ <<dCur, d>> \in graph /\ graph = EdgesOf(lists) /\ graph \in Graphs
    BY <1>1 DEF D!Examine, D!IInv, D!TypeOK, D!Succ, MainInv, D!Graphs, Graphs, D!Node, Node
  <1>3. D!Pair(dCur, d) \notin dChecked /\ <<d, dCur>> \in graph
        /\ dCycles' = Append(dCycles, <<dCur, d>>)
    BY DEF D!Examine
  <1>4. D!Pair(dCur, d) \in D!MutualPairs(graph)
    BY <1>2, <1>3, DP!MutualIff, DPAssumption DEF D!MutualPairs, DP!MutualPairs, D!Pair, DP!Pair,
       Graphs, DP!Graphs, D!Node, DP!Node, Node
  <1>5. D!Pair(dCur, d) \notin SeqNodes(ReportedSeq)
    BY <1>1, <1>3, ReportedSeqPairs DEF D!IInv
  <1>6. ReportedSeq' = Append(ReportedSeq, D!Pair(dCur, d))
    BY <1>1, <1>3 DEF ReportedSeq, D!IInv, D!TypeOK
  <1>. QED
    BY <1>2, <1>4, <1>5, <1>6, SameMutual DEF DR!Report, DR!SeqNodes, SeqNodes

(* Every step of main maps to a step of PairReport or to a stutter.        *)
LEMMA RefineStepPairs == MainInv /\ [Next]_vars => [DR!Next]_DR!vars
  <1> SUFFICES ASSUME MainInv, [Next]_vars PROVE [DR!Next]_DR!vars
    OBVIOUS
  <1>1. CASE DirectStep
    <2>1. CASE dCycles' = dCycles
      BY <1>1, <2>1, PairStutter DEF DirectStep
    <2>2. CASE dCycles' # dCycles
      <3>1. PICK d \in Node : D!Examine(d)
        BY <1>1, <2>2 DEF DirectStep, D!Next, D!NextSource, D!EndSource, D!Node, Node
      <3>. QED
        BY <1>1, <2>2, <3>1, ExamineReports DEF DirectStep, DR!Next
    <2>. QED
      BY <2>1, <2>2
  <1>2. CASE DirectDone
    <2>1. D!IInv /\ D!Done /\ graph = EdgesOf(lists)
      BY <1>2, SameIInv DEF DirectDone, MainInv
    <2>2. D!ReportedPairs = D!MutualPairs(graph)
      <3>1. D!DirectCyclesExact
        BY <2>1, SameIInv, SameExact, DP!IInvExact, DPAssumption
      <3>. QED
        BY <2>1, <3>1 DEF D!DirectCyclesExact, D!ReportedPairs, D!PairsOf
    <2>3. SeqNodes(ReportedSeq) = DR!MutualPairs(EdgesOf(lists))
      BY <2>1, <2>2, ReportedSeqPairs, SameMutual
    <2>4. ReportedSeq' = ReportedSeq
      BY <1>2 DEF DirectDone, dVars, ReportedSeq
    <2>5. /\ phase = "direct" /\ phase' = "transitive"
          /\ rootExists /\ rootExists' = rootExists /\ lists' = lists
      BY <1>2 DEF DirectDone, MainInv
    <2>6. DR!Finish
      BY <2>3, <2>4, <2>5 DEF DR!Finish, DR!SeqNodes, SeqNodes
    <2>. QED
      BY <2>6 DEF DR!Next
  <1>3. CASE MissingRoot \/ BuildGraph \/ TransitiveStep \/ TransitiveDone \/ UNCHANGED vars
    <2>1. UNCHANGED <<lists, rootExists, dCycles>>
      BY <1>3 DEF MissingRoot, BuildGraph, TransitiveStep, TransitiveDone, vars, dVars, MainInv
    <2>2. (phase \in {"transitive", "exit"})' = (phase \in {"transitive", "exit"})
          \/ ~rootExists
      BY <1>3 DEF MissingRoot, BuildGraph, TransitiveStep, TransitiveDone, vars
    <2>. QED
      BY <2>1, <2>2 DEF DR!vars, ReportedSeq
  <1>. QED
    BY <1>1, <1>2, <1>3 DEF Next

(* For every number of headers and every include list, main's direct scan *)
(* implements PairReport: it reports mutually including pairs one at a    *)
(* time, never a pair that is not mutual and never one twice, and returns *)
(* only when every mutual pair is reported (run circular_main checks it   *)
(* as DirectImplementsPairReport).                                         *)
THEOREM DirectRefinement == Spec => DirectImplementsPairReport
  <1>1. Spec => []MainInv
    BY InitMainInv, NextMainInv, PTL DEF Spec
  <1>. QED
    BY <1>1, RefineInitPairs, RefineStepPairs, PTL DEF Spec, DirectImplementsPairReport, DR!Spec
=============================================================================
