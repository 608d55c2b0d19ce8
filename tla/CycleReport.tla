----------------------------- MODULE CycleReport -----------------------------
(***************************************************************************)
(* What a cycle scan of a dependency graph promises its caller, whatever   *)
(* its search order: the list it returns only grows, one simple cycle of   *)
(* the graph at a time, earlier entries untouched; and when it returns,    *)
(* the list is empty exactly when the graph has no cycle.  It need not     *)
(* report every cycle.  TransitiveCycles implements it (the scan of        *)
(* check_circular_deps.py); AnalyzerCycles does not, since detect_cycles   *)
(* can report a list that is not a cycle.                                  *)
(***************************************************************************)
EXTENDS DepGraph

VARIABLES
  graph,     \* the graph scanned
  reported,  \* the cycles reported so far, in order
  finished   \* the scan has returned

vars == <<graph, reported, finished>>

Init ==
  /\ graph \in Graphs
  /\ reported = <<>>
  /\ finished = FALSE

(* The list grows by exactly one entry, a simple cycle of the graph.       *)
OneMore ==
  /\ reported' \in Seq(Seq(Node))
  /\ Len(reported') = Len(reported) + 1
  /\ \A i \in 1..Len(reported) : reported'[i] = reported[i]
  /\ IsCycle(graph, reported'[Len(reported')])

(* A cycle is reported while the scan goes on.                             *)
Report ==
  /\ ~finished
  /\ OneMore
  /\ UNCHANGED <<graph, finished>>

(* The scan returns, possibly reporting one last cycle.                    *)
Conclude ==
  /\ ~finished
  /\ finished' = TRUE
  /\ reported' = reported \/ OneMore
  /\ UNCHANGED graph

(* It returns with a non-empty list exactly when the graph is cyclic.      *)
Finish ==
  /\ Conclude
  /\ reported' # <<>> <=> Cyclic(graph)

Next == Report \/ Finish

(* No fairness: that the scan returns is the implementation's own          *)
(* liveness property (Termination), checked by TLC.                        *)
Spec == Init /\ [][Next]_vars

(* The safety part without the answer at the end: what is proved of        *)
(* TransitiveCycles for every graph (the answer needs Cyclic, whose        *)
(* reachability is out of the prover's reach and stays with TLC).          *)
SafeNext == Report \/ Conclude

SafeSpec == Init /\ [][SafeNext]_vars
=============================================================================
