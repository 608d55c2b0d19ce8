----------------------------- MODULE PairReport -----------------------------
(***************************************************************************)
(* What the direct-cycle scan promises its caller, whatever order it meets *)
(* headers and includes in (spec sections 4.4 and 8): it reports unordered *)
(* pairs of headers one at a time, each a pair that include each other and *)
(* none twice, and it returns only once every such pair is reported.       *)
(* find_direct_cycles implements it, as main of check_circular_deps.py     *)
(* calls it (CircularDepsMain).                                            *)
(***************************************************************************)
EXTENDS DepGraph

VARIABLES
  graph,     \* the include graph scanned
  reported,  \* the unordered pairs reported so far, in order
  finished   \* the scan has returned

vars == <<graph, reported, finished>>

(* The unordered pairs of headers that include each other.                 *)
MutualPairs(G) == {{e[1], e[2]} : e \in {f \in G : <<f[2], f[1]>> \in G}}

Init ==
  /\ graph \in Graphs
  /\ reported = <<>>
  /\ finished = FALSE

(* One more mutual pair, not reported before.                              *)
Report ==
  /\ ~finished
  /\ \E p \in MutualPairs(graph) \ SeqNodes(reported) : reported' = Append(reported, p)
  /\ UNCHANGED <<graph, finished>>

(* The scan returns, every mutual pair reported.                           *)
Finish ==
  /\ ~finished
  /\ SeqNodes(reported) = MutualPairs(graph)
  /\ finished' = TRUE
  /\ UNCHANGED <<graph, reported>>

Next == Report \/ Finish

Spec == Init /\ [][Next]_vars
=============================================================================
