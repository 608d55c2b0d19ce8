------------------------------ MODULE DepGraph ------------------------------
(***************************************************************************)
(* The dependency graph the cycle detectors of                             *)
(* scripts/check_circular_deps.py and tools/dependency_analyzer.py work    *)
(* on.  A node is a header file (check_circular_deps) or a system          *)
(* (dependency_analyzer); both are abstracted to the numbers 1..N, whose   *)
(* order stands for the sorted order of the names (sorted(all_nodes)) or   *)
(* for the order of the self.systems list.  An edge <<a, b>> means "a      *)
(* includes / depends on b".                                               *)
(*                                                                         *)
(* The graph-theoretic notions below are the reference definitions the     *)
(* detectors are checked against; they use no RECURSIVE operator so that   *)
(* modules with proofs can extend this one.                                *)
(***************************************************************************)
EXTENDS Naturals, Sequences, FiniteSets

CONSTANT N

ASSUME NAssumption == N \in Nat \ {0}

Node == 1..N

Graphs == SUBSET (Node \X Node)

(* The nodes a node depends on: graph.get(node, []) in the code.           *)
Succ(G, n) == {m \in Node : <<n, m>> \in G}

(* Every node that occurs in an edge, as a source or as a target: the      *)
(* all_nodes set of find_transitive_cycles.                                *)
EdgeNodes(G) == {e[1] : e \in G} \cup {e[2] : e \in G}

(* The set of nodes of a sequence.                                         *)
SeqNodes(s) == {s[i] : i \in DOMAIN s}

(* A walk: every consecutive pair of the sequence is an edge.              *)
IsWalk(G, p) ==
  /\ Len(p) >= 1
  /\ \A i \in 1..(Len(p) - 1) : <<p[i], p[i + 1]>> \in G

(* A simple cycle written the way the detectors print it: N0 -> ... -> Nk  *)
(* -> N0, the first node repeated at the end and no other node repeated.  *)
IsCycle(G, c) ==
  /\ Len(c) >= 2
  /\ IsWalk(G, c)
  /\ c[1] = c[Len(c)]
  /\ \A i, j \in 1..(Len(c) - 1) : i # j => c[i] # c[j]

(* Reachability by one or more edges, as the least fixpoint reached after  *)
(* N rounds of extending paths by one edge.                                *)
Reach(G) ==
  LET R[k \in Nat] ==
        IF k = 0 THEN G
        ELSE R[k - 1] \cup {p \in Node \X Node :
                              \E b \in Node : <<p[1], b>> \in R[k - 1]
                                              /\ <<b, p[2]>> \in G}
  IN  R[N]

(* A node lies on a cycle when it reaches itself.                          *)
OnCycle(G, n) == <<n, n>> \in Reach(G)

Cyclic(G) == \E n \in Node : OnCycle(G, n)

(* A node lies on a cycle or depends, directly or not, on a node that does. *)
ReachesCycle(G, n) ==
  \E m \in Node : (m = n \/ <<n, m>> \in Reach(G)) /\ OnCycle(G, m)

(* The largest element of a non-empty finite set of numbers.               *)
Highest(S) == CHOOSE x \in S : \A y \in S : y <= x

(* The length of the longest dependency chain that starts at n: 0 for a    *)
(* node without dependencies, else one more than the longest chain of its  *)
(* dependencies (spec section 4.5).  For a node that reaches no cycle the  *)
(* chain has at most N - 1 edges, so N rounds compute it.                  *)
Height(G, n) ==
  LET H[k \in Nat] ==
        [m \in Node |-> IF k = 0 \/ Succ(G, m) = {} THEN 0
                        ELSE 1 + Highest({H[k - 1][d] : d \in Succ(G, m)})]
  IN  H[N][n]

(* The elements of a set of nodes in increasing order: the order in which  *)
(* a loop over the node list meets them.                                   *)
InOrder(S) ==
  LET f[k \in 0..N] == IF k = 0 THEN <<>>
                       ELSE IF k \in S THEN Append(f[k - 1], k) ELSE f[k - 1]
  IN  f[N]
=============================================================================
