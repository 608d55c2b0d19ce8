----------------------------- MODULE DirectCycles -----------------------------
(***************************************************************************)
(* find_direct_cycles of scripts/check_circular_deps.py: for each source   *)
(* of the graph dict, in the order the headers were scanned, and for each  *)
(* of its includes, in file order, the unordered pair is looked up in      *)
(* checked; a new pair is recorded and reported when the reverse include   *)
(* exists.  Both orders are the file system's and the files', so the      *)
(* model takes sources, and the includes of each source, in any order.    *)
(***************************************************************************)
EXTENDS DepGraph

VARIABLES
  graph,    \* the include graph
  srcTodo,  \* sources of graph.items() not yet iterated
  cur,      \* the source being iterated, 0 between sources
  depTodo,  \* includes of cur not yet iterated
  checked,  \* checked: the unordered pairs seen, as sets
  cycles    \* cycles: the reported (src, dst) pairs

vars == <<graph, srcTodo, cur, depTodo, checked, cycles>>

(* The keys of the graph dict: the headers with at least one include.     *)
Sources(G) == {e[1] : e \in G}

(* tuple(sorted([src, dst])), as the set of its elements                   *)
Pair(a, b) == {a, b}

Init ==
  /\ graph \in Graphs
  /\ srcTodo = Sources(graph)
  /\ cur = 0
  /\ depTodo = {}
  /\ checked = {}
  /\ cycles = <<>>

(* for src, deps in graph.items()                                          *)
NextSource(s) ==
  /\ cur = 0
  /\ s \in srcTodo
  /\ srcTodo' = srcTodo \ {s}
  /\ cur' = s
  /\ depTodo' = Succ(graph, s)
  /\ UNCHANGED <<graph, checked, cycles>>

(* Mutant of Examine: the pair is not looked up in checked.                *)
ExamineUnchecked(d) ==
  /\ cur # 0
  /\ d \in depTodo
  /\ depTodo' = depTodo \ {d}
  /\ checked' = checked \cup {Pair(cur, d)}
  /\ cycles' = IF <<d, cur>> \in graph THEN Append(cycles, <<cur, d>>) ELSE cycles
  /\ UNCHANGED <<graph, srcTodo, cur>>

(* for dst in deps: pair = tuple(sorted([src, dst])); if pair not in       *)
(* checked: checked.add(pair); if dst in graph and src in graph[dst]:      *)
(* cycles.append((src, dst))                                               *)
Examine(d) ==
  /\ cur # 0
  /\ d \in depTodo
  /\ depTodo' = depTodo \ {d}
  /\ IF Pair(cur, d) \notin checked
       THEN /\ checked' = checked \cup {Pair(cur, d)}
            /\ cycles' = IF <<d, cur>> \in graph
                           THEN Append(cycles, <<cur, d>>)
                           ELSE cycles
       ELSE UNCHANGED <<checked, cycles>>
  /\ UNCHANGED <<graph, srcTodo, cur>>

(* The includes of cur are exhausted.                                      *)
EndSource ==
  /\ cur # 0
  /\ depTodo = {}
  /\ cur' = 0
  /\ UNCHANGED <<graph, srcTodo, depTodo, checked, cycles>>

Done == cur = 0 /\ srcTodo = {}

Next ==
  \/ \E s \in Node : NextSource(s)
  \/ \E d \in Node : Examine(d)
  \/ EndSource

Spec == Init /\ [][Next]_vars

-----------------------------------------------------------------------------
TypeOK ==
  /\ graph \in Graphs
  /\ srcTodo \in SUBSET Node
  /\ cur \in Node \cup {0}
  /\ depTodo \in SUBSET Node
  /\ checked \in SUBSET SUBSET Node
  /\ cycles \in Seq(Node \X Node)

(* The unordered pairs of headers that include each other.                 *)
MutualPairs(G) == {Pair(e[1], e[2]) : e \in {f \in G : <<f[2], f[1]>> \in G}}

(* spec section 8: the direct-cycle result does not depend on the order in *)
(* which headers and includes are met.  When the scan is over, the pairs   *)
(* it reported are exactly the mutually including pairs of the graph,      *)
(* each reported once, whatever the order the loops took.                  *)
DirectCyclesExact ==
  Done =>
    /\ {Pair(cycles[i][1], cycles[i][2]) : i \in 1..Len(cycles)} = MutualPairs(graph)
    /\ \A i, j \in 1..Len(cycles) :
         i # j => Pair(cycles[i][1], cycles[i][2]) # Pair(cycles[j][1], cycles[j][2])

(* The unordered pairs of a list of (src, dst) pairs.                      *)
PairsOf(c) == {Pair(c[i][1], c[i][2]) : i \in 1..Len(c)}

(* The pairs reported so far, unordered.                                   *)
ReportedPairs == PairsOf(cycles)

(* Every include of a source the loop is done with, and of the current     *)
(* source's includes the ones already iterated, has its pair in checked.   *)
CheckedCovers ==
  \A e \in graph :
    e[1] \notin srcTodo /\ (e[1] = cur => e[2] \notin depTodo)
      => Pair(e[1], e[2]) \in checked

(* The inductive invariant behind DirectCyclesExact: while the loops run,  *)
(* the reported pairs are exactly the checked pairs that are mutual, each *)
(* reported once, and checked covers every include already iterated.      *)
(* A pair is reported at the first include that checks it; when a later   *)
(* include of the reverse direction meets it in checked it is skipped.    *)
IInv ==
  /\ TypeOK
  /\ cur # 0 => depTodo \subseteq Succ(graph, cur)
  /\ ReportedPairs = checked \cap MutualPairs(graph)
  /\ \A i, j \in 1..Len(cycles) :
       i # j => Pair(cycles[i][1], cycles[i][2]) # Pair(cycles[j][1], cycles[j][2])
  /\ CheckedCovers
=============================================================================
