---------------------------- MODULE AnalyzerCycles ----------------------------
(***************************************************************************)
(* DependencyAnalyzer.detect_cycles of tools/dependency_analyzer.py: a     *)
(* depth-first search over the system graph all_deps, started from every   *)
(* system in the order of the self.systems list, with the set visited and  *)
(* the list rec_stack shared by all the searches.                          *)
(*                                                                         *)
(* all_deps[node] is a set, iterated in the order of its hash table, which *)
(* string hashing randomises per process; the model lets the loop take the *)
(* remaining neighbours in any order.  The path argument is appended to    *)
(* and never read, so it is left out.                                      *)
(*                                                                         *)
(* When dfs meets a node of rec_stack it records rec_stack[cycle_start:] + *)
(* [neighbor] (unless the same list is already in cycles) and returns      *)
(* True, and every caller returns True at once: no frame pops rec_stack.   *)
(* As in TransitiveCycles the unwinding is one step, BackEdge; the nodes   *)
(* of the abandoned search stay at the bottom of rec_stack.                *)
(***************************************************************************)
EXTENDS DepGraph

VARIABLES
  graph,     \* all_deps
  next,      \* the system the outer for-loop looks at next
  visited,   \* visited
  recStack,  \* rec_stack, a list
  stack,     \* the dfs calls in progress: [node, todo]
  cycles     \* cycles

vars == <<graph, next, visited, recStack, stack, cycles>>

(* Both parsers skip the system itself (other_system != system,            *)
(* full_system_name != system), so no system depends on itself.            *)
SystemGraphs == {G \in Graphs : \A n \in Node : <<n, n>> \notin G}

Frame == [node : Node, todo : SUBSET Node]

Top == stack[Len(stack)]

(* rec_stack.index(neighbor)                                               *)
IndexOf(s, v) == CHOOSE i \in 1..Len(s) : s[i] = v /\ \A j \in 1..(i - 1) : s[j] # v

NewFrame(n) == [node |-> n, todo |-> Succ(graph, n)]

Consume(v) == [stack EXCEPT ![Len(stack)].todo = @ \ {v}]

Init ==
  /\ graph \in SystemGraphs
  /\ next = 1
  /\ visited = {}
  /\ recStack = <<>>
  /\ stack = <<>>
  /\ cycles = <<>>

(* Mutant of SkipRoot: the visited test is dropped, so a start node may be *)
(* passed over before it was searched.                                     *)
SkipRootAny ==
  /\ stack = <<>>
  /\ next <= N
  /\ next' = next + 1
  /\ UNCHANGED <<graph, visited, recStack, stack, cycles>>

(* for system in self.systems: if system not in visited -- skipped.        *)
SkipRoot ==
  /\ stack = <<>>
  /\ next <= N
  /\ next \in visited
  /\ next' = next + 1
  /\ UNCHANGED <<graph, visited, recStack, stack, cycles>>

(* dfs(system, []): visited.add(node); rec_stack.append(node)              *)
StartRoot ==
  /\ stack = <<>>
  /\ next <= N
  /\ next \notin visited
  /\ visited' = visited \cup {next}
  /\ recStack' = Append(recStack, next)
  /\ stack' = <<NewFrame(next)>>
  /\ next' = next + 1
  /\ UNCHANGED <<graph, cycles>>

(* if neighbor not in visited: if dfs(neighbor, path): return True         *)
Descend(v) ==
  /\ stack # <<>>
  /\ v \in Top.todo
  /\ v \notin visited
  /\ visited' = visited \cup {v}
  /\ recStack' = Append(recStack, v)
  /\ stack' = Append(Consume(v), NewFrame(v))
  /\ UNCHANGED <<graph, next, cycles>>

(* elif neighbor in rec_stack: cycle = rec_stack[cycle_start:] +           *)
(* [neighbor]; if cycle not in cycles: cycles.append(cycle); return True   *)
BackEdge(v) ==
  /\ stack # <<>>
  /\ v \in Top.todo
  /\ v \in visited
  /\ v \in SeqNodes(recStack)
  /\ LET c == SubSeq(recStack, IndexOf(recStack, v), Len(recStack)) \o <<v>>
     IN  cycles' = IF c \in SeqNodes(cycles) THEN cycles ELSE Append(cycles, c)
  /\ stack' = <<>>
  /\ UNCHANGED <<graph, next, visited, recStack>>

(* A neighbour that is visited and not in rec_stack is passed over.        *)
SkipVisited(v) ==
  /\ stack # <<>>
  /\ v \in Top.todo
  /\ v \in visited
  /\ v \notin SeqNodes(recStack)
  /\ stack' = Consume(v)
  /\ UNCHANGED <<graph, next, visited, recStack, cycles>>

(* The loop is over: rec_stack.pop(); return False.                        *)
Return ==
  /\ stack # <<>>
  /\ Top.todo = {}
  /\ recStack' = SubSeq(recStack, 1, Len(recStack) - 1)
  /\ stack' = SubSeq(stack, 1, Len(stack) - 1)
  /\ UNCHANGED <<graph, next, visited, cycles>>

Done == next > N /\ stack = <<>>

Next ==
  \/ SkipRoot
  \/ StartRoot
  \/ \E v \in Node : Descend(v) \/ BackEdge(v) \/ SkipVisited(v)
  \/ Return

Spec == Init /\ [][Next]_vars /\ WF_vars(Next)

-----------------------------------------------------------------------------
TypeOK ==
  /\ graph \in SystemGraphs
  /\ next \in 1..(N + 1)
  /\ visited \in SUBSET Node
  /\ recStack \in Seq(Node)
  /\ stack \in Seq(Frame)
  /\ cycles \in Seq(Seq(Node))

(* main returns 1 exactly when the system graph has a cycle: detect_cycles *)
(* reports at least one list when, and only when, there is a cycle.        *)
ExitCodeCorrect ==
  Done => (cycles # <<>> <=> Cyclic(graph))

(* Every list detect_cycles reports, and the report prints as "Cycle i",   *)
(* is a real cycle of the system graph.                                    *)
ReportedCyclesValid ==
  \A i \in 1..Len(cycles) : IsCycle(graph, cycles[i])
=============================================================================
