--------------------------- MODULE TransitiveCycles ---------------------------
(***************************************************************************)
(* find_transitive_cycles of scripts/check_circular_deps.py: a depth-first *)
(* search over the include graph, started from every node in sorted order, *)
(* with the sets visited and rec_stack shared by all the searches and a    *)
(* path list created fresh for each start node.                            *)
(*                                                                         *)
(* The recursion of dfs is an explicit stack of frames; a frame holds the  *)
(* node of one dfs call and the neighbours its for-loop has still to look  *)
(* at.  The order in which graph[node] lists the neighbours is the order   *)
(* of the #include lines in the file, so the model lets the loop take the  *)
(* remaining neighbours in any order.                                      *)
(*                                                                         *)
(* When dfs finds a back edge it returns the cycle, and every caller       *)
(* returns it at once ("if cycle: return cycle"): none of them pops path   *)
(* or removes its node from rec_stack.  The unwinding changes no state, so *)
(* it is one step (BackEdge) that empties the call stack and appends the   *)
(* cycle to cycles; the nodes of the abandoned search stay in rec_stack.   *)
(***************************************************************************)
EXTENDS DepGraph

VARIABLES
  graph,     \* the include graph built by build_dependency_graph
  next,      \* the start node the outer for-loop looks at next
  visited,   \* visited
  recStack,  \* rec_stack
  path,      \* path of the running top-level dfs call
  stack,     \* the dfs calls in progress: [node, todo]
  cycles     \* the list returned

vars == <<graph, next, visited, recStack, path, stack, cycles>>

Frame == [node : Node, todo : SUBSET Node]

Top == stack[Len(stack)]

(* The position of the first occurrence of v in path: path.index(v).       *)
IndexOf(s, v) == CHOOSE i \in 1..Len(s) : s[i] = v /\ \A j \in 1..(i - 1) : s[j] # v

(* Mutant of CycleFrom: the slice starts at the last node of path.         *)
CycleFromLast(s, v) == <<s[Len(s)], v>>

(* path[cycle_start:] + [neighbor]                                         *)
CycleFrom(s, v) == SubSeq(s, IndexOf(s, v), Len(s)) \o <<v>>

(* The frame of a new dfs(node, path) call.                                *)
NewFrame(n) == [node |-> n, todo |-> Succ(graph, n)]

(* The caller's for-loop has consumed neighbour v.                         *)
Consume(v) == [stack EXCEPT ![Len(stack)].todo = @ \ {v}]

Init ==
  /\ graph \in Graphs
  /\ next = 1
  /\ visited = {}
  /\ recStack = {}
  /\ path = <<>>
  /\ stack = <<>>
  /\ cycles = <<>>

(* Mutant of SkipRoot: the loop bound is off by one.                      *)
SkipRootPastEnd ==
  /\ stack = <<>>
  /\ next \notin EdgeNodes(graph) \/ next \in visited
  /\ next' = next + 1
  /\ UNCHANGED <<graph, visited, recStack, path, stack, cycles>>

(* for node in sorted(all_nodes): if node not in visited -- the node is    *)
(* skipped (nodes outside all_nodes are not iterated at all).              *)
SkipRoot ==
  /\ stack = <<>>
  /\ next <= N
  /\ next \notin EdgeNodes(graph) \/ next \in visited
  /\ next' = next + 1
  /\ UNCHANGED <<graph, visited, recStack, path, stack, cycles>>

(* cycle = dfs(node, []): the call adds node to visited and rec_stack and  *)
(* starts a fresh path with it.                                            *)
StartRoot ==
  /\ stack = <<>>
  /\ next <= N
  /\ next \in EdgeNodes(graph) \ visited
  /\ visited' = visited \cup {next}
  /\ recStack' = recStack \cup {next}
  /\ path' = <<next>>
  /\ stack' = <<NewFrame(next)>>
  /\ next' = next + 1
  /\ UNCHANGED <<graph, cycles>>

(* if neighbor not in visited: cycle = dfs(neighbor, path)                 *)
Descend(v) ==
  /\ stack # <<>>
  /\ v \in Top.todo
  /\ v \notin visited
  /\ visited' = visited \cup {v}
  /\ recStack' = recStack \cup {v}
  /\ path' = Append(path, v)
  /\ stack' = Append(Consume(v), NewFrame(v))
  /\ UNCHANGED <<graph, next, cycles>>

(* Mutant of BackEdge: cycles is rebound to the new cycle instead of       *)
(* appended to.                                                            *)
BackEdgeOverwrite(v) ==
  /\ stack # <<>>
  /\ v \in Top.todo
  /\ v \in visited
  /\ v \in recStack
  /\ v \in SeqNodes(path)
  /\ cycles' = <<CycleFrom(path, v)>>
  /\ stack' = <<>>
  /\ UNCHANGED <<graph, next, visited, recStack, path>>

(* Mutant of BackEdge: a header that includes itself is not taken for a    *)
(* cycle.                                                                  *)
BackEdgeNoSelf(v) ==
  /\ stack # <<>>
  /\ v \in Top.todo
  /\ v \in visited
  /\ v \in recStack
  /\ v \in SeqNodes(path)
  /\ \/ /\ v = Top.node
        /\ stack' = Consume(v)
        /\ UNCHANGED <<graph, next, visited, recStack, path, cycles>>
     \/ /\ v # Top.node
        /\ cycles' = Append(cycles, CycleFrom(path, v))
        /\ stack' = <<>>
        /\ UNCHANGED <<graph, next, visited, recStack, path>>

(* elif neighbor in rec_stack, and path.index(neighbor) succeeds: the      *)
(* cycle is returned through every caller and appended to cycles.          *)
BackEdge(v) ==
  /\ stack # <<>>
  /\ v \in Top.todo
  /\ v \in visited
  /\ v \in recStack
  /\ v \in SeqNodes(path)
  /\ cycles' = Append(cycles, CycleFrom(path, v))
  /\ stack' = <<>>
  /\ UNCHANGED <<graph, next, visited, recStack, path>>

(* elif neighbor in rec_stack, but neighbor is left over in rec_stack from *)
(* an earlier, abandoned search: path.index raises ValueError, which is    *)
(* passed over.                                                            *)
StaleOnStack(v) ==
  /\ stack # <<>>
  /\ v \in Top.todo
  /\ v \in visited
  /\ v \in recStack
  /\ v \notin SeqNodes(path)
  /\ stack' = Consume(v)
  /\ UNCHANGED <<graph, next, visited, recStack, path, cycles>>

(* Mutant of SkipVisited: the loop does not advance past the neighbour.    *)
SkipVisitedStuck(v) ==
  /\ stack # <<>>
  /\ v \in Top.todo
  /\ v \in visited
  /\ v \notin recStack
  /\ UNCHANGED vars

(* A neighbour that is visited and not in rec_stack is passed over.        *)
SkipVisited(v) ==
  /\ stack # <<>>
  /\ v \in Top.todo
  /\ v \in visited
  /\ v \notin recStack
  /\ stack' = Consume(v)
  /\ UNCHANGED <<graph, next, visited, recStack, path, cycles>>

(* Mutant of Return: path is never popped.                                 *)
ReturnKeepPath ==
  /\ stack # <<>>
  /\ Top.todo = {}
  /\ recStack' = recStack \ {Top.node}
  /\ stack' = SubSeq(stack, 1, Len(stack) - 1)
  /\ UNCHANGED <<graph, next, visited, path, cycles>>

(* The loop is over: path.pop(); rec_stack.remove(node); return None.      *)
Return ==
  /\ stack # <<>>
  /\ Top.todo = {}
  /\ path' = SubSeq(path, 1, Len(path) - 1)
  /\ recStack' = recStack \ {Top.node}
  /\ stack' = SubSeq(stack, 1, Len(stack) - 1)
  /\ UNCHANGED <<graph, next, visited, cycles>>

Done == next > N /\ stack = <<>>

Next ==
  \/ SkipRoot
  \/ StartRoot
  \/ \E v \in Node : Descend(v) \/ BackEdge(v) \/ StaleOnStack(v) \/ SkipVisited(v)
  \/ Return

(* The function runs to its end once called: nothing else runs in the     *)
(* process, so its steps are weakly fair.                                  *)
Spec == Init /\ [][Next]_vars /\ WF_vars(Next)

-----------------------------------------------------------------------------
TypeOK ==
  /\ graph \in Graphs
  /\ next \in 1..(N + 1)
  /\ visited \in SUBSET Node
  /\ recStack \in SUBSET Node
  /\ path \in Seq(Node)
  /\ stack \in Seq(Frame)
  /\ cycles \in Seq(Seq(Node))

(* Every cycle find_transitive_cycles reports is a real simple cycle of    *)
(* the include graph: its nodes are joined by include edges in order and   *)
(* it closes on its first node.  The slice path[cycle_start:] is only a    *)
(* walk if path holds exactly the chain of calls in progress.              *)
ReportedCyclesValid ==
  \A i \in 1..Len(cycles) : IsCycle(graph, cycles[i])

(* While a search runs, path is the chain of dfs calls in progress: one    *)
(* entry per frame, each joined to the next by an include edge, no node    *)
(* twice, every node visited, and each frame's remaining neighbours are    *)
(* neighbours of its node.  This is what makes path[cycle_start:] a cycle; *)
(* with ReportedCyclesValid it is an inductive invariant.                  *)
PathInv ==
  stack # <<>> =>
    /\ Len(path) = Len(stack)
    /\ \A i \in 1..Len(stack) : /\ stack[i].node = path[i]
                                /\ stack[i].todo \subseteq Succ(graph, path[i])
    /\ \A i \in 1..(Len(path) - 1) : <<path[i], path[i + 1]>> \in graph
    /\ \A i, j \in 1..Len(path) : i # j => path[i] # path[j]
    /\ SeqNodes(path) \subseteq visited

IInv == TypeOK /\ PathInv /\ ReportedCyclesValid

(* When the scan is over, it has reported some cycle exactly when the      *)
(* graph has one: main's exit code 1 for transitive cycles is right, even  *)
(* though each search stops at its first cycle and leaves its nodes in     *)
(* rec_stack.                                                              *)
ExitCodeCorrect ==
  Done => (cycles # <<>> <=> Cyclic(graph))

(* The abstract promise of a cycle scan, with cycles as the reported list  *)
(* and the scan returned once the outer loop is over and no call is open.  *)
R == INSTANCE CycleReport WITH reported <- cycles, finished <- Done

(* find_transitive_cycles implements CycleReport: every step keeps the     *)
(* cycles found so far and appends at most one simple cycle, and the       *)
(* returned list is empty exactly when the graph is acyclic, although the  *)
(* search returns at each first cycle and leaves stale rec_stack entries.  *)
ImplementsCycleReport == R!Spec

(* The scan terminates.                                                    *)
Termination == <>Done

(* spec section 4.4: after a cycle is found the scan continues, so that    *)
(* every cycle is eventually reported; then every node that lies on a      *)
(* cycle lies on a reported one.                                           *)
AllCyclesReported ==
  Done => \A n \in Node : OnCycle(graph, n) =>
                            \E i \in 1..Len(cycles) : n \in SeqNodes(cycles[i])
=============================================================================
