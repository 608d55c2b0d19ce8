------------------------------ MODULE LevelCalc ------------------------------
(***************************************************************************)
(* DependencyAnalyzer.calculate_levels of tools/dependency_analyzer.py: a  *)
(* layer-by-layer topological sort of the system graph all_deps.  The      *)
(* loop that fills in_degree runs on entry and is part of Init; the while  *)
(* loop pops the queue level_size times per level; the systems never       *)
(* popped get the cycle indicator -1 at the end.                           *)
(*                                                                         *)
(* The code counts in in_degree[dep] the systems that depend on dep, and   *)
(* when it pops a system it decrements the count of the systems that       *)
(* depend on it; the model keeps both loops exactly as written.            *)
(***************************************************************************)
EXTENDS DepGraph, Integers

VARIABLES
  graph,      \* all_deps
  inDegree,   \* in_degree
  queue,      \* queue
  level,      \* level
  levelSize,  \* the pops left in this round of the for _ in range(level_size)
  inLevel,    \* the for-loop of a level is running
  levels,     \* levels: a dict, a function on the systems levelled so far
  finished    \* the cycle indicators have been assigned: the function returned

vars == <<graph, inDegree, queue, level, levelSize, inLevel, levels, finished>>

SystemGraphs == {G \in Graphs : \A n \in Node : <<n, n>> \notin G}

(* The systems whose dependency set contains s.                            *)
Dependents(G, s) == {o \in Node : s \in Succ(G, o)}

Cycle == -1

Init ==
  /\ graph \in SystemGraphs
  /\ inDegree = [s \in Node |-> Cardinality(Dependents(graph, s))]
  /\ queue = InOrder({s \in Node : inDegree[s] = 0})
  /\ level = 0
  /\ levelSize = 0
  /\ inLevel = FALSE
  /\ levels = [s \in {} |-> 0]
  /\ finished = FALSE

(* while queue: level_size = len(queue)                                    *)
BeginLevel ==
  /\ ~inLevel
  /\ queue # <<>>
  /\ levelSize' = Len(queue)
  /\ inLevel' = TRUE
  /\ UNCHANGED <<graph, inDegree, queue, level, levels, finished>>

(* system = queue.popleft(); levels[system] = level; then for other in     *)
(* self.systems: if system in all_deps[other]: in_degree[other] -= 1 and,  *)
(* at 0, queue.append(other).                                              *)
Pop ==
  LET s == Head(queue)
      D == Dependents(graph, s)
  IN  /\ inLevel
      /\ levelSize > 0
      /\ levels' = [x \in DOMAIN levels \cup {s} |-> IF x = s THEN level ELSE levels[x]]
      /\ inDegree' = [o \in Node |-> IF o \in D THEN inDegree[o] - 1 ELSE inDegree[o]]
      /\ queue' = Tail(queue) \o InOrder({o \in D : inDegree[o] - 1 = 0})
      /\ levelSize' = levelSize - 1
      /\ UNCHANGED <<graph, level, inLevel, finished>>

(* level += 1 after the for-loop of a level.                               *)
EndLevel ==
  /\ inLevel
  /\ levelSize = 0
  /\ level' = level + 1
  /\ inLevel' = FALSE
  /\ UNCHANGED <<graph, inDegree, queue, levelSize, levels, finished>>

(* Mutant of MarkCyclic: the unlevelled systems get the current level.     *)
MarkCyclicLevel ==
  /\ ~inLevel
  /\ queue = <<>>
  /\ ~finished
  /\ levels' = [s \in Node |-> IF s \in DOMAIN levels THEN levels[s] ELSE level]
  /\ finished' = TRUE
  /\ UNCHANGED <<graph, inDegree, queue, level, levelSize, inLevel>>

(* The queue is empty: every system not in levels gets -1.                 *)
MarkCyclic ==
  /\ ~inLevel
  /\ queue = <<>>
  /\ ~finished
  /\ levels' = [s \in Node |-> IF s \in DOMAIN levels THEN levels[s] ELSE Cycle]
  /\ finished' = TRUE
  /\ UNCHANGED <<graph, inDegree, queue, level, levelSize, inLevel>>

Next == BeginLevel \/ Pop \/ EndLevel \/ MarkCyclic

Spec == Init /\ [][Next]_vars

-----------------------------------------------------------------------------
TypeOK ==
  /\ graph \in SystemGraphs
  /\ inDegree \in [Node -> Int]
  /\ queue \in Seq(Node)
  /\ level \in Nat
  /\ levelSize \in Nat
  /\ inLevel \in BOOLEAN
  /\ DOMAIN levels \subseteq Node
  /\ finished \in BOOLEAN

(* spec section 8: a system that lies on a dependency cycle is never given *)
(* a level: calculate_levels returns the cycle indicator -1 for it, and    *)
(* the report lists it as "Cyclic".                                        *)
CycleNodesUnlevelled ==
  finished => \A s \in Node : OnCycle(graph, s) => levels[s] = Cycle

(* spec sections 4.5 and 8: the level of a system that reaches no cycle is *)
(* the length of the longest dependency chain starting at it, so that a    *)
(* system with no dependencies has level 0.                                *)
LevelIsHeight ==
  finished => \A s \in Node : ~ReachesCycle(graph, s) => levels[s] = Height(graph, s)
=============================================================================
