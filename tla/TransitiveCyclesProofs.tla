------------------------- MODULE TransitiveCyclesProofs -------------------------
(***************************************************************************)
(* Proofs about find_transitive_cycles (module TransitiveCycles), for      *)
(* every number N of headers and every include graph: the type invariant, *)
(* and that every cycle it reports is a real simple cycle of the graph.    *)
(*                                                                         *)
(* ReportedCyclesValid is not inductive by itself: a back edge turns the   *)
(* slice path[cycle_start:] into the reported cycle, so the proof needs    *)
(* to know what path is while a search runs.  PathInv says it: path is    *)
(* the chain of calls in progress, a walk of the graph without repeated    *)
(* nodes.  IInv == TypeOK /\ PathInv /\ ReportedCyclesValid is inductive.  *)
(***************************************************************************)
EXTENDS TransitiveCycles, TLAPS

(* Consuming a neighbour keeps the frames' nodes and only shrinks the set  *)
(* of neighbours of the top frame.                                         *)
LEMMA ConsumeFacts ==
  ASSUME NEW v, stack \in Seq(Frame), stack # <<>>
  PROVE  /\ Consume(v) \in Seq(Frame)
         /\ Len(Consume(v)) = Len(stack)
         /\ \A i \in 1..Len(stack) : /\ Consume(v)[i].node = stack[i].node
                                     /\ Consume(v)[i].todo \subseteq stack[i].todo
         /\ Consume(v)[Len(stack)].todo = stack[Len(stack)].todo \ {v}
  <1>1. stack[Len(stack)] \in Frame
    OBVIOUS
  <1>2. [stack[Len(stack)] EXCEPT !.todo = @ \ {v}] \in Frame
    BY <1>1 DEF Frame
  <1>3. Consume(v) = [stack EXCEPT ![Len(stack)] = [stack[Len(stack)] EXCEPT !.todo = @ \ {v}]]
    BY DEF Consume
  <1>. QED
    BY <1>1, <1>2, <1>3 DEF Frame

(* The scan starts in a state of the inductive invariant.                 *)
LEMMA InitIInv == Init => IInv
  BY NAssumption DEF Init, IInv, TypeOK, PathInv, ReportedCyclesValid

(* The actions that only consume a neighbour of the top frame keep IInv.  *)
LEMMA ConsumeStep ==
  ASSUME IInv, NEW v \in Node, stack # <<>>,
         stack' = Consume(v),
         UNCHANGED <<graph, next, visited, recStack, path, cycles>>
  PROVE  IInv'
  <1>1. /\ stack' \in Seq(Frame)
        /\ Len(stack') = Len(stack)
        /\ \A i \in 1..Len(stack) : /\ stack'[i].node = stack[i].node
                                    /\ stack'[i].todo \subseteq stack[i].todo
    BY ConsumeFacts DEF IInv, TypeOK
  <1>2. TypeOK'
    BY <1>1 DEF IInv, TypeOK
  <1>3. PathInv'
    BY <1>1 DEF IInv, PathInv
  <1>4. ReportedCyclesValid'
    BY DEF IInv, ReportedCyclesValid, IsCycle, IsWalk
  <1>. QED
    BY <1>2, <1>3, <1>4 DEF IInv

(* The reported slice of path closed by the back edge is a simple cycle.   *)
LEMMA BackEdgeCycle ==
  ASSUME NEW G, NEW p \in Seq(Node), NEW v \in Node, NEW k \in 1..Len(p),
         p[k] = v,
         <<p[Len(p)], v>> \in G,
         \A i \in 1..(Len(p) - 1) : <<p[i], p[i + 1]>> \in G,
         \A i, j \in 1..Len(p) : i # j => p[i] # p[j]
  PROVE  IsCycle(G, SubSeq(p, k, Len(p)) \o <<v>>)
  <1> DEFINE c == SubSeq(p, k, Len(p)) \o <<v>>
  <1>1. /\ Len(c) = Len(p) - k + 2
        /\ \A i \in 1..(Len(p) - k + 1) : c[i] = p[k + i - 1]
        /\ c[Len(p) - k + 2] = v
    OBVIOUS
  <1>2. Len(c) >= 2 /\ c[1] = c[Len(c)]
    BY <1>1
  <1>3. \A i \in 1..(Len(c) - 1) : <<c[i], c[i + 1]>> \in G
    <2> SUFFICES ASSUME NEW i \in 1..(Len(c) - 1) PROVE <<c[i], c[i + 1]>> \in G
      OBVIOUS
    <2>1. CASE i = Len(p) - k + 1
      <3>1. i \in 1..(Len(p) - k + 1) /\ k + i - 1 = Len(p)
        BY <2>1
      <3>2. c[i] = p[Len(p)]
        BY <1>1, <3>1
      <3>3. c[i + 1] = v
        BY <1>1, <2>1
      <3>. QED
        BY <3>2, <3>3
    <2>2. CASE i < Len(p) - k + 1
      <3>0. i \in 1..(Len(p) - k + 1) /\ i + 1 \in 1..(Len(p) - k + 1)
        BY <2>2
      <3>1. c[i] = p[k + i - 1] /\ c[i + 1] = p[k + (i + 1) - 1]
        BY <1>1, <3>0
      <3>2. k + i - 1 \in 1..(Len(p) - 1)
        BY <2>2
      <3>. QED
        BY <3>1, <3>2
    <2>3. i = Len(p) - k + 1 \/ i < Len(p) - k + 1
      BY <1>1
    <2>. QED
      BY <2>1, <2>2, <2>3
  <1>4. \A i, j \in 1..(Len(c) - 1) : i # j => c[i] # c[j]
    <2> SUFFICES ASSUME NEW i \in 1..(Len(c) - 1), NEW j \in 1..(Len(c) - 1), i # j
                 PROVE  c[i] # c[j]
      OBVIOUS
    <2>1. c[i] = p[k + i - 1] /\ c[j] = p[k + j - 1]
      BY <1>1
    <2>2. k + i - 1 \in 1..Len(p) /\ k + j - 1 \in 1..Len(p) /\ k + i - 1 # k + j - 1
      BY <1>1
    <2>. QED
      BY <2>1, <2>2
  <1>5. IsWalk(G, c)
    BY <1>2, <1>3 DEF IsWalk
  <1>. QED
    BY <1>2, <1>4, <1>5 DEF IsCycle

(* With no node twice in path, path.index(v) finds v's only position.      *)
LEMMA IndexOfFacts ==
  ASSUME NEW p \in Seq(Node), NEW v, v \in SeqNodes(p),
         \A i, j \in 1..Len(p) : i # j => p[i] # p[j]
  PROVE  IndexOf(p, v) \in 1..Len(p) /\ p[IndexOf(p, v)] = v
  <1>1. PICK k \in 1..Len(p) : p[k] = v
    BY DEF SeqNodes
  <1>2. \A j \in 1..(k - 1) : p[j] # v
    BY <1>1
  <1>. QED
    BY <1>1, <1>2 DEF IndexOf

(* Every step of the scan, and every stutter, keeps the inductive         *)
(* invariant: one case per action of find_transitive_cycles and dfs.      *)
THEOREM NextIInv == IInv /\ [Next]_vars => IInv'
<1> SUFFICES ASSUME IInv, [Next]_vars PROVE IInv'
  OBVIOUS
<1>0. TypeOK
  BY DEF IInv
<1>1. CASE SkipRoot
  BY <1>1, NAssumption DEF SkipRoot, IInv, TypeOK, PathInv, ReportedCyclesValid
<1>2. CASE StartRoot
  <2>0. next \in Node
    BY <1>0, <1>2 DEF StartRoot, TypeOK, Node
  <2>1. next \in Node /\ NewFrame(next) \in Frame
    BY <2>0 DEF NewFrame, Frame, Succ
  <2>2. TypeOK'
    BY <1>0, <1>2, <2>1, NAssumption DEF StartRoot, TypeOK
  <2>3. PathInv'
    BY <1>2, <2>1 DEF StartRoot, PathInv, NewFrame, SeqNodes
  <2>4. ReportedCyclesValid'
    BY <1>2 DEF StartRoot, IInv, ReportedCyclesValid
  <2>. QED
    BY <2>2, <2>3, <2>4 DEF IInv
<1>3. ASSUME NEW v \in Node, Descend(v) PROVE IInv'
  <2> DEFINE L == Len(stack)
  <2>1. stack # <<>> /\ v \in Top.todo /\ v \notin visited
    BY <1>3 DEF Descend
  <2>2. /\ Consume(v) \in Seq(Frame)
        /\ Len(Consume(v)) = L
        /\ \A i \in 1..L : /\ Consume(v)[i].node = stack[i].node
                           /\ Consume(v)[i].todo \subseteq stack[i].todo
    BY <1>0, <2>1, ConsumeFacts DEF TypeOK
  <2>3. NewFrame(v) \in Frame
    BY DEF NewFrame, Frame, Succ
  <2>4. /\ Len(path) = L
        /\ \A i \in 1..L : /\ stack[i].node = path[i]
                           /\ stack[i].todo \subseteq Succ(graph, path[i])
        /\ \A i \in 1..(L - 1) : <<path[i], path[i + 1]>> \in graph
        /\ \A i, j \in 1..L : i # j => path[i] # path[j]
        /\ SeqNodes(path) \subseteq visited
    BY <2>1 DEF IInv, PathInv
  <2>5. <<path[L], v>> \in graph
    BY <2>1, <2>4, <1>0 DEF Top, Succ, TypeOK
  <2>6. TypeOK'
    BY <1>3, <1>0, <2>2, <2>3 DEF Descend, TypeOK
  <2>7. PathInv'
    <3>1. /\ stack' = Append(Consume(v), NewFrame(v))
          /\ path' = Append(path, v)
          /\ visited' = visited \cup {v}
          /\ graph' = graph
      BY <1>3 DEF Descend
    <3>2. Len(path') = Len(stack') /\ Len(path') = L + 1
      BY <3>1, <2>2, <2>4, <1>0 DEF TypeOK
    <3>0. /\ \A i \in 1..L : stack'[i] = Consume(v)[i] /\ path'[i] = path[i]
          /\ stack'[L + 1] = NewFrame(v) /\ path'[L + 1] = v
      BY <3>1, <2>2, <2>4, <1>0 DEF TypeOK
    <3>3. \A i \in 1..(L + 1) : /\ stack'[i].node = path'[i]
                                /\ stack'[i].todo \subseteq Succ(graph', path'[i])
      <4>1. \A i \in 1..L : /\ stack'[i].node = path'[i]
                            /\ stack'[i].todo \subseteq Succ(graph', path'[i])
        BY <3>0, <3>1, <2>2, <2>4
      <4>2. stack'[L + 1] = NewFrame(v) /\ path'[L + 1] = v
        BY <3>0
      <4>3. stack'[L + 1].node = path'[L + 1]
            /\ stack'[L + 1].todo \subseteq Succ(graph', path'[L + 1])
        BY <4>2, <3>1 DEF NewFrame
      <4>. QED
        BY <4>1, <4>3
    <3>4. \A i \in 1..L : <<path'[i], path'[i + 1]>> \in graph'
      <4>1. \A i \in 1..(L - 1) : <<path'[i], path'[i + 1]>> \in graph'
        BY <3>0, <3>1, <2>4
      <4>2. L >= 1 => <<path'[L], path'[L + 1]>> \in graph'
        BY <3>0, <3>1, <2>4, <2>5
      <4>3. L \in Nat
        BY <1>0 DEF TypeOK
      <4>. QED
        <5> TAKE i \in 1..L
        <5>1. i \in 1..(L - 1) \/ (i = L /\ L >= 1)
          BY <4>3
        <5>. QED
          BY <4>1, <4>2, <5>1
    <3>5. v \notin SeqNodes(path)
      BY <2>1, <2>4
    <3>6. \A i, j \in 1..(L + 1) : i # j => path'[i] # path'[j]
      BY <3>1, <3>5, <2>4, <1>0 DEF TypeOK, SeqNodes
    <3>7. SeqNodes(path') \subseteq visited'
      BY <3>1, <2>4, <1>0 DEF TypeOK, SeqNodes
    <3>. QED
      BY <3>2, <3>3, <3>4, <3>6, <3>7 DEF PathInv
  <2>8. ReportedCyclesValid'
    BY <1>3 DEF Descend, IInv, ReportedCyclesValid
  <2>. QED
    BY <2>6, <2>7, <2>8 DEF IInv
<1>4. ASSUME NEW v \in Node, BackEdge(v) PROVE IInv'
  <2> DEFINE L == Len(stack)
  <2>1. stack # <<>> /\ v \in Top.todo /\ v \in SeqNodes(path)
    BY <1>4 DEF BackEdge
  <2>2. /\ Len(path) = L
        /\ stack[L].node = path[L]
        /\ stack[L].todo \subseteq Succ(graph, path[L])
        /\ \A i \in 1..(L - 1) : <<path[i], path[i + 1]>> \in graph
        /\ \A i, j \in 1..L : i # j => path[i] # path[j]
    BY <2>1, <1>0 DEF IInv, PathInv, TypeOK
  <2>3. IndexOf(path, v) \in 1..Len(path) /\ path[IndexOf(path, v)] = v
    BY <2>1, <2>2, <1>0, IndexOfFacts DEF TypeOK
  <2>4. <<path[Len(path)], v>> \in graph
    BY <2>1, <2>2 DEF Top, Succ
  <2>5. IsCycle(graph, CycleFrom(path, v))
    BY <2>2, <2>3, <2>4, <1>0, BackEdgeCycle DEF CycleFrom, TypeOK
  <2>6. CycleFrom(path, v) \in Seq(Node)
    BY <2>3, <1>0 DEF CycleFrom, TypeOK
  <2>7. TypeOK'
    BY <1>4, <1>0, <2>6 DEF BackEdge, TypeOK
  <2>8. PathInv'
    BY <1>4 DEF BackEdge, PathInv
  <2>9. ReportedCyclesValid'
    <3>1. cycles' = Append(cycles, CycleFrom(path, v)) /\ graph' = graph
      BY <1>4 DEF BackEdge
    <3>. QED
      BY <3>1, <2>5, <1>0 DEF IInv, ReportedCyclesValid, TypeOK
  <2>. QED
    BY <2>7, <2>8, <2>9 DEF IInv
<1>5. ASSUME NEW v \in Node, StaleOnStack(v) PROVE IInv'
  BY <1>5, ConsumeStep DEF StaleOnStack
<1>6. ASSUME NEW v \in Node, SkipVisited(v) PROVE IInv'
  BY <1>6, ConsumeStep DEF SkipVisited
<1>7. CASE Return
  <2> DEFINE L == Len(stack)
  <2>1. /\ stack # <<>>
        /\ stack' = SubSeq(stack, 1, L - 1)
        /\ path' = SubSeq(path, 1, Len(path) - 1)
        /\ UNCHANGED <<graph, visited, cycles>>
    BY <1>7 DEF Return
  <2>2. /\ Len(path) = L
        /\ \A i \in 1..L : /\ stack[i].node = path[i]
                           /\ stack[i].todo \subseteq Succ(graph, path[i])
        /\ \A i \in 1..(L - 1) : <<path[i], path[i + 1]>> \in graph
        /\ \A i, j \in 1..L : i # j => path[i] # path[j]
        /\ SeqNodes(path) \subseteq visited
    BY <2>1 DEF IInv, PathInv
  <2>3. TypeOK'
    BY <1>7, <1>0, <2>1, <2>2 DEF Return, TypeOK
  <2>4. PathInv'
    <3>1. Len(stack') = L - 1 /\ Len(path') = L - 1
      BY <2>1, <2>2, <1>0 DEF TypeOK
    <3>2. \A i \in 1..(L - 1) : stack'[i] = stack[i] /\ path'[i] = path[i]
      BY <2>1, <2>2, <1>0 DEF TypeOK
    <3>3. SeqNodes(path') \subseteq SeqNodes(path)
      <4>1. path' \in Seq(Node) /\ DOMAIN path' = 1..(L - 1)
        BY <2>1, <2>2, <1>0 DEF TypeOK
      <4>2. L - 1 <= Len(path) /\ DOMAIN path = 1..Len(path)
        BY <2>2, <1>0 DEF TypeOK
      <4>. QED
        BY <4>1, <4>2, <3>2 DEF SeqNodes
    <3>. QED
      BY <3>1, <3>2, <3>3, <2>1, <2>2 DEF PathInv
  <2>5. ReportedCyclesValid'
    BY <2>1 DEF IInv, ReportedCyclesValid
  <2>. QED
    BY <2>3, <2>4, <2>5 DEF IInv
<1>8. CASE UNCHANGED vars
  BY <1>8 DEF vars, IInv, TypeOK, PathInv, ReportedCyclesValid
<1>. QED
  BY <1>1, <1>2, <1>3, <1>4, <1>5, <1>6, <1>7, <1>8 DEF Next

(* For every number of headers, along every run of find_transitive_cycles  *)
(* path is the chain of dfs calls in progress, a walk of the include graph *)
(* without repeated nodes, and every cycle reported so far is simple: the  *)
(* inductive invariant the run transitive_cycles checks as IInv.           *)
THEOREM IInvHolds == Spec => []IInv
  BY InitIInv, NextIInv, PTL DEF Spec

(* Type correctness of find_transitive_cycles for every number of headers:  *)
(* visited, rec_stack, path, the call stack and the cycle list keep their   *)
(* types along every run.                                                   *)
THEOREM TypeCorrect == Spec => []TypeOK
<1>1. IInv => TypeOK
  BY DEF IInv
<1>. QED
  BY InitIInv, NextIInv, <1>1, PTL DEF Spec

(* For every number of headers, every cycle find_transitive_cycles reports  *)
(* is a simple cycle of the include graph, although a search abandoned at   *)
(* its first cycle leaves its nodes in rec_stack: path.index then fails and *)
(* the stale entry is passed over.                                          *)
THEOREM CyclesValid == Spec => []ReportedCyclesValid
<1>1. IInv => ReportedCyclesValid
  BY DEF IInv
<1>. QED
  BY InitIInv, NextIInv, <1>1, PTL DEF Spec

(* The instance R of CycleReport talks of the same nodes, graphs and       *)
(* cycles as this module: both take them from DepGraph with the same N.    *)
LEMMA InstanceSame ==
  /\ R!Node = Node
  /\ R!Graphs = Graphs
  /\ \A G, c : R!IsCycle(G, c) <=> IsCycle(G, c)
  BY DEF R!Node, Node, R!Graphs, Graphs, R!IsCycle, IsCycle, R!IsWalk, IsWalk

(* The initial state of the scan is an initial state of CycleReport:        *)
(* nothing reported, and the scan has not returned since 1 <= N.            *)
LEMMA RefineInit == Init => R!Init
<1> SUFFICES ASSUME Init PROVE R!Init
  OBVIOUS
<1>1. graph \in R!Graphs
  BY InstanceSame DEF Init
<1>2. ~Done
  BY NAssumption DEF Init, Done
<1>3. Done = FALSE
  BY <1>2
<1>. QED
  BY <1>1, <1>3 DEF Init, R!Init

(* A step that reports nothing, taken before the scan has returned, is a    *)
(* stutter of CycleReport or, when it ends the scan, its Conclude step.     *)
LEMMA QuietStep ==
  ASSUME cycles' = cycles, graph' = graph, ~Done
  PROVE  [R!SafeNext]_R!vars
<1>1. CASE Done'
  BY <1>1 DEF R!SafeNext, R!Conclude
<1>2. CASE ~Done'
  <2>1. Done' = Done
    BY <1>2 DEF Done
  <2>. QED
    BY <2>1 DEF R!vars
<1>. QED
  BY <1>1, <1>2

(* Every step of find_transitive_cycles is a step of CycleReport's safety  *)
(* part, or leaves its variables alone: only BackEdge reports, and what it *)
(* appends is a simple cycle because IInv holds after the step.            *)
LEMMA RefineStep == IInv /\ IInv' /\ [Next]_vars => [R!SafeNext]_R!vars
<1> SUFFICES ASSUME IInv, IInv', [Next]_vars PROVE [R!SafeNext]_R!vars
  OBVIOUS
<1>0. TypeOK /\ TypeOK'
  BY DEF IInv
<1>1. CASE SkipRoot \/ StartRoot
  <2>1. next <= N /\ cycles' = cycles /\ graph' = graph
    BY <1>1 DEF SkipRoot, StartRoot
  <2>2. next \in 1..(N + 1)
    BY <1>0 DEF TypeOK
  <2>3. ~Done
    BY ONLY <2>1, <2>2, NAssumption DEF Done
  <2>. QED
    BY <2>1, <2>3, QuietStep
<1>2. ASSUME NEW v \in Node, Descend(v) \/ StaleOnStack(v) \/ SkipVisited(v)
      PROVE  [R!SafeNext]_R!vars
  BY <1>2, QuietStep DEF Descend, StaleOnStack, SkipVisited, Done
<1>3. CASE Return
  BY <1>3, QuietStep DEF Return, Done
<1>4. ASSUME NEW v \in Node, BackEdge(v) PROVE [R!SafeNext]_R!vars
  <2>1. /\ ~Done
        /\ graph' = graph
        /\ cycles' = Append(cycles, CycleFrom(path, v))
    BY <1>4 DEF BackEdge, Done
  <2>2. /\ cycles' \in Seq(Seq(Node))
        /\ Len(cycles') = Len(cycles) + 1
        /\ \A i \in 1..Len(cycles) : cycles'[i] = cycles[i]
    BY <1>0, <2>1 DEF TypeOK
  <2>3. IsCycle(graph, cycles'[Len(cycles')])
    <3>1. Len(cycles') \in 1..Len(cycles')
      BY <2>2, <1>0 DEF TypeOK
    <3>. QED
      BY <2>1, <3>1 DEF IInv, ReportedCyclesValid
  <2>4. R!OneMore
    BY <2>2, <2>3, InstanceSame DEF R!OneMore
  <2>5. CASE Done'
    BY <2>1, <2>4, <2>5 DEF R!SafeNext, R!Conclude
  <2>6. CASE ~Done'
    <3>1. Done' = Done
      BY <2>1, <2>6 DEF Done
    <3>. QED
      BY <2>1, <2>4, <3>1 DEF R!SafeNext, R!Report
  <2>. QED
    BY <2>5, <2>6
<1>5. CASE UNCHANGED vars
  BY <1>5 DEF vars, R!vars, Done
<1>. QED
  BY <1>1, <1>2, <1>3, <1>4, <1>5 DEF Next

(* find_transitive_cycles implements the safety part of CycleReport, for   *)
(* every number of headers: the list it returns only grows, by one simple  *)
(* cycle of the graph at a time, earlier entries kept.                     *)
THEOREM Refinement == Spec => R!SafeSpec
<1>1. Spec => []IInv
  BY InitIInv, NextIInv, PTL DEF Spec
<1>. QED
  BY <1>1, RefineInit, RefineStep, PTL DEF Spec, R!SafeSpec

=====
