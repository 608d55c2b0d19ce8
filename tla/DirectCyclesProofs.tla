--------------------------- MODULE DirectCyclesProofs ---------------------------
(***************************************************************************)
(* Proofs about find_direct_cycles (module DirectCycles), for every number *)
(* N of headers, every include graph and every order of the two loops:     *)
(* when the scan is over it has reported exactly the mutually including    *)
(* pairs, each once (DirectCyclesExact).                                   *)
(*                                                                         *)
(* DirectCyclesExact only speaks of the final state, so it is not          *)
(* inductive.  IInv says what holds while the loops run: the pairs         *)
(* reported are the mutual ones among the pairs in checked, each once,     *)
(* and checked covers every include already iterated.  At the end every    *)
(* include has been iterated, so every mutual pair is in checked.          *)
(***************************************************************************)
EXTENDS DirectCycles, TLAPS

(* A pair met at an include a -> b is mutual exactly when b includes a:    *)
(* the test `dst in graph and src in graph[dst]` of the code decides       *)
(* membership in MutualPairs.                                              *)
LEMMA MutualIff ==
  ASSUME NEW G \in Graphs, NEW a \in Node, NEW b \in Node, <<a, b>> \in G
  PROVE  Pair(a, b) \in MutualPairs(G) <=> <<b, a>> \in G
  <1>1. ASSUME Pair(a, b) \in MutualPairs(G) PROVE <<b, a>> \in G
    <2>1. PICK f \in G : <<f[2], f[1]>> \in G /\ Pair(f[1], f[2]) = Pair(a, b)
      BY <1>1 DEF MutualPairs
    <2>2. f = <<f[1], f[2]>> /\ f[1] \in Node /\ f[2] \in Node
      BY DEF Graphs
    <2>3. CASE f[1] = a
      BY <2>1, <2>2, <2>3 DEF Pair
    <2>4. CASE f[1] = b
      BY <2>1, <2>2, <2>4 DEF Pair
    <2>. QED
      BY <2>1, <2>3, <2>4 DEF Pair
  <1>2. ASSUME <<b, a>> \in G PROVE Pair(a, b) \in MutualPairs(G)
    BY <1>2 DEF MutualPairs
  <1>. QED
    BY <1>1, <1>2

(* The scan starts in a state of the inductive invariant: every source is  *)
(* still to be iterated, and nothing is checked or reported.               *)
LEMMA InitIInv == Init => IInv
  BY DEF Init, IInv, TypeOK, Sources, Graphs, ReportedPairs, PairsOf, CheckedCovers

(* The set of reported pairs after appending one pair.                     *)
LEMMA AppendPairs ==
  ASSUME NEW c \in Seq(Node \X Node), NEW a \in Node, NEW b \in Node
  PROVE  PairsOf(Append(c, <<a, b>>)) = PairsOf(c) \cup {Pair(a, b)}
  <1>. DEFINE ac == Append(c, <<a, b>>)
  <1>1. /\ Len(ac) = Len(c) + 1
        /\ \A i \in 1..Len(c) : ac[i] = c[i]
        /\ ac[Len(c) + 1] = <<a, b>>
    OBVIOUS
  <1>2. ASSUME NEW i \in 1..Len(ac)
        PROVE  Pair(ac[i][1], ac[i][2]) \in {Pair(c[k][1], c[k][2]) : k \in 1..Len(c)} \cup {Pair(a, b)}
    <2>1. CASE i = Len(c) + 1
      BY <1>1, <2>1
    <2>2. CASE i \in 1..Len(c)
      BY <1>1, <2>2
    <2>. QED
      BY <1>1, <2>1, <2>2
  <1>3. ASSUME NEW i \in 1..Len(c)
        PROVE  Pair(c[i][1], c[i][2]) \in {Pair(ac[k][1], ac[k][2]) : k \in 1..Len(ac)}
    <2>1. i \in 1..Len(ac) /\ ac[i] = c[i]
      BY <1>1
    <2>. QED
      BY <2>1
  <1>4. Pair(a, b) \in {Pair(ac[k][1], ac[k][2]) : k \in 1..Len(ac)}
    <2>1. Len(c) + 1 \in 1..Len(ac) /\ ac[Len(c) + 1] = <<a, b>>
      BY <1>1
    <2>. QED
      BY <2>1
  <1>. QED
    BY <1>2, <1>3, <1>4 DEF PairsOf

(* Taking a source keeps IInv: its includes become depTodo, and no other  *)
(* source changes side of the srcTodo test.                                *)
LEMMA NextSourceIInv ==
  ASSUME IInv, NEW s \in Node, NextSource(s)
  PROVE  IInv'
  <1>. USE DEF IInv, NextSource
  <1>1. TypeOK'
    BY DEF TypeOK, Succ
  <1>2. ReportedPairs' = ReportedPairs
    BY DEF ReportedPairs, PairsOf
  <1>3. CheckedCovers'
    <2> SUFFICES ASSUME NEW e \in graph', e[1] \notin srcTodo',
                        e[1] = cur' => e[2] \notin depTodo'
                 PROVE  Pair(e[1], e[2]) \in checked'
      BY DEF CheckedCovers
    <2>1. e = <<e[1], e[2]>> /\ e[1] \in Node /\ e[2] \in Node
      BY DEF TypeOK, Graphs
    <2>2. e[1] # s
      BY <2>1 DEF Succ
    <2>3. e[1] \notin srcTodo /\ e[1] # cur
      BY <2>1, <2>2 DEF Node
    <2>. QED
      BY <2>3 DEF CheckedCovers
  <1>. QED
    BY <1>1, <1>2, <1>3

(* Examining an include keeps IInv.  A new pair enters checked, and is     *)
(* reported exactly when it is mutual; a pair already checked is skipped,  *)
(* which is what keeps every mutual pair reported once.                    *)
LEMMA ExamineIInv ==
  ASSUME IInv, NEW d \in Node, Examine(d)
  PROVE  IInv'
  <1>. USE DEF IInv
  <1>1. cur \in Node /\ <<cur, d>> \in graph
    BY DEF Examine, TypeOK, Succ
  <1>2. CheckedCovers'
    BY <1>1 DEF Examine, CheckedCovers, TypeOK
  <1>3. TypeOK'
    <2>1. checked' \in SUBSET SUBSET Node
      BY <1>1 DEF Examine, TypeOK, Pair
    <2>2. cycles' \in Seq(Node \X Node)
      <3>1. <<cur, d>> \in Node \X Node
        BY <1>1
      <3>. QED
        BY <3>1 DEF Examine, TypeOK
    <2>. QED
      BY <2>1, <2>2 DEF Examine, TypeOK
  <1>4. CASE Pair(cur, d) \in checked
    <2>1. UNCHANGED <<checked, cycles>>
      BY <1>4 DEF Examine
    <2>2. ReportedPairs' = ReportedPairs
      BY <2>1 DEF ReportedPairs, PairsOf
    <2>. QED
      BY <1>2, <1>3, <2>1, <2>2 DEF Examine, TypeOK
  <1>5. CASE Pair(cur, d) \notin checked /\ <<d, cur>> \in graph
    <2>1. checked' = checked \cup {Pair(cur, d)} /\ cycles' = Append(cycles, <<cur, d>>)
      BY <1>5 DEF Examine
    <2>2. Pair(cur, d) \in MutualPairs(graph)
      BY <1>1, <1>5, MutualIff DEF TypeOK
    <2>3. ReportedPairs' = ReportedPairs \cup {Pair(cur, d)}
      <3>1. PairsOf(Append(cycles, <<cur, d>>)) = ReportedPairs \cup {Pair(cur, d)}
        <4>1. cycles \in Seq(Node \X Node)
          BY DEF TypeOK
        <4>2. \A c \in Seq(Node \X Node), a, b \in Node :
                PairsOf(Append(c, <<a, b>>)) = PairsOf(c) \cup {Pair(a, b)}
          BY AppendPairs
        <4>. QED
          BY <1>1, <4>1, <4>2 DEF ReportedPairs
      <3>. QED
        BY <2>1, <3>1 DEF ReportedPairs
    <2>4. ReportedPairs' = checked' \cap MutualPairs(graph')
      BY <2>1, <2>2, <2>3 DEF Examine
    <2>5. \A i \in 1..Len(cycles) : Pair(cycles[i][1], cycles[i][2]) # Pair(cur, d)
      BY <1>5 DEF ReportedPairs, PairsOf
    <2>6. \A i, j \in 1..Len(cycles') :
            i # j => Pair(cycles'[i][1], cycles'[i][2]) # Pair(cycles'[j][1], cycles'[j][2])
      BY <2>1, <2>5 DEF TypeOK
    <2>. QED
      BY <1>2, <1>3, <2>4, <2>6 DEF Examine
  <1>6. CASE Pair(cur, d) \notin checked /\ <<d, cur>> \notin graph
    <2>1. checked' = checked \cup {Pair(cur, d)} /\ cycles' = cycles
      BY <1>6 DEF Examine
    <2>2. Pair(cur, d) \notin MutualPairs(graph)
      BY <1>1, <1>6, MutualIff DEF TypeOK
    <2>3. ReportedPairs' = ReportedPairs
      BY <2>1 DEF ReportedPairs, PairsOf
    <2>. QED
      BY <1>2, <1>3, <2>1, <2>2, <2>3 DEF Examine
  <1>. QED
    BY <1>4, <1>5, <1>6

(* Ending a source keeps IInv: all its includes have been iterated.        *)
LEMMA EndSourceIInv ==
  ASSUME IInv, EndSource
  PROVE  IInv'
  <1>. USE DEF IInv, EndSource
  <1>1. ReportedPairs' = ReportedPairs
    BY DEF ReportedPairs, PairsOf
  <1>2. CheckedCovers'
    BY DEF CheckedCovers, TypeOK, Graphs
  <1>. QED
    BY <1>1, <1>2 DEF TypeOK

(* Every step of the loops keeps the inductive invariant.                  *)
LEMMA NextIInv == IInv /\ [Next]_vars => IInv'
  <1> SUFFICES ASSUME IInv, [Next]_vars PROVE IInv'
    OBVIOUS
  <1>1. CASE \E s \in Node : NextSource(s)
    BY <1>1, NextSourceIInv
  <1>2. CASE \E d \in Node : Examine(d)
    BY <1>2, ExamineIInv
  <1>3. CASE EndSource
    BY <1>3, EndSourceIInv
  <1>4. CASE UNCHANGED vars
    BY <1>4 DEF vars, IInv, TypeOK, ReportedPairs, PairsOf, CheckedCovers, MutualPairs, Succ
  <1>. QED
    BY <1>1, <1>2, <1>3, <1>4 DEF Next

(* When the loops are over, every include has been iterated, so checked    *)
(* holds every mutual pair and the invariant gives DirectCyclesExact.      *)
LEMMA IInvExact == IInv => DirectCyclesExact
  <1> SUFFICES ASSUME IInv, Done PROVE DirectCyclesExact
    BY DEF DirectCyclesExact
  <1>1. \A e \in graph : Pair(e[1], e[2]) \in checked
    BY DEF IInv, Done, CheckedCovers, TypeOK, Graphs, Node
  <1>2. MutualPairs(graph) \subseteq checked
    BY <1>1 DEF MutualPairs
  <1>. QED
    BY <1>2 DEF IInv, DirectCyclesExact, ReportedPairs, PairsOf

(* find_direct_cycles reports, for every number of headers, every include  *)
(* graph and every order of its two loops, exactly the mutually including  *)
(* pairs, each once, when it returns (spec section 8, order independence). *)
THEOREM DirectExact == Spec => []DirectCyclesExact
  <1>1. Init => IInv
    BY InitIInv
  <1>2. IInv /\ [Next]_vars => IInv'
    BY NextIInv
  <1>3. IInv => DirectCyclesExact
    BY IInvExact
  <1>. QED
    BY <1>1, <1>2, <1>3, PTL DEF Spec
=============================================================================
