------------------------ MODULE IncludeResolverProofs ------------------------
(***************************************************************************)
(* Proofs about the scan of build_dependency_graph (IncludeResolver): the  *)
(* graph it builds lists, for every header, the nodes its #include lines   *)
(* name, in file order, provided resolve_include and is_system_header      *)
(* treat each single token as spec section 4.2 says.  That per-token       *)
(* agreement (ResolutionAsSpecified) is about Normalize, a fold over the   *)
(* segments, and stays with TLC; what is proved here is that the scan puts *)
(* the per-token answers together correctly: every line read once, in      *)
(* order, none lost at an IOError or between two headers.                  *)
(***************************************************************************)
EXTENDS IncludeResolver, TLAPS

(* resolve_include and is_system_header agree with spec section 4.2 on    *)
(* every token, whichever way include_dir is given.                        *)
ResolverAgrees == \A form \in RootForms : TokensResolveAsSpecified(IncludeDir(form))

-----------------------------------------------------------------------------
(* Lemmas about the unread rest of a header's #include lines.              *)

LEMMA BoundedIsSeq == BoundedSeq(Tokens, MaxIncludes) \subseteq Seq(Tokens)
  <1> SUFFICES ASSUME NEW l \in BoundedSeq(Tokens, MaxIncludes) PROVE l \in Seq(Tokens)
    OBVIOUS
  <1>1. PICK m \in 0..MaxIncludes : l \in [1..m -> Tokens]
    BY DEF BoundedSeq, SeqOf
  <1>. QED
    BY <1>1, ResolverAssumption

(* Before the first line is read, the rest is the whole file.              *)
LEMMA RestWhole ==
  ASSUME NEW S, NEW s \in Seq(S)
  PROVE  SubSeq(s, 0 + 1, Len(s)) = s
  OBVIOUS

(* The rest after k lines is empty only when all lines are read.           *)
LEMMA RestEmpty ==
  ASSUME NEW S, NEW s \in Seq(S), NEW k \in 0..Len(s),
         SubSeq(s, k + 1, Len(s)) = <<>>
  PROVE  k = Len(s)
  <1>1. Len(SubSeq(s, k + 1, Len(s))) = Len(s) - k
    OBVIOUS
  <1>. QED
    BY <1>1

(* Reading one more line: its head is line k+1, its tail the rest after    *)
(* k+1 lines.                                                              *)
LEMMA RestStep ==
  ASSUME NEW S, NEW s \in Seq(S), NEW k \in 0..Len(s),
         SubSeq(s, k + 1, Len(s)) # <<>>
  PROVE  /\ k < Len(s)
         /\ Head(SubSeq(s, k + 1, Len(s))) = s[k + 1]
         /\ Tail(SubSeq(s, k + 1, Len(s))) = SubSeq(s, k + 2, Len(s))
  <1>1. k < Len(s)
    OBVIOUS
  <1>2. Head(SubSeq(s, k + 1, Len(s))) = s[k + 1]
    BY <1>1
  <1>3. Tail(SubSeq(s, k + 1, Len(s))) = SubSeq(s, k + 2, Len(s))
    BY <1>1
  <1>. QED
    BY <1>1, <1>2, <1>3

-----------------------------------------------------------------------------
(* Lemmas about ListsTargets: how includes grows as the lines are read.    *)

(* Nothing read, nothing listed.                                            *)
LEMMA ListsNothing ==
  ASSUME NEW f
  PROVE  ListsTargets(<<>>, f, Named(f, 0))
  <1>1. Named(f, 0) = {}
    BY DEF Named
  <1>2. [j \in 1..0 |-> 0] \in [1..Len(<<>>) -> {}]
    OBVIOUS
  <1>. QED
    BY <1>1, <1>2 DEF ListsTargets

(* A line that names no node leaves includes as it was.                    *)
LEMMA ListsSkip ==
  ASSUME NEW f, NEW e, NEW k \in Nat,
         ListsTargets(e, f, Named(f, k)),
         Target(f, incl[f][k + 1]) = None
  PROVE  ListsTargets(e, f, Named(f, k + 1))
  <1>1. Named(f, k + 1) = Named(f, k)
    BY DEF Named
  <1>. QED
    BY <1>1

(* A line that names a node appends it.                                     *)
LEMMA ListsKeep ==
  ASSUME NEW f, NEW e, NEW k \in Nat, NEW S, e \in Seq(S),
         NEW x \in S, x = Target(f, incl[f][k + 1]), x # None,
         ListsTargets(e, f, Named(f, k))
  PROVE  ListsTargets(Append(e, x), f, Named(f, k + 1))
  <1>1. PICK g \in [1..Len(e) -> Named(f, k)] :
          /\ \A i, j \in 1..Len(e) : i < j => g[i] < g[j]
          /\ \A p \in Named(f, k) : \E j \in 1..Len(e) : g[j] = p
          /\ \A j \in 1..Len(e) : e[j] = Target(f, incl[f][g[j]])
    BY DEF ListsTargets
  <1> DEFINE h == [j \in 1..Len(e) + 1 |-> IF j <= Len(e) THEN g[j] ELSE k + 1]
  <1>2. Named(f, k + 1) = Named(f, k) \cup {k + 1}
    BY DEF Named
  <1>3. Named(f, k) \subseteq 1..k
    BY DEF Named
  <1>4. Len(Append(e, x)) = Len(e) + 1
    OBVIOUS
  <1>5. h \in [1..Len(Append(e, x)) -> Named(f, k + 1)]
    BY <1>2, <1>4
  <1>6. \A i, j \in 1..Len(Append(e, x)) : i < j => h[i] < h[j]
    BY <1>1, <1>3, <1>4
  <1>7. \A p \in Named(f, k + 1) : \E j \in 1..Len(Append(e, x)) : h[j] = p
    BY <1>1, <1>2, <1>4
  <1>8. \A j \in 1..Len(Append(e, x)) : Append(e, x)[j] = Target(f, incl[f][h[j]])
    BY <1>1, <1>4
  <1>. QED
    BY <1>5, <1>6, <1>7, <1>8 DEF ListsTargets

-----------------------------------------------------------------------------
(* ResolveInv is inductive.                                                 *)

(* What a header done with has for edges depends on its edges, whether its *)
(* read failed and its lines only.                                          *)
LEMMA ScannedFixed ==
  ASSUME NEW f, graph'[f] = graph[f], (f \in failed') <=> (f \in failed), incl' = incl
  PROVE  ScannedAsRead(f)' <=> ScannedAsRead(f)
  BY DEF ScannedAsRead, ListsTargets, Named

(* The scan starts in a state of ResolveInv.                                *)
LEMMA InitResolveInv == Init => ResolveInv
  <1> SUFFICES ASSUME Init PROVE ResolveInv
    OBVIOUS
  <1>1. incl \in [Tree -> Seq(Tokens)]
    BY BoundedIsSeq DEF Init
  <1>2. graph \in [Tree -> Seq(Values)]
    BY DEF Init
  <1>. QED
    BY <1>1, <1>2 DEF Init, ResolveInv

(* rglob yields a header: nothing of it is read yet.                        *)
LEMMA OpenFileInv ==
  ASSUME ResolveInv, NEW f \in Tree, OpenFile(f)
  PROVE  ResolveInv'
  <1>1. cur = None /\ f \in todo /\ f \notin failed /\ graph[f] = <<>>
    BY DEF OpenFile, ResolveInv
  <1>2. incl[f] \in Seq(Tokens)
    BY DEF ResolveInv
  <1>3. \A g \in Tree \ todo' : g # cur' => ScannedAsRead(g)'
    <2> SUFFICES ASSUME NEW g \in Tree \ todo', g # cur' PROVE ScannedAsRead(g)'
      OBVIOUS
    <2>1. g \in Tree \ todo /\ g # cur
      BY <1>1, ResolverAssumption DEF OpenFile
    <2>2. ScannedAsRead(g)
      BY <2>1 DEF ResolveInv
    <2>. QED
      BY <2>2, ScannedFixed DEF OpenFile
  <1>4. ListsTargets(<<>>, f, Named(f, 0))
    BY ListsNothing
  <1>5. SubSeq(incl[f], 0 + 1, Len(incl[f])) = incl[f]
    BY <1>2, RestWhole
  <1>6. (\E k \in 0..Len(incl[cur]) :
           /\ ListsTargets(found, cur, Named(cur, k))
           /\ IF cur \in failed THEN lines = <<>>
                                ELSE lines = SubSeq(incl[cur], k + 1, Len(incl[cur])))'
    <2>1. 0 \in 0..Len(incl[f])
      BY <1>2
    <2>4. Named(cur, 0)' = {}
      BY DEF Named
    <2>5. found' = <<>>
      BY DEF OpenFile
    <2>2. ListsTargets(found, cur, Named(cur, 0))'
      <3>1. [j \in 1..0 |-> 0] \in [1..Len(found') -> Named(cur, 0)']
        BY <2>4, <2>5
      <3>. QED
        BY <2>4, <2>5, <3>1 DEF ListsTargets
    <2>3. (IF cur \in failed THEN lines = <<>>
                            ELSE lines = SubSeq(incl[cur], 0 + 1, Len(incl[cur])))'
      BY <1>1, <1>5 DEF OpenFile
    <2>. QED
      BY <2>1, <2>2, <2>3 DEF OpenFile
  <1>. QED
    BY <1>1, <1>2, <1>3, <1>6 DEF OpenFile, ResolveInv

(* While cur is read, the lines named so far depend on includes only.      *)
LEMMA ListsFoundPrimed ==
  ASSUME NEW k, incl' = incl, cur' = cur
  PROVE  ListsTargets(found, cur, Named(cur, k))' <=> ListsTargets(found', cur, Named(cur, k))
  <1>1. Named(cur, k)' = Named(cur, k)
    BY DEF Named
  <1>. QED
    BY <1>1 DEF ListsTargets

(* The #include line read next is line k+1 of cur, and what remains after  *)
(* it the lines after k+1.                                                 *)
LEMMA ReadPosition ==
  ASSUME ResolveInv, cur # None, lines # <<>>
  PROVE  /\ cur \in Tree \ failed
         /\ \E k \in 0..Len(incl[cur]) - 1 :
              /\ ListsTargets(found, cur, Named(cur, k))
              /\ Head(lines) = incl[cur][k + 1]
              /\ Tail(lines) = SubSeq(incl[cur], (k + 1) + 1, Len(incl[cur]))
  <1>1. cur \in Tree /\ incl[cur] \in Seq(Tokens)
    BY DEF ResolveInv
  <1>2. PICK k \in 0..Len(incl[cur]) :
          /\ ListsTargets(found, cur, Named(cur, k))
          /\ IF cur \in failed THEN lines = <<>>
                               ELSE lines = SubSeq(incl[cur], k + 1, Len(incl[cur]))
    BY DEF ResolveInv
  <1>3. cur \notin failed
    BY <1>2
  <1>4. lines = SubSeq(incl[cur], k + 1, Len(incl[cur]))
    BY <1>2, <1>3
  <1>5. /\ k < Len(incl[cur])
        /\ Head(lines) = incl[cur][k + 1]
        /\ Tail(lines) = SubSeq(incl[cur], k + 2, Len(incl[cur]))
    BY <1>1, <1>4, RestStep
  <1>. QED
    BY <1>1, <1>2, <1>3, <1>5

(* One #include line is read: includes lists the nodes of one more line.   *)
LEMMA ReadIncludeInv ==
  ASSUME ResolveInv, ResolverAgrees, ReadInclude
  PROVE  ResolveInv'
  <1>1. cur # None /\ lines # <<>>
    BY DEF ReadInclude
  <1>2. cur \in Tree \ failed /\ incl[cur] \in Seq(Tokens)
    BY <1>1, ReadPosition DEF ResolveInv
  <1>3. PICK k \in 0..Len(incl[cur]) - 1 :
              /\ ListsTargets(found, cur, Named(cur, k))
              /\ Head(lines) = incl[cur][k + 1]
              /\ Tail(lines) = SubSeq(incl[cur], (k + 1) + 1, Len(incl[cur]))
    BY <1>1, ReadPosition
  <1> DEFINE t == incl[cur][k + 1]
  <1>4. t \in Tokens /\ k \in Nat /\ k + 1 \in 0..Len(incl[cur])
    BY <1>2
  <1>5. PICK form \in RootForms : root = IncludeDir(form)
    BY DEF ResolveInv
  <1>6. IF IsSystemHeader(t) THEN Target(cur, t) = None
                             ELSE ResolveInclude(t, cur, root) = Target(cur, t)
    BY <1>2, <1>4, <1>5 DEF ResolverAgrees, TokensResolveAsSpecified
  <1>7. found' = IF Target(cur, t) = None THEN found ELSE Append(found, Target(cur, t))
    BY <1>3, <1>6 DEF ReadInclude
  <1>8. found \in Seq(Values)
    BY DEF ResolveInv
  <1>9. ListsTargets(found', cur, Named(cur, k + 1)) /\ found' \in Seq(Values)
    <2>1. CASE Target(cur, t) = None
      BY <1>3, <1>4, <1>7, <1>8, <2>1, ListsSkip
    <2>2. CASE Target(cur, t) # None
      <3>1. Target(cur, t) \in Values
        BY <1>2, <1>4, <2>2 DEF Values
      <3>. QED
        BY <1>3, <1>4, <1>7, <1>8, <2>2, <3>1, ListsKeep
    <2>. QED
      BY <2>1, <2>2
  <1>10. ListsTargets(found, cur, Named(cur, k + 1))'
    BY <1>9, ListsFoundPrimed DEF ReadInclude
  <1>11. (IF cur \in failed THEN lines = <<>>
                           ELSE lines = SubSeq(incl[cur], (k + 1) + 1, Len(incl[cur])))'
    BY <1>2, <1>3 DEF ReadInclude
  <1>12. \A g \in Tree \ todo' : g # cur' => ScannedAsRead(g)'
    BY ScannedFixed DEF ReadInclude, ResolveInv
  <1>13. lines' \in Seq(Tokens)
    BY DEF ReadInclude, ResolveInv
  <1>. QED
    BY <1>4, <1>9, <1>10, <1>11, <1>12, <1>13 DEF ReadInclude, ResolveInv

(* An IOError: cur keeps the lines named before it and reads no more.      *)
LEMMA ReadFailsInv ==
  ASSUME ResolveInv, ReadFails
  PROVE  ResolveInv'
  <1>1. cur \in Tree /\ cur \notin todo /\ graph[cur] = <<>>
    BY DEF ReadFails, ResolveInv
  <1>2. PICK k \in 0..Len(incl[cur]) : ListsTargets(found, cur, Named(cur, k))
    BY DEF ReadFails, ResolveInv
  <1>3. (\E j \in 0..Len(incl[cur]) :
           /\ ListsTargets(found, cur, Named(cur, j))
           /\ IF cur \in failed THEN lines = <<>>
                                ELSE lines = SubSeq(incl[cur], j + 1, Len(incl[cur])))'
    <2>1. ListsTargets(found, cur, Named(cur, k))'
      BY <1>2, ListsFoundPrimed DEF ReadFails
    <2>2. (cur \in failed)' /\ lines' = <<>>
      BY DEF ReadFails
    <2>. QED
      BY <2>1, <2>2 DEF ReadFails
  <1>4. \A g \in Tree \ todo' : g # cur' => ScannedAsRead(g)'
    <2> SUFFICES ASSUME NEW g \in Tree \ todo', g # cur' PROVE ScannedAsRead(g)'
      OBVIOUS
    <2>1. ScannedAsRead(g) /\ ((g \in failed') <=> (g \in failed))
      BY DEF ReadFails, ResolveInv
    <2>. QED
      BY <2>1, ScannedFixed DEF ReadFails
  <1>5. \A g \in todo' : graph'[g] = <<>> /\ g \notin failed'
    BY <1>1 DEF ReadFails, ResolveInv
  <1>. QED
    BY <1>1, <1>3, <1>4, <1>5 DEF ReadFails, ResolveInv

(* A header done with: the edges of a header depend on its lines and on   *)
(* whether its read failed only.                                            *)
LEMMA ScannedEdges ==
  ASSUME NEW g, NEW e, graph'[g] = e, failed' = failed, incl' = incl
  PROVE  ScannedAsRead(g)' <=>
           IF g \in failed THEN \E k \in 0..Len(incl[g]) : ListsTargets(e, g, Named(g, k))
                           ELSE ListsTargets(e, g, Named(g, Len(incl[g])))
  <1>1. \A k : Named(g, k)' = Named(g, k)
    BY DEF Named
  <1>. QED
    BY <1>1 DEF ScannedAsRead, ListsTargets

(* The includes of cur become its edges in graph, and cur is done with.    *)
LEMMA EndFileInv ==
  ASSUME ResolveInv, EndFile
  PROVE  ResolveInv'
  <1>1. cur \in Tree /\ cur \notin todo /\ graph[cur] = <<>> /\ lines = <<>>
    BY DEF EndFile, ResolveInv
  <1>2. graph' = [graph EXCEPT ![cur] = found] /\ found \in Seq(Values)
    BY <1>1 DEF EndFile, ResolveInv
  <1>3. PICK k \in 0..Len(incl[cur]) :
          /\ ListsTargets(found, cur, Named(cur, k))
          /\ IF cur \in failed THEN lines = <<>>
                               ELSE lines = SubSeq(incl[cur], k + 1, Len(incl[cur]))
    BY DEF EndFile, ResolveInv
  <1>4. cur \notin failed => k = Len(incl[cur])
    BY <1>1, <1>3, RestEmpty DEF ResolveInv
  <1>5. \A g \in Tree \ todo' : g # cur' => ScannedAsRead(g)'
    <2> SUFFICES ASSUME NEW g \in Tree \ todo' PROVE ScannedAsRead(g)'
      BY DEF EndFile
    <2>1. CASE g = cur
      <3>1. graph'[g] = found
        BY <1>1, <1>2, <2>1 DEF ResolveInv
      <3>2. IF g \in failed THEN \E j \in 0..Len(incl[g]) : ListsTargets(found, g, Named(g, j))
                            ELSE ListsTargets(found, g, Named(g, Len(incl[g])))
        BY <1>3, <1>4, <2>1
      <3>. QED
        BY <3>1, <3>2, ScannedEdges DEF EndFile
    <2>2. CASE g # cur
      <3>1. ScannedAsRead(g) /\ graph'[g] = graph[g]
        BY <1>2, <2>2 DEF EndFile, ResolveInv
      <3>. QED
        BY <3>1, ScannedFixed DEF EndFile
    <2>. QED
      BY <2>1, <2>2
  <1>6. graph' \in [Tree -> Seq(Values)] /\ \A g \in todo' : graph'[g] = <<>> /\ g \notin failed'
    BY <1>1, <1>2 DEF EndFile, ResolveInv
  <1>7. cur' = None
    BY DEF EndFile
  <1>. QED
    BY <1>5, <1>6, <1>7 DEF EndFile, ResolveInv

(* Every step of the scan keeps ResolveInv, when the per-token answers are *)
(* those of spec section 4.2.                                               *)
LEMMA NextResolveInv ==
  ASSUME ResolverAgrees
  PROVE  ResolveInv /\ [Next]_vars => ResolveInv'
  <1> SUFFICES ASSUME ResolveInv, [Next]_vars PROVE ResolveInv'
    OBVIOUS
  <1>1. CASE \E f \in Tree : OpenFile(f)
    BY <1>1, OpenFileInv
  <1>2. CASE ReadInclude
    BY <1>2, ReadIncludeInv
  <1>3. CASE ReadFails
    BY <1>3, ReadFailsInv
  <1>4. CASE EndFile
    BY <1>4, EndFileInv
  <1>5. CASE UNCHANGED vars
    <2>1. \A g \in Tree \ todo' : g # cur' => ScannedAsRead(g)'
      BY <1>5, ScannedFixed DEF vars, ResolveInv
    <2>2. cur # None => \A k : ListsTargets(found, cur, Named(cur, k))'
                                 <=> ListsTargets(found, cur, Named(cur, k))
      BY <1>5, ListsFoundPrimed DEF vars
    <2>. QED
      BY <1>5, <2>1, <2>2 DEF vars, ResolveInv
  <1>. QED
    BY <1>1, <1>2, <1>3, <1>4, <1>5 DEF Next

-----------------------------------------------------------------------------
(* ResolveInv holds in every state of the scan, provided resolve_include   *)
(* and is_system_header answer every single token as spec section 4.2     *)
(* says (what TLC checks as ResolutionAsSpecified).                         *)
THEOREM ResolveInvHolds == ResolverAgrees => (Spec => []ResolveInv)
  <1> SUFFICES ASSUME ResolverAgrees PROVE Spec => []ResolveInv
    OBVIOUS
  <1>. QED
    BY InitResolveInv, NextResolveInv, PTL DEF Spec

(* Under the same hypothesis, when build_dependency_graph returns, every  *)
(* header read to the end has in graph exactly the nodes its #include     *)
(* lines name, in file order, and a header whose read raised IOError      *)
(* those of the lines before the failure: no line lost, doubled or        *)
(* reordered by the scan, none carried over from one header to the next.  *)
THEOREM ResolvedHolds == ResolverAgrees => (Spec => []IncludesResolvedAsSpecified)
  <1>1. ResolveInv => IncludesResolvedAsSpecified
    BY ResolverAssumption DEF ResolveInv, IncludesResolvedAsSpecified, Done
  <1>. QED
    BY <1>1, ResolveInvHolds, PTL

=============================================================================
