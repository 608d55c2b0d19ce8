--------------------------- MODULE IncludeResolver ---------------------------
(***************************************************************************)
(* The Scanner, Resolver and Graph Builder of scripts/check_circular_deps.py: *)
(* build_dependency_graph scans every header under include_dir, and for    *)
(* each one extract_includes reads its #include lines in file order, drops *)
(* the system headers (is_system_header) and resolves the others with      *)
(* resolve_include; the resolved names are appended to graph[rel_path].    *)
(*                                                                         *)
(* A path is a sequence of segments.  A pathlib.Path is a record: whether  *)
(* it is absolute and its segments; "/" joins drop "." segments and keep   *)
(* "..", resolve() makes a path absolute against the working directory and *)
(* folds "..", and relative_to compares the segments lexically, failing    *)
(* when one path is absolute and the other is not.  The include lines of   *)
(* a header are its tokens: the text between the brackets, split at "/".   *)
(***************************************************************************)
EXTENDS Naturals, Sequences, SequencesExt

CONSTANTS
  Tree,         \* the headers under include_dir, as paths relative to it
  Tokens,       \* the #include tokens a header may contain
  MaxIncludes,  \* the most #include lines a header has
  SysNames,     \* the names of SYSTEM_HEADERS and of the C wrappers
  StdNames,     \* the first segments that begin with "std"
  CwdSegs,      \* the working directory, an absolute path
  IncSegs,      \* include_dir relative to the working directory
  RootForms     \* how include_dir is given: "abs" or "rel"

(* Python's None, which no header path is.                                *)
None == "None"

ASSUME ResolverAssumption ==
  /\ MaxIncludes \in Nat
  /\ RootForms \subseteq {"abs", "rel"}
  /\ \A t \in Tokens : Len(t) >= 1
  /\ None \notin Tree

VARIABLES
  root,     \* include_dir
  incl,     \* the #include tokens of each header, in file order
  todo,     \* the headers rglob has still to yield
  cur,      \* the header being read, None between headers
  lines,    \* its #include tokens not yet read
  found,    \* includes: the resolved names collected for cur
  graph,    \* graph: each header's list of resolved includes
  failed    \* the headers whose read raised IOError

vars == <<root, incl, todo, cur, lines, found, graph, failed>>

(* Path(p) / segs: the "." segments vanish, ".." stays.                    *)
Join(p, segs) == [p EXCEPT !.segs = @ \o SelectSeq(segs, LAMBDA s : s # ".")]

(* Folding "..": the parent of the file system root is the root.           *)
Normalize(segs) ==
  FoldLeft(LAMBDA acc, s : IF s = ".." THEN Front(acc)
                           ELSE IF s = "." THEN acc ELSE Append(acc, s),
           <<>>, segs)

(* Path.resolve()                                                          *)
ResolvePath(p) ==
  [abs |-> TRUE, segs |-> Normalize(IF p.abs THEN p.segs ELSE CwdSegs \o p.segs)]

(* Path.relative_to(base), None where it raises ValueError.                *)
RelativeTo(p, base) ==
  IF p.abs = base.abs /\ IsPrefix(base.segs, p.segs)
    THEN SubSeq(p.segs, Len(base.segs) + 1, Len(p.segs))
    ELSE None

(* The files and directories of the tree, relative to include_dir.         *)
Entries == UNION {{SubSeq(f, 1, k) : k \in DOMAIN f} : f \in Tree}

(* Path.exists(), for a path under the working directory.                  *)
Exists(p) == RelativeTo(ResolvePath(p), [abs |-> TRUE, segs |-> CwdSegs \o IncSegs]) \in Entries

(* include_dir: --include-dir as typed, or project_root / 'include'.       *)
IncludeDir(form) ==
  IF form = "abs" THEN [abs |-> TRUE, segs |-> CwdSegs \o IncSegs]
                  ELSE [abs |-> FALSE, segs |-> IncSegs]

(* is_system_header: a name of SYSTEM_HEADERS, 'c' followed by a C header  *)
(* name, or anything that starts with 'std'.                               *)
IsSystemHeader(t) == (Len(t) = 1 /\ t[1] \in SysNames) \/ t[1] \in StdNames

(* Mutant of ResolveInclude: a relative include is joined but not resolved. *)
ResolveIncludeUnresolved(t, fromFile, dir) ==
  LET fromDir == Join(dir, Front(fromFile))
  IN  CASE Len(t) > 1 /\ t[1] \in {".", ".."} -> RelativeTo(Join(fromDir, t), dir)
        [] Len(t) > 1 /\ t[1] = "kcenon" -> t
        [] Len(t) = 1 -> IF Exists(Join(fromDir, t))
                           THEN RelativeTo(Join(fromDir, t), dir) ELSE None
        [] OTHER -> None

(* resolve_include(include, from_file, include_dir), from_file being       *)
(* include_dir / fromFile as rglob yields it.                              *)
ResolveInclude(t, fromFile, dir) ==
  LET fromDir == Join(dir, Front(fromFile))
  IN  CASE Len(t) > 1 /\ t[1] \in {".", ".."} -> RelativeTo(ResolvePath(Join(fromDir, t)), dir)
        [] Len(t) > 1 /\ t[1] = "kcenon" -> t
        [] Len(t) = 1 -> IF Exists(Join(fromDir, t))
                           THEN RelativeTo(Join(fromDir, t), dir) ELSE None
        [] OTHER -> None

Init ==
  /\ root \in {IncludeDir(form) : form \in RootForms}
  /\ incl \in [Tree -> BoundedSeq(Tokens, MaxIncludes)]
  /\ todo = Tree
  /\ cur = None
  /\ lines = <<>>
  /\ found = <<>>
  /\ graph = [f \in Tree |-> <<>>]
  /\ failed = {}

(* for file_path in include_dir.rglob(...): extract_includes opens it.     *)
OpenFile(f) ==
  /\ cur = None
  /\ f \in todo
  /\ todo' = todo \ {f}
  /\ cur' = f
  /\ lines' = incl[f]
  /\ found' = <<>>
  /\ UNCHANGED <<root, incl, graph, failed>>

(* One #include line: skipped if a system header, else resolved and, when  *)
(* resolve_include returns a name, appended to includes.                   *)
ReadInclude ==
  LET t == Head(lines)
      r == ResolveInclude(t, cur, root)
  IN  /\ cur # None
      /\ lines # <<>>
      /\ lines' = Tail(lines)
      /\ found' = IF IsSystemHeader(t) \/ r = None THEN found ELSE Append(found, r)
      /\ UNCHANGED <<root, incl, todo, cur, graph, failed>>

(* open() or a read raises IOError: except IOError: pass, and the          *)
(* includes collected so far are returned.                                 *)
ReadFails ==
  /\ cur # None
  /\ lines # <<>>
  /\ lines' = <<>>
  /\ failed' = failed \cup {cur}
  /\ UNCHANGED <<root, incl, todo, cur, found, graph>>

(* for inc in includes: graph[rel_path].append(inc)                        *)
EndFile ==
  /\ cur # None
  /\ lines = <<>>
  /\ graph' = [graph EXCEPT ![cur] = @ \o found]
  /\ cur' = None
  /\ UNCHANGED <<root, incl, todo, lines, found, failed>>

Done == todo = {} /\ cur = None

Next ==
  \/ \E f \in Tree : OpenFile(f)
  \/ ReadInclude
  \/ ReadFails
  \/ EndFile

Spec == Init /\ [][Next]_vars

-----------------------------------------------------------------------------
(* The node a token names by the resolution rules of spec section 4.2, in  *)
(* the coordinates of the scan root: a rooted token as written, a relative *)
(* one normalized against the header's directory if it stays inside the   *)
(* root, a bare name if that file exists beside the header.               *)
RootAbs == CwdSegs \o IncSegs

InRoot(a) == IF IsPrefix(RootAbs, a) THEN SubSeq(a, Len(RootAbs) + 1, Len(a)) ELSE None

Target(f, t) ==
  CASE Len(t) > 1 /\ t[1] \in {".", ".."} -> InRoot(Normalize(RootAbs \o Front(f) \o t))
    [] Len(t) > 1 /\ t[1] = "kcenon" -> t
    [] Len(t) = 1 /\ Front(f) \o t \in Tree -> Front(f) \o t
    [] OTHER -> None

(* Among the first k #include lines of header f, the positions whose token *)
(* names a node.                                                           *)
Named(f, k) == {i \in 1..k : Target(f, incl[f][i]) # None}

(* e lists, in file order and each once, the nodes the tokens at the       *)
(* positions P name: an increasing map from e's entries onto P.            *)
ListsTargets(e, f, P) ==
  \E g \in [1..Len(e) -> P] :
    /\ \A i, j \in 1..Len(e) : i < j => g[i] < g[j]
    /\ \A p \in P : \E j \in 1..Len(e) : g[j] = p
    /\ \A j \in 1..Len(e) : e[j] = Target(f, incl[f][g[j]])

(* The nodes a token may name.                                              *)
Values == UNION {{Target(f, t) : t \in {u \in Tokens : Target(f, u) # None}} : f \in Tree}

(* The header a header's edges are complete for: all its lines, or, when  *)
(* its read failed, the lines before the failure.                          *)
ScannedAsRead(f) ==
  IF f \in failed THEN \E k \in 0..Len(incl[f]) : ListsTargets(graph[f], f, Named(f, k))
                  ELSE ListsTargets(graph[f], f, Named(f, Len(incl[f])))

(* The inductive form of IncludesResolvedAsSpecified.  A header rglob has *)
(* still to yield has no edges and no failure; a header done with has its  *)
(* edges; while cur is read, includes lists the nodes named by the k lines *)
(* read so far and lines holds the rest, or nothing once the read failed. *)
ResolveInv ==
  /\ root \in {IncludeDir(form) : form \in RootForms}
  /\ incl \in [Tree -> Seq(Tokens)]
  /\ todo \subseteq Tree
  /\ cur = None \/ cur \in Tree
  /\ failed \subseteq Tree
  /\ graph \in [Tree -> Seq(Values)]
  /\ found \in Seq(Values)
  /\ lines \in Seq(Tokens)
  /\ \A f \in todo : graph[f] = <<>> /\ f \notin failed
  /\ \A f \in Tree \ todo : f # cur => ScannedAsRead(f)
  /\ cur # None =>
       /\ cur \notin todo
       /\ graph[cur] = <<>>
       /\ \E k \in 0..Len(incl[cur]) :
            /\ ListsTargets(found, cur, Named(cur, k))
            /\ IF cur \in failed THEN lines = <<>>
                                 ELSE lines = SubSeq(incl[cur], k + 1, Len(incl[cur]))

(* spec sections 4.1, 4.2 and 8: when the scan is over, every header that  *)
(* was read to the end has exactly the edges its includes name, in file   *)
(* order: no project header dropped, nothing outside the root, no missing *)
(* file; a header whose read failed has exactly those of the lines before *)
(* the failure.                                                            *)
IncludesResolvedAsSpecified ==
  Done => \A f \in Tree : ScannedAsRead(f)

(* One token at a time, against the scan root dir: is_system_header skips *)
(* only tokens that name no project node, and resolve_include returns the *)
(* node spec section 4.2 gives any other token, None where it gives none.  *)
TokensResolveAsSpecified(dir) ==
  \A f \in Tree, t \in Tokens :
    IF IsSystemHeader(t) THEN Target(f, t) = None
                         ELSE ResolveInclude(t, f, dir) = Target(f, t)

(* resolve_include and is_system_header, called with the include_dir of   *)
(* this run, treat every token of every header as spec section 4.2 says.  *)
ResolutionAsSpecified == TokensResolveAsSpecified(root)
=============================================================================
