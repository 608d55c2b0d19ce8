# Formal models of the dependency analysers of common_system

This directory holds TLA+ models of the two dependency-analysis scripts of
the repository, TLC configurations that model-check them on small graphs,
and TLAPS proofs of the main safety property of the file-level cycle scan
for graphs of every size. The modules cover the scanners, the resolver,
both cycle detectors, the level calculator, the policy checker and the
exit-code logic of both entry points. `PROJECT.json` is the machine-readable index:
components, runs, mutants, the map from every definition to the source
lines it models, findings, hazards and theorems.

## 1. The system

The analysed core (spec.md sections 1-4) is two single-threaded Python
scripts. Each builds a dependency graph and then runs graph algorithms on it.

* `src/scripts/check_circular_deps.py` works on the file-level graph.
  * Scanner and Resolver: `is_system_header`, `extract_includes` and
    `resolve_include` turn `#include` lines into header paths relative to the
    include directory.
  * Graph Builder: `build_dependency_graph` keeps a dict from header to the
    list of its includes. Duplicates are kept.
  * Cycle Detector:
    * `find_direct_cycles` reports mutually including pairs.
    * `find_transitive_cycles` is a recursive DFS with shared `visited` and
      `rec_stack` sets and a `path` list. It returns at the first cycle.
  * `main`: exit code 1 when either scan found something, or when the
    include directory is missing.
* `src/tools/dependency_analyzer.py` works on the system-level graph.
  * `parse_cmake_dependencies` and `parse_include_dependencies` match
    regular expressions against CMake files and sources.
  * `analyze_all_systems` stores, per system, the set `all_deps`.
  * `detect_cycles` is a DFS whose `rec_stack` is a list. It returns at the
    first cycle.
  * `calculate_levels` is a Kahn-style layering with -1 for unlevelled
    systems.
  * `generate_report` contains the layer-policy check (`expected_layers`) and
    renders Markdown and Graphviz.
  * `main` returns 1 when `detect_cycles` reports something.

State exists only inside one call: the graph is rebuilt on every run, and
nothing is persisted or shared between threads (spec section 5). What is
hard is therefore not concurrency but control flow:
* an early return that abandons a search half-way;
* shared sets that outlive the search that filled them;
* iteration orders fixed by the file system, the file contents or the hash
  seed;
* two loops that must agree on the direction of an edge.

The benchmark aggregator, the Markdown helper and the Conan recipe lie
outside the core (spec section 1). They are listed in PROJECT.json as not
modelled.

## 2. Modules

| Module | Models | Source |
|---|---|---|
| `DepGraph` | nodes `1..N`, graphs as sets of edges, and the reference notions: walk, simple cycle, reachability, longest chain | shared |
| `DirectCycles` | `find_direct_cycles` | check_circular_deps.py 140-153 |
| `DirectCyclesProofs` | TLAPS proofs about `DirectCycles` | |
| `TransitiveCycles` | `find_transitive_cycles` and `dfs` | check_circular_deps.py 156-195 |
| `CycleReport` | abstract specification of what a cycle scan promises (spec sections 4.4 and 6) | |
| `TransitiveCyclesProofs` | TLAPS proofs about `TransitiveCycles` | |
| `AnalyzerCycles` | `DependencyAnalyzer.detect_cycles` | dependency_analyzer.py 151-182 |
| `LevelCalc` | `DependencyAnalyzer.calculate_levels` | dependency_analyzer.py 184-218 |
| `IncludeResolver` | `is_system_header`, `extract_includes`, `resolve_include`, `build_dependency_graph`, with `pathlib` resolution | check_circular_deps.py 31-137, 231-233 |
| `IncludeResolverProofs` | TLAPS proofs about `IncludeResolver`'s scan | |
| `CircularDepsMain` | `main` of check_circular_deps.py, composing `DirectCycles` and `TransitiveCycles` by `INSTANCE` | check_circular_deps.py 198-325 |
| `PairReport` | abstract specification of what the direct scan promises (spec sections 4.4 and 8) | |
| `CircularDepsMainProofs` | TLAPS proofs about `CircularDepsMain`'s direct scan | |
| `SystemScanner` | `parse_cmake_dependencies`, `parse_include_dependencies`, `analyze_all_systems` | dependency_analyzer.py 27-149 |
| `SystemScannerProofs` | TLAPS proofs about `SystemScanner` | |
| `AnalyzerMain` | `generate_report`'s cycle, level and policy parts and `main`'s return value, composing `AnalyzerCycles` and `LevelCalc` | dependency_analyzer.py 220-389, 480-530 |
| `AnalyzerDeterminism` | two runs of `detect_cycles` on the same graph, in different hash orders | dependency_analyzer.py 151-182 |
| `MC*` | constants for TLC (`N = 3` or `4`) | |

### Abstraction of data

* A node (header path or system name) is a number in `1..N`. The numeric
  order stands for `sorted(all_nodes)` in the file-level scan and for the
  order of the `self.systems` list in the system-level code.
* The graph is chosen nondeterministically in `Init` among all graphs over
  the nodes. Every run therefore covers every include graph of N headers.
  * `DirectCycles` and `TransitiveCycles` allow self-edges: a header can
    include itself.
  * `AnalyzerCycles` and `LevelCalc` use `SystemGraphs`, which has no
    self-edges, because both parsers skip `other_system == system`.
* A header's include list is modelled as the set of its includes, and the
  loop over it takes the remaining elements in any order.
  * This covers the file order of a list and the hash order of a set.
  * A duplicate include changes nothing in these scans: the second
    occurrence is either visited and passed over, or never reached after a
    return.

### Abstraction of control

* Recursion becomes an explicit stack of frames `[node, todo]`.
  * A call pushes a frame; `todo` is the neighbours its for-loop has still
    to look at.
  * A return pops the frame.
* The early return is one step, `BackEdge`, because it changes no state
  until the cycle is appended. The caller's `if cycle: return cycle` lines
  only unwind the stack. `BackEdge` empties the stack and appends the
  cycle, exactly as the code does after unwinding.
* `StaleOnStack` (TransitiveCycles) is the `except ValueError: pass` path.
  Here `neighbor` is in `rec_stack`, left over from an abandoned search, but
  not in the current `path`.
* In `LevelCalc` the initial `in_degree` loop and the initial queue belong
  to `Init`. The while loop is `BeginLevel`, `Pop` (one iteration of the
  for-loop, including the whole decrement loop over the systems) and
  `EndLevel`. `MarkCyclic` is the final loop that assigns -1.

### The resolver and the scanners

* `IncludeResolver` models a `pathlib.Path` as a record: whether it is
  absolute, and its segments.
  * `/` drops `.` segments and keeps `..`.
  * `resolve()` makes a path absolute against the working directory
    `CwdSegs` and folds `..`.
  * `relative_to` is a lexical prefix test that fails when one side is
    absolute and the other is not.
  * An include line is its token split at `/`, for example `<<"..", "a">>`.
  * The tree is a small set of headers relative to the include directory.
  * `RootForms` says whether `--include-dir` is given absolute or relative.
  * An absolute `--include-dir` is taken to be already normalised: the
    working directory followed by `IncSegs`. A symlinked root, or one
    typed with `..` in it, would make `resolve()` and the unresolved root
    differ and fail `relative_to` as the relative form does; that case is
    left out.
* The two `rglob` passes (`*.h`, then `*.hpp`) are merged into one
  nondeterministic order over the tree. Their patterns are disjoint, so
  each header is yielded once, as `OpenFile` removing it from `todo` says.
* Each header is read by `OpenFile`, then one `ReadInclude` per line. An
  `IOError` (`ReadFails`) keeps the includes read so far, as
  `except IOError: pass` does. `EndFile` appends the list to `graph`.
* `SystemScanner` abstracts the text of a `CMakeLists.txt` to the mentions
  of system names that the patterns look at.
  * A mention is *whole* when the name is a token of its own. It is not
    whole when the name is part of a longer identifier; the code's
    substring test counts both kinds.
  * A source file is unreadable, or has the set of `kcenon/<stem>/`
    directories it includes. `Other` is a stem that names no system.

### Abstraction and refinement

`CycleReport` says what a cycle scan promises, without saying how it
searches. It has three variables:
* `graph`, the include graph;
* `reported`, the list of cycles reported so far;
* `finished`, set once the scan has answered.

It has two actions:
* `Report` appends one simple cycle of the graph.
* `Finish` sets `finished`, possibly appending one last cycle. The list is
  then non-empty exactly when the graph is cyclic.

`TransitiveCycles` implements it under the mapping `reported <- cycles,
finished <- Done`:
* `BackEdge` is a `Report` step, or a `Finish` step when it ends the scan;
* `SkipRoot` past the last root is a `Finish` step;
* every other action is a stutter, because it changes neither `cycles` nor `Done`.

`SafeSpec` is the same specification without the final-answer clause of
`Finish`. It is what the prover checks (section 5).

The abstract specification has no fairness, so it only states safety.
Its `Report` chooses a new sequence from `Seq(Seq(Node))`, and TLC cannot
compute `ENABLED` of such an action. Termination stays the implementation's
own `Termination` property.

`PairReport` does the same for the direct scan. Its variables are the
graph, the list of mutual pairs reported so far and `finished`:
* `Report` appends one mutual pair not yet reported;
* `Finish` sets `finished` once every mutual pair is reported.

`CircularDepsMain` implements it (`DirectImplementsPairReport`, checked in
circular_main) under the mapping `graph <- EdgesOf(lists)`, `reported <-`
the pairs of `direct_cycles`, and `finished <-` "the direct scan has
returned" (the phase is past it and the directory exists):
* an `Examine` step of a mutual pair met the first time is a `Report` step;
* the step that ends the direct scan is the `Finish` step;
* every other step of `main` is a stutter.

`AnalyzerCycles` does not implement `CycleReport`: its slice of `rec_stack`
can report a list that is not a cycle (finding of run analyzer_valid).

### Composition

* `CircularDepsMain` instantiates `DirectCycles` and `TransitiveCycles` on
  its own graph with renamed variables. The locals of each call are reset
  by the step that calls it.
  * The graph is built from per-header include lists with repetitions. The
    scans get their set of edges (`EdgesOf`).
  * `total_deps` is the sum of the list lengths.
* `AnalyzerMain` instantiates `AnalyzerCycles` and `LevelCalc` on one
  `all_deps`.
  * The second `detect_cycles` of `main` runs in the same process on the
    same sets, so it iterates them in the same order. Its result is the
    report's.

## 3. Runs

All runs use `CHECK_DEADLOCK FALSE`: each model is one function call that
returns, and its final state (`Done`, or `finished`) has no successor by
design.

| Run | cfg | Bounds | States | Checks | Result |
|---|---|---|---|---|---|
| transitive_cycles | TransitiveCycles.cfg | N = 3 | 8715 | TypeOK, ReportedCyclesValid, IInv, ExitCodeCorrect, Termination, ImplementsCycleReport | pass |
| transitive_all | TransitiveCyclesAll.cfg | N = 3 | | AllCyclesReported | violation |
| analyzer_valid | AnalyzerCyclesValid.cfg | N = 3 | | ReportedCyclesValid | violation |
| level_height | LevelCalcHeight.cfg | N = 3 | | LevelIsHeight | violation |
| include_resolver | IncludeResolver.cfg | 2 headers, 7 tokens, 2 lines each | 151066 | IncludesResolvedAsSpecified, ResolutionAsSpecified, ResolveInv | pass |
| include_resolver_relroot | IncludeResolverRelRoot.cfg | same, root also relative | | IncludesResolvedAsSpecified | violation |
| include_resolver_std | IncludeResolverStd.cfg | a header `stdx`, 1 line | | IncludesResolvedAsSpecified | violation |
| circular_main | CircularDepsMain.cfg | 3 headers, 2 lines each | 297337 | ExitCodeMatchesSpec, RingScenario, DirectScanExact, DirectScanInv, Terminates, DirectImplementsPairReport | pass |
| analyzer_determinism | AnalyzerDeterminism.cfg | N = 3 | | SameCyclesReported | violation |
| system_scanner | SystemScanner.cfg | 2 systems, 2 files each | 171875 | ScannedAsSpecified, ScanInv | pass |
| analyzer_main | AnalyzerMain.cfg | N = 4 | 262117 | ReturnCodeMatchesCycles, CycleSystemsListedCyclic | pass |
| analyzer_exit | AnalyzerMainExit.cfg | N = 4 | | FindingsSetExitCode | violation |

`DirectCycles`, `AnalyzerCycles` and `LevelCalc` are checked through the
modules that compose them, `CircularDepsMain` and `AnalyzerMain`; their own
`MC` modules serve the violation runs.

### What the properties say

* **ReportedCyclesValid**: every reported list is a simple cycle of the
  graph, with the first node repeated at the end.
  * It holds for `find_transitive_cycles`. The stale `rec_stack` entries
    are caught by `path.index` raising `ValueError`.
  * It fails for `detect_cycles`, whose `rec_stack` is itself the list that
    is sliced.
* **ExitCodeCorrect**: at the end, something has been reported exactly when
  the graph has a cycle (file-level scan). ReturnCodeMatchesCycles says the
  same of `detect_cycles` through the analyzer's `main`. Both hold in every
  iteration order, so both scripts' exit codes are right even though they
  report an order-dependent subset of the cycles.
* **Termination** (`<>Done`) holds under weak fairness of `Next`. The code
  runs in one thread with nothing else scheduled, so a step that is enabled
  is eventually taken.
* **ImplementsCycleReport** (`R!Spec`, with `R` the instance of
  `CycleReport`): every behaviour of the scan is one of the abstract
  specification. This rules out two kinds of bug:
  * a step that changes or drops a cycle already reported;
  * a step that reports a cycle after the scan has ended.
  A back edge that overwrites the list instead of appending to it breaks
  it, even though every cycle it reports is still valid.
* **AllCyclesReported** is the "find all" contract of spec section 4.4. The
  early return violates it.
* **DirectScanExact**: whatever order sources and includes are met in,
  the reported pairs are exactly the mutual pairs, each once (spec
  section 8, order independence).
* **DirectScanInv**: the inductive invariant behind DirectScanExact,
  checked in every state. While the loops run:
  * the reported pairs are exactly the pairs in `checked` that are mutual;
  * no pair is reported twice;
  * every include already iterated has its pair in `checked`.
  A scan that skipped the `checked` lookup would report a mutual pair from
  both sides, and this breaks the invariant as soon as the second side is
  met.
* **ReturnCodeMatchesCycles**: the analyzer's `main` returns 1 exactly for
  a cyclic system graph.
* **CycleSystemsListedCyclic**: every system on a cycle gets -1, so the
  report lists it as cyclic (spec section 8).
* **LevelIsHeight**: every system outside all cycles gets the length of its
  longest dependency chain (spec sections 4.5 and 8). It fails: see the
  findings.
* **IncludesResolvedAsSpecified**: when the scan is over, every header has
  exactly the edges its includes name under the rules of spec section 4.2,
  in file order: an increasing map from the entries of `graph[f]` onto the
  positions of the lines that name a node (`ListsTargets`). A header whose
  read failed has those of the lines before the failure. The reference
  `Target` computes the node a token names directly in the coordinates of
  the root, without `pathlib`. It holds with an absolute `--include-dir`
  and no header starting with `std`.
* **ResolutionAsSpecified**: the per-token half of the above.
  `is_system_header` skips only tokens that name no node, and
  `resolve_include`, against this run's `include_dir`, returns `Target` of
  every other token. It is what the proof of IncludesResolvedAsSpecified
  takes as its hypothesis (section 5).
* **ResolveInv**: the inductive invariant of that proof, checked in every
  state. Headers still to be yielded have no edges and no failure; headers
  done with have their edges as above; while a header is read, `includes`
  lists the nodes of the first `k` lines and `lines` holds the others, or
  nothing after an IOError.
* **DirectImplementsPairReport**: the direct scan, seen through the pairs
  it reports, implements `PairReport` (section 2).
* **ExitCodeMatchesSpec**: `check_circular_deps.py` exits 1 exactly when the
  directory is missing or the include graph is cyclic (spec section 6).
* **RingScenario**: spec section 8's A->B->C->A. There is no direct cycle,
  exactly one transitive cycle through every header, and exit code 1.
* **Terminates**: `main` always reaches `sys.exit`.
* **ScannedAsSpecified**: `all_deps[s]` is exactly what the spec makes a
  dependency of `s`. These are systems linked as whole tokens, and systems
  whose directory a readable source includes. `s` itself, unknown stems and
  unreadable files contribute nothing.
* **ScanInv**: the inductive invariant behind ScannedAsSpecified, checked
  in every state of the for-loop:
  * every system before `sys` already has its specified `all_deps`;
  * while `sys`'s files are read, `cmake_deps[sys] | include_deps[sys]` is
    exactly what its CMake file and the files read so far give
    (`Gathered`);
  * no later system has `include_deps` yet.
  A parser that let a file count its own system breaks it at the first
  `Combine` after such a file.
* **FindingsSetExitCode**: spec section 7, "a cycle or a policy violation
  always produce exit code 1". It fails.
  The policy loop itself has no property of its own: its test
  `dep_level >= expected_level and dep != 'common_system'` is the
  glossary's "not strictly lower" word for word, so a property restating
  it would hold by the definition of `CheckPolicy`. What is checked is
  what the loop's result does and does not reach (the return code).
* **SameCyclesReported**: two runs on the same tree report the same cycles
  (spec section 8). It fails.

Every property of a passing run has a mutant in PROJECT.json. The mutant is
a plausible bug in the modelled code that the property catches. For
example, `ReturnKeepPath` forgets `path.pop()`, and `ReportedCyclesValid`
then fails; `SkipRootAny` drops the `not in visited` test of
`detect_cycles`, and `ReturnCodeMatchesCycles` then fails.

### Bounds

* N = 3 already covers every shape the hazards need:
  * a self-include;
  * a 2-cycle next to a third node;
  * a 3-cycle;
  * a node reached from a cycle;
  * a search abandoned while another start node is still unvisited.
* The counterexamples TLC finds use 2 or 3 nodes.
* N = 4 is used where it fits in a couple of minutes (
  analyzer_main). It adds two disjoint cycles and chains of length 3.
* N = 4 for the file-level scan takes about two minutes per run and finds
  nothing new. It is kept to N = 3 so that the mutant runs stay short.

## 4. Findings

1. **check_circular_deps.py:171** (spec divergence): the transitive scan
   stops each search at its first cycle.
   * For includes 1->1, 1->2, 2->2, with 2 met first, only `[2, 2]` is
     reported.
   * Spec section 4.4 requires all cycles.
   * The exit code stays right (ExitCodeCorrect, ExitCodeMatchesSpec).
2. **dependency_analyzer.py:166** (bug): `return True` skips
   `rec_stack.pop()`.
   * For the system graph 1->3, 3->1, 2->1 the report lists `[1, 3, 2, 1]`
     as a cycle to break, although 3 does not depend on 2.
3. **dependency_analyzer.py:193/207** (bug): `in_degree` counts dependents,
   and the decrement is applied to the dependents of the popped system.
   * Only systems nobody depends on get a level, always 0. Everything else
     is reported as cyclic.
   * For the spec's scenario A->B->C the levels are `{A:0, B:-1, C:-1}`
     instead of `{C:0, B:1, A:2}`.
4. **check_circular_deps.py:104** (bug): with a relative `--include-dir`,
   `resolve()` makes a `./` or `../` include absolute, and `relative_to` of
   the relative root always raises `ValueError`.
   * Every relative include is dropped silently.
   * The default `project_root / 'include'` is absolute (`__file__` is
     absolute since Python 3.9), so only a relative `--include-dir`, such as
     `--include-dir include`, hits it. The effect was confirmed with Python
     3.11 `pathlib`.
5. **check_circular_deps.py:65** (spec divergence): every include starting
   with `std` is taken for a standard header. A project header `stdx.h`
   beside the includer loses its edge.
6. **dependency_analyzer.py:518** (gap in the spec): layer violations do not
   change the return code.
   * This agrees with spec section 6 and disagrees with section 7.
7. **dependency_analyzer.py:163** (spec divergence): sets of strings are
   iterated in a hash order that changes per process. Two runs on the same
   tree can report different cycles, and section 8 asks for identical
   reports.
   * For 1->2, 1->3, 2->1, 3->1, one run reports `[1,2,1]`, `[1,2,3,1]` and
     another `[1,3,1]`, `[1,3,2,1]`.

Two divergences are read off the code and have no run:
* **check_circular_deps.py:249.** `total_deps` counts an include listed
  twice as two relationships (line 129 appends without a membership test).
  Spec sections 4.3 and 4.7 count deduplicated edges.
* **dependency_analyzer.py:67.** The CMake test is a substring test. A
  system name inside a longer identifier (`thread_system_tests`,
  `find_package(logger_system_ext`) creates a dependency. `SystemScanner`
  models the test as written.

An observation that needs no run: in `check_circular_deps.py` every direct
cycle is also found by the transitive scan (ExitCodeMatchesSpec holds with
`DirectDone` not setting the exit code). So the direct scan's `exit_code = 1`
is redundant; it only adds the pair list to the output.

## 5. Proofs

`TransitiveCyclesProofs` proves, for every `N` in `Nat \ {0}` (the
assumption `NAssumption`, the only one on the constants):

* `TypeCorrect == Spec => []TypeOK`;
* `CyclesValid == Spec => []ReportedCyclesValid`;
* `Refinement == Spec => R!SafeSpec`: the scan implements the safety part
  of `CycleReport` under the mapping `reported <- cycles, finished <- Done`.

`ReportedCyclesValid` is not inductive: a back edge turns the slice
`path[cycle_start:]` into a reported cycle, so the proof has to know what
`path` is. The strengthening is `IInv == TypeOK /\ PathInv /\
ReportedCyclesValid`. While a search runs, `PathInv` says that `path` is
the chain of calls in progress:
* one entry per frame, equal to the frame's node;
* consecutive entries joined by edges;
* no node twice;
* every entry visited;
* each frame's `todo` a set of neighbours of its node.

TLC checks `IInv` as an invariant (in the run transitive_cycles) before it is proved.

The argument:
* `InitIInv`: the initial states satisfy `IInv`.
* `NextIInv`: every step keeps `IInv`, with one case per action.
  * `Descend` extends the chain by an edge. The new node is unvisited, so
    it is not on the chain.
  * `BackEdge` uses lemma `BackEdgeCycle`. If a walk without repeated nodes
    contains `v` at position `k` and its last node has an edge to `v`, then
    the slice from `k` closed by `v` is a simple cycle. Lemma `IndexOfFacts`
    supplies `k = path.index(v)`.
  * `StaleOnStack` and `SkipVisited` only consume a neighbour (lemma
    `ConsumeStep`, resting on `ConsumeFacts`).
  * `Return` pops both `path` and the stack.
* The two theorems follow by `PTL`.

The refinement proof follows the standard form:
* `InstanceSame`: the instance `R` names the same `Node`, `Graphs` and
  `IsCycle` as this module (both take them from `DepGraph` with the same
  `N`). The prover needs this stated, because it treats `R!IsCycle` as a
  symbol of its own until it is expanded.
* `RefineInit`: the initial state maps to an initial state of `CycleReport`.
  `cycles` is empty, and `Done` is false because `N > 0` leaves a root to scan.
* `RefineStep`: a step between two `IInv` states maps to a `SafeNext` step
  or a stutter.
  * For `BackEdge`, `TypeOK'` and `ReportedCyclesValid'` make the appended
    slice a sequence of nodes that is a simple cycle. This is the
    abstract `OneMore`.
  * Every other action leaves `cycles` unchanged. Lemma `QuietStep` maps
    it to a stutter, or to `Conclude` (the safety part of `Finish`) when it
    sets `Done`.
* `Refinement` combines `[]IInv` (from `InitIInv` and `NextIInv`) with
  the two lemmas by `PTL`.

The final-answer clause of `Finish` (the list is non-empty iff the graph
is cyclic) is left out of the proof for the reason given below; TLC checks
it as part of `ImplementsCycleReport`.

`DirectCyclesProofs` proves, for every `N`, every graph and every order
of the two loops of `find_direct_cycles`:
* `DirectExact == Spec => []DirectCyclesExact`. When the scan is over, the
  reported pairs are exactly the mutually including pairs, each once
  (spec section 8). The run circular_main checks the same statement as
  DirectScanExact.

`DirectCyclesExact` only speaks of the final state, so it is not inductive.
The strengthening `IInv` (TLC checks it in circular_main as DirectScanInv)
says:
* `cur`'s pending includes are edges of the graph;
* the reported pairs are `checked \cap MutualPairs(graph)`, each reported once;
* `CheckedCovers`: every include of a source the loop is done with, and
  every include of the current source already iterated, has its pair in
  `checked`.

The argument:
* `NextSourceIInv`, `ExamineIInv` and `EndSourceIInv` give one lemma per
  action.
* `Examine` is the interesting case:
  * A new pair enters `checked`.
  * Lemma `MutualIff` shows that the code's test `src in graph[dst]`
    decides exactly whether the pair is mutual.
  * Lemma `AppendPairs` gives the reported set after the append.
  * The pair was not yet in `checked`, so it was not yet reported.
* `IInvExact`: at the end `srcTodo` is empty and `cur = 0`, so
  `CheckedCovers` puts every edge's pair, and hence every mutual pair,
  in `checked`.

`TransitiveCyclesProofs` also proves `IInvHolds == Spec => []IInv`, the
inductive invariant itself, which the run transitive_cycles checks.

`CircularDepsMainProofs` proves, for every `N` and every include list,
`DirectScanInvHolds == Spec => []DirectScanInv` and
`DirectScanExactHolds == Spec => []DirectScanExact`: the results of
`DirectCyclesProofs` carried to the direct scan as `main` calls it.
* `DP` instantiates `DirectCyclesProofs` on `main`'s variables. Its
  lemmas are used once its assumption is cited (lemma `DPAssumption`).
* `SameIInv`, `SameExact` and `SameNext` identify the instance `D` that
  `CircularDepsMain` calls with `DP`.
* `BuildGraphIInv`: `BuildGraph` starts the scan afresh on the graph it
  builds, which satisfies the invariant.
* `DirectUntouched`: every later step of `main` leaves the graph and the
  scan's variables alone, a stutter of the scan.

`SystemScannerProofs` proves, for every `N`, every number of files and
every content of the files, under the hypothesis `WholeMentions` (every
system a CMake file mentions stands there as a token of its own):
* `ScanInvHolds == WholeMentions => (Spec => []ScanInv)`;
* `ScannedHolds == WholeMentions => (Spec => []ScannedAsSpecified)`.
The hypothesis cannot be dropped: the code's test `other_system in
link_stmt` is a substring test, so a system named inside a longer
identifier is a dependency for the code and not for the spec (the
divergence listed in section 4; no run feeds such a mention, because the
model's `whole` flag would decide the outcome by itself). The argument:
* `GatheredStep`: reading no file gathers the CMake dependencies, one more
  file adds what it includes.
* `GatheredAll`: with whole mentions, gathering from every file gives
  exactly `SpecDeps`. An unreadable file and a file of the system itself
  add nothing to either side.
* `NextScanInv`, one case per action: `ParseCMake` starts `sys`'s gathering
  from an empty `include_deps`; `ScanFile` adds one file to both sides;
  `Combine`, with every file read, stores `SpecDeps(sys)` by `GatheredAll`
  and moves to a system whose `include_deps` is still empty.
* `FilesFixed`: the files never change, so neither do `SpecDeps` and
  `Gathered`.

`CircularDepsMainProofs` also proves, for every `N` and every include list,
`DirectRefinement == Spec => DirectImplementsPairReport`. The invariant
`MainInv` adds to the direct scan's `IInv` the types of `lists` and
`phase`, that `direct_cycles` is empty before the scan, and that during the
scan the directory exists and the graph is `EdgesOf(lists)`. Then:
* `RefineInitPairs`: the initial state maps to an initial state of
  `PairReport` (no pair reported, not finished).
* `RefineStepPairs`, one case per action of `main`: `Examine` appends the
  pair `{cur, d}` exactly when it is mutual and not yet checked, which is
  a `Report` step (lemma `ExamineReports`, with `ReportedSeqPairs` for the
  reported set); `DirectDone` is the `Finish` step, because `IInv` makes the
  reported set every mutual pair at that point; every other step is a
  stutter (`PairStutter`).
* `SameMutual` identifies the instance's `MutualPairs` with the scan's.

`IncludeResolverProofs` proves, for every tree, token set, working
directory and root form (assumption `ResolverAssumption`: `MaxIncludes`
a natural, every token non-empty, `None` not a header):
* `ResolveInvHolds == ResolverAgrees => (Spec => []ResolveInv)`;
* `ResolvedHolds == ResolverAgrees => (Spec => []IncludesResolvedAsSpecified)`.

`ResolverAgrees` says that `is_system_header` and `resolve_include` answer
every token of every header as `Target` does, for every root form the
constants allow. That is a fact about `Normalize`, a fold over the
segments, and the `pathlib` operators built on it; proving it for every
input would need induction over sequences, so TLC checks it
(ResolutionAsSpecified), and the runs include_resolver_relroot and
include_resolver_std show the code breaking it. What is proved is the
rest: that the scan assembles the per-token answers correctly. The
argument:
* `RestWhole`, `RestEmpty`, `RestStep`: `lines` is always the suffix of
  the header's lines after the first `k`; reading takes line `k + 1`.
* `ListsNothing`, `ListsSkip`, `ListsKeep`: with no line read nothing is
  listed; a line that names no node leaves the listing as it was; a line
  that names one extends the increasing map by position `k + 1`.
* `OpenFileInv`, `ReadIncludeInv`, `ReadFailsInv`, `EndFileInv`, one lemma
  per action. In `ReadIncludeInv` the hypothesis turns the code's test
  (`is_system_header(t) or r is None`) into `Target(cur, t) = None`. In
  `EndFileInv` an empty `lines` of a header that did not fail means every
  line was read (`RestEmpty`).
* `ScannedFixed`, `ScannedEdges`, `ListsFoundPrimed`: a header's listing
  depends on its edges, its lines and whether its read failed, and on
  nothing a step of another header changes.
* `ResolvedHolds`: when `todo` is empty and no header is open, every
  header is done with.

The remaining results stay with TLC:
* **Liveness** (`Termination`, `Terminates`): ENABLED and fairness are
  out of the prover's reach.
* **ResolutionAsSpecified**: it concerns `Normalize` (a `FoldLeft`) and
  the path operators built on it for every token, which needs induction
  over sequences. It is the hypothesis of the `IncludeResolver` proofs.
* **The end-of-run properties** (ExitCodeCorrect, ReturnCodeMatchesCycles,
  CycleSystemsListedCyclic, ExitCodeMatchesSpec, RingScenario). They quantify over `Reach`, a recursive function,
  and their proofs would need induction over the graph.

## 6. Not modelled, and the plan

Modelled and checked so far: every component of the core (spec section 2)
except the text rendering of the Report Generator.

The next sittings add, in this order:

1. **An `IncludeResolver` run with deeper trees** (three levels, `..`
   above the root) once the path operators are proved to agree with
   `Target` on the relevant cases.

Not modelled, for good:
* **Formatting and file output** (Markdown, DOT, colours, the verbose
  listing, the date): they are text layout. No later step reads them, so
  a failure to write the file is not modelled either.
* **The interpreter's recursion limit.**
* **The benchmark aggregator, the Markdown helper and the Conan recipe.**
