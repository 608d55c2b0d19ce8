---------------------------- MODULE SystemScanner ----------------------------
(***************************************************************************)
(* DependencyAnalyzer.analyze_all_systems of tools/dependency_analyzer.py: *)
(* for each system of self.systems in list order, parse_cmake_dependencies *)
(* reads <system>/CMakeLists.txt, parse_include_dependencies reads every   *)
(* source file under <system>/include and <system>/src, and all_deps is    *)
(* the union of the two sets.                                              *)
(*                                                                         *)
(* The text is abstracted to what the pattern matching sees.  A CMake file *)
(* is "missing", "error" (read_text raises), or the set of mentions of a   *)
(* system name inside a target_link_libraries(...) statement or right      *)
(* after "find_package(" or "add_subdirectory(": a mention is whole when   *)
(* the name stands as a token of its own, not whole when it is part of a   *)
(* longer identifier (thread_system_tests, find_package(logger_system_ext) *)
(* ).  The code tests `other_system in link_stmt`, a substring test, so    *)
(* both kinds count.  A source file is unreadable, or readable with the    *)
(* set of directory stems of its #include <kcenon/<stem>/...> lines: the   *)
(* stem of a system, or Other, a stem that names no system.                *)
(***************************************************************************)
EXTENDS DepGraph

CONSTANTS
  Other,       \* a kcenon/<stem>/ directory that is no system's
  MaxFiles,    \* the source files of a system
  CMakeForms,  \* the CMake files a system may have
  FileForms    \* the source files a system may have

Stem == Node \cup {Other}

Mention == [sys : Node, whole : BOOLEAN]

ASSUME ScannerAssumption ==
  /\ Other \notin Node
  /\ MaxFiles \in Nat
  /\ CMakeForms \subseteq [kind : {"missing", "error", "ok"}, mentions : SUBSET Mention]
  /\ FileForms \subseteq [readable : BOOLEAN, stems : SUBSET Stem]

File == 1..MaxFiles

VARIABLES
  cmake,        \* the CMakeLists.txt of each system
  files,        \* the source files of each system
  sys,          \* the system the for-loop is at
  phase,        \* "cmake", or "include" while its files are read
  todo,         \* the files of sys rglob has still to yield
  cmakeDeps,    \* self.cmake_deps
  includeDeps,  \* self.include_deps
  allDeps       \* self.all_deps

vars == <<cmake, files, sys, phase, todo, cmakeDeps, includeDeps, allDeps>>

(* parse_cmake_dependencies(s): no file, or an exception, gives the empty  *)
(* set; otherwise every other system mentioned.                            *)
CMakeDeps(form, s) ==
  IF form.kind # "ok" THEN {} ELSE {m.sys : m \in form.mentions} \ {s}

(* Mutant of IncludeDepsOf: a file's own system is not left out.           *)
IncludeDepsOfSelf(form, s) ==
  IF form.readable THEN form.stems \cap Node ELSE {}

(* The systems one source file of s adds: full_system_name in              *)
(* self.systems and != system; an unreadable file adds nothing.            *)
IncludeDepsOf(form, s) ==
  IF form.readable THEN (form.stems \cap Node) \ {s} ELSE {}

Init ==
  /\ cmake \in [Node -> CMakeForms]
  /\ files \in [Node -> [File -> FileForms]]
  /\ sys = 1
  /\ phase = "cmake"
  /\ todo = {}
  /\ cmakeDeps = [s \in Node |-> {}]
  /\ includeDeps = [s \in Node |-> {}]
  /\ allDeps = [s \in Node |-> {}]

(* cmake_deps = self.parse_cmake_dependencies(system); self.cmake_deps[   *)
(* system] = cmake_deps; then parse_include_dependencies starts.           *)
ParseCMake ==
  /\ phase = "cmake"
  /\ sys <= N
  /\ cmakeDeps' = [cmakeDeps EXCEPT ![sys] = CMakeDeps(cmake[sys], sys)]
  /\ phase' = "include"
  /\ todo' = File
  /\ UNCHANGED <<cmake, files, sys, includeDeps, allDeps>>

(* One source_file of the rglob loops: read_text and the finditer loop, or *)
(* the exception printed and the loop continued.                           *)
ScanFile(f) ==
  /\ phase = "include"
  /\ f \in todo
  /\ todo' = todo \ {f}
  /\ includeDeps' = [includeDeps EXCEPT ![sys] = @ \cup IncludeDepsOf(files[sys][f], sys)]
  /\ UNCHANGED <<cmake, files, sys, phase, cmakeDeps, allDeps>>

(* self.all_deps[system] = cmake_deps | include_deps; next system.         *)
Combine ==
  /\ phase = "include"
  /\ todo = {}
  /\ allDeps' = [allDeps EXCEPT ![sys] = cmakeDeps[sys] \cup includeDeps[sys]]
  /\ sys' = sys + 1
  /\ phase' = "cmake"
  /\ UNCHANGED <<cmake, files, todo, cmakeDeps, includeDeps>>

Done == sys > N

Next == ParseCMake \/ (\E f \in File : ScanFile(f)) \/ Combine

Spec == Init /\ [][Next]_vars

-----------------------------------------------------------------------------
(* What spec sections 3, 4.1 and 4.2 make a dependency of system s: a      *)
(* system its build file links as a token of its own, or one whose        *)
(* directory a readable source file of s includes; never s itself, never  *)
(* an unknown stem, and an unreadable file skipped without losing the     *)
(* others.                                                                 *)
SpecDeps(s) ==
  LET linked == IF cmake[s].kind # "ok" THEN {}
                ELSE {m.sys : m \in {x \in cmake[s].mentions : x.whole}}
      included == UNION {files[s][f].stems : f \in {g \in File : files[s][g].readable}}
  IN  ((linked \cup included) \cap Node) \ {s}

(* What the loop has gathered for the system s: the systems its CMake file *)
(* names and those its source files outside todo include.                 *)
Gathered(s, done) ==
  CMakeDeps(cmake[s], s) \cup UNION {IncludeDepsOf(files[s][f], s) : f \in done}

(* The inductive form of ScannedAsSpecified.  The for-loop of             *)
(* analyze_all_systems has set all_deps to the specified dependencies for *)
(* every system before sys; while sys's source files are read, its         *)
(* cmake_deps is parsed and its include_deps holds what the files read so  *)
(* far include; no later system has include_deps yet.                      *)
ScanInv ==
  /\ sys \in 1..(N + 1)
  /\ phase \in {"cmake", "include"}
  /\ todo \subseteq File
  /\ cmake \in [Node -> CMakeForms]
  /\ files \in [Node -> [File -> FileForms]]
  /\ cmakeDeps \in [Node -> SUBSET Node]
  /\ includeDeps \in [Node -> SUBSET Node]
  /\ allDeps \in [Node -> SUBSET Node]
  /\ \A s \in 1..(sys - 1) : allDeps[s] = SpecDeps(s)
  /\ phase = "include" =>
       /\ sys <= N
       /\ cmakeDeps[sys] \cup includeDeps[sys] = Gathered(sys, File \ todo)
  /\ \A s \in Node : s > sys \/ (s = sys /\ phase = "cmake") => includeDeps[s] = {}

(* When analyze_all_systems returns, all_deps holds for every system       *)
(* exactly its specified dependencies.                                     *)
ScannedAsSpecified ==
  Done => \A s \in Node : allDeps[s] = SpecDeps(s)
=============================================================================
