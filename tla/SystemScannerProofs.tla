-------------------------- MODULE SystemScannerProofs --------------------------
(***************************************************************************)
(* Proofs about analyze_all_systems of tools/dependency_analyzer.py        *)
(* (module SystemScanner), for every number of systems, every number of    *)
(* source files and every content of the build and source files whose     *)
(* CMake mentions of a system are whole tokens.                            *)
(*                                                                         *)
(* The hypothesis is needed: the code's test `other_system in link_stmt`   *)
(* is a substring test, so a mention inside a longer identifier counts    *)
(* for the code and not for the spec (README section 4 lists it).        *)
(* With it, what the loop gathers for a system, the systems of its CMake  *)
(* file and those its readable source files include, is what the spec    *)
(* makes its dependencies (GatheredAll).  ScanInv carries that through    *)
(* the for-loop: every system already combined is right, and the system   *)
(* being read has gathered exactly what its files read so far add.        *)
(***************************************************************************)
EXTENDS SystemScanner, TLAPS

(* Every system a CMake file mentions stands there as a token of its own.  *)
WholeMentions == \A form \in CMakeForms : \A m \in form.mentions : m.whole

(* Gathering from no source file leaves the CMake dependencies; one more  *)
(* file adds what it includes.                                             *)
LEMMA GatheredStep ==
  ASSUME NEW s, NEW D, NEW f
  PROVE  /\ Gathered(s, {}) = CMakeDeps(cmake[s], s)
         /\ Gathered(s, D \cup {f}) = Gathered(s, D) \cup IncludeDepsOf(files[s][f], s)
  BY DEF Gathered

(* Once every file of s is read, and its CMake mentions are whole, the    *)
(* loop has gathered exactly the dependencies the spec gives s.            *)
LEMMA GatheredAll ==
  ASSUME WholeMentions, NEW s \in Node,
         cmake \in [Node -> CMakeForms], files \in [Node -> [File -> FileForms]]
  PROVE  Gathered(s, File) = SpecDeps(s)
  <1>1. cmake[s] \in [kind : {"missing", "error", "ok"}, mentions : SUBSET Mention]
    BY ScannerAssumption
  <1>2. {x \in cmake[s].mentions : x.whole} = cmake[s].mentions
    BY DEF WholeMentions
  <1>3. CMakeDeps(cmake[s], s)
        = ((IF cmake[s].kind # "ok" THEN {}
            ELSE {m.sys : m \in {x \in cmake[s].mentions : x.whole}}) \cap Node) \ {s}
    BY <1>1, <1>2 DEF CMakeDeps, Mention
  <1>4. \A f \in File : files[s][f] \in [readable : BOOLEAN, stems : SUBSET Stem]
    BY ScannerAssumption
  <1>5. UNION {IncludeDepsOf(files[s][f], s) : f \in File}
        = ((UNION {files[s][f].stems : f \in {g \in File : files[s][g].readable}}) \cap Node) \ {s}
    <2>1. ASSUME NEW x, NEW f \in File, x \in IncludeDepsOf(files[s][f], s)
          PROVE  files[s][f].readable /\ x \in files[s][f].stems /\ x \in Node /\ x # s
      BY <2>1, <1>4 DEF IncludeDepsOf
    <2>2. ASSUME NEW x, NEW f \in File, files[s][f].readable, x \in files[s][f].stems,
                 x \in Node, x # s
          PROVE  x \in IncludeDepsOf(files[s][f], s)
      BY <2>2 DEF IncludeDepsOf
    <2>3. \A x : x \in UNION {IncludeDepsOf(files[s][f], s) : f \in File}
                    <=> \E f \in File : x \in IncludeDepsOf(files[s][f], s)
      OBVIOUS
    <2>4. \A x : x \in ((UNION {files[s][f].stems : f \in {g \in File : files[s][g].readable}}) \cap Node) \ {s}
                    <=> \E f \in File : files[s][f].readable /\ x \in files[s][f].stems
                                         /\ x \in Node /\ x # s
      OBVIOUS
    <2>. QED
      BY <2>1, <2>2, <2>3, <2>4, Zenon
  <1>. QED
    BY <1>3, <1>5 DEF Gathered, SpecDeps

(* analyze_all_systems starts in a state of ScanInv: no system combined,  *)
(* nothing read.                                                           *)
LEMMA InitScanInv == Init => ScanInv
  BY NAssumption DEF Init, ScanInv, Node

(* The for-loop never changes the files it reads: what the spec makes a   *)
(* system's dependencies, and what reading a set of its files gathers,    *)
(* are the same after every step.                                          *)
LEMMA FilesFixed ==
  ASSUME UNCHANGED <<cmake, files>>
  PROVE  /\ \A s : SpecDeps(s)' = SpecDeps(s)
         /\ \A s, D : Gathered(s, D)' = Gathered(s, D)
  BY DEF SpecDeps, Gathered, CMakeDeps, IncludeDepsOf

(* Every step of the for-loop keeps ScanInv.                               *)
LEMMA NextScanInv == WholeMentions /\ ScanInv /\ [Next]_vars => ScanInv'
  <1> SUFFICES ASSUME WholeMentions, ScanInv, [Next]_vars PROVE ScanInv'
    OBVIOUS
  <1>0. /\ \A s : SpecDeps(s)' = SpecDeps(s)
        /\ \A s, D : Gathered(s, D)' = Gathered(s, D)
    <2>1. UNCHANGED <<cmake, files>>
      BY DEF Next, ParseCMake, ScanFile, Combine, vars
    <2>. QED
      BY <2>1, FilesFixed
  <1>1. CASE ParseCMake
    <2>1. includeDeps[sys] = {} /\ sys \in Node
      BY <1>1 DEF ParseCMake, ScanInv, Node
    <2>2. CMakeDeps(cmake[sys], sys) \subseteq Node
      BY <2>1, ScannerAssumption DEF ScanInv, CMakeDeps, Mention
    <2>3. Gathered(sys, File \ todo)' = CMakeDeps(cmake[sys], sys)
      <3>1. File \ todo' = {}
        BY <1>1 DEF ParseCMake
      <3>. QED
        BY <1>0, <1>1, <3>1, GatheredStep DEF ParseCMake
    <2>4. (cmakeDeps[sys] \cup includeDeps[sys])' = CMakeDeps(cmake[sys], sys)
      BY <1>1, <2>1 DEF ParseCMake, ScanInv
    <2>5. \A s \in 1..(sys' - 1) : allDeps'[s] = SpecDeps(s)'
      BY <1>0, <1>1 DEF ParseCMake, ScanInv
    <2>6. \A s \in Node : s > sys' \/ (s = sys' /\ phase' = "cmake") => includeDeps'[s] = {}
      BY <1>1 DEF ParseCMake, ScanInv
    <2>7. cmakeDeps' \in [Node -> SUBSET Node]
      BY <1>1, <2>1, <2>2 DEF ParseCMake, ScanInv
    <2>. QED
      BY <1>1, <2>1, <2>3, <2>4, <2>5, <2>6, <2>7 DEF ParseCMake, ScanInv, Node
  <1>2. ASSUME NEW f \in File, ScanFile(f) PROVE ScanInv'
    <2>1. sys \in Node /\ phase = "include"
      BY <1>2 DEF ScanFile, ScanInv, Node
    <2>2. IncludeDepsOf(files[sys][f], sys) \subseteq Node
      BY <2>1, ScannerAssumption DEF ScanInv, IncludeDepsOf
    <2>3. Gathered(sys, File \ todo)'
          = Gathered(sys, File \ todo) \cup IncludeDepsOf(files[sys][f], sys)
      <3>1. File \ todo' = (File \ todo) \cup {f}
        BY <1>2 DEF ScanFile
      <3>. QED
        BY <1>0, <1>2, <3>1, GatheredStep DEF ScanFile
    <2>4. includeDeps' \in [Node -> SUBSET Node]
      BY <1>2, <2>1, <2>2 DEF ScanFile, ScanInv
    <2>5. (cmakeDeps[sys] \cup includeDeps[sys])'
          = cmakeDeps[sys] \cup includeDeps[sys] \cup IncludeDepsOf(files[sys][f], sys)
      BY <1>2, <2>1 DEF ScanFile, ScanInv
    <2>6. \A s \in 1..(sys' - 1) : allDeps'[s] = SpecDeps(s)'
      BY <1>0, <1>2 DEF ScanFile, ScanInv
    <2>7. \A s \in Node : s > sys' \/ (s = sys' /\ phase' = "cmake") => includeDeps'[s] = {}
      BY <1>2, <2>1 DEF ScanFile, ScanInv
    <2>. QED
      BY <1>2, <2>1, <2>3, <2>4, <2>5, <2>6, <2>7 DEF ScanFile, ScanInv
  <1>3. CASE Combine
    <2>1. sys \in Node /\ File \ todo = File
      BY <1>3 DEF Combine, ScanInv, Node
    <2>2. cmakeDeps[sys] \cup includeDeps[sys] = SpecDeps(sys)
      <3>1. Gathered(sys, File) = SpecDeps(sys)
        BY <2>1, GatheredAll DEF ScanInv
      <3>. QED
        BY <1>3, <2>1, <3>1 DEF Combine, ScanInv
    <2>3. allDeps' \in [Node -> SUBSET Node]
      BY <1>3, <2>1 DEF Combine, ScanInv
    <2>4. \A s \in 1..(sys' - 1) : allDeps'[s] = SpecDeps(s)'
      BY <1>0, <1>3, <2>1, <2>2 DEF Combine, ScanInv, Node
    <2>5. \A s \in Node : s > sys' \/ (s = sys' /\ phase' = "cmake") => includeDeps'[s] = {}
      BY <1>3, <2>1 DEF Combine, ScanInv, Node
    <2>6. sys' \in 1..(N + 1) /\ phase' = "cmake"
      BY <1>3, <2>1, NAssumption DEF Combine, Node
    <2>7. UNCHANGED <<cmake, files, todo, cmakeDeps, includeDeps>>
      BY <1>3 DEF Combine
    <2>. QED
      BY <2>3, <2>4, <2>5, <2>6, <2>7 DEF ScanInv
  <1>4. CASE UNCHANGED vars
    BY <1>0, <1>4 DEF vars, ScanInv
  <1>. QED
    BY <1>1, <1>2, <1>3, <1>4 DEF Next

(* For every number of systems and files, and every content of the files  *)
(* whose CMake mentions are whole, every state of analyze_all_systems     *)
(* satisfies ScanInv (run system_scanner checks it).                       *)
THEOREM ScanInvHolds == WholeMentions => (Spec => []ScanInv)
  <1> SUFFICES ASSUME WholeMentions PROVE Spec => []ScanInv
    OBVIOUS
  <1>1. ScanInv /\ [Next]_vars => ScanInv'
    BY NextScanInv
  <1>. QED
    BY InitScanInv, <1>1, PTL DEF Spec

(* For every number of systems and files, and every content of the files  *)
(* whose CMake mentions are whole, when analyze_all_systems returns every *)
(* system's all_deps is exactly its dependencies of spec sections 3, 4.1  *)
(* and 4.2: the union of the two parsers loses nothing and adds nothing,  *)
(* an unreadable source file included (run system_scanner checks it as    *)
(* ScannedAsSpecified).                                                    *)
THEOREM ScannedHolds == WholeMentions => (Spec => []ScannedAsSpecified)
  <1> SUFFICES ASSUME WholeMentions PROVE Spec => []ScannedAsSpecified
    OBVIOUS
  <1>1. ScanInv => ScannedAsSpecified
    BY NAssumption DEF ScanInv, ScannedAsSpecified, Done, Node
  <1>. QED
    BY ScanInvHolds, <1>1, PTL
=============================================================================
