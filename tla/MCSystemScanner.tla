--------------------------- MODULE MCSystemScanner ---------------------------
(* Two systems with two source files each.  A CMake file is missing,       *)
(* unreadable, empty or mentions one system; a source file is unreadable,  *)
(* includes nothing, or includes one directory, a system's or another.     *)
EXTENDS SystemScanner

MCN2 == 2

MCNoFile == {[kind |-> k, mentions |-> {}] : k \in {"missing", "error", "ok"}}

MCCMakeWhole ==
  MCNoFile \cup {[kind |-> "ok", mentions |-> {[sys |-> s, whole |-> TRUE]}] : s \in 1..2}

MCFileForms ==
  {[readable |-> FALSE, stems |-> {}]} \cup
  {[readable |-> TRUE, stems |-> S] : S \in {{}, {1}, {2}, {Other}}}
=============================================================================
