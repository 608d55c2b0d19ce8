------------------------- MODULE MCTransitiveCycles -------------------------
(* find_transitive_cycles on every include graph over three or four        *)
(* headers, self-includes included.                                        *)
EXTENDS TransitiveCycles

MCN3 == 3
MCN4 == 4
=============================================================================
