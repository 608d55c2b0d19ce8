------------------------- MODULE MCCircularDepsMain -------------------------
(* Three headers, each with up to two #include lines, so that a header can *)
(* include the same header twice.                                          *)
EXTENDS CircularDepsMain

MCN3 == 3
=============================================================================
