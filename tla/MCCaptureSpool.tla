--------------------------- MODULE MCCaptureSpool ---------------------------
(* Small instances of CaptureSpool for TLC: the hooks are model values, and
   the configurations say which of them take part and which are unwanted.    *)
EXTENDS CaptureSpool

CONSTANTS s1, s2, g1, a1
=============================================================================
