-------------------------- MODULE MCFactReconcile --------------------------
(* Small instances of FactReconcile: every answer with up to two candidates,
   the same value twice and a change of mind included.                      *)
EXTENDS FactReconcile

CONSTANTS e1, e2, v1, v2

MCAnswers == UNION {[1..n -> Values] : n \in 0..2}
MCFirst == {<<v1>>, <<v2>>}
=============================================================================
