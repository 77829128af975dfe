-------------------------- MODULE MCEMListThreads --------------------------
(* EMListThreads for TLC: three threads and lists of up to three elements,  *)
(* so that the index is mapped anew at 0, 1 and 2 elements.                 *)
EXTENDS EMListThreads

CONSTANTS p, q, r, v, w, bad

MCAssigned == [t \in Thread |-> CASE t = p -> {}  [] t = q -> {0, 2} [] OTHER -> {1}]
=============================================================================
