---------------------------- MODULE MCDirectory ----------------------------
(* Directory for TLC: two processes that open one EMDict.                   *)
EXTENDS Directory

CONSTANTS one, two
=============================================================================
