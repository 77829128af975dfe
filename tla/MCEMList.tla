------------------------------ MODULE MCEMList ------------------------------
(* EMList for TLC: lists of up to three elements, so that the index grows   *)
(* from 0 to 1, 2 and 4 entries, and a value `bad' that cannot be pickled.  *)
EXTENDS EMList

CONSTANTS v, w, bad
=============================================================================
