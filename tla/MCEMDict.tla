------------------------------ MODULE MCEMDict ------------------------------
(* EMDict for TLC.  The keys a and b start from the same slot in tables of 4*)
(* and 8 slots, and go on to the same slots but for the bits that reach the *)
(* probe sequence through perturb; c has hash 0.  The value `bad' cannot be *)
(* pickled.                                                                 *)
EXTENDS EMDict

CONSTANTS a, b, c, v, w, bad

HashOf(k) == CASE k = a -> 2
               [] k = b -> 34
               [] k = c -> 0

MCHashes == {[k \in Key |-> HashOf(k)]}
=============================================================================
