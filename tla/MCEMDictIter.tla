---------------------------- MODULE MCEMDictIter ----------------------------
(* EMDictIter for TLC.  The keys a and b start from the same slot, d from   *)
(* the last of a table of 4 slots; the third key makes the table grow.      *)
EXTENDS EMDictIter

CONSTANTS a, b, d, v

HashOf(k) == CASE k = a -> 2
               [] k = b -> 34
               [] k = d -> 3

MCHashes == {[k \in Key |-> HashOf(k)]}
=============================================================================
