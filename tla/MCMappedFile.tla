---------------------------- MODULE MCMappedFile ----------------------------
(* MappedFile for TLC: two objects of one chunk size, so that a hole of one *)
(* is reused by the other, and one object of a larger size; a file of 16    *)
(* bytes, the size of an empty EMList's "values.bin" on a 32-bit machine,   *)
(* that grows to 24 and 36.                                                 *)
EXTENDS MappedFile

CONSTANTS a, b, c

MCPickle == [o \in {a, b, c} |->
               CASE o = a -> <<10, 11, 12>>
                 [] o = b -> <<20>>
                 [] o = c -> <<30, 31, 32, 33, 34>>]
=============================================================================
