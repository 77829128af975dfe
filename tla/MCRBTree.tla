----------------------------- MODULE MCRBTree -----------------------------
(* RBTree for TLC: ten holes of four sizes.  The first five are put in and  *)
(* taken out in any order; the others are added to all of those, one after  *)
(* the other, and taken out in any order.  It takes ten for a repair that   *)
(* goes up twice, and the size of the last one for a successor two levels   *)
(* below the right child.                                                   *)
EXTENDS RBTree, Sequences

CONSTANT AnyOrder   (* the holes put in in any order *)

MCSizes == <<1, 2, 2, 2, 3, 3, 4, 4, 4, 3>>
MCSize == [n \in Node |-> MCSizes[n]]

LargeTreesInOrder ==
  \A n \in Nodes' \ Nodes :
    IF n \in AnyOrder THEN Nodes \subseteq AnyOrder ELSE Nodes = 1 .. n - 1
=============================================================================
