------------------------------ MODULE HoleSet ------------------------------
(****************************************************************************)
(* What rbtree.c promises to the chunk allocator: the holes put in are      *)
(* found again by their exact size, whatever was put in and taken out       *)
(* before, and taking one out leaves all others in.  What was asked is part *)
(* of the state, so that an answer can be wrong: to find nothing is allowed *)
(* only if nothing fits.                                                    *)
(****************************************************************************)
CONSTANTS
  Hole,   (* the holes there may be *)
  Size,   (* Size[h] is the size of hole h *)
  NIL     (* what taking a hole returns if none has the size *)

VARIABLES
  holes,  (* the holes there are *)
  asked,  (* the size the last call asked for, or NIL if it asked for none *)
  result  (* the hole it took, or NIL *)

Fitting(z) == {h \in holes : Size[h] = z}

Init == holes = {} /\ asked = NIL /\ result = NIL

Add(h) ==
  /\ h \notin holes
  /\ holes' = holes \cup {h}
  /\ asked' = NIL /\ result' = NIL

Take(z) ==
  /\ asked' = z
  /\ \/ Fitting(z) = {} /\ result' = NIL /\ UNCHANGED holes
     \/ \E h \in Fitting(z) : result' = h /\ holes' = holes \ {h}

Clear == holes' = {} /\ asked' = NIL /\ result' = NIL

Next ==
  \/ \E h \in Hole : Add(h)
  \/ \E z \in {Size[h] : h \in Hole} : Take(z)
  \/ Clear

Spec == Init /\ [][Next]_<<holes, asked, result>>
=============================================================================
