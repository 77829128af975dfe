----------------------------- MODULE ValuesFile -----------------------------
(****************************************************************************)
(* "values.bin" as EMDict and EMList use it: MappedFile seen from above,    *)
(* with chunks numbered in the order they were appended and the bag of      *)
(* holes.  It keeps what MappedFile promises only to a well-behaved owner   *)
(* open: a chunk freed twice is in the bag twice, and a chunk freed while   *)
(* somebody still uses it is handed out again.                              *)
(*                                                                          *)
(* Chunk sizes are left out.  The code takes a hole whenever one has the    *)
(* exact size, so any hole may be taken or none.                            *)
(****************************************************************************)
EXTENDS Naturals, Sequences, Bags

EmptyFile == [chunk |-> <<>>, holes |-> EmptyBag]

(* mapped_file_allocate_chunk(): the chunks it may return. *)
Allocatable(f) == BagToSet(f.holes) \cup {Len(f.chunk) + 1}

(* A faulty mapped_file_allocate_chunk() that leaves the hole in the tree.  *)
MarshalledKeepingHole(f, p, x) ==
  [f EXCEPT !.chunk = IF p > Len(@) THEN Append(@, x) ELSE [@ EXCEPT ![p] = x]]

(* ... f once chunk p is allocated and x written to it. *)
Marshalled(f, p, x) ==
  [chunk |-> IF p > Len(f.chunk) THEN Append(f.chunk, x)
             ELSE [f.chunk EXCEPT ![p] = x],
   holes |-> f.holes (-) SetToBag({p})]

(* The rest of a write that was under way in chunk p. *)
Written(f, p, x) == [f EXCEPT !.chunk[p] = x]

(* mapped_file_free_chunk(): nothing is erased, and nothing is checked. *)
Freed(f, p) == [f EXCEPT !.holes = @ (+) SetToBag({p})]

(* A variant that would find the holes again when the file is opened.       *)
ReopenedWithHoles(f) == f

(* mapped_file_open() after the process is gone: the holes are forgotten. *)
Reopened(f) == [f EXCEPT !.holes = EmptyBag]
=============================================================================
