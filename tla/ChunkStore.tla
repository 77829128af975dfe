----------------------------- MODULE ChunkStore -----------------------------
(****************************************************************************)
(* What a "keys.bin" or "values.bin" file promises to its owner: a partial  *)
(* function from handles (file offsets) to objects.  Storing an object      *)
(* returns a handle nobody holds; a stored object stays as it is until its  *)
(* owner frees the handle, through growth of the file, reuse of holes,      *)
(* failed calls, closing, crashing and opening again.                       *)
(****************************************************************************)
EXTENDS Naturals

CONSTANTS
  Handle,  (* offsets a chunk can have *)
  Object   (* objects that can be stored *)

VARIABLE store  (* the objects stored, by handle *)

Init == store = [h \in {} |-> CHOOSE o \in Object : TRUE]

(* Storing o succeeds: the handle h returned was not in use. *)
Put(o) ==
  \E h \in Handle \cap (DOMAIN store' \ DOMAIN store) :
    store' = [x \in DOMAIN store \cup {h} |-> IF x = h THEN o ELSE store[x]]

(* The owner of h gives its chunk back. *)
Drop(h) == store' = [x \in DOMAIN store \ {h} |-> store[x]]

Next ==
  \/ \E o \in Object : Put(o)
  \/ \E h \in DOMAIN store : Drop(h)

Spec == Init /\ [][Next]_store
=============================================================================
