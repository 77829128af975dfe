---------------------------- MODULE EMDictIter ----------------------------
(****************************************************************************)
(* An iterator over an EMDict: items(), keys(), values() and iter() of      *)
(* em_dict.c, between whose next() calls the program goes on assigning and  *)
(* deleting.  The iterator has nothing but a position; it reads the index   *)
(* the dictionary has at the time, which may have been resized since.       *)
(****************************************************************************)
EXTENDS EMDict

VARIABLE
  iter  (* the iterator, or NULL.  pos is its own; the rest records for the *)
        (* properties what it returned, and what was in the table meanwhile *)

ivars == <<vars, iter>>

KeysIn(t) == {t.ent[i].key : i \in Occupied(t)}

(* max_pos as em_dict_iterator_new() seems to mean it ...                   *)
MaxPosInHeader == index.mask + 1

(* ... and as it is: `mask' is read from the mapped_file_t where `address'  *)
(* is, and no address is as small as a position.                            *)
MaxPos == 2 ^ 12

Iterating == iter # NULL /\ ~iter.done

IterInit == Init /\ iter = NULL

(* em_dict_iterator_new(); the model has one iterator at a time.            *)
IterNew ==
  /\ is_open /\ op = Idle
  /\ ~Iterating
  /\ iter' = [pos |-> 0, done |-> FALSE, seen |-> <<>>,
              kept |-> KeysIn(index), resizes |-> 0]
  /\ UNCHANGED vars

(* The position at which the loop of em_dict_iter_iternext() ends: an entry *)
(* in use, the last position before max_pos, or the end of the file.        *)
StopPos ==
  Min({i \in iter.pos .. index.mask + 1 :
         i > index.mask \/ index.ent[i] # Free \/ i + 1 >= MaxPos})

(* A faulty em_dict_iter_iternext() that does not store the new position.   *)
IterStay ==
  /\ is_open /\ op = Idle /\ Iterating
  /\ iter' = IF StopPos > index.mask \/ StopPos + 1 >= MaxPos
             THEN [iter EXCEPT !.done = TRUE]
             ELSE [iter EXCEPT !.seen = IF Len(@) < MaxEnts
                                        THEN Append(@, index.ent[StopPos].key) ELSE @]
  /\ UNCHANGED vars

(* em_dict_iter_iternext(): the next entry, or the end of the iteration     *)
(* (reading past the end of the file fails, and NULL without an exception   *)
(* is StopIteration).  The program asks no further then.                    *)
IterNext ==
  /\ is_open /\ op = Idle /\ Iterating
  /\ iter' = IF StopPos > index.mask \/ StopPos + 1 >= MaxPos
             THEN [iter EXCEPT !.done = TRUE]
             ELSE [iter EXCEPT !.pos = StopPos + 1,
                               !.seen = Append(@, index.ent[StopPos].key)]
  /\ UNCHANGED vars

(* The dictionary changes while the iterator is there; it goes with the     *)
(* object when that is closed, or the process dies.                         *)
Change ==
  /\ Next
  /\ iter' = IF iter = NULL \/ ~is_open' THEN NULL
             ELSE [iter EXCEPT !.kept = @ \cap KeysIn(index'),
                               !.resizes = IF index'.mask # index.mask THEN @ + 1 ELSE @]

IterNextStep == IterNew \/ IterNext \/ Change

(* The loop the iterator is for goes on: a statement in its body runs on    *)
(* until it returns, and next() is called again.                            *)
IterSpec ==
  /\ IterInit /\ [][IterNextStep]_ivars
  /\ WF_ivars(op # Idle /\ Change)
  /\ SF_ivars(IterNext)

-----------------------------------------------------------------------------
(****************************************************************************)
(* Properties.                                                              *)
(****************************************************************************)
Returned(k) == Cardinality({n \in 1 .. Len(iter.seen) : iter.seen[n] = k})

(* An iteration that ends without a resize in between returns every key     *)
(* that was in the table all the time, whatever else was set and deleted    *)
(* meanwhile, and although its end is taken from the wrong structure        *)
(* (em_dict.c:739).                                                         *)
IterComplete ==
  iter # NULL /\ iter.done /\ iter.resizes = 0 =>
    \A k \in iter.kept : Returned(k) = 1

(* A resize moves entries behind or before the position of the iterator,    *)
(* but each can at most make it return a key once more.                     *)
IterRepeats ==
  iter # NULL => \A k \in iter.kept : Returned(k) <= 1 + iter.resizes

(* An iteration ends although its end is wrong (em_dict.c:739) and its body *)
(* may assign new keys, unless the table grows for ever, which MaxEnts      *)
(* leaves out.                                                              *)
IterEnds == Iterating ~> ~Iterating
=============================================================================
