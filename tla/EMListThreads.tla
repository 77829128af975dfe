--------------------------- MODULE EMListThreads ---------------------------
(****************************************************************************)
(* An EMList used by several threads.  The interpreter's lock is held in    *)
(* em_list.c, but not while an object is pickled: __reduce__(), or a        *)
(* pickler of the program's own, is Python code, during which other threads *)
(* run, or which uses the list itself.  A statement is therefore two steps, *)
(* up to the call of the pickler and from there on; EMList has the crashes, *)
(* failed resizes and negative indices that are left out here.              *)
(****************************************************************************)
EXTENDS Naturals, FiniteSets, ValuesFile

CONSTANTS
  Thread,
  Appender,   (* the threads that append *)
  Assigned,   (* Assigned[t] is the set of indices thread t assigns to *)
  Value,      (* values *)
  BadValues,  (* those that cannot be pickled; they are only appended *)
  MaxLen,     (* bound on the length *)
  MaxChunks,  (* bound on the chunks of "values.bin" *)
  NULL, Unset

ASSUME ThreadsAssumption ==
  /\ Appender \subseteq Thread /\ Assigned \in [Thread -> SUBSET Nat]
  /\ NULL \notin [index : Nat, value : Value]
  /\ NULL \notin [call : {"append", "set"}, index : Nat, value : Value, map : Nat]

VARIABLES
  index,    (* "index.bin": used, value_pos, and how often it was mapped anew *)
  values,   (* "values.bin" *)
  doing,    (* the statement each thread is in, or NULL *)
  broken    (* something was written through a pointer to an unmapped file *)

vars == <<index, values, doing, broken>>

Init ==
  /\ index = [used |-> 0, value_pos |-> [i \in {} |-> 0], map |-> 0]
  /\ values = EmptyFile
  /\ doing = [t \in Thread |-> NULL]
  /\ broken = FALSE

Capacity == Cardinality(DOMAIN index.value_pos)

(* em_list_resize(), the old index unmapped.                                *)
Resized ==
  LET size == IF Capacity = 0 THEN 1 ELSE 2 * Capacity
  IN  [index EXCEPT !.value_pos = [i \in 0 .. size - 1 |-> IF i < Capacity THEN @[i] ELSE 0],
                    !.map = @ + 1]

(* em_list_setitem_internal() up to the pickler: free the value the entry   *)
(* has.                                                                     *)
FreedAt(t, i) ==
  IF t.value_pos[i] # 0 THEN Freed(values, t.value_pos[i]) ELSE values

(* em_list_append() up to the pickler.  It goes on with the `used' and the  *)
(* address of the index it found here.                                      *)
BeginAppend(t, v) ==
  /\ ~broken /\ doing[t] = NULL /\ t \in Appender /\ index.used < MaxLen
  /\ index' = IF index.used >= Capacity THEN Resized ELSE index
  /\ values' = FreedAt(index', index.used)
  /\ doing' = [doing EXCEPT ![t] = [call |-> "append", index |-> index.used,
                                    value |-> v, map |-> index'.map]]
  /\ UNCHANGED broken

(* em_list_setitem_safe() up to the pickler.                                *)
BeginSet(t, i, v) ==
  /\ ~broken /\ doing[t] = NULL /\ i \in Assigned[t] /\ i < index.used
  /\ values' = FreedAt(index, i)
  /\ doing' = [doing EXCEPT ![t] = [call |-> "set", index |-> i,
                                    value |-> v, map |-> index.map]]
  /\ UNCHANGED <<index, broken>>

Chunks == {p \in Allocatable(values) : p <= MaxChunks}

Pickled(t) == ~broken /\ doing[t] # NULL /\ doing[t].value \notin BadValues

(* A faulty em_list_setitem_internal() that goes on with the index it found *)
(* before it called the pickler, as em_dict_setitem() does (em_dict.c:410). *)
EndThroughOldMap(t) ==
  /\ Pickled(t)
  /\ LET d == doing[t]
         mapped == d.map = index.map
     IN  /\ \E p \in Chunks :
              /\ values' = Marshalled(values, p, d.value)
              /\ index' = IF mapped
                          THEN [index EXCEPT
                                  !.value_pos[d.index] = p,
                                  !.used = IF d.call = "append" THEN d.index + 1 ELSE @]
                          ELSE index
         /\ broken' = (d.call = "append" /\ ~mapped)
  /\ doing' = [doing EXCEPT ![t] = NULL]

(* append() stores its count where the index was before.                    *)
UsedAfter(d) ==
  IF d.call = "append" /\ d.map = index.map THEN d.index + 1 ELSE index.used

(* The rest of the statement; em_list_set_entry() is given the index as it  *)
(* is now.                                                                  *)
End(t) ==
  /\ Pickled(t)
  /\ LET d == doing[t]
     IN  /\ \E p \in Chunks :
              /\ values' = Marshalled(values, p, d.value)
              /\ index' = [index EXCEPT !.value_pos[d.index] = p, !.used = UsedAfter(d)]
         /\ broken' = (d.call = "append" /\ d.map # index.map)
  /\ doing' = [doing EXCEPT ![t] = NULL]

(* The value cannot be pickled, and the statement fails.                    *)
Fail(t) ==
  /\ ~broken /\ doing[t] # NULL /\ doing[t].value \in BadValues
  /\ doing' = [doing EXCEPT ![t] = NULL]
  /\ UNCHANGED <<index, values, broken>>

Next ==
  \E t \in Thread :
    \/ \E v \in Value : BeginAppend(t, v)
    \/ \E i \in Assigned[t], v \in Value \ BadValues : BeginSet(t, i, v)
    \/ End(t) \/ Fail(t)

Spec == Init /\ [][Next]_vars

-----------------------------------------------------------------------------
(****************************************************************************)
(* Properties.                                                              *)
(****************************************************************************)
Assigning ==
  {doing[t].index : t \in {t \in Thread : doing[t] # NULL /\ doing[t].call = "set"}}

(* A chunk freed by one thread is taken by another before the first comes   *)
(* back from its pickler (em_list.c:157-160).  Still no two entries share a *)
(* chunk, no entry's chunk is free but for those being replaced, and no     *)
(* chunk is free twice.                                                     *)
ChunksOwned ==
  LET entries == {i \in DOMAIN index.value_pos : index.value_pos[i] # 0}
      held == entries \ Assigning
  IN  /\ \A i, j \in held : index.value_pos[i] = index.value_pos[j] => i = j
      /\ \A i \in held : ~ BagIn(index.value_pos[i], values.holes)
      /\ \A p \in BagToSet(values.holes) : values.holes[p] = 1

(* Statements of different threads do not disturb each other: each one      *)
(* takes effect when it returns, on one element and on the index that is    *)
(* mapped by then.  It takes a program whose threads assign to different    *)
(* elements and only one of which appends (run list_threads); with two that *)
(* append, "Append item in external memory list" (em_list.c:306) is not     *)
(* what append() does (run list_race).                                      *)
Shared == INSTANCE SharedList WITH
            list <- [i \in 1 .. index.used |->
                       IF i - 1 \in Assigning THEN Unset
                       ELSE values.chunk[index.value_pos[i - 1]]],
            doing <- [t \in Thread |->
                        IF doing[t] = NULL THEN NULL
                        ELSE [index |-> IF doing[t].call = "append" THEN 0
                                        ELSE doing[t].index + 1,
                              value |-> doing[t].value]]
ImplementsShared == Shared!Spec
=============================================================================
