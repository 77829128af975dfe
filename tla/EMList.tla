------------------------------- MODULE EMList -------------------------------
(****************************************************************************)
(* EMList of em_list.c: an array of offsets into "values.bin", kept in      *)
(* "index.bin" and copied into a file twice as large when it is full.       *)
(*                                                                          *)
(* l[i] = v, del l[i] and l.append(v) run in the steps between which a      *)
(* crash leaves different files behind; the files are mapped MAP_SHARED.    *)
(* Reading an element and len() change nothing.                             *)
(****************************************************************************)
EXTENDS Integers, FiniteSetsExt, ValuesFile

CONSTANTS
  Value,        (* values *)
  SetValues,    (* what the program assigns to elements; NULL stands for `del' *)
  AppendValues, (* what it appends *)
  BadValues,    (* values that cannot be pickled, or do not fit on the disk *)
  MaxLen,       (* bound on the length *)
  MaxChunks,    (* bound on the chunks of "values.bin" *)
  MaxFaults,    (* bound on crashes and failed resizes *)
  NULL, Torn

ASSUME ListAssumption ==
  /\ SetValues \subseteq Value \cup {NULL} /\ AppendValues \subseteq Value
  /\ BadValues \subseteq Value
  /\ NULL \notin Value /\ Torn \notin Value
  /\ NULL \notin [index : Nat, value : Value \cup {NULL}]
  /\ MaxLen \in Nat /\ MaxChunks \in Nat /\ MaxFaults \in Nat

VARIABLES
  index,    (* mapped "index.bin": used, capacity and value_pos, one per element *)
  fresh,    (* the larger index being prepared by em_list_resize(), or NULL *)
  named,    (* which of the two the name "index.bin" stands for, if any *)
  values,   (* "values.bin" *)
  is_open,
  op,       (* the em_list_setitem() or em_list_append() call in progress *)
  faults    (* crashes and failed resizes so far *)

vars == <<index, fresh, named, values, is_open, op, faults>>

Idle == [step |-> "idle"]

(* em_list_create(): room for no element. *)
Init ==
  /\ index = [used |-> 0, capacity |-> 0, value_pos |-> [i \in {} |-> 0]]
  /\ fresh = NULL /\ named = "index"
  /\ values = EmptyFile
  /\ is_open = TRUE
  /\ op = Idle
  /\ faults = 0

(* em_list_getitem_internal() of an index below `used' (it returns None for *)
(* an entry that was never set), and em_list_len().                         *)
GetItem(i) ==
  IF index.value_pos[i] = 0 THEN NULL ELSE values.chunk[index.value_pos[i]]
Length == index.used

-----------------------------------------------------------------------------
(* Bounds of the model: no statement begins that would have to pass them. *)
Chunks == {p \in Allocatable(values) : p <= MaxChunks}

WithinBounds(i) ==
  LET frees == i \in DOMAIN index.value_pos /\ index.value_pos[i] # 0
  IN  /\ Chunks # {} \/ frees
      /\ frees => BagCardinality(values.holes) < MaxChunks

(* em_list_setitem_safe(): a negative index counts from the end. *)
SetItem(i, v) ==
  LET at == IF i < 0 THEN i + index.used ELSE i
  IN  /\ is_open /\ op = Idle /\ WithinBounds(at)
      /\ at \in 0 .. index.used - 1
      /\ op' = [step |-> "free", call |-> "set", index |-> at, value |-> v, pos |-> 0]
      /\ UNCHANGED <<index, fresh, named, values, is_open, faults>>

(* em_list_append(): make room if needed; `used' is read here for good. *)
AppendItem(v) ==
  /\ is_open /\ op = Idle /\ WithinBounds(index.used) /\ index.used < MaxLen
  /\ op' = [step |-> IF index.used >= index.capacity THEN "create" ELSE "free",
            call |-> "append", index |-> index.used, value |-> v, pos |-> 0]
  /\ UNCHANGED <<index, fresh, named, values, is_open, faults>>

(* em_list_resize(): a larger file, "index.bin.1", that starts with the     *)
(* old one's header and elements ...                                        *)
NewCapacity == IF index.capacity = 0 THEN 1 ELSE 2 * index.capacity

CreateFresh ==
  /\ op.step = "create"
  /\ fresh' = [index EXCEPT !.value_pos =
                 [i \in 0 .. NewCapacity - 1 |-> IF i < index.capacity THEN @[i] ELSE 0]]
  /\ op' = [op EXCEPT !.step = "rename0"]
  /\ UNCHANGED <<index, named, values, is_open, faults>>

(* ... the old one renamed to "index.bin.0" ... *)
RenameOld ==
  /\ op.step = "rename0"
  /\ named' = "none"
  /\ op' = [op EXCEPT !.step = "rename1"]
  /\ UNCHANGED <<index, fresh, values, is_open, faults>>

(* ... the new one renamed to "index.bin" ... *)
RenameNew ==
  /\ op.step = "rename1"
  /\ named' = "fresh"
  /\ op' = [op EXCEPT !.step = "header"]
  /\ UNCHANGED <<index, fresh, values, is_open, faults>>

(* A faulty em_list_resize() that leaves the old capacity in the header.    *)
SwitchKeepingCapacity ==
  /\ op.step = "header"
  /\ index' = fresh
  /\ fresh' = NULL /\ named' = "index"
  /\ op' = [op EXCEPT !.step = "free"]
  /\ UNCHANGED <<values, is_open, faults>>

(* ... its capacity set, the old one unlinked, and the new one used. *)
Switch ==
  /\ op.step = "header"
  /\ index' = [fresh EXCEPT !.used = index.used, !.capacity = NewCapacity]
  /\ fresh' = NULL /\ named' = "index"
  /\ op' = [op EXCEPT !.step = "free"]
  /\ UNCHANGED <<values, is_open, faults>>

(* The file cannot be created or renamed: append() fails. *)
ResizeFails ==
  /\ op.step \in {"create", "rename0", "rename1"} /\ faults < MaxFaults
  /\ faults' = faults + 1
  /\ fresh' = NULL
  /\ op' = Idle
  /\ UNCHANGED <<index, named, values, is_open>>

-----------------------------------------------------------------------------
(* em_list_setitem_internal(): free the value the entry has, ... *)
FreeOld ==
  /\ op.step = "free"
  /\ LET old == index.value_pos[op.index]
     IN  values' = IF old # 0 THEN Freed(values, old) ELSE values
  /\ op' = [op EXCEPT !.step = "value"]
  /\ UNCHANGED <<index, fresh, named, is_open, faults>>

(* ... allocate a chunk for the new one and start to write it, ... *)
MarshalValue ==
  /\ op.step = "value" /\ op.value \in Value \ BadValues
  /\ \E p \in Chunks :
       /\ values' = Marshalled(values, p, Torn)
       /\ op' = [op EXCEPT !.step = "torn", !.pos = p]
  /\ UNCHANGED <<index, fresh, named, is_open, faults>>

(* ... which fails for a value that cannot be pickled, and for no value at  *)
(* all: marshal(NULL) is NULL; ...                                          *)
MarshalFails ==
  /\ op.step = "value" /\ op.value \notin Value \ BadValues
  /\ op' = Idle
  /\ UNCHANGED <<index, fresh, named, values, is_open, faults>>

WriteValue ==
  /\ op.step = "torn"
  /\ values' = Written(values, op.pos, op.value)
  /\ op' = [op EXCEPT !.step = "entry"]
  /\ UNCHANGED <<index, fresh, named, is_open, faults>>

(* ... em_list_set_entry(); ... *)
WriteEntry ==
  /\ op.step = "entry"
  /\ index' = [index EXCEPT !.value_pos[op.index] = op.pos]
  /\ op' = IF op.call = "append" THEN [op EXCEPT !.step = "count"] ELSE Idle
  /\ UNCHANGED <<fresh, named, values, is_open, faults>>

(* ... and em_list_append() counts the element. *)
Count ==
  /\ op.step = "count"
  /\ index' = [index EXCEPT !.used = op.index + 1]
  /\ op' = Idle
  /\ UNCHANGED <<fresh, named, values, is_open, faults>>

-----------------------------------------------------------------------------
(* em_list_close(). *)
Close ==
  /\ is_open /\ op = Idle
  /\ is_open' = FALSE
  /\ values' = Reopened(values)
  /\ UNCHANGED <<index, fresh, named, op, faults>>

(* The process dies.  "index.bin" is whatever has that name. *)
Crash ==
  /\ is_open /\ faults < MaxFaults
  /\ faults' = faults + 1
  /\ is_open' = FALSE
  /\ op' = Idle
  /\ values' = Reopened(values)
  /\ index' = IF named = "fresh" THEN fresh ELSE index
  /\ named' = IF named = "fresh" THEN "index" ELSE named
  /\ fresh' = NULL

(* em_list_open_existing(). *)
Open ==
  /\ ~is_open /\ named = "index"
  /\ is_open' = TRUE
  /\ UNCHANGED <<index, fresh, named, values, op, faults>>

Next ==
  \/ \E i \in - MaxLen .. MaxLen - 1, v \in SetValues : SetItem(i, v)
  \/ \E v \in AppendValues : AppendItem(v)
  \/ CreateFresh \/ RenameOld \/ RenameNew \/ Switch \/ ResizeFails
  \/ FreeOld \/ MarshalValue \/ MarshalFails \/ WriteValue \/ WriteEntry \/ Count
  \/ Close \/ Crash \/ Open

Spec == Init /\ [][Next]_vars

-----------------------------------------------------------------------------
(****************************************************************************)
(* Properties.                                                              *)
(****************************************************************************)
IsIndex(t) ==
  /\ t.used \in 0 .. t.capacity /\ t.capacity \in Nat
  /\ \E n \in t.capacity .. 2 * t.capacity + 1 : DOMAIN t.value_pos = 0 .. n - 1
  /\ \A i \in DOMAIN t.value_pos : t.value_pos[i] \in 0 .. Len(values.chunk)

(* What the properties about all statements but the failing ones of run     *)
(* list_del assume: a statement whose value cannot be marshalled finds no   *)
(* old value to free.                                                       *)
NothingToLose ==
  op.step = "free" /\ op.value \notin Value \ BadValues => index.value_pos[op.index] = 0

TypeOK ==
  /\ IsIndex(index)
  /\ fresh = NULL \/ IsIndex(fresh)
  /\ named \in {"index", "fresh", "none"}
  /\ values.chunk \in Seq(Value \cup {Torn})
  /\ is_open \in BOOLEAN /\ faults \in 0 .. MaxFaults
  /\ op = Idle \/
     op \in [step : {"create", "rename0", "rename1", "header",
                     "free", "value", "torn", "entry", "count"},
             call : {"set", "append"}, index : Nat,
             value : Value \cup {NULL}, pos : Nat]

(* Every element has a chunk of its own, and only its own statement frees   *)
(* it: no two entries share one (an entry a crash left behind `used'        *)
(* included), and no chunk is free twice or while an entry holds it, so     *)
(* mapped_file_free_chunk() is only given chunks in use (em_list.c:158).    *)
ChunksOwned ==
  LET entries == {i \in DOMAIN index.value_pos : index.value_pos[i] # 0}
      held == entries \ (IF op = Idle \/ op.step = "free" THEN {} ELSE {op.index})
  IN  /\ \A i, j \in entries :
           index.value_pos[i] = index.value_pos[j] => i = j
      /\ \A i \in held : ~ BagIn(index.value_pos[i], values.holes)
      /\ \A p \in BagToSet(values.holes) : values.holes[p] = 1

(* The array of offsets is the list the user believes it to be, through     *)
(* growth, failed resizes and appends, closing and opening, and crashes.    *)
List == INSTANCE PyList WITH
          list <- [i \in 1 .. Length |-> GetItem(i - 1)],
          busy <- IF op = Idle THEN NULL
                  ELSE [index |-> op.index + 1, value |-> op.value],
          open <- is_open
ImplementsList == List!Spec

(* A statement about one element leaves the values of all others alone,     *)
(* step by step: "It's safe to seek there and write `size' bytes"           *)
(* (mapped_file.c:235), because the chunk allocated for a new value is      *)
(* nobody else's, whatever failed before.                                   *)
OthersKeepValues ==
  [][\A i \in 0 .. index.used - 1 :
       op # Idle /\ op.index # i => GetItem(i)' = GetItem(i)]_vars
=============================================================================
