------------------------------- MODULE EMDict -------------------------------
(****************************************************************************)
(* EMDict of em_dict.c: an open-addressing hash table in "index.bin" whose  *)
(* entries point into "keys.bin" and "values.bin".                          *)
(*                                                                          *)
(* d[k] = v and del d[k] run in the steps between which a crash leaves      *)
(* different files behind; the files are mapped MAP_SHARED, so they keep    *)
(* what was written before the crash.  Lookups only read.  An entry holds   *)
(* its key itself in place of key_pos, because chunks of "keys.bin" are     *)
(* never freed nor written again.                                           *)
(****************************************************************************)
EXTENDS Naturals, FiniteSets, FiniteSetsExt, ValuesFile

CONSTANTS
  Key,         (* keys, pairwise unequal in the sense of equal_objects() *)
  Value,       (* values *)
  DelKeys,     (* keys the program uses in `del' statements *)
  BadValues,   (* values that cannot be pickled, or do not fit on the disk *)
  Hashes,      (* hash functions PyObject_Hash() may be in a process *)
  InitEnts,    (* number of slots of a new dictionary *)
  MaxEnts,     (* bound on the number of slots *)
  MaxChunks,   (* bound on the chunks of "values.bin" *)
  MaxFaults,   (* bound on crashes and failed resizes *)
  MaxShifts,   (* shifts by PERTURB_SHIFT after which any hash is 0 *)
  NULL, Torn

PERTURB_SHIFT == 5

ASSUME DictAssumption ==
  /\ DelKeys \subseteq Key /\ BadValues \subseteq Value
  /\ NULL \notin Key \cup Value /\ Torn \notin Value
  /\ NULL \notin [key : Key, value : Value \cup {NULL}]
  /\ \E n \in 0 .. MaxEnts : InitEnts = 2 ^ n
  /\ MaxEnts \in Nat /\ InitEnts <= MaxEnts
  /\ {MaxChunks, MaxFaults, MaxShifts} \subseteq Nat
  /\ \A h \in Hashes : h \in [Key -> 0 .. 2 ^ (PERTURB_SHIFT * MaxShifts) - 1]

VARIABLES
  index,    (* mapped "index.bin": mask, used and the entry in each slot *)
  fresh,    (* the larger index being prepared by em_dict_resize(), or NULL *)
  named,    (* which of the two the name "index.bin" stands for, if any *)
  values,   (* "values.bin" *)
  is_open,
  hash,     (* PyObject_Hash() in this process *)
  op,       (* the em_dict_setitem() call in progress *)
  faults    (* crashes and failed resizes so far *)

vars == <<index, fresh, named, values, is_open, hash, op, faults>>

-----------------------------------------------------------------------------
Free == [hash |-> 0, key |-> NULL, value_pos |-> 0]

Occupied(t) == {i \in 0 .. t.mask : t.ent[i] # Free}

EmptyIndex(ents) ==
  [mask |-> ents - 1, used |-> 0, ent |-> [i \in 0 .. ents - 1 |-> Free]]

(* The probe sequence both em_dict_lookup() and em_dict_resize() follow,    *)
(* for a hash h and each mask: Slot[mask][h][n] is the slot probed after    *)
(* n others.  Once perturb is 0 the recurrence visits every slot.           *)
Masks == {2 ^ n - 1 : n \in 0 .. MaxEnts} \cap 0 .. MaxEnts - 1
HashValues == UNION {{f[k] : k \in Key} : f \in Hashes}

Probes(mask) == 0 .. MaxShifts + mask + 1

Perturb(h, n) == IF n < MaxShifts THEN h \div 2 ^ (PERTURB_SHIFT * n) ELSE 0

(* The recurrence without its + 1, which does not visit every slot.         *)
BadProbeSequence(mask, h) ==
  LET at[n \in Probes(mask)] ==
        IF n = 0 THEN h % (mask + 1)
        ELSE (5 * at[n - 1] + Perturb(h, n - 1)) % (mask + 1)
  IN  [n \in Probes(mask) |-> at[n]]

ProbeSequence(mask, h) ==
  LET at[n \in Probes(mask)] ==
        IF n = 0 THEN h % (mask + 1)
        ELSE (5 * at[n - 1] + Perturb(h, n - 1) + 1) % (mask + 1)
  IN  [n \in Probes(mask) |-> at[n]]

Slot == [mask \in Masks |-> [h \in HashValues |-> ProbeSequence(mask, h)]]

Matches(e, k) == e.hash = hash[k] /\ e.key = k

(* The probes at which em_dict_lookup() of k would return.                *)
Stops(k) ==
  LET at == Slot[index.mask][hash[k]]
  IN  {n \in Probes(index.mask) :
         index.ent[at[n]] = Free \/ Matches(index.ent[at[n]], k)}

(* em_dict_lookup() of k: the slot it returns in *pi, and whether it        *)
(* returns 0, "found".                                                      *)
Lookup(k) == Slot[index.mask][hash[k]][Min(Stops(k))]
Found(k) == index.ent[Lookup(k)] # Free

(* em_dict_contains(), and em_dict_getitem() of a key that is present.    *)
Contains(k) == Stops(k) # {} /\ Found(k)
GetItem(k) == values.chunk[index.ent[Lookup(k)].value_pos]

(* em_dict_len().                                                         *)
Length == index.used

(* A faulty em_dict_resize() that probes slots one after the other, ...     *)
PlacedLinearly(t, e) ==
  LET at(n) == (e.hash + n) % (t.mask + 1)
      n == Min({n \in 0 .. t.mask : t.ent[at(n)] = Free})
  IN  [t EXCEPT !.ent[at(n)] = e, !.used = @ + 1]

(* ... and one that forgets to count the entries of the new index.          *)
PlacedUncounted(t, e) ==
  LET at == Slot[t.mask][e.hash]
      n == Min({n \in Probes(t.mask) : t.ent[at[n]] = Free})
  IN  [t EXCEPT !.ent[at[n]] = e]

(* em_dict_resize(): e into the first free slot of its probe sequence ... *)
Placed(t, e) ==
  LET at == Slot[t.mask][e.hash]
      n == Min({n \in Probes(t.mask) : t.ent[at[n]] = Free})
  IN  [t EXCEPT !.ent[at[n]] = e, !.used = @ + 1]

(* ... of an index twice as large, for every entry in slot order.         *)
Rehashed ==
  LET upto[i \in 0 .. index.mask + 1] ==
        IF i = 0 THEN EmptyIndex(2 * (index.mask + 1))
        ELSE IF index.ent[i - 1] = Free THEN upto[i - 1]
        ELSE Placed(upto[i - 1], index.ent[i - 1])
  IN  upto[index.mask + 1]

NeedsResize(used, mask) == used * 3 >= (mask + 1) * 2

-----------------------------------------------------------------------------
Idle == [step |-> "idle"]

(* em_dict_create().                                                      *)
Init ==
  /\ index = EmptyIndex(InitEnts)
  /\ fresh = NULL /\ named = "index"
  /\ values = EmptyFile
  /\ is_open = TRUE
  /\ hash \in Hashes
  /\ op = Idle
  /\ faults = 0

(* Bounds of the model: no statement begins that would have to pass them. *)
Chunks == {p \in Allocatable(values) : p <= MaxChunks}

WithinBounds(k, v) ==
  /\ NeedsResize(index.used + 1, index.mask) => 2 * (index.mask + 1) <= MaxEnts
  /\ v = NULL \/ Chunks # {} \/ Found(k)
  /\ Found(k) => BagCardinality(values.holes) < MaxChunks

(* em_dict_setitem() up to the marshalling of the value: look the key up    *)
(* and, if it is there, free its old value.  v = NULL is a `del'.           *)
Begin(k, v) ==
  /\ is_open /\ op = Idle /\ Stops(k) # {} /\ WithinBounds(k, v)
  /\ op' = [step |-> IF v = NULL THEN "entry" ELSE "value", key |-> k,
            value |-> v, slot |-> Lookup(k), found |-> Found(k), pos |-> 0]
  /\ values' = IF Found(k) THEN Freed(values, index.ent[Lookup(k)].value_pos)
               ELSE values
  /\ UNCHANGED <<index, fresh, named, is_open, hash, faults>>

(* mapped_file_marshal_object() of the value allocates and starts to write, *)
MarshalValue ==
  /\ op.step = "value" /\ op.value \notin BadValues
  /\ \E p \in Chunks :
       /\ values' = Marshalled(values, p, Torn)
       /\ op' = [op EXCEPT !.step = "torn", !.pos = p]
  /\ UNCHANGED <<index, fresh, named, is_open, hash, faults>>

(* ... or fails: em_dict_setitem() returns, the old value already freed.  *)
MarshalFails ==
  /\ op.step = "value" /\ op.value \in BadValues
  /\ op' = Idle
  /\ UNCHANGED <<index, fresh, named, values, is_open, hash, faults>>

WriteValue ==
  /\ op.step = "torn"
  /\ values' = Written(values, op.pos, op.value)
  /\ op' = [op EXCEPT !.step = "entry"]
  /\ UNCHANGED <<index, fresh, named, is_open, hash, faults>>

(* em_dict_set_entry(); a `del' writes a free entry.                      *)
WriteEntry ==
  /\ op.step = "entry"
  /\ index' = [index EXCEPT !.ent[op.slot] =
                 IF op.value = NULL THEN Free
                 ELSE [hash |-> hash[op.key], key |-> op.key, value_pos |-> op.pos]]
  /\ op' = [op EXCEPT !.step = "count"]
  /\ UNCHANGED <<fresh, named, values, is_open, hash, faults>>

(* A faulty em_dict_setitem() that uncounts a slot with every `del'.        *)
CountDown ==
  /\ op.step = "count"
  /\ index' = [index EXCEPT !.used = IF op.value = NULL THEN @ - 1
                                     ELSE IF op.found THEN @ ELSE @ + 1]
  /\ op' = IF NeedsResize(index'.used, index.mask)
           THEN [op EXCEPT !.step = "create"] ELSE Idle
  /\ UNCHANGED <<fresh, named, values, is_open, hash, faults>>

(* Count a slot that was free, also if the entry written to it is free.   *)
Count ==
  /\ op.step = "count"
  /\ index' = [index EXCEPT !.used = IF op.found THEN @ ELSE @ + 1]
  /\ op' = IF NeedsResize(index'.used, index.mask)
           THEN [op EXCEPT !.step = "create"] ELSE Idle
  /\ UNCHANGED <<fresh, named, values, is_open, hash, faults>>

(* em_dict_resize(): the new index, complete under the name "index.bin.1" ... *)
CreateFresh ==
  /\ op.step = "create"
  /\ fresh' = Rehashed
  /\ op' = [op EXCEPT !.step = "rename0"]
  /\ UNCHANGED <<index, named, values, is_open, hash, faults>>

(* ... the old one renamed to "index.bin.0" ...                           *)
RenameOld ==
  /\ op.step = "rename0"
  /\ named' = "none"
  /\ op' = [op EXCEPT !.step = "rename1"]
  /\ UNCHANGED <<index, fresh, values, is_open, hash, faults>>

(* ... the new one renamed to "index.bin" ...                             *)
RenameNew ==
  /\ op.step = "rename1"
  /\ named' = "fresh"
  /\ op' = [op EXCEPT !.step = "switch"]
  /\ UNCHANGED <<index, fresh, values, is_open, hash, faults>>

(* ... and used from now on, the old one unlinked.                        *)
Switch ==
  /\ op.step = "switch"
  /\ index' = fresh
  /\ fresh' = NULL /\ named' = "index"
  /\ op' = Idle
  /\ UNCHANGED <<values, is_open, hash, faults>>

(* The file cannot be created or renamed: the dictionary stays as large as  *)
(* it was, and keeps the entry.                                             *)
ResizeFails ==
  /\ op.step \in {"create", "rename0", "rename1"} /\ faults < MaxFaults
  /\ faults' = faults + 1
  /\ fresh' = NULL
  /\ op' = Idle
  /\ UNCHANGED <<index, named, values, is_open, hash>>

-----------------------------------------------------------------------------
(* em_dict_close().                                                       *)
Close ==
  /\ is_open /\ op = Idle
  /\ is_open' = FALSE
  /\ values' = Reopened(values)
  /\ UNCHANGED <<index, fresh, named, hash, op, faults>>

(* The process dies.  "index.bin" is whatever has that name.              *)
Crash ==
  /\ is_open /\ faults < MaxFaults
  /\ faults' = faults + 1
  /\ is_open' = FALSE
  /\ op' = Idle
  /\ values' = Reopened(values)
  /\ index' = IF named = "fresh" THEN fresh ELSE index
  /\ named' = IF named = "fresh" THEN "index" ELSE named
  /\ fresh' = NULL
  /\ UNCHANGED hash

(* em_dict_open_existing(), by a process with its own hash function.      *)
Open ==
  /\ ~is_open /\ named = "index"
  /\ is_open' = TRUE
  /\ hash' \in Hashes
  /\ UNCHANGED <<index, fresh, named, values, op, faults>>

SetItem ==
  \/ \E k \in Key, v \in Value : Begin(k, v)
  \/ \E k \in DelKeys : Begin(k, NULL)
  \/ MarshalValue \/ MarshalFails \/ WriteValue \/ WriteEntry \/ Count

Resize == CreateFresh \/ RenameOld \/ RenameNew \/ Switch \/ ResizeFails

Next == SetItem \/ Resize \/ Close \/ Crash \/ Open

Spec == Init /\ [][Next]_vars

-----------------------------------------------------------------------------
(****************************************************************************)
(* Properties.                                                              *)
(****************************************************************************)
Entry == [hash : Nat, key : Key, value_pos : 1 .. Len(values.chunk)]

IsIndex(t) ==
  /\ \E n \in 0 .. MaxEnts : t.mask + 1 = 2 ^ n
  /\ t.used \in Nat
  /\ DOMAIN t.ent = 0 .. t.mask
  /\ \A i \in DOMAIN t.ent : t.ent[i] = Free \/ t.ent[i] \in Entry

TypeOK ==
  /\ IsIndex(index)
  /\ fresh = NULL \/ IsIndex(fresh)
  /\ named \in {"index", "fresh", "none"}
  /\ values.chunk \in Seq(Value \cup {Torn})
  /\ is_open \in BOOLEAN /\ hash \in Hashes /\ faults \in 0 .. MaxFaults
  /\ op = Idle \/
     op \in [step : {"value", "torn", "entry", "count", "create",
                     "rename0", "rename1", "switch"},
             key : Key, value : Value \cup {NULL}, slot : 0 .. index.mask,
             found : BOOLEAN, pos : Nat]

(* A lookup of any key meets its entry or a free slot (em_dict.c:230),      *)
(* whatever was set, deleted, resized and recounted before.  A crash        *)
(* before `used' is counted and a resize that fails each cost a slot past   *)
(* two thirds of the table, so it takes more of them than a third of the    *)
(* slots before a lookup can go round for ever.                             *)
LookupTerminates ==
  is_open /\ op = Idle /\ 3 * faults <= index.mask + 1 =>
    \A k \in Key : Stops(k) # {}

(* `used', which len() returns, never falls behind the slots in use by more *)
(* than the crashes between writing an entry and counting it: the resize    *)
(* test at em_dict.c:472 then comes in time.  (As `faults' also counts      *)
(* resizes that failed, this grants a slot for each of those as well.)      *)
UsedCoversSlots ==
  /\ op = Idle => Cardinality(Occupied(index)) <= Length + faults
  /\ fresh # NULL => fresh.used = Cardinality(Occupied(fresh))

(* Every value in use has a chunk of its own: two entries never share one,  *)
(* an entry's chunk is not a hole (but for the one setitem() is replacing)  *)
(* and no chunk is a hole twice, so mapped_file_free_chunk() is only given  *)
(* chunks in use (em_dict.c:435).                                           *)
ChunksOwned ==
  LET held == Occupied(index) \ (IF op = Idle THEN {} ELSE {op.slot})
      pos(i) == index.ent[i].value_pos
  IN  /\ \A i, j \in Occupied(index) : pos(i) = pos(j) => i = j
      /\ \A i \in held : ~ BagIn(pos(i), values.holes)
      /\ \A p \in BagToSet(values.holes) : values.holes[p] = 1

(* What the two properties of run dict_map assume of the statements, as     *)
(* runs dict_chain and list_del show what happens otherwise: a `del' clears *)
(* no slot on the way to another key, ...                                   *)
ClearsNoWay ==
  op.step = "entry" /\ op.value = NULL =>
    \A i \in Occupied(index) \ {op.slot} :
      LET e == index.ent[i]
          at == Slot[index.mask][e.hash]
      IN  op.slot \notin {at[n] : n \in 0 .. Min({n \in Probes(index.mask) : at[n] = i})}

(* ... and an assignment whose value cannot be marshalled finds no old      *)
(* value to free.                                                           *)
FreesNoOldValue ==
  op.step = "value" /\ op.value \in BadValues => ~op.found

NothingToLose == ClearsNoWay /\ FreesNoOldValue

(* The table is the dict the user believes it to be, through collisions,    *)
(* growth, failed resizes, closing and opening, and crashes.                *)
Contents == [k \in {k \in Key : Contains(k)} |-> GetItem(k)]

Map == INSTANCE Dict WITH
         dict <- Contents,
         busy <- IF op = Idle THEN NULL ELSE [key |-> op.key, value |-> op.value],
         open <- is_open
ImplementsDict == Map!Spec

(* "If the key is found, 0 is returned" (em_dict.c:175): a key that has an  *)
(* entry in the table is found.                                             *)
EntriesFound ==
  is_open /\ op = Idle =>
    \A i \in Occupied(index) : Contains(index.ent[i].key)

(* "Move the new mapped file over the old one" (em_dict.c:336): whenever    *)
(* the process dies there is an "index.bin" for the next one to open.       *)
CanReopen == ~is_open => named = "index"
=============================================================================
