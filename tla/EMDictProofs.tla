---------------------------- MODULE EMDictProofs ----------------------------
(****************************************************************************)
(* Invariants of EMDict, for every dictionary, every hash function and any  *)
(* number of crashes and failed resizes.                                    *)
(****************************************************************************)
EXTENDS EMDictTableProofs, EMDictIter

-----------------------------------------------------------------------------
(* Types.                                                                   *)

ValueSteps == {"value", "torn", "entry"}
ResizeSteps == {"create", "rename0", "rename1", "switch"}
FreshSteps == {"rename0", "rename1", "switch"}
Steps == ValueSteps \cup {"count"} \cup ResizeSteps

Statement == [step : Steps, key : Key, value : Value \cup {NULL}, slot : Nat,
              found : BOOLEAN, pos : Nat]

OpType ==
  /\ op = Idle \/ (op \in Statement /\ op.slot \in 0 .. index.mask)
  /\ op.step \in {"value", "torn"} => op.value \in Value
  /\ op.step = "torn" \/ (op.step = "entry" /\ op.value # NULL) =>
       op.pos \in 1 .. Len(values.chunk)
  /\ op.step \in ValueSteps => (op.found <=> index.ent[op.slot] # Free)

(* The bound on the table's size that WithinBounds() has checked.           *)
RoomToGrow ==
  /\ op.step \in ValueSteps \cup {"count"} =>
       (NeedsResize(index.used + 1, index.mask) => 2 * (index.mask + 1) <= MaxEnts)
  /\ op.step \in ResizeSteps => 2 * (index.mask + 1) <= MaxEnts

(* Nothing changes the old index or "values.bin" while the new index is     *)
(* prepared and moved, so the new one is what the rehash made it.           *)
FreshType ==
  /\ op.step \in FreshSteps => HalfRehashed(index.mask + 1, fresh, Len(values.chunk))
  /\ op.step \notin FreshSteps => fresh = NULL
  /\ named = "fresh" <=> op.step = "switch"

Types ==
  /\ IsFile(values, Value \cup {Torn})
  /\ IsTable(index, Len(values.chunk))
  /\ named \in {"index", "fresh", "none"}
  /\ is_open \in BOOLEAN /\ hash \in Hashes /\ faults \in 0 .. MaxFaults
  /\ ~is_open => op = Idle
  /\ OpType /\ RoomToGrow /\ FreshType

(* At most c of the slots in use are not counted, and only a crash or a     *)
(* failed resize takes the table past the point where it has to grow.       *)
Counting ==
  \E c \in 0 .. faults :
    /\ Cardinality(Occupied(index)) <=
         index.used + c
         + (IF op.step = "count" /\ ~op.found /\ op.value # NULL THEN 1 ELSE 0)
    /\ 3 * index.used <
         2 * (index.mask + 1) + 3 * (faults - c)
         + (IF op.step \in ResizeSteps THEN 3 ELSE 0)

LEMMA NotIdle ==
  ASSUME NEW o
  PROVE  o.step # "idle" => o # Idle
BY DEF Idle

LEMMA StepOp ==
  ASSUME NEW o \in Statement, NEW s \in Steps, NEW u, u = [o EXCEPT !.step = s]
  PROVE  /\ u \in Statement /\ u.step = s /\ u.key = o.key /\ u.value = o.value
         /\ u.slot = o.slot /\ u.found = o.found /\ u.pos = o.pos
BY DEF Statement

LEMMA KeyHash ==
  ASSUME NEW h \in Hashes, NEW k \in Key
  PROVE  h[k] \in HashValues
BY DEF HashValues

(* A table of a file remains one when the file grows.                       *)
LEMMA TableGrows ==
  ASSUME NEW t, NEW n \in Nat, NEW m \in Nat, IsTable(t, n), n <= m
  PROVE  IsTable(t, m)
<1>1. Entries(n) \subseteq Entries(m)
  <2>1. 1 .. n \subseteq 1 .. m
    OBVIOUS
  <2> QED
    BY <2>1 DEF Entries
<1> QED
  BY <1>1 DEF IsTable, Tables

LEMMA FreshStays ==
  ASSUME NEW n, HalfRehashed(index.mask + 1, fresh, n), UNCHANGED <<index, fresh>>
  PROVE  HalfRehashed(index.mask + 1, fresh, n)'
BY DEF HalfRehashed, Carried

(* What em_dict_lookup() returns when it returns.                           *)
LEMMA LookupFacts ==
  ASSUME Types, NEW k \in Key, Stops(k) # {}
  PROVE  /\ Lookup(k) \in 0 .. index.mask
         /\ Min(Stops(k)) \in Probes(index.mask)
         /\ \A n \in Stops(k) : Min(Stops(k)) <= n
         /\ Found(k) => /\ index.ent[Lookup(k)] \in Entries(Len(values.chunk))
                        /\ Matches(index.ent[Lookup(k)], k)
<1>1. index.mask \in Masks /\ index.mask \in Nat /\ hash[k] \in HashValues
      /\ index.ent \in [0 .. index.mask -> Entries(Len(values.chunk)) \cup {Free}]
  BY TableFacts, KeyHash DEF Types
<1>2. Stops(k) \subseteq Probes(index.mask) /\ Probes(index.mask) \subseteq Nat
  BY <1>1, DictAssumption DEF Stops, Probes
<1>3. Min(Stops(k)) \in Stops(k) /\ \A n \in Stops(k) : Min(Stops(k)) <= n
  BY <1>2, MinFacts
<1>4. Lookup(k) \in 0 .. index.mask
  BY <1>1, <1>2, <1>3, ProbeRecurrence DEF Lookup
<1>5. Found(k) => Matches(index.ent[Lookup(k)], k)
  BY <1>3 DEF Stops, Found, Lookup
<1> QED
  BY <1>1, <1>2, <1>3, <1>4, <1>5 DEF Found

LEMMA InitTypes ==
  Init => Types
<1> SUFFICES ASSUME Init PROVE Types
  OBVIOUS
<1>1. InitEnts - 1 \in Masks /\ InitEnts \in Nat \ {0}
  BY InitMask
<1>2. IsFile(values, Value \cup {Torn})
  BY EmptyIsFile DEF Init
<1>3. index = [mask |-> InitEnts - 1, used |-> 0, ent |-> [i \in 0 .. InitEnts - 1 |-> Free]]
  BY DEF Init, EmptyIndex
<1>4. IsTable(index, Len(values.chunk))
  BY <1>1, <1>3 DEF IsTable, Tables
<1>5. OpType /\ RoomToGrow /\ FreshType
  BY DEF Init, Idle, OpType, RoomToGrow, FreshType, ValueSteps, ResizeSteps, FreshSteps
<1>6. 0 \in 0 .. MaxFaults
  BY DictAssumption
<1> QED
  BY <1>2, <1>4, <1>5, <1>6 DEF Init, Types

LEMMA BeginTypes ==
  ASSUME Types, NEW k \in Key, NEW v \in Value \cup {NULL}, Begin(k, v)
  PROVE  Types'
<1>1. /\ is_open /\ op = Idle /\ Stops(k) # {} /\ WithinBounds(k, v)
      /\ UNCHANGED <<index, fresh, named, is_open, hash, faults>>
      /\ op' = [step |-> IF v = NULL THEN "entry" ELSE "value", key |-> k,
                value |-> v, slot |-> Lookup(k), found |-> Found(k), pos |-> 0]
      /\ values' = IF Found(k) THEN Freed(values, index.ent[Lookup(k)].value_pos) ELSE values
  BY DEF Begin
<1>2. Lookup(k) \in 0 .. index.mask /\ index.mask \in Nat
      /\ (Found(k) => index.ent[Lookup(k)] \in Entries(Len(values.chunk)))
  BY <1>1, LookupFacts, TableFacts DEF Types
<1>3. IsFile(values', Value \cup {Torn}) /\ values'.chunk = values.chunk
  <2>1. CASE Found(k)
    <3>1. index.ent[Lookup(k)].value_pos \in 1 .. Len(values.chunk)
      BY <1>2, <2>1 DEF Entries
    <3> QED
      BY <1>1, <2>1, <3>1, FreedIsFile DEF Types
  <2>2. CASE ~Found(k)
    BY <1>1, <2>2 DEF Types
  <2> QED
    BY <2>1, <2>2
<1>4. PICK i \in 0 .. index.mask, f \in BOOLEAN :
        /\ i = Lookup(k) /\ (f <=> Found(k))
        /\ op' = [step |-> IF v = NULL THEN "entry" ELSE "value", key |-> k,
                  value |-> v, slot |-> i, found |-> f, pos |-> 0]
  BY <1>1, <1>2 DEF Found
<1>5. op' \in Statement /\ op'.step \in {"entry", "value"} /\ op'.slot = i /\ (op'.found <=> f)
      /\ op'.value = v /\ op'.step = IF v = NULL THEN "entry" ELSE "value"
  BY <1>2, <1>4 DEF Statement, Steps, ValueSteps
<1>6. OpType'
  BY <1>1, <1>4, <1>5 DEF OpType, Found, ValueSteps
<1>7. RoomToGrow'
  BY <1>1, <1>5 DEF RoomToGrow, WithinBounds, NeedsResize, ValueSteps, ResizeSteps
<1>8. FreshType'
  BY <1>1, <1>5 DEF Types, FreshType, FreshSteps, Idle
<1> QED
  BY <1>1, <1>3, <1>6, <1>7, <1>8 DEF Types

LEMMA MarshalValueTypes ==
  ASSUME Types, MarshalValue
  PROVE  Types'
<1>1. PICK p \in Chunks :
        /\ op.step = "value"
        /\ values' = Marshalled(values, p, Torn)
        /\ op' = [op EXCEPT !.step = "torn", !.pos = p]
        /\ UNCHANGED <<index, fresh, named, is_open, hash, faults>>
  BY DEF MarshalValue
<1>2. /\ IsFile(values', Value \cup {Torn})
      /\ p \in 1 .. Len(values'.chunk) /\ Len(values.chunk) <= Len(values'.chunk)
      /\ Len(values.chunk) \in Nat /\ Len(values'.chunk) \in Nat
  <2>1. p \in Allocatable(values)
    BY DEF Chunks
  <2>2. Torn \in Value \cup {Torn}
    OBVIOUS
  <2>3. IsFile(values', Value \cup {Torn}) /\ p \in 1 .. Len(values'.chunk)
        /\ Len(values.chunk) <= Len(values'.chunk)
    BY <1>1, <2>1, <2>2, MarshalledIsFile DEF Types
  <2> QED
    BY <2>3 DEF Types, IsFile
<1>3. op \in Statement /\ op.slot \in 0 .. index.mask /\ op.value \in Value /\ op # Idle
  BY <1>1, NotIdle DEF Types, OpType
<1>4. /\ op' \in Statement /\ op'.step = "torn" /\ op'.slot = op.slot /\ op'.found = op.found
      /\ op'.value = op.value /\ op'.pos = p
  <2>1. op = [step |-> op.step, key |-> op.key, value |-> op.value, slot |-> op.slot,
              found |-> op.found, pos |-> op.pos]
        /\ op.key \in Key /\ op.found \in BOOLEAN /\ op.slot \in Nat
    BY <1>3 DEF Statement
  <2>2. op' = [step |-> "torn", key |-> op.key, value |-> op.value, slot |-> op.slot,
               found |-> op.found, pos |-> p]
    BY <1>1, <2>1
  <2>3. p \in Nat /\ "torn" \in Steps
    BY <1>2 DEF Steps, ValueSteps
  <2> QED
    BY <1>3, <2>1, <2>2, <2>3 DEF Statement
<1>5. OpType'
  BY <1>1, <1>2, <1>3, <1>4 DEF Types, OpType, ValueSteps
<1>6. RoomToGrow' /\ FreshType'
  BY <1>1, <1>4 DEF Types, RoomToGrow, FreshType, ValueSteps, ResizeSteps, FreshSteps
<1>7. IsTable(index', Len(values'.chunk))
  BY <1>1, <1>2, TableGrows DEF Types
<1>8. is_open'
  BY <1>1, <1>3 DEF Types
<1> QED
  BY <1>1, <1>2, <1>5, <1>6, <1>7, <1>8 DEF Types

LEMMA MarshalFailsTypes ==
  ASSUME Types, MarshalFails
  PROVE  Types'
BY DEF Types, MarshalFails, OpType, RoomToGrow, FreshType, ValueSteps, ResizeSteps, FreshSteps, Idle

LEMMA WriteValueTypes ==
  ASSUME Types, WriteValue
  PROVE  Types'
<1>1. /\ op.step = "torn"
      /\ values' = Written(values, op.pos, op.value)
      /\ op' = [op EXCEPT !.step = "entry"]
      /\ UNCHANGED <<index, fresh, named, is_open, hash, faults>>
  BY DEF WriteValue
<1>2. /\ op \in Statement /\ op.slot \in 0 .. index.mask /\ op.value \in Value /\ op # Idle
      /\ op.pos \in 1 .. Len(values.chunk)
  BY <1>1, NotIdle DEF Types, OpType
<1>3. IsFile(values', Value \cup {Torn}) /\ Len(values'.chunk) = Len(values.chunk)
  BY <1>1, <1>2, WrittenIsFile DEF Types
<1>4. /\ op' \in Statement /\ op'.step = "entry" /\ op'.slot = op.slot /\ op'.found = op.found
      /\ op'.value = op.value /\ op'.pos = op.pos
  BY <1>1, <1>2, StepOp DEF Steps, ValueSteps
<1>5. OpType'
  BY <1>1, <1>2, <1>3, <1>4 DEF Types, OpType, ValueSteps
<1>6. RoomToGrow' /\ FreshType'
  BY <1>1, <1>4 DEF Types, RoomToGrow, FreshType, ValueSteps, ResizeSteps, FreshSteps
<1>7. is_open'
  BY <1>1, <1>2 DEF Types
<1> QED
  BY <1>1, <1>3, <1>5, <1>6, <1>7 DEF Types

(* em_dict_set_entry(): what is written to the slot, ...                    *)
LEMMA WriteEntryFacts ==
  ASSUME Types, WriteEntry
  PROVE  \E e \in Entries(Len(values.chunk)) \cup {Free} :
           /\ e = IF op.value = NULL THEN Free
                  ELSE [hash |-> hash[op.key], key |-> op.key, value_pos |-> op.pos]
           /\ e = Free <=> op.value = NULL
           /\ op.slot \in 0 .. index.mask
           /\ index' = [mask |-> index.mask, used |-> index.used,
                        ent |-> [index.ent EXCEPT ![op.slot] = e]]
           /\ IsTable(index', Len(values.chunk))
<1>1. op.step = "entry" /\ op \in Statement /\ op.slot \in 0 .. index.mask
  BY NotIdle DEF Types, OpType, WriteEntry
<1>2. PICK e : e = IF op.value = NULL THEN Free
                   ELSE [hash |-> hash[op.key], key |-> op.key, value_pos |-> op.pos]
  OBVIOUS
<1>3. /\ op.value # NULL => e \in Entries(Len(values.chunk))
      /\ op.value = NULL => e = Free
  <2>1. op.key \in Key /\ hash[op.key] \in HashValues
    BY <1>1, KeyHash DEF Statement, Types
  <2>2. op.value # NULL => op.pos \in 1 .. Len(values.chunk)
    BY <1>1 DEF Types, OpType
  <2> QED
    BY <1>2, <2>1, <2>2 DEF Entries
<1>4. e = Free <=> op.value = NULL
  BY <1>3, FreeIsNoEntry
<1>5. /\ index = [mask |-> index.mask, used |-> index.used, ent |-> index.ent]
      /\ index.ent \in [0 .. index.mask -> Entries(Len(values.chunk)) \cup {Free}]
      /\ index.mask \in Masks /\ index.used \in Nat
  BY TableFacts DEF Types
<1>6. index' = [index EXCEPT !.ent[op.slot] = e]
  BY <1>2 DEF WriteEntry
<1>7. index' = [mask |-> index.mask, used |-> index.used, ent |-> [index.ent EXCEPT ![op.slot] = e]]
  BY <1>5, <1>6
<1>8. [index.ent EXCEPT ![op.slot] = e] \in [0 .. index.mask -> Entries(Len(values.chunk)) \cup {Free}]
  BY <1>1, <1>3, <1>5
<1>9. IsTable(index', Len(values.chunk))
  BY <1>5, <1>7, <1>8 DEF IsTable, Tables
<1> QED
  BY <1>1, <1>2, <1>3, <1>4, <1>7, <1>9

(* ... and which slots are in use then.                                     *)
LEMMA WriteEntryOccupies ==
  ASSUME Types, WriteEntry
  PROVE  Occupied(index') = IF op.value = NULL THEN Occupied(index) \ {op.slot}
                            ELSE Occupied(index) \cup {op.slot}
<1>1. PICK e \in Entries(Len(values.chunk)) \cup {Free} :
           /\ e = Free <=> op.value = NULL
           /\ op.slot \in 0 .. index.mask
           /\ index' = [mask |-> index.mask, used |-> index.used,
                        ent |-> [index.ent EXCEPT ![op.slot] = e]]
  BY WriteEntryFacts
<1>2. index'.mask = index.mask /\ index'.ent = [index.ent EXCEPT ![op.slot] = e]
  BY <1>1
<1>3. index.ent \in [0 .. index.mask -> Entries(Len(values.chunk)) \cup {Free}]
  BY TableFacts DEF Types
<1>4. index'.ent[op.slot] = e /\ \A i \in 0 .. index.mask : i # op.slot => index'.ent[i] = index.ent[i]
  BY <1>1, <1>2, <1>3
<1> QED
  BY <1>1, <1>2, <1>4 DEF Occupied

LEMMA WriteEntryTypes ==
  ASSUME Types, WriteEntry
  PROVE  Types'
<1>1. /\ op.step = "entry" /\ op' = [op EXCEPT !.step = "count"]
      /\ UNCHANGED <<fresh, named, values, is_open, hash, faults>>
  BY DEF WriteEntry
<1>2. op \in Statement /\ op.slot \in 0 .. index.mask /\ op # Idle
  BY <1>1, NotIdle DEF Types, OpType
<1>3. IsTable(index', Len(values.chunk)) /\ index'.mask = index.mask /\ index'.used = index.used
  BY WriteEntryFacts
<1>4. op' \in Statement /\ op'.step = "count" /\ op'.slot = op.slot
  BY <1>1, <1>2, StepOp DEF Steps
<1>5. OpType'
  BY <1>1, <1>2, <1>3, <1>4 DEF OpType, ValueSteps
<1>6. RoomToGrow' /\ FreshType'
  BY <1>1, <1>3, <1>4 DEF Types, RoomToGrow, FreshType, ValueSteps, ResizeSteps, FreshSteps, NeedsResize
<1>7. is_open'
  BY <1>1, <1>2 DEF Types
<1> QED
  BY <1>1, <1>3, <1>5, <1>6, <1>7 DEF Types

LEMMA CountFacts ==
  ASSUME Types, Count
  PROVE  /\ op \in Statement /\ op.slot \in 0 .. index.mask /\ op # Idle
         /\ index' = [mask |-> index.mask, ent |-> index.ent,
                      used |-> IF op.found THEN index.used ELSE index.used + 1]
         /\ IsTable(index', Len(values.chunk))
         /\ \/ op' = Idle /\ ~NeedsResize(index'.used, index.mask)
            \/ op' = [op EXCEPT !.step = "create"] /\ NeedsResize(index'.used, index.mask)
<1>1. op.step = "count" /\ index' = [index EXCEPT !.used = IF op.found THEN @ ELSE @ + 1]
  BY DEF Count
<1>2. op \in Statement /\ op.slot \in 0 .. index.mask /\ op # Idle
  BY <1>1, NotIdle DEF Types, OpType
<1>3. /\ index = [mask |-> index.mask, used |-> index.used, ent |-> index.ent]
      /\ index.ent \in [0 .. index.mask -> Entries(Len(values.chunk)) \cup {Free}]
      /\ index.mask \in Masks /\ index.used \in Nat
  BY TableFacts DEF Types
<1>4. index' = [mask |-> index.mask, ent |-> index.ent,
                used |-> IF op.found THEN index.used ELSE index.used + 1]
  BY <1>1, <1>3
<1>5. IsTable(index', Len(values.chunk))
  BY <1>3, <1>4 DEF IsTable, Tables
<1>6. \/ op' = Idle /\ ~NeedsResize(index'.used, index.mask)
      \/ op' = [op EXCEPT !.step = "create"] /\ NeedsResize(index'.used, index.mask)
  BY DEF Count
<1> QED
  BY <1>2, <1>4, <1>5, <1>6

LEMMA CountTypes ==
  ASSUME Types, Count
  PROVE  Types'
<1>1. op.step = "count" /\ UNCHANGED <<fresh, named, values, is_open, hash, faults>>
  BY DEF Count
<1>2. op \in Statement /\ op.slot \in 0 .. index.mask /\ op # Idle
      /\ IsTable(index', Len(values.chunk))
  BY CountFacts
<1>3. /\ index' = [mask |-> index.mask, ent |-> index.ent,
                   used |-> IF op.found THEN index.used ELSE index.used + 1]
      /\ \/ op' = Idle /\ ~NeedsResize(index'.used, index.mask)
         \/ op' = [op EXCEPT !.step = "create"] /\ NeedsResize(index'.used, index.mask)
  BY CountFacts
<1>4. index'.mask = index.mask /\ index'.used \in {index.used, index.used + 1}
  BY <1>3
<1>5. index.used \in Nat /\ index.mask \in Nat /\ is_open
  BY <1>2, TableFacts DEF Types
<1>6. CASE op' = Idle
  <2>1. OpType' /\ RoomToGrow'
    BY <1>6 DEF OpType, RoomToGrow, Idle, ValueSteps, ResizeSteps
  <2>2. FreshType'
    BY <1>1, <1>6 DEF Types, FreshType, Idle, FreshSteps
  <2> QED
    BY <1>1, <1>2, <1>5, <2>1, <2>2 DEF Types
<1>7. CASE op' = [op EXCEPT !.step = "create"] /\ NeedsResize(index'.used, index.mask)
  <2>1. op' \in Statement /\ op'.step = "create" /\ op'.slot = op.slot
    BY <1>2, <1>7, StepOp DEF Steps, ResizeSteps
  <2>2. NeedsResize(index.used + 1, index.mask)
    BY <1>4, <1>5, <1>7 DEF NeedsResize
  <2>3. RoomToGrow'
    BY <1>1, <1>4, <2>1, <2>2 DEF Types, RoomToGrow, ValueSteps, ResizeSteps
  <2>4. OpType'
    BY <1>2, <1>4, <2>1 DEF OpType, ValueSteps
  <2>5. FreshType'
    BY <1>1, <2>1 DEF Types, FreshType, FreshSteps
  <2> QED
    BY <1>1, <1>2, <1>5, <2>3, <2>4, <2>5 DEF Types
<1> QED
  BY <1>3, <1>6, <1>7

LEMMA CreateFreshTypes ==
  ASSUME Types, CreateFresh
  PROVE  Types'
<1>1. /\ op.step = "create" /\ fresh' = Rehashed /\ op' = [op EXCEPT !.step = "rename0"]
      /\ UNCHANGED <<index, named, values, is_open, hash, faults>>
  BY DEF CreateFresh
<1>2. op \in Statement /\ op.slot \in 0 .. index.mask /\ op # Idle
      /\ 2 * (index.mask + 1) <= MaxEnts
  BY <1>1, NotIdle DEF Types, OpType, RoomToGrow, ResizeSteps
<1>3. op' \in Statement /\ op'.step = "rename0" /\ op'.slot = op.slot
  BY <1>1, <1>2, StepOp DEF Steps, ResizeSteps
<1>4. HalfRehashed(index.mask + 1, Rehashed, Len(values.chunk))
  BY <1>2, RehashCarriesAll DEF Types
<1>5. HalfRehashed(index.mask + 1, fresh, Len(values.chunk))'
  BY <1>1, <1>4 DEF HalfRehashed, Carried
<1>6. OpType' /\ RoomToGrow'
  BY <1>1, <1>2, <1>3 DEF OpType, RoomToGrow, ValueSteps, ResizeSteps
<1>7. FreshType'
  BY <1>1, <1>3, <1>5 DEF Types, FreshType, FreshSteps
<1> QED
  BY <1>1, <1>2, <1>6, <1>7 DEF Types

LEMMA RenameTypes ==
  ASSUME Types, RenameOld \/ RenameNew
  PROVE  Types'
<1>1. PICK s \in {"rename1", "switch"} :
        /\ op.step \in {"rename0", "rename1"} /\ op' = [op EXCEPT !.step = s]
        /\ named' = IF s = "switch" THEN "fresh" ELSE "none"
        /\ UNCHANGED <<index, fresh, values, is_open, hash, faults>>
  BY DEF RenameOld, RenameNew
<1>2. op \in Statement /\ op.slot \in 0 .. index.mask /\ op # Idle
      /\ 2 * (index.mask + 1) <= MaxEnts
  BY <1>1, NotIdle DEF Types, OpType, RoomToGrow, ResizeSteps
<1>3. op' \in Statement /\ op'.step = s /\ op'.slot = op.slot
  <2>1. s \in Steps
    BY DEF Steps, ResizeSteps
  <2> QED
    BY <1>1, <1>2, <2>1, StepOp
<1>4. HalfRehashed(index.mask + 1, fresh, Len(values.chunk))
  BY <1>1 DEF Types, FreshType, FreshSteps
<1>5. HalfRehashed(index.mask + 1, fresh, Len(values.chunk))'
  BY <1>1, <1>4 DEF HalfRehashed, Carried
<1>6. OpType' /\ RoomToGrow'
  BY <1>1, <1>2, <1>3 DEF OpType, RoomToGrow, ValueSteps, ResizeSteps
<1>7. FreshType'
  BY <1>1, <1>3, <1>5 DEF FreshType, FreshSteps
<1> QED
  BY <1>1, <1>2, <1>6, <1>7 DEF Types

LEMMA SwitchTypes ==
  ASSUME Types, Switch
  PROVE  Types'
<1>1. /\ op.step = "switch" /\ index' = fresh /\ fresh' = NULL /\ named' = "index" /\ op' = Idle
      /\ UNCHANGED <<values, is_open, hash, faults>>
  BY DEF Switch
<1>2. IsTable(fresh, Len(values.chunk))
  BY <1>1 DEF Types, FreshType, FreshSteps, HalfRehashed
<1>3. OpType' /\ RoomToGrow' /\ FreshType'
  BY <1>1 DEF OpType, RoomToGrow, FreshType, Idle, ValueSteps, ResizeSteps, FreshSteps
<1> QED
  BY <1>1, <1>2, <1>3 DEF Types

LEMMA ResizeFailsTypes ==
  ASSUME Types, ResizeFails
  PROVE  Types'
<1>1. /\ op.step \in {"create", "rename0", "rename1"} /\ faults < MaxFaults /\ faults' = faults + 1
      /\ fresh' = NULL /\ op' = Idle
      /\ UNCHANGED <<index, named, values, is_open, hash>>
  BY DEF ResizeFails
<1>2. OpType' /\ RoomToGrow' /\ FreshType'
  BY <1>1 DEF Types, OpType, RoomToGrow, FreshType, Idle, ValueSteps, ResizeSteps, FreshSteps
<1>3. faults' \in 0 .. MaxFaults
  BY <1>1, DictAssumption DEF Types
<1> QED
  BY <1>1, <1>2, <1>3 DEF Types

LEMMA CloseTypes ==
  ASSUME Types, Close
  PROVE  Types'
<1>1. /\ op = Idle /\ is_open' = FALSE /\ values' = Reopened(values)
      /\ UNCHANGED <<index, fresh, named, hash, op, faults>>
  BY DEF Close
<1>2. IsFile(values', Value \cup {Torn}) /\ values'.chunk = values.chunk
  BY <1>1, ReopenedIsFile DEF Types
<1>3. OpType' /\ RoomToGrow' /\ FreshType'
  BY <1>1 DEF Types, OpType, RoomToGrow, FreshType, Idle, ValueSteps, ResizeSteps, FreshSteps
<1> QED
  BY <1>1, <1>2, <1>3 DEF Types

LEMMA CrashTypes ==
  ASSUME Types, Crash
  PROVE  Types'
<1>1. /\ is_open /\ faults < MaxFaults /\ faults' = faults + 1
      /\ is_open' = FALSE /\ op' = Idle /\ values' = Reopened(values)
      /\ index' = IF named = "fresh" THEN fresh ELSE index
      /\ named' = IF named = "fresh" THEN "index" ELSE named
      /\ fresh' = NULL /\ UNCHANGED hash
  BY DEF Crash
<1>2. IsFile(values', Value \cup {Torn}) /\ values'.chunk = values.chunk
  BY <1>1, ReopenedIsFile DEF Types
<1>3. named = "fresh" => IsTable(fresh, Len(values.chunk))
  BY DEF Types, FreshType, FreshSteps, HalfRehashed
<1>4. OpType' /\ RoomToGrow' /\ FreshType'
  BY <1>1 DEF OpType, RoomToGrow, FreshType, Idle, ValueSteps, ResizeSteps, FreshSteps
<1>5. faults' \in 0 .. MaxFaults /\ is_open' \in BOOLEAN /\ named' \in {"index", "fresh", "none"}
      /\ hash' \in Hashes
  <2>1. faults' \in 0 .. MaxFaults
    BY <1>1, DictAssumption DEF Types
  <2> QED
    BY <1>1, <2>1 DEF Types
<1>6. IsTable(index', Len(values'.chunk))
  BY <1>1, <1>2, <1>3 DEF Types
<1> QED
  BY <1>1, <1>2, <1>4, <1>5, <1>6 DEF Types

LEMMA OpenTypes ==
  ASSUME Types, Open
  PROVE  Types'
BY DEF Types, Open, OpType, RoomToGrow, FreshType, Idle, ValueSteps, ResizeSteps, FreshSteps

LEMMA StutterTypes ==
  ASSUME Types, UNCHANGED vars
  PROVE  Types'
<1>1. op.step \in FreshSteps => HalfRehashed(index.mask + 1, fresh, Len(values.chunk))'
  BY FreshStays DEF vars, Types, FreshType, HalfRehashed, Carried
<1> QED
  BY <1>1 DEF vars, Types, OpType, RoomToGrow, FreshType

LEMMA TypesStep ==
  ASSUME Types, [Next]_vars
  PROVE  Types'
<1>1. ASSUME NEW k \in Key, NEW v \in Value, Begin(k, v) PROVE Types'
  BY <1>1, BeginTypes
<1>2. ASSUME NEW k \in DelKeys, Begin(k, NULL) PROVE Types'
  <2>1. k \in Key
    BY DictAssumption
  <2> QED
    BY <1>2, <2>1, BeginTypes
<1>3. CASE MarshalValue
  BY <1>3, MarshalValueTypes
<1>4. CASE MarshalFails
  BY <1>4, MarshalFailsTypes
<1>5. CASE WriteValue
  BY <1>5, WriteValueTypes
<1>6. CASE WriteEntry
  BY <1>6, WriteEntryTypes
<1>7. CASE Count
  BY <1>7, CountTypes
<1>8. CASE CreateFresh
  BY <1>8, CreateFreshTypes
<1>9. CASE RenameOld \/ RenameNew
  BY <1>9, RenameTypes
<1>10. CASE Switch
  BY <1>10, SwitchTypes
<1>11. CASE ResizeFails
  BY <1>11, ResizeFailsTypes
<1>12. CASE Close
  BY <1>12, CloseTypes
<1>13. CASE Crash
  BY <1>13, CrashTypes
<1>14. CASE Open
  BY <1>14, OpenTypes
<1>15. CASE UNCHANGED vars
  BY <1>15, StutterTypes
<1> QED
  BY <1>1, <1>2, <1>3, <1>4, <1>5, <1>6, <1>7, <1>8, <1>9, <1>10, <1>11, <1>12, <1>13, <1>14,
     <1>15 DEF Next, SetItem, Resize

LEMMA TypesInvariant == Spec => []Types
<1>1. Types /\ [Next]_vars => Types'
  BY TypesStep
<1> QED
  BY <1>1, InitTypes, PTL DEF Spec

LEMMA TableIsIndex ==
  ASSUME NEW t, IsTable(t, Len(values.chunk))
  PROVE  IsIndex(t)
<1>1. /\ t.mask \in Masks /\ t.used \in Nat
      /\ t.ent \in [0 .. t.mask -> Entries(Len(values.chunk)) \cup {Free}]
  BY TableFacts
<1>2. Entries(Len(values.chunk)) \subseteq Entry
  BY HashFacts DEF Entries, Entry
<1>3. \E n \in 0 .. MaxEnts : t.mask + 1 = 2 ^ n
  BY <1>1, MaskFacts
<1> QED
  BY <1>1, <1>2, <1>3 DEF IsIndex

(* The tables and the statement under way have the shapes em_dict.c gives   *)
(* them: a mask one below a power of two, entries that point to chunks of   *)
(* "values.bin", and a slot of the table to write to.                       *)
THEOREM TypeCorrect == Spec => []TypeOK
<1>1. Types => TypeOK
  <2> SUFFICES ASSUME Types PROVE TypeOK
    OBVIOUS
  <2>1. IsIndex(index)
    BY TableIsIndex DEF Types
  <2>2. fresh = NULL \/ IsIndex(fresh)
    BY TableIsIndex DEF Types, FreshType, HalfRehashed
  <2>3. values.chunk \in Seq(Value \cup {Torn})
    BY DEF Types, IsFile
  <2>4. op = Idle \/
        op \in [step : {"value", "torn", "entry", "count", "create",
                        "rename0", "rename1", "switch"},
                key : Key, value : Value \cup {NULL}, slot : 0 .. index.mask,
                found : BOOLEAN, pos : Nat]
    BY DEF Types, OpType, Statement, Steps, ValueSteps, ResizeSteps
  <2> QED
    BY <2>1, <2>2, <2>3, <2>4 DEF Types, TypeOK
<1> QED
  BY <1>1, TypesInvariant, PTL

-----------------------------------------------------------------------------
(* Counting.                                                                *)

LEMMA IndexCount ==
  ASSUME Types
  PROVE  /\ index.mask \in Nat /\ index.used \in Nat /\ faults \in Nat
         /\ IsFiniteSet(Occupied(index)) /\ Cardinality(Occupied(index)) \in Nat
BY OccupiedIsFinite, TableFacts DEF Types

(* Steps that leave the table alone, before it is written or while a larger *)
(* one is prepared.                                                         *)
LEMMA CountingStays ==
  ASSUME Types, Counting, UNCHANGED <<index, faults>>,
         op.step # "count", op'.step # "count", op.step \in ResizeSteps <=> op'.step \in ResizeSteps
  PROVE  Counting'
BY DEF Counting

LEMMA WriteEntryCounting ==
  ASSUME Types, Counting, WriteEntry
  PROVE  Counting'
<1>1. op.step = "entry" /\ op' = [op EXCEPT !.step = "count"] /\ faults' = faults
  BY DEF WriteEntry
<1>2. op \in Statement /\ op # Idle /\ (op.found <=> index.ent[op.slot] # Free)
      /\ op.slot \in 0 .. index.mask
  BY <1>1, NotIdle DEF Types, OpType, ValueSteps
<1>3. op'.step = "count" /\ op'.found = op.found /\ op'.value = op.value
  BY <1>1, <1>2, StepOp DEF Steps
<1>4. index'.mask = index.mask /\ index'.used = index.used
  BY WriteEntryFacts
<1>5. Cardinality(Occupied(index')) <=
        Cardinality(Occupied(index)) + (IF ~op.found /\ op.value # NULL THEN 1 ELSE 0)
  <2>1. CASE op.value = NULL
    <3>1. Occupied(index') = Occupied(index) \ {op.slot}
      BY <2>1, WriteEntryOccupies
    <3>2. Cardinality(Occupied(index) \ {op.slot}) <= Cardinality(Occupied(index))
      BY IndexCount, FS_RemoveElement
    <3> QED
      BY <2>1, <3>1, <3>2, IndexCount
  <2>2. CASE op.value # NULL
    <3>1. Occupied(index') = Occupied(index) \cup {op.slot}
      BY <2>2, WriteEntryOccupies
    <3>2. op.found <=> op.slot \in Occupied(index)
      BY <1>2 DEF Occupied
    <3>3. Cardinality(Occupied(index) \cup {op.slot}) =
            IF op.slot \in Occupied(index) THEN Cardinality(Occupied(index))
            ELSE Cardinality(Occupied(index)) + 1
      BY IndexCount, FS_AddElement
    <3> QED
      BY <2>2, <3>1, <3>2, <3>3, IndexCount
  <2> QED
    BY <2>1, <2>2
<1>6. PICK n \in Nat, m \in Nat, x \in {0, 1} :
        /\ n = Cardinality(Occupied(index)) /\ m = Cardinality(Occupied(index'))
        /\ x = (IF ~op.found /\ op.value # NULL THEN 1 ELSE 0)
        /\ m <= n + x
  <2>1. Cardinality(Occupied(index')) \in Nat
    BY WriteEntryFacts, OccupiedIsFinite
  <2> QED
    BY <1>5, <2>1, IndexCount
<1>7. PICK c \in 0 .. faults :
        /\ n <= index.used + c
        /\ 3 * index.used < 2 * (index.mask + 1) + 3 * (faults - c)
  BY <1>1, <1>6, IndexCount DEF Counting, ResizeSteps
<1>8. Cardinality(Occupied(index'))
        <= index'.used + c
           + (IF op'.step = "count" /\ ~op'.found /\ op'.value # NULL THEN 1 ELSE 0)
  BY <1>3, <1>4, <1>6, <1>7, IndexCount
<1>9. 3 * index'.used < 2 * (index'.mask + 1) + 3 * (faults' - c)
                        + (IF op'.step \in ResizeSteps THEN 3 ELSE 0)
  BY <1>1, <1>3, <1>4, <1>7, IndexCount DEF ResizeSteps
<1> QED
  BY <1>1, <1>8, <1>9 DEF Counting

LEMMA CountCounting ==
  ASSUME Types, Counting, Count
  PROVE  Counting'
<1>1. op.step = "count" /\ faults' = faults /\ op \in Statement
  BY CountFacts DEF Count
<1>2. /\ index' = [mask |-> index.mask, ent |-> index.ent,
                   used |-> IF op.found THEN index.used ELSE index.used + 1]
      /\ \/ op' = Idle /\ ~NeedsResize(index'.used, index.mask)
         \/ op' = [op EXCEPT !.step = "create"] /\ NeedsResize(index'.used, index.mask)
  BY CountFacts
<1>3. /\ index'.mask = index.mask /\ index'.ent = index.ent
      /\ index'.used = IF op.found THEN index.used ELSE index.used + 1
  BY <1>2
<1>4. Occupied(index') = Occupied(index)
  BY <1>3 DEF Occupied
<1>5. PICK c \in 0 .. faults :
        /\ Cardinality(Occupied(index)) <=
             index.used + c + (IF ~op.found /\ op.value # NULL THEN 1 ELSE 0)
        /\ 3 * index.used < 2 * (index.mask + 1) + 3 * (faults - c)
  BY <1>1, IndexCount DEF Counting, ResizeSteps
<1>6. Cardinality(Occupied(index')) <= index'.used + c
  BY <1>3, <1>4, <1>5, IndexCount
<1>7. CASE op' = Idle /\ ~NeedsResize(index'.used, index.mask)
  <2>1. 3 * index'.used < 2 * (index'.mask + 1) + 3 * (faults - c)
    BY <1>3, <1>7, IndexCount DEF NeedsResize
  <2>2. op'.step = "idle"
    BY <1>7 DEF Idle
  <2> QED
    BY <1>1, <1>3, <1>6, <2>1, <2>2, IndexCount DEF Counting, ResizeSteps
<1>8. CASE op' = [op EXCEPT !.step = "create"]
  <2>1. op'.step = "create"
    BY <1>1, <1>8, StepOp DEF Steps, ResizeSteps
  <2>2. 3 * index'.used < 2 * (index'.mask + 1) + 3 * (faults - c) + 3
    BY <1>3, <1>5, IndexCount
  <2> QED
    BY <1>1, <1>3, <1>6, <2>1, <2>2, IndexCount DEF Counting, ResizeSteps
<1> QED
  BY <1>2, <1>7, <1>8

(* The new index is counted exactly, and less than half full.               *)
LEMMA FreshCounting ==
  ASSUME Types, op.step = "switch", index' = fresh, op'.step = "idle", faults' \in Nat
  PROVE  Counting'
<1>1. /\ IsTable(fresh, Len(values.chunk)) /\ fresh.mask = 2 * index.mask + 1
      /\ fresh.used = Cardinality(Occupied(fresh)) /\ fresh.used <= index.mask + 1
  BY DEF Types, FreshType, FreshSteps, HalfRehashed
<1>2. fresh.used \in Nat
  BY <1>1, TableFacts
<1>3. Cardinality(Occupied(index')) <= index'.used + 0
  BY <1>1, <1>2
<1>4. 3 * index'.used < 2 * (index'.mask + 1) + 3 * (faults' - 0)
  BY <1>1, <1>2, IndexCount
<1>5. 0 \in 0 .. faults'
  OBVIOUS
<1> QED
  BY <1>1, <1>2, <1>3, <1>4, <1>5, IndexCount DEF Counting, ResizeSteps

LEMMA ResizeFailsCounting ==
  ASSUME Types, Counting, ResizeFails
  PROVE  Counting'
<1>1. op.step \in ResizeSteps /\ op.step # "count" /\ faults' = faults + 1 /\ index' = index
      /\ op'.step = "idle"
  BY DEF ResizeFails, ResizeSteps, Idle
<1>2. PICK c \in 0 .. faults :
        /\ Cardinality(Occupied(index)) <= index.used + c
        /\ 3 * index.used < 2 * (index.mask + 1) + 3 * (faults - c) + 3
  BY <1>1, IndexCount DEF Counting
<1>3. c \in 0 .. faults' /\ 3 * index.used < 2 * (index.mask + 1) + 3 * (faults' - c)
  BY <1>1, <1>2, IndexCount
<1> QED
  BY <1>1, <1>2, <1>3, IndexCount DEF Counting, ResizeSteps

LEMMA CrashCounting ==
  ASSUME Types, Counting, Crash
  PROVE  Counting'
<1>1. /\ faults' = faults + 1 /\ op'.step = "idle"
      /\ index' = IF named = "fresh" THEN fresh ELSE index
  BY DEF Crash, Idle
<1>2. CASE named = "fresh"
  <2>1. op.step = "switch" /\ faults' \in Nat
    BY <1>1, <1>2, IndexCount DEF Types, FreshType
  <2> QED
    BY <1>1, <1>2, <2>1, FreshCounting
<1>3. CASE named # "fresh"
  <2>1. PICK c \in 0 .. faults, x \in {0, 1}, z \in {0, 3} :
          /\ Cardinality(Occupied(index)) <= index.used + c + x
          /\ 3 * index.used < 2 * (index.mask + 1) + 3 * (faults - c) + z
          /\ x = 1 => z = 0
    <3>1. PICK c \in 0 .. faults :
            /\ Cardinality(Occupied(index)) <=
                 index.used + c
                 + (IF op.step = "count" /\ ~op.found /\ op.value # NULL THEN 1 ELSE 0)
            /\ 3 * index.used <
                 2 * (index.mask + 1) + 3 * (faults - c)
                 + (IF op.step \in ResizeSteps THEN 3 ELSE 0)
      BY DEF Counting
    <3>2. CASE op.step \in ResizeSteps
      <4>1. op.step # "count"
        BY <3>2 DEF ResizeSteps
      <4>2. /\ Cardinality(Occupied(index)) <= index.used + c + 0
            /\ 3 * index.used < 2 * (index.mask + 1) + 3 * (faults - c) + 3
        BY <3>1, <3>2, <4>1
      <4> QED
        BY <4>2
    <3>3. CASE op.step \notin ResizeSteps
      <4>1. 3 * index.used < 2 * (index.mask + 1) + 3 * (faults - c) + 0
        BY <3>1, <3>3
      <4>2. \E x \in {0, 1} : Cardinality(Occupied(index)) <= index.used + c + x
        BY <3>1
      <4> QED
        BY <4>1, <4>2
    <3> QED
      BY <3>2, <3>3
  <2>2. PICK d \in 0 .. faults' : d = c + x
    BY <1>1, IndexCount
  <2>3. /\ Cardinality(Occupied(index)) <= index.used + d
        /\ 3 * index.used < 2 * (index.mask + 1) + 3 * (faults' - d)
    BY <1>1, <2>1, <2>2, IndexCount
  <2> QED
    BY <1>1, <1>3, <2>3, IndexCount DEF Counting, ResizeSteps
<1> QED
  BY <1>2, <1>3

CountInv == Types /\ Counting

LEMMA CountInvariant == Spec => []CountInv
<1>1. Init => CountInv
  <2> SUFFICES ASSUME Init PROVE CountInv
    OBVIOUS
  <2>1. Types
    BY InitTypes
  <2>2. InitEnts \in Nat \ {0}
    BY InitMask
  <2>3. index = [mask |-> InitEnts - 1, used |-> 0, ent |-> [i \in 0 .. InitEnts - 1 |-> Free]]
        /\ faults = 0 /\ op.step = "idle"
    BY DEF Init, EmptyIndex, Idle
  <2>4. Occupied(index) = {}
    BY <2>3 DEF Occupied
  <2>5. Cardinality(Occupied(index)) = 0
    BY <2>4, FS_EmptySet
  <2>6. Cardinality(Occupied(index)) <= index.used + 0
        /\ 3 * index.used < 2 * (index.mask + 1) + 3 * (faults - 0)
    BY <2>2, <2>3, <2>5
  <2>7. 0 \in 0 .. faults
    BY <2>3
  <2> QED
    BY <2>1, <2>3, <2>6, <2>7, IndexCount DEF CountInv, Counting, ResizeSteps
<1>2. CountInv /\ [Next]_vars => CountInv'
  <2>1. Types /\ [Next]_vars => Types'
    BY TypesStep
  <2> SUFFICES ASSUME Types, Counting, [Next]_vars PROVE Counting'
    BY <2>1 DEF CountInv
  <2>2. ASSUME NEW k \in Key, NEW v \in Value \cup {NULL}, Begin(k, v) PROVE Counting'
    <3>1. op'.step \in {"entry", "value"}
      BY <2>2 DEF Begin
    <3> QED
      BY <2>2, <3>1, CountingStays DEF Begin, Idle, ResizeSteps
  <2>3. CASE MarshalValue
    <3>1. op.step = "value" /\ op \in Statement /\ UNCHANGED <<index, faults>>
          /\ \E p : op' = [op EXCEPT !.step = "torn", !.pos = p]
      BY <2>3, NotIdle DEF MarshalValue, Types, OpType
    <3>2. op'.step = "torn"
      BY <3>1 DEF Statement
    <3> QED
      BY <3>1, <3>2, CountingStays DEF ResizeSteps
  <2>4. CASE MarshalFails
    BY <2>4, CountingStays DEF MarshalFails, Idle, ResizeSteps
  <2>5. CASE WriteValue
    <3>1. op.step = "torn" /\ op \in Statement /\ op' = [op EXCEPT !.step = "entry"]
          /\ UNCHANGED <<index, faults>>
      BY <2>5, NotIdle DEF WriteValue, Types, OpType
    <3>2. op'.step = "entry"
      BY <3>1, StepOp DEF Steps, ValueSteps
    <3> QED
      BY <3>1, <3>2, CountingStays DEF ResizeSteps
  <2>6. CASE WriteEntry
    BY <2>6, WriteEntryCounting
  <2>7. CASE Count
    BY <2>7, CountCounting
  <2>8. CASE CreateFresh \/ RenameOld \/ RenameNew
    <3>1. op.step \in ResizeSteps /\ op \in Statement /\ UNCHANGED <<index, faults>>
          /\ \E s \in {"rename0", "rename1", "switch"} : op' = [op EXCEPT !.step = s]
      BY <2>8, NotIdle DEF CreateFresh, RenameOld, RenameNew, Types, OpType, ResizeSteps
    <3>2. op'.step \in {"rename0", "rename1", "switch"}
      BY <3>1 DEF Statement
    <3> QED
      BY <3>1, <3>2, CountingStays DEF ResizeSteps
  <2>9. CASE Switch
    BY <2>9, FreshCounting, IndexCount DEF Switch, Idle
  <2>10. CASE ResizeFails
    BY <2>10, ResizeFailsCounting
  <2>11. CASE Close \/ Open
    BY <2>11, CountingStays DEF Close, Open, Idle, Types, ResizeSteps
  <2>12. CASE Crash
    BY <2>12, CrashCounting
  <2>13. CASE UNCHANGED vars
    BY <2>13 DEF vars, Counting
  <2>14. \A k \in DelKeys : k \in Key
    BY DictAssumption
  <2> QED
    BY <2>2, <2>3, <2>4, <2>5, <2>6, <2>7, <2>8, <2>9, <2>10, <2>11, <2>12, <2>13, <2>14
       DEF Next, SetItem, Resize
<1> QED
  BY <1>1, <1>2, PTL DEF Spec

(* The count in the header falls behind the slots in use by no more than    *)
(* the crashes between writing an entry and counting it and the resizes     *)
(* that failed (em_dict.c:472).                                             *)
THEOREM UsedCoversSlotsCorrect == Spec => []UsedCoversSlots
<1>1. CountInv => UsedCoversSlots
  <2> SUFFICES ASSUME Types, Counting PROVE UsedCoversSlots
    BY DEF CountInv
  <2>1. ASSUME op = Idle PROVE Cardinality(Occupied(index)) <= Length + faults
    <3>1. op.step = "idle"
      BY <2>1 DEF Idle
    <3> QED
      BY <3>1, IndexCount DEF Counting, Length, ResizeSteps
  <2>2. ASSUME fresh # NULL PROVE fresh.used = Cardinality(Occupied(fresh))
    BY <2>2 DEF Types, FreshType, HalfRehashed
  <2> QED
    BY <2>1, <2>2 DEF UsedCoversSlots
<1> QED
  BY <1>1, CountInvariant, PTL

(* A lookup between two statements terminates (em_dict.c:230), unless the   *)
(* crashes and failed resizes outnumber a third of the slots.               *)
THEOREM LookupTerminatesCorrect == Spec => []LookupTerminates
<1>1. CountInv => LookupTerminates
  <2> SUFFICES ASSUME Types, Counting, op = Idle, 3 * faults <= index.mask + 1, NEW k \in Key
               PROVE  Stops(k) # {}
    BY DEF CountInv, LookupTerminates
  <2>1. op.step = "idle"
    BY DEF Idle
  <2>2. Cardinality(Occupied(index)) < index.mask + 1
    BY <2>1, IndexCount DEF Counting, ResizeSteps
  <2>3. hash[k] \in HashValues
    BY KeyHash DEF Types
  <2>4. \E p \in Probes(index.mask) : index.ent[Slot[index.mask][hash[k]][p]] = Free
    BY <2>2, <2>3, FreeSlotMet DEF Types
  <2> QED
    BY <2>4 DEF Stops
<1> QED
  BY <1>1, CountInvariant, PTL

-----------------------------------------------------------------------------
(* Chunks.                                                                  *)

PosAt(i) == index.ent[i].value_pos

(* Between Begin() and WriteEntry() the slot under way may hold a chunk     *)
(* that is free already, and the chunk of the new value has no slot yet.    *)
Owned ==
  /\ \A i, j \in Occupied(index) : PosAt(i) = PosAt(j) => i = j
  /\ \A i \in Occupied(index) :
       op.step \notin ValueSteps \/ i # op.slot => PosAt(i) \notin Hole(values)
  /\ HolesOnce(values)
  /\ op.step = "torn" \/ (op.step = "entry" /\ op.value # NULL) =>
       /\ op.pos \notin Hole(values)
       /\ \A i \in Occupied(index) : i # op.slot => PosAt(i) # op.pos

LEMMA PosFacts ==
  ASSUME Types, NEW i \in Occupied(index)
  PROVE  PosAt(i) \in 1 .. Len(values.chunk) /\ Len(values.chunk) \in Nat
<1>1. index.ent[i] \in Entries(Len(values.chunk))
  BY TableFacts DEF Types
<1> QED
  BY <1>1 DEF PosAt, Entries, Types, IsFile

(* Steps that change neither the entries nor the holes.                     *)
LEMMA OwnedStays ==
  ASSUME Owned, index'.mask = index.mask, index'.ent = index.ent,
         Hole(values') = Hole(values), HolesOnce(values'),
         op.step \notin ValueSteps, op'.step \notin ValueSteps
  PROVE  Owned'
<1>1. Occupied(index') = Occupied(index)
  BY DEF Occupied
<1> QED
  BY <1>1 DEF Owned, PosAt, ValueSteps

LEMMA BeginOwned ==
  ASSUME Types, Owned, NEW k \in Key, NEW v \in Value \cup {NULL}, Begin(k, v)
  PROVE  Owned'
<1>1. /\ op = Idle /\ Stops(k) # {} /\ index' = index
      /\ op' = [step |-> IF v = NULL THEN "entry" ELSE "value", key |-> k,
                value |-> v, slot |-> Lookup(k), found |-> Found(k), pos |-> 0]
      /\ values' = IF Found(k) THEN Freed(values, index.ent[Lookup(k)].value_pos) ELSE values
  BY DEF Begin
<1>2. op'.step = (IF v = NULL THEN "entry" ELSE "value") /\ op'.value = v /\ op'.slot = Lookup(k)
  BY <1>1
<1>3. op'.step \in ValueSteps /\ op'.step # "torn" /\ ~(op'.step = "entry" /\ op'.value # NULL)
      /\ op.step \notin ValueSteps
  BY <1>1, <1>2 DEF ValueSteps, Idle
<1>4. Found(k) => Lookup(k) \in Occupied(index)
  BY <1>1, LookupFacts DEF Found, Occupied
<1>5. /\ Hole(values') \subseteq Hole(values) \cup {PosAt(Lookup(k))}
      /\ ~Found(k) => Hole(values') = Hole(values)
      /\ HolesOnce(values')
  <2>1. CASE Found(k)
    <3>1. PosAt(Lookup(k)) \in 1 .. Len(values.chunk) /\ PosAt(Lookup(k)) \notin Hole(values)
      BY <1>3, <1>4, <2>1, PosFacts DEF Owned
    <3>2. values' = Freed(values, PosAt(Lookup(k)))
      BY <1>1, <2>1 DEF PosAt
    <3>3. IsFile(values, Value \cup {Torn}) /\ HolesOnce(values)
      BY DEF Types, Owned
    <3> QED
      BY <2>1, <3>1, <3>2, <3>3, FreedIsFile
  <2>2. CASE ~Found(k)
    BY <1>1, <2>2 DEF Owned
  <2> QED
    BY <2>1, <2>2
<1>6. \A i \in Occupied(index) : i # Lookup(k) => PosAt(i) \notin Hole(values')
  BY <1>3, <1>4, <1>5 DEF Owned
<1>7. \A i, j \in Occupied(index) : PosAt(i) = PosAt(j) => i = j
  BY DEF Owned
<1>8. PosAt(0)' = PosAt(0)
  BY <1>1 DEF PosAt
<1> QED
  BY <1>1, <1>2, <1>3, <1>5, <1>6, <1>7 DEF Owned, PosAt

LEMMA MarshalValueOwned ==
  ASSUME Types, Owned, MarshalValue
  PROVE  Owned'
<1>1. PICK p \in Chunks :
        /\ op.step = "value"
        /\ values' = Marshalled(values, p, Torn)
        /\ op' = [op EXCEPT !.step = "torn", !.pos = p]
        /\ index' = index
  BY DEF MarshalValue
<1>2. p \in Hole(values) \cup {Len(values.chunk) + 1} /\ p \in Allocatable(values)
  BY DEF Chunks, Allocatable, BagToSet, Hole
<1>3. IsFile(values, Value \cup {Torn}) /\ HolesOnce(values) /\ Torn \in Value \cup {Torn}
  BY DEF Types, Owned
<1>4. HolesOnce(values') /\ Hole(values') = Hole(values) \ {p}
  BY <1>1, <1>2, <1>3, MarshalledIsFile
<1>5. op \in Statement
  BY <1>1, NotIdle DEF Types, OpType
<1>6. op'.step = "torn" /\ op'.slot = op.slot /\ op'.pos = p
  BY <1>1, <1>5 DEF Statement
<1>7. \A i \in Occupied(index) : i # op.slot => PosAt(i) \notin Hole(values) /\ PosAt(i) # p
  BY <1>1, <1>2, PosFacts DEF Owned, ValueSteps
<1> QED
  BY <1>1, <1>4, <1>6, <1>7 DEF Owned, PosAt, ValueSteps

LEMMA WriteValueOwned ==
  ASSUME Types, Owned, WriteValue
  PROVE  Owned'
<1>1. /\ op.step = "torn" /\ values' = Written(values, op.pos, op.value)
      /\ op' = [op EXCEPT !.step = "entry"] /\ index' = index
  BY DEF WriteValue
<1>2. op \in Statement /\ op.value \in Value /\ op.pos \in 1 .. Len(values.chunk)
  BY <1>1, NotIdle DEF Types, OpType
<1>3. values'.holes = values.holes
  BY <1>1, <1>2, WrittenIsFile DEF Types
<1>4. op'.step = "entry" /\ op'.slot = op.slot /\ op'.pos = op.pos
  BY <1>1, <1>2, StepOp DEF Steps, ValueSteps
<1> QED
  BY <1>1, <1>3, <1>4 DEF Owned, PosAt, ValueSteps, Hole, HolesOnce

LEMMA WriteEntryOwned ==
  ASSUME Types, Owned, WriteEntry
  PROVE  Owned'
<1>1. op.step = "entry" /\ op' = [op EXCEPT !.step = "count"] /\ values' = values /\ op \in Statement
  BY NotIdle DEF WriteEntry, Types, OpType
<1>2. op'.step = "count"
  BY <1>1, StepOp DEF Steps
<1>3. PICK e :
        /\ e = IF op.value = NULL THEN Free
               ELSE [hash |-> hash[op.key], key |-> op.key, value_pos |-> op.pos]
        /\ op.slot \in 0 .. index.mask
        /\ index' = [mask |-> index.mask, used |-> index.used,
                     ent |-> [index.ent EXCEPT ![op.slot] = e]]
  BY WriteEntryFacts
<1>4. index'.ent = [index.ent EXCEPT ![op.slot] = e] /\ DOMAIN index.ent = 0 .. index.mask
  BY <1>3, TableFacts DEF Types
<1>5. \A i \in Occupied(index) : i # op.slot => PosAt(i)' = PosAt(i)
  BY <1>4 DEF PosAt, Occupied
<1>6. CASE op.value = NULL
  <2>1. Occupied(index') = Occupied(index) \ {op.slot}
    BY <1>6, WriteEntryOccupies
  <2> QED
    BY <1>1, <1>2, <1>5, <2>1 DEF Owned, ValueSteps
<1>7. CASE op.value # NULL
  <2>1. Occupied(index') = Occupied(index) \cup {op.slot}
    BY <1>7, WriteEntryOccupies
  <2>2. PosAt(op.slot)' = op.pos
    <3>1. e.value_pos = op.pos
      BY <1>3, <1>7
    <3>2. index'.ent[op.slot] = e
      BY <1>3, <1>4
    <3>3. op'.slot = op.slot
      BY <1>1, StepOp DEF Steps
    <3> QED
      BY <3>1, <3>2, <3>3 DEF PosAt
  <2> QED
    BY <1>1, <1>2, <1>5, <1>7, <2>1, <2>2 DEF Owned, ValueSteps
<1> QED
  BY <1>6, <1>7

LEMMA CountOwned ==
  ASSUME Types, Owned, Count
  PROVE  Owned'
<1>1. op.step = "count" /\ values' = values /\ op \in Statement
  BY CountFacts DEF Count
<1>2. index' = [mask |-> index.mask, ent |-> index.ent,
                used |-> IF op.found THEN index.used ELSE index.used + 1]
  BY CountFacts
<1>3. index'.mask = index.mask /\ index'.ent = index.ent
  BY <1>2
<1>4. op'.step \in {"idle", "create"}
  <2>1. CASE op' = Idle
    BY <2>1 DEF Idle
  <2>2. CASE op' = [op EXCEPT !.step = "create"]
    BY <1>1, <2>2, StepOp DEF Steps, ResizeSteps
  <2> QED
    BY <2>1, <2>2, CountFacts
<1>5. HolesOnce(values') /\ Hole(values') = Hole(values)
  BY <1>1 DEF Owned
<1> QED
  BY <1>1, <1>3, <1>4, <1>5, OwnedStays DEF ValueSteps

(* The new index holds the entries of the old one, each once.               *)
LEMMA FreshOwned ==
  ASSUME Types, Owned, op.step = "switch", index' = fresh, op'.step \notin ValueSteps,
         Hole(values') \subseteq Hole(values), HolesOnce(values')
  PROVE  Owned'
<1>1. Carried(index.mask + 1, fresh) /\ (NoTwins(index) => NoTwins(fresh))
  BY DEF Types, FreshType, FreshSteps, HalfRehashed
<1>2. NoTwins(fresh)
  BY <1>1 DEF Owned, NoTwins, PosAt
<1>3. \A j \in Occupied(fresh) : \E l \in Occupied(index) : fresh.ent[j] = index.ent[l]
  BY <1>1 DEF Carried
<1>4. ASSUME NEW i \in Occupied(fresh)
      PROVE  fresh.ent[i].value_pos \notin Hole(values)
  <2>1. PICK l \in Occupied(index) : fresh.ent[i] = index.ent[l]
    BY <1>3
  <2>2. PosAt(l) \notin Hole(values)
    BY DEF Owned, ValueSteps
  <2> QED
    BY <2>1, <2>2 DEF PosAt
<1>5. ASSUME NEW i \in Occupied(fresh), NEW j \in Occupied(fresh),
             fresh.ent[i].value_pos = fresh.ent[j].value_pos
      PROVE  i = j
  <2>1. PICK l \in Occupied(index) : fresh.ent[i] = index.ent[l]
    BY <1>3
  <2>2. PICK m \in Occupied(index) : fresh.ent[j] = index.ent[m]
    BY <1>3
  <2>3. l = m
    BY <1>5, <2>1, <2>2 DEF Owned, PosAt
  <2> QED
    BY <1>2, <2>1, <2>2, <2>3 DEF NoTwins
<1>6. op'.step # "torn" /\ op'.step # "entry"
  BY DEF ValueSteps
<1> QED
  BY <1>4, <1>5, <1>6 DEF Owned, PosAt

(* The premise about values that cannot be marshalled matters here: without *)
(* it the failed statement's slot would keep the chunk it freed.            *)
LEMMA MarshalFailsOwned ==
  ASSUME Types, Owned, FreesNoOldValue, MarshalFails
  PROVE  Owned'
<1>1. op.step = "value" /\ op.value \in BadValues /\ UNCHANGED <<index, values>>
      /\ op'.step = "idle"
  BY DEF MarshalFails, Idle
<1>2. ~op.found
  BY <1>1 DEF FreesNoOldValue
<1>3. op.slot \notin Occupied(index)
  BY <1>1, <1>2 DEF Types, OpType, ValueSteps, Occupied
<1> QED
  BY <1>1, <1>3 DEF Owned, PosAt, ValueSteps

LEMMA StopOwned ==
  ASSUME Types, Owned, Close \/ Crash
  PROVE  Owned'
<1>1. values' = Reopened(values) /\ op'.step = "idle"
      /\ index' \in {index, IF named = "fresh" THEN fresh ELSE index}
  BY DEF Close, Crash, Idle
<1>2. Hole(values') = {} /\ HolesOnce(values')
  BY <1>1, ReopenedIsFile DEF Types
<1>3. CASE index' = index
  BY <1>1, <1>2, <1>3 DEF Owned, PosAt, ValueSteps
<1>4. CASE index' = fresh /\ named = "fresh"
  <2>1. op.step = "switch"
    BY <1>4 DEF Types, FreshType
  <2> QED
    BY <1>1, <1>2, <1>4, <2>1, FreshOwned DEF ValueSteps
<1> QED
  BY <1>1, <1>3, <1>4

LEMMA OwnedStep ==
  ASSUME Types, Owned, FreesNoOldValue, [Next]_vars
  PROVE  Owned'
<1>1. ASSUME NEW k \in Key, NEW v \in Value \cup {NULL}, Begin(k, v) PROVE Owned'
  BY <1>1, BeginOwned
<1>2. CASE MarshalValue
  BY <1>2, MarshalValueOwned
<1>3. CASE MarshalFails
  BY <1>3, MarshalFailsOwned
<1>4. CASE WriteValue
  BY <1>4, WriteValueOwned
<1>5. CASE WriteEntry
  BY <1>5, WriteEntryOwned
<1>6. CASE Count
  BY <1>6, CountOwned
<1>7. CASE CreateFresh \/ RenameOld \/ RenameNew
  <2>1. op.step \in ResizeSteps /\ op \in Statement /\ UNCHANGED <<index, values>>
        /\ \E s \in {"rename0", "rename1", "switch"} : op' = [op EXCEPT !.step = s]
    BY <1>7, NotIdle DEF CreateFresh, RenameOld, RenameNew, Types, OpType, ResizeSteps
  <2>2. op'.step \in {"rename0", "rename1", "switch"}
    BY <2>1 DEF Statement
  <2>3. HolesOnce(values') /\ Hole(values') = Hole(values)
    BY <2>1 DEF Owned
  <2> QED
    BY <2>1, <2>2, <2>3, OwnedStays DEF ValueSteps, ResizeSteps
<1>8. CASE Switch
  <2>1. op.step = "switch" /\ index' = fresh /\ values' = values /\ op'.step = "idle"
    BY <1>8 DEF Switch, Idle
  <2>2. HolesOnce(values') /\ Hole(values') = Hole(values)
    BY <2>1 DEF Owned
  <2> QED
    BY <2>1, <2>2, FreshOwned DEF ValueSteps
<1>9. CASE ResizeFails
  <2>1. op.step \in ResizeSteps /\ UNCHANGED <<index, values>> /\ op'.step = "idle"
    BY <1>9 DEF ResizeFails, ResizeSteps, Idle
  <2>2. HolesOnce(values') /\ Hole(values') = Hole(values)
    BY <2>1 DEF Owned
  <2> QED
    BY <2>1, <2>2, OwnedStays DEF ValueSteps, ResizeSteps
<1>10. CASE Close \/ Crash
  BY <1>10, StopOwned
<1>11. CASE Open
  BY <1>11 DEF Open, Owned, PosAt
<1>12. CASE UNCHANGED vars
  BY <1>12 DEF vars, Owned, PosAt
<1>13. \A k \in DelKeys : k \in Key
  BY DictAssumption
<1> QED
  BY <1>1, <1>2, <1>3, <1>4, <1>5, <1>6, <1>7, <1>8, <1>9, <1>10, <1>11, <1>12, <1>13
     DEF Next, SetItem, Resize

LEMMA InitOwned ==
  Init => Owned
<1> SUFFICES ASSUME Init PROVE Owned
  OBVIOUS
<1>1. index = [mask |-> InitEnts - 1, used |-> 0, ent |-> [i \in 0 .. InitEnts - 1 |-> Free]]
      /\ op.step = "idle"
  BY DEF Init, EmptyIndex, Idle
<1>2. Occupied(index) = {}
  BY <1>1 DEF Occupied
<1>3. HolesOnce(values)
  BY EmptyIsFile DEF Init
<1> QED
  BY <1>1, <1>2, <1>3 DEF Owned, ValueSteps

LEMMA OwnedInvariant == Spec /\ []FreesNoOldValue => [](Types /\ Owned)
<1>1. Types /\ Owned /\ FreesNoOldValue /\ [Next]_vars => (Types /\ Owned)'
  BY TypesStep, OwnedStep
<1> QED
  BY <1>1, InitTypes, InitOwned, PTL DEF Spec

(* No two entries share a chunk, no chunk in use is a hole and no chunk is  *)
(* a hole twice (em_dict.c:435), as long as no statement fails after it     *)
(* freed the old value.                                                     *)
THEOREM ChunksOwnedCorrect == Spec /\ []FreesNoOldValue => []ChunksOwned
<1>1. Types /\ Owned => ChunksOwned
  <2> SUFFICES ASSUME Types, Owned PROVE ChunksOwned
    OBVIOUS
  <2>1. \A i, j \in Occupied(index) : index.ent[i].value_pos = index.ent[j].value_pos => i = j
    BY DEF Owned, PosAt
  <2>2. \A i \in Occupied(index) \ (IF op = Idle THEN {} ELSE {op.slot}) :
          ~ BagIn(index.ent[i].value_pos, values.holes)
    BY DEF Owned, PosAt, Hole, BagIn, BagToSet, ValueSteps, Idle
  <2>3. \A p \in BagToSet(values.holes) : values.holes[p] = 1
    BY DEF Owned, HolesOnce, Hole, BagToSet
  <2> QED
    BY <2>1, <2>2, <2>3 DEF ChunksOwned
<1> QED
  BY <1>1, OwnedInvariant, PTL

-----------------------------------------------------------------------------
(* The table as a dict.                                                     *)

(* Every entry is where a lookup of its key finds it, and the only one of   *)
(* its key.                                                                 *)
Filed(t, h) ==
  /\ AllReachable(t)
  /\ \A i \in Occupied(t) : t.ent[i].hash = h[t.ent[i].key]
  /\ \A i, j \in Occupied(t) : t.ent[i].key = t.ent[j].key => i = j

HasKey(t, k) == \E i \in Occupied(t) : t.ent[i].key = k

(* No free slot comes before op.slot when op.key is looked up.              *)
OnTheWay ==
  \E p \in Probes(index.mask) :
    /\ Slot[index.mask][hash[op.key]][p] = op.slot
    /\ \A m \in 0 .. p - 1 : index.ent[Slot[index.mask][hash[op.key]][m]] # Free

(* What the statement under way has found out, written and done.            *)
Underway ==
  /\ op.step \in ValueSteps =>
       /\ OnTheWay
       /\ op.found => index.ent[op.slot].key = op.key
       /\ ~op.found => ~HasKey(index, op.key)
  /\ op.step = "entry" /\ op.value # NULL => values.chunk[op.pos] = op.value
  /\ op.step \in {"count"} \cup ResizeSteps =>
       IF op.value = NULL THEN ~HasKey(index, op.key)
       ELSE \E i \in Occupied(index) :
              index.ent[i].key = op.key /\ values.chunk[PosAt(i)] = op.value

Filing == Filed(index, hash) /\ Underway

LEMMA LookupFinds ==
  ASSUME Types, Filed(index, hash), NEW i \in Occupied(index)
  PROVE  /\ index.ent[i].key \in Key
         /\ Contains(index.ent[i].key) /\ Lookup(index.ent[i].key) = i
<1> DEFINE e == index.ent[i]
           k == index.ent[i].key
           at == Slot[index.mask][hash[k]]
<1>1. e \in Entries(Len(values.chunk)) /\ index.mask \in Masks /\ index.mask \in Nat
      /\ index.ent \in [0 .. index.mask -> Entries(Len(values.chunk)) \cup {Free}]
  BY TableFacts DEF Types
<1>2. k \in Key /\ e.hash = hash[k] /\ e # Free
  BY <1>1 DEF Filed, Entries, Occupied
<1>3. PICK n \in Probes(index.mask) :
        /\ at[n] = i
        /\ \A m \in 0 .. n - 1 : index.ent[at[m]] # Free
  BY <1>2 DEF Filed, AllReachable, Reachable
<1>4. n \in Stops(k)
  BY <1>2, <1>3 DEF Stops, Matches
<1>5. PICK m \in Stops(k) : m = Min(Stops(k)) /\ m <= n /\ m \in Probes(index.mask)
  <2>1. Stops(k) \subseteq Nat /\ Stops(k) \subseteq Probes(index.mask)
    BY <1>1, DictAssumption DEF Stops, Probes
  <2> QED
    BY <1>4, <2>1, MinFacts
<1>6. Lookup(k) = at[m]
  BY <1>5 DEF Lookup
<1>7. at[m] = i
  <2>1. CASE m = n
    BY <1>3, <2>1
  <2>2. CASE m # n
    <3>1. m \in 0 .. n - 1 /\ n \in Nat
      BY <1>1, <1>3, <1>5, <2>2, DictAssumption DEF Probes
    <3>2. index.ent[at[m]] # Free
      BY <1>3, <3>1
    <3>3. index.ent[at[m]].key = k
      BY <1>5, <3>2 DEF Stops, Matches
    <3>4. at[m] \in 0 .. index.mask
      <4>1. hash[k] \in HashValues
        BY <1>2, KeyHash DEF Types
      <4> QED
        BY <1>1, <1>5, <4>1, ProbeRecurrence
    <3>5. at[m] \in Occupied(index)
      BY <3>2, <3>4 DEF Occupied
    <3> QED
      BY <3>3, <3>5 DEF Filed
  <2> QED
    BY <2>1, <2>2
<1> QED
  BY <1>2, <1>4, <1>6, <1>7 DEF Contains, Found

LEMMA LookupHits ==
  ASSUME Types, NEW k \in Key, Contains(k)
  PROVE  Lookup(k) \in Occupied(index) /\ index.ent[Lookup(k)].key = k
BY LookupFacts DEF Contains, Found, Occupied, Matches

(* Key k has value x in a table t over the chunks c, ...                    *)
Stores(t, c, k, x) ==
  \E i \in Occupied(t) : t.ent[i].key = k /\ c[t.ent[i].value_pos] = x

(* ... and d is the dict they make.                                         *)
Describes(t, c, d) ==
  /\ d = [k \in DOMAIN d |-> d[k]]
  /\ \A k : k \in DOMAIN d <=> \E x : Stores(t, c, k, x)
  /\ \A k, x : Stores(t, c, k, x) => d[k] = x

ContentsAre == Describes(index, values.chunk, Contents)

LEMMA ContentsDescribed ==
  Types /\ Filed(index, hash) => ContentsAre
<1> SUFFICES ASSUME Types, Filed(index, hash) PROVE ContentsAre
  OBVIOUS
<1>1. Contents = [k \in DOMAIN Contents |-> Contents[k]]
      /\ DOMAIN Contents = {k \in Key : Contains(k)}
      /\ \A k \in Key : Contains(k) => Contents[k] = GetItem(k)
  BY DEF Contents
<1>2. ASSUME NEW k, k \in DOMAIN Contents
      PROVE  \E x : Stores(index, values.chunk, k, x)
  <2>1. Lookup(k) \in Occupied(index) /\ index.ent[Lookup(k)].key = k
    BY <1>1, <1>2, LookupHits
  <2> QED
    BY <2>1 DEF Stores
<1>3. ASSUME NEW k, NEW x, Stores(index, values.chunk, k, x)
      PROVE  k \in DOMAIN Contents /\ Contents[k] = x
  <2>1. PICK i \in Occupied(index) :
          index.ent[i].key = k /\ values.chunk[index.ent[i].value_pos] = x
    BY <1>3 DEF Stores
  <2>2. k \in Key /\ Contains(k) /\ Lookup(k) = i
    BY <2>1, LookupFinds
  <2> QED
    BY <1>1, <2>1, <2>2 DEF GetItem
<1> QED
  BY <1>1, <1>2, <1>3 DEF ContentsAre, Describes

LEMMA SameDict ==
  ASSUME NEW t, NEW c, NEW d, Describes(t, c, d),
         NEW u, NEW b, NEW e, Describes(u, b, e),
         \A k, x : Stores(t, c, k, x) <=> Stores(u, b, k, x)
  PROVE  d = e
<1>1. DOMAIN d = DOMAIN e
  BY DEF Describes
<1>2. \A k \in DOMAIN d : d[k] = e[k]
  BY DEF Describes
<1> QED
  BY <1>1, <1>2 DEF Describes

LEMMA SameTable ==
  ASSUME NEW t, NEW u, NEW h, Filed(t, h), u.mask = t.mask, u.ent = t.ent
  PROVE  Filed(u, h) /\ Occupied(u) = Occupied(t)
<1>1. Occupied(u) = Occupied(t)
  BY DEF Occupied
<1> QED
  BY <1>1 DEF Filed, AllReachable, Reachable

(* The larger index files and stores what the old one did.                  *)
LEMMA FreshFiled ==
  ASSUME Types, Filed(index, hash), op.step = "switch"
  PROVE  /\ Filed(fresh, hash)
         /\ \A k, x : Stores(index, values.chunk, k, x) <=> Stores(fresh, values.chunk, k, x)
<1>1. AllReachable(fresh) /\ Carried(index.mask + 1, fresh) /\ (NoTwins(index) => NoTwins(fresh))
  BY DEF Types, FreshType, FreshSteps, HalfRehashed
<1>2. NoTwins(fresh)
  BY <1>1 DEF Filed, NoTwins
<1>3. \A j \in Occupied(fresh) : \E l \in Occupied(index) : fresh.ent[j] = index.ent[l]
  BY <1>1 DEF Carried
<1>4. \A l \in Occupied(index) : \E j \in Occupied(fresh) : fresh.ent[j] = index.ent[l]
  <2>1. \A l \in Occupied(index) : l < index.mask + 1
    BY TableFacts DEF Types
  <2> QED
    BY <1>1, <2>1 DEF Carried
<1>5. \A j \in Occupied(fresh) : fresh.ent[j].hash = hash[fresh.ent[j].key]
  BY <1>3 DEF Filed
<1>6. ASSUME NEW i \in Occupied(fresh), NEW j \in Occupied(fresh),
             fresh.ent[i].key = fresh.ent[j].key
      PROVE  i = j
  <2>1. PICK l \in Occupied(index) : fresh.ent[i] = index.ent[l]
    BY <1>3
  <2>2. PICK m \in Occupied(index) : fresh.ent[j] = index.ent[m]
    BY <1>3
  <2>3. l = m
    BY <1>6, <2>1, <2>2 DEF Filed
  <2> QED
    BY <1>2, <2>1, <2>2, <2>3 DEF NoTwins
<1>7. Filed(fresh, hash)
  BY <1>1, <1>5, <1>6 DEF Filed
<1>8. \A k, x : Stores(index, values.chunk, k, x) <=> Stores(fresh, values.chunk, k, x)
  BY <1>3, <1>4 DEF Stores
<1> QED
  BY <1>7, <1>8

LEMMA BeginFiling ==
  ASSUME Types, Filing, NEW k \in Key, NEW v \in Value \cup {NULL}, Begin(k, v)
  PROVE  Filing'
<1>1. /\ op = Idle /\ Stops(k) # {} /\ index' = index /\ hash' = hash
      /\ op' = [step |-> IF v = NULL THEN "entry" ELSE "value", key |-> k,
                value |-> v, slot |-> Lookup(k), found |-> Found(k), pos |-> 0]
  BY DEF Begin
<1>2. op'.step = (IF v = NULL THEN "entry" ELSE "value") /\ op'.value = v /\ op'.slot = Lookup(k)
      /\ op'.key = k /\ op'.found = Found(k)
  BY <1>1
<1>3. PICK p \in Probes(index.mask) :
        /\ p = Min(Stops(k))
        /\ \A n \in Stops(k) : p <= n
  BY <1>1, LookupFacts
<1>4. Slot[index.mask][hash[k]][p] = Lookup(k)
  BY <1>3 DEF Lookup
<1>5. \A m \in 0 .. p - 1 : index.ent[Slot[index.mask][hash[k]][m]] # Free
  <2>1. p \in Nat /\ \A m \in 0 .. p - 1 : m \in Probes(index.mask) /\ ~(p <= m)
    BY <1>3, TableFacts, DictAssumption DEF Types, Probes
  <2> QED
    BY <1>3, <2>1 DEF Stops
<1>6. OnTheWay'
  BY <1>1, <1>2, <1>4, <1>5 DEF OnTheWay
<1>7. Found(k) => index.ent[Lookup(k)].key = k
  BY <1>1, LookupFacts DEF Matches
<1>8. ~Found(k) => ~HasKey(index, k)
  <2>1. ASSUME NEW i \in Occupied(index), index.ent[i].key = k
        PROVE  Found(k)
    BY <2>1, LookupFinds DEF Filing, Contains
  <2> QED
    BY <2>1 DEF HasKey
<1>9. Filed(index', hash')
  BY <1>1 DEF Filing
<1>10. op'.step \notin {"count"} \cup ResizeSteps
  BY <1>2 DEF ResizeSteps
<1> QED
  BY <1>1, <1>2, <1>6, <1>7, <1>8, <1>9, <1>10 DEF Filing, Underway

(* Steps that leave the entries alone.                                      *)
LEMMA MarshalValueFiling ==
  ASSUME Types, Filing, MarshalValue
  PROVE  Filing'
<1>1. op.step = "value" /\ op \in Statement /\ UNCHANGED <<index, hash>>
      /\ \E p : op' = [op EXCEPT !.step = "torn", !.pos = p]
  BY NotIdle DEF MarshalValue, Types, OpType
<1>2. op'.step = "torn" /\ op'.slot = op.slot /\ op'.key = op.key /\ op'.found = op.found
  BY <1>1 DEF Statement
<1> QED
  BY <1>1, <1>2 DEF Filing, Underway, OnTheWay, ValueSteps, ResizeSteps

LEMMA WriteValueFiling ==
  ASSUME Types, Filing, WriteValue
  PROVE  Filing'
<1>1. /\ op.step = "torn" /\ values' = Written(values, op.pos, op.value)
      /\ op' = [op EXCEPT !.step = "entry"] /\ UNCHANGED <<index, hash>>
  BY DEF WriteValue
<1>2. op \in Statement /\ op.value \in Value /\ op.pos \in 1 .. Len(values.chunk)
  BY <1>1, NotIdle DEF Types, OpType
<1>3. op'.step = "entry" /\ op'.slot = op.slot /\ op'.key = op.key /\ op'.found = op.found
      /\ op'.pos = op.pos /\ op'.value = op.value
  BY <1>1, <1>2, StepOp DEF Steps, ValueSteps
<1>4. values'.chunk[op.pos] = op.value
  BY <1>1, <1>2, WrittenIsFile DEF Types
<1> QED
  BY <1>1, <1>3, <1>4 DEF Filing, Underway, OnTheWay, ValueSteps, ResizeSteps

(* Steps of em_dict_setitem() after the entry is written.                   *)
LEMMA LateFiling ==
  ASSUME Filing, op.step \in {"count"} \cup ResizeSteps, op'.step \in {"idle"} \cup ResizeSteps,
         op'.step # "idle" => op'.key = op.key /\ op'.value = op.value,
         index'.mask = index.mask, index'.ent = index.ent, values' = values, hash' = hash
  PROVE  Filing'
<1>1. Filed(index', hash') /\ Occupied(index') = Occupied(index)
  BY SameTable DEF Filing
<1> QED
  BY <1>1 DEF Filing, Underway, PosAt, HasKey, ValueSteps, ResizeSteps

(* em_dict_set_entry() of an assignment: the slot it writes is free or held *)
(* the old entry of the key.                                                *)
LEMMA AssignFiling ==
  ASSUME Types, Filing, WriteEntry, op.value # NULL
  PROVE  /\ Filed(index', hash)
         /\ op.slot \in Occupied(index') /\ Occupied(index') = Occupied(index) \cup {op.slot}
         /\ index'.ent[op.slot].key = op.key /\ index'.ent[op.slot].value_pos = op.pos
         /\ \A i \in Occupied(index) :
              /\ i # op.slot => index'.ent[i] = index.ent[i] /\ index.ent[i].key # op.key
              /\ i = op.slot => index.ent[i].key = op.key
<1>1. /\ op.step = "entry" /\ op.step \in ValueSteps
      /\ OnTheWay /\ (op.found <=> index.ent[op.slot] # Free)
      /\ op.found => index.ent[op.slot].key = op.key
      /\ ~op.found => ~HasKey(index, op.key)
      /\ Filed(index, hash)
  BY DEF WriteEntry, ValueSteps, Filing, Underway, Types, OpType
<1>2. PICK n : n = Len(values.chunk)
  OBVIOUS
<1>3. PICK e \in Entries(n) :
        /\ e = [hash |-> hash[op.key], key |-> op.key, value_pos |-> op.pos]
        /\ op.slot \in 0 .. index.mask
        /\ index' = [mask |-> index.mask, used |-> index.used,
                     ent |-> [index.ent EXCEPT ![op.slot] = e]]
        /\ IsTable(index', n)
  BY <1>2, WriteEntryFacts
<1>4. index'.mask = index.mask /\ index'.ent = [index.ent EXCEPT ![op.slot] = e]
  BY <1>3
<1>5. IsTable(index, n) /\ index.ent \in [0 .. index.mask -> Entries(n) \cup {Free}]
  BY <1>2, TableFacts DEF Types
<1>6. index'.ent[op.slot] = e /\ \A i \in 0 .. index.mask : i # op.slot => index'.ent[i] = index.ent[i]
  BY <1>3, <1>4, <1>5
<1>7. e.hash = hash[op.key] /\ e.key = op.key /\ e.value_pos = op.pos
  BY <1>3
<1>8. \A i \in Occupied(index) :
        /\ i # op.slot => index.ent[i].key # op.key
        /\ i = op.slot => index.ent[i].key = op.key
  <2>1. \A i \in Occupied(index) : i \in 0 .. index.mask /\ index.ent[i] # Free
    BY DEF Occupied
  <2>2. op.found => op.slot \in Occupied(index)
    BY <1>1, <1>3 DEF Occupied
  <2> QED
    BY <1>1, <2>1, <2>2 DEF Filed, HasKey
<1>9. op.slot \in Occupied(index) => e.hash = index.ent[op.slot].hash
  BY <1>1, <1>7, <1>8 DEF Filed
<1>10. AllReachable(index') /\ Occupied(index') = Occupied(index) \cup {op.slot}
  <2>1. PICK p \in Probes(index.mask) :
          /\ Slot[index.mask][hash[op.key]][p] = op.slot
          /\ \A m \in 0 .. p - 1 : index.ent[Slot[index.mask][hash[op.key]][m]] # Free
    BY <1>1 DEF OnTheWay
  <2>2. AllReachable(index)
    BY <1>1 DEF Filed
  <2>3. /\ Slot[index.mask][e.hash][p] = op.slot
        /\ \A m \in 0 .. p - 1 : index.ent[Slot[index.mask][e.hash][m]] # Free
    BY <1>7, <2>1
  <2>4. PICK u : u = index'
    OBVIOUS
  <2>5. IsTable(u, n) /\ u.mask = index.mask /\ u.ent = [index.ent EXCEPT ![op.slot] = e]
    BY <1>3, <1>4, <2>4
  <2>6. AllReachable(u) /\ Occupied(u) = Occupied(index) \cup {op.slot}
    BY <1>3, <1>5, <1>9, <2>2, <2>3, <2>5, PutKeepsReachable
  <2> QED
    BY <2>4, <2>6
<1>11. \A i \in Occupied(index) : i # op.slot => index'.ent[i] = index.ent[i]
  BY <1>6 DEF Occupied
<1>12. Filed(index', hash)
  <2>1. \A i \in Occupied(index') : index'.ent[i].hash = hash[index'.ent[i].key]
    BY <1>1, <1>6, <1>7, <1>10, <1>11 DEF Filed
  <2>2. \A i, j \in Occupied(index') : index'.ent[i].key = index'.ent[j].key => i = j
    BY <1>1, <1>6, <1>7, <1>8, <1>10, <1>11 DEF Filed
  <2> QED
    BY <1>10, <2>1, <2>2 DEF Filed
<1> QED
  BY <1>6, <1>7, <1>8, <1>10, <1>11, <1>12

(* ... and of a `del' that clears no slot on the way to another key.        *)
LEMMA DelFiling ==
  ASSUME Types, Filing, ClearsNoWay, WriteEntry, op.value = NULL
  PROVE  /\ Filed(index', hash)
         /\ Occupied(index') = Occupied(index) \ {op.slot}
         /\ \A i \in Occupied(index) :
              /\ i # op.slot => index'.ent[i] = index.ent[i] /\ index.ent[i].key # op.key
              /\ i = op.slot => index.ent[i].key = op.key
<1>1. /\ op.step = "entry" /\ op.step \in ValueSteps
      /\ (op.found <=> index.ent[op.slot] # Free)
      /\ op.found => index.ent[op.slot].key = op.key
      /\ ~op.found => ~HasKey(index, op.key)
      /\ Filed(index, hash)
  BY DEF WriteEntry, ValueSteps, Filing, Underway, Types, OpType
<1>2. /\ op.slot \in 0 .. index.mask
      /\ index' = [mask |-> index.mask, used |-> index.used,
                   ent |-> [index.ent EXCEPT ![op.slot] = Free]]
  BY WriteEntryFacts
<1>3. index'.mask = index.mask /\ index'.ent = [index.ent EXCEPT ![op.slot] = Free]
  BY <1>2
<1>4. /\ index.ent \in [0 .. index.mask -> Entries(Len(values.chunk)) \cup {Free}]
      /\ index.mask \in Masks /\ index.mask \in Nat /\ MaxShifts \in Nat
  BY TableFacts, DictAssumption DEF Types
<1>5. \A i \in 0 .. index.mask : i # op.slot => index'.ent[i] = index.ent[i]
  BY <1>3, <1>4
<1>6. Occupied(index') = Occupied(index) \ {op.slot}
  BY WriteEntryOccupies
<1>7. \A i \in Occupied(index) : i \in 0 .. index.mask /\ (i # op.slot => index'.ent[i] = index.ent[i])
  BY <1>5 DEF Occupied
<1>8. \A i \in Occupied(index) :
        /\ i # op.slot => index.ent[i].key # op.key
        /\ i = op.slot => index.ent[i].key = op.key
  <2>1. \A i \in Occupied(index) : i \in 0 .. index.mask /\ index.ent[i] # Free
    BY DEF Occupied
  <2>2. op.found => op.slot \in Occupied(index)
    BY <1>1, <1>2 DEF Occupied
  <2> QED
    BY <1>1, <2>1, <2>2 DEF Filed, HasKey
<1>9. ASSUME NEW i \in Occupied(index), i # op.slot
      PROVE  Reachable(index', i)
  <2> DEFINE at == Slot[index.mask][index.ent[i].hash]
             P == {n \in Probes(index.mask) : at[n] = i}
  <2>1. PICK n \in P : \A m \in 0 .. n - 1 : index.ent[at[m]] # Free
    BY <1>1 DEF Filed, AllReachable, Reachable
  <2>2. op.slot \notin {at[m] : m \in 0 .. Min(P)}
    BY <1>1, <1>9 DEF ClearsNoWay
  <2>3. PICK q \in P : q = Min(P) /\ q <= n /\ q \in Nat /\ n \in Nat
    <3>1. P \subseteq Nat
      BY <1>4 DEF Probes
    <3> HIDE DEF P
    <3> QED
      BY <2>1, <3>1, MinFacts
  <2>4. \A m \in 0 .. q - 1 : m \in 0 .. n - 1 /\ m \in 0 .. q /\ m \in Probes(index.mask)
    <3>1. q \in Probes(index.mask)
      OBVIOUS
    <3> HIDE DEF P, at
    <3> QED
      BY <1>4, <2>3, <3>1 DEF Probes
  <2>5. \A m \in 0 .. q - 1 : at[m] # op.slot /\ index.ent[at[m]] # Free
    BY <2>1, <2>2, <2>3, <2>4
  <2>6. \A m \in 0 .. q - 1 : at[m] \in 0 .. index.mask
    BY <1>4, <2>4, ProbeRecurrence, TableFacts DEF Types
  <2>7. \A m \in 0 .. q - 1 : index'.ent[at[m]] # Free
    BY <1>5, <2>5, <2>6
  <2> QED
    BY <1>3, <1>7, <1>9, <2>7 DEF Reachable
<1>10. Filed(index', hash)
  BY <1>1, <1>6, <1>7, <1>9 DEF Filed, AllReachable
<1> QED
  BY <1>6, <1>7, <1>8, <1>10

LEMMA WriteEntryFiling ==
  ASSUME Types, Filing, ClearsNoWay, WriteEntry
  PROVE  Filing'
<1>1. op.step = "entry" /\ op' = [op EXCEPT !.step = "count"] /\ UNCHANGED <<values, hash>>
  BY DEF WriteEntry
<1>2. op \in Statement
  BY <1>1, NotIdle DEF Types, OpType
<1>3. op'.step = "count" /\ op'.key = op.key /\ op'.value = op.value
  BY <1>1, <1>2, StepOp DEF Steps
<1>4. CASE op.value = NULL
  <2>1. Filed(index', hash') /\ Occupied(index') = Occupied(index) \ {op.slot}
    BY <1>1, <1>4, DelFiling
  <2>2. \A i \in Occupied(index') : index'.ent[i].key # op.key
    BY <1>4, <2>1, DelFiling
  <2> QED
    BY <1>3, <1>4, <2>1, <2>2 DEF Filing, Underway, HasKey, ValueSteps
<1>5. CASE op.value # NULL
  <2>1. Filed(index', hash') /\ op.slot \in Occupied(index')
        /\ index'.ent[op.slot].key = op.key /\ index'.ent[op.slot].value_pos = op.pos
    BY <1>1, <1>5, AssignFiling
  <2>2. values'.chunk[op.pos] = op.value
    BY <1>1, <1>5 DEF Filing, Underway
  <2>3. \E i \in Occupied(index') :
          index'.ent[i].key = op.key /\ values'.chunk[index'.ent[i].value_pos] = op.value
    BY <2>1, <2>2
  <2> QED
    BY <1>3, <1>5, <2>1, <2>3 DEF Filing, Underway, PosAt, ValueSteps
<1> QED
  BY <1>4, <1>5

(* One hash function: PYTHONHASHSEED is set, or no key hashes differently   *)
(* in another process.                                                      *)
OneHash == \A f, g \in Hashes : f = g

LEMMA FilingStep ==
  ASSUME OneHash, Types, Filing, ClearsNoWay, [Next]_vars
  PROVE  Filing'
<1>1. ASSUME NEW k \in Key, NEW v \in Value \cup {NULL}, Begin(k, v) PROVE Filing'
  BY <1>1, BeginFiling
<1>2. CASE MarshalValue
  BY <1>2, MarshalValueFiling
<1>3. CASE MarshalFails
  <2>1. op'.step = "idle" /\ UNCHANGED <<index, values, hash>>
    BY <1>3 DEF MarshalFails, Idle
  <2> QED
    BY <2>1 DEF Filing, Underway, ValueSteps, ResizeSteps
<1>4. CASE WriteValue
  BY <1>4, WriteValueFiling
<1>5. CASE WriteEntry
  BY <1>5, WriteEntryFiling
<1>6. CASE Count
  <2>1. op.step = "count" /\ UNCHANGED <<values, hash>> /\ op \in Statement
    BY <1>6, CountFacts DEF Count
  <2>2. index' = [mask |-> index.mask, ent |-> index.ent,
                  used |-> IF op.found THEN index.used ELSE index.used + 1]
    BY <1>6, CountFacts
  <2>3. index'.mask = index.mask /\ index'.ent = index.ent
    BY <2>2
  <2>4. op'.step = "idle" \/ (op'.step = "create" /\ op'.key = op.key /\ op'.value = op.value)
    <3>1. CASE op' = Idle
      BY <3>1 DEF Idle
    <3>2. CASE op' = [op EXCEPT !.step = "create"]
      BY <2>1, <3>2, StepOp DEF Steps, ResizeSteps
    <3> QED
      BY <1>6, <3>1, <3>2, CountFacts
  <2> QED
    BY <2>1, <2>3, <2>4, LateFiling DEF ResizeSteps
<1>7. CASE CreateFresh \/ RenameOld \/ RenameNew
  <2>1. op.step \in ResizeSteps /\ op \in Statement /\ UNCHANGED <<index, values, hash>>
        /\ \E s \in {"rename0", "rename1", "switch"} : op' = [op EXCEPT !.step = s]
    BY <1>7, NotIdle DEF CreateFresh, RenameOld, RenameNew, Types, OpType, ResizeSteps
  <2>2. op'.step \in {"rename0", "rename1", "switch"} /\ op'.key = op.key /\ op'.value = op.value
    BY <2>1 DEF Statement
  <2> QED
    BY <2>1, <2>2, LateFiling DEF ResizeSteps
<1>8. CASE Switch
  <2>1. op.step = "switch" /\ index' = fresh /\ hash' = hash /\ op'.step = "idle"
    BY <1>8 DEF Switch, Idle
  <2>2. Filed(index', hash')
    BY <2>1, FreshFiled DEF Filing
  <2> QED
    BY <2>1, <2>2 DEF Filing, Underway, ValueSteps, ResizeSteps
<1>9. CASE ResizeFails
  <2>1. op.step \in ResizeSteps /\ UNCHANGED <<index, values, hash>> /\ op'.step = "idle"
    BY <1>9 DEF ResizeFails, ResizeSteps, Idle
  <2> QED
    BY <2>1, LateFiling
<1>10. CASE Close \/ Crash
  <2>1. hash' = hash /\ op'.step = "idle" /\ (index' = index \/ (index' = fresh /\ named = "fresh"))
    BY <1>10 DEF Close, Crash, Idle
  <2>2. named = "fresh" => op.step = "switch"
    BY DEF Types, FreshType
  <2>3. Filed(index', hash')
    BY <2>1, <2>2, FreshFiled DEF Filing
  <2> QED
    BY <2>1, <2>3 DEF Filing, Underway, ValueSteps, ResizeSteps
<1>11. CASE Open
  <2>1. hash' = hash /\ UNCHANGED <<index, values, op>>
    BY <1>11 DEF Open, Types, OneHash
  <2> QED
    BY <2>1 DEF Filing, Underway, OnTheWay, PosAt
<1>12. CASE UNCHANGED vars
  BY <1>12 DEF vars, Filing, Underway, OnTheWay, PosAt
<1>13. \A k \in DelKeys : k \in Key
  BY DictAssumption
<1> QED
  BY <1>1, <1>2, <1>3, <1>4, <1>5, <1>6, <1>7, <1>8, <1>9, <1>10, <1>11, <1>12, <1>13
     DEF Next, SetItem, Resize

LEMMA InitFiling ==
  Init => Filing
<1> SUFFICES ASSUME Init PROVE Filing
  OBVIOUS
<1>1. index = [mask |-> InitEnts - 1, used |-> 0, ent |-> [i \in 0 .. InitEnts - 1 |-> Free]]
      /\ op.step = "idle"
  BY DEF Init, EmptyIndex, Idle
<1>2. Occupied(index) = {}
  BY <1>1 DEF Occupied
<1> QED
  BY <1>1, <1>2 DEF Filing, Filed, AllReachable, Underway, ValueSteps, ResizeSteps

-----------------------------------------------------------------------------
(* EMDict implements Dict.                                                  *)

Busy == IF op = Idle THEN NULL ELSE [key |-> op.key, value |-> op.value]

DictVars == <<Contents, Busy, is_open>>

IInv == Types /\ Owned /\ Filing

LEMMA InvariantContents == IInv => ContentsAre
BY ContentsDescribed DEF IInv, Filing

LEMMA NextContents == IInv' => ContentsAre'
BY InvariantContents, PTL

LEMMA ContentsBecome ==
  ASSUME IInv', NEW d, Describes(index', values'.chunk, d)
  PROVE  Contents' = d
<1>1. Describes(index', values'.chunk, Contents')
  BY NextContents DEF ContentsAre
<1>2. PICK e : e = Contents'
  OBVIOUS
<1>3. PICK t, c : t = index' /\ c = values'.chunk
  OBVIOUS
<1>4. Describes(t, c, e) /\ Describes(t, c, d)
  BY <1>1, <1>2, <1>3
<1>5. e = d
  BY <1>4, SameDict
<1> QED
  BY <1>2, <1>5

LEMMA ContentsStay ==
  ASSUME IInv, IInv',
         \A k, x : Stores(index, values.chunk, k, x) <=> Stores(index', values'.chunk, k, x)
  PROVE  Contents' = Contents
<1>1. Describes(index, values.chunk, Contents)
  BY InvariantContents DEF ContentsAre
<1>2. Describes(index', values'.chunk, Contents)
  BY <1>1 DEF Describes
<1> QED
  BY <1>2, ContentsBecome

LEMMA EntriesStay ==
  ASSUME IInv, IInv', index'.mask = index.mask, index'.ent = index.ent,
         values'.chunk = values.chunk
  PROVE  Contents' = Contents
<1>1. Occupied(index') = Occupied(index)
  BY DEF Occupied
<1> QED
  BY <1>1, ContentsStay DEF Stores

LEMMA BusyFacts ==
  ASSUME Types, op # Idle
  PROVE  /\ op \in Statement /\ Busy # NULL /\ is_open
         /\ Busy = [key |-> op.key, value |-> op.value]
<1>1. op \in Statement /\ is_open
  BY DEF Types, OpType
<1>2. [key |-> op.key, value |-> op.value] \in [key : Key, value : Value \cup {NULL}]
  BY <1>1 DEF Statement
<1> QED
  BY <1>1, <1>2, DictAssumption DEF Busy

(* Writing to a chunk changes the value of op.key or no value at all.       *)
LEMMA ChunkWritten ==
  ASSUME IInv, IInv', op.step \in {"value", "torn"}, index' = index, NEW p, NEW x,
         values'.chunk[p] = x,
         \A q \in 1 .. Len(values.chunk) : q # p => values'.chunk[q] = values.chunk[q],
         \A i \in Occupied(index) : i # op.slot => PosAt(i) # p
  PROVE  \/ Contents' = Contents
         \/ /\ op.key \in DOMAIN Contents
            /\ Contents' = [Contents EXCEPT ![op.key] = x]
<1>1. Describes(index, values.chunk, Contents) /\ Filed(index, hash)
  BY InvariantContents DEF ContentsAre, IInv, Filing
<1>2. \A i \in Occupied(index) : PosAt(i) \in 1 .. Len(values.chunk)
  BY PosFacts DEF IInv
<1>3. CASE op.slot \in Occupied(index) /\ PosAt(op.slot) = p
  <2>1. index.ent[op.slot].key = op.key
    BY <1>3 DEF IInv, Filing, Underway, Types, OpType, ValueSteps, Occupied
  <2>2. \A i \in Occupied(index) : i # op.slot => index.ent[i].key # op.key
    BY <1>1, <1>3, <2>1 DEF Filed
  <2>3. PICK c : c = values'.chunk
    OBVIOUS
  <2>4. \A k, y : Stores(index, c, k, y) <=>
                    IF k = op.key THEN y = x ELSE Stores(index, values.chunk, k, y)
    BY <1>2, <1>3, <2>1, <2>2, <2>3 DEF Stores, PosAt
  <2>5. Stores(index, values.chunk, op.key, values.chunk[p])
    BY <1>3, <2>1 DEF Stores, PosAt
  <2>6. op.key \in DOMAIN Contents
    BY <1>1, <2>5 DEF Describes
  <2>7. PICK d : d = [Contents EXCEPT ![op.key] = x]
    OBVIOUS
  <2>8. /\ d = [k \in DOMAIN d |-> d[k]] /\ DOMAIN d = DOMAIN Contents
        /\ d[op.key] = x /\ \A k \in DOMAIN d : k # op.key => d[k] = Contents[k]
    BY <1>1, <2>6, <2>7 DEF Describes
  <2>9. Describes(index, c, d)
    <3>1. \A k : k \in DOMAIN d <=> \E y : Stores(index, c, k, y)
      BY <1>1, <2>4, <2>6, <2>8 DEF Describes
    <3>2. ASSUME NEW k, NEW y, Stores(index, c, k, y) PROVE d[k] = y
      <4>1. CASE k = op.key
        BY <2>4, <2>8, <3>2, <4>1
      <4>2. CASE k # op.key
        <5>1. Stores(index, values.chunk, k, y) /\ k \in DOMAIN d
          BY <2>4, <3>1, <3>2, <4>2
        <5> QED
          BY <1>1, <2>8, <4>2, <5>1 DEF Describes
      <4> QED
        BY <4>1, <4>2
    <3> QED
      BY <2>8, <3>1, <3>2 DEF Describes
  <2> QED
    BY <2>3, <2>6, <2>7, <2>9, ContentsBecome
<1>4. CASE ~(op.slot \in Occupied(index) /\ PosAt(op.slot) = p)
  <2>1. \A i \in Occupied(index) : values'.chunk[PosAt(i)] = values.chunk[PosAt(i)]
    BY <1>2, <1>4
  <2>2. \A k, y : Stores(index, values.chunk, k, y) <=> Stores(index', values'.chunk, k, y)
    BY <2>1 DEF Stores, PosAt
  <2> QED
    BY <2>2, ContentsStay
<1> QED
  BY <1>3, <1>4

LEMMA EntryDeleted ==
  ASSUME IInv, IInv', ClearsNoWay, WriteEntry, op.value = NULL
  PROVE  Contents' = [k \in DOMAIN Contents \ {op.key} |-> Contents[k]]
<1>1. Describes(index, values.chunk, Contents)
  BY InvariantContents DEF ContentsAre
<1>2. values' = values
  BY DEF WriteEntry
<1>3. /\ Occupied(index') = Occupied(index) \ {op.slot}
      /\ \A i \in Occupied(index) :
           /\ i # op.slot => index'.ent[i] = index.ent[i] /\ index.ent[i].key # op.key
           /\ i = op.slot => index.ent[i].key = op.key
  BY DelFiling DEF IInv
<1>4. \A k, x : Stores(index', values'.chunk, k, x) <=>
                  k # op.key /\ Stores(index, values.chunk, k, x)
  BY <1>2, <1>3 DEF Stores
<1>5. PICK d : d = [k \in DOMAIN Contents \ {op.key} |-> Contents[k]]
  OBVIOUS
<1>6. /\ d = [k \in DOMAIN d |-> d[k]] /\ DOMAIN d = DOMAIN Contents \ {op.key}
      /\ \A k \in DOMAIN d : d[k] = Contents[k]
  BY <1>5
<1>7. \A k : k \in DOMAIN d <=> \E x : Stores(index', values'.chunk, k, x)
  BY <1>1, <1>4, <1>6 DEF Describes
<1>8. \A k, x : Stores(index', values'.chunk, k, x) => d[k] = x
  BY <1>1, <1>4, <1>6, <1>7 DEF Describes
<1>9. Describes(index', values'.chunk, d)
  BY <1>6, <1>7, <1>8 DEF Describes
<1> QED
  BY <1>5, <1>9, ContentsBecome

LEMMA EntryAssigned ==
  ASSUME IInv, IInv', WriteEntry, op.value # NULL
  PROVE  Contents' = [k \in DOMAIN Contents \cup {op.key} |->
                        IF k = op.key THEN op.value ELSE Contents[k]]
<1>1. Describes(index, values.chunk, Contents)
  BY InvariantContents DEF ContentsAre
<1>2. values' = values /\ values.chunk[op.pos] = op.value
  BY DEF WriteEntry, IInv, Filing, Underway
<1>3. /\ Occupied(index') = Occupied(index) \cup {op.slot}
      /\ index'.ent[op.slot].key = op.key /\ index'.ent[op.slot].value_pos = op.pos
      /\ \A i \in Occupied(index) :
           /\ i # op.slot => index'.ent[i] = index.ent[i] /\ index.ent[i].key # op.key
           /\ i = op.slot => index.ent[i].key = op.key
  BY AssignFiling DEF IInv
<1>4. \A k, x : Stores(index', values'.chunk, k, x) <=>
                  IF k = op.key THEN x = op.value ELSE Stores(index, values.chunk, k, x)
  BY <1>2, <1>3 DEF Stores
<1>5. PICK d : d = [k \in DOMAIN Contents \cup {op.key} |->
                      IF k = op.key THEN op.value ELSE Contents[k]]
  OBVIOUS
<1>6. /\ d = [k \in DOMAIN d |-> d[k]] /\ DOMAIN d = DOMAIN Contents \cup {op.key}
      /\ d[op.key] = op.value /\ \A k \in DOMAIN d : k # op.key => d[k] = Contents[k]
  BY <1>5
<1>7. \A k : k \in DOMAIN d <=> \E x : Stores(index', values'.chunk, k, x)
  BY <1>1, <1>4, <1>6 DEF Describes
<1>8. ASSUME NEW k, NEW x, Stores(index', values'.chunk, k, x) PROVE d[k] = x
  <2>1. CASE k = op.key
    BY <1>4, <1>6, <1>8, <2>1
  <2>2. CASE k # op.key
    <3>1. Stores(index, values.chunk, k, x) /\ k \in DOMAIN d
      BY <1>4, <1>7, <1>8, <2>2
    <3> QED
      BY <1>1, <1>6, <2>2, <3>1 DEF Describes
  <2> QED
    BY <2>1, <2>2
<1>9. Describes(index', values'.chunk, d)
  BY <1>6, <1>7, <1>8 DEF Describes
<1> QED
  BY <1>5, <1>9, ContentsBecome

(* A statement that is about to return has taken effect.                    *)
LEMMA TakenEffect ==
  ASSUME IInv, op.step \in {"count"} \cup ResizeSteps
  PROVE  IF op.value = NULL THEN op.key \notin DOMAIN Contents
         ELSE op.key \in DOMAIN Contents /\ Contents[op.key] = op.value
<1>1. Describes(index, values.chunk, Contents)
  BY InvariantContents DEF ContentsAre
<1>2. CASE op.value = NULL
  <2>1. ~HasKey(index, op.key)
    BY <1>2 DEF IInv, Filing, Underway
  <2> QED
    BY <1>1, <1>2, <2>1 DEF Describes, Stores, HasKey
<1>3. CASE op.value # NULL
  <2>1. Stores(index, values.chunk, op.key, op.value)
    BY <1>3 DEF IInv, Filing, Underway, Stores, PosAt
  <2> QED
    BY <1>1, <1>3, <2>1 DEF Describes
<1> QED
  BY <1>2, <1>3

(* Nothing is lost by a statement that fails before its slot is written.    *)
LEMMA NothingFound ==
  ASSUME IInv, op.step = "value", ~op.found
  PROVE  op.key \notin DOMAIN Contents
<1>1. Describes(index, values.chunk, Contents)
  BY InvariantContents DEF ContentsAre
<1>2. ~HasKey(index, op.key)
  BY DEF IInv, Filing, Underway, ValueSteps
<1> QED
  BY <1>1, <1>2 DEF Describes, Stores, HasKey

LEMMA StepTaken ==
  ASSUME Types, op # Idle, NEW s \in Steps, op' = [op EXCEPT !.step = s], is_open' = is_open
  PROVE  Busy' = Busy /\ is_open' = is_open
<1>1. op \in Statement
  BY BusyFacts
<1>2. PICK u \in Statement : u = op' /\ u.step = s /\ u.key = op.key /\ u.value = op.value
  BY <1>1, StepOp
<1>3. u # Idle
  BY <1>2, NotIdle DEF Steps, ValueSteps, ResizeSteps
<1> QED
  BY <1>2, <1>3 DEF Busy

(* Every step of EMDict is one of Dict's or does not show.                  *)
LEMMA MapStep ==
  ASSUME IInv, IInv', NothingToLose, [Next]_vars
  PROVE  [Map!Next]_DictVars
<1>1. ASSUME UNCHANGED DictVars PROVE [Map!Next]_DictVars
  BY <1>1
<1>2. ASSUME NEW k \in Key, NEW v \in Value \cup {NULL}, Begin(k, v)
      PROVE  [Map!Next]_DictVars
  <2>1. /\ is_open /\ op = Idle /\ index' = index /\ is_open' = is_open
        /\ op' = [step |-> IF v = NULL THEN "entry" ELSE "value", key |-> k,
                  value |-> v, slot |-> Lookup(k), found |-> Found(k), pos |-> 0]
        /\ values' = IF Found(k) THEN Freed(values, index.ent[Lookup(k)].value_pos) ELSE values
    BY <1>2 DEF Begin
  <2>2. op'.step = (IF v = NULL THEN "entry" ELSE "value") /\ op'.key = k /\ op'.value = v
    BY <2>1
  <2>3. op' # Idle
    BY <2>2 DEF Idle
  <2>4. values'.chunk = values.chunk
    BY <2>1 DEF Freed, IInv, Types, IsFile
  <2>5. Contents' = Contents
    BY <2>1, <2>4, EntriesStay
  <2>6. Busy = NULL /\ Busy' = [key |-> k, value |-> v]
    BY <2>1, <2>2, <2>3 DEF Busy
  <2> QED
    BY <2>1, <2>5, <2>6 DEF Map!Next, Map!Begin, Busy
<1>3. CASE MarshalValue
  <2>1. PICK p \in Chunks :
          /\ op.step = "value" /\ values' = Marshalled(values, p, Torn)
          /\ op' = [op EXCEPT !.step = "torn", !.pos = p]
          /\ index' = index /\ is_open' = is_open
    BY <1>3 DEF MarshalValue
  <2>2. op # Idle
    BY <2>1, NotIdle
  <2>3. op \in Statement /\ Busy # NULL /\ Busy = [key |-> op.key, value |-> op.value]
    BY <2>2, BusyFacts DEF IInv
  <2>4. op'.step = "torn" /\ op'.key = op.key /\ op'.value = op.value
    BY <2>1, <2>3 DEF Statement
  <2>5. Busy' = Busy
    BY <2>3, <2>4, NotIdle DEF Busy
  <2>6. p \in Allocatable(values) /\ p \in Hole(values) \cup {Len(values.chunk) + 1}
    BY DEF Chunks, Allocatable, BagToSet, Hole
  <2>7. /\ values'.chunk[p] = Torn
        /\ \A q \in 1 .. Len(values.chunk) : q # p => values'.chunk[q] = values.chunk[q]
    <3>1. IsFile(values, Value \cup {Torn}) /\ Torn \in Value \cup {Torn}
      BY DEF IInv, Types
    <3> QED
      BY <2>1, <2>6, <3>1, MarshalledIsFile
  <2>8. \A i \in Occupied(index) : i # op.slot => PosAt(i) # p
    BY <2>1, <2>6, PosFacts DEF IInv, Owned
  <2>9. \/ Contents' = Contents
        \/ op.key \in DOMAIN Contents /\ Contents' = [Contents EXCEPT ![op.key] = Torn]
    BY <2>1, <2>7, <2>8, ChunkWritten
  <2> QED
    BY <1>1, <2>1, <2>3, <2>5, <2>9 DEF DictVars, Map!Next, Map!Tear, Busy
<1>4. CASE MarshalFails
  <2>1. op.step = "value" /\ op # Idle /\ op.value \in BadValues /\ op' = Idle
        /\ UNCHANGED <<index, values, is_open>>
    BY <1>4, NotIdle DEF MarshalFails
  <2>2. ~op.found
    BY <2>1 DEF NothingToLose, FreesNoOldValue
  <2>3. Busy # NULL /\ Busy = [key |-> op.key, value |-> op.value] /\ Busy' = NULL
    BY <2>1, BusyFacts DEF IInv, Busy
  <2>4. Contents' = Contents /\ Busy.key \notin DOMAIN Contents
    BY <2>1, <2>2, <2>3, EntriesStay, NothingFound
  <2> QED
    BY <2>1, <2>3, <2>4 DEF Map!Next, Map!Fail, Busy
<1>5. CASE WriteValue
  <2>1. /\ op.step = "torn" /\ op # Idle /\ values' = Written(values, op.pos, op.value)
        /\ op' = [op EXCEPT !.step = "entry"] /\ index' = index /\ is_open' = is_open
    BY <1>5, NotIdle DEF WriteValue
  <2>2. op \in Statement /\ Busy # NULL /\ Busy = [key |-> op.key, value |-> op.value]
        /\ op.value \in Value /\ op.pos \in 1 .. Len(values.chunk)
    BY <2>1, BusyFacts DEF IInv, Types, OpType
  <2>3. Busy' = Busy
    <3>1. "entry" \in Steps
      BY DEF Steps, ValueSteps
    <3> QED
      BY <2>1, <3>1, StepTaken DEF IInv
  <2>4. /\ values'.chunk[op.pos] = op.value
        /\ \A q \in 1 .. Len(values.chunk) : q # op.pos => values'.chunk[q] = values.chunk[q]
    <3>1. IsFile(values, Value \cup {Torn}) /\ op.value \in Value \cup {Torn}
      BY <2>2 DEF IInv, Types
    <3> QED
      BY <2>1, <2>2, <3>1, WrittenIsFile
  <2>5. \A i \in Occupied(index) : i # op.slot => PosAt(i) # op.pos
    BY <2>1 DEF IInv, Owned
  <2>6. \/ Contents' = Contents
        \/ op.key \in DOMAIN Contents /\ Contents' = [Contents EXCEPT ![op.key] = op.value]
    BY <2>1, <2>4, <2>5, ChunkWritten
  <2>7. CASE Contents' = Contents
    BY <1>1, <2>1, <2>3, <2>7 DEF DictVars
  <2>8. CASE op.key \in DOMAIN Contents /\ Contents' = [Contents EXCEPT ![op.key] = op.value]
    <3>1. Contents = [k \in DOMAIN Contents |-> Contents[k]]
      BY DEF Contents
    <3>2. Contents' = [k \in DOMAIN Contents \cup {Busy.key} |->
                         IF k = Busy.key THEN Busy.value ELSE Contents[k]]
      <4> HIDE DEF Contents, Busy
      <4>1. PICK d : d = Contents
        OBVIOUS
      <4>2. PICK y, z : y = op.key /\ z = op.value /\ Busy.key = y /\ Busy.value = z
        BY <2>2
      <4>3. d = [k \in DOMAIN d |-> d[k]] /\ y \in DOMAIN d
        BY <2>8, <3>1, <4>1, <4>2
      <4>4. [d EXCEPT ![y] = z] = [k \in DOMAIN d \cup {y} |-> IF k = y THEN z ELSE d[k]]
        BY <4>3
      <4> QED
        BY <2>8, <4>1, <4>2, <4>4
    <3>3. Busy.value # NULL
      BY <2>2, DictAssumption
    <3> QED
      BY <2>1, <2>2, <2>3, <3>2, <3>3 DEF Map!Next, Map!Apply, Busy
  <2> QED
    BY <2>6, <2>7, <2>8
<1>6. CASE WriteEntry
  <2>1. op.step = "entry" /\ op # Idle /\ op' = [op EXCEPT !.step = "count"] /\ is_open' = is_open
    BY <1>6, NotIdle DEF WriteEntry
  <2>2. Busy # NULL /\ Busy = [key |-> op.key, value |-> op.value]
    BY <2>1, BusyFacts DEF IInv
  <2>3. Busy' = Busy
    <3>1. "count" \in Steps
      BY DEF Steps
    <3> QED
      BY <2>1, <3>1, StepTaken DEF IInv
  <2>4. Contents' = IF op.value = NULL THEN [k \in DOMAIN Contents \ {op.key} |-> Contents[k]]
                    ELSE [k \in DOMAIN Contents \cup {op.key} |->
                            IF k = op.key THEN op.value ELSE Contents[k]]
    BY <1>6, EntryDeleted, EntryAssigned DEF NothingToLose
  <2>5. Busy.key = op.key /\ Busy.value = op.value
    BY <2>2
  <2> QED
    BY <2>1, <2>2, <2>3, <2>4, <2>5 DEF Map!Next, Map!Apply, Busy
<1>7. ASSUME op.step \in {"count"} \cup ResizeSteps, op' = Idle, is_open' = is_open,
             Contents' = Contents
      PROVE  [Map!Next]_DictVars
  <2>1. op # Idle
    BY <1>7, NotIdle DEF ResizeSteps
  <2>2. Busy # NULL /\ Busy = [key |-> op.key, value |-> op.value] /\ Busy' = NULL
    BY <1>7, <2>1, BusyFacts DEF IInv, Busy
  <2>3. Busy.key = op.key /\ Busy.value = op.value
    BY <2>2
  <2> QED
    BY <1>7, <2>2, <2>3, TakenEffect DEF Map!Next, Map!End, Busy
<1>8. CASE Count
  <2>1. op.step = "count" /\ op # Idle /\ values' = values /\ is_open' = is_open
    BY <1>8, NotIdle DEF Count
  <2>2. index' = [mask |-> index.mask, ent |-> index.ent,
                  used |-> IF op.found THEN index.used ELSE index.used + 1]
    BY <1>8, CountFacts DEF IInv
  <2>3. Contents' = Contents
    BY <2>1, <2>2, EntriesStay
  <2>4. CASE op' = Idle
    BY <1>7, <2>1, <2>3, <2>4
  <2>5. CASE op' = [op EXCEPT !.step = "create"]
    <3>1. "create" \in Steps
      BY DEF Steps, ResizeSteps
    <3>2. Busy' = Busy
      BY <2>1, <2>5, <3>1, StepTaken DEF IInv
    <3> QED
      BY <1>1, <2>1, <2>3, <3>2 DEF DictVars
  <2> QED
    BY <1>8, <2>4, <2>5, CountFacts DEF IInv
<1>9. CASE CreateFresh \/ RenameOld \/ RenameNew
  <2>1. PICK s \in {"rename0", "rename1", "switch"} :
          /\ op.step \in ResizeSteps /\ op' = [op EXCEPT !.step = s]
          /\ UNCHANGED <<index, values, is_open>>
    BY <1>9 DEF CreateFresh, RenameOld, RenameNew, ResizeSteps
  <2>2. s \in Steps /\ op # Idle
    BY <2>1, NotIdle DEF Steps, ResizeSteps
  <2>3. Busy' = Busy
    BY <2>1, <2>2, StepTaken DEF IInv
  <2>4. Contents' = Contents
    BY <2>1, EntriesStay
  <2> QED
    BY <1>1, <2>1, <2>3, <2>4 DEF DictVars
<1>10. ASSUME op.step = "switch", index' = fresh, values'.chunk = values.chunk
       PROVE  Contents' = Contents
  <2>1. \A k, x : Stores(index, values.chunk, k, x) <=> Stores(fresh, values.chunk, k, x)
    BY <1>10, FreshFiled DEF IInv, Filing
  <2> QED
    BY <1>10, <2>1, ContentsStay
<1>11. CASE Switch
  BY <1>7, <1>10, <1>11 DEF Switch, ResizeSteps
<1>12. CASE ResizeFails
  <2>1. op.step \in ResizeSteps /\ op' = Idle /\ UNCHANGED <<index, values, is_open>>
    BY <1>12 DEF ResizeFails, ResizeSteps
  <2>2. Contents' = Contents
    BY <2>1, EntriesStay
  <2> QED
    BY <1>7, <2>1, <2>2
<1>13. CASE Close \/ Crash
  <2>1. /\ is_open /\ is_open' = FALSE /\ op' = Idle /\ values'.chunk = values.chunk
        /\ index' = index \/ (index' = fresh /\ named = "fresh")
    BY <1>13 DEF Close, Crash, Reopened, IInv, Types, IsFile
  <2>2. named = "fresh" => op.step = "switch"
    BY DEF IInv, Types, FreshType
  <2>3. Contents' = Contents
    BY <1>10, <2>1, <2>2, EntriesStay
  <2>4. Busy' = NULL
    BY <2>1 DEF Busy
  <2> QED
    BY <2>1, <2>3, <2>4 DEF Map!Next, Map!Stop, Busy
<1>14. CASE Open
  <2>1. ~is_open /\ is_open' = TRUE /\ UNCHANGED <<index, values, op>>
    BY <1>14 DEF Open
  <2>2. Contents' = Contents /\ Busy' = Busy
    BY <2>1, EntriesStay DEF Busy
  <2> QED
    BY <2>1, <2>2 DEF Map!Next, Map!Start, Busy
<1>15. CASE UNCHANGED vars
  <2>1. Contents' = Contents /\ Busy' = Busy /\ is_open' = is_open
    BY <1>15, EntriesStay DEF vars, Busy
  <2> QED
    BY <1>1, <2>1 DEF DictVars
<1>16. \A k \in DelKeys : k \in Key
  BY DictAssumption
<1> QED
  BY <1>2, <1>3, <1>4, <1>5, <1>6, <1>8, <1>9, <1>11, <1>12, <1>13, <1>14, <1>15, <1>16
     DEF Next, SetItem, Resize

LEMMA FilingInvariant ==
  ASSUME OneHash
  PROVE  Spec /\ []ClearsNoWay => [](Types /\ Filing)
<1>1. Types /\ Filing /\ ClearsNoWay /\ [Next]_vars => (Types /\ Filing)'
  BY TypesStep, FilingStep
<1> QED
  BY <1>1, InitTypes, InitFiling, PTL DEF Spec

(* What em_dict.c:175 says holds after all as long as no `del' clears a     *)
(* slot on the way to another key and the hashes stay what they were: a key *)
(* that has an entry is found, through growth, failed resizes and crashes.  *)
THEOREM EntriesFoundOnTheWay ==
  ASSUME OneHash
  PROVE  Spec /\ []ClearsNoWay => []EntriesFound
<1>1. Types /\ Filing => EntriesFound
  BY LookupFinds DEF EntriesFound, Filing
<1> QED
  BY <1>1, FilingInvariant, PTL

(* The table is the dict the user believes it to be, through collisions,    *)
(* growth, failed resizes, closing and opening, and crashes, under the same *)
(* two conditions and if no statement fails after it freed the old value.   *)
THEOREM ImplementsDictCorrect ==
  ASSUME OneHash
  PROVE  Spec /\ []NothingToLose => ImplementsDict
<1>1. Init => Map!Init
  <2> SUFFICES ASSUME Init PROVE Map!Init
    OBVIOUS
  <2>1. Types /\ Filing
    BY InitTypes, InitFiling
  <2>2. Describes(index, values.chunk, Contents)
    BY <2>1, ContentsDescribed DEF Filing, ContentsAre
  <2>3. index = [mask |-> InitEnts - 1, used |-> 0, ent |-> [i \in 0 .. InitEnts - 1 |-> Free]]
    BY DEF Init, EmptyIndex
  <2>4. Occupied(index) = {}
    BY <2>3 DEF Occupied
  <2>5. DOMAIN Contents = {} /\ Contents = [k \in DOMAIN Contents |-> Contents[k]]
    BY <2>2, <2>4 DEF Describes, Stores
  <2>6. Contents = [k \in {} |-> NULL]
    <3>1. PICK d : d = Contents
      OBVIOUS
    <3>2. d = [k \in DOMAIN d |-> d[k]] /\ DOMAIN d = {}
      BY <2>5, <3>1
    <3>3. d = [k \in {} |-> NULL]
      BY <3>2
    <3> QED
      BY <3>1, <3>3
  <2>7. Busy = NULL /\ is_open = TRUE
    BY DEF Init, Busy
  <2> QED
    BY <2>6, <2>7 DEF Map!Init, Busy
<1>2. Init => IInv
  BY InitTypes, InitOwned, InitFiling DEF IInv
<1>3. IInv /\ NothingToLose /\ [Next]_vars => IInv'
  BY TypesStep, OwnedStep, FilingStep DEF IInv, NothingToLose
<1>4. IInv /\ IInv' /\ NothingToLose /\ [Next]_vars => [Map!Next]_DictVars
  BY MapStep
<1> QED
  BY <1>1, <1>2, <1>3, <1>4, PTL DEF Spec, ImplementsDict, Map!Spec, Map!vars, DictVars, Busy

-----------------------------------------------------------------------------
(* What is called "index.bin".                                              *)

BetweenRenames == named = "none" => op.step = "rename1"

(* The process dies between the two renames of em_dict_resize(), or the     *)
(* second one fails.                                                        *)
StopsBetweenRenames == op.step = "rename1" /\ (Crash \/ ResizeFails)

(* What run dict_reopen refutes in general holds but for the one window     *)
(* between the renames (em_dict.c:336): whenever else the process dies or a *)
(* resize fails, there is an "index.bin" for the next one to open.          *)
THEOREM ReopensButBetweenRenames ==
  Spec /\ [][~StopsBetweenRenames]_vars => []CanReopen
<1>1. Init => BetweenRenames
  BY DEF Init, BetweenRenames
<1>2. Types /\ BetweenRenames /\ [Next]_vars /\ [~StopsBetweenRenames]_vars => BetweenRenames'
  <2> SUFFICES ASSUME Types, BetweenRenames, [Next]_vars, [~StopsBetweenRenames]_vars,
                      named' = "none"
               PROVE  op'.step = "rename1"
    BY DEF BetweenRenames
  <2>1. CASE UNCHANGED vars
    BY <2>1 DEF vars, BetweenRenames
  <2>2. CASE SetItem
    <3>1. named' = named
      BY <2>2 DEF SetItem, Begin, MarshalValue, MarshalFails, WriteValue, WriteEntry, Count
    <3>2. op = Idle \/ op.step \in {"value", "torn", "entry", "count"}
      BY <2>2 DEF SetItem, Begin, MarshalValue, MarshalFails, WriteValue, WriteEntry, Count
    <3>3. op.step \in {"idle", "value", "torn", "entry", "count"}
      BY <3>2 DEF Idle
    <3> QED
      BY <3>1, <3>3 DEF BetweenRenames
  <2>3. CASE CreateFresh
    BY <2>3 DEF CreateFresh, BetweenRenames
  <2>4. CASE RenameOld
    <3>1. op.step = "rename0" /\ op' = [op EXCEPT !.step = "rename1"]
      BY <2>4 DEF RenameOld
    <3>2. op \in Statement
      BY <3>1, NotIdle DEF Types, OpType
    <3> QED
      BY <3>1, <3>2, StepOp DEF Steps, ResizeSteps
  <2>5. CASE RenameNew \/ Switch
    BY <2>5 DEF RenameNew, Switch
  <2>6. CASE ResizeFails
    <3>1. named' = named /\ op' # op
      BY <2>6 DEF ResizeFails, Idle
    <3>2. op.step # "rename1"
      BY <2>6, <3>1 DEF StopsBetweenRenames, vars
    <3> QED
      BY <3>1, <3>2 DEF BetweenRenames
  <2>7. CASE Close
    BY <2>7 DEF Close, BetweenRenames
  <2>8. CASE Crash
    <3>1. is_open' # is_open
      BY <2>8 DEF Crash
    <3>2. op.step # "rename1"
      BY <2>8, <3>1 DEF StopsBetweenRenames, vars
    <3> QED
      BY <2>8, <3>2 DEF Crash, BetweenRenames
  <2>9. CASE Open
    BY <2>9 DEF Open
  <2> QED
    BY <2>1, <2>2, <2>3, <2>4, <2>5, <2>6, <2>7, <2>8, <2>9 DEF Next, Resize
<1>3. Types /\ BetweenRenames => CanReopen
  BY DEF Types, FreshType, BetweenRenames, CanReopen, Idle
<1> QED
  BY <1>1, <1>2, <1>3, TypesInvariant, PTL DEF Spec

-----------------------------------------------------------------------------
(* An iterator.                                                             *)

Iterator == [pos : 0 .. index.mask + 1, done : BOOLEAN, seen : Seq(Key),
             kept : SUBSET Key, resizes : Nat]

(* A key that is in the table all the time stays in its slot until a        *)
(* resize, and has been returned if its slot lies behind the iterator; each *)
(* resize may put it before the iterator again.                             *)
Walked ==
  /\ iter \in Iterator
  /\ iter.kept \subseteq KeysIn(index)
  /\ \A i \in Occupied(index) :
       LET k == index.ent[i].key
           n == IF i < iter.pos THEN 1 ELSE 0
       IN  k \in iter.kept => /\ Returned(k) <= iter.resizes + n
                              /\ iter.resizes = 0 => Returned(k) = n

Finished ==
  iter.done /\ iter.resizes = 0 =>
    \A i \in Occupied(index) : index.ent[i].key \in iter.kept => i < iter.pos

LEMMA Advanced ==
  ASSUME NEW m, NEW o \in [pos : m, done : BOOLEAN, seen : Seq(Key), kept : SUBSET Key, resizes : Nat],
         NEW p \in m, NEW q \in Seq(Key), NEW u, u = [o EXCEPT !.pos = p, !.seen = q]
  PROVE  /\ u \in [pos : m, done : BOOLEAN, seen : Seq(Key), kept : SUBSET Key, resizes : Nat]
         /\ u.pos = p /\ u.seen = q /\ u.done = o.done /\ u.kept = o.kept /\ u.resizes = o.resizes
OBVIOUS

LEMMA Restricted ==
  ASSUME NEW m, NEW o \in [pos : m, done : BOOLEAN, seen : Seq(Key), kept : SUBSET Key, resizes : Nat],
         NEW c \in SUBSET Key, NEW n \in Nat, NEW u, u = [o EXCEPT !.kept = c, !.resizes = n]
  PROVE  /\ u \in [pos : m, done : BOOLEAN, seen : Seq(Key), kept : SUBSET Key, resizes : Nat]
         /\ u.pos = o.pos /\ u.seen = o.seen /\ u.done = o.done /\ u.kept = c /\ u.resizes = n
OBVIOUS

LEMMA ReturnedIsNat ==
  ASSUME iter.seen \in Seq(Key), NEW k
  PROVE  Returned(k) \in Nat
<1>1. IsFiniteSet(1 .. Len(iter.seen))
  BY FS_Interval
<1>2. IsFiniteSet({n \in 1 .. Len(iter.seen) : iter.seen[n] = k})
  BY <1>1, FS_Subset
<1> QED
  BY <1>2, FS_CardinalityType DEF Returned

LEMMA ReturnedOnceMore ==
  ASSUME iter.seen \in Seq(Key), NEW x \in Key, iter'.seen = Append(iter.seen, x), NEW k
  PROVE  Returned(k)' = IF x = k THEN Returned(k) + 1 ELSE Returned(k)
<1> DEFINE At(s) == {n \in 1 .. Len(s) : s[n] = k}
           s == iter.seen
           t == iter'.seen
<1>1. Len(s) \in Nat /\ Len(t) = Len(s) + 1 /\ t[Len(s) + 1] = x
      /\ \A n \in 1 .. Len(s) : t[n] = s[n]
  OBVIOUS
<1>2. At(t) = IF x = k THEN At(s) \cup {Len(s) + 1} ELSE At(s)
  BY <1>1
<1>3. IsFiniteSet(At(s)) /\ Len(s) + 1 \notin At(s)
  <2>1. 1 \in Int /\ Len(s) \in Int
    BY <1>1
  <2>2. IsFiniteSet(1 .. Len(s))
    BY <2>1, FS_Interval
  <2>3. At(s) \subseteq 1 .. Len(s) /\ Len(s) + 1 \notin 1 .. Len(s)
    BY <1>1
  <2> QED
    BY <2>2, <2>3, FS_Subset
<1>4. Returned(k) = Cardinality(At(s)) /\ Returned(k)' = Cardinality(At(t))
  BY DEF Returned
<1> HIDE DEF At, s, t
<1>5. Cardinality(At(s) \cup {Len(s) + 1}) = Cardinality(At(s)) + 1
  BY <1>3, FS_AddElement
<1> QED
  BY <1>2, <1>4, <1>5

LEMMA IterNewWalked ==
  ASSUME Types, IterNew
  PROVE  Walked' /\ Finished'
<1>1. /\ iter' = [pos |-> 0, done |-> FALSE, seen |-> <<>>,
                  kept |-> KeysIn(index), resizes |-> 0]
      /\ index' = index
  BY DEF IterNew, vars
<1>2. index.mask \in Nat /\ Occupied(index) \subseteq 0 .. index.mask
      /\ \A i \in Occupied(index) : index.ent[i].key \in Key
  BY TableFacts DEF Types, Entries
<1>3. KeysIn(index) \subseteq Key
  BY <1>2 DEF KeysIn
<1>4. iter' \in Iterator'
  BY <1>1, <1>2, <1>3 DEF Iterator
<1>5. ASSUME NEW k PROVE Returned(k)' = 0
  <2>1. {n \in 1 .. Len(iter'.seen) : iter'.seen[n] = k} = {}
    BY <1>1
  <2> QED
    BY <2>1, FS_EmptySet DEF Returned
<1>6. ASSUME NEW i \in Occupied(index) PROVE ~ i < 0
  BY <1>2
<1> QED
  BY <1>1, <1>4, <1>5, <1>6 DEF Walked, Finished

(* Where em_dict_iter_iternext() stops.                                     *)
LEMMA StopFacts ==
  ASSUME Types, Walked
  PROVE  /\ StopPos \in iter.pos .. index.mask + 1
         /\ \A i \in iter.pos .. StopPos - 1 : index.ent[i] = Free
         /\ \/ StopPos > index.mask \/ StopPos + 1 >= MaxPos
            \/ StopPos \in Occupied(index)
<1> DEFINE S == {i \in iter.pos .. index.mask + 1 :
                   i > index.mask \/ index.ent[i] # Free \/ i + 1 >= MaxPos}
<1>1. index.mask \in Nat /\ iter.pos \in 0 .. index.mask + 1
  BY TableFacts DEF Types, Walked, Iterator
<1>2. S \subseteq Nat /\ index.mask + 1 \in S
  BY <1>1
<1>3. StopPos = Min(S)
  BY DEF StopPos
<1>4. StopPos \in S /\ \A x \in S : StopPos <= x
  <2> HIDE DEF S
  <2> QED
    BY <1>2, <1>3, MinFacts
<1> HIDE DEF StopPos
<1>5. ASSUME NEW i \in iter.pos .. StopPos - 1 PROVE index.ent[i] = Free
  <2>1. i \in iter.pos .. index.mask + 1 /\ i \notin S
    BY <1>1, <1>4
  <2> QED
    BY <2>1
<1> QED
  BY <1>1, <1>4, <1>5 DEF Occupied

LEMMA IterNextWalked ==
  ASSUME Types, Filing, iter # NULL, Walked, IterNext
  PROVE  Walked'
<1> DEFINE s == StopPos
<1>1. index' = index /\ iter \in Iterator /\ index.mask \in Nat
      /\ Occupied(index) \subseteq 0 .. index.mask
  BY TableFacts DEF IterNext, vars, Types, Walked
<1>2. /\ s \in iter.pos .. index.mask + 1
      /\ \A i \in iter.pos .. s - 1 : index.ent[i] = Free
      /\ s > index.mask \/ s + 1 >= MaxPos \/ s \in Occupied(index)
  BY StopFacts
<1>3. iter' = IF s > index.mask \/ s + 1 >= MaxPos
              THEN [iter EXCEPT !.done = TRUE]
              ELSE [iter EXCEPT !.pos = s + 1, !.seen = Append(@, index.ent[s].key)]
  BY DEF IterNext
<1> HIDE DEF s
<1>4. CASE s > index.mask \/ s + 1 >= MaxPos
  <2>1. /\ iter' \in Iterator /\ iter'.pos = iter.pos /\ iter'.seen = iter.seen
        /\ iter'.kept = iter.kept /\ iter'.resizes = iter.resizes
    BY <1>1, <1>3, <1>4 DEF Iterator
  <2>2. iter' \in Iterator'
    BY <1>1, <2>1 DEF Iterator
  <2>3. ASSUME NEW k PROVE Returned(k)' = Returned(k)
    BY <2>1 DEF Returned
  <2> QED
    BY <1>1, <2>1, <2>2, <2>3 DEF Walked
<1>5. CASE ~ (s > index.mask \/ s + 1 >= MaxPos)
  <2> DEFINE x == index.ent[s].key
  <2>1. s \in Occupied(index) /\ x \in Key
    BY <1>2, <1>5, TableFacts DEF Types, Entries
  <2>2. iter' = [iter EXCEPT !.pos = s + 1, !.seen = Append(@, x)]
    BY <1>3, <1>5
  <2>3. iter.pos \in Nat /\ iter.seen \in Seq(Key) /\ iter.resizes \in Nat /\ s \in 0 .. index.mask
        /\ iter.kept \subseteq Key
    BY <1>1, <2>1 DEF Iterator
  <2> HIDE DEF x
  <2>4. PICK q : q = Append(iter.seen, x)
    OBVIOUS
  <2>5. q \in Seq(Key) /\ s + 1 \in 0 .. index.mask + 1
    BY <1>1, <2>1, <2>3, <2>4
  <2>6. iter' = [iter EXCEPT !.pos = s + 1, !.seen = q]
    BY <2>2, <2>4
  <2>7. /\ iter' \in Iterator /\ iter'.pos = s + 1 /\ iter'.seen = Append(iter.seen, x)
        /\ iter'.kept = iter.kept /\ iter'.resizes = iter.resizes
    BY <1>1, <2>4, <2>5, <2>6, Advanced DEF Iterator
  <2>8. iter' \in Iterator'
    BY <1>1, <2>7 DEF Iterator
  <2>9. ASSUME NEW k PROVE Returned(k)' = IF x = k THEN Returned(k) + 1 ELSE Returned(k)
    BY <2>1, <2>3, <2>7, ReturnedOnceMore
  <2>10. ASSUME NEW i \in Occupied(index), NEW k, k = index.ent[i].key, k \in iter.kept
        PROVE  LET n == IF i < s + 1 THEN 1 ELSE 0
               IN  /\ Returned(k)' <= iter.resizes + n
                   /\ iter.resizes = 0 => Returned(k)' = n
    <3>1. LET n == IF i < iter.pos THEN 1 ELSE 0
          IN  /\ Returned(k) <= iter.resizes + n
              /\ iter.resizes = 0 => Returned(k) = n
      BY <2>10 DEF Walked
    <3>2. x = k <=> i = s
      BY <2>1, <2>10 DEF Filing, Filed, x
    <3>3. Returned(k)' = IF i = s THEN Returned(k) + 1 ELSE Returned(k)
      BY <2>9, <3>2
    <3>4. Returned(k) \in Nat
      BY <2>3, ReturnedIsNat
    <3>5. i \in Nat /\ i \notin iter.pos .. s - 1
      BY <1>1, <1>2, <2>10 DEF Occupied
    <3>6. s >= iter.pos
      BY <1>2, <2>3
    <3>7. CASE i = s
      BY <2>3, <3>1, <3>3, <3>4, <3>5, <3>6, <3>7
    <3>8. CASE i # s
      <4>1. i < iter.pos <=> i < s + 1
        BY <2>3, <3>5, <3>6, <3>8
      <4> QED
        BY <3>1, <3>3, <3>8, <4>1
    <3> QED
      BY <3>7, <3>8
  <2> QED
    BY <1>1, <2>7, <2>8, <2>10 DEF Walked
<1> QED
  BY <1>4, <1>5

LEMMA IterNextFinished ==
  ASSUME Types, iter # NULL, Walked, Finished, MaxEnts < MaxPos, IterNext
  PROVE  Finished'
<1> DEFINE s == StopPos
<1>1. index' = index /\ iter \in Iterator /\ index.mask \in Nat
      /\ Occupied(index) \subseteq 0 .. index.mask /\ index.mask + 1 <= MaxEnts
  BY TableFacts, MaskFacts DEF IterNext, vars, Types, Walked
<1>2. /\ s \in iter.pos .. index.mask + 1
      /\ \A i \in iter.pos .. s - 1 : index.ent[i] = Free
  BY StopFacts
<1>3. iter' = IF s > index.mask \/ s + 1 >= MaxPos
              THEN [iter EXCEPT !.done = TRUE]
              ELSE [iter EXCEPT !.pos = s + 1, !.seen = Append(@, index.ent[s].key)]
  BY DEF IterNext
<1>4. ~iter.done
  BY DEF IterNext, Iterating
<1> HIDE DEF s
<1>5. MaxPos \in Nat /\ MaxEnts \in Nat
  BY PowerOfTwo, DictAssumption DEF MaxPos
<1>6. CASE s > index.mask
  <2>1. iter'.pos = iter.pos
    BY <1>1, <1>3, <1>6 DEF Iterator
  <2>2. ASSUME NEW i \in Occupied(index) PROVE i < iter.pos
    <3>1. i \in Nat /\ i <= index.mask /\ i \notin iter.pos .. s - 1
      BY <1>1, <1>2 DEF Occupied
    <3>2. iter.pos \in Nat /\ s \in Nat
      BY <1>1, <1>2 DEF Iterator
    <3> QED
      BY <1>1, <1>6, <3>1, <3>2
  <2> QED
    BY <1>1, <2>1, <2>2 DEF Finished
<1>7. CASE ~ s > index.mask
  <2>1. s \in Nat
    BY <1>1, <1>2 DEF Iterator
  <2>2. ~ s + 1 >= MaxPos
    BY <1>1, <1>5, <1>7, <2>1
  <2>3. iter'.done = iter.done
    BY <1>1, <1>3, <1>7, <2>2 DEF Iterator
  <2> QED
    BY <1>4, <2>3 DEF Finished
<1> QED
  BY <1>6, <1>7

(* Until a resize no key that is in the table goes to another slot.         *)
Stay == /\ index'.mask = index.mask
        /\ \A i \in Occupied(index') :
             index'.ent[i].key \in KeysIn(index) =>
               i \in Occupied(index) /\ index.ent[i].key = index'.ent[i].key

LEMMA KeysStay ==
  ASSUME OneHash, Types, Filing, ClearsNoWay, [Next]_vars, is_open'
  PROVE  Stay \/ (index'.mask \in Nat /\ index'.mask > index.mask)
<1> USE DEF Stay
<1>1. CASE index' = index
  BY <1>1
<1>2. CASE WriteEntry
  <2>1. index'.mask = index.mask
    BY <1>2, WriteEntryFacts
  <2>2. CASE op.value # NULL
    <3>1. /\ Occupied(index') = Occupied(index) \cup {op.slot}
          /\ index'.ent[op.slot].key = op.key
          /\ \A i \in Occupied(index) :
               /\ i # op.slot => index'.ent[i] = index.ent[i] /\ index.ent[i].key # op.key
               /\ i = op.slot => index.ent[i].key = op.key
      BY <1>2, <2>2, AssignFiling
    <3> QED
      BY <2>1, <3>1 DEF KeysIn
  <2>3. CASE op.value = NULL
    <3>1. /\ Occupied(index') = Occupied(index) \ {op.slot}
          /\ \A i \in Occupied(index) : i # op.slot => index'.ent[i] = index.ent[i]
      BY <1>2, <2>3, DelFiling
    <3> QED
      BY <2>1, <3>1
  <2> QED
    BY <2>2, <2>3
<1>3. CASE Count
  <2>1. index'.mask = index.mask /\ index'.ent = index.ent
    BY <1>3, CountFacts
  <2> QED
    BY <2>1 DEF Occupied
<1>4. CASE Switch
  <2>1. op.step = "switch" /\ index' = fresh
    BY <1>4 DEF Switch
  <2>2. HalfRehashed(index.mask + 1, fresh, Len(values.chunk))
    BY <2>1 DEF Types, FreshType, FreshSteps
  <2>3. fresh.mask = 2 * index.mask + 1 /\ index.mask \in Nat
    BY <2>2, TableFacts DEF HalfRehashed, Types
  <2> QED
    BY <2>1, <2>3
<1>5. CASE Crash
  BY <1>5 DEF Crash
<1> QED
  BY <1>1, <1>2, <1>3, <1>4, <1>5
     DEF Next, SetItem, Resize, Begin, MarshalValue, MarshalFails, WriteValue, CreateFresh,
         RenameOld, RenameNew, ResizeFails, Close, Open, vars

LEMMA ChangeWalked ==
  ASSUME OneHash, Types, Types', Filing, ClearsNoWay, Change, iter' # NULL, Walked
  PROVE  Walked' /\ (Finished => Finished')
<1>1. /\ is_open' /\ Next
      /\ iter' = [iter EXCEPT !.kept = @ \cap KeysIn(index'),
                              !.resizes = IF index'.mask # index.mask THEN @ + 1 ELSE @]
  BY DEF Change
<1>2. iter \in Iterator /\ index.mask \in Nat /\ index'.mask \in Nat
  BY TableFacts DEF Types, Walked
<1>3. /\ iter'.kept = iter.kept \cap KeysIn(index') /\ iter'.seen = iter.seen
      /\ iter'.pos = iter.pos /\ iter'.done = iter.done
      /\ iter'.resizes = IF index'.mask # index.mask THEN iter.resizes + 1 ELSE iter.resizes
      /\ iter' \in [pos : 0 .. index.mask + 1, done : BOOLEAN, seen : Seq(Key),
                    kept : SUBSET Key, resizes : Nat]
  <2>1. PICK c \in SUBSET Key : c = iter.kept \cap KeysIn(index')
    BY <1>2 DEF Iterator
  <2>2. PICK n \in Nat : n = IF index'.mask # index.mask THEN iter.resizes + 1 ELSE iter.resizes
    BY <1>2 DEF Iterator
  <2>3. iter' = [iter EXCEPT !.kept = c, !.resizes = n]
    BY <1>1, <2>1, <2>2
  <2> QED
    BY <1>2, <2>1, <2>2, <2>3, Restricted DEF Iterator
<1>4. ASSUME NEW k PROVE Returned(k)' = Returned(k) /\ Returned(k) \in Nat
  <2>1. iter.seen \in Seq(Key)
    BY <1>2 DEF Iterator
  <2> QED
    BY <1>3, <2>1, ReturnedIsNat DEF Returned
<1>5. iter.resizes \in Nat /\ iter.pos \in 0 .. index.mask + 1
  BY <1>2 DEF Iterator
<1>6. CASE Stay
  <2>1. iter'.resizes = iter.resizes /\ iter' \in Iterator'
    BY <1>3, <1>6 DEF Iterator, Stay
  <2>2. ASSUME NEW i \in Occupied(index'), index'.ent[i].key \in iter'.kept
        PROVE  i \in Occupied(index) /\ index'.ent[i].key = index.ent[i].key
               /\ index.ent[i].key \in iter.kept
    BY <1>3, <1>6, <2>2 DEF Walked, Stay
  <2>3. Walked'
    BY <1>3, <1>4, <2>1, <2>2 DEF Walked
  <2>4. Finished => Finished'
    BY <1>3, <2>1, <2>2 DEF Finished
  <2> QED
    BY <2>3, <2>4
<1>7. CASE index'.mask > index.mask
  <2>1. iter'.resizes = iter.resizes + 1 /\ iter' \in Iterator'
    BY <1>2, <1>3, <1>7 DEF Iterator
  <2>2. ASSUME NEW i \in Occupied(index'), index'.ent[i].key \in iter'.kept
        PROVE  Returned(index'.ent[i].key) <= iter.resizes + 1
    <3>1. PICK j \in Occupied(index) : index.ent[j].key = index'.ent[i].key
      BY <1>3, <2>2 DEF Walked, KeysIn
    <3>2. Returned(index.ent[j].key) <= iter.resizes + (IF j < iter.pos THEN 1 ELSE 0)
      BY <1>3, <2>2, <3>1 DEF Walked
    <3> QED
      BY <1>4, <1>5, <3>1, <3>2
  <2>3. ASSUME NEW i \in Occupied(index'), index'.ent[i].key \in iter'.kept,
               NEW k, k = index'.ent[i].key
        PROVE  Returned(k)' <= iter'.resizes + (IF i < iter'.pos THEN 1 ELSE 0)
    BY <1>4, <1>5, <2>1, <2>2, <2>3
  <2>4. iter'.resizes # 0
    BY <1>5, <2>1
  <2> QED
    BY <1>3, <2>1, <2>3, <2>4 DEF Walked, Finished
<1> QED
  BY <1>1, <1>6, <1>7, KeysStay

(* The invariant of the iterator, whose end lies beyond the table.          *)
Walks == iter # NULL => Walked /\ (MaxEnts < MaxPos => Finished)

LEMMA WalksStep ==
  ASSUME OneHash, Types, Types', Filing, ClearsNoWay, Walks, [IterNextStep]_ivars
  PROVE  Walks'
<1>1. CASE IterNew
  BY <1>1, IterNewWalked DEF Walks
<1>2. CASE IterNext
  <2>1. iter # NULL /\ Walked
    BY <1>2 DEF IterNext, Iterating, Walks
  <2> QED
    BY <1>2, <2>1, IterNextWalked, IterNextFinished DEF Walks
<1>3. CASE Change
  <2>1. iter' # NULL => iter # NULL
    BY <1>3 DEF Change
  <2> QED
    BY <1>3, <2>1, ChangeWalked DEF Walks
<1>4. CASE UNCHANGED ivars
  BY <1>4 DEF ivars, vars, Walks, Walked, Finished, Iterator, Returned, KeysIn, Occupied
<1> QED
  BY <1>1, <1>2, <1>3, <1>4 DEF IterNextStep

LEMMA WalksInvariant ==
  ASSUME OneHash
  PROVE  IterSpec /\ []ClearsNoWay => [](Types /\ Filing /\ Walks)
<1>1. IterInit => Types /\ Filing /\ Walks
  BY InitTypes, InitFiling DEF IterInit, Walks
<1>2. [IterNextStep]_ivars => [Next]_vars
  BY DEF IterNextStep, IterNew, IterNext, Change, ivars
<1>3. Types /\ Filing /\ Walks /\ ClearsNoWay /\ [IterNextStep]_ivars
      => (Types /\ Filing /\ Walks)'
  BY <1>2, TypesStep, FilingStep, WalksStep
<1> QED
  BY <1>1, <1>3, PTL DEF IterSpec

(* An iteration that ends without a resize in between has returned every    *)
(* key that was in the table all the time, once, whatever the loop set and  *)
(* deleted meanwhile, although it ends where reading past the file fails    *)
(* (em_dict.c:739): if keys hash alike in every process, no `del' clears a  *)
(* slot on the way to another key, and the table is smaller than MaxPos.    *)
THEOREM IterCompleteCorrect ==
  ASSUME OneHash, MaxEnts < MaxPos
  PROVE  IterSpec /\ []ClearsNoWay => []IterComplete
<1>1. Types /\ Walks => IterComplete
  <2> SUFFICES ASSUME Types, Walks, iter # NULL, iter.done, iter.resizes = 0, NEW k \in iter.kept
               PROVE  Returned(k) = 1
    BY DEF IterComplete
  <2>1. PICK i \in Occupied(index) : index.ent[i].key = k
    BY DEF Walks, Walked, KeysIn
  <2>2. i < iter.pos
    BY <2>1 DEF Walks, Finished
  <2> QED
    BY <2>1, <2>2 DEF Walks, Walked
<1> QED
  BY <1>1, WalksInvariant, PTL

(* Each resize can make an iteration return a key once more at most         *)
(* (em_dict.c:739), if keys hash alike in every process and no `del' clears *)
(* a slot on the way to another key.                                        *)
THEOREM IterRepeatsCorrect ==
  ASSUME OneHash
  PROVE  IterSpec /\ []ClearsNoWay => []IterRepeats
<1>1. Types /\ Walks => IterRepeats
  <2> SUFFICES ASSUME Types, Walks, iter # NULL, NEW k \in iter.kept
               PROVE  Returned(k) <= 1 + iter.resizes
    BY DEF IterRepeats
  <2>1. PICK i \in Occupied(index) : index.ent[i].key = k
    BY DEF Walks, Walked, KeysIn
  <2>2. Returned(k) <= iter.resizes + (IF i < iter.pos THEN 1 ELSE 0)
    BY <2>1 DEF Walks, Walked
  <2>3. iter.resizes \in Nat /\ Returned(k) \in Nat
    BY ReturnedIsNat DEF Walks, Walked, Iterator
  <2> QED
    BY <2>2, <2>3
<1> QED
  BY <1>1, WalksInvariant, PTL
=============================================================================
