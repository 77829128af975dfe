---------------------------- MODULE EMListProofs ----------------------------
(****************************************************************************)
(* Theorems about EMList, for any values and statements and any bounds.     *)
(****************************************************************************)
EXTENDS EMList, ValuesFileProofs, SequenceTheorems

(****************************************************************************)
(* Types.                                                                   *)
(****************************************************************************)
Stored == Value \cup {Torn}

(* An index of n entries: between crashes n is the capacity; after a crash  *)
(* in em_list_resize() it may be twice that, or 1 for 0.                    *)
IndexOf(t, n) ==
  /\ t = [used |-> t.used, capacity |-> t.capacity, value_pos |-> t.value_pos]
  /\ t.capacity \in Nat /\ t.used \in 0 .. t.capacity
  /\ n \in t.capacity .. 2 * t.capacity + 1
  /\ t.value_pos \in [0 .. n - 1 -> 0 .. Len(values.chunk)]

IndexType == \E n \in Nat : IndexOf(index, n)

(* The index being prepared has the elements of the old one.                *)
FreshType ==
  IF op.step \in {"rename0", "rename1", "header"}
  THEN /\ IndexOf(fresh, NewCapacity)
       /\ fresh.used = index.used /\ fresh.capacity = index.capacity
       /\ \A i \in 0 .. NewCapacity - 1 :
            fresh.value_pos[i] = IF i < index.capacity THEN index.value_pos[i] ELSE 0
  ELSE fresh = NULL

NamedType ==
  /\ named \in {"index", "fresh", "none"}
  /\ named = "fresh" <=> op.step = "header"

Statement ==
  [step : {"create", "rename0", "rename1", "header",
           "free", "value", "torn", "entry", "count"},
   call : {"set", "append"}, index : Nat, value : Value \cup {NULL}, pos : Nat]

OpType ==
  \/ op = Idle
  \/ /\ op \in Statement
     /\ op.call = "set" => op.index < index.used
     /\ op.call = "append" => op.index = index.used /\ op.value \in Value
     /\ op.step \in {"create", "rename0", "rename1", "header"} =>
          op.call = "append" /\ op.index >= index.capacity
     /\ op.step \in {"free", "value", "torn", "entry", "count"} => op.index < index.capacity
     /\ op.step \in {"torn", "entry", "count"} =>
          op.pos \in 1 .. Len(values.chunk) /\ op.value \in Value
     /\ op.step = "count" => op.call = "append"

Types ==
  /\ IsFile(values, Stored)
  /\ IndexType /\ FreshType /\ NamedType /\ OpType
  /\ is_open \in BOOLEAN /\ faults \in 0 .. MaxFaults
  /\ ~is_open => op = Idle

-----------------------------------------------------------------------------
(****************************************************************************)
(* Ownership, as long as NothingToLose.                                     *)
(****************************************************************************)
(* The entry whose value is being replaced.                                 *)
Replaced == IF op.step \in {"value", "torn", "entry"} THEN {op.index} ELSE {}

Entries == DOMAIN index.value_pos

Ownership ==
  /\ HolesOnce(values)
  /\ \A i, j \in Entries : index.value_pos[i] # 0 /\ index.value_pos[i] = index.value_pos[j] => i = j
  /\ \A i \in Entries \ Replaced : index.value_pos[i] \notin Hole(values)
  /\ \A i \in 0 .. index.used - 1 : index.value_pos[i] # 0
  /\ op.step = "value" /\ op.value \notin Value \ BadValues => index.value_pos[op.index] = 0
  /\ op.step \in {"torn", "entry"} =>
       /\ op.pos \notin Hole(values)
       /\ \A i \in Entries : index.value_pos[i] = op.pos => i = op.index
  /\ op.step \in {"entry", "count"} => values.chunk[op.pos] = op.value
  /\ op.step = "count" => index.value_pos[op.index] = op.pos

IInv == Types /\ Ownership
-----------------------------------------------------------------------------
(****************************************************************************)
(* Types are preserved.                                                     *)
(****************************************************************************)
USE ListAssumption

(* Longer files leave an index what it is.                                  *)
LEMMA IndexGrows ==
  ASSUME NEW t, NEW n, IndexOf(t, n), t' = t, n' = n,
         Len(values.chunk) \in Nat, Len(values'.chunk) \in Nat,
         Len(values.chunk) <= Len(values'.chunk)
  PROVE  IndexOf(t, n)'
BY DEF IndexOf

LEMMA InitIInv == Init => IInv
<1> SUFFICES ASSUME Init PROVE IInv
  OBVIOUS
<1>1. IsFile(values, Stored) /\ HolesOnce(values)
  BY EmptyIsFile DEF Init
<1>2. IndexOf(index, 0)
  <2>1. [i \in {} |-> 0] \in [0 .. 0 - 1 -> 0 .. Len(values.chunk)]
    OBVIOUS
  <2> QED
    BY <2>1 DEF Init, IndexOf
<1>3. IndexType
  BY <1>2 DEF IndexType
<1>4. FreshType /\ NamedType /\ OpType /\ is_open \in BOOLEAN /\ faults \in 0 .. MaxFaults
  BY DEF Init, FreshType, NamedType, OpType, Idle
<1>5. Ownership
  BY <1>1 DEF Init, Ownership, Entries, Idle
<1> QED
  BY <1>1, <1>3, <1>4, <1>5 DEF IInv, Types, Init

LEMMA SetItemTypes ==
  ASSUME Types, NEW i \in Int, NEW v \in SetValues, SetItem(i, v)
  PROVE  Types'
<1>1. PICK at \in 0 .. index.used - 1 :
        op' = [step |-> "free", call |-> "set", index |-> at, value |-> v, pos |-> 0]
  BY DEF SetItem
<1>2. UNCHANGED <<index, fresh, named, values, is_open, faults>> /\ is_open /\ op = Idle
  BY DEF SetItem
<1>3. index.used \in Nat /\ index.capacity \in Nat /\ index.used <= index.capacity
  BY DEF Types, IndexType, IndexOf
<1>4. OpType'
  BY <1>1, <1>2, <1>3 DEF OpType, Statement
<1>5. FreshType' /\ NamedType'
  BY <1>1, <1>2 DEF Types, FreshType, NamedType, Idle
<1>6. IndexType'
  BY <1>2 DEF Types, IndexType, IndexOf
<1> QED
  BY <1>2, <1>4, <1>5, <1>6 DEF Types

LEMMA AppendItemTypes ==
  ASSUME Types, NEW v \in AppendValues, AppendItem(v)
  PROVE  Types'
<1>1. op' = [step |-> IF index.used >= index.capacity THEN "create" ELSE "free",
             call |-> "append", index |-> index.used, value |-> v, pos |-> 0]
  BY DEF AppendItem
<1>2. UNCHANGED <<index, fresh, named, values, is_open, faults>> /\ is_open /\ op = Idle
  BY DEF AppendItem
<1>3. index.used \in Nat /\ index.capacity \in Nat /\ index.used <= index.capacity
  BY DEF Types, IndexType, IndexOf
<1>4. OpType'
  BY <1>1, <1>2, <1>3 DEF OpType, Statement
<1>5. FreshType' /\ NamedType'
  BY <1>1, <1>2 DEF Types, FreshType, NamedType, Idle
<1>6. IndexType'
  BY <1>2 DEF Types, IndexType, IndexOf
<1> QED
  BY <1>2, <1>4, <1>5, <1>6 DEF Types

(* A statement goes on to its next step.                                    *)
LEMMA StepOp ==
  ASSUME op \in Statement, NEW s, op' = [op EXCEPT !.step = s]
  PROVE  /\ op'.step = s /\ op'.call = op.call /\ op'.index = op.index
         /\ op'.value = op.value /\ op'.pos = op.pos
         /\ s \in {"create", "rename0", "rename1", "header", "free", "value", "torn", "entry",
                   "count"} => op' \in Statement
BY DEF Statement

LEMMA NotIdle ==
  ASSUME OpType, op.step # "idle"
  PROVE  op \in Statement /\ op # Idle
BY DEF OpType, Idle

LEMMA CreateFreshTypes ==
  ASSUME Types, CreateFresh
  PROVE  Types'
<1>1. op \in Statement /\ op.step = "create" /\ op' = [op EXCEPT !.step = "rename0"]
      /\ UNCHANGED <<index, named, values, is_open, faults>>
  BY NotIdle DEF CreateFresh, Types
<1>2. op'.step = "rename0" /\ op' \in Statement /\ op'.call = op.call /\ op'.index = op.index
      /\ op'.value = op.value
  BY <1>1, StepOp
<1>3. PICK n \in Nat : IndexOf(index, n)
  BY DEF Types, IndexType
<1>4. NewCapacity \in Nat /\ NewCapacity > index.capacity
      /\ NewCapacity \in index.capacity .. 2 * index.capacity + 1
  <2>1. index.capacity \in Nat
    BY <1>3 DEF IndexOf
  <2>2. CASE index.capacity = 0
    BY <2>2 DEF NewCapacity
  <2>3. CASE index.capacity # 0
    BY <2>1, <2>3 DEF NewCapacity
  <2> QED
    BY <2>2, <2>3
<1> DEFINE f == [i \in 0 .. NewCapacity - 1 |-> IF i < index.capacity THEN index.value_pos[i] ELSE 0]
<1>5. fresh' = [index EXCEPT !.value_pos = f]
  BY DEF CreateFresh
<1>6. f \in [0 .. NewCapacity - 1 -> 0 .. Len(values.chunk)]
  <2>1. ASSUME NEW i \in 0 .. NewCapacity - 1, i < index.capacity
        PROVE  index.value_pos[i] \in 0 .. Len(values.chunk)
    BY <1>3, <1>4, <2>1 DEF IndexOf
  <2>2. 0 \in 0 .. Len(values.chunk)
    BY DEF Types, IsFile
  <2> QED
    BY <2>1, <2>2
<1>7. fresh' = [used |-> index.used, capacity |-> index.capacity, value_pos |-> f]
  BY <1>3, <1>5 DEF IndexOf
<1>8. NewCapacity' = NewCapacity
  BY <1>1 DEF NewCapacity
<1> HIDE DEF f
<1>9. IndexOf(fresh', NewCapacity)
  BY <1>3, <1>4, <1>6, <1>7 DEF IndexOf
<1>10. IndexOf(fresh, NewCapacity)'
  BY <1>1, <1>8, <1>9 DEF IndexOf
<1>11. FreshType'
  <2>1. \A i \in 0 .. NewCapacity - 1 : f[i] = IF i < index.capacity THEN index.value_pos[i] ELSE 0
    BY DEF f
  <2> QED
    BY <1>1, <1>2, <1>7, <1>8, <1>10, <2>1 DEF FreshType
<1>12. OpType' /\ NamedType'
  <2>1. OpType'
    BY <1>1, <1>2 DEF Types, OpType, Idle
  <2>2. NamedType'
    BY <1>1, <1>2 DEF Types, NamedType
  <2> QED
    BY <2>1, <2>2
<1>13. IndexType'
  BY <1>1 DEF Types, IndexType, IndexOf
<1> QED
  BY <1>1, <1>11, <1>12, <1>13 DEF Types, Idle, OpType, CreateFresh

LEMMA RenameTypes ==
  ASSUME Types, RenameOld \/ RenameNew
  PROVE  Types'
<1>1. PICK s \in {"rename1", "header"} :
        /\ op.step \in {"rename0", "rename1"} /\ op' = [op EXCEPT !.step = s]
        /\ named' = IF s = "header" THEN "fresh" ELSE "none"
        /\ UNCHANGED <<index, fresh, values, is_open, faults>>
  BY DEF RenameOld, RenameNew
<1>2. op \in Statement /\ op # Idle
  BY <1>1, NotIdle DEF Types
<1>3. op'.step = s /\ op' \in Statement /\ op'.call = op.call /\ op'.index = op.index
      /\ op'.value = op.value
  BY <1>1, <1>2, StepOp
<1>4. OpType' /\ NamedType'
  BY <1>1, <1>2, <1>3 DEF Types, OpType, NamedType
<1>5. FreshType'
  BY <1>1, <1>3 DEF Types, FreshType, IndexOf, NewCapacity
<1>6. IndexType'
  BY <1>1 DEF Types, IndexType, IndexOf
<1> QED
  BY <1>1, <1>2, <1>4, <1>5, <1>6 DEF Types

LEMMA SwitchTypes ==
  ASSUME Types, Switch
  PROVE  Types'
<1>1. op \in Statement /\ op # Idle /\ op.step = "header" /\ op' = [op EXCEPT !.step = "free"]
      /\ fresh' = NULL /\ named' = "index" /\ UNCHANGED <<values, is_open, faults>>
      /\ index' = [fresh EXCEPT !.used = index.used, !.capacity = NewCapacity]
  BY NotIdle DEF Switch, Types
<1>2. op'.step = "free" /\ op' \in Statement /\ op'.call = op.call /\ op'.index = op.index
      /\ op'.value = op.value
  BY <1>1, StepOp
<1>3. IndexOf(fresh, NewCapacity)
  BY <1>1 DEF Types, FreshType
<1>4. index' = [used |-> index.used, capacity |-> NewCapacity, value_pos |-> fresh.value_pos]
  BY <1>1, <1>3 DEF IndexOf
<1>5. PICK n \in Nat : n = NewCapacity /\ n > index.capacity
  <2>1. index.capacity \in Nat
    BY DEF Types, IndexType, IndexOf
  <2> QED
    BY <2>1 DEF NewCapacity
<1>6. index.used \in 0 .. n /\ index.used <= index.capacity /\ index.capacity \in Nat
  BY <1>5 DEF Types, IndexType, IndexOf
<1>7. fresh.value_pos \in [0 .. n - 1 -> 0 .. Len(values.chunk)]
  BY <1>3, <1>5 DEF IndexOf
<1>8. /\ index'.used = index.used /\ index'.capacity = n /\ index'.value_pos = fresh.value_pos
      /\ index' = [used |-> index'.used, capacity |-> index'.capacity,
                   value_pos |-> index'.value_pos]
  BY <1>4, <1>5
<1>9. IndexType'
  <2>1. n \in n .. 2 * n + 1
    OBVIOUS
  <2>2. IndexOf(index, n)'
    BY <1>1, <1>6, <1>7, <1>8, <2>1 DEF IndexOf
  <2> QED
    BY <2>2 DEF IndexType
<1>10. OpType'
  <2>1. op.call = "append" /\ op.index = index.used /\ op.value \in Value
    BY <1>1 DEF Types, OpType
  <2>2. op'.call = "append" /\ op'.index = index'.used /\ op'.value \in Value
    BY <1>2, <1>8, <2>1
  <2>3. op'.index < index'.capacity
    BY <1>5, <1>6, <1>8, <2>2
  <2> QED
    BY <1>2, <2>2, <2>3 DEF OpType
<1>11. FreshType' /\ NamedType'
  BY <1>1, <1>2 DEF FreshType, NamedType
<1> QED
  BY <1>1, <1>9, <1>10, <1>11 DEF Types

(* A step of a statement that touches neither index nor the names.          *)
LEMMA StepTypes ==
  ASSUME Types, UNCHANGED <<index, fresh, named, is_open>>,
         IsFile(values, Stored)', Len(values.chunk) <= Len(values'.chunk),
         faults' \in 0 .. MaxFaults, OpType', ~is_open => op' = Idle,
         op.step \notin {"rename0", "rename1", "header"},
         op'.step \notin {"rename0", "rename1", "header"}
  PROVE  Types'
<1>1. PICK n \in Nat : IndexOf(index, n)
  BY DEF Types, IndexType
<1>2. IndexOf(index, n)'
  <2>1. Len(values.chunk) \in Nat /\ Len(values'.chunk) \in Nat
    BY DEF Types, IsFile
  <2> QED
    BY <1>1, <2>1, IndexGrows
<1>3. IndexType'
  BY <1>2 DEF IndexType
<1>4. FreshType' /\ NamedType'
  BY DEF Types, FreshType, NamedType
<1> QED
  BY <1>3, <1>4 DEF Types

LEMMA FreeOldTypes ==
  ASSUME Types, FreeOld
  PROVE  Types'
<1>1. op \in Statement /\ op # Idle /\ op.step = "free" /\ op' = [op EXCEPT !.step = "value"]
      /\ UNCHANGED <<index, fresh, named, is_open, faults>>
  BY NotIdle DEF FreeOld, Types
<1>2. op'.step = "value" /\ op' \in Statement /\ op'.call = op.call /\ op'.index = op.index
      /\ op'.value = op.value
  BY <1>1, StepOp
<1>3. index.value_pos[op.index] \in 0 .. Len(values.chunk)
  <2>1. op.index \in Nat /\ op.index < index.capacity
    BY <1>1 DEF Types, OpType, Statement
  <2> QED
    BY <2>1 DEF Types, IndexType, IndexOf
<1>4. IsFile(values, Stored)' /\ values'.chunk = values.chunk
  <2>1. CASE index.value_pos[op.index] = 0
    BY <2>1 DEF FreeOld, Types
  <2>2. CASE index.value_pos[op.index] # 0
    <3>1. index.value_pos[op.index] \in 1 .. Len(values.chunk)
      BY <1>3, <2>2 DEF Types, IsFile
    <3>2. values' = Freed(values, index.value_pos[op.index])
      BY <2>2 DEF FreeOld
    <3> QED
      BY <3>1, <3>2, FreedIsFile DEF Types
  <2> QED
    BY <2>1, <2>2
<1>5. OpType'
  BY <1>1, <1>2 DEF Types, OpType
<1>6. Len(values.chunk) <= Len(values'.chunk)
  BY <1>4 DEF Types, IsFile
<1> QED
  BY <1>1, <1>2, <1>4, <1>5, <1>6, StepTypes DEF Types

LEMMA MarshalValueTypes ==
  ASSUME Types, MarshalValue
  PROVE  Types'
<1>1. op \in Statement /\ op # Idle /\ op.step = "value" /\ op.value \in Value
      /\ UNCHANGED <<index, fresh, named, is_open, faults>>
  BY NotIdle DEF MarshalValue, Types
<1>2. PICK p \in Allocatable(values) :
        values' = Marshalled(values, p, Torn) /\ op' = [op EXCEPT !.step = "torn", !.pos = p]
  BY DEF MarshalValue, Chunks
<1>3. /\ IsFile(values', Stored) /\ p \in 1 .. Len(values'.chunk)
      /\ Len(values.chunk) <= Len(values'.chunk)
  BY <1>2, MarshalledIsFile DEF Types, Stored
<1>4. op'.step = "torn" /\ op'.call = op.call /\ op'.index = op.index
      /\ op'.value = op.value /\ op'.pos = p /\ p \in Nat
  BY <1>1, <1>2, <1>3 DEF Statement
<1>5. op' \in Statement
  BY <1>1, <1>2, <1>4 DEF Statement
<1>6. OpType'
  BY <1>1, <1>3, <1>4, <1>5 DEF Types, OpType
<1> QED
  BY <1>1, <1>3, <1>4, <1>6, StepTypes DEF Types

LEMMA WriteValueTypes ==
  ASSUME Types, WriteValue
  PROVE  Types'
<1>1. op \in Statement /\ op # Idle /\ op.step = "torn" /\ op' = [op EXCEPT !.step = "entry"]
      /\ UNCHANGED <<index, fresh, named, is_open, faults>>
      /\ values' = Written(values, op.pos, op.value)
  BY NotIdle DEF WriteValue, Types
<1>2. op'.step = "entry" /\ op' \in Statement /\ op'.call = op.call /\ op'.index = op.index
      /\ op'.value = op.value /\ op'.pos = op.pos
  BY <1>1, StepOp
<1>3. op.pos \in 1 .. Len(values.chunk) /\ op.value \in Stored
  BY <1>1 DEF Types, OpType, Stored
<1>4. IsFile(values, Stored)' /\ Len(values'.chunk) = Len(values.chunk)
  BY <1>1, <1>3, WrittenIsFile DEF Types
<1>5. OpType'
  BY <1>1, <1>2, <1>4 DEF Types, OpType
<1>6. Len(values.chunk) <= Len(values'.chunk)
  BY <1>4 DEF Types, IsFile
<1> QED
  BY <1>1, <1>2, <1>4, <1>5, <1>6, StepTypes DEF Types

LEMMA EndTypes ==
  ASSUME Types, ResizeFails \/ MarshalFails
  PROVE  Types'
<1>1. op' = Idle /\ UNCHANGED <<index, named, values, is_open>> /\ fresh' = NULL
      /\ faults' \in 0 .. MaxFaults /\ op # Idle
      /\ op.step \in {"create", "rename0", "rename1", "value"}
  <2>1. CASE ResizeFails
    BY <2>1, NotIdle DEF ResizeFails, Types
  <2>2. CASE MarshalFails
    BY <2>2, NotIdle DEF MarshalFails, Types, FreshType
  <2> QED
    BY <2>1, <2>2
<1>2. FreshType' /\ NamedType' /\ OpType'
  BY <1>1 DEF Types, FreshType, NamedType, OpType, Idle
<1>3. IndexType'
  BY <1>1 DEF Types, IndexType, IndexOf
<1> QED
  BY <1>1, <1>2, <1>3 DEF Types

LEMMA WriteEntryTypes ==
  ASSUME Types, WriteEntry
  PROVE  /\ Types' /\ op.index \in DOMAIN index.value_pos
         /\ index' = [used |-> index.used, capacity |-> index.capacity,
                      value_pos |-> [index.value_pos EXCEPT ![op.index] = op.pos]]
<1>1. op \in Statement /\ op # Idle /\ op.step = "entry" /\ UNCHANGED <<fresh, named, values, is_open, faults>>
      /\ op' = IF op.call = "append" THEN [op EXCEPT !.step = "count"] ELSE Idle
  BY NotIdle DEF WriteEntry, Types
<1>2. op.index \in Nat /\ op.index < index.capacity /\ op.pos \in 1 .. Len(values.chunk)
      /\ op.value \in Value
  BY <1>1 DEF Types, OpType, Statement
<1>3. PICK n \in Nat : IndexOf(index, n)
  BY DEF Types, IndexType
<1>4. op.index \in 0 .. n - 1 /\ DOMAIN index.value_pos = 0 .. n - 1
  BY <1>2, <1>3 DEF IndexOf
<1>5. index' = [index EXCEPT !.value_pos = [@ EXCEPT ![op.index] = op.pos]]
  BY DEF WriteEntry
<1>6. index' = [used |-> index.used, capacity |-> index.capacity,
                value_pos |-> [index.value_pos EXCEPT ![op.index] = op.pos]]
  BY <1>3, <1>5 DEF IndexOf
<1>7. [index.value_pos EXCEPT ![op.index] = op.pos] \in [0 .. n - 1 -> 0 .. Len(values.chunk)]
  <2>1. index.value_pos \in [0 .. n - 1 -> 0 .. Len(values.chunk)] /\ op.pos \in 0 .. Len(values.chunk)
    BY <1>2, <1>3 DEF IndexOf
  <2> QED
    BY <2>1
<1>8. IndexOf(index, n)'
  BY <1>1, <1>3, <1>6, <1>7 DEF IndexOf
<1>9. IndexType'
  BY <1>8 DEF IndexType
<1>10. index'.used = index.used /\ index'.capacity = index.capacity
  BY <1>6
<1>11. OpType'
  <2>1. CASE op.call = "set"
    BY <1>1, <2>1 DEF OpType
  <2>2. CASE op.call = "append"
    <3>1. op' = [op EXCEPT !.step = "count"]
      BY <1>1, <2>2
    <3>2. op'.step = "count" /\ op' \in Statement /\ op'.call = op.call /\ op'.index = op.index
          /\ op'.value = op.value /\ op'.pos = op.pos
      BY <1>1, <3>1, StepOp
    <3> QED
      BY <1>1, <1>2, <1>10, <3>2 DEF Types, OpType
  <2> QED
    BY <1>1, <2>1, <2>2 DEF Statement
<1>12. FreshType' /\ NamedType'
  <2>1. op'.step \in {"count", "idle"}
    BY <1>1, StepOp DEF Idle
  <2> QED
    BY <1>1, <2>1 DEF Types, FreshType, NamedType
<1>13. is_open
  BY <1>1 DEF Types
<1> QED
  BY <1>1, <1>4, <1>6, <1>9, <1>11, <1>12, <1>13 DEF Types

LEMMA CountTypes ==
  ASSUME Types, Count
  PROVE  /\ Types'
         /\ index' = [used |-> op.index + 1, capacity |-> index.capacity, value_pos |-> index.value_pos]
<1>1. op \in Statement /\ op # Idle /\ op.step = "count" /\ op' = Idle
      /\ UNCHANGED <<fresh, named, values, is_open, faults>>
      /\ index' = [index EXCEPT !.used = op.index + 1]
  BY NotIdle DEF Count, Types
<1>2. op.index \in Nat /\ op.index < index.capacity
  BY <1>1 DEF Types, OpType, Statement
<1>3. PICK n \in Nat : IndexOf(index, n)
  BY DEF Types, IndexType
<1>4. index' = [used |-> op.index + 1, capacity |-> index.capacity, value_pos |-> index.value_pos]
  BY <1>1, <1>3 DEF IndexOf
<1>5. op.index + 1 \in 0 .. index.capacity
  BY <1>2, <1>3 DEF IndexOf
<1>6. IndexOf(index, n)'
  BY <1>1, <1>3, <1>4, <1>5 DEF IndexOf
<1>7. IndexType'
  BY <1>6 DEF IndexType
<1>8. FreshType' /\ NamedType' /\ OpType'
  BY <1>1 DEF Types, FreshType, NamedType, OpType, Idle
<1> QED
  BY <1>1, <1>4, <1>7, <1>8 DEF Types

LEMMA StopTypes ==
  ASSUME Types, Close \/ Crash \/ Open
  PROVE  Types'
<1>1. IsFile(values, Stored)' /\ values'.chunk = values.chunk
  BY ReopenedIsFile DEF Types, Close, Crash, Open
<1>2. op' = Idle /\ faults' \in 0 .. MaxFaults /\ is_open' \in BOOLEAN /\ fresh' = NULL
      /\ named' \in {"index", "none"}
  <2>1. CASE Close
    BY <2>1 DEF Close, Types, FreshType, NamedType, Idle
  <2>2. CASE Crash
    <3>1. faults \in 0 .. MaxFaults /\ named \in {"index", "fresh", "none"}
      BY DEF Types, NamedType
    <3>2. faults' = faults + 1 /\ faults < MaxFaults
      BY <2>2 DEF Crash
    <3>3. faults' \in 0 .. MaxFaults
      BY <3>1, <3>2
    <3> QED
      BY <2>2, <3>1, <3>3 DEF Crash
  <2>3. CASE Open
    BY <2>3 DEF Open, Types, FreshType, NamedType, Idle
  <2> QED
    BY <2>1, <2>2, <2>3
<1>3. IndexType'
  <2>1. CASE index' = index
    BY <1>1, <2>1 DEF Types, IndexType, IndexOf
  <2>2. CASE index' # index
    <3>1. index' = fresh /\ op.step = "header"
      BY <2>2 DEF Types, NamedType, Close, Crash, Open
    <3>2. IndexOf(fresh, NewCapacity)
      BY <3>1 DEF Types, FreshType
    <3>3. PICK n \in Nat : n = NewCapacity
      <4>1. index.capacity \in Nat
        BY DEF Types, IndexType, IndexOf
      <4> QED
        BY <4>1 DEF NewCapacity
    <3>4. IndexOf(index, n)'
      BY <1>1, <3>1, <3>2, <3>3 DEF IndexOf
    <3> QED
      BY <3>4 DEF IndexType
  <2> QED
    BY <2>1, <2>2
<1>4. FreshType' /\ NamedType' /\ OpType'
  BY <1>2 DEF FreshType, NamedType, OpType, Idle
<1> QED
  BY <1>1, <1>2, <1>3, <1>4 DEF Types

LEMMA NextTypes ==
  ASSUME Types, [Next]_vars
  PROVE  Types'
<1>1. ASSUME NEW i \in - MaxLen .. MaxLen - 1, NEW v \in SetValues, SetItem(i, v) PROVE Types'
  BY <1>1, SetItemTypes
<1>2. ASSUME NEW v \in AppendValues, AppendItem(v) PROVE Types'
  BY <1>2, AppendItemTypes
<1>3. CASE UNCHANGED vars
  BY <1>3 DEF vars, Types, IndexType, IndexOf, FreshType, NewCapacity, NamedType, OpType, Idle
<1> QED
  BY <1>1, <1>2, <1>3, CreateFreshTypes, RenameTypes, SwitchTypes, FreeOldTypes,
     MarshalValueTypes, WriteValueTypes, EndTypes, WriteEntryTypes, CountTypes, StopTypes DEF Next

(* TypeOK of EMList says the same of the index, once n is hidden.           *)
LEMMA TypesImply == Types => TypeOK
<1> SUFFICES ASSUME Types PROVE TypeOK
  OBVIOUS
<1>1. ASSUME NEW t, NEW n, IndexOf(t, n) PROVE IsIndex(t)
  BY <1>1 DEF IndexOf, IsIndex
<1>2. IsIndex(index) /\ (fresh = NULL \/ IsIndex(fresh))
  BY <1>1 DEF Types, IndexType, FreshType
<1>3. values.chunk \in Seq(Value \cup {Torn})
  BY DEF Types, IsFile, Stored
<1>4. op = Idle \/ op \in Statement
  BY DEF Types, OpType
<1> QED
  BY <1>2, <1>3, <1>4 DEF Types, NamedType, TypeOK, Statement

(* Whatever is assigned, deleted and appended, and wherever a resize fails  *)
(* or the process dies: both indices are well formed, with `used' within    *)
(* the capacity and offsets of chunks that exist.                           *)
THEOREM TypeCorrect == Spec => []TypeOK
<1>1. Init => Types
  BY InitIInv DEF IInv
<1>2. Types /\ [Next]_vars => Types'
  BY NextTypes
<1> QED
  BY <1>1, <1>2, TypesImply, PTL DEF Spec

-----------------------------------------------------------------------------
(****************************************************************************)
(* Ownership is preserved.                                                  *)
(****************************************************************************)
LEMMA IndexFacts ==
  ASSUME Types
  PROVE  /\ \A i \in Entries : i \in Nat /\ index.value_pos[i] \in 0 .. Len(values.chunk)
         /\ \A i \in Nat : i < index.capacity => i \in Entries
         /\ index.used \in Nat /\ index.capacity \in Nat /\ index.used <= index.capacity
         /\ Len(values.chunk) \in Nat /\ 0 \notin Hole(values)
<1>1. PICK n \in Nat : IndexOf(index, n)
  BY DEF Types, IndexType
<1>2. Len(values.chunk) \in Nat /\ 0 \notin Hole(values)
  BY DEF Types, IsFile, Hole
<1> QED
  BY <1>1, <1>2 DEF Entries, IndexOf

LEMMA OpFacts ==
  ASSUME Types, op.step \in {"free", "value", "torn", "entry", "count"}
  PROVE  /\ op \in Statement /\ op # Idle /\ op.index \in Nat /\ op.index < index.capacity
         /\ op.index \in Entries /\ op.call \in {"set", "append"}
         /\ op.call = "set" => op.index < index.used
         /\ op.call = "append" => op.index = index.used
         /\ op.step \in {"torn", "entry", "count"} =>
              op.pos \in 1 .. Len(values.chunk) /\ op.value \in Stored
<1>1. op \in Statement /\ op # Idle
  BY NotIdle DEF Types
<1>2. op.step \in {"torn", "entry", "count"} =>
        op.pos \in 1 .. Len(values.chunk) /\ op.value \in Stored
  BY <1>1 DEF Types, OpType, Stored
<1> QED
  BY <1>1, <1>2, IndexFacts DEF Types, OpType, Statement

(* A step that changes neither the index nor the chunks: nothing was freed  *)
(* before it, or everything is done.                                        *)
LEMMA SameOwnership ==
  ASSUME IInv, UNCHANGED <<index, values>>,
         op.step \notin {"torn", "entry"},
         op.step = "value" => op.value \notin Value \ BadValues,
         op'.step \notin {"value", "torn", "entry", "count"}
  PROVE  Ownership'
<1>1. \A i \in Entries : index.value_pos[i] \notin Hole(values)
  <2>1. CASE op.step # "value"
    BY <2>1 DEF IInv, Ownership, Replaced
  <2>2. CASE op.step = "value"
    <3>1. Replaced = {op.index} /\ index.value_pos[op.index] = 0
      BY <2>2 DEF IInv, Ownership, Replaced
    <3> QED
      BY <3>1, IndexFacts DEF IInv, Ownership
  <2> QED
    BY <2>1, <2>2
<1> QED
  BY <1>1 DEF IInv, Ownership, Entries, Replaced

LEMMA QuietOwnership ==
  ASSUME IInv,
         \/ \E i \in Int, v \in SetValues : SetItem(i, v)
         \/ \E v \in AppendValues : AppendItem(v)
         \/ CreateFresh \/ RenameOld \/ RenameNew \/ ResizeFails \/ MarshalFails
  PROVE  Ownership'
<1>1. UNCHANGED <<index, values>>
  BY DEF SetItem, AppendItem, CreateFresh, RenameOld, RenameNew, ResizeFails, MarshalFails
<1>2. op.step \notin {"torn", "entry"}
  BY DEF SetItem, AppendItem, CreateFresh, RenameOld, RenameNew, ResizeFails, MarshalFails, Idle
<1>3. op.step = "value" => op.value \notin Value \ BadValues
  BY DEF SetItem, AppendItem, CreateFresh, RenameOld, RenameNew, ResizeFails, MarshalFails, Idle
<1>4. op'.step \notin {"value", "torn", "entry", "count"}
  <2>1. CASE CreateFresh \/ RenameOld \/ RenameNew
    <3>1. op \in Statement
      BY <2>1, NotIdle DEF IInv, Types, CreateFresh, RenameOld, RenameNew
    <3> QED
      BY <2>1, <3>1, StepOp DEF CreateFresh, RenameOld, RenameNew
  <2>2. CASE ~(CreateFresh \/ RenameOld \/ RenameNew)
    BY <2>2 DEF SetItem, AppendItem, ResizeFails, MarshalFails, Idle
  <2> QED
    BY <2>1, <2>2
<1> QED
  BY <1>1, <1>2, <1>3, <1>4, SameOwnership

(* The index in use afterwards has the old elements and no other, and its   *)
(* entries are owned as before.                                             *)
LEMMA FreshOwnership ==
  ASSUME IInv, op.step = "header", index'.value_pos = fresh.value_pos,
         index'.used = index.used, values'.chunk = values.chunk,
         Hole(values') \subseteq Hole(values), HolesOnce(values'),
         op'.step \notin {"value", "torn", "entry", "count"}
  PROVE  Ownership'
<1>1. \A i \in 0 .. NewCapacity - 1 :
        fresh.value_pos[i] = IF i < index.capacity THEN index.value_pos[i] ELSE 0
  BY DEF IInv, Types, FreshType
<1>2. Entries' = 0 .. NewCapacity - 1
  BY DEF IInv, Types, FreshType, IndexOf, Entries
<1>3. \A i \in Entries' : \/ index'.value_pos[i] = 0
                          \/ i \in Entries /\ index'.value_pos[i] = index.value_pos[i]
  BY <1>1, <1>2, IndexFacts DEF IInv
<1>4. Replaced = {}
  BY DEF Replaced
<1>5. \A i \in Entries' : index'.value_pos[i] \notin Hole(values')
  BY <1>3, <1>4, IndexFacts DEF IInv, Ownership
<1>6. \A i \in 0 .. index.used - 1 : i \in 0 .. NewCapacity - 1 /\ i < index.capacity
  <2>1. NewCapacity \in Nat /\ index.capacity <= NewCapacity
    BY IndexFacts DEF IInv, NewCapacity
  <2> QED
    BY <2>1, IndexFacts DEF IInv
<1>7. \A i \in 0 .. index'.used - 1 : index'.value_pos[i] # 0
  BY <1>1, <1>6 DEF IInv, Ownership
<1> QED
  BY <1>3, <1>5, <1>7 DEF IInv, Ownership, Entries, Replaced

LEMMA SwitchOwnership ==
  ASSUME IInv, Switch
  PROVE  Ownership'
<1>1. op \in Statement /\ op.step = "header" /\ op' = [op EXCEPT !.step = "free"]
      /\ values' = values /\ index' = [fresh EXCEPT !.used = index.used, !.capacity = NewCapacity]
  BY NotIdle DEF Switch, IInv, Types
<1>2. IndexOf(fresh, NewCapacity)
  BY <1>1 DEF IInv, Types, FreshType
<1>3. index'.value_pos = fresh.value_pos /\ index'.used = index.used
  BY <1>1, <1>2 DEF IndexOf
<1>4. op'.step = "free"
  BY <1>1, StepOp
<1> QED
  BY <1>1, <1>3, <1>4, FreshOwnership DEF IInv, Ownership

LEMMA StopOwnership ==
  ASSUME IInv, Close \/ Crash \/ Open
  PROVE  Ownership'
<1>1. values'.chunk = values.chunk /\ Hole(values') \subseteq Hole(values) /\ HolesOnce(values')
      /\ (Hole(values') = {} \/ (values' = values /\ op.step = "idle"))
  <2>1. CASE Open
    BY <2>1 DEF Open, IInv, Types, Ownership, Idle
  <2>2. CASE Close \/ Crash
    <3>1. values' = Reopened(values)
      BY <2>2 DEF Close, Crash
    <3>2. IsFile(values, Stored)
      BY DEF IInv, Types
    <3>3. /\ Reopened(values).chunk = values.chunk
          /\ Hole(Reopened(values)) = {} /\ HolesOnce(Reopened(values))
      BY <3>2, ReopenedIsFile
    <3> QED
      BY <3>1, <3>3
  <2> QED
    BY <2>1, <2>2
<1>2. op'.step = "idle"
  BY DEF IInv, Types, Close, Crash, Open, Idle
<1>3. CASE index' = index
  <2>1. \A i \in Entries : index.value_pos[i] \notin Hole(values')
    BY <1>1 DEF IInv, Ownership, Replaced
  <2> QED
    BY <1>1, <1>2, <1>3, <2>1 DEF IInv, Ownership, Entries, Replaced
<1>4. CASE index' # index
  <2>1. index' = fresh /\ op.step = "header"
    BY <1>4 DEF IInv, Types, NamedType, Close, Crash, Open
  <2>2. index'.used = index.used
    BY <2>1 DEF IInv, Types, FreshType
  <2> QED
    BY <1>1, <1>2, <2>1, <2>2, FreshOwnership
<1> QED
  BY <1>3, <1>4

LEMMA FreeOldOwnership ==
  ASSUME IInv, NothingToLose, FreeOld
  PROVE  Ownership'
<1> DEFINE old == index.value_pos[op.index]
<1>1. op \in Statement /\ op.index \in Entries /\ op.step = "free"
      /\ op' = [op EXCEPT !.step = "value"] /\ index' = index
  BY OpFacts DEF FreeOld, IInv
<1>2. op'.step = "value" /\ op'.index = op.index /\ op'.value = op.value
  BY <1>1, StepOp
<1>3. Replaced = {} /\ Replaced' = {op.index}
  BY <1>1, <1>2 DEF Replaced
<1>4. HolesOnce(values') /\ Hole(values') \subseteq Hole(values) \cup {old}
  <2>1. CASE old = 0
    BY <2>1 DEF FreeOld, IInv, Ownership
  <2>2. CASE old # 0
    <3>1. old \in 1 .. Len(values.chunk)
      BY <1>1, <2>2, IndexFacts DEF IInv
    <3>2. values' = Freed(values, old)
      BY <2>2 DEF FreeOld
    <3>3. old \notin Hole(values)
      BY <1>1, <1>3 DEF IInv, Ownership
    <3>4. IsFile(values, Stored) /\ HolesOnce(values)
      BY DEF IInv, Types, Ownership
    <3> HIDE DEF old
    <3> QED
      BY <3>1, <3>2, <3>3, <3>4, FreedIsFile
  <2> QED
    BY <2>1, <2>2
<1>5. 0 \notin Hole(values')
  <2>1. CASE old = 0
    BY <2>1, IndexFacts DEF FreeOld, IInv
  <2>2. CASE old # 0
    BY <1>4, <2>2, IndexFacts DEF IInv
  <2> QED
    BY <2>1, <2>2
<1>6. \A i \in Entries \ {op.index} : index.value_pos[i] \notin Hole(values')
  BY <1>1, <1>3, <1>4, <1>5 DEF IInv, Ownership
<1>7. op.value \notin Value \ BadValues => index.value_pos[op.index] = 0
  BY <1>1 DEF NothingToLose
<1> QED
  BY <1>1, <1>2, <1>3, <1>4, <1>6, <1>7 DEF IInv, Ownership, Entries

LEMMA MarshalValueOwnership ==
  ASSUME IInv, MarshalValue
  PROVE  Ownership'
<1>1. op \in Statement /\ op.index \in Entries /\ op.step = "value" /\ index' = index
  BY OpFacts DEF MarshalValue, IInv
<1>2. PICK p \in Allocatable(values) :
        values' = Marshalled(values, p, Torn) /\ op' = [op EXCEPT !.step = "torn", !.pos = p]
  BY DEF MarshalValue, Chunks
<1>3. HolesOnce(values') /\ Hole(values') = Hole(values) \ {p}
  BY <1>2, MarshalledIsFile DEF IInv, Types, Ownership, Stored
<1>4. op'.step = "torn" /\ op'.index = op.index /\ op'.value = op.value /\ op'.pos = p
  BY <1>1, <1>2 DEF Statement
<1>5. Replaced = {op.index} /\ Replaced' = {op.index}
  BY <1>1, <1>4 DEF Replaced
<1>6. ASSUME NEW i \in Entries, index.value_pos[i] = p PROVE i = op.index
  <2>1. p \in Hole(values)
    BY <1>2, <1>6, IndexFacts DEF Allocatable, BagToSet, Hole, IInv
  <2> QED
    BY <1>5, <1>6, <2>1 DEF IInv, Ownership
<1> QED
  BY <1>1, <1>3, <1>4, <1>5, <1>6 DEF IInv, Ownership, Entries

LEMMA WriteValueOwnership ==
  ASSUME IInv, WriteValue
  PROVE  Ownership'
<1>1. op \in Statement /\ op.step = "torn" /\ op' = [op EXCEPT !.step = "entry"]
      /\ index' = index /\ values' = Written(values, op.pos, op.value)
  BY NotIdle DEF WriteValue, IInv, Types
<1>2. op'.step = "entry" /\ op'.index = op.index /\ op'.value = op.value /\ op'.pos = op.pos
  BY <1>1, StepOp
<1>3. op.pos \in 1 .. Len(values.chunk) /\ op.value \in Stored
  BY <1>1, OpFacts DEF IInv
<1>4. values'.holes = values.holes /\ values'.chunk[op.pos] = op.value
  BY <1>1, <1>3, WrittenIsFile DEF IInv, Types
<1>5. Hole(values') = Hole(values) /\ HolesOnce(values')
  BY <1>4 DEF Hole, HolesOnce, IInv, Ownership
<1>6. Replaced = {op.index} /\ Replaced' = {op.index}
  BY <1>1, <1>2 DEF Replaced
<1> QED
  BY <1>1, <1>2, <1>4, <1>5, <1>6 DEF IInv, Ownership, Entries

LEMMA WriteEntryOwnership ==
  ASSUME IInv, WriteEntry
  PROVE  Ownership'
<1>1. op \in Statement /\ op.index \in Entries /\ op.step = "entry" /\ values' = values
  BY OpFacts DEF WriteEntry, IInv
<1>2. index' = [used |-> index.used, capacity |-> index.capacity,
                value_pos |-> [index.value_pos EXCEPT ![op.index] = op.pos]]
  BY WriteEntryTypes DEF IInv
<1>3. op.pos \in 1 .. Len(values.chunk)
  BY <1>1, OpFacts DEF IInv
<1>4. op'.step = "idle" \/ (op'.step = "count" /\ op'.index = op.index
                            /\ op'.value = op.value /\ op'.pos = op.pos)
  BY <1>1, StepOp DEF WriteEntry, Idle
<1>5. Replaced = {op.index} /\ Replaced' = {}
  BY <1>1, <1>4 DEF Replaced
<1>6. Entries' = Entries /\ index'.used = index.used
      /\ \A i \in Entries : index'.value_pos[i] = IF i = op.index THEN op.pos ELSE index.value_pos[i]
  BY <1>1, <1>2 DEF Entries
<1>7. \A i \in Entries : index'.value_pos[i] \notin Hole(values)
  BY <1>1, <1>5, <1>6 DEF IInv, Ownership
<1>8. \A i \in 0 .. index.used - 1 : i \in Entries
  BY IndexFacts DEF IInv
<1>9. \A i \in 0 .. index.used - 1 : index'.value_pos[i] # 0
  BY <1>3, <1>6, <1>8 DEF IInv, Ownership
<1>10. \A i, j \in Entries : index'.value_pos[i] # 0 /\ index'.value_pos[i] = index'.value_pos[j] => i = j
  BY <1>1, <1>6 DEF IInv, Ownership
<1>11. index'.value_pos[op.index] = op.pos /\ values.chunk[op.pos] = op.value
  BY <1>1, <1>6 DEF IInv, Ownership
<1> QED
  BY <1>1, <1>4, <1>5, <1>6, <1>7, <1>9, <1>10, <1>11 DEF IInv, Ownership, Entries

LEMMA CountOwnership ==
  ASSUME IInv, Count
  PROVE  Ownership'
<1>1. op \in Statement /\ op.index \in Entries /\ op.step = "count" /\ op.index = index.used
      /\ values' = values /\ op'.step = "idle"
  BY OpFacts DEF Count, IInv, Types, OpType, Idle
<1>2. index' = [used |-> op.index + 1, capacity |-> index.capacity, value_pos |-> index.value_pos]
  BY CountTypes DEF IInv
<1>3. index.value_pos[op.index] # 0
  BY <1>1, OpFacts DEF IInv, Ownership
<1>4. \A i \in 0 .. index'.used - 1 : i \in 0 .. index.used - 1 \/ i = op.index
  BY <1>1, <1>2, IndexFacts DEF IInv
<1>5. \A i \in 0 .. index'.used - 1 : index'.value_pos[i] # 0
  BY <1>2, <1>3, <1>4 DEF IInv, Ownership
<1>6. Replaced = {} /\ Replaced' = {}
  BY <1>1 DEF Replaced
<1> QED
  BY <1>1, <1>2, <1>5, <1>6 DEF IInv, Ownership, Entries

LEMMA Inductive ==
  ASSUME IInv, NothingToLose, [Next]_vars
  PROVE  IInv'
<1>1. ASSUME NEW i \in - MaxLen .. MaxLen - 1, NEW v \in SetValues, SetItem(i, v) PROVE Ownership'
  <2>1. i \in Int
    OBVIOUS
  <2> QED
    BY <1>1, <2>1, QuietOwnership
<1>2. ASSUME NEW v \in AppendValues, AppendItem(v) PROVE Ownership'
  BY <1>2, QuietOwnership
<1>3. ASSUME UNCHANGED vars PROVE Ownership'
  BY <1>3 DEF vars, IInv, Ownership, Entries, Replaced
<1>4. Ownership'
  BY <1>1, <1>2, <1>3, QuietOwnership, SwitchOwnership, FreeOldOwnership, MarshalValueOwnership,
     WriteValueOwnership, WriteEntryOwnership, CountOwnership, StopOwnership DEF Next
<1> QED
  BY <1>4, NextTypes DEF IInv

LEMMA IInvImplies == IInv => ChunksOwned
<1> SUFFICES ASSUME IInv PROVE ChunksOwned
  OBVIOUS
<1>1. (op # Idle /\ op.step # "free") \/ Replaced = {}
  BY DEF Replaced, Idle
<1>2. \A i \in Entries : index.value_pos[i] \in Hole(values) =>
        op # Idle /\ op.step # "free" /\ i = op.index
  BY <1>1 DEF IInv, Ownership, Replaced
<1> QED
  BY <1>2 DEF IInv, Ownership, ChunksOwned, Entries, Hole, HolesOnce, BagIn, BagToSet

(* While no statement fails after it has freed a value, no two elements     *)
(* share a chunk and no chunk is freed that is not in use, whatever is      *)
(* overwritten and wherever the process dies.                               *)
THEOREM EveryChunkOwned == Spec /\ []NothingToLose => []ChunksOwned
<1>1. Init => IInv
  BY InitIInv
<1>2. IInv /\ NothingToLose /\ [Next]_vars => IInv'
  BY Inductive
<1> QED
  BY <1>1, <1>2, IInvImplies, PTL DEF Spec

-----------------------------------------------------------------------------
(****************************************************************************)
(* Elements.                                                                *)
(****************************************************************************)
LEMMA UsedEntries ==
  ASSUME IInv
  PROVE  \A i \in 0 .. index.used - 1 :
           /\ i \in Nat /\ i < index.capacity /\ i \in Entries
           /\ index.value_pos[i] \in 1 .. Len(values.chunk)
           /\ GetItem(i) = values.chunk[index.value_pos[i]]
<1>1. \A i \in 0 .. index.used - 1 : i \in Nat /\ i < index.capacity /\ i \in Entries
  BY IndexFacts DEF IInv
<1>2. \A i \in 0 .. index.used - 1 : index.value_pos[i] \in 1 .. Len(values.chunk)
  BY <1>1, IndexFacts DEF IInv, Ownership
<1>3. \A i \in 0 .. index.used - 1 : GetItem(i) = values.chunk[index.value_pos[i]]
  BY DEF GetItem, IInv, Ownership
<1> QED
  BY <1>1, <1>2, <1>3

LEMMA ChunksKept ==
  ASSUME IInv, MarshalValue \/ WriteValue
  PROVE  \E p \in Nat :
           /\ op'.pos = p /\ index' = index /\ op'.index = op.index
           /\ \A q \in 1 .. Len(values.chunk) : q # p => values'.chunk[q] = values.chunk[q]
           /\ values'.chunk[p] = IF MarshalValue THEN Torn ELSE op.value
           /\ WriteValue => op.pos = p
<1>1. CASE MarshalValue
  <2>1. op \in Statement /\ index' = index
    BY <1>1, OpFacts DEF MarshalValue, IInv
  <2>2. PICK p \in Allocatable(values) :
          values' = Marshalled(values, p, Torn) /\ op' = [op EXCEPT !.step = "torn", !.pos = p]
    BY <1>1 DEF MarshalValue, Chunks
  <2>3. op'.pos = p /\ op'.index = op.index
    BY <2>1, <2>2 DEF Statement
  <2>4. /\ p \in 1 .. Len(values'.chunk) /\ values'.chunk[p] = Torn
        /\ \A q \in 1 .. Len(values.chunk) : q # p => values'.chunk[q] = values.chunk[q]
    BY <2>2, MarshalledIsFile DEF IInv, Types, Stored
  <2>5. ~WriteValue
    BY <1>1 DEF MarshalValue, WriteValue
  <2> QED
    BY <1>1, <2>1, <2>3, <2>4, <2>5
<1>2. CASE WriteValue
  <2>1. op \in Statement /\ op.step = "torn" /\ op' = [op EXCEPT !.step = "entry"]
        /\ index' = index /\ values' = Written(values, op.pos, op.value)
    BY <1>2, NotIdle DEF WriteValue, IInv, Types
  <2>2. op'.index = op.index /\ op'.pos = op.pos
    BY <2>1, StepOp
  <2>3. op.pos \in 1 .. Len(values.chunk) /\ op.value \in Stored
    BY <2>1, OpFacts DEF IInv
  <2>4. /\ values'.chunk[op.pos] = op.value
        /\ \A q \in 1 .. Len(values.chunk) : q # op.pos => values'.chunk[q] = values.chunk[q]
    BY <2>1, <2>3, WrittenIsFile DEF IInv, Types
  <2>5. ~MarshalValue
    BY <1>2 DEF MarshalValue, WriteValue
  <2> QED
    BY <1>2, <2>1, <2>2, <2>3, <2>4, <2>5
<1> QED
  BY <1>1, <1>2

LEMMA ItemsKept ==
  ASSUME IInv, IInv', [Next]_vars, NEW i \in 0 .. index.used - 1, i \notin Replaced
  PROVE  GetItem(i)' = GetItem(i)
<1>1. /\ i \in Nat /\ i < index.capacity /\ i \in Entries
      /\ index.value_pos[i] \in 1 .. Len(values.chunk)
  BY UsedEntries
<1>2. ASSUME index' = index, values'.chunk = values.chunk PROVE GetItem(i)' = GetItem(i)
  BY <1>2 DEF GetItem
<1>3. ASSUME index' = fresh \/ Switch, op.step = "header", values'.chunk = values.chunk
      PROVE  GetItem(i)' = GetItem(i)
  <2>1. IndexOf(fresh, NewCapacity) /\ index.capacity \in Nat /\ index.capacity <= NewCapacity
        /\ NewCapacity \in Nat
    BY <1>3, IndexFacts DEF IInv, Types, FreshType, NewCapacity
  <2>2. index'.value_pos = fresh.value_pos
    BY <1>3, <2>1 DEF Switch, IndexOf
  <2>3. fresh.value_pos[i] = index.value_pos[i]
    BY <1>1, <1>3, <2>1 DEF IInv, Types, FreshType
  <2> QED
    BY <1>3, <2>2, <2>3 DEF GetItem
<1>4. CASE MarshalValue \/ WriteValue
  <2>1. PICK p \in Nat :
          /\ op'.pos = p /\ index' = index /\ op'.index = op.index
          /\ \A q \in 1 .. Len(values.chunk) : q # p => values'.chunk[q] = values.chunk[q]
    BY <1>4, ChunksKept
  <2>2. i # op.index
    BY <1>4 DEF Replaced, MarshalValue, WriteValue
  <2>3. op'.step \in {"torn", "entry"}
    <3>1. op \in Statement
      BY <1>4, OpFacts DEF IInv, MarshalValue, WriteValue
    <3> QED
      BY <1>4, <3>1 DEF MarshalValue, WriteValue, Statement
  <2>4. index.value_pos[i] # p
    BY <1>1, <2>1, <2>2, <2>3 DEF IInv, Ownership, Entries
  <2> QED
    BY <1>1, <2>1, <2>4 DEF GetItem
<1>5. CASE WriteEntry
  <2>1. i # op.index /\ values' = values
    BY <1>5 DEF Replaced, WriteEntry
  <2>2. index'.value_pos[i] = index.value_pos[i]
    BY <1>1, <1>5, <2>1, WriteEntryTypes DEF IInv, Entries
  <2> QED
    BY <2>1, <2>2 DEF GetItem
<1>6. CASE Count
  <2>1. index'.value_pos = index.value_pos /\ values' = values
    BY <1>6, CountTypes DEF IInv, Count
  <2> QED
    BY <2>1 DEF GetItem
<1>7. CASE Switch
  BY <1>3, <1>7 DEF Switch
<1>8. CASE FreeOld
  BY <1>2, <1>8 DEF FreeOld, Freed
<1>9. CASE Close \/ Crash \/ Open
  <2>1. values'.chunk = values.chunk
    BY <1>9, ReopenedIsFile DEF IInv, Types, Close, Crash, Open
  <2>2. CASE index' = index
    BY <1>2, <2>1, <2>2
  <2>3. CASE index' # index
    <3>1. index' = fresh /\ op.step = "header"
      BY <1>9, <2>3 DEF IInv, Types, NamedType, Close, Crash, Open
    <3> QED
      BY <1>3, <2>1, <3>1
  <2> QED
    BY <2>2, <2>3
<1>10. CASE UNCHANGED vars
  BY <1>2, <1>10 DEF vars
<1>11. ASSUME NEW j \in - MaxLen .. MaxLen - 1, NEW v \in SetValues, SetItem(j, v)
       PROVE  GetItem(i)' = GetItem(i)
  BY <1>2, <1>11 DEF SetItem
<1>12. ASSUME NEW v \in AppendValues, AppendItem(v) PROVE GetItem(i)' = GetItem(i)
  BY <1>2, <1>12 DEF AppendItem
<1>13. CASE CreateFresh \/ RenameOld \/ RenameNew \/ ResizeFails \/ MarshalFails
  BY <1>2, <1>13 DEF CreateFresh, RenameOld, RenameNew, ResizeFails, MarshalFails
<1> QED
  BY <1>4, <1>5, <1>6, <1>7, <1>8, <1>9, <1>10, <1>11, <1>12, <1>13 DEF Next

(* While no statement fails after it has freed a value, no step of one      *)
(* changes the value of another element.                                    *)
THEOREM OthersKept == Spec /\ []NothingToLose => OthersKeepValues
<1>1. Init => IInv
  BY InitIInv
<1>2. IInv /\ NothingToLose /\ [Next]_vars => IInv'
  BY Inductive
<1>3. IInv /\ IInv' /\ [Next]_vars =>
        [\A i \in 0 .. index.used - 1 :
           op # Idle /\ op.index # i => GetItem(i)' = GetItem(i)]_vars
  <2> SUFFICES ASSUME IInv, IInv', [Next]_vars, NEW i \in 0 .. index.used - 1,
                      op # Idle, op.index # i
               PROVE  GetItem(i)' = GetItem(i)
    OBVIOUS
  <2>1. i \notin Replaced
    BY DEF Replaced
  <2> QED
    BY <2>1, ItemsKept
<1> QED
  BY <1>1, <1>2, <1>3, PTL DEF Spec, OthersKeepValues

-----------------------------------------------------------------------------
(****************************************************************************)
(* EMList implements PyList, for any values and statements and any bounds,  *)
(* as long as no statement fails after it has freed a value.                *)
(****************************************************************************)
USE ListAssumption

(* What PyList sees of EMList.                                              *)
Elements == [i \in 1 .. Length |-> GetItem(i - 1)]
Busy == IF op = Idle THEN NULL ELSE [index |-> op.index + 1, value |-> op.value]

ElementsAre ==
  /\ index.used \in Nat
  /\ Elements \in Seq(Stored)
  /\ Len(Elements) = index.used /\ DOMAIN Elements = 1 .. index.used
  /\ \A i \in 1 .. index.used : Elements[i] = GetItem(i - 1)

LEMMA IInvElements == IInv => ElementsAre
<1> SUFFICES ASSUME IInv PROVE ElementsAre
  OBVIOUS
<1>1. index.used \in Nat
  BY IndexFacts DEF IInv
<1>2. ASSUME NEW i \in 1 .. index.used PROVE GetItem(i - 1) \in Stored
  <2>1. i - 1 \in 0 .. index.used - 1
    BY <1>1
  <2>2. /\ index.value_pos[i - 1] \in 1 .. Len(values.chunk)
        /\ GetItem(i - 1) = values.chunk[index.value_pos[i - 1]]
    BY <2>1, UsedEntries
  <2> QED
    BY <2>2, ElementOfSeq DEF IInv, Types, IsFile
<1>3. Elements \in [1 .. index.used -> Stored]
  BY <1>2 DEF Elements, Length
<1>4. Elements \in Seq(Stored)
  BY <1>1, <1>3, SeqDef
<1>5. Len(Elements) = index.used
  BY <1>1, <1>3, <1>4, LenProperties
<1>6. \A i \in 1 .. index.used : Elements[i] = GetItem(i - 1)
  BY DEF Elements, Length
<1> QED
  BY <1>1, <1>3, <1>4, <1>5, <1>6 DEF ElementsAre

LEMMA ElementsFacts ==
  ASSUME IInv
  PROVE  /\ index.used \in Nat
         /\ Elements \in Seq(Stored)
         /\ Len(Elements) = index.used /\ DOMAIN Elements = 1 .. index.used
         /\ \A i \in 1 .. index.used : Elements[i] = GetItem(i - 1)
BY IInvElements DEF ElementsAre

LEMMA NextElements == IInv' => ElementsAre'
BY IInvElements, PTL

LEMMA NextElementsFacts ==
  ASSUME IInv'
  PROVE  /\ index'.used \in Nat
         /\ Elements' \in Seq(Stored)
         /\ Len(Elements') = index'.used
         /\ \A i \in 1 .. index'.used : Elements'[i] = GetItem(i - 1)'
BY NextElements DEF ElementsAre

(* A statement under way is not NULL.                                       *)
LEMMA BusyFacts ==
  ASSUME IInv
  PROVE  Busy = NULL <=> op = Idle
<1>1. CASE op = Idle
  BY <1>1 DEF Busy
<1>2. CASE op # Idle
  <2>1. op.index \in Nat /\ op.value \in Value \cup {NULL}
    BY <1>2 DEF IInv, Types, OpType, Statement
  <2>2. [index |-> op.index + 1, value |-> op.value] \in [index : Nat, value : Value \cup {NULL}]
    BY <2>1
  <2> QED
    BY <1>2, <2>2 DEF Busy, ListAssumption
<1> QED
  BY <1>1, <1>2

(* The list after a step that leaves its length and all elements but one.   *)
LEMMA SameElements ==
  ASSUME IInv, IInv', index'.used = index.used,
         \A i \in 0 .. index.used - 1 : GetItem(i)' = GetItem(i)
  PROVE  Elements' = Elements
<1>1. \A i \in 1 .. index.used : i - 1 \in 0 .. index.used - 1
  BY ElementsFacts
<1>2. \A i \in 1 .. index.used : Elements'[i] = Elements[i]
  BY <1>1, ElementsFacts, NextElementsFacts
<1> QED
  BY <1>2, ElementsFacts, NextElementsFacts, SeqEqual

LEMMA OneElement ==
  ASSUME IInv, IInv', index'.used = index.used, NEW k \in 0 .. index.used - 1,
         \A i \in 0 .. index.used - 1 : i # k => GetItem(i)' = GetItem(i)
  PROVE  Elements' = [Elements EXCEPT ![k + 1] = GetItem(k)']
<1>1. \A i \in 1 .. index.used : i - 1 \in 0 .. index.used - 1 /\ (i # k + 1 => i - 1 # k)
  BY ElementsFacts
<1>2. k + 1 \in 1 .. index.used /\ k + 1 - 1 = k
  BY ElementsFacts
<1>3. GetItem(k)' = Elements'[k + 1]
  BY <1>2, NextElementsFacts
<1>4. GetItem(k)' \in Stored
  BY <1>2, <1>3, NextElementsFacts, ElementOfSeq
<1> DEFINE e == [Elements EXCEPT ![k + 1] = Elements'[k + 1]]
<1>5. e \in Seq(Stored) /\ Len(e) = index.used
  BY <1>2, <1>3, <1>4, ElementsFacts, ExceptSeq
<1>6. \A i \in 1 .. index.used : e[i] = Elements'[i]
  BY <1>1, <1>2, ElementsFacts, NextElementsFacts
<1>7. e = Elements'
  BY <1>5, <1>6, NextElementsFacts, SeqEqual
<1> QED
  BY <1>3, <1>7

LEMMA KeptElements ==
  ASSUME IInv, IInv', [Next]_vars, index'.used = index.used,
         \A i \in 0 .. index.used - 1 : i \notin Replaced
  PROVE  Elements' = Elements
BY ItemsKept, SameElements

-----------------------------------------------------------------------------
(****************************************************************************)
(* What each step does to the list.                                         *)
(****************************************************************************)
LEMMA SetItemBegins ==
  ASSUME IInv, IInv', NothingToLose', [Next]_vars,
         NEW i \in Int, NEW v \in SetValues, SetItem(i, v)
  PROVE  \E k \in 1 .. Len(Elements) + 1, x \in Value :
           /\ is_open /\ Busy = NULL /\ Busy' = [index |-> k, value |-> x]
           /\ Elements' = Elements /\ is_open' = is_open
<1>1. PICK at \in 0 .. index.used - 1 :
        op' = [step |-> "free", call |-> "set", index |-> at, value |-> v, pos |-> 0]
  BY DEF SetItem
<1>2. UNCHANGED <<index, fresh, named, values, is_open, faults>> /\ is_open /\ op = Idle
  BY DEF SetItem
<1>3. v \in Value
  <2>1. index.value_pos[at] # 0
    BY DEF IInv, Ownership
  <2> QED
    BY <1>1, <1>2, <2>1 DEF NothingToLose
<1>4. Elements' = Elements
  <2>1. Replaced = {}
    BY <1>2 DEF Replaced, Idle
  <2> QED
    BY <1>2, <2>1, KeptElements
<1>5. Busy = NULL /\ Busy' = [index |-> at + 1, value |-> v]
  BY <1>1, <1>2 DEF Busy, Idle
<1>6. at + 1 \in 1 .. Len(Elements) + 1
  BY ElementsFacts
<1> QED
  BY <1>2, <1>3, <1>4, <1>5, <1>6

LEMMA AppendItemBegins ==
  ASSUME IInv, IInv', [Next]_vars, NEW v \in AppendValues, AppendItem(v)
  PROVE  \E k \in 1 .. Len(Elements) + 1, x \in Value :
           /\ is_open /\ Busy = NULL /\ Busy' = [index |-> k, value |-> x]
           /\ Elements' = Elements /\ is_open' = is_open
<1>1. op' = [step |-> IF index.used >= index.capacity THEN "create" ELSE "free",
             call |-> "append", index |-> index.used, value |-> v, pos |-> 0]
  BY DEF AppendItem
<1>2. UNCHANGED <<index, fresh, named, values, is_open, faults>> /\ is_open /\ op = Idle
  BY DEF AppendItem
<1>3. Elements' = Elements
  <2>1. Replaced = {}
    BY <1>2 DEF Replaced, Idle
  <2> QED
    BY <1>2, <2>1, KeptElements
<1>4. op' # Idle /\ op'.index = index.used /\ op'.value = v
  BY <1>1 DEF Idle
<1>5. Busy = NULL /\ Busy' = [index |-> index.used + 1, value |-> v]
  BY <1>2, <1>4 DEF Busy
<1>6. index.used + 1 \in 1 .. Len(Elements) + 1 /\ v \in Value
  BY ElementsFacts
<1> QED
  BY <1>2, <1>3, <1>5, <1>6

(* Making room and freeing the old value do not show.                       *)
LEMMA QuietStep ==
  ASSUME IInv, IInv', [Next]_vars,
         CreateFresh \/ RenameOld \/ RenameNew \/ Switch \/ FreeOld
  PROVE  Elements' = Elements /\ Busy' = Busy /\ is_open' = is_open
<1>1. op.step \in {"create", "rename0", "rename1", "header", "free"} /\ is_open' = is_open
  BY DEF CreateFresh, RenameOld, RenameNew, Switch, FreeOld
<1>2. op \in Statement /\ op # Idle
  BY <1>1, NotIdle DEF IInv, Types
<1>3. op' # Idle /\ op'.index = op.index /\ op'.value = op.value
  <2>1. PICK s \in {"rename0", "rename1", "header", "free", "value"} : op' = [op EXCEPT !.step = s]
    BY DEF CreateFresh, RenameOld, RenameNew, Switch, FreeOld
  <2> QED
    BY <1>2, <2>1, StepOp DEF Idle
<1>4. index'.used = index.used
  <2>1. CASE Switch
    <3>1. IndexOf(fresh, NewCapacity)
      BY <2>1 DEF Switch, IInv, Types, FreshType
    <3> QED
      BY <2>1, <3>1 DEF Switch, IndexOf
  <2>2. CASE ~Switch
    BY <2>2 DEF CreateFresh, RenameOld, RenameNew, FreeOld
  <2> QED
    BY <2>1, <2>2
<1>5. Elements' = Elements
  BY <1>1, <1>4, KeptElements DEF Replaced
<1> QED
  BY <1>1, <1>2, <1>3, <1>5 DEF Busy

LEMMA FailStep ==
  ASSUME IInv, IInv', [Next]_vars, ResizeFails \/ MarshalFails
  PROVE  /\ Busy # NULL /\ Busy.index = Len(Elements) + 1 /\ Busy' = NULL
         /\ Elements' = Elements /\ is_open' = is_open
<1>1. op.step \in {"create", "rename0", "rename1", "value"} /\ is_open' = is_open /\ index' = index
      /\ op' = Idle
  BY DEF ResizeFails, MarshalFails
<1>2. op \in Statement /\ op # Idle
  BY <1>1, NotIdle DEF IInv, Types
<1>3. op.index = index.used
  <2>1. CASE ResizeFails
    BY <1>2, <2>1 DEF ResizeFails, IInv, Types, OpType
  <2>2. CASE MarshalFails
    <3>1. op.step = "value" /\ op.value \notin Value \ BadValues
      BY <2>2 DEF MarshalFails
    <3>2. index.value_pos[op.index] = 0
      BY <3>1 DEF IInv, Ownership
    <3>3. op.index \notin 0 .. index.used - 1
      BY <3>2 DEF IInv, Ownership
    <3>4. op.index \in Nat /\ (op.index < index.used \/ op.index = index.used)
      BY <3>1, OpFacts DEF IInv
    <3> QED
      BY <3>3, <3>4, IndexFacts DEF IInv
  <2> QED
    BY <2>1, <2>2
<1>4. Elements' = Elements
  <2>1. \A i \in 0 .. index.used - 1 : i \notin Replaced
    BY <1>3, IndexFacts DEF IInv, Replaced
  <2> QED
    BY <1>1, <2>1, KeptElements
<1>5. Busy.index = Len(Elements) + 1
  BY <1>2, <1>3, ElementsFacts DEF Busy
<1>6. Busy # NULL /\ Busy' = NULL
  BY <1>1, <1>2, BusyFacts DEF Busy
<1> QED
  BY <1>1, <1>4, <1>5, <1>6

(* Allocating the chunk may reuse the one just freed: then the old value is *)
(* overwritten with the new one, in two steps.                              *)
LEMMA ChunkStep ==
  ASSUME IInv, IInv', [Next]_vars, MarshalValue \/ WriteValue,
         NEW x, x = IF MarshalValue THEN Torn ELSE op.value
  PROVE  /\ Busy # NULL /\ Busy' = Busy /\ is_open' = is_open
         /\ \/ Elements' = Elements
            \/ /\ Busy.index \in DOMAIN Elements /\ Busy.value = op.value
               /\ Elements' = [Elements EXCEPT ![Busy.index] = x]
<1>1. op.step \in {"value", "torn"} /\ is_open' = is_open
  BY DEF MarshalValue, WriteValue
<1>2. op \in Statement /\ op # Idle /\ op.index \in Nat
  BY <1>1, OpFacts DEF IInv
<1>3. PICK p \in Nat :
        /\ op'.pos = p /\ index' = index /\ op'.index = op.index
        /\ \A q \in 1 .. Len(values.chunk) : q # p => values'.chunk[q] = values.chunk[q]
        /\ values'.chunk[p] = x
  BY ChunksKept
<1>4. op' # Idle /\ op'.value = op.value
  <2>1. CASE MarshalValue
    <3>1. PICK q : op' = [op EXCEPT !.step = "torn", !.pos = q]
      BY <2>1 DEF MarshalValue
    <3> QED
      BY <1>2, <3>1 DEF Statement, Idle
  <2>2. CASE WriteValue
    BY <1>2, <2>2, StepOp DEF WriteValue, Idle
  <2> QED
    BY <2>1, <2>2
<1>5. Busy' = Busy /\ Busy # NULL
  BY <1>2, <1>3, <1>4, BusyFacts DEF Busy
<1>6. PICK k \in Nat : k = op.index
  BY <1>2
<1>7. \A i \in 0 .. index.used - 1 : i # k => GetItem(i)' = GetItem(i)
  BY <1>6, ItemsKept DEF Replaced
<1>8. Busy.index = k + 1 /\ Busy.value = op.value
  BY <1>2, <1>6 DEF Busy
<1>9. CASE k \in 0 .. index.used - 1 /\ index.value_pos[k] = p
  <2>1. p # 0
    BY <1>9, UsedEntries
  <2>2. GetItem(k)' = x
    BY <1>3, <1>9, <2>1 DEF GetItem
  <2>3. Elements' = [Elements EXCEPT ![k + 1] = GetItem(k)']
    BY <1>3, <1>7, <1>9, OneElement
  <2>4. k + 1 \in DOMAIN Elements
    BY <1>9, ElementsFacts
  <2> QED
    BY <1>1, <1>5, <1>8, <2>2, <2>3, <2>4
<1>10. CASE ~(k \in 0 .. index.used - 1 /\ index.value_pos[k] = p)
  <2>1. ASSUME k \in 0 .. index.used - 1 PROVE GetItem(k)' = GetItem(k)
    <3>1. index.value_pos[k] # p /\ index.value_pos[k] \in 1 .. Len(values.chunk)
      BY <1>10, <2>1, UsedEntries
    <3> QED
      BY <1>3, <3>1 DEF GetItem
  <2>2. \A i \in 0 .. index.used - 1 : GetItem(i)' = GetItem(i)
    BY <1>7, <2>1
  <2>3. Elements' = Elements
    BY <1>3, <2>2, SameElements
  <2> QED
    BY <1>1, <1>5, <2>3
<1> QED
  BY <1>9, <1>10

LEMMA EntryStep ==
  ASSUME IInv, IInv', [Next]_vars, WriteEntry
  PROVE  /\ is_open' = is_open /\ Busy # NULL
         /\ \/ Elements' = Elements /\ Busy' = Busy
            \/ /\ Busy.index \in DOMAIN Elements /\ Busy' = NULL
               /\ Elements' = [Elements EXCEPT ![Busy.index] = Busy.value]
<1>1. op.step = "entry" /\ is_open' = is_open /\ values' = values
      /\ op' = IF op.call = "append" THEN [op EXCEPT !.step = "count"] ELSE Idle
  BY DEF WriteEntry
<1>2. PICK k \in Nat :
        /\ k = op.index /\ k \in Entries /\ op \in Statement /\ op # Idle
        /\ op.call \in {"set", "append"}
        /\ op.call = "set" => k < index.used
        /\ op.call = "append" => k = index.used
        /\ op.pos \in 1 .. Len(values.chunk)
  BY <1>1, OpFacts DEF IInv
<1>3. index' = [used |-> index.used, capacity |-> index.capacity,
                value_pos |-> [index.value_pos EXCEPT ![op.index] = op.pos]]
  BY WriteEntryTypes DEF IInv
<1>4. \A i \in 0 .. index.used - 1 : i # k => GetItem(i)' = GetItem(i)
  BY <1>2, ItemsKept DEF Replaced
<1>5. Busy # NULL /\ Busy.index = k + 1 /\ Busy.value = op.value
  BY <1>2, BusyFacts DEF Busy
<1>6. CASE op.call = "append"
  <2>1. op' # Idle /\ op'.index = op.index /\ op'.value = op.value
    BY <1>1, <1>2, <1>6, StepOp DEF Idle
  <2>2. Busy' = Busy
    BY <1>2, <2>1 DEF Busy
  <2>3. \A i \in 0 .. index.used - 1 : i # k
    BY <1>2, <1>6, ElementsFacts
  <2>4. Elements' = Elements
    BY <1>3, <1>4, <2>3, SameElements
  <2> QED
    BY <1>1, <1>5, <2>2, <2>4
<1>7. CASE op.call = "set"
  <2>1. k \in 0 .. index.used - 1
    BY <1>2, <1>7, ElementsFacts
  <2>2. index'.value_pos[k] = op.pos /\ op.pos # 0
    BY <1>2, <1>3 DEF Entries
  <2>3. GetItem(k)' = op.value
    BY <1>1, <2>2 DEF GetItem, IInv, Ownership
  <2>4. Elements' = [Elements EXCEPT ![k + 1] = GetItem(k)']
    BY <1>3, <1>4, <2>1, OneElement
  <2>5. k + 1 \in DOMAIN Elements
    BY <2>1, ElementsFacts
  <2>6. Busy' = NULL
    BY <1>1, <1>7 DEF Busy
  <2> QED
    BY <1>1, <1>5, <2>3, <2>4, <2>5, <2>6
<1> QED
  BY <1>2, <1>6, <1>7

LEMMA CountStep ==
  ASSUME IInv, IInv', [Next]_vars, Count
  PROVE  /\ is_open' = is_open /\ Busy # NULL /\ Busy' = NULL
         /\ Busy.index > Len(Elements) /\ Elements' = Append(Elements, Busy.value)
<1>1. op.step = "count" /\ is_open' = is_open /\ values' = values /\ op' = Idle
  BY DEF Count
<1>2. PICK k \in Nat :
        /\ k = op.index /\ op \in Statement /\ op # Idle /\ k = index.used
        /\ op.pos \in 1 .. Len(values.chunk) /\ op.value \in Stored
  BY <1>1, OpFacts DEF IInv, Types, OpType
<1>3. index' = [used |-> op.index + 1, capacity |-> index.capacity, value_pos |-> index.value_pos]
  BY CountTypes DEF IInv
<1>4. \A i \in 0 .. index.used - 1 : GetItem(i)' = GetItem(i)
  BY <1>1, ItemsKept DEF Replaced
<1>5. Busy # NULL /\ Busy.index = k + 1 /\ Busy.value = op.value /\ Busy' = NULL
  BY <1>1, <1>2, BusyFacts DEF Busy
<1>6. GetItem(k)' = op.value
  <2>1. index.value_pos[k] = op.pos /\ values.chunk[op.pos] = op.value /\ op.pos # 0
    BY <1>1, <1>2 DEF IInv, Ownership
  <2> QED
    BY <1>1, <1>3, <2>1 DEF GetItem
<1> DEFINE longer == Append(Elements, op.value)
<1>7. longer \in Seq(Stored) /\ Len(longer) = k + 1
  BY <1>2, ElementsFacts
<1>8. index'.used = k + 1
  BY <1>2, <1>3
<1>9. \A i \in 1 .. k + 1 : longer[i] = Elements'[i]
  <2>1. ASSUME NEW i \in 1 .. k PROVE longer[i] = Elements'[i]
    <3>1. longer[i] = Elements[i] /\ Elements[i] = GetItem(i - 1)
      BY <1>2, ElementsFacts
    <3>2. i - 1 \in 0 .. index.used - 1 /\ i \in 1 .. index'.used
      BY <1>2, <1>8
    <3>3. Elements'[i] = GetItem(i - 1)'
      BY <3>2, NextElementsFacts
    <3>4. PICK j \in 0 .. index.used - 1 : j = i - 1
      BY <3>2
    <3> QED
      BY <1>4, <3>1, <3>3, <3>4
  <2>2. longer[k + 1] = Elements'[k + 1]
    <3>1. longer[k + 1] = op.value
      BY <1>2, ElementsFacts
    <3>2. k + 1 \in 1 .. index'.used /\ k + 1 - 1 = k
      BY <1>8
    <3> QED
      BY <1>6, <3>1, <3>2, NextElementsFacts
  <2>3. \A i \in 1 .. k + 1 : i \in 1 .. k \/ i = k + 1
    OBVIOUS
  <2> QED
    BY <2>1, <2>2, <2>3
<1>10. longer = Elements'
  <2> HIDE DEF longer
  <2> QED
    BY <1>7, <1>8, <1>9, NextElementsFacts, SeqEqual
<1>11. Busy.index > Len(Elements)
  BY <1>2, <1>5, ElementsFacts
<1> QED
  BY <1>1, <1>5, <1>10, <1>11

LEMMA StopStep ==
  ASSUME IInv, IInv', [Next]_vars, Close \/ Crash \/ Open
  PROVE  /\ Elements' = Elements /\ Busy' = NULL /\ is_open' = ~is_open
         /\ ~is_open => Busy = NULL
<1>1. op' = Idle /\ is_open' = ~is_open /\ (~is_open => op = Idle)
  BY DEF Close, Crash, Open, IInv, Types
<1>2. index'.used = index.used
  <2>1. CASE index' = index
    BY <2>1
  <2>2. CASE index' # index
    BY <2>2 DEF Close, Crash, Open, IInv, Types, NamedType, FreshType
  <2> QED
    BY <2>1, <2>2
<1>3. ASSUME NEW i \in 0 .. index.used - 1 PROVE GetItem(i)' = GetItem(i)
  <2>1. CASE i \notin Replaced
    BY <2>1, ItemsKept
  <2>2. CASE i \in Replaced
    <3>1. op.step # "header"
      BY <2>2 DEF Replaced
    <3>2. index' = index
      BY <3>1 DEF Close, Crash, Open, IInv, Types, NamedType
    <3>3. values'.chunk = values.chunk
      BY ReopenedIsFile DEF IInv, Types, Close, Crash, Open
    <3> QED
      BY <3>2, <3>3 DEF GetItem
  <2> QED
    BY <2>1, <2>2
<1> QED
  BY <1>1, <1>2, <1>3, SameElements DEF Busy

-----------------------------------------------------------------------------
(****************************************************************************)
(* Every step of EMList is one of PyList's or does not show.                *)
(****************************************************************************)
ListVars == <<Elements, Busy, is_open>>

LEMMA UpdatedInPlace ==
  ASSUME IInv, Busy.index \in DOMAIN Elements
  PROVE  List!Updated = [Elements EXCEPT ![Busy.index] = Busy.value]
<1>1. ~(Busy.index > Len(Elements))
  BY ElementsFacts
<1> QED
  BY <1>1, Zenon DEF List!Updated, Elements, Busy

LEMMA ListStep ==
  ASSUME IInv, IInv', NothingToLose', [Next]_vars
  PROVE  [List!Next]_ListVars
<1>1. ASSUME UNCHANGED ListVars PROVE [List!Next]_ListVars
  BY <1>1
<1>2. ASSUME NEW k \in 1 .. Len(Elements) + 1, NEW x \in Value,
             is_open, Busy = NULL, Busy' = [index |-> k, value |-> x],
             Elements' = Elements, is_open' = is_open
      PROVE  [List!Next]_ListVars
  BY <1>2 DEF List!Next, List!Begin, Elements, Busy
<1>3. ASSUME NEW i \in - MaxLen .. MaxLen - 1, NEW v \in SetValues, SetItem(i, v)
      PROVE  [List!Next]_ListVars
  <2>1. i \in Int
    OBVIOUS
  <2> QED
    BY <1>2, <1>3, <2>1, SetItemBegins
<1>4. ASSUME NEW v \in AppendValues, AppendItem(v) PROVE [List!Next]_ListVars
  BY <1>2, <1>4, AppendItemBegins
<1>5. CASE CreateFresh \/ RenameOld \/ RenameNew \/ Switch \/ FreeOld
  BY <1>1, <1>5, QuietStep DEF ListVars
<1>6. CASE ResizeFails \/ MarshalFails
  BY <1>6, FailStep DEF List!Next, List!Fail, Elements, Busy
<1>7. CASE MarshalValue
  BY <1>1, <1>7, ChunkStep DEF ListVars, List!Next, List!Tear, Elements, Busy
<1>8. CASE WriteValue
  <2>1. ~MarshalValue
    BY <1>8 DEF WriteValue, MarshalValue
  <2>2. CASE Elements' = Elements
    BY <1>1, <1>8, <2>2, ChunkStep DEF ListVars
  <2>3. CASE Elements' # Elements
    <3>1. Busy # NULL /\ Busy' = Busy /\ is_open' = is_open
      BY <1>8, ChunkStep
    <3>2. Busy.index \in DOMAIN Elements
          /\ Elements' = [Elements EXCEPT ![Busy.index] = Busy.value]
      BY <1>8, <2>1, <2>3, ChunkStep
    <3>3. Elements' = List!Updated
      BY <3>2, UpdatedInPlace
    <3> QED
      BY <3>1, <3>3 DEF List!Next, List!Apply, Elements, Busy
  <2> QED
    BY <2>2, <2>3
<1>9. CASE WriteEntry
  <2>1. CASE Elements' = Elements /\ Busy' = Busy
    BY <1>1, <1>9, <2>1, EntryStep DEF ListVars
  <2>2. CASE ~(Elements' = Elements /\ Busy' = Busy)
    <3>1. Busy # NULL /\ Busy' = NULL /\ is_open' = is_open
      BY <1>9, <2>2, EntryStep
    <3>2. Busy.index \in DOMAIN Elements
          /\ Elements' = [Elements EXCEPT ![Busy.index] = Busy.value]
      BY <1>9, <2>2, EntryStep
    <3>3. Elements' = List!Updated
      BY <3>2, UpdatedInPlace
    <3> QED
      BY <3>1, <3>3 DEF List!Next, List!End, Elements, Busy
  <2> QED
    BY <2>1, <2>2
<1>10. CASE Count
  BY <1>10, CountStep DEF List!Next, List!End, List!Updated, Elements, Busy
<1>11. CASE Close \/ Crash \/ Open
  BY <1>11, StopStep DEF List!Next, List!Stop, List!Start, Elements, Busy
<1>12. CASE UNCHANGED vars
  <2>1. Busy' = Busy /\ is_open' = is_open
    BY <1>12 DEF vars, Busy
  <2>2. Elements' = Elements
    BY <1>12, SameElements DEF vars, GetItem
  <2> QED
    BY <1>1, <2>1, <2>2 DEF ListVars
<1> QED
  BY <1>3, <1>4, <1>5, <1>6, <1>7, <1>8, <1>9, <1>10, <1>11, <1>12 DEF Next

(* While no statement fails after it has freed a value, the file behaves as *)
(* the Python list it stands for, whatever is assigned, overwritten and     *)
(* appended, wherever a resize fails and wherever the process dies.         *)
THEOREM Refinement == Spec /\ []NothingToLose => ImplementsList
<1>1. Init => List!Init
  <2> SUFFICES ASSUME Init PROVE List!Init
    OBVIOUS
  <2>1. IInv
    BY InitIInv
  <2>2. Elements = <<>>
    BY <2>1, ElementsFacts DEF Init
  <2>3. Busy = NULL /\ is_open = TRUE
    BY DEF Init, Busy
  <2> QED
    BY <2>2, <2>3 DEF List!Init, Elements, Busy
<1>2. Init => IInv
  BY InitIInv
<1>3. IInv /\ NothingToLose /\ [Next]_vars => IInv'
  BY Inductive
<1>4. IInv /\ IInv' /\ NothingToLose' /\ [Next]_vars => [List!Next]_ListVars
  BY ListStep
<1> QED
  BY <1>1, <1>2, <1>3, <1>4, PTL DEF Spec, ImplementsList, List!Spec, List!vars, ListVars, Elements, Busy
=============================================================================
