------------------------ MODULE EMListThreadsProofs ------------------------
(****************************************************************************)
(* Theorems about EMListThreads, for any number of threads, of which one at *)
(* most appends and no two assign to the same element, and any values.      *)
(****************************************************************************)
EXTENDS EMListThreads, ValuesFileProofs, FiniteSetTheorems, SequenceTheorems

(* What the program has to keep to.                                         *)
Separate ==
  /\ \A s, t \in Appender : s = t
  /\ \A s, t \in Thread : s # t => Assigned[s] \cap Assigned[t] = {}

(****************************************************************************)
(* The invariant.                                                           *)
(****************************************************************************)
Statement ==
  [call : {"append", "set"}, index : Nat, value : Value, map : Nat]

IndexOf(n) ==
  /\ index = [used |-> index.used, value_pos |-> index.value_pos, map |-> index.map]
  /\ n \in Nat /\ index.used \in 0 .. n /\ index.map \in Nat
  /\ index.value_pos \in [0 .. n - 1 -> 0 .. Len(values.chunk)]

(* A statement that appends goes on with the index as it is, one that       *)
(* assigns has an element of its thread's own.                              *)
DoingType ==
  \A t \in Thread : doing[t] # NULL =>
    /\ doing[t].call = "append" =>
         /\ t \in Appender
         /\ doing[t].index = index.used /\ index.used \in DOMAIN index.value_pos
         /\ doing[t].map = index.map
    /\ doing[t].call = "set" =>
         /\ doing[t].index \in Assigned[t] /\ doing[t].index < index.used
         /\ doing[t].value \notin BadValues

Types ==
  /\ IsFile(values, Value)
  /\ \E n \in Nat : IndexOf(n)
  /\ doing \in [Thread -> Statement \cup {NULL}]
  /\ DoingType
  /\ broken = FALSE

(* The elements nobody assigns to.                                          *)
Held == {i \in 0 .. index.used - 1 : i \notin Assigning}

(* They own their chunks; entries beyond the last element have none.        *)
Ownership ==
  /\ \A i \in DOMAIN index.value_pos : index.value_pos[i] = 0 <=> i >= index.used
  /\ \A i, j \in Held : index.value_pos[i] = index.value_pos[j] => i = j
  /\ \A i \in Held : index.value_pos[i] \notin Hole(values)
  /\ HolesOnce(values)

IInv == Separate /\ Types /\ Ownership

-----------------------------------------------------------------------------
LEMMA StatementIsNotNull == NULL \notin Statement
BY ThreadsAssumption DEF Statement

LEMMA CapacityOf ==
  ASSUME NEW n \in Nat, IndexOf(n)
  PROVE  Capacity = n
<1>1. DOMAIN index.value_pos = 0 .. n - 1
  BY DEF IndexOf
<1>2. Cardinality(0 .. n - 1) = n
  BY FS_Interval, n - 1 \in Int, 0 \in Int
<1> QED
  BY <1>1, <1>2 DEF Capacity

LEMMA InitIInv == Separate /\ Init => IInv
<1> SUFFICES ASSUME Separate, Init PROVE IInv
  OBVIOUS
<1>1. IndexOf(0)
  BY EmptyIsFile DEF Init, IndexOf, EmptyFile
<1>2. Types
  BY <1>1, EmptyIsFile DEF Init, Types, DoingType
<1>3. Ownership
  BY EmptyIsFile DEF Init, Ownership, Held
<1> QED
  BY <1>2, <1>3 DEF IInv

-----------------------------------------------------------------------------
(****************************************************************************)
(* What the other threads assign to.                                        *)
(****************************************************************************)
Others(t) ==
  {doing[s].index : s \in {s \in Thread \ {t} : doing[s] # NULL /\ doing[s].call = "set"}}

LEMMA AssigningIs ==
  ASSUME NEW t \in Thread
  PROVE  /\ doing[t] = NULL \/ doing[t].call = "append" => Assigning = Others(t)
         /\ doing[t] # NULL /\ doing[t].call = "set" =>
              Assigning = Others(t) \cup {doing[t].index}
BY DEF Assigning, Others

LEMMA AssigningBecomes ==
  ASSUME NEW t \in Thread, NEW x, doing \in [Thread -> Statement \cup {NULL}],
         doing' = [doing EXCEPT ![t] = x]
  PROVE  /\ x = NULL \/ x.call = "append" => Assigning' = Others(t)
         /\ x # NULL /\ x.call = "set" => Assigning' = Others(t) \cup {x.index}
         /\ \A s \in Thread : doing'[s] = IF s = t THEN x ELSE doing[s]
<1>1. \A s \in Thread : doing'[s] = IF s = t THEN x ELSE doing[s]
  OBVIOUS
<1>2. Assigning' = {doing'[s].index : s \in {s \in Thread : doing'[s] # NULL /\ doing'[s].call = "set"}}
  BY DEF Assigning
<1> QED
  BY <1>1, <1>2 DEF Others

(* Another thread is not at an element of thread t.                         *)
LEMMA OthersApart ==
  ASSUME IInv, NEW t \in Thread, NEW i \in Assigned[t]
  PROVE  i \notin Others(t)
BY DEF IInv, Types, DoingType, Separate, Others

(* The elements others assign to are there.                                 *)
LEMMA OthersUsed ==
  ASSUME IInv, NEW t \in Thread
  PROVE  \A i \in Others(t) : i \in Nat /\ i < index.used
BY StatementIsNotNull DEF IInv, Types, DoingType, Others, Statement

(* While one thread appends, or begins to, no other does.                   *)
LEMMA OneAppends ==
  ASSUME IInv, NEW t \in Thread, t \in Appender, NEW s \in Thread, s # t, doing[s] # NULL
  PROVE  doing[s].call = "set"
BY StatementIsNotNull DEF IInv, Types, DoingType, Separate, Statement

-----------------------------------------------------------------------------
(****************************************************************************)
(* BeginAppend.                                                             *)
(****************************************************************************)
LEMMA BeginAppendFacts ==
  ASSUME IInv, NEW t \in Thread, NEW v \in Value, BeginAppend(t, v)
  PROVE  /\ \E m \in Nat : IndexOf(m)' /\ index.used < m
         /\ index'.used = index.used
         /\ \A i \in 0 .. index.used - 1 : index'.value_pos[i] = index.value_pos[i]
         /\ \A i \in DOMAIN index'.value_pos : index'.value_pos[i] = 0 <=> i >= index.used
         /\ values' = values /\ broken' = broken
         /\ t \in Appender /\ doing[t] = NULL
         /\ doing' = [doing EXCEPT ![t] = [call |-> "append", index |-> index.used,
                                           value |-> v, map |-> index'.map]]
<1>1. PICK n \in Nat : IndexOf(n)
  BY DEF IInv, Types
<1>2. Capacity = n
  BY <1>1, CapacityOf
<1>3. /\ index = [used |-> index.used, value_pos |-> index.value_pos, map |-> index.map]
      /\ index.used \in 0 .. n /\ index.map \in Nat
      /\ index.value_pos \in [0 .. n - 1 -> 0 .. Len(values.chunk)]
      /\ \A i \in 0 .. n - 1 : index.value_pos[i] = 0 <=> i >= index.used
  BY <1>1 DEF IndexOf, IInv, Ownership
<1>4. values' = FreedAt(index', index.used)
  BY DEF BeginAppend
<1>5. CASE index.used < n
  <2>1. index' = index
    BY <1>2, <1>3, <1>5 DEF BeginAppend
  <2>2. index'.value_pos[index.used] = 0
    BY <1>3, <1>5, <2>1
  <2>3. values' = values
    BY <1>4, <2>2 DEF FreedAt
  <2>4. IndexOf(n)'
    BY <1>1, <2>1, <2>3 DEF IndexOf
  <2> QED
    BY <1>3, <1>5, <2>1, <2>3, <2>4 DEF BeginAppend
<1>6. CASE index.used = n
  <2> DEFINE size == IF n = 0 THEN 1 ELSE 2 * n
             pos == [i \in 0 .. size - 1 |-> IF i < n THEN index.value_pos[i] ELSE 0]
  <2>1. index' = Resized
    BY <1>2, <1>3, <1>6 DEF BeginAppend
  <2>2. index' = [used |-> index.used, value_pos |-> pos, map |-> index.map + 1]
    BY <1>2, <1>3, <2>1 DEF Resized
  <2>3. size \in Nat /\ index.used < size
    BY <1>6
  <2>4. pos \in [0 .. size - 1 -> 0 .. Len(values.chunk)]
    <3>1. Len(values.chunk) \in Nat
      BY DEF IInv, Types, IsFile
    <3> QED
      BY <1>3, <3>1
  <2>5. index'.value_pos[index.used] = 0
    BY <1>6, <2>2, <2>3
  <2>6. values' = values
    BY <1>4, <2>5 DEF FreedAt
  <2>7. IndexOf(size)'
    BY <1>3, <2>2, <2>3, <2>4, <2>6 DEF IndexOf
  <2>8. \A i \in 0 .. n - 1 : pos[i] = index.value_pos[i]
    OBVIOUS
  <2>9. \A i \in DOMAIN pos : pos[i] = 0 <=> i >= n
    BY <1>3, <1>6
  <2> HIDE DEF pos, size
  <2>10. index'.used = index.used /\ index'.value_pos = pos
    BY <2>2
  <2>11. \E m \in Nat : IndexOf(m)' /\ index.used < m
    BY <2>3, <2>7
  <2>12. /\ \A i \in 0 .. index.used - 1 : index'.value_pos[i] = index.value_pos[i]
         /\ \A i \in DOMAIN index'.value_pos : index'.value_pos[i] = 0 <=> i >= index.used
    BY <1>6, <2>8, <2>9, <2>10
  <2> QED
    BY <2>6, <2>10, <2>11, <2>12 DEF BeginAppend
<1> QED
  BY <1>3, <1>5, <1>6

LEMMA BeginAppendIInv ==
  ASSUME IInv, NEW t \in Thread, NEW v \in Value, BeginAppend(t, v)
  PROVE  IInv'
<1> DEFINE x == [call |-> "append", index |-> index.used, value |-> v, map |-> index'.map]
<1>1. PICK m \in Nat : IndexOf(m)' /\ index.used < m
  BY BeginAppendFacts
<1>2. /\ index'.used = index.used
      /\ \A i \in 0 .. index.used - 1 : index'.value_pos[i] = index.value_pos[i]
      /\ \A i \in DOMAIN index'.value_pos : index'.value_pos[i] = 0 <=> i >= index.used
      /\ values' = values /\ broken' = broken
      /\ t \in Appender /\ doing[t] = NULL
      /\ doing' = [doing EXCEPT ![t] = x]
  BY BeginAppendFacts
<1>3. x \in Statement /\ x.call = "append" /\ x.index = index.used /\ x.map = index'.map
  BY <1>1, <1>2 DEF Statement, IndexOf
<1>4. doing \in [Thread -> Statement \cup {NULL}]
  BY DEF IInv, Types
<1> HIDE DEF x
<1>5. /\ \A s \in Thread : doing'[s] = IF s = t THEN x ELSE doing[s]
      /\ doing' \in [Thread -> Statement \cup {NULL}]
  BY <1>2, <1>3, <1>4
<1>6. index.used \in DOMAIN index'.value_pos /\ index.used \in Nat
  BY <1>1, <1>2 DEF IndexOf
<1>7. DoingType'
  <2> SUFFICES ASSUME NEW s \in Thread, doing'[s] # NULL
               PROVE  /\ doing'[s].call = "append" =>
                           /\ s \in Appender
                           /\ doing'[s].index = index'.used
                           /\ index'.used \in DOMAIN index'.value_pos
                           /\ doing'[s].map = index'.map
                      /\ doing'[s].call = "set" =>
                           /\ doing'[s].index \in Assigned[s]
                           /\ doing'[s].index < index'.used
                           /\ doing'[s].value \notin BadValues
    BY DEF DoingType
  <2>1. CASE s = t
    BY <1>2, <1>3, <1>5, <1>6, <2>1
  <2>2. CASE s # t
    <3>1. doing'[s] = doing[s] /\ doing[s].call = "set"
      BY <1>2, <1>5, <2>2, OneAppends
    <3> QED
      BY <1>2, <3>1 DEF IInv, Types, DoingType
  <2> QED
    BY <2>1, <2>2
<1>8. Assigning' = Assigning
  BY <1>2, <1>3, <1>4, AssigningIs, AssigningBecomes, StatementIsNotNull
<1>9. Types'
  BY <1>1, <1>2, <1>5, <1>7 DEF IInv, Types
<1>10. Held' = Held
  BY <1>2, <1>8 DEF Held
<1>11. Ownership'
  <2>1. \A i \in Held : index'.value_pos[i] = index.value_pos[i]
    BY <1>2 DEF Held
  <2> QED
    BY <1>2, <1>10, <2>1 DEF IInv, Ownership
<1> QED
  BY <1>9, <1>11 DEF IInv, Separate

-----------------------------------------------------------------------------
(****************************************************************************)
(* BeginSet.                                                                *)
(****************************************************************************)
LEMMA HeldFacts ==
  ASSUME IInv
  PROVE  /\ index.used \in Nat
         /\ \A i \in 0 .. index.used - 1 :
              i \in DOMAIN index.value_pos /\ index.value_pos[i] \in 1 .. Len(values.chunk)
         /\ \A i \in Held : i \in 0 .. index.used - 1
<1>1. PICK n \in Nat : IndexOf(n)
  BY DEF IInv, Types
<1>2. Len(values.chunk) \in Nat
  BY DEF IInv, Types, IsFile
<1> QED
  BY <1>1, <1>2 DEF IndexOf, IInv, Ownership, Held

LEMMA BeginSetFacts ==
  ASSUME IInv, NEW t \in Thread, NEW i \in Assigned[t], NEW v \in Value, BeginSet(t, i, v)
  PROVE  /\ i \in Held
         /\ index' = index /\ broken' = broken /\ doing[t] = NULL
         /\ values' = Freed(values, index.value_pos[i])
         /\ Assigning = Others(t) /\ Assigning' = Others(t) \cup {i}
         /\ doing' = [doing EXCEPT ![t] = [call |-> "set", index |-> i,
                                           value |-> v, map |-> index.map]]
<1>1. /\ doing[t] = NULL /\ i < index.used /\ index' = index /\ broken' = broken
      /\ values' = FreedAt(index, i)
      /\ doing' = [doing EXCEPT ![t] = [call |-> "set", index |-> i,
                                        value |-> v, map |-> index.map]]
  BY DEF BeginSet
<1>2. i \in Nat
  BY ThreadsAssumption
<1>3. Assigning = Others(t)
  BY <1>1, AssigningIs
<1>4. i \in Held
  BY <1>1, <1>2, <1>3, OthersApart, HeldFacts DEF Held
<1>5. values' = Freed(values, index.value_pos[i])
  BY <1>1, <1>4, HeldFacts DEF FreedAt
<1>6. [call |-> "set", index |-> i, value |-> v, map |-> index.map] \in Statement
  BY <1>2 DEF IInv, Types, IndexOf, Statement
<1>7. Assigning' = Others(t) \cup {i}
  <2> DEFINE x == [call |-> "set", index |-> i, value |-> v, map |-> index.map]
  <2>1. x \in Statement /\ x.call = "set" /\ x.index = i
    BY <1>6
  <2>2. doing \in [Thread -> Statement \cup {NULL}] /\ doing' = [doing EXCEPT ![t] = x]
    BY <1>1 DEF IInv, Types
  <2> HIDE DEF x
  <2> QED
    BY <2>1, <2>2, AssigningBecomes, StatementIsNotNull
<1> QED
  BY <1>1, <1>3, <1>4, <1>5, <1>7

LEMMA BeginSetIInv ==
  ASSUME IInv, NEW t \in Thread, NEW i \in Assigned[t], NEW v \in Value \ BadValues,
         BeginSet(t, i, v)
  PROVE  IInv'
<1> DEFINE x == [call |-> "set", index |-> i, value |-> v, map |-> index.map]
           p == index.value_pos[i]
<1>1. /\ i \in Held
      /\ index' = index /\ broken' = broken /\ doing[t] = NULL
      /\ values' = Freed(values, p)
      /\ Assigning = Others(t) /\ Assigning' = Others(t) \cup {i}
      /\ doing' = [doing EXCEPT ![t] = x]
  BY BeginSetFacts
<1>2. PICK n \in Nat : IndexOf(n)
  BY DEF IInv, Types
<1>3. i \in Nat /\ i < index.used /\ p \in 1 .. Len(values.chunk)
  BY <1>1, HeldFacts
<1>4. x \in Statement /\ x.call = "set" /\ x.index = i /\ x.value = v
  BY <1>2, <1>3 DEF Statement, IndexOf
<1>5. doing \in [Thread -> Statement \cup {NULL}] /\ IsFile(values, Value)
  BY DEF IInv, Types
<1>6. p \notin Hole(values) /\ HolesOnce(values)
  BY <1>1 DEF IInv, Ownership
<1>7. /\ IsFile(values', Value) /\ values'.chunk = values.chunk
      /\ Hole(values') = Hole(values) \cup {p} /\ HolesOnce(values')
  BY <1>1, <1>3, <1>5, <1>6, FreedIsFile
<1> HIDE DEF x
<1>8. /\ \A s \in Thread : doing'[s] = IF s = t THEN x ELSE doing[s]
      /\ doing' \in [Thread -> Statement \cup {NULL}]
  BY <1>1, <1>4, <1>5
<1>9. DoingType'
  BY <1>1, <1>3, <1>4, <1>8 DEF IInv, Types, DoingType
<1>10. Types'
  BY <1>1, <1>2, <1>7, <1>8, <1>9 DEF IInv, Types, IndexOf
<1>11. Held' = Held \ {i}
  BY <1>1 DEF Held
<1>12. Ownership'
  <2>1. \A j \in Held : index.value_pos[j] = p => j = i
    BY <1>1 DEF IInv, Ownership
  <2>2. HolesOnce(values)'
    BY <1>7
  <2>3. \A j \in Held' : index'.value_pos[j] \notin Hole(values)'
    BY <1>1, <1>7, <1>11, <2>1 DEF IInv, Ownership
  <2> QED
    BY <1>1, <1>11, <2>2, <2>3 DEF IInv, Ownership
<1> QED
  BY <1>10, <1>12 DEF IInv, Separate

-----------------------------------------------------------------------------
(****************************************************************************)
(* End.                                                                     *)
(****************************************************************************)
LEMMA EndFacts ==
  ASSUME IInv, NEW t \in Thread, End(t)
  PROVE  /\ doing[t] \in Statement
         /\ doing[t].call = "append" =>
              t \in Appender /\ doing[t].index = index.used
         /\ doing[t].call = "set" =>
              doing[t].index \in Assigned[t] /\ doing[t].index < index.used
         /\ doing[t].index \in DOMAIN index.value_pos
         /\ broken' = FALSE /\ doing' = [doing EXCEPT ![t] = NULL]
         /\ Assigning' = Others(t) /\ doing[t].index \notin Others(t)
         /\ doing[t].call = "append" => Assigning = Others(t)
         /\ doing[t].call = "set" => Assigning = Others(t) \cup {doing[t].index}
         /\ \E p \in Allocatable(values) :
              /\ values' = Marshalled(values, p, doing[t].value)
              /\ index' = [used |-> IF doing[t].call = "append" THEN index.used + 1
                                    ELSE index.used,
                           value_pos |-> [index.value_pos EXCEPT ![doing[t].index] = p],
                           map |-> index.map]
<1> DEFINE d == doing[t]
<1>1. doing \in [Thread -> Statement \cup {NULL}] /\ d # NULL
  BY DEF End, Pickled, IInv, Types
<1>2. d \in Statement
  BY <1>1
<1>3. PICK n \in Nat : IndexOf(n)
  BY DEF IInv, Types
<1>4. /\ d.call = "append" =>
           /\ t \in Appender /\ d.index = index.used
           /\ index.used \in DOMAIN index.value_pos /\ d.map = index.map
      /\ d.call = "set" => d.index \in Assigned[t] /\ d.index < index.used
  BY <1>1 DEF IInv, Types, DoingType
<1>5. d.index \in DOMAIN index.value_pos
  BY <1>2, <1>3, <1>4 DEF IndexOf, Statement
<1>6. PICK p \in Allocatable(values) :
        /\ values' = Marshalled(values, p, d.value)
        /\ index' = [index EXCEPT !.value_pos[d.index] = p, !.used = UsedAfter(d)]
  BY DEF End, Chunks
<1>7. UsedAfter(d) = IF d.call = "append" THEN index.used + 1 ELSE index.used
  BY <1>4 DEF UsedAfter
<1>8. index' = [used |-> UsedAfter(d),
                value_pos |-> [index.value_pos EXCEPT ![d.index] = p], map |-> index.map]
  BY <1>3, <1>6 DEF IndexOf
<1>9. broken' = FALSE /\ doing' = [doing EXCEPT ![t] = NULL]
  BY <1>4 DEF End
<1>10. Assigning' = Others(t)
  BY <1>1, <1>9, AssigningBecomes
<1>11. /\ d.call = "append" => Assigning = Others(t)
       /\ d.call = "set" => Assigning = Others(t) \cup {d.index}
  BY <1>1, AssigningIs
<1>12. d.index \notin Others(t)
  <2>1. CASE d.call = "append"
    BY <1>3, <1>4, <2>1, OthersUsed DEF IndexOf
  <2>2. CASE d.call = "set"
    BY <1>4, <2>2, OthersApart
  <2> QED
    BY <1>2, <2>1, <2>2 DEF Statement
<1> HIDE DEF d
<1>13. \E q \in Allocatable(values) :
         /\ values' = Marshalled(values, q, d.value)
         /\ index' = [used |-> IF d.call = "append" THEN index.used + 1 ELSE index.used,
                      value_pos |-> [index.value_pos EXCEPT ![d.index] = q],
                      map |-> index.map]
  BY <1>6, <1>7, <1>8
<1> QED
  BY <1>2, <1>4, <1>5, <1>9, <1>10, <1>11, <1>12, <1>13 DEF d

(* The chunk a value is given is nobody else's.                             *)
LEMMA ChunkApart ==
  ASSUME IInv, NEW p \in Allocatable(values)
  PROVE  \A i \in Held : index.value_pos[i] # p
<1>1. p \in Hole(values) \/ p = Len(values.chunk) + 1
  BY DEF Allocatable, BagToSet, Hole
<1>2. \A i \in Held : /\ index.value_pos[i] \in 1 .. Len(values.chunk)
                      /\ index.value_pos[i] \notin Hole(values)
  BY HeldFacts DEF IInv, Ownership
<1>3. Len(values.chunk) \in Nat
  BY DEF IInv, Types, IsFile
<1> QED
  BY <1>1, <1>2, <1>3

LEMMA EndIInv ==
  ASSUME IInv, NEW t \in Thread, End(t)
  PROVE  IInv'
<1> DEFINE d == doing[t]
           e == doing[t].index
           grown == IF doing[t].call = "append" THEN index.used + 1 ELSE index.used
<1>1. /\ d \in Statement
      /\ d.call = "append" => t \in Appender /\ e = index.used
      /\ d.call = "set" => e \in Assigned[t] /\ e < index.used
      /\ e \in DOMAIN index.value_pos
      /\ broken' = FALSE /\ doing' = [doing EXCEPT ![t] = NULL]
      /\ Assigning' = Others(t) /\ e \notin Others(t)
      /\ d.call = "append" => Assigning = Others(t)
      /\ d.call = "set" => Assigning = Others(t) \cup {e}
  BY EndFacts
<1>2. PICK p \in Allocatable(values) :
        /\ values' = Marshalled(values, p, d.value)
        /\ index' = [used |-> grown, value_pos |-> [index.value_pos EXCEPT ![e] = p],
                     map |-> index.map]
  BY EndFacts
<1>3. PICK n \in Nat : IndexOf(n)
  BY DEF IInv, Types
<1>4. /\ index.used \in 0 .. n /\ index.map \in Nat
      /\ index.value_pos \in [0 .. n - 1 -> 0 .. Len(values.chunk)]
  BY <1>3 DEF IndexOf
<1>5. IsFile(values, Value) /\ HolesOnce(values) /\ d.value \in Value
      /\ d.call \in {"append", "set"} /\ e \in Nat
  BY <1>1 DEF IInv, Types, Ownership, Statement
<1>6. /\ IsFile(values', Value)
      /\ p \in 1 .. Len(values'.chunk) /\ Len(values.chunk) <= Len(values'.chunk)
      /\ HolesOnce(values') /\ Hole(values') = Hole(values) \ {p}
  BY <1>2, <1>5, MarshalledIsFile
<1>7. grown \in 0 .. n /\ index.used <= grown /\ e < grown
      /\ \A i \in 0 .. n - 1 : i # e => (i >= index.used <=> i >= grown)
  BY <1>1, <1>4, <1>5
<1>8. index'.used = grown /\ index'.map = index.map
      /\ index'.value_pos = [index.value_pos EXCEPT ![e] = p]
      /\ index' = [used |-> index'.used, value_pos |-> index'.value_pos, map |-> index'.map]
  BY <1>2
<1> HIDE DEF grown
<1>9. IndexOf(n)'
  <2>1. Len(values.chunk) \in Nat /\ Len(values'.chunk) \in Nat
    BY <1>5, <1>6 DEF IsFile
  <2>2. index'.value_pos \in [0 .. n - 1 -> 0 .. Len(values'.chunk)]
    <3>1. /\ \A i \in 0 .. n - 1 : index.value_pos[i] \in 0 .. Len(values'.chunk)
          /\ p \in 0 .. Len(values'.chunk)
      BY <1>4, <1>6, <2>1
    <3>2. index.value_pos \in [0 .. n - 1 -> 0 .. Len(values'.chunk)]
      BY <1>4, <3>1
    <3>3. [index.value_pos EXCEPT ![e] = p] \in [0 .. n - 1 -> 0 .. Len(values'.chunk)]
      BY <3>1, <3>2
    <3> QED
      BY <1>8, <3>3
  <2> QED
    BY <1>4, <1>7, <1>8, <2>2 DEF IndexOf
<1>10. /\ doing \in [Thread -> Statement \cup {NULL}]
       /\ doing' \in [Thread -> Statement \cup {NULL}]
       /\ doing'[t] = NULL /\ \A s \in Thread : s # t => doing'[s] = doing[s]
  BY <1>1 DEF IInv, Types
<1>11. DoingType'
  <2> SUFFICES ASSUME NEW s \in Thread, doing'[s] # NULL
               PROVE  /\ doing'[s].call = "append" =>
                           /\ s \in Appender
                           /\ doing'[s].index = index'.used
                           /\ index'.used \in DOMAIN index'.value_pos
                           /\ doing'[s].map = index'.map
                      /\ doing'[s].call = "set" =>
                           /\ doing'[s].index \in Assigned[s]
                           /\ doing'[s].index < index'.used
                           /\ doing'[s].value \notin BadValues
    BY DEF DoingType
  <2>1. s # t /\ doing'[s] = doing[s] /\ doing[s] \in Statement
    BY <1>10
  <2>2. CASE doing[s].call = "append"
    <3>1. /\ s \in Appender /\ doing[s].index = index.used
          /\ index.used \in DOMAIN index.value_pos /\ doing[s].map = index.map
      BY <2>1, <2>2 DEF IInv, Types, DoingType
    <3>2. d.call = "set"
      BY <1>1, <1>5, <2>1, <3>1 DEF IInv, Separate
    <3>3. index'.used = index.used
      BY <1>8, <3>2 DEF grown
    <3> QED
      BY <1>8, <2>1, <2>2, <3>1, <3>3
  <2>3. CASE doing[s].call = "set"
    <3>1. /\ doing[s].index \in Assigned[s] /\ doing[s].index < index.used
          /\ doing[s].value \notin BadValues /\ doing[s].index \in Nat
      BY <2>1, <2>3 DEF IInv, Types, DoingType, Statement
    <3> QED
      BY <1>4, <1>7, <1>8, <2>1, <2>3, <3>1
  <2> QED
    BY <2>1, <2>2, <2>3 DEF Statement
<1>12. Types'
  BY <1>1, <1>6, <1>9, <1>10, <1>11 DEF Types
<1>13. \A i \in Held' : i # e =>
         i \in Held /\ index'.value_pos[i] = index.value_pos[i] /\ index.value_pos[i] # p
  <2>1. ASSUME NEW i \in Held', i # e PROVE i \in Held /\ i \in 0 .. n - 1
    <3>1. i \in 0 .. grown - 1 /\ i \notin Others(t)
      BY <1>1, <1>8 DEF Held
    <3>2. i \in 0 .. index.used - 1 /\ i \in 0 .. n - 1
      BY <1>4, <1>7, <2>1, <3>1
    <3> QED
      BY <1>1, <1>5, <2>1, <3>1, <3>2 DEF Held
  <2> QED
    BY <1>2, <1>4, <1>8, <2>1, ChunkApart
<1>14. index'.value_pos[e] = p
  BY <1>1, <1>8
<1>15. Ownership'
  <2>1. \A i \in DOMAIN index'.value_pos : index'.value_pos[i] = 0 <=> i >= index'.used
    <3>1. \A i \in 0 .. n - 1 : index.value_pos[i] = 0 <=> i >= index.used
      BY <1>4 DEF IInv, Ownership
    <3> QED
      BY <1>4, <1>5, <1>6, <1>7, <1>8, <3>1
  <2>2. \A i, j \in Held' : index'.value_pos[i] = index'.value_pos[j] => i = j
    BY <1>13, <1>14 DEF IInv, Ownership
  <2>3. \A i \in Held' : index'.value_pos[i] \notin Hole(values)'
    BY <1>6, <1>13, <1>14 DEF IInv, Ownership
  <2> QED
    BY <1>6, <2>1, <2>2, <2>3 DEF Ownership
<1> QED
  BY <1>12, <1>15 DEF IInv, Separate

-----------------------------------------------------------------------------
(****************************************************************************)
(* Fail, and the invariant.                                                 *)
(****************************************************************************)
LEMMA FailFacts ==
  ASSUME IInv, NEW t \in Thread, Fail(t)
  PROVE  /\ doing[t] \in Statement /\ doing[t].call = "append"
         /\ index' = index /\ values' = values /\ broken' = broken
         /\ doing' = [doing EXCEPT ![t] = NULL]
         /\ Assigning' = Assigning
<1>1. /\ doing[t] # NULL /\ doing[t].value \in BadValues
      /\ index' = index /\ values' = values /\ broken' = broken
      /\ doing' = [doing EXCEPT ![t] = NULL]
  BY DEF Fail
<1>2. doing \in [Thread -> Statement \cup {NULL}]
  BY DEF IInv, Types
<1>3. doing[t] \in Statement
  BY <1>1, <1>2
<1>4. doing[t].call = "append"
  BY <1>1, <1>3 DEF IInv, Types, DoingType, Statement
<1> QED
  BY <1>1, <1>2, <1>3, <1>4, AssigningIs, AssigningBecomes

LEMMA FailIInv ==
  ASSUME IInv, NEW t \in Thread, Fail(t)
  PROVE  IInv'
<1>1. /\ index' = index /\ values' = values /\ broken' = broken
      /\ doing' = [doing EXCEPT ![t] = NULL] /\ Assigning' = Assigning
  BY FailFacts
<1>2. /\ doing' \in [Thread -> Statement \cup {NULL}]
      /\ doing'[t] = NULL /\ \A s \in Thread : s # t => doing'[s] = doing[s]
  BY <1>1 DEF IInv, Types
<1>3. DoingType'
  BY <1>1, <1>2 DEF IInv, Types, DoingType
<1>4. Types'
  BY <1>1, <1>2, <1>3 DEF IInv, Types, IndexOf
<1>5. Held' = Held
  BY <1>1 DEF Held
<1> QED
  BY <1>1, <1>4, <1>5 DEF IInv, Separate, Ownership

LEMMA Inductive == IInv /\ [Next]_vars => IInv'
<1> SUFFICES ASSUME IInv, [Next]_vars PROVE IInv'
  OBVIOUS
<1>1. CASE UNCHANGED vars
  <2>1. Assigning' = Assigning
    BY <1>1 DEF vars, Assigning
  <2>2. Held' = Held
    BY <1>1, <2>1 DEF vars, Held
  <2> QED
    BY <1>1, <2>2 DEF vars, IInv, Separate, Types, IndexOf, DoingType, Ownership
<1>2. ASSUME NEW t \in Thread, NEW v \in Value, BeginAppend(t, v) PROVE IInv'
  BY <1>2, BeginAppendIInv
<1>3. ASSUME NEW t \in Thread, NEW i \in Assigned[t], NEW v \in Value \ BadValues,
             BeginSet(t, i, v)
      PROVE  IInv'
  BY <1>3, BeginSetIInv
<1>4. ASSUME NEW t \in Thread, End(t) PROVE IInv'
  BY <1>4, EndIInv
<1>5. ASSUME NEW t \in Thread, Fail(t) PROVE IInv'
  BY <1>5, FailIInv
<1> QED
  BY <1>1, <1>2, <1>3, <1>4, <1>5 DEF Next

LEMMA IInvOwned == IInv => ChunksOwned
<1> SUFFICES ASSUME IInv PROVE ChunksOwned
  OBVIOUS
<1> DEFINE entries == {i \in DOMAIN index.value_pos : index.value_pos[i] # 0}
<1>1. PICK n \in Nat : IndexOf(n)
  BY DEF IInv, Types
<1>2. \A i \in entries \ Assigning : i \in Held
  BY <1>1 DEF IndexOf, IInv, Ownership, Held
<1>3. \A p : ~ BagIn(p, values.holes) <=> p \notin Hole(values)
  BY DEF BagIn, BagToSet, Hole
<1>4. \A p \in BagToSet(values.holes) : values.holes[p] = 1
  BY DEF IInv, Ownership, HolesOnce, BagToSet, Hole
<1> QED
  BY <1>2, <1>3, <1>4 DEF IInv, Ownership, ChunksOwned

(* However many threads there are, as long as only one appends and no two   *)
(* assign to the same element: no two elements share a chunk, and none is   *)
(* freed twice, although chunks go from one thread to another while the     *)
(* first one pickles.                                                       *)
THEOREM EveryChunkOwned == Separate /\ Spec => []ChunksOwned
<1>1. Separate /\ Init => IInv
  BY InitIInv
<1>2. IInv /\ [Next]_vars => IInv'
  BY Inductive
<1>3. IInv => ChunksOwned
  BY IInvOwned
<1> QED
  BY <1>1, <1>2, <1>3, PTL DEF Spec

-----------------------------------------------------------------------------
(****************************************************************************)
(* The refinement.                                                          *)
(****************************************************************************)
Element(i) == IF i \in Assigning THEN Unset ELSE values.chunk[index.value_pos[i]]
Elements == [i \in 1 .. index.used |-> Element(i - 1)]
Calls ==
  [t \in Thread |->
     IF doing[t] = NULL THEN NULL
     ELSE [index |-> IF doing[t].call = "append" THEN 0 ELSE doing[t].index + 1,
           value |-> doing[t].value]]

ElementsAre ==
  /\ index.used \in Nat
  /\ Elements \in Seq(Value \cup {Unset})
  /\ Len(Elements) = index.used /\ DOMAIN Elements = 1 .. index.used
  /\ \A i \in 1 .. index.used : Elements[i] = Element(i - 1)

LEMMA IInvElements == IInv => ElementsAre
<1> SUFFICES ASSUME IInv PROVE ElementsAre
  OBVIOUS
<1>1. index.used \in Nat
  BY HeldFacts
<1>2. ASSUME NEW i \in 1 .. index.used PROVE Element(i - 1) \in Value \cup {Unset}
  <2>1. i - 1 \in 0 .. index.used - 1
    BY <1>1
  <2>2. index.value_pos[i - 1] \in 1 .. Len(values.chunk)
    BY <2>1, HeldFacts
  <2> QED
    BY <2>2, ElementOfSeq DEF IInv, Types, IsFile, Element
<1>3. Elements \in [1 .. index.used -> Value \cup {Unset}]
  BY <1>2 DEF Elements
<1>4. Elements \in Seq(Value \cup {Unset})
  BY <1>1, <1>3, SeqDef
<1>5. Len(Elements) = index.used
  BY <1>1, <1>3, <1>4, LenProperties
<1>6. \A i \in 1 .. index.used : Elements[i] = Element(i - 1)
  BY DEF Elements
<1> QED
  BY <1>1, <1>3, <1>4, <1>5, <1>6 DEF ElementsAre

LEMMA NextElements == IInv' => ElementsAre'
BY IInvElements, PTL

(* The list after a step, of which we know the length and the elements.     *)
LEMMA ElementsBecome ==
  ASSUME IInv, IInv', NEW l \in Seq(Value \cup {Unset}), index'.used = Len(l),
         \A i \in 1 .. Len(l) : Element(i - 1)' = l[i]
  PROVE  Elements' = l
<1>1. /\ Elements' \in Seq(Value \cup {Unset}) /\ Len(Elements') = Len(l)
      /\ \A i \in 1 .. Len(l) : Elements'[i] = l[i]
  BY NextElements DEF ElementsAre
<1> HIDE DEF Elements
<1> QED
  BY <1>1, SeqEqual

(* A statement under way is not NULL.                                       *)
LEMMA CallFacts ==
  ASSUME IInv, NEW t \in Thread
  PROVE  /\ Calls[t] = NULL <=> doing[t] = NULL
         /\ doing[t] # NULL =>
              /\ Calls[t].index = IF doing[t].call = "append" THEN 0 ELSE doing[t].index + 1
              /\ Calls[t].value = doing[t].value
<1>1. CASE doing[t] = NULL
  BY <1>1 DEF Calls
<1>2. CASE doing[t] # NULL
  <2> DEFINE i == IF doing[t].call = "append" THEN 0 ELSE doing[t].index + 1
  <2>1. doing[t] \in Statement
    BY <1>2 DEF IInv, Types
  <2>2. i \in Nat /\ doing[t].value \in Value
    BY <2>1 DEF Statement
  <2>3. Calls[t] = [index |-> i, value |-> doing[t].value]
    BY <1>2 DEF Calls
  <2> HIDE DEF i
  <2>4. [index |-> i, value |-> doing[t].value] \in [index : Nat, value : Value]
    BY <2>2
  <2>5. Calls[t] # NULL
    BY <2>3, <2>4, ThreadsAssumption
  <2> QED
    BY <1>2, <2>3, <2>5 DEF i
<1> QED
  BY <1>1, <1>2

(* How the calls change with one thread's statement.                        *)
LEMMA CallsBecome ==
  ASSUME IInv, NEW t \in Thread, NEW x, doing' = [doing EXCEPT ![t] = x]
  PROVE  Calls' = [Calls EXCEPT ![t] =
                     IF x = NULL THEN NULL
                     ELSE [index |-> IF x.call = "append" THEN 0 ELSE x.index + 1,
                           value |-> x.value]]
<1>1. \A s \in Thread : doing'[s] = IF s = t THEN x ELSE doing[s]
  BY DEF IInv, Types
<1> QED
  BY <1>1 DEF Calls

LEMMA ElementsFacts ==
  ASSUME IInv
  PROVE  /\ index.used \in Nat
         /\ Elements \in Seq(Value \cup {Unset})
         /\ Len(Elements) = index.used /\ DOMAIN Elements = 1 .. index.used
         /\ \A i \in 1 .. index.used : Elements[i] = Element(i - 1)
BY IInvElements DEF ElementsAre

LEMMA BeginAppendStep ==
  ASSUME IInv, IInv', NEW t \in Thread, NEW v \in Value, BeginAppend(t, v)
  PROVE  Shared!BeginAppend(t, v)
<1> DEFINE x == [call |-> "append", index |-> index.used, value |-> v, map |-> index'.map]
<1>1. /\ index'.used = index.used
      /\ \A i \in 0 .. index.used - 1 : index'.value_pos[i] = index.value_pos[i]
      /\ values' = values /\ doing[t] = NULL
      /\ doing' = [doing EXCEPT ![t] = x]
  BY BeginAppendFacts
<1>2. x.call = "append" /\ x.value = v /\ x \in Statement
  <2>1. index.used \in Nat /\ index'.map \in Nat
    BY BeginAppendFacts, ElementsFacts DEF IndexOf
  <2> QED
    BY <2>1 DEF Statement
<1> HIDE DEF x
<1>3. Assigning' = Assigning
  BY <1>1, <1>2, AssigningIs, AssigningBecomes DEF IInv, Types
<1>4. \A i \in 1 .. index.used : Element(i - 1)' = Elements[i]
  <2>1. \A i \in 1 .. index.used : i - 1 \in 0 .. index.used - 1
    BY ElementsFacts
  <2> QED
    BY <1>1, <1>3, <2>1, ElementsFacts DEF Element
<1>5. Elements' = Elements
  BY <1>1, <1>4, ElementsFacts, ElementsBecome
<1>6. x # NULL
  BY <1>2, StatementIsNotNull
<1>7. Calls' = [Calls EXCEPT ![t] = [index |-> 0, value |-> v]]
  BY <1>1, <1>2, <1>6, CallsBecome
<1>8. Calls[t] = NULL
  BY <1>1, CallFacts
<1> QED
  BY <1>5, <1>7, <1>8 DEF Shared!BeginAppend, Elements, Element, Calls

LEMMA BeginSetStep ==
  ASSUME IInv, IInv', NEW t \in Thread, NEW i \in Assigned[t], NEW v \in Value,
         BeginSet(t, i, v)
  PROVE  i + 1 \in DOMAIN Elements /\ Shared!BeginSet(t, i + 1, v)
<1> DEFINE x == [call |-> "set", index |-> i, value |-> v, map |-> index.map]
           l == [Elements EXCEPT ![i + 1] = Unset]
<1>1. /\ i \in Held
      /\ index' = index /\ doing[t] = NULL
      /\ values' = Freed(values, index.value_pos[i])
      /\ Assigning = Others(t) /\ Assigning' = Others(t) \cup {i}
      /\ doing' = [doing EXCEPT ![t] = x]
  BY BeginSetFacts
<1>2. i \in 0 .. index.used - 1 /\ index.used \in Nat
  BY <1>1, HeldFacts
<1>3. values'.chunk = values.chunk
  BY <1>1, HeldFacts, FreedIsFile DEF IInv, Types
<1>4. l \in Seq(Value \cup {Unset}) /\ Len(l) = index.used
      /\ \A j \in 1 .. index.used : l[j] = IF j = i + 1 THEN Unset ELSE Elements[j]
  BY <1>2, ElementsFacts, ExceptSeq
<1> HIDE DEF l
<1>5. \A j \in 1 .. index.used : Element(j - 1)' = l[j]
  <2> SUFFICES ASSUME NEW j \in 1 .. index.used PROVE Element(j - 1)' = l[j]
    OBVIOUS
  <2>1. j - 1 = i <=> j = i + 1
    BY <1>2
  <2>2. l[j] = IF j - 1 = i THEN Unset ELSE Element(j - 1)
    BY <1>4, <2>1, ElementsFacts
  <2>3. Element(j - 1)' =
          IF j - 1 \in Assigning' THEN Unset ELSE values'.chunk[index'.value_pos[j - 1]]
    BY DEF Element
  <2> QED
    BY <1>1, <1>3, <2>2, <2>3 DEF Element
<1>6. Elements' = l
  BY <1>1, <1>4, <1>5, ElementsBecome
<1>7. x # NULL /\ x.call = "set" /\ x.index = i /\ x.value = v
  <2>1. index.map \in Nat
    BY DEF IInv, Types, IndexOf
  <2>2. x \in Statement
    BY <1>2, <2>1 DEF Statement
  <2> QED
    BY <2>2, StatementIsNotNull
<1> HIDE DEF x
<1>8. Calls' = [Calls EXCEPT ![t] = [index |-> i + 1, value |-> v]]
  BY <1>1, <1>7, CallsBecome
<1>9. Calls[t] = NULL
  BY <1>1, CallFacts
<1>10. i + 1 \in DOMAIN Elements
  BY <1>2, ElementsFacts
<1> QED
  BY <1>6, <1>8, <1>9, <1>10 DEF Shared!BeginSet, Elements, Element, Calls, l

(* End: elements but the one of the statement are as they were.             *)
LEMMA EndElements ==
  ASSUME IInv, IInv', NEW t \in Thread, End(t), NEW j \in Nat
  PROVE  /\ j = doing[t].index => Element(j)' = doing[t].value
         /\ j # doing[t].index /\ j < index.used => Element(j)' = Element(j)
<1> DEFINE e == doing[t].index
<1>1. /\ doing[t] \in Statement /\ e \in DOMAIN index.value_pos
      /\ Assigning' = Others(t) /\ e \notin Others(t)
      /\ doing[t].call = "append" => Assigning = Others(t)
      /\ doing[t].call = "set" => Assigning = Others(t) \cup {e}
  BY EndFacts
<1>0. PICK p \in Allocatable(values) :
        /\ values' = Marshalled(values, p, doing[t].value)
        /\ index' = [used |-> IF doing[t].call = "append" THEN index.used + 1
                              ELSE index.used,
                     value_pos |-> [index.value_pos EXCEPT ![e] = p],
                     map |-> index.map]
  BY EndFacts
<1>2. /\ values' = Marshalled(values, p, doing[t].value)
      /\ index'.value_pos = [index.value_pos EXCEPT ![e] = p]
  BY <1>0
<1>3. doing[t].value \in Value /\ doing[t].call \in {"append", "set"}
  BY <1>1 DEF Statement
<1>4. /\ values'.chunk[p] = doing[t].value
      /\ \A q \in 1 .. Len(values.chunk) : q # p => values'.chunk[q] = values.chunk[q]
  BY <1>2, <1>3, MarshalledIsFile DEF IInv, Types
<1>5. Element(j)' = IF j \in Assigning' THEN Unset ELSE values'.chunk[index'.value_pos[j]]
  BY DEF Element
<1>6. CASE j = e
  <2>1. index'.value_pos[e] = p
    BY <1>1, <1>2
  <2> QED
    BY <1>1, <1>4, <1>5, <1>6, <2>1
<1>7. CASE j # e /\ j < index.used
  <2>1. j \in Assigning' <=> j \in Assigning
    BY <1>1, <1>3, <1>7
  <2>2. ASSUME j \in Assigning PROVE Element(j)' = Element(j)
    <3>1. Element(j) = Unset /\ Element(j)' = Unset
      BY <1>5, <2>1, <2>2 DEF Element
    <3> QED
      BY <3>1
  <2>3. ASSUME j \notin Assigning PROVE Element(j)' = Element(j)
    <3>1. j \in Held /\ j \in DOMAIN index.value_pos
      BY <1>7, <2>3, HeldFacts DEF Held
    <3>2. index'.value_pos[j] = index.value_pos[j]
      BY <1>2, <1>7, <3>1 DEF IInv, Types, IndexOf
    <3>3. index.value_pos[j] # p /\ index.value_pos[j] \in 1 .. Len(values.chunk)
      BY <3>1, ChunkApart, HeldFacts
    <3>4. values'.chunk[index.value_pos[j]] = values.chunk[index.value_pos[j]]
      BY <1>4, <3>3
    <3>5. Element(j)' = values'.chunk[index'.value_pos[j]]
      BY <1>5, <2>1, <2>3
    <3>6. Element(j) = values.chunk[index.value_pos[j]]
      BY <2>3 DEF Element
    <3> QED
      BY <3>2, <3>4, <3>5, <3>6
  <2> QED
    BY <1>7, <2>2, <2>3
<1> QED
  BY <1>6, <1>7

LEMMA EndStep ==
  ASSUME IInv, IInv', NEW t \in Thread, End(t)
  PROVE  Shared!End(t)
<1> DEFINE e == doing[t].index
           v == doing[t].value
<1>0. PICK p \in Allocatable(values) :
        /\ values' = Marshalled(values, p, doing[t].value)
        /\ index' = [used |-> IF doing[t].call = "append" THEN index.used + 1
                              ELSE index.used,
                     value_pos |-> [index.value_pos EXCEPT ![e] = p],
                     map |-> index.map]
  BY EndFacts
<1>1. /\ doing[t] \in Statement
      /\ doing[t].call = "append" => e = index.used
      /\ doing[t].call = "set" => e < index.used
      /\ doing' = [doing EXCEPT ![t] = NULL]
      /\ index'.used = IF doing[t].call = "append" THEN index.used + 1 ELSE index.used
  BY <1>0, EndFacts
<1>2. /\ doing[t].call \in {"append", "set"} /\ e \in Nat /\ v \in Value
      /\ doing[t] # NULL
  BY <1>1, StatementIsNotNull DEF Statement
<1>3. /\ Calls[t] # NULL
      /\ Calls[t].index = IF doing[t].call = "append" THEN 0 ELSE e + 1
      /\ Calls[t].value = v
  BY <1>2, CallFacts
<1>4. Calls' = [Calls EXCEPT ![t] = NULL]
  BY <1>1, CallsBecome
<1>5. \A j \in 1 .. index.used : j - 1 \in Nat
  BY ElementsFacts
<1>6. CASE doing[t].call = "append"
  <2> DEFINE l == Append(Elements, v)
  <2>1. /\ l \in Seq(Value \cup {Unset}) /\ Len(l) = index.used + 1
        /\ \A j \in 1 .. index.used : l[j] = Elements[j]
        /\ l[index.used + 1] = v
    BY <1>2, ElementsFacts, AppendProperties
  <2> HIDE DEF l
  <2>2. \A j \in 1 .. index.used + 1 : Element(j - 1)' = l[j]
    <3> SUFFICES ASSUME NEW j \in 1 .. index.used + 1 PROVE Element(j - 1)' = l[j]
      OBVIOUS
    <3>0. index.used \in Nat
      BY ElementsFacts
    <3>1. j - 1 \in Nat /\ (j - 1 = e <=> j = index.used + 1)
      BY <1>1, <1>6, <3>0
    <3>2. CASE j = index.used + 1
      BY <2>1, <3>1, <3>2, EndElements
    <3>3. CASE j \in 1 .. index.used
      <4>1. j - 1 < index.used /\ j - 1 # e
        BY <3>0, <3>1, <3>3
      <4>2. Element(j - 1)' = Element(j - 1)
        BY <3>1, <4>1, EndElements
      <4> QED
        BY <2>1, <3>3, <4>2, ElementsFacts
    <3> QED
      BY <3>0, <3>2, <3>3
  <2>3. Elements' = l
    BY <1>1, <1>6, <2>1, <2>2, ElementsBecome
  <2>4. Calls[t].index = 0
    BY <1>3, <1>6
  <2> QED
    BY <1>3, <1>4, <2>3, <2>4 DEF Shared!End, Elements, Element, Calls, l
<1>7. CASE doing[t].call = "set"
  <2> DEFINE l == [Elements EXCEPT ![e + 1] = v]
  <2>0. index.used \in Nat /\ e + 1 \in 1 .. index.used
    BY <1>1, <1>2, <1>7, ElementsFacts
  <2>1. /\ l \in Seq(Value \cup {Unset}) /\ Len(l) = index.used
        /\ \A j \in 1 .. index.used : l[j] = IF j = e + 1 THEN v ELSE Elements[j]
    BY <1>2, <2>0, ElementsFacts, ExceptSeq
  <2> HIDE DEF l
  <2>2. \A j \in 1 .. index.used : Element(j - 1)' = l[j]
    <3> SUFFICES ASSUME NEW j \in 1 .. index.used PROVE Element(j - 1)' = l[j]
      OBVIOUS
    <3>1. j - 1 \in Nat /\ j - 1 < index.used /\ (j - 1 = e <=> j = e + 1)
      BY <1>2, <2>0
    <3>2. Elements[j] = Element(j - 1)
      BY ElementsFacts
    <3> QED
      BY <2>1, <3>1, <3>2, EndElements
  <2>3. Elements' = l
    BY <1>1, <1>7, <2>1, <2>2, ElementsBecome
  <2>4. Calls[t].index = e + 1 /\ Calls[t].index # 0
    BY <1>2, <1>3, <1>7
  <2> QED
    BY <1>3, <1>4, <2>3, <2>4 DEF Shared!End, Elements, Element, Calls, l
<1> QED
  BY <1>2, <1>6, <1>7

LEMMA FailStep ==
  ASSUME IInv, IInv', NEW t \in Thread, Fail(t)
  PROVE  Shared!Fail(t)
<1>1. /\ doing[t] \in Statement /\ doing[t].call = "append"
      /\ index' = index /\ values' = values /\ broken' = broken
      /\ doing' = [doing EXCEPT ![t] = NULL]
      /\ Assigning' = Assigning
  BY FailFacts
<1>2. Elements' = Elements
  BY <1>1 DEF Elements, Element
<1>3. Calls[t] # NULL /\ Calls[t].index = 0
  BY <1>1, CallFacts, StatementIsNotNull
<1>4. Calls' = [Calls EXCEPT ![t] = NULL]
  BY <1>1, CallsBecome
<1> QED
  BY <1>2, <1>3, <1>4 DEF Shared!Fail, Elements, Element, Calls

SharedVars == <<Elements, Calls>>

LEMMA SharedStep == IInv /\ IInv' /\ [Next]_vars => [Shared!Next]_SharedVars
<1> SUFFICES ASSUME IInv, IInv', [Next]_vars PROVE [Shared!Next]_SharedVars
  OBVIOUS
<1>1. CASE UNCHANGED vars
  <2>1. Elements' = Elements /\ Calls' = Calls
    BY <1>1 DEF vars, Elements, Element, Assigning, Calls
  <2> QED
    BY <2>1 DEF SharedVars
<1>2. ASSUME NEW t \in Thread, NEW v \in Value, BeginAppend(t, v) PROVE Shared!Next
  BY <1>2, BeginAppendStep DEF Shared!Next
<1>3. ASSUME NEW t \in Thread, NEW i \in Assigned[t], NEW v \in Value \ BadValues,
             BeginSet(t, i, v)
      PROVE  Shared!Next
  <2>1. i + 1 \in DOMAIN Elements /\ Shared!BeginSet(t, i + 1, v)
    BY <1>3, BeginSetStep
  <2> QED
    BY <2>1 DEF Shared!Next, Elements, Element
<1>4. ASSUME NEW t \in Thread, End(t) PROVE Shared!Next
  BY <1>4, EndStep DEF Shared!Next
<1>5. ASSUME NEW t \in Thread, Fail(t) PROVE Shared!Next
  BY <1>5, FailStep DEF Shared!Next
<1> QED
  BY <1>1, <1>2, <1>3, <1>4, <1>5 DEF Next

(* Under the same conditions each statement takes effect at the moment it   *)
(* returns, on one element and nothing else, although the index may be      *)
(* mapped anew and chunks reused while it pickles its value.                *)
THEOREM Refinement == Separate /\ Spec => ImplementsShared
<1>1. Separate /\ Init => Shared!Init
  <2> SUFFICES ASSUME Separate, Init PROVE Shared!Init
    OBVIOUS
  <2>1. IInv
    BY InitIInv
  <2>2. Elements = <<>>
    BY <2>1, ElementsFacts DEF Init
  <2>3. Calls = [t \in Thread |-> NULL]
    BY DEF Init, Calls
  <2> QED
    BY <2>2, <2>3 DEF Shared!Init, Elements, Element, Calls
<1>2. Separate /\ Init => IInv
  BY InitIInv
<1>3. IInv /\ [Next]_vars => IInv'
  BY Inductive
<1>4. IInv /\ IInv' /\ [Next]_vars => [Shared!Next]_SharedVars
  BY SharedStep
<1> QED
  BY <1>1, <1>2, <1>3, <1>4, PTL
     DEF Spec, ImplementsShared, Shared!Spec, Shared!vars, SharedVars, Elements, Element, Calls
=============================================================================
