-------------------------- MODULE MappedFileProofs --------------------------
(****************************************************************************)
(* Proofs about MappedFile, for every word size, file size, growth bound    *)
(* and set of objects.  The inductive invariant IInv says what              *)
(* BlocksDisjoint, HeadersIntact and RoomForData say, block by block, and   *)
(* adds that the bytes of every stored object are in its chunk and where    *)
(* the chunk in the making stands.                                          *)
(****************************************************************************)
EXTENDS MappedFile, TLAPS

USE SizeAssumption

(* The size_t z is stored at p in the bytes f. *)
HeaderAt(f, p, z) == \A i \in 0 .. Word - 1 : f[p + i] = IF i = 0 THEN z ELSE 0

(* The pickle of o is stored at p in the bytes f. *)
DataAt(f, p, o) == \A i \in 1 .. Len(Pickle[o]) : f[p + i - 1] = Pickle[o][i]

Start(p) == p - Word
End(p) == p - Word + SizeFor(chunks[p])

(* The chunk at offset p lies in the used part of the file, with its        *)
(* header and data.                                                         *)
ChunkOK(p) ==
  /\ HdrSize <= Start(p) /\ End(p) <= Limit
  /\ HeaderAt(file, Start(p), SizeFor(chunks[p]))
  /\ DataAt(file, p, chunks[p])

HoleOK(h) ==
  /\ HdrSize <= h.pos /\ h.pos + h.size <= Limit
  /\ Word <= h.size
  /\ HeaderAt(file, h.pos, h.size)

(* What the chunk in the making has got so far, and that it overlaps nothing. *)
OpOK ==
  op # Idle =>
    /\ mapped
    /\ op.size = SizeFor(op.obj)
    /\ HdrSize <= op.pos
    /\ HeaderAt(file, op.pos, op.size)
    /\ op.step = "zero" => pos = eof /\ eof = op.pos + Word
    /\ op.step = "fill" => op.pos + op.size <= eof
    /\ \A p \in DOMAIN chunks : Start(p) >= op.pos + op.size \/ End(p) <= op.pos
    /\ \A h \in holes : h.pos >= op.pos + op.size \/ h.pos + h.size <= op.pos

Disjoint ==
  /\ \A p, q \in DOMAIN chunks : p # q => End(p) <= Start(q) \/ End(q) <= Start(p)
  /\ \A p \in DOMAIN chunks, h \in holes : End(p) <= h.pos \/ h.pos + h.size <= Start(p)
  /\ \A h, k \in holes : h # k => h.pos + h.size <= k.pos \/ k.pos + k.size <= h.pos

IInv ==
  /\ TypeOK
  /\ \A p \in DOMAIN chunks : ChunkOK(p)
  /\ \A h \in holes : HoleOK(h)
  /\ OpOK
  /\ Disjoint
  /\ IF mapped THEN HdrSize <= eof ELSE holes = {} /\ op = Idle

-----------------------------------------------------------------------------
(* HOLE_SIZE(x) leaves room for x bytes and the header. *)
LEMMA HoleSizeRoom ==
  ASSUME NEW x \in Nat
  PROVE  HoleSize(x) \in Nat /\ HoleSize(x) >= x + Word
<1> DEFINE n == x + Word - 1
           q == n \div Word
           r == n % Word
<1>1. n \in Nat /\ Word \in Nat /\ Word > 0
  OBVIOUS
<1>2. q \in Nat /\ r \in 0 .. Word - 1 /\ n = Word * q + r
  BY <1>1
<1>3. q * Word \in Nat /\ q * Word = Word * q
  BY <1>1, <1>2
<1>4. q * Word >= x
  BY <1>1, <1>2, <1>3
<1> QED
  BY <1>3, <1>4 DEF HoleSize, Align

LEMMA PickleLength ==
  ASSUME NEW o \in Object
  PROVE  /\ Pickle[o] \in Seq(Nat)
         /\ Len(Pickle[o]) \in Nat
         /\ SizeFor(o) \in Nat
         /\ SizeFor(o) >= Len(Pickle[o]) + Word
BY PickleAssumption, HoleSizeRoom DEF SizeFor

(* A write that succeeds leaves every byte outside it as it was. *)
LEMMA WriteFrame ==
  ASSUME TypeOK, NEW p \in Nat, NEW bytes \in Seq(Nat), Write(p, bytes)
  PROVE  /\ size' \in Nat /\ size <= size' /\ size' <= MaxSize
         /\ p + Len(bytes) <= size'
         /\ file' \in [0 .. size' - 1 -> Nat]
         /\ eof' \in Nat /\ eof <= eof' /\ eof' <= size' /\ p + Len(bytes) <= eof'
         /\ eof' = eof \/ eof' = p + Len(bytes)
         /\ pos' = p + Len(bytes)
         /\ \A i \in 0 .. size - 1 :
              i < p \/ i >= p + Len(bytes) => file'[i] = file[i]
         /\ \A i \in 1 .. Len(bytes) : file'[p + i - 1] = bytes[i]
<1> DEFINE n == Ensured(p, Len(bytes))
<1>1. n \in Nat /\ size <= n /\ n <= MaxSize /\ p + Len(bytes) <= n
  <2>1. n \in (p + Len(bytes)) .. MaxSize
    BY DEF Write, Fits
  <2>2. CASE size < p + Len(bytes)
    BY <2>1, <2>2 DEF TypeOK
  <2>3. CASE ~ (size < p + Len(bytes))
    BY <2>3 DEF TypeOK, Ensured
  <2> QED
    BY <2>2, <2>3
<1>2. size' = n /\ pos' = p + Len(bytes) /\ file' = Stored(p, bytes, n)
  BY DEF Write
<1>3. eof' = IF p + Len(bytes) > eof THEN p + Len(bytes) ELSE eof
  BY DEF Write
<1>4. file' \in [0 .. n - 1 -> Nat]
  <2>1. ASSUME NEW i \in 0 .. n - 1
        PROVE  (IF i \in p .. p + Len(bytes) - 1 THEN bytes[i - p + 1]
                ELSE IF i \in DOMAIN file THEN file[i] ELSE 0) \in Nat
    <3>1. CASE i \in p .. p + Len(bytes) - 1
      <4>1. i - p + 1 \in 1 .. Len(bytes)
        BY <3>1
      <4> QED
        BY <3>1, <4>1
    <3>2. CASE i \notin p .. p + Len(bytes) - 1
      BY <3>2 DEF TypeOK
    <3> QED
      BY <3>1, <3>2
  <2> QED
    BY <2>1, <1>2 DEF Stored
<1>5. ASSUME NEW i \in 0 .. size - 1, i < p \/ i >= p + Len(bytes)
      PROVE  file'[i] = file[i]
  <2>1. i \in 0 .. n - 1 /\ i \notin p .. p + Len(bytes) - 1
    BY <1>1, <1>5 DEF TypeOK
  <2>2. i \in DOMAIN file
    BY DEF TypeOK
  <2> QED
    BY <2>1, <2>2, <1>2 DEF Stored
<1>6. ASSUME NEW i \in 1 .. Len(bytes)
      PROVE  file'[p + i - 1] = bytes[i]
  <2>1. p + i - 1 \in 0 .. n - 1 /\ p + i - 1 \in p .. p + Len(bytes) - 1
    BY <1>1
  <2>2. (p + i - 1) - p + 1 = i
    OBVIOUS
  <2> QED
    BY <2>1, <2>2, <1>2 DEF Stored
<1> HIDE DEF n
<1> QED
  BY <1>1, <1>2, <1>3, <1>4, <1>5, <1>6 DEF TypeOK

-----------------------------------------------------------------------------
(* A chunk stays intact if none of its bytes changes and the file is not    *)
(* cut off before its end; ...                                              *)
LEMMA KeepChunk ==
  ASSUME TypeOK, NEW p \in DOMAIN chunks, ChunkOK(p),
         p \in DOMAIN chunks', chunks'[p] = chunks[p],
         End(p) <= Limit',
         \A i \in Start(p) .. End(p) - 1 : file'[i] = file[i]
  PROVE  ChunkOK(p)'
<1> DEFINE o == chunks[p]
<1>1. /\ o \in Object /\ p \in Nat
      /\ Len(Pickle[o]) \in Nat /\ SizeFor(o) \in Nat
      /\ SizeFor(o) >= Len(Pickle[o]) + Word
  BY PickleLength DEF TypeOK
<1>2. HeaderAt(file', Start(p), SizeFor(o))
  <2>1. ASSUME NEW i \in 0 .. Word - 1
        PROVE  file'[Start(p) + i] = file[Start(p) + i]
    BY <1>1 DEF Start, End
  <2> QED
    BY <2>1 DEF ChunkOK, HeaderAt
<1>3. DataAt(file', p, o)
  <2>1. ASSUME NEW i \in 1 .. Len(Pickle[o])
        PROVE  file'[p + i - 1] = file[p + i - 1]
    BY <1>1 DEF Start, End
  <2> QED
    BY <2>1 DEF ChunkOK, DataAt
<1>4. SizeFor(chunks'[p]) = SizeFor(o) /\ SizeFor(chunks[p])' = SizeFor(o)
  BY DEF SizeFor, HoleSize, Align
<1> QED
  BY <1>2, <1>3, <1>4 DEF ChunkOK, Start, End

(* ... and so does a hole.                                                  *)
LEMMA KeepHole ==
  ASSUME TypeOK, NEW h \in holes, HoleOK(h),
         h.pos + h.size <= Limit',
         \A i \in h.pos .. h.pos + h.size - 1 : file'[i] = file[i]
  PROVE  HoleOK(h)'
<1>1. h.pos \in Nat /\ h.size \in Nat
  BY DEF TypeOK
<1>2. ASSUME NEW i \in 0 .. Word - 1
      PROVE  file'[h.pos + i] = file[h.pos + i]
  BY <1>1 DEF HoleOK
<1> QED
  BY <1>2 DEF HoleOK, HeaderAt

(* The size_t at p reads as what is stored there.                           *)
LEMMA HeaderRead ==
  ASSUME NEW p \in Int, NEW z, HeaderAt(file, p, z)
  PROVE  WordAt(p) = z
<1>1. file[p + 0] = z /\ p + 0 = p
  BY DEF HeaderAt
<1>2. \A i \in 1 .. Word - 1 : file[p + i] = 0
  BY DEF HeaderAt
<1> QED
  BY <1>1, <1>2 DEF WordAt

(* A step that keeps the bytes of the blocks in use, cuts the file before   *)
(* the end of none and makes no new ones keeps them intact and apart.       *)
LEMMA KeepBlocks ==
  ASSUME IInv, Limit <= Limit', Limit' \in Nat,
         DOMAIN chunks' \subseteq DOMAIN chunks,
         \A p \in DOMAIN chunks' : chunks'[p] = chunks[p],
         holes' \subseteq holes,
         \A p \in DOMAIN chunks : \A i \in Start(p) .. End(p) - 1 : file'[i] = file[i],
         \A h \in holes : \A i \in h.pos .. h.pos + h.size - 1 : file'[i] = file[i]
  PROVE  /\ \A p \in DOMAIN chunks' : ChunkOK(p)'
         /\ \A h \in holes' : HoleOK(h)'
         /\ Disjoint'
<1>0. Limit \in Nat
  BY DEF IInv, TypeOK, Limit
<1>1. ASSUME NEW p \in DOMAIN chunks
      PROVE  /\ p \in Nat /\ SizeFor(chunks[p]) \in Nat
             /\ Start(p) \in Int /\ End(p) \in Int
             /\ End(p) <= Limit'
  <2>1. p \in Nat /\ chunks[p] \in Object
    BY DEF IInv, TypeOK
  <2>2. SizeFor(chunks[p]) \in Nat
    BY <2>1, PickleLength
  <2>3. End(p) <= Limit
    BY DEF IInv, ChunkOK
  <2> QED
    BY <1>0, <2>1, <2>2, <2>3 DEF Start, End
<1>2. ASSUME NEW h \in holes
      PROVE  h.pos \in Nat /\ h.size \in Nat /\ h.pos + h.size <= Limit'
  <2>1. h.pos \in Nat /\ h.size \in Nat
    BY DEF IInv, TypeOK
  <2>2. h.pos + h.size <= Limit
    BY DEF IInv, HoleOK
  <2> QED
    BY <1>0, <2>1, <2>2
<1>3. ASSUME NEW p \in DOMAIN chunks'
      PROVE  End(p)' = End(p) /\ Start(p)' = Start(p)
  BY DEF End, Start, SizeFor, HoleSize, Align
<1>4. ASSUME NEW p \in DOMAIN chunks'
      PROVE  ChunkOK(p)'
  BY <1>1, KeepChunk DEF IInv
<1>5. ASSUME NEW h \in holes'
      PROVE  HoleOK(h)'
  BY <1>2, KeepHole DEF IInv
<1>6. Disjoint'
  BY <1>3 DEF IInv, Disjoint
<1> QED
  BY <1>4, <1>5, <1>6

(* What IInv says of one chunk, and of one hole.                            *)
LEMMA ChunkBlock ==
  ASSUME IInv, NEW p \in DOMAIN chunks
  PROVE  /\ p \in Nat /\ chunks[p] \in Object
         /\ SizeFor(chunks[p]) \in Nat
         /\ SizeFor(chunks[p]) >= Word
         /\ Start(p) \in Nat /\ HdrSize <= Start(p)
         /\ End(p) \in Nat
         /\ End(p) = Start(p) + SizeFor(chunks[p])
         /\ End(p) <= Limit
         /\ WordAt(Start(p)) = SizeFor(chunks[p])
<1>1. p \in Nat /\ chunks[p] \in Object
  BY DEF IInv, TypeOK
<1>2. SizeFor(chunks[p]) \in Nat /\ SizeFor(chunks[p]) >= Word
  BY <1>1, PickleLength
<1>3. HdrSize <= Start(p) /\ End(p) <= Limit /\ HeaderAt(file, Start(p), SizeFor(chunks[p]))
  BY DEF IInv, ChunkOK
<1>4. Start(p) \in Nat /\ End(p) = Start(p) + SizeFor(chunks[p]) /\ End(p) \in Nat
  BY <1>1, <1>2, <1>3 DEF Start, End
<1>5. WordAt(Start(p)) = SizeFor(chunks[p])
  BY <1>3, <1>4, HeaderRead
<1> QED
  BY <1>1, <1>2, <1>3, <1>4, <1>5

LEMMA HoleBlock ==
  ASSUME IInv, NEW h \in holes
  PROVE  /\ h.pos \in Nat /\ h.size \in Nat /\ h.size >= Word
         /\ HdrSize <= h.pos /\ h.pos + h.size <= Limit
         /\ WordAt(h.pos) = h.size
<1>1. h.pos \in Nat /\ h.size \in Nat
  BY DEF IInv, TypeOK
<1>2. HdrSize <= h.pos /\ h.pos + h.size <= Limit /\ Word <= h.size /\ HeaderAt(file, h.pos, h.size)
  BY DEF IInv, HoleOK
<1> QED
  BY <1>1, <1>2, HeaderRead

(* The bytes of a block are below Limit, hence in the file.                 *)
LEMMA ChunkBytes ==
  ASSUME IInv, NEW p \in DOMAIN chunks, NEW i \in Start(p) .. End(p) - 1
  PROVE  i \in Nat /\ i < Limit /\ i \in 0 .. size - 1
<1>1. Start(p) \in Nat /\ End(p) \in Nat /\ End(p) <= Limit
  BY ChunkBlock
<1>2. Limit \in Nat /\ size \in Nat /\ Limit <= size
  BY DEF IInv, TypeOK, Limit
<1> QED
  BY <1>1, <1>2

LEMMA HoleBytes ==
  ASSUME IInv, NEW h \in holes, NEW i \in h.pos .. h.pos + h.size - 1
  PROVE  i \in Nat /\ i < Limit /\ i \in 0 .. size - 1
<1>1. h.pos \in Nat /\ h.size \in Nat /\ h.pos + h.size <= Limit
  BY HoleBlock
<1>2. Limit \in Nat /\ size \in Nat /\ Limit <= size
  BY DEF IInv, TypeOK, Limit
<1> QED
  BY <1>1, <1>2

(* Facts about the bytes a store writes.                                    *)
LEMMA WordBytesSeq ==
  ASSUME NEW z \in Nat
  PROVE  /\ WordBytes(z) \in Seq(Nat) /\ Len(WordBytes(z)) = Word
         /\ \A i \in 1 .. Word : WordBytes(z)[i] = IF i = 1 THEN z ELSE 0
BY DEF WordBytes

LEMMA ZerosSeq ==
  ASSUME NEW n \in Nat
  PROVE  Zeros(n) \in Seq(Nat) /\ Len(Zeros(n)) = n
BY DEF Zeros

-----------------------------------------------------------------------------
(****************************************************************************)
(* IInv is inductive: one lemma per action.                                 *)
(****************************************************************************)
LEMMA InitIInv == Init => IInv
<1> SUFFICES ASSUME Init PROVE IInv
  OBVIOUS
<1>1. DOMAIN chunks = {} /\ holes = {} /\ op = Idle
  BY DEF Init
<1>2. TypeOK
  BY <1>1 DEF Init, TypeOK
<1>3. HdrSize <= eof
  BY DEF Init
<1> QED
  BY <1>1, <1>2, <1>3 DEF Init, IInv, OpOK, Disjoint

LEMMA ReuseHoleIInv ==
  ASSUME IInv, NEW o \in Object, ReuseHole(o)
  PROVE  IInv'
<1>1. PICK h \in Fitting(SizeFor(o)) :
        /\ holes' = holes \ {h}
        /\ op' = [step |-> "fill", obj |-> o, pos |-> h.pos, size |-> h.size]
  BY DEF ReuseHole
<1>2. mapped /\ op = Idle /\ UNCHANGED <<file, size, pos, eof, mapped, chunks>>
  BY DEF ReuseHole
<1>3. h \in holes /\ h.size = SizeFor(o)
  BY DEF Fitting
<1>4. /\ h.pos \in Nat /\ h.size \in Nat /\ h.size >= Word
      /\ HdrSize <= h.pos /\ h.pos + h.size <= Limit
  BY <1>3, HoleBlock
<1>5. TypeOK'
  BY <1>1, <1>2, <1>4 DEF IInv, TypeOK
<1>6. /\ \A p \in DOMAIN chunks' : ChunkOK(p)'
      /\ \A k \in holes' : HoleOK(k)'
      /\ Disjoint'
  <2>1. Limit' = Limit /\ Limit' \in Nat
    BY <1>2 DEF Limit, IInv, TypeOK
  <2> QED
    BY <1>1, <1>2, <2>1, KeepBlocks
<1>7. OpOK'
  <2>1. HeaderAt(file', h.pos, h.size)
    BY <1>2, <1>3 DEF IInv, HoleOK, HeaderAt
  <2>2. \A p \in DOMAIN chunks' : Start(p)' >= h.pos + h.size \/ End(p)' <= h.pos
    <3>1. ASSUME NEW p \in DOMAIN chunks
          PROVE  Start(p) >= h.pos + h.size \/ End(p) <= h.pos
      BY <1>3, <1>4, ChunkBlock DEF IInv, Disjoint
    <3> QED
      BY <1>2, <3>1 DEF Start, End, SizeFor, HoleSize, Align
  <2>3. \A k \in holes' : k.pos >= h.pos + h.size \/ k.pos + k.size <= h.pos
    BY <1>1, <1>3, <1>4, HoleBlock DEF IInv, Disjoint
  <2>4. /\ op'.size = SizeFor(op'.obj) /\ op'.pos = h.pos /\ op'.size = h.size
        /\ op'.step = "fill"
    BY <1>1, <1>3
  <2>5. SizeFor(op.obj)' = SizeFor(op'.obj)
    BY DEF SizeFor, HoleSize, Align
  <2>6. h.pos + h.size <= eof'
    BY <1>2, <1>4 DEF Limit
  <2> QED
    BY <1>2, <1>4, <2>1, <2>2, <2>3, <2>4, <2>5, <2>6 DEF OpOK
<1> QED
  BY <1>2, <1>5, <1>6, <1>7 DEF IInv

LEMMA AppendHeaderIInv ==
  ASSUME IInv, NEW o \in Object, AppendHeader(o)
  PROVE  IInv'
<1> DEFINE z == SizeFor(o)
<1>1. /\ mapped /\ op = Idle /\ UNCHANGED <<holes, mapped, chunks>>
      /\ Write(eof, WordBytes(z))
      /\ op' = [step |-> "zero", obj |-> o, pos |-> eof, size |-> z]
  BY DEF AppendHeader
<1>2. /\ z \in Nat /\ z >= Word /\ eof \in Nat /\ HdrSize <= eof /\ eof <= size
      /\ size \in Nat /\ Limit = eof
  BY <1>1, PickleLength DEF IInv, TypeOK, Limit
<1>3. /\ size' \in Nat /\ size <= size' /\ size' <= MaxSize
      /\ file' \in [0 .. size' - 1 -> Nat]
      /\ eof' \in Nat /\ eof' = eof + Word /\ eof' <= size'
      /\ pos' = eof + Word
      /\ \A i \in 0 .. size - 1 : i < eof => file'[i] = file[i]
      /\ \A i \in 1 .. Word : file'[eof + i - 1] = IF i = 1 THEN z ELSE 0
  <2>1. WordBytes(z) \in Seq(Nat) /\ Len(WordBytes(z)) = Word
    BY <1>2, WordBytesSeq
  <2>2. /\ size' \in Nat /\ size <= size' /\ size' <= MaxSize
        /\ file' \in [0 .. size' - 1 -> Nat]
        /\ eof' \in Nat /\ eof <= eof' /\ eof' <= size' /\ eof + Word <= eof'
        /\ eof' = eof \/ eof' = eof + Word
        /\ pos' = eof + Word
        /\ \A i \in 0 .. size - 1 : i < eof \/ i >= eof + Word => file'[i] = file[i]
        /\ \A i \in 1 .. Word : file'[eof + i - 1] = WordBytes(z)[i]
    BY <1>1, <1>2, <2>1, WriteFrame DEF IInv
  <2>3. eof' = eof + Word
    BY <1>2, <2>2
  <2> QED
    BY <1>2, <2>2, <2>3, WordBytesSeq
<1>4. TypeOK'
  BY <1>1, <1>2, <1>3 DEF IInv, TypeOK
<1>5. Limit' = eof' /\ Limit <= Limit' /\ Limit' \in Nat
  BY <1>1, <1>2, <1>3 DEF Limit
<1>6. /\ \A p \in DOMAIN chunks' : ChunkOK(p)'
      /\ \A k \in holes' : HoleOK(k)'
      /\ Disjoint'
  <2>1. ASSUME NEW p \in DOMAIN chunks, NEW i \in Start(p) .. End(p) - 1
        PROVE  file'[i] = file[i]
    BY <1>2, <1>3, ChunkBytes
  <2>2. ASSUME NEW h \in holes, NEW i \in h.pos .. h.pos + h.size - 1
        PROVE  file'[i] = file[i]
    BY <1>2, <1>3, HoleBytes
  <2> QED
    BY <1>1, <1>5, <2>1, <2>2, KeepBlocks
<1>7. OpOK'
  <2>1. HeaderAt(file', eof, z)
    <3>1. ASSUME NEW i \in 0 .. Word - 1
          PROVE  file'[eof + i] = IF i = 0 THEN z ELSE 0
      <4>1. i + 1 \in 1 .. Word /\ eof + (i + 1) - 1 = eof + i
        BY <1>2
      <4> QED
        BY <1>3, <4>1
    <3> QED
      BY <3>1 DEF HeaderAt
  <2>2. \A p \in DOMAIN chunks' : End(p)' <= eof
    <3>1. \A p \in DOMAIN chunks : End(p) <= eof
      BY <1>2, ChunkBlock
    <3> QED
      BY <1>1, <3>1 DEF Start, End, SizeFor, HoleSize, Align
  <2>3. \A h \in holes' : h.pos + h.size <= eof
    BY <1>1, <1>2, HoleBlock
  <2>4. SizeFor(op.obj)' = z
    BY <1>1 DEF SizeFor, HoleSize, Align
  <2>5. op'.size = z /\ op'.pos = eof /\ op'.step = "zero"
    BY <1>1
  <2> HIDE DEF z
  <2> QED
    BY <1>1, <1>2, <1>3, <2>1, <2>2, <2>3, <2>4, <2>5 DEF OpOK
<1> QED
  BY <1>1, <1>2, <1>3, <1>4, <1>6, <1>7 DEF IInv

LEMMA ZeroChunkIInv ==
  ASSUME IInv, ZeroChunk
  PROVE  IInv'
<1> DEFINE n == op.size - Word
<1>1. /\ mapped /\ op.step = "zero" /\ UNCHANGED <<holes, mapped, chunks>>
      /\ Write(pos, Zeros(n))
      /\ op' = [op EXCEPT !.step = "fill"]
  BY DEF ZeroChunk
<1>2. op # Idle
  BY <1>1 DEF Idle
<1>3. /\ op \in [step : {"zero", "fill"}, obj : Object, pos : Nat, size : Nat]
      /\ op.size = SizeFor(op.obj) /\ HdrSize <= op.pos
      /\ HeaderAt(file, op.pos, op.size)
      /\ pos = eof /\ eof = op.pos + Word
      /\ \A p \in DOMAIN chunks : Start(p) >= op.pos + op.size \/ End(p) <= op.pos
      /\ \A h \in holes : h.pos >= op.pos + op.size \/ h.pos + h.size <= op.pos
  BY <1>1, <1>2 DEF IInv, TypeOK, OpOK
<1>4. /\ op.size \in Nat /\ op.size >= Word /\ op.pos \in Nat /\ n \in Nat
      /\ eof \in Nat /\ eof <= size /\ size \in Nat /\ Limit = eof
  BY <1>1, <1>3, PickleLength DEF IInv, TypeOK, Limit
<1>5. /\ size' \in Nat /\ size <= size' /\ size' <= MaxSize
      /\ file' \in [0 .. size' - 1 -> Nat]
      /\ eof' \in Nat /\ eof' = op.pos + op.size /\ eof' <= size' /\ eof <= eof'
      /\ pos' = op.pos + op.size
      /\ \A i \in 0 .. size - 1 : i < eof => file'[i] = file[i]
  <2>1. Zeros(n) \in Seq(Nat) /\ Len(Zeros(n)) = n
    BY <1>4, ZerosSeq
  <2> HIDE DEF n
  <2>2. /\ size' \in Nat /\ size <= size' /\ size' <= MaxSize
        /\ file' \in [0 .. size' - 1 -> Nat]
        /\ eof' \in Nat /\ eof <= eof' /\ eof' <= size' /\ eof + n <= eof'
        /\ eof' = eof \/ eof' = eof + n
        /\ pos' = eof + n
        /\ \A i \in 0 .. size - 1 : i < eof \/ i >= eof + n => file'[i] = file[i]
    BY <1>1, <1>3, <1>4, <2>1, WriteFrame DEF IInv
  <2>3. eof' = eof + n /\ eof + n = op.pos + op.size
    BY <1>3, <1>4, <2>2 DEF n
  <2> QED
    BY <1>4, <2>2, <2>3
<1>6. /\ op'.step = "fill" /\ op'.pos = op.pos /\ op'.size = op.size /\ op'.obj = op.obj
      /\ op' \in [step : {"zero", "fill"}, obj : Object, pos : Nat, size : Nat]
  BY <1>1, <1>3
<1>7. TypeOK'
  <2>1. mapped' = mapped /\ holes' = holes /\ chunks' = chunks
    BY <1>1
  <2>2. size' \in HdrSize .. MaxSize /\ pos' \in 0 .. size' /\ eof' \in 0 .. size'
    BY <1>4, <1>5 DEF IInv, TypeOK
  <2> QED
    BY <1>5, <1>6, <2>1, <2>2 DEF IInv, TypeOK
<1>8. Limit' = eof' /\ Limit <= Limit' /\ Limit' \in Nat
  BY <1>1, <1>4, <1>5 DEF Limit
<1>9. /\ \A p \in DOMAIN chunks' : ChunkOK(p)'
      /\ \A k \in holes' : HoleOK(k)'
      /\ Disjoint'
  <2>1. ASSUME NEW p \in DOMAIN chunks, NEW i \in Start(p) .. End(p) - 1
        PROVE  file'[i] = file[i]
    BY <1>4, <1>5, ChunkBytes
  <2>2. ASSUME NEW h \in holes, NEW i \in h.pos .. h.pos + h.size - 1
        PROVE  file'[i] = file[i]
    BY <1>4, <1>5, HoleBytes
  <2> QED
    BY <1>1, <1>8, <2>1, <2>2, KeepBlocks
<1>10. OpOK'
  <2>1. HeaderAt(file', op.pos, op.size)
    <3>1. ASSUME NEW i \in 0 .. Word - 1
          PROVE  file'[op.pos + i] = file[op.pos + i]
      <4>1. op.pos + i \in 0 .. size - 1 /\ op.pos + i < eof
        BY <1>3, <1>4
      <4> QED
        BY <1>5, <4>1
    <3> QED
      BY <1>3, <3>1 DEF HeaderAt
  <2>2. \A p \in DOMAIN chunks' : Start(p)' >= op.pos + op.size \/ End(p)' <= op.pos
    BY <1>1, <1>3 DEF Start, End, SizeFor, HoleSize, Align
  <2>3. SizeFor(op.obj)' = SizeFor(op.obj)
    BY <1>6 DEF SizeFor, HoleSize, Align
  <2> QED
    BY <1>1, <1>3, <1>4, <1>5, <1>6, <2>1, <2>2, <2>3 DEF OpOK
<1> QED
  BY <1>1, <1>3, <1>4, <1>5, <1>7, <1>9, <1>10 DEF IInv

(* The steps that change neither the file nor the blocks in use, except to  *)
(* forget some.                                                             *)
LEMMA QuietIInv ==
  ASSUME IInv, file' = file, size' = size, op' = Idle,
         pos' \in 0 .. size, eof' \in 0 .. size, mapped' \in BOOLEAN,
         holes' \subseteq holes,
         DOMAIN chunks' \subseteq DOMAIN chunks,
         chunks' = [p \in DOMAIN chunks' |-> chunks[p]],
         Limit <= Limit',
         IF mapped' THEN HdrSize <= eof' ELSE holes' = {}
  PROVE  IInv'
<1>1. \A p \in DOMAIN chunks' : chunks'[p] = chunks[p]
  OBVIOUS
<1>2. chunks' \in [DOMAIN chunks' -> Object]
  BY <1>1 DEF IInv, TypeOK
<1>3. TypeOK'
  <2>1. size' \in HdrSize .. MaxSize /\ file' \in [0 .. size' - 1 -> Nat]
    BY DEF IInv, TypeOK
  <2>2. holes' \subseteq [pos : Nat, size : Nat] /\ DOMAIN chunks' \subseteq Nat
    BY DEF IInv, TypeOK
  <2> QED
    BY <1>2, <2>1, <2>2 DEF TypeOK
<1>4. Limit' \in Nat
  BY <1>3 DEF TypeOK, Limit
<1>5. /\ \A p \in DOMAIN chunks' : ChunkOK(p)'
      /\ \A k \in holes' : HoleOK(k)'
      /\ Disjoint'
  BY <1>1, <1>4, KeepBlocks
<1>6. OpOK'
  BY DEF OpOK
<1> QED
  BY <1>3, <1>5, <1>6 DEF IInv

(* The offset FillChunk returns is one its owner does not hold.             *)
LEMMA FreshHandle ==
  ASSUME IInv, op.step = "fill"
  PROVE  op.pos + Word \notin DOMAIN chunks /\ op.pos + Word \in 0 .. MaxSize
<1>1. op # Idle
  BY DEF Idle
<1>2. /\ op.obj \in Object /\ op.pos \in Nat /\ op.size = SizeFor(op.obj)
      /\ op.pos + op.size <= eof
      /\ \A p \in DOMAIN chunks : Start(p) >= op.pos + op.size \/ End(p) <= op.pos
  BY <1>1 DEF IInv, TypeOK, OpOK
<1>3. op.size \in Nat /\ op.size >= Word
  BY <1>2, PickleLength
<1>4. op.pos + Word \in 0 .. MaxSize
  BY <1>2, <1>3 DEF IInv, TypeOK
<1>5. ASSUME op.pos + Word \in DOMAIN chunks PROVE FALSE
  <2>1. Start(op.pos + Word) = op.pos
    BY <1>2 DEF Start
  <2>2. /\ End(op.pos + Word) \in Nat
        /\ End(op.pos + Word) >= Start(op.pos + Word) + Word
    BY <1>5, ChunkBlock
  <2> QED
    BY <1>2, <1>3, <1>5, <2>1, <2>2
<1> QED
  BY <1>4, <1>5

LEMMA FillChunkIInv ==
  ASSUME IInv, FillChunk
  PROVE  IInv'
<1>0. PICK o, b, q, z, n : /\ o = op.obj /\ b = op.pos /\ q = op.pos + Word
                          /\ z = op.size /\ n = Len(Pickle[o])
  OBVIOUS
<1>1. /\ mapped /\ op.step = "fill" /\ UNCHANGED <<holes, mapped>>
      /\ Write(q, Pickle[o])
      /\ chunks' = [p \in DOMAIN chunks \cup {q} |-> IF p = q THEN o ELSE chunks[p]]
      /\ op' = Idle
  BY <1>0 DEF FillChunk
<1>2. op # Idle
  BY <1>1 DEF Idle
<1>3. /\ o \in Object /\ b \in Nat /\ q = b + Word /\ z \in Nat
      /\ z = SizeFor(o) /\ HdrSize <= b
      /\ HeaderAt(file, b, z)
      /\ b + z <= eof
      /\ \A p \in DOMAIN chunks : Start(p) >= b + z \/ End(p) <= b
      /\ \A h \in holes : h.pos >= b + z \/ h.pos + h.size <= b
  BY <1>0, <1>1, <1>2 DEF IInv, TypeOK, OpOK
<1>4. /\ Pickle[o] \in Seq(Nat) /\ Len(Pickle[o]) = n /\ n \in Nat
      /\ q \in Nat /\ q + n <= b + z /\ q + n <= eof
      /\ eof \in Nat /\ eof <= size /\ size \in Nat /\ Limit = eof
  <2>1. Pickle[o] \in Seq(Nat) /\ Len(Pickle[o]) = n /\ n \in Nat /\ z >= n + Word
    BY <1>0, <1>3, PickleLength
  <2>2. eof \in Nat /\ eof <= size /\ size \in Nat /\ Limit = eof
    BY <1>1 DEF IInv, TypeOK, Limit
  <2> QED
    BY <1>3, <2>1, <2>2
<1>5. /\ size' \in Nat /\ size <= size' /\ size' <= MaxSize
      /\ file' \in [0 .. size' - 1 -> Nat]
      /\ eof' = eof /\ eof' <= size'
      /\ pos' = q + n /\ pos' \in 0 .. size'
      /\ \A i \in 0 .. size - 1 :
           i < q \/ i >= q + n => file'[i] = file[i]
      /\ \A i \in 1 .. n : file'[q + i - 1] = Pickle[o][i]
  <2>1. /\ size' \in Nat /\ size <= size' /\ size' <= MaxSize
        /\ q + n <= size'
        /\ file' \in [0 .. size' - 1 -> Nat]
        /\ eof <= eof' /\ eof' <= size' /\ eof' \in Nat
        /\ eof' = eof \/ eof' = q + n
        /\ pos' = q + n
        /\ \A i \in 0 .. size - 1 :
             i < q \/ i >= q + n => file'[i] = file[i]
        /\ \A i \in 1 .. n : file'[q + i - 1] = Pickle[o][i]
    BY <1>1, <1>4, WriteFrame DEF IInv
  <2>3. eof' = eof
    BY <1>4, <2>1
  <2>4. pos' \in 0 .. size'
    BY <1>4, <2>1
  <2> QED
    BY <2>1, <2>3, <2>4
<1>6. q \notin DOMAIN chunks
  BY <1>0, <1>1, FreshHandle
<1>7. Limit' = Limit
  BY <1>1, <1>4, <1>5 DEF Limit
<1>8. ASSUME NEW p \in DOMAIN chunks
      PROVE  /\ p \in DOMAIN chunks' /\ chunks'[p] = chunks[p] /\ p # q
             /\ Start(p)' = Start(p) /\ End(p)' = End(p)
             /\ ChunkOK(p)'
  <2>1. p \in DOMAIN chunks' /\ chunks'[p] = chunks[p] /\ p # q
    BY <1>1, <1>6
  <2>2. Start(p)' = Start(p) /\ End(p)' = End(p)
    BY <2>1 DEF Start, End, SizeFor, HoleSize, Align
  <2>3. ASSUME NEW i \in Start(p) .. End(p) - 1
        PROVE  file'[i] = file[i]
    <3>1. i \in 0 .. size - 1
      BY ChunkBytes
    <3>2. i < b \/ i >= b + z
      <4>1. Start(p) \in Nat /\ End(p) \in Nat
        BY ChunkBlock
      <4> QED
        BY <1>3, <4>1
    <3>3. i < q \/ i >= q + n
      BY <1>3, <1>4, <3>1, <3>2
    <3> QED
      BY <1>5, <3>1, <3>3
  <2>4. End(p) <= Limit'
    BY <1>7, ChunkBlock
  <2> QED
    BY <2>1, <2>2, <2>3, <2>4, KeepChunk DEF IInv
<1>9. ASSUME NEW h \in holes'
      PROVE  HoleOK(h)'
  <2>1. h \in holes /\ HoleOK(h) /\ h.pos + h.size <= Limit'
    BY <1>1, <1>7, HoleBlock DEF IInv
  <2>2. ASSUME NEW i \in h.pos .. h.pos + h.size - 1
        PROVE  file'[i] = file[i]
    <3>1. i \in 0 .. size - 1
      BY <2>1, HoleBytes
    <3>2. i < b \/ i >= b + z
      <4>1. h.pos \in Nat /\ h.size \in Nat
        BY <2>1, HoleBlock
      <4> QED
        BY <1>3, <2>1, <4>1
    <3>3. i < q \/ i >= q + n
      BY <1>3, <1>4, <3>1, <3>2
    <3> QED
      BY <1>5, <3>1, <3>3
  <2> QED
    BY <2>1, <2>2, KeepHole DEF IInv
<1>10. Start(q)' = b /\ End(q)' = b + z /\ chunks'[q] = o /\ q \in DOMAIN chunks'
  <2>1. chunks'[q] = o /\ q \in DOMAIN chunks'
    BY <1>1
  <2>2. SizeFor(chunks[q])' = SizeFor(o)
    BY <2>1 DEF SizeFor, HoleSize, Align
  <2> QED
    BY <1>3, <2>1, <2>2 DEF Start, End
<1>11. ChunkOK(q)'
  <2>1. HeaderAt(file', b, z)
    <3>1. ASSUME NEW i \in 0 .. Word - 1
          PROVE  file'[b + i] = file[b + i]
      <4>1. b + i \in 0 .. size - 1 /\ b + i < q
        BY <1>3, <1>4
      <4> QED
        BY <1>5, <4>1
    <3> QED
      BY <1>3, <3>1 DEF HeaderAt
  <2>2. DataAt(file', q, o)
    BY <1>4, <1>5 DEF DataAt
  <2>3. SizeFor(chunks[q])' = z
    BY <1>3, <1>10 DEF SizeFor, HoleSize, Align
  <2> QED
    BY <1>3, <1>4, <1>7, <1>10, <2>1, <2>2, <2>3 DEF ChunkOK
<1>12. TypeOK'
  <2>1. DOMAIN chunks' \subseteq Nat /\ chunks' \in [DOMAIN chunks' -> Object]
    BY <1>1, <1>3, <1>4 DEF IInv, TypeOK
  <2>2. size' \in HdrSize .. MaxSize /\ eof' \in 0 .. size'
    BY <1>4, <1>5 DEF IInv, TypeOK
  <2> QED
    BY <1>1, <1>5, <2>1, <2>2 DEF IInv, TypeOK
<1>13. Disjoint'
  <2>1. DOMAIN chunks' = DOMAIN chunks \cup {q}
    BY <1>1
  <2>2. ASSUME NEW p \in DOMAIN chunks', NEW r \in DOMAIN chunks', p # r
        PROVE  End(p)' <= Start(r)' \/ End(r)' <= Start(p)'
    BY <1>3, <1>8, <1>10, <2>1, <2>2, ChunkBlock DEF IInv, Disjoint
  <2>3. ASSUME NEW p \in DOMAIN chunks', NEW h \in holes'
        PROVE  End(p)' <= h.pos \/ h.pos + h.size <= Start(p)'
    BY <1>1, <1>3, <1>8, <1>10, <2>1, HoleBlock DEF IInv, Disjoint
  <2>4. \A h, k \in holes' : h # k => h.pos + h.size <= k.pos \/ k.pos + k.size <= h.pos
    BY <1>1 DEF IInv, Disjoint
  <2> QED
    BY <2>2, <2>3, <2>4 DEF Disjoint
<1>14. \A p \in DOMAIN chunks' : ChunkOK(p)'
  BY <1>1, <1>8, <1>11
<1>15. OpOK' /\ mapped' /\ HdrSize <= eof'
  BY <1>1, <1>5 DEF OpOK, IInv
<1> QED
  BY <1>9, <1>12, <1>13, <1>14, <1>15 DEF IInv

LEMMA FreeChunkIInv ==
  ASSUME IInv, NEW p \in DOMAIN chunks, FreeChunk(p)
  PROVE  IInv'
<1>0. PICK b, z, h : b = Start(p) /\ z = SizeFor(chunks[p]) /\ h = [pos |-> b, size |-> z]
  OBVIOUS
<1>1. /\ b \in Nat /\ z \in Nat /\ z >= Word /\ HdrSize <= b /\ p \in Nat
      /\ End(p) = b + z /\ b + z <= Limit /\ WordAt(p - Word) = z /\ p - Word = b
      /\ HeaderAt(file, b, z)
  BY <1>0, ChunkBlock DEF Start, IInv, ChunkOK
<1>2. /\ mapped /\ op = Idle /\ UNCHANGED <<file, size, eof, mapped, op>>
      /\ chunks' = [q \in DOMAIN chunks \ {p} |-> chunks[q]]
      /\ pos' = p
  BY DEF FreeChunk
<1>3. /\ size \in Nat /\ Limit <= size /\ Limit \in Nat /\ Limit' = Limit
      /\ p \in 0 .. size
  <2>1. size \in Nat /\ eof \in 0 .. size /\ Limit = eof /\ Limit' = eof
    BY <1>2 DEF IInv, TypeOK, Limit
  <2> QED
    BY <1>1, <2>1
<1>4. holes' = holes \cup {h}
  <2>1. p - Word + WordAt(p - Word) <= size
    BY <1>1, <1>3
  <2>2. h = [pos |-> p - Word, size |-> WordAt(p - Word)]
    BY <1>0, <1>1
  <2> QED
    BY <2>1, <2>2 DEF FreeChunk
<1>5. h.pos = b /\ h.size = z
  BY <1>0
<1>6. TypeOK'
  <2>1. DOMAIN chunks' \subseteq Nat /\ chunks' \in [DOMAIN chunks' -> Object]
    BY <1>2 DEF IInv, TypeOK
  <2>2. holes' \subseteq [pos : Nat, size : Nat]
    BY <1>0, <1>1, <1>4 DEF IInv, TypeOK
  <2> QED
    BY <1>2, <1>3, <2>1, <2>2 DEF IInv, TypeOK
<1>7. ASSUME NEW q \in DOMAIN chunks'
      PROVE  /\ q \in DOMAIN chunks /\ q # p
             /\ Start(q)' = Start(q) /\ End(q)' = End(q)
             /\ ChunkOK(q)'
  <2>1. q \in DOMAIN chunks /\ q # p /\ chunks'[q] = chunks[q]
    BY <1>2
  <2>2. Start(q)' = Start(q) /\ End(q)' = End(q)
    BY <2>1 DEF Start, End, SizeFor, HoleSize, Align
  <2>3. End(q) <= Limit'
    BY <1>3, <2>1, ChunkBlock
  <2> QED
    BY <1>2, <2>1, <2>2, <2>3, KeepChunk DEF IInv
<1>8. ASSUME NEW k \in holes
      PROVE  HoleOK(k)'
  <2>1. k.pos + k.size <= Limit'
    BY <1>3, HoleBlock
  <2> QED
    BY <1>2, <2>1, KeepHole DEF IInv
<1>9. HoleOK(h)'
  BY <1>1, <1>2, <1>3, <1>5 DEF HoleOK, HeaderAt
<1>10. Disjoint'
  <2>1. ASSUME NEW q \in DOMAIN chunks', NEW r \in DOMAIN chunks', q # r
        PROVE  End(q)' <= Start(r)' \/ End(r)' <= Start(q)'
    <3>1. End(q) <= Start(r) \/ End(r) <= Start(q)
      BY <1>7, <2>1 DEF IInv, Disjoint
    <3> QED
      BY <1>7, <3>1
  <2>2. ASSUME NEW q \in DOMAIN chunks'
        PROVE  End(q)' <= h.pos \/ h.pos + h.size <= Start(q)'
    BY <1>0, <1>1, <1>5, <1>7 DEF IInv, Disjoint
  <2>3. ASSUME NEW q \in DOMAIN chunks', NEW k \in holes
        PROVE  End(q)' <= k.pos \/ k.pos + k.size <= Start(q)'
    BY <1>7 DEF IInv, Disjoint
  <2>4. ASSUME NEW k \in holes
        PROVE  h.pos + h.size <= k.pos \/ k.pos + k.size <= h.pos
    BY <1>0, <1>1, <1>5 DEF IInv, Disjoint
  <2>5. \A k, l \in holes : k # l => k.pos + k.size <= l.pos \/ l.pos + l.size <= k.pos
    BY DEF IInv, Disjoint
  <2>6. \A k, l \in holes' : k # l => k.pos + k.size <= l.pos \/ l.pos + l.size <= k.pos
    BY <1>4, <2>4, <2>5
  <2>7. \A q \in DOMAIN chunks', k \in holes' : End(q)' <= k.pos \/ k.pos + k.size <= Start(q)'
    BY <1>4, <2>2, <2>3
  <2> QED
    BY <2>1, <2>6, <2>7 DEF Disjoint
<1>11. OpOK' /\ mapped' /\ HdrSize <= eof'
  BY <1>2 DEF OpOK, IInv
<1> QED
  BY <1>4, <1>6, <1>7, <1>8, <1>9, <1>10, <1>11 DEF IInv

LEMMA CloseIInv ==
  ASSUME IInv, Close
  PROVE  IInv'
<1>1. /\ mapped /\ op = Idle /\ op' = Idle /\ chunks' = chunks
      /\ file' = [i \in 0 .. eof - 1 |-> file[i]]
      /\ size' = eof /\ mapped' = FALSE /\ holes' = {} /\ pos' = 0 /\ eof' = 0
  BY DEF Close
<1>2. /\ eof \in Nat /\ size \in Nat /\ eof <= size /\ HdrSize <= eof /\ eof <= MaxSize
      /\ Limit = eof /\ Limit' = eof
  BY <1>1 DEF IInv, TypeOK, Limit
<1>3. TypeOK'
  <2>1. file' \in [0 .. eof - 1 -> Nat]
    BY <1>1, <1>2 DEF IInv, TypeOK
  <2>2. /\ size' \in HdrSize .. MaxSize /\ file' \in [0 .. size' - 1 -> Nat]
        /\ pos' \in 0 .. size' /\ eof' \in 0 .. size'
    BY <1>1, <1>2, <2>1
  <2>3. DOMAIN chunks' \subseteq Nat /\ chunks' \in [DOMAIN chunks' -> Object]
    BY <1>1 DEF IInv, TypeOK
  <2> QED
    BY <1>1, <2>2, <2>3 DEF TypeOK
<1>4. /\ \A p \in DOMAIN chunks' : ChunkOK(p)'
      /\ \A h \in holes' : HoleOK(h)'
      /\ Disjoint'
  <2>1. ASSUME NEW p \in DOMAIN chunks, NEW i \in Start(p) .. End(p) - 1
        PROVE  file'[i] = file[i]
    BY <1>1, <1>2, ChunkBytes
  <2>2. ASSUME NEW h \in holes, NEW i \in h.pos .. h.pos + h.size - 1
        PROVE  file'[i] = file[i]
    BY <1>1, <1>2, HoleBytes
  <2> QED
    BY <1>1, <1>2, <2>1, <2>2, KeepBlocks
<1> QED
  BY <1>1, <1>3, <1>4 DEF IInv, OpOK

LEMMA NextIInv ==
  ASSUME IInv, [Next]_vars
  PROVE  IInv'
<1>0. chunks = [p \in DOMAIN chunks |-> chunks[p]] /\ size \in Nat /\ HdrSize <= size
      /\ eof \in 0 .. size /\ pos \in 0 .. size /\ 0 \in 0 .. size
      /\ \A p \in DOMAIN chunks : p \in 0 .. size
  <2>1. size \in Nat /\ HdrSize <= size /\ eof \in 0 .. size /\ pos \in 0 .. size
    BY DEF IInv, TypeOK
  <2>2. ASSUME NEW p \in DOMAIN chunks PROVE p \in 0 .. size
    <3>1. Limit \in Nat /\ Limit <= size
      BY <2>1 DEF Limit
    <3>2. p \in Nat /\ End(p) <= Limit /\ p = Start(p) + Word /\ Start(p) \in Nat
          /\ End(p) = Start(p) + SizeFor(chunks[p]) /\ SizeFor(chunks[p]) >= Word
          /\ SizeFor(chunks[p]) \in Nat
      BY ChunkBlock DEF Start
    <3> QED
      BY <2>1, <3>1, <3>2
  <2> QED
    BY <2>1, <2>2 DEF IInv, TypeOK
<1>1. ASSUME NEW o \in Object, ReuseHole(o) PROVE IInv'
  BY <1>1, ReuseHoleIInv
<1>2. ASSUME NEW o \in Object, AppendHeader(o) PROVE IInv'
  BY <1>2, AppendHeaderIInv
<1>3. ASSUME NEW o \in Object, AppendHeaderFails(o) PROVE IInv'
  BY <1>0, <1>3, QuietIInv DEF AppendHeaderFails, IInv, TypeOK, Limit
<1>4. CASE ZeroChunk
  BY <1>4, ZeroChunkIInv
<1>5. CASE ZeroChunkFails
  BY <1>0, <1>5, QuietIInv DEF ZeroChunkFails, IInv, TypeOK, Limit
<1>6. CASE FillChunk
  BY <1>6, FillChunkIInv
<1>7. ASSUME NEW p \in DOMAIN chunks, FreeChunk(p) PROVE IInv'
  BY <1>7, FreeChunkIInv
<1>8. ASSUME NEW p \in DOMAIN chunks, FreeChunkFails(p) PROVE IInv'
  BY <1>0, <1>8, QuietIInv DEF FreeChunkFails, IInv, TypeOK, Limit
<1>9. ASSUME NEW p \in DOMAIN chunks, Unmarshal(p) PROVE IInv'
  BY <1>0, <1>9, QuietIInv DEF Unmarshal, IInv, TypeOK, Limit
<1>10. CASE Close
  BY <1>10, CloseIInv
<1>11. CASE Crash
  <2>1. /\ file' = file /\ size' = size /\ op' = Idle /\ chunks' = chunks /\ mapped
        /\ mapped' = FALSE /\ holes' = {} /\ pos' = 0 /\ eof' = 0
    BY <1>11 DEF Crash
  <2>2. Limit <= Limit'
    BY <1>0, <2>1 DEF Limit
  <2> QED
    BY <1>0, <2>1, <2>2, QuietIInv
<1>12. CASE Open
  BY <1>0, <1>12, QuietIInv DEF Open, IInv, TypeOK, Limit
<1>13. CASE UNCHANGED vars
  <2>1. UNCHANGED <<file, size, pos, eof, holes, mapped, op, chunks>>
    BY <1>13 DEF vars
  <2>2. Limit' = Limit /\ TypeOK' /\ Disjoint' /\ OpOK'
    BY <2>1 DEF Limit, TypeOK, Disjoint, OpOK, HeaderAt, Start, End, SizeFor, HoleSize, Align,
                IInv, Idle
  <2>3. \A p \in DOMAIN chunks' : ChunkOK(p)'
    BY <2>1, <2>2 DEF ChunkOK, HeaderAt, DataAt, Start, End, SizeFor, HoleSize, Align, IInv
  <2>4. \A h \in holes' : HoleOK(h)'
    BY <2>1, <2>2 DEF HoleOK, HeaderAt, IInv
  <2> QED
    BY <2>1, <2>2, <2>3, <2>4 DEF IInv
<1> QED
  BY <1>1, <1>2, <1>3, <1>4, <1>5, <1>6, <1>7, <1>8, <1>9, <1>10, <1>11, <1>12, <1>13 DEF Next

-----------------------------------------------------------------------------
(****************************************************************************)
(* What IInv means for the properties of MappedFile.                        *)
(****************************************************************************)
LEMMA IInvBlocksDisjoint == IInv => BlocksDisjoint
<1> SUFFICES ASSUME IInv PROVE BlocksDisjoint
  OBVIOUS
<1>1. ASSUME NEW p \in DOMAIN chunks
      PROVE  LET b == Block(p - Word, SizeFor(chunks[p]))
             IN  /\ b.pos = Start(p) /\ b.pos + b.size = End(p)
                 /\ b.pos \in Nat /\ b.size \in Nat /\ b.size >= Word
                 /\ HdrSize <= b.pos /\ b.pos + b.size <= Limit
  BY ChunkBlock DEF Block, Start
<1>2. \A b \in LiveBlocks : \E p \in DOMAIN chunks :
        /\ b = Block(p - Word, SizeFor(chunks[p]))
        /\ b.pos = Start(p) /\ b.pos + b.size = End(p)
        /\ b.pos \in Nat /\ b.size \in Nat /\ b.size >= Word
        /\ HdrSize <= b.pos /\ b.pos + b.size <= Limit
  BY <1>1 DEF LiveBlocks
<1>3. ASSUME NEW h \in holes
      PROVE  /\ h.pos \in Nat /\ h.size \in Nat /\ h.size >= Word
             /\ HdrSize <= h.pos /\ h.pos + h.size <= Limit
  BY HoleBlock
<1>4. ASSUME NEW b \in OpBlocks
      PROVE  /\ b.pos \in Nat /\ b.size \in Nat /\ b.size >= Word
             /\ \A p \in DOMAIN chunks : Start(p) >= b.pos + b.size \/ End(p) <= b.pos
             /\ \A h \in holes : h.pos >= b.pos + b.size \/ h.pos + h.size <= b.pos
  <2>1. op # Idle /\ b = Block(op.pos, op.size)
    BY DEF OpBlocks
  <2>2. b.pos = op.pos /\ b.size = op.size
    BY <2>1 DEF Block
  <2>3. op.pos \in Nat /\ op.size \in Nat /\ op.obj \in Object /\ op.size = SizeFor(op.obj)
    BY <2>1 DEF IInv, TypeOK, OpOK
  <2>4. op.size >= Word
    BY <2>3, PickleLength
  <2> QED
    BY <2>1, <2>2, <2>3, <2>4 DEF IInv, OpOK
<1>5. \A b, c \in OpBlocks : b = c
  BY DEF OpBlocks
<1>6. \A b, c \in LiveBlocks : b # c => Apart(b, c)
  BY <1>2 DEF Apart, IInv, Disjoint
<1>7. \A b \in LiveBlocks, h \in holes : Apart(b, h) /\ Apart(h, b) /\ b # h
  <2> SUFFICES ASSUME NEW b \in LiveBlocks, NEW h \in holes
               PROVE  Apart(b, h) /\ Apart(h, b) /\ b # h
    OBVIOUS
  <2>1. PICK p \in DOMAIN chunks : b.pos = Start(p) /\ b.pos + b.size = End(p)
                                  /\ b.pos \in Nat /\ b.size \in Nat /\ b.size >= Word
    BY <1>2
  <2>2. End(p) <= h.pos \/ h.pos + h.size <= Start(p)
    BY DEF IInv, Disjoint
  <2>3. b.pos + b.size <= h.pos \/ h.pos + h.size <= b.pos
    BY <2>1, <2>2
  <2> QED
    BY <1>3, <2>1, <2>3 DEF Apart
<1>8. \A h, k \in holes : h # k => Apart(h, k)
  BY DEF Apart, IInv, Disjoint
<1>9. \A b \in OpBlocks, c \in LiveBlocks : Apart(b, c) /\ Apart(c, b) /\ b # c
  <2> SUFFICES ASSUME NEW b \in OpBlocks, NEW c \in LiveBlocks
               PROVE  Apart(b, c) /\ Apart(c, b) /\ b # c
    OBVIOUS
  <2>1. PICK p \in DOMAIN chunks : c.pos = Start(p) /\ c.pos + c.size = End(p)
                                  /\ c.pos \in Nat /\ c.size \in Nat /\ c.size >= Word
    BY <1>2
  <2>2. b.pos + b.size <= c.pos \/ c.pos + c.size <= b.pos
    BY <1>4, <2>1
  <2> QED
    BY <1>4, <2>1, <2>2 DEF Apart
<1>10. \A b \in OpBlocks, h \in holes : Apart(b, h) /\ Apart(h, b) /\ b # h
  <2> SUFFICES ASSUME NEW b \in OpBlocks, NEW h \in holes
               PROVE  Apart(b, h) /\ Apart(h, b) /\ b # h
    OBVIOUS
  <2>1. b.pos + b.size <= h.pos \/ h.pos + h.size <= b.pos
    BY <1>3, <1>4
  <2> QED
    BY <1>3, <1>4, <2>1 DEF Apart
<1>11. \A b \in LiveBlocks \cup holes : HdrSize <= b.pos /\ b.pos + b.size <= Limit
  BY <1>2, <1>3
<1>12. LiveBlocks \cap holes = {} /\ OpBlocks \cap (LiveBlocks \cup holes) = {}
  BY <1>7, <1>9, <1>10
<1>13. \A b, c \in LiveBlocks \cup holes \cup OpBlocks : b # c => Apart(b, c)
  BY <1>5, <1>6, <1>7, <1>8, <1>9, <1>10
<1> QED
  BY <1>11, <1>12, <1>13 DEF BlocksDisjoint

LEMMA IInvHeadersIntact == IInv => HeadersIntact
<1> SUFFICES ASSUME IInv PROVE HeadersIntact
  OBVIOUS
<1>1. ASSUME NEW b \in LiveBlocks PROVE WordAt(b.pos) = b.size
  <2>1. PICK p \in DOMAIN chunks : b = Block(p - Word, SizeFor(chunks[p]))
    BY DEF LiveBlocks
  <2> QED
    BY <2>1, ChunkBlock DEF Block, Start
<1>2. ASSUME NEW h \in holes PROVE WordAt(h.pos) = h.size
  BY HoleBlock
<1>3. op # Idle => WordAt(op.pos) = op.size
  BY HeaderRead DEF IInv, TypeOK, OpOK
<1> QED
  BY <1>1, <1>2, <1>3 DEF HeadersIntact

LEMMA IInvRoomForData == IInv => RoomForData
<1> SUFFICES ASSUME IInv, op.step = "fill" PROVE
       /\ HoleSize(Len(Pickle[op.obj])) <= op.size
       /\ HdrSize <= op.pos
       /\ op.pos + op.size <= eof
  BY DEF RoomForData
<1>1. op # Idle
  BY DEF Idle
<1>2. op.size = SizeFor(op.obj) /\ op.size \in Nat /\ HdrSize <= op.pos /\ op.pos + op.size <= eof
  BY <1>1 DEF IInv, TypeOK, OpOK
<1> QED
  BY <1>2 DEF SizeFor

(* What mapped_file_unmarshal_object() returns for a chunk in use is the    *)
(* object that was stored there.                                            *)
LEMMA LoadedChunk ==
  ASSUME IInv, NEW p \in DOMAIN chunks
  PROVE  Loaded(p) = chunks[p]
<1>1. /\ p \in Nat /\ chunks[p] \in Object
      /\ Start(p) \in Nat /\ End(p) = Start(p) + SizeFor(chunks[p]) /\ End(p) <= Limit
      /\ WordAt(Start(p)) = SizeFor(chunks[p]) /\ Start(p) = p - Word
  BY ChunkBlock DEF Start
<1>2. /\ Pickle[chunks[p]] \in Seq(Nat) /\ Len(Pickle[chunks[p]]) \in Nat
      /\ SizeFor(chunks[p]) \in Nat
      /\ SizeFor(chunks[p]) >= Len(Pickle[chunks[p]]) + Word
  BY <1>1, PickleLength
<1>3. \A i \in 1 .. Len(Pickle[chunks[p]]) :
        p + i - 1 \in DOMAIN file /\ file[p + i - 1] = Pickle[chunks[p]][i]
  <2>1. Limit <= size /\ Limit \in Nat /\ size \in Nat /\ DOMAIN file = 0 .. size - 1
    BY DEF IInv, TypeOK, Limit
  <2>2. ASSUME NEW i \in 1 .. Len(Pickle[chunks[p]]) PROVE p + i - 1 \in 0 .. size - 1
    BY <1>1, <1>2, <2>1
  <2> QED
    BY <2>1, <2>2 DEF IInv, ChunkOK, DataAt
<1>4. Loads(p, chunks[p])
  BY <1>1, <1>2, <1>3 DEF Loads, StartsWith
<1>5. ASSUME NEW o \in Object, Loads(p, o)
      PROVE  o = chunks[p]
  <2> SUFFICES ASSUME o # chunks[p] PROVE FALSE
    OBVIOUS
  <2>1. PICK i \in (1 .. Len(Pickle[o])) \cap (1 .. Len(Pickle[chunks[p]])) :
          Pickle[o][i] # Pickle[chunks[p]][i]
    BY <1>1, PickleAssumption
  <2> QED
    BY <1>3, <1>5, <2>1 DEF Loads, StartsWith
<1> QED
  BY <1>1, <1>4, <1>5 DEF Loaded

LEMMA ContentsAreChunks == IInv => Contents = chunks
BY LoadedChunk DEF Contents, IInv, TypeOK

(* Every step of the file is a step of the store its owner sees, or none:   *)
(* only completing a marshal adds a handle and only freeing removes one.    *)
LEMMA NextImplementsStore ==
  ASSUME IInv, [Next]_vars, Contents = chunks, Contents' = chunks'
  PROVE  [Store!Next]_Contents
<1>1. ASSUME UNCHANGED chunks PROVE [Store!Next]_Contents
  BY <1>1
<1>2. CASE FillChunk
  <2>1. PICK q, o : q = op.pos + Word /\ o = op.obj
    OBVIOUS
  <2>2. /\ op.step = "fill"
        /\ chunks' = [p \in DOMAIN chunks \cup {q} |-> IF p = q THEN o ELSE chunks[p]]
    BY <1>2, <2>1 DEF FillChunk
  <2>3. q \notin DOMAIN chunks /\ q \in 0 .. MaxSize
    BY <2>1, <2>2, FreshHandle
  <2>4. o \in Object
    <3>1. op # Idle
      BY <2>2 DEF Idle
    <3> QED
      BY <2>1, <3>1 DEF IInv, TypeOK
  <2>5. q \in (0 .. MaxSize) \cap (DOMAIN Contents' \ DOMAIN Contents)
    BY <2>2, <2>3
  <2>6. Contents' = [x \in DOMAIN Contents \cup {q} |-> IF x = q THEN o ELSE Contents[x]]
    BY <2>2
  <2> QED
    BY <2>4, <2>5, <2>6 DEF Store!Next, Store!Put
<1>3. ASSUME NEW p \in DOMAIN chunks, FreeChunk(p) \/ FreeChunkFails(p)
      PROVE  [Store!Next]_Contents
  <2>1. chunks' = [q \in DOMAIN chunks \ {p} |-> chunks[q]]
    BY <1>3 DEF FreeChunk, FreeChunkFails
  <2> QED
    BY <2>1 DEF Store!Next, Store!Drop
<1>4. ASSUME NEW o \in Object, ReuseHole(o) \/ AppendHeader(o) \/ AppendHeaderFails(o)
      PROVE  UNCHANGED chunks
  BY <1>4 DEF ReuseHole, AppendHeader, AppendHeaderFails
<1>5. ASSUME NEW p \in DOMAIN chunks, Unmarshal(p)
      PROVE  UNCHANGED chunks
  BY <1>5 DEF Unmarshal
<1>6. CASE ZeroChunk \/ ZeroChunkFails \/ Close \/ Crash \/ Open \/ UNCHANGED vars
  BY <1>1, <1>6 DEF ZeroChunk, ZeroChunkFails, Close, Crash, Open, vars
<1> QED
  BY <1>1, <1>2, <1>3, <1>4, <1>5, <1>6 DEF Next

-----------------------------------------------------------------------------
(****************************************************************************)
(* The theorems.                                                            *)
(****************************************************************************)
(* IInv holds in every reachable state.                                     *)
THEOREM Inductive == Spec => []IInv
BY InitIInv, NextIInv, PTL DEF Spec

(* Type correctness: in particular the file never gets larger than a file   *)
(* may be and mf->pos and mf->eof stay in it (mapped_file_check_range(),    *)
(* mapped_file_ensure_range()).                                             *)
THEOREM TypeCorrect == Spec => []TypeOK
<1>1. IInv => TypeOK
  BY DEF IInv
<1> QED
  BY <1>1, Inductive, PTL

(* mapped_file_allocate_chunk() and mapped_file_free_chunk() never give the *)
(* same byte to two chunks, holes or a chunk and a hole.                    *)
THEOREM Disjointness == Spec => []BlocksDisjoint
BY IInvBlocksDisjoint, Inductive, PTL

(* Nothing overwrites the size in front of a chunk or a hole, which is what *)
(* mapped_file_free_chunk() and mapped_file_get_chunk_size() trust.         *)
THEOREM Headers == Spec => []HeadersIntact
BY IInvHeadersIntact, Inductive, PTL

(* mapped_file_marshal_string_object() never writes past its chunk and      *)
(* never has to grow the file, so it cannot fail half way.                  *)
THEOREM Room == Spec => []RoomForData
BY IInvRoomForData, Inductive, PTL

(* The mapped file with its allocator implements the store: what an owner   *)
(* stored at an offset is what it loads there until it frees it, in spite   *)
(* of growth, reuse of holes, failed calls, closing, crashing and opening.  *)
THEOREM Refinement == Spec => ImplementsStore
<1>1. Init => Store!Init
  <2> SUFFICES ASSUME Init PROVE Store!Init
    OBVIOUS
  <2>1. Contents = chunks
    BY InitIInv, ContentsAreChunks
  <2> QED
    BY <2>1 DEF Init, Store!Init
<1>2. IInv /\ IInv' /\ [Next]_vars => [Store!Next]_Contents
  <2>1. IInv' => (Contents = chunks)'
    BY ContentsAreChunks, PTL
  <2> QED
    BY <2>1, ContentsAreChunks, NextImplementsStore
<1> QED
  BY <1>1, <1>2, Inductive, PTL DEF Spec, Store!Spec, ImplementsStore
=============================================================================
