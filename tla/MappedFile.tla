----------------------------- MODULE MappedFile -----------------------------
(****************************************************************************)
(* One memory-mapped file of mapped_file.c ("keys.bin" or "values.bin")     *)
(* with its chunk allocator, driven by an owner that frees only chunks it   *)
(* was given.  The bytes of the file are modelled one by one; a byte is a   *)
(* natural number, and a size_t in the file is its value followed by        *)
(* Word - 1 zero bytes.  The file is mapped MAP_SHARED, so what a process   *)
(* wrote is in the file after the process dies; pos, eof and the tree of    *)
(* holes are process memory and are lost.                                   *)
(*                                                                          *)
(* Storing an object takes several writes, each of which may have to grow   *)
(* the file and may fail; a crash may fall between any two of them.         *)
(****************************************************************************)
EXTENDS Integers, Sequences

CONSTANTS
  Word,      (* sizeof(size_t) *)
  HdrSize,   (* size of the file's own header, the magic *)
  InitSize,  (* size given to mapped_file_create() *)
  MaxSize,   (* largest size a file may get: SSIZE_MAX, here also the bound *)
  MaxGrow,   (* bound on the iterations of one growth loop *)
  Pickle,    (* Pickle[o] is the byte string object o is marshalled to *)
  NULL       (* what unmarshalling something else returns *)

Object == DOMAIN Pickle

(* Pickles are self-delimiting: a pickle ends at its STOP opcode, so none   *)
(* begins with another, and bytes after it are ignored when it is loaded.   *)
StartsWith(f, p, bytes) ==
  \A i \in 1 .. Len(bytes) : p + i - 1 \in DOMAIN f /\ f[p + i - 1] = bytes[i]

ASSUME SizeAssumption ==
  /\ Word \in Nat \ {0}
  /\ HdrSize \in Nat /\ InitSize \in Nat /\ MaxSize \in Nat
  /\ HdrSize <= InitSize /\ InitSize <= MaxSize
  /\ MaxGrow \in Nat

(* No pickle is the start of another, as one ends at its first STOP opcode; *)
(* what picklers other than pickle's and the one of                         *)
(* examples/em_graph_pickler.py make is up to them.                         *)
ASSUME PickleAssumption ==
  /\ NULL \notin Object
  /\ \A o \in Object : Pickle[o] \in Seq(Nat)
  /\ \A o, q \in Object :
       o # q => \E i \in (1 .. Len(Pickle[o])) \cap (1 .. Len(Pickle[q])) :
                  Pickle[o][i] # Pickle[q][i]

VARIABLES
  file,    (* bytes of the file, and of its mapping *)
  size,    (* mf->size; the size of the file on disk while it is closed *)
  pos,     (* mf->pos *)
  eof,     (* mf->eof *)
  holes,   (* hole_t records in the tree mf->holes *)
  mapped,  (* TRUE between mapped_file_open/create() and close() or a crash *)
  op,      (* the mapped_file_marshal_string_object() call in progress *)
  chunks   (* what the owner holds: offset returned |-> object it stored *)

vars == <<file, size, pos, eof, holes, mapped, op, chunks>>

-----------------------------------------------------------------------------
(* Macros ALIGN and HOLE_SIZE: room for x bytes and the size_t before them. *)
Align(x) == ((x + Word - 1) \div Word) * Word
HoleSize(x) == Align(x) + Word

SizeFor(o) == HoleSize(Len(Pickle[o]))

Idle == [step |-> "idle"]

(* The growth loop of mapped_file_ensure_range(): half as much again, until *)
(* need bytes fit.                                                          *)
GrownSize(s, need) ==
  LET grown[k \in 0 .. MaxGrow] ==
        IF k = 0 THEN s
        ELSE LET last == grown[k - 1]
             IN  IF last < need THEN last + last \div 2 ELSE last
  IN  grown[MaxGrow]

(* mapped_file_ensure_range(): mf->size after making room for n bytes at p. *)
Ensured(p, n) == IF size < p + n THEN GrownSize(size, p + n) ELSE size

(* A faulty mapped_file_ensure_range(), without the check against SSIZE_MAX. *)
FitsUnchecked(p, n) == p + n <= Ensured(p, n)

(* ... it succeeds unless the file gets larger than a file may be, ...      *)
Fits(p, n) == Ensured(p, n) \in (p + n) .. MaxSize

(* ... and growing may fail at any time (ftruncate, mremap).                *)
MayFail(p, n) == size < p + n

Zeros(n) == [i \in 1 .. n |-> 0]
WordBytes(v) == [i \in 1 .. Word |-> IF i = 1 THEN v ELSE 0]

(* Store bytes at p in a file of n bytes: the memcpy() and memset() calls.  *)
Stored(p, bytes, n) ==
  [i \in 0 .. n - 1 |->
     IF i \in p .. p + Len(bytes) - 1 THEN bytes[i - p + 1]
     ELSE IF i \in DOMAIN file THEN file[i] ELSE 0]

(* mapped_file_write() and mapped_file_memset() at mf->pos = p.             *)
Write(p, bytes) ==
  LET n == Ensured(p, Len(bytes))
      end == p + Len(bytes)
  IN  /\ Fits(p, Len(bytes))
      /\ file' = Stored(p, bytes, n)
      /\ size' = n
      /\ eof' = IF end > eof THEN end ELSE eof
      /\ pos' = end

(* mapped_file_read() of a size_t at p.  Anything but a value with zeros    *)
(* above it reads as a number that is no size.                              *)
WordAt(p) ==
  IF \A i \in 1 .. Word - 1 : file[p + i] = 0 THEN file[p] ELSE MaxSize + 1

-----------------------------------------------------------------------------
(* mapped_file_create(), then the magic written by em_*_create().           *)
Init ==
  /\ file = [i \in 0 .. InitSize - 1 |-> IF i < HdrSize THEN 1 ELSE 0]
  /\ size = InitSize
  /\ pos = HdrSize
  /\ eof = HdrSize
  /\ holes = {}
  /\ mapped = TRUE
  /\ op = Idle
  /\ chunks = [p \in {} |-> CHOOSE o \in Object : TRUE]

(* A faulty allocator: first fit, without splitting the hole or rewriting   *)
(* its header; and one that has the comparison the wrong way round.         *)
FittingLarger(z) == {h \in holes : h.size >= z}
FittingSmaller(z) == {h \in holes : h.size <= z}

(* rbtree_find_node() with hole_cmp(): a hole of exactly this size.         *)
Fitting(z) == {h \in holes : h.size = z}

(* A faulty mapped_file_allocate_chunk() that leaves the hole in the tree.  *)
ReuseHoleKept(o) ==
  /\ mapped /\ op = Idle
  /\ \E h \in Fitting(SizeFor(o)) :
       op' = [step |-> "fill", obj |-> o, pos |-> h.pos, size |-> h.size]
  /\ UNCHANGED <<file, size, pos, eof, holes, mapped, chunks>>

(* mapped_file_allocate_chunk(), a hole was found: take it as it is.        *)
ReuseHole(o) ==
  /\ mapped /\ op = Idle
  /\ \E h \in Fitting(SizeFor(o)) :
       /\ holes' = holes \ {h}
       /\ op' = [step |-> "fill", obj |-> o, pos |-> h.pos, size |-> h.size]
  /\ UNCHANGED <<file, size, pos, eof, mapped, chunks>>

(* mapped_file_allocate_chunk(), no hole: seek to EOF and write the header. *)
AppendHeader(o) ==
  /\ mapped /\ op = Idle
  /\ Fitting(SizeFor(o)) = {}
  /\ Write(eof, WordBytes(SizeFor(o)))
  /\ op' = [step |-> "zero", obj |-> o, pos |-> eof, size |-> SizeFor(o)]
  /\ UNCHANGED <<holes, mapped, chunks>>

(* ... the file cannot grow: only the seek has happened.                    *)
AppendHeaderFails(o) ==
  /\ mapped /\ op = Idle
  /\ Fitting(SizeFor(o)) = {}
  /\ MayFail(eof, Word)
  /\ pos' = eof
  /\ UNCHANGED <<file, size, eof, holes, mapped, op, chunks>>

(* mapped_file_allocate_chunk(): clear the room behind the new header.      *)
ZeroChunk ==
  /\ mapped /\ op.step = "zero"
  /\ Write(pos, Zeros(op.size - Word))
  /\ op' = [op EXCEPT !.step = "fill"]
  /\ UNCHANGED <<holes, mapped, chunks>>

(* ... the file cannot grow: the header stays behind, below EOF.            *)
ZeroChunkFails ==
  /\ mapped /\ op.step = "zero"
  /\ MayFail(pos, op.size - Word)
  /\ op' = Idle
  /\ UNCHANGED <<file, size, pos, eof, holes, mapped, chunks>>

(* mapped_file_marshal_string_object(): write the bytes into the chunk and  *)
(* return its offset.  That this write always fits is invariant RoomForData,*)
(* which is why its error path has no action.                               *)
FillChunk ==
  /\ mapped /\ op.step = "fill"
  /\ Write(op.pos + Word, Pickle[op.obj])
  /\ chunks' = [p \in DOMAIN chunks \cup {op.pos + Word} |->
                  IF p = op.pos + Word THEN op.obj ELSE chunks[p]]
  /\ op' = Idle
  /\ UNCHANGED <<holes, mapped>>

(* mapped_file_free_chunk(): the size comes from the header.                *)
FreeChunk(p) ==
  /\ mapped /\ op = Idle
  /\ chunks' = [q \in DOMAIN chunks \ {p} |-> chunks[q]]
  /\ pos' = p
  /\ LET z == WordAt(p - Word)
     IN  holes' = IF p - Word + z <= size
                  THEN holes \cup {[pos |-> p - Word, size |-> z]}
                  ELSE holes
  /\ UNCHANGED <<file, size, eof, mapped, op>>

(* ... no memory for the hole or its tree node: the chunk is lost.          *)
FreeChunkFails(p) ==
  /\ mapped /\ op = Idle
  /\ chunks' = [q \in DOMAIN chunks \ {p} |-> chunks[q]]
  /\ pos' = p
  /\ UNCHANGED <<file, size, eof, holes, mapped, op>>

(* mapped_file_unmarshal_object(): reading the header moves mf->pos to p.   *)
Unmarshal(p) ==
  /\ mapped /\ op = Idle
  /\ pos' = p
  /\ UNCHANGED <<file, size, eof, holes, mapped, op, chunks>>

(* What it returns: the object whose pickle the chunk begins with, read     *)
(* from the number of bytes the header gives.                               *)
Loads(p, o) ==
  /\ StartsWith(file, p, Pickle[o])
  /\ Len(Pickle[o]) <= WordAt(p - Word) - Word

Loaded(p) ==
  IF \E o \in Object : Loads(p, o) THEN CHOOSE o \in Object : Loads(p, o) ELSE NULL

(* A faulty em_*_close() that truncates the file to mf->pos.                *)
CloseAtPos ==
  /\ mapped /\ op = Idle
  /\ file' = [i \in 0 .. pos - 1 |-> file[i]]
  /\ size' = pos
  /\ mapped' = FALSE
  /\ holes' = {} /\ pos' = 0 /\ eof' = 0
  /\ UNCHANGED <<op, chunks>>

(* em_*_close(): truncate the file to mf->eof and unmap it.                 *)
Close ==
  /\ mapped /\ op = Idle
  /\ file' = [i \in 0 .. eof - 1 |-> file[i]]
  /\ size' = eof
  /\ mapped' = FALSE
  /\ holes' = {} /\ pos' = 0 /\ eof' = 0
  /\ UNCHANGED <<op, chunks>>

(* The process dies, or the truncation of em_*_close() fails: the file      *)
(* keeps the size it had grown to.                                          *)
Crash ==
  /\ mapped
  /\ mapped' = FALSE
  /\ holes' = {} /\ pos' = 0 /\ eof' = 0
  /\ op' = Idle
  /\ UNCHANGED <<file, size, chunks>>

(* mapped_file_open() and the seek to EOF of em_*_open_existing().          *)
Open ==
  /\ ~mapped
  /\ mapped' = TRUE
  /\ eof' = size
  /\ pos' = size
  /\ UNCHANGED <<file, size, holes, op, chunks>>

Next ==
  \/ \E o \in Object : ReuseHole(o) \/ AppendHeader(o) \/ AppendHeaderFails(o)
  \/ ZeroChunk
  \/ ZeroChunkFails
  \/ FillChunk
  \/ \E p \in DOMAIN chunks : FreeChunk(p) \/ FreeChunkFails(p) \/ Unmarshal(p)
  \/ Close
  \/ Crash
  \/ Open

Spec == Init /\ [][Next]_vars

-----------------------------------------------------------------------------
(****************************************************************************)
(* Properties.  A block is what a chunk takes in the file: its header and   *)
(* its room.                                                                *)
(****************************************************************************)
Block(p, z) == [pos |-> p, size |-> z]
LiveBlocks == {Block(p - Word, SizeFor(chunks[p])) : p \in DOMAIN chunks}
OpBlocks == IF op = Idle THEN {} ELSE {Block(op.pos, op.size)}

(* End of the part of the file in use: EOF, or the size if it is closed.    *)
Limit == IF mapped THEN eof ELSE size

TypeOK ==
  /\ size \in HdrSize .. MaxSize
  /\ file \in [0 .. size - 1 -> Nat]
  /\ pos \in 0 .. size /\ eof \in 0 .. size
  /\ mapped \in BOOLEAN
  /\ op = Idle \/ op \in [step : {"zero", "fill"}, obj : Object, pos : Nat, size : Nat]
  /\ holes \subseteq [pos : Nat, size : Nat]
  /\ DOMAIN chunks \subseteq Nat
  /\ chunks \in [DOMAIN chunks -> Object]

Apart(b, c) == b.pos + b.size <= c.pos \/ c.pos + c.size <= b.pos

(* The allocator never gives two owners the same bytes: chunks in use,      *)
(* holes and the chunk being filled share no byte and a block is never two  *)
(* of these at once, whatever was freed, reused, left half made by a failed *)
(* growth, or lost in a crash (mapped_file_allocate/free_chunk()).          *)
BlocksDisjoint ==
  /\ \A b, c \in LiveBlocks \cup holes \cup OpBlocks : b # c => Apart(b, c)
  /\ LiveBlocks \cap holes = {}
  /\ OpBlocks \cap (LiveBlocks \cup holes) = {}
  /\ \A b \in LiveBlocks \cup holes :
       /\ HdrSize <= b.pos
       /\ b.pos + b.size <= Limit

(* Every chunk in use and every hole still has its size in front of it, so  *)
(* freeing it or reading it back takes the right number of bytes            *)
(* (mapped_file_free_chunk(), mapped_file_get_chunk_size()).                *)
HeadersIntact ==
  /\ \A b \in LiveBlocks \cup holes : WordAt(b.pos) = b.size
  /\ op # Idle => WordAt(op.pos) = op.size

(* "It's safe to seek there and write `size' bytes" (mapped_file.c:236): the*)
(* marshalled object fits its chunk and the file needs no room for it.      *)
RoomForData ==
  op.step = "fill" =>
    /\ HoleSize(Len(Pickle[op.obj])) <= op.size
    /\ HdrSize <= op.pos
    /\ op.pos + op.size <= eof

(* The file implements the store its owner relies on: what the bytes at a   *)
(* handle load to is what was stored there, until the owner frees it.       *)
Contents == [p \in DOMAIN chunks |-> Loaded(p)]
Store == INSTANCE ChunkStore WITH
           Handle <- 0 .. MaxSize, Object <- Object, store <- Contents
ImplementsStore == Store!Spec
=============================================================================
