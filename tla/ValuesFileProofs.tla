-------------------------- MODULE ValuesFileProofs --------------------------
(****************************************************************************)
(* What the operations of ValuesFile do to chunks and holes.                *)
(****************************************************************************)
EXTENDS ValuesFile, TLAPS

(* A file with chunks from T: its holes are chunks.                         *)
IsFile(f, T) ==
  /\ f = [chunk |-> f.chunk, holes |-> f.holes]
  /\ f.chunk \in Seq(T)
  /\ DOMAIN f.holes \subseteq 1 .. Len(f.chunk)
  /\ f.holes \in [DOMAIN f.holes -> Nat \ {0}]

Hole(f) == DOMAIN f.holes

(* No chunk is a hole twice.                                                *)
HolesOnce(f) == \A p \in Hole(f) : f.holes[p] = 1

LEMMA EmptyIsFile ==
  ASSUME NEW T
  PROVE  IsFile(EmptyFile, T) /\ Hole(EmptyFile) = {} /\ HolesOnce(EmptyFile)
BY DEF IsFile, EmptyFile, EmptyBag, SetToBag, Hole, HolesOnce

LEMMA ReopenedIsFile ==
  ASSUME NEW T, NEW f, IsFile(f, T)
  PROVE  /\ IsFile(Reopened(f), T) /\ Reopened(f).chunk = f.chunk
         /\ Hole(Reopened(f)) = {} /\ HolesOnce(Reopened(f))
BY DEF IsFile, Reopened, EmptyBag, SetToBag, Hole, HolesOnce

LEMMA FreedIsFile ==
  ASSUME NEW T, NEW f, IsFile(f, T), NEW p \in 1 .. Len(f.chunk)
  PROVE  /\ IsFile(Freed(f, p), T) /\ Freed(f, p).chunk = f.chunk
         /\ Hole(Freed(f, p)) = Hole(f) \cup {p}
         /\ HolesOnce(f) /\ p \notin Hole(f) => HolesOnce(Freed(f, p))
BY DEF IsFile, Freed, SetToBag, Hole, HolesOnce, (+)

LEMMA MarshalledIsFile ==
  ASSUME NEW T, NEW f, IsFile(f, T), NEW p \in Allocatable(f), NEW x \in T
  PROVE  /\ IsFile(Marshalled(f, p, x), T)
         /\ p \in 1 .. Len(Marshalled(f, p, x).chunk)
         /\ Len(f.chunk) <= Len(Marshalled(f, p, x).chunk)
         /\ Marshalled(f, p, x).chunk[p] = x
         /\ \A q \in 1 .. Len(f.chunk) : q # p => Marshalled(f, p, x).chunk[q] = f.chunk[q]
         /\ Hole(Marshalled(f, p, x)) \subseteq Hole(f)
         /\ HolesOnce(f) => /\ HolesOnce(Marshalled(f, p, x))
                            /\ Hole(Marshalled(f, p, x)) = Hole(f) \ {p}
BY DEF IsFile, Marshalled, Allocatable, BagToSet, SetToBag, Hole, HolesOnce, (-)

LEMMA WrittenIsFile ==
  ASSUME NEW T, NEW f, IsFile(f, T), NEW p \in 1 .. Len(f.chunk), NEW x \in T
  PROVE  /\ IsFile(Written(f, p, x), T) /\ Len(Written(f, p, x).chunk) = Len(f.chunk)
         /\ Written(f, p, x).holes = f.holes
         /\ Written(f, p, x).chunk[p] = x
         /\ \A q \in 1 .. Len(f.chunk) : q # p => Written(f, p, x).chunk[q] = f.chunk[q]
BY DEF IsFile, Written
=============================================================================
