---------------------------- MODULE RBTreeProofs ----------------------------
(****************************************************************************)
(* Invariants of RBTree, for any number of holes of any sizes.              *)
(*                                                                          *)
(* The nodes a pointer structure connects, their order and the number of    *)
(* black nodes on a way down are no part of it: the inductive invariant     *)
(* says that there are a set of nodes below each node and a black height of *)
(* each node that fit together.  What a step does to these is as local as   *)
(* what it does to the pointers.                                            *)
(****************************************************************************)
EXTENDS RBTree, TLAPS, FiniteSetTheorems, WellFoundedInduction

RBNodes(D) ==
  [left : D, right : D, parent : Node \cup {ROOT, NIL}, color : {"red", "black"}]

(* T is the set of nodes in the tree of t.                                  *)
Linked(t, T) ==
  /\ T \subseteq Node /\ T \cup {ROOT, NIL} \subseteq DOMAIN t
  /\ t \in [DOMAIN t -> RBNodes(DOMAIN t)]
  /\ \A n \in T \cup {ROOT}, s \in Side :
       t[n][s] # NIL => t[n][s] \in T /\ t[t[n][s]].parent = n
  /\ \A n \in T : t[n].parent \in T \cup {ROOT} /\ t[t[n].parent][SideOf(t, n)] = n
  /\ t[ROOT].right = NIL /\ \A s \in Side : t[NIL][s] = NIL

(* below[n] is the set of nodes in the subtree of n.                        *)
Nested(t, T, below) ==
  /\ below \in [T \cup {ROOT, NIL} -> SUBSET T]
  /\ below[NIL] = {} /\ below[ROOT] = T /\ below[t[ROOT].left] = T
  /\ \A n \in T : below[n] = {n} \cup below[t[n].left] \cup below[t[n].right]
  /\ \A n \in T, s \in Side : n \notin below[t[n][s]]
  /\ \A n \in T : below[t[n].left] \cap below[t[n].right] = {}

-----------------------------------------------------------------------------
(* One field of one node set.                                               *)
KidSet(D, t, u, n, s, c) ==
  /\ u \in [D -> RBNodes(D)]
  /\ u[n][s] = c /\ u[n][Other(s)] = t[n][Other(s)]
  /\ \A k \in D : u[k].parent = t[k].parent /\ u[k].color = t[k].color
  /\ \A k \in D : k # n => u[k] = t[k]

ParentSet(D, t, u, n, c) ==
  /\ u \in [D -> RBNodes(D)]
  /\ u[n].parent = c
  /\ \A k \in D, r \in Side : u[k][r] = t[k][r]
  /\ \A k \in D : u[k].color = t[k].color
  /\ \A k \in D : k # n => u[k] = t[k]

ColorSet(D, t, u, n, c) ==
  /\ u \in [D -> RBNodes(D)]
  /\ u[n].color = c
  /\ \A k \in D, r \in Side : u[k][r] = t[k][r]
  /\ \A k \in D : u[k].parent = t[k].parent
  /\ \A k \in D : k # n => u[k] = t[k]

LEMMA SetKid ==
  ASSUME NEW D, NEW t \in [D -> RBNodes(D)], NEW n \in D, NEW s \in Side, NEW c \in D,
         NEW u, u = [t EXCEPT ![n][s] = c]
  PROVE  KidSet(D, t, u, n, s, c)
<1> DEFINE r == [t[n] EXCEPT ![s] = c]
<1>1. u = [t EXCEPT ![n] = r]
  OBVIOUS
<1>2. t[n] \in RBNodes(D)
  OBVIOUS
<1>3. r \in RBNodes(D) /\ r[s] = c /\ r[Other(s)] = t[n][Other(s)]
      /\ r.parent = t[n].parent /\ r.color = t[n].color
  BY <1>2 DEF RBNodes, Side, Other
<1> HIDE DEF r
<1>4. u \in [D -> RBNodes(D)]
  BY <1>1, <1>3
<1>5. u[n] = r /\ \A k \in D : k # n => u[k] = t[k]
  BY <1>1
<1>6. \A k \in D : u[k].parent = t[k].parent /\ u[k].color = t[k].color
  BY <1>3, <1>5
<1> QED BY <1>3, <1>4, <1>5, <1>6 DEF KidSet

LEMMA SetParent ==
  ASSUME NEW D, NEW t \in [D -> RBNodes(D)], NEW n \in D,
         NEW c \in Node \cup {ROOT, NIL}, NEW u, u = [t EXCEPT ![n].parent = c]
  PROVE  ParentSet(D, t, u, n, c)
<1> DEFINE r == [t[n] EXCEPT !.parent = c]
<1>1. u = [t EXCEPT ![n] = r]
  OBVIOUS
<1>2. t[n] \in RBNodes(D)
  OBVIOUS
<1>3. r \in RBNodes(D) /\ r.parent = c /\ r.color = t[n].color
      /\ \A a \in Side : r[a] = t[n][a]
  BY <1>2 DEF RBNodes, Side
<1> HIDE DEF r
<1>4. u \in [D -> RBNodes(D)]
  BY <1>1, <1>3
<1>5. u[n] = r /\ \A k \in D : k # n => u[k] = t[k]
  BY <1>1
<1>6. /\ \A k \in D, a \in Side : u[k][a] = t[k][a]
      /\ \A k \in D : u[k].color = t[k].color
  BY <1>3, <1>5
<1> QED BY <1>3, <1>4, <1>5, <1>6 DEF ParentSet

LEMMA SetColor ==
  ASSUME NEW D, NEW t \in [D -> RBNodes(D)], NEW n \in D,
         NEW c \in {"red", "black"}, NEW u, u = [t EXCEPT ![n].color = c]
  PROVE  ColorSet(D, t, u, n, c)
<1> DEFINE r == [t[n] EXCEPT !.color = c]
<1>1. u = [t EXCEPT ![n] = r]
  OBVIOUS
<1>2. t[n] \in RBNodes(D)
  OBVIOUS
<1>3. r \in RBNodes(D) /\ r.color = c /\ r.parent = t[n].parent
      /\ \A a \in Side : r[a] = t[n][a]
  BY <1>2 DEF RBNodes, Side
<1> HIDE DEF r
<1>4. u \in [D -> RBNodes(D)]
  BY <1>1, <1>3
<1>5. u[n] = r /\ \A k \in D : k # n => u[k] = t[k]
  BY <1>1
<1>6. /\ \A k \in D, a \in Side : u[k][a] = t[k][a]
      /\ \A k \in D : u[k].parent = t[k].parent
  BY <1>3, <1>5
<1> QED BY <1>3, <1>4, <1>5, <1>6 DEF ColorSet

-----------------------------------------------------------------------------
(* What the links and the sets below them say of each other.                *)
LEMMA Kids ==
  ASSUME NEW t, NEW T, Linked(t, T), NEW n \in T \cup {ROOT}, NEW s \in Side
  PROVE  /\ t[n][s] \in T \cup {NIL}
         /\ ROOT \notin T /\ NIL \notin T /\ ROOT # NIL
         /\ n \in DOMAIN t /\ t[n][s] \in DOMAIN t
  BY TreeAssumption DEF Linked

LEMMA KidsBelow ==
  ASSUME NEW t, NEW T, NEW below, Linked(t, T), Nested(t, T, below),
         NEW n \in T, NEW s \in Side
  PROVE  /\ n \in below[n] /\ n \notin below[t[n][s]]
         /\ below[t[n][s]] \subseteq below[n] \ {n}
         /\ below[t[n][s]] \cap below[t[n][Other(s)]] = {}
         /\ below[n] = {n} \cup below[t[n][s]] \cup below[t[n][Other(s)]]
         /\ t[n][s] # n
<1>1. \A r \in Side : t[n][r] \in T \cup {NIL}
  BY Kids
<1>2. below[n] \subseteq T /\ below[NIL] = {}
  BY DEF Nested
<1>3. (s = "left" /\ Other(s) = "right") \/ (s = "right" /\ Other(s) = "left")
  BY DEF Side, Other
<1>4. below[t[n].left] \cap below[t[n].right] = {}
  BY DEF Nested
<1>5. below[n] = {n} \cup below[t[n].left] \cup below[t[n].right]
  BY DEF Nested
<1>6. \A r \in Side : n \notin below[t[n][r]]
  BY DEF Nested
<1> QED BY <1>1, <1>2, <1>3, <1>4, <1>5, <1>6 DEF Side

(* Each node has one place.                                                 *)
LEMMA OnePlace ==
  ASSUME NEW t, NEW T, NEW below, Linked(t, T), Nested(t, T, below),
         NEW n \in T, NEW m \in T \cup {ROOT}, NEW s \in Side, t[m][s] = n
  PROVE  m = t[n].parent /\ s = SideOf(t, n)
<1>1. n # NIL
  BY TreeAssumption DEF Linked
<1>2. m = t[n].parent
  BY <1>1 DEF Linked
<1>3. CASE s = "left"
  BY <1>2, <1>3 DEF SideOf
<1>4. CASE s = "right"
  <2>1. m \in T
    BY <1>1, <1>4 DEF Linked
  <2>2. n \in below[n]
    BY KidsBelow DEF Side
  <2>3. t[m].left # n
    BY <1>4, <2>1, <2>2 DEF Nested
  <2> QED BY <1>2, <1>4, <2>3 DEF SideOf
<1> QED BY <1>3, <1>4 DEF Side

(* A set that holds a node whenever it holds its children has all nodes.    *)
LEMMA SubtreeInduction ==
  ASSUME NEW t, NEW T, NEW below, Linked(t, T), Nested(t, T, below), IsFiniteSet(T),
         NEW P,
         \A n \in T : (\A s \in Side : t[n][s] \in P \cup {NIL}) => n \in P
  PROVE  T \subseteq P
<1> SUFFICES ASSUME NEW n0 \in T, n0 \notin P PROVE FALSE
  OBVIOUS
<1> DEFINE S == {below[n] : n \in T \ P}
<1>1. S \subseteq FiniteSubsetsOf(T) /\ S # {}
  <2>1. \A n \in T : below[n] \in SUBSET T
    BY DEF Nested
  <2>2. \A X \in SUBSET T : IsFiniteSet(X)
    BY FS_Subset
  <2> QED BY <2>1, <2>2 DEF FiniteSubsetsOf
<1>2. PICK X \in S : \A Y \in S : ~ (<<Y, X>> \in StrictSubsetOrdering(T))
  <2> HIDE DEF S
  <2>1. IsWellFoundedOn(StrictSubsetOrdering(T), FiniteSubsetsOf(T))
    BY FS_StrictSubsetOrderingWellFounded
  <2> QED BY <1>1, <2>1, WFMin
<1>3. PICK n \in T \ P : X = below[n]
  OBVIOUS
<1>4. PICK s \in Side : t[n][s] \notin P \cup {NIL}
  OBVIOUS
<1>5. t[n][s] \in T
  BY <1>4, Kids
<1>6. below[t[n][s]] \in S
  BY <1>4, <1>5
<1>7. below[t[n][s]] \subseteq below[n] /\ below[t[n][s]] # below[n]
  BY KidsBelow
<1>8. below[t[n][s]] \in SUBSET T /\ below[n] \in SUBSET T
  BY <1>5 DEF Nested
<1>9. <<below[t[n][s]], X>> \in StrictSubsetOrdering(T)
  BY <1>3, <1>7, <1>8 DEF StrictSubsetOrdering
<1> QED BY <1>2, <1>6, <1>9

LEMMA BelowBelow ==
  ASSUME NEW t, NEW T, NEW below, Linked(t, T), Nested(t, T, below), IsFiniteSet(T),
         NEW n \in T, NEW m \in below[n]
  PROVE  m \in T /\ below[m] \subseteq below[n]
<1> DEFINE P == {k \in T : \A j \in below[k] : below[j] \subseteq below[k]}
<1>1. ASSUME NEW k \in T, \A s \in Side : t[k][s] \in P \cup {NIL}
      PROVE  k \in P
  <2> SUFFICES ASSUME NEW j \in below[k], j # k PROVE below[j] \subseteq below[k]
    OBVIOUS
  <2>1. PICK s \in Side : j \in below[t[k][s]]
    BY DEF Nested, Side
  <2>2. t[k][s] \in P
    BY <1>1, <2>1 DEF Nested
  <2> QED BY <2>1, <2>2, KidsBelow
<1> HIDE DEF P
<1>2. T \subseteq P
  BY <1>1, SubtreeInduction
<1> QED BY <1>2 DEF P, Nested

LEMMA ParentBelow ==
  ASSUME NEW t, NEW T, NEW below, Linked(t, T), Nested(t, T, below), IsFiniteSet(T),
         NEW n \in T, NEW m \in below[n], m # n
  PROVE  t[m].parent \in below[n]
<1> DEFINE P == {k \in T : \A j \in below[k] : j # k => t[j].parent \in below[k]}
<1>1. ASSUME NEW k \in T, \A s \in Side : t[k][s] \in P \cup {NIL}
      PROVE  k \in P
  <2> SUFFICES ASSUME NEW j \in below[k], j # k PROVE t[j].parent \in below[k]
    OBVIOUS
  <2>1. PICK s \in Side : j \in below[t[k][s]]
    BY DEF Nested, Side
  <2>2. t[k][s] \in P
    BY <1>1, <2>1 DEF Nested
  <2>3. CASE j = t[k][s]
    <3>1. t[j].parent = k
      BY <2>2, <2>3, TreeAssumption DEF Linked
    <3> QED BY <3>1, KidsBelow
  <2> QED BY <2>1, <2>2, <2>3, KidsBelow
<1> HIDE DEF P
<1>2. T \subseteq P
  BY <1>1, SubtreeInduction
<1> QED BY <1>2 DEF P

(* Of two nodes above a third one is above the other.                       *)
LEMMA Comparable ==
  ASSUME NEW t, NEW T, NEW below, Linked(t, T), Nested(t, T, below), IsFiniteSet(T),
         NEW n \in T, NEW m \in T, below[n] \cap below[m] # {}
  PROVE  n \in below[m] \/ m \in below[n]
<1> DEFINE P == {k \in T : below[k] \cap below[m] # {} => k \in below[m] \/ m \in below[k]}
<1>1. ASSUME NEW k \in T, \A s \in Side : t[k][s] \in P \cup {NIL}
      PROVE  k \in P
  <2> SUFFICES ASSUME NEW j \in below[k], j \in below[m]
               PROVE  k \in below[m] \/ m \in below[k]
    OBVIOUS
  <2>1. CASE j = k
    BY <2>1
  <2>2. CASE j # k
    <3>1. PICK s \in Side : j \in below[t[k][s]]
      BY <2>2 DEF Nested, Side
    <3>2. t[k][s] \in P
      BY <1>1, <3>1 DEF Nested
    <3>3. t[k][s] \in below[m] \/ m \in below[t[k][s]]
      BY <3>1, <3>2
    <3>4. CASE m \in below[t[k][s]]
      BY <3>4, KidsBelow
    <3>5. CASE t[k][s] \in below[m] /\ t[k][s] # m
      <4>1. t[t[k][s]].parent = k
        BY <3>2, TreeAssumption DEF Linked
      <4> QED BY <3>5, <4>1, ParentBelow
    <3>6. CASE t[k][s] = m
      BY <3>6, KidsBelow
    <3> QED BY <3>3, <3>4, <3>5, <3>6
  <2> QED BY <2>1, <2>2
<1> HIDE DEF P
<1>2. T \subseteq P
  BY <1>1, SubtreeInduction
<1> QED BY <1>2 DEF P

-----------------------------------------------------------------------------
(* Rotate, pointer by pointer: n goes down to the side s of its child c on  *)
(* the other side, whose subtree m moves over to n.                         *)
Turned(t, u, n, s, c, m, p, d) ==
  /\ c = t[n][Other(s)] /\ m = t[c][s] /\ p = t[n].parent /\ d = SideOf(t, n)
  /\ u \in [DOMAIN t -> RBNodes(DOMAIN t)]
  /\ u[n][Other(s)] = m /\ u[n][s] = t[n][s]
  /\ u[c][s] = n /\ u[c][Other(s)] = t[c][Other(s)]
  /\ u[p][d] = c /\ u[p][Other(d)] = t[p][Other(d)]
  /\ \A k \in DOMAIN t \ {n, c, p}, r \in Side : u[k][r] = t[k][r]
  /\ u[n].parent = c /\ u[c].parent = p
  /\ \A k \in DOMAIN t \ {n, c} :
       u[k].parent = IF k = m /\ m # NIL THEN n ELSE t[k].parent

(* n, its child c and its parent p are three, and m is none of them.        *)
LEMMA Apart ==
  ASSUME NEW t, NEW T, NEW below, Linked(t, T), Nested(t, T, below),
         NEW n \in T, NEW s \in Side, t[n][s] # NIL, NEW r \in Side
  PROVE  LET c == t[n][s] m == t[c][r] p == t[n].parent
         IN  /\ c \in T /\ m \in T \cup {NIL} /\ p \in T \cup {ROOT}
             /\ c # n /\ c # p /\ n # p /\ m # n /\ m # c /\ m # p
             /\ t[c].parent = n /\ t[p][SideOf(t, n)] = n
<1> DEFINE c == t[n][s]
           m == t[c][r]
           p == t[n].parent
           d == SideOf(t, n)
<1>1. c \in T /\ t[c].parent = n
  BY DEF Linked
<1>2. m \in T \cup {NIL}
  BY <1>1, Kids
<1>3. p \in T \cup {ROOT} /\ t[p][d] = n /\ d \in Side
  BY DEF Linked, SideOf, Side
<1>4. ROOT \notin T /\ NIL \notin T /\ ROOT # NIL
  BY Kids
<1>5. below[c] \subseteq below[n] \ {n} /\ n \in below[n] /\ c \in below[c]
  BY <1>1, KidsBelow
<1>6. below[m] \subseteq below[c] \ {c}
  BY <1>1, KidsBelow
<1>7. p \in T => below[n] \subseteq below[p] \ {p}
  BY <1>3, KidsBelow
<1>8. m \in T => m \in below[m]
  BY KidsBelow
<1> QED BY <1>1, <1>2, <1>3, <1>4, <1>5, <1>6, <1>7, <1>8

LEMMA RotateTurns ==
  ASSUME NEW t, NEW T, NEW below, Linked(t, T), Nested(t, T, below),
         NEW n \in T, NEW s \in Side, t[n][Other(s)] # NIL
  PROVE  \E c, m, p, d :
           /\ Turned(t, Rotate(t, n, s), n, s, c, m, p, d)
           /\ \A k \in DOMAIN t : Rotate(t, n, s)[k].color = t[k].color
<1>1. PICK a : a = Other(s)
  OBVIOUS
<1>2. a \in Side /\ a # s
  BY <1>1 DEF Side, Other
<1>3. PICK c : c = t[n][a]
  OBVIOUS
<1>4. PICK m : m = t[c][s]
  OBVIOUS
<1>5. PICK p : p = t[n].parent
  OBVIOUS
<1>6. PICK d : d = SideOf(t, n)
  OBVIOUS
<1>7. PICK D : D = DOMAIN t
  OBVIOUS
<1>8. /\ c \in T /\ m \in T \cup {NIL} /\ p \in T \cup {ROOT}
      /\ c # n /\ c # p /\ n # p /\ m # n /\ m # c /\ m # p
      /\ t[c].parent = n /\ t[p][d] = n
  BY <1>1, <1>2, <1>3, <1>4, <1>5, <1>6, Apart
<1>9. /\ t \in [D -> RBNodes(D)]
      /\ n \in D /\ c \in D /\ m \in D /\ p \in D /\ d \in Side
      /\ {n, c, p} \subseteq Node \cup {ROOT, NIL}
  BY <1>6, <1>7, <1>8 DEF Linked, SideOf, Side
<1>10. PICK u1 : u1 = [t EXCEPT ![n][a] = m]
  OBVIOUS
<1>11. PICK u2 : u2 = [u1 EXCEPT ![c].parent = p]
  OBVIOUS
<1>12. PICK u3 : u3 = [u2 EXCEPT ![p][d] = c]
  OBVIOUS
<1>13. PICK u4 : u4 = [u3 EXCEPT ![c][s] = n]
  OBVIOUS
<1>14. PICK u5 : u5 = [u4 EXCEPT ![n].parent = c]
  OBVIOUS
<1>15. PICK u6 : u6 = [u5 EXCEPT ![m].parent = n]
  OBVIOUS
<1>16. PICK u : u = IF m # NIL THEN u6 ELSE u5
  OBVIOUS
<1>17. Rotate(t, n, s) = u
  <2>1. u5 = [t EXCEPT ![n][a] = m, ![c].parent = p, ![p][d] = c,
                       ![c][s] = n, ![n].parent = c]
    BY <1>10, <1>11, <1>12, <1>13, <1>14
  <2>2. RotateLinks(t, n, s) = [t EXCEPT ![n][a] = m, ![c].parent = p, ![p][d] = c,
                                         ![c][s] = n, ![n].parent = c]
    BY <1>1, <1>3, <1>4, <1>5, <1>6 DEF RotateLinks
  <2>3. u5 = RotateLinks(t, n, s)
    BY <2>1, <2>2
  <2>4. Rotate(t, n, s) = IF m # NIL THEN [u5 EXCEPT ![m].parent = n] ELSE u5
    BY <1>1, <1>3, <1>4, <2>3 DEF Rotate
  <2> QED BY <1>15, <1>16, <2>4
<1>18. KidSet(D, t, u1, n, a, m)
  BY <1>2, <1>9, <1>10, SetKid
<1>19. ParentSet(D, u1, u2, c, p)
  BY <1>9, <1>11, <1>18, SetParent DEF KidSet
<1>20. KidSet(D, u2, u3, p, d, c)
  BY <1>9, <1>12, <1>19, SetKid DEF ParentSet
<1>21. KidSet(D, u3, u4, c, s, n)
  <2>1. u3 \in [D -> RBNodes(D)]
    BY <1>20 DEF KidSet
  <2> QED BY <1>9, <1>13, <2>1, SetKid
<1>22. ParentSet(D, u4, u5, n, c)
  BY <1>9, <1>14, <1>21, SetParent DEF KidSet
<1>23. /\ u \in [D -> RBNodes(D)]
       /\ \A k \in D, r \in Side : u[k][r] = u5[k][r]
       /\ \A k \in D : u[k].color = u5[k].color
       /\ \A k \in D : u[k].parent = IF k = m /\ m # NIL THEN n ELSE u5[k].parent
  <2>1. ParentSet(D, u5, u6, m, n)
    <3>1. u5 \in [D -> RBNodes(D)]
      BY <1>22 DEF ParentSet
    <3> QED BY <1>9, <1>15, <3>1, SetParent
  <2> QED BY <1>16, <1>22, <2>1 DEF ParentSet
<1>24. Other(a) = s /\ Other(s) = a
  BY <1>1 DEF Other, Side
<1>25. d # Other(d) /\ Other(d) \in Side
  BY <1>9 DEF Other, Side
<1>26. \A k \in D : u[k].color = t[k].color
  BY <1>18, <1>19, <1>20, <1>21, <1>22, <1>23 DEF KidSet, ParentSet
<1>27. u[n][a] = m /\ u[n][s] = t[n][s]
  BY <1>2, <1>8, <1>9, <1>18, <1>19, <1>20, <1>21, <1>22, <1>23, <1>24 DEF KidSet, ParentSet
<1>28. u[c][s] = n /\ u[c][a] = t[c][a]
  BY <1>2, <1>8, <1>9, <1>18, <1>19, <1>20, <1>21, <1>22, <1>23, <1>24 DEF KidSet, ParentSet
<1>29. u[p][d] = c /\ u[p][Other(d)] = t[p][Other(d)]
  BY <1>8, <1>9, <1>25, <1>18, <1>19, <1>20, <1>21, <1>22, <1>23 DEF KidSet, ParentSet
<1>30. \A k \in D \ {n, c, p}, r \in Side : u[k][r] = t[k][r]
  BY <1>18, <1>19, <1>20, <1>21, <1>22, <1>23 DEF KidSet, ParentSet
<1>31. u[n].parent = c
  BY <1>8, <1>9, <1>22, <1>23 DEF ParentSet
<1>32. u[c].parent = p
  BY <1>8, <1>9, <1>18, <1>19, <1>20, <1>21, <1>22, <1>23 DEF KidSet, ParentSet
<1>33. \A k \in D \ {n, c} : u[k].parent = IF k = m /\ m # NIL THEN n ELSE t[k].parent
  BY <1>8, <1>9, <1>18, <1>19, <1>20, <1>21, <1>22, <1>23 DEF KidSet, ParentSet
<1>34. DOMAIN u = D
  BY <1>23
<1>35. Turned(t, u, n, s, c, m, p, d)
  BY <1>1, <1>3, <1>4, <1>5, <1>6, <1>7, <1>23, <1>26, <1>27, <1>28, <1>29, <1>30,
     <1>31, <1>32, <1>33 DEF Turned
<1> QED BY <1>7, <1>17, <1>26, <1>35

LEMMA TurnedApart ==
  ASSUME NEW t, NEW T, NEW below, Linked(t, T), Nested(t, T, below),
         NEW n \in T, NEW s \in Side, t[n][Other(s)] # NIL,
         NEW u, NEW c, NEW m, NEW p, NEW d, Turned(t, u, n, s, c, m, p, d)
  PROVE  /\ c \in T /\ m \in T \cup {NIL} /\ p \in T \cup {ROOT}
         /\ c # n /\ c # p /\ n # p /\ m # n /\ m # c /\ m # p
         /\ t[c].parent = n /\ t[p][d] = n /\ Other(s) \in Side /\ d \in Side
         /\ Other(d) \in Side
         /\ ROOT \notin T /\ NIL \notin T /\ ROOT # NIL
         /\ T \cup {ROOT, NIL} \subseteq DOMAIN t /\ T \subseteq Node
         /\ u \in [DOMAIN t -> RBNodes(DOMAIN t)] /\ DOMAIN u = DOMAIN t
<1>1. Other(s) \in Side /\ d \in Side /\ Other(d) \in Side
  BY DEF Turned, Other, Side, SideOf
<1>2. c = t[n][Other(s)] /\ m = t[c][s] /\ p = t[n].parent /\ d = SideOf(t, n)
  BY DEF Turned
<1>3. /\ c \in T /\ m \in T \cup {NIL} /\ p \in T \cup {ROOT}
      /\ c # n /\ c # p /\ n # p /\ m # n /\ m # c /\ m # p
      /\ t[c].parent = n /\ t[p][d] = n
  BY <1>1, <1>2, Apart
<1>4. /\ ROOT \notin T /\ NIL \notin T /\ ROOT # NIL
      /\ T \cup {ROOT, NIL} \subseteq DOMAIN t /\ T \subseteq Node
      /\ u \in [DOMAIN t -> RBNodes(DOMAIN t)] /\ DOMAIN u = DOMAIN t
  BY Kids DEF Linked, Turned
<1> QED BY <1>1, <1>3, <1>4

LEMMA RotateLinked ==
  ASSUME NEW t, NEW T, NEW below, Linked(t, T), Nested(t, T, below),
         NEW n \in T, NEW s \in Side, t[n][Other(s)] # NIL,
         NEW u, NEW c, NEW m, NEW p, NEW d, Turned(t, u, n, s, c, m, p, d)
  PROVE  Linked(u, T)
<1>1. /\ c \in T /\ m \in T \cup {NIL} /\ p \in T \cup {ROOT}
      /\ c # n /\ c # p /\ n # p /\ m # n /\ m # c /\ m # p
      /\ t[c].parent = n /\ t[p][d] = n /\ Other(s) \in Side /\ d \in Side
      /\ Other(d) \in Side
  BY TurnedApart
<1>2. /\ ROOT \notin T /\ NIL \notin T /\ ROOT # NIL
      /\ T \cup {ROOT, NIL} \subseteq DOMAIN t /\ T \subseteq Node
      /\ u \in [DOMAIN t -> RBNodes(DOMAIN t)] /\ DOMAIN u = DOMAIN t
  BY TurnedApart
<1>3. \A k \in T \cup {ROOT}, r \in Side : u[k][r] # NIL =>
        u[k][r] \in T /\ u[u[k][r]].parent = k
  <2> SUFFICES ASSUME NEW k \in T \cup {ROOT}, NEW r \in Side, u[k][r] # NIL
               PROVE  u[k][r] \in T /\ u[u[k][r]].parent = k
    OBVIOUS
  <2>1. \A a \in Side, b \in Side : a = b \/ a = Other(b)
    BY DEF Side, Other
  <2>2. CASE k = n
    <3>1. CASE r = s
      <4>1. u[k][r] = t[n][s] /\ t[n][s] \in T /\ t[t[n][s]].parent = n
        BY <2>2, <3>1 DEF Turned, Linked
      <4>2. t[n][s] # c /\ t[n][s] # m /\ t[n][s] # n
        <5>1. t[n][s] # c
          <6>1. c \in below[c] /\ below[t[n][s]] \cap below[t[n][Other(s)]] = {}
            BY <1>1, KidsBelow
          <6> QED BY <6>1 DEF Turned
        <5>2. m # NIL => t[m].parent = c
          BY <1>1 DEF Turned, Linked
        <5>3. t[n][s] # n
          BY KidsBelow
        <5> QED BY <1>1, <1>2, <4>1, <5>1, <5>2, <5>3
      <4> QED BY <1>2, <2>2, <4>1, <4>2 DEF Turned
    <3>2. CASE r = Other(s)
      BY <1>1, <1>2, <2>2, <3>2 DEF Turned
    <3> QED BY <2>1, <3>1, <3>2
  <2>3. CASE k = c
    <3>1. CASE r = s
      BY <1>1, <1>2, <2>3, <3>1 DEF Turned
    <3>2. CASE r = Other(s)
      <4>1. u[k][r] = t[c][r] /\ t[c][r] \in T /\ t[t[c][r]].parent = c
        BY <1>1, <2>3, <3>2 DEF Turned, Linked
      <4>2. t[c][r] # n /\ t[c][r] # c
        BY <1>1, <4>1, Apart DEF Turned
      <4>3. t[c][r] # m
        <5>1. below[t[c][s]] \cap below[t[c][Other(s)]] = {}
          BY <1>1, KidsBelow
        <5>2. t[c][r] \in below[t[c][r]]
          BY <4>1, KidsBelow
        <5> QED BY <3>2, <5>1, <5>2 DEF Turned
      <4> QED BY <1>2, <2>3, <4>1, <4>2, <4>3 DEF Turned
    <3> QED BY <2>1, <3>1, <3>2
  <2>4. CASE k = p
    <3>1. CASE r = d
      BY <1>1, <1>2, <2>4, <3>1 DEF Turned
    <3>2. CASE r = Other(d)
      <4>1. u[k][r] = t[p][r] /\ t[p][r] \in T /\ t[t[p][r]].parent = p
        BY <1>1, <2>4, <3>2 DEF Turned, Linked
      <4>2. t[p][r] # c
        BY <1>1, <4>1
      <4>3. t[p][r] # m
        <5>1. m # NIL => t[m].parent = c
          BY <1>1 DEF Turned, Linked
        <5> QED BY <1>1, <4>1, <5>1, <2>4, <3>2
      <4>4. t[p][r] # n
        <5>1. t[p][r] = n => r = d
          BY <1>1, OnePlace DEF Turned
        <5> QED BY <1>1, <3>2, <5>1 DEF Other, Side
      <4> QED BY <1>2, <2>4, <4>1, <4>2, <4>3, <4>4 DEF Turned
    <3> QED BY <1>1, <2>1, <3>1, <3>2
  <2>5. CASE k \notin {n, c, p}
    <3>1. u[k][r] = t[k][r] /\ t[k][r] \in T /\ t[t[k][r]].parent = k
      BY <1>2, <2>5 DEF Turned, Linked
    <3>2. m # NIL => t[m].parent = c
      BY <1>1 DEF Turned, Linked
    <3>3. t[k][r] \notin {n, c, m}
      BY <1>1, <2>5, <3>1, <3>2 DEF Turned
    <3> QED BY <1>2, <3>1, <3>3 DEF Turned
  <2> QED BY <2>2, <2>3, <2>4, <2>5
<1>4. \A k \in T : u[k].parent \in T \cup {ROOT} /\ u[u[k].parent][SideOf(u, k)] = k
  <2> SUFFICES ASSUME NEW k \in T
               PROVE  /\ u[k].parent \in T \cup {ROOT}
                      /\ \E r \in Side : u[u[k].parent][r] = k
    BY DEF SideOf, Side
  <2>1. CASE k = n
    BY <1>1, <2>1 DEF Turned
  <2>2. CASE k = c
    BY <1>1, <2>2 DEF Turned
  <2>3. CASE k = m
    BY <1>1, <1>2, <2>3 DEF Turned
  <2>4. CASE k \notin {n, c, m}
    <3>1. PICK q : q = t[k].parent
      OBVIOUS
    <3>2. PICK r \in Side : t[q][r] = k
      BY <3>1 DEF Linked, SideOf, Side
    <3>3. q \in T \cup {ROOT} /\ u[k].parent = q
      BY <1>1, <1>2, <2>4, <3>1 DEF Linked, Turned
    <3>4. CASE q = n
      <4>1. r = s
        BY <2>4, <3>2, <3>4 DEF Turned, Side, Other
      <4> QED BY <3>2, <3>3, <3>4, <4>1 DEF Turned
    <3>5. CASE q = c
      <4>1. r = Other(s)
        BY <2>4, <3>2, <3>5 DEF Turned, Side, Other
      <4> QED BY <3>2, <3>3, <3>5, <4>1 DEF Turned
    <3>6. CASE q = p
      <4>1. r = Other(d)
        BY <1>1, <2>4, <3>2, <3>6 DEF Side, Other
      <4> QED BY <3>2, <3>3, <3>6, <4>1 DEF Turned
    <3>7. CASE q \notin {n, c, p}
      BY <1>2, <3>2, <3>3, <3>7 DEF Turned
    <3> QED BY <3>4, <3>5, <3>6, <3>7
  <2> QED BY <2>1, <2>2, <2>3, <2>4
<1>5. u[ROOT].right = NIL
  <2>1. CASE p = ROOT
    <3>1. d = "left"
      BY <1>1, <1>2, <2>1 DEF Linked, Side
    <3> QED BY <2>1, <3>1 DEF Turned, Linked, Other
  <2>2. CASE p # ROOT
    BY <1>1, <1>2, <2>2 DEF Turned, Linked, Side
  <2> QED BY <2>1, <2>2
<1>6. \A r \in Side : u[NIL][r] = NIL
  <2>1. NIL \in DOMAIN t \ {n, c, p}
    BY <1>1, <1>2
  <2> QED BY <2>1 DEF Turned, Linked
<1> QED BY <1>2, <1>3, <1>4, <1>5, <1>6 DEF Linked

(* The subtrees of n and c are the only ones that change: they swap.        *)
TurnBelow(t, below, n, s, c, m) ==
  [below EXCEPT ![c] = below[n], ![n] = {n} \cup below[t[n][s]] \cup below[m]]

BelowTurned(t, T, below, u, n, s, c, m, b) ==
  /\ b \in [T \cup {ROOT, NIL} -> SUBSET T]
  /\ b[c] = below[n] /\ b[n] = {n} \cup below[t[n][s]] \cup below[m]
  /\ \A k \in (T \cup {ROOT, NIL}) \ {n, c} : b[k] = below[k]
  /\ b[u[n][s]] = below[t[n][s]] /\ b[u[n][Other(s)]] = below[m]
  /\ b[u[c][s]] = b[n] /\ b[u[c][Other(s)]] = below[t[c][Other(s)]]
  /\ \A k \in (T \cup {ROOT}) \ {n, c}, r \in Side : b[u[k][r]] = below[t[k][r]]

LEMMA TurnedKids ==
  ASSUME NEW t, NEW T, NEW below, Linked(t, T), Nested(t, T, below),
         NEW n \in T, NEW s \in Side, t[n][Other(s)] # NIL,
         NEW u, NEW c, NEW m, NEW p, NEW d, Turned(t, u, n, s, c, m, p, d),
         NEW b, b = TurnBelow(t, below, n, s, c, m)
  PROVE  BelowTurned(t, T, below, u, n, s, c, m, b)
<1>1. /\ c \in T /\ m \in T \cup {NIL} /\ p \in T \cup {ROOT}
      /\ c # n /\ c # p /\ n # p /\ m # n /\ m # c /\ m # p
      /\ t[c].parent = n /\ t[p][d] = n /\ Other(s) \in Side /\ d \in Side
      /\ Other(d) \in Side /\ ROOT \notin T /\ NIL \notin T
      /\ T \cup {ROOT, NIL} \subseteq DOMAIN t
  BY TurnedApart
<1>2. below \in [T \cup {ROOT, NIL} -> SUBSET T]
  BY DEF Nested
<1>3. t[n][s] \in T \cup {NIL} /\ t[c][Other(s)] \in T \cup {NIL}
  BY <1>1, Kids
<1>4. /\ b \in [T \cup {ROOT, NIL} -> SUBSET T]
      /\ b[c] = below[n] /\ b[n] = {n} \cup below[t[n][s]] \cup below[m]
      /\ \A k \in (T \cup {ROOT, NIL}) \ {n, c} : b[k] = below[k]
  BY <1>1, <1>2, <1>3 DEF TurnBelow
<1>5. u[n][s] = t[n][s] /\ u[n][Other(s)] = m /\ u[c][s] = n
      /\ u[c][Other(s)] = t[c][Other(s)]
  BY DEF Turned
<1>6. t[n][s] \notin {n, c} /\ t[c][Other(s)] \notin {n, c}
  <2>1. t[n][s] # n /\ t[c][Other(s)] # c
    BY <1>1, KidsBelow
  <2>2. t[n][s] # c
    <3>1. c \in below[c] /\ below[t[n][s]] \cap below[t[n][Other(s)]] = {}
      BY <1>1, KidsBelow
    <3> QED BY <3>1 DEF Turned
  <2>3. t[c][Other(s)] # n
    <3>1. n \in below[n] /\ below[t[c][Other(s)]] \subseteq below[c]
      BY <1>1, KidsBelow
    <3>2. c = t[n][Other(s)] /\ n \notin below[t[n][Other(s)]]
      BY <1>1, KidsBelow DEF Turned
    <3> QED BY <3>1, <3>2
  <2> QED BY <2>1, <2>2, <2>3
<1>7. \A k \in (T \cup {ROOT}) \ {n, c}, r \in Side : b[u[k][r]] = below[t[k][r]]
  <2> SUFFICES ASSUME NEW k \in (T \cup {ROOT}) \ {n, c}, NEW r \in Side
               PROVE  b[u[k][r]] = below[t[k][r]]
    OBVIOUS
  <2>1. t[k][r] # c
    BY <1>1 DEF Linked
  <2>2. t[k][r] \in T \cup {NIL}
    BY Kids
  <2>3. CASE k = p /\ r = d
    BY <1>1, <1>4, <2>3 DEF Turned
  <2>4. CASE ~(k = p /\ r = d)
    <3>1. u[k][r] = t[k][r]
      <4>1. CASE k = p
        <5>1. r = Other(d)
          BY <1>1, <2>4, <4>1 DEF Side, Other
        <5> QED BY <4>1, <5>1 DEF Turned
      <4>2. CASE k # p
        BY <1>1, <4>2 DEF Turned
      <4> QED BY <4>1, <4>2
    <3>2. t[k][r] # n
      BY <1>1, <2>4, OnePlace DEF Turned
    <3> QED BY <1>4, <2>1, <2>2, <3>1, <3>2
  <2> QED BY <2>3, <2>4
<1> QED BY <1>1, <1>3, <1>4, <1>5, <1>6, <1>7 DEF BelowTurned

LEMMA RotateNested ==
  ASSUME NEW t, NEW T, NEW below, Linked(t, T), Nested(t, T, below),
         NEW n \in T, NEW s \in Side, t[n][Other(s)] # NIL,
         NEW u, NEW c, NEW m, NEW p, NEW d, Turned(t, u, n, s, c, m, p, d)
  PROVE  Nested(u, T, TurnBelow(t, below, n, s, c, m))
<1>0. PICK b : b = TurnBelow(t, below, n, s, c, m)
  OBVIOUS
<1>1. /\ c \in T /\ m \in T \cup {NIL} /\ p \in T \cup {ROOT}
      /\ c # n /\ c # p /\ n # p /\ m # n /\ m # c /\ m # p
      /\ Other(s) \in Side /\ ROOT \notin T /\ NIL \notin T
  BY TurnedApart
<1>2. /\ b \in [T \cup {ROOT, NIL} -> SUBSET T]
      /\ b[c] = below[n] /\ b[n] = {n} \cup below[t[n][s]] \cup below[m]
      /\ \A k \in (T \cup {ROOT, NIL}) \ {n, c} : b[k] = below[k]
      /\ b[u[n][s]] = below[t[n][s]] /\ b[u[n][Other(s)]] = below[m]
      /\ b[u[c][s]] = b[n] /\ b[u[c][Other(s)]] = below[t[c][Other(s)]]
      /\ \A k \in (T \cup {ROOT}) \ {n, c}, r \in Side : b[u[k][r]] = below[t[k][r]]
  <2>1. BelowTurned(t, T, below, u, n, s, c, m, b)
    BY <1>0, TurnedKids
  <2> QED BY <2>1 DEF BelowTurned
<1>3. c = t[n][Other(s)] /\ m = t[c][s]
  BY DEF Turned
<1>4. b[NIL] = {} /\ b[ROOT] = T /\ b[u[ROOT].left] = T
  BY <1>1, <1>2 DEF Nested, Side
<1>5. /\ n \notin below[t[n][s]] /\ n \notin below[c]
      /\ below[n] = {n} \cup below[t[n][s]] \cup below[c]
      /\ below[t[n][s]] \cap below[c] = {}
  BY <1>1, <1>3, KidsBelow
<1>6. /\ c \notin below[m] /\ c \notin below[t[c][Other(s)]] /\ c \in below[c]
      /\ below[c] = {c} \cup below[m] \cup below[t[c][Other(s)]]
      /\ below[m] \cap below[t[c][Other(s)]] = {}
  BY <1>1, <1>3, KidsBelow
<1>7. ASSUME NEW k \in T
      PROVE  /\ b[k] = {k} \cup b[u[k][s]] \cup b[u[k][Other(s)]]
             /\ k \notin b[u[k][s]] /\ k \notin b[u[k][Other(s)]]
             /\ b[u[k][s]] \cap b[u[k][Other(s)]] = {}
  <2>1. CASE k = n
    BY <1>2, <1>5, <1>6, <2>1
  <2>2. CASE k = c
    BY <1>2, <1>5, <1>6, <2>2
  <2>3. CASE k \notin {n, c}
    <3>1. /\ below[k] = {k} \cup below[t[k][s]] \cup below[t[k][Other(s)]]
          /\ k \notin below[t[k][s]] /\ k \notin below[t[k][Other(s)]]
          /\ below[t[k][s]] \cap below[t[k][Other(s)]] = {}
      BY <1>1, KidsBelow
    <3>2. b[k] = below[k] /\ b[u[k][s]] = below[t[k][s]]
          /\ b[u[k][Other(s)]] = below[t[k][Other(s)]]
      BY <1>1, <1>2, <2>3
    <3> QED BY <3>1, <3>2
  <2> QED BY <2>1, <2>2, <2>3
<1>8. (s = "left" /\ Other(s) = "right") \/ (s = "right" /\ Other(s) = "left")
  BY DEF Side, Other
<1>9. \A k \in T : /\ b[k] = {k} \cup b[u[k].left] \cup b[u[k].right]
                   /\ b[u[k].left] \cap b[u[k].right] = {}
                   /\ \A r \in Side : k \notin b[u[k][r]]
  BY <1>7, <1>8 DEF Side
<1>10. Nested(u, T, b)
  BY <1>2, <1>4, <1>9 DEF Nested
<1> QED BY <1>0, <1>10

-----------------------------------------------------------------------------
(* f does not fall from left to right.                                      *)
Upto(s, i, j) == IF s = "left" THEN i <= j ELSE j <= i

Ordered(t, T, below, f) ==
  \A n \in T, s \in Side : \A m \in below[t[n][s]] : Upto(s, f[m], f[n])

LEMMA RotateOrdered ==
  ASSUME NEW t, NEW T, NEW below, Linked(t, T), Nested(t, T, below),
         NEW n \in T, NEW s \in Side, t[n][Other(s)] # NIL,
         NEW u, NEW c, NEW m, NEW p, NEW d, Turned(t, u, n, s, c, m, p, d),
         NEW f, \A k \in T : f[k] \in Nat, Ordered(t, T, below, f)
  PROVE  Ordered(u, T, TurnBelow(t, below, n, s, c, m), f)
<1>0. PICK b : b = TurnBelow(t, below, n, s, c, m)
  OBVIOUS
<1>1. /\ c \in T /\ m \in T \cup {NIL} /\ p \in T \cup {ROOT} /\ c # n
      /\ Other(s) \in Side /\ ROOT \notin T /\ NIL \notin T
  BY TurnedApart
<1>2. /\ b[n] = {n} \cup below[t[n][s]] \cup below[m]
      /\ b[u[n][s]] = below[t[n][s]] /\ b[u[n][Other(s)]] = below[m]
      /\ b[u[c][s]] = b[n] /\ b[u[c][Other(s)]] = below[t[c][Other(s)]]
      /\ \A k \in (T \cup {ROOT}) \ {n, c}, r \in Side : b[u[k][r]] = below[t[k][r]]
  <2>1. BelowTurned(t, T, below, u, n, s, c, m, b)
    BY <1>0, TurnedKids
  <2> QED BY <2>1 DEF BelowTurned
<1>3. c = t[n][Other(s)] /\ m = t[c][s]
  BY DEF Turned
<1>4. below[n] \subseteq T /\ below[c] \subseteq T
  BY <1>1 DEF Nested
<1>5. \A r \in Side : r = s \/ r = Other(s)
  BY DEF Side, Other
<1>6. below[m] \subseteq below[c] /\ c \in below[c]
  BY <1>1, <1>3, KidsBelow
<1>7. \A k \in below[t[n][s]] : Upto(s, f[k], f[n])
  BY DEF Ordered
<1>8. \A k \in below[c] : Upto(Other(s), f[k], f[n])
  BY <1>1, <1>3 DEF Ordered
<1>9. \A k \in below[m] : Upto(s, f[k], f[c])
  BY <1>1, <1>3 DEF Ordered
<1>10. \A k \in below[t[c][Other(s)]] : Upto(Other(s), f[k], f[c])
  BY <1>1 DEF Ordered
<1>11. Upto(s, f[n], f[c])
  BY <1>6, <1>8 DEF Upto, Side, Other
<1>12. \A k \in below[t[n][s]] : Upto(s, f[k], f[c])
  <2>1. \A k \in below[t[n][s]] : f[k] \in Nat
    BY <1>4, KidsBelow
  <2>2. f[n] \in Nat /\ f[c] \in Nat
    BY <1>1
  <2> QED BY <1>7, <1>11, <2>1, <2>2 DEF Upto, Side
<1>13. \A k \in T, r \in Side : \A j \in b[u[k][r]] : Upto(r, f[j], f[k])
  <2> SUFFICES ASSUME NEW k \in T, NEW r \in Side, NEW j \in b[u[k][r]]
               PROVE  Upto(r, f[j], f[k])
    OBVIOUS
  <2>1. CASE k = n
    BY <1>2, <1>5, <1>6, <1>7, <1>8, <2>1
  <2>2. CASE k = c
    BY <1>2, <1>5, <1>9, <1>10, <1>11, <1>12, <2>2
  <2>3. CASE k \notin {n, c}
    <3>1. b[u[k][r]] = below[t[k][r]]
      BY <1>2, <2>3
    <3> QED BY <3>1 DEF Ordered
  <2> QED BY <2>1, <2>2, <2>3
<1> QED BY <1>0, <1>13 DEF Ordered

-----------------------------------------------------------------------------
(* The same tree in other colours, and turned as well.                      *)
SameLinks(t, u) ==
  /\ u \in [DOMAIN t -> RBNodes(DOMAIN t)]
  /\ \A k \in DOMAIN t : u[k].parent = t[k].parent /\ \A r \in Side : u[k][r] = t[k][r]

Rearranged(t, u, T, below, b) ==
  /\ DOMAIN u = DOMAIN t
  /\ Linked(u, T)
  /\ Nested(u, T, b)
  /\ \A f \in [Node -> Nat] : Ordered(t, T, below, f) => Ordered(u, T, b, f)

LEMMA SameSide ==
  ASSUME NEW t, NEW T, Linked(t, T), NEW u, SameLinks(t, u), NEW k \in T \cup {NIL},
         t[k].parent \in DOMAIN t
  PROVE  SideOf(u, k) = SideOf(t, k)
<1>1. k \in DOMAIN t
  BY DEF Linked
<1>2. PICK q : q = t[k].parent
  OBVIOUS
<1>3. u[k].parent = q /\ u[q]["left"] = t[q]["left"]
  BY <1>1, <1>2 DEF SameLinks, Side
<1> QED BY <1>2, <1>3 DEF SideOf

LEMMA RepaintKeeps ==
  ASSUME NEW t, NEW T, NEW below, Linked(t, T), Nested(t, T, below),
         NEW u, SameLinks(t, u)
  PROVE  Rearranged(t, u, T, below, below)
<1>1. /\ T \subseteq Node /\ T \cup {ROOT, NIL} \subseteq DOMAIN t
      /\ u \in [DOMAIN t -> RBNodes(DOMAIN t)] /\ DOMAIN u = DOMAIN t
  BY DEF Linked, SameLinks
<1>2. \A k \in T \cup {ROOT}, r \in Side : u[k][r] = t[k][r]
  BY <1>1 DEF SameLinks
<1>3. \A k \in DOMAIN t : u[k].parent = t[k].parent
  BY DEF SameLinks
<1>4. \A n \in T \cup {ROOT}, s \in Side :
        u[n][s] # NIL => u[n][s] \in T /\ u[u[n][s]].parent = n
  BY <1>1, <1>2, <1>3 DEF Linked
<1>5. ASSUME NEW n \in T
      PROVE  u[n].parent \in T \cup {ROOT} /\ u[u[n].parent][SideOf(u, n)] = n
  <2>1. PICK q : q = t[n].parent
    OBVIOUS
  <2>2. q \in T \cup {ROOT} /\ t[q][SideOf(t, n)] = n /\ u[n].parent = q
    BY <1>1, <1>3, <2>1 DEF Linked
  <2>3. SideOf(u, n) = SideOf(t, n)
    BY <1>1, <2>1, <2>2, SameSide
  <2> QED BY <1>2, <2>2, <2>3 DEF SideOf, Side
<1>6. u[ROOT].right = NIL /\ \A r \in Side : u[NIL][r] = NIL
  BY <1>1, <1>2 DEF Linked, SameLinks, Side
<1>7. Linked(u, T)
  BY <1>1, <1>4, <1>5, <1>6 DEF Linked
<1>8. /\ u[ROOT].left = t[ROOT].left
      /\ \A n \in T : u[n].left = t[n].left /\ u[n].right = t[n].right
  BY <1>2 DEF Side
<1>9. Nested(u, T, below)
  BY <1>2, <1>8 DEF Nested
<1>10. ASSUME NEW f, Ordered(t, T, below, f) PROVE Ordered(u, T, below, f)
  BY <1>2, <1>10 DEF Ordered
<1> QED BY <1>1, <1>7, <1>9, <1>10 DEF Rearranged

LEMMA RotateKeeps ==
  ASSUME NEW t, NEW T, NEW below, Linked(t, T), Nested(t, T, below),
         NEW v, SameLinks(t, v),
         NEW n \in T, NEW s \in Side, t[n][Other(s)] # NIL,
         NEW u, u = Rotate(v, n, s)
  PROVE  \E c, m, p, d :
           /\ Turned(t, u, n, s, c, m, p, d)
           /\ \A k \in DOMAIN t : u[k].color = v[k].color
           /\ Rearranged(t, u, T, below, TurnBelow(t, below, n, s, c, m))
<1>1. DOMAIN v = DOMAIN t /\ n \in DOMAIN t /\ T \subseteq DOMAIN t /\ T \subseteq Node
  BY DEF Linked, SameLinks
<1>2. Linked(v, T) /\ Nested(v, T, below) /\
      \A f \in [Node -> Nat] : Ordered(t, T, below, f) => Ordered(v, T, below, f)
  BY RepaintKeeps DEF Rearranged
<1>3. Other(s) \in Side
  BY DEF Side, Other
<1>4. v[n][Other(s)] = t[n][Other(s)] /\ v[n][s] = t[n][s]
  BY <1>1, <1>3 DEF SameLinks
<1>5. PICK c, m, p, d : /\ Turned(v, u, n, s, c, m, p, d)
                        /\ \A k \in DOMAIN v : u[k].color = v[k].color
  BY <1>2, <1>4, RotateTurns
<1>6. c \in T /\ m \in T \cup {NIL} /\ p \in T \cup {ROOT} /\ d \in Side /\ Other(d) \in Side
  BY <1>2, <1>4, <1>5, TurnedApart
<1>7. c = t[n][Other(s)] /\ m = t[c][s] /\ p = t[n].parent /\ d = SideOf(t, n)
  <2>1. c = v[n][Other(s)] /\ m = v[c][s] /\ p = v[n].parent /\ d = SideOf(v, n)
    BY <1>5 DEF Turned
  <2>2. v[c][s] = t[c][s] /\ v[n].parent = t[n].parent
    BY <1>1, <1>6 DEF SameLinks
  <2>3. SideOf(v, n) = SideOf(t, n)
    BY <1>6, <2>1, <2>2, SameSide DEF Linked
  <2> QED BY <1>4, <2>1, <2>2, <2>3
<1>8. c \in DOMAIN t /\ p \in DOMAIN t
  BY <1>6 DEF Linked
<1>9. v[c][Other(s)] = t[c][Other(s)] /\ v[p][Other(d)] = t[p][Other(d)]
  BY <1>3, <1>6, <1>8 DEF SameLinks
<1>10. \A k \in DOMAIN t : v[k].parent = t[k].parent /\ \A r \in Side : v[k][r] = t[k][r]
  BY DEF SameLinks
<1>11. Turned(t, u, n, s, c, m, p, d)
  BY <1>1, <1>4, <1>5, <1>7, <1>9, <1>10 DEF Turned
<1>12. Linked(u, T) /\ Nested(u, T, TurnBelow(t, below, n, s, c, m))
  BY <1>11, RotateLinked, RotateNested
<1>13. ASSUME NEW f \in [Node -> Nat], Ordered(t, T, below, f)
       PROVE  Ordered(u, T, TurnBelow(t, below, n, s, c, m), f)
  <2>1. \A k \in T : f[k] \in Nat
    BY <1>1
  <2> QED BY <1>11, <1>13, <2>1, RotateOrdered
<1>14. DOMAIN u = DOMAIN t
  BY <1>11 DEF Turned
<1>15. Rearranged(t, u, T, below, TurnBelow(t, below, n, s, c, m))
  BY <1>12, <1>13, <1>14 DEF Rearranged
<1> QED BY <1>1, <1>5, <1>11, <1>15

-----------------------------------------------------------------------------
(* height[n] is the number of black nodes on each way down from n, if the   *)
(* subtree on side e of q counts one more.                                  *)
Black(t, n) == IF t[n].color = "black" THEN 1 ELSE 0
Lack(n, s, q, e) == IF n = q /\ s = e THEN 1 ELSE 0

Balanced(t, T, height, q, e) ==
  /\ height \in [T \cup {NIL} -> Nat]
  /\ height[NIL] = 0
  /\ \A n \in T, s \in Side : height[n] = height[t[n][s]] + Lack(n, s, q, e) + Black(t, n)

(* A red node has a black parent in the tree, unless it is x or its parent  *)
(* is y.                                                                    *)
Colored(t, T, x, y) ==
  /\ t[ROOT].color = "black" /\ t[NIL].color = "black"
  /\ \A n \in T : t[n].color = "red" =>
       \/ n = x \/ t[n].parent = y
       \/ t[n].parent # ROOT /\ t[t[n].parent].color = "black"

LEMMA BlackOrRed ==
  ASSUME NEW t, NEW T, Linked(t, T), NEW n \in T \cup {ROOT, NIL}
  PROVE  /\ t[n].color \in {"red", "black"}
         /\ Black(t, n) = 1 <=> t[n].color = "black"
         /\ Black(t, n) = 0 <=> t[n].color = "red"
         /\ Black(t, n) \in {0, 1}
<1>1. n \in DOMAIN t /\ t \in [DOMAIN t -> RBNodes(DOMAIN t)]
  BY DEF Linked
<1>2. t[n].color \in {"red", "black"}
  BY <1>1 DEF RBNodes
<1> QED BY <1>2 DEF Black

(* What else points to a subtree that a rotation at n changes: only p.      *)
LEMMA TurnedElsewhere ==
  ASSUME NEW t, NEW T, NEW below, Linked(t, T), Nested(t, T, below),
         NEW n \in T, NEW s \in Side, t[n][Other(s)] # NIL,
         NEW u, NEW c, NEW m, NEW p, NEW d, Turned(t, u, n, s, c, m, p, d),
         NEW h, NEW g, g[c] = h[n],
         \A k \in (T \cup {NIL}) \ {n, c} : k = NIL \/ t[k].parent # c => g[k] = h[k],
         NEW k \in T \ {n, c}, NEW r \in Side
  PROVE  g[u[k][r]] = h[t[k][r]]
<1>1. /\ c \in T /\ p \in T \cup {ROOT}
      /\ t[c].parent = n /\ t[p][d] = n /\ d \in Side
      /\ Other(d) \in Side /\ ROOT \notin T /\ NIL \notin T
      /\ T \cup {ROOT, NIL} \subseteq DOMAIN t
  BY TurnedApart
<1>2. /\ t[k][r] \in T \cup {NIL} /\ t[k][r] # c
      /\ t[k][r] = NIL \/ t[t[k][r]].parent # c
  BY <1>1, Kids DEF Linked
<1>3. CASE k = p /\ r = d
  BY <1>1, <1>3 DEF Turned
<1>4. CASE k = p /\ r # d
  <2>1. r = Other(d)
    BY <1>1, <1>4 DEF Side, Other
  <2>2. u[k][r] = t[k][r]
    BY <1>4, <2>1 DEF Turned
  <2>3. t[k][r] # n
    BY <1>4, OnePlace DEF Turned
  <2> QED BY <1>2, <2>2, <2>3
<1>5. CASE k # p
  <2>1. u[k][r] = t[k][r]
    BY <1>1, <1>5 DEF Turned
  <2>2. t[k][r] # n
    BY <1>5, OnePlace DEF Turned
  <2> QED BY <1>2, <2>1, <2>2
<1> QED BY <1>3, <1>4, <1>5

(* The black heights after a rotation in which n takes over red from c, and *)
(* c the colour of n: they swap, too.                                       *)
LEMMA SwapBalanced ==
  ASSUME NEW t, NEW T, NEW below, Linked(t, T), Nested(t, T, below),
         NEW n \in T, NEW s \in Side, t[n][Other(s)] # NIL,
         NEW u, NEW c, NEW m, NEW p, NEW d, Turned(t, u, n, s, c, m, p, d), Linked(u, T),
         t[c].color = "red", u[n].color = "red", u[c].color = t[n].color,
         \A k \in T \ {n, c} : u[k].color = t[k].color,
         NEW h, NEW q, NEW e, Balanced(t, T, h, q, e), q # c, q = n => e = s
  PROVE  h[m] = h[c] /\ \E g : Balanced(u, T, g, q, e)
<1>0. PICK g : g = [h EXCEPT ![n] = h[c], ![c] = h[n]]
  OBVIOUS
<1>1. /\ c \in T /\ m \in T \cup {NIL} /\ p \in T \cup {ROOT}
      /\ c # n /\ c # p /\ n # p /\ m # n /\ m # c /\ m # p
      /\ t[c].parent = n /\ t[p][d] = n /\ Other(s) \in Side /\ d \in Side
      /\ Other(d) \in Side /\ ROOT \notin T /\ NIL \notin T
      /\ T \cup {ROOT, NIL} \subseteq DOMAIN t
  BY TurnedApart
<1>2. h \in [T \cup {NIL} -> Nat] /\ h[NIL] = 0
  BY DEF Balanced
<1>3. /\ g \in [T \cup {NIL} -> Nat] /\ g[NIL] = 0 /\ g[n] = h[c] /\ g[c] = h[n]
      /\ \A k \in (T \cup {NIL}) \ {n, c} : g[k] = h[k]
  BY <1>0, <1>1, <1>2
<1>4. \A r \in Side : t[n][r] \in T \cup {NIL} /\ t[c][r] \in T \cup {NIL}
  BY <1>1, Kids
<1>5. s # Other(s) /\ \A r \in Side : r = s \/ r = Other(s)
  BY DEF Side, Other
<1>6. c = t[n][Other(s)] /\ m = t[c][s]
  BY DEF Turned
<1>7. /\ h[n] = h[t[n][s]] + Lack(n, s, q, e) + Black(t, n)
      /\ h[n] = h[c] + Black(t, n) /\ Black(t, n) \in Nat
  <2>1. h[n] = h[t[n][s]] + Lack(n, s, q, e) + Black(t, n)
    BY DEF Balanced
  <2>2. h[n] = h[c] + Lack(n, Other(s), q, e) + Black(t, n)
    BY <1>1, <1>6 DEF Balanced
  <2> QED BY <1>1, <1>2, <1>5, <2>1, <2>2 DEF Lack, Black
<1>8. h[c] = h[m] /\ h[c] = h[t[c][Other(s)]]
  <2>1. h[c] = h[m] + Lack(c, s, q, e) + Black(t, c)
    BY <1>1, <1>6 DEF Balanced
  <2>2. h[c] = h[t[c][Other(s)]] + Lack(c, Other(s), q, e) + Black(t, c)
    BY <1>1 DEF Balanced
  <2> QED BY <1>1, <1>2, <1>4, <2>1, <2>2 DEF Lack, Black
<1>9. /\ u[n][s] = t[n][s] /\ u[n][Other(s)] = m /\ u[c][s] = n
      /\ u[c][Other(s)] = t[c][Other(s)]
  BY DEF Turned
<1>10. /\ t[n][s] \in (T \cup {NIL}) \ {n, c} /\ t[c][Other(s)] \in (T \cup {NIL}) \ {n, c}
  <2>1. t[n][s] # n /\ t[c][Other(s)] # c
    BY <1>1, KidsBelow
  <2>2. t[n][s] # c
    <3>1. c \in below[c] /\ below[t[n][s]] \cap below[t[n][Other(s)]] = {}
      BY <1>1, KidsBelow
    <3> QED BY <1>6, <3>1
  <2>3. t[c][Other(s)] # n
    BY <1>1, Apart
  <2> QED BY <1>1, <1>4, <2>1, <2>2, <2>3
<1>11. Black(u, n) = 0 /\ Black(u, c) = Black(t, n)
  BY DEF Black
<1>12. ASSUME NEW k \in T, NEW r \in Side
       PROVE  g[k] = g[u[k][r]] + Lack(k, r, q, e) + Black(u, k)
  <2>1. CASE k = n /\ r = s
    <3>1. g[u[k][r]] = h[t[n][s]] /\ g[k] = h[c] /\ Black(u, k) = 0
      BY <1>3, <1>9, <1>10, <1>11, <2>1
    <3>2. h[t[n][s]] \in Nat /\ h[c] \in Nat /\ Black(t, n) \in Nat /\ Lack(n, s, q, e) \in Nat
      BY <1>1, <1>2, <1>7, <1>10 DEF Lack
    <3> QED BY <1>7, <2>1, <3>1, <3>2
  <2>2. CASE k = n /\ r = Other(s)
    <3>1. g[u[k][r]] = h[m] /\ g[k] = h[c] /\ Black(u, k) = 0 /\ Lack(k, r, q, e) = 0
      BY <1>1, <1>3, <1>5, <1>9, <1>11, <2>2 DEF Lack
    <3>2. h[m] \in Nat /\ g[k] = h[m]
      BY <1>1, <1>2, <1>8, <3>1
    <3> QED BY <3>1, <3>2
  <2>3. CASE k = c /\ r = s
    <3>1. g[u[k][r]] = h[c] /\ g[k] = h[n] /\ Black(u, k) = Black(t, n) /\ Lack(k, r, q, e) = 0
      BY <1>3, <1>9, <1>11, <2>3 DEF Lack
    <3> QED BY <1>1, <1>2, <1>7, <3>1
  <2>4. CASE k = c /\ r = Other(s)
    <3>1. /\ g[u[k][r]] = h[t[c][Other(s)]] /\ g[k] = h[n] /\ Black(u, k) = Black(t, n)
          /\ Lack(k, r, q, e) = 0
      BY <1>3, <1>9, <1>10, <1>11, <2>4 DEF Lack
    <3> QED BY <1>1, <1>2, <1>7, <1>8, <3>1
  <2>5. CASE k \notin {n, c}
    <3>1. h[k] = h[t[k][r]] + Lack(k, r, q, e) + Black(t, k)
      BY DEF Balanced
    <3>2. g[k] = h[k] /\ Black(u, k) = Black(t, k)
      BY <1>3, <2>5 DEF Black
    <3>3. g[u[k][r]] = h[t[k][r]]
      <4>1. k \in T \ {n, c} /\ g[c] = h[n]
        BY <1>3, <2>5
      <4>2. \A j \in (T \cup {NIL}) \ {n, c} : j = NIL \/ t[j].parent # c => g[j] = h[j]
        BY <1>3
      <4> QED BY <4>1, <4>2, TurnedElsewhere
    <3> QED BY <3>1, <3>2, <3>3
  <2> QED BY <1>5, <2>1, <2>2, <2>3, <2>4, <2>5
<1>13. Balanced(u, T, g, q, e)
  BY <1>3, <1>12 DEF Balanced
<1> QED BY <1>8, <1>13

(* The last rotation of a repair: c takes over the colour of n, and what    *)
(* was its other child f is black as n is, which makes up for the lack.     *)
LEMMA LiftBalanced ==
  ASSUME NEW t, NEW T, NEW below, Linked(t, T), Nested(t, T, below),
         NEW n \in T, NEW s \in Side, t[n][Other(s)] # NIL,
         NEW u, NEW c, NEW m, NEW p, NEW d, Turned(t, u, n, s, c, m, p, d), Linked(u, T),
         NEW f \in T, f = t[c][Other(s)],
         t[c].color = "black", t[f].color = "red",
         u[n].color = "black", u[f].color = "black", u[c].color = t[n].color,
         \A k \in T \ {n, c, f} : u[k].color = t[k].color,
         NEW h, Balanced(t, T, h, n, s), NEW q, q \notin T, NEW e
  PROVE  \E g : Balanced(u, T, g, q, e)
<1>0. PICK g : g = [h EXCEPT ![n] = h[c], ![c] = h[n], ![f] = h[f] + 1]
  OBVIOUS
<1>1. /\ c \in T /\ m \in T \cup {NIL} /\ p \in T \cup {ROOT}
      /\ c # n /\ c # p /\ n # p /\ m # n /\ m # c /\ m # p
      /\ t[c].parent = n /\ t[p][d] = n /\ Other(s) \in Side /\ d \in Side
      /\ Other(d) \in Side /\ ROOT \notin T /\ NIL \notin T
      /\ T \cup {ROOT, NIL} \subseteq DOMAIN t
  BY TurnedApart
<1>2. h \in [T \cup {NIL} -> Nat] /\ h[NIL] = 0
  BY DEF Balanced
<1>3. s # Other(s) /\ \A r \in Side : r = s \/ r = Other(s)
  BY DEF Side, Other
<1>4. c = t[n][Other(s)] /\ m = t[c][s]
  BY DEF Turned
<1>5. f # c /\ f # n /\ f # m /\ t[f].parent = c
  <2>1. f # c
    BY <1>1, KidsBelow
  <2>2. f # n
    BY <1>1, <1>4, Apart
  <2>3. f # m
    <3>1. f \in below[f] /\ below[t[c][s]] \cap below[t[c][Other(s)]] = {}
      BY <1>1, KidsBelow
    <3> QED BY <1>4, <3>1
  <2>4. t[f].parent = c
    BY <1>1 DEF Linked
  <2> QED BY <2>1, <2>2, <2>3, <2>4
<1>6. /\ g \in [T \cup {NIL} -> Nat] /\ g[NIL] = 0 /\ g[n] = h[c] /\ g[c] = h[n]
      /\ g[f] = h[f] + 1
      /\ \A k \in (T \cup {NIL}) \ {n, c, f} : g[k] = h[k]
  BY <1>0, <1>1, <1>2, <1>5
<1>7. h[n] = h[t[n][s]] + 1 + Black(t, n) /\ h[n] = h[c] + Black(t, n) /\ Black(t, n) \in {0, 1}
  <2>1. h[n] = h[t[n][s]] + Lack(n, s, n, s) + Black(t, n)
    BY DEF Balanced
  <2>2. h[n] = h[c] + Lack(n, Other(s), n, s) + Black(t, n)
    BY <1>1, <1>4 DEF Balanced
  <2> QED BY <1>1, <1>2, <1>3, <2>1, <2>2 DEF Lack, Black
<1>8. h[c] = h[m] + 1 /\ h[c] = h[f] + 1
  <2>1. h[c] = h[m] + Lack(c, s, n, s) + Black(t, c)
    BY <1>1, <1>4 DEF Balanced
  <2>2. h[c] = h[f] + Lack(c, Other(s), n, s) + Black(t, c)
    BY <1>1 DEF Balanced
  <2> QED BY <1>1, <1>2, <2>1, <2>2 DEF Lack, Black
<1>9. \A r \in Side : h[f] = h[t[f][r]]
  <2> SUFFICES ASSUME NEW r \in Side PROVE h[f] = h[t[f][r]]
    OBVIOUS
  <2>1. h[f] = h[t[f][r]] + Lack(f, r, n, s) + Black(t, f)
    BY DEF Balanced
  <2>2. t[f][r] \in T \cup {NIL}
    BY Kids
  <2> QED BY <1>2, <1>5, <2>1, <2>2 DEF Lack, Black
<1>10. /\ u[n][s] = t[n][s] /\ u[n][Other(s)] = m /\ u[c][s] = n
       /\ u[c][Other(s)] = f
  BY DEF Turned
<1>11. t[n][s] \in (T \cup {NIL}) \ {n, c, f}
  <2>1. t[n][s] \in T \cup {NIL} /\ t[n][s] # n
    BY <1>1, Kids, KidsBelow
  <2>2. t[n][s] # c
    <3>1. c \in below[c] /\ below[t[n][s]] \cap below[t[n][Other(s)]] = {}
      BY <1>1, KidsBelow
    <3> QED BY <1>4, <3>1
  <2>3. t[n][s] # f
    BY <1>1, <1>5 DEF Linked
  <2> QED BY <2>1, <2>2, <2>3
<1>12. \A k \in T, r \in Side : Lack(k, r, q, e) = 0
  BY DEF Lack
<1>13. Black(u, n) = 1 /\ Black(u, c) = Black(t, n) /\ Black(u, f) = 1
  BY DEF Black
<1>14. ASSUME NEW k \in T, NEW r \in Side
       PROVE  g[k] = g[u[k][r]] + Black(u, k)
  <2>1. CASE k = n /\ r = s
    <3>1. g[u[k][r]] = h[t[n][s]] /\ g[k] = h[c] /\ Black(u, k) = 1
      BY <1>6, <1>10, <1>11, <1>13, <2>1
    <3>2. h[t[n][s]] \in Nat /\ h[c] \in Nat
      BY <1>1, <1>2, <1>11
    <3> QED BY <1>7, <3>1, <3>2
  <2>2. CASE k = n /\ r = Other(s)
    <3>1. g[u[k][r]] = h[m] /\ g[k] = h[c] /\ Black(u, k) = 1
      BY <1>1, <1>5, <1>6, <1>10, <1>13, <2>2
    <3> QED BY <1>8, <3>1
  <2>3. CASE k = c /\ r = s
    <3>1. g[u[k][r]] = h[c] /\ g[k] = h[n] /\ Black(u, k) = Black(t, n)
      BY <1>6, <1>10, <1>13, <2>3
    <3> QED BY <1>7, <3>1
  <2>4. CASE k = c /\ r = Other(s)
    <3>1. g[u[k][r]] = h[f] + 1 /\ g[k] = h[n] /\ Black(u, k) = Black(t, n)
      BY <1>6, <1>10, <1>13, <2>4
    <3>2. h[f] + 1 = h[c]
      BY <1>8
    <3> QED BY <1>7, <3>1, <3>2
  <2>5. CASE k = f
    <3>1. g[k] = h[f] + 1 /\ Black(u, k) = 1
      BY <1>6, <1>13, <2>5
    <3>2. g[u[k][r]] = h[t[f][r]]
      <4>1. k \in T \ {n, c} /\ g[c] = h[n]
        BY <1>5, <1>6, <2>5
      <4>2. \A j \in (T \cup {NIL}) \ {n, c} : j = NIL \/ t[j].parent # c => g[j] = h[j]
        BY <1>1, <1>5, <1>6
      <4>3. g[u[k][r]] = h[t[k][r]]
        BY <4>1, <4>2, TurnedElsewhere
      <4> QED BY <2>5, <4>3
    <3> QED BY <1>9, <3>1, <3>2
  <2>6. CASE k \notin {n, c, f}
    <3>1. h[k] = h[t[k][r]] + Lack(k, r, n, s) + Black(t, k)
      BY DEF Balanced
    <3>2. g[k] = h[k] /\ Black(u, k) = Black(t, k) /\ Lack(k, r, n, s) = 0
      BY <1>6, <2>6 DEF Black, Lack
    <3>3. g[u[k][r]] = h[t[k][r]]
      <4>1. k \in T \ {n, c} /\ g[c] = h[n]
        BY <1>6, <2>6
      <4>2. \A j \in (T \cup {NIL}) \ {n, c} : j = NIL \/ t[j].parent # c => g[j] = h[j]
        BY <1>1, <1>5, <1>6
      <4> QED BY <4>1, <4>2, TurnedElsewhere
    <3>4. h[t[k][r]] \in Nat
      BY <1>2, Kids
    <3> QED BY <3>1, <3>2, <3>3, <3>4
  <2> QED BY <1>3, <2>1, <2>2, <2>3, <2>4, <2>5, <2>6
<1>15. ASSUME NEW k \in T, NEW r \in Side
       PROVE  g[k] = g[u[k][r]] + Lack(k, r, q, e) + Black(u, k)
  <2>1. u[k][r] \in T \cup {NIL}
    BY Kids
  <2> QED BY <1>6, <1>12, <1>14, <2>1
<1>16. Balanced(u, T, g, q, e)
  BY <1>6, <1>15 DEF Balanced
<1> QED BY <1>16

LEMMA NoLack ==
  ASSUME NEW t, NEW T, NEW h, NEW q, NEW e, Balanced(t, T, h, q, e), q \notin T,
         NEW x, x \notin T, NEW a
  PROVE  Balanced(t, T, h, x, a)
<1>1. \A n \in T, s \in Side : Lack(n, s, q, e) = Lack(n, s, x, a)
  BY DEF Lack
<1> QED BY <1>1 DEF Balanced

(* Two red children and their black parent swap colours.                    *)
LEMMA RecolorBalanced ==
  ASSUME NEW t, NEW T, NEW below, Linked(t, T), Nested(t, T, below), NEW u, SameLinks(t, u),
         NEW g \in T, t[g].color = "black", u[g].color = "red",
         \A s \in Side : t[g][s] \in T /\ t[t[g][s]].color = "red" /\ u[t[g][s]].color = "black",
         \A k \in T : k # g /\ t[k].parent # g => u[k].color = t[k].color,
         NEW h, NEW q, q \notin T, NEW e, Balanced(t, T, h, q, e)
  PROVE  \E j : Balanced(u, T, j, q, e)
<1>0. PICK j : j = [k \in T \cup {NIL} |->
                      h[k] + IF k \in T /\ t[k].parent = g THEN 1 ELSE 0]
  OBVIOUS
<1>1. NIL \notin T /\ T \subseteq DOMAIN t /\ T \subseteq DOMAIN u
  BY TreeAssumption DEF Linked, SameLinks
<1>2. h \in [T \cup {NIL} -> Nat] /\ h[NIL] = 0
  BY DEF Balanced
<1>3. /\ j \in [T \cup {NIL} -> Nat] /\ j[NIL] = 0
      /\ \A k \in T : t[k].parent = g => j[k] = h[k] + 1
      /\ \A k \in T : t[k].parent # g => j[k] = h[k]
  BY <1>0, <1>1, <1>2
<1>4. ASSUME NEW k \in T, t[k].parent = g
      PROVE  /\ k # g /\ t[k].color = "red" /\ u[k].color = "black"
  <2>1. PICK s \in Side : t[g][s] = k
    BY <1>4 DEF Linked, SideOf, Side
  <2>2. k # g
    BY <2>1, KidsBelow
  <2> QED BY <2>1, <2>2
<1>5. ASSUME NEW k \in T, NEW r \in Side
      PROVE  j[k] = j[u[k][r]] + Lack(k, r, q, e) + Black(u, k)
  <2>1. u[k][r] = t[k][r] /\ Lack(k, r, q, e) = 0
    BY <1>1 DEF SameLinks, Lack
  <2>2. h[k] = h[t[k][r]] + Black(t, k)
    <3>1. h[k] = h[t[k][r]] + Lack(k, r, q, e) + Black(t, k)
      BY DEF Balanced
    <3>2. h[t[k][r]] \in Nat
      BY <1>2, Kids
    <3> QED BY <2>1, <3>1, <3>2
  <2>3. t[k][r] \in T \cup {NIL} /\ (t[k][r] # NIL => t[t[k][r]].parent = k)
    BY Kids DEF Linked
  <2>4. h[t[k][r]] \in Nat
    BY <1>2, <2>3
  <2>5. CASE k = g
    <3>1. t[g][r] \in T /\ t[t[g][r]].parent = g
      BY <1>1, <2>3, <2>5
    <3>2. t[g].parent # g
      BY <1>4
    <3>3. j[k] = h[k] /\ j[t[k][r]] = h[t[k][r]] + 1 /\ Black(t, k) = 1 /\ Black(u, k) = 0
      BY <1>3, <2>5, <3>1, <3>2 DEF Black
    <3> QED BY <2>1, <2>2, <2>4, <3>3
  <2>6. CASE k # g
    <3>1. j[t[k][r]] = h[t[k][r]]
      BY <1>2, <1>3, <2>3, <2>6
    <3>2. CASE t[k].parent = g
      <4>1. j[k] = h[k] + 1 /\ Black(t, k) = 0 /\ Black(u, k) = 1
        BY <1>3, <1>4, <3>2 DEF Black
      <4> QED BY <2>1, <2>2, <2>4, <3>1, <4>1
    <3>3. CASE t[k].parent # g
      <4>1. j[k] = h[k] /\ Black(t, k) = Black(u, k)
        BY <1>3, <2>6, <3>3 DEF Black
      <4> QED BY <2>1, <2>2, <2>4, <3>1, <4>1 DEF Black
    <3> QED BY <3>2, <3>3
  <2> QED BY <2>5, <2>6
<1>6. Balanced(u, T, j, q, e)
  BY <1>3, <1>5 DEF Balanced
<1> QED BY <1>6

(* The sibling of a short subtree turns red: the one of its parent is short.*)
LEMMA AboveBalanced ==
  ASSUME NEW t, NEW T, NEW below, Linked(t, T), Nested(t, T, below), NEW u, SameLinks(t, u),
         NEW p \in T, NEW s \in Side, NEW b \in T, t[p][Other(s)] = b,
         t[b].color = "black", u[b].color = "red",
         \A k \in T : k # b => u[k].color = t[k].color,
         NEW h, Balanced(t, T, h, p, s)
  PROVE  \E j : Balanced(u, T, j, t[p].parent, SideOf(t, p))
<1>0. PICK j : j = [h EXCEPT ![b] = h[b] - 1, ![p] = h[p] - 1]
  OBVIOUS
<1>1. NIL \notin T /\ ROOT \notin T /\ T \subseteq DOMAIN t /\ Other(s) \in Side /\ s # Other(s)
  BY Kids DEF Linked, Side, Other
<1>2. h \in [T \cup {NIL} -> Nat] /\ h[NIL] = 0
  BY DEF Balanced
<1>3. PICK q : q = t[p].parent
  OBVIOUS
<1>4. PICK e : e = SideOf(t, p)
  OBVIOUS
<1>5. /\ q \in T \cup {ROOT} /\ t[q][e] = p /\ e \in Side /\ q # p /\ q # b /\ b # p
      /\ t[b].parent = p
  <2>1. q \in T \cup {ROOT} /\ t[q][e] = p /\ e \in Side
    BY <1>3, <1>4 DEF Linked, SideOf, Side
  <2>2. b # q /\ b # p /\ q # p /\ t[b].parent = p
    BY <1>1, <1>3, Apart
  <2> QED BY <2>1, <2>2
<1>6. \A r \in Side : h[b] = h[t[b][r]] + 1
  <2> SUFFICES ASSUME NEW r \in Side PROVE h[b] = h[t[b][r]] + 1
    OBVIOUS
  <2>1. h[b] = h[t[b][r]] + Lack(b, r, p, s) + Black(t, b)
    BY DEF Balanced
  <2>2. h[t[b][r]] \in Nat
    BY <1>2, Kids
  <2> QED BY <1>5, <2>1, <2>2 DEF Lack, Black
<1>7. h[p] = h[t[p][s]] + 1 + Black(t, p) /\ h[p] = h[b] + Black(t, p)
      /\ Black(t, p) \in {0, 1} /\ h[t[p][s]] \in Nat
  <2>1. h[p] = h[t[p][s]] + Lack(p, s, p, s) + Black(t, p)
    BY DEF Balanced
  <2>2. h[p] = h[b] + Lack(p, Other(s), p, s) + Black(t, p)
    BY <1>1 DEF Balanced
  <2>3. h[t[p][s]] \in Nat
    BY <1>2, Kids
  <2> QED BY <1>1, <1>2, <2>1, <2>2, <2>3 DEF Lack, Black
<1>8. h[b] \in Nat \ {0} /\ h[p] \in Nat \ {0}
  <2>1. h[t[b][s]] \in Nat
    BY <1>2, Kids
  <2> QED BY <1>2, <1>6, <1>7, <2>1
<1>9. /\ j \in [T \cup {NIL} -> Nat] /\ j[NIL] = 0 /\ j[b] = h[b] - 1 /\ j[p] = h[p] - 1
      /\ \A k \in (T \cup {NIL}) \ {b, p} : j[k] = h[k]
  BY <1>0, <1>1, <1>2, <1>5, <1>8
<1>10. /\ Black(u, b) = 0 /\ Black(u, p) = Black(t, p)
       /\ \A k \in T : k # b => Black(u, k) = Black(t, k)
  BY <1>5 DEF Black
<1>11. ASSUME NEW k \in T, NEW r \in Side
       PROVE  j[k] = j[u[k][r]] + Lack(k, r, q, e) + Black(u, k)
  <2>1. u[k][r] = t[k][r]
    BY <1>1 DEF SameLinks
  <2>2. t[k][r] \in T \cup {NIL} /\ (t[k][r] # NIL => t[t[k][r]].parent = k)
    BY Kids DEF Linked
  <2>3. h[t[k][r]] \in Nat
    BY <1>2, <2>2
  <2>4. CASE k = b
    <3>1. t[k][r] \notin {b, p} /\ Lack(k, r, q, e) = 0
      BY <1>1, <1>3, <1>5, <2>2, <2>4 DEF Lack
    <3>2. j[t[k][r]] = h[t[k][r]] /\ j[k] = h[b] - 1
      BY <1>9, <2>2, <2>4, <3>1
    <3>3. h[b] = h[t[k][r]] + 1
      BY <1>6, <2>4
    <3> QED BY <1>10, <2>1, <2>3, <2>4, <3>1, <3>2, <3>3
  <2>5. CASE k = p
    <3>1. Lack(k, r, q, e) = 0 /\ j[k] = h[p] - 1
      BY <1>5, <1>9, <2>5 DEF Lack
    <3>2. CASE r = s
      <4>1. t[k][r] \notin {b, p}
        <5>1. t[p][s] # b
          BY <1>1, <1>5, OnePlace
        <5>2. t[p][s] # p
          BY KidsBelow
        <5> QED BY <2>5, <3>2, <5>1, <5>2
      <4>2. j[t[k][r]] = h[t[p][s]]
        BY <1>9, <2>2, <2>5, <3>2, <4>1
      <4> QED BY <1>7, <1>10, <2>1, <2>5, <3>1, <4>2
    <3>3. CASE r # s
      <4>1. t[k][r] = b
        BY <2>5, <3>3 DEF Side, Other
      <4> QED BY <1>7, <1>8, <1>9, <1>10, <2>1, <2>5, <3>1, <4>1
    <3> QED BY <3>2, <3>3
  <2>6. CASE k \notin {b, p}
    <3>1. h[k] = h[t[k][r]] + Lack(k, r, p, s) + Black(t, k)
      BY DEF Balanced
    <3>2. Lack(k, r, p, s) = 0 /\ Black(u, k) = Black(t, k) /\ j[k] = h[k]
          /\ Black(t, k) \in {0, 1} /\ t[k][r] # b
      BY <1>5, <1>9, <1>10, <1>1, <2>2, <2>6 DEF Lack, Black
    <3>3. CASE k = q /\ r = e
      <4>1. Lack(k, r, q, e) = 1 /\ j[t[k][r]] = h[t[k][r]] - 1
        BY <1>5, <1>9, <3>3 DEF Lack
      <4> QED BY <2>1, <2>3, <3>1, <3>2, <4>1
    <3>4. CASE ~(k = q /\ r = e)
      <4>1. Lack(k, r, q, e) = 0
        BY <3>4 DEF Lack
      <4>2. t[k][r] # p
        BY <1>3, <1>4, <3>4, OnePlace
      <4>3. j[t[k][r]] = h[t[k][r]]
        BY <1>9, <2>2, <3>2, <4>2
      <4> QED BY <2>1, <2>3, <3>1, <3>2, <4>1, <4>3
    <3> QED BY <3>3, <3>4
  <2> QED BY <2>4, <2>5, <2>6
<1>12. Balanced(u, T, j, q, e)
  BY <1>9, <1>11 DEF Balanced
<1> QED BY <1>3, <1>4, <1>12

(* The top of a short subtree turns black.                                  *)
LEMMA BlackenBalanced ==
  ASSUME NEW t, NEW T, NEW below, Linked(t, T), Nested(t, T, below), NEW u, SameLinks(t, u),
         NEW x \in T, t[x].color = "red", u[x].color = "black",
         \A k \in T : k # x => u[k].color = t[k].color,
         NEW h, Balanced(t, T, h, t[x].parent, SideOf(t, x)), NEW q, q \notin T, NEW e
  PROVE  \E j : Balanced(u, T, j, q, e)
<1>0. PICK j : j = [h EXCEPT ![x] = h[x] + 1]
  OBVIOUS
<1>1. NIL \notin T /\ T \subseteq DOMAIN t
  BY TreeAssumption DEF Linked
<1>2. h \in [T \cup {NIL} -> Nat] /\ h[NIL] = 0
  BY DEF Balanced
<1>3. PICK p : p = t[x].parent
  OBVIOUS
<1>4. PICK a : a = SideOf(t, x)
  OBVIOUS
<1>5. p \in T \cup {ROOT} /\ t[p][a] = x /\ a \in Side /\ p # x
  <2>1. p \in T \cup {ROOT} /\ t[p][a] = x /\ a \in Side
    BY <1>3, <1>4 DEF Linked, SideOf, Side
  <2>2. p # x
    BY <2>1, KidsBelow, Kids
  <2> QED BY <2>1, <2>2
<1>6. /\ j \in [T \cup {NIL} -> Nat] /\ j[NIL] = 0 /\ j[x] = h[x] + 1
      /\ \A k \in (T \cup {NIL}) \ {x} : j[k] = h[k]
  BY <1>0, <1>1, <1>2
<1>7. ASSUME NEW k \in T, NEW r \in Side
      PROVE  j[k] = j[u[k][r]] + Lack(k, r, q, e) + Black(u, k)
  <2>1. u[k][r] = t[k][r] /\ Lack(k, r, q, e) = 0
    BY <1>1 DEF SameLinks, Lack
  <2>2. t[k][r] \in T \cup {NIL}
    BY Kids
  <2>3. h[t[k][r]] \in Nat /\ h[k] \in Nat
    BY <1>2, <2>2
  <2>4. h[k] = h[t[k][r]] + Lack(k, r, p, a) + Black(t, k)
    BY <1>3, <1>4 DEF Balanced
  <2>5. CASE k = x
    <3>1. Lack(k, r, p, a) = 0 /\ Black(t, k) = 0 /\ Black(u, k) = 1 /\ t[k][r] # x
      BY <1>5, <2>5, KidsBelow DEF Lack, Black
    <3>2. j[t[k][r]] = h[t[k][r]] /\ j[k] = h[k] + 1
      BY <1>6, <2>2, <2>5, <3>1
    <3> QED BY <2>1, <2>3, <2>4, <3>1, <3>2
  <2>6. CASE k # x /\ k = p /\ r = a
    <3>1. Lack(k, r, p, a) = 1 /\ Black(t, k) = Black(u, k) /\ Black(t, k) \in {0, 1}
      BY <2>6 DEF Lack, Black
    <3>2. j[t[k][r]] = h[t[k][r]] + 1 /\ j[k] = h[k]
      BY <1>5, <1>6, <2>6
    <3> QED BY <2>1, <2>3, <2>4, <3>1, <3>2
  <2>7. CASE k # x /\ ~(k = p /\ r = a)
    <3>1. Lack(k, r, p, a) = 0 /\ Black(t, k) = Black(u, k) /\ Black(t, k) \in {0, 1}
      BY <2>7 DEF Lack, Black
    <3>2. t[k][r] # x
      BY <1>3, <1>4, <2>7, OnePlace
    <3>3. j[t[k][r]] = h[t[k][r]] /\ j[k] = h[k]
      BY <1>6, <2>2, <2>7, <3>2
    <3> QED BY <2>1, <2>3, <2>4, <3>1, <3>3
  <2> QED BY <2>5, <2>6, <2>7
<1>8. Balanced(u, T, j, q, e)
  BY <1>6, <1>7 DEF Balanced
<1> QED BY <1>8

-----------------------------------------------------------------------------
(* Nodes painted.                                                           *)
Painted(t, v, u, n, x) ==
  /\ SameLinks(t, u)
  /\ u[n].color = x
  /\ \A k \in DOMAIN t : k # n => u[k].color = v[k].color

LEMMA Paint ==
  ASSUME NEW t, NEW T, Linked(t, T), NEW v, SameLinks(t, v), NEW n \in T \cup {ROOT, NIL},
         NEW x \in {"red", "black"}, NEW u, u = [v EXCEPT ![n].color = x]
  PROVE  Painted(t, v, u, n, x)
<1>1. PICK D : D = DOMAIN t
  OBVIOUS
<1>2. v \in [D -> RBNodes(D)] /\ n \in D
  BY <1>1 DEF SameLinks, Linked
<1>3. ColorSet(D, v, u, n, x)
  BY <1>2, SetColor
<1>4. u \in [D -> RBNodes(D)] /\ u[n].color = x
  BY <1>3 DEF ColorSet
<1>5. \A k \in D : u[k].parent = v[k].parent /\ \A r \in Side : u[k][r] = v[k][r]
  BY <1>3 DEF ColorSet
<1>6. \A k \in D : k # n => u[k].color = v[k].color
  BY <1>3 DEF ColorSet
<1>7. \A k \in D : v[k].parent = t[k].parent /\ \A r \in Side : v[k][r] = t[k][r]
  BY <1>1 DEF SameLinks
<1>8. SameLinks(t, u)
  BY <1>1, <1>4, <1>5, <1>7 DEF SameLinks
<1> QED BY <1>1, <1>4, <1>6, <1>8 DEF Painted

LEMMA SameItself ==
  ASSUME NEW t, NEW T, Linked(t, T)
  PROVE  SameLinks(t, t)
  BY DEF SameLinks, Linked

(* Where rbtree_repair() is: at the top x of a subtree that is short, which *)
(* nil knows its place of, too.                                             *)
Held(t, T, x) ==
  /\ x \in T \cup {NIL}
  /\ t[x].parent \in T \cup {ROOT} /\ t[t[x].parent][SideOf(t, x)] = x
  /\ t[x].parent = ROOT => t[ROOT].left = x

Repairing(t, T, below, f, h, x) ==
  /\ Linked(t, T) /\ Nested(t, T, below) /\ Ordered(t, T, below, f)
  /\ Held(t, T, x)
  /\ Balanced(t, T, h, t[x].parent, SideOf(t, x))
  /\ Colored(t, T, x, x)

(* A short subtree that is not all of the tree has a sibling.               *)
LEMMA SiblingThere ==
  ASSUME NEW t, NEW T, NEW below, NEW f, NEW h, NEW x, Repairing(t, T, below, f, h, x),
         t[ROOT].left # x, NEW p, p = t[x].parent, NEW s, s = SideOf(t, x),
         NEW c, c = t[p][Other(s)]
  PROVE  /\ p \in T /\ s \in Side /\ Other(s) \in Side /\ s # Other(s)
         /\ t[p][s] = x /\ c \in T /\ c # x /\ c # p /\ x # p /\ t[c].parent = p
         /\ h[p] = h[x] + 1 + Black(t, p) /\ h[p] = h[c] + Black(t, p)
         /\ h[c] = h[x] + 1 /\ h[x] \in Nat
<1>1. /\ Linked(t, T) /\ Nested(t, T, below) /\ Balanced(t, T, h, p, s)
      /\ p \in T /\ s \in Side /\ Other(s) \in Side /\ s # Other(s)
      /\ t[p][s] = x /\ x \in T \cup {NIL}
  BY DEF Repairing, Held, SideOf, Side, Other
<1>2. h \in [T \cup {NIL} -> Nat] /\ h[NIL] = 0
  BY <1>1 DEF Balanced
<1>3. c \in T \cup {NIL}
  BY <1>1, Kids
<1>4. h[p] = h[x] + 1 + Black(t, p)
  <2>1. h[p] = h[x] + Lack(p, s, p, s) + Black(t, p)
    BY <1>1 DEF Balanced
  <2> QED BY <2>1 DEF Lack
<1>5. h[p] = h[c] + Black(t, p)
  <2>1. h[p] = h[c] + Lack(p, Other(s), p, s) + Black(t, p)
    BY <1>1 DEF Balanced
  <2>2. Lack(p, Other(s), p, s) = 0
    BY <1>1 DEF Lack
  <2> QED BY <1>2, <1>3, <2>1, <2>2
<1>6. Black(t, p) \in {0, 1}
  BY DEF Black
<1>7. h[c] = h[x] + 1
  BY <1>1, <1>2, <1>3, <1>4, <1>5, <1>6
<1>8. c \in T /\ c # x
  BY <1>1, <1>2, <1>3, <1>7
<1>9. c # p /\ x # p
  BY <1>1, <1>8, KidsBelow
<1>10. t[c].parent = p
  BY <1>1, <1>8, TreeAssumption DEF Linked
<1> QED BY <1>1, <1>2, <1>4, <1>5, <1>7, <1>8, <1>9, <1>10

(* A rotation in which a black node n and its red child c swap colours, as  *)
(* the code does three times.                                               *)
SwapTurned(t, T, below, u, n, s, c, m, q, d, b) ==
  /\ Turned(t, u, n, s, c, m, q, d)
  /\ Rearranged(t, u, T, below, b)
  /\ u[n].color = "red" /\ u[c].color = "black"
  /\ \A k \in DOMAIN t : k \notin {n, c} => u[k].color = t[k].color

LEMMA SwapTurn ==
  ASSUME NEW t, NEW T, NEW below, Linked(t, T), Nested(t, T, below),
         NEW n \in T, NEW s \in Side, NEW c \in T, c = t[n][Other(s)]
  PROVE  \E m, q, d, b : SwapTurned(t, T, below, SwapRotate(t, n, s, c), n, s, c, m, q, d, b)
<1>1. PICK w : w = [t EXCEPT ![c].color = "black"]
  OBVIOUS
<1>2. PICK v : v = [w EXCEPT ![n].color = "red"]
  OBVIOUS
<1>3. PICK u : u = Rotate(v, n, s)
  OBVIOUS
<1>4. u = SwapRotate(t, n, s, c)
  <2>1. v = [t EXCEPT ![c].color = "black", ![n].color = "red"]
    BY <1>1, <1>2
  <2> QED BY <1>3, <2>1 DEF SwapRotate
<1>5. c # NIL /\ c # n /\ {n, c} \subseteq DOMAIN t
  BY TreeAssumption, KidsBelow DEF Linked, Side, Other
<1>6. SameLinks(t, t)
  BY SameItself
<1>7. Painted(t, t, w, c, "black")
  BY <1>1, <1>6, Paint
<1>71. SameLinks(t, w) /\ SameLinks(t, v) /\ Painted(t, w, v, n, "red")
  <2>1. SameLinks(t, w)
    BY <1>7 DEF Painted
  <2>2. Painted(t, w, v, n, "red")
    BY <1>2, <2>1, Paint
  <2> QED BY <2>1, <2>2 DEF Painted
<1>8. PICK c2, m, q, d :
        /\ Turned(t, u, n, s, c2, m, q, d)
        /\ \A k \in DOMAIN t : u[k].color = v[k].color
        /\ Rearranged(t, u, T, below, TurnBelow(t, below, n, s, c2, m))
  BY <1>3, <1>5, <1>71, RotateKeeps
<1>9. c2 = c
  BY <1>8 DEF Turned
<1>10. /\ u[n].color = "red" /\ u[c].color = "black"
       /\ \A k \in DOMAIN t : k \notin {n, c} => u[k].color = t[k].color
  BY <1>5, <1>7, <1>71, <1>8 DEF Painted
<1>11. SwapTurned(t, T, below, u, n, s, c, m, q, d, TurnBelow(t, below, n, s, c2, m))
  BY <1>8, <1>9, <1>10 DEF SwapTurned
<1> QED BY <1>4, <1>11

(* BlackSibling leaves a short subtree with a black sibling.                *)
SiblingBlack(t, T, x, p, s) ==
  /\ t[x].parent = p /\ SideOf(t, x) = s
  /\ t[x].color = "black" /\ t[ROOT].left # x
  /\ t[t[p][Other(s)]].color = "black"

LEMMA BlackSiblingKeeps ==
  ASSUME NEW t, NEW T, NEW below, NEW f \in [Node -> Nat], NEW h, NEW x,
         Repairing(t, T, below, f, h, x),
         t[ROOT].left # x, t[x].color = "black",
         NEW p, p = t[x].parent, NEW s, s = SideOf(t, x), NEW c, c = t[p][Other(s)]
  PROVE  \E u, b, g :
           /\ u = IF t[c].color = "red" THEN SwapRotate(t, p, s, c) ELSE t
           /\ DOMAIN u = DOMAIN t
           /\ SiblingBlack(u, T, x, p, s)
           /\ Repairing(u, T, b, f, g, x)
<1>1. /\ p \in T /\ s \in Side /\ Other(s) \in Side /\ s # Other(s)
      /\ t[p][s] = x /\ c \in T /\ c # x /\ c # p /\ x # p /\ t[c].parent = p
      /\ h[c] = h[x] + 1 /\ h[x] \in Nat
  BY SiblingThere
<1>2. /\ Linked(t, T) /\ Nested(t, T, below) /\ Ordered(t, T, below, f)
      /\ Balanced(t, T, h, p, s) /\ Colored(t, T, x, x) /\ x \in T \cup {NIL}
  BY DEF Repairing, Held
<1>3. /\ T \cup {ROOT, NIL} \subseteq DOMAIN t /\ NIL \notin T /\ ROOT \notin T /\ ROOT # NIL
      /\ T \subseteq Node
  BY <1>2, TreeAssumption DEF Linked
<1>4. CASE t[c].color # "red"
  <2>1. t[c].color = "black"
    BY <1>1, <1>2, <1>4, BlackOrRed
  <2>2. SiblingBlack(t, T, x, p, s)
    BY <2>1 DEF SiblingBlack
  <2> QED BY <1>4, <2>2
<1>5. CASE t[c].color = "red"
  <2>1. t[p].color = "black"
    BY <1>1, <1>2, <1>5 DEF Colored
  <2>2. PICK u : u = SwapRotate(t, p, s, c)
    OBVIOUS
  <2>3. PICK m, q, d, b : SwapTurned(t, T, below, u, p, s, c, m, q, d, b)
    BY <1>1, <1>2, <2>2, SwapTurn
  <2>6. t[p][Other(s)] # NIL
    BY <1>1, <1>3
  <2>10. /\ Turned(t, u, p, s, c, m, q, d) /\ DOMAIN u = DOMAIN t
         /\ Linked(u, T) /\ Nested(u, T, b) /\ Ordered(u, T, b, f)
    BY <1>2, <2>3 DEF Rearranged, SwapTurned
  <2>11. /\ u[p].color = "red" /\ u[c].color = "black"
         /\ \A k \in DOMAIN t : k \notin {p, c} => u[k].color = t[k].color
    BY <2>3 DEF SwapTurned
  <2>12. \A k \in T \ {p, c} : u[k].color = t[k].color
    BY <1>3, <2>11
  <2>14. u[c].color = t[p].color
    BY <2>1, <2>11
  <2>15. PICK g : h[m] = h[c] /\ Balanced(u, T, g, p, s)
    BY <1>1, <1>2, <1>5, <2>6, <2>10, <2>11, <2>12, <2>14, SwapBalanced
  <2>16. m \in T \cup {NIL} /\ m # p /\ m # c /\ m = t[c][s]
    <3>1. m \in T \cup {NIL} /\ m # p /\ m # c
      BY <1>1, <1>2, <2>6, <2>10, TurnedApart
    <3>2. m = t[c][s]
      BY <2>10 DEF Turned
    <3> QED BY <3>1, <3>2
  <2>17. h[NIL] = 0
    BY <1>2 DEF Balanced
  <2>18. m \in T
    BY <1>1, <2>15, <2>16, <2>17
  <2>19. t[m].parent = c
    BY <1>1, <1>2, <2>16, <2>18, <1>3 DEF Linked
  <2>20. m # x
    BY <1>1, <1>3, <2>18, <2>19
  <2>21. u[x].parent = p
    BY <1>1, <1>2, <1>3, <2>10, <2>20 DEF Turned
  <2>22. u[p][s] = x /\ u[p][Other(s)] = m
    BY <1>1, <2>10 DEF Turned
  <2>23. SideOf(u, x) = s
    BY <1>1, <2>20, <2>21, <2>22 DEF SideOf, Side, Other
  <2>24. u[x].color = "black"
    BY <1>1, <1>2, <1>3, <2>11
  <2>25. t[m].color = "black"
    <3>1. t[m].color # "red"
      BY <1>1, <1>2, <1>5, <2>18, <2>19, <2>20 DEF Colored
    <3> QED BY <1>2, <2>18, <3>1, BlackOrRed
  <2>26. u[m].color = "black"
    BY <2>12, <2>16, <2>18, <2>25
  <2>27. u[ROOT].left # x
    <3>1. ASSUME u[ROOT].left = x PROVE FALSE
      <4>1. x # NIL
        BY <1>1, <2>10, <3>1 DEF Nested
      <4>2. u[x].parent = ROOT
        BY <2>10, <3>1, <4>1 DEF Linked, Side
      <4> QED BY <1>1, <1>3, <2>21, <4>2
    <3> QED BY <3>1
  <2>28. SiblingBlack(u, T, x, p, s)
    BY <2>21, <2>22, <2>23, <2>24, <2>26, <2>27 DEF SiblingBlack
  <2>29. Held(u, T, x)
    BY <1>1, <1>2, <1>3, <2>21, <2>22, <2>23 DEF Held
  <2>30. Colored(u, T, x, x)
    <3>1. u[ROOT].color = "black" /\ u[NIL].color = "black"
      BY <1>1, <1>2, <1>3, <2>11 DEF Colored
    <3>2. ASSUME NEW k \in T, u[k].color = "red", k # x, u[k].parent # x
          PROVE  u[k].parent # ROOT /\ u[u[k].parent].color = "black"
      <4>1. CASE k = p
        BY <1>1, <1>3, <2>10, <2>11, <4>1 DEF Turned
      <4>2. CASE k = c
        BY <2>11, <3>2, <4>2
      <4>3. CASE k = m
        BY <2>26, <3>2, <4>3
      <4>4. CASE k \notin {p, c, m}
        <5>1. u[k].parent = t[k].parent /\ t[k].color = "red"
          BY <1>3, <2>10, <2>12, <3>2, <4>4 DEF Turned
        <5>2. t[k].parent # ROOT /\ t[t[k].parent].color = "black"
          BY <1>2, <3>2, <5>1 DEF Colored
        <5>3. t[k].parent \in T
          BY <1>2, <5>2 DEF Linked
        <5>4. t[k].parent # p
          <6>1. PICK r \in Side : t[t[k].parent][r] = k
            BY <1>2 DEF Linked, SideOf, Side
          <6>2. r = s \/ r = Other(s)
            BY <1>1 DEF Side, Other
          <6> QED BY <1>1, <3>2, <4>4, <6>1, <6>2
        <5> QED BY <2>11, <2>12, <5>1, <5>2, <5>3, <5>4
      <4> QED BY <4>1, <4>2, <4>3, <4>4
    <3> QED BY <3>1, <3>2 DEF Colored
  <2>31. Repairing(u, T, b, f, g, x)
    BY <2>10, <2>15, <2>21, <2>23, <2>29, <2>30 DEF Repairing
  <2> QED BY <1>5, <2>2, <2>10, <2>28, <2>31
<1> QED BY <1>4, <1>5

LEMMA HeldNode ==
  ASSUME NEW t, NEW T, Linked(t, T), NEW x \in T
  PROVE  Held(t, T, x)
<1>1. t[x].parent \in T \cup {ROOT} /\ t[t[x].parent][SideOf(t, x)] = x
  BY DEF Linked
<1>2. t[x].parent = ROOT => t[ROOT].left = x
  <2>1. x # NIL /\ t[ROOT].right = NIL
    BY TreeAssumption DEF Linked
  <2> QED BY <1>1, <2>1 DEF SideOf
<1> QED BY <1>1, <1>2 DEF Held

(* RepairAbove: the sibling turns red.                                      *)
Reddened(t, c) == [t EXCEPT ![c].color = "red"]
BlackKids(t, c) == \A r \in Side : t[t[c][r]].color = "black"

LEMMA AboveKeeps ==
  ASSUME NEW t, NEW T, NEW below, NEW f, NEW h, NEW x, Repairing(t, T, below, f, h, x),
         NEW p, NEW s, SiblingBlack(t, T, x, p, s), f \in [Node -> Nat],
         NEW c, c = t[p][Other(s)], BlackKids(t, c)
  PROVE  /\ p \in T
         /\ \E u, j : /\ u = Reddened(t, c)
                      /\ DOMAIN u = DOMAIN t
                      /\ Repairing(u, T, below, f, j, p)
<1> USE DEF BlackKids, Reddened
<1>1. /\ p \in T /\ s \in Side /\ Other(s) \in Side /\ s # Other(s)
      /\ t[p][s] = x /\ c \in T /\ c # x /\ c # p /\ x # p /\ t[c].parent = p
  BY SiblingThere DEF SiblingBlack
<1>2. /\ Linked(t, T) /\ Nested(t, T, below) /\ Ordered(t, T, below, f)
      /\ Balanced(t, T, h, p, s) /\ Colored(t, T, x, x) /\ x \in T \cup {NIL}
  BY DEF Repairing, Held, SiblingBlack
<1>3. /\ T \cup {ROOT, NIL} \subseteq DOMAIN t /\ NIL \notin T /\ ROOT \notin T /\ ROOT # NIL
      /\ T \subseteq Node
  BY <1>2, TreeAssumption DEF Linked
<1>4. PICK u : u = [t EXCEPT ![c].color = "red"]
  OBVIOUS
<1>5. Painted(t, t, u, c, "red")
  <2>1. SameLinks(t, t)
    BY <1>2, SameItself
  <2> QED BY <1>1, <1>2, <1>4, <2>1, Paint
<1>6. SameLinks(t, u) /\ u[c].color = "red" /\ \A k \in DOMAIN t : k # c => u[k].color = t[k].color
  BY <1>5 DEF Painted
<1>7. /\ Linked(u, T) /\ Nested(u, T, below) /\ Ordered(u, T, below, f)
      /\ DOMAIN u = DOMAIN t
  <2>1. Rearranged(t, u, T, below, below)
    BY <1>2, <1>6, RepaintKeeps
  <2> QED BY <1>2, <2>1 DEF Rearranged
<1>8. PICK j : Balanced(u, T, j, t[p].parent, SideOf(t, p))
  <2>1. t[c].color = "black"
    BY DEF SiblingBlack
  <2>2. \A k \in T : k # c => u[k].color = t[k].color
    BY <1>3, <1>6
  <2> QED BY <1>1, <1>2, <1>6, <2>1, <2>2, AboveBalanced
<1>9. u[p].parent = t[p].parent /\ SideOf(u, p) = SideOf(t, p)
  <2>1. t[p].parent \in DOMAIN t /\ p \in DOMAIN t
    BY <1>1, <1>2, <1>3 DEF Linked
  <2>2. SideOf(u, p) = SideOf(t, p)
    BY <1>1, <1>2, <1>6, <2>1, SameSide
  <2>3. u[p].parent = t[p].parent
    BY <1>6, <2>1 DEF SameLinks
  <2> QED BY <2>2, <2>3
<1>10. Held(u, T, p)
  BY <1>1, <1>7, HeldNode
<1>11. Colored(u, T, p, p)
  <2>1. u[ROOT].color = "black" /\ u[NIL].color = "black"
    BY <1>1, <1>2, <1>3, <1>6 DEF Colored
  <2>2. ASSUME NEW k \in T, u[k].color = "red", k # p, u[k].parent # p
        PROVE  u[k].parent # ROOT /\ u[u[k].parent].color = "black"
    <3>1. u[k].parent = t[k].parent
      BY <1>3, <1>6 DEF SameLinks
    <3>2. k # c
      BY <1>1, <2>2, <3>1
    <3>3. t[k].color = "red"
      BY <1>3, <1>6, <2>2, <3>2
    <3>4. k # x
      BY <3>3 DEF SiblingBlack
    <3>5. t[k].parent # c
      <4>1. ASSUME t[k].parent = c PROVE FALSE
        <5>1. PICK r \in Side : t[c][r] = k
          BY <1>2, <4>1 DEF Linked, SideOf, Side
        <5> QED BY <3>3, <5>1
      <4> QED BY <4>1
    <3>6. CASE t[k].parent = x
      <4>1. x \in T
        BY <1>2, <1>3, <3>6 DEF Linked
      <4>2. t[x].color = "black"
        BY DEF SiblingBlack
      <4> QED BY <1>1, <1>3, <1>6, <3>1, <3>6, <4>1, <4>2
    <3>7. CASE t[k].parent # x
      <4>1. t[k].parent # ROOT /\ t[t[k].parent].color = "black"
        BY <1>2, <3>3, <3>4, <3>7 DEF Colored
      <4>2. t[k].parent \in DOMAIN t
        BY <1>2, <1>3 DEF Linked
      <4> QED BY <1>6, <3>1, <3>5, <4>1, <4>2
    <3> QED BY <3>6, <3>7
  <2> QED BY <2>1, <2>2 DEF Colored
<1>12. Repairing(u, T, below, f, j, p)
  BY <1>7, <1>8, <1>9, <1>10, <1>11 DEF Repairing
<1> QED BY <1>1, <1>4, <1>7, <1>12

(* RepairRotate, first: the far child of the sibling becomes the red one.   *)
LEMMA FarKeeps ==
  ASSUME NEW t, NEW T, NEW below, NEW f, NEW h, NEW x, Repairing(t, T, below, f, h, x),
         NEW p, NEW s, SiblingBlack(t, T, x, p, s), f \in [Node -> Nat],
         NEW c, c = t[p][Other(s)], NEW a, a = t[c][s],
         \E r \in Side : t[t[c][r]].color = "red"
  PROVE  \E u, b, g :
           /\ u = IF t[t[c][Other(s)]].color = "black" THEN SwapRotate(t, c, Other(s), a) ELSE t
           /\ DOMAIN u = DOMAIN t
           /\ Repairing(u, T, b, f, g, x)
           /\ SiblingBlack(u, T, x, p, s)
           /\ u[u[u[p][Other(s)]][Other(s)]].color = "red"
<1>1. /\ p \in T /\ s \in Side /\ Other(s) \in Side /\ s # Other(s)
      /\ t[p][s] = x /\ c \in T /\ c # x /\ c # p /\ x # p /\ t[c].parent = p
  BY SiblingThere DEF SiblingBlack
<1>2. /\ Linked(t, T) /\ Nested(t, T, below) /\ Ordered(t, T, below, f)
      /\ Balanced(t, T, h, p, s) /\ Colored(t, T, x, x) /\ x \in T \cup {NIL}
      /\ t[c].color = "black" /\ t[x].color = "black" /\ t[x].parent = p
      /\ t[ROOT].left # x /\ t[NIL].color = "black"
  BY DEF Repairing, Held, SiblingBlack, Colored
<1>3. /\ T \cup {ROOT, NIL} \subseteq DOMAIN t /\ NIL \notin T /\ ROOT \notin T /\ ROOT # NIL
      /\ T \subseteq Node
  BY <1>2, TreeAssumption DEF Linked
<1>4. Other(Other(s)) = s /\ \A r \in Side : r = s \/ r = Other(s)
  BY <1>1 DEF Side, Other
<1>5. t[c][Other(s)] \in T \cup {NIL} /\ a \in T \cup {NIL}
  BY <1>1, <1>2, Kids
<1>6. CASE t[t[c][Other(s)]].color # "black"
  <2>1. t[t[c][Other(s)]].color = "red"
    BY <1>2, <1>5, <1>6, BlackOrRed
  <2> QED BY <1>6, <2>1
<1>7. CASE t[t[c][Other(s)]].color = "black"
  <2>1. t[a].color = "red"
    <3>1. PICK r \in Side : t[t[c][r]].color = "red"
      OBVIOUS
    <3> QED BY <1>4, <1>7, <3>1
  <2>2. a \in T
    BY <1>2, <1>5, <2>1
  <2>3. a = t[c][Other(Other(s))]
    BY <1>4
  <2>4. PICK u : u = SwapRotate(t, c, Other(s), a)
    OBVIOUS
  <2>5. PICK m, q, d, b : SwapTurned(t, T, below, u, c, Other(s), a, m, q, d, b)
    BY <1>1, <1>2, <2>2, <2>3, <2>4, SwapTurn
  <2>6. t[c][Other(Other(s))] # NIL
    BY <1>3, <2>2, <2>3
  <2>7. /\ Turned(t, u, c, Other(s), a, m, q, d) /\ DOMAIN u = DOMAIN t
        /\ Linked(u, T) /\ Nested(u, T, b) /\ Ordered(u, T, b, f)
    BY <1>2, <2>5 DEF Rearranged, SwapTurned
  <2>8. /\ u[c].color = "red" /\ u[a].color = "black"
        /\ \A k \in DOMAIN t : k \notin {c, a} => u[k].color = t[k].color
    BY <2>5 DEF SwapTurned
  <2>9. \A k \in T \ {c, a} : u[k].color = t[k].color
    BY <1>3, <2>8
  <2>10. q = p /\ d = Other(s)
    <3>1. q = p /\ d = SideOf(t, c)
      BY <1>1, <2>7 DEF Turned
    <3>2. Other(s) = SideOf(t, c)
      BY <1>1, <1>2, OnePlace
    <3> QED BY <3>1, <3>2
  <2>11. /\ m \in T \cup {NIL} /\ m # c /\ m # a /\ m # p /\ a # p /\ a # c
         /\ t[a].parent = c
    BY <1>1, <1>2, <2>6, <2>7, <2>10, TurnedApart
  <2>12. u[a].color = t[c].color
    BY <1>2, <2>8
  <2>13. PICK g : Balanced(u, T, g, p, s)
    BY <1>1, <1>2, <2>1, <2>6, <2>7, <2>8, <2>9, <2>11, <2>12, SwapBalanced
  <2>14. u[p][Other(s)] = a /\ u[p][s] = x /\ u[a][Other(s)] = c
    BY <1>1, <1>4, <2>7, <2>10 DEF Turned
  <2>15. a # x /\ m \in T => m # x
    <3>1. a # x
      BY <1>1, <1>2, <2>11
    <3>2. m = t[a][Other(s)]
      BY <2>7 DEF Turned
    <3>3. m \in T => t[m].parent = a
      BY <1>1, <1>2, <1>3, <2>2, <3>2 DEF Linked
    <3> QED BY <1>2, <2>11, <3>1, <3>3
  <2>16. u[x].parent = p
    <3>1. x \in DOMAIN t \ {c, a} /\ ~(x = m /\ m # NIL)
      BY <1>1, <1>2, <1>3, <2>11, <2>15
    <3> QED BY <1>2, <2>7, <3>1 DEF Turned
  <2>17. SideOf(u, x) = s
    BY <1>1, <1>2, <2>11, <2>14, <2>16 DEF SideOf, Side, Other
  <2>18. u[x].color = "black"
    BY <1>1, <1>2, <1>3, <2>8, <2>11
  <2>19. u[ROOT].left # x
    <3>1. ROOT \in DOMAIN t \ {c, a, p}
      BY <1>1, <1>3, <2>2
    <3> QED BY <1>2, <2>7, <2>10, <3>1 DEF Turned, Side
  <2>20. SiblingBlack(u, T, x, p, s)
    BY <2>8, <2>14, <2>16, <2>17, <2>18, <2>19 DEF SiblingBlack
  <2>21. Held(u, T, x)
    BY <1>1, <1>2, <1>3, <2>14, <2>16, <2>17 DEF Held
  <2>22. Colored(u, T, x, x)
    <3>1. u[ROOT].color = "black" /\ u[NIL].color = "black"
      BY <1>1, <1>2, <1>3, <2>2, <2>8 DEF Colored
    <3>2. ASSUME NEW k \in T, u[k].color = "red", k # x, u[k].parent # x
          PROVE  u[k].parent # ROOT /\ u[u[k].parent].color = "black"
      <4>1. CASE k = c
        <5>1. u[k].parent = a
          BY <2>7, <4>1 DEF Turned
        <5> QED BY <1>3, <2>2, <2>8, <5>1
      <4>2. CASE k = a
        BY <2>8, <3>2, <4>2
      <4>3. CASE k \notin {c, a}
        <5>1. t[k].color = "red"
          BY <2>9, <3>2, <4>3
        <5>2. k # m
          <6>1. ASSUME k = m PROVE FALSE
            <7>1. t[k].parent = a
              <8>1. m = t[a][Other(s)]
                BY <2>7 DEF Turned
              <8> QED BY <1>1, <1>2, <1>3, <2>2, <6>1, <8>1 DEF Linked
            <7>2. t[a].color = "black"
              BY <1>2, <2>15, <3>2, <5>1, <7>1 DEF Colored
            <7> QED BY <2>1, <7>2
          <6> QED BY <6>1
        <5>3. u[k].parent = t[k].parent
          BY <1>3, <2>7, <4>3, <5>2 DEF Turned
        <5>4. t[k].parent # ROOT /\ t[t[k].parent].color = "black"
          BY <1>2, <3>2, <5>1, <5>3 DEF Colored
        <5>5. t[k].parent \in T
          BY <1>2, <5>4 DEF Linked
        <5>6. t[k].parent # c
          <6>1. ASSUME t[k].parent = c PROVE FALSE
            <7>1. PICK r \in Side : t[c][r] = k
              BY <1>2, <6>1 DEF Linked, SideOf, Side
            <7>2. r = Other(s)
              BY <1>4, <4>3, <7>1
            <7> QED BY <1>7, <5>1, <7>1, <7>2
          <6> QED BY <6>1
        <5> QED BY <1>3, <2>8, <2>9, <5>3, <5>4, <5>5, <5>6
      <4> QED BY <4>1, <4>2, <4>3
    <3> QED BY <3>1, <3>2 DEF Colored
  <2>23. Repairing(u, T, b, f, g, x)
    BY <2>7, <2>13, <2>16, <2>17, <2>21, <2>22 DEF Repairing
  <2>24. u[u[u[p][Other(s)]][Other(s)]].color = "red"
    BY <2>8, <2>14
  <2> QED BY <1>7, <2>4, <2>7, <2>20, <2>23, <2>24
<1> QED BY <1>6, <1>7

(* RepairRotate, last: the sibling is lifted, which ends the repair.        *)
LEMMA LiftKeeps ==
  ASSUME NEW t, NEW T, NEW below, NEW f, NEW h, NEW x, Repairing(t, T, below, f, h, x),
         NEW p, NEW s, SiblingBlack(t, T, x, p, s), f \in [Node -> Nat],
         NEW c, c = t[p][Other(s)], NEW a, a = t[c][Other(s)], t[a].color = "red"
  PROVE  \E u, b, g :
           /\ u = LiftRotate(t, p, s, c)
           /\ DOMAIN u = DOMAIN t
           /\ Repairing(u, T, b, f, g, u[ROOT].left)
<1>1. /\ p \in T /\ s \in Side /\ Other(s) \in Side /\ s # Other(s)
      /\ t[p][s] = x /\ c \in T /\ c # x /\ c # p /\ x # p /\ t[c].parent = p
  BY SiblingThere DEF SiblingBlack
<1>2. /\ Linked(t, T) /\ Nested(t, T, below) /\ Ordered(t, T, below, f)
      /\ Balanced(t, T, h, p, s) /\ Colored(t, T, x, x) /\ x \in T \cup {NIL}
      /\ t[c].color = "black" /\ t[x].color = "black" /\ t[x].parent = p
      /\ t[ROOT].left # x /\ t[NIL].color = "black" /\ t[ROOT].color = "black"
  BY DEF Repairing, Held, SiblingBlack, Colored
<1>3. /\ T \cup {ROOT, NIL} \subseteq DOMAIN t /\ NIL \notin T /\ ROOT \notin T /\ ROOT # NIL
      /\ T \subseteq Node
  BY <1>2, TreeAssumption DEF Linked
<1>4. \A r \in Side : r = s \/ r = Other(s)
  BY <1>1 DEF Side, Other
<1>5. a \in T
  <2>1. a \in T \cup {NIL}
    BY <1>1, <1>2, Kids
  <2> QED BY <1>2, <2>1
<1>6. t[p][Other(s)] # NIL
  BY <1>1, <1>3
<1>7. a # c /\ a # p /\ a # x
  BY <1>1, <1>2, <1>6, Apart
<1>8. t[p].color \in {"red", "black"}
  BY <1>1, <1>2, BlackOrRed
<1>9. PICK v1 : v1 = [t EXCEPT ![c].color = t[p].color]
  OBVIOUS
<1>10. PICK v2 : v2 = [v1 EXCEPT ![p].color = "black"]
  OBVIOUS
<1>11. PICK v : v = [v2 EXCEPT ![a].color = "black"]
  OBVIOUS
<1>12. SameLinks(t, t)
  BY <1>2, SameItself
<1>13. Painted(t, t, v1, c, t[p].color)
  BY <1>1, <1>2, <1>8, <1>9, <1>12, Paint
<1>14. SameLinks(t, v1)
  BY <1>13 DEF Painted
<1>15. Painted(t, v1, v2, p, "black")
  BY <1>1, <1>2, <1>10, <1>14, Paint
<1>16. SameLinks(t, v2)
  BY <1>15 DEF Painted
<1>17. Painted(t, v2, v, a, "black")
  BY <1>2, <1>5, <1>11, <1>16, Paint
<1>18. /\ SameLinks(t, v) /\ v[c].color = t[p].color /\ v[p].color = "black"
       /\ v[a].color = "black"
       /\ \A k \in DOMAIN t : k \notin {c, p, a} => v[k].color = t[k].color
  BY <1>1, <1>3, <1>5, <1>7, <1>13, <1>15, <1>17 DEF Painted
<1>19. PICK u : u = Rotate(v, p, s)
  OBVIOUS
<1>20. u = LiftRotate(t, p, s, c)
  <2>1. v = [t EXCEPT ![c].color = t[p].color, ![p].color = "black", ![a].color = "black"]
    BY <1>9, <1>10, <1>11
  <2>2. LiftRotate(t, p, s, c) = Rotate(v, p, s)
    BY <2>1 DEF LiftRotate
  <2> QED BY <1>19, <2>2
<1>21. PICK z, m, q, d : /\ Turned(t, u, p, s, z, m, q, d)
                         /\ \A k \in DOMAIN t : u[k].color = v[k].color
                         /\ Rearranged(t, u, T, below, TurnBelow(t, below, p, s, z, m))
  BY <1>1, <1>2, <1>6, <1>18, <1>19, RotateKeeps
<1>22. z = c
  BY <1>21 DEF Turned
<1>23. Turned(t, u, p, s, c, m, q, d)
  BY <1>21, <1>22
<1>24. PICK b : b = TurnBelow(t, below, p, s, z, m)
  OBVIOUS
<1>25. DOMAIN u = DOMAIN t /\ Linked(u, T) /\ Nested(u, T, b) /\ Ordered(u, T, b, f)
  BY <1>2, <1>21, <1>24 DEF Rearranged
<1>26. /\ u[c].color = t[p].color /\ u[p].color = "black" /\ u[a].color = "black"
       /\ \A k \in DOMAIN t : k \notin {c, p, a} => u[k].color = t[k].color
  BY <1>1, <1>3, <1>5, <1>18, <1>21
<1>27. /\ m \in T \cup {NIL} /\ q \in T \cup {ROOT}
       /\ m # p /\ m # c /\ m # q /\ q # p /\ q # c
  BY <1>1, <1>2, <1>6, <1>23, TurnedApart
<1>28. m = t[c][s] /\ q = t[p].parent
  BY <1>23 DEF Turned
<1>29. PICK y : y = u[ROOT].left
  OBVIOUS
<1>30. y \in T
  <2>1. y # NIL
    BY <1>1, <1>25, <1>29 DEF Nested
  <2> QED BY <1>25, <1>29, <2>1 DEF Linked, Side
<1>31. u[y].parent = ROOT
  BY <1>3, <1>25, <1>29, <1>30 DEF Linked, Side
<1>32. PICK g : Balanced(u, T, g, u[y].parent, SideOf(u, y))
  <2>1. \A k \in T \ {p, c, a} : u[k].color = t[k].color
    BY <1>3, <1>26
  <2>2. u[y].parent \notin T
    BY <1>3, <1>31
  <2>3. PICK q0, e0 : q0 = u[y].parent /\ e0 = SideOf(u, y)
    OBVIOUS
  <2>4. /\ u[p].color = "black" /\ u[a].color = "black" /\ u[c].color = t[p].color
        /\ Linked(u, T) /\ t[c].color = "black" /\ Balanced(t, T, h, p, s)
    BY <1>2, <1>25, <1>26
  <2>5. Linked(t, T) /\ Nested(t, T, below)
    BY <1>2
  <2>6. q0 \notin T
    BY <2>2, <2>3
  <2>7. \E g : Balanced(u, T, g, q0, e0)
    BY <1>1, <1>5, <1>6, <1>23, <2>1, <2>4, <2>5, <2>6, LiftBalanced
  <2> QED BY <2>3, <2>7
<1>33. Colored(u, T, y, y)
  <2>1. u[ROOT].color = "black" /\ u[NIL].color = "black"
    BY <1>1, <1>2, <1>3, <1>5, <1>26
  <2>2. ASSUME NEW k \in T, u[k].color = "red"
        PROVE  u[k].parent # ROOT /\ u[u[k].parent].color = "black"
    <3>1. CASE k \in {p, a}
      BY <1>26, <2>2, <3>1
    <3>2. CASE k = c
      <4>1. t[p].color = "red"
        BY <1>26, <2>2, <3>2
      <4>2. q # x
        <5>1. CASE x = NIL
          BY <1>3, <1>27, <5>1
        <5>2. CASE x # NIL
          BY <1>1, <1>2, <1>28, <5>2, Apart
        <5> QED BY <5>1, <5>2
      <4>3. q # ROOT /\ t[q].color = "black"
        BY <1>1, <1>2, <1>28, <4>1, <4>2 DEF Colored
      <4>4. u[c].parent = q
        BY <1>23 DEF Turned
      <4>5. q \in DOMAIN t /\ q \notin {c, p, a}
        BY <1>3, <1>27, <4>3
      <4> QED BY <1>26, <3>2, <4>3, <4>4, <4>5
    <3>3. CASE k \notin {p, a, c}
      <4>1. t[k].color = "red" /\ k # x
        BY <1>2, <1>3, <1>26, <2>2, <3>3
      <4>2. CASE k = m
        <5>1. u[k].parent = p
          BY <1>3, <1>23, <3>3, <4>2 DEF Turned
        <5> QED BY <1>1, <1>3, <1>26, <5>1
      <4>3. CASE k # m
        <5>1. u[k].parent = t[k].parent
          BY <1>3, <1>23, <3>3, <4>3 DEF Turned
        <5>2. PICK r \in Side : t[t[k].parent][r] = k
          BY <1>2 DEF Linked, SideOf, Side
        <5>3. t[k].parent # c /\ t[k].parent # p
          BY <1>1, <1>4, <1>28, <3>3, <4>1, <4>3, <5>2
        <5>4. t[k].parent \in T \cup {ROOT}
          BY <1>2 DEF Linked
        <5>5. t[k].parent # ROOT /\ t[t[k].parent].color = "black"
          <6>1. CASE t[k].parent = x
            BY <1>2, <1>3, <5>4, <6>1
          <6>2. CASE t[k].parent # x
            BY <1>2, <4>1, <6>2 DEF Colored
          <6> QED BY <6>1, <6>2
        <5>6. t[k].parent \in DOMAIN t /\ t[k].parent # a
          BY <1>3, <5>4, <5>5
        <5> QED BY <1>26, <5>1, <5>3, <5>5, <5>6
      <4> QED BY <4>2, <4>3
    <3> QED BY <3>1, <3>2, <3>3
  <2> QED BY <2>1, <2>2 DEF Colored
<1>34. Held(u, T, y)
  BY <1>25, <1>30, HeldNode
<1>35. Repairing(u, T, b, f, g, y)
  BY <1>25, <1>32, <1>33, <1>34 DEF Repairing
<1> QED BY <1>20, <1>25, <1>29, <1>35

-----------------------------------------------------------------------------
(* A tree between two calls.                                                *)
Settled(t, T, below, f, h) ==
  /\ Linked(t, T) /\ Nested(t, T, below) /\ Ordered(t, T, below, f)
  /\ Balanced(t, T, h, NIL, "left")
  /\ Colored(t, T, NIL, NIL)

(* RepairDone and InsertDone: the top of a short subtree, or the first node *)
(* of the tree, is black afterwards.                                        *)
LEMMA BlackenKeeps ==
  ASSUME NEW t, NEW T, NEW below, NEW f, NEW h, NEW y, Repairing(t, T, below, f, h, y),
         f \in [Node -> Nat], t[y].color = "black" => t[ROOT].left = y
  PROVE  \E u, j : /\ u = [t EXCEPT ![y].color = "black"]
                   /\ DOMAIN u = DOMAIN t
                   /\ Settled(u, T, below, f, j)
<1>1. /\ Linked(t, T) /\ Nested(t, T, below) /\ Ordered(t, T, below, f)
      /\ Balanced(t, T, h, t[y].parent, SideOf(t, y)) /\ Colored(t, T, y, y)
      /\ y \in T \cup {NIL}
  BY DEF Repairing, Held
<1>2. /\ T \cup {ROOT, NIL} \subseteq DOMAIN t /\ NIL \notin T /\ ROOT \notin T /\ ROOT # NIL
      /\ T \subseteq Node
  BY <1>1, TreeAssumption DEF Linked
<1>3. PICK u : u = [t EXCEPT ![y].color = "black"]
  OBVIOUS
<1>4. Painted(t, t, u, y, "black")
  <2>1. SameLinks(t, t)
    BY <1>1, SameItself
  <2> QED BY <1>1, <1>3, <2>1, Paint
<1>5. SameLinks(t, u) /\ u[y].color = "black" /\ \A k \in DOMAIN t : k # y => u[k].color = t[k].color
  BY <1>4 DEF Painted
<1>6. /\ Linked(u, T) /\ Nested(u, T, below) /\ Ordered(u, T, below, f)
      /\ DOMAIN u = DOMAIN t
  <2>1. Rearranged(t, u, T, below, below)
    BY <1>1, <1>5, RepaintKeeps
  <2> QED BY <1>1, <2>1 DEF Rearranged
<1>7. \E j : Balanced(u, T, j, NIL, "left")
  <2>1. CASE y = NIL
    <3>1. t[NIL].color = "black"
      BY <1>1 DEF Colored
    <3>2. T = {}
      BY <1>1, <2>1, <3>1 DEF Nested
    <3>3. Balanced(u, T, h, NIL, "left")
      BY <1>1, <3>2 DEF Balanced
    <3> QED BY <3>3
  <2>2. CASE y \in T /\ t[y].color = "red"
    <3>1. \A k \in T : k # y => u[k].color = t[k].color
      BY <1>2, <1>5
    <3>2. PICK q0, e0 : q0 = NIL /\ e0 = "left"
      OBVIOUS
    <3>3. q0 \notin T
      BY <1>2, <3>2
    <3>4. \E j : Balanced(u, T, j, q0, e0)
      BY <1>1, <1>5, <2>2, <3>1, <3>3, BlackenBalanced
    <3> QED BY <3>2, <3>4
  <2>3. CASE y \in T /\ t[y].color = "black"
    <3>1. t[y].parent = ROOT
      BY <1>1, <1>2, <2>3 DEF Linked, Side
    <3>2. Balanced(t, T, h, NIL, "left")
      BY <1>1, <1>2, <3>1, NoLack
    <3>3. \A k \in T : u[k].color = t[k].color
      BY <1>2, <1>5, <2>3
    <3>4. \A k \in T, r \in Side : u[k][r] = t[k][r]
      BY <1>2, <1>5 DEF SameLinks
    <3>5. Balanced(u, T, h, NIL, "left")
      BY <3>2, <3>3, <3>4 DEF Balanced, Black
    <3> QED BY <3>5
  <2> QED BY <1>1, <2>1, <2>2, <2>3, BlackOrRed
<1>8. Colored(u, T, NIL, NIL)
  <2>1. u[ROOT].color = "black" /\ u[NIL].color = "black"
    BY <1>1, <1>2, <1>5 DEF Colored
  <2>2. ASSUME NEW k \in T, u[k].color = "red"
        PROVE  u[k].parent # ROOT /\ u[u[k].parent].color = "black"
    <3>1. k # y /\ t[k].color = "red"
      BY <1>2, <1>5, <2>2
    <3>2. u[k].parent = t[k].parent /\ t[k].parent \in T \cup {ROOT}
      <4>1. u[k].parent = t[k].parent
        BY <1>2, <1>5 DEF SameLinks
      <4> QED BY <1>1, <4>1 DEF Linked
    <3>3. CASE t[k].parent = y
      BY <1>1, <1>2, <1>5, <3>2, <3>3
    <3>4. CASE t[k].parent # y
      BY <1>1, <1>2, <1>5, <3>1, <3>2, <3>4 DEF Colored
    <3> QED BY <3>3, <3>4
  <2> QED BY <2>1, <2>2 DEF Colored
<1> QED BY <1>3, <1>6, <1>7, <1>8 DEF Settled

-----------------------------------------------------------------------------
(* Where the loop of rbtree_insert_node() is: at a red node x, the parent   *)
(* of which may be red.                                                     *)
Inserting(t, T, below, f, h, x) ==
  /\ Linked(t, T) /\ Nested(t, T, below) /\ Ordered(t, T, below, f)
  /\ Balanced(t, T, h, NIL, "left")
  /\ x \in T /\ t[x].color = "red"
  /\ Colored(t, T, x, NIL)

(* A red parent has a parent in the tree, which is black.                   *)
LEMMA RedParent ==
  ASSUME NEW t, NEW T, NEW below, NEW f, NEW h, NEW x, Inserting(t, T, below, f, h, x),
         NEW p, p = t[x].parent, t[p].color = "red", NEW g, g = t[p].parent,
         NEW s, s = SideOf(t, p), NEW a, a = SideOf(t, x)
  PROVE  /\ p \in T /\ g \in T /\ t[g].color = "black"
         /\ s \in Side /\ Other(s) \in Side /\ s # Other(s) /\ Other(Other(s)) = s
         /\ a \in Side /\ (a = s \/ a = Other(s))
         /\ \A r \in Side : r = s \/ r = Other(s)
         /\ t[p][a] = x /\ t[g][s] = p
         /\ x # p /\ x # g /\ p # g
<1>1. /\ Linked(t, T) /\ Nested(t, T, below) /\ Colored(t, T, x, NIL) /\ x \in T
  BY DEF Inserting
<1>2. NIL \notin T /\ ROOT \notin T /\ ROOT # NIL
  BY <1>1, TreeAssumption DEF Linked
<1>3. s \in Side /\ a \in Side
  BY DEF SideOf, Side
<1>4. /\ Other(s) \in Side /\ s # Other(s) /\ Other(Other(s)) = s
      /\ \A r \in Side : r = s \/ r = Other(s)
  BY <1>3 DEF Other, Side
<1>5. t[ROOT].color = "black"
  BY <1>1 DEF Colored
<1>6. p \in T /\ t[p][a] = x
  BY <1>1, <1>5 DEF Linked
<1>7. g \in T \cup {ROOT} /\ t[g][s] = p
  BY <1>1, <1>6 DEF Linked
<1>8. x # p
  BY <1>1, <1>3, <1>6, KidsBelow
<1>9. g # ROOT /\ t[g].color = "black"
  BY <1>1, <1>2, <1>6, <1>7, <1>8 DEF Colored
<1>10. x # g /\ p # g
  <2>1. t[p][a] # NIL
    BY <1>1, <1>2, <1>6
  <2> QED BY <1>1, <1>3, <1>6, <2>1, Apart
<1> QED BY <1>3, <1>4, <1>6, <1>7, <1>8, <1>9, <1>10

Recolored(t, p, c, g) ==
  [t EXCEPT ![p].color = "black", ![c].color = "black", ![g].color = "red"]

LEMMA RecolorKeeps ==
  ASSUME NEW t, NEW T, NEW below, NEW f, NEW h, NEW x, Inserting(t, T, below, f, h, x),
         f \in [Node -> Nat],
         NEW p, p = t[x].parent, t[p].color = "red", NEW g, g = t[p].parent,
         NEW c, c = t[g][Other(SideOf(t, p))], t[c].color = "red"
  PROVE  /\ g \in T
         /\ \E u, j : /\ u = Recolored(t, p, c, g)
                      /\ DOMAIN u = DOMAIN t
                      /\ Inserting(u, T, below, f, j, g)
<1>1. /\ Linked(t, T) /\ Nested(t, T, below) /\ Ordered(t, T, below, f)
      /\ Balanced(t, T, h, NIL, "left") /\ Colored(t, T, x, NIL) /\ x \in T
      /\ t[x].color = "red" /\ t[NIL].color = "black" /\ t[ROOT].color = "black"
  BY DEF Inserting, Colored
<1>2. /\ T \cup {ROOT, NIL} \subseteq DOMAIN t /\ NIL \notin T /\ ROOT \notin T /\ ROOT # NIL
      /\ T \subseteq Node
  BY <1>1, TreeAssumption DEF Linked
<1>3. PICK s, a : s = SideOf(t, p) /\ a = SideOf(t, x)
  OBVIOUS
<1>4. /\ p \in T /\ g \in T /\ t[g].color = "black"
      /\ s \in Side /\ Other(s) \in Side /\ s # Other(s)
      /\ \A r \in Side : r = s \/ r = Other(s)
      /\ t[g][s] = p /\ x # p /\ x # g /\ p # g
  BY <1>3, RedParent
<1>5. c \in T /\ c = t[g][Other(s)] /\ c # g
  <2>1. c \in T \cup {NIL} /\ c = t[g][Other(s)]
    BY <1>1, <1>3, <1>4, Kids
  <2> QED BY <1>1, <1>4, <2>1
<1>6. PICK v1 : v1 = [t EXCEPT ![p].color = "black"]
  OBVIOUS
<1>7. PICK v2 : v2 = [v1 EXCEPT ![c].color = "black"]
  OBVIOUS
<1>8. PICK u : u = [v2 EXCEPT ![g].color = "red"]
  OBVIOUS
<1>9. SameLinks(t, t)
  BY <1>1, SameItself
<1>10. Painted(t, t, v1, p, "black")
  BY <1>1, <1>4, <1>6, <1>9, Paint
<1>11. SameLinks(t, v1)
  BY <1>10 DEF Painted
<1>12. Painted(t, v1, v2, c, "black")
  BY <1>1, <1>5, <1>7, <1>11, Paint
<1>13. SameLinks(t, v2)
  BY <1>12 DEF Painted
<1>14. Painted(t, v2, u, g, "red")
  BY <1>1, <1>4, <1>8, <1>13, Paint
<1>15. /\ SameLinks(t, u) /\ u[p].color = "black" /\ u[c].color = "black"
       /\ u[g].color = "red"
       /\ \A k \in DOMAIN t : k \notin {p, c, g} => u[k].color = t[k].color
  BY <1>2, <1>4, <1>5, <1>10, <1>12, <1>14 DEF Painted
<1>16. u = Recolored(t, p, c, g)
  BY <1>6, <1>7, <1>8 DEF Recolored
<1>17. /\ Linked(u, T) /\ Nested(u, T, below) /\ Ordered(u, T, below, f)
       /\ DOMAIN u = DOMAIN t
  <2>1. Rearranged(t, u, T, below, below)
    BY <1>1, <1>15, RepaintKeeps
  <2> QED BY <1>1, <2>1 DEF Rearranged
<1>18. t[p].parent = g /\ t[c].parent = g
  BY <1>1, <1>2, <1>4, <1>5 DEF Linked
<1>19. \E j : Balanced(u, T, j, NIL, "left")
  <2>1. \A r \in Side : t[g][r] \in T /\ t[t[g][r]].color = "red" /\ u[t[g][r]].color = "black"
    BY <1>4, <1>5, <1>15
  <2>2. \A k \in T : k # g /\ t[k].parent # g => u[k].color = t[k].color
    BY <1>2, <1>15, <1>18
  <2>3. PICK q0, e0 : q0 = NIL /\ e0 = "left"
    OBVIOUS
  <2>4. q0 \notin T /\ Balanced(t, T, h, q0, e0)
    BY <1>1, <1>2, <2>3
  <2>5. \E j : Balanced(u, T, j, q0, e0)
    BY <1>1, <1>4, <1>15, <2>1, <2>2, <2>4, RecolorBalanced
  <2> QED BY <2>3, <2>5
<1>20. Colored(u, T, g, NIL)
  <2>1. u[ROOT].color = "black" /\ u[NIL].color = "black"
    BY <1>1, <1>2, <1>4, <1>5, <1>15
  <2>2. ASSUME NEW k \in T, u[k].color = "red", k # g
        PROVE  u[k].parent # ROOT /\ u[u[k].parent].color = "black"
    <3>1. t[k].color = "red" /\ k \notin {p, c, g}
      BY <1>2, <1>15, <2>2
    <3>2. u[k].parent = t[k].parent /\ t[k].parent \in T \cup {ROOT}
      <4>1. u[k].parent = t[k].parent
        BY <1>2, <1>15 DEF SameLinks
      <4> QED BY <1>1, <4>1 DEF Linked
    <3>3. CASE k = x
      BY <1>2, <1>4, <1>15, <3>2, <3>3
    <3>4. CASE k # x
      <4>1. t[k].parent # ROOT /\ t[t[k].parent].color = "black"
        BY <1>1, <1>2, <3>1, <3>2, <3>4 DEF Colored
      <4>2. t[k].parent # g
        <5>1. PICK r \in Side : t[t[k].parent][r] = k
          BY <1>1 DEF Linked, SideOf, Side
        <5> QED BY <1>4, <1>5, <3>1, <5>1
      <4> QED BY <1>2, <1>15, <3>2, <4>1, <4>2
    <3> QED BY <3>3, <3>4
  <2> QED BY <2>1, <2>2 DEF Colored
<1> QED BY <1>4, <1>15, <1>16, <1>17, <1>19, <1>20 DEF Inserting

(* InsertRotate: a node on the inner side of its parent changes places with *)
(* it first.                                                                *)
LEMMA InnerKeeps ==
  ASSUME NEW t, NEW T, NEW below, NEW f, NEW h, NEW x, Inserting(t, T, below, f, h, x),
         f \in [Node -> Nat],
         NEW p, p = t[x].parent, t[p].color = "red", NEW g, g = t[p].parent,
         NEW s, s = SideOf(t, p), SideOf(t, x) # s
  PROVE  \E u, b, j :
           /\ u = Rotate(t, p, s)
           /\ DOMAIN u = DOMAIN t
           /\ Inserting(u, T, b, f, j, p)
           /\ u[p].parent = x /\ u[x].parent = g /\ u[x].color = "red"
           /\ SideOf(u, x) = s /\ SideOf(u, p) = s
           /\ u[g][Other(s)] = t[g][Other(s)]
           /\ \A k \in T \cup {NIL} : u[k].color = t[k].color
<1>1. /\ Linked(t, T) /\ Nested(t, T, below) /\ Ordered(t, T, below, f)
      /\ Balanced(t, T, h, NIL, "left") /\ Colored(t, T, x, NIL) /\ x \in T
      /\ t[x].color = "red" /\ t[NIL].color = "black" /\ t[ROOT].color = "black"
  BY DEF Inserting, Colored
<1>2. /\ T \cup {ROOT, NIL} \subseteq DOMAIN t /\ NIL \notin T /\ ROOT \notin T /\ ROOT # NIL
      /\ T \subseteq Node
  BY <1>1, TreeAssumption DEF Linked
<1>3. PICK a : a = SideOf(t, x)
  OBVIOUS
<1>4. /\ p \in T /\ g \in T /\ t[g].color = "black"
      /\ s \in Side /\ Other(s) \in Side /\ s # Other(s)
      /\ \A r \in Side : r = s \/ r = Other(s)
      /\ t[g][s] = p /\ x # p /\ x # g /\ p # g
      /\ t[p][a] = x /\ (a = s \/ a = Other(s))
  BY <1>3, RedParent
<1>5. t[p][Other(s)] = x
  BY <1>3, <1>4
<1>6. t[p][Other(s)] # NIL
  BY <1>1, <1>2, <1>5
<1>7. SameLinks(t, t)
  BY <1>1, SameItself
<1>8. PICK u : u = Rotate(t, p, s)
  OBVIOUS
<1>9. PICK z, m, q, d : /\ Turned(t, u, p, s, z, m, q, d)
                        /\ \A k \in DOMAIN t : u[k].color = t[k].color
                        /\ Rearranged(t, u, T, below, TurnBelow(t, below, p, s, z, m))
  BY <1>1, <1>4, <1>6, <1>7, <1>8, RotateKeeps
<1>10. z = x /\ q = g /\ d = s
  BY <1>5, <1>9 DEF Turned
<1>11. Turned(t, u, p, s, x, m, g, s)
  BY <1>9, <1>10
<1>12. PICK b : b = TurnBelow(t, below, p, s, z, m)
  OBVIOUS
<1>13. DOMAIN u = DOMAIN t /\ Linked(u, T) /\ Nested(u, T, b) /\ Ordered(u, T, b, f)
  BY <1>1, <1>9, <1>12 DEF Rearranged
<1>14. \A k \in T \cup {ROOT, NIL} : u[k].color = t[k].color
  BY <1>2, <1>9
<1>15. \E j : Balanced(u, T, j, NIL, "left")
  <2>1. PICK q0, e0 : q0 = NIL /\ e0 = "left"
    OBVIOUS
  <2>2. q0 # x /\ q0 # p /\ Balanced(t, T, h, q0, e0)
    BY <1>1, <1>2, <1>4, <2>1
  <2>3. u[p].color = "red" /\ u[x].color = t[p].color /\ \A k \in T \ {p, x} : u[k].color = t[k].color
    BY <1>1, <1>4, <1>14
  <2>4. \E j : Balanced(u, T, j, q0, e0)
    BY <1>1, <1>4, <1>6, <1>11, <1>13, <2>2, <2>3, SwapBalanced
  <2> QED BY <2>1, <2>4
<1>16. /\ u[p].parent = x /\ u[x].parent = g
       /\ u[g][s] = x /\ u[x][s] = p /\ u[g][Other(s)] = t[g][Other(s)]
  BY <1>11 DEF Turned
<1>17. SideOf(u, x) = s /\ SideOf(u, p) = s
  <2>1. s = SideOf(u, x)
    BY <1>1, <1>4, <1>13, <1>16, OnePlace
  <2>2. s = SideOf(u, p)
    BY <1>1, <1>4, <1>13, <1>16, OnePlace
  <2> QED BY <2>1, <2>2
<1>18. Colored(u, T, p, NIL)
  <2>1. ASSUME NEW k \in T, u[k].color = "red", k # p
        PROVE  u[k].parent # ROOT /\ u[u[k].parent].color = "black"
    <3>1. t[k].color = "red"
      BY <1>14, <2>1
    <3>2. CASE k = x
      BY <1>2, <1>4, <1>14, <1>16, <3>2
    <3>3. CASE k # x
      <4>1. t[k].parent # ROOT /\ t[t[k].parent].color = "black" /\ t[k].parent \in T
        <5>1. t[k].parent \in T \cup {ROOT}
          BY <1>1 DEF Linked
        <5> QED BY <1>1, <1>2, <3>1, <3>3, <5>1 DEF Colored
      <4>2. k # m
        <5>1. ASSUME k = m PROVE FALSE
          <6>1. m = t[x][s]
            BY <1>11 DEF Turned
          <6>2. t[k].parent = x
            BY <1>1, <1>2, <1>4, <5>1, <6>1 DEF Linked
          <6> QED BY <1>1, <4>1, <6>2
        <5> QED BY <5>1
      <4>3. u[k].parent = t[k].parent
        BY <1>2, <1>11, <2>1, <3>3, <4>2 DEF Turned
      <4> QED BY <1>14, <4>1, <4>3
    <3> QED BY <3>2, <3>3
  <2> QED BY <1>1, <1>14, <2>1 DEF Colored
<1>19. \E j : Inserting(u, T, b, f, j, p)
  BY <1>4, <1>13, <1>14, <1>15, <1>18 DEF Inserting
<1>20. u[x].color = "red" /\ \A k \in T \cup {NIL} : u[k].color = t[k].color
  BY <1>1, <1>14
<1> QED BY <1>8, <1>13, <1>16, <1>17, <1>19, <1>20

(* ... and the other way: the parent takes the place of the grandparent.    *)
LEMMA OuterKeeps ==
  ASSUME NEW t, NEW T, NEW below, NEW f, NEW h, NEW x, Inserting(t, T, below, f, h, x),
         f \in [Node -> Nat],
         NEW p, p = t[x].parent, t[p].color = "red", NEW g, g = t[p].parent,
         NEW s, s = SideOf(t, p), SideOf(t, x) = s,
         t[t[g][Other(s)]].color = "black"
  PROVE  \E u, b, j :
           /\ u = SwapRotate(t, g, Other(s), p)
           /\ DOMAIN u = DOMAIN t
           /\ Inserting(u, T, b, f, j, x)
           /\ u[u[x].parent].color = "black"
<1>1. /\ Linked(t, T) /\ Nested(t, T, below) /\ Ordered(t, T, below, f)
      /\ Balanced(t, T, h, NIL, "left") /\ Colored(t, T, x, NIL) /\ x \in T
      /\ t[x].color = "red" /\ t[NIL].color = "black" /\ t[ROOT].color = "black"
  BY DEF Inserting, Colored
<1>2. /\ T \cup {ROOT, NIL} \subseteq DOMAIN t /\ NIL \notin T /\ ROOT \notin T /\ ROOT # NIL
      /\ T \subseteq Node
  BY <1>1, TreeAssumption DEF Linked
<1>3. PICK a : a = SideOf(t, x)
  OBVIOUS
<1>4. /\ p \in T /\ g \in T /\ t[g].color = "black"
      /\ s \in Side /\ Other(s) \in Side /\ s # Other(s) /\ Other(Other(s)) = s
      /\ \A r \in Side : r = s \/ r = Other(s)
      /\ t[g][s] = p /\ x # p /\ x # g /\ p # g
      /\ t[p][a] = x
  BY <1>3, RedParent
<1>5. t[p][s] = x /\ p = t[g][Other(Other(s))]
  BY <1>3, <1>4
<1>6. t[g][Other(Other(s))] # NIL
  BY <1>2, <1>4, <1>5
<1>7. PICK u : u = SwapRotate(t, g, Other(s), p)
  OBVIOUS
<1>8. PICK m, q, d, b : SwapTurned(t, T, below, u, g, Other(s), p, m, q, d, b)
  BY <1>1, <1>4, <1>5, <1>7, SwapTurn
<1>9. /\ Turned(t, u, g, Other(s), p, m, q, d) /\ DOMAIN u = DOMAIN t
      /\ Linked(u, T) /\ Nested(u, T, b) /\ Ordered(u, T, b, f)
  BY <1>1, <1>8 DEF Rearranged, SwapTurned
<1>10. /\ u[g].color = "red" /\ u[p].color = "black"
       /\ \A k \in DOMAIN t : k \notin {g, p} => u[k].color = t[k].color
  BY <1>8 DEF SwapTurned
<1>11. \A k \in T \ {g, p} : u[k].color = t[k].color
  BY <1>2, <1>10
<1>12. \E j : Balanced(u, T, j, NIL, "left")
  <2>1. PICK q0, e0 : q0 = NIL /\ e0 = "left"
    OBVIOUS
  <2>2. q0 # g /\ q0 # p /\ Balanced(t, T, h, q0, e0)
    BY <1>1, <1>2, <1>4, <2>1
  <2>3. u[p].color = t[g].color
    BY <1>4, <1>10
  <2>4. \E j : Balanced(u, T, j, q0, e0)
    BY <1>1, <1>4, <1>6, <1>9, <1>10, <1>11, <2>2, <2>3, SwapBalanced
  <2> QED BY <2>1, <2>4
<1>13. m = t[p][Other(s)] /\ u[g].parent = p
  BY <1>9 DEF Turned
<1>14. Colored(u, T, x, NIL)
  <2>1. u[ROOT].color = "black" /\ u[NIL].color = "black"
    BY <1>1, <1>2, <1>4, <1>10
  <2>2. ASSUME NEW k \in T, u[k].color = "red", k # x
        PROVE  u[k].parent # ROOT /\ u[u[k].parent].color = "black"
    <3>1. CASE k = p
      BY <1>10, <2>2, <3>1
    <3>2. CASE k = g
      BY <1>2, <1>4, <1>10, <1>13, <3>2
    <3>3. CASE k \notin {p, g}
      <4>1. t[k].color = "red"
        BY <1>11, <2>2, <3>3
      <4>2. t[k].parent # ROOT /\ t[t[k].parent].color = "black" /\ t[k].parent \in T
        <5>1. t[k].parent \in T \cup {ROOT}
          BY <1>1 DEF Linked
        <5> QED BY <1>1, <1>2, <2>2, <4>1, <5>1 DEF Colored
      <4>3. k # m
        <5>1. ASSUME k = m PROVE FALSE
          <6>1. t[k].parent = p
            BY <1>1, <1>2, <1>4, <1>13, <5>1 DEF Linked
          <6> QED BY <4>2, <6>1
        <5> QED BY <5>1
      <4>4. u[k].parent = t[k].parent
        BY <1>2, <1>9, <3>3, <4>3 DEF Turned
      <4>5. t[k].parent # p
        BY <4>2
      <4>6. t[k].parent # g
        <5>1. PICK r \in Side : t[t[k].parent][r] = k
          BY <1>1 DEF Linked, SideOf, Side
        <5> QED BY <1>4, <3>3, <4>1, <5>1
      <4> QED BY <1>11, <4>2, <4>4, <4>5, <4>6
    <3> QED BY <3>1, <3>2, <3>3
  <2> QED BY <2>1, <2>2 DEF Colored
<1>15. x \in T /\ u[x].color = "red"
  BY <1>1, <1>4, <1>11
<1>16. u[u[x].parent].color = "black"
  <2>1. x # m
    <3>1. below[t[p][s]] \cap below[t[p][Other(s)]] = {}
      BY <1>1, <1>4, KidsBelow
    <3>2. x \in below[x]
      BY <1>1 DEF Nested
    <3> QED BY <1>5, <1>13, <3>1, <3>2
  <2>2. u[x].parent = p
    BY <1>1, <1>2, <1>4, <1>9, <2>1 DEF Turned
  <2> QED BY <1>10, <2>2
<1> QED BY <1>7, <1>9, <1>12, <1>14, <1>15, <1>16 DEF Inserting

-----------------------------------------------------------------------------
(* A way down that goes on to a child until it stops ends: the functions    *)
(* RBTree defines by recursion along one are what their definitions say.    *)
WayDown(T, S, f, stop, next) ==
  /\ f \in [S \cup {NIL} -> T \cup {NIL}]
  /\ f[NIL] = NIL
  /\ \A k \in S : f[k] = IF k \in stop THEN k ELSE f[next[k]]

LEMMA Descent ==
  ASSUME NEW t, NEW T, NEW below, Linked(t, T), Nested(t, T, below), IsFiniteSet(T),
         NEW stop, NEW next, \A n \in T : \E s \in Side : next[n] = t[n][s]
  PROVE  \E f : WayDown(T, T, f, stop, next)
<1> DEFINE Ends(n) == \E f : WayDown(T, below[n], f, stop, next)
           P == {n \in T : Ends(n)}
<1>1. NIL \notin T
  BY TreeAssumption DEF Linked
<1>2. Ends(NIL)
  <2>1. WayDown(T, below[NIL], [k \in below[NIL] \cup {NIL} |-> NIL], stop, next)
    BY DEF Nested, WayDown
  <2> QED BY <2>1
<1>3. ASSUME NEW n \in T, \A s \in Side : t[n][s] \in P \cup {NIL}
      PROVE  n \in P
  <2>1. PICK l, r : l = t[n].left /\ r = t[n].right
    OBVIOUS
  <2>2. l \in T \cup {NIL} /\ r \in T \cup {NIL} /\ Ends(l) /\ Ends(r)
    BY <1>2, <1>3, <2>1 DEF Side
  <2>3. /\ below[n] = {n} \cup below[l] \cup below[r] /\ below[l] \cap below[r] = {}
        /\ n \notin below[l] /\ n \notin below[r] /\ below[n] \subseteq T
    BY <2>1 DEF Nested, Side
  <2>4. PICK fl : WayDown(T, below[l], fl, stop, next)
    BY <2>2
  <2>5. PICK fr : WayDown(T, below[r], fr, stop, next)
    BY <2>2
  <2>6. PICK g : g = [k \in below[l] \cup below[r] \cup {NIL} |->
                        IF k \in below[l] \cup {NIL} THEN fl[k] ELSE fr[k]]
    OBVIOUS
  <2>7. /\ g \in [below[l] \cup below[r] \cup {NIL} -> T \cup {NIL}] /\ g[NIL] = NIL
        /\ \A k \in below[l] \cup {NIL} : g[k] = fl[k]
        /\ \A k \in below[r] \cup {NIL} : g[k] = fr[k]
    BY <1>1, <2>3, <2>4, <2>5, <2>6 DEF WayDown
  <2>8. PICK f : f = [k \in below[n] \cup {NIL} |->
                        IF k # n THEN g[k] ELSE IF n \in stop THEN n ELSE g[next[n]]]
    OBVIOUS
  <2>9. \A c \in T \cup {NIL} : \A k \in below[c], s \in Side :
          t[k][s] \in below[c] \cup {NIL}
    <3> SUFFICES ASSUME NEW c \in T \cup {NIL}, NEW k \in below[c], NEW s \in Side,
                        t[k][s] # NIL
                 PROVE  t[k][s] \in below[c]
      OBVIOUS
    <3>1. c \in T
      BY DEF Nested
    <3>2. k \in T /\ below[k] \subseteq below[c]
      BY <3>1, BelowBelow
    <3>3. t[k][s] \in T
      BY <3>2, Kids
    <3>4. t[k][s] \in below[t[k][s]] /\ below[t[k][s]] \subseteq below[k]
      BY <3>2, <3>3, KidsBelow
    <3> QED BY <3>2, <3>4
  <2>10. next[n] \in below[l] \cup below[r] \cup {NIL}
    <3>1. PICK s \in Side : next[n] = t[n][s]
      OBVIOUS
    <3>2. next[n] = l \/ next[n] = r
      BY <2>1, <3>1 DEF Side
    <3>3. \A c \in T : c \in below[c]
      BY DEF Nested
    <3> QED BY <2>2, <3>2, <3>3
  <2>11. f \in [below[n] \cup {NIL} -> T \cup {NIL}] /\ f[NIL] = NIL
    BY <1>1, <2>3, <2>7, <2>8, <2>10
  <2>12. \A k \in below[l] \cup below[r] \cup {NIL} : f[k] = g[k]
    BY <1>1, <2>3, <2>8
  <2>13. f[n] = IF n \in stop THEN n ELSE f[next[n]]
    BY <2>3, <2>8, <2>10, <2>12
  <2>14. ASSUME NEW k \in below[l] PROVE f[k] = IF k \in stop THEN k ELSE f[next[k]]
    <3>1. next[k] \in below[l] \cup {NIL}
      BY <2>2, <2>3, <2>9
    <3>2. fl[k] = IF k \in stop THEN k ELSE fl[next[k]]
      BY <2>4 DEF WayDown
    <3> QED BY <2>7, <2>12, <3>1, <3>2
  <2>15. ASSUME NEW k \in below[r] PROVE f[k] = IF k \in stop THEN k ELSE f[next[k]]
    <3>1. next[k] \in below[r] \cup {NIL}
      BY <2>2, <2>3, <2>9
    <3>2. fr[k] = IF k \in stop THEN k ELSE fr[next[k]]
      BY <2>5 DEF WayDown
    <3> QED BY <2>7, <2>12, <3>1, <3>2
  <2>16. WayDown(T, below[n], f, stop, next)
    BY <2>3, <2>11, <2>13, <2>14, <2>15 DEF WayDown
  <2> QED BY <2>16
<1>4. T \subseteq P
  <2> HIDE DEF P
  <2> QED BY <1>3, SubtreeInduction
<1>5. t[ROOT].left \in T \cup {NIL} /\ below[t[ROOT].left] = T
  BY Kids DEF Nested, Side
<1>6. Ends(t[ROOT].left)
  BY <1>2, <1>4, <1>5
<1> QED BY <1>5, <1>6

-----------------------------------------------------------------------------
(* The side of n on which the way down to holes of size z goes on.          *)
Way(n, z) == IF z < Size[n] THEN "left" ELSE "right"

(* The way down to a size finds a hole of that size if there is one.        *)
LEMMA FindDescent ==
  ASSUME NEW t, NEW T, NEW below, Linked(t, T), Nested(t, T, below), IsFiniteSet(T),
         Ordered(t, T, below, Size), NEW z \in Nat, NEW next, NEW f,
         \A n \in T : next[n] = t[n][Way(n, z)],
         WayDown(T, T, f, {n \in T : Size[n] = z}, next), NEW r, r = f[t[ROOT].left]
  PROVE  /\ r \in T \cup {NIL}
         /\ r # NIL => Size[r] = z
         /\ (\E m \in T : Size[m] = z) => r # NIL
<1> DEFINE P == {n \in T : /\ f[n] # NIL => Size[f[n]] = z
                           /\ (\E m \in below[n] : Size[m] = z) => f[n] # NIL}
<1>1. T \subseteq Node /\ NIL \notin T /\ below[NIL] = {} /\ f[NIL] = NIL
  BY TreeAssumption DEF Linked, Nested, WayDown
<1>2. \A n \in T : f[n] = IF Size[n] = z THEN n ELSE f[next[n]]
  BY DEF WayDown
<1>3. ASSUME NEW n \in T, \A s \in Side : t[n][s] \in P \cup {NIL}
      PROVE  n \in P
  <2>1. CASE Size[n] = z
    BY <1>1, <1>2, <2>1
  <2>2. CASE Size[n] # z
    <3>1. PICK s : s = Way(n, z)
      OBVIOUS
    <3>2. s \in Side /\ Other(s) \in Side
      BY <3>1 DEF Way, Side, Other
    <3>3. f[n] = f[t[n][s]] /\ t[n][s] \in P \cup {NIL}
      BY <1>2, <1>3, <2>2, <3>1, <3>2
    <3>4. ASSUME NEW m \in below[n], Size[m] = z PROVE m \in below[t[n][s]]
      <4>1. below[n] = {n} \cup below[t[n][s]] \cup below[t[n][Other(s)]]
        BY <3>2, KidsBelow
      <4>2. ASSUME m \in below[t[n][Other(s)]] PROVE FALSE
        <5>1. Upto(Other(s), Size[m], Size[n])
          BY <3>2, <4>2 DEF Ordered
        <5>2. Size[n] \in Nat
          BY <1>1, TreeAssumption
        <5> QED BY <2>2, <3>1, <3>4, <5>1, <5>2 DEF Upto, Way, Other
      <4> QED BY <2>2, <3>4, <4>1, <4>2
    <3>5. CASE t[n][s] = NIL
      BY <1>1, <3>3, <3>4, <3>5
    <3>6. CASE t[n][s] \in P
      BY <3>3, <3>4, <3>6
    <3> QED BY <3>3, <3>5, <3>6
  <2> QED BY <2>1, <2>2
<1>4. T \subseteq P
  <2> HIDE DEF P
  <2> QED BY <1>3, SubtreeInduction
<1>5. t[ROOT].left \in T \cup {NIL} /\ below[t[ROOT].left] = T
  BY Kids DEF Nested, Side
<1>6. r \in T \cup {NIL}
  BY <1>5 DEF WayDown
<1> QED BY <1>1, <1>4, <1>5, <1>6

(* ... and a leaf on whose way no node is on the wrong side of the size.    *)
LEMMA LeafDescent ==
  ASSUME NEW t, NEW T, NEW below, Linked(t, T), Nested(t, T, below), IsFiniteSet(T),
         NEW z \in Nat, NEW next, NEW f,
         \A n \in T : next[n] = t[n][Way(n, z)],
         WayDown(T, T, f, {n \in T : next[n] = NIL}, next),
         t[ROOT].left # NIL, NEW r, r = f[t[ROOT].left]
  PROVE  /\ r \in T /\ t[r][Way(r, z)] = NIL
         /\ \A a \in T, s \in Side : r \in below[t[a][s]] => s = Way(a, z)
<1> DEFINE P == {n \in T : /\ f[n] \in below[n] /\ next[f[n]] = NIL
                           /\ \A a \in below[n], s \in Side :
                                f[n] \in below[t[a][s]] => s = Way(a, z)}
<1>1. T \subseteq Node /\ NIL \notin T /\ below[NIL] = {} /\ f[NIL] = NIL
  BY TreeAssumption DEF Linked, Nested, WayDown
<1>2. \A n \in T : f[n] = IF next[n] = NIL THEN n ELSE f[next[n]]
  BY DEF WayDown
<1>3. \A n : Way(n, z) \in Side
  BY DEF Way, Side
<1>4. ASSUME NEW n \in T, \A s \in Side : t[n][s] \in P \cup {NIL}
      PROVE  n \in P
  <2>1. PICK w, c : w = Way(n, z) /\ c = t[n][w]
    OBVIOUS
  <2>2. w \in Side /\ Other(w) \in Side /\ \A s \in Side : s = w \/ s = Other(w)
    BY <1>3, <2>1 DEF Side, Other
  <2>3. /\ n \in below[n] /\ n \notin below[c]
        /\ below[n] = {n} \cup below[c] \cup below[t[n][Other(w)]]
        /\ below[c] \cap below[t[n][Other(w)]] = {}
    BY <2>1, <2>2, KidsBelow
  <2>4. CASE c = NIL
    <3>1. f[n] = n /\ next[n] = NIL
      BY <1>2, <2>1, <2>4
    <3>2. ASSUME NEW a \in below[n], NEW s \in Side, n \in below[t[a][s]]
          PROVE  FALSE
      <4>1. a \in T /\ below[a] \subseteq below[n]
        BY BelowBelow
      <4>2. a # n
        BY <3>2 DEF Nested
      <4>3. below[t[a][s]] \subseteq below[a]
        BY <4>1, KidsBelow
      <4>4. PICK r0 \in Side : a \in below[t[n][r0]]
        BY <4>2, <3>2 DEF Nested, Side
      <4>5. t[n][r0] \in T
        BY <4>4, <1>1, Kids
      <4>6. below[a] \subseteq below[t[n][r0]]
        BY <4>4, <4>5, BelowBelow
      <4> QED BY <3>2, <4>3, <4>6 DEF Nested
    <3> QED BY <2>3, <3>1, <3>2
  <2>5. CASE c # NIL
    <3>1. f[n] = f[c] /\ c \in P /\ c \in T
      BY <1>2, <1>4, <2>1, <2>2, <2>5
    <3>2. f[n] \in below[c]
      BY <3>1
    <3>3. ASSUME NEW a \in below[n], NEW s \in Side, f[n] \in below[t[a][s]]
          PROVE  s = Way(a, z)
      <4>1. CASE a = n
        BY <2>1, <2>2, <2>3, <3>2, <3>3, <4>1
      <4>2. CASE a \in below[c]
        BY <3>1, <3>3, <4>2
      <4>3. CASE a \in below[t[n][Other(w)]]
        <5>1. t[n][Other(w)] \in T
          BY <1>1, <2>2, <4>3, Kids
        <5>2. a \in T /\ below[a] \subseteq below[t[n][Other(w)]]
          BY <4>3, <5>1, BelowBelow
        <5>3. below[t[a][s]] \subseteq below[a]
          BY <5>2, KidsBelow
        <5> QED BY <2>3, <3>2, <3>3, <5>2, <5>3
      <4> QED BY <2>3, <4>1, <4>2, <4>3
    <3> QED BY <2>3, <3>1, <3>2, <3>3
  <2> QED BY <2>4, <2>5
<1>5. T \subseteq P
  <2> HIDE DEF P
  <2> QED BY <1>4, SubtreeInduction
<1>6. t[ROOT].left \in T /\ below[t[ROOT].left] = T
  BY Kids DEF Nested, Side
<1>7. r \in T
  BY <1>5, <1>6
<1> QED BY <1>5, <1>6, <1>7

(* The leftmost node below n: none below n comes before it.                 *)
LEMMA LeftDescent ==
  ASSUME NEW t, NEW T, NEW below, Linked(t, T), Nested(t, T, below), IsFiniteSet(T),
         Ordered(t, T, below, Size), NEW next, NEW f,
         \A n \in T : next[n] = t[n].left,
         WayDown(T, T, f, {n \in T : next[n] = NIL}, next), NEW r \in T
  PROVE  /\ f[r] \in below[r] /\ t[f[r]].left = NIL
         /\ \A m \in below[r] : Size[f[r]] <= Size[m]
<1> DEFINE P == {n \in T : /\ f[n] \in below[n] /\ t[f[n]].left = NIL
                           /\ \A m \in below[n] : Size[f[n]] <= Size[m]}
<1>1. T \subseteq Node /\ NIL \notin T /\ below[NIL] = {}
  BY TreeAssumption DEF Linked, Nested
<1>2. \A n \in T : f[n] = IF t[n].left = NIL THEN n ELSE f[t[n].left]
  BY DEF WayDown
<1>3. ASSUME NEW n \in T, \A s \in Side : t[n][s] \in P \cup {NIL}
      PROVE  n \in P
  <2>1. PICK c, d : c = t[n].left /\ d = t[n].right
    OBVIOUS
  <2>2. /\ below[n] = {n} \cup below[c] \cup below[d] /\ below[n] \subseteq T
    BY <2>1 DEF Nested
  <2>3. \A m \in T : Size[m] \in Nat
    BY <1>1, TreeAssumption
  <2>4. \A m \in below[d] : Size[n] <= Size[m]
    BY <2>1 DEF Ordered, Upto, Side
  <2>5. \A m \in below[c] : Size[m] <= Size[n]
    BY <2>1 DEF Ordered, Upto, Side
  <2>6. CASE c = NIL
    <3>1. f[n] = n /\ below[c] = {}
      BY <1>1, <1>2, <2>1, <2>6
    <3>2. \A m \in below[n] : Size[n] <= Size[m]
      BY <2>2, <2>3, <2>4, <3>1
    <3> QED BY <2>1, <2>2, <2>6, <3>1, <3>2
  <2>7. CASE c # NIL
    <3>1. f[n] = f[c] /\ c \in P
      BY <1>2, <1>3, <2>1, <2>7 DEF Side
    <3>2. f[c] \in below[c] /\ t[f[c]].left = NIL /\ \A m \in below[c] : Size[f[c]] <= Size[m]
      BY <3>1
    <3>3. Size[f[c]] <= Size[n] /\ f[c] \in T
      BY <2>2, <2>5, <3>2
    <3>4. ASSUME NEW m \in below[n] PROVE Size[f[c]] <= Size[m]
      <4>1. CASE m \in below[d]
        <5>1. Size[n] <= Size[m] /\ Size[n] \in Nat /\ Size[m] \in Nat /\ Size[f[c]] \in Nat
          BY <2>2, <2>3, <2>4, <3>3, <4>1
        <5> QED BY <3>3, <5>1
      <4> QED BY <2>2, <3>2, <3>3, <4>1
    <3> QED BY <2>2, <3>1, <3>2, <3>4
  <2> QED BY <2>6, <2>7
<1> HIDE DEF P
<1>4. T \subseteq P
  BY <1>3, SubtreeInduction
<1> QED BY <1>4 DEF P

-----------------------------------------------------------------------------
(* Insert: the node n becomes a leaf on the side e of l.                    *)
Grafted(t, T, u, n, l, e) ==
  /\ DOMAIN u = DOMAIN t \cup {n}
  /\ u \in [DOMAIN u -> RBNodes(DOMAIN u)]
  /\ u[n] = RBNode(l, "red")
  /\ u[l][e] = n
  /\ \A k \in DOMAIN t : u[k].color = t[k].color /\ u[k].parent = t[k].parent
  /\ \A k \in DOMAIN t, r \in Side : ~(k = l /\ r = e) => u[k][r] = t[k][r]

LEMMA GraftLinks ==
  ASSUME NEW t, NEW T, Linked(t, T), NEW n \in Node, n \notin DOMAIN t,
         NEW l \in T \cup {ROOT}, NEW e \in Side,
         NEW u, u = [m \in DOMAIN t \cup {n} |->
                       IF m = n THEN RBNode(l, "red") ELSE [t EXCEPT ![l][e] = n][m]]
  PROVE  Grafted(t, T, u, n, l, e)
<1>1. PICK D : D = DOMAIN t \cup {n}
  OBVIOUS
<1>2. /\ T \cup {ROOT, NIL} \subseteq DOMAIN t /\ T \subseteq Node /\ n # l
      /\ t \in [DOMAIN t -> RBNodes(DOMAIN t)]
  BY DEF Linked
<1>3. PICK v : v = [t EXCEPT ![l][e] = n]
  OBVIOUS
<1>4. u = [m \in D |-> IF m = n THEN RBNode(l, "red") ELSE v[m]]
  BY <1>1, <1>3
<1>5. \A k \in DOMAIN t : t[k] \in RBNodes(D)
  <2>1. \A k \in DOMAIN t : t[k] \in RBNodes(DOMAIN t)
    BY <1>2
  <2> QED BY <1>1, <2>1 DEF RBNodes
<1>6. PICK w : w = [t[l] EXCEPT ![e] = n]
  OBVIOUS
<1>7. /\ w \in RBNodes(D) /\ w[e] = n /\ w[Other(e)] = t[l][Other(e)]
      /\ w.parent = t[l].parent /\ w.color = t[l].color
  BY <1>1, <1>2, <1>5, <1>6 DEF RBNodes, Side, Other
<1>8. v = [t EXCEPT ![l] = w]
  BY <1>3, <1>6
<1>9. v[l] = w /\ \A k \in DOMAIN t : k # l => v[k] = t[k]
  BY <1>2, <1>8
<1>10. RBNode(l, "red") \in RBNodes(D)
  BY <1>1, <1>2 DEF RBNode, RBNodes
<1>11. u[n] = RBNode(l, "red") /\ u[l] = w /\ \A k \in DOMAIN t : k # l => u[k] = t[k]
  BY <1>1, <1>2, <1>4, <1>9
<1>12. DOMAIN u = D /\ u \in [D -> RBNodes(D)]
  BY <1>1, <1>2, <1>4, <1>5, <1>7, <1>9, <1>10
<1>13. \A k \in DOMAIN t : u[k].color = t[k].color /\ u[k].parent = t[k].parent
  BY <1>7, <1>11
<1>14. \A k \in DOMAIN t, r \in Side : ~(k = l /\ r = e) => u[k][r] = t[k][r]
  <2>1. \A r \in Side : r # e => r = Other(e)
    BY DEF Side, Other
  <2> QED BY <1>7, <1>11, <2>1
<1> QED BY <1>1, <1>7, <1>11, <1>12, <1>13, <1>14 DEF Grafted

LEMMA GraftKeeps ==
  ASSUME NEW t, NEW T, NEW below, NEW f, NEW h, Settled(t, T, below, f, h),
         f \in [Node -> Nat], NEW n \in Node, n \notin DOMAIN t,
         NEW l \in T \cup {ROOT}, NEW e \in Side, t[l][e] = NIL,
         l = ROOT => e = "left",
         \A a \in T, r \in Side :
           (l = a /\ r = e) \/ l \in below[t[a][r]] => Upto(r, f[n], f[a]),
         NEW u, Grafted(t, T, u, n, l, e)
  PROVE  \E b, j : Inserting(u, T \cup {n}, b, f, j, n)
<1>1. /\ Linked(t, T) /\ Nested(t, T, below) /\ Ordered(t, T, below, f)
      /\ Balanced(t, T, h, NIL, "left") /\ Colored(t, T, NIL, NIL)
  BY DEF Settled
<1>2. /\ T \cup {ROOT, NIL} \subseteq DOMAIN t /\ NIL \notin T /\ ROOT \notin T /\ ROOT # NIL
      /\ T \subseteq Node /\ n \notin T /\ n # NIL /\ n # ROOT /\ n # l
  BY <1>1, TreeAssumption DEF Linked
<1>3. /\ DOMAIN u = DOMAIN t \cup {n} /\ u \in [DOMAIN u -> RBNodes(DOMAIN u)]
      /\ u[l][e] = n
      /\ \A k \in DOMAIN t : u[k].color = t[k].color /\ u[k].parent = t[k].parent
      /\ \A k \in DOMAIN t, r \in Side : ~(k = l /\ r = e) => u[k][r] = t[k][r]
  BY DEF Grafted
<1>4. /\ u[n].parent = l /\ u[n].color = "red" /\ u[n].left = NIL /\ u[n].right = NIL
      /\ \A r \in Side : u[n][r] = NIL
  BY DEF Grafted, RBNode, Side
<1>5. \A k \in T \cup {ROOT}, r \in Side : t[k][r] \in T \cup {NIL} /\ t[k][r] # n
  BY <1>1, <1>2, Kids
<1>6. Linked(u, T \cup {n})
  <2>1. T \cup {n} \subseteq Node /\ (T \cup {n}) \cup {ROOT, NIL} \subseteq DOMAIN u
    BY <1>2, <1>3
  <2>2. ASSUME NEW k \in T \cup {n} \cup {ROOT}, NEW r \in Side, u[k][r] # NIL
        PROVE  u[k][r] \in T \cup {n} /\ u[u[k][r]].parent = k
    <3>1. CASE k = n
      BY <1>4, <2>2, <3>1
    <3>2. CASE k = l /\ r = e
      BY <1>3, <1>4, <3>2
    <3>3. CASE k # n /\ ~(k = l /\ r = e)
      <4>1. k \in T \cup {ROOT} /\ u[k][r] = t[k][r]
        BY <1>2, <1>3, <3>3
      <4>2. t[k][r] \in T /\ t[t[k][r]].parent = k
        BY <1>1, <2>2, <4>1 DEF Linked
      <4> QED BY <1>2, <1>3, <4>1, <4>2
    <3> QED BY <3>1, <3>2, <3>3
  <2>3. ASSUME NEW k \in T \cup {n}
        PROVE  u[k].parent \in T \cup {n} \cup {ROOT} /\ u[u[k].parent][SideOf(u, k)] = k
    <3>1. CASE k = n
      <4>1. SideOf(u, n) = e
        <5>1. CASE e = "left"
          BY <1>3, <1>4, <5>1 DEF SideOf
        <5>2. CASE e = "right"
          <6>1. u[l].left = t[l].left /\ t[l].left # n
            BY <1>2, <1>3, <1>5, <5>2 DEF Side
          <6> QED BY <1>4, <5>2, <6>1 DEF SideOf
        <5> QED BY <5>1, <5>2 DEF Side
      <4> QED BY <1>3, <1>4, <3>1, <4>1
    <3>2. CASE k \in T
      <4>1. PICK q : q = t[k].parent
        OBVIOUS
      <4>2. q \in T \cup {ROOT} /\ t[q][SideOf(t, k)] = k /\ u[k].parent = q
        BY <1>1, <1>2, <1>3, <3>2, <4>1 DEF Linked
      <4>3. (k = u[q].left) <=> (k = t[q].left)
        BY <1>2, <1>3, <3>2, <4>2 DEF Side
      <4>4. SideOf(u, k) = SideOf(t, k)
        BY <4>1, <4>2, <4>3 DEF SideOf
      <4>5. ~(q = l /\ SideOf(t, k) = e)
        BY <1>2, <3>2, <4>2
      <4>6. SideOf(t, k) \in Side
        BY DEF SideOf, Side
      <4> QED BY <1>2, <1>3, <4>2, <4>4, <4>5, <4>6
    <3> QED BY <3>1, <3>2
  <2>4. u[ROOT].right = NIL /\ \A r \in Side : u[NIL][r] = NIL
    <3>1. ~(ROOT = l /\ "right" = e) /\ NIL # l
      BY <1>2
    <3>2. t[ROOT].right = NIL /\ \A r \in Side : t[NIL][r] = NIL
      BY <1>1 DEF Linked
    <3> QED BY <1>2, <1>3, <3>1, <3>2 DEF Side
  <2> QED BY <1>3, <2>1, <2>2, <2>3, <2>4 DEF Linked
<1>7. PICK b : b = [k \in T \cup {n} \cup {ROOT, NIL} |->
                      IF k = n THEN {n}
                      ELSE IF k = ROOT \/ l \in below[k] THEN below[k] \cup {n} ELSE below[k]]
  OBVIOUS
<1>8. /\ below \in [T \cup {ROOT, NIL} -> SUBSET T] /\ below[NIL] = {} /\ below[ROOT] = T
      /\ below[t[ROOT].left] = T
  BY <1>1 DEF Nested
<1>9. /\ b \in [T \cup {n} \cup {ROOT, NIL} -> SUBSET (T \cup {n})]
      /\ b[n] = {n} /\ b[NIL] = {} /\ b[ROOT] = T \cup {n}
      /\ \A k \in T : b[k] = IF l \in below[k] THEN below[k] \cup {n} ELSE below[k]
  BY <1>2, <1>7, <1>8
<1>10. ASSUME NEW k \in T \cup {ROOT}, NEW r \in Side
       PROVE  b[u[k][r]] = IF (k = l /\ r = e) \/ l \in below[t[k][r]]
                           THEN below[t[k][r]] \cup {n} ELSE below[t[k][r]]
  <2>1. CASE k = l /\ r = e
    BY <1>3, <1>8, <1>9, <2>1
  <2>2. CASE ~(k = l /\ r = e)
    <3>1. u[k][r] = t[k][r]
      BY <1>2, <1>3, <2>2
    <3> QED BY <1>5, <1>8, <1>9, <2>2, <3>1
  <2> QED BY <2>1, <2>2
<1>11. \A k \in T : \A r \in Side : ~(k = l /\ l \in below[t[k][r]])
  BY <1>1 DEF Nested
<1>12. Nested(u, T \cup {n}, b)
  <2>1. b[u[ROOT].left] = T \cup {n}
    <3>1. CASE l = ROOT
      BY <1>3, <1>8, <1>9, <3>1
    <3>2. CASE l # ROOT
      BY <1>8, <1>10, <3>2 DEF Side
    <3> QED BY <3>1, <3>2
  <2>2. ASSUME NEW k \in T \cup {n}, NEW r \in Side PROVE k \notin b[u[k][r]]
    <3>1. CASE k = n
      BY <1>4, <1>9, <3>1
    <3>2. CASE k \in T
      <4>1. k \notin below[t[k][r]] /\ k # n
        BY <1>1, <1>2, <3>2 DEF Nested
      <4>2. b[u[k][r]] \subseteq below[t[k][r]] \cup {n}
        BY <1>10, <3>2
      <4> QED BY <4>1, <4>2
    <3> QED BY <3>1, <3>2
  <2>3. ASSUME NEW k \in T \cup {n}
        PROVE  /\ b[k] = {k} \cup b[u[k].left] \cup b[u[k].right]
               /\ b[u[k].left] \cap b[u[k].right] = {}
    <3>1. CASE k = n
      BY <1>4, <1>9, <3>1
    <3>2. CASE k \in T
      <4>1. PICK i, j : i = below[t[k].left] /\ j = below[t[k].right]
        OBVIOUS
      <4>2. /\ below[k] = {k} \cup i \cup j /\ i \cap j = {} /\ k \notin i /\ k \notin j
            /\ n \notin i /\ n \notin j
        <5>1. below[k] = {k} \cup i \cup j /\ i \cap j = {} /\ k \notin i /\ k \notin j
          BY <1>1, <3>2, <4>1 DEF Nested, Side
        <5>2. below[k] \subseteq T
          BY <1>8, <3>2
        <5> QED BY <1>2, <5>1, <5>2
      <4>3. b[u[k].left] = IF (k = l /\ e = "left") \/ l \in i THEN i \cup {n} ELSE i
        BY <1>10, <3>2, <4>1 DEF Side
      <4>4. b[u[k].right] = IF (k = l /\ e = "right") \/ l \in j THEN j \cup {n} ELSE j
        BY <1>10, <3>2, <4>1 DEF Side
      <4>5. b[k] = IF l \in below[k] THEN below[k] \cup {n} ELSE below[k]
        BY <1>9, <3>2
      <4> QED BY <4>2, <4>3, <4>4, <4>5 DEF Side
    <3> QED BY <3>1, <3>2
  <2> QED BY <1>9, <2>1, <2>2, <2>3 DEF Nested
<1>13. Ordered(u, T \cup {n}, b, f)
  <2> SUFFICES ASSUME NEW k \in T \cup {n}, NEW r \in Side, NEW m \in b[u[k][r]]
               PROVE  Upto(r, f[m], f[k])
    BY DEF Ordered
  <2>1. k \in T
    BY <1>4, <1>9
  <2>2. CASE m \in below[t[k][r]]
    BY <1>1, <2>1, <2>2 DEF Ordered
  <2>3. CASE m = n /\ ((k = l /\ r = e) \/ l \in below[t[k][r]])
    BY <2>1, <2>3
  <2>4. CASE (k = l /\ r = e) \/ l \in below[t[k][r]]
    <3>1. b[u[k][r]] = below[t[k][r]] \cup {n}
      BY <1>10, <2>1, <2>4
    <3> QED BY <2>2, <2>3, <2>4, <3>1
  <2>5. CASE ~((k = l /\ r = e) \/ l \in below[t[k][r]])
    <3>1. b[u[k][r]] = below[t[k][r]]
      BY <1>10, <2>1, <2>5
    <3> QED BY <2>2, <3>1
  <2> QED BY <2>4, <2>5
<1>14. \E j : Balanced(u, T \cup {n}, j, NIL, "left")
  <2>1. PICK j : j = [k \in T \cup {n} \cup {NIL} |-> IF k = n THEN 0 ELSE h[k]]
    OBVIOUS
  <2>2. h \in [T \cup {NIL} -> Nat] /\ h[NIL] = 0
    BY <1>1 DEF Balanced
  <2>3. /\ j \in [T \cup {n} \cup {NIL} -> Nat] /\ j[NIL] = 0 /\ j[n] = 0
        /\ \A k \in T : j[k] = h[k]
    BY <1>2, <2>1, <2>2
  <2>4. ASSUME NEW k \in T \cup {n}, NEW s \in Side
        PROVE  j[k] = j[u[k][s]] + Lack(k, s, NIL, "left") + Black(u, k)
    <3>1. CASE k = n
      BY <1>2, <1>4, <2>3, <3>1 DEF Black, Lack
    <3>2. CASE k \in T
      <4>1. h[k] = h[t[k][s]] + Lack(k, s, NIL, "left") + Black(t, k)
        BY <1>1, <3>2 DEF Balanced
      <4>2. j[u[k][s]] = h[t[k][s]]
        BY <1>2, <1>3, <1>5, <2>2, <2>3, <3>2
      <4>3. Black(u, k) = Black(t, k)
        BY <1>2, <1>3, <3>2 DEF Black
      <4> QED BY <2>3, <3>2, <4>1, <4>2, <4>3
    <3> QED BY <3>1, <3>2
  <2>5. Balanced(u, T \cup {n}, j, NIL, "left")
    BY <2>3, <2>4 DEF Balanced
  <2> QED BY <2>5
<1>15. Colored(u, T \cup {n}, n, NIL)
  <2>1. u[ROOT].color = "black" /\ u[NIL].color = "black"
    BY <1>1, <1>2, <1>3 DEF Colored
  <2>2. ASSUME NEW k \in T, u[k].color = "red"
        PROVE  u[k].parent # ROOT /\ u[u[k].parent].color = "black"
    <3>1. t[k].color = "red" /\ u[k].parent = t[k].parent /\ t[k].parent \in T \cup {ROOT}
      <4>1. t[k].parent \in T \cup {ROOT}
        BY <1>1 DEF Linked
      <4> QED BY <1>2, <1>3, <2>2, <4>1
    <3>2. t[k].parent # ROOT /\ t[t[k].parent].color = "black"
      BY <1>1, <1>2, <3>1 DEF Colored
    <3> QED BY <1>2, <1>3, <3>1, <3>2
  <2> QED BY <2>1, <2>2 DEF Colored
<1> QED BY <1>4, <1>6, <1>12, <1>13, <1>14, <1>15 DEF Inserting

-----------------------------------------------------------------------------
(* Take: the child x of y, which has no other one, takes the place of y.    *)
Pruned(t, u, x, p, e) ==
  /\ DOMAIN u = DOMAIN t
  /\ u \in [DOMAIN t -> RBNodes(DOMAIN t)]
  /\ u[p][e] = x /\ u[x].parent = p
  /\ \A k \in DOMAIN t : u[k].color = t[k].color /\ (k # x => u[k].parent = t[k].parent)
  /\ \A k \in DOMAIN t, r \in Side : ~(k = p /\ r = e) => u[k][r] = t[k][r]

LEMMA PruneLinks ==
  ASSUME NEW t, NEW T, Linked(t, T), NEW x \in T \cup {NIL}, NEW p \in T \cup {ROOT},
         NEW e \in Side, x # p
  PROVE  Pruned(t, [t EXCEPT ![x].parent = p, ![p][e] = x], x, p, e)
<1>1. PICK D : D = DOMAIN t
  OBVIOUS
<1>2. /\ x \in D /\ p \in D /\ p \in Node \cup {ROOT, NIL} /\ t \in [D -> RBNodes(D)]
  BY <1>1 DEF Linked
<1>3. PICK v : v = [t EXCEPT ![x].parent = p]
  OBVIOUS
<1>4. PICK u : u = [v EXCEPT ![p][e] = x]
  OBVIOUS
<1>5. u = [t EXCEPT ![x].parent = p, ![p][e] = x]
  BY <1>3, <1>4
<1>6. ParentSet(D, t, v, x, p)
  BY <1>2, <1>3, SetParent
<1>7. KidSet(D, v, u, p, e, x)
  BY <1>2, <1>4, <1>6, SetKid DEF ParentSet
<1>8. \A r \in Side : r = e \/ r = Other(e)
  BY DEF Side, Other
<1>9. u \in [D -> RBNodes(D)] /\ u[p][e] = x /\ u[x].parent = p
  BY <1>2, <1>6, <1>7 DEF KidSet, ParentSet
<1>10. \A k \in D : u[k].color = t[k].color /\ (k # x => u[k].parent = t[k].parent)
  BY <1>6, <1>7 DEF KidSet, ParentSet
<1>11. \A k \in D, r \in Side : ~(k = p /\ r = e) => u[k][r] = t[k][r]
  <2> SUFFICES ASSUME NEW k \in D, NEW r \in Side, ~(k = p /\ r = e)
               PROVE  u[k][r] = t[k][r]
    OBVIOUS
  <2>1. v[k][r] = t[k][r]
    BY <1>6 DEF ParentSet
  <2>2. CASE k = p
    BY <1>7, <1>8, <2>1, <2>2 DEF KidSet
  <2>3. CASE k # p
    BY <1>7, <2>1, <2>3 DEF KidSet
  <2> QED BY <2>2, <2>3
<1> QED BY <1>1, <1>5, <1>9, <1>10, <1>11 DEF Pruned

OrderedBut(t, T, below, w, y) ==
  \A k \in T \ {y} : \A r \in Side : \A m \in below[t[k][r]] \ {y} : Upto(r, w[m], w[k])

Cut(t, x, p, e) == [t EXCEPT ![x].parent = p, ![p][e] = x]

(* The node x below y takes the place of y, which has no other child.       *)
Leaving(t, y, x) ==
  /\ t[y].left = NIL \/ t[y].right = NIL
  /\ x = IF t[y].left = NIL THEN t[y].right ELSE t[y].left

LEMMA PruneKeeps ==
  ASSUME NEW t, NEW T, NEW below, NEW f, NEW h, Settled(t, T, below, f, h),
         NEW y \in T, NEW x, Leaving(t, y, x),
         NEW p, p = t[y].parent, NEW e, e = SideOf(t, y),
         NEW w, OrderedBut(t, T, below, w, y)
  PROVE  \E u :
           /\ u = Cut(t, x, p, e)
           /\ DOMAIN u = DOMAIN t
           /\ x \in (T \ {y}) \cup {NIL}
           /\ t[y].color = "black" => \E b, j : Repairing(u, T \ {y}, b, w, j, x)
           /\ t[y].color # "black" => \E b, j : Settled(u, T \ {y}, b, w, j)
<1> USE DEF Leaving
<1>1. /\ Linked(t, T) /\ Nested(t, T, below)
      /\ Balanced(t, T, h, NIL, "left") /\ Colored(t, T, NIL, NIL)
  BY DEF Settled
<1>2. /\ T \cup {ROOT, NIL} \subseteq DOMAIN t /\ NIL \notin T /\ ROOT \notin T /\ ROOT # NIL
      /\ T \subseteq Node
  BY <1>1, TreeAssumption DEF Linked
<1>3. /\ below \in [T \cup {ROOT, NIL} -> SUBSET T] /\ below[NIL] = {} /\ below[ROOT] = T
      /\ below[t[ROOT].left] = T
  BY <1>1 DEF Nested
<1>4. PICK i : i \in Side /\ x = t[y][i] /\ t[y][Other(i)] = NIL
  <2>1. CASE t[y].left = NIL
    BY <2>1 DEF Side, Other
  <2>2. CASE t[y].left # NIL
    BY <2>2 DEF Side, Other
  <2> QED BY <2>1, <2>2
<1>5. /\ x \in T \cup {NIL} /\ p \in T \cup {ROOT} /\ e \in Side /\ t[p][e] = y
      /\ \A r \in Side : r = i \/ r = Other(i)
  <2>1. x \in T \cup {NIL}
    BY <1>1, <1>4, Kids
  <2>2. \A r \in Side : r = i \/ r = Other(i)
    BY <1>4 DEF Side, Other
  <2> QED BY <1>1, <2>1, <2>2 DEF Linked, SideOf, Side
<1>6. below[y] = {y} \cup below[x] /\ y \notin below[x] /\ y # x
  <2>1. /\ below[y] = {y} \cup below[t[y][i]] \cup below[t[y][Other(i)]]
        /\ y \notin below[t[y][i]] /\ t[y][i] # y
    BY <1>1, <1>4, KidsBelow
  <2> QED BY <1>3, <1>4, <2>1
<1>7. p # y
  <2>1. p \in T => t[p][e] # p
    BY <1>1, <1>5, KidsBelow
  <2> QED BY <1>2, <1>5, <2>1
<1>8. x # p
  <2>1. x = NIL => x # p
    BY <1>2, <1>5
  <2>2. x # NIL => x # p
    BY <1>1, <1>4, Apart
  <2> QED BY <2>1, <2>2
<1>9. PICK u : u = Cut(t, x, p, e)
  OBVIOUS
<1>10. Pruned(t, u, x, p, e)
  <2>1. Pruned(t, [t EXCEPT ![x].parent = p, ![p][e] = x], x, p, e)
    BY <1>1, <1>5, <1>8, PruneLinks
  <2> QED BY <1>9, <2>1 DEF Cut
<1>11. /\ DOMAIN u = DOMAIN t /\ u \in [DOMAIN t -> RBNodes(DOMAIN t)]
       /\ u[p][e] = x /\ u[x].parent = p
       /\ \A k \in DOMAIN t : u[k].color = t[k].color /\ (k # x => u[k].parent = t[k].parent)
       /\ \A k \in DOMAIN t, r \in Side : ~(k = p /\ r = e) => u[k][r] = t[k][r]
  BY <1>10 DEF Pruned
<1>12. \A k \in T \cup {ROOT}, r \in Side : t[k][r] = y => k = p /\ r = e
  BY <1>1, OnePlace
<1>13. x \in T => t[x].parent = y
  BY <1>1, <1>2, <1>4 DEF Linked
<1>14. ASSUME NEW k \in T, k # x, k # y PROVE t[k].parent \in (T \ {y}) \cup {ROOT}
  <2>1. PICK r \in Side : t[t[k].parent][r] = k
    BY <1>1 DEF Linked, SideOf, Side
  <2>2. t[k].parent # y
    BY <1>2, <1>4, <1>5, <1>14, <2>1
  <2> QED BY <1>1, <2>2 DEF Linked
<1>15. SideOf(u, x) = e \/ x = NIL
  <2>1. CASE e = "left"
    BY <1>11, <2>1 DEF SideOf
  <2>2. CASE e = "right" /\ x # NIL
    <3>1. u[p].left = t[p].left
      BY <1>2, <1>5, <1>11, <2>2 DEF Side
    <3>2. t[p].left # x
      <4>1. t[p].left = x => t[x].parent = p
        BY <1>1, <1>5, <2>2 DEF Linked, Side
      <4> QED BY <1>5, <1>7, <1>13, <2>2, <4>1
    <3> QED BY <1>11, <2>2, <3>1, <3>2 DEF SideOf
  <2> QED BY <1>5, <2>1, <2>2 DEF Side
<1>16. Linked(u, T \ {y})
  <2>1. T \ {y} \subseteq Node /\ (T \ {y}) \cup {ROOT, NIL} \subseteq DOMAIN u
    BY <1>2, <1>11
  <2>2. ASSUME NEW k \in (T \ {y}) \cup {ROOT}, NEW r \in Side, u[k][r] # NIL
        PROVE  u[k][r] \in T \ {y} /\ u[u[k][r]].parent = k
    <3>1. CASE k = p /\ r = e
      BY <1>5, <1>6, <1>11, <2>2, <3>1
    <3>2. CASE ~(k = p /\ r = e)
      <4>1. u[k][r] = t[k][r] /\ t[k][r] # y
        BY <1>2, <1>11, <1>12, <3>2
      <4>2. t[k][r] \in T /\ t[t[k][r]].parent = k
        BY <1>1, <2>2, <4>1 DEF Linked
      <4>3. t[k][r] # x
        BY <1>2, <1>13, <4>2
      <4> QED BY <1>2, <1>11, <4>1, <4>2, <4>3
    <3> QED BY <3>1, <3>2
  <2>3. ASSUME NEW k \in T \ {y}
        PROVE  u[k].parent \in (T \ {y}) \cup {ROOT} /\ u[u[k].parent][SideOf(u, k)] = k
    <3>1. CASE k = x
      <4>1. SideOf(u, k) = e
        BY <1>2, <1>15, <3>1
      <4> QED BY <1>5, <1>7, <1>11, <3>1, <4>1
    <3>2. CASE k # x
      <4>1. PICK q : q = t[k].parent
        OBVIOUS
      <4>2. q \in (T \ {y}) \cup {ROOT} /\ t[q][SideOf(t, k)] = k /\ u[k].parent = q
        <5>1. t[q][SideOf(t, k)] = k
          BY <1>1, <4>1 DEF Linked
        <5> QED BY <1>2, <1>11, <1>14, <3>2, <4>1, <5>1
      <4>3. (k = u[q].left) <=> (k = t[q].left)
        BY <1>2, <1>5, <1>11, <3>2, <4>2 DEF Side
      <4>4. SideOf(u, k) = SideOf(t, k)
        BY <4>1, <4>2, <4>3 DEF SideOf
      <4>5. ~(q = p /\ SideOf(t, k) = e)
        BY <1>5, <4>2
      <4>6. SideOf(t, k) \in Side
        BY DEF SideOf, Side
      <4> QED BY <1>2, <1>11, <4>2, <4>4, <4>5, <4>6
    <3> QED BY <3>1, <3>2
  <2>4. u[ROOT].right = NIL /\ \A r \in Side : u[NIL][r] = NIL
    <3>1. t[ROOT].right = NIL /\ \A r \in Side : t[NIL][r] = NIL
      BY <1>1 DEF Linked
    <3>2. ~(ROOT = p /\ "right" = e) /\ NIL # p
      BY <1>2, <1>5, <3>1
    <3> QED BY <1>2, <1>11, <3>1, <3>2 DEF Side
  <2> QED BY <1>11, <2>1, <2>2, <2>3, <2>4 DEF Linked
<1>17. PICK b : b = [k \in (T \ {y}) \cup {ROOT, NIL} |-> below[k] \ {y}]
  OBVIOUS
<1>18. /\ b \in [(T \ {y}) \cup {ROOT, NIL} -> SUBSET (T \ {y})]
       /\ \A k \in (T \ {y}) \cup {ROOT, NIL} : b[k] = below[k] \ {y}
  BY <1>2, <1>3, <1>17
<1>19. ASSUME NEW k \in (T \ {y}) \cup {ROOT}, NEW r \in Side
       PROVE  b[u[k][r]] = below[t[k][r]] \ {y}
  <2>1. CASE k = p /\ r = e
    BY <1>5, <1>6, <1>11, <1>18, <2>1
  <2>2. CASE ~(k = p /\ r = e)
    <3>1. u[k][r] = t[k][r] /\ t[k][r] # y
      BY <1>2, <1>11, <1>12, <2>2
    <3>2. t[k][r] \in T \cup {NIL}
      BY <1>1, Kids
    <3> QED BY <1>18, <3>1, <3>2
  <2> QED BY <2>1, <2>2
<1>20. Nested(u, T \ {y}, b)
  <2>1. /\ b[NIL] = {} /\ b[ROOT] = T \ {y} /\ b[u[ROOT].left] = T \ {y}
    BY <1>3, <1>18, <1>19 DEF Side
  <2>2. ASSUME NEW k \in T \ {y}, NEW r \in Side PROVE k \notin b[u[k][r]]
    <3>1. k \notin below[t[k][r]]
      BY <1>1 DEF Nested
    <3> QED BY <1>19, <3>1
  <2>3. ASSUME NEW k \in T \ {y}
        PROVE  /\ b[k] = {k} \cup b[u[k].left] \cup b[u[k].right]
               /\ b[u[k].left] \cap b[u[k].right] = {}
    <3>1. b[u[k].left] = below[t[k].left] \ {y} /\ b[u[k].right] = below[t[k].right] \ {y}
      BY <1>19 DEF Side
    <3>2. /\ below[k] = {k} \cup below[t[k].left] \cup below[t[k].right]
          /\ below[t[k].left] \cap below[t[k].right] = {}
      BY <1>1 DEF Nested
    <3>3. b[k] = below[k] \ {y}
      BY <1>18
    <3> QED BY <3>1, <3>2, <3>3
  <2> QED BY <1>18, <2>1, <2>2, <2>3 DEF Nested
<1>21. Ordered(u, T \ {y}, b, w)
  <2> SUFFICES ASSUME NEW k \in T \ {y}, NEW r \in Side, NEW m \in b[u[k][r]]
               PROVE  Upto(r, w[m], w[k])
    BY DEF Ordered
  <2>1. m \in below[t[k][r]] \ {y}
    BY <1>19
  <2> QED BY <2>1 DEF OrderedBut
<1>22. PICK j : j = [k \in (T \ {y}) \cup {NIL} |-> h[k]]
  OBVIOUS
<1>23. /\ h \in [T \cup {NIL} -> Nat] /\ h[NIL] = 0
       /\ \A k \in T, s \in Side : h[k] = h[t[k][s]] + Black(t, k)
  <2>1. \A k \in T, s \in Side : Lack(k, s, NIL, "left") = 0
    BY <1>2 DEF Lack
  <2>2. h \in [T \cup {NIL} -> Nat] /\ h[NIL] = 0
    BY <1>1 DEF Balanced
  <2>3. \A k \in T, s \in Side : h[k] = h[t[k][s]] + Lack(k, s, NIL, "left") + Black(t, k)
    BY <1>1 DEF Balanced
  <2>4. ASSUME NEW k \in T, NEW s \in Side PROVE h[k] = h[t[k][s]] + Black(t, k)
    <3>1. t[k][s] \in T \cup {NIL} /\ Black(t, k) \in Nat
      BY <1>1, Kids DEF Black
    <3>2. h[t[k][s]] \in Nat
      BY <2>2, <3>1
    <3> QED BY <2>1, <2>3, <3>1, <3>2
  <2> QED BY <2>2, <2>4
<1>24. /\ j \in [(T \ {y}) \cup {NIL} -> Nat] /\ j[NIL] = 0
       /\ \A k \in (T \ {y}) \cup {NIL} : j[k] = h[k]
  BY <1>2, <1>22, <1>23
<1>25. \A k \in T : Black(u, k) = Black(t, k)
  BY <1>2, <1>11 DEF Black
<1>26. h[y] = h[x] + Black(t, y)
  BY <1>4, <1>23
<1>27. ASSUME NEW k \in T \ {y}, NEW r \in Side, ~(k = p /\ r = e)
       PROVE  j[k] = j[u[k][r]] + Black(u, k)
  <2>1. u[k][r] = t[k][r] /\ t[k][r] # y /\ t[k][r] \in T \cup {NIL}
    BY <1>1, <1>2, <1>11, <1>12, <1>27, Kids
  <2> QED BY <1>23, <1>24, <1>25, <2>1
<1>28. ASSUME p \in T PROVE j[p] = j[u[p][e]] + Black(t, y) + Black(u, p)
  <2>1. h[p] = h[y] + Black(t, p)
    BY <1>5, <1>23, <1>28
  <2>2. j[u[p][e]] = h[x] /\ j[p] = h[p]
    BY <1>5, <1>6, <1>7, <1>11, <1>24, <1>28
  <2>3. Black(u, p) = Black(t, p) /\ Black(t, p) \in Nat /\ Black(t, y) \in Nat /\ h[x] \in Nat
    BY <1>5, <1>23, <1>25, <1>28 DEF Black
  <2> QED BY <1>26, <2>1, <2>2, <2>3
<1>29. /\ u[ROOT].color = "black" /\ u[NIL].color = "black"
       /\ \A k \in (T \ {y}) \ {x} : u[k].color = "red" =>
            u[k].parent # ROOT /\ u[u[k].parent].color = "black"
  <2>1. u[ROOT].color = "black" /\ u[NIL].color = "black"
    BY <1>1, <1>2, <1>11 DEF Colored
  <2>2. ASSUME NEW k \in T \ {y}, k # x, u[k].color = "red"
        PROVE  u[k].parent # ROOT /\ u[u[k].parent].color = "black"
    <3>1. t[k].color = "red" /\ u[k].parent = t[k].parent /\ t[k].parent \in T \cup {ROOT}
      BY <1>2, <1>11, <1>14, <2>2
    <3>2. t[k].parent # ROOT /\ t[t[k].parent].color = "black"
      BY <1>1, <1>2, <3>1 DEF Colored
    <3> QED BY <1>2, <1>11, <3>1, <3>2
  <2> QED BY <2>1, <2>2
<1>30. x \in (T \ {y}) \cup {NIL}
  BY <1>5, <1>6
<1>31. ASSUME t[y].color = "black" PROVE Repairing(u, T \ {y}, b, w, j, x)
  <2>1. Black(t, y) = 1
    BY <1>31 DEF Black
  <2>2. SideOf(u, x) = e
    <3>1. CASE x = NIL /\ e = "right"
      <4>1. CASE p = ROOT
        BY <1>1, <1>2, <1>5, <3>1, <4>1 DEF Linked
      <4>2. CASE p \in T
        <5>1. h[p] = h[t[p].left] + Black(t, p) /\ h[p] = h[y] + Black(t, p)
          BY <1>5, <1>23, <3>1, <4>2 DEF Side
        <5>2. t[p].left \in T \cup {NIL}
          BY <1>1, <4>2, Kids DEF Side
        <5>3. h[y] = 1
          BY <1>23, <1>26, <2>1, <3>1
        <5>4. Black(t, p) \in Nat /\ h[t[p].left] \in Nat
          BY <1>23, <5>2 DEF Black
        <5>5. t[p].left # NIL
          BY <1>23, <5>1, <5>3, <5>4
        <5>6. u[p].left = t[p].left
          BY <1>2, <1>11, <3>1, <4>2 DEF Side
        <5> QED BY <1>11, <3>1, <5>5, <5>6 DEF SideOf
      <4> QED BY <1>5, <4>1, <4>2
    <3>2. CASE x = NIL /\ e = "left"
      BY <1>11, <3>2 DEF SideOf
    <3> QED BY <1>5, <1>15, <3>1, <3>2 DEF Side
  <2>3. ASSUME NEW k \in T \ {y}, NEW r \in Side
        PROVE  j[k] = j[u[k][r]] + Lack(k, r, p, e) + Black(u, k)
    <3>1. CASE k = p /\ r = e
      BY <1>28, <2>1, <3>1 DEF Lack
    <3>2. CASE ~(k = p /\ r = e)
      <4>1. j[u[k][r]] \in Nat /\ Black(u, k) \in Nat
        <5>1. u[k][r] \in (T \ {y}) \cup {NIL}
          BY <1>16, Kids
        <5> QED BY <1>24, <5>1 DEF Black
      <4>2. Lack(k, r, p, e) = 0
        BY <3>2 DEF Lack
      <4> QED BY <1>27, <3>2, <4>1, <4>2
    <3> QED BY <3>1, <3>2
  <2>4. Balanced(u, T \ {y}, j, u[x].parent, SideOf(u, x))
    BY <1>11, <1>24, <2>2, <2>3 DEF Balanced
  <2>5. Held(u, T \ {y}, x)
    <3>1. p = ROOT => e = "left"
      BY <1>1, <1>2, <1>5 DEF Linked, Side
    <3> QED BY <1>5, <1>7, <1>11, <1>30, <2>2, <3>1 DEF Held
  <2>6. Colored(u, T \ {y}, x, x)
    BY <1>29 DEF Colored
  <2> QED BY <1>16, <1>20, <1>21, <2>4, <2>5, <2>6 DEF Repairing
<1>32. ASSUME t[y].color # "black" PROVE Settled(u, T \ {y}, b, w, j)
  <2>1. Black(t, y) = 0 /\ t[y].color = "red"
    BY <1>1, <1>32, BlackOrRed DEF Black
  <2>2. ASSUME NEW k \in T \ {y}, NEW r \in Side
        PROVE  j[k] = j[u[k][r]] + Lack(k, r, NIL, "left") + Black(u, k)
    <3>1. j[u[k][r]] \in Nat /\ Black(u, k) \in Nat
      <4>1. u[k][r] \in (T \ {y}) \cup {NIL}
        BY <1>16, Kids
      <4> QED BY <1>24, <4>1 DEF Black
    <3>2. Lack(k, r, NIL, "left") = 0
      BY <1>2 DEF Lack
    <3>3. j[k] = j[u[k][r]] + Black(u, k)
      <4>1. CASE k = p /\ r = e
        BY <1>28, <2>1, <3>1, <4>1
      <4>2. CASE ~(k = p /\ r = e)
        BY <1>27, <4>2
      <4> QED BY <4>1, <4>2
    <3> QED BY <3>1, <3>2, <3>3
  <2>3. Balanced(u, T \ {y}, j, NIL, "left")
    BY <1>24, <2>2 DEF Balanced
  <2>4. Colored(u, T \ {y}, NIL, NIL)
    <3>1. ASSUME x \in T, u[x].color = "red" PROVE FALSE
      <4>1. t[x].color = "red" /\ t[x].parent = y
        BY <1>2, <1>11, <1>13, <3>1
      <4> QED BY <1>1, <1>2, <2>1, <3>1, <4>1 DEF Colored
    <3> QED BY <1>29, <3>1 DEF Colored
  <2> QED BY <1>16, <1>20, <1>21, <2>3, <2>4 DEF Settled
<1> QED BY <1>9, <1>11, <1>30, <1>31, <1>32

(* With the size of the node after it, the node z is in order without that  *)
(* node.                                                                    *)
LEMMA WorthOrdered ==
  ASSUME NEW t, NEW T, NEW below, Linked(t, T), Nested(t, T, below), IsFiniteSet(T),
         Ordered(t, T, below, Size), NEW z \in T, NEW y \in below[t[z].right],
         \A m \in below[t[z].right] : Size[y] <= Size[m],
         NEW w \in [Node -> Nat], w[z] = Size[y], \A m \in T \ {z} : w[m] = Size[m]
  PROVE  OrderedBut(t, T, below, w, y)
<1> SUFFICES ASSUME NEW k \in T \ {y}, NEW r \in Side, NEW m \in below[t[k][r]] \ {y}
             PROVE  Upto(r, w[m], w[k])
  BY DEF OrderedBut
<1>1. T \subseteq Node /\ NIL \notin T /\ below[NIL] = {}
  BY TreeAssumption DEF Linked, Nested
<1>2. /\ t[z].right \in T /\ y \in T /\ t[k][r] \in T /\ m \in T
      /\ below[y] \subseteq below[t[z].right] /\ below[m] \subseteq below[t[k][r]]
  <2>1. t[z].right \in T /\ t[k][r] \in T
    BY <1>1, Kids DEF Side
  <2> QED BY <2>1, BelowBelow
<1>3. Size[y] \in Nat /\ Size[z] \in Nat /\ Size[m] \in Nat /\ Size[k] \in Nat
  BY <1>1, <1>2, TreeAssumption
<1>4. Upto("right", Size[y], Size[z])
  BY DEF Ordered, Side
<1>5. Upto(r, Size[m], Size[k])
  BY DEF Ordered
<1>6. CASE k = z
  <2>1. m # z
    BY <1>6 DEF Nested
  <2>2. CASE r = "left"
    BY <1>2, <1>3, <1>4, <1>5, <1>6, <2>1, <2>2 DEF Upto
  <2>3. CASE r = "right"
    BY <1>2, <1>6, <2>1, <2>3 DEF Upto
  <2> QED BY <2>2, <2>3 DEF Side
<1>7. CASE k # z /\ m = z
  <2>1. y \in below[z]
    BY KidsBelow DEF Side
  <2>2. y \in below[t[k][r]]
    BY <1>2, <1>7, <2>1
  <2>3. Upto(r, Size[y], Size[k])
    BY <2>2 DEF Ordered
  <2> QED BY <1>7, <2>3
<1>8. CASE k # z /\ m # z
  BY <1>2, <1>5, <1>8
<1> QED BY <1>6, <1>7, <1>8

-----------------------------------------------------------------------------
(* Splice: the node y, which is out of the tree, takes the place of z.      *)
Spliced(t, T, u, z, y, p, e) ==
  LET U == (T \ {z}) \cup {y}
  IN  /\ DOMAIN u = U \cup {ROOT, NIL}
      /\ u \in [DOMAIN u -> RBNodes(DOMAIN u)]
      /\ u[y].parent = p /\ u[y].color = t[z].color /\ u[p][e] = y
      /\ \A s \in Side : u[y][s] = t[z][s]
      /\ \A k \in (T \ {z}) \cup {ROOT, NIL} : u[k].color = t[k].color
      /\ \A k \in T \ {z} : u[k].parent = IF t[k].parent = z THEN y ELSE t[k].parent
      /\ \A k \in (T \ {z}) \cup {ROOT, NIL}, s \in Side :
           ~(k = p /\ s = e) => u[k][s] = t[k][s]

Moved(t, z, y, p, e) ==
  [t EXCEPT ![y] = t[z], ![t[z].left].parent = y, ![t[z].right].parent = y, ![p][e] = y]

LEMMA SpliceLinks ==
  ASSUME NEW t, NEW T, NEW below, Linked(t, T), Nested(t, T, below), NEW z \in T,
         NEW y \in Node \ T, DOMAIN t = T \cup {y, ROOT, NIL},
         NEW p, p = t[z].parent, NEW e, e = SideOf(t, z)
  PROVE  \E u : /\ u = [n \in DOMAIN t \ {z} |-> Moved(t, z, y, p, e)[n]]
                /\ Spliced(t, T, u, z, y, p, e)
<1>1. PICK D, l, r : D = DOMAIN t /\ l = t[z].left /\ r = t[z].right
  OBVIOUS
<1>2. /\ T \cup {ROOT, NIL} \subseteq D /\ NIL \notin T /\ ROOT \notin T /\ ROOT # NIL
      /\ T \subseteq Node /\ y \in D /\ y \notin T /\ y # ROOT /\ y # NIL
      /\ t \in [D -> RBNodes(D)]
  BY <1>1, TreeAssumption DEF Linked
<1>3. /\ l \in T \cup {NIL} /\ r \in T \cup {NIL} /\ p \in T \cup {ROOT} /\ e \in Side
      /\ t[p][e] = z
  BY <1>1, Kids DEF Linked, SideOf, Side
<1>4. l # z /\ r # z /\ p # z /\ p # l /\ p # r
  <2>1. \A s \in Side : t[z][s] # z
    BY KidsBelow
  <2>2. p \in T => t[p][e] # p
    BY <1>3, KidsBelow
  <2>3. \A s \in Side : t[z][s] # NIL => t[z][s] # p
    BY <1>1, Apart
  <2> QED BY <1>1, <1>2, <1>3, <2>1, <2>2, <2>3 DEF Side
<1>5. PICK v1 : v1 = [t EXCEPT ![y] = t[z]]
  OBVIOUS
<1>6. PICK v2 : v2 = [v1 EXCEPT ![l].parent = y]
  OBVIOUS
<1>7. PICK v3 : v3 = [v2 EXCEPT ![r].parent = y]
  OBVIOUS
<1>8. PICK v : v = [v3 EXCEPT ![p][e] = y]
  OBVIOUS
<1>9. v = Moved(t, z, y, p, e)
  BY <1>1, <1>5, <1>6, <1>7, <1>8 DEF Moved
<1>10. PICK u : u = [n \in D \ {z} |-> v[n]]
  OBVIOUS
<1>11. v1 \in [D -> RBNodes(D)] /\ v1[y] = t[z] /\ \A k \in D : k # y => v1[k] = t[k]
  BY <1>2, <1>5
<1>12. ParentSet(D, v1, v2, l, y)
  <2>1. l \in D
    BY <1>2, <1>3
  <2> QED BY <1>6, <1>11, <2>1, SetParent
<1>13. ParentSet(D, v2, v3, r, y)
  <2>1. r \in D /\ v2 \in [D -> RBNodes(D)]
    BY <1>2, <1>3, <1>12 DEF ParentSet
  <2> QED BY <1>7, <2>1, SetParent
<1>14. KidSet(D, v3, v, p, e, y)
  <2>1. p \in D /\ v3 \in [D -> RBNodes(D)]
    BY <1>2, <1>3, <1>13 DEF ParentSet
  <2> QED BY <1>2, <1>3, <1>8, <2>1, SetKid
<1>15. \A s \in Side : s = e \/ s = Other(e)
  BY <1>3 DEF Side, Other
<1>16. /\ v \in [D -> RBNodes(D)] /\ v[p][e] = y
       /\ \A k \in D : v[k].color = v1[k].color
       /\ \A k \in D : v[k].parent = IF k = l \/ k = r THEN y ELSE v1[k].parent
  BY <1>3, <1>12, <1>13, <1>14 DEF KidSet, ParentSet
<1>17. \A k \in D, s \in Side : ~(k = p /\ s = e) => v[k][s] = v1[k][s]
  <2> SUFFICES ASSUME NEW k \in D, NEW s \in Side, ~(k = p /\ s = e)
               PROVE  v[k][s] = v1[k][s]
    OBVIOUS
  <2>1. v3[k][s] = v1[k][s]
    BY <1>12, <1>13 DEF ParentSet
  <2>2. CASE k = p
    BY <1>14, <1>15, <2>1, <2>2 DEF KidSet
  <2>3. CASE k # p
    BY <1>14, <2>1, <2>3 DEF KidSet
  <2> QED BY <2>2, <2>3
<1>18. PICK U : U = (T \ {z}) \cup {y}
  OBVIOUS
<1>19. /\ D \ {z} = U \cup {ROOT, NIL} /\ DOMAIN u = U \cup {ROOT, NIL}
       /\ \A k \in U \cup {ROOT, NIL} : u[k] = v[k]
  BY <1>1, <1>2, <1>10, <1>18
<1>20. y \notin {p, l, r}
  BY <1>2, <1>3
<1>21. /\ u[y].parent = p /\ u[y].color = t[z].color /\ u[p][e] = y
       /\ \A s \in Side : u[y][s] = t[z][s]
  BY <1>2, <1>3, <1>4, <1>11, <1>16, <1>17, <1>18, <1>19, <1>20
<1>22. \A k \in (T \ {z}) \cup {ROOT, NIL} : u[k].color = t[k].color
  BY <1>2, <1>11, <1>16, <1>18, <1>19
<1>23. \A k \in (T \ {z}) \cup {ROOT, NIL}, s \in Side :
         ~(k = p /\ s = e) => u[k][s] = t[k][s]
  BY <1>2, <1>11, <1>17, <1>18, <1>19
<1>24. ASSUME NEW k \in T \ {z}
       PROVE  u[k].parent = IF t[k].parent = z THEN y ELSE t[k].parent
  <2>1. (k = l \/ k = r) <=> t[k].parent = z
    <3>1. ASSUME t[k].parent = z PROVE k = l \/ k = r
      <4>1. PICK s \in Side : t[z][s] = k
        BY <3>1 DEF Linked, SideOf, Side
      <4> QED BY <1>1, <4>1 DEF Side
    <3>2. ASSUME k = l \/ k = r PROVE t[k].parent = z
      BY <1>1, <1>2, <3>2 DEF Linked, Side
    <3> QED BY <3>1, <3>2
  <2> QED BY <1>2, <1>11, <1>16, <1>18, <1>19, <2>1
<1>25. ASSUME NEW k \in U \cup {ROOT, NIL} PROVE u[k] \in RBNodes(U \cup {ROOT, NIL})
  <2>1. u[k] = v[k] /\ v[k] \in RBNodes(D)
    BY <1>2, <1>16, <1>18, <1>19
  <2>2. ASSUME NEW s \in Side PROVE u[k][s] \in U \cup {ROOT, NIL}
    <3>1. CASE k = y
      <4>1. t[z][s] \in T \cup {NIL} /\ t[z][s] # z
        BY Kids, KidsBelow
      <4> QED BY <1>18, <1>21, <3>1, <4>1
    <3>2. CASE k = p /\ s = e
      BY <1>18, <1>21, <3>2
    <3>3. CASE k = NIL
      <4>1. t[NIL][s] = NIL
        BY DEF Linked
      <4> QED BY <1>2, <1>3, <1>23, <3>3, <4>1
    <3>4. CASE k \in (T \ {z}) \cup {ROOT} /\ ~(k = p /\ s = e)
      <4>1. u[k][s] = t[k][s]
        BY <1>23, <3>4
      <4>2. t[k][s] \in T \cup {NIL}
        BY <3>4, Kids
      <4>3. t[k][s] # z
        BY <3>4, OnePlace
      <4> QED BY <1>18, <4>1, <4>2, <4>3
    <3> QED BY <1>18, <3>1, <3>2, <3>3, <3>4
  <2>3. u[k].left \in U \cup {ROOT, NIL} /\ u[k].right \in U \cup {ROOT, NIL}
    BY <2>2 DEF Side
  <2> QED BY <2>1, <2>3 DEF RBNodes
<1>26. u \in [U \cup {ROOT, NIL} -> RBNodes(U \cup {ROOT, NIL})]
  BY <1>10, <1>19, <1>25
<1>27. Spliced(t, T, u, z, y, p, e)
  BY <1>18, <1>19, <1>21, <1>22, <1>23, <1>24, <1>26 DEF Spliced
<1> QED BY <1>1, <1>9, <1>10, <1>27

(* The same tree with other nodes: o[k] is the one k stands for.            *)
Alike(t, T, u, U, o) ==
  /\ o \in [U \cup {ROOT, NIL} -> T \cup {ROOT, NIL}]
  /\ o[ROOT] = ROOT /\ o[NIL] = NIL /\ \A k \in U : o[k] \in T
  /\ \A k, m \in U \cup {ROOT, NIL} : o[k] = o[m] => k = m
  /\ \A k \in U \cup {ROOT}, s \in Side : u[k][s] \in U \cup {NIL} /\ o[u[k][s]] = t[o[k]][s]
  /\ \A k \in U : u[k].parent \in U \cup {ROOT} /\ o[u[k].parent] = t[o[k]].parent
  /\ \A k \in U \cup {ROOT, NIL} : u[k].color = t[o[k]].color
  /\ \A s \in Side : u[NIL][s] = NIL

LEMMA AlikeKeeps ==
  ASSUME NEW t, NEW T, NEW below, NEW w, NEW h, Settled(t, T, below, w, h),
         NEW u, NEW U \in SUBSET Node, NEW o, Alike(t, T, u, U, o),
         DOMAIN u = U \cup {ROOT, NIL}, u \in [DOMAIN u -> RBNodes(DOMAIN u)],
         NEW f, \A k \in U : f[k] = w[o[k]]
  PROVE  \E b, j : Settled(u, U, b, f, j)
<1>1. /\ Linked(t, T) /\ Nested(t, T, below) /\ Ordered(t, T, below, w)
      /\ Balanced(t, T, h, NIL, "left") /\ Colored(t, T, NIL, NIL)
  BY DEF Settled
<1>2. /\ T \cup {ROOT, NIL} \subseteq DOMAIN t /\ NIL \notin T /\ ROOT \notin T /\ ROOT # NIL
      /\ NIL \notin U /\ ROOT \notin U
  BY <1>1, TreeAssumption DEF Linked
<1>3. /\ o[ROOT] = ROOT /\ o[NIL] = NIL /\ \A k \in U : o[k] \in T
      /\ \A k, m \in U \cup {ROOT, NIL} : o[k] = o[m] => k = m
      /\ \A k \in U \cup {ROOT}, s \in Side : u[k][s] \in U \cup {NIL} /\ o[u[k][s]] = t[o[k]][s]
      /\ \A k \in U : u[k].parent \in U \cup {ROOT} /\ o[u[k].parent] = t[o[k]].parent
      /\ \A k \in U \cup {ROOT, NIL} : u[k].color = t[o[k]].color
      /\ \A s \in Side : u[NIL][s] = NIL
  BY DEF Alike
<1>4. Linked(u, U)
  <2>1. ASSUME NEW k \in U \cup {ROOT}, NEW s \in Side, u[k][s] # NIL
        PROVE  u[k][s] \in U /\ u[u[k][s]].parent = k
    <3>1. PICK c : c = u[k][s]
      OBVIOUS
    <3>2. c \in U /\ o[c] = t[o[k]][s]
      BY <1>3, <2>1, <3>1
    <3>3. o[k] \in T \cup {ROOT} /\ o[c] \in T
      BY <1>3, <3>2
    <3>4. t[o[c]].parent = o[k]
      BY <1>1, <1>2, <3>2, <3>3 DEF Linked
    <3>5. o[u[c].parent] = o[k] /\ u[c].parent \in U \cup {ROOT}
      BY <1>3, <3>2, <3>4
    <3>6. u[c].parent = k
      BY <1>3, <3>5
    <3> QED BY <3>1, <3>2, <3>6
  <2>2. ASSUME NEW k \in U
        PROVE  u[k].parent \in U \cup {ROOT} /\ u[u[k].parent][SideOf(u, k)] = k
    <3>1. PICK q : q = u[k].parent
      OBVIOUS
    <3>2. q \in U \cup {ROOT} /\ o[q] = t[o[k]].parent /\ o[k] \in T
      BY <1>3, <3>1
    <3>3. t[o[q]][SideOf(t, o[k])] = o[k]
      BY <1>1, <3>2 DEF Linked
    <3>4. u[q].left \in U \cup {NIL} /\ o[u[q].left] = t[o[q]].left
      BY <1>3, <3>2 DEF Side
    <3>5. (k = u[q].left) <=> (o[k] = t[o[q]].left)
      BY <1>3, <3>4
    <3>6. SideOf(u, k) = SideOf(t, o[k])
      BY <3>1, <3>2, <3>5 DEF SideOf
    <3>7. SideOf(u, k) \in Side
      BY DEF SideOf, Side
    <3>8. o[u[q][SideOf(u, k)]] = o[k] /\ u[q][SideOf(u, k)] \in U \cup {NIL}
      BY <1>3, <3>2, <3>3, <3>6, <3>7
    <3>9. u[q][SideOf(u, k)] = k
      BY <1>3, <3>8
    <3> QED BY <3>1, <3>2, <3>9
  <2>3. u[ROOT].right = NIL
    <3>1. t[ROOT].right = NIL
      BY <1>1 DEF Linked
    <3>2. u[ROOT].right \in U \cup {NIL} /\ o[u[ROOT].right] = o[NIL]
      BY <1>3, <3>1 DEF Side
    <3> QED BY <1>3, <3>2
  <2> QED BY <1>3, <2>1, <2>2, <2>3 DEF Linked
<1>5. PICK b : b = [k \in U \cup {ROOT, NIL} |-> {m \in U : o[m] \in below[o[k]]}]
  OBVIOUS
<1>6. /\ b \in [U \cup {ROOT, NIL} -> SUBSET U]
      /\ \A k \in U \cup {ROOT, NIL} : b[k] = {m \in U : o[m] \in below[o[k]]}
  BY <1>5
<1>7. ASSUME NEW k \in U \cup {ROOT}, NEW s \in Side
      PROVE  b[u[k][s]] = {m \in U : o[m] \in below[t[o[k]][s]]}
  BY <1>3, <1>6
<1>8. Nested(u, U, b)
  <2>1. b[NIL] = {}
    BY <1>1, <1>3, <1>6 DEF Nested
  <2>2. b[ROOT] = U
    <3>1. below[ROOT] = T
      BY <1>1 DEF Nested
    <3>2. b[ROOT] = {m \in U : o[m] \in below[o[ROOT]]}
      BY <1>6
    <3>3. \A m \in U : o[m] \in below[o[ROOT]]
      BY <1>3, <3>1
    <3> QED BY <3>2, <3>3
  <2>3. b[u[ROOT].left] = U
    <3>1. b[u[ROOT].left] = {m \in U : o[m] \in below[t[o[ROOT]].left]}
      BY <1>7 DEF Side
    <3>2. below[t[o[ROOT]].left] = T
      BY <1>1, <1>3 DEF Nested
    <3> QED BY <1>3, <3>1, <3>2
  <2>4. ASSUME NEW k \in U, NEW s \in Side PROVE k \notin b[u[k][s]]
    <3>1. o[k] \notin below[t[o[k]][s]]
      BY <1>1, <1>3 DEF Nested
    <3> QED BY <1>7, <3>1
  <2>5. ASSUME NEW k \in U
        PROVE  /\ b[k] = {k} \cup b[u[k].left] \cup b[u[k].right]
               /\ b[u[k].left] \cap b[u[k].right] = {}
    <3>1. PICK i, j : i = below[t[o[k]].left] /\ j = below[t[o[k]].right]
      OBVIOUS
    <3>2. below[o[k]] = {o[k]} \cup i \cup j /\ i \cap j = {}
      BY <1>1, <1>3, <3>1 DEF Nested
    <3>3. b[u[k].left] = {m \in U : o[m] \in i} /\ b[u[k].right] = {m \in U : o[m] \in j}
      BY <1>7, <3>1 DEF Side
    <3>4. b[k] = {m \in U : o[m] \in below[o[k]]}
      BY <1>6
    <3>5. \A m \in U : o[m] = o[k] <=> m = k
      BY <1>3
    <3> QED BY <3>2, <3>3, <3>4, <3>5
  <2> QED BY <1>6, <2>1, <2>2, <2>3, <2>4, <2>5 DEF Nested
<1>9. Ordered(u, U, b, f)
  <2> SUFFICES ASSUME NEW k \in U, NEW s \in Side, NEW m \in b[u[k][s]]
               PROVE  Upto(s, f[m], f[k])
    BY DEF Ordered
  <2>1. m \in U /\ o[m] \in below[t[o[k]][s]]
    BY <1>7
  <2>2. Upto(s, w[o[m]], w[o[k]])
    BY <1>1, <1>3, <2>1 DEF Ordered
  <2> QED BY <2>1, <2>2
<1>10. \E j : Balanced(u, U, j, NIL, "left")
  <2>1. PICK j : j = [k \in U \cup {NIL} |-> h[o[k]]]
    OBVIOUS
  <2>2. h \in [T \cup {NIL} -> Nat] /\ h[NIL] = 0
    BY <1>1 DEF Balanced
  <2>3. /\ j \in [U \cup {NIL} -> Nat] /\ j[NIL] = 0
        /\ \A k \in U \cup {NIL} : j[k] = h[o[k]]
    BY <1>3, <2>1, <2>2
  <2>4. ASSUME NEW k \in U, NEW s \in Side
        PROVE  j[k] = j[u[k][s]] + Lack(k, s, NIL, "left") + Black(u, k)
    <3>1. h[o[k]] = h[t[o[k]][s]] + Lack(o[k], s, NIL, "left") + Black(t, o[k])
      BY <1>1, <1>3 DEF Balanced
    <3>2. j[u[k][s]] = h[t[o[k]][s]] /\ j[k] = h[o[k]]
      BY <1>3, <2>3
    <3>3. Black(u, k) = Black(t, o[k])
      BY <1>3 DEF Black
    <3>4. Lack(k, s, NIL, "left") = Lack(o[k], s, NIL, "left")
      BY <1>2, <1>3 DEF Lack
    <3> QED BY <3>1, <3>2, <3>3, <3>4
  <2>5. Balanced(u, U, j, NIL, "left")
    BY <2>3, <2>4 DEF Balanced
  <2> QED BY <2>5
<1>11. Colored(u, U, NIL, NIL)
  <2>1. u[ROOT].color = "black" /\ u[NIL].color = "black"
    BY <1>1, <1>3 DEF Colored
  <2>2. ASSUME NEW k \in U, u[k].color = "red"
        PROVE  u[k].parent # ROOT /\ u[u[k].parent].color = "black"
    <3>1. t[o[k]].color = "red" /\ o[k] \in T
      BY <1>3, <2>2
    <3>2. t[o[k]].parent \in T \cup {ROOT}
      BY <1>1, <3>1 DEF Linked
    <3>3. t[o[k]].parent # ROOT /\ t[t[o[k]].parent].color = "black"
      BY <1>1, <1>2, <3>1, <3>2 DEF Colored
    <3> QED BY <1>3, <3>3
  <2> QED BY <2>1, <2>2 DEF Colored
<1> QED BY <1>4, <1>8, <1>9, <1>10, <1>11 DEF Settled

LEMMA SpliceKeeps ==
  ASSUME NEW t, NEW T, NEW below, NEW w, NEW h, Settled(t, T, below, w, h), NEW z \in T,
         NEW y \in Node \ T, NEW p, p = t[z].parent, NEW e, e = SideOf(t, z),
         NEW u, Spliced(t, T, u, z, y, p, e),
         NEW f, w[z] = f[y], \A k \in T \ {z} : w[k] = f[k]
  PROVE  \E b, j : Settled(u, (T \ {z}) \cup {y}, b, f, j)
<1>1. PICK U : U = (T \ {z}) \cup {y}
  OBVIOUS
<1>2. Linked(t, T) /\ Nested(t, T, below)
  BY DEF Settled
<1>3. /\ NIL \notin T /\ ROOT \notin T /\ ROOT # NIL
      /\ T \subseteq Node /\ y \notin T /\ y # ROOT /\ y # NIL
  BY <1>2, TreeAssumption DEF Linked
<1>4. /\ DOMAIN u = U \cup {ROOT, NIL} /\ u \in [DOMAIN u -> RBNodes(DOMAIN u)]
      /\ u[y].parent = p /\ u[y].color = t[z].color /\ u[p][e] = y
      /\ \A s \in Side : u[y][s] = t[z][s]
      /\ \A k \in (T \ {z}) \cup {ROOT, NIL} : u[k].color = t[k].color
      /\ \A k \in T \ {z} : u[k].parent = IF t[k].parent = z THEN y ELSE t[k].parent
      /\ \A k \in (T \ {z}) \cup {ROOT, NIL}, s \in Side :
           ~(k = p /\ s = e) => u[k][s] = t[k][s]
  BY <1>1 DEF Spliced
<1>5. p \in T \cup {ROOT} /\ e \in Side /\ t[p][e] = z /\ p # z
  <2>1. p \in T \cup {ROOT} /\ e \in Side /\ t[p][e] = z
    BY <1>2 DEF Linked, SideOf, Side
  <2>2. p \in T => t[p][e] # p
    BY <1>2, <2>1, KidsBelow
  <2> QED BY <1>3, <2>1, <2>2
<1>6. PICK o : o = [k \in U \cup {ROOT, NIL} |-> IF k = y THEN z ELSE k]
  OBVIOUS
<1>7. o[y] = z /\ \A k \in (T \ {z}) \cup {ROOT, NIL} : o[k] = k
  BY <1>1, <1>3, <1>6
<1>8. Alike(t, T, u, U, o)
  <2>1. /\ o \in [U \cup {ROOT, NIL} -> T \cup {ROOT, NIL}]
        /\ o[ROOT] = ROOT /\ o[NIL] = NIL /\ \A k \in U : o[k] \in T
    BY <1>1, <1>3, <1>6
  <2>2. \A k, m \in U \cup {ROOT, NIL} : o[k] = o[m] => k = m
    BY <1>1, <1>3, <1>7
  <2>3. ASSUME NEW k \in U \cup {ROOT}, NEW s \in Side
        PROVE  u[k][s] \in U \cup {NIL} /\ o[u[k][s]] = t[o[k]][s]
    <3>1. CASE k = y
      <4>1. t[z][s] \in T \cup {NIL} /\ t[z][s] # z
        BY <1>2, Kids, KidsBelow
      <4> QED BY <1>1, <1>4, <1>7, <3>1, <4>1
    <3>2. CASE k = p /\ s = e
      BY <1>1, <1>3, <1>4, <1>5, <1>7, <3>2
    <3>3. CASE k # y /\ ~(k = p /\ s = e)
      <4>1. k \in (T \ {z}) \cup {ROOT} /\ u[k][s] = t[k][s] /\ o[k] = k
        BY <1>1, <1>4, <1>7, <3>3
      <4>2. t[k][s] \in T \cup {NIL}
        BY <1>2, <4>1, Kids
      <4>3. t[k][s] # z
        BY <1>2, <3>3, <4>1, OnePlace
      <4> QED BY <1>1, <1>7, <4>1, <4>2, <4>3
    <3> QED BY <3>1, <3>2, <3>3
  <2>4. ASSUME NEW k \in U
        PROVE  u[k].parent \in U \cup {ROOT} /\ o[u[k].parent] = t[o[k]].parent
    <3>1. CASE k = y
      BY <1>1, <1>4, <1>5, <1>7, <3>1
    <3>2. CASE k \in T \ {z}
      <4>1. t[k].parent \in T \cup {ROOT}
        BY <1>2, <3>2 DEF Linked
      <4> QED BY <1>1, <1>4, <1>7, <3>2, <4>1
    <3> QED BY <1>1, <3>1, <3>2
  <2>5. \A k \in U \cup {ROOT, NIL} : u[k].color = t[o[k]].color
    BY <1>1, <1>4, <1>7
  <2>6. \A s \in Side : u[NIL][s] = NIL
    <3>1. \A s \in Side : t[NIL][s] = NIL
      BY <1>2 DEF Linked
    <3>2. NIL # p
      BY <1>3, <1>5
    <3> QED BY <1>4, <3>1, <3>2
  <2> QED BY <2>1, <2>2, <2>3, <2>4, <2>5, <2>6 DEF Alike
<1>9. \A k \in U : f[k] = w[o[k]]
  BY <1>1, <1>3, <1>7
<1>10. U \in SUBSET Node
  BY <1>1, <1>3
<1>11. \E b, j : Settled(u, U, b, f, j)
  <2>1. DOMAIN u = U \cup {ROOT, NIL} /\ u \in [DOMAIN u -> RBNodes(DOMAIN u)]
    BY <1>4
  <2> QED BY <1>8, <1>9, <1>10, <2>1, AlikeKeeps
<1> QED BY <1>1, <1>11

(* There is only one such function.                                         *)
LEMMA OneWayDown ==
  ASSUME NEW t, NEW T, NEW below, Linked(t, T), Nested(t, T, below), IsFiniteSet(T),
         NEW stop, NEW next, \A n \in T : \E s \in Side : next[n] = t[n][s],
         NEW f, WayDown(T, T, f, stop, next), NEW a,
         \A n \in T : a[n] = IF n \in stop THEN n
                             ELSE IF next[n] = NIL THEN NIL ELSE a[next[n]]
  PROVE  \A n \in T : a[n] = f[n]
<1> DEFINE P == {n \in T : a[n] = f[n]}
<1>1. ASSUME NEW n \in T, \A s \in Side : t[n][s] \in P \cup {NIL}
      PROVE  n \in P
  <2>1. next[n] \in P \cup {NIL}
    BY <1>1
  <2>2. f[n] = (IF n \in stop THEN n ELSE f[next[n]]) /\ f[NIL] = NIL
    BY DEF WayDown
  <2>3. CASE next[n] = NIL
    BY <2>2, <2>3
  <2>4. CASE next[n] # NIL
    <3>1. a[next[n]] = f[next[n]]
      BY <2>1, <2>4
    <3> QED BY <2>2, <2>4, <3>1
  <2> QED BY <2>3, <2>4
<1>2. T \subseteq P
  <2> HIDE DEF P
  <2> QED BY <1>1, SubtreeInduction
<1> QED BY <1>2

-----------------------------------------------------------------------------
(* What the three ways down of RBTree return between two calls.             *)
LEMMA FindNodeFinds ==
  ASSUME NEW below, NEW h, Settled(tree, Nodes, below, Size, h), IsFiniteSet(Nodes),
         NEW z \in Nat
  PROVE  /\ FindNode(z) \in Nodes \cup {NIL}
         /\ FindNode(z) # NIL => Size[FindNode(z)] = z
         /\ (\E m \in Nodes : Size[m] = z) => FindNode(z) # NIL
<1> DEFINE Loop(a) == a = [n \in Nodes \cup {NIL} |->
                             IF n = NIL \/ Size[n] = z THEN n ELSE a[Child(n, z)]]
<1>1. Linked(tree, Nodes) /\ Nested(tree, Nodes, below) /\ Ordered(tree, Nodes, below, Size)
  BY DEF Settled
<1>2. NIL \notin Nodes
  BY DEF Nodes
<1>3. PICK next : next = [n \in Nodes |-> Child(n, z)]
  OBVIOUS
<1>4. \A n \in Nodes : next[n] = tree[n][Way(n, z)]
  BY <1>3 DEF Child, Way
<1>5. \A n \in Nodes : \E s \in Side : next[n] = tree[n][s]
  BY <1>4 DEF Way, Side
<1>6. \A n \in Nodes : next[n] \in Nodes \cup {NIL}
  BY <1>1, <1>5, Kids
<1>7. PICK stop : stop = {n \in Nodes : Size[n] = z}
  OBVIOUS
<1>8. PICK f : WayDown(Nodes, Nodes, f, stop, next)
  BY <1>1, <1>5, Descent
<1>9. Loop(f)
  <2>1. f \in [Nodes \cup {NIL} -> Nodes \cup {NIL}] /\ f[NIL] = NIL
    BY <1>8 DEF WayDown
  <2>2. ASSUME NEW n \in Nodes PROVE f[n] = IF Size[n] = z THEN n ELSE f[Child(n, z)]
    BY <1>3, <1>7, <1>8 DEF WayDown
  <2> QED BY <1>2, <2>1, <2>2
<1>10. PICK a : a = CHOOSE b : Loop(b)
  OBVIOUS
<1>11. Loop(a)
  <2> HIDE DEF Loop
  <2> QED BY <1>9, <1>10
<1>12. FindNode(z) = a[First]
  BY <1>10 DEF FindNode
<1>13. a[NIL] = NIL /\ \A n \in Nodes : a[n] = IF Size[n] = z THEN n ELSE a[next[n]]
  BY <1>2, <1>3, <1>11
<1> HIDE DEF Loop
<1>14. \A n \in Nodes : a[n] = f[n]
  <2>1. \A n \in Nodes : a[n] = IF n \in stop THEN n
                                ELSE IF next[n] = NIL THEN NIL ELSE a[next[n]]
    BY <1>7, <1>13
  <2> QED BY <1>1, <1>5, <1>8, <2>1, OneWayDown
<1>15. First \in Nodes \cup {NIL}
  BY <1>1, Kids DEF First, Side
<1>16. FindNode(z) = f[tree[ROOT].left]
  <2>1. f[NIL] = NIL
    BY <1>8 DEF WayDown
  <2> QED BY <1>12, <1>13, <1>14, <1>15, <2>1 DEF First
<1>17. WayDown(Nodes, Nodes, f, {n \in Nodes : Size[n] = z}, next)
  BY <1>7, <1>8
<1> QED BY <1>1, <1>4, <1>16, <1>17, FindDescent

LEMMA LeafForFits ==
  ASSUME NEW below, NEW h, Settled(tree, Nodes, below, Size, h), IsFiniteSet(Nodes),
         NEW z \in Nat, NEW l, l = LeafFor(z)
  PROVE  /\ First = NIL => l = ROOT
         /\ First # NIL => /\ l \in Nodes /\ tree[l][Way(l, z)] = NIL
                           /\ \A a \in Nodes, s \in Side :
                                l \in below[tree[a][s]] => s = Way(a, z)
<1> DEFINE Loop(a) == a = [n \in Nodes |->
                             IF Child(n, z) = NIL THEN n ELSE a[Child(n, z)]]
<1>1. Linked(tree, Nodes) /\ Nested(tree, Nodes, below) /\ Ordered(tree, Nodes, below, Size)
  BY DEF Settled
<1>2. NIL \notin Nodes
  BY DEF Nodes
<1>3. PICK next : next = [n \in Nodes |-> Child(n, z)]
  OBVIOUS
<1>4. \A n \in Nodes : next[n] = tree[n][Way(n, z)]
  BY <1>3 DEF Child, Way
<1>5. \A n \in Nodes : \E s \in Side : next[n] = tree[n][s]
  BY <1>4 DEF Way, Side
<1>6. \A n \in Nodes : next[n] \in Nodes \cup {NIL}
  BY <1>1, <1>5, Kids
<1>7. PICK stop : stop = {n \in Nodes : next[n] = NIL}
  OBVIOUS
<1>8. PICK f : WayDown(Nodes, Nodes, f, stop, next)
  BY <1>1, <1>5, Descent
<1>9. \E a : Loop(a)
  <2>1. PICK a : a = [n \in Nodes |-> f[n]]
    OBVIOUS
  <2>2. ASSUME NEW n \in Nodes
        PROVE  a[n] = IF Child(n, z) = NIL THEN n ELSE a[Child(n, z)]
    <3>1. f[n] = IF next[n] = NIL THEN n ELSE f[next[n]]
      BY <1>7, <1>8 DEF WayDown
    <3> QED BY <1>3, <1>6, <2>1, <3>1
  <2>3. Loop(a)
    BY <2>1, <2>2
  <2> QED BY <2>3
<1>10. PICK a : a = CHOOSE b : Loop(b)
  OBVIOUS
<1>11. Loop(a)
  <2> HIDE DEF Loop
  <2> QED BY <1>9, <1>10
<1>12. l = IF First = NIL THEN ROOT ELSE a[First]
  BY <1>10 DEF LeafFor
<1>13. \A n \in Nodes : a[n] = IF next[n] = NIL THEN n ELSE a[next[n]]
  BY <1>3, <1>11
<1> HIDE DEF Loop
<1>14. \A n \in Nodes : a[n] = f[n]
  <2>1. \A n \in Nodes : a[n] = IF n \in stop THEN n
                                ELSE IF next[n] = NIL THEN NIL ELSE a[next[n]]
    BY <1>7, <1>13
  <2> QED BY <1>1, <1>5, <1>8, <2>1, OneWayDown
<1>15. First \in Nodes \cup {NIL}
  BY <1>1, Kids DEF First, Side
<1>16. WayDown(Nodes, Nodes, f, {n \in Nodes : next[n] = NIL}, next)
  BY <1>7, <1>8
<1>17. CASE First = NIL
  BY <1>12, <1>17
<1>18. CASE First # NIL
  <2>1. l = f[tree[ROOT].left] /\ tree[ROOT].left # NIL
    BY <1>12, <1>14, <1>15, <1>18 DEF First
  <2> QED BY <1>1, <1>4, <1>16, <1>18, <2>1, LeafDescent
<1> QED BY <1>17, <1>18

LEMMA SuccessorNext ==
  ASSUME NEW below, NEW h, Settled(tree, Nodes, below, Size, h), IsFiniteSet(Nodes),
         NEW z \in Nodes, tree[z].right # NIL, NEW y, y = Successor(z)
  PROVE  /\ y \in below[tree[z].right] /\ tree[y].left = NIL
         /\ \A m \in below[tree[z].right] : Size[y] <= Size[m]
<1> DEFINE Loop(a) == a = [n \in Nodes |->
                             IF tree[n].left = NIL THEN n ELSE a[tree[n].left]]
<1>1. Linked(tree, Nodes) /\ Nested(tree, Nodes, below) /\ Ordered(tree, Nodes, below, Size)
  BY DEF Settled
<1>2. NIL \notin Nodes
  BY DEF Nodes
<1>3. PICK next : next = [n \in Nodes |-> tree[n].left]
  OBVIOUS
<1>4. \A n \in Nodes : next[n] = tree[n].left
  BY <1>3
<1>5. \A n \in Nodes : \E s \in Side : next[n] = tree[n][s]
  BY <1>4 DEF Side
<1>6. \A n \in Nodes : next[n] \in Nodes \cup {NIL}
  BY <1>1, <1>5, Kids
<1>7. PICK stop : stop = {n \in Nodes : next[n] = NIL}
  OBVIOUS
<1>8. PICK f : WayDown(Nodes, Nodes, f, stop, next)
  BY <1>1, <1>5, Descent
<1>9. \E a : Loop(a)
  <2>1. PICK a : a = [n \in Nodes |-> f[n]]
    OBVIOUS
  <2>2. ASSUME NEW n \in Nodes
        PROVE  a[n] = IF tree[n].left = NIL THEN n ELSE a[tree[n].left]
    <3>1. f[n] = IF next[n] = NIL THEN n ELSE f[next[n]]
      BY <1>7, <1>8 DEF WayDown
    <3> QED BY <1>4, <1>6, <2>1, <3>1
  <2>3. Loop(a)
    BY <2>1, <2>2
  <2> QED BY <2>3
<1>10. PICK a : a = CHOOSE b : Loop(b)
  OBVIOUS
<1>11. Loop(a)
  <2> HIDE DEF Loop
  <2> QED BY <1>9, <1>10
<1>12. y = a[tree[z].right]
  BY <1>10 DEF Successor
<1>13. \A n \in Nodes : a[n] = IF next[n] = NIL THEN n ELSE a[next[n]]
  BY <1>4, <1>11
<1> HIDE DEF Loop
<1>14. \A n \in Nodes : a[n] = f[n]
  <2>1. \A n \in Nodes : a[n] = IF n \in stop THEN n
                                ELSE IF next[n] = NIL THEN NIL ELSE a[next[n]]
    BY <1>7, <1>13
  <2> QED BY <1>1, <1>5, <1>8, <2>1, OneWayDown
<1>15. PICK r : r = tree[z].right
  OBVIOUS
<1>16. r \in Nodes
  BY <1>1, <1>15, Kids DEF Side
<1>17. WayDown(Nodes, Nodes, f, {n \in Nodes : next[n] = NIL}, next)
  BY <1>7, <1>8
<1>18. y = f[r]
  BY <1>12, <1>14, <1>15, <1>16
<1>19. /\ f[r] \in below[r] /\ tree[f[r]].left = NIL
       /\ \A m \in below[r] : Size[f[r]] <= Size[m]
  BY <1>1, <1>4, <1>16, <1>17, LeftDescent
<1> QED BY <1>15, <1>18, <1>19

-----------------------------------------------------------------------------
(****************************************************************************)
(* The inductive invariant.                                                 *)
(****************************************************************************)
(* What the place of the hole that is to be freed is worth: the size of the *)
(* node that left its own place, and will take this one.                    *)
Worth ==
  IF Deleting /\ op.found # op.gone
  THEN [Size EXCEPT ![op.found] = Size[op.gone]] ELSE Size

Types ==
  /\ DOMAIN tree \subseteq Node \cup {ROOT, NIL} /\ IsFiniteSet(DOMAIN tree)
  /\ \/ op = Idle
     \/ op \in [step : {"insert"}, node : Nodes]
     \/ op \in [step : {"repair", "splice"}, node : Nodes \cup {NIL},
               found : Nodes, gone : Nodes, size : Nat]
  /\ result \in Node \cup {NIL}

Fits ==
  /\ op = Idle => \E b, h : Settled(tree, InTree, b, Size, h)
  /\ op.step = "insert" => \E b, h : Inserting(tree, InTree, b, Size, h, op.node)
  /\ op.step = "repair" => \E b, h : Repairing(tree, InTree, b, Worth, h, op.node)
  /\ op.step = "splice" => \E b, h : Settled(tree, InTree, b, Worth, h)

Inv == Types /\ Fits

LEMMA EmptySettled == \E b, h : Settled(EmptyTree, {}, b, Size, h)
<1>1. PICK t : t = EmptyTree
  OBVIOUS
<1>2. /\ DOMAIN t = {ROOT, NIL}
      /\ \A k \in {ROOT, NIL} : t[k] = [left |-> NIL, right |-> NIL, parent |-> NIL,
                                        color |-> "black"]
  BY <1>1 DEF EmptyTree, RBNode
<1>3. t \in [DOMAIN t -> RBNodes(DOMAIN t)]
  <2>1. \A k \in {ROOT, NIL} : t[k] \in RBNodes({ROOT, NIL})
    BY <1>2 DEF RBNodes
  <2>2. t = [k \in {ROOT, NIL} |-> t[k]]
    BY <1>1 DEF EmptyTree
  <2> QED BY <1>2, <2>1, <2>2
<1>4. /\ \A k \in {ROOT, NIL}, s \in Side : t[k][s] = NIL
      /\ \A k \in {ROOT, NIL} : t[k].color = "black" /\ t[k].left = NIL /\ t[k].right = NIL
  BY <1>2 DEF Side
<1>5. Linked(t, {})
  BY <1>2, <1>3, <1>4 DEF Linked
<1>6. PICK b : b = [k \in {ROOT, NIL} |-> {}]
  OBVIOUS
<1>7. Nested(t, {}, b)
  BY <1>4, <1>6 DEF Nested
<1>8. PICK h : h = [k \in {NIL} |-> 0]
  OBVIOUS
<1>9. Balanced(t, {}, h, NIL, "left")
  BY <1>8 DEF Balanced
<1>10. Ordered(t, {}, b, Size) /\ Colored(t, {}, NIL, NIL)
  BY <1>4 DEF Ordered, Colored
<1>11. Settled(t, {}, b, Size, h)
  BY <1>5, <1>7, <1>9, <1>10 DEF Settled
<1> QED BY <1>1, <1>11

LEMMA Emptied ==
  ASSUME tree' = EmptyTree, op' = Idle, result' = NIL
  PROVE  Inv'
<1>1. DOMAIN tree' = {ROOT, NIL} /\ Nodes' = {} /\ InTree' = {}
  BY DEF EmptyTree, Nodes, InTree
<1>2. IsFiniteSet({ROOT, NIL})
  <2>1. IsFiniteSet({ROOT})
    BY FS_Singleton
  <2>2. {ROOT, NIL} = {ROOT} \cup {NIL}
    OBVIOUS
  <2> QED BY <2>1, <2>2, FS_AddElement
<1>3. Types'
  BY <1>1, <1>2 DEF Types
<1>4. op'.step = "idle"
  BY DEF Idle
<1>5. Fits'
  BY <1>1, <1>4, EmptySettled DEF Fits
<1> QED BY <1>3, <1>5 DEF Inv

LEMMA InitInv == Init => Inv
<1> SUFFICES ASSUME Init PROVE Inv
  OBVIOUS
<1>1. DOMAIN tree = {ROOT, NIL} /\ Nodes = {} /\ InTree = {}
  BY DEF Init, EmptyTree, Nodes, InTree
<1>2. IsFiniteSet({ROOT, NIL})
  <2>1. IsFiniteSet({ROOT})
    BY FS_Singleton
  <2>2. {ROOT, NIL} = {ROOT} \cup {NIL}
    OBVIOUS
  <2> QED BY <2>1, <2>2, FS_AddElement
<1>3. Types
  BY <1>1, <1>2 DEF Types, Init
<1>4. op.step = "idle"
  BY DEF Init, Idle
<1>5. Fits
  BY <1>1, <1>4, EmptySettled DEF Fits, Init
<1> QED BY <1>3, <1>5 DEF Inv

LEMMA ClearInv == Inv /\ Clear => Inv'
<1> SUFFICES ASSUME Inv, Clear PROVE Inv'
  OBVIOUS
<1>1. tree' = EmptyTree /\ op' = Idle /\ result' = NIL
  BY DEF Clear
<1> QED BY <1>1, Emptied

-----------------------------------------------------------------------------
(* Between two calls.                                                       *)
LEMMA WhenIdle ==
  ASSUME Inv, op = Idle
  PROVE  /\ InTree = Nodes /\ IsFiniteSet(Nodes) /\ Nodes \subseteq Node
         /\ DOMAIN tree = Nodes \cup {ROOT, NIL}
         /\ \E b, h : Settled(tree, Nodes, b, Size, h)
<1>1. op.step = "idle"
  BY DEF Idle
<1>2. InTree = Nodes
  BY <1>1 DEF InTree, Deleting
<1>3. PICK b, h : Settled(tree, Nodes, b, Size, h)
  BY <1>2 DEF Inv, Fits
<1>4. IsFiniteSet(Nodes) /\ Nodes \subseteq Node
  BY FS_Subset DEF Inv, Types, Nodes
<1>5. {ROOT, NIL} \subseteq DOMAIN tree
  BY <1>3 DEF Settled, Linked
<1> QED BY <1>2, <1>3, <1>4, <1>5 DEF Nodes

LEMMA InsertInv == Inv /\ (\E n \in Node : Insert(n)) => Inv'
<1> SUFFICES ASSUME Inv, NEW n \in Node, Insert(n) PROVE Inv'
  OBVIOUS
<1>1. op = Idle /\ n \notin DOMAIN tree
  BY DEF Insert
<1>2. /\ InTree = Nodes /\ IsFiniteSet(Nodes) /\ Nodes \subseteq Node
      /\ DOMAIN tree = Nodes \cup {ROOT, NIL}
  BY <1>1, WhenIdle
<1>3. PICK below, h : Settled(tree, Nodes, below, Size, h)
  BY <1>1, WhenIdle
<1>4. /\ Linked(tree, Nodes) /\ Nested(tree, Nodes, below)
      /\ Ordered(tree, Nodes, below, Size)
  BY <1>3 DEF Settled
<1>5. PICK z : z = Size[n]
  OBVIOUS
<1>6. z \in Nat /\ Size \in [Node -> Nat] /\ ROOT \notin Nodes /\ NIL \notin Nodes /\ ROOT # NIL
  BY <1>5, TreeAssumption DEF Nodes
<1>7. PICK l : l = LeafFor(z)
  OBVIOUS
<1>8. PICK e : e = IF l = ROOT THEN "left" ELSE IF z < Size[l] THEN "left" ELSE "right"
  OBVIOUS
<1>9. e \in Side /\ (l # ROOT => e = Way(l, z)) /\ (l = ROOT => e = "left")
  BY <1>8 DEF Side, Way
<1>10. /\ First = NIL => l = ROOT
       /\ First # NIL => /\ l \in Nodes /\ tree[l][Way(l, z)] = NIL
                         /\ \A a \in Nodes, s \in Side :
                              l \in below[tree[a][s]] => s = Way(a, z)
  BY <1>2, <1>3, <1>6, <1>7, LeafForFits
<1>11. l \in Nodes \cup {ROOT} /\ tree[l][e] = NIL
  <2>1. First = NIL => tree[ROOT].left = NIL
    BY DEF First
  <2> QED BY <1>6, <1>9, <1>10, <2>1
<1>12. ASSUME NEW a \in Nodes, NEW r \in Side,
              (l = a /\ r = e) \/ l \in below[tree[a][r]]
       PROVE  Upto(r, Size[n], Size[a])
  <2>1. First # NIL
    <3>1. First = NIL => Nodes = {}
      BY <1>4 DEF First, Nested
    <3> QED BY <3>1
  <2>2. r = Way(a, z)
    BY <1>6, <1>9, <1>10, <1>12, <2>1
  <2>3. Size[a] \in Nat
    BY <1>2, <1>6
  <2> QED BY <1>5, <1>6, <2>2, <2>3 DEF Upto, Way
<1>13. PICK u : u = [m \in DOMAIN tree \cup {n} |->
                       IF m = n THEN RBNode(l, "red") ELSE [tree EXCEPT ![l][e] = n][m]]
  OBVIOUS
<1>14. tree' = u /\ op' = [step |-> "insert", node |-> n] /\ result' = NIL
  BY <1>5, <1>7, <1>8, <1>13 DEF Insert
<1>15. Grafted(tree, Nodes, u, n, l, e)
  BY <1>1, <1>4, <1>9, <1>11, <1>13, GraftLinks
<1>16. PICK b, j : Inserting(u, Nodes \cup {n}, b, Size, j, n)
  BY <1>1, <1>3, <1>6, <1>9, <1>11, <1>12, <1>15, GraftKeeps
<1>17. DOMAIN tree' = DOMAIN tree \cup {n}
  BY <1>14, <1>15 DEF Grafted
<1>18. Nodes' = Nodes \cup {n} /\ InTree' = Nodes \cup {n}
  <2>1. n # ROOT /\ n # NIL
    BY TreeAssumption
  <2>2. Nodes' = Nodes \cup {n}
    BY <1>17, <2>1 DEF Nodes
  <2>3. ~Deleting'
    BY <1>14 DEF Deleting
  <2> QED BY <2>2, <2>3 DEF InTree
<1>19. Types'
  <2>1. DOMAIN tree' \subseteq Node \cup {ROOT, NIL}
    BY <1>17 DEF Inv, Types
  <2>2. IsFiniteSet(DOMAIN tree')
    BY <1>17, FS_AddElement DEF Inv, Types
  <2>3. op' \in [step : {"insert"}, node : Nodes']
    BY <1>14, <1>18
  <2> QED BY <1>14, <2>1, <2>2, <2>3 DEF Types
<1>20. Fits'
  BY <1>14, <1>16, <1>18 DEF Fits, Idle
<1> QED BY <1>19, <1>20 DEF Inv

-----------------------------------------------------------------------------
(* In the loop of rbtree_insert_node().                                     *)
LEMMA WhenInserting ==
  ASSUME Inv, op.step = "insert"
  PROVE  /\ op \in [step : {"insert"}, node : Nodes] /\ InTree = Nodes
         /\ \E b, h : Inserting(tree, Nodes, b, Size, h, op.node)
<1>1. op \in [step : {"insert"}, node : Nodes]
  BY DEF Inv, Types, Idle
<1>2. InTree = Nodes
  BY DEF InTree, Deleting
<1> QED BY <1>1, <1>2 DEF Inv, Fits

LEMMA StillInserting ==
  ASSUME Inv, op.step = "insert", DOMAIN tree' = DOMAIN tree, result' = result,
         NEW x \in Nodes, op' = [op EXCEPT !.node = x],
         NEW b, NEW h, Inserting(tree', Nodes, b, Size, h, x)
  PROVE  Inv'
<1>1. op \in [step : {"insert"}, node : Nodes]
  BY WhenInserting
<1>2. Nodes' = Nodes
  BY DEF Nodes
<1>3. op' \in [step : {"insert"}, node : Nodes'] /\ op'.step = "insert" /\ op'.node = x
  BY <1>1, <1>2
<1>4. InTree' = Nodes
  BY <1>2, <1>3 DEF InTree, Deleting
<1>5. Types'
  BY <1>3 DEF Inv, Types
<1>6. Fits'
  BY <1>3, <1>4 DEF Fits, Idle
<1> QED BY <1>5, <1>6 DEF Inv

LEMMA InsertRecolorInv == Inv /\ InsertRecolor => Inv'
<1> SUFFICES ASSUME Inv, InsertRecolor PROVE Inv'
  OBVIOUS
<1>1. op.step = "insert"
  BY DEF InsertRecolor
<1>2. PICK below, h : Inserting(tree, Nodes, below, Size, h, op.node)
  BY <1>1, WhenInserting
<1>3. PICK x, p : x = op.node /\ p = tree[x].parent
  OBVIOUS
<1>4. PICK g : g = tree[p].parent
  OBVIOUS
<1>5. PICK c : c = tree[g][Other(SideOf(tree, p))]
  OBVIOUS
<1>6. tree[p].color = "red" /\ tree[c].color = "red"
  BY <1>3, <1>4, <1>5 DEF InsertRecolor
<1>7. /\ tree' = Recolored(tree, p, c, g)
      /\ op' = [op EXCEPT !.node = g] /\ result' = result
  BY <1>3, <1>4, <1>5 DEF InsertRecolor, Recolored
<1>8. g \in Nodes /\ \E u, j : /\ u = Recolored(tree, p, c, g)
                              /\ DOMAIN u = DOMAIN tree
                              /\ Inserting(u, Nodes, below, Size, j, g)
  <2>1. Size \in [Node -> Nat]
    BY TreeAssumption
  <2> QED BY <1>2, <1>3, <1>4, <1>5, <1>6, <2>1, RecolorKeeps
<1>9. PICK j : DOMAIN tree' = DOMAIN tree /\ Inserting(tree', Nodes, below, Size, j, g)
  BY <1>7, <1>8
<1> QED BY <1>1, <1>7, <1>8, <1>9, StillInserting

LEMMA InsertRotateInv == Inv /\ InsertRotate => Inv'
<1> SUFFICES ASSUME Inv, InsertRotate PROVE Inv'
  OBVIOUS
<1>1. op.step = "insert"
  BY DEF InsertRotate
<1>2. PICK below, h : Inserting(tree, Nodes, below, Size, h, op.node)
  BY <1>1, WhenInserting
<1>3. PICK x, p : x = op.node /\ p = tree[x].parent
  OBVIOUS
<1>4. PICK g, s : g = tree[p].parent /\ s = SideOf(tree, p)
  OBVIOUS
<1>5. Size \in [Node -> Nat]
  BY TreeAssumption
<1>6. tree[p].color = "red" /\ tree[tree[g][Other(s)]].color = "black" /\ result' = result
  BY <1>3, <1>4 DEF InsertRotate
<1>7. CASE SideOf(tree, x) # s
  <2>1. PICK v, b, j : /\ v = Rotate(tree, p, s) /\ DOMAIN v = DOMAIN tree
                       /\ Inserting(v, Nodes, b, Size, j, p)
                       /\ v[p].parent = x /\ v[x].parent = g /\ v[x].color = "red"
                       /\ SideOf(v, x) = s /\ SideOf(v, p) = s
                       /\ v[g][Other(s)] = tree[g][Other(s)]
                       /\ \A k \in Nodes \cup {NIL} : v[k].color = tree[k].color
    BY <1>2, <1>3, <1>4, <1>5, <1>6, <1>7, InnerKeeps
  <2>2. v[v[g][Other(s)]].color = "black"
    <3>1. tree[g][Other(s)] \in Nodes \cup {NIL}
      <4>1. g \in Nodes /\ Other(s) \in Side
        BY <1>2, <1>3, <1>4, <1>6, RedParent
      <4> QED BY <1>2, <4>1, Kids DEF Inserting
    <3> QED BY <1>6, <2>1, <3>1
  <2>3. \E u, c, i : /\ u = SwapRotate(v, g, Other(s), x)
                     /\ DOMAIN u = DOMAIN v
                     /\ Inserting(u, Nodes, c, Size, i, p)
    BY <1>5, <2>1, <2>2, OuterKeeps
  <2>4. tree' = SwapRotate(v, g, Other(s), x) /\ op' = [op EXCEPT !.node = p]
    BY <1>3, <1>4, <1>7, <2>1 DEF InsertRotate
  <2>5. PICK c, i : DOMAIN tree' = DOMAIN tree /\ Inserting(tree', Nodes, c, Size, i, p)
    BY <2>1, <2>3, <2>4
  <2>6. p \in Nodes
    BY <2>5 DEF Inserting
  <2> QED BY <1>1, <1>6, <2>4, <2>5, <2>6, StillInserting
<1>8. CASE SideOf(tree, x) = s
  <2>1. \E u, c, i : /\ u = SwapRotate(tree, g, Other(s), p)
                     /\ DOMAIN u = DOMAIN tree
                     /\ Inserting(u, Nodes, c, Size, i, x)
    BY <1>2, <1>3, <1>4, <1>5, <1>6, <1>8, OuterKeeps
  <2>2. tree' = SwapRotate(tree, g, Other(s), p) /\ op' = [op EXCEPT !.node = x]
    BY <1>3, <1>4, <1>8 DEF InsertRotate
  <2>3. PICK c, i : DOMAIN tree' = DOMAIN tree /\ Inserting(tree', Nodes, c, Size, i, x)
    BY <2>1, <2>2
  <2>4. x \in Nodes
    BY <2>3 DEF Inserting
  <2> QED BY <1>1, <1>6, <2>2, <2>3, <2>4, StillInserting
<1> QED BY <1>7, <1>8

LEMMA InsertDoneInv == Inv /\ InsertDone => Inv'
<1> SUFFICES ASSUME Inv, InsertDone PROVE Inv'
  OBVIOUS
<1>1. op.step = "insert"
  BY DEF InsertDone
<1>2. PICK below, h : Inserting(tree, Nodes, below, Size, h, op.node)
  BY <1>1, WhenInserting
<1>3. PICK x, p, y : x = op.node /\ p = tree[x].parent /\ y = tree[ROOT].left
  OBVIOUS
<1>4. /\ tree[p].color = "black" /\ tree' = [tree EXCEPT ![y].color = "black"]
      /\ op' = Idle /\ result' = result
  BY <1>3 DEF InsertDone, First
<1>5. /\ Linked(tree, Nodes) /\ Nested(tree, Nodes, below)
      /\ Ordered(tree, Nodes, below, Size) /\ Balanced(tree, Nodes, h, NIL, "left")
      /\ x \in Nodes /\ Colored(tree, Nodes, x, NIL)
  BY <1>2, <1>3 DEF Inserting
<1>6. ROOT \notin Nodes /\ NIL \notin Nodes /\ ROOT # NIL
  BY TreeAssumption DEF Nodes
<1>7. y \in Nodes /\ tree[y].parent = ROOT
  <2>1. y # NIL
    BY <1>3, <1>5 DEF Nested
  <2> QED BY <1>3, <1>5, <2>1 DEF Linked, Side
<1>8. Repairing(tree, Nodes, below, Size, h, y)
  <2>1. PICK q, e : q = ROOT /\ e = SideOf(tree, y)
    OBVIOUS
  <2>2. Balanced(tree, Nodes, h, q, e)
    BY <1>5, <1>6, <2>1, NoLack
  <2>3. Held(tree, Nodes, y)
    BY <1>5, <1>7, HeldNode
  <2>4. Colored(tree, Nodes, y, y)
    <3>1. tree[ROOT].color = "black" /\ tree[NIL].color = "black"
      BY <1>5 DEF Colored
    <3>2. ASSUME NEW k \in Nodes, tree[k].color = "red", k # y
          PROVE  tree[k].parent # ROOT /\ tree[tree[k].parent].color = "black"
      <4>1. tree[k].parent \in Nodes \cup {ROOT}
        BY <1>5 DEF Linked
      <4>2. CASE k = x
        <5>1. tree[k].parent # ROOT
          <6>1. tree[tree[k].parent][SideOf(tree, k)] = k /\ tree[ROOT].right = NIL
            BY <1>5 DEF Linked
          <6> QED BY <1>3, <1>6, <3>2, <6>1 DEF SideOf
        <5> QED BY <1>3, <1>4, <4>2, <5>1
      <4>3. CASE k # x
        BY <1>5, <1>6, <3>2, <4>1, <4>3 DEF Colored
      <4> QED BY <4>2, <4>3
    <3> QED BY <3>1, <3>2 DEF Colored
  <2> QED BY <1>5, <1>7, <2>1, <2>2, <2>3, <2>4 DEF Repairing
<1>9. \E u, j : /\ u = [tree EXCEPT ![y].color = "black"]
                /\ DOMAIN u = DOMAIN tree /\ Settled(u, Nodes, below, Size, j)
  <2>1. Size \in [Node -> Nat]
    BY TreeAssumption
  <2> QED BY <1>3, <1>8, <2>1, BlackenKeeps
<1>10. PICK j : DOMAIN tree' = DOMAIN tree /\ Settled(tree', Nodes, below, Size, j)
  BY <1>4, <1>9
<1>11. Nodes' = Nodes /\ InTree' = Nodes
  <2>1. Nodes' = Nodes
    BY <1>10 DEF Nodes
  <2> QED BY <1>4, <2>1 DEF InTree, Deleting, Idle
<1>12. Types'
  BY <1>4, <1>10 DEF Inv, Types
<1>13. Fits'
  BY <1>4, <1>10, <1>11 DEF Fits, Idle
<1> QED BY <1>12, <1>13 DEF Inv

-----------------------------------------------------------------------------
(* In rbtree_delete_node().                                                 *)
LEMMA TakeInv == Inv /\ (\E z \in {Size[n] : n \in Node} : Take(z)) => Inv'
<1> SUFFICES ASSUME Inv, NEW z \in {Size[n] : n \in Node}, Take(z) PROVE Inv'
  OBVIOUS
<1>1. op = Idle /\ FindNode(z) # NIL
  BY DEF Take
<1>2. /\ InTree = Nodes /\ IsFiniteSet(Nodes) /\ Nodes \subseteq Node
      /\ DOMAIN tree = Nodes \cup {ROOT, NIL}
  BY <1>1, WhenIdle
<1>3. PICK below, h : Settled(tree, Nodes, below, Size, h)
  BY <1>1, WhenIdle
<1>4. /\ Linked(tree, Nodes) /\ Nested(tree, Nodes, below)
      /\ Ordered(tree, Nodes, below, Size)
  BY <1>3 DEF Settled
<1>5. z \in Nat /\ Size \in [Node -> Nat] /\ ROOT \notin Nodes /\ NIL \notin Nodes /\ ROOT # NIL
  BY TreeAssumption DEF Nodes
<1>6. PICK found : found = FindNode(z)
  OBVIOUS
<1>7. found \in Nodes
  BY <1>1, <1>2, <1>3, <1>5, <1>6, FindNodeFinds
<1>8. PICK y : y = IF tree[found].left = NIL \/ tree[found].right = NIL
                   THEN found ELSE Successor(found)
  OBVIOUS
<1>9. PICK x : x = IF tree[y].left = NIL THEN tree[y].right ELSE tree[y].left
  OBVIOUS
<1>10. PICK p, e : p = tree[y].parent /\ e = SideOf(tree, y)
  OBVIOUS
<1>11. /\ tree' = Cut(tree, x, p, e)
       /\ op' = [step |-> IF tree[y].color = "black" THEN "repair" ELSE "splice",
                 node |-> x, found |-> found, gone |-> y, size |-> z]
       /\ result' = result
  BY <1>6, <1>8, <1>9, <1>10 DEF Take, Cut
<1>12. PICK w : w = IF found # y THEN [Size EXCEPT ![found] = Size[y]] ELSE Size
  OBVIOUS
<1>13. /\ y \in Nodes /\ (tree[y].left = NIL \/ tree[y].right = NIL)
       /\ OrderedBut(tree, Nodes, below, w, y)
  <2>1. CASE tree[found].left = NIL \/ tree[found].right = NIL
    <3>1. y = found /\ w = Size
      BY <1>8, <1>12, <2>1
    <3> QED BY <1>4, <1>7, <2>1, <3>1 DEF Ordered, OrderedBut
  <2>2. CASE ~(tree[found].left = NIL \/ tree[found].right = NIL)
    <3>1. y = Successor(found) /\ tree[found].right # NIL
      BY <1>8, <2>2
    <3>2. /\ y \in below[tree[found].right] /\ tree[y].left = NIL
          /\ \A m \in below[tree[found].right] : Size[y] <= Size[m]
      BY <1>2, <1>3, <1>7, <3>1, SuccessorNext
    <3>3. tree[found].right \in Nodes
      BY <1>4, <1>7, <3>1, Kids DEF Side
    <3>4. y \in Nodes
      BY <1>2, <1>4, <3>2, <3>3, BelowBelow
    <3>5. y # found
      BY <1>4, <1>7, <3>2 DEF Nested, Side
    <3>6. w = [Size EXCEPT ![found] = Size[y]]
      BY <1>12, <3>5
    <3>7. /\ w \in [Node -> Nat] /\ w[found] = Size[y]
          /\ \A m \in Nodes \ {found} : w[m] = Size[m]
      BY <1>2, <1>5, <1>7, <3>4, <3>6
    <3>8. OrderedBut(tree, Nodes, below, w, y)
      BY <1>2, <1>4, <1>7, <3>2, <3>7, WorthOrdered
    <3> QED BY <3>2, <3>4, <3>8
  <2> QED BY <2>1, <2>2
<1>14. Leaving(tree, y, x)
  BY <1>9, <1>13 DEF Leaving
<1>15. y \in Nodes /\ OrderedBut(tree, Nodes, below, w, y) /\ p = tree[y].parent
       /\ e = SideOf(tree, y)
  BY <1>10, <1>13
<1>16. \E u : /\ u = Cut(tree, x, p, e)
              /\ DOMAIN u = DOMAIN tree
              /\ x \in (Nodes \ {y}) \cup {NIL}
              /\ tree[y].color = "black" => \E b, j : Repairing(u, Nodes \ {y}, b, w, j, x)
              /\ tree[y].color # "black" => \E b, j : Settled(u, Nodes \ {y}, b, w, j)
  BY <1>3, <1>14, <1>15, PruneKeeps
<1>17. /\ DOMAIN tree' = DOMAIN tree /\ x \in (Nodes \ {y}) \cup {NIL}
       /\ tree[y].color = "black" => \E b, j : Repairing(tree', Nodes \ {y}, b, w, j, x)
       /\ tree[y].color # "black" => \E b, j : Settled(tree', Nodes \ {y}, b, w, j)
  BY <1>11, <1>16
<1>18. Nodes' = Nodes
  BY <1>17 DEF Nodes
<1>19. op' \in [step : {"repair", "splice"}, node : Nodes' \cup {NIL},
                found : Nodes', gone : Nodes', size : Nat]
  BY <1>5, <1>7, <1>11, <1>13, <1>17, <1>18
<1>20. /\ op'.step = (IF tree[y].color = "black" THEN "repair" ELSE "splice")
       /\ op'.node = x /\ op'.found = found /\ op'.gone = y
  BY <1>11
<1>21. InTree' = Nodes \ {y} /\ Worth' = w
  <2>1. Deleting'
    BY <1>20 DEF Deleting
  <2> QED BY <1>12, <1>18, <1>20, <2>1 DEF InTree, Worth
<1>22. Types'
  BY <1>11, <1>17, <1>19 DEF Inv, Types
<1>23. Fits'
  <2>1. CASE tree[y].color = "black"
    <3>1. op'.step = "repair" /\ \E b, j : Repairing(tree', InTree', b, Worth', j, op'.node)
      BY <1>17, <1>20, <1>21, <2>1
    <3> QED BY <3>1 DEF Fits, Idle
  <2>2. CASE tree[y].color # "black"
    <3>1. op'.step = "splice" /\ \E b, j : Settled(tree', InTree', b, Worth', j)
      BY <1>17, <1>20, <1>21, <2>2
    <3> QED BY <3>1 DEF Fits, Idle
  <2> QED BY <2>1, <2>2
<1> QED BY <1>22, <1>23 DEF Inv

LEMMA TakeFailsInv == Inv /\ (\E z \in {Size[n] : n \in Node} : TakeFails(z)) => Inv'
<1> SUFFICES ASSUME Inv, NEW z \in {Size[n] : n \in Node}, TakeFails(z) PROVE Inv'
  OBVIOUS
<1>1. tree' = tree /\ op' = op /\ result' = NIL
  BY DEF TakeFails
<1>2. Types'
  BY <1>1 DEF Inv, Types, Nodes
<1>3. Fits'
  BY <1>1 DEF Inv, Fits, InTree, Nodes, Deleting, Worth
<1> QED BY <1>2, <1>3 DEF Inv

LEMMA WhenDeleting ==
  ASSUME Inv, Deleting
  PROVE  /\ op \in [step : {"repair", "splice"}, node : Nodes \cup {NIL},
                    found : Nodes, gone : Nodes, size : Nat]
         /\ InTree = Nodes \ {op.gone} /\ Nodes \subseteq Node
         /\ Worth \in [Node -> Nat]
<1>1. op \in [step : {"repair", "splice"}, node : Nodes \cup {NIL},
              found : Nodes, gone : Nodes, size : Nat]
  BY DEF Inv, Types, Idle, Deleting
<1>2. InTree = Nodes \ {op.gone}
  BY DEF InTree
<1>3. Nodes \subseteq Node
  BY DEF Inv, Types, Nodes
<1>4. Size \in [Node -> Nat]
  BY TreeAssumption
<1>5. op.found \in Node /\ op.gone \in Node
  BY <1>1, <1>3
<1>6. Worth \in [Node -> Nat]
  BY <1>4, <1>5 DEF Worth
<1> QED BY <1>1, <1>2, <1>3, <1>6

LEMMA StillRepairing ==
  ASSUME Inv, op.step = "repair", DOMAIN tree' = DOMAIN tree, result' = result,
         NEW x \in InTree \cup {NIL}, op' = [op EXCEPT !.node = x],
         NEW b, NEW h, Repairing(tree', InTree, b, Worth, h, x)
  PROVE  Inv'
<1>1. /\ op \in [step : {"repair", "splice"}, node : Nodes \cup {NIL},
                 found : Nodes, gone : Nodes, size : Nat]
      /\ InTree = Nodes \ {op.gone}
  BY WhenDeleting DEF Deleting
<1>2. Nodes' = Nodes
  BY DEF Nodes
<1>3. /\ op' \in [step : {"repair", "splice"}, node : Nodes' \cup {NIL},
                  found : Nodes', gone : Nodes', size : Nat]
      /\ op'.step = "repair" /\ op'.node = x /\ op'.found = op.found /\ op'.gone = op.gone
  BY <1>1, <1>2
<1>4. InTree' = InTree /\ Worth' = Worth
  <2>1. Deleting /\ Deleting'
    BY <1>3 DEF Deleting
  <2> QED BY <1>2, <1>3, <2>1 DEF InTree, Worth
<1>5. Types'
  BY <1>3 DEF Inv, Types
<1>6. Fits'
  BY <1>3, <1>4 DEF Fits, Idle
<1> QED BY <1>5, <1>6 DEF Inv

LEMMA WhenShort ==
  ASSUME Inv, Short
  PROVE  /\ op.step = "repair" /\ tree[op.node].color = "black" /\ tree[ROOT].left # op.node
         /\ Worth \in [Node -> Nat]
         /\ \E b, h : Repairing(tree, InTree, b, Worth, h, op.node)
<1>1. op.step = "repair" /\ tree[op.node].color = "black" /\ tree[ROOT].left # op.node
  BY DEF Short, First
<1>2. Worth \in [Node -> Nat]
  BY <1>1, WhenDeleting DEF Deleting
<1> QED BY <1>1, <1>2 DEF Inv, Fits

(* The short subtree once its sibling is black.                             *)
LEMMA WithBlackSibling ==
  ASSUME Inv, Short
  PROVE  \E u, b, h, p, s :
           /\ u = BlackSibling
           /\ DOMAIN u = DOMAIN tree
           /\ SiblingBlack(u, InTree, op.node, p, s)
           /\ Repairing(u, InTree, b, Worth, h, op.node)
<1>1. PICK below, h : Repairing(tree, InTree, below, Worth, h, op.node)
  BY WhenShort
<1>2. PICK x : x = op.node
  OBVIOUS
<1>3. PICK p, s : p = tree[x].parent /\ s = SideOf(tree, x)
  OBVIOUS
<1>4. PICK c : c = tree[p][Other(s)]
  OBVIOUS
<1>5. BlackSibling = IF tree[c].color = "red" THEN SwapRotate(tree, p, s, c) ELSE tree
  BY <1>2, <1>3, <1>4 DEF BlackSibling
<1>6. /\ Worth \in [Node -> Nat] /\ tree[ROOT].left # x /\ tree[x].color = "black"
      /\ Repairing(tree, InTree, below, Worth, h, x)
  BY <1>1, <1>2, WhenShort
<1>7. \E u, b, g :
        /\ u = IF tree[c].color = "red" THEN SwapRotate(tree, p, s, c) ELSE tree
        /\ DOMAIN u = DOMAIN tree
        /\ SiblingBlack(u, InTree, x, p, s)
        /\ Repairing(u, InTree, b, Worth, g, x)
  BY <1>3, <1>4, <1>6, BlackSiblingKeeps
<1> QED BY <1>2, <1>5, <1>7

LEMMA RepairAboveInv == Inv /\ RepairAbove => Inv'
<1> SUFFICES ASSUME Inv, RepairAbove PROVE Inv'
  OBVIOUS
<1>1. Short /\ op.step = "repair" /\ Worth \in [Node -> Nat]
  BY WhenShort DEF RepairAbove
<1>2. PICK t, below, h, p, s :
        /\ t = BlackSibling
        /\ DOMAIN t = DOMAIN tree
        /\ SiblingBlack(t, InTree, op.node, p, s)
        /\ Repairing(t, InTree, below, Worth, h, op.node)
  BY <1>1, WithBlackSibling
<1>3. t[op.node].parent = p /\ SideOf(t, op.node) = s
  BY <1>2 DEF SiblingBlack
<1>4. PICK c : c = t[p][Other(s)]
  OBVIOUS
<1>5. /\ \A r \in Side : t[t[c][r]].color = "black"
      /\ tree' = Reddened(t, c)
      /\ op' = [op EXCEPT !.node = p] /\ result' = result
  BY <1>2, <1>3, <1>4 DEF RepairAbove, Reddened
<1>6. /\ p \in InTree
      /\ \E u, j : /\ u = Reddened(t, c)
                   /\ DOMAIN u = DOMAIN t
                   /\ Repairing(u, InTree, below, Worth, j, p)
  <2>1. BlackKids(t, c)
    BY <1>5 DEF BlackKids
  <2>2. /\ SiblingBlack(t, InTree, op.node, p, s)
        /\ Repairing(t, InTree, below, Worth, h, op.node)
    BY <1>2
  <2> QED BY <1>1, <1>4, <2>1, <2>2, AboveKeeps
<1>7. PICK j : DOMAIN tree' = DOMAIN tree /\ Repairing(tree', InTree, below, Worth, j, p)
  BY <1>2, <1>5, <1>6
<1>8. op' = [op EXCEPT !.node = p] /\ result' = result
  BY <1>5
<1> QED BY <1>1, <1>6, <1>7, <1>8, StillRepairing

LEMMA RepairRotateInv == Inv /\ RepairRotate => Inv'
<1> SUFFICES ASSUME Inv, RepairRotate PROVE Inv'
  OBVIOUS
<1>1. Short /\ op.step = "repair" /\ Worth \in [Node -> Nat]
  BY WhenShort DEF RepairRotate
<1>2. PICK t, below, h, p, s :
        /\ t = BlackSibling
        /\ DOMAIN t = DOMAIN tree
        /\ SiblingBlack(t, InTree, op.node, p, s)
        /\ Repairing(t, InTree, below, Worth, h, op.node)
  BY <1>1, WithBlackSibling
<1>3. t[op.node].parent = p /\ SideOf(t, op.node) = s
  BY <1>2 DEF SiblingBlack
<1>4. PICK c, a : c = t[p][Other(s)] /\ a = t[c][s]
  OBVIOUS
<1>5. \E r \in Side : t[t[c][r]].color = "red"
  BY <1>2, <1>3, <1>4 DEF RepairRotate
<1>6. PICK u, b, g :
        /\ u = IF t[t[c][Other(s)]].color = "black" THEN SwapRotate(t, c, Other(s), a) ELSE t
        /\ DOMAIN u = DOMAIN t
        /\ Repairing(u, InTree, b, Worth, g, op.node)
        /\ SiblingBlack(u, InTree, op.node, p, s)
        /\ u[u[u[p][Other(s)]][Other(s)]].color = "red"
  BY <1>1, <1>2, <1>4, <1>5, FarKeeps
<1>7. PICK k, m : k = u[p][Other(s)] /\ m = u[k][Other(s)]
  OBVIOUS
<1>8. /\ tree' = LiftRotate(u, p, s, k)
      /\ op' = [op EXCEPT !.node = tree'[ROOT].left] /\ result' = result
  BY <1>2, <1>3, <1>4, <1>6, <1>7 DEF RepairRotate
<1>9. \E v, d, j : /\ v = LiftRotate(u, p, s, k)
                   /\ DOMAIN v = DOMAIN u
                   /\ Repairing(v, InTree, d, Worth, j, v[ROOT].left)
  <2>1. u[m].color = "red"
    BY <1>6, <1>7
  <2>2. /\ SiblingBlack(u, InTree, op.node, p, s)
        /\ Repairing(u, InTree, b, Worth, g, op.node)
    BY <1>6
  <2> QED BY <1>1, <1>7, <2>1, <2>2, LiftKeeps
<1>10. PICK x : x = tree'[ROOT].left
  OBVIOUS
<1>11. PICK d, j : DOMAIN tree' = DOMAIN tree /\ Repairing(tree', InTree, d, Worth, j, x)
  BY <1>2, <1>6, <1>8, <1>9, <1>10
<1>12. x \in InTree \cup {NIL}
  BY <1>11 DEF Repairing, Held
<1>13. op' = [op EXCEPT !.node = x] /\ result' = result
  BY <1>8, <1>10
<1> QED BY <1>1, <1>11, <1>12, <1>13, StillRepairing

LEMMA RepairDoneInv == Inv /\ RepairDone => Inv'
<1> SUFFICES ASSUME Inv, RepairDone PROVE Inv'
  OBVIOUS
<1>1. op.step = "repair"
  BY DEF RepairDone
<1>2. PICK below, h : Repairing(tree, InTree, below, Worth, h, op.node)
  BY <1>1 DEF Inv, Fits
<1>3. PICK x : x = op.node
  OBVIOUS
<1>4. /\ tree' = [tree EXCEPT ![x].color = "black"]
      /\ op' = [op EXCEPT !.step = "splice"] /\ result' = result
  BY <1>3 DEF RepairDone
<1>5. tree[x].color = "black" => tree[ROOT].left = x
  BY <1>1, <1>3 DEF RepairDone, Short, First
<1>6. /\ op \in [step : {"repair", "splice"}, node : Nodes \cup {NIL},
                 found : Nodes, gone : Nodes, size : Nat]
      /\ Worth \in [Node -> Nat]
  BY <1>1, WhenDeleting DEF Deleting
<1>7. \E u, j : /\ u = [tree EXCEPT ![x].color = "black"]
                /\ DOMAIN u = DOMAIN tree /\ Settled(u, InTree, below, Worth, j)
  BY <1>2, <1>3, <1>5, <1>6, BlackenKeeps
<1>8. PICK j : DOMAIN tree' = DOMAIN tree /\ Settled(tree', InTree, below, Worth, j)
  BY <1>4, <1>7
<1>9. Nodes' = Nodes
  BY <1>8 DEF Nodes
<1>10. /\ op' \in [step : {"repair", "splice"}, node : Nodes' \cup {NIL},
                   found : Nodes', gone : Nodes', size : Nat]
       /\ op'.step = "splice" /\ op'.found = op.found /\ op'.gone = op.gone
  BY <1>4, <1>6, <1>9
<1>11. InTree' = InTree /\ Worth' = Worth
  <2>1. Deleting /\ Deleting'
    BY <1>1, <1>10 DEF Deleting
  <2> QED BY <1>9, <1>10, <2>1 DEF InTree, Worth
<1>12. Types'
  BY <1>4, <1>8, <1>10 DEF Inv, Types
<1>13. Fits'
  BY <1>8, <1>10, <1>11 DEF Fits, Idle
<1> QED BY <1>12, <1>13 DEF Inv

LEMMA SpliceInv == Inv /\ Splice => Inv'
<1> SUFFICES ASSUME Inv, Splice PROVE Inv'
  OBVIOUS
<1>1. op.step = "splice" /\ op' = Idle /\ result' = op.found
  BY DEF Splice
<1>2. PICK z, y : z = op.found /\ y = op.gone
  OBVIOUS
<1>3. /\ z \in Nodes /\ y \in Nodes /\ Nodes \subseteq Node /\ InTree = Nodes \ {y}
  BY <1>1, <1>2, WhenDeleting DEF Deleting
<1>4. PICK T : T = Nodes \ {y}
  OBVIOUS
<1>5. PICK below, h : Settled(tree, T, below, Worth, h)
  BY <1>1, <1>3, <1>4 DEF Inv, Fits
<1>6. /\ Linked(tree, T) /\ Nested(tree, T, below)
  BY <1>5 DEF Settled
<1>7. /\ DOMAIN tree = Nodes \cup {ROOT, NIL} /\ ROOT \notin Nodes /\ NIL \notin Nodes
      /\ ROOT # NIL
  BY <1>6, TreeAssumption DEF Linked, Nodes
<1>8. Size \in [Node -> Nat]
  BY TreeAssumption
<1>9. PICK U : U = Nodes \ {z}
  OBVIOUS
<1>10. /\ DOMAIN tree' = U \cup {ROOT, NIL}
       /\ \E b, j : Settled(tree', U, b, Size, j)
  <2>1. CASE y = z
    <3>1. tree' = [n \in DOMAIN tree \ {z} |-> tree[n]]
      BY <1>2, <2>1 DEF Splice
    <3>2. PICK u : u = [n \in DOMAIN tree \ {z} |-> tree[n]]
      OBVIOUS
    <3>3. PICK o : o = [k \in U \cup {ROOT, NIL} |-> k]
      OBVIOUS
    <3>4. DOMAIN u = U \cup {ROOT, NIL} /\ U = T
      BY <1>4, <1>7, <1>9, <1>3, <2>1, <3>2
    <3>5. \A k \in U \cup {ROOT, NIL} : u[k] = tree[k] /\ o[k] = k
      BY <3>2, <3>3, <3>4
    <3>6. /\ \A k \in U \cup {ROOT}, s \in Side : tree[k][s] \in U \cup {NIL}
          /\ \A k \in U : tree[k].parent \in U \cup {ROOT}
      BY <1>6, <3>4 DEF Linked
    <3>7. \A s \in Side : tree[NIL][s] = NIL
      BY <1>6 DEF Linked
    <3>8. Alike(tree, T, u, U, o)
      <4>1. o \in [U \cup {ROOT, NIL} -> T \cup {ROOT, NIL}]
        BY <3>3, <3>4
      <4>2. \A k \in U \cup {ROOT}, s \in Side :
              u[k][s] \in U \cup {NIL} /\ o[u[k][s]] = tree[o[k]][s]
        BY <3>5, <3>6
      <4>3. \A k \in U : u[k].parent \in U \cup {ROOT} /\ o[u[k].parent] = tree[o[k]].parent
        BY <3>5, <3>6
      <4>4. \A k \in U \cup {ROOT, NIL} : u[k].color = tree[o[k]].color
        BY <3>5
      <4>5. \A k, m \in U \cup {ROOT, NIL} : o[k] = o[m] => k = m
        BY <3>5
      <4> QED BY <3>4, <3>5, <3>7, <4>1, <4>2, <4>3, <4>4, <4>5 DEF Alike
    <3>9. u \in [DOMAIN u -> RBNodes(DOMAIN u)]
      <4>1. \A k \in U \cup {ROOT, NIL} : tree[k] \in RBNodes(DOMAIN tree)
        BY <1>6, <1>7, <1>9 DEF Linked
      <4>2. \A k \in U \cup {ROOT, NIL} : tree[k].left \in U \cup {NIL}
                                          /\ tree[k].right \in U \cup {NIL}
        BY <3>6, <3>7 DEF Side
      <4>3. \A k \in U \cup {ROOT, NIL} : u[k] \in RBNodes(U \cup {ROOT, NIL})
        BY <3>5, <4>1, <4>2 DEF RBNodes
      <4>4. u = [k \in U \cup {ROOT, NIL} |-> u[k]]
        BY <3>2, <3>4
      <4> QED BY <3>4, <4>3, <4>4
    <3>10. Worth = Size
      BY <1>2, <2>1 DEF Worth
    <3>11. \A k \in U : Size[k] = Worth[o[k]]
      BY <3>5, <3>10
    <3>12. U \in SUBSET Node
      BY <1>3, <1>9
    <3>13. \E b, j : Settled(u, U, b, Size, j)
      BY <1>5, <3>4, <3>8, <3>9, <3>11, <3>12, AlikeKeeps
    <3> QED BY <3>1, <3>2, <3>4, <3>13
  <2>2. CASE y # z
    <3>1. PICK p, e : p = tree[z].parent /\ e = SideOf(tree, z)
      OBVIOUS
    <3>2. tree' = [n \in DOMAIN tree \ {z} |-> Moved(tree, z, y, p, e)[n]]
      BY <1>2, <2>2, <3>1 DEF Splice, Moved
    <3>3. z \in T /\ y \in Node \ T
      BY <1>3, <1>4, <2>2
    <3>4. DOMAIN tree = T \cup {y, ROOT, NIL}
      BY <1>3, <1>4, <1>7
    <3>5. PICK u : /\ u = [n \in DOMAIN tree \ {z} |-> Moved(tree, z, y, p, e)[n]]
                   /\ Spliced(tree, T, u, z, y, p, e)
      BY <1>6, <3>1, <3>3, <3>4, SpliceLinks
    <3>6. /\ Worth = [Size EXCEPT ![z] = Size[y]]
      BY <1>1, <1>2, <2>2 DEF Worth, Deleting
    <3>7. Worth[z] = Size[y] /\ \A k \in T \ {z} : Worth[k] = Size[k]
      BY <1>3, <1>4, <1>8, <3>6
    <3>8. \E b, j : Settled(u, (T \ {z}) \cup {y}, b, Size, j)
      <4>1. Spliced(tree, T, u, z, y, p, e)
        BY <3>5
      <4> QED BY <1>5, <3>1, <3>3, <3>7, <4>1, SpliceKeeps
    <3>9. U = (T \ {z}) \cup {y}
      BY <1>3, <1>4, <1>9, <2>2
    <3>10. tree' = u /\ DOMAIN u = U \cup {ROOT, NIL}
      BY <3>2, <3>5, <3>9 DEF Spliced
    <3> QED BY <3>8, <3>9, <3>10
  <2> QED BY <2>1, <2>2
<1>11. Nodes' = U /\ InTree' = U
  <2>1. Nodes' = U
    BY <1>7, <1>9, <1>10 DEF Nodes
  <2>2. ~Deleting'
    BY <1>1 DEF Idle, Deleting
  <2> QED BY <2>1, <2>2 DEF InTree
<1>12. Types'
  <2>1. DOMAIN tree' \subseteq DOMAIN tree
    BY <1>7, <1>9, <1>10
  <2>2. IsFiniteSet(DOMAIN tree') /\ DOMAIN tree' \subseteq Node \cup {ROOT, NIL}
    BY <2>1, FS_Subset DEF Inv, Types
  <2>3. result' \in Node \cup {NIL}
    BY <1>1, <1>2, <1>3
  <2> QED BY <1>1, <2>2, <2>3 DEF Types
<1>13. Fits'
  BY <1>1, <1>10, <1>11 DEF Fits, Idle
<1> QED BY <1>12, <1>13 DEF Inv

LEMMA NextInv == Inv /\ [Next]_vars => Inv'
<1> SUFFICES ASSUME Inv, [Next]_vars PROVE Inv'
  OBVIOUS
<1>1. CASE \E n \in Node : Insert(n)
  BY <1>1, InsertInv
<1>2. CASE \E z \in {Size[n] : n \in Node} : Take(z)
  BY <1>2, TakeInv
<1>3. CASE \E z \in {Size[n] : n \in Node} : TakeFails(z)
  BY <1>3, TakeFailsInv
<1>4. CASE InsertRecolor
  BY <1>4, InsertRecolorInv
<1>5. CASE InsertRotate
  BY <1>5, InsertRotateInv
<1>6. CASE InsertDone
  BY <1>6, InsertDoneInv
<1>7. CASE RepairAbove
  BY <1>7, RepairAboveInv
<1>8. CASE RepairRotate
  BY <1>8, RepairRotateInv
<1>9. CASE RepairDone
  BY <1>9, RepairDoneInv
<1>10. CASE Splice
  BY <1>10, SpliceInv
<1>11. CASE Clear
  BY <1>11, ClearInv
<1>12. CASE UNCHANGED vars
  <2>1. tree' = tree /\ op' = op /\ result' = result
    BY <1>12 DEF vars
  <2>2. Nodes' = Nodes /\ Deleting' = Deleting
    BY <2>1 DEF Nodes, Deleting
  <2>3. InTree' = InTree /\ Worth' = Worth
    BY <2>1, <2>2 DEF InTree, Worth
  <2> QED BY <2>1, <2>2, <2>3 DEF Inv, Types, Fits
<1> QED BY <1>1, <1>2, <1>3, <1>4, <1>5, <1>6, <1>7, <1>8, <1>9, <1>10, <1>11, <1>12
        DEF Next, Loops

LEMMA InvCorrect == Spec => []Inv
<1>1. Init => Inv
  BY InitInv
<1>2. Inv /\ [Next]_vars => Inv'
  BY NextInv
<1> QED BY <1>1, <1>2, PTL DEF Spec

-----------------------------------------------------------------------------
(* The tree is linked as a tree is, whatever the call in progress.          *)
LEMMA AlwaysLinked ==
  ASSUME Inv
  PROVE  /\ op.step \in {"idle", "insert", "repair", "splice"}
         /\ \E below, w : /\ Linked(tree, InTree) /\ Nested(tree, InTree, below)
                          /\ Ordered(tree, InTree, below, w)
<1>1. CASE op = Idle
  BY <1>1 DEF Inv, Fits, Settled, Idle
<1>2. CASE op \in [step : {"insert"}, node : Nodes]
  BY <1>2 DEF Inv, Fits, Inserting
<1>3. CASE op \in [step : {"repair", "splice"}, node : Nodes \cup {NIL},
                   found : Nodes, gone : Nodes, size : Nat]
  BY <1>3 DEF Inv, Fits, Repairing, Settled
<1> QED BY <1>1, <1>2, <1>3 DEF Inv, Types

(* Between two calls every hole is found by its size.                       *)
THEOREM EveryHoleFound == Spec => []FindsEveryHole
<1>1. Inv => FindsEveryHole
  <2> SUFFICES ASSUME Inv, op = Idle, NEW n \in Nodes PROVE FindNode(Size[n]) # NIL
    BY DEF FindsEveryHole
  <2>1. IsFiniteSet(Nodes) /\ Nodes \subseteq Node
    BY WhenIdle
  <2>2. PICK below, h : Settled(tree, Nodes, below, Size, h)
    BY WhenIdle
  <2>3. PICK z : z = Size[n]
    OBVIOUS
  <2>4. z \in Nat /\ \E m \in Nodes : Size[m] = z
    BY <2>1, <2>3, TreeAssumption
  <2>5. FindNode(z) # NIL
    BY <2>1, <2>2, <2>4, FindNodeFinds
  <2> QED BY <2>3, <2>5
<1> QED BY <1>1, InvCorrect, PTL

-----------------------------------------------------------------------------
(* The tree implements the set of holes, which Insert, TakeFails, Splice and*)
(* Clear change; the other steps rearrange the tree.                        *)
LEMMA RotateDomain ==
  ASSUME NEW t, NEW n, NEW s, NEW c
  PROVE  /\ DOMAIN Rotate(t, n, s) = DOMAIN t
         /\ DOMAIN SwapRotate(t, n, s, c) = DOMAIN t
         /\ DOMAIN LiftRotate(t, n, s, c) = DOMAIN t
<1>1. ASSUME NEW v
      PROVE  DOMAIN Rotate(v, n, s) = DOMAIN v
  <2>1. DOMAIN RotateLinks(v, n, s) = DOMAIN v
    BY DEF RotateLinks
  <2>2. PICK u : u = RotateLinks(v, n, s)
    OBVIOUS
  <2>3. \/ Rotate(v, n, s) = u
        \/ Rotate(v, n, s) = [u EXCEPT ![v[v[n][Other(s)]][s]].parent = n]
    BY <2>2 DEF Rotate
  <2> QED BY <2>1, <2>2, <2>3
<1> QED BY <1>1 DEF SwapRotate, LiftRotate

LEMMA BlackSiblingDomain == DOMAIN BlackSibling = DOMAIN tree
  BY RotateDomain DEF BlackSibling

LEMMA Rearranging ==
  ASSUME \/ \E z \in {Size[n] : n \in Node} : Take(z)
         \/ InsertRecolor \/ InsertRotate \/ InsertDone
         \/ RepairAbove \/ RepairRotate \/ RepairDone
  PROVE  Holes' = Holes /\ asked' = asked /\ result' = result
<1> SUFFICES DOMAIN tree' = DOMAIN tree /\ asked' = asked /\ result' = result
  BY DEF Holes, Nodes
<1>1. CASE \E z \in {Size[n] : n \in Node} : Take(z)
  BY <1>1 DEF Take
<1>2. CASE InsertRecolor
  BY <1>2 DEF InsertRecolor
<1>3. CASE InsertRotate
  <2>1. asked' = asked /\ result' = result
    BY <1>3 DEF InsertRotate
  <2>2. PICK p, g, s, v, u :
          /\ tree' = SwapRotate(v, g, Other(s), u)
          /\ v = tree \/ v = Rotate(tree, p, s)
    BY <1>3 DEF InsertRotate
  <2>3. DOMAIN Rotate(tree, p, s) = DOMAIN tree
    BY RotateDomain
  <2>4. DOMAIN SwapRotate(v, g, Other(s), u) = DOMAIN v
    BY RotateDomain
  <2> QED BY <2>1, <2>2, <2>3, <2>4
<1>4. CASE InsertDone
  BY <1>4 DEF InsertDone
<1>5. CASE RepairAbove
  BY <1>5, BlackSiblingDomain DEF RepairAbove
<1>6. CASE RepairRotate
  <2>1. PICK t : t = BlackSibling
    OBVIOUS
  <2>2. PICK p, r : p = t[op.node].parent /\ r = SideOf(t, op.node)
    OBVIOUS
  <2>3. PICK c, u : /\ c = t[p][Other(r)]
                    /\ u = IF t[t[c][Other(r)]].color = "black"
                           THEN SwapRotate(t, c, Other(r), t[c][r]) ELSE t
    OBVIOUS
  <2>4. /\ tree' = LiftRotate(u, p, r, u[p][Other(r)])
        /\ asked' = asked /\ result' = result
    BY <1>6, <2>1, <2>2, <2>3 DEF RepairRotate
  <2>5. DOMAIN u = DOMAIN t
    BY <2>3, RotateDomain
  <2> QED BY <2>1, <2>4, <2>5, BlackSiblingDomain, RotateDomain
<1>7. CASE RepairDone
  BY <1>7 DEF RepairDone
<1> QED BY <1>1, <1>2, <1>3, <1>4, <1>5, <1>6, <1>7

(* rbtree_find_node() finds a hole of the very size a call asks for, and it *)
(* is the one that the call will take.                                      *)
LEMMA TakeFinds ==
  ASSUME Inv, NEW z \in {Size[n] : n \in Node}, Take(z)
  PROVE  op'.found \in Nodes /\ Size[op'.found] = z /\ op'.size = z
<1>1. op = Idle /\ FindNode(z) # NIL /\ op'.found = FindNode(z) /\ op'.size = z
  BY DEF Take
<1>2. IsFiniteSet(Nodes) /\ Nodes \subseteq Node
  BY <1>1, WhenIdle
<1>3. PICK below, h : Settled(tree, Nodes, below, Size, h)
  BY <1>1, WhenIdle
<1>4. z \in Nat
  BY TreeAssumption
<1>5. FindNode(z) \in Nodes /\ Size[FindNode(z)] = z
  BY <1>1, <1>2, <1>3, <1>4, FindNodeFinds
<1> QED BY <1>1, <1>5

(* While a hole is deleted, it is one of the size that was asked for.       *)
AskedFits ==
  /\ asked \in Nat \cup {NIL}
  /\ Deleting => Size[op.found] = op.size

LEMMA NextAsked == Inv /\ AskedFits /\ [Next]_vars => AskedFits'
<1> SUFFICES ASSUME Inv, AskedFits, [Next]_vars PROVE AskedFits'
  OBVIOUS
<1>1. CASE \E n \in Node : Insert(n)
  BY <1>1 DEF Insert, AskedFits, Deleting
<1>2. CASE \E z \in {Size[n] : n \in Node} : Take(z)
  <2>1. PICK z \in {Size[n] : n \in Node} : Take(z)
    BY <1>2
  <2>2. Size[op'.found] = op'.size
    BY <2>1, TakeFinds
  <2>3. asked' = asked
    BY <2>1 DEF Take
  <2> QED BY <2>2, <2>3 DEF AskedFits
<1>3. CASE \E z \in {Size[n] : n \in Node} : TakeFails(z)
  <2>1. PICK z \in {Size[n] : n \in Node} : TakeFails(z)
    BY <1>3
  <2>2. z \in Nat /\ op.step = "idle" /\ op' = op /\ asked' = z
    BY <2>1, TreeAssumption DEF TakeFails, Idle
  <2> QED BY <2>2 DEF AskedFits, Deleting
<1>4. CASE InsertRecolor \/ InsertRotate \/ InsertDone
  <2>1. op.step = "insert" /\ asked' = asked
    BY <1>4 DEF InsertRecolor, InsertRotate, InsertDone
  <2>2. op \in [step : {"insert"}, node : Nodes]
    BY <2>1, AlwaysLinked DEF Inv, Types, Idle
  <2>3. op'.step \in {"insert", "idle"}
    <3>1. CASE InsertRecolor
      BY <2>1, <2>2, <3>1 DEF InsertRecolor
    <3>2. CASE InsertRotate
      BY <2>1, <2>2, <3>2 DEF InsertRotate
    <3>3. CASE InsertDone
      BY <3>3 DEF InsertDone, Idle
    <3> QED BY <1>4, <3>1, <3>2, <3>3
  <2> QED BY <2>1, <2>3 DEF AskedFits, Deleting
<1>5. CASE RepairAbove \/ RepairRotate \/ RepairDone
  <2>1. op.step = "repair" /\ asked' = asked
    BY <1>5 DEF RepairAbove, RepairRotate, RepairDone, Short
  <2>2. Deleting
    BY <2>1 DEF Deleting
  <2>3. op \in [step : {"repair", "splice"}, node : Nodes \cup {NIL},
                found : Nodes, gone : Nodes, size : Nat]
    BY <2>2, WhenDeleting
  <2>4. op'.found = op.found /\ op'.size = op.size
    BY <1>5, <2>3 DEF RepairAbove, RepairRotate, RepairDone
  <2> QED BY <2>1, <2>2, <2>4 DEF AskedFits
<1>6. CASE Splice
  <2>1. op.step = "splice" /\ op' = Idle /\ asked' = op.size
    BY <1>6 DEF Splice
  <2>2. op.size \in Nat
    BY <2>1, WhenDeleting DEF Deleting
  <2> QED BY <2>1, <2>2 DEF AskedFits, Deleting, Idle
<1>7. CASE Clear
  BY <1>7 DEF Clear, AskedFits, Deleting, Idle
<1>8. CASE UNCHANGED vars
  BY <1>8 DEF vars, AskedFits, Deleting
<1> QED BY <1>1, <1>2, <1>3, <1>4, <1>5, <1>6, <1>7, <1>8 DEF Next, Loops

LEMMA AskedCorrect == Spec => []AskedFits
<1>1. Init => AskedFits
  BY DEF Init, Idle, AskedFits, Deleting
<1> QED BY <1>1, NextAsked, InvCorrect, PTL DEF Spec

(* The nodes in memory are the tree and the two sentinels; every link leads *)
(* to one of them, and a call that runs knows nodes that are there.         *)
THEOREM TypeCorrect == Spec => []TypeOK
<1>1. Inv /\ AskedFits => TypeOK
  <2> SUFFICES ASSUME Inv, AskedFits PROVE TypeOK
    OBVIOUS
  <2>1. Linked(tree, InTree)
    BY AlwaysLinked
  <2>2. /\ {ROOT, NIL} \subseteq DOMAIN tree
        /\ tree \in [DOMAIN tree -> RBNodes(DOMAIN tree)]
    BY <2>1 DEF Linked
  <2> QED BY <2>2 DEF Inv, Types, AskedFits, TypeOK, RBNodes
<1> QED BY <1>1, InvCorrect, AskedCorrect, PTL

(* RBTree implements HoleSet: a call takes a hole that was put in and has   *)
(* the very size it asks for, no other hole is lost with it, and it finds   *)
(* none only if there is no hole of that size.                              *)
THEOREM ImplementsHoleSetCorrect == Spec => ImplementsHoleSet
<1>1. Init => Abstract!Init
  BY TreeAssumption DEF Init, Abstract!Init, EmptyTree, Holes, Nodes
<1>2. Inv /\ AskedFits /\ [Next]_vars => [Abstract!Next]_<<Holes, asked, result>>
  <2> SUFFICES ASSUME Inv, AskedFits, [Next]_vars
               PROVE  [Abstract!Next]_<<Holes, asked, result>>
    OBVIOUS
  <2>1. CASE \E n \in Node : Insert(n)
    <3>1. PICK n \in Node : Insert(n)
      BY <2>1
    <3>2. n # ROOT /\ n # NIL
      BY TreeAssumption
    <3>3. /\ DOMAIN tree' = DOMAIN tree \cup {n} /\ n \notin DOMAIN tree
          /\ asked' = NIL /\ result' = NIL
      BY <3>1 DEF Insert
    <3>4. n \notin Holes /\ Holes' = Holes \cup {n}
      BY <3>2, <3>3 DEF Holes, Nodes
    <3> QED BY <3>3, <3>4 DEF Abstract!Next, Abstract!Add
  <2>2. CASE \E z \in {Size[n] : n \in Node} : TakeFails(z)
    <3>1. PICK z \in {Size[n] : n \in Node} : TakeFails(z)
      BY <2>2
    <3>2. op = Idle /\ FindNode(z) = NIL /\ tree' = tree /\ asked' = z /\ result' = NIL
      BY <3>1 DEF TakeFails
    <3>3. Holes' = Holes
      BY <3>2 DEF Holes, Nodes
    <3>4. IsFiniteSet(Nodes) /\ Nodes \subseteq Node
      BY <3>2, WhenIdle
    <3>5. PICK below, h : Settled(tree, Nodes, below, Size, h)
      BY <3>2, WhenIdle
    <3>6. z \in Nat
      BY TreeAssumption
    <3>7. ~(\E m \in Nodes : Size[m] = z)
      BY <3>2, <3>4, <3>5, <3>6, FindNodeFinds
    <3>8. Abstract!Fitting(z) = {}
      BY <3>7 DEF Abstract!Fitting, Holes
    <3> QED BY <3>2, <3>3, <3>8 DEF Abstract!Next, Abstract!Take
  <2>3. CASE Splice
    <3>1. op.step = "splice" /\ asked' = op.size /\ result' = op.found
      BY <2>3 DEF Splice
    <3>2. op.found \in Nodes /\ Nodes \subseteq Node
      BY <3>1, WhenDeleting DEF Deleting
    <3>3. DOMAIN tree' = DOMAIN tree \ {op.found}
      BY <2>3 DEF Splice
    <3>4. Holes' = Holes \ {op.found}
      BY <3>3 DEF Holes, Nodes
    <3>5. PICK z : z = Size[op.found] /\ asked' = z
      BY <3>1 DEF AskedFits, Deleting
    <3>6. op.found \in Abstract!Fitting(z) /\ z \in {Size[n] : n \in Node}
      BY <3>2, <3>5 DEF Abstract!Fitting, Holes
    <3>7. Abstract!Take(z)
      BY <3>1, <3>4, <3>5, <3>6 DEF Abstract!Take
    <3> QED BY <3>6, <3>7 DEF Abstract!Next
  <2>4. CASE Clear
    <3>1. tree' = EmptyTree /\ asked' = NIL /\ result' = NIL
      BY <2>4 DEF Clear
    <3>2. Holes' = {}
      BY <3>1 DEF EmptyTree, Holes, Nodes
    <3> QED BY <3>1, <3>2 DEF Abstract!Next, Abstract!Clear
  <2>5. CASE \/ \E z \in {Size[n] : n \in Node} : Take(z)
             \/ InsertRecolor \/ InsertRotate \/ InsertDone
             \/ RepairAbove \/ RepairRotate \/ RepairDone
    BY <2>5, Rearranging
  <2>6. CASE UNCHANGED vars
    BY <2>6 DEF vars, Holes, Nodes
  <2> QED BY <2>1, <2>2, <2>3, <2>4, <2>5, <2>6 DEF Next, Loops
<1> QED BY <1>1, <1>2, InvCorrect, AskedCorrect, PTL
        DEF Spec, ImplementsHoleSet, Abstract!Spec

-----------------------------------------------------------------------------
(* The way up from a node.                                                  *)
LEMMA LeastNumber ==
  ASSUME NEW S, S \subseteq Nat, S # {}
  PROVE  \E m \in S : \A n \in S : m <= n
<1> DEFINE Before == {0 .. n : n \in S}
<1>1. Before \subseteq FiniteSubsetsOf(Nat)
  <2>1. ASSUME NEW n \in S PROVE 0 .. n \in SUBSET Nat /\ IsFiniteSet(0 .. n)
    <3>1. 0 \in Int /\ n \in Int
      OBVIOUS
    <3> QED BY <3>1, FS_Interval
  <2> QED BY <2>1 DEF FiniteSubsetsOf
<1>2. PICK X \in Before : \A Y \in Before : ~(<<Y, X>> \in StrictSubsetOrdering(Nat))
  <2>1. Before # {}
    OBVIOUS
  <2> HIDE DEF Before
  <2> QED BY <1>1, <2>1, FS_StrictSubsetOrderingWellFounded, WFMin
<1>3. PICK m \in S : X = 0 .. m
  OBVIOUS
<1>4. ASSUME NEW n \in S, n < m PROVE FALSE
  <2>1. m \in 0 .. m /\ m \notin 0 .. n /\ 0 .. n \subseteq 0 .. m
    BY <1>4
  <2>2. 0 .. n \in Before /\ 0 .. n \in SUBSET Nat /\ 0 .. m \in SUBSET Nat
    OBVIOUS
  <2> QED BY <1>2, <1>3, <2>1, <2>2 DEF StrictSubsetOrdering
<1> QED BY <1>4

(* How many nodes are between n and a node above it.                        *)
Between(T, below, n, m) == {a \in T : n \in below[a] /\ a \in below[m] /\ a # m}

LEMMA BetweenParent ==
  ASSUME NEW t, NEW T, NEW below, Linked(t, T), Nested(t, T, below), IsFiniteSet(T),
         NEW n \in T, NEW m \in T, n \in below[m], NEW p, p = t[m].parent
  PROVE  /\ n \in below[p]
         /\ Cardinality(Between(T, below, n, p)) = Cardinality(Between(T, below, n, m)) + 1
<1>1. p \in T \cup {ROOT} /\ ROOT \notin T /\ NIL \notin T /\ ROOT # NIL
  BY TreeAssumption DEF Linked
<1>2. /\ below[ROOT] = T /\ m \in below[m]
      /\ \A k \in T \cup {ROOT} : below[k] \subseteq T
  BY DEF Nested
<1>3. p \in T => /\ below[m] \subseteq below[p] \ {p}
                 /\ \A a \in below[p] : a # p => p \notin below[a]
  <2> SUFFICES ASSUME p \in T
               PROVE  /\ below[m] \subseteq below[p] \ {p}
                      /\ \A a \in below[p] : a # p => p \notin below[a]
    OBVIOUS
  <2>1. PICK s \in Side : t[p][s] = m
    BY DEF Linked, SideOf, Side
  <2>2. below[m] \subseteq below[p] \ {p}
    BY <2>1, KidsBelow
  <2>3. ASSUME NEW a \in below[p], a # p PROVE p \notin below[a]
    <3>1. PICK r \in Side : a \in below[t[p][r]]
      BY <2>3 DEF Nested, Side
    <3>2. t[p][r] \in T
      BY <3>1, Kids DEF Nested
    <3>3. below[a] \subseteq below[t[p][r]]
      BY <3>1, <3>2, BelowBelow
    <3> QED BY <3>3, KidsBelow
  <2> QED BY <2>2, <2>3
<1>4. n \in below[p] /\ m \in below[p] /\ below[m] \subseteq below[p] \ {p}
  BY <1>1, <1>2, <1>3
<1>5. ASSUME NEW a \in T, n \in below[a], a \in below[p], a # p
      PROVE  a \in below[m]
  <2>1. a \in below[m] \/ m \in below[a]
    BY <1>5, Comparable
  <2>2. ASSUME m \in below[a], m # a PROVE FALSE
    <3>1. p \in below[a]
      BY <2>2, ParentBelow
    <3> QED BY <1>1, <1>2, <1>3, <1>5, <3>1
  <2> QED BY <1>2, <2>1, <2>2
<1>6. Between(T, below, n, p) = Between(T, below, n, m) \cup {m}
  BY <1>4, <1>5 DEF Between
<1>7. m \notin Between(T, below, n, m) /\ Between(T, below, n, m) \in SUBSET T
  BY DEF Between
<1>8. IsFiniteSet(Between(T, below, n, m))
  BY <1>7, FS_Subset
<1> QED BY <1>4, <1>6, <1>7, <1>8, FS_AddElement

LEMMA AncestorsAbove ==
  ASSUME NEW T, NEW below, Linked(tree, T), Nested(tree, T, below),
         IsFiniteSet(Nodes), T \subseteq Nodes, NEW n \in T
  PROVE  Ancestors(n) = {a \in T : n \in below[a]}
<1> DEFINE N == Cardinality(Nodes)
           A == {a \in T : n \in below[a]}
           Loop(a) == a = [k \in 0 .. N |->
                             IF k = 0 THEN {n}
                             ELSE LET passed == a[k - 1]
                                  IN  passed \cup {tree[m].parent : m \in passed \ {ROOT}}]
<1>1. /\ IsFiniteSet(T) /\ N \in Nat /\ ROOT \notin T /\ NIL \notin T /\ ROOT # NIL
      /\ below[NIL] = {} /\ below[ROOT] = T /\ below[tree[ROOT].left] = T
      /\ n \in below[n]
  BY FS_Subset, FS_CardinalityType, TreeAssumption DEF Linked, Nested
<1>2. PICK d : d = [m \in A \cup {ROOT} |-> Cardinality(Between(T, below, n, m))]
  OBVIOUS
<1>3. ASSUME NEW m \in A \cup {ROOT}
      PROVE  /\ d[m] \in Nat /\ d[m] <= N /\ IsFiniteSet(Between(T, below, n, m))
             /\ d[m] = Cardinality(Between(T, below, n, m))
  <2>1. Between(T, below, n, m) \in SUBSET Nodes
    BY DEF Between
  <2> QED BY <1>2, <2>1, FS_Subset, FS_CardinalityType
<1>4. n \in A /\ d[n] = 0
  <2>1. Between(T, below, n, n) = {}
    <3> SUFFICES ASSUME NEW a \in T, n \in below[a], a \in below[n], a # n PROVE FALSE
      BY DEF Between
    <3>1. PICK s \in Side : a \in below[tree[n][s]]
      BY DEF Nested, Side
    <3>2. tree[n][s] \in T
      BY <3>1, Kids DEF Nested
    <3>3. below[a] \subseteq below[tree[n][s]]
      BY <1>1, <3>1, <3>2, BelowBelow
    <3> QED BY <3>3, KidsBelow
  <2> QED BY <1>1, <1>3, <2>1, FS_EmptySet
<1>5. ASSUME NEW m \in A
      PROVE  tree[m].parent \in A \cup {ROOT} /\ d[tree[m].parent] = d[m] + 1
  <2>1. PICK p : p = tree[m].parent
    OBVIOUS
  <2>2. n \in below[p] /\ Cardinality(Between(T, below, n, p)) = Cardinality(Between(T, below, n, m)) + 1
    BY <1>1, <2>1, BetweenParent
  <2>3. p \in T \cup {ROOT}
    BY <2>1 DEF Linked
  <2> QED BY <1>3, <2>1, <2>2, <2>3
<1>6. ASSUME NEW m \in A \cup {ROOT}, m # n
      PROVE  \E c \in A : tree[c].parent = m /\ d[m] = d[c] + 1
  <2>1. \E s \in Side : n \in below[tree[m][s]]
    BY <1>1, <1>6 DEF Nested, Side
  <2>2. PICK s \in Side : n \in below[tree[m][s]]
    BY <2>1
  <2>3. tree[m][s] \in T
    BY <1>1, <2>2, Kids
  <2>4. tree[tree[m][s]].parent = m
    BY <1>1, <2>3 DEF Linked
  <2> QED BY <1>5, <2>2, <2>3, <2>4
<1>7. PICK W : W = [k \in 0 .. N |-> {m \in A \cup {ROOT} : d[m] <= k}]
  OBVIOUS
<1>8. W[0] = {n}
  <2>1. \A m \in A \cup {ROOT} : d[m] <= 0 => m = n
    BY <1>3, <1>6
  <2>2. 0 \in 0 .. N
    BY <1>1
  <2> QED BY <1>1, <1>4, <1>7, <2>1, <2>2
<1>9. ASSUME NEW k \in 1 .. N
      PROVE  W[k] = W[k - 1] \cup {tree[m].parent : m \in W[k - 1] \ {ROOT}}
  <2>1. k - 1 \in 0 .. N /\ k \in 0 .. N
    BY <1>1
  <2>2. /\ W[k] = {m \in A \cup {ROOT} : d[m] <= k}
        /\ W[k - 1] = {m \in A \cup {ROOT} : d[m] <= k - 1}
    BY <1>7, <2>1
  <2>3. ASSUME NEW m \in W[k] PROVE m \in W[k - 1] \cup {tree[c].parent : c \in W[k - 1] \ {ROOT}}
    <3>1. CASE m = n
      BY <1>4, <2>2, <3>1
    <3>2. CASE m # n
      <4>1. PICK c \in A : tree[c].parent = m /\ d[m] = d[c] + 1
        BY <1>6, <2>2, <2>3, <3>2
      <4>2. d[c] \in Nat /\ d[c] <= k - 1
        BY <1>3, <2>2, <2>3, <4>1
      <4> QED BY <1>1, <2>2, <4>1, <4>2
    <3> QED BY <3>1, <3>2
  <2>4. ASSUME NEW m \in W[k - 1] PROVE m \in W[k]
    BY <1>3, <2>2
  <2>5. ASSUME NEW m \in W[k - 1] \ {ROOT} PROVE tree[m].parent \in W[k]
    <3>1. m \in A /\ d[m] <= k - 1
      BY <2>2
    <3>2. tree[m].parent \in A \cup {ROOT} /\ d[tree[m].parent] = d[m] + 1 /\ d[m] \in Nat
      BY <1>3, <1>5, <3>1
    <3> QED BY <2>2, <3>1, <3>2
  <2> QED BY <2>3, <2>4, <2>5
<1>10. Loop(W)
  <2>1. \A k \in 0 .. N :
          W[k] = IF k = 0 THEN {n}
                 ELSE LET passed == W[k - 1]
                      IN  passed \cup {tree[m].parent : m \in passed \ {ROOT}}
    <3> SUFFICES ASSUME NEW k \in 0 .. N
                 PROVE  W[k] = IF k = 0 THEN {n}
                               ELSE W[k - 1] \cup {tree[m].parent : m \in W[k - 1] \ {ROOT}}
      OBVIOUS
    <3>1. k # 0 => k \in 1 .. N
      BY <1>1
    <3> HIDE DEF N
    <3> QED BY <1>8, <1>9, <3>1
  <2>2. W = [k \in 0 .. N |-> W[k]]
    BY <1>7
  <2> HIDE DEF N
  <2> QED BY <2>1, <2>2
<1>11. PICK up : up = CHOOSE b : Loop(b)
  OBVIOUS
<1>12. Loop(up)
  <2> HIDE DEF Loop
  <2> QED BY <1>10, <1>11
<1>13. Ancestors(n) = up[N] \ {ROOT}
  BY <1>11 DEF Ancestors
<1>14. up[0] = {n} /\ \A k \in 1 .. N :
         up[k] = up[k - 1] \cup {tree[m].parent : m \in up[k - 1] \ {ROOT}}
  <2> HIDE DEF N
  <2> QED BY <1>1, <1>12
<1> HIDE DEF Loop
<1>15. \A k \in 0 .. N : up[k] = W[k]
  <2>1. PICK S : S = {k \in 0 .. N : up[k] # W[k]}
    OBVIOUS
  <2> SUFFICES ASSUME S # {} PROVE FALSE
    BY <2>1
  <2>2. PICK k \in S : \A j \in S : k <= j
    BY <1>1, <2>1, LeastNumber
  <2>3. k # 0
    BY <1>8, <1>14, <2>1, <2>2
  <2>4. k \in 1 .. N /\ k - 1 \in 0 .. N /\ k - 1 \notin S
    BY <1>1, <2>1, <2>2, <2>3
  <2>5. up[k - 1] = W[k - 1]
    BY <2>1, <2>4
  <2> QED BY <1>9, <1>14, <2>1, <2>2, <2>4, <2>5
<1>16. W[N] = A \cup {ROOT}
  BY <1>1, <1>3, <1>7
<1>17. up[N] = A \cup {ROOT}
  BY <1>1, <1>15, <1>16
<1> QED BY <1>1, <1>13, <1>17

(* The tree is one tree in every state, during every call.                  *)
THEOREM LinksAgreeCorrect == Spec => []LinksAgree
<1>1. Inv => LinksAgree
  <2> SUFFICES ASSUME Inv PROVE LinksAgree
    OBVIOUS
  <2>1. PICK below, w : Linked(tree, InTree) /\ Nested(tree, InTree, below)
    BY AlwaysLinked
  <2>2. IsFiniteSet(Nodes) /\ InTree \subseteq Nodes
    BY FS_Subset DEF Inv, Types, Nodes, InTree
  <2>3. ASSUME NEW n \in InTree \cup {ROOT}, NEW s \in Side, tree[n][s] # NIL
        PROVE  tree[n][s] \in InTree /\ tree[tree[n][s]].parent = n
    BY <2>1, <2>3 DEF Linked
  <2>4. ASSUME NEW n \in InTree
        PROVE  /\ \E s \in Side : tree[tree[n].parent][s] = n
               /\ tree[n].left # tree[n].right \/ tree[n].left = NIL
               /\ First \in Ancestors(n)
    <3>1. \E s \in Side : tree[tree[n].parent][s] = n
      BY <2>1 DEF Linked, SideOf, Side
    <3>2. tree[n].left # tree[n].right \/ tree[n].left = NIL
      <4>1. tree[n].left \in InTree \cup {NIL}
        BY <2>1, Kids DEF Side
      <4>2. tree[n].left \in InTree => tree[n].left \in below[tree[n].left]
        BY <2>1, KidsBelow DEF Side
      <4>3. below[tree[n].left] \cap below[tree[n].right] = {}
        BY <2>1 DEF Nested
      <4> QED BY <4>1, <4>2, <4>3
    <3>3. Ancestors(n) = {a \in InTree : n \in below[a]}
      BY <2>1, <2>2, AncestorsAbove
    <3>4. First \in InTree /\ n \in below[First]
      <4>1. below[NIL] = {} /\ below[First] = InTree
        BY <2>1 DEF Nested, First
      <4>2. First \in InTree \cup {NIL}
        BY <2>1, Kids DEF First, Side
      <4> QED BY <4>1, <4>2
    <3> QED BY <3>1, <3>2, <3>3, <3>4
  <2> QED BY <2>3, <2>4 DEF LinksAgree
<1> QED BY <1>1, InvCorrect, PTL

-----------------------------------------------------------------------------
(* The black nodes on the way up from n to m.                               *)
Blacks(t, T, below, n, m) ==
  {a \in T : a \in below[m] /\ n \in below[a] /\ t[a].color # "red"}

(* 1 if the way from m down to n leaves q on the side e.                    *)
Passing(t, below, n, m, q, e) == IF q \in below[m] /\ n \in below[t[q][e]] THEN 1 ELSE 0

LEMMA BlacksUp ==
  ASSUME NEW t, NEW T, NEW below, NEW h, NEW q, NEW e \in Side,
         Linked(t, T), Nested(t, T, below), Balanced(t, T, h, q, e), IsFiniteSet(T),
         NEW m \in T, NEW n \in below[m]
  PROVE  /\ IsFiniteSet(Blacks(t, T, below, n, m)) /\ n \in T
         /\ h[m] + Black(t, n) =
              Cardinality(Blacks(t, T, below, n, m)) + Passing(t, below, n, m, q, e) + h[n]
<1> DEFINE Fit(k, j) == h[k] + Black(t, j) =
                          Cardinality(Blacks(t, T, below, j, k))
                            + Passing(t, below, j, k, q, e) + h[j]
           P == {k \in T : \A j \in below[k] : Fit(k, j)}
<1>1. /\ ROOT \notin T /\ NIL \notin T /\ ROOT # NIL /\ below[NIL] = {}
      /\ \A k \in T : below[k] \subseteq T
  BY TreeAssumption DEF Linked, Nested
<1>2. ASSUME NEW k \in T, NEW j
      PROVE  IsFiniteSet(Blacks(t, T, below, j, k))
             /\ Cardinality(Blacks(t, T, below, j, k)) \in Nat
  <2>1. Blacks(t, T, below, j, k) \in SUBSET T
    BY DEF Blacks
  <2> QED BY <2>1, FS_Subset, FS_CardinalityType
<1>3. \A k \in T : h[k] \in Nat /\ Black(t, k) \in Nat
  BY DEF Balanced, Black
<1>4. ASSUME NEW k \in T, NEW j \in below[k]
      PROVE  below[j] \subseteq below[k] /\ (j # k => k \notin below[j])
  <2>1. below[j] \subseteq below[k]
    BY BelowBelow
  <2>2. ASSUME j # k, k \in below[j] PROVE FALSE
    <3>1. PICK r \in Side : j \in below[t[k][r]]
      BY <2>2 DEF Nested, Side
    <3>2. t[k][r] \in T
      BY <1>1, <3>1, Kids
    <3>3. below[j] \subseteq below[t[k][r]]
      BY <3>1, <3>2, BelowBelow
    <3> QED BY <2>2, <3>3, KidsBelow
  <2> QED BY <2>1, <2>2
<1>5. \A k \in T, r \in Side : t[k][r] \in T \cup {NIL}
  BY Kids
<1>6. \A k \in T : Black(t, k) = IF t[k].color # "red" THEN 1 ELSE 0
  BY BlackOrRed DEF Black
<1>7. ASSUME NEW k \in T, \A s \in Side : t[k][s] \in P \cup {NIL}
      PROVE  k \in P
  <2> SUFFICES ASSUME NEW j \in below[k] PROVE Fit(k, j)
    OBVIOUS
  <2>1. k \in below[k] /\ below[k] \subseteq T
    BY <1>1 DEF Nested
  <2>2. CASE j = k
    <3>1. Blacks(t, T, below, k, k) = IF t[k].color # "red" THEN {k} ELSE {}
      BY <1>1, <1>4, <2>1 DEF Blacks
    <3>2. Cardinality(Blacks(t, T, below, k, k)) = Black(t, k)
      BY <1>6, <3>1, FS_Singleton, FS_EmptySet
    <3>3. Passing(t, below, k, k, q, e) = 0
      <4> SUFFICES ASSUME q \in below[k], k \in below[t[q][e]] PROVE FALSE
        BY DEF Passing
      <4>1. q \in T
        BY <2>1
      <4>2. k \in below[q] /\ k # q
        BY <4>1, KidsBelow
      <4> QED BY <1>4, <4>1, <4>2
    <3> QED BY <1>3, <2>2, <3>2, <3>3
  <2>3. CASE j # k
    <3>1. PICK s \in Side : j \in below[t[k][s]]
      BY <2>3 DEF Nested, Side
    <3>2. PICK c, o : c = t[k][s] /\ o = t[k][Other(s)]
      OBVIOUS
    <3>3. c \in T /\ Fit(c, j) /\ o \in T \cup {NIL} /\ Other(s) \in Side
      <4>1. Other(s) \in Side
        BY DEF Other, Side
      <4> QED BY <1>1, <1>5, <1>7, <3>1, <3>2, <4>1
    <3>4. /\ below[k] = {k} \cup below[c] \cup below[o] /\ below[c] \cap below[o] = {}
          /\ k \notin below[c] /\ k \notin below[o] /\ j \in below[c]
      BY <3>1, <3>2, <3>3, KidsBelow
    <3>5. \A a \in below[o] : below[a] \subseteq below[o]
      BY <1>1, <1>4, <3>3
    <3>6. Blacks(t, T, below, j, k) =
            IF t[k].color # "red" THEN Blacks(t, T, below, j, c) \cup {k}
            ELSE Blacks(t, T, below, j, c)
      BY <2>1, <3>4, <3>5 DEF Blacks
    <3>7. k \notin Blacks(t, T, below, j, c)
      BY <3>4 DEF Blacks
    <3>8. Cardinality(Blacks(t, T, below, j, k)) =
            Cardinality(Blacks(t, T, below, j, c)) + Black(t, k)
      <4>1. /\ IsFiniteSet(Blacks(t, T, below, j, c))
            /\ Cardinality(Blacks(t, T, below, j, c)) \in Nat
        BY <1>2, <3>3
      <4>2. PICK B : B = Blacks(t, T, below, j, c)
        OBVIOUS
      <4>3. Cardinality(B \cup {k}) = Cardinality(B) + 1
        BY <3>7, <4>1, <4>2, FS_AddElement
      <4> QED BY <1>6, <3>6, <4>1, <4>2, <4>3
    <3>9. h[k] = h[c] + Lack(k, s, q, e) + Black(t, k)
      BY <3>2 DEF Balanced
    <3>10. Passing(t, below, j, k, q, e) = Passing(t, below, j, c, q, e) + Lack(k, s, q, e)
      <4>1. CASE q = k
        <5>1. s = e \/ Other(s) = e
          BY DEF Other, Side
        <5>2. j \in below[t[q][e]] <=> s = e
          <6>1. s # Other(s)
            BY DEF Other, Side
          <6> QED BY <3>2, <3>4, <4>1, <5>1, <6>1
        <5>3. Passing(t, below, j, c, q, e) = 0
          BY <3>4, <4>1 DEF Passing
        <5> QED BY <2>1, <4>1, <5>2, <5>3 DEF Passing, Lack
      <4>2. CASE q # k
        <5>1. Lack(k, s, q, e) = 0
          BY <4>2 DEF Lack
        <5>2. ASSUME q \in below[o] PROVE j \notin below[t[q][e]]
          <6>1. q \in T
            BY <2>1, <3>4, <5>2
          <6>2. below[t[q][e]] \subseteq below[q]
            BY <6>1, KidsBelow
          <6> QED BY <3>4, <3>5, <5>2, <6>2
        <5>3. (q \in below[k] /\ j \in below[t[q][e]]) <=> (q \in below[c] /\ j \in below[t[q][e]])
          BY <3>4, <4>2, <5>2
        <5> QED BY <5>1, <5>3 DEF Passing
      <4> QED BY <4>1, <4>2
    <3>11. /\ h[c] \in Nat /\ h[k] \in Nat /\ h[j] \in Nat /\ Black(t, k) \in Nat
           /\ Black(t, j) \in Nat /\ Cardinality(Blacks(t, T, below, j, c)) \in Nat
           /\ Passing(t, below, j, c, q, e) \in Nat /\ Lack(k, s, q, e) \in Nat
      BY <1>2, <1>3, <2>1, <3>3 DEF Passing, Lack
    <3> QED BY <3>3, <3>8, <3>9, <3>10, <3>11
  <2> QED BY <2>2, <2>3
<1>8. T \subseteq P
  <2> HIDE DEF P
  <2> QED BY <1>7, SubtreeInduction
<1> QED BY <1>1, <1>2, <1>8

BlackAbove(t, T, below, n) == {a \in T : n \in below[a] /\ t[a].color # "red"}

BlacksCounted(t, T, below, h, q, e, n, s) ==
  h[t[ROOT].left] =
    Cardinality(BlackAbove(t, T, below, n))
      + IF q \in T /\ (n \in below[t[q][e]] \/ (n = q /\ s = e)) THEN 1 ELSE 0

LEMMA BlacksAtLeaf ==
  ASSUME NEW t, NEW T, NEW below, NEW h, NEW q, NEW e \in Side,
         Linked(t, T), Nested(t, T, below), Balanced(t, T, h, q, e), IsFiniteSet(T),
         NEW n \in T, NEW s \in Side, t[n][s] = NIL
  PROVE  BlacksCounted(t, T, below, h, q, e, n, s)
<1>1. PICK m : m = t[ROOT].left
  OBVIOUS
<1>2. below[m] = T /\ m \in T /\ below[NIL] = {}
  <2>1. below[m] = T /\ below[NIL] = {}
    BY <1>1 DEF Nested
  <2>2. m \in T \cup {NIL}
    BY <1>1, Kids DEF Side
  <2> QED BY <2>1, <2>2
<1>3. Blacks(t, T, below, n, m) = BlackAbove(t, T, below, n)
  BY <1>2 DEF Blacks, BlackAbove
<1>4. /\ IsFiniteSet(Blacks(t, T, below, n, m))
      /\ h[m] + Black(t, n) =
           Cardinality(Blacks(t, T, below, n, m)) + Passing(t, below, n, m, q, e) + h[n]
  BY <1>2, BlacksUp
<1>5. h[n] = Lack(n, s, q, e) + Black(t, n) /\ h[m] \in Nat
  BY <1>2 DEF Balanced, Lack, Black
<1>6. Cardinality(Blacks(t, T, below, n, m)) \in Nat
  BY <1>4, FS_CardinalityType
<1>7. Passing(t, below, n, m, q, e) + Lack(n, s, q, e) =
        IF q \in T /\ (n \in below[t[q][e]] \/ (n = q /\ s = e)) THEN 1 ELSE 0
  BY <1>2 DEF Passing, Lack
<1>8. /\ Passing(t, below, n, m, q, e) \in Nat /\ Lack(n, s, q, e) \in Nat
      /\ Black(t, n) \in Nat
  BY DEF Passing, Lack, Black
<1>9. h[m] = Cardinality(Blacks(t, T, below, n, m))
               + (Passing(t, below, n, m, q, e) + Lack(n, s, q, e))
  BY <1>4, <1>5, <1>6, <1>8
<1> QED BY <1>1, <1>3, <1>7, <1>9 DEF BlacksCounted

LEMMA BlacksAgree ==
  ASSUME Inv
  PROVE  LET leaves == {n \in InTree : \E s \in Side : tree[n][s] = NIL}
             short(n) == /\ op.step = "repair"
                         /\ op.node \in Ancestors(n) \/ (op.node = NIL /\ tree[NIL].parent = n)
             blacks(n) == Cardinality({a \in Ancestors(n) : tree[a].color # "red"})
                            + (IF short(n) THEN 1 ELSE 0)
         IN  \E c : \A n \in leaves : blacks(n) = c
<1> DEFINE leaves == {n \in InTree : \E s \in Side : tree[n][s] = NIL}
           short(n) == /\ op.step = "repair"
                       /\ op.node \in Ancestors(n) \/ (op.node = NIL /\ tree[NIL].parent = n)
           blacks(n) == Cardinality({a \in Ancestors(n) : tree[a].color # "red"})
                          + (IF short(n) THEN 1 ELSE 0)
<1> SUFFICES \E c : \A n \in leaves : blacks(n) = c
  OBVIOUS
<1>1. IsFiniteSet(Nodes) /\ InTree \subseteq Nodes /\ IsFiniteSet(InTree)
      /\ ROOT \notin InTree /\ NIL \notin InTree /\ ROOT # NIL
  BY FS_Subset, TreeAssumption DEF Inv, Types, Nodes, InTree
<1>2. ASSUME NEW below, Linked(tree, InTree), Nested(tree, InTree, below), NEW n \in InTree
      PROVE  /\ Ancestors(n) = {a \in InTree : n \in below[a]}
             /\ {a \in Ancestors(n) : tree[a].color # "red"} =
                  BlackAbove(tree, InTree, below, n)
             /\ Cardinality(BlackAbove(tree, InTree, below, n)) \in Nat
  <2>1. Ancestors(n) = {a \in InTree : n \in below[a]}
    BY <1>1, <1>2, AncestorsAbove
  <2>2. BlackAbove(tree, InTree, below, n) \in SUBSET InTree
    BY DEF BlackAbove
  <2>3. Cardinality(BlackAbove(tree, InTree, below, n)) \in Nat
    BY <1>1, <2>2, FS_Subset, FS_CardinalityType
  <2> QED BY <2>1, <2>3 DEF BlackAbove
<1>3. CASE op.step # "repair"
  <2>1. PICK below, h : /\ Linked(tree, InTree) /\ Nested(tree, InTree, below)
                        /\ Balanced(tree, InTree, h, NIL, "left")
    BY <1>3, AlwaysLinked DEF Inv, Fits, Types, Settled, Inserting, Idle
  <2>2. ASSUME NEW n \in leaves PROVE blacks(n) = h[tree[ROOT].left]
    <3>1. PICK s \in Side : tree[n][s] = NIL
      OBVIOUS
    <3>2. h[tree[ROOT].left] =
            Cardinality(BlackAbove(tree, InTree, below, n)) + 0
      <4>1. PICK q, e : q = NIL /\ e = "left"
        OBVIOUS
      <4>2. e \in Side /\ Balanced(tree, InTree, h, q, e) /\ q \notin InTree
        BY <1>1, <2>1, <4>1 DEF Side
      <4>3. n \in InTree /\ IsFiniteSet(InTree)
        BY <1>1
      <4> HIDE DEF leaves, short, blacks
      <4>4. BlacksCounted(tree, InTree, below, h, q, e, n, s)
        BY <2>1, <3>1, <4>2, <4>3, BlacksAtLeaf
      <4> QED BY <4>2, <4>4 DEF BlacksCounted
    <3> QED BY <1>2, <1>3, <2>1, <3>2
  <2> QED BY <2>2
<1>4. CASE op.step = "repair"
  <2>1. PICK x : x = op.node
    OBVIOUS
  <2>2. PICK below, h : Repairing(tree, InTree, below, Worth, h, x)
    BY <1>4, <2>1 DEF Inv, Fits
  <2>3. PICK q, e : q = tree[x].parent /\ e = SideOf(tree, x)
    OBVIOUS
  <2>4. /\ Linked(tree, InTree) /\ Nested(tree, InTree, below) /\ Held(tree, InTree, x)
        /\ Balanced(tree, InTree, h, q, e)
    BY <2>2, <2>3 DEF Repairing
  <2>5. /\ x \in InTree \cup {NIL} /\ q \in InTree \cup {ROOT} /\ tree[q][e] = x
        /\ q = ROOT => tree[ROOT].left = x
        /\ e \in Side
    BY <2>3, <2>4 DEF Held, SideOf, Side
  <2>6. below[NIL] = {} /\ below[tree[ROOT].left] = InTree
    BY <2>4 DEF Nested
  <2>7. ASSUME NEW n \in leaves
        PROVE  blacks(n) = h[tree[ROOT].left] + (IF q = ROOT THEN 1 ELSE 0)
    <3>1. n \in InTree /\ (n = q /\ x = NIL => tree[n][e] = NIL)
      BY <2>5
    <3>2. \E s \in Side : tree[n][s] = NIL /\ (n = q /\ x = NIL => s = e)
      BY <2>5, <3>1
    <3>3. PICK s \in Side : tree[n][s] = NIL /\ (n = q /\ x = NIL => s = e)
      BY <3>2
    <3>4. PICK k : k = Cardinality(BlackAbove(tree, InTree, below, n))
      OBVIOUS
    <3>5. k \in Nat /\ blacks(n) = k + (IF short(n) THEN 1 ELSE 0)
      BY <1>2, <2>4, <3>1, <3>4
    <3>6. h[tree[ROOT].left] =
            k + IF q \in InTree /\ (n \in below[x] \/ (n = q /\ s = e)) THEN 1 ELSE 0
      <4>1. /\ Linked(tree, InTree) /\ Nested(tree, InTree, below)
            /\ Balanced(tree, InTree, h, q, e)
        BY <2>4
      <4>2. e \in Side /\ n \in InTree /\ tree[n][s] = NIL /\ IsFiniteSet(InTree)
        BY <1>1, <2>5, <3>1, <3>3
      <4> HIDE DEF leaves, short, blacks
      <4>3. BlacksCounted(tree, InTree, below, h, q, e, n, s)
        BY <4>1, <4>2, BlacksAtLeaf
      <4> QED BY <2>5, <3>4, <4>3 DEF BlacksCounted
    <3>7. Ancestors(n) = {a \in InTree : n \in below[a]}
      BY <1>2, <2>4, <3>1
    <3>8. CASE x # NIL
      <4>1. short(n) <=> n \in below[x]
        BY <1>1, <1>4, <2>1, <2>5, <3>7, <3>8
      <4>2. ~(n = q /\ s = e)
        BY <2>5, <3>3, <3>8
      <4>3. CASE q = ROOT
        <5>1. n \in below[x]
          BY <2>5, <2>6, <3>1, <4>3
        <5> QED BY <1>1, <3>5, <3>6, <4>1, <4>3, <5>1
      <4>4. CASE q # ROOT
        <5>1. q \in InTree
          BY <2>5, <4>4
        <5> HIDE DEF blacks, short
        <5> QED BY <3>5, <3>6, <4>1, <4>2, <4>4, <5>1
      <4> QED BY <4>3, <4>4
    <3>9. CASE x = NIL
      <4>1. short(n) <=> n = q
        BY <1>1, <1>4, <2>1, <2>3, <3>7, <3>9
      <4>2. n \notin below[x]
        BY <2>6, <3>9
      <4>3. q # ROOT
        BY <2>5, <2>6, <3>1, <3>9
      <4>4. q \in InTree /\ (n = q => s = e)
        BY <2>5, <3>3, <3>9, <4>3
      <4> HIDE DEF blacks, short
      <4> QED BY <3>5, <3>6, <4>1, <4>2, <4>3, <4>4
    <3> QED BY <3>8, <3>9
  <2> QED BY <2>7
<1> QED BY <1>3, <1>4

(* No red node has a red parent but where a loop is, and all ways down pass *)
(* the same number of black nodes, the short subtree counting once more.    *)
THEOREM RedBlackCorrect == Spec => []RedBlack
<1>1. Inv => RedBlack
  <2> SUFFICES ASSUME Inv PROVE RedBlack
    OBVIOUS
  <2> DEFINE leaves == {n \in InTree : \E s \in Side : tree[n][s] = NIL}
             short(n) == /\ op.step = "repair"
                         /\ op.node \in Ancestors(n) \/ (op.node = NIL /\ tree[NIL].parent = n)
             blacks(n) == Cardinality({a \in Ancestors(n) : tree[a].color # "red"})
                            + (IF short(n) THEN 1 ELSE 0)
  <2>1. Cardinality({blacks(n) : n \in leaves}) <= 1
    <3>1. PICK c : \A n \in leaves : blacks(n) = c
      BY BlacksAgree
    <3>2. {blacks(n) : n \in leaves} \in SUBSET {c}
      <4> HIDE DEF leaves, blacks
      <4> QED BY <3>1
    <3>3. IsFiniteSet({c}) /\ Cardinality({c}) = 1
      BY FS_Singleton
    <3> HIDE DEF leaves, blacks
    <3> QED BY <3>2, <3>3, FS_Subset
  <2>2. PICK x, y : /\ Linked(tree, InTree) /\ Colored(tree, InTree, x, y)
                    /\ (x \in InTree => op # Idle /\ op.node = x)
                    /\ (y \in InTree \cup {ROOT} => op.step = "repair" /\ op.node = y)
    <3>1. NIL \notin InTree /\ ROOT # NIL
      BY TreeAssumption DEF InTree, Nodes
    <3>2. CASE op.step \in {"idle", "splice"}
      <4>1. op = Idle \/ op.step = "splice"
        BY <3>2 DEF Inv, Types
      <4>2. Linked(tree, InTree) /\ Colored(tree, InTree, NIL, NIL)
        BY <4>1 DEF Inv, Fits, Settled
      <4> QED BY <3>1, <4>2
    <3>3. CASE op.step = "insert"
      <4>1. Linked(tree, InTree) /\ Colored(tree, InTree, op.node, NIL)
        BY <3>3 DEF Inv, Fits, Inserting
      <4> QED BY <3>1, <3>3, <4>1 DEF Idle
    <3>4. CASE op.step = "repair"
      <4>1. /\ Linked(tree, InTree) /\ Colored(tree, InTree, op.node, op.node)
        BY <3>4 DEF Inv, Fits, Repairing
      <4> QED BY <3>4, <4>1 DEF Idle
    <3> QED BY <3>2, <3>3, <3>4, AlwaysLinked
  <2>3. tree[ROOT].color # "red" /\ tree[NIL].color # "red"
    BY <2>2 DEF Colored
  <2>4. ASSUME NEW n \in InTree, tree[n].color = "red",
               n = First \/ tree[tree[n].parent].color = "red"
        PROVE  \/ op # Idle /\ op.node = n
               \/ op.step = "repair" /\ op.node = tree[n].parent
    <3>1. tree[n].parent \in InTree \cup {ROOT}
      BY <2>2 DEF Linked
    <3>2. n = First => tree[n].parent = ROOT
      <4>1. n # NIL
        BY <2>2, TreeAssumption DEF Linked
      <4> QED BY <2>2, <4>1 DEF Linked, First, Side
    <3>3. n = x \/ tree[n].parent = y
      BY <2>2, <2>4, <3>2 DEF Colored
    <3> QED BY <2>2, <3>1, <3>3
  <2>5. leaves = {n \in InTree : \E s \in Side : tree[n][s] = NIL}
    OBVIOUS
  <2> QED BY <2>1, <2>3, <2>4 DEF RedBlack
<1> QED BY <1>1, InvCorrect, PTL

-----------------------------------------------------------------------------
(* The loops come to an end.                                                *)

AncestorsAre ==
  \A T, below :
    Linked(tree, T) /\ Nested(tree, T, below) /\ IsFiniteSet(Nodes) /\ T \subseteq Nodes =>
      \A n \in T : Ancestors(n) = {a \in T : n \in below[a]}

LEMMA AncestorsNow == AncestorsAre
BY AncestorsAbove DEF AncestorsAre

LEMMA AncestorsNext == AncestorsAre'
BY AncestorsNow, PTL

(* A step that keeps the links, from a node to one it is below.             *)
LEMMA BeyondShrinks ==
  ASSUME Inv, Inv', NEW below, NEW y \in InTree,
         Linked(tree, InTree), Nested(tree, InTree, below),
         InTree' = InTree, Linked(tree', InTree), Nested(tree', InTree, below),
         op'.node = y, op.node \in InTree \cup {NIL},
         op.node \in InTree => below[op.node] \subseteq below[y] \ {y}
  PROVE  Beyond' \subseteq Beyond /\ Beyond' # Beyond
<1>1. PICK T : T = InTree
  OBVIOUS
<1>2. PICK x : x = op.node
  OBVIOUS
<1>3. IsFiniteSet(Nodes) /\ T \subseteq Nodes
  BY <1>1, FS_Subset DEF Inv, Types, Nodes, InTree
<1>4. IsFiniteSet(Nodes') /\ T \subseteq Nodes'
  BY <1>1, FS_Subset DEF Inv, Types, Nodes, InTree
<1>5. \A n \in T : Ancestors(n) = {a \in T : n \in below[a]}
  BY <1>1, <1>3, AncestorsNow DEF AncestorsAre
<1>6. \A n \in T : Ancestors(n)' = {a \in T : n \in below[a]}
  BY <1>1, <1>4, AncestorsNext DEF AncestorsAre
<1>7. Beyond = {n \in T : ~ (x \in T /\ n \in below[x])}
  BY <1>1, <1>2, <1>5 DEF Beyond
<1>8. Beyond' = {n \in T : n \notin below[y]}
  BY <1>1, <1>6 DEF Beyond
<1>9. y \in below[y] /\ y \in T
  BY <1>1 DEF Nested
<1>10. Beyond' \subseteq Beyond
  BY <1>1, <1>2, <1>7, <1>8
<1>11. y \in Beyond /\ y \notin Beyond'
  BY <1>1, <1>2, <1>7, <1>8, <1>9
<1> QED BY <1>10, <1>11

LEMMA RecolorClimbs ==
  Inv /\ InsertRecolor => Beyond' \subseteq Beyond /\ Beyond' # Beyond
<1> SUFFICES ASSUME Inv, InsertRecolor PROVE Beyond' \subseteq Beyond /\ Beyond' # Beyond
  OBVIOUS
<1>0. Inv'
  BY InsertRecolorInv
<1>1. op.step = "insert"
  BY DEF InsertRecolor
<1>2. PICK below, h : Inserting(tree, Nodes, below, Size, h, op.node)
  BY <1>1, WhenInserting
<1>3. PICK x, p : x = op.node /\ p = tree[x].parent
  OBVIOUS
<1>4. PICK g : g = tree[p].parent
  OBVIOUS
<1>5. PICK c : c = tree[g][Other(SideOf(tree, p))]
  OBVIOUS
<1>6. tree[p].color = "red" /\ tree[c].color = "red"
  BY <1>3, <1>4, <1>5 DEF InsertRecolor
<1>7. tree' = Recolored(tree, p, c, g) /\ op' = [op EXCEPT !.node = g]
  BY <1>3, <1>4, <1>5 DEF InsertRecolor, Recolored
<1>8. g \in Nodes /\ \E u, j : /\ u = Recolored(tree, p, c, g)
                              /\ DOMAIN u = DOMAIN tree
                              /\ Inserting(u, Nodes, below, Size, j, g)
  <2>1. Size \in [Node -> Nat]
    BY TreeAssumption
  <2> QED BY <1>2, <1>3, <1>4, <1>5, <1>6, <2>1, RecolorKeeps
<1>9. PICK j : DOMAIN tree' = DOMAIN tree /\ Inserting(tree', Nodes, below, Size, j, g)
  BY <1>7, <1>8
<1>10. InTree = Nodes /\ op \in [step : {"insert"}, node : Nodes]
  BY <1>1, WhenInserting
<1>11. op'.node = g /\ op'.step = "insert"
  BY <1>7, <1>10
<1>12. InTree' = InTree
  BY <1>9, <1>10, <1>11 DEF InTree, Nodes, Deleting
<1>13. below[x] \subseteq below[g] \ {g}
  <2>1. p \in Nodes /\ SideOf(tree, p) \in Side /\ SideOf(tree, x) \in Side
        /\ tree[p][SideOf(tree, x)] = x /\ tree[g][SideOf(tree, p)] = p
    BY <1>2, <1>3, <1>4, <1>6, RedParent
  <2>2. Linked(tree, Nodes) /\ Nested(tree, Nodes, below)
    BY <1>2 DEF Inserting
  <2>3. below[x] \subseteq below[p] \ {p}
    BY <2>1, <2>2, KidsBelow
  <2>4. below[p] \subseteq below[g] \ {g}
    BY <1>8, <2>1, <2>2, KidsBelow
  <2> QED BY <2>3, <2>4
<1>14. /\ Linked(tree, InTree) /\ Nested(tree, InTree, below)
       /\ Linked(tree', InTree) /\ Nested(tree', InTree, below)
  BY <1>2, <1>9, <1>10 DEF Inserting
<1> QED BY <1>0, <1>3, <1>8, <1>10, <1>11, <1>12, <1>13, <1>14, BeyondShrinks

LEMMA RotateEndsLoop ==
  Inv /\ InsertRotate => ~Looping'
<1> SUFFICES ASSUME Inv, InsertRotate PROVE ~Looping'
  OBVIOUS
<1>1. op.step = "insert"
  BY DEF InsertRotate
<1>2. PICK below, h : Inserting(tree, Nodes, below, Size, h, op.node)
  BY <1>1, WhenInserting
<1>3. PICK x, p : x = op.node /\ p = tree[x].parent
  OBVIOUS
<1>4. PICK g, s : g = tree[p].parent /\ s = SideOf(tree, p)
  OBVIOUS
<1>5. Size \in [Node -> Nat]
  BY TreeAssumption
<1>6. tree[p].color = "red" /\ tree[tree[g][Other(s)]].color = "black"
  BY <1>3, <1>4 DEF InsertRotate
<1>7. op \in [step : {"insert"}, node : Nodes]
  BY <1>1, WhenInserting
<1>8. CASE SideOf(tree, x) # s
  <2>1. PICK v, b, j : /\ v = Rotate(tree, p, s) /\ DOMAIN v = DOMAIN tree
                       /\ Inserting(v, Nodes, b, Size, j, p)
                       /\ v[p].parent = x /\ v[x].parent = g /\ v[x].color = "red"
                       /\ SideOf(v, x) = s /\ SideOf(v, p) = s
                       /\ v[g][Other(s)] = tree[g][Other(s)]
                       /\ \A k \in Nodes \cup {NIL} : v[k].color = tree[k].color
    BY <1>2, <1>3, <1>4, <1>5, <1>6, <1>8, InnerKeeps
  <2>2. v[v[g][Other(s)]].color = "black"
    <3>1. tree[g][Other(s)] \in Nodes \cup {NIL}
      <4>1. g \in Nodes /\ Other(s) \in Side
        BY <1>2, <1>3, <1>4, <1>6, RedParent
      <4> QED BY <1>2, <4>1, Kids DEF Inserting
    <3> QED BY <1>6, <2>1, <3>1
  <2>3. \E u : u = SwapRotate(v, g, Other(s), x) /\ u[u[p].parent].color = "black"
    BY <1>5, <2>1, <2>2, OuterKeeps
  <2>4. tree' = SwapRotate(v, g, Other(s), x) /\ op' = [op EXCEPT !.node = p]
    BY <1>3, <1>4, <1>8, <2>1 DEF InsertRotate
  <2>5. tree'[tree'[p].parent].color = "black"
    BY <2>3, <2>4
  <2>6. op'.node = p /\ op'.step = "insert"
    BY <1>7, <2>4
  <2> QED BY <2>5, <2>6 DEF Looping, Short
<1>9. CASE SideOf(tree, x) = s
  <2>1. \E u : u = SwapRotate(tree, g, Other(s), p) /\ u[u[x].parent].color = "black"
    BY <1>2, <1>3, <1>4, <1>5, <1>6, <1>9, OuterKeeps
  <2>2. tree' = SwapRotate(tree, g, Other(s), p) /\ op' = [op EXCEPT !.node = x]
    BY <1>3, <1>4, <1>9 DEF InsertRotate
  <2>3. tree'[tree'[x].parent].color = "black"
    BY <2>1, <2>2
  <2>4. op'.node = x /\ op'.step = "insert"
    BY <1>3, <1>7, <2>2
  <2> QED BY <2>3, <2>4 DEF Looping, Short
<1> QED BY <1>8, <1>9

LEMMA AboveClimbs ==
  Inv /\ RepairAbove /\ Looping' => Beyond' \subseteq Beyond /\ Beyond' # Beyond
<1> SUFFICES ASSUME Inv, RepairAbove, Looping' PROVE Beyond' \subseteq Beyond /\ Beyond' # Beyond
  OBVIOUS
<1>0. Inv'
  BY RepairAboveInv
<1>1. Short /\ op.step = "repair" /\ Worth \in [Node -> Nat] /\ tree[op.node].color = "black"
      /\ tree[ROOT].left # op.node
  BY WhenShort DEF RepairAbove
<1>2. PICK b, h : Repairing(tree, InTree, b, Worth, h, op.node)
  BY <1>1, WhenShort
<1>3. PICK x : x = op.node
  OBVIOUS
<1>4. PICK p, s : p = tree[x].parent /\ s = SideOf(tree, x)
  OBVIOUS
<1>5. PICK c : c = tree[p][Other(s)]
  OBVIOUS
<1>6. /\ p \in InTree /\ s \in Side /\ Other(s) \in Side /\ s # Other(s)
      /\ tree[p][s] = x /\ c \in InTree /\ c # x /\ c # p /\ x # p
  BY <1>1, <1>2, <1>3, <1>4, <1>5, SiblingThere
<1>7. PICK t : t = BlackSibling
  OBVIOUS
<1>8. t = IF tree[c].color = "red" THEN SwapRotate(tree, p, s, c) ELSE tree
  BY <1>3, <1>4, <1>5, <1>7 DEF BlackSibling
<1>9. /\ Linked(tree, InTree) /\ Nested(tree, InTree, b) /\ x \in InTree \cup {NIL}
  BY <1>2, <1>3 DEF Repairing, Held
<1>10. op \in [step : {"repair", "splice"}, node : Nodes \cup {NIL},
               found : Nodes, gone : Nodes, size : Nat]
       /\ InTree = Nodes \ {op.gone}
  BY <1>1, WhenDeleting DEF Deleting
<1>11. PICK q, e : q = t[x].parent /\ e = t[q][Other(SideOf(t, x))]
  OBVIOUS
<1>12. /\ BlackKids(t, e) /\ tree' = Reddened(t, e) /\ op' = [op EXCEPT !.node = q]
  BY <1>3, <1>7, <1>11 DEF RepairAbove, Reddened, BlackKids
<1>13. op'.node = q /\ op'.step = "repair" /\ op'.gone = op.gone
  BY <1>1, <1>10, <1>12
<1>14. CASE tree[c].color = "red"
  <2>1. t = SwapRotate(tree, p, s, c)
    BY <1>8, <1>14
  <2>2. PICK u, k, g, v, w :
          /\ u = BlackSibling /\ DOMAIN u = DOMAIN tree
          /\ SiblingBlack(u, InTree, op.node, v, w)
          /\ Repairing(u, InTree, k, Worth, g, op.node)
    BY <1>1, WithBlackSibling
  <2>3. PICK m, r, d, a : SwapTurned(tree, InTree, b, SwapRotate(tree, p, s, c), p, s, c, m, r, d, a)
    BY <1>5, <1>6, <1>9, SwapTurn
  <2>4. Turned(tree, t, p, s, c, m, r, d) /\ t[p].color = "red"
    BY <2>1, <2>3 DEF SwapTurned
  <2>5. q = p
    <3>1. p \in DOMAIN tree /\ x \in DOMAIN tree
      BY <1>6, <1>9 DEF Linked
    <3>2. x # m \/ m = NIL
      <4>1. x \in InTree => x \in b[x]
        BY <1>9 DEF Nested
      <4>2. m = tree[c][s]
        BY <2>4 DEF Turned
      <4>3. b[m] \subseteq b[c]
        BY <1>6, <1>9, <4>2, KidsBelow
      <4>4. b[tree[p][s]] \cap b[tree[p][Other(s)]] = {}
        BY <1>6, <1>9, KidsBelow
      <4> QED BY <1>5, <1>6, <1>9, <4>1, <4>3, <4>4
    <3>3. t[x].parent = tree[x].parent
      BY <1>6, <2>4, <3>1, <3>2 DEF Turned
    <3> QED BY <1>4, <1>11, <3>3
  <2>6. tree'[p].color = "red"
    <3>1. p \in DOMAIN t
      BY <1>6, <1>9, <2>4 DEF Linked, Turned
    <3>2. t[p].color = "red" /\ tree' = Reddened(t, e)
      BY <1>12, <2>4
    <3> QED BY <2>4, <3>1, <3>2 DEF Reddened, Turned, RBNodes
  <2>7. ~Looping'
    BY <1>13, <2>5, <2>6 DEF Looping, Short
  <2> QED BY <2>7
<1>15. CASE tree[c].color # "red"
  <2>1. t = tree /\ q = p /\ e = c
    BY <1>4, <1>5, <1>8, <1>11, <1>15
  <2>2. SiblingBlack(tree, InTree, x, p, s)
    <3>1. c \in DOMAIN tree /\ tree[c].color \in {"red", "black"}
      BY <1>6, <1>9 DEF Linked, RBNodes
    <3> QED BY <1>1, <1>3, <1>4, <1>5, <1>15, <3>1 DEF SiblingBlack
  <2>3. \E u, j : /\ u = Reddened(tree, c)
                  /\ DOMAIN u = DOMAIN tree
                  /\ Repairing(u, InTree, b, Worth, j, p)
    <3>1. BlackKids(tree, c) /\ Repairing(tree, InTree, b, Worth, h, x)
      BY <1>2, <1>3, <1>12, <2>1
    <3> QED BY <1>1, <1>5, <2>2, <3>1, AboveKeeps
  <2>4. PICK j : DOMAIN tree' = DOMAIN tree /\ Repairing(tree', InTree, b, Worth, j, p)
    BY <1>12, <2>1, <2>3
  <2>5. Linked(tree', InTree) /\ Nested(tree', InTree, b)
    BY <2>4 DEF Repairing
  <2>6. InTree' = InTree
    BY <1>10, <1>13, <2>4 DEF InTree, Nodes, Deleting
  <2>7. x \in InTree => b[x] \subseteq b[p] \ {p}
    BY <1>6, <1>9, KidsBelow
  <2>8. op'.node = p
    BY <1>13, <2>1
  <2> QED BY <1>0, <1>3, <1>6, <1>9, <2>5, <2>6, <2>7, <2>8, BeyondShrinks
<1> QED BY <1>14, <1>15

(* Each iteration of the loops of rbtree_insert_node() and rbtree_repair()  *)
(* is the last one or leaves fewer nodes beyond the one it has come to, so  *)
(* that a call ends, however large the tree.                                *)
THEOREM LoopsClimbCorrect == Spec => LoopsClimb
<1>1. Inv /\ [Next]_vars =>
        [Loops /\ Looping' => Beyond' \subseteq Beyond /\ Beyond' # Beyond]_vars
  <2> SUFFICES ASSUME Inv, Loops, Looping' PROVE Beyond' \subseteq Beyond /\ Beyond' # Beyond
    OBVIOUS
  <2>1. CASE InsertRecolor
    BY <2>1, RecolorClimbs
  <2>2. CASE InsertRotate
    BY <2>2, RotateEndsLoop
  <2>3. CASE InsertDone
    BY <2>3 DEF InsertDone, Idle, Looping, Short
  <2>4. CASE RepairAbove
    BY <2>4, AboveClimbs
  <2>5. CASE RepairRotate
    <3>1. op'.node = tree'[ROOT].left
      <4>1. op \in [step : {"repair", "splice"}, node : Nodes \cup {NIL},
                    found : Nodes, gone : Nodes, size : Nat] /\ op.step = "repair"
        BY <2>5, WhenDeleting DEF RepairRotate, Short, Deleting
      <4> QED BY <2>5, <4>1 DEF RepairRotate
    <3>2. op'.step = "repair"
      BY <2>5, WhenDeleting DEF RepairRotate, Short, Deleting
    <3> QED BY <3>1, <3>2 DEF Looping, Short, First
  <2>6. CASE RepairDone
    <3>1. op'.step = "splice"
      BY <2>6, WhenDeleting DEF RepairDone, Deleting
    <3> QED BY <3>1 DEF Looping, Short
  <2>7. CASE Splice
    BY <2>7 DEF Splice, Idle, Looping, Short
  <2> QED BY <2>1, <2>2, <2>3, <2>4, <2>5, <2>6, <2>7 DEF Loops
<1> QED BY <1>1, InvCorrect, PTL DEF Spec, LoopsClimb
=============================================================================
