------------------------------- MODULE RBTree -------------------------------
(****************************************************************************)
(* The red-black tree of rbtree.c, node by node, as mapped_file.c uses it:  *)
(* it holds the holes of a file, ordered by size with hole_cmp(); many may  *)
(* have the same size.  A rbnode_t and the hole_t it points to are          *)
(* allocated and freed together, and are one here.                          *)
(*                                                                          *)
(* One iteration of the loop that repairs the tree after an insertion, and  *)
(* of rbtree_repair(), is one step.  The two halves of the code that only   *)
(* differ in `left' and `right' are one definition, with a side as its      *)
(* parameter.                                                               *)
(****************************************************************************)
EXTENDS Naturals, FiniteSets

CONSTANTS
  Node,   (* the nodes there may be *)
  Size,   (* Size[n] is the size of the hole at node n *)
  ROOT,   (* the sentinel &tree->root, whose left child is the first node *)
  NIL     (* the sentinel &tree->nil, which has a parent at times *)

ASSUME TreeAssumption ==
  /\ ROOT # NIL /\ {ROOT, NIL} \cap Node = {}
  /\ Size \in [Node -> Nat] /\ NIL \notin Nat

VARIABLES
  tree,   (* the nodes in memory *)
  op,     (* the call in progress *)
  asked,  (* history: the size the last call asked for, or NIL *)
  result  (* the hole the last call took, or NIL *)

vars == <<tree, op, asked, result>>

Side == {"left", "right"}
Other(s) == IF s = "left" THEN "right" ELSE "left"

RBNode(parent, color) ==
  [left |-> NIL, right |-> NIL, parent |-> parent, color |-> color]

(* rbtree_alloc().                                                          *)
EmptyTree == [n \in {ROOT, NIL} |-> RBNode(NIL, "black")]
Idle == [step |-> "idle"]

First == tree[ROOT].left
Nodes == DOMAIN tree \ {ROOT, NIL}

SideOf(t, n) == IF n = t[t[n].parent].left THEN "left" ELSE "right"

(* What a rotation sets whether there is a subtree to move over or not.     *)
RotateLinks(t, n, s) ==
  LET child == t[n][Other(s)]
  IN  [t EXCEPT ![n][Other(s)] = t[child][s],
                ![child].parent = t[n].parent,
                ![t[n].parent][SideOf(t, n)] = child,
                ![child][s] = n,
                ![n].parent = child]

(* A faulty rotation that forgets the parent of the subtree it moves over.  *)
RotateOrphaning(t, n, s) == RotateLinks(t, n, s)

(* rotate_left() for s = "left", rotate_right() for s = "right".            *)
Rotate(t, n, s) ==
  LET moved == t[t[n][Other(s)]][s]
      u == RotateLinks(t, n, s)
  IN  IF moved # NIL THEN [u EXCEPT ![moved].parent = n] ELSE u

(* The child c of n takes its place and is black, and n is red.             *)
SwapRotate(t, n, s, c) ==
  Rotate([t EXCEPT ![c].color = "black", ![n].color = "red"], n, s)

(* ... or c has the colour of n, and n and the other child of c are black.  *)
LiftRotate(t, n, s, c) ==
  Rotate([t EXCEPT ![c].color = t[n].color, ![n].color = "black",
                   ![t[c][Other(s)]].color = "black"], n, s)

-----------------------------------------------------------------------------
(* The way down to holes of size z: to the left of larger ones only.        *)
Child(n, z) == tree[n][IF z < Size[n] THEN "left" ELSE "right"]

(* A faulty rbtree_find_node() that takes the first hole large enough.      *)
FindNodeFits(z) ==
  LET find[n \in Nodes \cup {NIL}] ==
        IF n = NIL \/ Size[n] >= z THEN n ELSE find[Child(n, z)]
  IN  find[First]

(* rbtree_find_node(): the first node of size z on the way, or NIL.         *)
FindNode(z) ==
  LET find[n \in Nodes \cup {NIL}] ==
        IF n = NIL \/ Size[n] = z THEN n ELSE find[Child(n, z)]
  IN  find[First]

(* The leaf below which rbtree_insert_node() puts a hole of size z.         *)
LeafFor(z) ==
  LET leaf[n \in Nodes] == IF Child(n, z) = NIL THEN n ELSE leaf[Child(n, z)]
  IN  IF First = NIL THEN ROOT ELSE leaf[First]

(* A faulty rbtree_get_node_successor() that goes down one level.           *)
SuccessorNear(z) ==
  LET right == tree[z].right
  IN  IF tree[right].left = NIL THEN right ELSE tree[right].left

(* The node after z in order, if z has a right child: the leftmost below.   *)
Successor(z) ==
  LET leftmost[n \in Nodes] ==
        IF tree[n].left = NIL THEN n ELSE leftmost[tree[n].left]
  IN  leftmost[tree[z].right]

-----------------------------------------------------------------------------
Init ==
  /\ tree = EmptyTree
  /\ op = Idle
  /\ asked = NIL
  /\ result = NIL

(* mapped_file_free_chunk() puts a hole in: rbtree_insert_node() up to its  *)
(* loop.                                                                    *)
Insert(n) ==
  /\ op = Idle /\ n \notin DOMAIN tree
  /\ LET parent == LeafFor(Size[n])
         side == IF parent = ROOT THEN "left"
                 ELSE IF Size[n] < Size[parent] THEN "left" ELSE "right"
         linked == [tree EXCEPT ![parent][side] = n]
     IN  tree' = [m \in DOMAIN tree \cup {n} |->
                    IF m = n THEN RBNode(parent, "red") ELSE linked[m]]
  /\ op' = [step |-> "insert", node |-> n]
  /\ asked' = NIL /\ result' = NIL

(* The loop: two red nodes in a row, and the uncle is red too, ...          *)
InsertRecolor ==
  /\ op.step = "insert"
  /\ LET parent == tree[op.node].parent
         grandparent == tree[parent].parent
         uncle == tree[grandparent][Other(SideOf(tree, parent))]
     IN  /\ tree[parent].color = "red" /\ tree[uncle].color = "red"
         /\ tree' = [tree EXCEPT ![parent].color = "black",
                                 ![uncle].color = "black",
                                 ![grandparent].color = "red"]
         /\ op' = [op EXCEPT !.node = grandparent]
  /\ UNCHANGED <<asked, result>>

(* ... or black: rotate once or twice.                                      *)
InsertRotate ==
  /\ op.step = "insert"
  /\ LET parent == tree[op.node].parent
         grandparent == tree[parent].parent
         s == SideOf(tree, parent)
         inner == SideOf(tree, op.node) # s
         straight == IF inner THEN Rotate(tree, parent, s) ELSE tree
         upper == IF inner THEN op.node ELSE parent
     IN  /\ tree[parent].color = "red"
         /\ tree[tree[grandparent][Other(s)]].color = "black"
         /\ tree' = SwapRotate(straight, grandparent, Other(s), upper)
         /\ op' = [op EXCEPT !.node = IF inner THEN parent ELSE op.node]
  /\ UNCHANGED <<asked, result>>

InsertDone ==
  /\ op.step = "insert"
  /\ tree[tree[op.node].parent].color = "black"
  /\ tree' = [tree EXCEPT ![First].color = "black"]
  /\ op' = Idle
  /\ UNCHANGED <<asked, result>>

(* mapped_file_allocate_chunk() looks for a hole of size z: there is none,  *)
TakeFails(z) ==
  /\ op = Idle /\ FindNode(z) = NIL
  /\ asked' = z /\ result' = NIL
  /\ UNCHANGED <<tree, op>>

(* ... or it is deleted: rbtree_delete_node() up to the repair.  The node   *)
(* `gone' that leaves its place is the hole found or the one after it.      *)
Take(z) ==
  /\ op = Idle /\ FindNode(z) # NIL
  /\ LET found == FindNode(z)
         y == IF tree[found].left = NIL \/ tree[found].right = NIL
              THEN found ELSE Successor(found)
         x == IF tree[y].left = NIL THEN tree[y].right ELSE tree[y].left
     IN  /\ tree' = [tree EXCEPT ![x].parent = tree[y].parent,
                                 ![tree[y].parent][SideOf(tree, y)] = x]
         /\ op' = [step |-> IF tree[y].color = "black" THEN "repair" ELSE "splice",
                   node |-> x, found |-> found, gone |-> y, size |-> z]
  /\ UNCHANGED <<asked, result>>

(* A faulty rbtree_repair() that does not stop at the first node.           *)
ShortBeyond == op.step = "repair" /\ tree[op.node].color = "black"

(* rbtree_repair(): the node's subtree is one black node short.             *)
Short == op.step = "repair" /\ tree[op.node].color = "black" /\ op.node # First

(* The tree once the sibling of the short node is black.                    *)
BlackSibling ==
  LET parent == tree[op.node].parent
      s == SideOf(tree, op.node)
      sibling == tree[parent][Other(s)]
  IN  IF tree[sibling].color = "red" THEN SwapRotate(tree, parent, s, sibling) ELSE tree

(* A faulty rbtree_repair() that does not go up.                            *)
RepairStays ==
  /\ Short
  /\ LET t == BlackSibling
         parent == t[op.node].parent
         sibling == t[parent][Other(SideOf(t, op.node))]
     IN  /\ \A r \in Side : t[t[sibling][r]].color = "black"
         /\ tree' = [t EXCEPT ![sibling].color = "red"]
  /\ UNCHANGED <<op, asked, result>>

(* Its children are black: take a black node out of its subtree as well,    *)
RepairAbove ==
  /\ Short
  /\ LET t == BlackSibling
         parent == t[op.node].parent
         sibling == t[parent][Other(SideOf(t, op.node))]
     IN  /\ \A r \in Side : t[t[sibling][r]].color = "black"
         /\ tree' = [t EXCEPT ![sibling].color = "red"]
         /\ op' = [op EXCEPT !.node = parent]
  /\ UNCHANGED <<asked, result>>

(* ... or rotate its red child over.                                        *)
RepairRotate ==
  /\ Short
  /\ LET t == BlackSibling
         parent == t[op.node].parent
         s == SideOf(t, op.node)
         sibling == t[parent][Other(s)]
         near == t[sibling][s]
         u == IF t[t[sibling][Other(s)]].color = "black"
              THEN SwapRotate(t, sibling, Other(s), near)
              ELSE t
     IN  /\ \E r \in Side : t[t[sibling][r]].color = "red"
         /\ tree' = LiftRotate(u, parent, s, u[parent][Other(s)])
         /\ op' = [op EXCEPT !.node = tree'[ROOT].left]
  /\ UNCHANGED <<asked, result>>

RepairDone ==
  /\ op.step = "repair" /\ ~Short
  /\ tree' = [tree EXCEPT ![op.node].color = "black"]
  /\ op' = [op EXCEPT !.step = "splice"]
  /\ UNCHANGED <<asked, result>>

(* Faulty ends of rbtree_delete_node(): the node keeps its own colour; the  *)
(* parent of the hole found keeps its link.                                 *)
SpliceInOwnColor ==
  /\ op.step = "splice"
  /\ LET z == tree[op.found]
         y == op.gone
         moved == [tree EXCEPT ![y] = [z EXCEPT !.color = tree[y].color],
                               ![z.left].parent = y, ![z.right].parent = y,
                               ![z.parent][SideOf(tree, op.found)] = y]
         kept == IF y = op.found THEN tree ELSE moved
     IN  tree' = [n \in DOMAIN tree \ {op.found} |-> kept[n]]
  /\ op' = Idle
  /\ asked' = op.size /\ result' = op.found

SpliceUnlinked ==
  /\ op.step = "splice"
  /\ LET z == tree[op.found]
         y == op.gone
         moved == [tree EXCEPT ![y] = z,
                               ![z.left].parent = y, ![z.right].parent = y]
         kept == IF y = op.found THEN tree ELSE moved
     IN  tree' = [n \in DOMAIN tree \ {op.found} |-> kept[n]]
  /\ op' = Idle
  /\ asked' = op.size /\ result' = op.found

(* The rest of rbtree_delete_node(): the node that left takes the place and *)
(* the colour of the hole found, which is freed.                            *)
Splice ==
  /\ op.step = "splice"
  /\ LET z == tree[op.found]
         y == op.gone
         moved == [tree EXCEPT ![y] = z,
                               ![z.left].parent = y, ![z.right].parent = y,
                               ![z.parent][SideOf(tree, op.found)] = y]
         kept == IF y = op.found THEN tree ELSE moved
     IN  tree' = [n \in DOMAIN tree \ {op.found} |-> kept[n]]
  /\ op' = Idle
  /\ asked' = op.size /\ result' = op.found

(* rbtree_free() when the file is closed; the next one has a tree of its    *)
(* own.                                                                     *)
Clear ==
  /\ op = Idle
  /\ tree' = EmptyTree
  /\ asked' = NIL /\ result' = NIL
  /\ UNCHANGED op

Loops ==
  \/ InsertRecolor \/ InsertRotate \/ InsertDone
  \/ RepairAbove \/ RepairRotate \/ RepairDone \/ Splice

Next ==
  \/ \E n \in Node : Insert(n)
  \/ \E z \in {Size[n] : n \in Node} : Take(z) \/ TakeFails(z)
  \/ Loops
  \/ Clear

(* A call that has begun runs on: nothing in it waits.                      *)
Spec == Init /\ [][Next]_vars /\ WF_vars(Loops)

-----------------------------------------------------------------------------
(****************************************************************************)
(* Properties.                                                              *)
(****************************************************************************)
(* The nodes of the tree, and the holes that are in it as far as the chunk  *)
(* allocator is concerned: a node that has left its place is out of the     *)
(* tree for a while, though it may be another hole that is to be freed.     *)
Deleting == op.step \in {"repair", "splice"}
InTree == Nodes \ (IF Deleting THEN {op.gone} ELSE {})
Holes == Nodes

Ancestors(n) ==
  LET up[k \in 0 .. Cardinality(Nodes)] ==
        IF k = 0 THEN {n}
        ELSE LET passed == up[k - 1]
             IN  passed \cup {tree[m].parent : m \in passed \ {ROOT}}
  IN  up[Cardinality(Nodes)] \ {ROOT}

TypeOK ==
  /\ {ROOT, NIL} \subseteq DOMAIN tree /\ DOMAIN tree \subseteq Node \cup {ROOT, NIL}
  /\ tree \in [DOMAIN tree -> [left : DOMAIN tree, right : DOMAIN tree,
                              parent : Node \cup {ROOT, NIL}, color : {"red", "black"}]]
  /\ \/ op = Idle
     \/ op \in [step : {"insert"}, node : Nodes]
     \/ op \in [step : {"repair", "splice"}, node : Nodes \cup {NIL},
               found : Nodes, gone : Nodes, size : Nat]
  /\ asked \in Nat \cup {NIL} /\ result \in Node \cup {NIL}

(* The tree is one tree, through every rotation: each node but the first is *)
(* a child of its parent and of no other node, the way up leads to the root,*)
(* and no link leads to a node that left the tree or was freed (the         *)
(* pointers rotate_left(), rotate_right() and rbtree_delete_node() move).   *)
LinksAgree ==
  /\ \A n \in InTree \cup {ROOT}, s \in Side :
       tree[n][s] # NIL => tree[n][s] \in InTree /\ tree[tree[n][s]].parent = n
  /\ \A n \in InTree :
       /\ \E s \in Side : tree[tree[n].parent][s] = n
       /\ tree[n].left # tree[n].right \/ tree[n].left = NIL
       /\ First \in Ancestors(n)

(* "the 4 properties inherent in red-black trees" (rbtree.c:263), also      *)
(* between two iterations of a loop: no red node has a red parent except    *)
(* where the loop is, and all ways down pass the same number of black       *)
(* nodes, if the node rbtree_repair() is at counts once more.               *)
RedBlack ==
  LET red(n) == tree[n].color = "red"
      leaves == {n \in InTree : \E s \in Side : tree[n][s] = NIL}
      short(n) == /\ op.step = "repair"
                  /\ op.node \in Ancestors(n) \/ (op.node = NIL /\ tree[NIL].parent = n)
      blacks(n) == Cardinality({a \in Ancestors(n) : ~red(a)}) + (IF short(n) THEN 1 ELSE 0)
  IN  /\ ~red(ROOT) /\ ~red(NIL)
      /\ \A n \in InTree :
           red(n) /\ (n = First \/ red(tree[n].parent)) =>
             \/ op # Idle /\ op.node = n
             \/ op.step = "repair" /\ op.node = tree[n].parent
      /\ Cardinality({blacks(n) : n \in leaves}) <= 1

(* A hole is found by its size as long as it is in the tree, although holes *)
(* of one size can be on both sides of each other after a rotation while    *)
(* rbtree_insert_node() puts them to the right: mapped_file_allocate_chunk()*)
(* never misses one.                                                        *)
FindsEveryHole ==
  op = Idle => \A n \in Nodes : FindNode(Size[n]) # NIL

(* The tree implements the set of holes the chunk allocator relies on: a    *)
(* call takes a hole that was put in and has the very size it asks for, no  *)
(* other hole gets lost with it, and it finds none only if none has the     *)
(* size (rbtree_find_node(), rbtree_delete_node()).                         *)
Abstract == INSTANCE HoleSet WITH Hole <- Node, holes <- Holes
ImplementsHoleSet == Abstract!Spec

(* A loop of rbtree_insert_node() or rbtree_repair() has another iteration  *)
(* before it, and the nodes that are not below the one it is at.            *)
Looping ==
  \/ op.step = "insert" /\ tree[tree[op.node].parent].color = "red"
  \/ Short
Beyond == {n \in InTree : op.node \notin Ancestors(n)}

(* Each iteration is the last one or comes closer to the root, whatever it  *)
(* rotates: although a repair with a red sibling moves its node down first, *)
(* no loop takes more iterations than there are nodes.                      *)
LoopsClimb ==
  [][Loops /\ Looping' => Beyond' \subseteq Beyond /\ Beyond' # Beyond]_vars

(* The loops of rbtree_insert_node() and rbtree_repair() end.               *)
CallsReturn == op # Idle ~> op = Idle
=============================================================================
