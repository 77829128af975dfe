CONSTANTS
  ROOT = ROOT
  NIL = NIL
  Node = {1, 2, 3, 4, 5, 6, 7, 8, 9, 10}
  AnyOrder = {1, 2, 3, 4, 5}
  Size <- MCSize
SPECIFICATION Spec
ACTION_CONSTRAINT LargeTreesInOrder
INVARIANTS TypeOK LinksAgree RedBlack FindsEveryHole
PROPERTIES ImplementsHoleSet LoopsClimb CallsReturn
