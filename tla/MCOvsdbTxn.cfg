SPECIFICATION Spec
CONSTANTS
  Null = Null
  Schemas <- Three
  MaxOps = 2
INVARIANTS CountsRight WeakListsExact CommitsRight
