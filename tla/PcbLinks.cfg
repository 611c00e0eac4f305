SPECIFICATION Spec
CONSTANTS
  Null = Null
  Nodes = {n1, n2, n3, n4}
INVARIANTS TypeOK Separate WalkSplitsTheList
PROPERTY ImplementsQueues
