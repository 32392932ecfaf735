\* A template whose disk is not a whole number of gigabytes.
SPECIFICATION Spec
CONSTANTS
  n1 = n1
  n2 = n2
  Nodes = {n1, n2}
  NoNode = NoNode
  Worlds <- NearWorlds
  Inputs <- NearOptions
  MaxChanges = 0
INVARIANT
  DiskIsAtLeastAsked
