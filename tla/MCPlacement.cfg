\* Every option and every state of the cluster near the usual ones.
SPECIFICATION Spec
CONSTANTS
  n1 = n1
  n2 = n2
  Nodes = {n1, n2}
  NoNode = NoNode
  Worlds <- NearWorlds
  Inputs <- NearOptions
  MaxChanges = 2
INVARIANTS
  TypeOK
  CheckedCanBeCreated
  RefusalIsJustified
  HiddenIsNotMissing
  VMIsAsAsked
