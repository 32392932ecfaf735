SPECIFICATION Spec
CONSTANTS
  m1 = m1
  v1 = v1
  n1 = n1
  Machines = {m1}
  Names = {m1}
  VMIDs = {v1}
  VMIDRange = {v1}
  Nodes = {n1}
  HomeNode = n1
  NameOf <- OwnNames
  NodeOf <- OneNode
  Faults = {"dns"}
  MaxFaults = 2
  NoVMID = NoVMID
  NoNode = NoNode
  NoName = NoName
  Foreign = Foreign
  NoOne = NoOne
  CloneAttempts = 2
  DeleteAttempts = 2
  KeepOnFailure = {}
SYMMETRY SafetySymmetry
INVARIANTS
  RemovedMeansGone
