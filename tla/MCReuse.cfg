\* A crash before config.json is forgotten, then the VMID is used again.
SPECIFICATION Spec
CONSTANTS
  m1 = m1
  m2 = m2
  v1 = v1
  n1 = n1
  Machines = {m1, m2}
  Names = {m1, m2}
  VMIDs = {v1}
  VMIDRange = {v1}
  Nodes = {n1}
  HomeNode = n1
  NameOf <- OwnNames
  NodeOf <- OneNode
  Faults = {"crash"}
  MaxFaults = 1
  NoVMID = NoVMID
  NoNode = NoNode
  NoName = NoName
  Foreign = Foreign
  NoOne = NoOne
  CloneAttempts = 2
  DeleteAttempts = 2
  KeepOnFailure = {}
SYMMETRY SafetySymmetry
INVARIANTS
  NeverDestroysForeignVM
