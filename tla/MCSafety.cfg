\* Two machines in parallel; every way a driver call or a process can fail.
SPECIFICATION Spec
CONSTANTS
  m1 = m1
  m2 = m2
  v1 = v1
  v2 = v2
  n1 = n1
  Machines = {m1, m2}
  Names = {m1, m2}
  VMIDs = {v1, v2}
  VMIDRange = {v1, v2}
  Nodes = {n1}
  HomeNode = n1
  NameOf <- OwnNames
  NodeOf <- OneNode
  Faults = {"lock", "fatal", "vmlocked", "net", "lost", "timeout", "poll", "noip", "crash"}
  MaxFaults = 3
  NoVMID = NoVMID
  NoNode = NoNode
  NoName = NoName
  Foreign = Foreign
  NoOne = NoOne
  CloneAttempts = 2
  DeleteAttempts = 2
  KeepOnFailure = {}
SYMMETRY SafetySymmetry
INVARIANTS
  TypeOK
  DeleteOnlyOwnUnlessReused
  RecordedVMIsTagged
  RemovedLeavesNoTaggedVM
  UpMachineHasItsVM
  AtMostOneTaggedVM
PROPERTIES
  MachineSpec
