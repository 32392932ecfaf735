\* Every fault, and what people do to VMs by hand.
SPECIFICATION FairSpec
CONSTANTS
  m1 = m1
  v1 = v1
  v2 = v2
  n1 = n1
  n2 = n2
  Machines = {m1}
  Names = {m1}
  VMIDs = {v1, v2}
  VMIDRange = {v1, v2}
  Nodes = {n1, n2}
  HomeNode = n1
  NameOf <- OwnNames
  NodeOf <- OneNode
  Faults = {"lock", "vmlocked", "net", "dns", "fatal", "timeout", "lost", "crash", "noip", "migrate", "foreign", "purge", "power"}
  MaxFaults = 3
  NoVMID = NoVMID
  NoNode = NoNode
  NoName = NoName
  Foreign = Foreign
  NoOne = NoOne
  CloneAttempts = 2
  DeleteAttempts = 2
  KeepOnFailure = {}
INVARIANTS
  DeleteOnlyOwnUnlessReused
  RecordedVMIsTagged
PROPERTIES
  CreateReturns
  EventuallyGone
