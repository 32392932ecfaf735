\* One refused request, failed task, silent guest, dead process or VM made or
\* deleted by somebody else: Create cleans up.
SPECIFICATION Spec
CONSTANTS
  m1 = m1
  m2 = m2
  v1 = v1
  v2 = v2
  n1 = n1
  Machines = {m1, m2}
  Names = {m1, m2}
  VMIDs = {v1, v2}
  VMIDRange = {v1, v2}
  Nodes = {n1}
  HomeNode = n1
  NameOf <- OwnNames
  NodeOf <- OneNode
  Faults = {"lock", "fatal", "fatal595", "vmlocked", "noip", "crash",
            "foreign", "purge"}
  MaxFaults = 1
  NoVMID = NoVMID
  NoNode = NoNode
  NoName = NoName
  Foreign = Foreign
  NoOne = NoOne
  CloneAttempts = 2
  DeleteAttempts = 2
  KeepOnFailure = {m2}
SYMMETRY VMIDSymmetry
INVARIANTS
  FailedCreateCleansUp
