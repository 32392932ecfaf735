\* The VM is deleted by hand and its VMID given to another one.
SPECIFICATION Spec
CONSTANTS
  Nodes = {n1}
  NoNode = NoNode
  Leases = {a1}
  NoIP = NoIP
  Home = n1
  Lease = a1
  MaxChanges = 2
  MaxLate = 1
INVARIANT
  PowerOnlyOwnVM
