\* One machine's calls, interleaved with what people do to its VM.
SPECIFICATION FairSpec
CONSTANTS
  Nodes = {n1, n2}
  NoNode = NoNode
  Leases = {a1, a2}
  NoIP = NoIP
  Home = n1
  Lease = a1
  MaxChanges = 2
  MaxLate = 1
INVARIANTS
  TypeOK
  GetStateIsTrue
  PowerCallIsDone
  URLOnlyOfRunning
PROPERTIES
  AddressIsFresh
  NameIsNeverTrusted
  CallReturns
