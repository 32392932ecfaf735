\* A guest that comes up in any order, changes its lease and may be deleted.
SPECIFICATION FairSpec
CONSTANTS
  CloneMAC = CloneMAC
  FreshMAC = FreshMAC
  OtherMAC = OtherMAC
  Leases = {a1, a2}
  BridgeIP = BridgeIP
  NoIP = NoIP
  MaxPolls = 3
INVARIANTS
  TypeOK
  IPIsNet0Lease
PROPERTIES
  LeaseNeverOverlooked
  WaitEnds
