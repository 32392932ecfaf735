--------------------------- MODULE PlacementProofs ---------------------------
(***************************************************************************)
(* Proofs about Placement: what SetConfigFromFlags, PreCreateCheck and     *)
(* Create's second resolvePlacement establish, for every set of nodes, of  *)
(* clusters and of options, and however often the cluster changes.         *)
(***************************************************************************)
EXTENDS Placement, FirstIndex, TLAPS

-----------------------------------------------------------------------------
(* The inductive invariant.                                                *)

\* The checks, on a cluster that does not change.
Privileged(x, opts) == Missing(x.perms, RequiredChecks(opts, x.major)) = {}
TemplateOK(x, opts) == \A v \in Matches(x, opts) : TemplateError(x, opts, v) = "nil"
StoragesOK(x, opts) == StorageError(x, opts, PlaceOf(x, "own")) = "nil"
BridgeOK(x, opts) == opts.bridge # "none" => HasBridge(x, TargetNode(opts, x.node))

\* RefusalIsJustified's conclusion.
Justified(x, opts) ==
  \A v \in VMs : Matches(x, opts) = {v} =>
    ~Clonable(x, opts, v) \/ ~Manageable(x, opts) \/ Overcautious(x, opts)

\* How far the flags and the placement have got.
Progress ==
  /\ w \in Worlds
  /\ pc \in {"flags", "version", "permissions"} => phase = "check"
  /\ err = "flags" => pc = "refused"
  /\ pc # "flags" /\ err # "flags" => FlagsOK(o)
  /\ pc = "template" => place.vm \in VMs /\ place.node \in Nodes
  /\ pc \in {"storages", "bridges", "checked", "clone"} => place \in Place
  /\ pc = "bridges" => o.bridge # "none"

\* Every check that lies behind, in this phase or in PreCreateCheck, still
\* passes on a cluster that has not changed, and what was read is what is there.
Behind ==
  calm =>
    /\ pc \notin {"flags", "version", "permissions", "refused"} \/ phase = "create"
         => skipped \/ Privileged(w, o)
    /\ pc \in {"template", "storages", "bridges", "checked", "clone"} \/ phase = "create"
         => ResolveError(w, o) = "nil"
    /\ pc \in {"storages", "bridges", "checked", "clone"} \/ phase = "create"
         => TemplateOK(w, o)
    /\ pc \in {"bridges", "checked", "clone"} \/ phase = "create" => StoragesOK(w, o)
    /\ pc \in {"checked", "clone"} \/ phase = "create" => BridgeOK(w, o)
    /\ pc = "template" => place.vm \in Matches(w, o) /\ place.node = w.node
    /\ pc \in {"storages", "bridges", "checked", "clone"}
         => place.vm \in Matches(w, o) /\ place = PlaceOf(w, place.vm)

PlacementInv ==
  /\ TypeOK /\ Progress /\ Behind
  /\ CheckedCanBeCreated /\ RefusalIsJustified /\ HiddenIsNotMissing /\ VMIsAsAsked

-----------------------------------------------------------------------------
(* The operators.                                                          *)

\* The fields of a cluster that the checks look at.
LEMMA WorldFields ==
  ASSUME NEW x \in Worlds
  PROVE  /\ x \in World /\ x.order \in Seq(Keys) /\ x.disks \in [Keys -> Size]
         /\ x.node \in Nodes /\ x.qcow2 \in BOOLEAN /\ x.kind \in {"template", "vm", "gone"}
         /\ x.namesake \in {"none", "vm", "template", "lxc"}
BY PlacementAssumption DEF World

\* The fields of the options.
LEMMA OptionFields ==
  ASSUME NEW opts \in Options
  PROVE  /\ opts.node \in Nodes \cup {NoNode} /\ opts.disk \in Int /\ opts.vlan \in Int
         /\ opts.bridge \in {"none", "vmbr1"} /\ opts.storage \in {"none", "data"}
         /\ opts.linked \in BOOLEAN /\ opts.pool \in BOOLEAN
BY DEF Options

\* BootDisk finds a disk if there is one, and never a key without one.
LEMMA BootDiskIsDisk ==
  ASSUME NEW x \in Worlds, BootDisks(x) # {}
  PROVE  /\ BootKey(x) \in Keys /\ BootSize(x) \in Size
         /\ BootSize(x).unit # "nodisk"
<1>1. x.order \in Seq(Keys) /\ x.disks \in [Keys -> Size]
  BY WorldFields
<1>2. BootOrder(x) \in Seq(Keys)
  BY <1>1 DEF BootOrder, Keys
<1>3. BootDisks(x) \in SUBSET Nat
  BY <1>2 DEF BootDisks
<1>4. Min(BootDisks(x)) \in BootDisks(x)
  BY <1>3, MinOfNats
<1>5. PICK i \in BootDisks(x) : BootKey(x) = BootOrder(x)[i]
  BY <1>4 DEF BootKey
<1>6. i \in DOMAIN BootOrder(x) /\ x.disks[BootOrder(x)[i]].unit # "nodisk"
  BY DEF BootDisks
<1>7. BootKey(x) \in Keys
  BY <1>2, <1>5, <1>6
<1> QED
  BY <1>1, <1>5, <1>6, <1>7 DEF BootSize

\* SizeGB rounds megabytes up to a gigabyte; the other units are exact.
LEMMA Rounding ==
  ASSUME NEW s \in Size, s.unit \in {"M", "G", "T"}
  PROVE  /\ SizeGB(s) \in Nat /\ SizeMB(s) \in Nat
         /\ SizeGB(s) * 1024 >= SizeMB(s)
         /\ s.unit # "M" => SizeGB(s) * 1024 = SizeMB(s)
         /\ \A d \in Nat : d * 1024 >= SizeMB(s) => d >= SizeGB(s)
<1> s.n \in Nat
  BY DEF Size
<1>1. CASE s.unit = "M"
  <2>1. SizeGB(s) = (s.n + 1023) \div 1024 /\ SizeMB(s) = s.n
    BY <1>1 DEF SizeGB, SizeMB
  <2> QED
    BY <1>1, <2>1
<1>2. CASE s.unit = "G"
  <2>1. SizeGB(s) = s.n /\ SizeMB(s) = s.n * 1024
    BY <1>2 DEF SizeGB, SizeMB
  <2> QED
    BY <2>1
<1>3. CASE s.unit = "T"
  <2>1. SizeGB(s) = s.n * 1024 /\ SizeMB(s) = s.n * 1048576
    BY <1>3 DEF SizeGB, SizeMB
  <2> QED
    BY <2>1
<1> QED
  BY <1>1, <1>2, <1>3

\* A disk that is asked for and not smaller than the template's is not refused.
LEMMA DiskFits ==
  ASSUME NEW s \in Size, s.unit \notin {"nodisk", "unparsable"}, NEW d \in Int,
         d = 0 \/ d * 1024 >= SizeMB(s)
  PROVE  ValidateDiskSize(d, SizeGB(s))
<1>1. s.unit \in {"M", "G", "T"}
  BY DEF Size
<1>2. SizeMB(s) \in Nat /\ \A n \in Nat : n * 1024 >= SizeMB(s) => n >= SizeGB(s)
  BY <1>1, Rounding
<1>3. CASE d = 0
  BY <1>3 DEF ValidateDiskSize
<1>4. CASE d * 1024 >= SizeMB(s)
  <2>1. d \in Nat
    BY <1>2, <1>4
  <2> QED
    BY <1>2, <1>4, <2>1 DEF ValidateDiskSize
<1> QED
  BY <1>3, <1>4

\* Whatever the config says, PVE's disk has a size.
LEMMA SizeMBType ==
  ASSUME NEW s \in Size
  PROVE  SizeMB(s) \in Nat
<1>1. CASE s.unit \in {"M", "G", "T"}
  BY <1>1, Rounding
<1>2. CASE s.unit \in {"unparsable", "nodisk"}
  BY <1>2 DEF SizeMB
<1> QED
  BY <1>1, <1>2 DEF Size

\* A template that passes has a boot disk whose size can be read.
LEMMA TemplatePasses ==
  ASSUME NEW x \in Worlds, NEW opts, NEW v \in VMs, TemplateError(x, opts, v) = "nil"
  PROVE  /\ Kind(x, v) = "template" /\ x.agent /\ x.cloudinit /\ x.nic
         /\ BootKey(x) \in Keys /\ BootSize(x) \in Size /\ BootSize(x).unit \in {"M", "G", "T"}
         /\ ValidateDiskSize(opts.disk, SizeGB(BootSize(x)))
         /\ PlaceOf(x, v) \in Place
<1>1. /\ Kind(x, v) = "template" /\ x.agent /\ x.cloudinit /\ x.nic
      /\ BootDisks(x) # {} /\ BootSize(x).unit # "unparsable"
      /\ ValidateDiskSize(opts.disk, SizeGB(BootSize(x)))
  BY DEF TemplateError
<1>2. /\ BootKey(x) \in Keys /\ BootSize(x) \in Size /\ BootSize(x).unit # "nodisk"
  BY <1>1, BootDiskIsDisk
<1>3. BootSize(x).unit \in {"M", "G", "T"}
  BY <1>1, <1>2 DEF Size
<1>4. SizeGB(BootSize(x)) \in Nat
  BY <1>2, <1>3, Rounding
<1>5. PlaceOf(x, v) \in Place
  BY <1>2, <1>4, WorldFields DEF PlaceOf, Place
<1> QED
  BY <1>1, <1>2, <1>3, <1>5

\* ResolveTemplate succeeds if one VM matches, and that is a template.
LEMMA OneMatch ==
  ASSUME NEW x, NEW opts, ResolveError(x, opts) = "nil"
  PROVE  \E v \in VMs : Matches(x, opts) = {v} /\ Kind(x, v) = "template"
<1>1. Matches(x, opts) \subseteq VMs /\ Matches(x, opts) \notin {{}, VMs}
  BY DEF ResolveError, Matches
<1>2. \A v \in Matches(x, opts) : Kind(x, v) = "template"
  BY DEF ResolveError
<1>3. PICK v \in Matches(x, opts) : TRUE
  BY <1>1
<1>4. Matches(x, opts) = {v}
  BY <1>1 DEF VMs
<1> QED
  BY <1>1, <1>2, <1>4

\* The storage rules do not ask which VM it is.
LEMMA SamePlace ==
  ASSUME NEW x, NEW opts, NEW v
  PROVE  /\ PlaceOf(x, v).node = x.node /\ PlaceOf(x, v).vm = v
         /\ StorageError(x, opts, PlaceOf(x, v)) = StorageError(x, opts, PlaceOf(x, "own"))
<1>1. /\ PlaceOf(x, v).node = x.node /\ PlaceOf(x, v).qcow2 = x.qcow2 /\ PlaceOf(x, v).vm = v
      /\ PlaceOf(x, "own").node = x.node /\ PlaceOf(x, "own").qcow2 = x.qcow2
  BY DEF PlaceOf
<1> QED
  BY <1>1 DEF StorageError

\* What the storage rules say, in terms of the cluster.
LEMMA StorageRules ==
  ASSUME NEW x, NEW opts, NEW t, t = TargetNode(opts, x.node)
  PROVE  StoragesOK(x, opts) <=>
           /\ opts.storage # "none" => HasData(x, t) /\ x.images
           /\ ValidateCloneMode(opts, x.node, HasTemplateStorage(x, t) /\ x.shared)
           /\ opts.linked /\ HasTemplateStorage(x, t) => LinkedCloneOK(x.qcow2, x.stype)
<1>1. PlaceOf(x, "own").node = x.node /\ PlaceOf(x, "own").qcow2 = x.qcow2
  BY DEF PlaceOf
<1> QED
  BY <1>1 DEF StoragesOK, StorageError

\* Missing has nothing to say of a token that has each privilege somewhere.
LEMMA PrivilegedIsGranted ==
  ASSUME NEW x, NEW opts
  PROVE  Privileged(x, opts) <=>
           /\ Granted(x, "VM") /\ Granted(x, "Datastore") /\ Granted(x, AgentPriv(x.major))
           /\ opts.bridge # "none" => Granted(x, "SDN")
           /\ opts.pool => Granted(x, "Pool")
<1> DEFINE C == RequiredChecks(opts, x.major)
<1>1. Privileged(x, opts) <=> \A c \in C : Granted(x, c[2])
  BY DEF Privileged, Missing, Granted
<1>2. /\ <<<<"vms">>, "VM">> \in C /\ <<<<"vms">>, AgentPriv(x.major)>> \in C
      /\ <<StoragePath(opts), "Datastore">> \in C
      /\ opts.bridge # "none" => <<<<"sdn", "vmbr1">>, "SDN">> \in C
      /\ opts.pool => <<<<"pool", "pool">>, "Pool">> \in C
  BY DEF RequiredChecks
<1>3. ASSUME NEW c \in C
      PROVE  \/ c[2] \in {"VM", AgentPriv(x.major), "Datastore"}
             \/ c[2] = "SDN" /\ opts.bridge # "none"
             \/ c[2] = "Pool" /\ opts.pool
  BY DEF RequiredChecks
<1> HIDE DEF C
<1> QED
  BY <1>1, <1>2, <1>3

\* A grant on the path or above it is a grant.
LEMMA AllowedIsGranted ==
  ASSUME NEW x, NEW path, NEW priv, Allowed(x, path, priv)
  PROVE  Granted(x, priv)
BY DEF Allowed, Granted

\* The privileges the clone needs, one by one.
LEMMA NeedsAllowed ==
  ASSUME NEW x, NEW opts, NEW v
  PROVE  (\A c \in Needs(opts, v) : Allowed(x, c[1], c[2])) <=>
           /\ Allowed(x, <<"vms", v>>, "VM") /\ Allowed(x, <<"vms", "new">>, "VM")
           /\ Allowed(x, <<"sdn", "vmbr0">>, "SDN")
           /\ opts.storage = "none" => Allowed(x, <<"storage", "template">>, "Datastore")
           /\ opts.storage # "none" => Allowed(x, <<"storage", "data">>, "Datastore")
           /\ opts.bridge # "none" => Allowed(x, <<"sdn", "vmbr1">>, "SDN")
           /\ opts.pool => Allowed(x, <<"pool", "pool">>, "Pool")
<1> DEFINE N == Needs(opts, v)
           A(c) == Allowed(x, c[1], c[2])
<1>1. /\ <<<<"vms", v>>, "VM">> \in N /\ <<<<"vms", "new">>, "VM">> \in N
      /\ <<<<"sdn", "vmbr0">>, "SDN">> \in N
      /\ opts.storage = "none" => <<<<"storage", "template">>, "Datastore">> \in N
      /\ opts.storage # "none" => <<<<"storage", "data">>, "Datastore">> \in N
      /\ opts.bridge # "none" => <<<<"sdn", "vmbr1">>, "SDN">> \in N
      /\ opts.pool => <<<<"pool", "pool">>, "Pool">> \in N
  BY DEF Needs
<1>2. ASSUME NEW c \in N
      PROVE  \/ c \in {<<<<"vms", v>>, "VM">>, <<<<"vms", "new">>, "VM">>,
                       <<<<"sdn", "vmbr0">>, "SDN">>}
             \/ c = <<<<"storage", "template">>, "Datastore">> /\ opts.storage = "none"
             \/ c = <<<<"storage", "data">>, "Datastore">> /\ opts.storage # "none"
             \/ c = <<<<"sdn", "vmbr1">>, "SDN">> /\ opts.bridge # "none"
             \/ c = <<<<"pool", "pool">>, "Pool">> /\ opts.pool
  BY DEF Needs
<1>3. ASSUME NEW p, NEW q PROVE A(<<p, q>>) <=> Allowed(x, p, q)
  <2>1. <<p, q>>[1] = p /\ <<p, q>>[2] = q
    OBVIOUS
  <2> QED
    BY <2>1
<1> HIDE DEF N, A
<1>4. (\A c \in N : A(c)) <=>
           /\ Allowed(x, <<"vms", v>>, "VM") /\ Allowed(x, <<"vms", "new">>, "VM")
           /\ Allowed(x, <<"sdn", "vmbr0">>, "SDN")
           /\ opts.storage = "none" => Allowed(x, <<"storage", "template">>, "Datastore")
           /\ opts.storage # "none" => Allowed(x, <<"storage", "data">>, "Datastore")
           /\ opts.bridge # "none" => Allowed(x, <<"sdn", "vmbr1">>, "SDN")
           /\ opts.pool => Allowed(x, <<"pool", "pool">>, "Pool")
  BY <1>1, <1>2, <1>3
<1> QED
  BY <1>4 DEF N, A

\* The privileges that may be missing after the checks, one by one.
LEMMA UnnoticedCases ==
  ASSUME NEW x, NEW opts, NEW unread
  PROVE  /\ opts.bridge = "none" /\ ~Allowed(x, <<"sdn", "vmbr0">>, "SDN")
              => Unnoticed(x, opts, unread)
         /\ ~Allowed(x, <<"vms", "new">>, "VM") /\ (unread \/ Granted(x, "VM"))
              => Unnoticed(x, opts, unread)
         /\ ~Allowed(x, <<"sdn", "vmbr0">>, "SDN") /\ (unread \/ Granted(x, "SDN"))
              => Unnoticed(x, opts, unread)
         /\ /\ opts.storage = "none" /\ ~Allowed(x, <<"storage", "template">>, "Datastore")
            /\ unread \/ Granted(x, "Datastore")
            => Unnoticed(x, opts, unread)
         /\ opts.pool /\ ~Allowed(x, <<"pool", "pool">>, "Pool") /\ (unread \/ Granted(x, "Pool"))
              => Unnoticed(x, opts, unread)
<1> DEFINE C == {<<<<"vms", "new">>, "VM">>, <<<<"storage", "template">>, "Datastore">>,
                 <<<<"sdn", "vmbr0">>, "SDN">>, <<<<"pool", "pool">>, "Pool">>}
<1>1. ASSUME NEW p, NEW q, <<p, q>> \in C, q = "Datastore" => opts.storage = "none",
             q = "Pool" => opts.pool, ~Allowed(x, p, q), unread \/ Granted(x, q)
      PROVE  Unnoticed(x, opts, unread)
  <2>1. <<p, q>>[1] = p /\ <<p, q>>[2] = q
    OBVIOUS
  <2> QED
    BY <1>1, <2>1 DEF Unnoticed
<1>2. opts.bridge = "none" /\ ~Allowed(x, <<"sdn", "vmbr0">>, "SDN") => Unnoticed(x, opts, unread)
  BY DEF Unnoticed
<1> QED
  BY <1>1, <1>2

\* What the checks let through PVE can clone, or it minds one of the things
\* that nothing checks.
LEMMA PassedIsClonable ==
  ASSUME NEW x \in Worlds, NEW opts \in Options, NEW v \in Matches(x, opts), NEW unread,
         unread \/ Privileged(x, opts), Kind(x, v) = "template",
         StoragesOK(x, opts), BridgeOK(x, opts), ~Unchecked(x, opts), ~Unnoticed(x, opts, unread)
  PROVE  Clonable(x, opts, v)
<1> DEFINE t == TargetNode(opts, x.node)
<1>1. /\ x.free /\ (opts.pool => x.pool) /\ x.node \in x.listed
      /\ opts.storage # "none" => /\ x.active
                                  /\ t # x.node => x.dshared /\ x.node \in x.data
  BY DEF Unchecked
<1>2. /\ opts.storage # "none" => HasData(x, t) /\ x.images
      /\ ValidateCloneMode(opts, x.node, HasTemplateStorage(x, t) /\ x.shared)
      /\ opts.linked /\ HasTemplateStorage(x, t) => LinkedCloneOK(x.qcow2, x.stype)
  BY StorageRules
<1>3. opts.linked => opts.storage = "none"
  BY <1>2 DEF ValidateCloneMode
<1>4. t # x.node => x.shared /\ t \in x.listed
  BY <1>2 DEF ValidateCloneMode, TargetNode, HasTemplateStorage
<1>5. opts.storage # "none" => t \in x.data /\ Allowed(x, <<"storage", "data">>, "Datastore")
  BY <1>2 DEF HasData
<1>6. StoragesServe(x, opts, t)
  BY <1>1, <1>2, <1>4, <1>5 DEF StoragesServe
<1>7. /\ unread \/ (Granted(x, "VM") /\ Granted(x, "Datastore"))
      /\ opts.bridge # "none" => unread \/ Granted(x, "SDN")
      /\ opts.pool => unread \/ Granted(x, "Pool")
  BY PrivilegedIsGranted
<1>8. opts.storage = "none" => Allowed(x, <<"storage", "template">>, "Datastore")
  BY <1>7, UnnoticedCases
<1>9. opts.linked => x.stype \in BaseImageTypes
  <2>1. opts.linked => HasTemplateStorage(x, t)
    BY <1>1, <1>3, <1>4, <1>8 DEF HasTemplateStorage
  <2>2. opts.linked => x.stype \in LinkedTypes \/ x.qcow2
    BY <1>2, <2>1 DEF LinkedCloneOK
  <2> QED
    BY <2>2, FileAssumption DEF LinkedTypes, BaseImageTypes
<1>10. opts.bridge # "none" => t \in x.bridge /\ Allowed(x, <<"sdn", "vmbr1">>, "SDN")
  BY DEF BridgeOK, HasBridge
<1>11. Allowed(x, <<"vms", v>>, "VM")
  BY DEF Matches
<1>12. /\ Allowed(x, <<"vms", "new">>, "VM") /\ Allowed(x, <<"sdn", "vmbr0">>, "SDN")
       /\ opts.pool => Allowed(x, <<"pool", "pool">>, "Pool")
  BY <1>7, UnnoticedCases
<1>13. \A c \in Needs(opts, v) : Allowed(x, c[1], c[2])
  BY <1>5, <1>8, <1>10, <1>11, <1>12, NeedsAllowed
<1> QED
  BY <1>1, <1>6, <1>9, <1>10, <1>13 DEF Clonable

\* When provision grows the boot disk, PVE has one of that name and does not
\* have to shrink it.
LEMMA GrowsIsResizable ==
  ASSUME NEW x \in Worlds, NEW opts \in Options, NEW v \in VMs, TemplateError(x, opts, v) = "nil",
         opts.disk > PlaceOf(x, v).gb
  PROVE  /\ x.disks[PlaceOf(x, v).key].unit # "nodisk"
         /\ opts.disk * 1024 >= SizeMB(x.disks[PlaceOf(x, v).key])
<1> DEFINE s == BootSize(x)
<1>1. s \in Size /\ s.unit \in {"M", "G", "T"}
  BY TemplatePasses
<1>2. PlaceOf(x, v).gb = SizeGB(s) /\ x.disks[PlaceOf(x, v).key] = s
  BY DEF PlaceOf, BootSize
<1> HIDE DEF s
<1>3. SizeGB(s) \in Nat /\ SizeMB(s) \in Nat /\ SizeGB(s) * 1024 >= SizeMB(s)
  BY <1>1, Rounding
<1>4. opts.disk \in Int
  BY OptionFields
<1> QED
  BY <1>1, <1>2, <1>3, <1>4

\* Whatever PVE could clone into a manageable VM passes every check.
LEMMA ClonablePasses ==
  ASSUME NEW x \in Worlds, NEW opts \in Options, NEW v \in VMs, Matches(x, opts) = {v},
         Clonable(x, opts, v), Manageable(x, opts), ~Overcautious(x, opts)
  PROVE  /\ Privileged(x, opts) /\ ResolveError(x, opts) = "nil"
         /\ TemplateOK(x, opts) /\ StoragesOK(x, opts) /\ BridgeOK(x, opts)
<1> DEFINE t == TargetNode(opts, x.node)
<1>1. /\ Allowed(x, <<"vms", v>>, "VM") /\ Allowed(x, <<"vms", "new">>, "VM")
      /\ opts.storage = "none" => Allowed(x, <<"storage", "template">>, "Datastore")
      /\ opts.storage # "none" => Allowed(x, <<"storage", "data">>, "Datastore")
      /\ opts.bridge # "none" => Allowed(x, <<"sdn", "vmbr1">>, "SDN")
      /\ opts.pool => Allowed(x, <<"pool", "pool">>, "Pool")
  BY NeedsAllowed DEF Clonable
<1>2. Privileged(x, opts)
  BY <1>1, AllowedIsGranted, PrivilegedIsGranted DEF Manageable
<1>3. Kind(x, v) = "template"
  BY DEF Clonable
<1>4. ResolveError(x, opts) = "nil"
  BY <1>3 DEF ResolveError, VMs
<1>5. ValidateDiskSize(opts.disk, SizeGB(BootSize(x)))
  <2>1. BootSize(x) \in Size /\ BootSize(x).unit \notin {"nodisk", "unparsable"}
    BY BootDiskIsDisk DEF Manageable, Overcautious
  <2>2. opts.disk \in Int
    BY OptionFields
  <2>3. opts.disk = 0 \/ opts.disk * 1024 >= SizeMB(BootSize(x))
    BY DEF Manageable
  <2> QED
    BY <2>1, <2>2, <2>3, DiskFits
<1>6. TemplateError(x, opts, v) = "nil"
  BY <1>3, <1>5 DEF TemplateError, Manageable, Overcautious
<1>7. StoragesServe(x, opts, t)
  BY DEF Clonable
<1>8. t # x.node => HasTemplateStorage(x, t) /\ x.shared
  BY <1>1, <1>7 DEF StoragesServe, Overcautious, HasTemplateStorage
<1>9. ValidateCloneMode(opts, x.node, HasTemplateStorage(x, t) /\ x.shared)
  <2>1. ~(opts.linked /\ opts.storage # "none")
    BY DEF Overcautious
  <2>2. opts.node \notin {NoNode, x.node} => t # x.node
    BY DEF TargetNode
  <2> QED
    BY <1>8, <2>1, <2>2 DEF ValidateCloneMode
<1>10. opts.storage # "none" => HasData(x, t) /\ x.images
  BY <1>1, <1>7 DEF StoragesServe, HasData
<1>11. opts.linked => LinkedCloneOK(x.qcow2, x.stype)
  BY DEF Overcautious, LinkedCloneOK
<1>12. StoragesOK(x, opts)
  BY <1>9, <1>10, <1>11, StorageRules
<1>13. BridgeOK(x, opts)
  BY <1>1 DEF BridgeOK, HasBridge, Clonable, Overcautious
<1> QED
  BY <1>2, <1>4, <1>6, <1>12, <1>13 DEF TemplateOK

\* A check that fails is a reason: PVE could not have cloned the VM, or it is one
\* the driver could not manage, or one of the listed exceptions.
LEMMA FailedCheck ==
  ASSUME NEW x \in Worlds, NEW opts \in Options,
         \/ ~Privileged(x, opts) \/ ResolveError(x, opts) # "nil" \/ ~TemplateOK(x, opts)
         \/ ~StoragesOK(x, opts) \/ ~BridgeOK(x, opts)
  PROVE  Justified(x, opts)
<1> SUFFICES ASSUME NEW v \in VMs, Matches(x, opts) = {v}
             PROVE  ~Clonable(x, opts, v) \/ ~Manageable(x, opts) \/ Overcautious(x, opts)
  BY DEF Justified
<1> QED
  BY ClonablePasses

-----------------------------------------------------------------------------
(* The steps.                                                              *)

\* What a step of resolvePlacement leaves alone.
Rest == UNCHANGED <<w, o, phase, out, changes, calm, skipped>>

\* Until the machine is refused or created, nothing is said of how it ends.
LEMMA Unfinished ==
  ASSUME pc \notin {"refused", "created"}
  PROVE  CheckedCanBeCreated /\ RefusalIsJustified /\ HiddenIsNotMissing /\ VMIsAsAsked
BY DEF CheckedCanBeCreated, RefusalIsJustified, HiddenIsNotMissing, VMIsAsAsked

\* A check that goes on keeps the types.
LEMMA GoesOn ==
  ASSUME PlacementInv, Rest, UNCHANGED err, pc \notin {"flags", "refused", "created"},
         pc' \in {"list", "template", "storages", "bridges", "checked", "clone"},
         place' \in Place \cup Found \cup {NoPlace},
         pc' = "template" => place'.vm \in VMs /\ place'.node \in Nodes,
         pc' \in {"storages", "bridges", "checked", "clone"} => place' \in Place,
         pc' = "bridges" => o.bridge # "none"
  PROVE  TypeOK' /\ Progress'
<1> USE DEF PlacementInv, Rest
<1>1. TypeOK'
  BY DEF TypeOK, Progress
<1>2. Progress'
  BY DEF Progress
<1> QED
  BY <1>1, <1>2

\* A refusal keeps the invariant if it is one the properties allow.
LEMMA Refuses ==
  ASSUME PlacementInv, Rest, NEW e, e # "flags", Refuse(e),
         pc \notin {"flags", "refused", "created"},
         phase = "create" /\ calm /\ e # "api" => Unchecked(w, o) \/ Unnoticed(w, o, skipped),
         calm /\ e \notin {"api", "name"} => Justified(w, o),
         phase = "check" /\ calm /\ ~skipped => Hidden(w, o, e)
  PROVE  PlacementInv'
<1> USE DEF PlacementInv, Rest, Refuse
<1>1. TypeOK'
  BY DEF TypeOK, Progress
<1>2. Progress'
  BY DEF Progress
<1>3. Behind'
  BY DEF Behind
<1>4. CheckedCanBeCreated'
  BY DEF CheckedCanBeCreated
<1>5. RefusalIsJustified'
  BY DEF RefusalIsJustified, Justified
<1>6. HiddenIsNotMissing'
  BY DEF HiddenIsNotMissing
<1>7. VMIsAsAsked'
  BY DEF VMIsAsAsked
<1> QED
  BY <1>1, <1>2, <1>3, <1>4, <1>5, <1>6, <1>7

\* Other refusals do not speak of things that may be hidden.
LEMMA SpeaksNot ==
  ASSUME NEW x, NEW opts, NEW e, e \notin {"notfound", "storage", "bridge", "clonemode"}
  PROVE  Hidden(x, opts, e)
BY DEF Hidden

\* The default of the VMID range is an option like any other.
LEMMA DefaultedType ==
  ASSUME NEW opts \in Options
  PROVE  Defaulted(opts) \in Options
<1> DEFINE r == IF opts.range.form = "empty" THEN DefaultRange ELSE opts.range
<1>1. r \in [form: {"empty", "bad", "pair"}, lo: Int, hi: Int]
  <2>1. opts.range \in [form: {"empty", "bad", "pair"}, lo: Int, hi: Int]
    BY DEF Options
  <2>2. DefaultRange \in [form: {"empty", "bad", "pair"}, lo: Int, hi: Int]
    BY DEF DefaultRange
  <2> QED
    BY <2>1, <2>2
<1>2. Defaulted(opts) = [opts EXCEPT !.range = r]
  BY DEF Defaulted
<1> HIDE DEF r
<1> QED
  BY <1>1, <1>2 DEF Options

\* What the flags promise to the checks.
LEMMA FlagsPass ==
  ASSUME NEW opts \in Options, FlagsOK(opts)
  PROVE  /\ ValidRange(opts.range) /\ opts.disk \in Nat /\ opts.vlan \in Nat
         /\ opts.bridge = "none" => opts.vlan = 0
<1> DEFINE disk == opts.disk
           vlan == opts.vlan
<1>1. disk \in Int /\ disk >= 0 /\ vlan \in 0..4094
  BY OptionFields DEF FlagsOK
<1>2. vlan > 0 => opts.bridge # "none"
  BY DEF FlagsOK
<1>3. ValidRange(opts.range)
  BY DEF FlagsOK
<1> HIDE DEF disk, vlan
<1>4. disk \in Nat /\ vlan \in Nat /\ (opts.bridge = "none" => vlan = 0)
  BY <1>1, <1>2
<1> QED
  BY <1>3, <1>4 DEF disk, vlan

\* SetConfigFromFlags.
LEMMA FlagsStep ==
  ASSUME PlacementInv, Flags
  PROVE  PlacementInv'
<1> DEFINE opts == Defaulted(o)
<1> USE DEF PlacementInv
<1>1. opts \in Options
  BY DefaultedType DEF TypeOK
<1>2. phase = "check" /\ phase' = "check" /\ o' = opts
  BY DEF Flags, Progress
<1>3. CASE FlagsOK(opts) /\ Goto("version")
  <2>0. ValidRange(opts.range)
    BY <1>1, <1>3, FlagsPass
  <2>1. TypeOK'
    BY <1>1, <1>2, <1>3, <2>0 DEF TypeOK, Flags, Goto
  <2>2. Progress'
    BY <1>2, <1>3 DEF Progress, Flags, Goto
  <2>3. Behind'
    BY <1>2, <1>3 DEF Behind, Flags, Goto
  <2>4. pc' \notin {"refused", "created"}
    BY <1>3 DEF Goto
  <2> QED
    BY <2>1, <2>2, <2>3, <2>4 DEF CheckedCanBeCreated, RefusalIsJustified,
       HiddenIsNotMissing, VMIsAsAsked
<1>4. CASE Refuse("flags")
  <2>1. TypeOK'
    BY <1>1, <1>2, <1>4 DEF TypeOK, Flags, Refuse
  <2>2. Progress'
    BY <1>2, <1>4 DEF Progress, Flags, Refuse
  <2>3. Behind'
    BY <1>2, <1>4 DEF Behind, Flags, Refuse
  <2> QED
    BY <1>2, <1>4, <2>1, <2>2, <2>3, SpeaksNot DEF Refuse, CheckedCanBeCreated,
       RefusalIsJustified, HiddenIsNotMissing, VMIsAsAsked
<1> QED
  BY <1>3, <1>4 DEF Flags

\* PreCreateCheck begins: from here on the cluster is watched.
LEMMA VersionStep ==
  ASSUME PlacementInv, Version
  PROVE  PlacementInv'
<1> USE DEF PlacementInv
<1>1. phase = "check" /\ phase' = "check"
  BY DEF Version, Progress
<1>2. PICK e \in {"api", "name", "nil"} :
        IF e = "nil" THEN Goto("permissions") ELSE Refuse(e)
  BY DEF Version, Reads
<1>3. pc' \in {"permissions", "refused"} /\ UNCHANGED <<w, o, out, changes, skipped, place>>
  BY <1>2 DEF Version, Goto, Refuse
<1>4. pc = "version" /\ err' = (IF e = "nil" THEN err ELSE e) /\ (e = "nil" <=> pc' = "permissions")
  BY <1>2 DEF Version, Goto, Refuse
<1>5. calm' = TRUE
  BY DEF Version
<1>6. TypeOK'
  <2>1. pc # "flags" /\ err # "flags"
    BY <1>4 DEF Progress
  <2> QED
    BY <1>1, <1>3, <1>4, <1>5, <2>1 DEF TypeOK
<1>7. Progress'
  BY <1>1, <1>3, <1>4 DEF Progress
<1>8. Behind'
  BY <1>1, <1>3 DEF Behind
<1>9. pc' = "refused" => err' \in {"api", "name"}
  BY <1>2, <1>4
<1> QED
  BY <1>1, <1>3, <1>6, <1>7, <1>8, <1>9, SpeaksNot DEF CheckedCanBeCreated, RefusalIsJustified,
     HiddenIsNotMissing, VMIsAsAsked

\* The privileges are checked or the check is skipped.
LEMMA PermissionsStep ==
  ASSUME PlacementInv, Permissions
  PROVE  PlacementInv'
<1> USE DEF PlacementInv
<1>1. pc = "permissions" /\ phase = "check" /\ UNCHANGED <<w, o, phase, out, changes, calm>>
  BY DEF Permissions, Progress
<1>2. CASE Refuse("privileges") /\ ~Privileged(w, o) /\ UNCHANGED skipped
  <2>1. Justified(w, o)
    BY <1>2, FailedCheck DEF Progress, TypeOK
  <2>2. Hidden(w, o, "privileges")
    BY SpeaksNot
  <2> QED
    BY <1>1, <1>2, <2>1, <2>2, Refuses DEF Rest
<1>3. CASE Goto("list") /\ (skipped' = TRUE \/ (Privileged(w, o) /\ UNCHANGED skipped))
  <2>1. pc' = "list" /\ UNCHANGED <<err, place>>
    BY <1>3 DEF Goto
  <2>2. skipped' \in BOOLEAN
    BY <1>3 DEF TypeOK
  <2>3. TypeOK'
    <3>1. err # "flags" /\ pc # "flags"
      BY <1>1 DEF Progress
    <3> QED
      BY <1>1, <2>1, <2>2, <3>1 DEF TypeOK
  <2>4. Progress'
    BY <1>1, <2>1 DEF Progress
  <2>5. Behind'
    BY <1>1, <1>3, <2>1 DEF Behind
  <2> QED
    BY <2>1, <2>3, <2>4, <2>5 DEF CheckedCanBeCreated, RefusalIsJustified,
       HiddenIsNotMissing, VMIsAsAsked
<1> QED
  BY <1>2, <1>3 DEF Permissions, Privileged

\* ResolveTemplate: Create finds what PreCreateCheck found.
LEMMA ListStep ==
  ASSUME PlacementInv, List
  PROVE  PlacementInv'
<1> USE DEF PlacementInv
<1>0. w \in Worlds /\ o \in Options
  BY DEF Progress, TypeOK
<1>1. pc = "list" /\ Rest
  BY DEF List, Rest
<1>2. CASE Refuse("api")
  BY <1>1, <1>2, Refuses, SpeaksNot
<1>3. CASE ResolveError(w, o) # "nil" /\ Refuse(ResolveError(w, o))
  <2> DEFINE e == ResolveError(w, o)
  <2>1. e \in {"notfound", "ambiguous", "nottemplate"}
    BY <1>3 DEF ResolveError
  <2>2. phase = "create" => ~calm
    BY <1>3 DEF Behind
  <2>3. Justified(w, o)
    BY <1>0, <1>3, FailedCheck
  <2>4. calm /\ ~skipped => Hidden(w, o, e)
    <3>1. calm /\ ~skipped => Granted(w, "VM")
      BY <1>1, PrivilegedIsGranted DEF Behind
    <3>2. e = "notfound" /\ w.kind # "gone" => ~Allowed(w, <<"vms", "own">>, "VM")
      BY <1>0, WorldFields DEF ResolveError, Matches, VMs, Kind
    <3> QED
      BY <2>1, <3>1, <3>2 DEF Hidden, Stray
  <2>5. Refuse(e)
    BY <1>3
  <2> HIDE DEF e
  <2> QED
    BY <1>1, <2>1, <2>2, <2>3, <2>4, <2>5, Refuses
<1>4. CASE /\ ResolveError(w, o) = "nil" /\ UNCHANGED err /\ pc' = "template"
           /\ \E v \in Matches(w, o) : place' = [NoPlace EXCEPT !.vm = v, !.node = w.node]
  <2>1. w.node \in Nodes
    BY <1>0, WorldFields
  <2>2. PICK v \in Matches(w, o) : place' = [NoPlace EXCEPT !.vm = v, !.node = w.node]
    BY <1>4
  <2>3. v \in VMs /\ place'.vm = v /\ place'.node = w.node
    BY <2>2 DEF NoPlace, Matches
  <2>4. place' \in Found
    BY <2>1, <2>2, <2>3 DEF NoPlace, Found
  <2>5. TypeOK' /\ Progress'
    BY <1>1, <1>4, <2>1, <2>3, <2>4, GoesOn
  <2>6. Behind'
    BY <1>1, <1>4, <2>2, <2>3 DEF Behind, Rest
  <2> QED
    BY <1>4, <2>5, <2>6 DEF CheckedCanBeCreated, RefusalIsJustified,
       HiddenIsNotMissing, VMIsAsAsked
<1> QED
  BY <1>2, <1>3, <1>4 DEF List

\* GetVM of the template and the rules about its config.
LEMMA TemplateStep ==
  ASSUME PlacementInv, Template
  PROVE  PlacementInv'
<1> USE DEF PlacementInv
<1> DEFINE v == place.vm
           e == TemplateError(w, o, v)
<1>0. w \in Worlds /\ o \in Options
  BY DEF Progress, TypeOK
<1>1. pc = "template" /\ Rest /\ v \in VMs
  BY DEF Template, Rest, Progress
<1>2. CASE Refuse("api")
  BY <1>1, <1>2, Refuses, SpeaksNot
<1>3. CASE v \in Matches(w, o) /\ e # "nil" /\ Refuse(e)
  <2>1. e \in {"nottemplate", "agent", "cloudinit", "net0", "nodisk", "nosize", "disk"}
    BY <1>3 DEF TemplateError
  <2>2. ~TemplateOK(w, o)
    BY <1>3 DEF TemplateOK
  <2>3. phase = "create" => ~calm
    BY <2>2 DEF Behind
  <2>4. Justified(w, o)
    BY <1>0, <2>2, FailedCheck
  <2>5. Refuse(e)
    BY <1>3
  <2> HIDE DEF e
  <2>6. Hidden(w, o, e)
    BY <2>1, SpeaksNot
  <2> QED
    BY <1>1, <2>1, <2>3, <2>4, <2>5, <2>6, Refuses
<1>4. CASE /\ v \in Matches(w, o) /\ e = "nil" /\ UNCHANGED err
           /\ pc' = "storages" /\ place' = PlaceOf(w, v)
  <2>1. place' \in Place
    BY <1>0, <1>1, <1>4, TemplatePasses
  <2>2. TypeOK' /\ Progress'
    BY <1>1, <1>4, <2>1, GoesOn
  <2>3. calm => TemplateOK(w, o)
    <3>1. calm => \E u \in VMs : Matches(w, o) = {u}
      BY <1>1, OneMatch DEF Behind
    <3> QED
      BY <1>4, <3>1 DEF TemplateOK
  <2>4. place'.vm = v
    BY <1>4, SamePlace
  <2>5. Behind'
    BY <1>1, <1>4, <2>3, <2>4 DEF Behind, Rest
  <2> QED
    BY <1>4, <2>2, <2>5 DEF CheckedCanBeCreated, RefusalIsJustified,
       HiddenIsNotMissing, VMIsAsAsked
<1> QED
  BY <1>2, <1>3, <1>4 DEF Template

\* What a refusal says of a storage is so, or the token's grant is elsewhere.
LEMMA StorageMissing ==
  ASSUME NEW x, NEW opts, NEW e, e = StorageError(x, opts, PlaceOf(x, "own")), Privileged(x, opts),
         e \in {"storage", "images", "clonemode", "linked"}
  PROVE  Hidden(x, opts, e)
<1> DEFINE t == TargetNode(opts, x.node)
<1>1. Granted(x, "Datastore")
  BY PrivilegedIsGranted
<1>2. PlaceOf(x, "own").node = x.node
  BY DEF PlaceOf
<1>3. e = "storage" => ~HasData(x, t)
  BY <1>2 DEF StorageError
<1>4. e = "clonemode" /\ ~(opts.linked /\ opts.storage # "none")
        => ~(HasTemplateStorage(x, t) /\ x.shared)
  BY <1>2 DEF StorageError, ValidateCloneMode
<1> QED
  BY <1>1, <1>3, <1>4 DEF Hidden, Stray, HasData, HasTemplateStorage

\* NodeStorages and the rules about the storages.
LEMMA StoragesStep ==
  ASSUME PlacementInv, Storages
  PROVE  PlacementInv'
<1> USE DEF PlacementInv
<1> DEFINE e == StorageError(w, o, place)
<1>0. w \in Worlds /\ o \in Options
  BY DEF Progress, TypeOK
<1>1. pc = "storages" /\ Rest /\ place \in Place
  BY DEF Storages, Rest, Progress
<1>2. calm => e = StorageError(w, o, PlaceOf(w, "own"))
  <2>1. calm => place = PlaceOf(w, place.vm)
    BY <1>1 DEF Behind
  <2> QED
    BY <2>1, SamePlace
<1>3. CASE Refuse("api")
  BY <1>1, <1>3, Refuses, SpeaksNot
<1>4. CASE e # "nil" /\ Refuse(e)
  <2>1. e \in {"storage", "images", "clonemode", "linked"}
    BY <1>4 DEF StorageError
  <2>2. calm => ~StoragesOK(w, o)
    BY <1>2, <1>4 DEF StoragesOK
  <2>3. phase = "create" => ~calm
    BY <2>2 DEF Behind
  <2>4. calm => Justified(w, o)
    BY <1>0, <2>2, FailedCheck
  <2>5. calm /\ ~skipped => Hidden(w, o, e)
    <3>1. calm /\ ~skipped => Privileged(w, o)
      BY <1>1 DEF Behind
    <3> QED
      BY <1>2, <2>1, <3>1, StorageMissing
  <2>6. Refuse(e)
    BY <1>4
  <2> HIDE DEF e
  <2> QED
    BY <1>1, <2>1, <2>3, <2>4, <2>5, <2>6, Refuses
<1>5. CASE e = "nil" /\ Goto(IF o.bridge = "none" THEN Placed ELSE "bridges")
  <2>1. UNCHANGED <<err, place>> /\ pc' = IF o.bridge = "none" THEN Placed ELSE "bridges"
    BY <1>5 DEF Goto
  <2>2. pc' \in {"bridges", "checked", "clone"} /\ (pc' = "bridges" <=> o.bridge # "none")
    BY <2>1 DEF Placed
  <2>3. TypeOK' /\ Progress'
    BY <1>1, <2>1, <2>2, GoesOn
  <2>4. calm => StoragesOK(w, o)
    BY <1>2, <1>5 DEF StoragesOK
  <2>5. o.bridge = "none" => BridgeOK(w, o)
    BY DEF BridgeOK
  <2>6. Behind'
    BY <1>1, <2>1, <2>2, <2>4, <2>5 DEF Behind, Rest
  <2> QED
    BY <2>2, <2>3, <2>6 DEF CheckedCanBeCreated, RefusalIsJustified,
       HiddenIsNotMissing, VMIsAsAsked
<1> QED
  BY <1>3, <1>4, <1>5 DEF Storages, Reads

\* NodeBridges.
LEMMA BridgesStep ==
  ASSUME PlacementInv, Bridges
  PROVE  PlacementInv'
<1> USE DEF PlacementInv
<1> DEFINE ok == HasBridge(w, TargetNode(o, place.node))
<1>0. w \in Worlds /\ o \in Options
  BY DEF Progress, TypeOK
<1>1. pc = "bridges" /\ Rest /\ place \in Place /\ o.bridge # "none"
  BY DEF Bridges, Rest, Progress
<1>2. calm => place.node = w.node
  <2>1. calm => place = PlaceOf(w, place.vm)
    BY <1>1 DEF Behind
  <2> QED
    BY <2>1, SamePlace
<1>3. CASE Refuse("api")
  BY <1>1, <1>3, Refuses, SpeaksNot
<1>4. CASE ~ok /\ Refuse("bridge")
  <2>1. calm => ~BridgeOK(w, o)
    BY <1>1, <1>2, <1>4 DEF BridgeOK
  <2>2. phase = "create" => ~calm
    BY <2>1 DEF Behind
  <2>3. calm => Justified(w, o)
    BY <1>0, <2>1, FailedCheck
  <2>4. calm /\ ~skipped => Hidden(w, o, "bridge")
    <3>1. calm /\ ~skipped => Granted(w, "SDN")
      BY <1>1, PrivilegedIsGranted DEF Behind
    <3> QED
      BY <1>2, <1>4, <3>1 DEF Hidden, Stray, HasBridge
  <2>5. Refuse("bridge")
    BY <1>4
  <2> QED
    BY <1>1, <2>2, <2>3, <2>4, <2>5, Refuses
<1>5. CASE ok /\ Goto(Placed)
  <2>1. UNCHANGED <<err, place>> /\ pc' \in {"checked", "clone"}
    BY <1>5 DEF Goto, Placed
  <2>2. TypeOK' /\ Progress'
    BY <1>1, <2>1, GoesOn
  <2>3. calm => BridgeOK(w, o)
    BY <1>2, <1>5 DEF BridgeOK
  <2>4. Behind'
    BY <1>1, <2>1, <2>3 DEF Behind, Rest
  <2> QED
    BY <2>1, <2>2, <2>4 DEF CheckedCanBeCreated, RefusalIsJustified,
       HiddenIsNotMissing, VMIsAsAsked
<1> QED
  BY <1>3, <1>4, <1>5 DEF Bridges, Reads

\* Rancher calls Create, which begins again.
LEMMA StartCreateStep ==
  ASSUME PlacementInv, StartCreate
  PROVE  PlacementInv'
<1> USE DEF PlacementInv
<1>1. /\ pc = "checked" /\ pc' = "list" /\ phase' = "create" /\ place' = NoPlace
      /\ UNCHANGED <<w, o, err, out, changes, calm, skipped>>
  BY DEF StartCreate
<1>2. TypeOK'
  BY <1>1 DEF TypeOK
<1>3. Progress'
  BY <1>1 DEF Progress
<1>4. Behind'
  BY <1>1 DEF Behind
<1> QED
  BY <1>1, <1>2, <1>3, <1>4 DEF CheckedCanBeCreated, RefusalIsJustified,
     HiddenIsNotMissing, VMIsAsAsked

\* The clone has the boot disk that was asked for, if the template's size is a
\* whole number of gigabytes.
LEMMA DiskIsAsked ==
  ASSUME NEW x \in Worlds, NEW opts \in Options, NEW v \in VMs, TemplateError(x, opts, v) = "nil",
         BootSize(x).unit # "M", ~(opts.disk > PlaceOf(x, v).gb)
  PROVE  SizeMB(x.disks[PlaceOf(x, v).key]) >= opts.disk * 1024
<1> DEFINE s == BootSize(x)
           d == opts.disk
<1>1. s \in Size /\ s.unit \in {"M", "G", "T"} /\ s.unit # "M"
  BY TemplatePasses
<1>2. PlaceOf(x, v).gb = SizeGB(s) /\ x.disks[PlaceOf(x, v).key] = s
  BY DEF PlaceOf, BootSize
<1>3. d \in Int
  BY OptionFields
<1>4. ~(d > SizeGB(s))
  BY <1>2
<1> HIDE DEF s, d
<1>5. SizeGB(s) \in Nat /\ SizeMB(s) = SizeGB(s) * 1024
  BY <1>1, Rounding
<1>6. SizeMB(s) >= d * 1024
  BY <1>3, <1>4, <1>5
<1> QED
  BY <1>2, <1>6 DEF d

\* The clone request and provision: what PVE refuses, and the VM it makes.
LEMMA CloneStep ==
  ASSUME PlacementInv, Clone
  PROVE  PlacementInv'
<1> USE DEF PlacementInv
<1> DEFINE v == place.vm
<1>0. w \in Worlds /\ o \in Options
  BY DEF Progress, TypeOK
<1>1. /\ pc = "clone" /\ UNCHANGED <<w, o, phase, changes, calm, skipped>>
      /\ place \in Place /\ v \in VMs
  BY DEF Clone, Progress, Place
<1>2. calm => /\ v \in Matches(w, o) /\ place = PlaceOf(w, v) /\ TemplateError(w, o, v) = "nil"
              /\ skipped \/ Privileged(w, o)
              /\ StoragesOK(w, o) /\ BridgeOK(w, o) /\ ResolveError(w, o) = "nil"
  BY <1>1 DEF Behind, TemplateOK
<1>3. CASE Refuse("api") /\ UNCHANGED out
  BY <1>1, <1>3, Refuses, SpeaksNot DEF Rest
<1>4. CASE ~Takes /\ Refuse(IF w.free THEN "pve" ELSE "vmid") /\ UNCHANGED out
  <2> DEFINE e == IF w.free THEN "pve" ELSE "vmid"
  <2>1. calm => ~Clonable(w, o, v)
    <3>1. calm => (Grows => Resizable)
      BY <1>0, <1>1, <1>2, GrowsIsResizable DEF Grows, Resizable, ClonedMB
    <3>2. calm => place.node = w.node
      BY <1>2, SamePlace
    <3> QED
      BY <1>4, <3>1, <3>2 DEF Takes
  <2>2. calm => Unchecked(w, o) \/ Unnoticed(w, o, skipped)
    <3>1. calm => Kind(w, v) = "template"
      BY <1>0, <1>1, <1>2, TemplatePasses
    <3> QED
      BY <1>0, <1>2, <2>1, <3>1, PassedIsClonable
  <2>3. calm => Justified(w, o)
    BY <1>2, <2>1 DEF Justified
  <2>4. e \in {"pve", "vmid"} /\ Refuse(e)
    BY <1>4
  <2> HIDE DEF e
  <2>5. Hidden(w, o, e)
    BY <2>4, SpeaksNot
  <2> QED
    BY <1>1, <1>4, <2>2, <2>3, <2>4, <2>5, Refuses DEF Rest
<1>5. CASE /\ w.node = place.node /\ UNCHANGED <<err, place>>
           /\ pc' = "created"
           /\ out' = [node |-> IF o.node = NoNode THEN w.node ELSE o.node,
                      recorded |-> TargetNode(o, place.node),
                      vlan |-> IF o.bridge = "none" THEN 0 ELSE o.vlan,
                      bridge |-> o.bridge,
                      mb |-> IF Grows THEN o.disk * 1024 ELSE ClonedMB]
  <2>1. err # "flags" /\ FlagsOK(o)
    BY <1>1 DEF Progress
  <2>2. /\ o.disk \in Nat /\ o.vlan \in Nat /\ (o.bridge = "none" => o.vlan = 0)
        /\ ValidRange(o.range)
    BY <1>0, <2>1, FlagsPass
  <2>3. ClonedMB \in Nat
    <3>1. w.disks[place.key] \in Size
      BY <1>0, <1>1, WorldFields DEF Place
    <3> QED
      BY <3>1, SizeMBType DEF ClonedMB
  <2>4. o.disk * 1024 \in Nat
    BY <2>2
  <2>5. w.node \in Nodes /\ o.node \in Nodes \cup {NoNode} /\ o.bridge \in {"none", "vmbr1"}
    BY <1>0, WorldFields, OptionFields
  <2>6. out' \in VMOut
    BY <1>5, <2>2, <2>3, <2>4, <2>5 DEF VMOut, TargetNode
  <2>7. TypeOK'
    BY <1>1, <1>5, <2>2, <2>6 DEF TypeOK
  <2>8. Progress'
    BY <1>1, <1>5, <2>1 DEF Progress
  <2>9. Behind'
    BY <1>1, <1>5 DEF Behind
  <2>10. VMIsAsAsked'
    <3>1. out'.recorded = out'.node /\ o.node \in {NoNode, out'.node}
      BY <1>5 DEF TargetNode
    <3>2. out'.vlan = o.vlan /\ out'.bridge = o.bridge
      BY <1>5, <2>2
    <3>3. calm /\ BootSize(w).unit # "M" /\ ~Grows => ClonedMB >= o.disk * 1024
      BY <1>0, <1>1, <1>2, DiskIsAsked DEF Grows, ClonedMB
    <3>4. out'.mb = IF Grows THEN o.disk * 1024 ELSE ClonedMB
      BY <1>5
    <3>5. calm /\ BootSize(w).unit # "M" => out'.mb >= o.disk * 1024
      BY <2>3, <2>4, <3>3, <3>4
    <3> QED
      BY <1>1, <3>1, <3>2, <3>5 DEF VMIsAsAsked
  <2> QED
    BY <1>5, <2>7, <2>8, <2>9, <2>10 DEF CheckedCanBeCreated, RefusalIsJustified,
       HiddenIsNotMissing
<1> QED
  BY <1>3, <1>4, <1>5 DEF Clone, Takes

\* Somebody changes the cluster: what was checked may no longer hold, and
\* what was refused or created is past it.
LEMMA ChangeStep ==
  ASSUME PlacementInv, Change
  PROVE  PlacementInv'
<1> USE DEF PlacementInv
<1>1. /\ pc \notin {"flags", "refused", "created"} /\ ~calm'
      /\ UNCHANGED <<o, phase, pc, place, err, out, skipped>>
      /\ changes' = changes - 1 /\ changes > 0
  BY DEF Change
<1>2. w' \in Worlds /\ w' \in World
  <2>1. w \in Worlds /\ w' \in Neighbours[w]
    BY DEF Progress, Change
  <2>2. w' \in Worlds
    BY <2>1 DEF Neighbours
  <2> QED
    BY <2>2, PlacementAssumption
<1>3. changes' \in 0..MaxChanges
  BY <1>1, PlacementAssumption DEF TypeOK
<1>4. calm' \in BOOLEAN
  BY DEF Change
<1>5. TypeOK'
  BY <1>1, <1>2, <1>3, <1>4 DEF TypeOK
<1>6. Progress'
  BY <1>1, <1>2 DEF Progress
<1>7. Behind'
  BY <1>1 DEF Behind
<1> QED
  BY <1>1, <1>5, <1>6, <1>7 DEF CheckedCanBeCreated, RefusalIsJustified,
     HiddenIsNotMissing, VMIsAsAsked

\* Nothing happens.
LEMMA StutterStep ==
  ASSUME PlacementInv, UNCHANGED vars
  PROVE  PlacementInv'
<1> USE DEF PlacementInv, vars
<1>1. TypeOK' /\ Progress'
  BY DEF TypeOK, Progress
<1>2. Behind'
  BY DEF Behind
<1>3. CheckedCanBeCreated' /\ HiddenIsNotMissing' /\ VMIsAsAsked'
  BY DEF CheckedCanBeCreated, HiddenIsNotMissing, VMIsAsAsked
<1>4. RefusalIsJustified'
  BY DEF RefusalIsJustified
<1> QED
  BY <1>1, <1>2, <1>3, <1>4

\* The machine's options have been read, nothing has been checked.
LEMMA PlacementInit ==
  ASSUME Init
  PROVE  PlacementInv
<1>1. w \in World /\ o \in Options
  BY PlacementAssumption DEF Init
<1>2. changes \in 0..MaxChanges
  BY PlacementAssumption DEF Init
<1>3. TypeOK
  BY <1>1, <1>2 DEF Init, TypeOK
<1>4. Progress /\ Behind
  BY DEF Init, Progress, Behind
<1>5. pc \notin {"refused", "created"}
  BY DEF Init
<1> QED
  BY <1>3, <1>4, <1>5, Unfinished DEF PlacementInv

\* The invariant holds in every state of every behaviour of Placement.
LEMMA PlacementInvariant == Spec => []PlacementInv
<1>1. Init => PlacementInv
  BY PlacementInit
<1>2. PlacementInv /\ [Next]_vars => PlacementInv'
  <2> SUFFICES ASSUME PlacementInv, [Next]_vars
               PROVE  PlacementInv'
    OBVIOUS
  <2>1. CASE Driver
    BY <2>1, FlagsStep, VersionStep, PermissionsStep, ListStep, TemplateStep, StoragesStep,
       BridgesStep, StartCreateStep, CloneStep DEF Driver
  <2>2. CASE Change
    BY <2>2, ChangeStep
  <2>3. CASE UNCHANGED vars
    BY <2>3, StutterStep
  <2> QED
    BY <2>1, <2>2, <2>3 DEF Next
<1> QED
  BY <1>1, <1>2, PTL DEF Spec

-----------------------------------------------------------------------------
(* The theorems.                                                           *)

\* Types, and past SetConfigFromFlags a VMID range that PVE can serve.
THEOREM PlacementTypes == Spec => []TypeOK
<1>1. PlacementInv => TypeOK
  BY DEF PlacementInv
<1> QED
  BY <1>1, PlacementInvariant, PTL

\* What PreCreateCheck lets through, Create resolves again and PVE clones, as
\* long as nobody changes the cluster and PVE minds none of the things that no
\* check looks at: for every set of nodes, every option and every cluster, with
\* PVE's privileges on the objects' own paths.
THEOREM CheckedIsCreated == Spec => []CheckedCanBeCreated
<1>1. PlacementInv => CheckedCanBeCreated
  BY DEF PlacementInv
<1> QED
  BY <1>1, PlacementInvariant, PTL

\* PreCreateCheck and Create refuse nothing that PVE could have cloned into a VM
\* the driver can manage, whatever the clone mode, the sizes' units and the
\* boot order, except for the cases that Overcautious lists.
THEOREM RefusedForAReason == Spec => []RefusalIsJustified
<1>1. PlacementInv => RefusalIsJustified
  BY DEF PlacementInv
<1> QED
  BY <1>1, PlacementInvariant, PTL

\* PreCreateCheck's privilege check comes before everything that a token
\* without privileges would not see: if it could be made, a refusal calls a
\* hidden thing missing only where the privilege is granted on another path.
THEOREM MissingIsMissing == Spec => []HiddenIsNotMissing
<1>1. PlacementInv => HiddenIsNotMissing
  BY DEF PlacementInv
<1> QED
  BY <1>1, PlacementInvariant, PTL

\* The VM that Create makes is where it is recorded and where it was asked for,
\* with the VLAN tag and the bridge asked for, however often the cluster changed
\* between the checks and the clone; on a quiet cluster its boot disk is not
\* smaller than asked for, unless the template's size is in megabytes.
THEOREM CreatedAsAsked == Spec => []VMIsAsAsked
<1>1. PlacementInv => VMIsAsAsked
  BY DEF PlacementInv
<1> QED
  BY <1>1, PlacementInvariant, PTL
=============================================================================
