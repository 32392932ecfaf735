------------------------------ MODULE Placement ------------------------------
(***************************************************************************)
(* What comes before a VM exists: SetConfigFromFlags (pkg/driver/flags.go),*)
(* PreCreateCheck and resolvePlacement (pkg/driver/precreate.go), which    *)
(* Create runs again, over ResolveTemplate, NodeStorages, NodeBridges      *)
(* (pkg/pve), and the rules of pkg/validate.  One action per API request;  *)
(* the cluster may change in between.  At the end stand the clone request  *)
(* and what provision makes of the clone's disk and NIC, so that what the  *)
(* checks let through can be held against what PVE does with it.           *)
(***************************************************************************)
EXTENDS Integers, Sequences, FiniteSetsExt

CONSTANTS
  Nodes, NoNode,  \* PVE nodes; --pvenode-node not given
  Worlds,         \* the states of the cluster that are considered, see World
  Inputs,         \* the options that are considered, see Options
  MaxChanges      \* how often the cluster changes in one behaviour

\* "VM" stands for the ten VM privileges, "Datastore" for the two on storages.
Privs == {"VM", "Monitor", "GuestAgent", "Datastore", "SDN", "Pool"}

\* PVE's ACL paths: the root <<>>, a tree, an object of the tree.  The VMs are
\* the template, its namesake and the new one, the storages the template's and
\* "data"; the template's net0 is on vmbr0.
Objects == [vms |-> {"own", "namesake", "new"}, storage |-> {"template", "data"},
            sdn |-> {"vmbr0", "vmbr1"}, pool |-> {"pool"}]
Paths == {<<>>} \cup UNION {{<<t>>} \cup {<<t, i>> : i \in Objects[t]} : t \in DOMAIN Objects}

Keys == {"scsi0", "virtio0", "ide0", "sata0", "ide2"}

\* A disk's size as its config value gives it: with a unit, "unparsable", or
\* "nodisk" for a key that has no device, a CD-ROM or the cloud-init drive.
Size == [n: Nat, unit: {"M", "G", "T", "unparsable", "nodisk"}]

\* The types of storage that differ in what the rules, or PVE, make of them.
StorageTypes == {"lvmthin", "zfspool", "rbd", "btrfs", "zfs", "lvm", "dir"}

\* The cluster, as far as placement looks at it and PVE minds.  The template:
\* whether it is one, a plain VM or deleted, its config (agent, cloud-init
\* drive, a net0 with a MAC, boot order, disks with their sizes, a qcow2 file),
\* its node; a namesake, which has the same config.  Its storage: the nodes
\* that have it, shared or not, its type.  The storage "data": the nodes that
\* have it, for disk images or not, shared or not, active or not.  The bridge
\* vmbr1: the nodes that have it, its type.  Whether the pool exists and a VMID
\* of the range is free.  The token's grants; one that comes through a pool
\* counts as one on the VM.
World == [kind: {"template", "vm", "gone"}, agent: BOOLEAN, cloudinit: BOOLEAN, nic: BOOLEAN,
          order: Seq(Keys), disks: [Keys -> Size],
          qcow2: BOOLEAN, node: Nodes, namesake: {"none", "vm", "template", "lxc"},
          listed: SUBSET Nodes, shared: BOOLEAN, stype: StorageTypes,
          data: SUBSET Nodes, images: BOOLEAN, dshared: BOOLEAN, active: BOOLEAN,
          bridge: SUBSET Nodes, btype: {"bridge", "OVSBridge", "vnet"},
          pool: BOOLEAN, free: BOOLEAN,
          perms: SUBSET (Paths \X Privs), major: {8, 9}]

\* The driver's options.  dns: the machine name is a DNS label.  set: all four
\* required options are given.  A storage or bridge of "none" is not given.
Options == [dns: BOOLEAN, set: BOOLEAN, ref: {"name", "vmid"}, node: Nodes \cup {NoNode},
            storage: {"none", "data"}, linked: BOOLEAN, bridge: {"none", "vmbr1"}, vlan: Int,
            disk: Int, pool: BOOLEAN,
            range: [form: {"empty", "bad", "pair"}, lo: Int, hi: Int]]

ASSUME PlacementAssumption ==
  /\ NoNode \notin Nodes /\ MaxChanges \in Nat
  /\ Worlds \subseteq World /\ Inputs \subseteq Options

\* A qcow2 file is on a storage that holds files.
ASSUME FileAssumption == \A x \in Worlds : x.qcow2 => x.stype = "dir"

VARIABLES
  w,        \* the cluster
  o,        \* the options; Driver's fields once the flags are read
  phase,    \* "check" (flags and PreCreateCheck) or "create"
  pc,       \* where the phase is
  place,    \* what resolvePlacement has found out: nothing, the row, a Place
  err,      \* why it was refused
  out,      \* the VM, and the node that Create records
  changes,  \* changes of the cluster still to come
  calm,     \* ghost: the cluster has not changed since PreCreateCheck began
  skipped   \* ghost: the token's permissions could not be read

vars == <<w, o, phase, pc, place, err, out, changes, calm, skipped>>

VMs == {"own", "namesake"}
Place == [vm: VMs, node: Nodes, key: Keys, gb: Nat, qcow2: BOOLEAN]
Found == [vm: VMs, node: Nodes, key: {"none"}, gb: {0}, qcow2: {FALSE}]
NoPlace == [vm |-> "none", node |-> NoNode, key |-> "none", gb |-> 0, qcow2 |-> FALSE]

VMOut == [node: Nodes, recorded: Nodes \cup {NoNode}, vlan: Nat, bridge: {"none", "vmbr1"}, mb: Nat]
NoOut == [node |-> NoNode, recorded |-> NoNode, vlan |-> 0, bridge |-> "none", mb |-> 0]

-----------------------------------------------------------------------------
(* Flags.                                                                  *)

DefaultRange == [form |-> "pair", lo |-> 10000, hi |-> 19999]

ValidRange(r) == r.form = "pair" /\ 100 <= r.lo /\ r.lo < r.hi /\ r.hi <= 999999999

\* Rancher may send zero values explicitly.
Defaulted(opts) ==
  [opts EXCEPT !.range = IF @.form = "empty" THEN DefaultRange ELSE @]

\* Mutant: the range is parsed only when it is used.
FlagsOKAnyRange(opts) ==
  /\ opts.set /\ opts.vlan \in 0..4094 /\ opts.disk >= 0
  /\ opts.vlan > 0 => opts.bridge # "none"

\* Mutant: a VLAN tag without a bridge is accepted.
FlagsOKWithoutBridge(opts) ==
  opts.set /\ ValidRange(opts.range) /\ opts.vlan \in 0..4094 /\ opts.disk >= 0

FlagsOK(opts) ==
  /\ opts.set
  /\ ValidRange(opts.range)
  /\ opts.vlan \in 0..4094
  /\ opts.vlan > 0 => opts.bridge # "none"
  /\ opts.disk >= 0

-----------------------------------------------------------------------------
(* The rules of pkg/validate.                                              *)

StoragePath(opts) == IF opts.storage = "none" THEN <<"storage">> ELSE <<"storage", "data">>

AgentPriv(major) == IF major >= 9 THEN "GuestAgent" ELSE "Monitor"

RequiredChecks(opts, major) ==
  {<<<<"vms">>, "VM">>, <<<<"vms">>, AgentPriv(major)>>, <<StoragePath(opts), "Datastore">>}
    \cup (IF opts.bridge # "none" THEN {<<<<"sdn", "vmbr1">>, "SDN">>} ELSE {})
    \cup (IF opts.pool THEN {<<<<"pool", "pool">>, "Pool">>} ELSE {})

\* Missing: a grant on any path counts.
Missing(perms, checks) == {c[2] : c \in checks} \ {p[2] : p \in perms}

\* BootDisk: the first disk in the boot order, then the usual first disks.
BootOrder(x) == x.order \o <<"scsi0", "virtio0", "ide0", "sata0">>
BootDisks(x) == {i \in DOMAIN BootOrder(x) : x.disks[BootOrder(x)[i]].unit # "nodisk"}
BootKey(x) == BootOrder(x)[Min(BootDisks(x))]
BootSize(x) == x.disks[BootKey(x)]

SizeGB(s) == CASE s.unit = "M" -> (s.n + 1023) \div 1024
               [] s.unit = "G" -> s.n
               [] s.unit = "T" -> s.n * 1024

\* Mutant: a disk of the template's size is refused.
ValidateDiskSizeStrict(requested, gb) == requested = 0 \/ requested > gb

ValidateDiskSize(requested, gb) == requested = 0 \/ requested >= gb

\* What the VM is that the reference stands for.
Kind(x, v) == IF v = "own" THEN x.kind ELSE x.namesake

\* EnsureTemplate, CloudInitDrive, NICMAC, BootDisk, ValidateDiskSize, in the
\* order in which they are asked.
TemplateError(x, opts, v) ==
  IF Kind(x, v) # "template" THEN "nottemplate"
  ELSE IF ~x.agent THEN "agent"
  ELSE IF ~x.cloudinit THEN "cloudinit"
  ELSE IF ~x.nic THEN "net0"
  ELSE IF BootDisks(x) = {} THEN "nodisk"
  ELSE IF BootSize(x).unit = "unparsable" THEN "nosize"
  ELSE IF ~ValidateDiskSize(opts.disk, SizeGB(BootSize(x))) THEN "disk"
  ELSE "nil"

\* Mutant: whether the template's storage is shared does not matter.
ValidateCloneModeAnyNode(opts, node, shared) == ~(opts.linked /\ opts.storage # "none")

ValidateCloneMode(opts, node, shared) ==
  /\ ~(opts.linked /\ opts.storage # "none")
  /\ opts.node \notin {NoNode, node} => shared

\* Mutant: every storage with volumes of its own is in the table.
LinkedTypesAll == {"lvmthin", "zfspool", "rbd", "btrfs", "lvm"}

\* linkedCloneStorageTypes.
LinkedTypes == {"lvmthin", "zfspool", "rbd", "btrfs"}

LinkedCloneOK(qcow2, stype) == stype \in LinkedTypes \/ qcow2

\* Mutant: always the template's node.
TargetNodeOfTemplate(opts, node) == node

TargetNode(opts, node) == IF opts.node = NoNode THEN node ELSE opts.node

-----------------------------------------------------------------------------
(* PVE's answers.  A grant holds for its path and what lies below, and a    *)
(* list shows a token only what it has privileges for (external).          *)

Covers(p, q) == \A i \in DOMAIN p : i \in DOMAIN q /\ p[i] = q[i]

Allowed(x, path, priv) == \E g \in x.perms : g[2] = priv /\ Covers(g[1], path)

\* The VMs that the reference matches: every one of the name counts, templates
\* or not, containers do not.
Matches(x, opts) ==
  {v \in VMs : /\ Kind(x, v) \in {"template", "vm"}
               /\ v = "own" \/ opts.ref = "name"
               /\ Allowed(x, <<"vms", v>>, "VM")}

\* ResolveTemplate, up to the GetVM of its match.
ResolveError(x, opts) ==
  IF Matches(x, opts) = {} THEN "notfound"
  ELSE IF Matches(x, opts) = VMs THEN "ambiguous"
  ELSE IF \E v \in Matches(x, opts) : Kind(x, v) # "template" THEN "nottemplate"
  ELSE "nil"

\* NodeStorages: the target node's list has the template's storage, or "data".
HasTemplateStorage(x, t) == t \in x.listed /\ Allowed(x, <<"storage", "template">>, "Datastore")
HasData(x, t) == t \in x.data /\ Allowed(x, <<"storage", "data">>, "Datastore")

\* NodeBridges keeps the Linux bridges.
HasBridge(x, t) ==
  t \in x.bridge /\ x.btype = "bridge" /\ Allowed(x, <<"sdn", "vmbr1">>, "SDN")

\* The storage rules, on what the target node lists at this moment.
StorageError(x, opts, p) ==
  LET t == TargetNode(opts, p.node)
      templateStorage == HasTemplateStorage(x, t)
  IN  IF opts.storage # "none" /\ ~HasData(x, t) THEN "storage"
      ELSE IF opts.storage # "none" /\ ~x.images THEN "images"
      ELSE IF ~ValidateCloneMode(opts, p.node, templateStorage /\ x.shared) THEN "clonemode"
      ELSE IF opts.linked /\ templateStorage /\ ~LinkedCloneOK(p.qcow2, x.stype) THEN "linked"
      ELSE "nil"

-----------------------------------------------------------------------------
(* The steps.                                                              *)

Goto(step) == pc' = step /\ UNCHANGED <<err, place>>

Refuse(e) == pc' = "refused" /\ err' = e /\ UNCHANGED place

\* The request fails; otherwise e decides.
Reads(e, step) ==
  \/ Refuse("api")
  \/ e # "nil" /\ Refuse(e)
  \/ e = "nil" /\ Goto(step)

Flags ==
  /\ pc = "flags"
  /\ LET opts == Defaulted(o)
     IN  /\ o' = opts
         /\ IF FlagsOK(opts) THEN Goto("version") ELSE Refuse("flags")
  /\ UNCHANGED <<w, phase, out, changes, calm, skipped>>

\* PreCreateCheck begins: the client, ValidateMachineName, PVEMajorVersion.
Version ==
  /\ pc = "version"
  /\ Reads(IF o.dns THEN "nil" ELSE "name", "permissions")
  /\ calm' = TRUE
  /\ UNCHANGED <<w, o, phase, out, changes, skipped>>

\* Mutant: the token's privileges are not looked at.
PermissionsIgnored ==
  /\ pc = "permissions"
  /\ Goto("list") /\ UNCHANGED skipped
  /\ UNCHANGED <<w, o, phase, out, changes, calm>>

\* TokenPermissions, RequiredChecks, Missing: an error skips the check.
Permissions ==
  /\ pc = "permissions"
  /\ \/ Goto("list") /\ skipped' = TRUE
     \/ /\ IF Missing(w.perms, RequiredChecks(o, w.major)) # {}
           THEN Refuse("privileges")
           ELSE Goto("list")
        /\ UNCHANGED skipped
  /\ UNCHANGED <<w, o, phase, out, changes, calm>>

\* resolvePlacement begins: ResolveTemplate's list.
List ==
  /\ pc = "list"
  /\ \/ Refuse("api")
     \/ ResolveError(w, o) # "nil" /\ Refuse(ResolveError(w, o))
     \/ /\ ResolveError(w, o) = "nil"
        /\ pc' = "template"
        /\ \E v \in Matches(w, o) : place' = [NoPlace EXCEPT !.vm = v, !.node = w.node]
        /\ UNCHANGED err
  /\ UNCHANGED <<w, o, phase, out, changes, calm, skipped>>

\* What resolvePlacement keeps of the template.
PlaceOf(x, v) == [vm |-> v, node |-> x.node, key |-> BootKey(x),
                  gb |-> SizeGB(BootSize(x)), qcow2 |-> x.qcow2]

\* GetVM of the match, on the node of its row.
Template ==
  /\ pc = "template"
  /\ \/ Refuse("api")
     \/ /\ place.vm \in Matches(w, o) /\ w.node = place.node
        /\ LET e == TemplateError(w, o, place.vm)
           IN  IF e # "nil" THEN Refuse(e)
               ELSE /\ pc' = "storages"
                    /\ place' = PlaceOf(w, place.vm)
                    /\ UNCHANGED err
  /\ UNCHANGED <<w, o, phase, out, changes, calm, skipped>>

Placed == IF phase = "check" THEN "checked" ELSE "clone"

\* NodeStorages of the target node.
Storages ==
  /\ pc = "storages"
  /\ Reads(StorageError(w, o, place), IF o.bridge = "none" THEN Placed ELSE "bridges")
  /\ UNCHANGED <<w, o, phase, out, changes, calm, skipped>>

\* NodeBridges of the target node.
Bridges ==
  /\ pc = "bridges"
  /\ Reads(IF HasBridge(w, TargetNode(o, place.node)) THEN "nil" ELSE "bridge", Placed)
  /\ UNCHANGED <<w, o, phase, out, changes, calm, skipped>>

\* PreCreateCheck has succeeded; Rancher saves the machine and calls Create,
\* which throws the first placement away.
StartCreate ==
  /\ pc = "checked"
  /\ phase' = "create"
  /\ pc' = "list"
  /\ place' = NoPlace
  /\ UNCHANGED <<w, o, err, out, changes, calm, skipped>>

\* The storages on which PVE can base a linked clone (external): the table's,
\* ZFS over iSCSI, and files of any format.
BaseImageTypes == {"lvmthin", "zfspool", "rbd", "btrfs", "zfs", "dir"}

\* The privileges the clone needs, on the objects it touches (external).
Needs(opts, v) ==
  {<<<<"vms", v>>, "VM">>, <<<<"vms", "new">>, "VM">>, <<<<"sdn", "vmbr0">>, "SDN">>,
   <<<<"storage", IF opts.storage = "none" THEN "template" ELSE "data">>, "Datastore">>}
    \cup (IF opts.bridge # "none" THEN {<<<<"sdn", "vmbr1">>, "SDN">>} ELSE {})
    \cup (IF opts.pool THEN {<<<<"pool", "pool">>, "Pool">>} ELSE {})

\* The storages PVE needs (external).  A full clone to another storage is
\* written by the template's node, so that both nodes must have it.
StoragesServe(x, opts, t) ==
  /\ x.node \in x.listed
  /\ t # x.node => x.shared
  /\ opts.storage = "none" => t \in x.listed
  /\ opts.storage # "none" =>
       /\ {x.node, t} \subseteq x.data /\ x.images /\ x.active
       /\ t # x.node => x.dshared

\* What PVE needs for the clone of v and its new net0, from the state it is in
\* (external), a VMID to give to it included.
Clonable(x, opts, v) ==
  LET t == TargetNode(opts, x.node)
  IN  /\ Kind(x, v) = "template"
      /\ x.free
      /\ opts.pool => x.pool
      /\ StoragesServe(x, opts, t)
      /\ opts.linked => x.stype \in BaseImageTypes
      /\ opts.bridge # "none" => t \in x.bridge
      /\ \A c \in Needs(opts, v) : Allowed(x, c[1], c[2])

SizeMB(s) == CASE s.unit = "M" -> s.n
               [] s.unit = "G" -> s.n * 1024
               [] s.unit = "T" -> s.n * 1048576
               [] OTHER        -> 0

\* Mutant: the disk is never resized.
GrowsNot == FALSE

\* provision resizes the boot disk if the request is larger, in gigabytes.
Grows == o.disk > place.gb

\* The disk that resolvePlacement picked, in the clone.
ClonedMB == SizeMB(w.disks[place.key])

\* PVE resizes a disk that exists, and never shrinks it (external).
Resizable == w.disks[place.key].unit # "nodisk" /\ o.disk * 1024 >= ClonedMB

\* PVE takes the clone, and the resize that follows it.
Takes == Clonable(w, o, place.vm) /\ w.node = place.node /\ (Grows => Resizable)

\* A VMID of the range is picked; the clone request goes to the template's node
\* with --pvenode-node as its target; provision rewrites net0 if there is a
\* bridge, and resizes.
Clone ==
  /\ pc = "clone"
  /\ \/ Refuse("api") /\ UNCHANGED out
     \/ ~Takes /\ Refuse(IF w.free THEN "pve" ELSE "vmid") /\ UNCHANGED out
     \/ /\ Takes
        /\ pc' = "created"
        /\ out' = [node |-> IF o.node = NoNode THEN w.node ELSE o.node,
                   recorded |-> TargetNode(o, place.node),
                   vlan |-> IF o.bridge = "none" THEN 0 ELSE o.vlan,
                   bridge |-> o.bridge,
                   mb |-> IF Grows THEN o.disk * 1024 ELSE ClonedMB]
        /\ UNCHANGED <<err, place>>
  /\ UNCHANGED <<w, o, phase, changes, calm, skipped>>

\* The clusters that differ from a cluster in one thing.
Neighbours ==
  [x \in Worlds |-> {y \in Worlds : Cardinality({f \in DOMAIN x : x[f] # y[f]}) = 1}]

\* Somebody changes one thing about the cluster.
Change ==
  /\ changes > 0 /\ changes' = changes - 1
  /\ pc \notin {"flags", "refused", "created"}
  /\ w' \in Neighbours[w]
  /\ calm' = FALSE
  /\ UNCHANGED <<o, phase, pc, place, err, out, skipped>>

-----------------------------------------------------------------------------
Init ==
  /\ w \in Worlds /\ o \in Inputs
  /\ phase = "check" /\ pc = "flags"
  /\ place = NoPlace /\ err = "nil" /\ out = NoOut
  /\ changes = MaxChanges
  /\ calm = TRUE /\ skipped = FALSE

Driver == Flags \/ Version \/ Permissions \/ List \/ Template \/ Storages
          \/ Bridges \/ StartCreate \/ Clone

Next == Driver \/ Change \/ (pc \in {"refused", "created"} /\ UNCHANGED vars)

Spec == Init /\ [][Next]_vars

-----------------------------------------------------------------------------
(* Properties.                                                             *)

\* Types; past the flags the VMID range is one that PVE can serve.
TypeOK ==
  /\ w \in World /\ o \in Options
  /\ phase \in {"check", "create"}
  /\ pc \in {"flags", "version", "permissions", "list", "template", "storages",
             "bridges", "checked", "clone", "refused", "created"}
  /\ place \in Place \cup Found \cup {NoPlace}
  /\ out \in VMOut \cup {NoOut}
  /\ changes \in 0..MaxChanges /\ calm \in BOOLEAN /\ skipped \in BOOLEAN
  /\ pc # "flags" /\ err # "flags" => ValidRange(o.range)

\* A privilege is granted, though perhaps not where it is needed.
Granted(x, priv) == \E g \in x.perms : g[2] = priv

\* A grant on another path than the one that matters.
Stray(x, path, priv) == Granted(x, priv) /\ ~Allowed(x, path, priv)

\* What PVE needs and no check looks at: a free VMID; that the pool exists; that
\* the template's storage is there at all, that "data" is active and, for a
\* clone to another node, shared and on the template's node too.
Unchecked(x, opts) ==
  LET t == TargetNode(opts, x.node)
  IN  \/ ~x.free
      \/ opts.pool /\ ~x.pool
      \/ x.node \notin x.listed
      \/ opts.storage # "none" /\ ~x.active
      \/ opts.storage # "none" /\ t # x.node /\ (~x.dshared \/ x.node \notin x.data)

\* The privileges that no list gives away: on the new VM, on the template's
\* storage, on its bridge and on the pool.  Those that RequiredChecks names are
\* missing only if they are granted elsewhere or could not be looked up.
Unnoticed(x, opts, unread) ==
  \/ ~Allowed(x, <<"sdn", "vmbr0">>, "SDN") /\ opts.bridge = "none"
  \/ \E c \in {<<<<"vms", "new">>, "VM">>, <<<<"storage", "template">>, "Datastore">>,
               <<<<"sdn", "vmbr0">>, "SDN">>, <<<<"pool", "pool">>, "Pool">>} :
       /\ c[2] = "Datastore" => opts.storage = "none"
       /\ c[2] = "Pool" => opts.pool
       /\ ~Allowed(x, c[1], c[2])
       /\ unread \/ Granted(x, c[2])

\* What PreCreateCheck lets through can be created: as long as nothing changes,
\* Create resolves the same placement and PVE takes the clone, unless a request
\* fails or PVE minds one of the things that nothing checks.  Whether there is
\* the template, the requested storage and the bridge, whether they are open to
\* the token, the clone mode, the linked clone and the disk's size have then
\* been settled ("misconfiguration surfaces as one actionable error ... instead
\* of a half-created VM", precreate.go).
CheckedCanBeCreated ==
  pc = "refused" /\ phase = "create" /\ calm /\ err # "api"
    => Unchecked(w, o) \/ Unnoticed(w, o, skipped)

\* A clone from x would give a node the driver can manage: provision enables the
\* agent and may replace net0, but adds no cloud-init drive.
Manageable(x, opts) ==
  /\ Allowed(x, <<"vms", "new">>, AgentPriv(x.major))
  /\ x.cloudinit
  /\ x.nic \/ opts.bridge # "none"
  /\ BootDisks(x) # {}
  /\ opts.disk = 0 \/ opts.disk * 1024 >= SizeMB(BootSize(x))

\* What the checks refuse although PVE would do it: a template whose agent is
\* off, or without a usable net0 that the bridge would replace; a boot disk
\* whose size cannot be read; a bridge that is no Linux bridge; a linked clone
\* of a disk that the table does not list; a storage with a linked clone; a
\* clone to another node's "data" when that node does not list the template's
\* storage.
Overcautious(x, opts) ==
  LET t == TargetNode(opts, x.node)
  IN  \/ ~x.agent
      \/ ~x.nic
      \/ BootDisks(x) # {} /\ BootSize(x).unit = "unparsable"
      \/ opts.bridge # "none" /\ x.btype # "bridge"
      \/ opts.linked /\ (opts.storage # "none" \/ (x.stype \notin LinkedTypes /\ ~x.qcow2))
      \/ t # x.node /\ opts.storage # "none" /\ ~HasTemplateStorage(x, t)

\* Nothing is refused without a reason: with well-formed options, a quiet
\* cluster and an unambiguous reference, whatever PVE could clone into a
\* manageable VM passes, for every clone mode, size unit and boot order; the
\* exceptions are the listed ones.
RefusalIsJustified ==
  pc = "refused" /\ calm /\ err \notin {"api", "flags", "name"} =>
    \A v \in VMs : Matches(w, o) = {v} =>
      ~Clonable(w, o, v) \/ ~Manageable(w, o) \/ Overcautious(w, o)

\* Hidden(x, opts, e): refusal e speaks of a thing that is there, on a path that
\* is hidden from the token.
Hidden(x, opts, e) ==
  LET t == TargetNode(opts, x.node)
  IN  /\ e = "notfound" /\ x.kind # "gone" => Stray(x, <<"vms", "own">>, "VM")
      /\ e = "storage" /\ t \in x.data => Stray(x, <<"storage", "data">>, "Datastore")
      /\ e = "bridge" /\ t \in x.bridge /\ x.btype = "bridge"
           => Stray(x, <<"sdn", "vmbr1">>, "SDN")
      /\ /\ e = "clonemode" /\ ~(opts.linked /\ opts.storage # "none")
         /\ t \in x.listed /\ x.shared
         => Stray(x, <<"storage", "template">>, "Datastore")

\* A token without privileges is told so: if PreCreateCheck could read the
\* token's permissions and calls a template, storage or bridge missing, or the
\* template's storage not shared, it is so, or the token has the privilege on
\* another path ("privsep tokens without ACLs fail SILENTLY ... so every later
\* error would lie", precreate.go; the scan "is deliberately lenient",
\* privileges.go).
HiddenIsNotMissing ==
  pc = "refused" /\ phase = "check" /\ calm /\ ~skipped => Hidden(w, o, err)

\* The VM is what the options say.  Whatever changed on the way, the template's
\* node included, it is on the node that Create records, which is the node
\* asked for, with the VLAN tag and the bridge asked for (the tag "would
\* be silently dropped and nodes would land on the wrong (untagged) network",
\* flags.go); on a quiet cluster its boot disk is not smaller than asked for
\* if the template's is a whole number of gigabytes.
VMIsAsAsked ==
  pc = "created" =>
    /\ out.recorded = out.node /\ o.node \in {NoNode, out.node}
    /\ out.vlan = o.vlan /\ out.bridge = o.bridge
    /\ calm /\ BootSize(w).unit # "M" => out.mb >= o.disk * 1024

-----------------------------------------------------------------------------
\* README: disk-size is the "Boot disk size in GB (grow-only; `0` = keep
\* template size)", so the VM's boot disk has at least that size (provision).
DiskIsAtLeastAsked == pc = "created" /\ calm => out.mb >= o.disk * 1024

=============================================================================
