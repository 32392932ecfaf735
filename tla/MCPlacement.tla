----------------------------- MODULE MCPlacement -----------------------------
(* Clusters and options for Placement: one where everything is as it should *)
(* be, and all that differ from it a little.                                *)
EXTENDS Placement

CONSTANTS n1, n2

NoDisk == [n |-> 0, unit |-> "nodisk"]
Of(n, unit) == [n |-> n, unit |-> unit]

Disks(scsi0, virtio0) ==
  [k \in Keys |-> CASE k = "scsi0" -> scsi0 [] k = "virtio0" -> virtio0 [] OTHER -> NoDisk]

\* What each privilege is usually granted on.
Grants == {<<<<>>, "VM">>, <<<<>>, "Monitor">>, <<<<"vms">>, "GuestAgent">>,
           <<<<"storage">>, "Datastore">>, <<<<"sdn">>, "SDN">>, <<<<"pool">>, "Pool">>}

\* One privilege is granted on these paths only.
GrantedOn(priv, paths) == {g \in Grants : g[2] # priv} \cup (paths \X {priv})

Misgrants ==
  {{}} \cup {GrantedOn(p, {}) : p \in Privs}
    \cup {GrantedOn("VM", ps) : ps \in {{<<"vms", "own">>}, {<<"vms", "new">>},
                                       {<<"vms", "namesake">>, <<"vms", "new">>}}}
    \cup {GrantedOn("Datastore", {<<"storage", s>>}) : s \in {"template", "data"}}
    \cup {GrantedOn("SDN", {<<"sdn", b>>}) : b \in {"vmbr0", "vmbr1"}}
    \cup {GrantedOn("GuestAgent", {<<"vms", "own">>}), GrantedOn("Pool", {<<"sdn">>})}

GoodWorld ==
  [kind |-> "template", agent |-> TRUE, cloudinit |-> TRUE, nic |-> TRUE,
   order |-> <<"scsi0">>, disks |-> Disks(Of(2, "G"), NoDisk),
   qcow2 |-> FALSE, node |-> n1, namesake |-> "none",
   listed |-> {n1, n2}, shared |-> TRUE, stype |-> "rbd",
   data |-> {n1, n2}, images |-> TRUE, dshared |-> TRUE, active |-> TRUE,
   bridge |-> {n1, n2}, btype |-> "bridge", pool |-> TRUE, free |-> TRUE,
   perms |-> Grants, major |-> 9]

Alter(r, f, vals) == {[r EXCEPT ![f] = v] : v \in vals}

WorldsNear(x) ==
  Alter(x, "kind", {"vm", "gone"}) \cup Alter(x, "agent", {FALSE})
    \cup Alter(x, "cloudinit", {FALSE}) \cup Alter(x, "nic", {FALSE})
    \cup Alter(x, "order", {<<>>, <<"ide2", "scsi0">>, <<"virtio0", "scsi0">>})
    \cup Alter(x, "disks", {Disks(s, NoDisk) : s \in {Of(1536, "M"), Of(2048, "M"), Of(1, "T"),
                                                      Of(0, "unparsable"), NoDisk}}
                           \cup {Disks(Of(2, "G"), Of(3, "G")),
                               [Disks(NoDisk, NoDisk) EXCEPT !["sata0"] = Of(1, "G")]})
    \cup Alter(x, "node", {n2}) \cup Alter(x, "namesake", {"vm", "template", "lxc"})
    \cup Alter(x, "listed", {{n1}, {n2}, {}}) \cup Alter(x, "shared", {FALSE})
    \cup Alter(x, "data", {{n1}, {n2}, {}}) \cup Alter(x, "images", {FALSE})
    \cup Alter(x, "dshared", {FALSE}) \cup Alter(x, "active", {FALSE})
    \cup Alter(x, "bridge", {{n2}}) \cup Alter(x, "btype", {"OVSBridge", "vnet"})
    \cup Alter(x, "pool", {FALSE}) \cup Alter(x, "free", {FALSE})
    \cup Alter(x, "perms", Misgrants) \cup Alter(x, "major", {17 - x.major})

\* The template is a qcow2 file in a directory of n1, which only n1 has.
LocalWorld ==
  [GoodWorld EXCEPT !.listed = {n1}, !.shared = FALSE, !.stype = "dir", !.qcow2 = TRUE,
                    !.data = {n1}, !.dshared = FALSE, !.major = 8]

\* The template is gone and another one has its name.
ReplacedWorld == [GoodWorld EXCEPT !.kind = "gone", !.namesake = "template"]

NearWorlds ==
  {GoodWorld, LocalWorld, ReplacedWorld} \cup WorldsNear(GoodWorld) \cup WorldsNear(LocalWorld)
    \cup Alter(GoodWorld, "stype", {"lvmthin", "zfs", "lvm", "dir"})
    \cup Alter(LocalWorld, "qcow2", {FALSE})
    \cup Alter(ReplacedWorld, "perms", Misgrants)

GoodOptions ==
  [dns |-> TRUE, set |-> TRUE, ref |-> "name", node |-> NoNode, storage |-> "none",
   linked |-> FALSE, bridge |-> "none", vlan |-> 0, disk |-> 0, pool |-> FALSE,
   range |-> [form |-> "pair", lo |-> 100, hi |-> 101]]

OptionsNear(x) ==
  Alter(x, "dns", {FALSE}) \cup Alter(x, "set", {FALSE})
    \cup Alter(x, "ref", {"vmid"}) \cup Alter(x, "node", {n1, n2})
    \cup Alter(x, "storage", {"data"}) \cup Alter(x, "linked", {TRUE})
    \cup Alter(x, "bridge", {"vmbr1"}) \cup Alter(x, "vlan", {-1, 1, 4094, 4095})
    \cup Alter(x, "disk", {-1, 1, 2, 3}) \cup Alter(x, "pool", {TRUE})
    \cup Alter(x, "range", {[form |-> f, lo |-> 0, hi |-> 0] : f \in {"empty", "bad"}}
         \cup {[form |-> "pair", lo |-> r[1], hi |-> r[2]] :
                 r \in {<<99, 200>>, <<100, 100>>, <<100, 999999999>>, <<100, 1000000000>>}})

NearOptions ==
  LET one == {GoodOptions} \cup OptionsNear(GoodOptions)
  IN  one \cup UNION {OptionsNear(x) : x \in one}
=============================================================================
