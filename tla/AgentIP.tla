------------------------------- MODULE AgentIP -------------------------------
(***************************************************************************)
(* How provision learns the new VM's address (pkg/driver/create.go,        *)
(* pkg/pve/agentip.go): net0 may be rewritten and gets a new MAC, the VM   *)
(* boots, its handle is refreshed, and WaitForIP polls the guest agent for *)
(* a global IPv4 on the interface with net0's MAC, until the SSH port      *)
(* answers or the timeout expires.  Meanwhile the guest boots at its own   *)
(* pace: agent, DHCP, sshd, container bridges come up in any order, leases *)
(* change, and somebody may delete the VM.                                 *)
(***************************************************************************)
EXTENDS Naturals, Sequences, FiniteSetsExt

CONSTANTS
  CloneMAC,     \* the MAC net0 has after the clone
  FreshMAC,     \* the MAC PVE makes up when net0 is rewritten
  OtherMAC,     \* the MAC of a container bridge in the guest
  Leases,       \* the addresses DHCP may hand out
  BridgeIP,     \* the container bridge's address
  NoIP,         \* the zero value of Driver.IPAddress
  MaxPolls      \* how many polls fit into --pvenode-agent-timeout

ASSUME MACAssumption ==
  CloneMAC # FreshMAC /\ CloneMAC # OtherMAC /\ FreshMAC # OtherMAC
ASSUME IPAssumption == NoIP \notin Leases /\ BridgeIP \notin Leases /\ NoIP # BridgeIP
ASSUME PollAssumption == MaxPolls \in Nat

VARIABLES
  net0,   \* net0's MAC in the VM's config
  seen,   \* net0's MAC in the handle's copy of the config
  step,   \* where provision is
  left,   \* polls left before the deadline
  cand,   \* the address being probed
  heard,  \* whether the last query was answered
  ip,     \* Driver.IPAddress
  guest,  \* the guest, see Guest
  reported \* ghost: net0's address when the agent last answered

vars == <<net0, seen, step, left, cand, heard, ip, guest, reported>>

MACs == {CloneMAC, FreshMAC}
IPs == Leases \cup {BridgeIP}

\* alive: the VM exists.  agent: the guest agent answers.  lease: net0's
\* address.  enslaved: net0's NIC belongs to a bridge that has its MAC and
\* its addresses.  docker: there is a container bridge.  local: net0 has a
\* link-local IPv4, too.
Guest == [alive: BOOLEAN, agent: BOOLEAN, sshd: BOOLEAN, docker: BOOLEAN,
          local: BOOLEAN, enslaved: BOOLEAN, lease: Leases \cup {NoIP}]

Final == {"done", "timedout", "failed"}
Steps == {"config", "start", "ping", "query", "probe", "sleep"} \cup Final

\* Types, and the deadline: a wait never polls more often than it may.
TypeOK ==
  /\ net0 \in MACs /\ seen \in MACs
  /\ step \in Steps
  /\ left \in 0..MaxPolls
  /\ cand \in IPs \cup {NoIP} /\ ip \in IPs \cup {NoIP}
  /\ heard \in BOOLEAN
  /\ guest \in Guest /\ reported \in Leases \cup {NoIP}

-----------------------------------------------------------------------------
(* What the agent reports.  A hardware address comes in some letter case;  *)
(* an address has a type and a scope.                                      *)

HW(mac, case) == [mac |-> mac, case |-> case]
V6 == [type |-> "ipv6", scope |-> "global", ip |-> NoIP]
LinkLocal == [type |-> "ipv4", scope |-> "local", ip |-> NoIP]
V4(a) == [type |-> "ipv4", scope |-> "global", ip |-> a]

Loopback == [hw |-> HW("zero", "lower"), addrs |-> <<LinkLocal>>]
Docker0 == [hw |-> HW(OtherMAC, "lower"), addrs |-> <<V4(BridgeIP)>>]
Net0Addrs ==
  <<V6>> \o (IF guest.local THEN <<LinkLocal>> ELSE <<>>)
         \o (IF guest.lease # NoIP THEN <<V4(guest.lease)>> ELSE <<>>)
Net0Ifaces ==
  LET i(a) == [hw |-> HW(net0, "lower"), addrs |-> a]
  IN  IF guest.enslaved THEN {i(<<>>), i(Net0Addrs)} ELSE {i(Net0Addrs)}

\* The interfaces, in any order.
Reports ==
  LET all == {Loopback} \cup Net0Ifaces
               \cup (IF guest.docker THEN {Docker0} ELSE {})
      n == Cardinality(all)
  IN  {s \in [1..n -> all] : \A f \in all : \E k \in 1..n : s[k] = f}

\* NICMAC: the MAC in the handle's config, in upper case.
NICMAC == HW(seen, "upper")

EqualFold(a, b) == a.mac = b.mac

\* pickIPv4 takes type ipv4 and drops loopback, link-local and unspecified.
Usable(a) == a.type = "ipv4" /\ a.scope = "global"

\* The first usable address of an interface, or NoIP.
FirstUsable(addrs) ==
  LET good == {k \in DOMAIN addrs : Usable(addrs[k])}
  IN  IF good = {} THEN NoIP ELSE addrs[Min(good)].ip

\* The first usable address of the interfaces at these positions, or NoIP.
FirstOf(ifaces, ks) == IF ks = {} THEN NoIP ELSE FirstUsable(ifaces[Min(ks)].addrs)

\* Mutant: the first usable address of any interface.
PickIPv4AnyMAC(ifaces, mac) ==
  FirstOf(ifaces, {k \in DOMAIN ifaces : FirstUsable(ifaces[k].addrs) # NoIP})

\* pickIPv4: the first usable address on an interface with the given MAC.
PickIPv4(ifaces, mac) ==
  FirstOf(ifaces, {k \in DOMAIN ifaces : /\ EqualFold(ifaces[k].hw, mac)
                                         /\ FirstUsable(ifaces[k].addrs) # NoIP})

\* The SSH port may answer at a.  While a is this guest's it is the guest that
\* answers; an address it has given up, or never had, may be any host's, and a
\* container bridge's is the driver's own host's.
MayAnswer(a) == guest.alive /\ a = guest.lease => guest.sshd

-----------------------------------------------------------------------------
(* The driver.                                                             *)

Fail ==
  step' = "failed" /\ UNCHANGED <<net0, seen, left, cand, heard, ip, guest, reported>>

\* ApplyConfig: with --pvenode-bridge, net0 is rewritten without a MAC and
\* PVE makes one up; the handle keeps its old copy of the config.
ApplyConfig ==
  /\ step = "config"
  /\ \/ Fail
     \/ /\ guest.alive
        /\ net0' \in {net0, FreshMAC}
        /\ step' = "start"
        /\ UNCHANGED <<seen, left, cand, heard, ip, guest, reported>>

StartVM ==
  /\ step = "start"
  /\ \/ Fail
     \/ /\ guest.alive
        /\ step' = "ping"
        /\ UNCHANGED <<net0, seen, left, cand, heard, ip, guest, reported>>

\* Mutant: the handle is not refreshed.
PingOmitted ==
  /\ step = "ping"
  /\ step' = "query"
  /\ left' = MaxPolls
  /\ UNCHANGED <<net0, seen, cand, heard, ip, guest, reported>>

\* vm.Ping, then WaitForIP reads the MAC and sets its deadline.
Ping ==
  /\ step = "ping"
  /\ \/ Fail
     \/ /\ guest.alive
        /\ seen' = net0
        /\ step' = "query"
        /\ left' = MaxPolls
        /\ UNCHANGED <<net0, cand, heard, ip, guest, reported>>

\* The deadline, looked at before every poll.
TimeOut ==
  /\ step = "query" /\ left = 0
  /\ step' = "timedout"
  /\ UNCHANGED <<net0, seen, left, cand, heard, ip, guest, reported>>

\* One agent query.  It may fail at any time, and does while the agent does
\* not answer; only a lack of privileges ends the wait, every other error is
\* waited out.
Ask ==
  \/ Fail
  \/ /\ step' = "sleep" /\ heard' = FALSE
     /\ UNCHANGED <<net0, seen, left, cand, ip, guest, reported>>
  \/ /\ guest.alive /\ guest.agent
     /\ heard' = TRUE /\ reported' = guest.lease
     /\ \E ifaces \in Reports :
          LET a == PickIPv4(ifaces, NICMAC)
          IN  cand' = a /\ step' = IF a = NoIP THEN "sleep" ELSE "probe"
     /\ UNCHANGED <<net0, seen, left, ip, guest>>

\* Mutant: the deadline does not end the loop.
QueryPastDeadline == step = "query" /\ Ask

Query == step = "query" /\ left > 0 /\ Ask

\* The TCP probe of the address the query returned.  The dial may fail at any
\* time; if it succeeds, the address is taken, whoever has answered.
Probe ==
  /\ step = "probe"
  /\ \/ step' = "sleep" /\ ip' = ip
     \/ MayAnswer(cand) /\ step' = "done" /\ ip' = cand
  /\ UNCHANGED <<net0, seen, left, cand, heard, guest, reported>>

\* Mutant: the deadline is moved by every poll.
SleepForever ==
  /\ step = "sleep"
  /\ step' = "query"
  /\ cand' = NoIP
  /\ UNCHANGED <<net0, seen, left, heard, ip, guest, reported>>

Sleep ==
  /\ step = "sleep"
  /\ step' = "query"
  /\ left' = left - 1
  /\ cand' = NoIP
  /\ UNCHANGED <<net0, seen, heard, ip, guest, reported>>

Driver == ApplyConfig \/ StartVM \/ Ping \/ TimeOut \/ Query \/ Probe \/ Sleep

-----------------------------------------------------------------------------
(* The guest, from its start on, and whoever deletes the VM.               *)

Booted == step \in {"ping", "query", "probe", "sleep", "done"}

GuestChanges ==
  /\ Booted /\ guest.alive
  /\ \/ \E b \in BOOLEAN : guest' = [guest EXCEPT !.agent = b]
     \/ \E a \in Leases \cup {NoIP} : guest' = [guest EXCEPT !.lease = a]
     \/ guest' = [guest EXCEPT !.sshd = TRUE]
     \/ guest' = [guest EXCEPT !.docker = TRUE]
     \/ guest' = [guest EXCEPT !.local = TRUE]
     \/ guest' = [guest EXCEPT !.enslaved = TRUE]
  /\ UNCHANGED <<net0, seen, step, left, cand, heard, ip, reported>>

Deleted ==
  /\ guest.alive
  /\ guest' = [guest EXCEPT !.alive = FALSE]
  /\ UNCHANGED <<net0, seen, step, left, cand, heard, ip, reported>>

-----------------------------------------------------------------------------
Init ==
  /\ net0 = CloneMAC /\ seen = CloneMAC
  /\ step = "config"
  /\ left = MaxPolls
  /\ cand = NoIP /\ heard = FALSE /\ ip = NoIP /\ reported = NoIP
  /\ guest = [alive |-> TRUE, agent |-> FALSE, sshd |-> FALSE,
              docker |-> FALSE, local |-> FALSE, enslaved |-> FALSE,
              lease |-> NoIP]

Next == Driver \/ GuestChanges \/ Deleted \/ (step \in Final /\ UNCHANGED vars)

Spec == Init /\ [][Next]_vars

\* The driver's process runs on; the guest need not do anything.
FairSpec == Spec /\ WF_vars(Driver)

-----------------------------------------------------------------------------
(* Properties.                                                             *)

\* The address handed to Rancher is the one that net0 had when the agent
\* answered the poll that ended the wait: never a container bridge's, although
\* its port answers, a link-local one, or one of an earlier poll, whatever MAC
\* net0 had before the rewrite.  That net0 still has it is not claimed: it may
\* have been given up, and given to another host, before the probe (agentip.go,
\* WaitForIP).
IPIsNet0Lease == step = "done" => heard /\ ip = reported /\ ip # NoIP

\* An address of net0 that the agent reports is never overlooked, whatever
\* was rewritten before and whatever else the guest has: an answered poll that
\* goes on waiting without a probe met no lease (create.go's Ping, pickIPv4).
LeaseNeverOverlooked ==
  [][step = "query" /\ step' = "sleep" /\ heard' => guest.lease = NoIP]_vars

\* The wait ends, even if the VM is gone or its guest never answers
\* (agentip.go, the deadline).
WaitEnds == step = "query" ~> step \in Final

=============================================================================
