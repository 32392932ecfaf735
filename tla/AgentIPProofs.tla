---------------------------- MODULE AgentIPProofs ----------------------------
(***************************************************************************)
(* Proofs about AgentIP: whatever order the guest's interfaces come up and *)
(* are reported in, and however many polls the timeout allows, WaitForIP   *)
(* takes net0's address and nothing else.                                  *)
(***************************************************************************)
EXTENDS AgentIP, FirstIndex, FiniteSetTheorems, TLAPS

\* The handle has net0's MAC from the refresh on; an address that is probed is
\* the one that net0 had at the answer; a poll that has begun was within the
\* deadline.
WaitInv ==
  /\ TypeOK
  /\ IPIsNet0Lease
  /\ step = "probe" => heard /\ cand = reported /\ cand # NoIP
  /\ step \in {"query", "probe", "sleep"} => seen = net0
  /\ step \in {"probe", "sleep"} => left > 0

-----------------------------------------------------------------------------
(* What the agent reports, and what pickIPv4 makes of it.                  *)

\* The types of the guest's fields.
LEMMA GuestFields ==
  ASSUME guest \in Guest
  PROVE  guest.lease \in Leases \cup {NoIP} /\ guest.local \in BOOLEAN
BY DEF Guest

\* Net0's addresses: an IPv6 one, maybe a link-local one, and the lease.
LEMMA Net0AddrsAre ==
  ASSUME guest \in Guest
  PROVE  /\ Net0Addrs \in Seq({V6, LinkLocal, V4(guest.lease)})
         /\ \A k \in DOMAIN Net0Addrs :
              Net0Addrs[k] = V4(guest.lease) \/ ~Usable(Net0Addrs[k])
         /\ guest.lease # NoIP => \E k \in DOMAIN Net0Addrs : Net0Addrs[k] = V4(guest.lease)
<1> DEFINE S == {V6, LinkLocal, V4(guest.lease)}
           l == IF guest.local THEN <<LinkLocal>> ELSE <<>>
           v == IF guest.lease # NoIP THEN <<V4(guest.lease)>> ELSE <<>>
<1>1. Net0Addrs = (<<V6>> \o l) \o v
  BY DEF Net0Addrs
<1>2. l \in Seq(S) /\ v \in Seq(S) /\ <<V6>> \in Seq(S)
  <2>1. V6 \in S /\ LinkLocal \in S /\ V4(guest.lease) \in S
    OBVIOUS
  <2> HIDE DEF S
  <2>2. <<V6>> \in Seq(S) /\ <<LinkLocal>> \in Seq(S) /\ <<>> \in Seq(S)
    BY <2>1
  <2>3. <<V4(guest.lease)>> \in Seq(S)
    BY <2>1
  <2> QED
    BY <2>2, <2>3
<1>3. ~Usable(V6) /\ ~Usable(LinkLocal)
  BY DEF Usable, V6, LinkLocal
<1>4. Net0Addrs \in Seq(S)
  BY <1>1, <1>2
<1>5. \A k \in DOMAIN Net0Addrs : Net0Addrs[k] \in S
  BY <1>4
<1>6. ASSUME guest.lease # NoIP
      PROVE  \E k \in DOMAIN Net0Addrs : Net0Addrs[k] = V4(guest.lease)
  <2>1. Net0Addrs = (<<V6>> \o l) \o <<V4(guest.lease)>>
    BY <1>1, <1>6
  <2>2. <<V6>> \o l \in Seq(S)
    BY <1>2
  <2> DEFINE n == Len(<<V6>> \o l) + 1
  <2>3. n \in DOMAIN Net0Addrs /\ Net0Addrs[n] = V4(guest.lease)
    BY <2>1, <2>2
  <2> QED
    BY <2>3
<1> QED
  BY <1>3, <1>4, <1>5, <1>6

\* The loop over the addresses stops at the lease, and only there.
LEMMA FirstUsableOfNet0 ==
  ASSUME guest \in Guest
  PROVE  FirstUsable(Net0Addrs) = guest.lease
<1> DEFINE good == {k \in DOMAIN Net0Addrs : Usable(Net0Addrs[k])}
<1>1. good \in SUBSET Nat
  BY Net0AddrsAre
<1>2. FirstUsable(Net0Addrs) = IF good = {} THEN NoIP ELSE Net0Addrs[Min(good)].ip
  BY DEF FirstUsable
<1>3. guest.lease # NoIP => good # {}
  BY Net0AddrsAre DEF Usable, V4
<1>4. CASE good = {}
  BY <1>2, <1>3, <1>4
<1>5. CASE good # {}
  <2>1. Min(good) \in good
    BY <1>1, <1>5, MinOfNats
  <2>2. Net0Addrs[Min(good)] = V4(guest.lease)
    BY <2>1, Net0AddrsAre
  <2> QED
    BY <1>2, <1>5, <2>2 DEF V4
<1> QED
  BY <1>4, <1>5

\* The interfaces of a report, and what the loop over them finds on each.
LEMMA ReportIs ==
  ASSUME guest \in Guest, NEW r \in Reports
  PROVE  /\ DOMAIN r \in SUBSET Nat
         /\ \A k \in DOMAIN r :
              \/ FirstUsable(r[k].addrs) \in {NoIP, guest.lease}
              \/ r[k].hw = HW(OtherMAC, "lower")
         /\ \E k \in DOMAIN r : r[k].hw = HW(net0, "lower") /\ r[k].addrs = Net0Addrs
<1> DEFINE docker == IF guest.docker THEN {Docker0} ELSE {}
           all == {Loopback} \cup Net0Ifaces \cup docker
           i(a) == [hw |-> HW(net0, "lower"), addrs |-> a]
           n == Cardinality(all)
<1>1. Net0Ifaces \in {{i(<<>>), i(Net0Addrs)}, {i(Net0Addrs)}}
  BY DEF Net0Ifaces
<1>2. IsFiniteSet(all)
  <2>1. IsFiniteSet({Loopback}) /\ IsFiniteSet({Docker0}) /\ IsFiniteSet({})
    BY FS_Singleton, FS_EmptySet
  <2>2. IsFiniteSet({i(Net0Addrs)}) /\ IsFiniteSet({i(<<>>)} \cup {i(Net0Addrs)})
    <3>1. IsFiniteSet({i(Net0Addrs)}) /\ IsFiniteSet({i(<<>>)})
      BY FS_Singleton
    <3> QED
      BY <3>1, FS_Union
  <2>3. IsFiniteSet(Net0Ifaces)
    <3>1. {i(<<>>)} \cup {i(Net0Addrs)} = {i(<<>>), i(Net0Addrs)}
      OBVIOUS
    <3> QED
      BY <1>1, <2>2, <3>1
  <2>4. IsFiniteSet(docker)
    BY <2>1
  <2> HIDE DEF docker
  <2> QED
    BY <2>1, <2>3, <2>4, FS_Union
<1>3. n \in Nat
  BY <1>2, FS_CardinalityType
<1>4. r \in [1..n -> all] /\ \A f \in all : \E k \in 1..n : r[k] = f
  BY DEF Reports
<1>5. FirstUsable(Loopback.addrs) = NoIP /\ FirstUsable(<<>>) = NoIP
  BY DEF FirstUsable, Loopback, Usable, LinkLocal
<1>6. ASSUME NEW f \in all
      PROVE  FirstUsable(f.addrs) \in {NoIP, guest.lease} \/ f.hw = HW(OtherMAC, "lower")
  <2>1. CASE f = Loopback
    BY <1>5, <2>1
  <2>2. CASE f \in Net0Ifaces
    <3>1. f.addrs \in {<<>>, Net0Addrs}
      BY <1>1, <2>2
    <3> QED
      BY <1>5, <3>1, FirstUsableOfNet0
  <2>3. CASE f \in docker
    BY <2>3 DEF Docker0
  <2> QED
    BY <2>1, <2>2, <2>3
<1>7. i(Net0Addrs) \in all
  BY <1>1
<1>8. PICK k \in 1..n : r[k] = i(Net0Addrs)
  BY <1>4, <1>7
<1> HIDE DEF all, n
<1>9. DOMAIN r = 1..n /\ \A j \in 1..n : r[j] \in all
  BY <1>4
<1> QED
  BY <1>3, <1>6, <1>8, <1>9

\* pickIPv4 with net0's MAC returns the lease if there is one, and with any MAC
\* of net0 nothing but the lease.
LEMMA PickIsLease ==
  ASSUME guest \in Guest, seen \in MACs, NEW r \in Reports
  PROVE  /\ PickIPv4(r, NICMAC) \in {NoIP, guest.lease}
         /\ seen = net0 => PickIPv4(r, NICMAC) = guest.lease
<1> DEFINE hits == {k \in DOMAIN r : /\ EqualFold(r[k].hw, NICMAC)
                                     /\ FirstUsable(r[k].addrs) # NoIP}
<1>1. PickIPv4(r, NICMAC) = IF hits = {} THEN NoIP ELSE FirstUsable(r[Min(hits)].addrs)
  BY DEF PickIPv4, FirstOf
<1>2. hits \in SUBSET Nat
  BY ReportIs
<1>3. ASSUME NEW k \in hits PROVE FirstUsable(r[k].addrs) = guest.lease
  <2>1. k \in DOMAIN r /\ EqualFold(r[k].hw, NICMAC) /\ FirstUsable(r[k].addrs) # NoIP
    OBVIOUS
  <2>2. r[k].hw # HW(OtherMAC, "lower")
    BY <2>1, MACAssumption DEF EqualFold, NICMAC, HW, MACs
  <2> QED
    BY <2>1, <2>2, ReportIs
<1>4. ASSUME seen = net0, guest.lease # NoIP PROVE hits # {}
  <2>1. PICK k \in DOMAIN r : r[k].hw = HW(net0, "lower") /\ r[k].addrs = Net0Addrs
    BY ReportIs
  <2>2. EqualFold(r[k].hw, NICMAC)
    BY <1>4, <2>1 DEF EqualFold, NICMAC, HW
  <2>3. FirstUsable(r[k].addrs) # NoIP
    BY <1>4, <2>1, FirstUsableOfNet0
  <2> QED
    BY <2>2, <2>3
<1>5. hits # {} => Min(hits) \in hits
  BY <1>2, MinOfNats
<1> HIDE DEF hits
<1> QED
  BY <1>1, <1>3, <1>4, <1>5


-----------------------------------------------------------------------------
(* The steps.                                                              *)

\* A query: refused, not answered, or answered with the lease.
LEMMA AskIs ==
  ASSUME WaitInv, Query
  PROVE  /\ step = "query" /\ left > 0 /\ UNCHANGED <<net0, seen, left, ip, guest>>
         /\ \/ step' = "failed" /\ UNCHANGED <<cand, heard, reported>>
            \/ step' = "sleep" /\ heard' = FALSE /\ UNCHANGED <<cand, reported>>
            \/ /\ cand' = guest.lease /\ reported' = guest.lease /\ heard' = TRUE
               /\ step' = IF guest.lease = NoIP THEN "sleep" ELSE "probe"
<1>1. step = "query" /\ left > 0 /\ Ask
  BY DEF Query
<1>2. guest \in Guest /\ seen \in MACs /\ seen = net0
  BY <1>1 DEF WaitInv, TypeOK
<1>3. ASSUME NEW r \in Reports PROVE PickIPv4(r, NICMAC) = guest.lease
  BY <1>2, PickIsLease
<1>4. CASE Fail
  BY <1>1, <1>4 DEF Fail
<1>5. CASE /\ step' = "sleep" /\ heard' = FALSE
           /\ UNCHANGED <<net0, seen, left, cand, ip, guest, reported>>
  BY <1>1, <1>5
<1>6. CASE /\ heard' = TRUE /\ reported' = guest.lease
           /\ \E r \in Reports :
                LET a == PickIPv4(r, NICMAC)
                IN  cand' = a /\ step' = IF a = NoIP THEN "sleep" ELSE "probe"
           /\ UNCHANGED <<net0, seen, left, ip, guest>>
  BY <1>1, <1>3, <1>6
<1> QED
  BY <1>1, <1>4, <1>5, <1>6 DEF Ask

\* Every step of the driver and of the guest keeps the invariant.
LEMMA WaitStep ==
  ASSUME WaitInv, [Next]_vars
  PROVE  WaitInv'
<1> USE DEF WaitInv, TypeOK, IPIsNet0Lease, Steps, Final
<1>1. CASE ApplyConfig
  BY <1>1 DEF ApplyConfig, Fail, MACs
<1>2. CASE StartVM
  BY <1>2 DEF StartVM, Fail
<1>3. CASE Ping
  BY <1>3, PollAssumption DEF Ping, Fail
<1>4. CASE TimeOut
  BY <1>4 DEF TimeOut
<1>5. CASE Query
  <2>1. guest.lease \in Leases \cup {NoIP}
    BY GuestFields
  <2> QED
    BY <1>5, <2>1, AskIs DEF IPs
<1>6. CASE Probe
  BY <1>6 DEF Probe
<1>7. CASE Sleep
  BY <1>7, PollAssumption DEF Sleep
<1>8. CASE GuestChanges
  <2>1. guest' \in Guest
    BY <1>8 DEF GuestChanges, Guest
  <2> QED
    BY <1>8, <2>1 DEF GuestChanges
<1>9. CASE Deleted
  <2>1. guest' \in Guest
    BY <1>9 DEF Deleted, Guest
  <2> QED
    BY <1>9, <2>1 DEF Deleted
<1>10. CASE UNCHANGED vars
  BY <1>10 DEF vars
<1> QED
  BY <1>1, <1>2, <1>3, <1>4, <1>5, <1>6, <1>7, <1>8, <1>9, <1>10 DEF Next, Driver

\* The invariant holds in every state of every behaviour of AgentIP.
LEMMA WaitInvariant == Spec => []WaitInv
<1>1. Init => WaitInv
  <2> SUFFICES ASSUME Init PROVE WaitInv
    OBVIOUS
  <2>1. guest \in Guest
    BY DEF Init, Guest
  <2>2. left \in 0..MaxPolls
    BY PollAssumption DEF Init
  <2> QED
    BY <2>1, <2>2 DEF Init, WaitInv, TypeOK, IPIsNet0Lease, MACs, IPs, Steps
<1>2. WaitInv /\ [Next]_vars => WaitInv'
  BY WaitStep
<1> QED
  BY <1>1, <1>2, PTL DEF Spec

-----------------------------------------------------------------------------
(* The theorems.                                                           *)

\* Types, and WaitForIP's deadline: the number of polls is never exceeded.
THEOREM WaitTypes == Spec => []TypeOK
<1>1. WaitInv => TypeOK
  BY DEF WaitInv
<1> QED
  BY <1>1, WaitInvariant, PTL

\* The address WaitForIP returns is the one that net0 had when the agent
\* answered the last poll, for every set of leases and every order of the
\* reported interfaces: never a container bridge's, although one of those
\* answers the probe.
THEOREM AddressIsNet0s == Spec => []IPIsNet0Lease
<1>1. WaitInv => IPIsNet0Lease
  BY DEF WaitInv
<1> QED
  BY <1>1, WaitInvariant, PTL

\* A lease that the agent reports is found by the poll that asked, with the MAC
\* that net0 has after the rewrite, on whichever interface of that MAC has it.
THEOREM LeaseIsFound == Spec => LeaseNeverOverlooked
<1>1. WaitInv /\ [Next]_vars
        => [step = "query" /\ step' = "sleep" /\ heard' => guest.lease = NoIP]_vars
  <2> SUFFICES ASSUME WaitInv, [Next]_vars, step = "query", step' = "sleep", heard'
               PROVE  guest.lease = NoIP
    OBVIOUS
  <2>1. Query
    BY DEF Next, Driver, ApplyConfig, StartVM, Ping, TimeOut, Probe, Sleep, GuestChanges,
       Deleted, Final, vars
  <2> QED
    BY <2>1, AskIs
<1> QED
  BY <1>1, WaitInvariant, PTL DEF Spec, LeaseNeverOverlooked
=============================================================================
