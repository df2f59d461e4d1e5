--------------------------- MODULE PacketJourney ---------------------------
(***************************************************************************)
(* The way of a packet from the device of one daemon to the device of      *)
(* another: each daemon on the way decides where it goes (route_packet_    *)
(* action of tinc-core/src/route.rs), the engine carries the decision out  *)
(* (tinc-runtime/src/engine.rs), the transport chooses UDP or TCP, direct  *)
(* or over a relay (tincd/src/transport.rs), and the next daemon takes the *)
(* packet in (tincd/src/state.rs).  Subnet tables may be out of date and   *)
(* are brought up to date meanwhile, as SubnetGossip does.                 *)
(*                                                                         *)
(* An address is a MAC address or an IP address, a subnet holds one, sizes *)
(* are 1 (small) and 2 (larger than some path carries), and a packet that  *)
(* may not be fragmented is an IPv6 packet or one with DF.  The lookup     *)
(* among overlapping subnets is in RouteAlgorithms.                        *)
(***************************************************************************)
EXTENDS Integers, FiniteSets, Bags, FiniteSetsExt, TLC

CONSTANTS
    Daemon,     \* the daemons, numbered
    Worlds      \* the VPNs to look at: families of records of
                \*   links      the pairs of daemons with a meta connection
                \*   nextHop, via   the routes of each daemon to each other
                \*   tree       the links of the broadcast tree
                \*   tables, truth  subnets <<address, owner>> known to each
                \*              daemon at first, and those there are
                \*   config     of all daemons: mode, forwarding, directOnly,
                \*              decrementTtl, broadcast
                \*   keyed      the pairs of daemons that share keys
                \*   legacy     daemons with the legacy protocol
                \*   tcpOnly    daemons with TCPOnly
                \*   minMtu     minMtu[d][e]: the size that surely reaches e from d
                \*   narrow     pairs <<d, e>> where d knows that e takes no size 2
                \*   from, packet   the first packet and where it enters

VARIABLES
    world,      \* the one of the Worlds it is; it does not change
    tables,     \* tables[d]: the subnets that d knows
    truth,      \* the subnets there are
    sent,       \* whether the first packet has been read from the device
    net,        \* a bag of what is on its way between daemons
    devices     \* devices[d]: a bag of what was written to the device of d

journeyVars == <<world, tables, truth, sent, net, devices>>

Everyone == 0       \* the owner of a broadcast subnet
Nobody == -1

config == world.config
NextHop(d, e) == IF d = e THEN d ELSE world.nextHop[d][e]
ViaOf(d, e) == IF d = e THEN d ELSE world.via[d][e]
Reachable(d, e) == d = e \/ world.nextHop[d][e] # Nobody
Linked(d, e) == {d, e} \in world.links
Keyed(d, e) == {d, e} \in world.keyed
Modern(d, e) == {d, e} \intersect world.legacy = {}
TcpOnly(d, e) == {d, e} \intersect world.tcpOnly # {}

-----------------------------------------------------------------------------
(* Decisions.                                                              *)
Drop(reason) == [do |-> "drop", reason |-> reason]
SendTo(owner, via) == [do |-> "send", owner |-> owner, via |-> via]
Flood == [do |-> "broadcast"]

(* lookup_reachable_subnet_like_tinc, in the order of the owners           *)
Lookup(d, address) ==
    LET owners == {s[2] : s \in {t \in tables[d] : t[1] = address}}
        usable == {o \in owners : o = Everyone \/ Reachable(d, o)}
    IN  IF owners = {} THEN Nobody
        ELSE IF usable # {} THEN Min(usable) ELSE Max(owners)

RouteVia(d, owner) ==
    IF ViaOf(d, owner) = d THEN NextHop(d, owner) ELSE ViaOf(d, owner)

DirectOnlyAllows(d, owner) ==
    RouteVia(d, owner) = owner /\ NextHop(d, owner) = owner

(* The checks that route_mac and route_to_subnet_owner share.              *)
RouteToOwner(d, source, owner) ==
    IF config.forwarding = "off" /\ source # d /\ owner # d THEN Drop("prohibited")
    ELSE IF RouteVia(d, owner) = source THEN Drop("loop")
    ELSE IF config.directOnly /\ ~DirectOnlyAllows(d, owner) THEN Drop("prohibited")
    ELSE SendTo(owner, RouteVia(d, owner))

RouteToSubnetOwner(d, source, owner) ==
    IF owner = Nobody THEN Drop("unknown")
    ELSE IF owner = Everyone THEN Flood
    ELSE IF owner = source THEN Drop("loopback")
    ELSE IF ~Reachable(d, owner) THEN Drop("unreachable")
    ELSE RouteToOwner(d, source, owner)

(* route_mac: an address nobody owns is sent to everybody.                 *)
RouteMac(d, source, owner) ==
    IF owner \in {Nobody, Everyone} THEN Flood
    ELSE IF owner = source THEN Drop("loopback")
    ELSE RouteToOwner(d, source, owner)

RoutePacket(d, source, p) ==
    IF config.forwarding = "kernel" /\ source # d THEN [do |-> "local"]
    ELSE IF config.mode = "hub" THEN Flood
    ELSE IF config.mode = "switch" THEN RouteMac(d, source, Lookup(d, p.dst))
    ELSE IF p.type = "other" THEN Drop("ethertype")
    ELSE RouteToSubnetOwner(d, source, Lookup(d, p.dst))

(* Mutant: only packets that enter here lose a hop.                        *)
ShouldDecrementTtlAtSource(d, source, r) ==
    config.decrementTtl /\ source = d /\ r.do = "send"

ShouldDecrementTtl(d, source, r) ==
    /\ config.decrementTtl /\ source # d
    /\ \/ r.do = "broadcast"
       \/ r.do = "send" /\ r.owner # d

RoutePacketMut(d, source, p) ==
    LET r == RoutePacket(d, source, p)
    IN  IF ShouldDecrementTtl(d, source, r) /\ p.ttl <= 1 THEN Drop("expired") ELSE r

AfterHop(d, source, p) ==
    IF ShouldDecrementTtl(d, source, RoutePacket(d, source, p)) /\ p.ttl > 1
    THEN [p EXCEPT !.ttl = @ - 1]
    ELSE p

(* ipv4_icmp_error_packet, ipv6_icmp_error_packet                          *)
FreshTtl == 3      \* 255

IcmpError(type, p) ==
    [p EXCEPT !.type = type, !.src = p.dst, !.dst = p.src, !.ttl = FreshTtl,
              !.size = 1, !.whole = FALSE]

Reply(source, p) == [do |-> "reply", target |-> source, packet |-> p]

(* icmp_reply_for_drop: no answer to an answer about the time to live      *)
IcmpReplyForDrop(source, p, reason) ==
    LET type == CASE reason = "unknown" -> "net unknown"
                  [] reason = "unreachable" -> "net unreachable"
                  [] reason = "prohibited" -> "prohibited"
                  [] reason = "expired" -> "time exceeded"
                  [] OTHER -> "none"
    IN  IF \/ type = "none"
           \/ p.type \in {"other", "arp"}
           \/ type = "time exceeded" /\ p.type = type
        THEN Drop(reason)
        ELSE Reply(source, IcmpError(type, p))

(* arp_reply_packet, neighbor_advertisement_packet: only the own device    *)
(* is answered, for addresses of others                                    *)
AddressResolution(d, source, p) ==
    LET owner == Lookup(d, p.dst)
    IN  IF source # d THEN Drop("remote")
        ELSE IF owner = Nobody THEN Drop("unknown target")
        ELSE IF owner = d THEN Drop("local target")
        ELSE Reply(source, [p EXCEPT !.src = p.dst, !.dst = p.src])

(* Mutant: the rest of a packet that is cut into pieces is lost.           *)
SendPacketFirstPart(d, source, r, p) ==
    IF r.via = d \/ <<d, r.via>> \notin world.narrow \/ p.size = 1
    THEN r @@ [packets |-> SetToBag({p})]
    ELSE IF p.whole THEN Reply(source, IcmpError("too big", p))
    ELSE r @@ [packets |-> SetToBag({[p EXCEPT !.size = 1, !.part = 1]})]

(* send_packet_action with pmtu_action                                     *)
SendPacket(d, source, r, p) ==
    IF r.via = d \/ <<d, r.via>> \notin world.narrow \/ p.size = 1
    THEN r @@ [packets |-> SetToBag({p})]
    ELSE IF p.whole THEN Reply(source, IcmpError("too big", p))
    ELSE r @@ [packets |-> SetToBag({[p EXCEPT !.size = 1, !.part = 1],
                                     [p EXCEPT !.size = 1, !.part = 2]})]

RoutePacketAction(d, source, p) ==
    IF config.mode = "router" /\ p.type = "arp" THEN AddressResolution(d, source, p)
    ELSE LET r == RoutePacketMut(d, source, p)
             q == AfterHop(d, source, p)
         IN  CASE r.do = "send" -> SendPacket(d, source, r, q)
               [] r.do = "drop" -> IcmpReplyForDrop(source, q, r.reason)
               [] OTHER -> r @@ [packet |-> q]

-----------------------------------------------------------------------------
(* The transport: the message that carries p towards its owner, if any.    *)
Direct(d, e, p) == {[to |-> e, form |-> "udp", from |-> d, packet |-> p]}
PlainTcp(d, e, p) ==
    IF Linked(d, e) THEN {[to |-> e, form |-> "tcp", from |-> d, packet |-> p]} ELSE {}
Relayed(to, source, owner, p) ==
    {[to |-> to, form |-> "relay", source |-> source, owner |-> owner, packet |-> p]}

(* choose_sptps_transport_targets                                          *)
UdpRelay(d, owner, p) ==
    LET via == ViaOf(d, owner)
    IN  IF via # d /\ p.size <= world.minMtu[d][via] THEN via ELSE NextHop(d, owner)

(* sptps_direct_needs_plain_tcp_fallback                                   *)
NeedsPlainTcp(d, owner, p) ==
    Linked(d, owner) /\ Modern(d, owner) /\ p.size > world.minMtu[d][owner]

SptpsNeedsTcp(d, relay, p) == TcpOnly(d, relay) \/ p.size > world.minMtu[d][relay]

SendSptps(d, owner, p) ==
    LET relay == UdpRelay(d, owner, p)
    IN  IF SptpsNeedsTcp(d, relay, p)
        THEN IF Linked(d, NextHop(d, owner)) THEN Relayed(NextHop(d, owner), d, owner, p) ELSE {}
        ELSE IF relay = owner THEN Direct(d, owner, p)
        ELSE Relayed(relay, d, owner, p)

LegacyNeedsTcp(d, relay) == ~Modern(d, relay) /\ Reachable(d, relay) /\ ~Keyed(d, relay)

LegacyFallback(d, relay, p) ==
    ~Modern(d, relay) /\ Keyed(d, relay) /\ p.size > world.minMtu[d][relay]

(* send_packet_to, once the owner is known to share no SPTPS keys          *)
SendByRelay(d, owner, relay, p) ==
    IF p.tcp \/ TcpOnly(d, relay) \/ LegacyNeedsTcp(d, relay) \/ LegacyFallback(d, relay, p)
    THEN PlainTcp(d, relay, p)
    ELSE IF Keyed(d, relay) THEN Direct(d, relay, p)
    ELSE {}

SendPacketTo(d, owner, relay, p) ==
    IF NeedsPlainTcp(d, owner, p) THEN PlainTcp(d, owner, p)
    ELSE IF Modern(d, owner) /\ Keyed(d, owner) THEN SendSptps(d, owner, p)
    ELSE IF /\ ~p.tcp /\ ~TcpOnly(d, relay)
            /\ LegacyFallback(d, relay, p) /\ NextHop(d, relay) # relay
         THEN LET hop == NextHop(d, relay)
              IN  IF NeedsPlainTcp(d, hop, p) THEN PlainTcp(d, hop, p)
                  ELSE IF Modern(d, hop) /\ Keyed(d, hop) THEN SendSptps(d, hop, p)
                  ELSE SendByRelay(d, hop, hop, p)
    ELSE SendByRelay(d, owner, relay, p)

(* forward_sptps_relay_record                                              *)
ForwardRelayed(d, m) ==
    LET relay == UdpRelay(d, m.owner, m.packet)
    IN  IF ~Reachable(d, m.owner) THEN {}
        ELSE IF SptpsNeedsTcp(d, relay, m.packet)
        THEN IF Linked(d, NextHop(d, m.owner)) THEN Relayed(NextHop(d, m.owner), m.source, m.owner, m.packet)
             ELSE {}
        ELSE Relayed(relay, m.source, m.owner, m.packet)

-----------------------------------------------------------------------------
(* The engine.                                                             *)
BroadcastTargets(d, source) ==
    IF config.broadcast = "mst"
    THEN {e \in Daemon \ {d} : {d, e} \in world.tree /\ e # NextHop(d, source)}
    ELSE {e \in Daemon \ {d, source} : Reachable(d, e) /\ NextHop(d, e) = e}

(* Mutant: a daemon that passes a broadcast on does not look at it.        *)
BroadcastPacketUnseen(d, source, p) ==
    IF source # d /\ config.broadcast = "mst" /\ ~config.directOnly /\ BroadcastTargets(d, source) # {}
    THEN [out |-> SetToBag(UNION {SendPacketTo(d, e, e, p) : e \in BroadcastTargets(d, source)}),
          dev |-> EmptyBag]
    ELSE [out |-> IF source = d /\ config.broadcast # "none"
                  THEN SetToBag(UNION {SendPacketTo(d, e, e, p) : e \in BroadcastTargets(d, source)})
                  ELSE EmptyBag,
          dev |-> IF source # d THEN SetToBag({p}) ELSE EmptyBag]

BroadcastPacket(d, source, p) ==
    LET relays == /\ config.broadcast # "none"
                  /\ \/ source = d
                     \/ config.broadcast # "direct" /\ ~config.directOnly
    IN  [out |-> IF relays
                 THEN SetToBag(UNION {SendPacketTo(d, e, e, p) : e \in BroadcastTargets(d, source)})
                 ELSE EmptyBag,
         dev |-> IF source # d THEN SetToBag({p}) ELSE EmptyBag]

SendToOwner(d, owner, via, p) ==
    IF owner = d THEN [out |-> EmptyBag, dev |-> SetToBag({p})]
    ELSE [out |-> SetToBag(SendPacketTo(d, owner, via, p)), dev |-> EmptyBag]

ExecuteAction(d, source, a) ==
    CASE a.do = "send" ->
            LET parts == {SendToOwner(d, a.owner, a.via, p) : p \in BagToSet(a.packets)}
            IN  [out |-> BagUnion({x.out : x \in parts}),
                 dev |-> BagUnion({x.dev : x \in parts})]
      [] a.do = "reply" -> SendToOwner(d, a.target, a.target, a.packet)
      [] a.do = "broadcast" -> BroadcastPacket(d, source, a.packet)
      [] a.do = "local" -> [out |-> EmptyBag, dev |-> SetToBag({a.packet})]
      [] a.do = "drop" -> [out |-> EmptyBag, dev |-> EmptyBag]

RouteAndExecute(d, source, p, rest) ==
    \E a \in {RoutePacketAction(d, source, p)} :
        \E effect \in {ExecuteAction(d, source, a)} :
            /\ net' = rest (+) effect.out
            /\ devices' = [devices EXCEPT ![d] = @ (+) effect.dev]

(* A switch learns the addresses behind its own device, and announces them.*)
LearnSource(d, source, p) ==
    IF config.mode = "switch" /\ source = d /\ <<p.src, d>> \notin tables[d]
    THEN /\ tables' = [tables EXCEPT ![d] = @ \union {<<p.src, d>>}]
         /\ truth' = truth \union {<<p.src, d>>}
    ELSE UNCHANGED <<tables, truth>>

-----------------------------------------------------------------------------
Init ==
    /\ \E f \in DOMAIN Worlds : \E w \in DOMAIN Worlds[f] : world = Worlds[f][w]
    /\ tables = world.tables
    /\ truth = world.truth
    /\ sent = FALSE
    /\ net = EmptyBag
    /\ devices = [d \in Daemon |-> EmptyBag]

(* poll_device_packet                                                      *)
PollDevice ==
    /\ ~sent
    /\ sent' = TRUE
    /\ RouteAndExecute(world.from, world.from, world.packet, net)
    /\ LearnSource(world.from, world.from, world.packet)
    /\ UNCHANGED world

(* handle_meta_tcp_packet: what came by TCP is passed on by TCP, unless    *)
(* the connection is for TCP alone                                         *)
HandleTcpPacket(m) ==
    /\ m.form = "tcp"
    /\ RouteAndExecute(m.to, m.from, [m.packet EXCEPT !.tcp = ~TcpOnly(m.to, m.from)],
                       net (-) SetToBag({m}))

(* handle_udp_datagram with a datagram from a daemon that shares keys      *)
HandleUdpDatagram(m) ==
    /\ m.form = "udp"
    /\ RouteAndExecute(m.to, m.from, [m.packet EXCEPT !.tcp = FALSE], net (-) SetToBag({m}))

(* handle_sptps_udp_envelope, handle_meta_sptps_packet                     *)
HandleEnvelope(m) ==
    /\ m.form = "relay"
    /\ \/ /\ m.owner # m.to
          /\ net' = (net (-) SetToBag({m})) (+) SetToBag(ForwardRelayed(m.to, m))
          /\ UNCHANGED devices
       \/ /\ m.owner = m.to /\ Keyed(m.to, m.source)
          /\ RouteAndExecute(m.to, m.source, [m.packet EXCEPT !.tcp = FALSE],
                             net (-) SetToBag({m}))

Arrive ==
    /\ \E m \in BagToSet(net) : HandleTcpPacket(m) \/ HandleUdpDatagram(m) \/ HandleEnvelope(m)
    /\ UNCHANGED <<world, tables, truth, sent>>

(* What the gossip about subnets does in the end.                          *)
UpdateTable ==
    /\ \E d \in Daemon : tables[d] # truth /\ tables' = [tables EXCEPT ![d] = truth]
    /\ UNCHANGED <<world, truth, sent, net, devices>>

Next == PollDevice \/ Arrive \/ UpdateTable

(* The event loop comes round to every descriptor that can be read.  And   *)
(* tables become right one day (SubnetGossip), which is needed only where  *)
(* hops are not counted.                                                   *)
HopsAreCounted == config.decrementTtl
Fairness ==
    /\ WF_journeyVars(PollDevice)
    /\ WF_journeyVars(Arrive)
    /\ WF_journeyVars(~HopsAreCounted /\ UpdateTable)

-----------------------------------------------------------------------------
p0 == world.packet
Owners == {s[2] : s \in {t \in truth : t[1] = p0.dst}} \ {Everyone}
Written(d, test(_)) == {p \in BagToSet(devices[d]) : test(p)}
Times(d, test(_)) ==
    MapThenSumSet(LAMBDA p : CopiesIn(p, devices[d]), Written(d, test))
IsPacket(p) == p.type = p0.type /\ p.src = p0.src
IsError(p) == p.type # p0.type
AllParts(d) ==
    LET parts == {p.part : p \in Written(d, IsPacket)}
    IN  \/ parts = {0} /\ Times(d, IsPacket) = 1
        \/ parts = {1, 2} /\ Times(d, IsPacket) = 2

(* In a VPN whose tables are right, with keys for every step of the way, a *)
(* packet to a known address has been written, whole and once, to the      *)
(* device of the owner of the address, or else its sender got one answer   *)
(* that says why not.  No other device saw it (route_packet_action,        *)
(* execute_action and the choice of transport, over all daemons on the     *)
(* way).                                                                   *)
ArrivesOrIsAnswered ==
    (/\ world.tables = [d \in Daemon |-> world.truth]
     /\ \A d, e \in Daemon : d # e /\ Reachable(d, e) => Keyed(d, RouteVia(d, e))
     /\ config.mode = "router" /\ Owners # {} /\ p0.type = "ip"
     /\ sent /\ net = EmptyBag)
    => LET home == CHOOSE o \in Owners : TRUE
           answers == Times(world.from, IsError)
       IN  /\ \/ AllParts(home) /\ answers = 0
              \/ Times(home, IsPacket) = 0 /\ answers = 1
           /\ \A d \in Daemon \ {home} : Times(d, IsPacket) = 0
           /\ \A d \in Daemon \ {world.from} : Times(d, IsError) = 0

(* A packet for everybody is written once to the device of every other     *)
(* daemon that can be reached, over the tree; or of every neighbour, when  *)
(* broadcasts go no further (broadcast_packet, broadcast_targets).         *)
BroadcastOnce ==
    (/\ <<p0.dst, Everyone>> \in world.truth /\ p0.type = "ip"
     /\ ~config.decrementTtl /\ config.forwarding # "kernel"
     /\ sent /\ net = EmptyBag)
    => \A d \in Daemon \ {world.from} :
          Times(d, IsPacket) =
              IF config.broadcast = "none" THEN 0
              ELSE IF config.broadcast = "direct" \/ config.directOnly
              THEN IF NextHop(world.from, d) = d THEN 1 ELSE 0
              ELSE IF Reachable(world.from, d) THEN 1 ELSE 0

(* Every packet comes to an end, and so do the answers to it, even if the  *)
(* tables of the daemons send it round in a circle: if they count the hops *)
(* or the tables are right one day (decrement_ttl, icmp_reply_for_drop,    *)
(* the checks for loops).                                                  *)
Over == sent /\ net = EmptyBag
JourneyEnds == <>[]Over
=============================================================================
