----------------------------- MODULE MCDelivery -----------------------------
(* Instances for TLC of three systems in which something has to get to all *)
(* daemons or to the right one: broadcasts, over the trees that the        *)
(* daemons compute (GraphMst), the news of edges after a daemon crashed    *)
(* and came back (MetaMesh), and packets (PacketJourney).                  *)
(* One system is chosen in the first state.  The variables of the others   *)
(* stay as they are.                                                       *)
EXTENDS GraphMst, TLC

CONSTANT Systems    \* the systems to look at

VARIABLES
    system,                                                 \* the one chosen
    setup, opened, ends, conns, edge_peer, owner, edges,    \* MetaMesh
    wire, past, broken, crashed,
    world, tables, truth, sent, net, devices                \* PacketJourney

-----------------------------------------------------------------------------
(* The broadcast trees.                                                    *)
GraphOf(w) == [edges |-> {k \in Key : w[k] # 0}, weight |-> w]

(* Four nodes; an edge's two directions weigh the same, or one is absent.  *)
SymmetricGraphs ==
    LET pair == {p \in SUBSET Node : Cardinality(p) = 2}
    IN  {GraphOf([k \in Key |-> IF k[1] = k[2] THEN 0 ELSE f[{k[1], k[2]}]])
            : f \in [pair -> 0 .. 2]}

(* Among three nodes, the two directions are independent.                  *)
OneWayGraphs ==
    LET arrow == {k \in Key : k[1] # k[2] /\ k[1] <= 3 /\ k[2] <= 3}
    IN  {GraphOf([k \in Key |-> IF k \in arrow THEN f[k] ELSE 0])
            : f \in [arrow -> 0 .. 2]}

SmallGraphs == SymmetricGraphs \union OneWayGraphs

-----------------------------------------------------------------------------
(* The edges: a line of three, any two of whom may be connected once more, *)
(* with edges that differ; one daemon crashes.                             *)
Mesh == INSTANCE MetaMesh WITH
    graph <- edges,
    Daemon <- 1 .. 3, MaxConns <- 3, MaxBreaks <- 0, MaxCrashes <- 1,
    Data <- {1, 2}, DataOf <- <<1, 1, 2>>,
    Setups <- {[connect_to |-> {{1, 2}, {2, 3}, {1, 3}},
                established |-> <<{1, 2}, {2, 3}>>, tunnel_servers |-> {}]}

-----------------------------------------------------------------------------
(* Packets: a line of four daemons, in which 1 has the address 10, 3 has   *)
(* 20, 4 has 40, and 30 is for everybody; 50 is nobody's.  Each family     *)
(* varies a part of Base.                                                  *)
D4 == 1 .. 4
Chain == {{1, 2}, {2, 3}, {3, 4}}
Truth == {<<10, 1>>, <<20, 3>>, <<30, 0>>, <<40, 4>>}
Hop == <<<<1, 2, 2, 2>>, <<1, 2, 3, 3>>, <<2, 2, 3, 4>>, <<3, 3, 3, 4>>>>
HopWithout4 == <<<<1, 2, 2, -1>>, <<1, 2, 3, -1>>, <<2, 2, 3, -1>>, <<-1, -1, -1, 4>>>>

(* The relay is the owner, the daemon before it, or each in turn.          *)
Straight == <<<<1, 2, 3, 4>>, <<1, 2, 3, 4>>, <<1, 2, 3, 4>>, <<1, 2, 3, 4>>>>
OverTwo == <<<<1, 2, 2, 2>>, <<1, 2, 3, 4>>, <<2, 2, 3, 4>>, <<2, 2, 3, 4>>>>
HopByHop == <<<<1, 1, 1, 1>>, <<2, 2, 2, 2>>, <<3, 3, 3, 3>>, <<4, 4, 4, 4>>>>
Vias == <<Straight, OverTwo, HopByHop>>

(* How large a packet surely passes, and where the kernel knows better.    *)
AllSizes(n) == [d \in D4 |-> [e \in D4 |-> n]]
Mtus == <<AllSizes(2), AllSizes(0), [d \in D4 |-> <<2, 2, 1, 1>>]>>
Narrow == <<{}, {<<1, 2>>, <<1, 3>>}, {<<2, 3>>}>>

Conf(mode, forwarding, directOnly, decrementTtl, broadcast) ==
    [mode |-> mode, forwarding |-> forwarding, directOnly |-> directOnly,
     decrementTtl |-> decrementTtl, broadcast |-> broadcast]
AllPairs == {p \in SUBSET D4 : Cardinality(p) = 2}
Packet(dst) ==
    [type |-> "ip", src |-> 10, dst |-> dst, ttl |-> 3, size |-> 2, whole |-> FALSE,
     part |-> 0, tcp |-> FALSE]
Base ==
    [links |-> Chain, nextHop |-> Hop, via |-> Straight, tree |-> Chain,
     tables |-> <<Truth, Truth, Truth, Truth>>, truth |-> Truth,
     config |-> Conf("router", "internal", FALSE, FALSE, "mst"), keyed |-> AllPairs,
     legacy |-> {}, tcpOnly |-> {}, minMtu |-> AllSizes(2), narrow |-> {},
     from |-> 1, packet |-> Packet(20)]

Configured ==
    [x \in {"off", "internal"} \X BOOLEAN \X BOOLEAN \X {"none", "direct", "mst"}
              \X {1, 3} \X {20, 30} |->
        [Base EXCEPT !.config = Conf("router", x[1], x[2], x[3], x[4]),
                     !.via = Vias[x[5]], !.packet = Packet(x[6])]]
Sized ==
    [x \in (1 .. 3) \X (1 .. 3) \X (1 .. 3) \X BOOLEAN \X {20, 40} |->
        [Base EXCEPT !.via = Vias[x[1]], !.minMtu = Mtus[x[2]], !.narrow = Narrow[x[3]],
                     !.config.decrementTtl = x[5] = 40,
                     !.packet = [Packet(x[5]) EXCEPT !.whole = x[4], !.ttl = 2]]]
Protocols ==
    [x \in BOOLEAN \X {{}, {3}, {2, 3}} \X {{}, {2}, {3}} \X {2, 3} \X {20, 30, 40} \X {1, 3} |->
        [Base EXCEPT !.keyed = IF x[1] THEN AllPairs ELSE Chain, !.legacy = x[2],
                     !.tcpOnly = x[3], !.via = Vias[x[4]], !.packet = Packet(x[5]),
                     !.minMtu = Mtus[x[6]]]]
Unreached ==
    [x \in {20, 30, 40, 50} |->
        [Base EXCEPT !.nextHop = HopWithout4, !.tree = {{1, 2}, {2, 3}}, !.packet = Packet(x)]]
Switched ==
    [x \in {"switch", "hub"} \X {20, 30, 50} |->
        [Base EXCEPT !.config.mode = x[1], !.packet = [Packet(x[2]) EXCEPT !.src = 11]]]
ByKernel ==
    [x \in {20, 30} |-> [Base EXCEPT !.config.forwarding = "kernel", !.packet = Packet(x)]]
Others ==
    [x \in {"arp", "other"} \X {10, 20, 50} |->
        [Base EXCEPT !.packet.type = x[1], !.packet.dst = x[2]]]
Stale ==
    [x \in BOOLEAN \X {2, 4} \X D4 \X D4 \X {1, 3} |->
        [Base EXCEPT !.config.decrementTtl = x[1],
                     !.tables = [d \in D4 |-> {<<10, 1>>, <<20, x[d + 1]>>}]]]

Journey == INSTANCE PacketJourney WITH
    Daemon <- D4,
    Worlds <- <<Configured, Sized, Protocols, Unreached, Switched, ByKernel, Others, Stale>>

-----------------------------------------------------------------------------
meshVars == <<setup, opened, ends, conns, edge_peer, owner, edges, wire, past, broken, crashed>>
packetVars == <<world, tables, truth, sent, net, devices>>

TreesWait == Init /\ graph = GraphOf([k \in Key |-> 0])
MeshWaits ==
    /\ setup = 0 /\ opened = 0 /\ ends = 0 /\ conns = 0 /\ edge_peer = 0 /\ owner = 0
    /\ edges = 0 /\ wire = 0 /\ past = 0 /\ broken = 0 /\ crashed = 0
JourneyWaits ==
    world = 0 /\ tables = 0 /\ truth = 0 /\ sent = 0 /\ net = 0 /\ devices = 0

AllInit ==
    /\ system \in Systems
    /\ IF system = "trees" THEN Init ELSE TreesWait
    /\ IF system = "mesh" THEN Mesh!Init ELSE MeshWaits
    /\ IF system = "journey" THEN Journey!Init ELSE JourneyWaits

AllNext ==
    \/ system = "trees" /\ Next /\ UNCHANGED <<system, meshVars, packetVars>>
    \/ system = "mesh" /\ Mesh!Next /\ UNCHANGED <<system, vars, packetVars>>
    \/ system = "journey" /\ Journey!Next /\ UNCHANGED <<system, vars, meshVars>>

(* What is fair is what MetaMesh and PacketJourney say.                    *)
AllSpec ==
    /\ AllInit /\ [][AllNext]_<<system, vars, meshVars, packetVars>>
    /\ \A d \in 1 .. 3 : WF_meshVars(system = "mesh" /\ Mesh!Process(d))
    /\ WF_packetVars(system = "journey" /\ Journey!PollDevice)
    /\ WF_packetVars(system = "journey" /\ Journey!Arrive)
    /\ WF_packetVars(system = "journey" /\ ~Journey!HopsAreCounted /\ Journey!UpdateTable)

-----------------------------------------------------------------------------
(* The edges the daemons know agree once nothing is on its way.            *)
Agreement == system = "mesh" => Mesh!Agreement

(* Every flood of edges ends.                                              *)
FloodEnds == <>[](system = "mesh" => Mesh!Quiescent)

(* A packet is written to the right device, or its sender is told.         *)
ArrivesOrIsAnswered == system = "journey" => Journey!ArrivesOrIsAnswered

(* A packet for everybody is written to every device once.                 *)
BroadcastOnce == system = "journey" => Journey!BroadcastOnce

(* Every packet comes to an end.                                           *)
JourneyEnds == <>[](system = "journey" => Journey!Over)
=============================================================================
