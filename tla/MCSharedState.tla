--------------------------- MODULE MCSharedState ---------------------------
(* Instances for TLC of four systems in which the daemons keep state about *)
(* each other: the connections and edges (MetaMesh), the keys for their    *)
(* packets (SptpsKeyExchange), the subnets (SubnetGossip) and the          *)
(* addresses at which they are (PeerAddresses).                            *)
(* One system is chosen in the first state.  The variables of the others   *)
(* stay as they are.                                                       *)
EXTENDS MetaMesh, PeerAddresses

CONSTANT Systems    \* the systems to look at

VARIABLES
    system,                                         \* the one chosen
    daemon, letters, lost, gone,                    \* SptpsKeyExchange
    vpn, up, active, requests, subnets,             \* SubnetGossip
    forwarded, heard, forgotten, spent

-----------------------------------------------------------------------------
(* The connections and edges.                                              *)
SameData == [c \in ConnId |-> 1]

MeshSetup(pairs, joined, servers) ==
    [connect_to |-> pairs, established |-> joined, tunnel_servers |-> servers]

(* A line of three, any two of whom may be connected once more.            *)
ThreeInLine ==
    MeshSetup({pair \in SUBSET (1 .. 3) : Cardinality(pair) = 2}, <<{1, 2}, {2, 3}>>, {})

(* A line of four, the second of which is a tunnel server.                 *)
BehindTunnel == MeshSetup({{1, 2}, {2, 3}, {3, 4}}, <<{3, 4}>>, {2})

(* Two daemons that dial each other up to MaxConns times.                  *)
Two == MeshSetup({{1, 2}}, <<>>, {})

AllSetups == {ThreeInLine, BehindTunnel, Two}

-----------------------------------------------------------------------------
(* The keys: messages take less time than a request waits for its answer.  *)
Exchange == INSTANCE SptpsKeyExchange WITH
    wire <- letters, MaxKex <- 14, MaxWire <- 1, MaxLost <- 2, MaxGone <- 1,
    Senders <- {1, 2}, Direct <- TRUE, Prompt <- TRUE

-----------------------------------------------------------------------------
(* The subnets: a line of three whose middle daemon is plain, strict or a  *)
(* tunnel server, and a ring.                                              *)
Line == {{1, 2}, {2, 3}}
Vpn(kind, links, joined, changes, faults, commands) ==
    [mode |-> [d \in 1 .. 3 |-> IF d = 2 THEN kind ELSE "plain"],
     links |-> links, joined |-> joined,
     changes |-> changes, faults |-> faults, commands |-> commands]

Gossip == INSTANCE SubnetGossip WITH
    setup <- vpn, wire <- requests, past <- heard,
    Daemon <- 1 .. 3, Net <- {1, 2}, Static <- <<{1}, {}, {}>>,
    GossipSetups <- {Vpn("plain", Line, FALSE, 2, 1, 0), Vpn("strict", Line, FALSE, 1, 1, 0),
                     Vpn("tunnel", Line, FALSE, 1, 1, 0), Vpn("plain", Line, FALSE, 1, 1, 1),
                     Vpn("plain", Line \union {{1, 3}}, TRUE, 2, 0, 0)}

-----------------------------------------------------------------------------
(* The addresses: a line of three, 2 in the middle with a fixed place; the *)
(* others are at first where their edges tell or behind a router, and move *)
(* on, one to a place that the other has left.  What else may happen       *)
(* differs.                                                                *)
Hops == <<<<1, 2, 2>>, <<1, 2, 3>>, <<2, 2, 3>>>>
Directly == [d \in 1 .. 3 |-> <<1, 2, 3>>]
StaticRelay == <<<<1, 2, 2>>, <<2, 2, 2>>, <<2, 2, 3>>>>
NoneFound == [d \in 1 .. 3 |-> <<0, 0, 0>>]
FoundAtRelay == <<<<0, 2, 0>>, <<1, 0, 2>>, <<0, 2, 0>>>>
Chances(moves, keys, restarts, seconds) ==
    [moves |-> moves, keys |-> keys, restarts |-> restarts, seconds |-> seconds]
Relayed ==
    [links |-> Line, nextHop |-> Hops, via |-> Directly, legacy |-> {}, tcpOnly |-> {},
     edge |-> <<10, 20, 30>>,
     config |-> <<<<-1, 20, -1>>, <<-1, -1, -1>>, <<-1, 20, -1>>>>,
     places |-> <<{11, 12}, {20}, {30, 11}>>, fixed |-> NoneFound,
     keyed |-> {{1, 2}, {2, 3}, {1, 3}}, proven |-> {<<1, 2>>, <<2, 1>>, <<2, 3>>, <<3, 2>>},
     talk |-> {<<1, 3>>, <<3, 1>>}, chances |-> Chances(1, 0, 0, 1)]
AddressSettings ==
    {Relayed,
     [Relayed EXCEPT !.talk = {<<1, 3>>, <<3, 1>>, <<3, 2>>}, !.chances = Chances(2, 0, 0, 0)],
     [Relayed EXCEPT !.keyed = Line, !.chances = Chances(1, 1, 0, 0)],
     [Relayed EXCEPT !.via = StaticRelay, !.fixed = FoundAtRelay, !.chances = Chances(1, 0, 1, 1)],
     [Relayed EXCEPT !.keyed = {}, !.proven = {}, !.fixed = FoundAtRelay, !.talk = {<<1, 3>>},
                     !.chances = Chances(0, 2, 1, 0)],
     [Relayed EXCEPT !.legacy = {3}, !.talk = {<<2, 3>>, <<3, 2>>}, !.chances = Chances(2, 1, 0, 1)],
     [Relayed EXCEPT !.tcpOnly = {1}, !.fixed = FoundAtRelay, !.chances = Chances(0, 1, 0, 1)]}

-----------------------------------------------------------------------------
keyVars == <<daemon, letters, lost, gone>>
subnetVars == <<vpn, up, active, requests, subnets, forwarded, heard, forgotten, spent>>
MeshWaits == Init /\ setup = Two
KeysWait == daemon = 0 /\ letters = 0 /\ lost = 0 /\ gone = 0
SubnetsWait ==
    /\ vpn = 0 /\ up = 0 /\ active = 0 /\ requests = 0 /\ subnets = 0
    /\ forwarded = 0 /\ heard = 0 /\ forgotten = 0 /\ spent = 0

PlacesWait ==
    /\ AddressInit
    /\ setting = Relayed /\ where = <<11, 20, 30>>

AllInit ==
    /\ system \in Systems
    /\ IF system = "mesh" THEN Init ELSE MeshWaits
    /\ IF system = "keys" THEN Exchange!Init ELSE KeysWait
    /\ IF system = "subnets" THEN Gossip!Init ELSE SubnetsWait
    /\ IF system = "addresses" THEN AddressInit ELSE PlacesWait

AllNext ==
    \/ system = "mesh" /\ Next /\ UNCHANGED <<system, keyVars, subnetVars, addressVars>>
    \/ system = "keys" /\ Exchange!Next /\ UNCHANGED <<system, vars, subnetVars, addressVars>>
    \/ system = "subnets" /\ Gossip!Next /\ UNCHANGED <<system, vars, keyVars, addressVars>>
    \/ system = "addresses" /\ AddressNext /\ UNCHANGED <<system, vars, keyVars, subnetVars>>

AllSpec == AllInit /\ [][AllNext]_<<system, vars, keyVars, subnetVars, addressVars>>

-----------------------------------------------------------------------------
(* A daemon reaches nobody, and routes over no link, that is not there.    *)
PhantomsVanish == system = "mesh" => NoPhantoms

(* With nothing on its way, two daemons that both hold keys hold the same. *)
KeysAgree == system = "keys" => Exchange!KeysAgree

(* A daemon has the true subnets of every owner once nothing is on its way.*)
SubnetsAgree == system = "subnets" => Gossip!SubnetsAgree
=============================================================================
