------------------------------ MODULE MetaMesh ------------------------------
(***************************************************************************)
(* How the daemons of a VPN agree on its topology.  Daemons hold meta      *)
(* connections (reliable FIFO byte streams), tell each other over them     *)
(* which edges exist (ADD_EDGE, DEL_EDGE) and flood what is news to them.  *)
(* Only the daemon at its origin knows the truth about an edge; the others *)
(* repeat hearsay, and an origin that hears a wrong claim about itself     *)
(* answers with a correction (tincd/src/state.rs).                         *)
(*                                                                         *)
(* A step is one event of one daemon's single-threaded event loop: one     *)
(* request read from one connection with everything the handler does, or   *)
(* the close of a connection.  Daemons interleave, streams delay, any      *)
(* connection may break at any time with what was in flight on it, and a   *)
(* daemon may crash and restart empty.                                     *)
(***************************************************************************)
EXTENDS Naturals, Sequences, FiniteSets

CONSTANTS
    Daemon,         \* the daemons, numbered: names are compared as strings
    MaxConns,       \* how many connections are ever opened
    Setups,         \* how the daemons may be configured, and begin
    MaxBreaks,      \* how many times a live connection is cut
    MaxCrashes,     \* how many times a daemon crashes
    Data,           \* what an edge carries: address, port, options, weight
    DataOf          \* the edge data that a connection's handshake yields

ASSUME MeshAssumption ==
    /\ Daemon \subseteq Nat /\ IsFiniteSet(Daemon)
    /\ \A s \in Setups :
          /\ s.tunnel_servers \subseteq Daemon
          /\ s.connect_to \subseteq SUBSET Daemon
          /\ \A pair \in s.connect_to : \E d, e \in Daemon : d # e /\ pair = {d, e}
          /\ s.established \in Seq(s.connect_to) /\ Len(s.established) <= MaxConns
          /\ \A c \in DOMAIN s.established :
                s.established[c] \intersect s.tunnel_servers = {}
          /\ \A b, c \in DOMAIN s.established :
                s.established[b] = s.established[c] => b = c
    /\ MaxConns \in Nat /\ MaxBreaks \in Nat /\ MaxCrashes \in Nat
    /\ Data \subseteq Nat \ {0}
    /\ DataOf \in [1 .. MaxConns -> Data]

ConnId == 1 .. MaxConns
EdgeKey == Daemon \X Daemon

NoEdge == 0
NoConn == 0

VARIABLES
    setup,      \* the setup of this mesh, which does not change
    opened,     \* the number of connections opened so far
    ends,       \* ends[c]: the two daemons that connection c joins
    conns,      \* conns[d]: the connections in d's meta_connections
    edge_peer,  \* edge_peer[d]: those of them that d has activated
    owner,      \* owner[d][p]: local_edge_connections, NoConn if none
    graph,      \* graph[d]: the edges d knows, NoEdge where it knows none
    wire,       \* wire[c][d]: the requests on their way to d over c
    past,       \* past[d]: past_requests, the requests d has already seen
    broken,     \* how often a connection was cut
    crashed     \* how often a daemon crashed

vars == <<setup, opened, ends, conns, edge_peer, owner, graph, wire, past,
          broken, crashed>>

ConnectTo == setup.connect_to           \* the pairs of which one dials the other
Established == setup.established        \* the pairs connected at the start
TunnelServers == setup.tunnel_servers   \* those with TunnelServer = yes

Peer(c, d) == CHOOSE e \in ends[c] : e # d

-----------------------------------------------------------------------------
(* Requests.  The nonce, which starts at random in each daemon, makes each *)
(* origination distinct.  Here the n-th new request gets the n-th smallest *)
(* nonce that no request in flight bears, and a daemon remembers the       *)
(* requests it has seen while a copy of them is in flight anywhere: a      *)
(* request that is nowhere in flight can never be received again.          *)

Ack == [type |-> "ACK"]

AddEdge(id, from, to, data) ==
    [type |-> "ADD_EDGE", id |-> id, from |-> from, to |-> to, data |-> data]

DelEdge(id, from, to) ==
    [type |-> "DEL_EDGE", id |-> id, from |-> from, to |-> to]

InFlight(w) ==
    UNION {{w[c][d][i] : i \in {j \in DOMAIN w[c][d] : w[c][d][j] # Ack}}
               : c \in ConnId, d \in Daemon}

Nonce(d, n) ==
    LET used == {m.id[2] : m \in {i \in InFlight(wire) : i.id[1] = d}}
        k == CHOOSE k \in 1 .. Cardinality(used) + n :
                k \notin used /\ Cardinality((1 .. k) \ used) = n
    IN  <<d, k>>

(* What the graph `g` of d makes reachable: the least set that contains d  *)
(* and follows every edge whose reverse is known too.                      *)
Linked(g, a, b) == g[<<a, b>>] # NoEdge /\ g[<<b, a>>] # NoEdge

Reachable(g, d) ==
    {n \in Daemon :
        \A S \in SUBSET Daemon :
            (d \in S /\ \A a \in S, b \in Daemon : Linked(g, a, b) => b \in S)
                => n \in S}

Without(g, from, to) == [g EXCEPT ![<<from, to>>] = NoEdge]

(* DEL_EDGE for an edge p -> d that only its own reverse kept alive.       *)
StaleReverse(g, d, p) == p \notin Reachable(g, d) /\ g[<<p, d>>] # NoEdge

-----------------------------------------------------------------------------
(* Sending.  `out` gives, for each connection, the requests that daemon d  *)
(* queues on it.  What is written to a connection whose other end is gone  *)
(* is lost; a connection that d dropped carries nothing to d any more.     *)

Transmit(wires, d, live, out) ==
    [c \in ConnId |-> [e \in Daemon |->
        IF e = d
          THEN IF c \in live THEN wires[c][e] ELSE <<>>
          ELSE IF c \in live /\ e \in ends[c] /\ c \in conns[e]
                 THEN wires[c][e] \o out[c]
                 ELSE wires[c][e]]]

(* The request at the head of c is consumed by d.                          *)
Consumed(c, d) == [wire EXCEPT ![c][d] = Tail(@)]

StillInFlight(seen) == [d \in Daemon |-> seen[d] \intersect InFlight(wire')]

Nothing == [c \in ConnId |-> <<>>]
To(c, msgs) == [Nothing EXCEPT ![c] = msgs]

(* broadcast_active_meta_message_except_id                                 *)
Broadcast(active, except, msgs) ==
    [c \in ConnId |-> IF c \in active \ except THEN msgs ELSE <<>>]

Both(out1, out2) == [c \in ConnId |-> out1[c] \o out2[c]]

-----------------------------------------------------------------------------
(* close_meta_connection_with_report, for connection c of daemon d: the    *)
(* graph, the owners and the deletions to report.  The edge goes only with *)
(* the connection that owns it.                                            *)

OwnsEdge(d, c) ==
    /\ c \in edge_peer[d]
    /\ owner[d][Peer(c, d)] \in {NoConn, c}
    /\ graph[d][<<d, Peer(c, d)>>] # NoEdge

(* Mutant: nobody is told that the edge is gone.                           *)
ClosedSilently(d, c) ==
    LET p == Peer(c, d)
    IN  IF ~OwnsEdge(d, c)
          THEN [graph |-> graph[d], owner |-> owner[d], dels |-> <<>>]
          ELSE [graph |-> Without(graph[d], d, p),
                owner |-> [owner[d] EXCEPT ![p] = NoConn], dels |-> <<>>]

Closed(d, c) ==
    LET p == Peer(c, d)
        g1 == Without(graph[d], d, p)
        reverse == StaleReverse(g1, d, p)
    IN  IF ~OwnsEdge(d, c)
          THEN [graph |-> graph[d], owner |-> owner[d], dels |-> <<>>]
          ELSE [graph |-> IF reverse THEN Without(g1, p, d) ELSE g1,
                owner |-> [owner[d] EXCEPT ![p] = NoConn],
                dels  |-> <<DelEdge(Nonce(d, 1), d, p)>> \o
                          IF reverse THEN <<DelEdge(Nonce(d, 2), p, d)>>
                                     ELSE <<>>]

(* d closes c: after an end of file or an error, a keepalive timeout or a  *)
(* termination request.                                                    *)
Close(d, c) ==
    LET closed == Closed(d, c)
        active == edge_peer[d] \ {c}
        reported == IF d \in TunnelServers THEN <<>> ELSE closed.dels
    IN  /\ conns' = [conns EXCEPT ![d] = @ \ {c}]
        /\ edge_peer' = [edge_peer EXCEPT ![d] = active]
        /\ graph' = [graph EXCEPT ![d] = closed.graph]
        /\ owner' = [owner EXCEPT ![d] = closed.owner]
        /\ wire' = Transmit(wire, d, conns[d] \ {c},
                            Broadcast(active, {}, reported))
        /\ past' = StillInFlight(past)

-----------------------------------------------------------------------------
(* The connections of Established are up, and every daemon knows the edges *)
(* of the daemons it can reach over them.                                  *)
Init ==
    LET up == DOMAIN Established
        link == [k \in EdgeKey |-> {c \in up : Established[c] = {k[1], k[2]} /\ k[1] # k[2]}]
        full == [k \in EdgeKey |-> IF link[k] = {} THEN NoEdge
                                   ELSE DataOf[CHOOSE c \in link[k] : TRUE]]
    IN  /\ setup \in Setups
        /\ opened = Len(Established) /\ broken = 0 /\ crashed = 0
        /\ ends = [c \in ConnId |-> IF c \in up THEN Established[c] ELSE {}]
        /\ conns = [d \in Daemon |-> {c \in up : d \in Established[c]}]
        /\ edge_peer = conns
        /\ owner = [d \in Daemon |-> [p \in Daemon |->
                        IF link[<<d, p>>] = {} THEN NoConn
                        ELSE CHOOSE c \in link[<<d, p>>] : TRUE]]
        /\ graph = [d \in Daemon |-> [k \in EdgeKey |->
                        IF k[1] \in Reachable(full, d) THEN full[k] ELSE NoEdge]]
        /\ wire = [c \in ConnId |-> [d \in Daemon |-> <<>>]]
        /\ past = [d \in Daemon |-> {}]

(* Two daemons authenticate over a new connection: each has sent its ACK   *)
(* and will activate the connection when it reads the other's.  Nothing    *)
(* prevents a second connection between the same two.                      *)
Connect(pair) ==
    /\ opened < MaxConns
    /\ LET c == opened + 1
       IN  /\ opened' = c
           /\ ends' = [ends EXCEPT ![c] = pair]
           /\ conns' = [d \in Daemon |-> IF d \in pair THEN conns[d] \union {c}
                                                      ELSE conns[d]]
           /\ wire' = [wire EXCEPT ![c] =
                          [d \in Daemon |-> IF d \in pair THEN <<Ack>> ELSE <<>>]]
    /\ UNCHANGED <<setup, edge_peer, owner, graph, past, broken, crashed>>

(* Mutant: a new connection is told nothing of what is known.              *)
ExistingStateNone(d, g) == <<>>

(* existing_state_messages: every known edge, in the order of the keys.    *)
Before(j, k) == j[1] < k[1] \/ (j[1] = k[1] /\ j[2] < k[2])

Nth(keys, n) == CHOOSE k \in keys : Cardinality({j \in keys : Before(j, k)}) = n - 1

ExistingState(d, g) ==
    LET known == {k \in EdgeKey : g[k] # NoEdge}
        Tell(i, k) == AddEdge(Nonce(d, i), k[1], k[2], g[k])
    IN  IF d \in TunnelServers THEN <<>>
        ELSE [i \in 1 .. Cardinality(known) |-> Tell(i, Nth(known, i))]

(* Mutant: the older connection to the same peer stays open.               *)
ActivateKeepsOld(d, c) ==
    LET p == Peer(c, d)
        add == AddEdge(Nonce(d, 1), d, p, DataOf[c])
    IN  /\ edge_peer' = [edge_peer EXCEPT ![d] = @ \union {c}]
        /\ owner' = [owner EXCEPT ![d][p] = c]
        /\ graph' = [graph EXCEPT ![d][<<d, p>>] = DataOf[c]]
        /\ wire' = Transmit(Consumed(c, d), d, conns[d],
                            Broadcast(edge_peer[d] \union {c}, {}, <<add>>))
        /\ past' = StillInFlight(past)
        /\ UNCHANGED conns

(* MetaAuthEvent::Activated: an older connection to the same peer is       *)
(* closed without a report, this one takes the edge over, the peer is told *)
(* everything and everybody is told of the edge.                           *)
Activate(d, c) ==
    LET p == Peer(c, d)
        old == {o \in edge_peer[d] \ {c} : Peer(o, d) = p}
        closed == IF old = {}
                    THEN [graph |-> graph[d], owner |-> owner[d], dels |-> <<>>]
                    ELSE Closed(d, CHOOSE o \in old : TRUE)
        gone == IF old = {} THEN {} ELSE {CHOOSE o \in old : TRUE}
        live == conns[d] \ gone
        active == (edge_peer[d] \ gone) \union {c}
        sync == ExistingState(d, closed.graph)
        add == AddEdge(Nonce(d, Len(sync) + 1), d, p, DataOf[c])
        told == IF d \in TunnelServers THEN {c} ELSE active
    IN  /\ conns' = [conns EXCEPT ![d] = live]
        /\ edge_peer' = [edge_peer EXCEPT ![d] = active]
        /\ owner' = [owner EXCEPT ![d] = [closed.owner EXCEPT ![p] = c]]
        /\ graph' = [graph EXCEPT ![d] =
                        [closed.graph EXCEPT ![<<d, p>>] = DataOf[c]]]
        /\ wire' = Transmit(Consumed(c, d), d, live,
                            Both(To(c, sync), Broadcast(told, {}, <<add>>)))
        /\ past' = StillInFlight(past)

RecvAck(d, c) ==
    /\ wire[c][d] # <<>> /\ Head(wire[c][d]) = Ack
    /\ Activate(d, c)
    /\ UNCHANGED <<setup, opened, ends, broken, crashed>>

-----------------------------------------------------------------------------
(* A flooded request that d has seen before is dropped (mark_seen).        *)
Receives(d, c, type) ==
    /\ wire[c][d] # <<>>
    /\ Head(wire[c][d]).type = type

Forget(d, c) ==
    /\ wire' = Consumed(c, d)
    /\ UNCHANGED graph

(* A request answered to the connection it came from.                      *)
Correct(d, c, msg) ==
    /\ wire' = Transmit(Consumed(c, d), d, conns[d], To(c, <<msg>>))
    /\ UNCHANGED graph

(* A tunnel server ignores edges that touch neither itself nor the peer.   *)
Indirect(d, c, m) ==
    d \in TunnelServers /\ {m.from, m.to} \intersect {d, Peer(c, d)} = {}

(* Mutant: a tunnel server relays like everybody else.                     *)
RelayAlways(d, c, msgs) ==
    Both(Broadcast(edge_peer[d], {c}, SubSeq(msgs, 1, 1)),
         Broadcast(edge_peer[d], {}, SubSeq(msgs, 2, Len(msgs))))

(* A deletion that d adds of its own goes to the sender of the first, too. *)
Relay(d, c, msgs) ==
    IF d \in TunnelServers THEN Nothing
    ELSE Both(Broadcast(edge_peer[d], {c}, SubSeq(msgs, 1, 1)),
              Broadcast(edge_peer[d], {}, SubSeq(msgs, 2, Len(msgs))))

(* Mutant: a daemon contradicts others about any edge it knows.            *)
HandleAddEdgeArgues(d, c, m) ==
    LET existing == graph[d][<<m.from, m.to>>]
        ignored == m \in past[d] \/ existing = m.data \/ Indirect(d, c, m)
        id == Nonce(d, 1)
    IN  \/ /\ ignored
           /\ Forget(d, c)
        \/ /\ ~ignored /\ (m.from = d \/ existing # NoEdge)
           /\ Correct(d, c, IF existing = NoEdge THEN DelEdge(id, d, m.to)
                            ELSE AddEdge(id, m.from, m.to, existing))
        \/ /\ ~ignored /\ m.from # d /\ existing = NoEdge
           /\ graph' = [graph EXCEPT ![d][<<m.from, m.to>>] = m.data]
           /\ wire' = Transmit(Consumed(c, d), d, conns[d], Relay(d, c, <<m>>))

(* A request that d has seen, that tells it nothing new, or that a tunnel  *)
(* server does not care for, goes no further.                              *)
HandleAddEdge(d, c, m) ==
    LET existing == graph[d][<<m.from, m.to>>]
        ignored == m \in past[d] \/ existing = m.data \/ Indirect(d, c, m)
        id == Nonce(d, 1)
    IN  \/ /\ ignored
           /\ Forget(d, c)
        \/ /\ ~ignored /\ m.from = d
           /\ Correct(d, c, IF existing = NoEdge THEN DelEdge(id, d, m.to)
                            ELSE AddEdge(id, d, m.to, existing))
        \/ /\ ~ignored /\ m.from # d
           /\ graph' = [graph EXCEPT ![d][<<m.from, m.to>>] = m.data]
           /\ wire' = Transmit(Consumed(c, d), d, conns[d], Relay(d, c, <<m>>))

RecvAddEdge(d, c) ==
    /\ Receives(d, c, "ADD_EDGE")
    /\ HandleAddEdge(d, c, Head(wire[c][d]))
    /\ past' = StillInFlight([past EXCEPT ![d] = @ \union {Head(wire[c][d])}])
    /\ UNCHANGED <<setup, opened, ends, conns, edge_peer, owner, broken, crashed>>

(* Mutant: a daemon believes others about its own edges.                   *)
HandleDelEdgeBelieves(d, c, m) ==
    /\ graph' = [graph EXCEPT ![d] = Without(@, m.from, m.to)]
    /\ wire' = Transmit(Consumed(c, d), d, conns[d], Relay(d, c, <<m>>))

(* After a deletion that cut the node m.to off, the edge from it to d goes *)
(* as well (cleanup_stale_reverse_edge_after_delete).                      *)
HandleDelEdge(d, c, m) ==
    LET existing == graph[d][<<m.from, m.to>>]
        ignored == m \in past[d] \/ existing = NoEdge \/ Indirect(d, c, m)
        id == Nonce(d, 1)
        g1 == Without(graph[d], m.from, m.to)
        reverse == StaleReverse(g1, d, m.to)
    IN  \/ /\ ignored
           /\ Forget(d, c)
        \/ /\ ~ignored /\ m.from = d
           /\ Correct(d, c, AddEdge(id, d, m.to, existing))
        \/ /\ ~ignored /\ m.from # d
           /\ graph' = [graph EXCEPT ![d] = IF reverse THEN Without(g1, m.to, d)
                                                       ELSE g1]
           /\ wire' = Transmit(Consumed(c, d), d, conns[d],
                        Relay(d, c, <<m>> \o IF reverse
                                               THEN <<DelEdge(id, m.to, d)>>
                                               ELSE <<>>))

RecvDelEdge(d, c) ==
    /\ Receives(d, c, "DEL_EDGE")
    /\ HandleDelEdge(d, c, Head(wire[c][d]))
    /\ past' = StillInFlight([past EXCEPT ![d] = @ \union {Head(wire[c][d])}])
    /\ UNCHANGED <<setup, opened, ends, conns, edge_peer, owner, broken, crashed>>

-----------------------------------------------------------------------------
(* The other end is gone and everything it wrote has been read.            *)
EndOfFile(d, c) ==
    /\ c \notin conns[Peer(c, d)]
    /\ wire[c][d] = <<>>
    /\ Close(d, c)
    /\ UNCHANGED <<setup, opened, ends, broken, crashed>>

(* An I/O error, a keepalive timeout or a request by the operator.         *)
Break(d, c) ==
    /\ broken < MaxBreaks
    /\ broken' = broken + 1
    /\ Close(d, c)
    /\ UNCHANGED <<setup, opened, ends, crashed>>

(* Everything d knew is lost.                                              *)
Crash(d) ==
    /\ crashed < MaxCrashes
    /\ crashed' = crashed + 1
    /\ conns' = [conns EXCEPT ![d] = {}]
    /\ edge_peer' = [edge_peer EXCEPT ![d] = {}]
    /\ owner' = [owner EXCEPT ![d] = [p \in Daemon |-> NoConn]]
    /\ graph' = [graph EXCEPT ![d] = [k \in EdgeKey |-> NoEdge]]
    /\ wire' = Transmit(wire, d, {}, Nothing)
    /\ past' = StillInFlight([past EXCEPT ![d] = {}])
    /\ UNCHANGED <<setup, opened, ends, broken>>

Process(d) ==
    \E c \in conns[d] :
        RecvAck(d, c) \/ RecvAddEdge(d, c) \/ RecvDelEdge(d, c) \/ EndOfFile(d, c)

Next ==
    \/ \E pair \in ConnectTo : Connect(pair)
    \/ \E d \in Daemon : Process(d)
    \/ \E d \in Daemon : \E c \in conns[d] : Break(d, c)
    \/ \E d \in Daemon : Crash(d)

Spec == Init /\ [][Next]_vars

FairSpec == Spec /\ \A d \in Daemon : WF_vars(Process(d))

-----------------------------------------------------------------------------
(* Every field keeps its type, and an ADD_EDGE in flight carries real edge  *)
(* data: a daemon never sends one for an edge that it does not have.       *)
TypeOK ==
    /\ opened \in 0 .. MaxConns
    /\ ends \in [ConnId -> SUBSET Daemon]
    /\ conns \in [Daemon -> SUBSET ConnId]
    /\ edge_peer \in [Daemon -> SUBSET ConnId]
    /\ owner \in [Daemon -> [Daemon -> ConnId \union {NoConn}]]
    /\ graph \in [Daemon -> [EdgeKey -> Data \union {NoEdge}]]
    /\ \A m \in InFlight(wire) : m.type = "ADD_EDGE" => m.data \in Data

(* An edge of its own is in a daemon's graph exactly while an activated    *)
(* connection to that peer owns it, and carries that connection's data,    *)
(* although connections to one peer replace each other, close in any order *)
(* and others claim and deny the edge meanwhile.                           *)
OwnEdgesMatchConnections ==
    \A d, p \in Daemon :
        IF owner[d][p] = NoConn
          THEN graph[d][<<d, p>>] = NoEdge
          ELSE /\ owner[d][p] \in edge_peer[d]
               /\ Peer(owner[d][p], d) = p
               /\ graph[d][<<d, p>>] = DataOf[owner[d][p]]

(* A daemon never has two activated connections to one peer, and none that *)
(* is not the owner of its edge.                                           *)
OneActiveConnection ==
    \A d \in Daemon : \A c \in edge_peer[d] :
        c \in conns[d] /\ owner[d][Peer(c, d)] = c

(* Nothing is left to read anywhere.                                       *)
Quiescent ==
    \A d \in Daemon : \A c \in conns[d] :
        wire[c][d] = <<>> /\ c \in conns[Peer(c, d)]

Connected(d, e) ==
    \E c \in edge_peer[d] \intersect edge_peer[e] : ends[c] = {d, e}

(* The daemons that d can truly reach over connections.                    *)
Component(d) ==
    {n \in Daemon :
        \A S \in SUBSET Daemon :
            (d \in S /\ \A a \in S, b \in Daemon : Connected(a, b) => b \in S)
                => n \in S}

(* Once every request has been read, no daemon believes in a phantom: a    *)
(* daemon it thinks reachable is one it has a path of connections to, and  *)
(* every link it routes over is a connection that both ends hold.  (Tunnel *)
(* servers do not pass deletions on.)                                      *)
NoPhantoms ==
    (Quiescent /\ TunnelServers = {}) =>
        \A d \in Daemon :
            LET known == Reachable(graph[d], d)
            IN  /\ known \subseteq Component(d)
                /\ \A x, y \in known : Linked(graph[d], x, y) => Connected(x, y)

(* ... and it misses nothing: it reaches every daemon that connections     *)
(* lead to, and knows every connection among them, with the data that its  *)
(* origin gives it.  (This needs that no connection breaks while another   *)
(* is being activated: see MissingReverseEdgeIsStale.)                     *)
Agreement ==
    Quiescent =>
        \A d \in Daemon :
            /\ Reachable(graph[d], d) = Component(d)
            /\ \A x, y \in Component(d) :
                    /\ Linked(graph[d], x, y) <=> Connected(x, y)
                    /\ Connected(x, y) => graph[d][<<x, y>>] = graph[x][<<x, y>>]

(* A daemon whose only peers are tunnel servers never learns of an edge    *)
(* that is not its own or its peer's to it.                                *)
TunnelIsolation ==
    \A d \in Daemon :
        (\A c \in 1 .. opened : d \in ends[c] => Peer(c, d) \in TunnelServers)
            => \A k \in EdgeKey : graph[d][k] # NoEdge => d \in {k[1], k[2]}

(* A daemon that retracts, on behalf of p, the edge p -> d to itself does  *)
(* so because that edge is stale: when everything has been read, d lacks   *)
(* the edge of p to itself only if they share no activated connection.     *)
MissingReverseEdgeIsStale ==
    Quiescent =>
        \A d, p \in Daemon :
            graph[d][<<p, d>>] = NoEdge => ~Connected(p, d)

(* A flood, with its corrections, dies out.                                *)
FloodEnds == <>[]Quiescent
=============================================================================
