----------------------------- MODULE GraphRoutes -----------------------------
(***************************************************************************)
(* The routes each daemon computes from the edges it knows: Graph::sssp_bfs*)
(* of tinc-core/src/graph.rs, a breadth-first search that revisits a node  *)
(* when it finds a lighter path of the same length, or a direct one where  *)
(* it had an indirect one.                                                 *)
(*                                                                         *)
(* The daemons agree on the edges (MetaMesh) and each runs the search with *)
(* itself as the source; `me` is the daemon whose turn it is.  One step    *)
(* takes a node off the queue or looks at one of its edges.                *)
(***************************************************************************)
EXTENDS Integers, Sequences, FiniteSets

CONSTANTS
    Node,       \* the nodes, numbered in the order of their names
    Graphs,     \* the graphs to search: sets of edges with their data
    IntMod      \* 2^32 in the code: weighted distances are i32 and wrap

Key == Node \X Node

(* An edge never leads from a node to itself: the parser refuses it.       *)
ASSUME GraphAssumption ==
    /\ Node \subseteq Nat \ {0} /\ IsFiniteSet(Node) /\ Node # {}
    /\ IntMod \in Nat \ {0} /\ IntMod % 2 = 0
    /\ \A G \in Graphs :
          /\ G.edges \subseteq {k \in Key : k[1] # k[2]}
          /\ G.weight \in [Key -> Int]
          /\ G.indirect \subseteq Key     \* those with OPTION_INDIRECT

NoNode == 0

VARIABLES
    graph,              \* the graph all of them know
    me,                 \* the daemon that runs the search, NoNode at the end
    queue,              \* the nodes whose edges are to be followed
    current,            \* the node whose edges are being followed
    targets,            \* where those of its edges lead that are still to do
    visited,            \* the nodes found so far
    indirect,           \* the nodes that cannot be talked to directly
    distance,           \* the number of hops
    weighted_distance,  \* the weight of the path that next_hop starts
    next_hop,           \* the neighbour to send through
    via,                \* the last node on the path to talk to directly
    tables              \* tables[n]: the results of the daemons that are done

node_vars == <<visited, indirect, distance, weighted_distance, next_hop, via>>
vars == <<graph, me, queue, current, targets, node_vars, tables>>

-----------------------------------------------------------------------------
(* has_reverse_edge                                                        *)
Linked(a, b) == <<a, b>> \in graph.edges /\ <<b, a>> \in graph.edges

(* outgoing_edges, and the one of them that is next in the map's order.    *)
Outgoing(n) == {b \in Node : <<n, b>> \in graph.edges}
NextTarget == {b \in targets : \A c \in targets : b <= c}

Wrap(x) == ((x + IntMod \div 2) % IntMod) - IntMod \div 2

NewDistance == distance[current] + 1
NewWeighted(to) == Wrap(weighted_distance[current] + graph.weight[<<current, to>>])
NewIndirect(to) == current \in indirect \/ <<current, to>> \in graph.indirect

(* Mutant: a known node is never looked at again.                          *)
KeepFirstRoute(to) == to \in visited

(* Mutant: a lighter path counts even if it is longer.                     *)
KeepLighterRoute(to) ==
    /\ to \in visited
    /\ to \notin indirect \/ NewIndirect(to)
    /\ weighted_distance[to] <= NewWeighted(to)

(* should_keep_existing_route                                              *)
KeepRoute(to) ==
    /\ to \in visited
    /\ to \notin indirect \/ NewIndirect(to)
    /\ distance[to] # NewDistance \/ weighted_distance[to] <= NewWeighted(to)

(* The edge from the current node to `to` changes nothing.                 *)
Ignored(to) == to = me \/ ~Linked(current, to) \/ KeepRoute(to)

UpdateNextHop(to) ==
    \/ to \notin visited
    \/ distance[to] = NewDistance /\ weighted_distance[to] > NewWeighted(to)

-----------------------------------------------------------------------------

(* The first node of the queue, whose edges are followed next.             *)
PopFront ==
    /\ me # NoNode /\ targets = {} /\ queue # <<>>
    /\ current' = Head(queue)
    /\ queue' = Tail(queue)
    /\ targets' = Outgoing(Head(queue))
    /\ UNCHANGED <<graph, me, node_vars, tables>>

SkipEdge(to) ==
    /\ Ignored(to)
    /\ targets' = targets \ {to}
    /\ UNCHANGED <<graph, me, queue, current, node_vars, tables>>

(* Mutant: an indirect node is its own relay.                              *)
ViaSelf(to) == to

(* Whom to talk to directly in order to reach `to`.                        *)
Via(to) == IF NewIndirect(to) THEN via[current] ELSE to

NextHop(to) == IF next_hop[current] = me THEN to ELSE next_hop[current]

TakeEdge(to) ==
    /\ ~Ignored(to)
    /\ visited' = visited \union {to}
    /\ indirect' = IF NewIndirect(to) THEN indirect \union {to}
                                      ELSE indirect \ {to}
    /\ distance' = [distance EXCEPT ![to] = NewDistance]
    /\ weighted_distance' =
         IF UpdateNextHop(to)
           THEN [weighted_distance EXCEPT ![to] = NewWeighted(to)]
           ELSE weighted_distance
    /\ next_hop' = IF UpdateNextHop(to)
                     THEN [next_hop EXCEPT ![to] = NextHop(to)]
                     ELSE next_hop
    /\ via' = [via EXCEPT ![to] = Via(to)]
    /\ queue' = Append(queue, to)
    /\ targets' = targets \ {to}
    /\ UNCHANGED <<graph, me, current, tables>>

(* The state before the search of daemon d.                                *)
Start(d) ==
    [visited |-> Node \intersect {d}, indirect |-> Node \ {d},
     zero |-> [n \in Node |-> 0],
     hop |-> [n \in Node |-> IF n = d THEN d ELSE NoNode]]

(* The daemons take turns in any fixed order.                              *)
NextDaemon(done) ==
    IF Node \subseteq done THEN NoNode ELSE CHOOSE n \in Node : n \notin done

First == NextDaemon({})

Init ==
    /\ graph \in Graphs
    /\ me = First
    /\ queue = <<First>>
    /\ current = First
    /\ targets = {}
    /\ visited = Start(First).visited
    /\ indirect = Start(First).indirect
    /\ distance = Start(First).zero
    /\ weighted_distance = Start(First).zero
    /\ next_hop = Start(First).hop
    /\ via = Start(First).hop
    /\ tables = [n \in {} |-> 0]

Finished == me # NoNode /\ targets = {} /\ queue = <<>>

Result ==
    [visited |-> visited, indirect |-> indirect, distance |-> distance,
     weighted_distance |-> weighted_distance, next_hop |-> next_hop, via |-> via]

(* The search of `me` is over and the next daemon's begins.                *)
Turn ==
    LET next == NextDaemon(DOMAIN tables \union {me})
        start == Start(next)
    IN  /\ Finished
        /\ tables' = [n \in DOMAIN tables \union {me} |->
                        IF n = me THEN Result ELSE tables[n]]
        /\ me' = next
        /\ queue' = IF next = NoNode THEN <<>> ELSE <<next>>
        /\ visited' = start.visited
        /\ indirect' = start.indirect
        /\ distance' = start.zero
        /\ weighted_distance' = start.zero
        /\ next_hop' = start.hop
        /\ via' = start.hop
        /\ UNCHANGED <<graph, current, targets>>

Next ==
    \/ PopFront
    \/ \E to \in NextTarget : SkipEdge(to) \/ TakeEdge(to)
    \/ Turn

Spec == Init /\ [][Next]_vars

FairSpec == Spec /\ WF_vars(Next)

-----------------------------------------------------------------------------
(* The least set that contains d and follows every link.                   *)
Component(d) ==
    {n \in Node :
        \A S \in SUBSET Node :
            (d \in S /\ \A a \in S, b \in Node : Linked(a, b) => b \in S)
                => n \in S}

(* ... and the one that follows only links that are not indirect.          *)
DirectLink(a, b) == Linked(a, b) /\ <<a, b>> \notin graph.indirect

DirectComponent(d) ==
    {n \in Node :
        \A S \in SUBSET Node :
            (d \in S /\ \A a \in S, b \in Node : DirectLink(a, b) => b \in S)
                => n \in S}

(* The fields keep their types: in particular the weighted distance, a sum *)
(* of weights that others chose, stays an i32.                             *)
TypeOK ==
    /\ me \in Node \union {NoNode}
    /\ queue \in Seq(Node) /\ targets \subseteq Node /\ current \in Node
    /\ visited \subseteq Node /\ indirect \subseteq Node
    /\ distance \in [Node -> Nat]
    /\ weighted_distance \in [Node -> -(IntMod \div 2) .. IntMod \div 2 - 1]
    /\ next_hop \in [Node -> Node \union {NoNode}]
    /\ via \in [Node -> Node \union {NoNode}]

(* At the end of its search a daemon has found exactly the nodes to which  *)
(* a path of links leads, although one-way edges and edges back to itself  *)
(* are passed over, and nodes are passed over that were found before.      *)
VisitedIsComponent == Finished => visited = Component(me)

(* At every moment of the search, what a node found is sent through is a   *)
(* neighbour of the searching daemon.                                      *)
NextHopIsNeighbour ==
    me # NoNode =>
        \A n \in visited \ {me} : next_hop[n] \in Node /\ Linked(me, next_hop[n])

(* Whom a daemon is to talk to directly in order to reach a node is one to *)
(* whom a path of direct links leads, although routes are upgraded and     *)
(* overwritten while those that were derived from them stay.  The same     *)
(* holds of a node that counts as direct.                                  *)
ViaIsDirect ==
    me # NoNode =>
        \A n \in visited :
            /\ via[n] \in DirectComponent(me)
            /\ n \notin indirect => n \in DirectComponent(me)

(* Where a packet for `to` is after k hops from n: each daemon passes it   *)
(* on to its own next hop.                                                 *)
Hops(n, to) ==
    LET at[k \in 0 .. Cardinality(Node)] ==
            IF k = 0 THEN n ELSE tables[at[k - 1]].next_hop[to]
    IN  at

(* In a mesh without indirect edges no packet runs in circles: the next    *)
(* hops of the daemons on its way, each computed on its own, bring it to   *)
(* its destination in just the number of hops that the first one counted,  *)
(* which are fewer than there are daemons.                                 *)
PacketsArrive ==
    (me = NoNode /\ graph.indirect = {}) =>
        \A n, to \in Node :
            to \in tables[n].visited =>
                /\ tables[n].distance[to] < Cardinality(Node)
                /\ \A k \in 0 .. Cardinality(Node) :
                      Hops(n, to)[k] = to <=> k >= tables[n].distance[to]

(* No path is so heavy, or so light, that its weight wraps around.         *)
SumsFit ==
    \A k \in graph.edges :
        2 * Cardinality(Node) * graph.weight[k] \in -IntMod .. IntMod

(* The weights of the paths that are a link longer than those of v.        *)
Longer(v) ==
    [n \in Node |-> UNION {{x + graph.weight[<<m, n>>] : x \in v[m]}
                              : m \in {m \in Node : Linked(m, n)}}]

(* The weights of the paths from d to n that are k links long.             *)
Weights(d) ==
    LET w[k \in 0 .. Cardinality(Node)] ==
            IF k = 0 THEN [n \in Node |-> IF n = d THEN {0} ELSE {}]
                     ELSE Longer(w[k - 1])
    IN  w

(* ... and the path is the lightest among the shortest ones.               *)
RoutesAreBest ==
    (Finished /\ graph.indirect = {} /\ SumsFit) =>
        \A n \in visited :
            LET hops == {k \in 0 .. Cardinality(Node) : Weights(me)[k][n] # {}}
            IN  /\ distance[n] \in hops
                /\ \A k \in hops : distance[n] <= k
                /\ weighted_distance[n] \in Weights(me)[distance[n]][n]
                /\ \A x \in Weights(me)[distance[n]][n] : weighted_distance[n] <= x

=============================================================================
