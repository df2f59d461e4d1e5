------------------------------ MODULE GraphMst ------------------------------
(***************************************************************************)
(* The tree over which a daemon sends broadcast packets:                   *)
(* Graph::mst_kruskal of tinc-core/src/graph.rs.  It grows one tree over   *)
(* the edges sorted by weight, goes on from where it is after an edge it   *)
(* takes, and starts over at the lightest edge if it had to skip any.      *)
(*                                                                         *)
(* Every daemon builds the tree on its own from the edges that all of them *)
(* know, and from the nodes that its search (GraphRoutes) found reachable. *)
(* `me` is the daemon whose turn it is.                                    *)
(***************************************************************************)
EXTENDS Integers, FiniteSets

CONSTANTS
    Node,       \* the nodes, numbered in the order of their names
    Graphs      \* the graphs: sets of edges with their weights

Key == Node \X Node

ASSUME GraphAssumption ==
    /\ Node \subseteq Nat \ {0} /\ IsFiniteSet(Node) /\ Node # {}
    /\ \A G \in Graphs :
          /\ G.edges \subseteq {k \in Key : k[1] # k[2]}
          /\ G.weight \in [Key -> Int]

NoNode == 0

VARIABLES
    graph,      \* the graph all of them know
    me,         \* the daemon that builds its tree, NoNode at the end
    passed,     \* the edges before `index`, which were looked at
    skipped,    \* whether one of them was skipped
    visited,    \* the nodes in the tree
    mst_edges,  \* the edges of the tree, in both directions
    trees       \* trees[n]: the trees of the daemons that are done

vars == <<graph, me, passed, skipped, visited, mst_edges, trees>>

-----------------------------------------------------------------------------
Reversed(k) == <<k[2], k[1]>>

(* has_reverse_edge                                                        *)
Linked(a, b) == <<a, b>> \in graph.edges /\ <<b, a>> \in graph.edges

(* The least set that contains d and follows every link: what the search   *)
(* of d marks reachable (GraphRoutes, VisitedIsComponent).                 *)
Component(d) ==
    {n \in Node :
        \A S \in SUBSET Node :
            (d \in S /\ \A a \in S, b \in Node : Linked(a, b) => b \in S)
                => n \in S}

(* Mutant: edges of the same weight come in any order.                     *)
BeforeInAnyOrder(k, l) == graph.weight[k] <= graph.weight[l]

(* The order of weight_sorted_edges: by weight, then by name.              *)
Before(k, l) ==
    \/ graph.weight[k] < graph.weight[l]
    \/ graph.weight[k] = graph.weight[l] /\ k[1] < l[1]
    \/ graph.weight[k] = graph.weight[l] /\ k[1] = l[1] /\ k[2] < l[2]

(* The first of the edges E in that order, if there is any.                *)
FirstOf(E) == {k \in E : \A l \in E \ {k} : Before(k, l)}

(* The tree starts at the origin of the first edge that leaves a reachable *)
(* node; without one there is no tree.                                     *)
Start(d) == {k[1] : k \in FirstOf({k \in graph.edges : k[1] \in Component(d)})}

(* An edge without its reverse, inside the tree or out of its reach.       *)
Rejected(k) ==
    Reversed(k) \notin graph.edges \/ (k[1] \in visited <=> k[2] \in visited)

(* The edge at `index`, while there is a tree to grow.                     *)
Candidates == IF me = NoNode \/ visited = {} THEN {}
              ELSE FirstOf(graph.edges \ passed)

SkipEdge(k) ==
    /\ Rejected(k)
    /\ skipped' = TRUE
    /\ passed' = passed \union {k}
    /\ UNCHANGED <<graph, me, visited, mst_edges, trees>>

(* Mutant: the edges skipped before are not looked at again.               *)
PassedWithoutRestart(k) == passed \union {k}

(* Edges that were skipped may lead out of the tree now that it has grown. *)
PassedAfter(k) == IF skipped THEN {} ELSE passed \union {k}

TakeEdge(k) ==
    /\ ~Rejected(k)
    /\ visited' = visited \union {k[1], k[2]}
    /\ mst_edges' = mst_edges \union {k, Reversed(k)}
    /\ passed' = PassedAfter(k)
    /\ skipped' = FALSE
    /\ UNCHANGED <<graph, me, trees>>

Finished == me # NoNode /\ (visited = {} \/ passed = graph.edges)

(* The daemons take turns in any fixed order.                              *)
NextDaemon(done) ==
    IF Node \subseteq done THEN NoNode ELSE CHOOSE n \in Node : n \notin done

Init ==
    /\ graph \in Graphs
    /\ me = NextDaemon({})
    /\ passed = {}
    /\ skipped = FALSE
    /\ visited = Start(NextDaemon({}))
    /\ mst_edges = {}
    /\ trees = [n \in {} |-> {}]

(* The tree of `me` is complete and the next daemon begins.                *)
Turn ==
    LET next == NextDaemon(DOMAIN trees \union {me})
    IN  /\ Finished
        /\ trees' = [n \in DOMAIN trees \union {me} |->
                        IF n = me THEN mst_edges ELSE trees[n]]
        /\ me' = next
        /\ passed' = {}
        /\ skipped' = FALSE
        /\ visited' = IF next = NoNode THEN {} ELSE Start(next)
        /\ mst_edges' = {}
        /\ UNCHANGED graph

Next == (\E k \in Candidates : SkipEdge(k) \/ TakeEdge(k)) \/ Turn

Spec == Init /\ [][Next]_vars

FairSpec == Spec /\ WF_vars(Next)

-----------------------------------------------------------------------------
(* The fields keep their types, and only edges that are known in both      *)
(* directions get into the tree.                                           *)
TypeOK ==
    /\ me \in Node \union {NoNode}
    /\ passed \subseteq graph.edges
    /\ skipped \in BOOLEAN
    /\ visited \subseteq Node
    /\ mst_edges \subseteq {k \in graph.edges : Reversed(k) \in graph.edges}

(* The tree reaches every node that the daemon can reach, and no other: a  *)
(* broadcast packet gets to all of them.                                   *)
TreeSpans == (Finished /\ visited # {}) => visited = Component(me)

(* A tree has one link less than nodes: together with TreeSpans, no packet *)
(* sent over it arrives twice.                                             *)
TreeHasNoCycle ==
    visited # {} => Cardinality(mst_edges) = 2 * (Cardinality(visited) - 1)

(* The daemons of one component build the same tree, each on its own:      *)
(* otherwise a packet that is passed on along one's tree and then along    *)
(* another's gets lost or goes round in circles.                           *)
TreesAgree ==
    \A m, n \in DOMAIN trees : m \in Component(n) => trees[m] = trees[n]

=============================================================================
