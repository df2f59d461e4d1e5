--------------------------- MODULE GraphMstProofs ---------------------------
(***************************************************************************)
(* For every set of nodes and every graph: the tree that GraphMst grows    *)
(* spans what the daemon can reach, has no cycle, and is the same for all  *)
(* daemons that can reach each other.                                      *)
(***************************************************************************)
EXTENDS GraphMst, FiniteSetTheorems, TLAPS

(* What is fixed during a run.                                             *)
GraphOK == graph \in Graphs

(* The nodes of the tree are reachable, its links run between them, and    *)
(* each edge looked at since the last restart leads nowhere new.  Until an *)
(* edge is skipped, this is because all of them were taken: that is why it *)
(* survives the growth of the tree without a restart.                      *)
InTree == me # NoNode => visited \subseteq Component(me)
LinksInside == mst_edges \subseteq visited \X visited
PassedRejected == \A k \in passed : Rejected(k)
PassedTaken == ~skipped => \A k \in passed : k[1] \in visited /\ k[2] \in visited

IInv == /\ GraphOK /\ TypeOK /\ InTree /\ LinksInside /\ PassedRejected
        /\ PassedTaken /\ TreeHasNoCycle

(* Edges are pairs of different nodes, with integer weights.               *)
LEMMA EdgeFacts ==
    ASSUME GraphOK
    PROVE  /\ graph.edges \subseteq Key
           /\ \A k \in graph.edges : k = <<k[1], k[2]>> /\ k[1] \in Node /\ k[2] \in Node
           /\ \A k \in graph.edges : k[1] # k[2] /\ graph.weight[k] \in Int
           /\ Node \subseteq Nat
BY GraphAssumption DEF GraphOK, Key

(* A component is closed under links.                                      *)
LEMMA ComponentClosed ==
    ASSUME NEW d \in Node, NEW a \in Component(d), NEW b \in Node, Linked(a, b)
    PROVE  b \in Component(d)
BY DEF Component

(* A component is within every closed set that its node is in.             *)
LEMMA ComponentLeast ==
    ASSUME NEW d \in Node, NEW S \in SUBSET Node, d \in S,
           \A a \in S, b \in Node : Linked(a, b) => b \in S
    PROVE  Component(d) \subseteq S
BY DEF Component

(* The order of the edges is strict, so at most one edge is the first.     *)
LEMMA FirstUnique ==
    ASSUME GraphOK, NEW E \in SUBSET graph.edges,
           NEW k \in FirstOf(E), NEW l \in FirstOf(E)
    PROVE  k = l
<1>1. SUFFICES ASSUME k # l PROVE FALSE
  OBVIOUS
<1>2. k \in E /\ l \in E /\ Before(k, l) /\ Before(l, k)
  BY <1>1 DEF FirstOf
<1>3. /\ graph.weight[k] \in Int /\ graph.weight[l] \in Int
      /\ k[1] \in Int /\ k[2] \in Int /\ l[1] \in Int /\ l[2] \in Int
  BY <1>2, EdgeFacts
<1>4. QED
  BY <1>2, <1>3 DEF Before

(* Whose turn it is next, if anybody's.                                    *)
LEMMA NextDaemonFacts ==
    ASSUME NEW done
    PROVE  /\ NoNode \notin Node
           /\ NextDaemon(done) \in Node \union {NoNode}
           /\ done = {} => NextDaemon(done) \in Node
BY GraphAssumption DEF NextDaemon, NoNode

(* The tree starts as one reachable node, or not at all.                   *)
LEMMA StartFacts ==
    ASSUME GraphOK, NEW d \in Node
    PROVE  /\ Start(d) \subseteq Component(d)
           /\ Start(d) # {} => \E n : Start(d) = {n}
<1> DEFINE E == {k \in graph.edges : k[1] \in Component(d)}
<1>1. Start(d) = {k[1] : k \in FirstOf(E)}
  BY DEF Start
<1>2. FirstOf(E) \subseteq E
  BY DEF FirstOf
<1>3. ASSUME NEW k \in FirstOf(E) PROVE FirstOf(E) = {k}
  BY <1>3, FirstUnique, ZenonT(60)
<1>4. Start(d) # {} => \E n : Start(d) = {n}
  <2>1. SUFFICES ASSUME Start(d) # {} PROVE \E n : Start(d) = {n}
    OBVIOUS
  <2>2. PICK k \in FirstOf(E) : TRUE
    BY <2>1, <1>1
  <2>3. Start(d) = {k[1]}
    BY <1>1, <1>3, <2>2
  <2>4. QED
    BY <2>3
<1>5. QED
  BY <1>1, <1>2, <1>4

(* A fresh tree satisfies the invariant.                                   *)
LEMMA FreshTree ==
    ASSUME GraphOK, NEW d \in Node, visited = Start(d), mst_edges = {}
    PROVE  LinksInside /\ TreeHasNoCycle /\ visited \subseteq Node
<1>1. visited \subseteq Node
  BY StartFacts DEF Component
<1>2. TreeHasNoCycle
  <2>1. SUFFICES ASSUME visited # {}
                 PROVE Cardinality(mst_edges) = 2 * (Cardinality(visited) - 1)
    BY DEF TreeHasNoCycle
  <2>2. PICK n : visited = {n}
    BY <2>1, StartFacts
  <2>3. Cardinality({n}) = 1 /\ Cardinality({}) = 0
    BY FS_EmptySet, FS_Singleton
  <2>4. QED
    BY <2>2, <2>3
<1>3. QED
  BY <1>1, <1>2 DEF LinksInside

(* The first state.                                                        *)
LEMMA InitIInv == Init => IInv
<1>1. SUFFICES ASSUME Init PROVE IInv
  OBVIOUS
<1> DEFINE first == NextDaemon({})
<1>2. GraphOK /\ me = first /\ passed = {} /\ visited = Start(first)
      /\ mst_edges = {} /\ skipped = FALSE
  BY <1>1 DEF Init, GraphOK
<1>3. first \in Node
  BY NextDaemonFacts
<1> HIDE DEF first
<1>4. LinksInside /\ TreeHasNoCycle /\ visited \subseteq Node
  BY <1>2, <1>3, FreshTree
<1>5. TypeOK
  BY <1>2, <1>3, <1>4 DEF TypeOK
<1>6. InTree
  BY <1>2, <1>3, StartFacts DEF InTree
<1>7. QED
  BY <1>2, <1>4, <1>5, <1>6 DEF IInv, PassedRejected, PassedTaken

(* Looking at an edge that leads nowhere new.                              *)
LEMMA SkipIInv ==
    ASSUME IInv, NEW k \in Candidates, SkipEdge(k)
    PROVE  IInv'
<1>1. k \in graph.edges
  BY DEF Candidates, FirstOf
<1>2. PassedRejected'
  BY DEF IInv, PassedRejected, SkipEdge, Rejected
<1>3. TypeOK'
  BY <1>1 DEF IInv, TypeOK, SkipEdge
<1>4. (GraphOK /\ InTree /\ LinksInside /\ TreeHasNoCycle)'
  BY DEF IInv, GraphOK, InTree, LinksInside, TreeHasNoCycle, SkipEdge,
         Component, Linked
<1>5. PassedTaken'
  BY DEF PassedTaken, SkipEdge
<1>6. QED
  BY <1>2, <1>3, <1>4, <1>5 DEF IInv

(* One link more for one node more.                                        *)
LEMMA GrowCount ==
    ASSUME NEW V, NEW T \in SUBSET (V \X V), NEW a, NEW b,
           IsFiniteSet(V), a \in V, b \notin V,
           Cardinality(T) = 2 * (Cardinality(V) - 1)
    PROVE  Cardinality(T \union {<<a, b>>, <<b, a>>})
             = 2 * (Cardinality(V \union {a, b}) - 1)
<1>1. IsFiniteSet(T)
  BY FS_Product, FS_Subset
<1>2. <<a, b>> \notin T /\ <<b, a>> \notin T \union {<<a, b>>}
  OBVIOUS
<1> DEFINE T1 == T \union {<<a, b>>}
           T2 == T1 \union {<<b, a>>}
<1>3. IsFiniteSet(T1) /\ Cardinality(T1) = Cardinality(T) + 1
  BY <1>1, <1>2, FS_AddElement
<1>4. Cardinality(T2) = Cardinality(T1) + 1
  BY <1>2, <1>3, FS_AddElement
<1>5. Cardinality(V \union {b}) = Cardinality(V) + 1
  BY FS_AddElement
<1>6. Cardinality(V) \in Nat /\ Cardinality(T) \in Nat
  BY <1>1, FS_CardinalityType
<1>7. T \union {<<a, b>>, <<b, a>>} = T2 /\ V \union {a, b} = V \union {b}
  OBVIOUS
<1>8. Cardinality(T2) = 2 * (Cardinality(V \union {b}) - 1)
  BY <1>3, <1>4, <1>5, <1>6
<1>9. QED
  BY <1>7, <1>8

(* ... whichever of the two nodes is the new one.                          *)
LEMMA GrowCountEither ==
    ASSUME NEW V, NEW T \in SUBSET (V \X V), NEW a, NEW b,
           IsFiniteSet(V), ~(a \in V <=> b \in V),
           Cardinality(T) = 2 * (Cardinality(V) - 1)
    PROVE  Cardinality(T \union {<<a, b>>, <<b, a>>})
             = 2 * (Cardinality(V \union {a, b}) - 1)
<1>1. CASE a \in V /\ b \notin V
  BY <1>1, GrowCount
<1>2. CASE b \in V /\ a \notin V
  <2>1. Cardinality(T \union {<<b, a>>, <<a, b>>})
          = 2 * (Cardinality(V \union {b, a}) - 1)
    BY <1>2, GrowCount
  <2>2. {<<b, a>>, <<a, b>>} = {<<a, b>>, <<b, a>>} /\ {b, a} = {a, b}
    OBVIOUS
  <2>3. QED
    BY <2>1, <2>2
<1>3. QED
  BY <1>1, <1>2

(* Taking an edge that leads out of the tree.                              *)
LEMMA TakeIInv ==
    ASSUME IInv, NEW k \in Candidates, TakeEdge(k)
    PROVE  IInv'
<1> USE DEF IInv
<1>1. k \in graph.edges /\ me # NoNode /\ visited # {}
  BY DEF Candidates, FirstOf
<1>2. k = <<k[1], k[2]>> /\ k[1] \in Node /\ k[2] \in Node /\ me \in Node
  BY <1>1, EdgeFacts DEF TypeOK
<1>3. <<k[2], k[1]>> \in graph.edges /\ ~(k[1] \in visited <=> k[2] \in visited)
  BY DEF TakeEdge, Rejected, Reversed
<1>4. Linked(k[1], k[2]) /\ Linked(k[2], k[1])
  BY <1>1, <1>2, <1>3 DEF Linked
<1>5. visited' = visited \union {k[1], k[2]} /\ mst_edges' = mst_edges \union {k, <<k[2], k[1]>>}
      /\ UNCHANGED <<graph, me>>
  BY DEF TakeEdge, Reversed
<1>6. InTree'
  <2>1. k[1] \in Component(me) /\ k[2] \in Component(me)
    BY <1>1, <1>2, <1>3, <1>4, ComponentClosed DEF InTree
  <2>2. Component(me)' = Component(me)
    BY <1>5 DEF Component, Linked
  <2>3. QED
    BY <1>1, <1>5, <2>1, <2>2 DEF InTree
<1>7. TypeOK'
  <2>1. passed' \subseteq graph.edges
    BY <1>1 DEF TakeEdge, PassedAfter, TypeOK
  <2>2. {k, <<k[2], k[1]>>} \subseteq {l \in graph.edges : Reversed(l) \in graph.edges}
    BY <1>1, <1>2, <1>3 DEF Reversed
  <2>3. mst_edges' \subseteq {l \in graph.edges' : Reversed(l) \in graph.edges'}
    BY <1>5, <2>2 DEF TypeOK, Reversed
  <2>4. skipped' = FALSE /\ visited' \subseteq Node /\ me' \in Node \union {NoNode}
    BY <1>2, <1>5 DEF TakeEdge, TypeOK
  <2>5. QED
    BY <1>5, <2>1, <2>3, <2>4 DEF TypeOK, Reversed
<1>8. LinksInside'
  BY <1>2, <1>5 DEF LinksInside
<1>9. PassedTaken' /\ PassedRejected'
  <2>1. CASE skipped
    BY <2>1 DEF TakeEdge, PassedAfter, PassedTaken, PassedRejected
  <2>2. CASE ~skipped
    <3>1. passed' = passed \union {k}
      BY <2>2 DEF TakeEdge, PassedAfter
    <3>2. \A l \in passed' : l[1] \in visited' /\ l[2] \in visited'
      BY <1>5, <2>2, <3>1 DEF PassedTaken
    <3>3. QED
      BY <3>2 DEF PassedTaken, PassedRejected, Rejected
  <2>3. QED
    BY <2>1, <2>2
<1>10. TreeHasNoCycle'
  <2>1. IsFiniteSet(visited)
    BY GraphAssumption, FS_Subset DEF TypeOK
  <2>2. Cardinality(mst_edges) = 2 * (Cardinality(visited) - 1)
    BY <1>1 DEF TreeHasNoCycle
  <2>3. mst_edges \in SUBSET (visited \X visited)
    BY DEF LinksInside
  <2>4. k \in {<<k[1], k[2]>>}
    BY <1>2
  <2>5. Cardinality(mst_edges \union {<<k[1], k[2]>>, <<k[2], k[1]>>})
            = 2 * (Cardinality(visited \union {k[1], k[2]}) - 1)
    <3>1. ASSUME NEW a, NEW b, ~(a \in visited <=> b \in visited)
          PROVE  Cardinality(mst_edges \union {<<a, b>>, <<b, a>>})
                   = 2 * (Cardinality(visited \union {a, b}) - 1)
      <4> HIDE DEF IInv
      <4> QED
        BY <2>1, <2>2, <2>3, <3>1, GrowCountEither
    <3>2. QED
      BY <1>3, <3>1
  <2>6. mst_edges' = mst_edges \union {<<k[1], k[2]>>, <<k[2], k[1]>>}
    BY <1>5, <2>4
  <2>7. QED
    BY <1>5, <2>5, <2>6 DEF TreeHasNoCycle
<1>11. QED
  BY <1>5, <1>6, <1>7, <1>8, <1>9, <1>10 DEF GraphOK

(* The next daemon begins.                                                 *)
LEMMA TurnIInv ==
    ASSUME IInv, Turn
    PROVE  IInv'
<1> USE DEF IInv
<1>1. PICK next \in Node \union {NoNode} :
         /\ me' = next /\ passed' = {} /\ skipped' = FALSE /\ mst_edges' = {}
         /\ visited' = (IF next = NoNode THEN {} ELSE Start(next))
         /\ graph' = graph
  BY NextDaemonFacts DEF Turn
<1>2. NoNode \notin Node
  BY NextDaemonFacts
<1>3. GraphOK'
  BY <1>1 DEF GraphOK
<1>4. CASE next = NoNode
  <2>1. Cardinality({}) = 0
    BY FS_EmptySet
  <2>2. QED
    BY <1>1, <1>3, <1>4 DEF TypeOK, InTree, LinksInside, PassedRejected,
       PassedTaken, TreeHasNoCycle
<1>5. CASE next # NoNode
  <2>1. visited' = Start(next) /\ next \in Node
    BY <1>1, <1>2, <1>5
  <2>2. Start(next) = Start(next)' /\ Component(next) = Component(next)'
    BY <1>1 DEF Start, Component, Linked, FirstOf, Before
  <2>3. LinksInside' /\ TreeHasNoCycle' /\ visited' \subseteq Node
    <3>1. Start(next) \subseteq Node
      BY <2>1, StartFacts DEF Component
    <3>2. TreeHasNoCycle'
      <4>1. SUFFICES ASSUME visited' # {}
                     PROVE Cardinality(mst_edges') = 2 * (Cardinality(visited') - 1)
        BY DEF TreeHasNoCycle
      <4>2. PICK n : Start(next) = {n}
        BY <4>1, <2>1, StartFacts
      <4>3. Cardinality({n}) = 1 /\ Cardinality({}) = 0
        BY FS_EmptySet, FS_Singleton
      <4>4. QED
        BY <1>1, <2>1, <4>2, <4>3
    <3>3. QED
      BY <1>1, <2>1, <3>1, <3>2 DEF LinksInside
  <2>4. InTree'
    BY <1>1, <2>1, <2>2, StartFacts DEF InTree
  <2>5. QED
    BY <1>1, <1>2, <1>3, <2>3, <2>4 DEF TypeOK, PassedRejected, PassedTaken
<1>6. QED
  BY <1>4, <1>5

(* Every step.                                                             *)
LEMMA NextIInv == IInv /\ [Next]_vars => IInv'
<1>1. SUFFICES ASSUME IInv, [Next]_vars PROVE IInv'
  OBVIOUS
<1>2. ASSUME NEW k \in Candidates, SkipEdge(k) PROVE IInv'
  BY <1>1, <1>2, SkipIInv
<1>3. ASSUME NEW k \in Candidates, TakeEdge(k) PROVE IInv'
  BY <1>1, <1>3, TakeIInv
<1>4. CASE Turn
  BY <1>1, <1>4, TurnIInv
<1>5. CASE UNCHANGED vars
  BY <1>1, <1>5 DEF IInv, GraphOK, TypeOK, InTree, LinksInside, PassedRejected,
     PassedTaken, TreeHasNoCycle, vars, Component, Linked, Rejected
<1>6. QED
  BY <1>1, <1>2, <1>3, <1>4, <1>5 DEF Next

(* A tree that nothing leads out of holds all of the component, since the  *)
(* nodes it lacks are closed under links as well.                          *)
LEMMA IInvSpans == IInv => TreeSpans
<1>1. SUFFICES ASSUME IInv, Finished, visited # {}
               PROVE  visited = Component(me)
  BY DEF TreeSpans
<1>2. me \in Node /\ visited \subseteq Component(me) /\ passed = graph.edges
      /\ visited \subseteq Node
  BY <1>1 DEF Finished, IInv, TypeOK, InTree
<1>3. ASSUME NEW a \in Node, NEW b \in Node, Linked(a, b)
      PROVE  a \in visited <=> b \in visited
  <2>1. <<a, b>> \in passed /\ <<b, a>> \in graph.edges
    BY <1>2, <1>3 DEF Linked
  <2>2. Rejected(<<a, b>>)
    BY <1>1, <2>1 DEF IInv, PassedRejected
  <2>3. QED
    BY <2>1, <2>2 DEF Rejected, Reversed
<1>4. me \in visited
  <2>1. SUFFICES ASSUME me \notin visited PROVE FALSE
    OBVIOUS
  <2>2. Component(me) \subseteq Node \ visited
    BY <1>2, <1>3, <2>1, ComponentLeast
  <2>3. QED
    BY <1>1, <1>2, <2>2
<1>5. Component(me) \subseteq visited
  BY <1>2, <1>3, <1>4, ComponentLeast
<1>6. QED
  BY <1>2, <1>5

-----------------------------------------------------------------------------
(* The invariant holds, TreeHasNoCycle as one of its parts: whatever the   *)
(* graph, the tree that mst_kruskal grows has one link less than nodes.    *)
THEOREM TreeInvariant == Spec => []IInv
BY InitIInv, NextIInv, PTL DEF Spec

(* When mst_kruskal returns, its tree, unless there is none, spans all     *)
(* that the daemon can reach and nothing else.                             *)
THEOREM TreeAlwaysSpans == Spec => []TreeSpans
BY TreeInvariant, IInvSpans, PTL

(* The tree never has a cycle.                                             *)
THEOREM TreeNeverHasCycle == Spec => []TreeHasNoCycle
<1>1. IInv => TreeHasNoCycle
  BY DEF IInv
<1>2. QED
  BY TreeInvariant, <1>1, PTL

-----------------------------------------------------------------------------
(* What can be reached from s in U by the pairs of R.                      *)
Reach(U, R, s) ==
    {x \in U : \A X \in SUBSET U :
        (s \in X /\ \A a \in X, b \in U : <<a, b>> \in R => b \in X) => x \in X}

(* It contains s, is closed, and is the least such ...                     *)
LEMMA ReachClosed ==
    ASSUME NEW U, NEW R, NEW s \in U
    PROVE  /\ s \in Reach(U, R, s)
           /\ \A a \in Reach(U, R, s), b \in U : <<a, b>> \in R => b \in Reach(U, R, s)
           /\ Reach(U, R, s) \subseteq U
BY DEF Reach

(* ... set.                                                                *)
LEMMA ReachLeast ==
    ASSUME NEW U, NEW R, NEW s \in U, NEW X \in SUBSET U, s \in X,
           \A a \in X, b \in U : <<a, b>> \in R => b \in X
    PROVE  Reach(U, R, s) \subseteq X
BY DEF Reach

(* Where every step is determined, there is only one end.                  *)
LEMMA OneEnd ==
    ASSUME NEW U, NEW R, \A a, b, c \in U : <<a, b>> \in R /\ <<a, c>> \in R => b = c,
           NEW s \in U, NEW f \in Reach(U, R, s), NEW g \in Reach(U, R, s),
           \A b \in U : <<f, b>> \notin R, \A b \in U : <<g, b>> \notin R
    PROVE  f = g
<1>1. f \in U /\ g \in U
  BY ReachClosed
<1> DEFINE X == {x \in U : f \in Reach(U, R, x)}
<1>2. s \in X /\ X \in SUBSET U
  OBVIOUS
<1>3. ASSUME NEW a \in X, NEW b \in U, <<a, b>> \in R PROVE b \in X
  <2>1. a # f
    BY <1>3
  <2>2. PICK Y \in SUBSET U : Y = Reach(U, R, b) \union {a}
    BY ReachClosed, <1>3
  <2>3. ASSUME NEW p \in Y, NEW q \in U, <<p, q>> \in R PROVE q \in Y
    <3>1. CASE p = a
      BY <1>3, <2>2, <2>3, <3>1, ReachClosed
    <3>2. CASE p # a
      BY <1>3, <2>2, <2>3, <3>2, ReachClosed
    <3>3. QED
      BY <3>1, <3>2
  <2>4. Reach(U, R, a) \subseteq Y
    BY <1>3, <2>2, <2>3, ReachLeast
  <2>5. QED
    BY <1>3, <2>1, <2>2, <2>4
<1>4. g \in X
  <2> HIDE DEF X
  <2>1. Reach(U, R, s) \subseteq X
    BY <1>2, <1>3, ReachLeast
  <2>2. QED
    BY <2>1
<1>5. Reach(U, R, g) \subseteq {g}
  <2>1. PICK Y \in SUBSET U : Y = {g}
    BY <1>1
  <2>2. \A a \in Y, b \in U : <<a, b>> \in R => b \in Y
    BY <2>1
  <2>3. QED
    BY <1>1, <2>1, <2>2, ReachLeast
<1>6. QED
  BY <1>4, <1>5

-----------------------------------------------------------------------------
(* How two daemons come to the same tree: the state of a tree that grows   *)
(* determines how it goes on, and the start hangs on the component alone.  *)
Moment == <<passed, IF skipped THEN 1 ELSE 0, visited, mst_edges>>

Moments == (SUBSET graph.edges) \X {0, 1} \X (SUBSET Node) \X (SUBSET graph.edges)

Useless(k, V) == Reversed(k) \notin graph.edges \/ (k[1] \in V <=> k[2] \in V)

Following(s, k) ==
    IF Useless(k, s[3]) THEN <<s[1] \union {k}, 1, s[3], s[4]>>
    ELSE <<IF s[2] = 1 THEN {} ELSE s[1] \union {k}, 0,
           s[3] \union {k[1], k[2]}, s[4] \union {k, Reversed(k)}>>

Moves == {m \in Moments \X Moments :
            /\ m[1][3] # {}
            /\ \E k \in FirstOf(graph.edges \ m[1][1]) : m[2] = Following(m[1], k)}

Outset(d) == <<{}, 0, Start(d), {}>>

Grown(d) == Reach(Moments, Moves, Outset(d))

Ended(s) == \A t \in Moments : <<s, t>> \notin Moves

(* The tree of a daemon is one that its start leads to, and those that are *)
(* done have grown to the end.                                             *)
TreesOK ==
    /\ me # NoNode => Moment \in Grown(me)
    /\ \A n \in DOMAIN trees :
          n \in Node /\ \E s \in Grown(n) : Ended(s) /\ trees[n] = s[4]

JInv == IInv /\ TreesOK

(* Every step is determined, for one edge comes first.                     *)
LEMMA MovesDetermined ==
    ASSUME GraphOK, NEW a \in Moments, NEW b \in Moments, NEW c \in Moments,
           <<a, b>> \in Moves, <<a, c>> \in Moves
    PROVE  b = c
<1>1. PICK k \in FirstOf(graph.edges \ a[1]) : b = Following(a, k)
  BY DEF Moves
<1>2. PICK l \in FirstOf(graph.edges \ a[1]) : c = Following(a, l)
  BY DEF Moves
<1>3. k = l
  BY FirstUnique
<1>4. QED
  BY <1>1, <1>2, <1>3

(* A tree starts at its outset.                                            *)
LEMMA OutsetIsMoment ==
    ASSUME GraphOK, NEW d \in Node
    PROVE  Outset(d) \in Moments /\ Outset(d) \in Grown(d)
<1>1. Start(d) \subseteq Node
  BY StartFacts DEF Component
<1>2. Outset(d) \in Moments
  BY <1>1 DEF Outset, Moments
<1>3. QED
  BY <1>2, ReachClosed DEF Grown

(* Daemons that reach each other reach the same nodes ...                  *)
LEMMA SameComponent ==
    ASSUME NEW n \in Node, NEW m \in Component(n)
    PROVE  Component(m) = Component(n)
<1>1. m \in Node /\ m \in Component(m) /\ n \in Component(n)
  BY DEF Component
<1>2. Component(m) \subseteq Component(n)
  <2>1. Component(n) \in SUBSET Node
    BY DEF Component
  <2>2. \A a \in Component(n), b \in Node : Linked(a, b) => b \in Component(n)
    BY ComponentClosed
  <2>3. QED
    BY <1>1, <2>1, <2>2, ComponentLeast
<1>3. n \in Component(m)
  <2>1. SUFFICES ASSUME n \notin Component(m) PROVE FALSE
    OBVIOUS
  <2>2. PICK S : S = Node \ Component(m)
    OBVIOUS
  <2>3. ASSUME NEW a \in S, NEW b \in Node, Linked(a, b) PROVE b \in S
    <3>1. Linked(b, a) /\ a \in Node /\ a \notin Component(m)
      BY <2>2, <2>3 DEF Linked
    <3>2. QED
      BY <1>1, <2>2, <3>1, ComponentClosed
  <2>4. Component(n) \subseteq S
    BY <2>1, <2>2, <2>3, ComponentLeast
  <2>5. QED
    BY <1>1, <2>2, <2>4
<1>4. Component(n) \subseteq Component(m)
  <2>1. Component(m) \in SUBSET Node
    BY DEF Component
  <2>2. \A a \in Component(m), b \in Node : Linked(a, b) => b \in Component(m)
    BY <1>1, ComponentClosed
  <2>3. QED
    BY <1>3, <2>1, <2>2, ComponentLeast
<1>5. QED
  BY <1>2, <1>4

(* ... so their trees have the same start, and the same end.               *)
LEMMA SameEnd ==
    ASSUME JInv
    PROVE  TreesAgree
<1>1. SUFFICES ASSUME NEW m \in DOMAIN trees, NEW n \in DOMAIN trees, m \in Component(n)
               PROVE  trees[m] = trees[n]
  BY DEF TreesAgree
<1>2. m \in Node /\ n \in Node /\ GraphOK
  BY DEF JInv, TreesOK, IInv
<1>3. Grown(m) = Grown(n)
  BY <1>1, <1>2, SameComponent DEF Grown, Outset, Start
<1>4. PICK s \in Grown(n) : Ended(s) /\ trees[m] = s[4]
  BY <1>3 DEF JInv, TreesOK
<1>5. PICK t \in Grown(n) : Ended(t) /\ trees[n] = t[4]
  BY DEF JInv, TreesOK
<1>6. s = t
  <2>1. Outset(n) \in Moments
    BY <1>2, OutsetIsMoment
  <2>2. \A a, b, c \in Moments : <<a, b>> \in Moves /\ <<a, c>> \in Moves => b = c
    BY <1>2, MovesDetermined
  <2>3. PICK o : o = Outset(n)
    OBVIOUS
  <2>4. s \in Reach(Moments, Moves, o) /\ t \in Reach(Moments, Moves, o)
    BY <2>3 DEF Grown
  <2>5. QED
    BY <1>4, <1>5, <2>1, <2>2, <2>3, <2>4, OneEnd DEF Ended
<1>7. QED
  BY <1>4, <1>5, <1>6

(* Where a tree grows to hangs on the graph alone.                         *)
LEMMA GraphStays ==
    ASSUME UNCHANGED graph
    PROVE  /\ \A d : Grown(d)' = Grown(d)
           /\ \A s : Ended(s)' <=> Ended(s)
<1>1. Moments' = Moments
  BY DEF Moments
<1>2. \A E : FirstOf(E)' = FirstOf(E)
  BY DEF FirstOf, Before
<1>3. \A s, k : Following(s, k)' = Following(s, k)
  BY DEF Following, Useless
<1>4. Moves' = Moves
  BY <1>1, <1>2, <1>3 DEF Moves
<1>5. \A d : Component(d)' = Component(d)
  BY DEF Component, Linked
<1>6. \A d : Outset(d)' = Outset(d)
  BY <1>2, <1>5 DEF Outset, Start
<1>7. \A d : Grown(d)' = Grown(d)
  BY <1>1, <1>4, <1>6 DEF Grown, Reach
<1>8. \A s : Ended(s)' <=> Ended(s)
  BY <1>1, <1>4 DEF Ended
<1>9. QED
  BY <1>7, <1>8

(* A state of the invariant is a moment of a tree.                         *)
LEMMA MomentOK ==
    ASSUME IInv
    PROVE  Moment \in Moments
BY DEF IInv, TypeOK, Moment, Moments

(* Looking at an edge is a move.                                           *)
LEMMA EdgeMoves ==
    ASSUME JInv, IInv', NEW k \in Candidates, SkipEdge(k) \/ TakeEdge(k)
    PROVE  JInv'
<1>1. /\ k \in FirstOf(graph.edges \ passed) /\ me # NoNode /\ visited # {}
      /\ UNCHANGED <<graph, me, trees>>
  BY DEF Candidates, SkipEdge, TakeEdge
<1>2. PICK s : s = Moment
  OBVIOUS
<1>3. PICK t : t = Moment'
  OBVIOUS
<1>4. s \in Moments /\ s[1] = passed /\ s[2] = (IF skipped THEN 1 ELSE 0)
      /\ s[3] = visited /\ s[4] = mst_edges
  BY <1>2, MomentOK DEF JInv, Moment
<1>5. t \in Moments
  <2>1. graph'.edges = graph.edges
    BY <1>1
  <2>2. QED
    BY <1>3, <2>1 DEF IInv, TypeOK, Moment, Moments
<1>6. Useless(k, s[3]) <=> Rejected(k)
  BY <1>4 DEF Useless, Rejected
<1>7. t = Following(s, k)
  <2>1. CASE SkipEdge(k)
    <3>1. /\ Rejected(k) /\ skipped' = TRUE /\ passed' = passed \union {k}
          /\ visited' = visited /\ mst_edges' = mst_edges
      BY <2>1 DEF SkipEdge
    <3>2. t = <<passed \union {k}, 1, visited, mst_edges>>
      BY <1>3, <3>1 DEF Moment
    <3>3. QED
      BY <1>4, <1>6, <3>1, <3>2 DEF Following
  <2>2. CASE TakeEdge(k)
    <3>1. /\ ~Rejected(k) /\ skipped' = FALSE /\ passed' = PassedAfter(k)
          /\ visited' = visited \union {k[1], k[2]}
          /\ mst_edges' = mst_edges \union {k, Reversed(k)}
      BY <2>2 DEF TakeEdge
    <3>2. PassedAfter(k) = IF s[2] = 1 THEN {} ELSE s[1] \union {k}
      BY <1>4 DEF PassedAfter
    <3>3. t = <<PassedAfter(k), 0, visited \union {k[1], k[2]},
                mst_edges \union {k, Reversed(k)}>>
      BY <1>3, <3>1 DEF Moment
    <3>4. QED
      BY <1>4, <1>6, <3>1, <3>2, <3>3 DEF Following
  <2>3. QED
    BY <2>1, <2>2
<1>8. <<s, t>> \in Moves
  BY <1>1, <1>4, <1>5, <1>7 DEF Moves
<1>9. t \in Grown(me)
  <2>1. s \in Grown(me) /\ me \in Node /\ GraphOK
    BY <1>1, <1>2 DEF JInv, TreesOK, IInv, TypeOK
  <2>2. PICK o : o = Outset(me)
    OBVIOUS
  <2>3. o \in Moments
    BY <2>1, <2>2, OutsetIsMoment
  <2>4. s \in Reach(Moments, Moves, o)
    BY <2>1, <2>2 DEF Grown
  <2>5. t \in Reach(Moments, Moves, o)
    BY <1>5, <1>8, <2>3, <2>4, ReachClosed
  <2>6. QED
    BY <2>2, <2>5 DEF Grown
<1>10. TreesOK'
  BY <1>1, <1>3, <1>9, GraphStays DEF JInv, TreesOK
<1>11. QED
  BY <1>10 DEF JInv

(* The tree of a daemon that is done has grown to the end.                 *)
LEMMA TurnEnds ==
    ASSUME JInv, IInv', Turn
    PROVE  JInv'
<1>1. PICK next :
         /\ next = NextDaemon(DOMAIN trees \union {me})
         /\ me' = next /\ passed' = {} /\ skipped' = FALSE /\ mst_edges' = {}
         /\ visited' = (IF next = NoNode THEN {} ELSE Start(next))
         /\ trees' = [n \in DOMAIN trees \union {me} |->
                          IF n = me THEN mst_edges ELSE trees[n]]
         /\ UNCHANGED graph
  BY DEF Turn
<1>2. /\ me # NoNode /\ me \in Node /\ (visited = {} \/ passed = graph.edges)
      /\ IInv /\ GraphOK /\ next \in Node \union {NoNode}
  BY <1>1, NextDaemonFacts DEF Turn, Finished, JInv, IInv, TypeOK
<1>3. ASSUME next # NoNode PROVE Moment' \in Grown(next)
  <2>1. Moment' = Outset(next)
    BY <1>1, <1>3 DEF Moment, Outset
  <2>2. QED
    BY <1>2, <1>3, <2>1, OutsetIsMoment
<1>4. PICK s : s = Moment
  OBVIOUS
<1>5. s[1] = passed /\ s[3] = visited /\ s[4] = mst_edges /\ s \in Grown(me)
  BY <1>2, <1>4 DEF Moment, JInv, TreesOK
<1>6. Ended(s)
  <2>1. SUFFICES ASSUME NEW t \in Moments, <<s, t>> \in Moves PROVE FALSE
    BY DEF Ended
  <2>2. s[3] # {} /\ FirstOf(graph.edges \ s[1]) # {}
    BY <2>1 DEF Moves
  <2>3. FirstOf({}) = {}
    BY DEF FirstOf
  <2>4. QED
    BY <1>2, <1>5, <2>2, <2>3
<1>7. ASSUME NEW n \in DOMAIN trees'
      PROVE  n \in Node /\ \E u \in Grown(n) : Ended(u) /\ trees'[n] = u[4]
  <2>1. CASE n = me
    BY <1>1, <1>2, <1>5, <1>6, <2>1
  <2>2. CASE n # me
    BY <1>1, <1>7, <2>2 DEF JInv, TreesOK
  <2>3. QED
    BY <2>1, <2>2
<1>8. TreesOK'
  BY <1>1, <1>3, <1>7, GraphStays DEF TreesOK
<1>9. QED
  BY <1>8 DEF JInv

(* The first tree starts at its outset.                                    *)
LEMMA InitJInv == Init => JInv
<1>1. SUFFICES ASSUME Init PROVE JInv
  OBVIOUS
<1>2. IInv /\ GraphOK
  BY <1>1, InitIInv DEF IInv
<1>3. me \in Node /\ Moment = Outset(me)
  BY <1>1, NextDaemonFacts DEF Init, Moment, Outset
<1>4. QED
  BY <1>1, <1>2, <1>3, OutsetIsMoment DEF JInv, TreesOK, Init

(* Every step.                                                             *)
LEMMA NextJInv == JInv /\ [Next]_vars => JInv'
<1>1. SUFFICES ASSUME JInv, [Next]_vars PROVE JInv'
  OBVIOUS
<1>2. IInv'
  BY <1>1, NextIInv DEF JInv
<1>3. CASE Turn
  BY <1>1, <1>2, <1>3, TurnEnds
<1>4. ASSUME NEW k \in Candidates, SkipEdge(k) \/ TakeEdge(k) PROVE JInv'
  BY <1>1, <1>2, <1>4, EdgeMoves
<1>5. CASE UNCHANGED vars
  <2>1. UNCHANGED graph
    BY <1>5 DEF vars
  <2>2. TreesOK'
    BY <1>1, <1>5, <2>1, GraphStays DEF JInv, TreesOK, vars, Moment
  <2>3. QED
    BY <1>2, <2>2 DEF JInv
<1>6. QED
  BY <1>1, <1>3, <1>4, <1>5 DEF Next

(* Daemons that can reach each other build the same tree, each on its own. *)
THEOREM TreesAlwaysAgree == Spec => []TreesAgree
BY InitJInv, NextJInv, SameEnd, PTL DEF Spec
=============================================================================
