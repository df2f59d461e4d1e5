-------------------------- MODULE GraphRoutesProofs --------------------------
(***************************************************************************)
(* For every set of nodes, every graph and every width of the weights: the *)
(* search of GraphRoutes finds exactly the nodes that links lead to, sends *)
(* only through neighbours, and relays only through nodes that can be      *)
(* talked to directly.  That weights wrap around does not matter for this. *)
(* Without indirect edges the next hops of all daemons bring a packet to   *)
(* its destination; and as long as no weight wraps around, the routes are  *)
(* the lightest of the shortest.                                           *)
(***************************************************************************)
EXTENDS GraphRoutes, BasicLemmas, FiniteSetTheorems

(* What is fixed during a run.                                             *)
GraphOK == graph \in Graphs

InQueue(n) == \E i \in DOMAIN queue : queue[i] = n

(* The source keeps the route to itself with which the search began.       *)
SourceOK == /\ me \in visited /\ me \notin indirect
            /\ next_hop[me] = me /\ via[me] = me

(* All that was found is reachable, and all that is worked on was found.   *)
FoundOK == /\ visited \subseteq Component(me)
           /\ \A i \in DOMAIN queue : queue[i] \in visited
           /\ targets # {} => current \in visited

(* A link out of what was found leads to a node that was found, or is      *)
(* still to be followed.                                                   *)
Explored ==
    \A a \in visited, b \in Node :
        Linked(a, b) => \/ b \in visited
                        \/ InQueue(a)
                        \/ a = current /\ b \in targets

Searching == SourceOK /\ FoundOK /\ Explored

IInv == /\ GraphOK /\ TypeOK
        /\ me # NoNode => Searching
        /\ me = NoNode => targets = {}
        /\ NextHopIsNeighbour /\ ViaIsDirect

(* Edges join different nodes, and their weights are integers.             *)
LEMMA EdgeFacts ==
    ASSUME GraphOK
    PROVE  /\ \A a \in Node : ~Linked(a, a)
           /\ \A a, b \in Node : graph.weight[<<a, b>>] \in Int
           /\ NoNode \notin Node
BY GraphAssumption DEF GraphOK, Key, Linked, NoNode

(* A component contains its node and is closed under links.                *)
LEMMA ComponentClosed ==
    ASSUME NEW d \in Node
    PROVE  /\ d \in Component(d)
           /\ \A a \in Component(d), b \in Node : Linked(a, b) => b \in Component(d)
           /\ Component(d) \subseteq Node
BY DEF Component

(* A component is within every closed set that its node is in.             *)
LEMMA ComponentLeast ==
    ASSUME NEW d \in Node, NEW S \in SUBSET Node, d \in S,
           \A a \in S, b \in Node : Linked(a, b) => b \in S
    PROVE  Component(d) \subseteq S
BY DEF Component

(* The same closure for direct links.                                      *)
LEMMA DirectClosed ==
    ASSUME NEW d \in Node
    PROVE  /\ d \in DirectComponent(d)
           /\ \A a \in DirectComponent(d), b \in Node :
                 DirectLink(a, b) => b \in DirectComponent(d)
           /\ DirectComponent(d) \subseteq Node
BY DEF DirectComponent

(* Wrapping brings every integer into the range of the weights.            *)
LEMMA WrapRange ==
    ASSUME NEW x \in Int
    PROVE  Wrap(x) \in -(IntMod \div 2) .. IntMod \div 2 - 1
<1>1. IntMod \in Nat /\ IntMod > 0 /\ IntMod % 2 = 0
  BY GraphAssumption
<1> DEFINE h == IntMod \div 2
           r == (x + h) % IntMod
<1>2. h \in Nat /\ IntMod = h + h
  BY <1>1
<1>3. x + h \in Int
  BY <1>2
<1>4. r \in 0 .. IntMod - 1
  BY <1>1, <1>3
<1>5. Wrap(x) = r - h
  BY DEF Wrap
<1> HIDE DEF h, r
<1>6. r - h \in -h .. h - 1
  BY <1>2, <1>4
<1>7. QED
  BY <1>5, <1>6 DEF h

(* Whose turn it is next, if anybody's.                                    *)
LEMMA NextDaemonFacts ==
    ASSUME NEW done
    PROVE  /\ NextDaemon(done) \in Node \union {NoNode}
           /\ done = {} => NextDaemon(done) \in Node
BY GraphAssumption DEF NextDaemon

-----------------------------------------------------------------------------
(* A search that begins satisfies the invariant, whatever was before it.   *)
LEMMA FreshSearch ==
    ASSUME GraphOK, NEW d \in Node, me = d, queue = <<d>>, current \in Node,
           targets = {}, visited = Start(d).visited, indirect = Start(d).indirect,
           distance = Start(d).zero, weighted_distance = Start(d).zero,
           next_hop = Start(d).hop, via = Start(d).hop
    PROVE  IInv
<1>1. visited = {d} /\ indirect = Node \ {d} /\ next_hop[d] = d /\ via[d] = d
  BY DEF Start
<1>2. d # NoNode
  BY EdgeFacts
<1>3. TypeOK
  <2>1. 0 \in -(IntMod \div 2) .. IntMod \div 2 - 1
    BY GraphAssumption
  <2>2. QED
    BY <1>1, <2>1 DEF TypeOK, Start
<1>4. Searching
  BY <1>1, ComponentClosed DEF Searching, SourceOK, FoundOK, Explored, InQueue
<1>5. NextHopIsNeighbour /\ ViaIsDirect
  BY <1>1, DirectClosed DEF NextHopIsNeighbour, ViaIsDirect
<1>6. QED
  BY <1>2, <1>3, <1>4, <1>5 DEF IInv

(* The first search starts in the invariant.                               *)
LEMMA InitIInv == Init => IInv
<1>1. SUFFICES ASSUME Init PROVE IInv
  OBVIOUS
<1>2. First \in Node
  BY NextDaemonFacts DEF First
<1>3. GraphOK
  BY <1>1 DEF Init, GraphOK
<1>4. QED
  BY <1>1, <1>2, <1>3, FreshSearch DEF Init

(* Taking a node off the queue: its links are the targets from then on.    *)
LEMMA PopIInv ==
    ASSUME IInv, PopFront
    PROVE  IInv'
<1> DEFINE n == Head(queue)
<1>1. /\ me # NoNode /\ targets = {} /\ queue # <<>>
      /\ current' = n /\ queue' = Tail(queue) /\ targets' = Outgoing(n)
      /\ UNCHANGED <<graph, me, visited, indirect, distance, weighted_distance,
                     next_hop, via>>
  BY DEF PopFront, node_vars
<1>2. queue \in Seq(Node) /\ Len(queue) > 0 /\ n = queue[1] /\ n \in Node
  BY <1>1 DEF IInv, TypeOK
<1>3. TypeOK'
  BY <1>1, <1>2 DEF IInv, TypeOK, Outgoing
<1>4. GraphOK' /\ NextHopIsNeighbour' /\ ViaIsDirect'
  BY <1>1 DEF IInv, GraphOK, NextHopIsNeighbour, ViaIsDirect, Linked,
              DirectComponent, DirectLink
<1>5. SourceOK'
  BY <1>1 DEF IInv, Searching, SourceOK
<1>6. FoundOK'
  <2>1. \A i \in DOMAIN Tail(queue) : Tail(queue)[i] \in visited
    BY <1>1, <1>2 DEF IInv, Searching, FoundOK
  <2>2. n \in visited
    BY <1>1, <1>2 DEF IInv, Searching, FoundOK
  <2>3. QED
    BY <1>1, <2>1, <2>2 DEF IInv, Searching, FoundOK, Component, Linked
<1>7. Explored'
  <2>1. SUFFICES ASSUME NEW a \in visited, NEW b \in Node, Linked(a, b)
                 PROVE  b \in visited \/ InQueue(a)' \/ (a = n /\ b \in Outgoing(n))
    BY <1>1 DEF Explored, Linked
  <2>2. CASE b \in visited
    BY <2>2
  <2>3. CASE InQueue(a)
    <3>1. PICK i \in DOMAIN queue : queue[i] = a
      BY <2>3 DEF InQueue
    <3>2. CASE i = 1
      BY <1>2, <2>1, <3>1, <3>2 DEF Outgoing, Linked
    <3>3. CASE i # 1
      <4>1. i - 1 \in DOMAIN Tail(queue) /\ Tail(queue)[i - 1] = a
        BY <1>2, <3>1, <3>3
      <4>2. QED
        BY <1>1, <4>1 DEF InQueue
    <3>4. QED
      BY <3>2, <3>3
  <2>4. QED
    BY <1>1, <2>1, <2>2, <2>3 DEF IInv, Searching, Explored
<1>8. QED
  BY <1>1, <1>3, <1>4, <1>5, <1>6, <1>7 DEF IInv, Searching

(* Passing over an edge: it led to the source, was no link, or led to a    *)
(* node that was found already.                                            *)
LEMMA SkipIInv ==
    ASSUME IInv, NEW to \in NextTarget, SkipEdge(to)
    PROVE  IInv'
<1>1. /\ Ignored(to) /\ targets' = targets \ {to}
      /\ UNCHANGED <<graph, me, queue, current, visited, indirect, distance,
                     weighted_distance, next_hop, via>>
  BY DEF SkipEdge, node_vars
<1>2. to \in targets
  BY DEF NextTarget
<1>3. me # NoNode
  BY <1>2 DEF IInv
<1>4. TypeOK' /\ GraphOK' /\ NextHopIsNeighbour' /\ ViaIsDirect'
  BY <1>1 DEF IInv, TypeOK, GraphOK, NextHopIsNeighbour, ViaIsDirect, Linked,
              DirectComponent, DirectLink
<1>5. SourceOK' /\ FoundOK'
  BY <1>1, <1>2, <1>3 DEF IInv, Searching, SourceOK, FoundOK, Component, Linked
<1>6. Explored'
  <2>1. Linked(current, to) => to \in visited
    BY <1>1, <1>3 DEF Ignored, KeepRoute, IInv, Searching, SourceOK
  <2>2. QED
    BY <1>1, <1>3, <2>1 DEF IInv, Searching, Explored, InQueue, Linked
<1>7. QED
  BY <1>1, <1>3, <1>4, <1>5, <1>6 DEF IInv, Searching

(* Following a link: the node it leads to is found, and queued.            *)
LEMMA TakeIInv ==
    ASSUME IInv, NEW to \in NextTarget, TakeEdge(to)
    PROVE  IInv'
<1>1. to \in targets /\ to \in Node /\ me # NoNode /\ me \in Node /\ Searching
      /\ current \in Node /\ current \in visited
  BY DEF NextTarget, IInv, TypeOK, Searching, FoundOK
<1>2. to # me /\ Linked(current, to)
  BY DEF TakeEdge, Ignored
<1>3. /\ visited' = visited \union {to}
      /\ via' = [via EXCEPT ![to] = Via(to)]
      /\ queue' = Append(queue, to)
      /\ targets' = targets \ {to}
      /\ UNCHANGED <<graph, me, current>>
  BY DEF TakeEdge
<1>4. /\ Component(me)' = Component(me)
      /\ DirectComponent(me)' = DirectComponent(me)
  BY <1>3 DEF Component, DirectComponent, DirectLink, Linked
<1>5. GraphOK'
  BY <1>3 DEF IInv, GraphOK
<1>6. NextHop(to) \in Node /\ Linked(me, NextHop(to))
  <2>1. CASE current = me
    BY <1>1, <1>2, <2>1 DEF NextHop, Searching, SourceOK
  <2>2. CASE current # me
    <3>1. next_hop[current] \in Node /\ Linked(me, next_hop[current])
      BY <1>1, <2>2 DEF IInv, NextHopIsNeighbour
    <3>2. next_hop[current] # me
      BY <1>1, <3>1, EdgeFacts DEF IInv
    <3>3. QED
      BY <3>1, <3>2 DEF NextHop
  <2>3. QED
    BY <2>1, <2>2
<1>7. /\ Via(to) \in DirectComponent(me)
      /\ ~NewIndirect(to) => to \in DirectComponent(me)
  <2>1. via[current] \in DirectComponent(me)
    BY <1>1 DEF IInv, ViaIsDirect
  <2>2. ASSUME ~NewIndirect(to) PROVE to \in DirectComponent(me)
    <3>1. current \in DirectComponent(me)
      BY <1>1, <2>2 DEF IInv, ViaIsDirect, NewIndirect
    <3>2. DirectLink(current, to)
      BY <1>2, <2>2 DEF DirectLink, NewIndirect
    <3>3. QED
      BY <1>1, <3>1, <3>2, DirectClosed
  <2>3. QED
    BY <2>1, <2>2 DEF Via
<1>8. /\ next_hop' \in [Node -> Node \union {NoNode}]
      /\ \A n \in Node \ {to} : next_hop'[n] = next_hop[n]
      /\ next_hop'[to] = (IF UpdateNextHop(to) THEN NextHop(to) ELSE next_hop[to])
  BY <1>1, <1>6 DEF TakeEdge, IInv, TypeOK
<1>9. /\ via' \in [Node -> Node \union {NoNode}]
      /\ \A n \in Node \ {to} : via'[n] = via[n]
      /\ via'[to] = Via(to)
  BY <1>1, <1>3, <1>7, DirectClosed DEF IInv, TypeOK
<1>10. indirect' = (IF NewIndirect(to) THEN indirect \union {to} ELSE indirect \ {to})
  BY DEF TakeEdge
<1>11. TypeOK'
  <2>1. distance' \in [Node -> Nat]
    BY <1>1 DEF TakeEdge, IInv, TypeOK, NewDistance
  <2>2. weighted_distance' \in [Node -> -(IntMod \div 2) .. IntMod \div 2 - 1]
    <3>1. weighted_distance[current] + graph.weight[<<current, to>>] \in Int
      BY <1>1, EdgeFacts, GraphAssumption DEF IInv, TypeOK
    <3>2. NewWeighted(to) \in -(IntMod \div 2) .. IntMod \div 2 - 1
      BY <3>1, WrapRange DEF NewWeighted
    <3>3. QED
      BY <1>1, <3>2 DEF TakeEdge, IInv, TypeOK
  <2>3. queue' \in Seq(Node) /\ targets' \subseteq Node /\ visited' \subseteq Node
        /\ indirect' \subseteq Node /\ current' \in Node /\ me' \in Node
    BY <1>1, <1>3, <1>10 DEF IInv, TypeOK
  <2>4. QED
    BY <1>8, <1>9, <2>1, <2>2, <2>3 DEF TypeOK
<1>12. NextHopIsNeighbour'
  <2>1. SUFFICES ASSUME NEW n \in visited', n # me
                 PROVE  next_hop'[n] \in Node /\ Linked(me, next_hop'[n])
    BY <1>3 DEF NextHopIsNeighbour, Linked
  <2>2. CASE n # to
    BY <1>1, <1>3, <1>8, <2>1, <2>2 DEF IInv, NextHopIsNeighbour, TypeOK
  <2>3. CASE n = to /\ UpdateNextHop(to)
    BY <1>6, <1>8, <2>3
  <2>4. CASE n = to /\ ~UpdateNextHop(to)
    BY <1>1, <1>2, <1>8, <2>4 DEF UpdateNextHop, IInv, NextHopIsNeighbour
  <2>5. QED
    BY <2>2, <2>3, <2>4
<1>13. ViaIsDirect'
  <2>1. SUFFICES ASSUME NEW n \in visited'
                 PROVE  /\ via'[n] \in DirectComponent(me)
                        /\ n \notin indirect' => n \in DirectComponent(me)
    BY <1>3, <1>4 DEF ViaIsDirect
  <2>2. CASE n = to
    BY <1>7, <1>9, <1>10, <2>2
  <2>3. CASE n # to
    BY <1>1, <1>3, <1>9, <1>10, <2>1, <2>3 DEF IInv, ViaIsDirect, TypeOK
  <2>4. QED
    BY <2>2, <2>3
<1>14. SourceOK'
  BY <1>1, <1>2, <1>3, <1>8, <1>9, <1>10 DEF Searching, SourceOK
<1>15. queue \in Seq(Node) /\ Append(queue, to)[Len(queue) + 1] = to
       /\ DOMAIN Append(queue, to) = 1 .. Len(queue) + 1
       /\ DOMAIN queue = 1 .. Len(queue) /\ Len(queue) \in Nat
       /\ \A i \in DOMAIN queue : Append(queue, to)[i] = queue[i]
  <2>1. queue \in Seq(Node)
    BY DEF IInv, TypeOK
  <2>2. QED
    BY <1>1, <2>1
<1>16. FoundOK'
  <2>1. to \in Component(me)
    BY <1>1, <1>2, ComponentClosed DEF Searching, FoundOK
  <2>2. \A i \in DOMAIN queue' : queue'[i] \in visited'
    BY <1>1, <1>3, <1>15 DEF Searching, FoundOK
  <2>3. visited' \subseteq Component(me)'
    BY <1>1, <1>3, <1>4, <2>1 DEF Searching, FoundOK
  <2>4. current' \in visited'
    BY <1>1, <1>3
  <2>5. QED
    BY <1>3, <1>4, <2>2, <2>3, <2>4 DEF FoundOK
<1>17. Explored'
  <2>1. \A a : InQueue(a) \/ a = to => InQueue(a)'
    BY <1>3, <1>15 DEF InQueue
  <2>2. SUFFICES ASSUME NEW a \in visited', NEW b \in Node, Linked(a, b)
                 PROVE  \/ b \in visited'
                        \/ InQueue(a)'
                        \/ a = current' /\ b \in targets'
    BY <1>3 DEF Explored, Linked
  <2>3. CASE a = to
    BY <2>1, <2>3
  <2>4. CASE a # to
    <3>1. a \in visited
      BY <1>3, <2>2, <2>4
    <3>2. b \in visited \/ InQueue(a) \/ (a = current /\ b \in targets)
      BY <1>1, <2>2, <3>1 DEF Searching, Explored
    <3>3. QED
      BY <1>3, <2>1, <3>2
  <2>5. QED
    BY <2>3, <2>4
<1>18. QED
  BY <1>1, <1>3, <1>5, <1>11, <1>12, <1>13, <1>14, <1>16, <1>17 DEF IInv, Searching

(* The next daemon's search begins, or all are done.                       *)
LEMMA TurnIInv ==
    ASSUME IInv, Turn
    PROVE  IInv'
<1>1. PICK next \in Node \union {NoNode} :
         /\ me' = next
         /\ queue' = (IF next = NoNode THEN <<>> ELSE <<next>>)
         /\ visited' = Start(next).visited /\ indirect' = Start(next).indirect
         /\ distance' = Start(next).zero /\ weighted_distance' = Start(next).zero
         /\ next_hop' = Start(next).hop /\ via' = Start(next).hop
         /\ UNCHANGED <<graph, current, targets>>
  BY NextDaemonFacts DEF Turn
<1>2. targets = {} /\ current \in Node /\ GraphOK'
  BY <1>1 DEF Turn, Finished, IInv, TypeOK, GraphOK
<1>3. NoNode \notin Node
  BY EdgeFacts DEF IInv
<1>4. 0 \in -(IntMod \div 2) .. IntMod \div 2 - 1
  BY GraphAssumption
<1>5. TypeOK'
  BY <1>1, <1>2, <1>4 DEF TypeOK, Start
<1>6. CASE next = NoNode
  BY <1>1, <1>2, <1>5, <1>6 DEF IInv, NextHopIsNeighbour, ViaIsDirect
<1>7. CASE next # NoNode
  <2>1. /\ next \in Node /\ visited' = {next} /\ indirect' = Node \ {next}
        /\ next_hop'[next] = next /\ via'[next] = next /\ queue' = <<next>>
        /\ targets' = {} /\ me' = next
    BY <1>1, <1>2, <1>7 DEF Start
  <2>2. next \in Component(next) /\ next \in DirectComponent(next)
    BY <2>1, ComponentClosed, DirectClosed
  <2>3. next \in Component(next)' /\ next \in DirectComponent(next)'
    BY <1>1, <2>2 DEF Component, DirectComponent, DirectLink, Linked
  <2>4. (NextHopIsNeighbour /\ ViaIsDirect)'
    BY <2>1, <2>3 DEF NextHopIsNeighbour, ViaIsDirect
  <2>5. Searching'
    BY <2>1, <2>3 DEF Searching, SourceOK, FoundOK, Explored, InQueue
  <2>6. QED
    BY <1>2, <1>3, <1>5, <2>1, <2>4, <2>5 DEF IInv
<1>8. QED
  BY <1>6, <1>7

(* Every step.                                                             *)
LEMMA NextIInv == IInv /\ [Next]_vars => IInv'
<1>1. SUFFICES ASSUME IInv, [Next]_vars PROVE IInv'
  OBVIOUS
<1>2. CASE PopFront
  BY <1>1, <1>2, PopIInv
<1>3. ASSUME NEW to \in NextTarget, SkipEdge(to) PROVE IInv'
  BY <1>1, <1>3, SkipIInv
<1>4. ASSUME NEW to \in NextTarget, TakeEdge(to) PROVE IInv'
  BY <1>1, <1>4, TakeIInv
<1>5. CASE Turn
  BY <1>1, <1>5, TurnIInv
<1>6. CASE UNCHANGED vars
  BY <1>1, <1>6 DEF IInv, GraphOK, TypeOK, Searching, SourceOK, FoundOK, Explored,
     InQueue, NextHopIsNeighbour, ViaIsDirect, Component, DirectComponent,
     DirectLink, Linked, vars, node_vars
<1>7. QED
  BY <1>1, <1>2, <1>3, <1>4, <1>5, <1>6 DEF Next

(* With nothing left to follow, what was found is closed under links.      *)
LEMMA IInvVisited == IInv => VisitedIsComponent
<1>1. SUFFICES ASSUME IInv, Finished PROVE visited = Component(me)
  BY DEF VisitedIsComponent
<1>2. /\ me \in Node /\ Searching /\ visited \subseteq Node
      /\ queue = <<>> /\ targets = {}
  BY <1>1 DEF Finished, IInv, TypeOK
<1>3. \A a \in visited, b \in Node : Linked(a, b) => b \in visited
  BY <1>2 DEF Searching, Explored, InQueue
<1>4. Component(me) \subseteq visited
  BY <1>2, <1>3, ComponentLeast DEF Searching, SourceOK
<1>5. QED
  BY <1>2, <1>4 DEF Searching, FoundOK

-----------------------------------------------------------------------------
(* The invariant of sssp_bfs holds throughout the search, whatever order   *)
(* routes are found, upgraded and overwritten in.                          *)
THEOREM SearchInvariant == Spec => []IInv
BY InitIInv, NextIInv, PTL DEF Spec

(* When sssp_bfs returns, `visited` marks exactly the nodes that links     *)
(* lead to.                                                                *)
THEOREM SearchIsComplete == Spec => []VisitedIsComponent
BY SearchInvariant, IInvVisited, PTL

(* A node is only ever sent through a neighbour of the searching daemon.   *)
THEOREM NextHopAlwaysNeighbour == Spec => []NextHopIsNeighbour
<1>1. IInv => NextHopIsNeighbour
  BY DEF IInv
<1>2. QED
  BY SearchInvariant, <1>1, PTL

(* The node to talk to directly can always be talked to directly.          *)
THEOREM ViaAlwaysDirect == Spec => []ViaIsDirect
<1>1. IInv => ViaIsDirect
  BY DEF IInv
<1>2. QED
  BY SearchInvariant, <1>1, PTL

-----------------------------------------------------------------------------
(* s does not lead out of T, and there is a function on 0 .. N that starts *)
(* at x and goes on by s.                                                  *)
Within(T, s) == \A y \in T : s[y] \in T

Iteration(T, x, s, N) ==
    \E f \in [0 .. N -> T] : f[0] = x /\ \A k \in 1 .. N : f[k] = s[f[k - 1]]

(* What is defined by recursion along the numbers exists.                  *)
LEMMA Iterate ==
    ASSUME NEW T, NEW s, Within(T, s), NEW x \in T, NEW N \in Nat
    PROVE  Iteration(T, x, s, N)
<1> DEFINE Good(K, f) == f \in [0 .. K -> T] /\ f[0] = x /\ \A k \in 1 .. K : f[k] = s[f[k - 1]]
           S == {K \in Nat : \E f : Good(K, f)}
<1>1. 0 \in S
  <2>1. Good(0, [k \in 0 .. 0 |-> x])
    OBVIOUS
  <2>2. QED
    BY <2>1
<1>2. ASSUME NEW K \in Nat, K \in S PROVE K + 1 \in S
  <2>1. PICK f : Good(K, f)
    BY <1>2
  <2> USE DEF Within
  <2>2. PICK g : g = [k \in 0 .. K + 1 |-> IF k <= K THEN f[k] ELSE s[f[K]]]
    OBVIOUS
  <2>3. g \in [0 .. K + 1 -> T]
    BY <2>1, <2>2
  <2>4. \A k \in 1 .. K + 1 : g[k] = s[g[k - 1]]
    BY <2>1, <2>2
  <2>5. g[0] = x
    BY <2>1, <2>2
  <2>6. QED
    BY <2>3, <2>4, <2>5
<1>3. Nat \subseteq S
  <2> HIDE DEF S
  <2>1. QED
    BY <1>1, <1>2, Induct
<1>4. QED
  BY <1>3 DEF Iteration

(* The recursion of Hops, along next hops that stay in T.                  *)
LEMMA HopsAre ==
    ASSUME NEW to, NEW T, NEW n \in T, \A y \in T : tables[y].next_hop[to] \in T
    PROVE  /\ Hops(n, to) \in [0 .. Cardinality(Node) -> T]
           /\ Hops(n, to)[0] = n
           /\ \A k \in 1 .. Cardinality(Node) :
                 Hops(n, to)[k] = tables[Hops(n, to)[k - 1]].next_hop[to]
<1>1. PICK N \in Nat : N = Cardinality(Node)
  BY GraphAssumption, FS_CardinalityType
<1>2. PICK s : s = [y \in T |-> tables[y].next_hop[to]]
  OBVIOUS
<1>3. \A y \in T : s[y] \in T /\ s[y] = tables[y].next_hop[to]
  BY <1>2
<1>4. PICK f \in [0 .. N -> T] : f[0] = n /\ \A k \in 1 .. N : f[k] = s[f[k - 1]]
  <2>1. Within(T, s)
    BY <1>3 DEF Within
  <2>2. Iteration(T, n, s, N)
    BY <2>1, Iterate
  <2>3. QED
    BY <2>2 DEF Iteration
<1>5. f = [k \in 0 .. N |-> IF k = 0 THEN n ELSE tables[f[k - 1]].next_hop[to]]
  <2>1. ASSUME NEW k \in 0 .. N
        PROVE  f[k] = (IF k = 0 THEN n ELSE tables[f[k - 1]].next_hop[to])
    <3>1. CASE k = 0
      BY <1>4, <3>1
    <3>2. CASE k # 0
      <4>1. k \in 1 .. N /\ k - 1 \in 0 .. N
        BY <3>2
      <4>2. f[k] = s[f[k - 1]] /\ f[k - 1] \in T
        BY <1>4, <4>1
      <4>3. QED
        BY <1>3, <3>2, <4>2
    <3>3. QED
      BY <3>1, <3>2
  <2>2. QED
    BY <2>1
<1>6. \E g : g = [k \in 0 .. Cardinality(Node) |-> IF k = 0 THEN n ELSE tables[g[k - 1]].next_hop[to]]
  BY <1>1, <1>5
<1>7. Hops(n, to) = [k \in 0 .. Cardinality(Node) |->
          IF k = 0 THEN n ELSE tables[Hops(n, to)[k - 1]].next_hop[to]]
  BY <1>6 DEF Hops
<1>8. PICK h : h = Hops(n, to)
  OBVIOUS
<1> DEFINE S == {k \in Nat : k <= N => h[k] \in T}
<1>9. h = [k \in 0 .. N |-> IF k = 0 THEN n ELSE tables[h[k - 1]].next_hop[to]]
  BY <1>1, <1>7, <1>8
<1>10. 0 \in S /\ \A k \in Nat : k \in S => k + 1 \in S
  BY <1>9
<1>11. Nat \subseteq S
  <2> HIDE DEF S
  <2>1. QED
    BY <1>10, Induct
<1>12. h \in [0 .. N -> T]
  BY <1>9, <1>11
<1>13. h[0] = n /\ \A k \in 1 .. N : h[k] = tables[h[k - 1]].next_hop[to]
  BY <1>9, SMTT(60)
<1>14. QED
  BY <1>1, <1>8, <1>12, <1>13

(* The weights of k links, from those of one link less.                    *)
LEMMA WeightsAre ==
    ASSUME GraphOK, NEW d
    PROVE  /\ Weights(d)[0] = [n \in Node |-> IF n = d THEN {0} ELSE {}]
           /\ \A k \in 1 .. Cardinality(Node) : Weights(d)[k] = Longer(Weights(d)[k - 1])
           /\ \A k \in 0 .. Cardinality(Node) : Weights(d)[k] \in [Node -> SUBSET Int]
<1>1. PICK N \in Nat : N = Cardinality(Node)
  BY GraphAssumption, FS_CardinalityType
<1>2. PICK T : T = [Node -> SUBSET Int]
  OBVIOUS
<1>3. PICK zero : zero = [n \in Node |-> IF n = d THEN {0} ELSE {}]
  OBVIOUS
<1>4. zero \in T
  BY <1>2, <1>3
<1>5. PICK s : s = [v \in T |-> Longer(v)]
  OBVIOUS
<1>6. \A v \in T : s[v] = Longer(v)
  BY <1>5
<1>7. ASSUME NEW v \in T PROVE Longer(v) \in T
  <2>1. ASSUME NEW n \in Node
        PROVE  UNION {{x + graph.weight[<<m, n>>] : x \in v[m]}
                               : m \in {m \in Node : Linked(m, n)}} \subseteq Int
    <3>1. \A m \in Node : \A x \in v[m] : x + graph.weight[<<m, n>>] \in Int
      BY <1>2, EdgeFacts
    <3>2. \A m \in Node : {x + graph.weight[<<m, n>>] : x \in v[m]} \subseteq Int
      BY <3>1
    <3>3. QED
      BY <3>2
  <2>2. QED
    BY <1>2, <2>1 DEF Longer
<1>8. PICK f \in [0 .. N -> T] : f[0] = zero /\ \A k \in 1 .. N : f[k] = s[f[k - 1]]
  <2>1. Within(T, s)
    BY <1>6, <1>7 DEF Within
  <2>2. Iteration(T, zero, s, N)
    BY <1>4, <2>1, Iterate
  <2>3. QED
    BY <2>2 DEF Iteration
<1>9. f = [k \in 0 .. N |-> IF k = 0 THEN zero ELSE Longer(f[k - 1])]
  <2>1. \A k \in 1 .. N : f[k] = Longer(f[k - 1])
    BY <1>6, <1>8
  <2>2. QED
    BY <1>8, <2>1
<1>10. f = [k \in 0 .. Cardinality(Node) |->
               IF k = 0 THEN [n \in Node |-> IF n = d THEN {0} ELSE {}]
                        ELSE Longer(f[k - 1])]
  BY <1>1, <1>3, <1>9, Zenon
<1>11. Weights(d) = [k \in 0 .. Cardinality(Node) |->
               IF k = 0 THEN [n \in Node |-> IF n = d THEN {0} ELSE {}]
                        ELSE Longer(Weights(d)[k - 1])]
  BY <1>10 DEF Weights
<1>12. PICK w : w = Weights(d)
  OBVIOUS
<1>13. w = [k \in 0 .. N |-> IF k = 0 THEN zero ELSE Longer(w[k - 1])]
  BY <1>1, <1>3, <1>11, <1>12, Zenon
<1>14. w[0] = zero /\ \A k \in 1 .. N : w[k] = Longer(w[k - 1])
  BY <1>13
<1> DEFINE S == {k \in Nat : k <= N => w[k] \in T}
<1>15. 0 \in S
  BY <1>4, <1>14
<1>16. ASSUME NEW k \in Nat, k \in S PROVE k + 1 \in S
  <2>1. CASE k + 1 <= N
    <3>1. w[k] \in T /\ k + 1 \in 1 .. N /\ (k + 1) - 1 = k
      BY <1>16, <2>1
    <3>2. w[k + 1] = Longer(w[k])
      BY <1>14, <3>1
    <3>3. QED
      BY <1>7, <3>1, <3>2
  <2>2. QED
    BY <2>1
<1>17. Nat \subseteq S
  <2> HIDE DEF S
  <2>1. QED
    BY <1>15, <1>16, Induct
<1>18. \A k \in 0 .. N : w[k] \in T
  BY <1>17
<1>19. QED
  BY <1>1, <1>2, <1>3, <1>12, <1>14, <1>18

-----------------------------------------------------------------------------
(* There are k links that lead from a to b.                                *)
Walk(a, b, k) ==
    \E f \in [0 .. k -> Node] :
        f[0] = a /\ f[k] = b /\ \A i \in 0 .. k - 1 : Linked(f[i], f[i + 1])

(* The next hop of a node starts a path of as many links as were counted.  *)
Counted ==
    /\ visited \intersect indirect = {}
    /\ distance[me] = 0
    /\ \A n \in visited \ {me} :
          distance[n] >= 1 /\ Walk(next_hop[n], n, distance[n] - 1)

(* Nodes are found level by level: the queue is sorted, and nothing that   *)
(* was found is further than one level behind what is followed next.       *)
Levelled ==
    /\ \A i, j \in DOMAIN queue : i <= j => distance[queue[i]] <= distance[queue[j]]
    /\ \A n \in visited, i \in DOMAIN queue : distance[n] <= distance[queue[i]] + 1
    /\ targets # {} =>
          /\ \A n \in visited : distance[n] <= distance[current] + 1
          /\ \A i \in DOMAIN queue : distance[current] <= distance[queue[i]]

(* The link from a to b is still to be followed.                           *)
ToFollow(a, b) == InQueue(a) \/ (a = current /\ b \in targets)

(* A link that was followed leads no further than one level on.            *)
Followed ==
    \A a \in visited, b \in Node :
        Linked(a, b) => \/ b \in visited /\ distance[b] <= distance[a] + 1
                        \/ ToFollow(a, b)

(* No level is empty before the last.                                      *)
NoGap == \A n \in visited : \A k \in 0 .. distance[n] : \E m \in visited : distance[m] = k

(* The weight of a node is that of a path as long as was counted.          *)
Weighed ==
    \A n \in visited : weighted_distance[n] \in Weights(me)[distance[n]][n]

(* It has not wrapped around yet.                                          *)
Fitting ==
    \A n \in visited :
        2 * Cardinality(Node) * weighted_distance[n]
            \in -(distance[n] * IntMod) .. distance[n] * IntMod

(* A link that was followed starts no lighter path.                        *)
Lightest ==
    \A a, b \in visited :
        (Linked(a, b) /\ distance[b] = distance[a] + 1) =>
            \/ weighted_distance[b] <= weighted_distance[a] + graph.weight[<<a, b>>]
            \/ ToFollow(a, b)

(* What a finished search says of its daemon n: every route is as long as  *)
(* it was counted, and no link is missed.                                  *)
Right(n, t) ==
    /\ t.visited \subseteq Node /\ n \in t.visited
    /\ t.distance \in [Node -> Nat]
    /\ t.distance[n] = 0 /\ t.next_hop[n] = n
    /\ \A m \in t.visited : t.distance[m] < Cardinality(Node)
    /\ \A m \in t.visited \ {n} :
          /\ t.next_hop[m] \in Node /\ Linked(n, t.next_hop[m])
          /\ t.distance[m] >= 1 /\ Walk(t.next_hop[m], m, t.distance[m] - 1)
    /\ \A a \in t.visited, b \in Node :
          Linked(a, b) => b \in t.visited /\ t.distance[b] <= t.distance[a] + 1

(* The search so far, as to hops and as to weights.                        *)
Searched == Counted /\ Levelled /\ Followed /\ NoGap

Light == weighted_distance[me] = 0 /\ Weighed /\ Fitting /\ Lightest

(* Everybody's results are right, and at the end everybody has some.       *)
TablesOK ==
    /\ me = NoNode => Node \subseteq DOMAIN tables
    /\ graph.indirect = {} => \A n \in DOMAIN tables : Right(n, tables[n])

(* The invariant of a search without indirect edges.                       *)
JInv == /\ IInv
        /\ (me # NoNode /\ graph.indirect = {}) => Searched
        /\ (me # NoNode /\ graph.indirect = {} /\ SumsFit) => Light
        /\ TablesOK

(* There is a path without a link, and a path goes on by one link ...      *)
LEMMA WalkNone ==
    ASSUME NEW a \in Node
    PROVE  Walk(a, a, 0)
<1>1. PICK f : f = [i \in 0 .. 0 |-> a]
  OBVIOUS
<1>2. f \in [0 .. 0 -> Node] /\ f[0] = a
  BY <1>1
<1>3. \A i \in 0 .. 0 - 1 : Linked(f[i], f[i + 1])
  OBVIOUS
<1>4. QED
  BY <1>2, <1>3 DEF Walk

(* ... at its end.                                                         *)
LEMMA WalkOn ==
    ASSUME NEW a, NEW b, NEW c \in Node, NEW k \in Nat, Walk(a, b, k), Linked(b, c)
    PROVE  Walk(a, c, k + 1)
<1>1. PICK f \in [0 .. k -> Node] :
         f[0] = a /\ f[k] = b /\ \A i \in 0 .. k - 1 : Linked(f[i], f[i + 1])
  BY DEF Walk
<1>2. PICK g : g = [i \in 0 .. k + 1 |-> IF i <= k THEN f[i] ELSE c]
  OBVIOUS
<1>3. g \in [0 .. k + 1 -> Node] /\ g[0] = a /\ g[k + 1] = c
  BY <1>1, <1>2
<1>4. ASSUME NEW i \in 0 .. (k + 1) - 1 PROVE Linked(g[i], g[i + 1])
  <2>1. CASE i = k
    <3>1. g[i] = b /\ g[i + 1] = c
      BY <1>1, <1>2, <2>1
    <3>2. QED
      BY <3>1
  <2>2. CASE i # k
    <3>1. i \in 0 .. k - 1 /\ g[i] = f[i] /\ g[i + 1] = f[i + 1]
      BY <1>2, <2>2
    <3>2. QED
      BY <1>1, <3>1
  <2>3. QED
    BY <2>1, <2>2
<1>5. QED
  BY <1>3, <1>4 DEF Walk

(* ... at its start.                                                       *)
LEMMA WalkFrom ==
    ASSUME NEW a \in Node, NEW b, NEW c, NEW k \in Nat, Linked(a, b), Walk(b, c, k)
    PROVE  Walk(a, c, k + 1)
<1>1. PICK f \in [0 .. k -> Node] :
         f[0] = b /\ f[k] = c /\ \A i \in 0 .. k - 1 : Linked(f[i], f[i + 1])
  BY DEF Walk
<1>2. PICK g : g = [i \in 0 .. k + 1 |-> IF i = 0 THEN a ELSE f[i - 1]]
  OBVIOUS
<1>3. g \in [0 .. k + 1 -> Node] /\ g[0] = a /\ g[k + 1] = c
  BY <1>1, <1>2
<1>4. ASSUME NEW i \in 0 .. (k + 1) - 1 PROVE Linked(g[i], g[i + 1])
  <2>1. CASE i = 0
    <3>1. g[i] = a /\ g[i + 1] = b
      BY <1>1, <1>2, <2>1
    <3>2. QED
      BY <3>1
  <2>2. CASE i # 0
    <3>1. i - 1 \in 0 .. k - 1 /\ g[i] = f[i - 1] /\ g[i + 1] = f[(i - 1) + 1]
      BY <1>2, <2>2
    <3>2. QED
      BY <1>1, <3>1
  <2>3. QED
    BY <2>1, <2>2
<1>5. QED
  BY <1>3, <1>4 DEF Walk

(* Where no link leads out of V, nor further than a level on, no path of k *)
(* links leads out of V, nor further than k levels on.                     *)
LEMMA WalkWithin ==
    ASSUME NEW a, NEW b, NEW k \in Nat, Walk(a, b, k),
           NEW V, NEW D, a \in V, D[a] = 0, \A x \in V : D[x] \in Nat,
           \A x \in V, y \in Node : Linked(x, y) => y \in V /\ D[y] <= D[x] + 1
    PROVE  b \in V /\ D[b] <= k
<1>1. PICK f \in [0 .. k -> Node] :
         f[0] = a /\ f[k] = b /\ \A i \in 0 .. k - 1 : Linked(f[i], f[i + 1])
  BY DEF Walk
<1> DEFINE S == {i \in Nat : i <= k => f[i] \in V /\ D[f[i]] <= i}
<1>2. 0 \in S
  BY <1>1
<1>3. ASSUME NEW i \in Nat, i \in S PROVE i + 1 \in S
  <2>1. CASE i + 1 <= k
    <3>1. f[i] \in V /\ D[f[i]] <= i /\ Linked(f[i], f[i + 1]) /\ f[i + 1] \in Node
      BY <1>1, <1>3, <2>1
    <3>2. f[i + 1] \in V /\ D[f[i + 1]] <= D[f[i]] + 1
      BY <3>1
    <3>3. D[f[i]] \in Nat /\ D[f[i + 1]] \in Nat
      BY <3>1, <3>2
    <3>4. QED
      BY <3>1, <3>2, <3>3
  <2>2. QED
    BY <2>1
<1>4. Nat \subseteq S
  <2> HIDE DEF S
  <2>1. QED
    BY <1>2, <1>3, Induct
<1>5. QED
  BY <1>1, <1>4

(* Paths and their weights hang on the graph alone.                        *)
LEMMA GraphStays ==
    ASSUME UNCHANGED graph
    PROVE  /\ \A a, b : Linked(a, b)' <=> Linked(a, b)
           /\ \A a, b, k : Walk(a, b, k)' <=> Walk(a, b, k)
           /\ \A d : Weights(d)' = Weights(d)
           /\ SumsFit' <=> SumsFit
           /\ \A n, t : Right(n, t)' <=> Right(n, t)
<1>1. \A a, b : Linked(a, b)' <=> Linked(a, b)
  BY DEF Linked
<1>2. \A a, b, k : Walk(a, b, k)' <=> Walk(a, b, k)
  BY <1>1 DEF Walk
<1>3. \A d : Weights(d)' = Weights(d)
  BY DEF Weights, Longer, Linked
<1>4. SumsFit' <=> SumsFit
  BY DEF SumsFit
<1>5. \A n, t : Right(n, t)' <=> Right(n, t)
  BY <1>1, <1>2 DEF Right
<1>6. QED
  BY <1>1, <1>2, <1>3, <1>4, <1>5

-----------------------------------------------------------------------------
(* A search that begins has counted, and weighed, nothing but its source.  *)
LEMMA FreshCounts ==
    ASSUME GraphOK, NEW d \in Node, me = d, queue = <<d>>,
           targets = {}, visited = Start(d).visited, indirect = Start(d).indirect,
           distance = Start(d).zero, weighted_distance = Start(d).zero,
           next_hop = Start(d).hop, via = Start(d).hop
    PROVE  Searched /\ Light
<1>1. /\ visited = {d} /\ indirect = Node \ {d}
      /\ distance[d] = 0 /\ weighted_distance[d] = 0
      /\ DOMAIN queue = {1} /\ queue[1] = d
  BY DEF Start
<1>2. Counted
  BY <1>1 DEF Counted
<1>3. Levelled
  BY <1>1 DEF Levelled
<1>4. Followed
  BY <1>1 DEF Followed, ToFollow, InQueue
<1>5. NoGap
  BY <1>1 DEF NoGap
<1>6. Weights(d)[0][d] = {0}
  BY WeightsAre
<1>7. Cardinality(Node) \in Nat /\ IntMod \in Nat
  BY GraphAssumption, FS_CardinalityType
<1>8. Weighed
  BY <1>1, <1>6 DEF Weighed
<1>9. Fitting
  BY <1>1, <1>7 DEF Fitting
<1>10. Lightest
  BY <1>1 DEF Lightest
<1>11. QED
  BY <1>1, <1>2, <1>3, <1>4, <1>5, <1>8, <1>9, <1>10 DEF Searched, Light

(* The first search starts in the invariant.                               *)
LEMMA InitJInv == Init => JInv
<1>1. SUFFICES ASSUME Init PROVE JInv
  OBVIOUS
<1>2. First \in Node /\ GraphOK
  BY <1>1, NextDaemonFacts DEF First, Init, GraphOK
<1>3. IInv
  BY <1>1, InitIInv
<1>4. Searched /\ Light
  BY <1>1, <1>2, FreshCounts DEF Init
<1>5. TablesOK
  BY <1>1, <1>2, EdgeFacts DEF Init, TablesOK
<1>6. QED
  BY <1>3, <1>4, <1>5 DEF JInv

(* Taking a node off the queue: the next one is no further than a level on.*)
LEMMA PopCounts ==
    ASSUME IInv, PopFront, Searched
    PROVE  Searched' /\ (Light => Light')
<1>1. PICK n : n = Head(queue)
  OBVIOUS
<1>2. /\ me # NoNode /\ targets = {} /\ queue # <<>>
      /\ current' = n /\ queue' = Tail(queue) /\ targets' = Outgoing(n)
      /\ UNCHANGED <<graph, me, visited, indirect, distance, weighted_distance,
                     next_hop, via>>
  BY <1>1 DEF PopFront, node_vars
<1>3. /\ queue \in Seq(Node) /\ Len(queue) \in Nat /\ Len(queue) > 0
      /\ n = queue[1] /\ n \in Node /\ DOMAIN queue = 1 .. Len(queue)
      /\ distance \in [Node -> Nat] /\ visited \subseteq Node
      /\ \A i \in DOMAIN queue : queue[i] \in visited
  BY <1>1, <1>2 DEF IInv, TypeOK, Searching, FoundOK
<1>4. \A i \in DOMAIN queue' : i + 1 \in DOMAIN queue /\ queue'[i] = queue[i + 1]
  BY <1>2, <1>3
<1>5. \A a, b : Linked(a, b) /\ b \in Node /\ ToFollow(a, b) => ToFollow(a, b)'
  <2>1. SUFFICES ASSUME NEW a, NEW b \in Node, Linked(a, b), InQueue(a)
                 PROVE  ToFollow(a, b)'
    BY <1>2 DEF ToFollow
  <2>2. PICK i \in DOMAIN queue : queue[i] = a
    BY <2>1 DEF InQueue
  <2>3. CASE i = 1
    BY <1>2, <1>3, <2>1, <2>2, <2>3 DEF ToFollow, Outgoing, Linked
  <2>4. CASE i # 1
    <3>1. i - 1 \in DOMAIN Tail(queue) /\ Tail(queue)[i - 1] = a
      BY <1>3, <2>2, <2>4
    <3>2. QED
      BY <1>2, <3>1 DEF ToFollow, InQueue
  <2>5. QED
    BY <2>3, <2>4
<1>6. Counted' /\ NoGap'
  BY <1>2, GraphStays DEF Searched, Counted, NoGap
<1>7. Followed'
  BY <1>2, <1>5, GraphStays DEF Searched, Followed
<1>8. Levelled'
  <2>1. \A i, j \in DOMAIN queue' : i <= j => distance[queue'[i]] <= distance[queue'[j]]
    <3>1. SUFFICES ASSUME NEW i \in DOMAIN queue', NEW j \in DOMAIN queue', i <= j
                   PROVE  distance[queue'[i]] <= distance[queue'[j]]
      OBVIOUS
    <3>2. i + 1 <= j + 1 /\ i + 1 \in DOMAIN queue /\ j + 1 \in DOMAIN queue
      BY <1>2, <1>3, <1>4, <3>1
    <3>3. distance[queue[i + 1]] <= distance[queue[j + 1]]
      BY <3>2 DEF Searched, Levelled
    <3>4. QED
      BY <1>4, <3>3
  <2>2. \A x \in visited, i \in DOMAIN queue' : distance[x] <= distance[queue'[i]] + 1
    BY <1>4 DEF Searched, Levelled
  <2>3. \A x \in visited : distance[x] <= distance[n] + 1
    BY <1>3 DEF Searched, Levelled
  <2>4. \A i \in DOMAIN queue' : distance[n] <= distance[queue'[i]]
    <3>1. \A i \in DOMAIN queue : distance[queue[1]] <= distance[queue[i]]
      BY <1>3 DEF Searched, Levelled
    <3>2. QED
      BY <1>3, <1>4, <3>1
  <2>5. QED
    BY <1>2, <2>1, <2>2, <2>3, <2>4 DEF Levelled
<1>9. ASSUME Light PROVE Light'
  <2>1. Weighed' /\ Fitting'
    BY <1>2, <1>9, GraphStays DEF Light, Weighed, Fitting
  <2>2. Lightest'
    BY <1>2, <1>3, <1>5, <1>9, GraphStays DEF Light, Lightest
  <2>3. QED
    BY <1>2, <1>9, <2>1, <2>2 DEF Light
<1>10. QED
  BY <1>6, <1>7, <1>8, <1>9 DEF Searched

(* Weights have not wrapped around, so the sum with one more link is exact,*)
(* as long as there are more nodes than levels.                            *)
LEMMA SumExact ==
    ASSUME GraphOK, SumsFit, NEW a \in Node, NEW b \in Node, Linked(a, b),
           NEW x \in Int, NEW k \in Nat, k + 1 < Cardinality(Node),
           2 * Cardinality(Node) * x \in -(k * IntMod) .. k * IntMod
    PROVE  /\ Wrap(x + graph.weight[<<a, b>>]) = x + graph.weight[<<a, b>>]
           /\ 2 * Cardinality(Node) * (x + graph.weight[<<a, b>>])
                 \in -((k + 1) * IntMod) .. (k + 1) * IntMod
<1>1. PICK N \in Nat : N = Cardinality(Node)
  BY GraphAssumption, FS_CardinalityType
<1>2. PICK w \in Int : w = graph.weight[<<a, b>>]
  BY EdgeFacts
<1>3. PICK h \in Nat : h = IntMod \div 2 /\ IntMod = h + h /\ h > 0
  BY GraphAssumption
<1>4. 2 * N * w \in -(h + h) .. h + h
  BY <1>1, <1>2, <1>3 DEF SumsFit, Linked
<1>5. 2 * N * x \in -(k * (h + h)) .. k * (h + h)
  BY <1>1, <1>3
<1>6. PICK A \in Int : A = N * x
  BY <1>1
<1>7. PICK B \in Int : B = N * w
  BY <1>1
<1>8. PICK C \in Nat : C = k * h
  OBVIOUS
<1>9. 2 * N * x = A + A /\ 2 * N * w = B + B /\ k * (h + h) = C + C
  BY <1>6, <1>7, <1>8
<1>10. A \in -C .. C /\ B \in -h .. h
  BY <1>4, <1>5, <1>9
<1>11. PICK s \in Int : s = x + w
  OBVIOUS
<1>12. N * s = A + B /\ 2 * N * s = (A + B) + (A + B)
  BY <1>6, <1>7, <1>11
<1>13. (k + 1) * (h + h) = (C + h) + (C + h) /\ (k + 1) * h = C + h
  BY <1>8
<1>14. 2 * N * s \in -((k + 1) * (h + h)) .. (k + 1) * (h + h)
  BY <1>10, <1>12, <1>13
<1>15. N * s \in -((k + 1) * h) .. (k + 1) * h
  BY <1>10, <1>12, <1>13
<1>16. s < h /\ -h < s
  <2>1. (k + 1) * h < N * h
    BY <1>1, <1>3
  <2>2. N * s < N * h /\ -(N * h) < N * s
    BY <1>15, <2>1
  <2>3. N * (-h) = -(N * h)
    OBVIOUS
  <2>4. N * s < N * h => s < h
    BY <1>1
  <2>5. N * (-h) < N * s => -h < s
    BY <1>1
  <2>6. QED
    BY <2>2, <2>3, <2>4, <2>5
<1>17. (s + h) % (h + h) = s + h
  BY <1>3, <1>16
<1>18. Wrap(s) = s
  BY <1>3, <1>17 DEF Wrap
<1>19. QED
  BY <1>1, <1>2, <1>3, <1>11, <1>14, <1>18

(* As many levels as are not empty, so many nodes there are.               *)
LEMMA LevelsBounded ==
    ASSUME NEW V \in SUBSET Node, NEW D, NEW K \in Nat,
           \A k \in 0 .. K : \E m \in V : D[m] = k
    PROVE  K < Cardinality(Node)
<1>1. IsFiniteSet(V) /\ Cardinality(V) <= Cardinality(Node)
      /\ Cardinality(V) \in Nat /\ Cardinality(Node) \in Nat
  BY GraphAssumption, FS_Subset, FS_CardinalityType
<1>2. PICK f : f = [m \in V |-> D[m]]
  OBVIOUS
<1>3. PICK I : I = {f[m] : m \in V}
  OBVIOUS
<1>4. f \in Surjection(V, I)
  BY <1>2, <1>3 DEF Surjection
<1>5. IsFiniteSet(I) /\ Cardinality(I) <= Cardinality(V)
  BY <1>1, <1>4, FS_Surjection
<1>6. 0 .. K \subseteq I
  BY <1>2, <1>3
<1>7. IsFiniteSet(0 .. K) /\ Cardinality(0 .. K) = K + 1
  BY FS_Interval
<1>8. Cardinality(0 .. K) <= Cardinality(I) /\ Cardinality(I) \in Nat
  BY <1>5, <1>6, FS_Subset, FS_CardinalityType
<1>9. QED
  BY <1>1, <1>5, <1>7, <1>8

(* With no indirect edge every route that is taken is a new one, or as     *)
(* long as the old one and lighter, and gets a new next hop.               *)
LEMMA TakeFacts ==
    ASSUME IInv, graph.indirect = {}, Searched, NEW to \in NextTarget, TakeEdge(to)
    PROVE  /\ to \in Node /\ to \in targets /\ me # NoNode /\ to # me /\ to # current
           /\ current \in visited /\ current \in Node /\ Linked(current, to)
           /\ to \in visited =>
                 /\ distance[to] = distance[current] + 1
                 /\ weighted_distance[to] > NewWeighted(to)
           /\ visited' = visited \union {to} /\ indirect' = indirect \ {to}
           /\ distance' \in [Node -> Nat] /\ distance'[to] = distance[current] + 1
           /\ \A n \in Node : n # to \/ n \in visited => distance'[n] = distance[n]
           /\ weighted_distance'[to] = NewWeighted(to)
           /\ \A n \in Node \ {to} : weighted_distance'[n] = weighted_distance[n]
           /\ next_hop'[to] = NextHop(to)
           /\ \A n \in Node \ {to} : next_hop'[n] = next_hop[n]
           /\ queue' = Append(queue, to) /\ targets' = targets \ {to}
           /\ UNCHANGED <<graph, me, current, tables>>
<1>1. to \in targets /\ to \in Node /\ me # NoNode /\ Searching
      /\ current \in Node /\ current \in visited
  BY DEF NextTarget, IInv, TypeOK, Searching, FoundOK
<1>2. to # me /\ Linked(current, to) /\ ~KeepRoute(to) /\ to # current
  BY EdgeFacts, <1>1 DEF TakeEdge, Ignored, IInv
<1>3. ~NewIndirect(to) /\ (to \in visited => to \notin indirect)
  BY <1>1 DEF NewIndirect, Searched, Counted
<1>4. to \in visited =>
         distance[to] = distance[current] + 1 /\ ~(weighted_distance[to] <= NewWeighted(to))
  BY <1>2, <1>3 DEF KeepRoute, NewDistance
<1>5. \A n \in Node : weighted_distance[n] \in Int /\ distance[n] \in Nat
  <2>1. IntMod \div 2 \in Int
    BY GraphAssumption
  <2>2. \A n \in Node : weighted_distance[n] \in -(IntMod \div 2) .. IntMod \div 2 - 1
    BY DEF IInv, TypeOK
  <2>3. QED
    BY <2>1, <2>2 DEF IInv, TypeOK
<1>6. NewWeighted(to) \in Int
  <2>1. weighted_distance[current] + graph.weight[<<current, to>>] \in Int
    BY <1>1, <1>5, EdgeFacts DEF IInv
  <2>2. QED
    BY <2>1, WrapRange, GraphAssumption DEF NewWeighted
<1>7. to \in visited => weighted_distance[to] > NewWeighted(to)
  BY <1>1, <1>4, <1>5, <1>6
<1>8. UpdateNextHop(to)
  BY <1>4, <1>7 DEF UpdateNextHop, NewDistance
<1>9. /\ visited' = visited \union {to} /\ indirect' = indirect \ {to}
      /\ distance' = [distance EXCEPT ![to] = distance[current] + 1]
      /\ weighted_distance' = [weighted_distance EXCEPT ![to] = NewWeighted(to)]
      /\ next_hop' = [next_hop EXCEPT ![to] = NextHop(to)]
      /\ queue' = Append(queue, to) /\ targets' = targets \ {to}
      /\ UNCHANGED <<graph, me, current, tables>>
  BY <1>3, <1>8 DEF TakeEdge, NewDistance
<1>10. /\ distance \in [Node -> Nat] /\ DOMAIN weighted_distance = Node
       /\ DOMAIN next_hop = Node
  BY DEF IInv, TypeOK
<1>11. /\ distance' \in [Node -> Nat] /\ distance'[to] = distance[current] + 1
       /\ \A n \in Node : n # to \/ n \in visited => distance'[n] = distance[n]
  BY <1>1, <1>4, <1>9, <1>10
<1>12. /\ weighted_distance'[to] = NewWeighted(to)
       /\ \A n \in Node \ {to} : weighted_distance'[n] = weighted_distance[n]
       /\ next_hop'[to] = NextHop(to)
       /\ \A n \in Node \ {to} : next_hop'[n] = next_hop[n]
  BY <1>1, <1>9, <1>10
<1>13. QED
  BY <1>1, <1>2, <1>4, <1>7, <1>9, <1>11, <1>12

(* A link that is passed over leads no further than the next level, and    *)
(* starts no lighter path.                                                 *)
LEMMA SkipFacts ==
    ASSUME IInv, graph.indirect = {}, Searched, NEW to \in NextTarget, SkipEdge(to)
    PROVE  /\ to \in Node /\ to \in targets /\ me # NoNode /\ targets' = targets \ {to}
           /\ current \in visited
           /\ Linked(current, to) =>
                 /\ to \in visited /\ distance[to] <= distance[current] + 1
                 /\ distance[to] = distance[current] + 1 =>
                       weighted_distance[to] <= NewWeighted(to)
           /\ UNCHANGED <<graph, me, queue, current, visited, indirect, distance,
                          weighted_distance, next_hop, via, tables>>
<1>1. to \in targets /\ to \in Node /\ me # NoNode /\ Searching
      /\ current \in Node /\ current \in visited /\ distance \in [Node -> Nat]
  BY DEF NextTarget, IInv, TypeOK, Searching, FoundOK
<1>2. /\ Ignored(to) /\ targets' = targets \ {to}
      /\ UNCHANGED <<graph, me, queue, current, visited, indirect, distance,
                     weighted_distance, next_hop, via, tables>>
  BY DEF SkipEdge, node_vars
<1>3. ASSUME Linked(current, to)
      PROVE  /\ to \in visited /\ distance[to] <= distance[current] + 1
             /\ distance[to] = distance[current] + 1 =>
                   weighted_distance[to] <= NewWeighted(to)
  <2>1. CASE to = me
    BY <1>1, <2>1 DEF Searched, Counted, Searching, SourceOK
  <2>2. CASE KeepRoute(to)
    <3>1. to \in visited
      BY <2>2 DEF KeepRoute
    <3>2. distance[to] <= distance[current] + 1
      BY <1>1, <3>1 DEF Searched, Levelled
    <3>3. QED
      BY <2>2, <3>1, <3>2 DEF KeepRoute, NewDistance
  <2>3. QED
    BY <1>2, <1>3, <2>1, <2>2 DEF Ignored
<1>4. QED
  BY <1>1, <1>2, <1>3

(* The weight of the path to `to` by way of the current node.              *)
LEMMA NewWeightExact ==
    ASSUME IInv, SumsFit, Searched, Light, NEW to \in Node, current \in visited,
           Linked(current, to), distance[current] + 1 < Cardinality(Node)
    PROVE  /\ NewWeighted(to) = weighted_distance[current] + graph.weight[<<current, to>>]
           /\ 2 * Cardinality(Node) * NewWeighted(to)
                 \in -((distance[current] + 1) * IntMod) .. (distance[current] + 1) * IntMod
           /\ NewWeighted(to) \in Weights(me)[distance[current] + 1][to]
<1>1. /\ current \in Node /\ weighted_distance[current] \in Int
      /\ distance[current] \in Nat /\ GraphOK
  BY GraphAssumption DEF IInv, TypeOK
<1>2. PICK k \in Nat : k = distance[current]
  BY <1>1
<1>3. PICK x \in Int : x = weighted_distance[current]
  BY <1>1
<1>4. 2 * Cardinality(Node) * x \in -(k * IntMod) .. k * IntMod
  BY <1>2, <1>3 DEF Light, Fitting
<1>5. /\ NewWeighted(to) = x + graph.weight[<<current, to>>]
      /\ 2 * Cardinality(Node) * NewWeighted(to) \in -((k + 1) * IntMod) .. (k + 1) * IntMod
  BY <1>1, <1>2, <1>3, <1>4, SumExact DEF NewWeighted
<1>6. x \in Weights(me)[k][current]
  BY <1>2, <1>3 DEF Light, Weighed
<1>7. Weights(me)[k + 1] = Longer(Weights(me)[k])
  <2>1. Cardinality(Node) \in Nat
    BY GraphAssumption, FS_CardinalityType
  <2>2. k + 1 \in 1 .. Cardinality(Node) /\ (k + 1) - 1 = k
    BY <1>2, <2>1
  <2>3. \A j \in 1 .. Cardinality(Node) : Weights(me)[j] = Longer(Weights(me)[j - 1])
    BY <1>1, WeightsAre
  <2>4. PICK j : j = k + 1
    OBVIOUS
  <2>5. Weights(me)[j] = Longer(Weights(me)[j - 1]) /\ j - 1 = k
    BY <2>2, <2>3, <2>4
  <2>6. QED
    BY <2>4, <2>5
<1>8. x + graph.weight[<<current, to>>] \in Longer(Weights(me)[k])[to]
  BY <1>1, <1>6 DEF Longer
<1>9. QED
  BY <1>2, <1>3, <1>5, <1>7, <1>8

(* Finding the node behind a link of the current one.                      *)
LEMMA TakeCounts ==
    ASSUME IInv, graph.indirect = {}, Searched, NEW to \in NextTarget, TakeEdge(to)
    PROVE  Searched' /\ distance[current] + 1 < Cardinality(Node)
<1>1. PICK c : c = current
  OBVIOUS
<1>2. /\ to \in Node /\ to \in targets /\ me # NoNode /\ to # me /\ to # c
      /\ c \in visited /\ c \in Node /\ Linked(c, to)
      /\ to \in visited => distance[to] = distance[c] + 1
      /\ visited' = visited \union {to} /\ indirect' = indirect \ {to}
      /\ distance' \in [Node -> Nat] /\ distance'[to] = distance[c] + 1
      /\ \A n \in Node : n # to \/ n \in visited => distance'[n] = distance[n]
      /\ next_hop'[to] = NextHop(to)
      /\ \A n \in Node \ {to} : next_hop'[n] = next_hop[n]
      /\ queue' = Append(queue, to) /\ targets' = targets \ {to}
      /\ UNCHANGED <<graph, me, current>>
  BY <1>1, TakeFacts
<1>3. /\ Searching /\ visited \subseteq Node /\ distance \in [Node -> Nat]
      /\ queue \in Seq(Node) /\ targets # {} /\ me \in Node
      /\ \A n \in visited : distance'[n] = distance[n]
  BY <1>2 DEF IInv, TypeOK
<1>4. Counted'
  <2>1. visited' \intersect indirect' = {}
    BY <1>2 DEF Searched, Counted
  <2>2. distance'[me] = 0
    BY <1>2, <1>3 DEF Searched, Counted, Searching, SourceOK
  <2>3. distance'[to] - 1 = distance[c] /\ distance'[to] >= 1 /\ distance[c] \in Nat
    <3>1. distance[c] \in Nat
      BY <1>2, <1>3
    <3>2. distance'[to] = distance[c] + 1
      BY <1>2
    <3>3. QED
      BY <3>1, <3>2
  <2>4. Walk(NextHop(to), to, distance[c])
    <3>1. CASE c = me
      <4>1. NextHop(to) = to /\ distance[c] = 0
        BY <1>1, <1>3, <3>1 DEF NextHop, Searching, SourceOK, Searched, Counted
      <4>2. QED
        BY <1>2, <4>1, WalkNone
    <3>2. CASE c # me
      <4>1. next_hop[c] \in Node /\ Linked(me, next_hop[c])
        BY <1>2, <3>2 DEF IInv, NextHopIsNeighbour
      <4>2. NextHop(to) = next_hop[c]
        BY <1>1, <1>3, <4>1, EdgeFacts DEF IInv, NextHop
      <4>3. PICK k \in Nat : k = distance[c] - 1 /\ k + 1 = distance[c]
        BY <1>2, <2>3, <3>2 DEF Searched, Counted
      <4>4. Walk(next_hop[c], c, k)
        BY <1>2, <3>2, <4>3 DEF Searched, Counted
      <4>5. Walk(next_hop[c], to, k + 1)
        BY <1>2, <4>4, WalkOn
      <4>6. QED
        BY <4>2, <4>3, <4>5
    <3>3. QED
      BY <3>1, <3>2
  <2>5. ASSUME NEW n \in visited', n # me
        PROVE  distance'[n] >= 1 /\ Walk(next_hop'[n], n, distance'[n] - 1)
    <3>1. CASE n = to
      BY <1>2, <2>3, <2>4, <3>1
    <3>2. CASE n # to
      <4>1. n \in visited /\ distance'[n] = distance[n] /\ next_hop'[n] = next_hop[n]
        BY <1>2, <1>3, <2>5, <3>2
      <4>2. QED
        BY <2>5, <4>1 DEF Searched, Counted
    <3>3. QED
      BY <3>1, <3>2
  <2>6. graph' = graph /\ me' = me
    BY <1>2
  <2>7. QED
    BY <2>1, <2>2, <2>5, <2>6 DEF Counted, Walk, Linked
<1>5. /\ DOMAIN queue = 1 .. Len(queue) /\ Len(queue) \in Nat
      /\ DOMAIN queue' = 1 .. Len(queue) + 1 /\ queue'[Len(queue) + 1] = to
      /\ \A i \in DOMAIN queue : queue'[i] = queue[i]
  BY <1>2, <1>3
<1>6. \A i \in DOMAIN queue : queue[i] \in visited /\ distance'[queue[i]] = distance[queue[i]]
  BY <1>3 DEF Searching, FoundOK
<1>7. /\ \A n \in visited : distance[n] <= distance[c] + 1
      /\ \A i \in DOMAIN queue : distance[c] <= distance[queue[i]]
  BY <1>1, <1>3 DEF Searched, Levelled
<1>8. Levelled'
  <2>1. \A i \in DOMAIN queue' :
           \/ i \in DOMAIN queue /\ queue'[i] = queue[i] /\ distance'[queue'[i]] = distance[queue[i]]
           \/ i = Len(queue) + 1 /\ queue'[i] = to /\ distance'[queue'[i]] = distance[c] + 1
    BY <1>2, <1>5, <1>6
  <2>2. \A i \in DOMAIN queue' : distance'[queue'[i]] \in distance[c] .. distance[c] + 1
    BY <1>2, <1>3, <1>6, <1>7, <2>1
  <2>3. \A n \in visited' : distance'[n] <= distance[c] + 1 /\ distance'[n] \in Nat
    BY <1>2, <1>3, <1>7
  <2>4. \A n \in visited', i \in DOMAIN queue' : distance'[n] <= distance'[queue'[i]] + 1
    BY <1>2, <1>3, <2>2, <2>3
  <2>5. ASSUME NEW i \in DOMAIN queue', NEW j \in DOMAIN queue', i <= j
        PROVE  distance'[queue'[i]] <= distance'[queue'[j]]
    <3>1. CASE j = Len(queue) + 1
      BY <1>2, <1>3, <2>1, <2>2, <3>1, <1>5
    <3>2. CASE j # Len(queue) + 1
      <4>1. i \in DOMAIN queue /\ j \in DOMAIN queue
        BY <1>5, <2>5, <3>2
      <4>2. distance[queue[i]] <= distance[queue[j]]
        BY <2>5, <4>1 DEF Searched, Levelled
      <4>3. QED
        BY <1>5, <1>6, <4>1, <4>2
    <3>3. QED
      BY <3>1, <3>2
  <2>6. distance'[current'] = distance[c]
    BY <1>1, <1>2
  <2>7. \A i \in DOMAIN queue' : distance'[current'] <= distance'[queue'[i]]
    BY <1>2, <1>3, <2>2, <2>6
  <2>8. QED
    BY <2>3, <2>4, <2>5, <2>6, <2>7 DEF Levelled
<1>9. \A a, b : b # to /\ ToFollow(a, b) => ToFollow(a, b)'
  BY <1>2, <1>5 DEF ToFollow, InQueue
<1>10. InQueue(to)'
  BY <1>5 DEF InQueue
<1>11. Followed'
  <2>1. SUFFICES ASSUME NEW a \in visited', NEW b \in Node, Linked(a, b)
                 PROVE  \/ b \in visited' /\ distance'[b] <= distance'[a] + 1
                        \/ ToFollow(a, b)'
    BY <1>2, GraphStays DEF Followed
  <2>2. CASE a = to
    BY <1>10, <2>2 DEF ToFollow
  <2>3. CASE a # to /\ b # to
    <3>1. a \in visited /\ distance'[a] = distance[a]
      BY <1>2, <1>3, <2>1, <2>3
    <3>2. (b \in visited /\ distance[b] <= distance[a] + 1) \/ ToFollow(a, b)
      BY <2>1, <3>1 DEF Searched, Followed
    <3>3. QED
      BY <1>2, <1>3, <1>9, <2>3, <3>1, <3>2
  <2>4. CASE a # to /\ b = to
    <3>1. a \in visited /\ distance'[a] = distance[a]
      BY <1>2, <1>3, <2>1, <2>4
    <3>2. CASE a = c
      BY <1>2, <1>3, <2>4, <3>1, <3>2
    <3>3. CASE a # c
      <4>1. (to \in visited /\ distance[to] <= distance[a] + 1) \/ InQueue(a)
        BY <1>1, <2>1, <2>4, <3>1, <3>3 DEF Searched, Followed, ToFollow
      <4>2. InQueue(a) => InQueue(a)'
        BY <1>5 DEF InQueue
      <4>3. QED
        BY <1>2, <1>3, <2>4, <3>1, <4>1, <4>2 DEF ToFollow
    <3>4. QED
      BY <3>2, <3>3
  <2>5. QED
    BY <2>2, <2>3, <2>4
<1>12. ASSUME NEW n \in visited', NEW k \in 0 .. distance'[n]
       PROVE  \E m \in visited' : distance'[m] = k
  <2>1. CASE n \in visited
    <3>1. k \in 0 .. distance[n]
      BY <1>3, <2>1
    <3>2. PICK m \in visited : distance[m] = k
      BY <2>1, <3>1 DEF Searched, NoGap
    <3>3. QED
      BY <1>2, <1>3, <3>2
  <2>2. CASE n \notin visited /\ k = distance'[n]
    BY <2>2
  <2>3. CASE n \notin visited /\ k # distance'[n]
    <3>1. n = to /\ k \in 0 .. distance[c]
      BY <1>2, <1>3, <2>3
    <3>2. PICK m \in visited : distance[m] = k
      BY <1>2, <3>1 DEF Searched, NoGap
    <3>3. QED
      BY <1>2, <1>3, <3>2
  <2>4. QED
    BY <2>1, <2>2, <2>3
<1>13. NoGap'
  BY <1>12 DEF NoGap
<1>14. distance[c] + 1 < Cardinality(Node)
  <2>1. PICK V : V = visited'
    OBVIOUS
  <2>2. PICK D : D = distance'
    OBVIOUS
  <2>3. V \in SUBSET Node /\ to \in V /\ D[to] \in Nat /\ D[to] = distance[c] + 1
    BY <1>2, <1>3, <2>1, <2>2
  <2>4. \A k \in 0 .. D[to] : \E m \in V : D[m] = k
    BY <1>12, <2>1, <2>2, <2>3
  <2>5. PICK K \in Nat : K = D[to]
    BY <2>3
  <2>6. \A k \in 0 .. K : \E m \in V : D[m] = k
    BY <2>4, <2>5
  <2>7. K < Cardinality(Node)
    BY <2>3, <2>6, LevelsBounded
  <2>8. QED
    BY <2>3, <2>5, <2>7
<1>15. QED
  BY <1>1, <1>4, <1>8, <1>11, <1>13, <1>14 DEF Searched

(* Its weight is exact, and no link that was followed is lighter.          *)
LEMMA TakeWeighs ==
    ASSUME IInv, graph.indirect = {}, SumsFit, Searched, Light,
           NEW to \in NextTarget, TakeEdge(to)
    PROVE  Light'
<1>1. PICK c : c = current
  OBVIOUS
<1>2. /\ to \in Node /\ to \in targets /\ me # NoNode /\ to # me /\ to # c
      /\ c \in visited /\ c \in Node /\ Linked(c, to)
      /\ to \in visited =>
            /\ distance[to] = distance[c] + 1
            /\ weighted_distance[to] > NewWeighted(to)
      /\ visited' = visited \union {to}
      /\ distance' \in [Node -> Nat] /\ distance'[to] = distance[c] + 1
      /\ \A n \in Node : n # to \/ n \in visited => distance'[n] = distance[n]
      /\ weighted_distance'[to] = NewWeighted(to)
      /\ \A n \in Node \ {to} : weighted_distance'[n] = weighted_distance[n]
      /\ queue' = Append(queue, to) /\ targets' = targets \ {to}
      /\ UNCHANGED <<graph, me, current>>
  BY <1>1, TakeFacts
<1>3. /\ Searching /\ visited \subseteq Node /\ distance \in [Node -> Nat]
      /\ queue \in Seq(Node) /\ me \in Node
      /\ \A n \in visited : distance'[n] = distance[n]
  BY <1>2 DEF IInv, TypeOK
<1>4. /\ NewWeighted(to) = weighted_distance[c] + graph.weight[<<c, to>>]
      /\ 2 * Cardinality(Node) * NewWeighted(to)
                 \in -((distance[c] + 1) * IntMod) .. (distance[c] + 1) * IntMod
      /\ NewWeighted(to) \in Weights(me)[distance[c] + 1][to]
  <2>1. distance[c] + 1 < Cardinality(Node)
    BY <1>1, TakeCounts
  <2>2. QED
    BY <1>1, <1>2, <2>1, NewWeightExact
<1>5. weighted_distance'[me] = 0
  BY <1>2, <1>3 DEF Light
<1>6. Weighed'
  <2>1. ASSUME NEW n \in visited'
        PROVE  weighted_distance'[n] \in Weights(me)[distance'[n]][n]
    <3>1. CASE n = to
      BY <1>2, <1>4, <3>1
    <3>2. CASE n # to
      <4>1. n \in visited /\ n \in Node /\ distance'[n] = distance[n]
            /\ weighted_distance'[n] = weighted_distance[n]
        BY <1>2, <1>3, <2>1, <3>2
      <4>2. QED
        BY <4>1 DEF Light, Weighed
    <3>3. QED
      BY <3>1, <3>2
  <2>2. QED
    BY <1>2, <2>1, GraphStays DEF Weighed
<1>7. Fitting'
  <2>1. ASSUME NEW n \in visited'
        PROVE  2 * Cardinality(Node) * weighted_distance'[n]
                  \in -(distance'[n] * IntMod) .. distance'[n] * IntMod
    <3>1. CASE n = to
      BY <1>2, <1>4, <3>1
    <3>2. CASE n # to
      <4>1. n \in visited /\ n \in Node /\ distance'[n] = distance[n]
            /\ weighted_distance'[n] = weighted_distance[n]
        BY <1>2, <1>3, <2>1, <3>2
      <4>2. QED
        BY <4>1 DEF Light, Fitting
    <3>3. QED
      BY <3>1, <3>2
  <2>2. QED
    BY <2>1 DEF Fitting
<1>8. DOMAIN queue' = 1 .. Len(queue) + 1 /\ queue'[Len(queue) + 1] = to
      /\ \A i \in DOMAIN queue : i \in DOMAIN queue' /\ queue'[i] = queue[i]
  BY <1>2, <1>3
<1>9. \A a : InQueue(a) => InQueue(a)'
  BY <1>8 DEF InQueue
<1>10. InQueue(to)'
  <2>1. Len(queue) + 1 \in DOMAIN queue'
    BY <1>3, <1>8
  <2>2. QED
    BY <1>8, <2>1 DEF InQueue
<1>11. Lightest'
  <2>1. SUFFICES ASSUME NEW a \in visited', NEW b \in visited', Linked(a, b),
                        distance'[b] = distance'[a] + 1
                 PROVE  \/ weighted_distance'[b] <= weighted_distance'[a] + graph.weight[<<a, b>>]
                        \/ ToFollow(a, b)'
    BY <1>2, GraphStays DEF Lightest
  <2>2. CASE a = to
    BY <1>10, <2>2 DEF ToFollow
  <2>3. CASE a # to /\ b # to
    <3>1. /\ a \in visited /\ distance'[a] = distance[a]
          /\ weighted_distance'[a] = weighted_distance[a]
          /\ b \in visited /\ distance'[b] = distance[b]
          /\ weighted_distance'[b] = weighted_distance[b]
      BY <1>2, <1>3, <2>1, <2>3
    <3>2. \/ weighted_distance[b] <= weighted_distance[a] + graph.weight[<<a, b>>]
          \/ InQueue(a) \/ (a = current /\ b \in targets)
      BY <2>1, <3>1 DEF Light, Lightest, ToFollow
    <3>3. QED
      BY <1>2, <1>9, <2>3, <3>1, <3>2 DEF ToFollow
  <2>4. CASE a # to /\ b = to
    <3>1. /\ a \in visited /\ a \in Node /\ distance'[a] = distance[a]
          /\ weighted_distance'[a] = weighted_distance[a]
      BY <1>2, <1>3, <2>1, <2>4
    <3>2. PICK wa \in Int : wa = weighted_distance[a]
      <4>1. IntMod \div 2 \in Int
        BY GraphAssumption
      <4>2. weighted_distance[a] \in -(IntMod \div 2) .. IntMod \div 2 - 1
        BY <3>1 DEF IInv, TypeOK
      <4>3. QED
        BY <4>1, <4>2
    <3>3. PICK w \in Int : w = graph.weight[<<a, to>>]
      BY <1>2, <3>1, EdgeFacts DEF IInv
    <3>4. CASE a = c
      BY <1>2, <1>4, <2>4, <3>1, <3>2, <3>3, <3>4
    <3>5. CASE a # c
      <4>1. to \in visited \/ InQueue(a)
        BY <1>1, <1>2, <2>1, <2>4, <3>1, <3>5 DEF Searched, Followed, ToFollow
      <4>2. CASE to \in visited /\ ~InQueue(a)
        <5>1. distance[to] = distance[a] + 1
          BY <1>2, <2>1, <2>4, <3>1, <4>2
        <5>2. weighted_distance[to] <= wa + w
          BY <1>1, <2>1, <2>4, <3>1, <3>2, <3>3, <3>5, <4>2, <5>1
             DEF Light, Lightest, ToFollow
        <5>3. NewWeighted(to) \in Int /\ weighted_distance[to] \in Int
          <6>1. IntMod \div 2 \in Int
            BY GraphAssumption
          <6>2. /\ weighted_distance[c] \in -(IntMod \div 2) .. IntMod \div 2 - 1
                /\ weighted_distance[to] \in -(IntMod \div 2) .. IntMod \div 2 - 1
            BY <1>2 DEF IInv, TypeOK
          <6>3. QED
            BY <1>2, <1>4, <6>1, <6>2, EdgeFacts DEF IInv
        <5>4. QED
          BY <1>2, <2>4, <3>1, <3>2, <3>3, <4>2, <5>2, <5>3, SMTT(60)
      <4>3. QED
        BY <1>9, <4>1, <4>2 DEF ToFollow
    <3>6. QED
      BY <3>4, <3>5
  <2>5. QED
    BY <2>2, <2>3, <2>4
<1>12. QED
  BY <1>2, <1>5, <1>6, <1>7, <1>11 DEF Light

(* Passing over an edge.                                                   *)
LEMMA SkipCounts ==
    ASSUME IInv, graph.indirect = {}, Searched, NEW to \in NextTarget, SkipEdge(to)
    PROVE  Searched' /\ (SumsFit /\ Light => Light')
<1>1. /\ to \in Node /\ to \in targets /\ me # NoNode /\ targets' = targets \ {to}
      /\ current \in visited
      /\ Linked(current, to) =>
            /\ to \in visited /\ distance[to] <= distance[current] + 1
            /\ distance[to] = distance[current] + 1 =>
                  weighted_distance[to] <= NewWeighted(to)
      /\ UNCHANGED <<graph, me, queue, current, visited, indirect, distance,
                     weighted_distance, next_hop, via, tables>>
  BY SkipFacts
<1>2. Counted' /\ NoGap'
  BY <1>1, GraphStays DEF Searched, Counted, NoGap
<1>3. Levelled'
  BY <1>1 DEF Searched, Levelled
<1>4. \A a, b : ToFollow(a, b) => ToFollow(a, b)' \/ (a = current /\ b = to)
  BY <1>1 DEF ToFollow, InQueue
<1>5. Followed'
  BY <1>1, <1>4, GraphStays DEF Searched, Followed
<1>6. ASSUME SumsFit, Light PROVE Light'
  <2>1. Weighed' /\ Fitting'
    BY <1>1, <1>6, GraphStays DEF Light, Weighed, Fitting
  <2>2. ASSUME Linked(current, to), distance[to] = distance[current] + 1
        PROVE  weighted_distance[to] <= weighted_distance[current] + graph.weight[<<current, to>>]
    <3>1. to \in visited /\ weighted_distance[to] <= NewWeighted(to)
      BY <1>1, <2>2
    <3>2. distance[current] + 1 < Cardinality(Node)
      <4>1. PICK K \in Nat : K = distance[to]
        BY <1>1 DEF IInv, TypeOK
      <4>2. \A k \in 0 .. K : \E m \in visited : distance[m] = k
        BY <3>1, <4>1 DEF Searched, NoGap
      <4>3. visited \in SUBSET Node
        BY DEF IInv, TypeOK
      <4>4. K < Cardinality(Node)
        BY <4>2, <4>3, LevelsBounded
      <4>5. QED
        BY <2>2, <4>1, <4>4
    <3>3. NewWeighted(to) = weighted_distance[current] + graph.weight[<<current, to>>]
      BY <1>1, <1>6, <2>2, <3>2, NewWeightExact
    <3>4. QED
      BY <3>1, <3>3
  <2>3. Lightest'
    BY <1>1, <1>4, <1>6, <2>2, GraphStays DEF Light, Lightest
  <2>4. QED
    BY <1>1, <1>6, <2>1, <2>3 DEF Light
<1>7. QED
  BY <1>2, <1>3, <1>5, <1>6 DEF Searched

(* What is found at the end of a search is right.                          *)
LEMMA ResultRight ==
    ASSUME IInv, Finished, Searched
    PROVE  Right(me, Result)
<1>1. /\ Result.visited = visited /\ Result.distance = distance
      /\ Result.next_hop = next_hop
  BY DEF Result
<1>2. /\ me # NoNode /\ me \in Node /\ Searching /\ NextHopIsNeighbour
      /\ visited \subseteq Node /\ distance \in [Node -> Nat]
      /\ \A a, b : ~ToFollow(a, b)
  BY DEF Finished, IInv, TypeOK, ToFollow, InQueue
<1>3. me \in visited /\ distance[me] = 0 /\ next_hop[me] = me
  BY <1>2 DEF Searching, SourceOK, Searched, Counted
<1>4. ASSUME NEW m \in visited PROVE distance[m] < Cardinality(Node)
  <2>1. PICK K \in Nat : K = distance[m]
    BY <1>2
  <2>2. \A k \in 0 .. K : \E n \in visited : distance[n] = k
    BY <1>4, <2>1 DEF Searched, NoGap
  <2>3. K < Cardinality(Node)
    BY <1>2, <2>2, LevelsBounded
  <2>4. QED
    BY <2>1, <2>3
<1>5. \A m \in visited \ {me} :
         /\ next_hop[m] \in Node /\ Linked(me, next_hop[m])
         /\ distance[m] >= 1 /\ Walk(next_hop[m], m, distance[m] - 1)
  BY <1>2 DEF NextHopIsNeighbour, Searched, Counted
<1>6. \A a \in visited, b \in Node :
         Linked(a, b) => b \in visited /\ distance[b] <= distance[a] + 1
  BY <1>2 DEF Searched, Followed
<1>7. QED
  BY <1>1, <1>2, <1>3, <1>4, <1>5, <1>6 DEF Right

(* The turn of the next daemon, or the end.                                *)
LEMMA TurnCounts ==
    ASSUME JInv, Turn
    PROVE  JInv'
<1>1. IInv' /\ IInv /\ me # NoNode /\ Finished /\ GraphOK
  BY TurnIInv DEF JInv, Turn, Finished, IInv
<1>2. PICK next \in Node \union {NoNode} :
         /\ next = NextDaemon(DOMAIN tables \union {me})
         /\ me' = next
         /\ queue' = (IF next = NoNode THEN <<>> ELSE <<next>>)
         /\ visited' = Start(next).visited /\ indirect' = Start(next).indirect
         /\ distance' = Start(next).zero /\ weighted_distance' = Start(next).zero
         /\ next_hop' = Start(next).hop /\ via' = Start(next).hop
         /\ tables' = [n \in DOMAIN tables \union {me} |->
                          IF n = me THEN Result ELSE tables[n]]
         /\ UNCHANGED <<graph, current, targets>>
  BY NextDaemonFacts DEF Turn
<1>3. targets' = {}
  BY <1>1, <1>2 DEF Finished
<1>4. TablesOK'
  <2>1. ASSUME next = NoNode PROVE Node \subseteq DOMAIN tables'
    <3>1. NoNode \notin Node
      BY <1>1, EdgeFacts
    <3>2. Node \subseteq DOMAIN tables \union {me}
      BY <1>2, <2>1, <3>1 DEF NextDaemon
    <3>3. QED
      BY <1>2, <3>2
  <2>2. ASSUME graph.indirect = {}, NEW n \in DOMAIN tables' PROVE Right(n, tables'[n])
    <3>1. CASE n = me
      <4>1. tables'[n] = Result
        BY <1>2, <3>1
      <4>2. Right(me, Result)
        BY <1>1, <2>2, ResultRight DEF JInv
      <4>3. QED
        BY <3>1, <4>1, <4>2
    <3>2. CASE n # me
      BY <1>2, <2>2, <3>2 DEF JInv, TablesOK
    <3>3. QED
      BY <3>1, <3>2
  <2>3. UNCHANGED graph /\ me' = next
    BY <1>2
  <2>4. QED
    BY <2>1, <2>2, <2>3, GraphStays DEF TablesOK
<1>5. ASSUME next # NoNode PROVE Searched' /\ Light'
  <2>1. /\ next \in Node /\ me' = next /\ visited' = {next} /\ indirect' = Node \ {next}
        /\ distance'[next] = 0 /\ weighted_distance'[next] = 0
        /\ DOMAIN queue' = {1} /\ queue'[1] = next
    BY <1>2, <1>5 DEF Start
  <2>2. Counted'
    BY <2>1 DEF Counted
  <2>3. Levelled'
    BY <1>3, <2>1 DEF Levelled
  <2>4. Followed'
    BY <2>1 DEF Followed, ToFollow, InQueue
  <2>5. NoGap'
    BY <2>1 DEF NoGap
  <2>6. Weights(next)[0][next] = {0}
    BY <1>1, <2>1, WeightsAre
  <2>7. Cardinality(Node) \in Nat /\ IntMod \in Nat
    BY GraphAssumption, FS_CardinalityType
  <2>8. Weighed'
    BY <1>2, <2>1, <2>6, GraphStays DEF Weighed
  <2>9. Fitting'
    BY <2>1, <2>7 DEF Fitting
  <2>10. Lightest'
    BY <2>1 DEF Lightest
  <2>11. QED
    BY <2>1, <2>2, <2>3, <2>4, <2>5, <2>8, <2>9, <2>10 DEF Searched, Light
<1>6. QED
  BY <1>1, <1>2, <1>4, <1>5 DEF JInv

(* Every step.                                                             *)
LEMMA NextJInv == JInv /\ [Next]_vars => JInv'
<1>1. SUFFICES ASSUME JInv, [Next]_vars PROVE JInv'
  OBVIOUS
<1>2. IInv /\ IInv'
  BY <1>1, NextIInv DEF JInv
<1>3. ASSUME UNCHANGED <<graph, me, tables>>, me # NoNode,
             graph.indirect = {} => Searched',
             graph.indirect = {} /\ SumsFit => Light'
      PROVE  JInv'
  <2>1. TablesOK'
    BY <1>1, <1>3, GraphStays DEF JInv, TablesOK
  <2>2. QED
    BY <1>2, <1>3, <2>1, GraphStays DEF JInv
<1>4. CASE PopFront
  <2>1. UNCHANGED <<graph, me, tables>> /\ me # NoNode
    BY <1>4 DEF PopFront
  <2>2. QED
    BY <1>1, <1>2, <1>3, <1>4, <2>1, PopCounts DEF JInv
<1>5. ASSUME NEW to \in NextTarget, SkipEdge(to) PROVE JInv'
  <2>1. UNCHANGED <<graph, me, tables>> /\ me # NoNode
    BY <1>2, <1>5 DEF SkipEdge, NextTarget, IInv
  <2>2. QED
    BY <1>1, <1>2, <1>3, <1>5, <2>1, SkipCounts DEF JInv
<1>6. ASSUME NEW to \in NextTarget, TakeEdge(to) PROVE JInv'
  <2>1. UNCHANGED <<graph, me, tables>> /\ me # NoNode
    BY <1>2, <1>6 DEF TakeEdge, NextTarget, IInv
  <2>2. QED
    BY <1>1, <1>2, <1>3, <1>6, <2>1, TakeCounts, TakeWeighs DEF JInv
<1>7. CASE Turn
  BY <1>1, <1>7, TurnCounts
<1>8. CASE UNCHANGED vars
  <2>1. UNCHANGED graph /\ UNCHANGED vars
    BY <1>8 DEF vars
  <2>2. Searched' <=> Searched
    BY <2>1, GraphStays DEF vars, node_vars, Searched, Counted, Levelled, Followed,
       ToFollow, InQueue, NoGap
  <2>3. Light' <=> Light
    BY <2>1, GraphStays DEF vars, node_vars, Light, Weighed, Fitting, Lightest,
       ToFollow, InQueue
  <2>4. TablesOK' <=> TablesOK
    BY <2>1, GraphStays DEF vars, TablesOK
  <2>5. UNCHANGED me /\ (SumsFit' <=> SumsFit)
    BY <2>1, GraphStays DEF vars
  <2>6. QED
    BY <1>1, <1>2, <2>1, <2>2, <2>3, <2>4, <2>5 DEF JInv
<1>9. QED
  BY <1>1, <1>4, <1>5, <1>6, <1>7, <1>8 DEF Next

-----------------------------------------------------------------------------
(* The last link of a path of k + 1 links.                                 *)
LEMMA LastLink ==
    ASSUME GraphOK, NEW d, NEW k \in Nat, k + 1 <= Cardinality(Node),
           NEW m \in Node, NEW x \in Weights(d)[k + 1][m]
    PROVE  \E p \in Node : \E y \in Weights(d)[k][p] :
              Linked(p, m) /\ y \in Int /\ x = y + graph.weight[<<p, m>>]
<1>1. PICK j : j = k + 1
  OBVIOUS
<1>2. Cardinality(Node) \in Nat
  BY GraphAssumption, FS_CardinalityType
<1>3. j \in 1 .. Cardinality(Node) /\ j - 1 = k /\ k \in 0 .. Cardinality(Node)
  BY <1>1, <1>2
<1>4. /\ \A i \in 1 .. Cardinality(Node) : Weights(d)[i] = Longer(Weights(d)[i - 1])
      /\ \A i \in 0 .. Cardinality(Node) : Weights(d)[i] \in [Node -> SUBSET Int]
  BY WeightsAre
<1>5. Weights(d)[j] = Longer(Weights(d)[j - 1])
  BY <1>3, <1>4
<1>6. x \in Longer(Weights(d)[k])[m]
  BY <1>1, <1>3, <1>5
<1>7. Weights(d)[k] \in [Node -> SUBSET Int]
  BY <1>3, <1>4
<1>8. QED
  BY <1>6, <1>7 DEF Longer

(* The routes of a finished search are the shortest, and of these the      *)
(* lightest.                                                               *)
LEMMA BestAtEnd == JInv => RoutesAreBest
<1>1. SUFFICES ASSUME JInv, Finished, graph.indirect = {}, SumsFit, NEW n \in visited
               PROVE  LET hops == {k \in 0 .. Cardinality(Node) : Weights(me)[k][n] # {}}
                      IN  /\ distance[n] \in hops
                          /\ \A k \in hops : distance[n] <= k
                          /\ weighted_distance[n] \in Weights(me)[distance[n]][n]
                          /\ \A x \in Weights(me)[distance[n]][n] : weighted_distance[n] <= x
  BY DEF RoutesAreBest
<1>2. /\ IInv /\ GraphOK /\ me # NoNode /\ Searched /\ Light /\ Searching /\ me \in Node
      /\ \A a, b : ~ToFollow(a, b)
      /\ visited \subseteq Node /\ distance \in [Node -> Nat]
  BY <1>1 DEF JInv, IInv, TypeOK, Finished, ToFollow, InQueue
<1>3. PICK N \in Nat : N = Cardinality(Node)
  BY GraphAssumption, FS_CardinalityType
<1>4. \A m \in Node : weighted_distance[m] \in Int
  <2>1. IntMod \div 2 \in Int
    BY GraphAssumption
  <2>2. \A m \in Node : weighted_distance[m] \in -(IntMod \div 2) .. IntMod \div 2 - 1
    BY <1>2 DEF IInv, TypeOK
  <2>3. QED
    BY <2>1, <2>2
<1>5. /\ me \in visited /\ distance[me] = 0 /\ weighted_distance[me] = 0
      /\ \A a \in visited, b \in Node :
            Linked(a, b) => b \in visited /\ distance[b] <= distance[a] + 1
      /\ \A a, b \in visited :
            (Linked(a, b) /\ distance[b] = distance[a] + 1) =>
               weighted_distance[b] <= weighted_distance[a] + graph.weight[<<a, b>>]
  BY <1>2 DEF Searching, SourceOK, Searched, Counted, Followed, Light, Lightest
<1>6. \A m \in Node : Weights(me)[0][m] = IF m = me THEN {0} ELSE {}
  <2>1. Weights(me)[0] = [m \in Node |-> IF m = me THEN {0} ELSE {}]
    BY <1>2, WeightsAre
  <2>2. QED
    BY <2>1
<1> DEFINE Near(k) == \A m \in Node :
                         Weights(me)[k][m] # {} => m \in visited /\ distance[m] <= k
           Least(k) == \A m \in visited :
                         distance[m] = k => \A x \in Weights(me)[k][m] : weighted_distance[m] <= x
           S == {k \in Nat : k <= N => Near(k) /\ Least(k)}
<1>7. 0 \in S
  <2>1. Near(0)
    BY <1>5, <1>6
  <2>2. Least(0)
    BY <1>2, <1>5, <1>6
  <2>3. QED
    BY <2>1, <2>2
<1>8. ASSUME NEW k \in Nat, k \in S PROVE k + 1 \in S
  <2>1. SUFFICES ASSUME k + 1 <= N PROVE Near(k + 1) /\ Least(k + 1)
    OBVIOUS
  <2>2. Near(k) /\ Least(k)
    BY <1>8, <2>1
  <2>3. ASSUME NEW m \in Node, NEW x \in Weights(me)[k + 1][m]
        PROVE  /\ m \in visited /\ distance[m] <= k + 1
               /\ distance[m] = k + 1 => weighted_distance[m] <= x
    <3>1. PICK p \in Node : \E y \in Weights(me)[k][p] :
              Linked(p, m) /\ y \in Int /\ x = y + graph.weight[<<p, m>>]
      <4>1. k + 1 <= Cardinality(Node) /\ GraphOK
        BY <1>2, <1>3, <2>1
      <4>2. PICK d : d = me
        OBVIOUS
      <4>3. x \in Weights(d)[k + 1][m]
        BY <2>3, <4>2
      <4>4. \E p \in Node : \E y \in Weights(d)[k][p] :
               Linked(p, m) /\ y \in Int /\ x = y + graph.weight[<<p, m>>]
        BY <4>1, <4>3, LastLink
      <4>5. QED
        BY <4>2, <4>4
    <3>2. PICK y \in Weights(me)[k][p] :
              Linked(p, m) /\ y \in Int /\ x = y + graph.weight[<<p, m>>]
      BY <3>1
    <3>3. p \in visited /\ distance[p] <= k
      BY <2>2, <3>2
    <3>4. m \in visited /\ distance[m] <= distance[p] + 1
      BY <1>5, <3>2, <3>3
    <3>5. distance[m] \in Nat /\ distance[p] \in Nat /\ graph.weight[<<p, m>>] \in Int
          /\ weighted_distance[p] \in Int /\ weighted_distance[m] \in Int
      BY <1>2, <1>4, EdgeFacts
    <3>6. distance[m] <= k + 1
      BY <3>3, <3>4, <3>5
    <3>7. ASSUME distance[m] = k + 1 PROVE weighted_distance[m] <= x
      <4>1. distance[p] = k
        BY <3>3, <3>4, <3>5, <3>7
      <4>2. weighted_distance[p] <= y
        BY <2>2, <3>3, <4>1
      <4>3. weighted_distance[m] <= weighted_distance[p] + graph.weight[<<p, m>>]
        BY <1>5, <3>2, <3>3, <3>4, <3>7, <4>1
      <4>4. QED
        BY <3>2, <3>5, <4>2, <4>3
    <3>8. QED
      BY <3>4, <3>6, <3>7
  <2>4. QED
    BY <1>2, <2>3
<1>9. Nat \subseteq S
  <2> HIDE DEF S
  <2>1. QED
    BY <1>7, <1>8, Induct
<1>10. PICK K \in Nat : K = distance[n] /\ K < N
  <2>1. PICK K \in Nat : K = distance[n]
    BY <1>2
  <2>2. \A k \in 0 .. K : \E m \in visited : distance[m] = k
    BY <1>2, <2>1 DEF Searched, NoGap
  <2>3. QED
    BY <1>2, <1>3, <2>1, <2>2, LevelsBounded
<1>11. weighted_distance[n] \in Weights(me)[K][n]
  BY <1>2, <1>10 DEF Light, Weighed
<1>12. ASSUME NEW k \in 0 .. N, Weights(me)[k][n] # {} PROVE K <= k
  BY <1>2, <1>9, <1>10, <1>12
<1>13. \A x \in Weights(me)[K][n] : weighted_distance[n] <= x
  BY <1>9, <1>10
<1>14. QED
  BY <1>3, <1>10, <1>11, <1>12, <1>13

(* The next daemon on the way counts one hop less.                         *)
LEMMA OneHopCloser ==
    ASSUME JInv, me = NoNode, graph.indirect = {}, NEW to \in Node,
           NEW x \in Node, to \in tables[x].visited
    PROVE  /\ tables[x].distance[to] \in Nat
           /\ tables[x].distance[to] < Cardinality(Node)
           /\ x = to => tables[x].distance[to] = 0 /\ tables[x].next_hop[to] = to
           /\ x # to =>
                /\ tables[x].distance[to] >= 1
                /\ tables[x].next_hop[to] \in Node
                /\ to \in tables[tables[x].next_hop[to]].visited
                /\ tables[tables[x].next_hop[to]].distance[to] = tables[x].distance[to] - 1
<1>1. \A n \in Node : Right(n, tables[n])
  BY DEF JInv, TablesOK
<1>2. PICK t : t = tables[x]
  OBVIOUS
<1>3. Right(x, t) /\ to \in t.visited
  BY <1>1, <1>2
<1>4. PICK d \in Nat : d = t.distance[to] /\ d < Cardinality(Node)
  BY <1>3 DEF Right
<1>5. x = to => d = 0 /\ t.next_hop[to] = to
  BY <1>3, <1>4 DEF Right
<1>6. ASSUME x # to
      PROVE  /\ d >= 1 /\ t.next_hop[to] \in Node
             /\ to \in tables[t.next_hop[to]].visited
             /\ tables[t.next_hop[to]].distance[to] = d - 1
  <2>1. PICK h \in Node : h = t.next_hop[to]
    BY <1>3, <1>6 DEF Right
  <2>2. Linked(x, h) /\ d >= 1 /\ Walk(h, to, d - 1)
    BY <1>3, <1>4, <1>6, <2>1 DEF Right
  <2>3. PICK u : u = tables[h]
    OBVIOUS
  <2>4. Right(h, u)
    BY <1>1, <2>3
  <2>5. to \in u.visited /\ u.distance[to] <= d - 1
    <3>1. PICK k \in Nat : k = d - 1
      BY <2>2
    <3>2. PICK V : V = u.visited
      OBVIOUS
    <3>3. PICK D : D = u.distance
      OBVIOUS
    <3>4. /\ h \in V /\ D[h] = 0 /\ \A y \in V : D[y] \in Nat
          /\ \A a \in V, b \in Node : Linked(a, b) => b \in V /\ D[b] <= D[a] + 1
      BY <2>4, <3>2, <3>3 DEF Right
    <3>5. Walk(h, to, k)
      BY <2>2, <3>1
    <3>6. to \in V /\ D[to] <= k
      BY <3>4, <3>5, WalkWithin
    <3>7. QED
      BY <3>1, <3>2, <3>3, <3>6
  <2>6. PICK e \in Nat : e = u.distance[to]
    BY <2>4, <2>5 DEF Right
  <2>7. Walk(h, to, e)
    <3>1. CASE to = h
      <4>1. e = 0
        BY <2>4, <2>6, <3>1 DEF Right
      <4>2. QED
        BY <3>1, <4>1, WalkNone
    <3>2. CASE to # h
      <4>1. /\ e >= 1 /\ u.next_hop[to] \in Node /\ Linked(h, u.next_hop[to])
            /\ Walk(u.next_hop[to], to, e - 1)
        BY <2>4, <2>5, <2>6, <3>2 DEF Right
      <4>2. PICK k \in Nat : k = e - 1 /\ k + 1 = e
        BY <4>1
      <4>3. Walk(u.next_hop[to], to, k)
        BY <4>1, <4>2
      <4>4. Walk(h, to, k + 1)
        BY <4>1, <4>3, WalkFrom
      <4>5. QED
        BY <4>2, <4>4
    <3>3. QED
      BY <3>1, <3>2
  <2>8. d <= e + 1
    <3>1. PICK k \in Nat : k = e + 1
      OBVIOUS
    <3>2. Walk(x, to, k)
      BY <2>2, <2>7, <3>1, WalkFrom
    <3>3. PICK V : V = t.visited
      OBVIOUS
    <3>4. PICK D : D = t.distance
      OBVIOUS
    <3>5. /\ x \in V /\ D[x] = 0 /\ \A y \in V : D[y] \in Nat
          /\ \A a \in V, b \in Node : Linked(a, b) => b \in V /\ D[b] <= D[a] + 1
      BY <1>3, <3>3, <3>4 DEF Right
    <3>6. to \in V /\ D[to] <= k
      BY <3>2, <3>5, WalkWithin
    <3>7. QED
      BY <1>4, <3>1, <3>4, <3>6
  <2>9. e = d - 1
    BY <2>5, <2>6, <2>8
  <2>10. QED
    BY <2>1, <2>2, <2>3, <2>5, <2>6, <2>9
<1>7. QED
  BY <1>2, <1>4, <1>5, <1>6

(* ... until it has arrived.                                               *)
LEMMA ArrivesAtEnd == JInv => PacketsArrive
<1>1. SUFFICES ASSUME JInv, me = NoNode, graph.indirect = {},
                      NEW n \in Node, NEW to \in Node, to \in tables[n].visited
               PROVE  /\ tables[n].distance[to] < Cardinality(Node)
                      /\ \A k \in 0 .. Cardinality(Node) :
                            Hops(n, to)[k] = to <=> k >= tables[n].distance[to]
  BY DEF PacketsArrive
<1>2. PICK N \in Nat : N = Cardinality(Node)
  BY GraphAssumption, FS_CardinalityType
<1>3. PICK T : T = {x \in Node : to \in tables[x].visited}
  OBVIOUS
<1>4. PICK D : D = [x \in T |-> tables[x].distance[to]]
  OBVIOUS
<1>5. ASSUME NEW x \in T
      PROVE  /\ D[x] \in Nat /\ D[x] < N /\ tables[x].next_hop[to] \in T
             /\ x = to => D[x] = 0 /\ tables[x].next_hop[to] = to
             /\ x # to => D[x] >= 1 /\ D[tables[x].next_hop[to]] = D[x] - 1
  <2>1. x \in Node /\ to \in tables[x].visited /\ D[x] = tables[x].distance[to]
    BY <1>3, <1>4
  <2>2. CASE x = to
    BY <1>1, <1>2, <1>3, <2>1, <2>2, OneHopCloser
  <2>3. CASE x # to
    <3>1. PICK h : h = tables[x].next_hop[to]
      OBVIOUS
    <3>2. /\ tables[x].distance[to] \in Nat /\ tables[x].distance[to] < N
          /\ tables[x].distance[to] >= 1 /\ h \in Node /\ to \in tables[h].visited
          /\ tables[h].distance[to] = tables[x].distance[to] - 1
      BY <1>1, <1>2, <2>1, <2>3, <3>1, OneHopCloser
    <3>3. h \in T /\ D[h] = tables[h].distance[to]
      BY <1>3, <1>4, <3>2
    <3>4. QED
      BY <2>1, <2>3, <3>1, <3>2, <3>3
  <2>4. QED
    BY <2>2, <2>3
<1>6. n \in T
  BY <1>1, <1>3
<1>7. PICK at : at = Hops(n, to)
  OBVIOUS
<1>8. /\ at \in [0 .. N -> T] /\ at[0] = n
      /\ \A k \in 1 .. N : at[k] = tables[at[k - 1]].next_hop[to]
  <2>1. \A y \in T : tables[y].next_hop[to] \in T
    BY <1>5
  <2>2. QED
    BY <1>2, <1>6, <1>7, <2>1, HopsAre
<1> DEFINE S == {k \in Nat : k <= N => D[at[k]] = IF k <= D[n] THEN D[n] - k ELSE 0}
<1>9. 0 \in S
  BY <1>5, <1>6, <1>8
<1>10. ASSUME NEW k \in Nat, k \in S PROVE k + 1 \in S
  <2>1. SUFFICES ASSUME k + 1 <= N
                 PROVE  D[at[k + 1]] = IF k + 1 <= D[n] THEN D[n] - (k + 1) ELSE 0
    OBVIOUS
  <2>2. PICK x \in T : x = at[k]
    BY <1>8, <2>1
  <2>3. PICK j : j = k + 1
    OBVIOUS
  <2>4. j \in 1 .. N /\ j - 1 = k
    BY <2>1, <2>3
  <2>5. at[j] = tables[x].next_hop[to]
    BY <1>8, <2>2, <2>4
  <2>6. D[x] = IF k <= D[n] THEN D[n] - k ELSE 0
    BY <1>10, <2>1, <2>2
  <2>7. D[n] \in Nat /\ D[x] \in Nat
    BY <1>5, <1>6
  <2>8. CASE x = to
    <3>1. at[j] = x /\ D[x] = 0
      BY <1>5, <2>5, <2>8
    <3>2. D[at[j]] = 0 /\ D[n] <= k
      BY <2>6, <2>7, <3>1
    <3>3. QED
      BY <2>3, <2>7, <3>2
  <2>9. CASE x # to
    <3>1. D[x] >= 1 /\ D[at[j]] = D[x] - 1
      BY <1>5, <2>5, <2>9
    <3>2. QED
      BY <2>3, <2>6, <2>7, <3>1
  <2>10. QED
    BY <2>8, <2>9
<1>11. Nat \subseteq S
  <2> HIDE DEF S
  <2>1. QED
    BY <1>9, <1>10, Induct
<1>12. ASSUME NEW k \in 0 .. N
       PROVE  at[k] = to <=> k >= tables[n].distance[to]
  <2>1. PICK x \in T : x = at[k]
    BY <1>8
  <2>2. D[x] = IF k <= D[n] THEN D[n] - k ELSE 0
    BY <1>11, <2>1
  <2>3. D[n] = tables[n].distance[to] /\ D[n] \in Nat
    BY <1>4, <1>5, <1>6
  <2>4. x = to <=> D[x] = 0
    BY <1>5
  <2>5. QED
    BY <2>1, <2>2, <2>3, <2>4
<1>13. tables[n].distance[to] < N
  BY <1>4, <1>5, <1>6
<1>14. QED
  BY <1>2, <1>7, <1>12, <1>13

-----------------------------------------------------------------------------
(* Without indirect edges the search of sssp_bfs goes level by level.      *)
THEOREM RoutesInvariant == Spec => []JInv
BY InitJInv, NextJInv, PTL DEF Spec

(* The next hops that the daemons compute on their own bring every packet  *)
(* to its destination, in the number of hops that the first one counted.   *)
THEOREM PacketsAlwaysArrive == Spec => []PacketsArrive
BY RoutesInvariant, ArrivesAtEnd, PTL

(* The path that next_hop starts is the lightest of the shortest ones.     *)
THEOREM RoutesAlwaysBest == Spec => []RoutesAreBest
BY RoutesInvariant, BestAtEnd, PTL
=============================================================================
