--------------------------- MODULE MetaMeshProofs ---------------------------
(***************************************************************************)
(* For any number of daemons and connections, whatever is dialled, cut or  *)
(* crashes, and whatever the requests on the wire say: a daemon's own      *)
(* edges are exactly its activated connections, of which it has at most    *)
(* one per peer.                                                           *)
(*                                                                         *)
(* The proof assumes nothing of the requests.  It rests on what a daemon   *)
(* does to its own edges: nobody else can make it add or delete one.       *)
(***************************************************************************)
EXTENDS MetaMesh, SequenceTheorems, FiniteSetTheorems, TLAPS

(* The connections of d have been opened and lead from d to another daemon.*)
ConnsOK(d) ==
    \A c \in conns[d] :
        c \in ConnId /\ c <= opened /\ \E p \in Daemon : p # d /\ ends[c] = {d, p}

(* The edge from d to p has an owner or does not exist, and an activated   *)
(* connection owns the edge to its peer.                                   *)
OwnOK(d, p) ==
    /\ owner[d][p] = NoConn => graph[d][<<d, p>>] = NoEdge
    /\ owner[d][p] # NoConn =>
          /\ owner[d][p] \in edge_peer[d]
          /\ Peer(owner[d][p], d) = p
          /\ graph[d][<<d, p>>] = DataOf[owner[d][p]]

ActiveOK(d) ==
    \A c \in edge_peer[d] : c \in conns[d] /\ owner[d][Peer(c, d)] = c

(* What is known of a graph's edges is whatever some request claimed.      *)
GraphShape(X) == NoEdge \in X /\ graph \in [Daemon -> [EdgeKey -> X]]

ShapeOK ==
    /\ opened \in Nat
    /\ ends \in [ConnId -> SUBSET Daemon]
    /\ conns \in [Daemon -> SUBSET ConnId]
    /\ edge_peer \in [Daemon -> SUBSET ConnId]
    /\ owner \in [Daemon -> [Daemon -> ConnId \union {NoConn}]]
    /\ \E X : GraphShape(X)

IInv ==
    /\ ShapeOK
    /\ \A d \in Daemon : ConnsOK(d) /\ ActiveOK(d)
    /\ \A d, p \in Daemon : OwnOK(d, p)

(* Whatever the setup is, only pairs of daemons are connected, and none    *)
(* twice at the start.                                                     *)
SetupOK == setup \in Setups

LEMMA SetupFacts ==
    ASSUME SetupOK
    PROVE  /\ ConnectTo \subseteq SUBSET Daemon
           /\ \A pair \in ConnectTo : \E d, e \in Daemon : d # e /\ pair = {d, e}
           /\ Established \in Seq(ConnectTo) /\ Len(Established) <= MaxConns
           /\ \A b, c \in DOMAIN Established : Established[b] = Established[c] => b = c
BY MeshAssumption DEF SetupOK, ConnectTo, Established

(* A connection leads from d to another daemon, its peer.                  *)
LEMMA PeerFacts ==
    ASSUME NEW d \in Daemon, ConnsOK(d), NEW c \in conns[d]
    PROVE  /\ Peer(c, d) \in Daemon /\ Peer(c, d) # d
           /\ c \in ConnId /\ c # NoConn
<1>1. PICK p \in Daemon : p # d /\ ends[c] = {d, p}
  BY DEF ConnsOK
<1>2. \E e \in ends[c] : e # d
  BY <1>1
<1>3. Peer(c, d) \in ends[c] /\ Peer(c, d) # d
  BY <1>2 DEF Peer
<1>4. c \in ConnId /\ c # NoConn
  BY MeshAssumption DEF ConnsOK, ConnId, NoConn
<1>5. QED
  BY <1>1, <1>3, <1>4

(* A daemon always reaches itself, so it never takes an edge of its own    *)
(* for a stale one.                                                        *)
LEMMA SelfReachable ==
    ASSUME NEW d \in Daemon, NEW g
    PROVE  ~StaleReverse(g, d, d)
BY DEF StaleReverse, Reachable

(* The data of a connection is not NoEdge.                                 *)
LEMMA DataFacts == \A c \in ConnId : DataOf[c] # NoEdge
BY MeshAssumption DEF ConnId, NoEdge

(* What deleting one edge leaves.                                          *)
LEMMA WithoutFacts ==
    ASSUME NEW X, NoEdge \in X, NEW g \in [EdgeKey -> X], NEW a, NEW b
    PROVE  /\ Without(g, a, b) \in [EdgeKey -> X]
           /\ \A k \in EdgeKey : k # <<a, b>> => Without(g, a, b)[k] = g[k]
           /\ <<a, b>> \in EdgeKey => Without(g, a, b)[<<a, b>>] = NoEdge
BY DEF Without

(* Closing a connection takes away exactly the edge that it owns.          *)
LEMMA ClosedFacts ==
    ASSUME IInv, NEW d \in Daemon, NEW c \in conns[d],
           NEW X, GraphShape(X)
    PROVE  /\ c \notin edge_peer[d] =>
                Closed(d, c).owner = owner[d] /\ Closed(d, c).graph = graph[d]
           /\ c \in edge_peer[d] =>
                /\ Closed(d, c).owner = [owner[d] EXCEPT ![Peer(c, d)] = NoConn]
                /\ Closed(d, c).graph[<<d, Peer(c, d)>>] = NoEdge
                /\ \A q \in Daemon : q # Peer(c, d) =>
                      Closed(d, c).graph[<<d, q>>] = graph[d][<<d, q>>]
           /\ Closed(d, c).graph \in [EdgeKey -> X]
<1>1. PICK p : p = Peer(c, d)
  OBVIOUS
<1>2. PICK g1 : g1 = Without(graph[d], d, p)
  OBVIOUS
<1>3. PICK g2 : g2 = Without(g1, p, d)
  OBVIOUS
<1>4. p \in Daemon /\ p # d /\ c \in ConnId /\ c # NoConn
  BY <1>1, PeerFacts DEF IInv
<1>5. graph[d] \in [EdgeKey -> X] /\ NoEdge \in X
  BY DEF GraphShape
<1>6. CASE c \notin edge_peer[d]
  <2>1. Closed(d, c).owner = owner[d] /\ Closed(d, c).graph = graph[d]
    BY <1>6 DEF Closed, OwnsEdge
  <2>2. QED
    BY <1>5, <1>6, <2>1
<1>7. CASE c \in edge_peer[d]
  <2>1. owner[d][p] = c /\ graph[d][<<d, p>>] = DataOf[c]
    BY <1>1, <1>4, <1>7 DEF IInv, ActiveOK, OwnOK
  <2>2. OwnsEdge(d, c)
    BY <1>1, <1>4, <1>7, <2>1, DataFacts DEF OwnsEdge
  <2>3. /\ Closed(d, c).owner = [owner[d] EXCEPT ![p] = NoConn]
        /\ Closed(d, c).graph = g1 \/ Closed(d, c).graph = g2
    BY <1>1, <1>2, <1>3, <2>2 DEF Closed
  <2>4. /\ g1 \in [EdgeKey -> X]
        /\ \A k \in EdgeKey : k # <<d, p>> => g1[k] = graph[d][k]
        /\ <<d, p>> \in EdgeKey => g1[<<d, p>>] = NoEdge
    BY <1>2, <1>5, WithoutFacts
  <2>5. /\ g2 \in [EdgeKey -> X]
        /\ \A k \in EdgeKey : k # <<p, d>> => g2[k] = g1[k]
    <3>1. g1 \in [EdgeKey -> X] /\ NoEdge \in X
      BY <1>5, <2>4
    <3>2. QED
      BY <1>3, <3>1 DEF Without
  <2>6. /\ <<d, p>> \in EdgeKey /\ <<d, p>> # <<p, d>>
        /\ \A q \in Daemon : <<d, q>> \in EdgeKey /\ <<d, q>> # <<p, d>>
        /\ \A q \in Daemon : q # p => <<d, q>> # <<d, p>>
    BY <1>4 DEF EdgeKey
  <2>7. ASSUME NEW g, g = g1 \/ g = g2
        PROVE  /\ g \in [EdgeKey -> X] /\ g[<<d, p>>] = NoEdge
               /\ \A q \in Daemon : q # p => g[<<d, q>>] = graph[d][<<d, q>>]
    BY <2>4, <2>5, <2>6, <2>7
  <2>8. QED
    BY <1>1, <1>7, <2>3, <2>7
<1>8. QED
  BY <1>6, <1>7

-----------------------------------------------------------------------------
(* A step of daemon d that leaves its connections and owners alone, and    *)
(* the edges from d in its graph.                                          *)
LEMMA GossipStep ==
    ASSUME IInv, NEW d \in Daemon, NEW X, GraphShape(X), NEW g \in [EdgeKey -> X],
           graph' = [graph EXCEPT ![d] = g],
           \A p \in Daemon : g[<<d, p>>] = graph[d][<<d, p>>],
           UNCHANGED <<opened, ends, conns, edge_peer, owner>>
    PROVE  IInv'
<1>1. GraphShape(X)'
  BY DEF GraphShape
<1>2. \A e, p \in Daemon : graph'[e][<<e, p>>] = graph[e][<<e, p>>]
  BY DEF GraphShape
<1>3. ShapeOK'
  BY <1>1 DEF IInv, ShapeOK
<1>4. \A c, e : Peer(c, e)' = Peer(c, e)
  BY DEF Peer
<1>5. ASSUME NEW e \in Daemon PROVE ConnsOK(e)' /\ ActiveOK(e)'
  BY <1>4 DEF IInv, ConnsOK, ActiveOK
<1>6. ASSUME NEW e \in Daemon, NEW p \in Daemon PROVE OwnOK(e, p)'
  <2>1. OwnOK(e, p)
    BY DEF IInv
  <2>2. QED
    BY <1>2, <1>4, <2>1 DEF OwnOK
<1>7. QED
  BY <1>3, <1>5, <1>6 DEF IInv

(* Closing connection c of daemon d: what the peer of c is to d is gone,   *)
(* all the rest is as it was.                                              *)
LEMMA CloseIInv ==
    ASSUME IInv, NEW d \in Daemon, NEW c \in conns[d], Close(d, c),
           UNCHANGED <<opened, ends>>
    PROVE  IInv'
<1>1. PICK X : GraphShape(X)
  BY DEF IInv, ShapeOK
<1>2. PICK p \in Daemon : p = Peer(c, d) /\ p # d /\ c # NoConn
  BY PeerFacts DEF IInv
<1>3. PICK g : g = Closed(d, c).graph
  OBVIOUS
<1>4. PICK o : o = Closed(d, c).owner
  OBVIOUS
<1>5. /\ conns' = [conns EXCEPT ![d] = conns[d] \ {c}]
      /\ edge_peer' = [edge_peer EXCEPT ![d] = edge_peer[d] \ {c}]
      /\ graph' = [graph EXCEPT ![d] = g]
      /\ owner' = [owner EXCEPT ![d] = o]
  BY <1>3, <1>4 DEF Close
<1>6. /\ c \notin edge_peer[d] => o = owner[d] /\ g = graph[d]
      /\ c \in edge_peer[d] =>
            /\ o = [owner[d] EXCEPT ![p] = NoConn]
            /\ g[<<d, p>>] = NoEdge
            /\ \A q \in Daemon : q # p => g[<<d, q>>] = graph[d][<<d, q>>]
      /\ g \in [EdgeKey -> X]
  BY <1>1, <1>2, <1>3, <1>4, ClosedFacts
<1>7. /\ conns \in [Daemon -> SUBSET ConnId] /\ edge_peer \in [Daemon -> SUBSET ConnId]
      /\ owner \in [Daemon -> [Daemon -> ConnId \union {NoConn}]]
      /\ graph \in [Daemon -> [EdgeKey -> X]]
  BY <1>1 DEF IInv, ShapeOK, GraphShape
<1>8. o \in [Daemon -> ConnId \union {NoConn}]
  <2>1. owner[d] \in [Daemon -> ConnId \union {NoConn}]
    BY <1>7
  <2>2. CASE c \notin edge_peer[d]
    BY <1>6, <2>1, <2>2
  <2>3. CASE c \in edge_peer[d]
    BY <1>6, <2>1, <2>3
  <2>4. QED
    BY <2>2, <2>3
<1>9. ShapeOK'
  <2>1. GraphShape(X)'
    BY <1>1, <1>5, <1>6 DEF GraphShape
  <2>2. /\ conns' \in [Daemon -> SUBSET ConnId] /\ edge_peer' \in [Daemon -> SUBSET ConnId]
        /\ owner' \in [Daemon -> [Daemon -> ConnId \union {NoConn}]]
    BY <1>5, <1>7, <1>8
  <2>3. QED
    BY <2>1, <2>2 DEF IInv, ShapeOK
<1>10. \A b, e : Peer(b, e)' = Peer(b, e)
  BY DEF Peer
<1>11. ASSUME NEW e \in Daemon PROVE ConnsOK(e)' /\ ActiveOK(e)'
  <2>1. conns'[e] \subseteq conns[e] /\ ConnsOK(e) /\ ActiveOK(e)
    BY <1>5, <1>7 DEF IInv
  <2>2. ConnsOK(e)'
    BY <2>1 DEF ConnsOK
  <2>3. CASE e # d
    <3>1. edge_peer'[e] = edge_peer[e] /\ conns'[e] = conns[e] /\ owner'[e] = owner[e]
      BY <1>5, <1>7, <2>3
    <3>2. ASSUME NEW b \in edge_peer'[e] PROVE b \in conns'[e] /\ owner'[e][Peer(b, e)'] = b
      BY <1>10, <2>1, <3>1 DEF ActiveOK
    <3>3. QED
      BY <2>2, <3>2 DEF ActiveOK
  <2>4. CASE e = d
    <3>1. ASSUME NEW b \in edge_peer[d] \ {c}
          PROVE  b \in conns[d] \ {c} /\ o[Peer(b, d)] = b
      <4>1. b \in conns[d] /\ owner[d][Peer(b, d)] = b
        BY <2>1, <2>4, <3>1 DEF ActiveOK
      <4>2. CASE c \notin edge_peer[d]
        BY <1>6, <3>1, <4>1, <4>2
      <4>3. CASE c \in edge_peer[d]
        <5>1. owner[d][p] = c
          BY <1>2, <2>1, <2>4, <4>3 DEF ActiveOK
        <5>2. Peer(b, d) # p /\ Peer(b, d) \in Daemon
          BY <3>1, <4>1, <5>1, PeerFacts DEF IInv
        <5>3. QED
          BY <1>6, <1>7, <3>1, <4>1, <4>3, <5>2
      <4>4. QED
        BY <4>2, <4>3
    <3>2. edge_peer'[d] = edge_peer[d] \ {c} /\ conns'[d] = conns[d] \ {c} /\ owner'[d] = o
      BY <1>5, <1>7
    <3>3. \A b \in edge_peer'[d] : b \in conns'[d] /\ owner'[d][Peer(b, d)] = b
      BY <3>1, <3>2
    <3>4. ASSUME NEW b \in edge_peer'[e] PROVE b \in conns'[e] /\ owner'[e][Peer(b, e)'] = b
      BY <1>10, <2>4, <3>3
    <3>5. QED
      BY <2>2, <3>4 DEF ActiveOK
  <2>5. QED
    BY <2>2, <2>3, <2>4
<1>12. ASSUME NEW e \in Daemon, NEW q \in Daemon PROVE OwnOK(e, q)'
  <2>1. OwnOK(e, q) /\ ActiveOK(d)
    BY DEF IInv
  <2>2. CASE e # d
    BY <1>5, <1>7, <1>10, <2>1, <2>2 DEF OwnOK
  <2>3. CASE e = d /\ c \notin edge_peer[d]
    BY <1>5, <1>6, <1>7, <1>10, <2>1, <2>3 DEF OwnOK
  <2>4. CASE e = d /\ c \in edge_peer[d] /\ q = p
    BY <1>5, <1>6, <1>7, <2>4 DEF OwnOK
  <2>5. CASE e = d /\ c \in edge_peer[d] /\ q # p
    <3>1. owner'[d][q] = owner[d][q] /\ graph'[d][<<d, q>>] = graph[d][<<d, q>>]
          /\ edge_peer'[d] = edge_peer[d] \ {c}
      BY <1>5, <1>6, <1>7, <2>5
    <3>2. owner[d][q] # NoConn => owner[d][q] # c
      BY <1>2, <2>1, <2>5 DEF OwnOK
    <3>3. QED
      BY <1>10, <2>1, <2>5, <3>1, <3>2 DEF OwnOK
  <2>6. QED
    BY <2>2, <2>3, <2>4, <2>5
<1>13. QED
  BY <1>9, <1>11, <1>12 DEF IInv

(* The connection c of d takes the edge to its peer p over from the        *)
(* connections W, which d drops, and d's graph becomes g.                  *)
TakesOver(d, c, p, W, g, X) ==
    /\ d \in Daemon /\ c \in conns[d] /\ c \notin W /\ p = Peer(c, d)
    /\ GraphShape(X) /\ g \in [EdgeKey -> X] /\ g[<<d, p>>] = DataOf[c]
    /\ \A q \in Daemon : q # p => g[<<d, q>>] = graph[d][<<d, q>>]
    /\ \A w \in W : Peer(w, d) = p
    /\ \A b \in edge_peer[d] \ W : b # c => Peer(b, d) # p
    /\ conns' = [conns EXCEPT ![d] = conns[d] \ W]
    /\ edge_peer' = [edge_peer EXCEPT ![d] = (edge_peer[d] \ W) \union {c}]
    /\ owner' = [owner EXCEPT ![d] = [owner[d] EXCEPT ![p] = c]]
    /\ graph' = [graph EXCEPT ![d] = g]
    /\ UNCHANGED <<opened, ends>>

(* Such a step leaves c the only connection of d to p, and the owner.      *)
LEMMA TakeOver ==
    ASSUME IInv, NEW d, NEW c, NEW p, NEW W, NEW g, NEW X,
           TakesOver(d, c, p, W, g, X)
    PROVE  IInv'
<1> USE DEF TakesOver
<1>1. p \in Daemon /\ p # d /\ c \in ConnId /\ c # NoConn
  BY PeerFacts DEF IInv
<1>2. /\ conns \in [Daemon -> SUBSET ConnId] /\ edge_peer \in [Daemon -> SUBSET ConnId]
      /\ owner \in [Daemon -> [Daemon -> ConnId \union {NoConn}]]
      /\ graph \in [Daemon -> [EdgeKey -> X]]
  BY DEF IInv, ShapeOK, GraphShape
<1>3. /\ conns'[d] = conns[d] \ W
      /\ edge_peer'[d] = (edge_peer[d] \ W) \union {c}
      /\ owner'[d] = [owner[d] EXCEPT ![p] = c]
      /\ graph'[d] = g
      /\ \A e \in Daemon : e # d =>
            /\ conns'[e] = conns[e] /\ edge_peer'[e] = edge_peer[e]
            /\ owner'[e] = owner[e] /\ graph'[e] = graph[e]
  BY <1>1, <1>2
<1>4. owner[d] \in [Daemon -> ConnId \union {NoConn}]
  BY <1>2
<1>5. owner'[d] \in [Daemon -> ConnId \union {NoConn}]
  BY <1>1, <1>3, <1>4
<1>6. owner'[d][p] = c /\ \A q \in Daemon : q # p => owner'[d][q] = owner[d][q]
  BY <1>1, <1>3, <1>4
<1>7. ShapeOK'
  <2>1. GraphShape(X)'
    BY DEF GraphShape
  <2>2. /\ conns' \in [Daemon -> SUBSET ConnId] /\ edge_peer' \in [Daemon -> SUBSET ConnId]
    BY <1>1, <1>2
  <2>3. owner' \in [Daemon -> [Daemon -> ConnId \union {NoConn}]]
    BY <1>1, <1>2, <1>3, <1>5
  <2>4. QED
    BY <2>1, <2>2, <2>3 DEF IInv, ShapeOK
<1>8. \A b, e : Peer(b, e)' = Peer(b, e)
  BY DEF Peer
<1>9. ASSUME NEW e \in Daemon PROVE ConnsOK(e)'
  <2>1. conns'[e] \subseteq conns[e] /\ ConnsOK(e)
    BY <1>3 DEF IInv
  <2>2. QED
    BY <2>1 DEF ConnsOK
<1>10. ASSUME NEW e \in Daemon PROVE ActiveOK(e)'
  <2>1. ActiveOK(e)
    BY DEF IInv
  <2>2. ASSUME NEW b \in edge_peer'[e]
        PROVE  b \in conns'[e] /\ owner'[e][Peer(b, e)'] = b
    <3>1. CASE e # d
      BY <1>3, <1>8, <2>1, <3>1 DEF ActiveOK
    <3>2. CASE e = d /\ b = c
      BY <1>1, <1>3, <1>6, <1>8, <3>2
    <3>3. CASE e = d /\ b # c
      <4>1. b \in edge_peer[d] /\ b \notin W
        BY <1>3, <2>2, <3>3
      <4>2. b \in conns[d] /\ owner[d][Peer(b, d)] = b
        BY <2>1, <3>3, <4>1 DEF ActiveOK
      <4>3. Peer(b, d) \in Daemon /\ Peer(b, d) # p
        BY <1>1, <3>3, <4>1, <4>2, PeerFacts DEF IInv
      <4>4. QED
        BY <1>3, <1>6, <1>8, <3>3, <4>1, <4>2, <4>3
    <3>4. QED
      BY <3>1, <3>2, <3>3
  <2>3. QED
    BY <2>2 DEF ActiveOK
<1>11. ASSUME NEW e \in Daemon, NEW q \in Daemon PROVE OwnOK(e, q)'
  <2>1. OwnOK(e, q)
    BY DEF IInv
  <2>2. CASE e # d
    BY <1>3, <1>8, <2>1, <2>2 DEF OwnOK
  <2>3. CASE e = d /\ q = p
    BY <1>1, <1>3, <1>6, <1>8, <2>3 DEF OwnOK
  <2>4. CASE e = d /\ q # p
    <3>1. owner'[d][q] = owner[d][q] /\ graph'[d][<<d, q>>] = graph[d][<<d, q>>]
      BY <1>1, <1>3, <1>6, <2>4
    <3>2. owner[d][q] # NoConn => owner[d][q] \in edge_peer'[d]
      BY <1>1, <1>3, <2>1, <2>4 DEF OwnOK
    <3>3. QED
      BY <1>8, <2>1, <2>4, <3>1, <3>2 DEF OwnOK
  <2>5. QED
    BY <2>2, <2>3, <2>4
<1>12. QED
  BY <1>7, <1>9, <1>10, <1>11 DEF IInv

(* A connection that d activates replaces the one it had to that peer.     *)
LEMMA ActivateIInv ==
    ASSUME IInv, NEW d \in Daemon, NEW c \in conns[d], Activate(d, c),
           UNCHANGED <<opened, ends>>
    PROVE  IInv'
<1>1. PICK Y : GraphShape(Y)
  BY DEF IInv, ShapeOK
<1>2. PICK p \in Daemon : p = Peer(c, d) /\ p # d /\ c \in ConnId /\ c # NoConn
  BY PeerFacts DEF IInv
<1>3. PICK X : X = Y \union {DataOf[c]}
  OBVIOUS
<1>4. GraphShape(X)
  BY <1>1, <1>3 DEF GraphShape
<1>5. PICK old : old = {w \in edge_peer[d] \ {c} : Peer(w, d) = p}
  OBVIOUS
<1>6. \A w \in old : w \in conns[d] /\ w # c /\ Peer(w, d) = p /\ owner[d][p] = w
  BY <1>5 DEF IInv, ActiveOK
<1>7. /\ graph[d] \in [EdgeKey -> X] /\ owner[d] \in [Daemon -> ConnId \union {NoConn}]
      /\ <<d, p>> \in EdgeKey /\ \A q \in Daemon : <<d, q>> \in EdgeKey
  BY <1>2, <1>4 DEF IInv, ShapeOK, GraphShape, EdgeKey
<1>8. CASE old = {}
  <2>1. PICK W : W = {}
    OBVIOUS
  <2>2. PICK g : g = [graph[d] EXCEPT ![<<d, p>>] = DataOf[c]]
    OBVIOUS
  <2>3. /\ conns' = [conns EXCEPT ![d] = conns[d] \ W]
        /\ edge_peer' = [edge_peer EXCEPT ![d] = (edge_peer[d] \ W) \union {c}]
        /\ owner' = [owner EXCEPT ![d] = [owner[d] EXCEPT ![p] = c]]
        /\ graph' = [graph EXCEPT ![d] = g]
    BY <1>2, <1>5, <1>8, <2>1, <2>2 DEF Activate
  <2>4. /\ g \in [EdgeKey -> X] /\ g[<<d, p>>] = DataOf[c]
        /\ \A q \in Daemon : q # p => g[<<d, q>>] = graph[d][<<d, q>>]
    BY <1>3, <1>7, <2>2
  <2>5. /\ \A b \in edge_peer[d] \ W : b # c => Peer(b, d) # p
        /\ \A b \in W : Peer(b, d) = p
        /\ c \notin W
    BY <1>5, <1>8, <2>1
  <2>6. TakesOver(d, c, p, W, g, X)
    BY <1>2, <1>4, <2>3, <2>4, <2>5 DEF TakesOver
  <2>7. QED
    BY <2>6, TakeOver
<1>9. CASE old # {}
  <2>1. PICK w : w = CHOOSE o \in old : TRUE
    OBVIOUS
  <2>2. PICK W : W = {w}
    OBVIOUS
  <2>3. w \in old
    BY <1>9, <2>1
  <2>4. PICK h : h = Closed(d, w).graph
    OBVIOUS
  <2>5. PICK g : g = [h EXCEPT ![<<d, p>>] = DataOf[c]]
    OBVIOUS
  <2>6. /\ conns' = [conns EXCEPT ![d] = conns[d] \ W]
        /\ edge_peer' = [edge_peer EXCEPT ![d] = (edge_peer[d] \ W) \union {c}]
        /\ owner' = [owner EXCEPT ![d] = [Closed(d, w).owner EXCEPT ![p] = c]]
        /\ graph' = [graph EXCEPT ![d] = g]
    BY <1>2, <1>5, <1>9, <2>1, <2>4, <2>5, <2>2 DEF Activate
  <2>7. w \in conns[d] /\ w \in edge_peer[d] /\ w # c /\ Peer(w, d) = p
    BY <1>5, <1>6, <2>3
  <2>8. /\ Closed(d, w).owner = [owner[d] EXCEPT ![p] = NoConn]
        /\ \A q \in Daemon : q # p => h[<<d, q>>] = graph[d][<<d, q>>]
        /\ h \in [EdgeKey -> X]
    BY <1>4, <2>4, <2>7, ClosedFacts, ZenonT(60)
  <2>9. owner' = [owner EXCEPT ![d] = [owner[d] EXCEPT ![p] = c]]
    BY <1>7, <2>6, <2>8
  <2>10. /\ g \in [EdgeKey -> X] /\ g[<<d, p>>] = DataOf[c]
        /\ \A q \in Daemon : q # p => g[<<d, q>>] = graph[d][<<d, q>>]
    BY <1>3, <1>7, <2>5, <2>8
  <2>11. /\ \A b \in edge_peer[d] \ W : b # c => Peer(b, d) # p
         /\ \A b \in W : Peer(b, d) = p
         /\ c \notin W
    BY <1>5, <1>6, <2>3, <2>7, <2>2
  <2>12. TakesOver(d, c, p, W, g, X)
    BY <1>2, <1>4, <2>6, <2>9, <2>10, <2>11 DEF TakesOver
  <2>13. QED
    BY <2>12, TakeOver
<1>10. QED
  BY <1>8, <1>9

(* Only the sender's own edges are at stake in what d reads: it takes over *)
(* an edge that starts elsewhere, whatever data the request carries.       *)
LEMMA AddEdgeIInv ==
    ASSUME IInv, NEW d \in Daemon, NEW c \in conns[d], NEW m,
           HandleAddEdge(d, c, m),
           UNCHANGED <<opened, ends, conns, edge_peer, owner>>
    PROVE  IInv'
<1>1. PICK Y : GraphShape(Y)
  BY DEF IInv, ShapeOK
<1>2. PICK X : X = Y \union {m.data}
  OBVIOUS
<1>3. GraphShape(X)
  BY <1>1, <1>2 DEF GraphShape
<1>4. graph \in [Daemon -> [EdgeKey -> X]]
  BY <1>3 DEF GraphShape
<1>5. CASE UNCHANGED graph
  <2>1. graph' = [graph EXCEPT ![d] = graph[d]]
    BY <1>4, <1>5
  <2>2. graph[d] \in [EdgeKey -> X]
    BY <1>4
  <2>3. QED
    BY <1>3, <2>1, <2>2, GossipStep
<1>6. CASE m.from # d /\ graph' = [graph EXCEPT ![d][<<m.from, m.to>>] = m.data]
  <2>1. PICK g : g = [graph[d] EXCEPT ![<<m.from, m.to>>] = m.data]
    OBVIOUS
  <2>2. graph' = [graph EXCEPT ![d] = g]
    BY <1>6, <2>1
  <2>3. g \in [EdgeKey -> X]
    BY <1>2, <1>4, <2>1
  <2>4. \A p \in Daemon : g[<<d, p>>] = graph[d][<<d, p>>]
    <3>1. \A p \in Daemon : <<d, p>> \in EdgeKey /\ <<d, p>> # <<m.from, m.to>>
      BY <1>6 DEF EdgeKey
    <3>2. QED
      BY <1>4, <2>1, <3>1
  <2>5. QED
    BY <1>3, <2>2, <2>3, <2>4, GossipStep
<1>7. QED
  BY <1>5, <1>6 DEF HandleAddEdge, Forget, Correct

(* ... and it deletes none of its own edges: the one that may go with the  *)
(* deleted edge starts at a node that d no longer reaches, hence not at d. *)
LEMMA DelEdgeIInv ==
    ASSUME IInv, NEW d \in Daemon, NEW c \in conns[d], NEW m,
           HandleDelEdge(d, c, m),
           UNCHANGED <<opened, ends, conns, edge_peer, owner>>
    PROVE  IInv'
<1>1. PICK X : GraphShape(X)
  BY DEF IInv, ShapeOK
<1>2. graph \in [Daemon -> [EdgeKey -> X]] /\ NoEdge \in X
  BY <1>1 DEF GraphShape
<1>3. PICK g1 : g1 = Without(graph[d], m.from, m.to)
  OBVIOUS
<1>4. CASE UNCHANGED graph
  <2>1. graph' = [graph EXCEPT ![d] = graph[d]]
    BY <1>2, <1>4
  <2>2. graph[d] \in [EdgeKey -> X]
    BY <1>2
  <2>3. QED
    BY <1>1, <2>1, <2>2, GossipStep
<1>5. ASSUME NEW g, m.from # d, graph' = [graph EXCEPT ![d] = g],
             g = g1 \/ (m.to # d /\ g = Without(g1, m.to, d))
      PROVE  IInv'
  <2>1. \A p \in Daemon : <<d, p>> \in EdgeKey /\ <<d, p>> # <<m.from, m.to>>
    BY <1>5 DEF EdgeKey
  <2>2. /\ g1 \in [EdgeKey -> X]
        /\ \A p \in Daemon : g1[<<d, p>>] = graph[d][<<d, p>>]
    BY <1>2, <1>3, <2>1 DEF Without
  <2>3. m.to # d => \A p \in Daemon : <<d, p>> # <<m.to, d>>
    OBVIOUS
  <2>4. /\ g \in [EdgeKey -> X]
        /\ \A p \in Daemon : g[<<d, p>>] = graph[d][<<d, p>>]
    BY <1>2, <1>5, <2>1, <2>2, <2>3 DEF Without
  <2>5. QED
    BY <1>1, <1>5, <2>4, GossipStep
<1>6. CASE /\ m.from # d
           /\ graph' = [graph EXCEPT ![d] = IF StaleReverse(g1, d, m.to)
                                              THEN Without(g1, m.to, d) ELSE g1]
  <2>1. StaleReverse(g1, d, m.to) => m.to # d
    BY SelfReachable
  <2>2. CASE StaleReverse(g1, d, m.to)
    BY <1>5, <1>6, <2>1, <2>2
  <2>3. CASE ~StaleReverse(g1, d, m.to)
    BY <1>5, <1>6, <2>3
  <2>4. QED
    BY <2>2, <2>3
<1>7. QED
  BY <1>3, <1>4, <1>6 DEF HandleDelEdge, Forget, Correct

(* A new connection changes nothing for the connections there are.         *)
LEMMA ConnectIInv ==
    ASSUME IInv, SetupOK, NEW pair \in ConnectTo, Connect(pair)
    PROVE  IInv'
<1>1. PICK c : c = opened + 1
  OBVIOUS
<1>2. /\ opened \in Nat /\ c \in ConnId /\ opened' = c
      /\ ends' = [ends EXCEPT ![c] = pair]
      /\ \A d \in Daemon : conns'[d] = IF d \in pair THEN conns[d] \union {c} ELSE conns[d]
      /\ UNCHANGED <<edge_peer, owner, graph>>
  BY <1>1, MeshAssumption DEF Connect, IInv, ShapeOK, ConnId
<1>3. /\ ends \in [ConnId -> SUBSET Daemon] /\ conns \in [Daemon -> SUBSET ConnId]
      /\ pair \in SUBSET Daemon
  BY SetupFacts DEF IInv, ShapeOK
<1>4. ShapeOK'
  <2>1. PICK X : GraphShape(X)
    BY DEF IInv, ShapeOK
  <2>2. GraphShape(X)'
    BY <1>2, <2>1 DEF GraphShape
  <2>3. opened' \in Nat /\ ends' \in [ConnId -> SUBSET Daemon]
    BY <1>1, <1>2, <1>3
  <2>4. conns' \in [Daemon -> SUBSET ConnId]
    <3>1. conns' = [d \in Daemon |-> IF d \in pair THEN conns[d] \union {c} ELSE conns[d]]
      BY <1>1 DEF Connect
    <3>2. QED
      BY <1>2, <1>3, <3>1
  <2>5. QED
    BY <1>2, <2>2, <2>3, <2>4 DEF IInv, ShapeOK
<1>5. \A b \in ConnId : b <= opened => ends'[b] = ends[b]
  BY <1>1, <1>2, <1>3
<1>6. ASSUME NEW b \in ConnId, b <= opened, NEW e PROVE Peer(b, e)' = Peer(b, e)
  <2>1. ends'[b] = ends[b]
    BY <1>5, <1>6
  <2>2. QED
    BY <2>1 DEF Peer
<1>7. ASSUME NEW d \in Daemon PROVE ConnsOK(d)'
  <2>1. ConnsOK(d)
    BY DEF IInv
  <2>2. ASSUME NEW b \in conns[d]
        PROVE  b \in ConnId /\ b <= opened' /\ \E p \in Daemon : p # d /\ ends'[b] = {d, p}
    BY <1>1, <1>2, <1>5, <2>1 DEF ConnsOK, ConnId
  <2>3. ASSUME d \in pair PROVE \E p \in Daemon : p # d /\ ends'[c] = {d, p}
    <3>1. PICK x, y \in Daemon : x # y /\ pair = {x, y}
      BY SetupFacts
    <3>2. ends'[c] = pair
      BY <1>2, <1>3
    <3>3. CASE d = x
      BY <3>1, <3>2, <3>3
    <3>4. CASE d = y
      BY <3>1, <3>2, <3>4
    <3>5. QED
      BY <2>3, <3>1, <3>3, <3>4
  <2>4. c <= opened'
    BY <1>1, <1>2
  <2>5. ASSUME NEW b \in conns'[d]
        PROVE  b \in ConnId /\ b <= opened' /\ \E p \in Daemon : p # d /\ ends'[b] = {d, p}
    <3>1. CASE b \in conns[d]
      BY <2>2, <3>1
    <3>2. CASE b = c /\ d \in pair
      BY <1>2, <2>3, <2>4, <3>2
    <3>3. QED
      BY <1>2, <2>5, <3>1, <3>2
  <2>6. QED
    BY <2>5 DEF ConnsOK
<1>8. ASSUME NEW d \in Daemon PROVE ActiveOK(d)'
  <2>1. ActiveOK(d) /\ ConnsOK(d)
    BY DEF IInv
  <2>2. ASSUME NEW b \in edge_peer[d] PROVE b \in conns'[d] /\ owner[d][Peer(b, d)'] = b
    <3>1. b \in conns[d] /\ owner[d][Peer(b, d)] = b /\ b \in ConnId /\ b <= opened
      BY <2>1 DEF ActiveOK, ConnsOK
    <3>2. Peer(b, d)' = Peer(b, d)
      BY <1>6, <3>1
    <3>3. QED
      BY <1>2, <3>1, <3>2
  <2>3. QED
    BY <1>2, <2>2 DEF ActiveOK
<1>9. ASSUME NEW d \in Daemon, NEW p \in Daemon PROVE OwnOK(d, p)'
  <2>1. OwnOK(d, p) /\ ActiveOK(d) /\ ConnsOK(d)
    BY DEF IInv
  <2>2. CASE owner[d][p] = NoConn
    BY <1>2, <2>1, <2>2 DEF OwnOK
  <2>3. CASE owner[d][p] # NoConn
    <3>1. owner[d][p] \in ConnId /\ owner[d][p] <= opened
      BY <2>1, <2>3 DEF OwnOK, ActiveOK, ConnsOK
    <3>2. Peer(owner[d][p], d)' = Peer(owner[d][p], d)
      <4>1. owner'[d][p] = owner[d][p]
        BY <1>2
      <4>2. ends'[owner[d][p]] = ends[owner[d][p]]
        BY <1>5, <3>1
      <4>3. QED
        BY <4>1, <4>2 DEF Peer
    <3>3. QED
      BY <1>2, <2>1, <2>3, <3>2 DEF OwnOK
  <2>4. QED
    BY <2>2, <2>3
<1>10. QED
  BY <1>4, <1>7, <1>8, <1>9 DEF IInv

(* A crash takes the connections of a daemon and its edges together.       *)
LEMMA CrashIInv ==
    ASSUME IInv, NEW d \in Daemon, Crash(d)
    PROVE  IInv'
<1>1. PICK X : GraphShape(X)
  BY DEF IInv, ShapeOK
<1>2. /\ conns \in [Daemon -> SUBSET ConnId] /\ edge_peer \in [Daemon -> SUBSET ConnId]
      /\ owner \in [Daemon -> [Daemon -> ConnId \union {NoConn}]]
      /\ graph \in [Daemon -> [EdgeKey -> X]] /\ NoEdge \in X
  BY <1>1 DEF IInv, ShapeOK, GraphShape
<1>3. /\ conns' = [conns EXCEPT ![d] = {}] /\ edge_peer' = [edge_peer EXCEPT ![d] = {}]
      /\ owner' = [owner EXCEPT ![d] = [p \in Daemon |-> NoConn]]
      /\ graph' = [graph EXCEPT ![d] = [k \in EdgeKey |-> NoEdge]]
      /\ UNCHANGED <<opened, ends>>
  BY DEF Crash
<1>4. ShapeOK'
  <2>1. GraphShape(X)'
    BY <1>2, <1>3 DEF GraphShape
  <2>2. /\ conns' \in [Daemon -> SUBSET ConnId] /\ edge_peer' \in [Daemon -> SUBSET ConnId]
        /\ owner' \in [Daemon -> [Daemon -> ConnId \union {NoConn}]]
    BY <1>2, <1>3
  <2>3. QED
    BY <1>3, <2>1, <2>2 DEF IInv, ShapeOK
<1>5. \A b, e : Peer(b, e)' = Peer(b, e)
  BY <1>3 DEF Peer
<1>6. ASSUME NEW e \in Daemon PROVE ConnsOK(e)'
  <2>1. ConnsOK(e) /\ conns'[e] \subseteq conns[e]
    BY <1>2, <1>3 DEF IInv
  <2>2. QED
    BY <1>3, <2>1 DEF ConnsOK
<1>7. ASSUME NEW e \in Daemon PROVE ActiveOK(e)'
  <2>1. ActiveOK(e)
    BY DEF IInv
  <2>2. ASSUME NEW b \in edge_peer'[e] PROVE b \in conns'[e] /\ owner'[e][Peer(b, e)'] = b
    BY <1>2, <1>3, <1>5, <2>1 DEF ActiveOK
  <2>3. QED
    BY <2>2 DEF ActiveOK
<1>8. ASSUME NEW e \in Daemon, NEW p \in Daemon PROVE OwnOK(e, p)'
  <2>1. OwnOK(e, p)
    BY DEF IInv
  <2>2. CASE e # d
    BY <1>2, <1>3, <1>5, <2>1, <2>2 DEF OwnOK
  <2>3. CASE e = d
    <3>1. owner'[d][p] = NoConn /\ graph'[d][<<d, p>>] = NoEdge
      BY <1>2, <1>3 DEF EdgeKey
    <3>2. QED
      BY <2>3, <3>1 DEF OwnOK
  <2>4. QED
    BY <2>2, <2>3
<1>9. QED
  BY <1>4, <1>6, <1>7, <1>8 DEF IInv

(* At the start every connection of Established owns its edge.             *)
LEMMA InitIInv == Init => IInv
<1> SUFFICES ASSUME Init PROVE IInv
  OBVIOUS
<1>0. SetupOK
  BY DEF Init, SetupOK
<1>1. PICK up : up = DOMAIN Established
  OBVIOUS
<1>2. PICK link : link = [k \in EdgeKey |->
                    {c \in up : Established[c] = {k[1], k[2]} /\ k[1] # k[2]}]
  OBVIOUS
<1>3. PICK full : full = [k \in EdgeKey |-> IF link[k] = {} THEN NoEdge
                                    ELSE DataOf[CHOOSE c \in link[k] : TRUE]]
  OBVIOUS
<1>4. /\ opened = Len(Established)
      /\ ends = [c \in ConnId |-> IF c \in up THEN Established[c] ELSE {}]
      /\ conns = [d \in Daemon |-> {c \in up : d \in Established[c]}]
      /\ edge_peer = conns
      /\ owner = [d \in Daemon |-> [p \in Daemon |->
                        IF link[<<d, p>>] = {} THEN NoConn
                        ELSE CHOOSE c \in link[<<d, p>>] : TRUE]]
      /\ graph = [d \in Daemon |-> [k \in EdgeKey |->
                        IF k[1] \in Reachable(full, d) THEN full[k] ELSE NoEdge]]
  BY <1>1, <1>2, <1>3 DEF Init
<1>5. /\ up = 1 .. Len(Established) /\ Len(Established) \in Nat /\ up \subseteq ConnId
      /\ \A c \in up : Established[c] \in ConnectTo
  BY <1>0, <1>1, SetupFacts, MeshAssumption DEF ConnId
<1>6. \A c \in up : \E x, y \in Daemon : x # y /\ Established[c] = {x, y}
  BY <1>0, <1>5, SetupFacts
<1>7. \A b, c \in up : Established[b] = Established[c] => b = c
  BY <1>0, <1>1, SetupFacts
<1>8. ASSUME NEW d \in Daemon, NEW p \in Daemon
      PROVE  /\ link[<<d, p>>] = {c \in up : Established[c] = {d, p} /\ d # p}
             /\ link[<<d, p>>] # {} =>
                  (CHOOSE c \in link[<<d, p>>] : TRUE) \in link[<<d, p>>]
  <2>1. <<d, p>> \in EdgeKey /\ <<d, p>>[1] = d /\ <<d, p>>[2] = p
    BY DEF EdgeKey
  <2>2. link[<<d, p>>] = {c \in up : Established[c] = {d, p} /\ d # p}
    BY <1>2, <2>1
  <2>3. QED
    BY <2>2
<1>9. ShapeOK
  <2>1. ends \in [ConnId -> SUBSET Daemon]
    <3>1. \A c \in up : Established[c] \in SUBSET Daemon
      BY <1>6
    <3>2. QED
      BY <1>4, <3>1
  <2>2. conns \in [Daemon -> SUBSET ConnId] /\ edge_peer \in [Daemon -> SUBSET ConnId]
    BY <1>4, <1>5
  <2>3. owner \in [Daemon -> [Daemon -> ConnId \union {NoConn}]]
    <3>1. ASSUME NEW d \in Daemon, NEW p \in Daemon
          PROVE  (IF link[<<d, p>>] = {} THEN NoConn
                  ELSE CHOOSE c \in link[<<d, p>>] : TRUE) \in ConnId \union {NoConn}
      BY <1>5, <1>8
    <3>2. QED
      BY <1>4, <3>1
  <2>4. PICK X : X = {full[k] : k \in EdgeKey} \union {NoEdge}
    OBVIOUS
  <2>5. GraphShape(X)
    BY <1>4, <2>4 DEF GraphShape
  <2>6. opened \in Nat
    BY <1>4, <1>5
  <2>7. QED
    BY <2>1, <2>2, <2>3, <2>5, <2>6 DEF ShapeOK
<1>10. ASSUME NEW d \in Daemon, NEW c \in conns[d]
       PROVE  /\ c \in up /\ ends[c] = Established[c]
              /\ \E p \in Daemon : p # d /\ Established[c] = {d, p}
  <2>1. c \in up /\ d \in Established[c]
    BY <1>4, <1>10
  <2>2. PICK x, y \in Daemon : x # y /\ Established[c] = {x, y}
    BY <1>6, <2>1
  <2>3. ends[c] = Established[c]
    BY <1>4, <1>5, <2>1
  <2>4. CASE d = x
    BY <2>1, <2>2, <2>3, <2>4
  <2>5. CASE d = y
    BY <2>1, <2>2, <2>3, <2>5
  <2>6. QED
    BY <2>1, <2>2, <2>4, <2>5
<1>11. ASSUME NEW d \in Daemon PROVE ConnsOK(d)
  <2>1. ASSUME NEW c \in conns[d]
        PROVE  c \in ConnId /\ c <= opened /\ \E p \in Daemon : p # d /\ ends[c] = {d, p}
    <3>1. c \in up /\ ends[c] = Established[c] /\ \E p \in Daemon : p # d /\ Established[c] = {d, p}
      BY <1>10
    <3>2. opened = Len(Established)
      BY <1>4
    <3>3. c \in ConnId /\ c <= opened
      BY <1>5, <3>1, <3>2
    <3>4. QED
      BY <3>1, <3>3
  <2>2. QED
    BY <2>1 DEF ConnsOK
<1>12. ASSUME NEW d \in Daemon, NEW p \in Daemon
       PROVE  /\ owner[d][p] = IF link[<<d, p>>] = {} THEN NoConn
                               ELSE CHOOSE c \in link[<<d, p>>] : TRUE
              /\ graph[d][<<d, p>>] = full[<<d, p>>]
              /\ full[<<d, p>>] = IF link[<<d, p>>] = {} THEN NoEdge
                                  ELSE DataOf[CHOOSE c \in link[<<d, p>>] : TRUE]
  <2>1. <<d, p>> \in EdgeKey /\ <<d, p>>[1] = d
    BY DEF EdgeKey
  <2>2. d \in Reachable(full, d)
    BY DEF Reachable
  <2>3. QED
    BY <1>3, <1>4, <2>1, <2>2
<1>13. ASSUME NEW d \in Daemon PROVE ActiveOK(d)
  <2>1. ASSUME NEW c \in edge_peer[d] PROVE c \in conns[d] /\ owner[d][Peer(c, d)] = c
    <3>1. c \in conns[d]
      BY <1>4, <2>1
    <3>2. PICK p \in Daemon : p # d /\ Established[c] = {d, p} /\ ends[c] = {d, p} /\ c \in up
      BY <1>10, <3>1
    <3>3. \E e \in ends[c] : e # d
      BY <3>2
    <3>4. Peer(c, d) = p
      BY <3>2, <3>3 DEF Peer
    <3>5. c \in link[<<d, p>>] /\ \A b \in link[<<d, p>>] : b = c
      <4>1. link[<<d, p>>] = {b \in up : Established[b] = {d, p} /\ d # p}
        BY <1>8
      <4>2. QED
        BY <1>7, <3>2, <4>1
    <3>6. owner[d][p] = c
      BY <1>8, <1>12, <3>5
    <3>7. QED
      BY <3>1, <3>4, <3>6
  <2>2. QED
    BY <2>1 DEF ActiveOK
<1>14. ASSUME NEW d \in Daemon, NEW p \in Daemon PROVE OwnOK(d, p)
  <2>1. CASE link[<<d, p>>] = {}
    BY <1>12, <2>1 DEF OwnOK
  <2>2. CASE link[<<d, p>>] # {}
    <3>1. PICK c : c = owner[d][p]
      OBVIOUS
    <3>2. /\ c \in up /\ Established[c] = {d, p} /\ d # p
          /\ graph[d][<<d, p>>] = DataOf[c]
      BY <1>8, <1>12, <2>2, <3>1
    <3>3. c \in conns[d] /\ c # NoConn
      BY <1>4, <1>5, <3>2 DEF NoConn
    <3>4. ends[c] = {d, p}
      BY <1>10, <3>2, <3>3
    <3>5. Peer(c, d) = p
      <4>1. \E e \in ends[c] : e # d
        BY <3>2, <3>4
      <4>2. QED
        BY <3>4, <4>1 DEF Peer
    <3>6. QED
      BY <1>4, <3>1, <3>2, <3>3, <3>5 DEF OwnOK
  <2>3. QED
    BY <2>1, <2>2
<1>15. QED
  BY <1>9, <1>11, <1>13, <1>14 DEF IInv

(* Every step of the mesh preserves the invariant.                         *)
LEMMA NextIInv == IInv /\ SetupOK /\ [Next]_vars => IInv'
<1> SUFFICES ASSUME IInv, SetupOK, [Next]_vars PROVE IInv'
  OBVIOUS
<1>1. ASSUME NEW pair \in ConnectTo, Connect(pair) PROVE IInv'
  BY <1>1, ConnectIInv
<1>2. ASSUME NEW d \in Daemon, NEW c \in conns[d], RecvAck(d, c) PROVE IInv'
  BY <1>2, ActivateIInv DEF RecvAck
<1>3. ASSUME NEW d \in Daemon, NEW c \in conns[d], RecvAddEdge(d, c) PROVE IInv'
  <2>1. PICK m : m = Head(wire[c][d])
    OBVIOUS
  <2>2. HandleAddEdge(d, c, m) /\ UNCHANGED <<opened, ends, conns, edge_peer, owner>>
    BY <1>3, <2>1 DEF RecvAddEdge
  <2>3. QED
    BY <2>2, AddEdgeIInv
<1>4. ASSUME NEW d \in Daemon, NEW c \in conns[d], RecvDelEdge(d, c) PROVE IInv'
  <2>1. PICK m : m = Head(wire[c][d])
    OBVIOUS
  <2>2. HandleDelEdge(d, c, m) /\ UNCHANGED <<opened, ends, conns, edge_peer, owner>>
    BY <1>4, <2>1 DEF RecvDelEdge
  <2>3. QED
    BY <2>2, DelEdgeIInv
<1>5. ASSUME NEW d \in Daemon, NEW c \in conns[d], EndOfFile(d, c) \/ Break(d, c)
      PROVE  IInv'
  BY <1>5, CloseIInv DEF EndOfFile, Break
<1>6. ASSUME NEW d \in Daemon, Crash(d) PROVE IInv'
  BY <1>6, CrashIInv
<1>7. CASE UNCHANGED vars
  <2>1. UNCHANGED <<opened, ends, conns, edge_peer, owner, graph>>
    BY <1>7 DEF vars
  <2>2. \A b, e : Peer(b, e)' = Peer(b, e)
    BY <2>1 DEF Peer
  <2>3. ASSUME NEW d \in Daemon PROVE ConnsOK(d)' /\ ActiveOK(d)'
    BY <2>1, <2>2 DEF IInv, ConnsOK, ActiveOK
  <2>4. ASSUME NEW d \in Daemon, NEW p \in Daemon PROVE OwnOK(d, p)'
    <3>1. OwnOK(d, p)
      BY DEF IInv
    <3>2. QED
      BY <2>1, <2>2, <3>1 DEF OwnOK
  <2>5. ShapeOK'
    BY <2>1 DEF IInv, ShapeOK, GraphShape
  <2>6. QED
    BY <2>3, <2>4, <2>5 DEF IInv
<1>8. QED
  BY <1>1, <1>2, <1>3, <1>4, <1>5, <1>6, <1>7 DEF Next, Process

(* In every behaviour of the mesh the invariant holds: a daemon's          *)
(* connections, the activated ones, their owners and its own edges fit     *)
(* together (apply_meta_step, close_meta_connection_with_report).          *)
THEOREM MeshInvariant == Spec => []IInv
<1>1. Init => SetupOK
  BY DEF Init, SetupOK
<1>2. SetupOK /\ [Next]_vars => SetupOK'
  <2> SUFFICES ASSUME SetupOK, [Next]_vars PROVE setup' = setup
    BY DEF SetupOK
  <2>1. QED
    BY DEF Next, Process, Connect, RecvAck, RecvAddEdge, RecvDelEdge, EndOfFile,
           Break, Crash, vars
<1>3. QED
  BY <1>1, <1>2, InitIInv, NextIInv, PTL DEF Spec

(* A daemon's own edges are exactly its activated connections and carry    *)
(* their data, for any number of daemons and connections, whatever the     *)
(* other daemons claim about them.                                         *)
THEOREM OwnEdgesAlwaysMatch == Spec => []OwnEdgesMatchConnections
<1>1. IInv => OwnEdgesMatchConnections
  BY DEF IInv, OwnOK, OwnEdgesMatchConnections
<1>2. QED
  BY <1>1, MeshInvariant, PTL

(* A daemon never has two activated connections to one peer, however       *)
(* simultaneous dialling, replacement, errors and crashes interleave.      *)
THEOREM AlwaysOneActiveConnection == Spec => []OneActiveConnection
<1>1. IInv => OneActiveConnection
  BY DEF IInv, ActiveOK, OneActiveConnection
<1>2. QED
  BY <1>1, MeshInvariant, PTL
-----------------------------------------------------------------------------
(* Tunnel servers.  Whatever travels on a connection of a daemon whose     *)
(* peers are all tunnel servers is about that daemon.                      *)
Alone(x) == \A c \in 1 .. opened : x \in ends[c] => Peer(c, x) \in TunnelServers

Names(x, m) == m = Ack \/ x = m.from \/ x = m.to

Allowed(c, M) == {m \in M : \A x \in ends[c] : Alone(x) => Names(x, m)}

TalkOK(M) ==
    /\ wire \in [ConnId -> [Daemon -> Seq(M)]]
    /\ \A c \in ConnId, e \in Daemon : wire[c][e] \in Seq(Allowed(c, M))

ViewOK(x, g) == Alone(x) => \A k \in EdgeKey : g[k] # NoEdge => x \in {k[1], k[2]}

Isolated ==
    /\ \E M : TalkOK(M)
    /\ \A x \in Daemon : ViewOK(x, graph[x])

(* What a daemon may write to one of its connections.                      *)
LEMMA AllowedIf ==
    ASSUME IInv, NEW d \in Daemon, NEW b \in conns[d], NEW N, NEW m \in N,
           Alone(d) => Names(d, m),
           d \in TunnelServers => Names(Peer(b, d), m)
    PROVE  m \in Allowed(b, N)
<1>1. PICK p \in Daemon : p # d /\ ends[b] = {d, p}
  BY DEF IInv, ConnsOK
<1>2. p = Peer(b, d) /\ d = Peer(b, p)
  BY <1>1 DEF Peer
<1>3. b \in 1 .. opened
  BY MeshAssumption DEF IInv, ConnsOK, ShapeOK, ConnId
<1>4. Alone(p) => d \in TunnelServers
  BY <1>1, <1>2, <1>3 DEF Alone
<1>5. QED
  BY <1>1, <1>2, <1>4 DEF Allowed

(* More is allowed of a larger set, and nothing that is not in it.         *)
LEMMA Larger ==
    ASSUME NEW c, NEW M, NEW N, M \subseteq N
    PROVE  Allowed(c, M) \subseteq Allowed(c, N) /\ Allowed(c, M) \subseteq M
BY DEF Allowed

(* Who is alone, and what may be written to whom, hangs on the connections *)
(* that were ever opened, and on nothing else.                             *)
LEMMA AloneStays ==
    ASSUME UNCHANGED <<setup, opened, ends>>
    PROVE  /\ \A x : Alone(x)' = Alone(x)
           /\ \A c, N : Allowed(c, N)' = Allowed(c, N)
<1>1. \A c, x : Peer(c, x)' = Peer(c, x)
  BY DEF Peer
<1>2. \A x : Alone(x)' = Alone(x)
  BY <1>1 DEF Alone, TunnelServers
<1>3. QED
  BY <1>2 DEF Allowed

(* Daemon d reads or drops what is in `wires`, and writes `out` to the     *)
(* connections `live`.                                                     *)
LEMMA Sends ==
    ASSUME IInv, NEW d \in Daemon, NEW M, NEW N, M \subseteq N,
           NEW wires, NEW live \in SUBSET conns[d], NEW out,
           \A c \in ConnId, e \in Daemon : wires[c][e] \in Seq(Allowed(c, M)),
           \A c \in live : out[c] \in Seq(Allowed(c, N)),
           wire' = Transmit(wires, d, live, out),
           UNCHANGED <<setup, opened, ends>>
    PROVE  TalkOK(N)'
<1>1. ASSUME NEW c \in ConnId, NEW e \in Daemon
      PROVE  wire'[c][e] \in Seq(Allowed(c, N))
  <2>1. Allowed(c, M) \subseteq Allowed(c, N)
    BY Larger
  <2>2. wires[c][e] \in Seq(Allowed(c, N))
    BY <2>1, SeqMonotonic
  <2>3. <<>> \in Seq(Allowed(c, N))
    OBVIOUS
  <2>4. CASE e = d
    <3>1. wire'[c][e] = IF c \in live THEN wires[c][e] ELSE <<>>
      BY <2>4 DEF Transmit
    <3>2. QED
      BY <2>2, <2>3, <3>1
  <2>5. CASE e # d /\ c \in live /\ e \in ends[c] /\ c \in conns[e]
    <3>1. wire'[c][e] = wires[c][e] \o out[c]
      BY <2>5 DEF Transmit
    <3>2. QED
      BY <2>2, <2>5, <3>1, ConcatProperties
  <2>6. CASE e # d /\ ~(c \in live /\ e \in ends[c] /\ c \in conns[e])
    <3>1. wire'[c][e] = wires[c][e]
      BY <2>6 DEF Transmit
    <3>2. QED
      BY <2>2, <3>1
  <2>7. QED
    BY <2>4, <2>5, <2>6
<1>2. \A c \in ConnId, e \in Daemon : wire'[c][e] \in Seq(N)
  BY <1>1, Larger, SeqMonotonic
<1>3. wire' \in [ConnId -> [Daemon -> Seq(N)]]
  <2>1. wire' = [c \in ConnId |-> [e \in Daemon |-> wire'[c][e]]]
    BY DEF Transmit
  <2>2. QED
    BY <1>2, <2>1
<1>4. \A c \in ConnId : Allowed(c, N)' = Allowed(c, N)
  BY AloneStays
<1>5. QED
  BY <1>1, <1>3, <1>4 DEF TalkOK

(* Reading takes away the request at the head.                             *)
LEMMA Reads ==
    ASSUME NEW M, TalkOK(M), NEW d \in Daemon, NEW c \in ConnId, wire[c][d] # <<>>
    PROVE  /\ Head(wire[c][d]) \in Allowed(c, M)
           /\ \A b \in ConnId, e \in Daemon :
                 Consumed(c, d)[b][e] \in Seq(Allowed(b, M))
<1>1. Head(wire[c][d]) \in Allowed(c, M) /\ Tail(wire[c][d]) \in Seq(Allowed(c, M))
  BY HeadTailProperties DEF TalkOK
<1>2. ASSUME NEW b \in ConnId, NEW e \in Daemon
      PROVE  Consumed(c, d)[b][e] = IF b = c /\ e = d THEN Tail(wire[c][d]) ELSE wire[b][e]
  BY DEF TalkOK, Consumed
<1>3. QED
  BY <1>1, <1>2 DEF TalkOK

(* Broadcasts, and requests to one connection.                             *)
LEMMA Outs ==
    ASSUME NEW b \in ConnId, NEW active, NEW except, NEW msgs, NEW c
    PROVE  /\ Broadcast(active, except, msgs)[b] =
                 IF b \in active \ except THEN msgs ELSE <<>>
           /\ To(c, msgs)[b] = IF b = c THEN msgs ELSE <<>>
           /\ Nothing[b] = <<>>
BY DEF Broadcast, To, Nothing

(* The graph of d only loses edges, or gains one that names d.             *)
LEMMA Views ==
    ASSUME IInv, Isolated, NEW d \in Daemon, NEW g,
           graph' = [graph EXCEPT ![d] = g], UNCHANGED <<setup, opened, ends>>,
           Alone(d) => \A k \in EdgeKey :
                g[k] # NoEdge => graph[d][k] # NoEdge \/ d \in {k[1], k[2]}
    PROVE  \A x \in Daemon : ViewOK(x, graph[x])'
<1>1. \A x : Alone(x)' = Alone(x)
  BY AloneStays
<1>2. \A x \in Daemon : graph'[x] = IF x = d THEN g ELSE graph[x]
  BY DEF IInv, ShapeOK, GraphShape
<1>3. QED
  BY <1>1, <1>2 DEF Isolated, ViewOK

-----------------------------------------------------------------------------
(* The keys of edges are in order: every finite set of them can be told    *)
(* one after the other.                                                    *)
LEMMA BeforeOrders ==
    /\ \A j, k \in EdgeKey : Before(j, k) \/ Before(k, j) \/ j = k
    /\ \A j, k \in EdgeKey : ~(Before(j, k) /\ Before(k, j))
    /\ \A k \in EdgeKey : ~Before(k, k)
    /\ \A j, k, l \in EdgeKey : Before(j, k) /\ Before(k, l) => Before(j, l)
<1>1. \A k \in EdgeKey : k = <<k[1], k[2]>> /\ k[1] \in Nat /\ k[2] \in Nat
  <2>1. Daemon \subseteq Nat
    BY MeshAssumption
  <2>2. \A k \in EdgeKey : k = <<k[1], k[2]>> /\ k[1] \in Daemon /\ k[2] \in Daemon
    BY DEF EdgeKey
  <2>3. QED
    BY <2>1, <2>2
<1>2. ASSUME NEW j \in EdgeKey, NEW k \in EdgeKey
      PROVE  /\ Before(j, k) \/ Before(k, j) \/ j = k
             /\ ~(Before(j, k) /\ Before(k, j))
             /\ ~Before(k, k)
  <2>1. /\ j[1] \in Nat /\ j[2] \in Nat /\ k[1] \in Nat /\ k[2] \in Nat
        /\ (j[1] = k[1] /\ j[2] = k[2]) => j = k
    BY <1>1
  <2>2. QED
    BY <2>1 DEF Before
<1>3. ASSUME NEW j \in EdgeKey, NEW k \in EdgeKey, NEW l \in EdgeKey,
             Before(j, k), Before(k, l)
      PROVE  Before(j, l)
  <2>1. /\ j[1] \in Nat /\ j[2] \in Nat /\ k[1] \in Nat /\ k[2] \in Nat
        /\ l[1] \in Nat /\ l[2] \in Nat
    BY <1>1
  <2>2. QED
    BY <1>3, <2>1 DEF Before
<1>4. QED
  BY <1>2, <1>3

KeysBefore(K, k) == {j \in K : Before(j, k)}

Ranked(K) ==
    \A n \in 1 .. Cardinality(K) : \E k \in K : Cardinality(KeysBefore(K, k)) = n - 1

LEMMA FiniteKeys ==
    ASSUME NEW K \in SUBSET EdgeKey
    PROVE  IsFiniteSet(K) /\ Cardinality(K) \in Nat
<1>1. IsFiniteSet(EdgeKey)
  BY MeshAssumption, FS_Product DEF EdgeKey
<1>2. IsFiniteSet(K)
  BY <1>1, FS_Subset
<1>3. QED
  BY <1>2, FS_CardinalityType

(* By induction on the set: the keys before one of its members, and those  *)
(* after it, are smaller sets.                                             *)
LEMMA RankedParts ==
    ASSUME NEW K \in SUBSET EdgeKey, NEW k \in K,
           Ranked(KeysBefore(K, k)), Ranked({j \in K : Before(k, j)})
    PROVE  Ranked(K)
<1>1. PICK L : L = KeysBefore(K, k)
  OBVIOUS
<1>2. PICK U : U = {j \in K : Before(k, j)}
  OBVIOUS
<1>3. /\ L \in SUBSET K /\ U \in SUBSET K /\ k \notin L /\ k \notin U
      /\ K = (L \union {k}) \union U /\ (L \union {k}) \intersect U = {}
  BY <1>1, <1>2, BeforeOrders DEF KeysBefore
<1>4. /\ IsFiniteSet(L) /\ Cardinality(L) \in Nat
      /\ IsFiniteSet(U) /\ Cardinality(U) \in Nat
      /\ IsFiniteSet(K) /\ Cardinality(K) \in Nat
  BY <1>3, FiniteKeys
<1>5. /\ IsFiniteSet(L \union {k}) /\ Cardinality(L \union {k}) = Cardinality(L) + 1
      /\ Cardinality({}) = 0
  BY <1>3, <1>4, FS_AddElement, FS_EmptySet
<1>6. Cardinality(K) = Cardinality(L) + 1 + Cardinality(U)
  <2>1. Cardinality((L \union {k}) \union U)
          = Cardinality(L \union {k}) + Cardinality(U)
                - Cardinality((L \union {k}) \intersect U)
    BY <1>4, <1>5, FS_Union
  <2>2. QED
    BY <1>3, <1>4, <1>5, <2>1
<1>7. ASSUME NEW n \in 1 .. Cardinality(K)
      PROVE  \E j \in K : Cardinality(KeysBefore(K, j)) = n - 1
  <2>1. CASE n <= Cardinality(L)
    <3>1. PICK j \in L : Cardinality(KeysBefore(L, j)) = n - 1
      BY <1>1, <1>4, <2>1 DEF Ranked
    <3>2. KeysBefore(K, j) = KeysBefore(L, j)
      BY <1>1, <1>3, BeforeOrders DEF KeysBefore
    <3>3. QED
      BY <1>3, <3>1, <3>2
  <2>2. CASE n = Cardinality(L) + 1
    BY <1>1, <1>4, <2>2
  <2>3. CASE n > Cardinality(L) + 1
    <3>1. n - (Cardinality(L) + 1) \in 1 .. Cardinality(U)
      BY <1>4, <1>6, <2>3
    <3>2. PICK j \in U : Cardinality(KeysBefore(U, j)) = n - (Cardinality(L) + 1) - 1
      BY <1>2, <3>1 DEF Ranked
    <3>3. KeysBefore(K, j) = (L \union {k}) \union KeysBefore(U, j)
      <4>1. j \in K /\ Before(k, j) /\ j \in EdgeKey /\ k \in EdgeKey
        BY <1>2, <3>2
      <4>2. \A l \in L : Before(l, j)
        BY <1>1, <4>1, BeforeOrders DEF KeysBefore
      <4>3. QED
        BY <1>3, <4>1, <4>2 DEF KeysBefore
    <3>4. IsFiniteSet(KeysBefore(U, j)) /\ Cardinality(KeysBefore(U, j)) \in Nat
          /\ (L \union {k}) \intersect KeysBefore(U, j) = {}
      <4>1. KeysBefore(U, j) \in SUBSET EdgeKey
        BY <1>3 DEF KeysBefore
      <4>2. QED
        BY <1>3, <4>1, FiniteKeys DEF KeysBefore
    <3>5. Cardinality((L \union {k}) \union KeysBefore(U, j))
            = Cardinality(L \union {k}) + Cardinality(KeysBefore(U, j))
                 - Cardinality((L \union {k}) \intersect KeysBefore(U, j))
      BY <1>5, <3>4, FS_Union
    <3>6. Cardinality(KeysBefore(K, j)) = n - 1
      BY <1>4, <1>5, <3>2, <3>3, <3>4, <3>5
    <3>7. QED
      BY <1>3, <3>2, <3>6
  <2>4. QED
    BY <1>4, <1>7, <2>1, <2>2, <2>3
<1>8. QED
  BY <1>7 DEF Ranked

LEMMA AllRanked == \A K \in SUBSET EdgeKey : Ranked(K)
<1>1. PICK T : T = {K \in SUBSET EdgeKey : ~Ranked(K)}
  OBVIOUS
<1>2. SUFFICES ASSUME T # {} PROVE FALSE
  BY <1>1
<1>3. T \subseteq FiniteSubsetsOf(EdgeKey)
  BY <1>1, FiniteKeys DEF FiniteSubsetsOf
<1>4. IsWellFoundedOn(StrictSubsetOrdering(EdgeKey), FiniteSubsetsOf(EdgeKey))
  BY FS_StrictSubsetOrderingWellFounded
<1>5. PICK K \in T : \A L \in T : ~(<<L, K>> \in StrictSubsetOrdering(EdgeKey))
  BY <1>2, <1>3, <1>4, WFMin
<1>6. \A L \in SUBSET K : L # K => Ranked(L)
  BY <1>1, <1>5 DEF StrictSubsetOrdering
<1>7. CASE K = {}
  <2>1. Cardinality(K) = 0
    BY <1>7, FS_EmptySet
  <2>2. Ranked(K)
    BY <2>1 DEF Ranked
  <2>3. QED
    BY <1>1, <2>2
<1>8. CASE K # {}
  <2>1. PICK k \in K : TRUE
    BY <1>8
  <2>2. K \in SUBSET EdgeKey
    BY <1>1
  <2>3. k \notin KeysBefore(K, k) /\ k \notin {j \in K : Before(k, j)}
    BY <2>1, <2>2, BeforeOrders DEF KeysBefore
  <2>4. Ranked(KeysBefore(K, k)) /\ Ranked({j \in K : Before(k, j)})
    BY <1>6, <2>1, <2>3 DEF KeysBefore
  <2>5. Ranked(K)
    BY <2>1, <2>2, <2>4, RankedParts
  <2>6. QED
    BY <1>1, <2>5
<1>9. QED
  BY <1>7, <1>8

LEMMA NthIsKey ==
    ASSUME NEW K \in SUBSET EdgeKey, NEW n \in 1 .. Cardinality(K)
    PROVE  Nth(K, n) \in K
<1>1. \E k \in K : Cardinality({j \in K : Before(j, k)}) = n - 1
  BY AllRanked DEF Ranked, KeysBefore
<1>2. QED
  BY <1>1 DEF Nth

-----------------------------------------------------------------------------
(* What a daemon tells a new peer is about itself if it knows of nothing   *)
(* else, and a tunnel server tells nothing.                                *)
Told(d, g) ==
    {AddEdge(Nonce(d, i), k[1], k[2], g[k]) : i \in Nat, k \in {l \in EdgeKey : g[l] # NoEdge}}

LEMMA Tells ==
    ASSUME NEW d \in Daemon, NEW g
    PROVE  /\ ExistingState(d, g) \in Seq(Told(d, g))
           /\ d \in TunnelServers => ExistingState(d, g) = <<>>
<1>1. PICK K \in SUBSET EdgeKey : K = {k \in EdgeKey : g[k] # NoEdge}
  OBVIOUS
<1>2. CASE d \in TunnelServers
  BY <1>2 DEF ExistingState
<1>3. CASE d \notin TunnelServers
  <2>1. ExistingState(d, g) = [i \in 1 .. Cardinality(K) |->
            AddEdge(Nonce(d, i), Nth(K, i)[1], Nth(K, i)[2], g[Nth(K, i)])]
    BY <1>1, <1>3 DEF ExistingState
  <2>2. Cardinality(K) \in Nat
    BY FiniteKeys
  <2>3. \A i \in 1 .. Cardinality(K) : Nth(K, i) \in K
    BY NthIsKey
  <2>4. ASSUME NEW i \in 1 .. Cardinality(K)
        PROVE  AddEdge(Nonce(d, i), Nth(K, i)[1], Nth(K, i)[2], g[Nth(K, i)]) \in Told(d, g)
    <3>1. PICK k : k = Nth(K, i)
      OBVIOUS
    <3>2. i \in Nat /\ k \in {l \in EdgeKey : g[l] # NoEdge}
      BY <1>1, <2>2, <2>3, <3>1
    <3>3. AddEdge(Nonce(d, i), k[1], k[2], g[k]) \in Told(d, g)
      BY <3>2 DEF Told
    <3>4. QED
      BY <3>1, <3>3
  <2>5. QED
    BY <1>3, <2>1, <2>2, <2>4
<1>4. QED
  BY <1>2, <1>3

(* Closing a connection only takes edges from the graph, and what is       *)
(* reported is about the daemon and its peer.                              *)
LEMMA ClosedTells ==
    ASSUME IInv, NEW d \in Daemon, NEW c \in conns[d]
    PROVE  /\ \A k \in EdgeKey : Closed(d, c).graph[k] # NoEdge => graph[d][k] # NoEdge
           /\ \E a, b :
                /\ a.from = d /\ b.to = d
                /\ Closed(d, c).dels \in {<<>>, <<a>>, <<a>> \o <<b>>}
<1>1. PICK p : p = Peer(c, d)
  OBVIOUS
<1>2. PICK X : GraphShape(X)
  BY DEF IInv, ShapeOK
<1>3. graph[d] \in [EdgeKey -> X]
  BY <1>2 DEF GraphShape
<1>4. PICK g1 : g1 = Without(graph[d], d, p)
  OBVIOUS
<1>5. \A k \in EdgeKey : g1[k] # NoEdge => graph[d][k] # NoEdge
  BY <1>3, <1>4 DEF Without
<1>6. \A k \in EdgeKey : Without(g1, p, d)[k] # NoEdge => g1[k] # NoEdge
  BY <1>3, <1>4 DEF Without
<1>7. Closed(d, c).graph \in {graph[d], g1, Without(g1, p, d)}
  BY <1>1, <1>4 DEF Closed
<1>8. PICK a : a = DelEdge(Nonce(d, 1), d, p)
  OBVIOUS
<1>9. PICK b : b = DelEdge(Nonce(d, 2), p, d)
  OBVIOUS
<1>10. a.from = d /\ b.to = d
  BY <1>8, <1>9 DEF DelEdge
<1>11. Closed(d, c).dels \in {<<>>, <<a>> \o <<>>, <<a>> \o <<b>>}
  BY <1>1, <1>4, <1>8, <1>9 DEF Closed
<1>12. <<a>> \o <<>> = <<a>>
  OBVIOUS
<1>13. QED
  BY <1>5, <1>6, <1>7, <1>10, <1>11, <1>12

-----------------------------------------------------------------------------
(* The steps of a daemon keep what is about a daemon to its connections.   *)
LEMMA CloseIsolated ==
    ASSUME IInv, Isolated, NEW d \in Daemon, NEW c \in conns[d], Close(d, c),
           UNCHANGED <<setup, opened, ends>>
    PROVE  Isolated'
<1>1. PICK M : TalkOK(M)
  BY DEF Isolated
<1>2. PICK a, b : /\ a.from = d /\ b.to = d
                  /\ Closed(d, c).dels \in {<<>>, <<a>>, <<a>> \o <<b>>}
  BY ClosedTells
<1>3. PICK N : N = M \union {a, b}
  OBVIOUS
<1>4. PICK reported : reported = IF d \in TunnelServers THEN <<>> ELSE Closed(d, c).dels
  OBVIOUS
<1>5. PICK out : out = Broadcast(edge_peer[d] \ {c}, {}, reported)
  OBVIOUS
<1>6. PICK live \in SUBSET conns[d] : live = conns[d] \ {c}
  OBVIOUS
<1>7. wire' = Transmit(wire, d, live, out) /\ graph' = [graph EXCEPT ![d] = Closed(d, c).graph]
  BY <1>4, <1>5, <1>6 DEF Close
<1>8. ASSUME NEW e \in live PROVE out[e] \in Seq(Allowed(e, N))
  <2>1. e \in conns[d] /\ e \in ConnId
    BY PeerFacts DEF IInv
  <2>2. out[e] = reported \/ out[e] = <<>>
    BY <1>5, <2>1, Outs
  <2>3. reported # <<>> => a \in Allowed(e, N) /\ b \in Allowed(e, N)
    BY <1>2, <1>3, <1>4, <2>1, AllowedIf DEF Names
  <2>4. reported \in Seq(Allowed(e, N))
    <3>1. CASE reported = <<>>
      BY <3>1
    <3>2. CASE reported = <<a>> \/ reported = <<a>> \o <<b>>
      <4>1. reported # <<>>
        BY <3>2
      <4>2. <<a>> \in Seq(Allowed(e, N)) /\ <<b>> \in Seq(Allowed(e, N))
        BY <2>3, <4>1
      <4>3. QED
        BY <3>2, <4>2, ConcatProperties
    <3>3. QED
      BY <1>2, <1>4, <3>1, <3>2
  <2>5. <<>> \in Seq(Allowed(e, N))
    OBVIOUS
  <2>6. QED
    BY <2>2, <2>4, <2>5
<1>9. TalkOK(N)'
  <2>1. \A e \in ConnId, x \in Daemon : wire[e][x] \in Seq(Allowed(e, M))
    BY <1>1 DEF TalkOK
  <2>2. M \subseteq N
    BY <1>3
  <2>3. QED
    BY <1>7, <1>8, <2>1, <2>2, Sends
<1>10. \A x \in Daemon : ViewOK(x, graph[x])'
  <2>1. PICK g : g = Closed(d, c).graph
    OBVIOUS
  <2>2. ASSUME NEW k \in EdgeKey, g[k] # NoEdge
        PROVE  graph[d][k] # NoEdge \/ d \in {k[1], k[2]}
    BY <2>1, <2>2, ClosedTells
  <2>3. graph' = [graph EXCEPT ![d] = g]
    BY <1>7, <2>1
  <2>4. QED
    BY <2>2, <2>3, Views
<1>11. QED
  BY <1>9, <1>10 DEF Isolated

LEMMA AckIsolated ==
    ASSUME IInv, Isolated, NEW d \in Daemon, NEW c \in conns[d], RecvAck(d, c)
    PROVE  Isolated'
<1>1. PICK M : TalkOK(M)
  BY DEF Isolated
<1>2. PICK p : p = Peer(c, d) /\ p \in Daemon /\ c \in ConnId
  BY PeerFacts DEF IInv
<1>3. PICK old : old = {o \in edge_peer[d] \ {c} : Peer(o, d) = p}
  OBVIOUS
<1>4. PICK closed : closed = IF old = {}
                    THEN [graph |-> graph[d], owner |-> owner[d], dels |-> <<>>]
                    ELSE Closed(d, CHOOSE o \in old : TRUE)
  OBVIOUS
<1>5. \A k \in EdgeKey : closed.graph[k] # NoEdge => graph[d][k] # NoEdge
  <2>1. CASE old = {}
    BY <1>4, <2>1
  <2>2. CASE old # {}
    <3>1. PICK o : o = CHOOSE w \in old : TRUE
      OBVIOUS
    <3>2. o \in old /\ o \in conns[d]
      BY <1>3, <2>2, <3>1 DEF IInv, ActiveOK
    <3>3. closed = Closed(d, o)
      BY <1>4, <2>2, <3>1
    <3>4. QED
      BY <3>2, <3>3, ClosedTells
  <2>3. QED
    BY <2>1, <2>2
<1>6. PICK live : live = conns[d] \ IF old = {} THEN {} ELSE {CHOOSE o \in old : TRUE}
  OBVIOUS
<1>7. PICK active : active = (edge_peer[d] \ IF old = {} THEN {} ELSE {CHOOSE o \in old : TRUE})
                                \union {c}
  OBVIOUS
<1>8. PICK sync : sync = ExistingState(d, closed.graph)
  OBVIOUS
<1>9. PICK add : add = AddEdge(Nonce(d, Len(sync) + 1), d, p, DataOf[c])
  OBVIOUS
<1>10. PICK told : told = IF d \in TunnelServers THEN {c} ELSE active
  OBVIOUS
<1>11. PICK g : g = [closed.graph EXCEPT ![<<d, p>>] = DataOf[c]]
  OBVIOUS
<1>12. /\ wire[c][d] # <<>>
       /\ UNCHANGED <<setup, opened, ends>>
       /\ graph' = [graph EXCEPT ![d] = g]
       /\ wire' = Transmit(Consumed(c, d), d, live,
                           Both(To(c, sync), Broadcast(told, {}, <<add>>)))
  BY <1>2, <1>3, <1>4, <1>6, <1>7, <1>8, <1>9, <1>10, <1>11 DEF RecvAck, Activate
<1>13. PICK N : N = (M \union Told(d, closed.graph)) \union {add}
  OBVIOUS
<1>14. add.from = d /\ add.to = p
  BY <1>9 DEF AddEdge
<1>15. sync \in Seq(Told(d, closed.graph)) /\ (d \in TunnelServers => sync = <<>>)
  BY <1>8, Tells
<1>16. ASSUME NEW e \in live
       PROVE  Both(To(c, sync), Broadcast(told, {}, <<add>>))[e] \in Seq(Allowed(e, N))
  <2>1. e \in conns[d] /\ e \in ConnId
    BY <1>6, PeerFacts DEF IInv
  <2>2. sync \in Seq(Allowed(e, N))
    <3>1. CASE d \in TunnelServers
      BY <1>15, <3>1
    <3>2. CASE d \notin TunnelServers
      <4>1. ASSUME NEW m \in Told(d, closed.graph) PROVE m \in Allowed(e, N)
        <5>1. PICK i \in Nat, k \in EdgeKey :
                 closed.graph[k] # NoEdge /\ m = AddEdge(Nonce(d, i), k[1], k[2], closed.graph[k])
          BY <4>1 DEF Told
        <5>2. m.from = k[1] /\ m.to = k[2]
          BY <5>1 DEF AddEdge
        <5>3. Alone(d) => Names(d, m)
          BY <1>5, <5>1, <5>2 DEF Isolated, ViewOK, Names
        <5>4. m \in N
          BY <1>13, <4>1
        <5>5. QED
          BY <2>1, <3>2, <5>3, <5>4, AllowedIf
      <4>2. QED
        BY <1>15, <4>1, SeqMonotonic
    <3>3. QED
      BY <3>1, <3>2
  <2>3. e \in told => add \in Allowed(e, N)
    <3>1. Names(d, add) /\ Names(p, add) /\ add \in N
      BY <1>13, <1>14 DEF Names
    <3>2. d \in TunnelServers /\ e \in told => p = Peer(e, d)
      BY <1>2, <1>10
    <3>3. QED
      BY <2>1, <3>1, <3>2, AllowedIf
  <2>4. /\ To(c, sync)[e] \in Seq(Allowed(e, N))
        /\ Broadcast(told, {}, <<add>>)[e] \in Seq(Allowed(e, N))
    <3>1. <<>> \in Seq(Allowed(e, N)) /\ (e \in told => <<add>> \in Seq(Allowed(e, N)))
      BY <2>3
    <3>2. /\ To(c, sync)[e] = IF e = c THEN sync ELSE <<>>
          /\ Broadcast(told, {}, <<add>>)[e] = IF e \in told \ {} THEN <<add>> ELSE <<>>
      BY <2>1 DEF To, Broadcast, Nothing
    <3>3. told \ {} = told
      OBVIOUS
    <3>4. QED
      BY <2>2, <3>1, <3>2, <3>3
  <2>5. Both(To(c, sync), Broadcast(told, {}, <<add>>))[e]
           = To(c, sync)[e] \o Broadcast(told, {}, <<add>>)[e]
    BY <2>1 DEF Both
  <2>6. QED
    BY <2>4, <2>5, ConcatProperties
<1>17. TalkOK(N)'
  <2>1. \A e \in ConnId, x \in Daemon : Consumed(c, d)[e][x] \in Seq(Allowed(e, M))
    BY <1>1, <1>2, <1>12, Reads
  <2>2. M \subseteq N /\ live \in SUBSET conns[d]
    BY <1>6, <1>13
  <2>3. QED
    BY <1>12, <1>16, <2>1, <2>2, Sends
<1>18. \A x \in Daemon : ViewOK(x, graph[x])'
  <2>1. ASSUME NEW k \in EdgeKey, g[k] # NoEdge
        PROVE  graph[d][k] # NoEdge \/ d \in {k[1], k[2]}
    <3>1. CASE k = <<d, p>>
      BY <3>1
    <3>2. CASE k # <<d, p>>
      <4>1. closed.graph \in [EdgeKey -> {closed.graph[l] : l \in EdgeKey}]
        <5>1. PICK X : GraphShape(X)
          BY DEF IInv, ShapeOK
        <5>2. closed.graph \in [EdgeKey -> X]
          <6>1. CASE old = {}
            BY <1>4, <5>1, <6>1 DEF GraphShape
          <6>2. CASE old # {}
            <7>1. PICK o : o = CHOOSE w \in old : TRUE
              OBVIOUS
            <7>2. o \in old /\ o \in conns[d]
              BY <1>3, <6>2, <7>1 DEF IInv, ActiveOK
            <7>3. closed = Closed(d, o)
              BY <1>4, <6>2, <7>1
            <7>4. QED
              BY <5>1, <7>2, <7>3, ClosedFacts
          <6>3. QED
            BY <6>1, <6>2
        <5>3. QED
          BY <5>2
      <4>2. g[k] = closed.graph[k]
        BY <1>11, <3>2, <4>1
      <4>3. QED
        BY <1>5, <2>1, <4>2
    <3>3. QED
      BY <3>1, <3>2
  <2>2. QED
    BY <1>12, <2>1, Views
<1>19. QED
  BY <1>17, <1>18 DEF Isolated

(* What a daemon relays is about whatever the requests are about.          *)
LEMMA Relays ==
    ASSUME IInv, NEW d \in Daemon, NEW c \in conns[d], NEW e \in conns[d], NEW N, NEW a \in N,
           NEW msgs, msgs = <<a>> \/ \E b \in N : Names(d, b) /\ msgs = <<a>> \o <<b>>,
           Alone(d) => Names(d, a)
    PROVE  Relay(d, c, msgs)[e] \in Seq(Allowed(e, N))
<1>1. e \in ConnId
  BY PeerFacts DEF IInv
<1>2. <<>> \in Seq(Allowed(e, N))
  OBVIOUS
<1>3. CASE d \in TunnelServers
  <2>1. Relay(d, c, msgs)[e] = <<>>
    BY <1>1, <1>3 DEF Relay, Nothing
  <2>2. QED
    BY <1>2, <2>1
<1>4. CASE d \notin TunnelServers
  <2>1. /\ SubSeq(msgs, 1, 1) \in Seq(Allowed(e, N))
        /\ SubSeq(msgs, 2, Len(msgs)) \in Seq(Allowed(e, N))
    <3>1. a \in Allowed(e, N)
      BY <1>4, AllowedIf
    <3>2. CASE msgs = <<a>>
      BY <3>1, <3>2
    <3>3. ASSUME NEW b \in N, Names(d, b), msgs = <<a>> \o <<b>>
          PROVE  /\ SubSeq(msgs, 1, 1) \in Seq(Allowed(e, N))
                 /\ SubSeq(msgs, 2, Len(msgs)) \in Seq(Allowed(e, N))
      <4>1. b \in Allowed(e, N)
        BY <1>4, <3>3, AllowedIf
      <4>2. Len(msgs) = 2 /\ msgs[1] = a /\ msgs[2] = b
        BY <3>3
      <4>3. /\ \A i \in 1 .. 1 : msgs[i] \in Allowed(e, N)
            /\ \A i \in 2 .. Len(msgs) : msgs[i] \in Allowed(e, N)
        BY <3>1, <4>1, <4>2
      <4>4. Len(msgs) \in Int
        BY <4>2
      <4>5. QED
        BY <4>3, <4>4, SubSeqProperties
    <3>4. QED
      BY <3>2, <3>3
  <2>2. PICK one : one = Broadcast(edge_peer[d], {c}, SubSeq(msgs, 1, 1))
    OBVIOUS
  <2>3. PICK more : more = Broadcast(edge_peer[d], {}, SubSeq(msgs, 2, Len(msgs)))
    OBVIOUS
  <2>4. one[e] \in Seq(Allowed(e, N)) /\ more[e] \in Seq(Allowed(e, N))
    BY <1>1, <1>2, <2>1, <2>2, <2>3 DEF Broadcast
  <2>5. Relay(d, c, msgs)[e] = one[e] \o more[e]
    BY <1>1, <1>4, <2>2, <2>3 DEF Relay, Both
  <2>6. QED
    BY <2>4, <2>5, ConcatProperties
<1>5. QED
  BY <1>3, <1>4

(* A request that d reads from c and answers on c, or relays.              *)
LEMMA Handled ==
    ASSUME IInv, Isolated, NEW d \in Daemon, NEW c \in conns[d], NEW M, TalkOK(M),
           wire[c][d] # <<>>, UNCHANGED <<setup, opened, ends>>,
           NEW N, M \subseteq N, NEW out,
           wire' = Consumed(c, d) \/
                /\ wire' = Transmit(Consumed(c, d), d, conns[d], out)
                /\ \A e \in conns[d] : out[e] \in Seq(Allowed(e, N))
    PROVE  TalkOK(N)'
<1>1. c \in ConnId
  BY PeerFacts DEF IInv
<1>2. \A e \in ConnId, x \in Daemon : Consumed(c, d)[e][x] \in Seq(Allowed(e, M))
  BY <1>1, Reads
<1>3. CASE wire' = Consumed(c, d)
  <2>1. \A e \in ConnId : Allowed(e, N)' = Allowed(e, N)
    BY AloneStays
  <2>2. \A e \in ConnId, x \in Daemon : wire'[e][x] \in Seq(Allowed(e, N))
    BY <1>2, <1>3, Larger, SeqMonotonic
  <2>3. \A e \in ConnId, x \in Daemon : wire'[e][x] \in Seq(N)
    BY <2>2, Larger, SeqMonotonic
  <2>4. wire' = [e \in ConnId |-> [x \in Daemon |-> wire'[e][x]]]
    BY <1>3 DEF TalkOK, Consumed
  <2>5. wire' \in [ConnId -> [Daemon -> Seq(N)]]
    BY <2>3, <2>4
  <2>6. QED
    BY <2>1, <2>2, <2>5 DEF TalkOK
<1>4. CASE /\ wire' = Transmit(Consumed(c, d), d, conns[d], out)
           /\ \A e \in conns[d] : out[e] \in Seq(Allowed(e, N))
  BY <1>2, <1>4, Sends
<1>5. QED
  BY <1>3, <1>4

(* A correction goes back to where the wrong claim came from.              *)
LEMMA Corrects ==
    ASSUME IInv, NEW d \in Daemon, NEW c \in conns[d], NEW e \in conns[d], NEW N,
           NEW m \in Allowed(c, N), NEW a \in N,
           m # Ack, m.from = d, a.from = d, a.to = m.to
    PROVE  To(c, <<a>>)[e] \in Seq(Allowed(e, N))
<1>1. e \in ConnId /\ <<>> \in Seq(Allowed(e, N))
  BY PeerFacts DEF IInv
<1>2. PICK p \in Daemon : p # d /\ ends[c] = {d, p}
  BY DEF IInv, ConnsOK
<1>3. p = Peer(c, d) /\ d = Peer(c, p)
  BY <1>2 DEF Peer
<1>4. \A x \in ends[c] : Alone(x) => Names(x, a)
  BY <1>2 DEF Allowed, Names
<1>5. a \in Allowed(c, N)
  BY <1>4 DEF Allowed
<1>6. To(c, <<a>>)[e] = IF e = c THEN <<a>> ELSE <<>>
  BY <1>1, Outs
<1>7. <<a>> \in Seq(Allowed(c, N))
  BY <1>5
<1>8. QED
  BY <1>1, <1>6, <1>7

LEMMA AddIsolated ==
    ASSUME IInv, Isolated, NEW d \in Daemon, NEW c \in conns[d], RecvAddEdge(d, c)
    PROVE  Isolated'
<1>1. PICK M : TalkOK(M)
  BY DEF Isolated
<1>2. PICK m : m = Head(wire[c][d])
  OBVIOUS
<1>3. c \in ConnId
  BY PeerFacts DEF IInv
<1>4. wire[c][d] # <<>> /\ m \in Allowed(c, M) /\ m # Ack /\ m \in M
  <2>1. wire[c][d] # <<>> /\ m.type = "ADD_EDGE"
    BY <1>2 DEF RecvAddEdge, Receives
  <2>2. m \in Allowed(c, M)
    BY <1>1, <1>2, <1>3, <2>1, Reads
  <2>3. QED
    BY <2>1, <2>2 DEF Ack, Allowed
<1>5. HandleAddEdge(d, c, m) /\ UNCHANGED <<setup, opened, ends>>
  BY <1>2 DEF RecvAddEdge
<1>6. d \in ends[c]
  BY DEF IInv, ConnsOK
<1>7. Alone(d) => d = m.from \/ d = m.to
  BY <1>4, <1>6 DEF Allowed, Names
<1>8. CASE Forget(d, c)
  <2>1. wire' = Consumed(c, d) /\ graph' = graph
    BY <1>8 DEF Forget
  <2>2. TalkOK(M)'
    BY <1>1, <1>4, <1>5, <2>1, Handled
  <2>3. \A x \in Daemon : ViewOK(x, graph[x])'
    BY <1>5, <2>1, AloneStays DEF Isolated, ViewOK
  <2>4. QED
    BY <2>2, <2>3 DEF Isolated
<1>9. ASSUME NEW a, a.from = d, a.to = m.to, m.from = d, Correct(d, c, a) PROVE Isolated'
  <2>1. PICK N : N = M \union {a}
    OBVIOUS
  <2>2. m \in Allowed(c, N) /\ a \in N /\ M \subseteq N
    BY <1>4, <2>1, Larger
  <2>3. wire' = Transmit(Consumed(c, d), d, conns[d], To(c, <<a>>)) /\ graph' = graph
    BY <1>9 DEF Correct
  <2>4. \A e \in conns[d] : To(c, <<a>>)[e] \in Seq(Allowed(e, N))
    BY <1>4, <1>9, <2>2, Corrects
  <2>5. TalkOK(N)'
    BY <1>1, <1>4, <1>5, <2>2, <2>3, <2>4, Handled
  <2>6. \A x \in Daemon : ViewOK(x, graph[x])'
    BY <1>5, <2>3, AloneStays DEF Isolated, ViewOK
  <2>7. QED
    BY <2>5, <2>6 DEF Isolated
<1>10. CASE /\ graph' = [graph EXCEPT ![d][<<m.from, m.to>>] = m.data]
            /\ wire' = Transmit(Consumed(c, d), d, conns[d], Relay(d, c, <<m>>))
  <2>1. \A e \in conns[d] : Relay(d, c, <<m>>)[e] \in Seq(Allowed(e, M))
    <3>1. Alone(d) => Names(d, m)
      BY <1>7 DEF Names
    <3>2. QED
      BY <1>4, <3>1, Relays
  <2>2. TalkOK(M)'
    BY <1>1, <1>4, <1>5, <1>10, <2>1, Handled
  <2>3. PICK g : g = [graph[d] EXCEPT ![<<m.from, m.to>>] = m.data]
    OBVIOUS
  <2>4. graph' = [graph EXCEPT ![d] = g]
    BY <1>10, <2>3
  <2>5. ASSUME NEW k \in EdgeKey, g[k] # NoEdge, Alone(d)
        PROVE  graph[d][k] # NoEdge \/ d \in {k[1], k[2]}
    <3>1. CASE k = <<m.from, m.to>>
      BY <1>7, <2>5, <3>1
    <3>2. CASE k # <<m.from, m.to>>
      <4>1. g[k] = graph[d][k]
        BY <2>3, <3>2 DEF IInv, ShapeOK, GraphShape
      <4>2. QED
        BY <2>5, <4>1
    <3>3. QED
      BY <3>1, <3>2
  <2>6. \A x \in Daemon : ViewOK(x, graph[x])'
    BY <1>5, <2>4, <2>5, Views
  <2>7. QED
    BY <2>2, <2>6 DEF Isolated
<1>11. m.from = d /\ Correct(d, c, IF graph[d][<<m.from, m.to>>] = NoEdge
                                     THEN DelEdge(Nonce(d, 1), d, m.to)
                                     ELSE AddEdge(Nonce(d, 1), d, m.to, graph[d][<<m.from, m.to>>]))
         => Isolated'
  <2>1. PICK a : a = IF graph[d][<<m.from, m.to>>] = NoEdge
                       THEN DelEdge(Nonce(d, 1), d, m.to)
                       ELSE AddEdge(Nonce(d, 1), d, m.to, graph[d][<<m.from, m.to>>])
    OBVIOUS
  <2>2. a.from = d /\ a.to = m.to
    BY <2>1 DEF AddEdge, DelEdge
  <2>3. QED
    BY <1>9, <2>1, <2>2
<1>12. QED
  BY <1>5, <1>8, <1>10, <1>11 DEF HandleAddEdge

LEMMA DelIsolated ==
    ASSUME IInv, Isolated, NEW d \in Daemon, NEW c \in conns[d], RecvDelEdge(d, c)
    PROVE  Isolated'
<1>1. PICK M : TalkOK(M)
  BY DEF Isolated
<1>2. PICK m : m = Head(wire[c][d])
  OBVIOUS
<1>3. c \in ConnId
  BY PeerFacts DEF IInv
<1>4. wire[c][d] # <<>> /\ m \in Allowed(c, M) /\ m # Ack /\ m \in M
  <2>1. wire[c][d] # <<>> /\ m.type = "DEL_EDGE"
    BY <1>2 DEF RecvDelEdge, Receives
  <2>2. m \in Allowed(c, M)
    BY <1>1, <1>2, <1>3, <2>1, Reads
  <2>3. QED
    BY <2>1, <2>2 DEF Ack, Allowed
<1>5. HandleDelEdge(d, c, m) /\ UNCHANGED <<setup, opened, ends>>
  BY <1>2 DEF RecvDelEdge
<1>6. d \in ends[c]
  BY DEF IInv, ConnsOK
<1>7. Alone(d) => Names(d, m)
  BY <1>4, <1>6 DEF Allowed
<1>8. CASE Forget(d, c)
  <2>1. wire' = Consumed(c, d) /\ graph' = graph
    BY <1>8 DEF Forget
  <2>2. TalkOK(M)'
    BY <1>1, <1>4, <1>5, <2>1, Handled
  <2>3. \A x \in Daemon : ViewOK(x, graph[x])'
    BY <1>5, <2>1, AloneStays DEF Isolated, ViewOK
  <2>4. QED
    BY <2>2, <2>3 DEF Isolated
<1>9. ASSUME NEW a, a.from = d, a.to = m.to, m.from = d, Correct(d, c, a) PROVE Isolated'
  <2>1. PICK N : N = M \union {a}
    OBVIOUS
  <2>2. m \in Allowed(c, N) /\ a \in N /\ M \subseteq N
    BY <1>4, <2>1, Larger
  <2>3. wire' = Transmit(Consumed(c, d), d, conns[d], To(c, <<a>>)) /\ graph' = graph
    BY <1>9 DEF Correct
  <2>4. \A e \in conns[d] : To(c, <<a>>)[e] \in Seq(Allowed(e, N))
    BY <1>4, <1>9, <2>2, Corrects
  <2>5. TalkOK(N)'
    BY <1>1, <1>4, <1>5, <2>2, <2>3, <2>4, Handled
  <2>6. \A x \in Daemon : ViewOK(x, graph[x])'
    BY <1>5, <2>3, AloneStays DEF Isolated, ViewOK
  <2>7. QED
    BY <2>5, <2>6 DEF Isolated
<1>10. ASSUME NEW b, b.to = d, NEW msgs, msgs = <<m>> \/ msgs = <<m>> \o <<b>>,
              wire' = Transmit(Consumed(c, d), d, conns[d], Relay(d, c, msgs)),
              NEW g, graph' = [graph EXCEPT ![d] = g],
              \A k \in EdgeKey : g[k] # NoEdge => graph[d][k] # NoEdge
       PROVE  Isolated'
  <2>1. PICK N : N = M \union {b}
    OBVIOUS
  <2>2. M \subseteq N /\ m \in N /\ b \in N /\ Names(d, b)
    BY <1>4, <1>10, <2>1 DEF Names
  <2>3. \A e \in conns[d] : Relay(d, c, msgs)[e] \in Seq(Allowed(e, N))
    BY <1>7, <1>10, <2>2, Relays
  <2>4. TalkOK(N)'
    BY <1>1, <1>4, <1>5, <1>10, <2>2, <2>3, Handled
  <2>5. ASSUME NEW k \in EdgeKey, g[k] # NoEdge
        PROVE  graph[d][k] # NoEdge \/ d \in {k[1], k[2]}
    BY <1>10, <2>5
  <2>6. \A x \in Daemon : ViewOK(x, graph[x])'
    BY <1>5, <1>10, <2>5, Views
  <2>7. QED
    BY <2>4, <2>6 DEF Isolated
<1>11. PICK g1 : g1 = Without(graph[d], m.from, m.to)
  OBVIOUS
<1>12. PICK g2 : g2 = Without(g1, m.to, d)
  OBVIOUS
<1>13. /\ \A k \in EdgeKey : g1[k] # NoEdge => graph[d][k] # NoEdge
       /\ \A k \in EdgeKey : g2[k] # NoEdge => graph[d][k] # NoEdge
  <2>1. PICK X : GraphShape(X)
    BY DEF IInv, ShapeOK
  <2>2. graph[d] \in [EdgeKey -> X] /\ NoEdge \in X
    BY <2>1 DEF GraphShape
  <2>3. \A k \in EdgeKey : g1[k] # NoEdge => graph[d][k] # NoEdge
    BY <1>11, <2>2 DEF Without
  <2>4. \A k \in EdgeKey : g2[k] # NoEdge => g1[k] # NoEdge
    BY <1>11, <1>12, <2>2 DEF Without
  <2>5. QED
    BY <2>3, <2>4
<1>14. PICK b : b = DelEdge(Nonce(d, 1), m.to, d)
  OBVIOUS
<1>15. b.to = d
  BY <1>14 DEF DelEdge
<1>16. CASE /\ graph' = [graph EXCEPT ![d] = IF StaleReverse(g1, d, m.to) THEN g2 ELSE g1]
            /\ wire' = Transmit(Consumed(c, d), d, conns[d],
                  Relay(d, c, <<m>> \o IF StaleReverse(g1, d, m.to) THEN <<b>> ELSE <<>>))
  <2>1. <<m>> \o <<>> = <<m>>
    OBVIOUS
  <2>2. CASE StaleReverse(g1, d, m.to)
    <3>1. PICK msgs : msgs = <<m>> \o <<b>>
      OBVIOUS
    <3>2. /\ graph' = [graph EXCEPT ![d] = g2] /\ msgs = <<m>> \o <<b>>
          /\ wire' = Transmit(Consumed(c, d), d, conns[d], Relay(d, c, msgs))
      BY <1>16, <2>1, <2>2, <3>1
    <3>3. QED
      BY <1>10, <1>13, <1>15, <3>2
  <2>3. CASE ~StaleReverse(g1, d, m.to)
    <3>1. PICK msgs : msgs = <<m>> \o <<>>
      OBVIOUS
    <3>2. /\ graph' = [graph EXCEPT ![d] = g1] /\ msgs = <<m>>
          /\ wire' = Transmit(Consumed(c, d), d, conns[d], Relay(d, c, msgs))
      BY <1>16, <2>1, <2>3, <3>1
    <3>3. QED
      BY <1>10, <1>13, <1>15, <3>2
  <2>4. QED
    BY <2>2, <2>3
<1>17. m.from = d /\ Correct(d, c, AddEdge(Nonce(d, 1), d, m.to, graph[d][<<m.from, m.to>>]))
         => Isolated'
  <2>1. PICK a : a = AddEdge(Nonce(d, 1), d, m.to, graph[d][<<m.from, m.to>>])
    OBVIOUS
  <2>2. a.from = d /\ a.to = m.to
    BY <2>1 DEF AddEdge
  <2>3. QED
    BY <1>9, <2>1, <2>2
<1>18. QED
  BY <1>5, <1>8, <1>11, <1>12, <1>14, <1>16, <1>17 DEF HandleDelEdge

LEMMA CrashIsolated ==
    ASSUME IInv, Isolated, NEW d \in Daemon, Crash(d)
    PROVE  Isolated'
<1>1. PICK M : TalkOK(M)
  BY DEF Isolated
<1>2. PICK g : g = [k \in EdgeKey |-> NoEdge]
  OBVIOUS
<1>3. PICK live \in SUBSET conns[d] : live = {}
  OBVIOUS
<1>4. /\ wire' = Transmit(wire, d, live, Nothing)
      /\ graph' = [graph EXCEPT ![d] = g]
      /\ UNCHANGED <<setup, opened, ends>>
  BY <1>2, <1>3 DEF Crash
<1>5. TalkOK(M)'
  <2>1. \A c \in live : Nothing[c] \in Seq(Allowed(c, M))
    BY <1>3
  <2>2. \A c \in ConnId, e \in Daemon : wire[c][e] \in Seq(Allowed(c, M))
    BY <1>1 DEF TalkOK
  <2>3. QED
    BY <1>4, <2>1, <2>2, Sends
<1>6. \A x \in Daemon : ViewOK(x, graph[x])'
  <2>1. ASSUME NEW k \in EdgeKey, g[k] # NoEdge
        PROVE  graph[d][k] # NoEdge \/ d \in {k[1], k[2]}
    BY <1>2, <2>1
  <2>2. QED
    BY <1>4, <2>1, Views
<1>7. QED
  BY <1>5, <1>6 DEF Isolated

(* A new connection may only make a daemon one that is not alone.          *)
LEMMA ConnectIsolated ==
    ASSUME IInv, Isolated, NEW pair \in ConnectTo, Connect(pair)
    PROVE  Isolated'
<1>1. PICK M : TalkOK(M)
  BY DEF Isolated
<1>2. PICK N : N = M \union {Ack}
  OBVIOUS
<1>3. PICK c \in ConnId : c = opened + 1
  BY MeshAssumption DEF Connect, IInv, ShapeOK, ConnId
<1>4. /\ opened' = c /\ ends' = [ends EXCEPT ![c] = pair]
      /\ wire' = [wire EXCEPT ![c] = [d \in Daemon |-> IF d \in pair THEN <<Ack>> ELSE <<>>]]
      /\ UNCHANGED <<setup, graph>>
  BY <1>3 DEF Connect
<1>5. opened \in Nat /\ ends \in [ConnId -> SUBSET Daemon]
  BY DEF IInv, ShapeOK
<1>6. \A b \in ConnId : b # c => ends'[b] = ends[b]
  BY <1>4, <1>5
<1>7. ASSUME NEW x, Alone(x)' PROVE Alone(x)
  <2>1. ASSUME NEW b \in 1 .. opened, x \in ends[b] PROVE Peer(b, x) \in TunnelServers
    <3>1. b \in 1 .. opened' /\ b \in ConnId /\ b # c
      BY <1>3, <1>4, <1>5, MeshAssumption DEF ConnId
    <3>2. ends'[b] = ends[b]
      BY <1>6, <3>1
    <3>3. Peer(b, x)' \in TunnelServers'
      BY <1>7, <2>1, <3>1, <3>2 DEF Alone
    <3>4. Peer(b, x)' = Peer(b, x) /\ TunnelServers' = TunnelServers
      BY <1>4, <3>2 DEF Peer, TunnelServers
    <3>5. QED
      BY <3>3, <3>4
  <2>2. QED
    BY <2>1 DEF Alone
<1>8. ASSUME NEW b \in ConnId, NEW e \in Daemon
      PROVE  /\ wire'[b][e] \in Seq(Allowed(b, N)')
             /\ wire'[b][e] \in Seq(N)
  <2>1. CASE b = c
    <3>1. wire'[b][e] = <<Ack>> \/ wire'[b][e] = <<>>
      BY <1>1, <1>4, <2>1 DEF TalkOK
    <3>2. PICK A : A = Allowed(b, N)'
      OBVIOUS
    <3>3. Ack \in A /\ Ack \in N
      BY <1>2, <3>2 DEF Allowed, Names
    <3>4. /\ <<Ack>> \in Seq(A) /\ <<>> \in Seq(A)
          /\ <<Ack>> \in Seq(N) /\ <<>> \in Seq(N)
      BY <3>3
    <3>5. QED
      BY <3>1, <3>2, <3>4
  <2>2. CASE b # c
    <3>1. wire'[b][e] = wire[b][e] /\ wire[b][e] \in Seq(Allowed(b, M))
      BY <1>1, <1>4, <2>2 DEF TalkOK
    <3>2. Allowed(b, M) \subseteq Allowed(b, N)' /\ Allowed(b, M) \subseteq N
      BY <1>2, <1>6, <1>7, <2>2 DEF Allowed
    <3>3. QED
      BY <3>1, <3>2, SeqMonotonic
  <2>3. QED
    BY <2>1, <2>2
<1>9. wire' \in [ConnId -> [Daemon -> Seq(N)]]
  <2>1. wire' = [b \in ConnId |-> [e \in Daemon |-> wire'[b][e]]]
    BY <1>1, <1>4 DEF TalkOK
  <2>2. QED
    BY <1>8, <2>1
<1>10. TalkOK(N)'
  BY <1>8, <1>9 DEF TalkOK
<1>11. \A x \in Daemon : ViewOK(x, graph[x])'
  BY <1>4, <1>7 DEF Isolated, ViewOK
<1>12. QED
  BY <1>10, <1>11 DEF Isolated

(* Nobody is connected to a tunnel server at the start, so a daemon whose  *)
(* peers are all tunnel servers has none and knows nothing.                *)
LEMMA InitIsolated == Init => Isolated
<1> SUFFICES ASSUME Init PROVE Isolated
  OBVIOUS
<1>1. PICK up : up = DOMAIN Established
  OBVIOUS
<1>2. PICK link : link = [k \in EdgeKey |->
                    {c \in up : Established[c] = {k[1], k[2]} /\ k[1] # k[2]}]
  OBVIOUS
<1>3. PICK full : full = [k \in EdgeKey |-> IF link[k] = {} THEN NoEdge
                                    ELSE DataOf[CHOOSE c \in link[k] : TRUE]]
  OBVIOUS
<1>4. /\ opened = Len(Established)
      /\ ends = [c \in ConnId |-> IF c \in up THEN Established[c] ELSE {}]
      /\ graph = [d \in Daemon |-> [k \in EdgeKey |->
                        IF k[1] \in Reachable(full, d) THEN full[k] ELSE NoEdge]]
      /\ wire = [c \in ConnId |-> [d \in Daemon |-> <<>>]]
      /\ SetupOK
  BY <1>1, <1>2, <1>3 DEF Init, SetupOK
<1>5. TalkOK({})
  BY <1>4 DEF TalkOK
<1>6. /\ up = 1 .. Len(Established) /\ Len(Established) \in Nat /\ up \subseteq ConnId
      /\ \A c \in up : \E x, y \in Daemon : x # y /\ Established[c] = {x, y}
  <2>1. /\ up = 1 .. Len(Established) /\ Len(Established) \in Nat /\ up \subseteq ConnId
        /\ \A c \in up : Established[c] \in ConnectTo
    BY <1>1, <1>4, SetupFacts, MeshAssumption DEF ConnId
  <2>2. QED
    BY <1>4, <2>1, SetupFacts
<1>7. \A c \in up : Established[c] \intersect TunnelServers = {}
  BY <1>1, <1>4, MeshAssumption DEF SetupOK, Established, TunnelServers
<1>8. ASSUME NEW x \in Daemon, Alone(x), NEW c \in up, x \in Established[c] PROVE FALSE
  <2>1. ends[c] = Established[c] /\ c \in 1 .. opened
    BY <1>4, <1>6
  <2>2. PICK y \in Daemon : y # x /\ ends[c] = {x, y}
    BY <1>6, <1>8, <2>1
  <2>3. Peer(c, x) = y
    BY <2>2 DEF Peer
  <2>4. QED
    BY <1>7, <1>8, <2>1, <2>2, <2>3 DEF Alone
<1>9. ASSUME NEW x \in Daemon, Alone(x), NEW k \in EdgeKey, graph[x][k] # NoEdge
      PROVE  x \in {k[1], k[2]}
  <2>1. k[1] \in Reachable(full, x) /\ full[k] # NoEdge
    BY <1>4, <1>9
  <2>2. \A b \in Daemon : full[<<x, b>>] = NoEdge
    <3>1. ASSUME NEW b \in Daemon PROVE link[<<x, b>>] = {}
      BY <1>2, <1>8, <1>9 DEF EdgeKey
    <3>2. QED
      BY <1>3, <3>1 DEF EdgeKey
  <2>3. \A a \in {x}, b \in Daemon : ~Linked(full, a, b)
    BY <2>2 DEF Linked
  <2>4. k[1] \in {x}
    BY <2>1, <2>3 DEF Reachable
  <2>5. QED
    BY <2>4
<1>10. QED
  BY <1>5, <1>9 DEF Isolated, ViewOK

LEMMA NextIsolated == IInv /\ Isolated /\ [Next]_vars => Isolated'
<1> SUFFICES ASSUME IInv, Isolated, [Next]_vars PROVE Isolated'
  OBVIOUS
<1>1. ASSUME NEW pair \in ConnectTo, Connect(pair) PROVE Isolated'
  BY <1>1, ConnectIsolated
<1>2. ASSUME NEW d \in Daemon, NEW c \in conns[d], RecvAck(d, c) PROVE Isolated'
  BY <1>2, AckIsolated
<1>3. ASSUME NEW d \in Daemon, NEW c \in conns[d], RecvAddEdge(d, c) PROVE Isolated'
  BY <1>3, AddIsolated
<1>4. ASSUME NEW d \in Daemon, NEW c \in conns[d], RecvDelEdge(d, c) PROVE Isolated'
  BY <1>4, DelIsolated
<1>5. ASSUME NEW d \in Daemon, NEW c \in conns[d], EndOfFile(d, c) \/ Break(d, c)
      PROVE  Isolated'
  BY <1>5, CloseIsolated DEF EndOfFile, Break
<1>6. ASSUME NEW d \in Daemon, Crash(d) PROVE Isolated'
  BY <1>6, CrashIsolated
<1>7. CASE UNCHANGED vars
  <2>1. UNCHANGED <<setup, opened, ends, graph, wire>>
    BY <1>7 DEF vars
  <2>2. /\ \A x : Alone(x)' = Alone(x)
        /\ \A c, N : Allowed(c, N)' = Allowed(c, N)
    BY <2>1, AloneStays
  <2>3. PICK M : TalkOK(M)
    BY DEF Isolated
  <2>4. TalkOK(M)'
    BY <2>1, <2>2, <2>3 DEF TalkOK
  <2>5. \A x \in Daemon : ViewOK(x, graph[x])'
    BY <2>1, <2>2 DEF Isolated, ViewOK
  <2>6. QED
    BY <2>4, <2>5 DEF Isolated
<1>8. QED
  BY <1>1, <1>2, <1>3, <1>4, <1>5, <1>6, <1>7 DEF Next, Process

(* A daemon whose peers are all tunnel servers never learns of an edge of  *)
(* others, for any number of daemons and tunnel servers, whatever they     *)
(* tell each other, correct and retract (handle_add_edge, handle_del_edge, *)
(* existing_state_messages).                                               *)
THEOREM TunnelServersIsolate == Spec => []TunnelIsolation
<1>1. Isolated => TunnelIsolation
  BY DEF Isolated, ViewOK, Alone, TunnelIsolation
<1>2. IInv /\ Isolated /\ [Next]_vars => Isolated'
  BY NextIsolated
<1>3. Init => Isolated
  BY InitIsolated
<1>4. QED
  BY <1>1, <1>2, <1>3, MeshInvariant, PTL DEF Spec

=============================================================================
