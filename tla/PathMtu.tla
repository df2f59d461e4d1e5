------------------------------ MODULE PathMtu ------------------------------
(***************************************************************************)
(* How a daemon finds out whether UDP reaches another daemon, at which     *)
(* address, and how large a datagram may be: the UDP probes and the path   *)
(* MTU discovery of tincd/src/state.rs, towards one peer with which keys   *)
(* have been exchanged.                                                    *)
(*                                                                         *)
(* Sizes are payload sizes, so that what encapsulation takes is already    *)
(* subtracted.  Time is the order of events: a probe is due again when     *)
(* what the last one caused has arrived or is lost, except that an answer  *)
(* comes later than that at most MaxLate times.  Two equal datagrams on    *)
(* the way at once are one.                                                *)
(***************************************************************************)
EXTENDS Integers, FiniteSetsExt

CONSTANTS
    MinMtu,         \* MIN_MTU, 512
    DefaultMtu,     \* DEFAULT_MTU, 1518 or 9018
    ProbeMinSize,   \* UDP_PROBE_MIN_SIZE, 18
    InitialProbes,  \* PMTU_INITIAL_PROBES, 20
    ProbesPerCycle, \* PMTU_PROBES_PER_CYCLE, 8
    GuessPeriod,    \* UDP_UNCONFIRMED_LATEST_GUESS_PERIOD, 3
    Paths,          \* the paths there can be: records of mtu, iface (what the
                    \* kernel refuses to exceed), address (where the peer is
                    \* seen from here), open (whether UDP passes at all)
    EdgeAddress,    \* the address of the peer that the edges tell
    DataSizes,      \* sizes of data packets
    InfoSizes,      \* sizes that MTU_INFO messages of relays tell
    MaxChanges, MaxLate, MaxInfos     \* bounds

VARIABLES
    path,       \* the path as it is
    node,       \* what the daemon thinks of the peer: fields of Node
    timer,      \* whether udp_ping_timeout is set
    guess,      \* udp_unconfirmed_guess_counter
    net,        \* datagrams on their way
    changes, late, infos    \* how often the path changed, an answer was
                            \* late, a relay sent MTU_INFO

mtuVars == <<path, node, timer, guess, net, changes, late, infos>>

(* What the daemon may think of the peer.                                  *)
Belief == [modern : BOOLEAN, reachable : BOOLEAN, confirmed : BOOLEAN, latest : {p.address : p \in Paths},
           min : 0..DefaultMtu, max : 0..DefaultMtu, mtu : 0..DefaultMtu,
           probes : -4..InitialProbes]

(* Forgetting what was found out, as several functions do.                 *)
Reset(n) == [n EXCEPT !.confirmed = FALSE, !.probes = 0, !.min = 0, !.max = DefaultMtu]

-----------------------------------------------------------------------------
(* What the daemon does with its idea n of the peer.                       *)

(* try_fix_mtu                                                             *)
TryFixMtu(n) ==
    IF n.probes < 0 \/ (n.probes # InitialProbes /\ n.min < n.max) THEN n
    ELSE LET size == Min({n.min, n.max})
         IN  [n EXCEPT !.min = size, !.max = size, !.mtu = size, !.probes = -1]

(* reduce_mtu                                                              *)
ReduceMtu(n, size) ==
    LET bound == Max({size, MinMtu})
    IN  TryFixMtu([n EXCEPT !.max = Min({@, bound}), !.mtu = Min({@, bound})])

(* The integer nearest to interval ^ (p / q), q = ProbesPerCycle - 1.      *)
Root ==
    LET q == ProbesPerCycle - 1
    IN  [interval \in 1..DefaultMtu, p \in 0..q |->
            CHOOSE r \in 1..interval : /\ (2 * r - 1) ^ q <= 2 ^ q * interval ^ p
                                       /\ 2 ^ q * interval ^ p < (2 * r + 1) ^ q]

(* pmtu_initial_probe_len.  The factor 0.97 that the exponent has as long  *)
(* as nothing bounds the size makes the largest probe a little shorter.    *)
PmtuInitialProbeLen(n) ==
    LET min == Max({n.min, MinMtu})
        interval == n.max - min
        position == ProbesPerCycle - (n.probes % ProbesPerCycle) - 1
        offset == Root[interval, position]
    IN  IF interval <= 0 THEN min
        ELSE min + IF n.max = DefaultMtu /\ offset > 1 THEN offset - 1 ELSE offset

(* send_udp_probe_payload: what becomes of [node, sent] when a probe of    *)
(* this length is sent to the latest address                               *)
SendProbe(s, len) ==
    LET size == Max({ProbeMinSize, Min({len, DefaultMtu})})
    IN  IF size > path.iface THEN [s EXCEPT !.node = ReduceMtu(@, size - 1)]
        ELSE [s EXCEPT !.sent = @ \union {[kind |-> "request", len |-> size, to |-> s.node.latest]}]

(* The loop of try_mtu_for_peer: again while the kernel's refusal has made *)
(* the maximum smaller.                                                    *)
SendInitialProbes(n) ==
    LET probe[m \in Belief] ==
          LET s == SendProbe([node |-> m, sent |-> {}], PmtuInitialProbeLen(m))
          IN  IF s.node.probes < 0 \/ s.node.max = m.max THEN s ELSE probe[s.node]
    IN  probe[n]

(* apply_udp_probe_reply                                                   *)
ApplyReply(n, len) ==
    LET heard == [n EXCEPT !.confirmed = TRUE]
        same == IF heard.probes < 0 /\ len = heard.max THEN [heard EXCEPT !.probes = -1] ELSE heard
    IN  IF len > n.max THEN [heard EXCEPT !.min = len, !.max = DefaultMtu, !.probes = 1]
        ELSE TryFixMtu([same EXCEPT !.min = Max({@, len})])

(* update_node_udp_like_tinc, for a datagram that came from this address   *)
UpdateNodeUdp(n, address) ==
    IF n.latest = address THEN n ELSE [Reset(n) EXCEPT !.latest = address]

-----------------------------------------------------------------------------
(* Timers: due when everything arrived that was on its way, or an answer   *)
(* is late.                                                                *)
Due == /\ node.reachable
       /\ \/ net = {} /\ late' = late
          \/ net # {} /\ late < MaxLate /\ late' = late + 1

(* try_udp_for_peer: a small probe, to the confirmed address or a guess    *)
TryUdp ==
    /\ Due
    /\ LET turn == (guess + 1) % GuessPeriod
           target == IF node.confirmed \/ turn = 0 THEN node.latest ELSE EdgeAddress
       IN  /\ guess' = IF node.confirmed THEN guess ELSE turn
           /\ net' = net \union {[kind |-> "request", len |-> ProbeMinSize, to |-> target]}
    /\ UNCHANGED <<path, node, timer, changes, infos>>

(* try_mtu_for_peer, when mtu_probe_due says so: the size is fixed when    *)
(* enough probes were sent and then probed again and again, with one more  *)
(* to see whether the path has become better; after three probes without a *)
(* reply the search starts again.                                          *)
FixedKeepsMin(n) ==     \* a search that starts again from the size proven before
    LET m == TryFixMtu(n) IN IF m.probes < -3 THEN [m EXCEPT !.probes = 0] ELSE m

Fixed(n) ==
    LET m == TryFixMtu(n)
    IN  IF m.probes < -3 THEN [m EXCEPT !.probes = 0, !.min = 0] ELSE m

ProbeFixed(m) ==
    LET s == SendProbe([node |-> m, sent |-> {}], m.max)
    IN  IF m.probes = -1 /\ m.max + 1 < DefaultMtu THEN SendProbe(s, m.max + 1) ELSE s

ProbeInitial(m) ==
    SendInitialProbes(IF m.probes = 0 THEN [m EXCEPT !.max = path.iface] ELSE m)

TryMtuForPeer ==
    /\ Due
    /\ IF ~node.confirmed THEN node' = Reset(node) /\ UNCHANGED net
       ELSE \E m \in {Fixed(node)} :
            \E s \in {IF m.probes < 0 THEN ProbeFixed(m) ELSE ProbeInitial(m)} :
               /\ node' = [s.node EXCEPT !.probes =
                              IF m.probes < 0 THEN @ - 1 ELSE IF @ >= 0 THEN @ + 1 ELSE @]
               /\ net' = net \union s.sent
    /\ UNCHANGED <<path, timer, guess, changes, infos>>

(* expire_udp_probe_timeout: no reply for the time of UDPDiscoveryTimeout  *)
ExpireUdpProbeTimeout ==
    /\ timer /\ Due
    /\ ~path.open \/ path.address # node.latest \/ late' > late
    /\ timer' = FALSE
    /\ node' = IF node.confirmed THEN Reset(node) ELSE node
    /\ UNCHANGED <<path, guess, net, changes, infos>>

(* A data packet that is small enough for UDP.                             *)
SendData(len) ==
    /\ Due /\ len <= node.min
    /\ IF len > path.iface
       THEN node' = ReduceMtu(node, len - 1) /\ UNCHANGED net
       ELSE UNCHANGED node /\ net' = net \union {[kind |-> "data", len |-> len, to |-> node.latest]}
    /\ UNCHANGED <<path, timer, guess, changes, infos>>

-----------------------------------------------------------------------------
(* The peer, and the network.                                              *)

Passes(d) == /\ path.open /\ d.len <= path.mtu /\ d.to = path.address

Reply(len) == [kind |-> "reply", len |-> len, from |-> path.address]

(* A datagram is dropped on the way or reaches the peer, which answers a   *)
(* probe, and reports the size of other datagrams now and then (the peer's *)
(* send_gratuitous_udp_probe_reply_if_due).                                *)
ArriveAtPeer(d) ==
    /\ d \in net /\ d.kind \in {"request", "data"}
    /\ \/ Passes(d) /\ net' = (net \ {d}) \union {Reply(d.len)}
       \/ (~Passes(d) \/ d.kind = "data") /\ net' = net \ {d}
    /\ UNCHANGED <<path, node, timer, guess, changes, late, infos>>

(* handle_udp_probe_payload with a reply, from a peer of the legacy        *)
(* protocol followed by update_node_udp_like_tinc.  The reply of a modern  *)
(* peer is taken by handle_sptps_udp_envelope, which does not look at the  *)
(* address it came from.                                                   *)
ReceiveReply(d) ==
    /\ d \in net /\ d.kind = "reply"
    /\ net' = net \ {d}
    /\ IF path.open /\ node.reachable
       THEN LET answered == ApplyReply(node, d.len)
            IN  /\ node' = IF node.modern THEN answered ELSE UpdateNodeUdp(answered, d.from)
                /\ timer' = (node.modern \/ d.from = node.latest)
       ELSE UNCHANGED <<node, timer>>
    /\ UNCHANGED <<path, guess, changes, late, infos>>

(* A packet of the peer arrives: the daemon sees its address.              *)
PeerSends ==
    /\ path.open /\ node.reachable /\ node.latest # path.address
    /\ node' = UpdateNodeUdp(node, path.address)
    /\ timer' = FALSE
    /\ UNCHANGED <<path, guess, net, changes, late, infos>>

ChangePath ==
    /\ changes < MaxChanges
    /\ changes' = changes + 1
    /\ path' \in Paths \ {path}
    /\ UNCHANGED <<node, timer, guess, net, late, infos>>

(* apply_mtu_info                                                          *)
ReceiveMtuInfo(size) ==
    /\ infos < MaxInfos
    /\ infos' = infos + 1
    /\ node' = IF node.min # node.max THEN [node EXCEPT !.mtu = size] ELSE node
    /\ UNCHANGED <<path, timer, guess, net, changes, late>>

(* The peer becomes unreachable (update_reachability), and reachable again *)
(* (update_route_udp_endpoints_like_tinc)                                  *)
Unreach ==
    /\ node.reachable /\ changes < MaxChanges
    /\ changes' = changes + 1
    /\ node' = [node EXCEPT !.reachable = FALSE, !.confirmed = FALSE]
    /\ timer' = FALSE
    /\ UNCHANGED <<path, guess, net, late, infos>>
Reach ==
    /\ ~node.reachable
    /\ node' = [Reset(node) EXCEPT !.reachable = TRUE, !.latest = EdgeAddress]
    /\ UNCHANGED <<path, timer, guess, net, changes, late, infos>>

-----------------------------------------------------------------------------
Init ==
    /\ path \in Paths
    /\ node \in [modern : BOOLEAN, reachable : {TRUE}, latest : {EdgeAddress},
                 confirmed : {FALSE}, probes : {0}, min : {0}, max : {DefaultMtu},
                 mtu : {DefaultMtu}]
    /\ timer = FALSE /\ guess = 0 /\ net = {}
    /\ changes = 0 /\ late = 0 /\ infos = 0

Next ==
    \/ TryUdp \/ TryMtuForPeer \/ ExpireUdpProbeTimeout
    \/ \E len \in DataSizes : SendData(len)
    \/ \E d \in net : ArriveAtPeer(d) \/ ReceiveReply(d)
    \/ PeerSends \/ ChangePath \/ Unreach \/ Reach
    \/ \E size \in InfoSizes : ReceiveMtuInfo(size)

(* As long as there is traffic the daemon probes, what is on its way       *)
(* arrives or is dropped, and the peer sends too.                          *)
Fairness ==
    /\ SF_mtuVars(TryUdp) /\ SF_mtuVars(TryMtuForPeer) /\ SF_mtuVars(ExpireUdpProbeTimeout)
    /\ WF_mtuVars(\E d \in net : ArriveAtPeer(d) \/ ReceiveReply(d))
    /\ WF_mtuVars(PeerSends) /\ WF_mtuVars(Reach)

-----------------------------------------------------------------------------
(* When the path has stopped changing, the size that routing keeps packets *)
(* within becomes the largest that the path takes and stays it, and no     *)
(* data goes over UDP when nothing passes, whatever late replies of an     *)
(* earlier path, MTU_INFO of relays and refusals of the kernel had done    *)
(* (try_mtu_for_peer, apply_udp_probe_reply, expire_udp_probe_timeout).    *)
MtuFits ==
    IF path.open
    THEN node.confirmed /\ (node.min <= node.max => node.mtu = path.mtu)
    ELSE ~node.confirmed /\ node.min = 0
MtuSettles == <>[]MtuFits

=============================================================================
