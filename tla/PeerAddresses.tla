---------------------------- MODULE PeerAddresses ----------------------------
(***************************************************************************)
(* Which daemon a datagram is from, and at which address each daemon is    *)
(* (tincd/src/state.rs, tincd/src/transport.rs, tinc-runtime/src/          *)
(* transport.rs).  An address is learnt from the edges, from datagrams and *)
(* from UDP_INFO messages, while daemons move; relays pass datagrams on by *)
(* UDP or over meta connections, and MTU_INFO tells how large those that   *)
(* are relayed may be.                                                     *)
(*                                                                         *)
(* Packets are small: they pass wherever a size is proven, that is where a *)
(* probe was answered since the address changed (PathMtu).  A key is a     *)
(* number, and one question and its answer make one (SptpsKeyExchange,     *)
(* LegacyKeys); relays add to an answer where they see who gives it.       *)
(***************************************************************************)
EXTENDS Integers, FiniteSets, Sequences, SequencesExt, Removal

CONSTANTS
    Node,           \* the daemons, numbered
    Settings,       \* the VPNs to look at: records of
                    \*   links          pairs with a meta connection
                    \*   nextHop, via   the routes of each daemon to each other
                    \*   legacy         daemons with the legacy protocol
                    \*   tcpOnly        daemons with TCPOnly
                    \*   edge           the address of each daemon that edges tell
                    \*   config         config[d][e]: the one that d has configured, or NoAddress
                    \*   places         places[d]: the addresses at which d can be
                    \*   fixed          fixed[d][e]: the path MTU to e when d has found it, or 0
                    \*   keyed, proven  pairs that share keys, pairs <<d, e>> where a probe
                    \*                  of d has been answered by e, at first
                    \*   talk           pairs <<d, e>> where d sends to e
                    \*   chances        how often something may happen
    DefaultMtu,
    MaxMail         \* a bound on the messages to one daemon

Null == 0                   \* the node id of nobody

(* Daemons talk to the neighbours that routes name, and relay only what    *)
(* does not go to a neighbour, or over themselves (GraphRoutes).           *)
KnownSettings ==
    /\ Node \subseteq Nat \ {Null} /\ DefaultMtu \in Nat
    /\ \A s \in Settings :
         /\ \A d, e \in Node : d # e =>
              /\ s.nextHop[d][e] \in Node \ {d} /\ {d, s.nextHop[d][e]} \in s.links
              /\ s.via[d][e] \in Node /\ (s.nextHop[d][e] = e => s.via[d][e] \in {d, e})
              /\ s.fixed[d][e] \in 0 .. DefaultMtu /\ s.config[d][e] \in Int
         /\ \A d \in Node : s.edge[d] \in Int /\ s.places[d] \subseteq Int
         /\ \A t \in s.talk : t[1] \in Node /\ t[2] \in Node \ {t[1]}
         /\ s.chances \in [moves : Nat, keys : Nat, restarts : Nat, seconds : Nat]
ASSUME AddressAssumption == KnownSettings

VARIABLES
    setting,        \* the one of the Settings it is; it does not change
    where,          \* where[d]: the address of d that others see
    had,            \* had[d]: those it has had
    mem,            \* mem[d]: what d remembers of the others, a Memory
    mail,           \* mail[d]: messages on the way to d, in order
    air,            \* datagrams on their way
    chances         \* how often something may still happen that is bounded

addressVars == <<setting, where, had, mem, mail, air, chances>>

NoAddress == -1
Private(d) == -10 - d       \* how d sees its own end of a meta connection

NextHop(d, e) == IF d = e THEN d ELSE setting.nextHop[d][e]
ViaOf(d, e) == IF d = e THEN d ELSE setting.via[d][e]
Adjacent(d, e) == {d, e} \in setting.links
Modern(d, e) == {d, e} \intersect setting.legacy = {}
TcpOnly(group) == group \intersect setting.tcpOnly # {}
Others(d) == Node \ {d}
Least(S) == CHOOSE x \in S : \A y \in S : x <= y

(* What d remembers: latest is udp_address, confirmed that a size is       *)
(* proven, first and byAddress are the NodeAddressTable, session the keys, *)
(* told whom UDP_INFO, MTU_INFO and questions for keys were sent lately,   *)
(* hard whether the hard try of this second is used.                       *)
Memory(d) ==
    [latest |-> [e \in Others(d) |-> setting.edge[e]],
     confirmed |-> [e \in Others(d) |-> FALSE],
     first |-> [e \in Others(d) |-> setting.config[d][e]],
     byAddress |-> {<<setting.config[d][e], e>> : e \in {x \in Others(d) : setting.config[d][x] # NoAddress}},
     session |-> [e \in Others(d) |-> 0],
     mtu |-> [e \in Others(d) |-> DefaultMtu],
     told |-> {}, hard |-> FALSE]

(* Where a probe was answered, the address is the right one and the table  *)
(* has an address.                                                         *)
Initially(d) ==
    LET proven == {e \in Others(d) : <<d, e>> \in setting.proven}
        byEdge == {e \in proven : Adjacent(d, e)}
    IN  [Memory(d) EXCEPT
           !.latest = [e \in Others(d) |-> IF e \in proven THEN where[e] ELSE @[e]],
           !.confirmed = [e \in Others(d) |-> e \in proven],
           !.session = [e \in Others(d) |-> IF {d, e} \in setting.keyed THEN 1 ELSE 0],
           !.first = [e \in Others(d) |-> IF e \in byEdge THEN setting.edge[e] ELSE @[e]],
           !.byAddress = @ \union {<<setting.edge[e], e>> : e \in byEdge}]

-----------------------------------------------------------------------------
(* What handling something comes to: o.m, the memory of the daemon, o.mail *)
(* and o.air, what it sends.                                               *)
Start(d) == [m |-> mem[d], mail |-> <<>>, air |-> {}]

(* set_node_udp_endpoint_like_tinc, update_node_udp_like_tinc              *)
UpdateNodeUdp(o, e, address) ==
    IF o.m.latest[e] = address THEN o
    ELSE [o EXCEPT !.m.latest[e] = address, !.m.confirmed[e] = FALSE]

(* NodeAddressTable::promote, of the address that the edge to e tells      *)
PromoteAddress(m, e) ==
    [m EXCEPT !.first[e] = setting.edge[e],
              !.byAddress = {p \in @ : p[1] # setting.edge[e]} \union {<<setting.edge[e], e>>}]

(* apply_udp_probe_reply                                                   *)
ApplyProbeReply(d, o, e) ==
    LET heard == [o EXCEPT !.m.confirmed[e] = TRUE]
    IN  IF o.m.confirmed[e] \/ ~Adjacent(d, e) THEN heard ELSE [heard EXCEPT !.m = PromoteAddress(@, e)]

-----------------------------------------------------------------------------
(* UDP_INFO and MTU_INFO.                                                  *)

(* info_target: a static relay tells the one before it, and others tell    *)
(* the static relay.                                                       *)
InfoTarget(d, e) == IF ViaOf(d, e) = d THEN NextHop(d, e) ELSE ViaOf(d, e)

(* should_send_udp_info                                                    *)
ShouldSendUdpInfo(d, m, from, target) ==
    /\ target # d
    /\ from = d => ~Adjacent(d, target) /\ <<"udp", target>> \notin m.told
    /\ ~TcpOnly({d, from, target})

(* udp_info_endpoint                                                       *)
UdpInfoEndpoint(d, m, from) ==
    IF from = d THEN Private(d) ELSE m.latest[from]

SendUdpInfo(d, o, from, to) ==
    LET target == InfoTarget(d, to)
        info == [kind |-> "udp_info", by |-> d, hop |-> NextHop(d, target), from |-> from,
                 to |-> target, endpoint |-> UdpInfoEndpoint(d, o.m, from)]
    IN  IF ~ShouldSendUdpInfo(d, o.m, from, target) THEN o
        ELSE [o EXCEPT !.mail = Append(@, info),
                       !.m.told = IF from = d THEN @ \union {<<"udp", target>>} ELSE @]

(* best_mtu_info_value: never more than what is known of the way back to   *)
(* the sender                                                              *)
Fixed(d, e) == d # e /\ setting.fixed[d][e] # 0
Smaller(a, b) == IF a < b THEN a ELSE b
BestMtu(d, from, mtu) ==
    LET via == InfoTarget(d, from)
        hop == NextHop(d, via)
    IN  IF from = d THEN mtu
        ELSE IF Fixed(d, from) /\ ViaOf(d, from) = d THEN setting.fixed[d][from]
        ELSE IF Fixed(d, via) THEN Smaller(mtu, setting.fixed[d][via])
        ELSE IF Fixed(d, hop) THEN Smaller(mtu, setting.fixed[d][hop])
        ELSE mtu

SendMtuInfo(d, o, from, to, mtu) ==
    LET info == [kind |-> "mtu_info", by |-> d, hop |-> NextHop(d, to), from |-> from,
                 to |-> to, mtu |-> BestMtu(d, from, mtu)]
    IN  IF to = d \/ (from = d /\ (Adjacent(d, to) \/ <<"mtu", to>> \in o.m.told)) THEN o
        ELSE [o EXCEPT !.mail = Append(@, info),
                       !.m.told = IF from = d THEN @ \union {<<"mtu", to>>} ELSE @]

(* handle_udp_info_message_like_tinc: of a daemon behind a static relay    *)
(* nothing is learnt, nor of one that is heard directly.                   *)
TakeUdpInfo(d, o, i) ==
    LET learn == i.from # d /\ ~Adjacent(d, i.from) /\ ~o.m.confirmed[i.from]
    IN  IF ViaOf(d, i.from) # i.from THEN o
        ELSE SendUdpInfo(d, IF learn THEN UpdateNodeUdp(o, i.from, i.endpoint) ELSE o, i.from, i.to)

(* apply_mtu_info, and passing the message on                              *)
TakeMtuInfo(d, o, i) ==
    LET learn == i.from # d /\ ~Fixed(d, i.from)
    IN  SendMtuInfo(d, IF learn THEN [o EXCEPT !.m.mtu[i.from] = i.mtu] ELSE o, i.from, i.to, i.mtu)

-----------------------------------------------------------------------------
(* Sending.                                                                *)
Datagram(d, form, src, dst, key, kind, to) ==
    [by |-> d, form |-> form, src |-> src, dst |-> dst, key |-> key, kind |-> kind,
     from |-> where[d], to |-> to]
SendAir(o, g) == IF g.to < 0 THEN o ELSE [o EXCEPT !.air = @ \union {g}]

(* choose_udp_target_from_snapshot: the latest address, and as long as     *)
(* nothing is confirmed now and then the one that the edges tell.          *)
Targets(m, e) == {m.latest[e]} \union (IF m.confirmed[e] THEN {} ELSE {setting.edge[e]})

(* choose_sptps_transport_targets                                          *)
UdpRelay(d, m, owner, isProbe) ==
    LET via == ViaOf(d, owner)
    IN  IF via # d /\ (isProbe \/ m.confirmed[via]) THEN via ELSE NextHop(d, owner)
NeedsTcp(d, m, relay) == TcpOnly({d, relay}) \/ ~m.confirmed[relay]

(* A question for a key, unless one was sent lately                        *)
Ask(d, o, e) ==
    IF <<"key", e>> \in o.m.told \/ ~Modern(d, e) THEN o
    ELSE [o EXCEPT !.mail = Append(@, [kind |-> "request", by |-> d, hop |-> NextHop(d, e),
                                       src |-> d, dst |-> e]),
                   !.m.told = @ \union {<<"key", e>>}]

Carried(d, src, dst, key, hop) ==
    [kind |-> "sptps", by |-> d, hop |-> hop, src |-> src, dst |-> dst, key |-> key]

(* A modern packet or probe of d itself: direct, relayed or over TCP, or   *)
(* first a question for a key.                                             *)
OwnRecord(d, o, e, kind) ==
    LET isProbe == kind # "packet"
        relay == UdpRelay(d, o.m, e, isProbe)
        dst == IF relay = e THEN Null ELSE e
    IN  IF o.m.session[e] = 0 THEN {IF isProbe THEN o ELSE Ask(d, o, e)}
        ELSE IF isProbe /\ TcpOnly({d, relay}) THEN {o}
        ELSE IF ~isProbe /\ NeedsTcp(d, o.m, relay)
        THEN {IF Adjacent(d, e) THEN o
              ELSE [o EXCEPT !.mail = Append(@, Carried(d, d, e, o.m.session[e], NextHop(d, e)))]}
        ELSE {SendAir(o, Datagram(d, "modern", d, dst, o.m.session[e], kind, a)) : a \in Targets(o.m, relay)}

OwnLegacy(d, o, e, kind) ==
    IF o.m.session[e] = 0 THEN {o}
    ELSE {SendAir(o, Datagram(d, "legacy", d, Null, o.m.session[e], kind, a)) : a \in Targets(o.m, e)}

(* forward_sptps_relay_record: what others made is sent to the address of  *)
(* the table, not to the latest one.                                       *)
ForwardRecord(d, o, src, dst, key, kind) ==
    LET relay == UdpRelay(d, o.m, dst, FALSE)
    IN  IF NeedsTcp(d, o.m, relay)
        THEN IF Adjacent(d, NextHop(d, dst))
             THEN [o EXCEPT !.mail = Append(@, Carried(d, src, dst, key, NextHop(d, dst)))] ELSE o
        ELSE SendAir(o, Datagram(d, "modern", src, dst, key, kind, o.m.first[relay]))

-----------------------------------------------------------------------------
(* Receiving.                                                              *)

(* udp_source_node: by the table, or by the latest addresses               *)
UdpSourceNode(m, d, address) ==
    LET named == {p[2] : p \in {q \in m.byAddress : q[1] = address}}
        latest == {e \in Others(d) : m.latest[e] = address}
    IN  IF named # {} THEN Least(named) ELSE IF latest # {} THEN Least(latest) ELSE Null

(* Whether what the other wrote with this key can be read; a daemon has no *)
(* key for itself.                                                         *)
HasSession(m, src) == src \in DOMAIN m.session /\ m.session[src] # 0
Opens(m, src, key) == HasSession(m, src) /\ m.session[src] = key

(* verify_direct_datagram_source                                           *)
VerifyDirect(m, g) ==
    IF g.form = "modern" /\ g.dst = Null /\ Opens(m, g.src, g.key) THEN g.src ELSE Null

(* legacy_udp_try_harder_at: those are tried whom the edges tell at this   *)
(* address, and once a second all others.                                  *)
TryHarder(d, m, g) ==
    LET candidates == {e \in Others(d) : ~Modern(d, e) /\ m.session[e] # 0
                                         /\ (setting.edge[e] = g.from \/ ~m.hard)}
        found == {e \in candidates : g.form = "legacy" /\ e = g.src /\ Opens(m, e, g.key)}
        tried == {e \in candidates : \A f \in found : e <= f}
    IN  [source |-> IF found = {} THEN Null ELSE Least(found),
         hard |-> m.hard \/ \E e \in tried : setting.edge[e] # g.from]

(* handle_udp_probe_payload, for a probe that came directly, or relayed    *)
Probe(d, o, g, source) ==
    IF g.kind = "reply" THEN {ApplyProbeReply(d, o, source)}
    ELSE IF g.dst # Null THEN OwnRecord(d, o, source, "reply")
    ELSE {SendAir(o, Datagram(d, g.form, d, Null, o.m.session[source], "reply", g.from))}

(* handle_sptps_udp_envelope, from udpSource                               *)
Tell(d, o, g, udpSource) ==
    LET wanted == /\ ViaOf(d, g.src) # udpSource
                  /\ g.dst = d \/ ViaOf(d, g.dst) = d
    IN  IF g.dst # Null /\ wanted THEN SendUdpInfo(d, o, d, g.src) ELSE o

AfterPacket(d, o, g) ==
    IF g.dst = Null THEN UpdateNodeUdp(o, g.src, g.from)
    ELSE LET sender == UdpSourceNode(o.m, d, g.from)
         IN  IF sender = Null THEN o ELSE SendMtuInfo(d, o, d, sender, DefaultMtu)

(* request_sptps_key_after_unkeyed_udp_like_tinc, and after a relayed one  *)
AskWhenUnkeyed(d, o, g, udpSource) ==
    IF g.dst = Null THEN IF HasSession(o.m, udpSource) THEN o ELSE Ask(d, o, udpSource)
    ELSE IF /\ g.src # d
            /\ Modern(d, udpSource) /\ o.m.confirmed[udpSource] THEN Ask(d, o, g.src) ELSE o

HandleEnvelope(d, o, g, udpSource) ==
    LET told == Tell(d, o, g, udpSource)
    IN  IF g.dst \notin {Null, d} THEN {ForwardRecord(d, told, g.src, g.dst, g.key, g.kind)}
        ELSE IF ~HasSession(o.m, g.src) THEN {AskWhenUnkeyed(d, told, g, udpSource)}
        ELSE IF ~Opens(o.m, g.src, g.key) THEN {told}
        ELSE IF g.kind # "packet" THEN Probe(d, told, g, g.src)
        ELSE {AfterPacket(d, told, g)}

(* The part of handle_udp_datagram that is for the legacy protocol         *)
HandleLegacy(d, o, g, source) ==
    IF g.src # source \/ ~Opens(o.m, source, g.key) THEN {o}
    ELSE IF g.kind = "packet" THEN {UpdateNodeUdp(o, source, g.from)}
    ELSE {UpdateNodeUdp(p, source, g.from) : p \in Probe(d, o, g, source)}

(* Mutant: what comes from the address of another is dropped.              *)
HandleDatagramOfSeen(d, g) ==
    LET o == Start(d)
        seen == UdpSourceNode(o.m, d, g.from)
        source == IF seen # Null THEN seen ELSE VerifyDirect(o.m, g)
    IN  IF source = Null \/ (g.dst = Null /\ source # g.src) THEN {o}
        ELSE IF g.form = "modern" THEN HandleEnvelope(d, o, g, source)
        ELSE HandleLegacy(d, o, g, source)

(* handle_udp_datagram.  A modern datagram is taken for one of the daemon  *)
(* that it names, whoever has been seen at the address before.             *)
HandleDatagram(d, g) ==
    LET o == Start(d)
        seen == UdpSourceNode(o.m, d, g.from)
        named == IF seen # Null THEN seen ELSE VerifyDirect(o.m, g)
        harder == TryHarder(d, o.m, g)
        p == IF named # Null THEN o ELSE [o EXCEPT !.m.hard = harder.hard]
        source == IF named # Null THEN named ELSE harder.source
    IN  IF source = Null THEN {p}
        ELSE IF g.form = "modern" THEN HandleEnvelope(d, p, g, source)
        ELSE HandleLegacy(d, p, g, source)

(* handle_meta_sptps_packet                                                *)
TakeCarried(d, o, c) ==
    IF c.dst # d
    THEN ForwardRecord(d, IF ViaOf(d, c.dst) = d THEN SendUdpInfo(d, o, d, c.src) ELSE o,
                       c.src, c.dst, c.key, "packet")
    ELSE LET told == SendUdpInfo(d, o, d, c.src)
         IN  IF Opens(o.m, c.src, c.key) THEN SendMtuInfo(d, told, d, c.src, DefaultMtu)
             ELSE Ask(d, told, c.src)

Happens(what) == chances[what] > 0 /\ chances' = [chances EXCEPT ![what] = @ - 1]

(* handle_extended_request_key_message, and the answer to it               *)
NewKey == 1 + setting.chances["keys"] - chances'["keys"]
TakeRequest(d, o, q) ==
    LET told == IF q.dst = d \/ ViaOf(d, q.dst) = d THEN SendUdpInfo(d, o, d, q.src) ELSE o
        answer == [kind |-> "answer", by |-> d, hop |-> NextHop(d, q.src), src |-> d, dst |-> q.src,
                   key |-> NewKey, address |-> NoAddress]
    IN  IF q.dst # d THEN [told EXCEPT !.mail = Append(@, [q EXCEPT !.by = d, !.hop = NextHop(d, q.dst)])]
        ELSE [told EXCEPT !.mail = Append(@, answer), !.m.session[q.src] = NewKey]

(* forward_answer_key_message; apply_sptps_reflexive_address_like_tinc     *)
TakeAnswer(d, o, q) ==
    LET seen == q.address = NoAddress /\ d \notin {q.src, q.dst} /\ o.m.confirmed[q.dst]
        address == IF seen THEN o.m.latest[q.src] ELSE q.address
        keyed == [o EXCEPT !.m.session[q.src] = q.key, !.m.told = @ \ {<<"key", q.src>>}]
        moved == IF q.address = NoAddress THEN keyed ELSE UpdateNodeUdp(keyed, q.src, q.address)
    IN  IF q.dst # d
        THEN [o EXCEPT !.mail = Append(@, [q EXCEPT !.by = d, !.hop = NextHop(d, q.dst), !.address = address])]
        ELSE SendMtuInfo(d, moved, d, q.src, DefaultMtu)

-----------------------------------------------------------------------------
(* What a daemon sends joins what is on its way.                           *)
LettersTo(e, letters) == AllBut(letters, {i \in ToSet(letters) : i.hop # e})
Room(o) == \A e \in Node : Len(mail[e]) + Len(LettersTo(e, o.mail)) <= MaxMail
Carry(rest, o) == [e \in Node |-> rest[e] \o LettersTo(e, o.mail)]

Becomes(d, o, restOfMail, restOfAir) ==
    /\ Room(o)
    /\ mem' = [mem EXCEPT ![d] = o.m]
    /\ mail' = Carry(restOfMail, o)
    /\ air' = restOfAir \union o.air
    /\ UNCHANGED <<setting, where, had>>

(* A packet from the device, or a probe, while nothing else is in the air  *)
Send(d, e, kind) ==
    /\ air = {}
    /\ \E o \in IF Modern(d, e) THEN OwnRecord(d, Start(d), e, kind)
                ELSE OwnLegacy(d, Start(d), e, kind) :
          o # Start(d) /\ Becomes(d, o, mail, air)
    /\ UNCHANGED chances

ReceiveDatagram(g) ==
    IF \E d \in Node : where[d] = g.to
    THEN LET d == Least({x \in Node : where[x] = g.to})
         IN  UNCHANGED chances /\ \E o \in HandleDatagram(d, g) : Becomes(d, o, mail, air \ {g})
    ELSE air' = air \ {g} /\ UNCHANGED <<setting, where, had, mem, mail, chances>>

Lose(g) == air' = air \ {g} /\ UNCHANGED <<setting, where, had, mem, mail, chances>>

ReceiveMail(d) ==
    /\ mail[d] # <<>>
    /\ LET i == Head(mail[d])
           o == CASE i.kind = "udp_info" -> TakeUdpInfo(d, Start(d), i)
                  [] i.kind = "mtu_info" -> TakeMtuInfo(d, Start(d), i)
                  [] i.kind = "request" -> TakeRequest(d, Start(d), i)
                  [] i.kind = "answer" -> TakeAnswer(d, Start(d), i)
                  [] OTHER -> TakeCarried(d, Start(d), i)
       IN  /\ IF i.kind = "request" /\ i.dst = d THEN Happens("keys") ELSE UNCHANGED chances
           /\ Becomes(d, o, [mail EXCEPT ![d] = Tail(@)], air)

-----------------------------------------------------------------------------
(* What happens around them.                                               *)
(* A daemon, or the router in front of it, gets another address; one that  *)
(* another daemon has left may be taken.                                   *)
Relocate(d) ==
    /\ Happens("moves")
    /\ \E a \in setting.places[d] \ {where[e] : e \in Node} :
          where' = [where EXCEPT ![d] = a] /\ had' = [had EXCEPT ![d] = @ \union {a}]
    /\ UNCHANGED <<setting, mem, mail, air>>

(* Two daemons of the legacy protocol make new keys, over their connection *)
(* or over relays that add an address.                                     *)
AgreeOnKeys(d, e) ==
    /\ d < e /\ ~Modern(d, e)
    /\ Happens("keys")
    /\ mem' = [mem EXCEPT ![d].session[e] = NewKey, ![e].session[d] = NewKey]
    /\ UNCHANGED <<setting, where, had, mail, air>>

(* A daemon crashes and comes back: the others forget whom they reached    *)
(* over it, and get their addresses from the edges (clear_unreachable_     *)
(* runtime_peer_state_like_tinc, update_route_udp_endpoints_like_tinc).    *)
ForgetGone(m, gone) ==
    [m EXCEPT !.latest = [e \in DOMAIN @ |-> IF e \in gone THEN setting.edge[e] ELSE @[e]],
              !.confirmed = [e \in DOMAIN @ |-> @[e] /\ e \notin gone],
              !.session = [e \in DOMAIN @ |-> IF e \in gone THEN 0 ELSE @[e]],
              !.told = {t \in @ : t[2] \notin gone}]
Restart(c) ==
    /\ Happens("restarts")
    /\ mem' = [d \in Node |->
                  IF d = c THEN Memory(d)
                  ELSE ForgetGone(mem[d], {e \in Others(d) : e = c \/ NextHop(d, e) = c})]
    /\ mail' = [d \in Node |-> IF d = c THEN <<>> ELSE AllBut(mail[d], {i \in ToSet(mail[d]) : i.by = c})]
    /\ UNCHANGED <<setting, where, had, air>>

(* UDP_INFO and MTU_INFO may be sent again, and a hard try made.           *)
Wait ==
    /\ Happens("seconds")
    /\ mem' = [d \in Node |-> [mem[d] EXCEPT !.told = {}, !.hard = FALSE]]
    /\ UNCHANGED <<setting, where, had, mail, air>>

AddressInit ==
    /\ setting \in Settings
    /\ where \in [Node -> UNION {setting.places[d] : d \in Node}]
    /\ \A d \in Node : where[d] \in setting.places[d]
    /\ \A d, e \in Node : d # e => where[d] # where[e]
    /\ had = [d \in Node |-> {where[d]}]
    /\ mem = [d \in Node |-> Initially(d)]
    /\ mail = [d \in Node |-> <<>>] /\ air = {}
    /\ chances = setting.chances

AddressNext ==
    \/ \E t \in setting.talk : Send(t[1], t[2], "packet") \/ Send(t[1], t[2], "request")
    \/ \E d, e \in Node : AgreeOnKeys(d, e)
    \/ \E g \in air : ReceiveDatagram(g) \/ Lose(g)
    \/ \E d \in Node : ReceiveMail(d) \/ Relocate(d) \/ Restart(d)
    \/ Wait

-----------------------------------------------------------------------------
(* The address a daemon remembers for another is one that it has had, or   *)
(* the one its edges tell: never that of a relay, of another daemon that   *)
(* took the place or the one it sees itself behind its router              *)
(* (update_node_udp_like_tinc, handle_udp_info_message_like_tinc).         *)
AddressesAreOwn ==
    \A d \in Node : \A e \in Others(d) :
        mem[d].latest[e] \in had[e] \union {setting.edge[e]}

(* A datagram that a modern daemon made for this one, with the keys that   *)
(* the two have, is taken wherever it comes from: from a new address, or   *)
(* from one at which another daemon is remembered (handle_udp_datagram,    *)
(* verify_direct_datagram_source, handle_sptps_udp_envelope).  After a     *)
(* packet the address is the one it came from.                             *)
FreshIsTaken ==
    \A g \in air : \A d \in Node :
        g.to = where[d] /\ g.form = "modern" /\ g.dst = Null /\ g.kind = "packet"
           /\ g.src # d /\ g.key = mem[d].session[g.src]
        => \A o \in HandleDatagram(d, g) : o.m.latest[g.src] = g.from

(* What a daemon is told about the size of relayed packets is no more than *)
(* what any relay on the way has found out of its own way to the sender    *)
(* (best_mtu_info_value).                                                  *)
SizesAreBounds ==
    \A d \in Node : \A i \in ToSet(mail[d]) :
        i.kind = "mtu_info" =>
            /\ i.mtu <= DefaultMtu
            /\ i.by # i.from /\ NextHop(i.by, i.from) = i.from /\ Fixed(i.by, i.from)
                  => i.mtu <= setting.fixed[i.by][i.from]

AddressesHold == AddressesAreOwn /\ FreshIsTaken /\ SizesAreBounds
=============================================================================
