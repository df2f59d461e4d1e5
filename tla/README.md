# rusty-tinc in TLA+

rusty-tinc is a Rust implementation of the tinc 1.1 VPN daemon. Daemons form a
mesh of authenticated meta connections, flood what they know of the topology
over them, compute routes from it, agree on keys with each other and tunnel
packets. This directory holds TLA+ models of that logic, TLC configurations
that check them on small instances, and TLAPS proofs of what holds for every
instance. `PROJECT.json` lists the runs, the mutants that show that each
property can be broken, the source lines of each definition, the hazards the
properties are aimed at, and the theorems.

    tlc -workers 2 -config MCSharedState.cfg MCSharedState    # a run
    tlapm MetaMeshProofs.tla                                  # a proof

## The system

A daemon (`tincd`) is one process with a single-threaded event loop: it reads
one request from one connection, or one packet, or runs a timer, and does
everything that follows from it before it looks at the next event. So an event
is a step, and concurrency is between daemons: messages are delayed, packets
are lost or reordered, connections break, daemons crash, and each daemon acts
on what it has heard so far. The command line tool (`tinc`) shares files with
the daemon and talks to it over a control socket.

Paths are under `src/crates/`.

| Component (source) | State | Operations | What makes it correct |
|---|---|---|---|
| SPTPS replay window (`tinc-runtime/src/sptps.rs`) | expected number, bitmap of late numbers, far-future count | accept, verify | accepts each number once, loses none within the window |
| SPTPS session (same file) | state of the handshake, ephemeral keys, in, out and pending key | start, receive a record, send, force a key exchange | both ends derive the same keys; a change of keys loses no record; every exchange ends |
| Key exchange of two daemons (`tinc-runtime/src/key_exchange.rs`, `tincd/src/state.rs`) | pending session, session of the packet codec, waiting flag, time of the last request | request, answer, retry, restart, expire, forget | daemons that have keys have the same; they get keys in spite of losses |
| Meta mesh (`tincd/src/state.rs`, `tinc-core/src/{state,protocol}.rs`) | connections, activated ones, owners of edges, graph, seen requests | activate, replace, close, ADD_EDGE, DEL_EDGE and corrections | own edges match connections; afterwards all agree |
| Routes (`tinc-core/src/graph.rs`) | distance, weighted distance, next hop, via, indirect per node | `sssp_bfs` | finds what is reachable; packets arrive |
| Broadcast tree (`tinc-core/src/graph.rs`) | visited nodes, tree edges | `mst_kruskal` | spans, has no cycle, is the same everywhere |
| Subnet gossip (`tincd/src/state.rs`, `tinc-core/src/{state,subnet}.rs`) | owners of subnets | ADD_SUBNET, DEL_SUBNET, strict subnets, MAC learning and expiry, purge, reload | the owner's word wins, on every path |
| Subnet lookup and packet rewriting (`tinc-core/src/{subnet,route}.rs`) | none | lookup, fragmentation, MSS clamping, checksums | longest prefix, lightest reachable owner; a rewritten packet is a valid one |
| Packet engine, routing, broadcast (`tinc-core/src/route.rs`, `tinc-runtime/src/engine.rs`, `tincd/src/transport.rs`) | subnet tables, routes, keys, path MTUs | route, answer, relay, fragment, broadcast | arrives whole and once, or the sender is told; ends |
| UDP probes and path MTU (`tincd/src/state.rs`) | min, max and current MTU, probes sent, confirmation, timers | probe, reply, time-out, refusal by the kernel, MTU_INFO | the size becomes what the path takes; late replies do no harm |
| Peer addresses and relaying (`tincd/src/{state,transport}.rs`, `tinc-runtime/src/transport.rs`) | latest and confirmed address, address table, relay of each peer | datagram in, relay, UDP_INFO, MTU_INFO, reflexive address | looked for where it is or was; datagrams taken from wherever they come |
| Legacy replay window (`tinc-runtime/src/transport.rs`) | highest number, bitmap, far-future count | accept | each number once per key and cycle |
| Legacy keys (`tincd/src/state.rs`) | keys of each direction, validity, pending request | REQ_KEY, ANS_KEY, KEY_CHANGED, expiry | an old key is replaced; datagrams pass again and again |
| Legacy datagrams (`tinc-runtime/src/transport.rs`) | cipher, digest, compression of each direction | encode, decode, recognise a sender | what one end seals the other opens, under the current key only |
| Meta authentication (`tinc-runtime/src/{meta,legacy_meta}.rs`, `tincd/src/state.rs`) | stage, driver and options of each end, keys held of the peer | ID, METAKEY, CHALLENGE, CHAL_REPLY, ACK, upgrade | both ends agree; no fall-back; ends connect if the keys allow it |
| Meta connection streams (`tinc-runtime/src/{meta,legacy_meta}.rs`, `tincd/src/meta.rs`) | buffer, stage, decoder, announced body | read a piece | what comes out is what was written, however it is cut |
| Message text (`tinc-core/src/{protocol,subnet,utils}.rs`) | none | format, parse | what is written is read |
| Outgoing connections, autoconnect (`tincd/src/state.rs`) | addresses, time-outs, cache, who is dialled | connect, fail, retry, drop, PONG, reload, disconnect | a reachable peer is connected in the end; no hammering |
| Event loop (`tincd/src/{event_loop,server}.rs`) | edges not yet consumed, queue of events, registered interest, back-off | poll, read up to a quota, defer, sleep | what arrives is read |
| Invitations (`tincctl/src/lib.rs`, `tincd/src/{state,cli}.rs`) | invitation files and key, URLs, joins under way, host files | invite, take, join | at most one join; the joiner gets what was meant for it |
| Configuration (`tincctl/src/lib.rs`, `tinc-core/src/config.rs`, `tinc-runtime/src/config.rs`) | lines of the files, what the daemon read | get, set, add, del, edit by hand, start, reload | edits mean to the daemon what the tool says, apart from the case of letters |
| Key files (`tincctl/src/lib.rs`, `tincd/src/cli.rs`) | private key files, host file, copy at a peer, modes | init, generate-keys, fsck, sign, verify, export, import | no complaint means that the keys fit; a repair supplies what peers lack |
| Control socket and commands (`tincd/src/{server,state,transport}.rs`, `tincctl/src/lib.rs`) | conversation, dumps, subscribers with their queues | cookie, dumps, changes, log, pcap | each command gets an answer, of one moment, to its request |
| Command line parsing, starting, devices, sockets, platform, logging, UPnP | descriptors | system calls, formatting | out of a model checker's reach |

How they interact: authentication ends with an ACK from each side, which
*activates* a connection in the mesh. Activation changes the graph; every
change of the graph recomputes routes and tree. Losing sight of a daemon makes
the key exchange forget it. Records of a key exchange are messages of the mesh,
and are routed by the next hops. Packets are looked up among the subnets, sealed
by the session or legacy key that the key exchange handed to the packet codec,
kept to the path MTU, sent to the address known or over a relay, and pass the
replay window at the other end; broadcasts follow the tree. Everything a daemon
does is called by its event loop, and everything it hears on a meta connection
comes out of the stream decoder. Commands change files that the daemon reads
when it starts or reloads.

What is hard: requests about one edge or subnet that overtake each other on
different paths; simultaneous dialling; connections that close while their
successor is already active; restarted daemons that are told of what they had
before; requests for keys that cross, are lost or are answered late; changing
keys with records in flight; sequence numbers that wrap; searches that revisit
nodes; tables that differ between the hops of a packet; probes that are answered
after the path changed; peers that move to an address that belonged to another;
frames cut anywhere; readiness that is announced once; files changed by two
programs, or half-written. Each such place is listed with its line under
`hazards` in `PROJECT.json`.

## Modules

| Module | Models | Run | Proved in |
|---|---|---|---|
| `SptpsReplayWindow` | `SptpsReplayWindow` of `sptps.rs` | channels | `SptpsProofs` |
| `SptpsHandshake` | `SptpsHandshakeSession` as a value with its operations | through the next two | `SptpsProofs` |
| `SptpsStream` | two sessions at the ends of a reliable stream | channels | `SptpsProofs` |
| `SptpsKeyExchange` | two daemons' key exchange over REQ_KEY and ANS_KEY | shared_state, channels, key_exchange_* | |
| `MetaMesh` | connections, edges and flooding of a whole mesh | shared_state, delivery, mesh_retraction | `MetaMeshProofs` |
| `GraphRoutes` | `sssp_bfs` at every daemon | tables | `GraphRoutesProofs` |
| `GraphMst` | `mst_kruskal` at every daemon | delivery | `GraphMstProofs` |
| `SubnetGossip` | who owns which subnet, at every daemon | shared_state | |
| `RouteAlgorithms` | masks, lookup, fragments, MSS, checksums | tables | |
| `PacketJourney` | a packet on its way through several daemons | delivery | |
| `PathMtu` | UDP probes and path MTU discovery towards one peer | channels | |
| `PeerAddresses` | where the daemons are and whom datagrams are from | shared_state | `AddressProofs` |
| `EachOnce` | what a replay window promises (abstract) | connections | |
| `LegacyReplayWindow` | `LegacyReplayWindow` of `transport.rs`, implementing `EachOnce` | connections | `LinkProofs` |
| `LegacyKeys` | the legacy key of one direction | channels | `LinkProofs` |
| `LegacyDatagrams` | algorithms, sealing and opening of legacy datagrams | channels | `LinkProofs` |
| `MetaAuth` | both ends of a connection until it is activated | connections | `TrustProofs` |
| `MetaStream` | cutting a meta connection into frames | tables, meta_stream_split | |
| `MetaMessages` | the text of the messages | tables | |
| `Outgoing` | dialling, retries, AutoConnect | connections | `AddressProofs` |
| `Removal` | a sequence without some of its elements | connections, shared_state, tables | `BasicLemmas` |
| `EventLoop` | edge-triggered readiness and its queue | connections, event_loop_output | |
| `Invitations` | invite, the daemon's side, join | tables | `TrustProofs` |
| `ConfigFiles` | the tool's edits and the daemon's reading | tables | `TrustProofs` |
| `KeyFiles` | key files, fsck, sign, verify, export, import | tables, generated_keys | `TrustProofs` |
| `ControlTalk` | commands and subscribers on the control socket | tables | `LinkProofs` |

Modules compose by what their properties say. `SptpsStream` and
`SptpsKeyExchange` instantiate two copies of `SptpsHandshake`. `GraphMst` takes
from `GraphRoutes` what `SearchIsComplete` proves: the reachable nodes are the
component of the daemon. Both take from `MetaMesh` what `Agreement` checks:
daemons that are connected know the same edges. `PacketJourney` takes next hops,
relays and tree as `GraphRoutes` and `GraphMst` compute them, changes tables
like `SubnetGossip`, and knows sizes as `PathMtu` finds them. `LegacyReplayWindow`
implements `EachOnce` (`Once == INSTANCE EachOnce WITH ...`, `OnceOnly ==
Once!Spec`).

### SptpsReplayWindow, LegacyReplayWindow, EachOnce

`expected_seqno`, `received`, `far_future` and `late` (the set of bits that
are set) are the struct's fields; `accepted` is history. A step hands the
window any sequence number: `Accept`, `RefuseReplay` and `RefuseFarFuture` are
the three ways `check` returns. Sequence numbers are taken modulo `SeqMod`
(2^32 in the code), the cutoff saturates, the expected number wraps. The history
begins anew when the expected number wraps to 0, because from then on the same
numbers are rightly accepted again. The AEAD that authenticates a datagram
before it reaches the window is left out. The legacy window keeps the highest
number, forgets missing numbers on a far jump and starts again past
`MAX_LEGACY_SEQNO`. `EachOnce` is the promise: a set of numbers taken, each at
most once, and a count.

### SptpsHandshake, SptpsStream

A session is a record; each operation maps a session (and a record received) to
a session, its queued records, and whether it succeeded. Cryptography is
perfect: a signature is the tuple that was signed, a key is the pair of
ephemeral keys with label and direction, a record opens only with its key.
An ephemeral key with its nonce is a number that is in use nowhere else; numbers
are used again when no trace is left, which keeps the state space finite
although exchanges go on for ever. `SptpsStream` lets both ends send
application records and force exchanges at any time, also both at once.

### SptpsKeyExchange

`daemon[e]` holds what daemon `e` keeps about the other: `pending` (the session
in `SptpsKeyExchange::sessions`), `codec` (the established session, which the
packet codec owns), `waiting`, the age of `sptps_last_req_key` (`none`,
`recent`, `old`: only the comparison with SPTPS_REQ_KEY_INTERVAL matters) and
whether the other is reachable. The actions are the events that reach this code:
a packet to send (`Request`), a connection that is activated (`Activated`), a
packet that arrives without a key (`UnkeyedPacket` by UDP, `BadTcpPacket` by
TCP), `ForceKeyExchange` at KeyExpire, a message (`Receive`), `Tick`, and the
loss and return of reachability. Messages keep their order (they travel over
TCP) and may be lost when a connection on their way closes. The tie-break of
crossing requests, the restart after a bad ANS_KEY and the retry are as in the
code. `Prompt` says that a message takes less than the retry interval.

### MetaMesh

Per daemon: `conns` (meta_connections), `edge_peer` (those activated), `owner`
(local_edge_connections), `graph` (the edges it knows), `past` (past_requests).
`wire[c][d]` is the stream to `d` on connection `c`. `Connect` stands for a
successful authentication (`MetaAuth`): each end has the other's ACK on its
stream. `RecvAck` is the `Activated` event with the replacement of an
older connection and the synchronisation; `RecvAddEdge` and `RecvDelEdge` are
the handlers with corrections, relaying and the retraction of a stale reverse
edge; `EndOfFile` and `Break` close a connection; `Crash` restarts a daemon
empty. Edge data (address, port, options, weight) is one value that is equal or
different. Nonces start at random in the code and make each request distinct;
here a request gets a number that nothing in flight bears, and a daemon
remembers a request while a copy is in flight. `setup` is the configuration of
the mesh: who dials whom, who is connected at the start, who is a tunnel server.

### GraphRoutes, GraphMst

One step looks at one edge, in the order of the maps of the code. The daemons
take turns, so that the tables of all of them can be compared at the end. Every
graph of the instance is an initial state. Weighted distances are i32 and wrap
(release build).

### SubnetGossip

`subnets[d]` is the subnet table of daemon `d`, `past[d]` its seen requests,
`forwarded[d]` what it has passed on as a strict daemon and will repeat
(`strict_forwarded_topology`), `wire[l]` what is on its way over connection `l`.
Actions: connections come up and go, daemons restart, MAC addresses are learned
and expire, ADD_SUBNET and DEL_SUBNET are handled as in
`handle_topology_relay_message` with the corrections of an owner, `purge` and
reload. `forgotten` notes which owners a command made a daemon forget, which
`SubnetsAgree` excuses.

### RouteAlgorithms, MetaMessages

Pure computations: a behaviour takes one task and one step computes its outcome
by the code's algorithm; the invariants compare it with a reference (a prefix
match bit by bit, the packet that fragments reassemble to, a checksum computed
anew, the message that was written). Words, bytes and radixes are made small;
their ratios are those of the code. Numbers keep their widths and their overflow.

### PacketJourney

`world` is the VPN (routes, tables, configuration, keys, path MTUs), `net` the
bag of packets under way with where they are, `devices[d]` what was written to
the device of `d`. `PollDevice` brings the packet in, `Arrive` is everything one
daemon does with one packet: `route_packet_action`, the engine that carries the
decision out, the choice of UDP, TCP or relay. `UpdateTable` brings a table up
to date meanwhile. The worlds are eight families, each varying one part of a
base: configuration, sizes, protocols and keys, unreachable nodes, switch and
hub mode, forwarding by the kernel, other packets, stale tables.

### PathMtu

`node` is what the daemon keeps of the peer (smallest, largest and current MTU,
probes sent, confirmation, address), `timer` and `guess` are its time-out and its
counter of guesses, `path` is the true path, `net` the datagrams on their way. `TryUdp` and `TryMtuForPeer` send probes, `ArriveAtPeer`
answers, `ReceiveReply` is `apply_udp_probe_reply`, `ExpireUdpProbeTimeout` the
time-out; the kernel refuses (EMSGSIZE), relays tell sizes (MTU_INFO), the peer
sends of its own accord, and the path changes.

### PeerAddresses

`mem[d]` is what daemon `d` remembers: latest and confirmed addresses, the
`NodeAddressTable`, keys; `where` and `had` are the truth. Datagrams (`air`) are
recognised by their relay header or their source address, or by trying the keys
of everybody; UDP_INFO, MTU_INFO, requests for keys and answers with the address
that relays add travel as `mail`.

### LegacyKeys, LegacyDatagrams

`LegacyKeys` follows one direction: a key is current or old, requests travel in
order over one of two routes, the route switches, the daemons lose sight of each
other, timers fire early. `LegacyDatagrams` derives the algorithms at both ends
from what a receiver is configured with or another program answers, seals and
opens datagrams with keys that may have been replaced meanwhile.

### MetaAuth

`conn[i][d]` is the end at `d` of the connection that `i` opens: its state in
the code's enumeration, the driver (modern, legacy, bypass), the negotiated
minor version, weight and options. `knows[d]` is the Ed25519 key of `d` as the
other holds it: right, wrong or none; the upgrade makes it right. `Receive` is
the handler for the next message of the stream, with the keys it learns and the
connection it closes; `GiveUp` and `Break` are a time-out and a cut.

### MetaStream

A stream is a script of units (answer of a proxy, line, record, body); a byte is
its unit and its place. `Read` takes any of `ReadSizes` bytes, `Decode` is the
loop that cuts frames off the buffer, with the stages of the code: proxy
conversation, ID line, then lines, SPTPS records or announced bodies.

### Outgoing, EventLoop

`peer[p]` in `Outgoing` holds the addresses left to try, the time-out, the cache
and the connections of each peer, and what AutoConnect wants of it; time is
counted in steps of the back-off.
`EventLoop` keeps for each descriptor what waits (`waiting`), which edges the
kernel has yet to report (`edges`), what is registered, the queue of events
(`ready`) and the quota of the round.

### Invitations, ConfigFiles, KeyFiles, ControlTalk

Directories are sequences of lines with the few forms that programs tell apart.
Each command is one action, or one per write where a cut between two writes
matters. In `ControlTalk` the daemon talks to one command at a time while its
loop waits; subscribers' queues are written by the loop.

## Runs

TLC takes one specification per run, so related small systems share a run: the
variable `system` chooses one of them in the first state, and the variables of
the others stay as they are. The `MC*` modules extend the modules about which
theorems are proved, so that a run checks the very definition that a theorem
states, and TLC evaluates the assumptions of the proofs; the systems not chosen
rest in a state for which these properties hold. Modules without
theorems are instantiated, and their properties are stated for the states of
their system. All bounds are constants of the cfg files or of the instances.

**`shared_state`** (`MCSharedState`): what several daemons keep in common.

| System | Instance | Properties |
|---|---|---|
| mesh | a line of three with one more connection between any two (a cycle, or a duplicate), a line of four with a tunnel server, two daemons that dial each other three times; a cut at any moment | `OwnEdgesMatchConnections`, `OneActiveConnection`, `PhantomsVanish` (nobody reaches who is gone), `TunnelIsolation` |
| keys | two daemons that both send; nothing is begun while a message is under way to the other, two messages are lost, reachability is lost once | `KeysAgree` |
| subnets | a line of three whose middle is plain (two changes), strict or a tunnel server (one change), and a ring (two changes); a cut or restart, a command | `SubnetsAgree` |
| addresses | a line of three, the middle with a fixed place; keys, static relays, legacy, TCPOnly, moves to a place the other has left, restarts, time-outs: seven settings | `AddressesHold`: addresses are, or were, those of the daemon; an authenticated datagram is taken from wherever it comes; told sizes are bounds |

**`tables`** (`MCTables`): what one program computes, reads and writes.

| System | Instance | Properties |
|---|---|---|
| routes | all graphs of four nodes with two weights, all one-way graphs of three, squares with indirect edges whose weights overflow | `ViaIsDirect`, `PacketsArrive`, `RoutesAreBest` (the last two for graphs without indirect edges, the last without overflow) |
| algorithms | addresses of two bytes of two bits, packets and options around the boundaries | `PacketsAreComputedRight` |
| stream | up to three items of every kind after every start, proxies, all cuts into reads of 1 to 16 bytes | `FramesComeOut` |
| invitations | two joiners, two names, a script that adds lines in one setting, reloads, restarts, expiry, a cut between any two steps | `InvitationsHold`: no invitation is used twice, who joined is known with its key, the configuration is the one meant for it |
| config | three edits by command or hand, values that differ only in the case of letters, reloads, unreadable keys | `ConfigurationHolds`: an edit is read as the tool says, where the tool takes values that differ only in case for the same; a reload takes all or nothing |
| keys | four commands, one interrupted, two changes by hand | `FsckIsHonest`: when fsck complains of nothing the keys fit; `--force` supplies the public keys that peers lack and leaves them those they read |
| messages | numbers at both ends of their widths, optional parts, lines wrong in one word or in length | `WrittenIsRead` |
| control | two clients, one that reports (all but `dump connections`) and one that changes or subscribes; killed clients | `ConversationsFit`: reports are of one moment, subscribers read whole frames in order |

**`delivery`** (`MCDelivery`): how packets find every daemon.

| System | Instance | Properties |
|---|---|---|
| trees | all graphs of four nodes, disconnected ones too, and all one-way graphs of three | `TreeSpans`, `TreesAgree` |
| mesh | three daemons, a crash, and a last connection whose edge data differs, so that stale and new data of one edge are in flight together | `Agreement`, `FloodEnds` |
| journey | a line of four, eight families of worlds | `ArrivesOrIsAnswered`, `BroadcastOnce`, `JourneyEnds` |

**`channels`** (`MCChannels`): what one pair of daemons keeps.

| System | Instance | Properties |
|---|---|---|
| window | 4 slots and 11 numbers: the bitmap is reused, jumped over, filled by a far jump, and the numbers wrap; 4 bytes is the shortest window with a far-future limit above 0 | `NoReplay`, `LateStillAccepted` |
| stream | exchanges forced any number of times by either end, up to three records queued per direction, more than an exchange queues at once | `NothingRefused`, `ExchangeEnds` |
| exchange | one lost message and one loss of reachability | `KeysAreFound` |
| keys | two switches of route, a break, two early timers | `OldKeysAreReplaced`, `DatagramsPass` |
| datagrams | twelve configurations, odd answers of other programs, a sender without LZO | `DatagramsFit`: a datagram under the key both have is opened, one under an older key is not, own answers are taken |
| mtu | sizes 2 to 7; four paths (the kernel knows, the peer is elsewhere, nothing passes), a change of path, a late reply, an MTU_INFO | `MtuSettles` |

**`connections`** (`MCConnections`): how connections come about and are kept.

| System | Instance | Properties |
|---|---|---|
| window | 4 slots, numbers up to 15 with the limit at 10 | `OnceOnly`: the refinement of `EachOnce` |
| loop | a descriptor of each kind, batches of 2, rounds of 2, four arrivals, two errors | `EverythingIsRead` |
| dials | a peer with three addresses of which one is unroutable; AutoConnect among two peers; moves, losses, commands | `NoHammering`, `DialsSettle` |
| auth | every mix of protocols, and of keys that are there, missing or wrong, options that agree or, where no key is wrong, differ, one or both dial, a cut | `EndsAgree`, `NoRollback`, `ConnectsIfItCan` |

Seven more runs expect a violation: see the findings.

Why the bounds are enough: three daemons are the fewest with which hearsay
(a request about a third party) exists, a third connection is the first that
closes a cycle or duplicates one, and one cut is enough to have ADD_EDGE and
DEL_EDGE of one edge, or ADD_SUBNET and DEL_SUBNET of one subnet, in flight on
two paths. Four nodes are the fewest with two different two-hop paths to one
node, and a packet over four daemons passes one that neither sends nor receives
and is not next to the sender. In the key exchange `MaxWire` only limits when a
daemon *begins* something; answers are always sent. Numbers, buffers and sizes
are small, but each boundary of the code (windows, quotas, maxima, widths) lies
within them. What TLAPS proves does not depend on any bound.

Deadlock is not checked, because these systems rightly stop: a settled mesh,
a finished search, a packet that arrived, commands that are done. Liveness
properties say what has to have happened by then.

### Fairness

- `MetaMesh`: weak fairness of each daemon's `Process`: the event loop polls its
  connections, so a daemon with something to read reads. Nobody has to connect,
  cut or crash.
- `SptpsStream`: weak fairness of `Receive`: a TCP stream delivers. Nobody has to
  send or to force an exchange.
- `SptpsKeyExchange`: weak fairness of `Receive` (messages that are not lost
  arrive), `Tick` (time passes), `BecomesReachable` (connections are retried),
  and of `Request` and `BadTcpPacket` for the daemons in `Senders`: a daemon with
  packets to send keeps having them. Forced exchanges and activations need not
  happen.
- `LegacyKeys`: weak fairness of receiving, of the sender having packets and
  asking again; strong fairness of the receiver's key expiry, a timer that fires
  as long as the daemon runs.
- `PathMtu`: strong fairness of the probes and of the time-out, which are timers;
  weak fairness of arrivals that are not lost, of the peer's own traffic and of
  the return of reachability. The path changes, and answers are late, only so
  often.
- `EventLoop`: weak fairness of the loop's own steps and of time.
- `Outgoing`: weak fairness of time, retries, AutoConnect and of the decision of
  an attempt (it succeeds or fails). Addresses need not become reachable.
- `MetaAuth`: weak fairness of receiving, of finishing a close, and of dialling
  again, which `Outgoing` checks.
- `PacketJourney`: weak fairness of reading the device and of arrivals; and of
  the table updates only where hops are not counted, since without DecrementTTL
  nothing else ends a loop among stale tables.

`KeysAreFound` has packets of the first daemon only, which may arrive by
TCP. With packets of both, retries of the two can stay in step for ever, each
cancelling the other's session; a UDP packet that reaches a daemon which is
already waiting causes no new request, only a TCP one does.

## Findings

- **A reverse edge retracted during activation** (`mesh_retraction`,
  `state.rs:5162`). A DEL_EDGE that cuts a peer off makes the daemon delete, in
  the peer's name, the edge from that peer to itself, even though a new
  connection to it is being activated. The peer's edge stays unknown although
  both ends have activated the connection.
- **A forced key exchange never ends** (`key_exchange_rekey`, `state.rs:4104`).
  At KeyExpire the KEX is sent as ANS_KEY, but the receiver looks for the
  session among the pending ones, and it belongs to the codec by then.
- **A request that is never answered** (`key_exchange_ignored`,
  `key_exchange.rs:171`). The daemon with the smaller name whose own REQ_KEY was
  lost ignores every request of the other, and each one it ignores renews the
  time of its own last request.
- **Different keys for good** (`key_exchange_slow`, `state.rs:6049`). When
  messages take longer than the retry interval, a restart after a bad ANS_KEY
  leaves the old session in one codec and the new one in the other.
- **A packet on a meta connection that TCP splits** (`meta_stream_split`,
  `tinc-runtime/src/meta.rs:335`). After an announcement of a body the code first
  looks for a line or record, and for the body only when all of it is there.
- **Keys generated twice** (`generated_keys`, `tincctl/src/lib.rs:6020`). New
  keys are appended to both files, and readers take the first of each; the
  private key and the public key that are read may not belong together.
- **Output that waits for a readiness that was used up** (`event_loop_output`,
  `tincd/src/event_loop.rs:147`). The registration of a descriptor is renewed
  only when its interest changed since the last round.

### Observations

Met while modelling, and not counted as findings, since no text of the
repository says otherwise.

- *Mesh and routes.* With indirect edges the next hops of different daemons need
  not lead anywhere on their own, so `PacketsArrive` is stated without them;
  edges of which only one direction is known may stay in a graph, where no route
  uses them; tunnel servers keep edges of daemons that are gone, because
  deletions do not reach past them; two daemons that dial each other at the same
  time may each close the other's connection and have to dial again.
- *Subnets.* `purge` and reload change subnets without telling anybody; with
  connections of which one end is activated, or a restart, a ring can keep a
  stale subnet; `strict_forwarded_topology` grows without bound; a purge runs
  subnet-down twice.
- *Packets.* ICMP errors are answered with ICMP errors, without a rate limit;
  packets loop among stale tables unless DecrementTTL is set; forwarding by the
  kernel stops broadcasts at the neighbours; errors of engine and transport end
  the daemon; a packet is lost while keys are requested for it.
- *Path MTU.* After a refusal by the kernel `minmtu > maxmtu` may stay, which
  `MtuFits` excuses. The reply of a modern peer confirms whatever address is the
  latest, so a peer whose UDP address changed is confirmed at the old one and
  data is lost until it sends a packet itself; a relay that moved and sends
  nothing of its own has its relayed datagrams dropped for ever.
- *Addresses.* `forward_sptps_relay_record` (`state.rs:2638`) sends to the
  address of the `NodeAddressTable`, not to the latest UDP address, so relayed
  datagrams to a neighbour whose UDP port differs from the announced one are
  lost although UDP to it is confirmed, and a static relay that is neither a
  neighbour nor configured is never reached. A legacy peer at an address that
  the table attributes to another is dropped. MTU_INFO after relayed UDP goes to
  the relay. The address in an ANS_KEY overrides a confirmed one. A mix of
  router and switch mode drops all packets.
- *Legacy datagrams.* Past `MAX_LEGACY_SEQNO` every accepted packet resets the
  window. The configuration accepts OpenSSL ciphers and digests that
  `from_legacy_answer_key` refuses, and LZO in a build without it, so that
  making a key fails. With MACLength 0 any datagram verifies, without a digest
  noise may be accepted and its number taken; the number is taken before
  decompression.
- *Authentication.* A daemon with ExperimentalProtocol off always refuses an
  initiator that lacks its Ed25519 key; an upgrade cut half-way leaves only one
  end able to connect.
- *Streams and messages.* A partial legacy line and a full read overflow the
  buffer. An ID without minor number is read back as 0; PACKET lengths above
  i16::MAX are refused; a lone local address is an error for ADD_EDGE and
  ANS_KEY while an unreadable extension of REQ_KEY counts as none.
- *Outgoing.* With two addresses or more the back-off never exceeds one step; a
  PONG puts an ephemeral address into the cache; `disconnect` walks all
  addresses.
- *Event loop.* A control conversation blocks the loop; an error of accept or of
  the first read of a device uses up the edge; a busy meta connection is read
  until it would block; an error of UDP recv ends the daemon.
- *Files.* `invite` replaces the key without telling the daemon; a join into an
  existing directory fails after the invitation was used; a cut join cannot be
  repeated; `.used` files are never removed. Tool and daemon read indented
  lines differently; one unparsable host file fails a whole reload; a bad
  invitation key leaves the main loop with the old configuration. fsck cannot
  read an RSA file with two keys and misses keys in a host file without lines;
  `verify` reads only the line. `fsck --force` appends a public key to the host
  file: that mends one that is missing, but one that does not match stays in
  front of it, where peers, and the next fsck, go on reading it
  (`tincctl/src/lib.rs:1587`, `tincd/src/cli.rs:547` and 672). The tool compares
  values without regard to case (`tincctl/src/lib.rs:6538`, 6564), while for the
  daemon names of nodes differ in case: beside `ConnectTo = Alpha` the command
  `add ConnectTo alpha` adds nothing, and `del ConnectTo alpha` removes `Alpha`.
- *Control.* Any error in a conversation, and a reload by SIGHUP that fails,
  ends the daemon; `tinc top` keeps its connection open, so that the loop is
  frozen; the queue of a slow log or pcap subscriber grows without bound;
  `tinc connect` takes the daemon's "18 -1" for an error; an undirected `dump
  graph` draws only edges with from > to.

## Proofs

Theorems hold for every value of the constants that the modules' assumptions
allow: any number of daemons, nodes, addresses, connections, keys, messages on
their way, cuts and losses; the bounds of the runs do not enter. TLC evaluates
the assumptions on the instances.

- `SptpsProofs`, two results. `NeverReplayed`, `NeverLost`, `ReceivedIsExact`.
  The invariant `WindowInvariant` is `TypeOK /\ WindowExact`: of the remembered
  numbers exactly those not accepted have their bit set. `NoReplay` alone is not
  inductive, because it says nothing of the bits that a later jump will reuse.
  The heart is that two numbers less than a window apart have different slots
  (`SlotsDiffer`). Assumed: the window is shorter than the number space.
  `StreamRefusesNothing` (`NothingRefused`), `StreamSettles`, `StreamTypes`. The invariant `StreamInv` says that the two
  sessions and the handshake records between them are in one of twelve phases
  (up to exchanging the ends), in which the keys follow from the ephemeral keys,
  and that application records lie anywhere between the handshake records,
  sealed with the key in use at that place. The proof computes once what each
  operation makes of a session given by its fields (`Of`), then shows for each
  phase what the end that reads, or forces an exchange, leads to. It needs
  nothing of `Fresh`: ephemeral keys may even collide. Assumed: there are two.
- `LinkProofs`, three results on legacy links and one on the control socket.
  `LegacyImplementsEachOnce` is the refinement that TLC checks as `OnceOnly`,
  for every window that is not turned off. Every step is a `Take`, a
  `StartAgain` or a stutter of `EachOnce`. A `Take` needs that the number was
  not taken before; that needs an invariant of the bits (`BitsAreMissingNumbers`:
  a number that was taken has no bit, or lies below the window) with bounds of
  the numbers and the equality of the counts. Assumed: window and limit together
  stay below the number space, so that the sums of the code do not wrap.
  `KeysAreReplaced` (`OldKeysAreReplaced`): as long as the route is the same, an
  old answer on its way is never the last one, because what made it old was
  another answer on the same route; so a sender with an old key has the current
  one, or a KEY_CHANGED, coming.
  `LegacyDatagramsFit` (`DatagramsFit`): the answer on its way, the sender's
  direction and the datagram belong to the receiver's key one after the other,
  and under that key the numbers accepted never exceed those sent, where a digest
  is checked. Assumed: configurations and answers are numbers and names.
  `ConversationsAlwaysFit` (`ConversationsFit`), for any number of commands that
  come and die, any subscribers, buffers and sizes. `TalkInv` says, for each
  client alone, what follows from how far it has come. A command that reports
  has read, has coming, and has still asked for its requests one after the
  other, and every answer is that of the moment it was accepted (`ReportFits`):
  the view does not change while the daemon talks to it, and nobody else is
  answered. For a subscriber the parts in the socket, together with those of the
  queue from the offset on, are the frames due that it has not read, from the
  start of the next frame to the end of the last (`InParts`, `AllQueued`),
  however the socket divides them; this is what `CompactOutbound` must leave
  alone. A graph or a node that is shown then fits because only nodes that edges
  lead to and from are reached (`ReachableIs`). Assumed: nodes, levels and sizes
  are numbers, no client is the 0 that stands for none (`TalkAssumption`).
- `MetaMeshProofs`: `OwnEdgesAlwaysMatch`, `AlwaysOneActiveConnection`,
  `TunnelServersIsolate` (`TunnelIsolation`), for any setups, cuts and crashes.
  `OwnEdgesMatchConnections` needs `OneActiveConnection` (else
  closing one of two would take the other's edge), and both need that a
  connection of a daemon really leads from it to another one. That invariant says
  nothing of the wire: the proof shows that only a daemon's own connections can
  change its own edges. `TunnelIsolation` does need the wire: every request on a
  connection of a daemon whose peers are all tunnel servers is about an edge of
  that daemon.
- `GraphRoutesProofs`: `SearchIsComplete`, `NextHopAlwaysNeighbour`,
  `ViaAlwaysDirect`, for every graph and every integer width. The invariant
  adds that a link out of the visited nodes is visited, queued or still to be
  followed (`Explored`), which gives completeness when the queue is empty.
  `PacketsAlwaysArrive` (`PacketsArrive`) compares the tables of different
  daemons: without indirect edges a search goes level by level and its distances
  are those of the graph, so that a next hop is one nearer to the destination in
  its own table too; this holds however weights wrap. `RoutesAlwaysBest`
  (`RoutesAreBest`) adds that the weight of a node is that of a path of so many
  links and that no link followed would make it lighter, and needs that no
  weight wraps.
- `GraphMstProofs`: `TreeAlwaysSpans`, `TreeNeverHasCycle`, for every graph. The
  invariant adds that edges passed since the last restart lead nowhere new
  (`PassedRejected`), and that while none was skipped all of them are inside
  the tree (`PassedTaken`): that is why taking an edge needs no restart unless
  one was skipped. `TreesAlwaysAgree` (`TreesAgree`): an edge is in a finished
  tree exactly when the edges before it in the order of the code do not join its
  ends already, and that does not depend on where the tree begins.
- `TrustProofs`, four results on how daemons come to trust a key, and on the files
  they read.
  `ConnectionsAgree` (`EndsAgree`) and `KeyHoldersDoNotRollBack` (the action
  property `NoRollback`), from `AuthInvariant`. The invariant
  looks at one connection from one side at a time (`SideOK`): what an end knows
  by itself (`EndOK`), what its peer can have sent and is still on its way
  (`Said`), and what the end can conclude about the driver of its peer from what
  it has read (`PairOK`). The message that follows the ID tells the driver of
  the peer; and an end that skips all checks cannot get past a message that only
  the others send. Assumed: two daemons, and weights that are integers.
  `FsckAlwaysHonest` (`FsckIsHonest`), whatever the files hold and whoever
  changed them. When fsck has nothing to complain of, the daemon and the commands
  read a private and a public key that belong together (`NothingToSay`). After
  `--force` a peer reads of each kind the key it read before, and if it read
  none, the one of the private key, where fsck can read that (`FsckRepairs`). So a
  repair mends keys that are missing; of keys that do not match it says nothing
  more than that they stay. Both depend on the one step in which fsck runs, not
  on how the files came to be, so that the invariant only says what may be in
  them (`KeyTypes`); the work is in what is found first in a host file to which
  keys are appended (`FirstKeyOfLonger`).
  `InvitationsAlwaysHold` (`InvitationsHold`), for any number of invitations,
  joiners and interruptions. None of its three parts is inductive. `InviteInv`
  adds that a cookie belongs to one file and to none that was sent before
  (`CookiesHold`); that the data, the key and the end of a conversation that are
  on their way on a connection are about the name the daemon has for it, which is
  the name in what the joiner reads and writes (`JoinFits`); and that a host file
  has the key of a joiner that has the name of the host in its configuration
  (`HostsHaveJoiners`), which nothing changes any more once it is written. That the
  configuration fits is computed from the body of the invitation: its first
  part ends at the first separator, which the inviter's own lines do not contain.
  Assumed: that (`SettingsAssumption`), and that no joiner is the 0 that stands
  for a missing key.
  `ConfigurationAlwaysHolds` (`ConfigurationHolds`), for any files, commands and
  changes by hand. Each line of an edited file was one of the file before, or is
  the new entry in the place of a line of its variable or at the end (`Edited`);
  then lines of keys stay where they were among the others (`KeysStay`), so that
  no line gets into a key or out of it. What `add` and `del` say is stated as the
  tool compares values, without regard to case (`SameWord`): `add` adds a value
  unless one that differs only in case is read already, and `del` removes all
  such values, although for the daemon they may be different nodes. For reloads the invariant adds that a
  daemon could have started with what the files are now, if they load
  (`ConfigInv`). Which values the daemon takes from several files (`Tree`,
  `Reading`) is not looked into. Assumed: files are sequences of lines, a line
  without a value has none, and a value in small letters is one
  (`ConfigAssumption`).
- `AddressProofs`, two results. `TriesAreBounded` (`NoHammering`). The invariant `DialIInv`:
  tries never exceed the cursor, the cursor never the number of candidates, the
  candidates repeat no address, and a peer with an activated connection has no
  tries. The bound is the number of addresses and one more, because the ephemeral
  address of an incoming connection may get into the cache. Assumed: `push_unique_socket_addr` keeps addresses apart.
  `AddressesAlwaysHold` (`AddressesHold`): `AddressIInv` follows an address
  through everything that carries it. A datagram for the daemon that gets it was
  sent by its maker from an address of its own (`GoodAir`); an answer for a key
  carries an address of its source or none, and a UDP_INFO one of the daemon it
  is about, or it goes to a neighbour of that daemon, which learns nothing from
  it (`GoodLetter`). Neither holds without what is said of the routes, sessions
  and keys: no daemon asks itself for a key, relays to itself or has a key that
  is 0. One lemma per handler shows that what it leads to is good (`Deeds`).
  Assumed of the routes, as `GraphRoutes` computes them: next hops are
  neighbours, and a neighbour that is its own next hop is relayed to by itself or
  not at all; that a found MTU is no more than the default.

The library's induction theorems take an operator as a parameter, which the
provers cannot instantiate. Where a proof needs induction it takes the least
number, or a smallest set, that violates the claim, by well-foundedness
(`LeastNat` in `BasicLemmas`, the shortest paths of `GraphRoutesProofs`);
recursive functions (`Hops`, `Weights`, `AllBut`) are handled by first proving
that a function with the recursive equation exists.

Only model-checked: all liveness, which these provers do not reach; `Agreement`,
`PhantomsVanish` and `SubnetsAgree`, which speak of what is in flight everywhere;
`KeysAgree`; the journey of a packet; `PacketsAreComputedRight`, `FramesComeOut`
and `WrittenIsRead`, which compare recursive computations on data (induction over
data); every module of the table above without an entry in its
last column.

## Not modelled

- Parsing of arguments, the shell, starting and daemonising, and the drawing of
  `top`: text, whose wrong outcome a test shows at once.
- Devices, sockets, platform code, logging, UPnP: system calls and their
  arguments. What they return, late, short or as an error, is nondeterministic
  input of `EventLoop`, `MetaStream`, `PathMtu` and `ControlTalk`.
- Cryptography, taken as perfect; the layout of packets beyond what fragments,
  MSS and checksums need; the meaning of single configuration variables.
- Within modelled components: SPTPS_PACKET requests of very old peers and
  REQ_PUBKEY; the ageing of seen requests (a copy that arrives after it is applied
  again); probes by broadcast on the local network; the finding of the control
  socket.

## Plan

1. Proofs: `KeysAgree` of `SptpsKeyExchange` for `Prompt`, `PhantomsVanish` of
   `MetaMesh`, `BroadcastOnce` of `PacketJourney`. Their `MC*`
   modules then extend these modules as the others do.
2. A refinement: `MetaAuth` implements the `Connect` of `MetaMesh`.
3. The ageing of seen requests in `MetaMesh`; `conns` as objects with the
   keepalive of `connection.rs`.
4. The meaning of the configuration variables that several components read.
