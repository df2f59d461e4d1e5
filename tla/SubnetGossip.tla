---------------------------- MODULE SubnetGossip ----------------------------
(***************************************************************************)
(* How the daemons agree on who owns which subnet.  A daemon announces the *)
(* subnets of its configuration when a connection is activated, and the    *)
(* MAC addresses it learns (ADD_SUBNET) and forgets (DEL_SUBNET) as that   *)
(* happens; the others flood what is news to them, and a daemon that hears *)
(* a wrong claim about itself answers with a correction.  With             *)
(* StrictSubnets a daemon believes only its own configuration but passes   *)
(* the news on, and repeats all it ever passed on to whoever connects;     *)
(* with TunnelServer it does neither (tincd/src/state.rs).                 *)
(*                                                                         *)
(* The life of a connection is that of MetaMesh, with both ends losing it  *)
(* in one step; here only what it carries about subnets is kept.           *)
(***************************************************************************)
EXTENDS Naturals, Sequences, FiniteSets, SequencesExt

CONSTANTS
    Daemon,         \* the daemons, numbered
    Net,            \* subnets, numbered: address, prefix length and weight
    Static,         \* Static[d]: the subnets in d's own host file
    GossipSetups    \* the small VPNs to look at, each a record of
                    \*   mode      "plain", "strict" or "tunnel", per daemon
                    \*   links     the pairs of daemons that may be connected
                    \*   joined    whether they are, and have heard it all, at the start
                    \*   changes   how many MAC addresses are learned or forgotten
                    \*   faults    how many connections are cut or daemons restarted
                    \*   commands  how many purge and reload commands are given

Links == UNION {s.links : s \in GossipSetups}

Subnet == Daemon \X Net     \* a subnet with its owner

VARIABLES
    setup,      \* the setup, which does not change
    up,         \* the pairs with a connection, authenticated at both ends
    active,     \* active[l]: the ends that have activated connection l
    wire,       \* wire[l][d]: the requests on their way to d over l
    subnets,    \* subnets[d]: the subnet table of d
    forwarded,  \* strict_forwarded_topology of d
    past,       \* past[d]: past_requests
    forgotten,  \* the owners whose subnets a command dropped somewhere
    spent       \* what is used up of each bound

vars == <<setup, up, active, wire, subnets, forwarded, past, forgotten, spent>>

mode == setup.mode
Own(d) == {s \in subnets[d] : s[1] = d}
Configured(d) ==
    {s \in Subnet : s[2] \in Static[s[1]] /\ (s[1] = d \/ mode[d] # "plain")}

Spend(what) ==
    /\ spent[what] < setup[what]
    /\ spent' = [spent EXCEPT ![what] = @ + 1]

-----------------------------------------------------------------------------
(* Requests and their nonces: distinct from those that may still arrive,   *)
(* on a wire or in the memory of a strict daemon.  What can arrive nowhere *)
(* any more need not be remembered as seen.                                *)
Ack == [type |-> "ACK"]

Request(type, id, s) == [type |-> type, id |-> id, subnet |-> s]

InFlight(w, f) ==
    {m \in UNION {ToSet(w[l][d]) : l \in Links, d \in Daemon}
               \union UNION {ToSet(f[d]) : d \in Daemon} : m # Ack}

Nonce(d, n) ==
    LET used == {m.id[2] : m \in {i \in InFlight(wire, forwarded) : i.id[1] = d}}
        k == CHOOSE k \in 1 .. Cardinality(used) + n :
                k \notin used /\ Cardinality((1 .. k) \ used) = n
    IN  <<d, k>>

StillInFlight(seen) ==
    [d \in Daemon |-> seen[d] \intersect InFlight(wire', forwarded')]

Conns(d) == {l \in up : d \in l}
ActiveConns(d) == {l \in up : d \in active[l]}

(* broadcast_active_meta_message_except_id, and an answer to connection l. *)
Sent(w, d, to, msgs) ==
    [l \in Links |-> [e \in Daemon |->
        IF l \in to /\ e \in l \ {d} THEN w[l][e] \o msgs ELSE w[l][e]]]

Consumed(d, l) == [wire EXCEPT ![l][d] = Tail(@)]

-----------------------------------------------------------------------------
Init ==
    /\ setup \in GossipSetups
    /\ up = IF setup.joined THEN setup.links ELSE {}
    /\ active = [l \in Links |-> IF l \in up THEN l ELSE {}]
    /\ wire = [l \in Links |-> [d \in Daemon |-> <<>>]]
    /\ subnets = [d \in Daemon |-> {s \in Subnet : s[2] \in Static[s[1]] /\ setup.joined}
                                    \union Configured(d)]
    /\ forwarded = [d \in Daemon |-> <<>>]
    /\ past = [d \in Daemon |-> {}]
    /\ forgotten = {}
    /\ spent = [changes |-> 0, faults |-> 0, commands |-> 0]

Connect(l) ==
    /\ l \in setup.links \ up
    /\ up' = up \union {l}
    /\ wire' = [wire EXCEPT ![l] = [d \in Daemon |->
                                      IF d \in l THEN <<Ack>> ELSE <<>>]]
    /\ UNCHANGED <<setup, active, subnets, forwarded, past, forgotten, spent>>

(* existing_state_messages: a tunnel server tells only of its own subnets, *)
(* a strict daemon repeats what it passed on, under the old nonces.        *)
ExistingState(d) ==
    LET told == IF mode[d] = "tunnel" THEN Own(d) ELSE subnets[d]
        sorted == SetToSortSeq(told, LAMBDA s, t : \/ s[1] < t[1]
                                                   \/ s[1] = t[1] /\ s[2] < t[2])
        known == [i \in 1 .. Len(sorted) |->
                    Request("ADD_SUBNET", Nonce(d, i), sorted[i])]
    IN  IF mode[d] = "strict" THEN known \o forwarded[d] ELSE known

RecvAck(d, l) ==
    /\ wire[l][d] # <<>> /\ Head(wire[l][d]) = Ack
    /\ active' = [active EXCEPT ![l] = @ \union {d}]
    /\ wire' = Sent(Consumed(d, l), d, {l}, ExistingState(d))
    /\ UNCHANGED <<setup, up, subnets, forwarded, forgotten, spent>>
    /\ past' = StillInFlight(past)

-----------------------------------------------------------------------------
(* The handlers: what d makes of request m from connection l.              *)
Drop(d, l) == wire' = Consumed(d, l) /\ UNCHANGED <<subnets, forwarded>>

Answer(d, l, type, s) ==
    /\ wire' = Sent(Consumed(d, l), d, {l}, <<Request(type, Nonce(d, 1), s)>>)
    /\ UNCHANGED <<subnets, forwarded>>

(* remember_strict_forwarded_topology                                      *)
PassOn(d, l, m) ==
    /\ forwarded' = [forwarded EXCEPT ![d] =
                        IF m \in ToSet(@) THEN @ ELSE Append(@, m)]
    /\ wire' = Sent(Consumed(d, l), d, ActiveConns(d) \ {l}, <<m>>)
    /\ UNCHANGED subnets

Believe(d, l, m, table) ==
    /\ subnets' = [subnets EXCEPT ![d] = table]
    /\ wire' = Sent(Consumed(d, l), d, ActiveConns(d) \ {l}, <<m>>)
    /\ UNCHANGED forwarded

(* Mutant: a daemon believes others about its own subnets.                 *)
HandleAddSubnetBelieves(d, l, m) ==
    LET s == m.subnet
        known == m \in past[d] \/ s \in subnets[d]
    IN  \/ (known \/ mode[d] = "tunnel") /\ Drop(d, l)
        \/ ~known /\ mode[d] = "strict" /\ PassOn(d, l, m)
        \/ /\ ~known /\ mode[d] = "plain"
           /\ Believe(d, l, m, subnets[d] \union {s})

HandleAddSubnet(d, l, m) ==
    LET s == m.subnet
        known == m \in past[d] \/ s \in subnets[d]
    IN  \/ known /\ Drop(d, l)
        \/ ~known /\ s[1] = d /\ Answer(d, l, "DEL_SUBNET", s)
        \/ ~known /\ s[1] # d /\ mode[d] = "tunnel" /\ Drop(d, l)
        \/ ~known /\ s[1] # d /\ mode[d] = "strict" /\ PassOn(d, l, m)
        \/ /\ ~known /\ s[1] # d /\ mode[d] = "plain"
           /\ Believe(d, l, m, subnets[d] \union {s})

HandleDelSubnet(d, l, m) ==
    LET s == m.subnet
        peer == CHOOSE e \in l : e # d
        ignored == \/ m \in past[d]
                   \/ mode[d] = "tunnel" /\ s[1] \notin {d, peer}
        exists == s \in subnets[d]
    IN  \/ ignored /\ Drop(d, l)
        \/ ~ignored /\ ~exists /\ mode[d] = "strict" /\ PassOn(d, l, m)
        \/ ~ignored /\ ~exists /\ mode[d] # "strict" /\ Drop(d, l)
        \/ ~ignored /\ exists /\ s[1] = d /\ Answer(d, l, "ADD_SUBNET", s)
        \/ ~ignored /\ exists /\ s[1] # d /\ mode[d] = "tunnel" /\ Drop(d, l)
        \/ ~ignored /\ exists /\ s[1] # d /\ mode[d] = "strict" /\ PassOn(d, l, m)
        \/ /\ ~ignored /\ exists /\ s[1] # d /\ mode[d] = "plain"
           /\ Believe(d, l, m, subnets[d] \ {s})

(* apply_meta_step (Message): mark_seen, then the handler.                 *)
Receive(d, l) ==
    /\ wire[l][d] # <<>> /\ Head(wire[l][d]) # Ack
    /\ LET m == Head(wire[l][d])
       IN  /\ \/ m.type = "ADD_SUBNET" /\ HandleAddSubnet(d, l, m)
              \/ m.type = "DEL_SUBNET" /\ HandleDelSubnet(d, l, m)
           /\ past' = StillInFlight([past EXCEPT ![d] = @ \union {m}])
    /\ UNCHANGED <<setup, up, active, forgotten, spent>>

-----------------------------------------------------------------------------
(* A packet from the local network teaches d a MAC address                 *)
(* (EngineEvent::LearnedSubnet), which it later expires.                   *)
Announce(d, type, s) ==
    /\ wire' = Sent(wire, d, ActiveConns(d), <<Request(type, Nonce(d, 1), s)>>)
    /\ UNCHANGED forwarded
    /\ past' = StillInFlight(past)
    /\ UNCHANGED <<setup, up, active, forgotten>>

Learn(d, n) ==
    /\ <<d, n>> \notin subnets[d]
    /\ Spend("changes")
    /\ subnets' = [subnets EXCEPT ![d] = @ \union {<<d, n>>}]
    /\ Announce(d, "ADD_SUBNET", <<d, n>>)

Expire(d, n) ==
    /\ <<d, n>> \in subnets[d] /\ n \notin Static[d]
    /\ Spend("changes")
    /\ subnets' = [subnets EXCEPT ![d] = @ \ {<<d, n>>}]
    /\ Announce(d, "DEL_SUBNET", <<d, n>>)

Cut(ls) ==
    /\ up' = up \ ls
    /\ active' = [l \in Links |-> IF l \in ls THEN {} ELSE active[l]]
    /\ wire' = [l \in Links |-> IF l \in ls THEN [d \in Daemon |-> <<>>] ELSE wire[l]]

Break(l) ==
    /\ l \in up /\ Spend("faults")
    /\ Cut({l})
    /\ UNCHANGED forwarded
    /\ past' = StillInFlight(past)
    /\ UNCHANGED <<setup, subnets, forgotten>>

Restart(d) ==
    /\ Spend("faults")
    /\ Cut(Conns(d))
    /\ subnets' = [subnets EXCEPT ![d] = Configured(d)]
    /\ forwarded' = [forwarded EXCEPT ![d] = <<>>]
    /\ past' = StillInFlight([past EXCEPT ![d] = {}])
    /\ UNCHANGED <<setup, forgotten>>

Reachable(d) ==
    LET step(S) == S \union UNION {l \in up : active[l] = l /\ l \intersect S # {}}
    IN  step(step(step({d})))

(* purge_unreachable: nobody is told.                                      *)
Purge(d) ==
    LET gone == {s \in subnets[d] : s[1] \notin Reachable(d) /\ mode[d] = "plain"}
    IN  /\ gone # {} /\ Spend("commands")
        /\ subnets' = [subnets EXCEPT ![d] = @ \ gone]
        /\ forgotten' = forgotten \union {s[1] : s \in gone}
        /\ UNCHANGED <<setup, up, active, wire, forwarded, past>>

(* sync_reloaded_subnets: the subnets that the host files give replace     *)
(* d's own, what was learned is gone, and nobody is told.                  *)
Reload(d) ==
    /\ Own(d) # {s \in Configured(d) : s[1] = d}
    /\ Spend("commands")
    /\ subnets' = [subnets EXCEPT ![d] =
                      {s \in @ : s[1] # d /\ mode[d] = "plain"} \union Configured(d)]
    /\ forgotten' = forgotten \union {d}
    /\ UNCHANGED <<setup, up, active, wire, forwarded, past>>

Next ==
    \/ \E l \in Links : Connect(l) \/ Break(l)
    \/ \E d \in Daemon : Restart(d) \/ Purge(d) \/ Reload(d)
    \/ \E d \in Daemon, n \in Net : Learn(d, n) \/ Expire(d, n)
    \/ \E d \in Daemon : \E l \in Conns(d) : RecvAck(d, l) \/ Receive(d, l)

Spec == Init /\ [][Next]_vars

-----------------------------------------------------------------------------
Quiet == \A l \in Links, d \in Daemon : wire[l][d] = <<>>

(* Two daemons between which news travels: connected over daemons that are *)
(* no tunnel servers.                                                      *)
Hears(d) ==
    LET relays(S) == {e \in S : e = d \/ mode[e] # "tunnel"}
        step(S) == S \union UNION {l \in up : active[l] = l
                                              /\ l \intersect relays(S) # {}}
    IN  step(step(step({d})))

(* Once every request is read, a daemon that believes what it hears has    *)
(* exactly the true subnets of every owner it is connected to, whatever    *)
(* was added, deleted, cut off or restarted before, and whatever was lost  *)
(* on the way: the corrections of the owners repair it (AddSubnet and      *)
(* DeleteSubnet of handle_topology_relay_message).  Commands that drop     *)
(* subnets without telling anybody are excused.                            *)
SubnetsAgree ==
    Quiet => \A d \in Daemon : mode[d] = "plain" =>
                \A o \in Hears(d) \ forgotten :
                    mode[o] # "tunnel" =>
                        {s \in subnets[d] : s[1] = o} = Own(o)

=============================================================================
