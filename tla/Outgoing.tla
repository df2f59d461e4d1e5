------------------------------ MODULE Outgoing ------------------------------
(***************************************************************************)
(* How a daemon reaches the peers it is to connect to, and those that      *)
(* AutoConnect picks (tincd/src/state.rs): the addresses it knows of a     *)
(* peer are tried one after the other, a peer none of whose addresses      *)
(* answers is left alone for a time that grows, and connections the peer   *)
(* makes, lost connections, PONGs, the operator and the changing addresses *)
(* interfere.                                                              *)
(*                                                                         *)
(* Time is counted in steps of OUTGOING_CONNECT_RETRY_STEP_SECS.           *)
(***************************************************************************)
EXTENDS Integers, Sequences, SequencesExt, FiniteSets, FiniteSetsExt, Removal

CONSTANTS
    Peers,
    Addresses,      \* what the peers may listen at; Ephemeral is none of them
    Unroutable,     \* the addresses connect() refuses at once
    OutWorlds,      \* [configured, autoconnect, addresses, elsewhere, cache, places, left]
    MaxTimeout,     \* MaxTimeout, in steps
    MaxCached,      \* MAX_CACHED_ADDRESSES
    Enough          \* the connections AutoConnect keeps (3)

VARIABLES
    out,        \* the world: what is configured and known; constant but for reloads
    peer,       \* what the daemon keeps of each peer
    listening,  \* the addresses each peer answers at
    left        \* how many more moves, losses, incoming and commands there are

outVars == <<out, peer, listening, left>>

Ephemeral == 0      \* where an incoming connection seems to come from
Known == Addresses \union {Ephemeral}

(* The addresses of host files and those of the cache, which               *)
(* push_unique_socket_addr keeps apart.                                    *)
KnownAddresses ==
    /\ IsFiniteSet(Addresses) /\ MaxTimeout \in Int /\ MaxCached \in Nat \ {0}
    /\ \A w \in OutWorlds, p \in Peers :
         /\ w.addresses[p] \in Seq(Addresses) /\ Distinct(w.addresses[p])
         /\ w.cache[p] \in Seq(Known) /\ Distinct(w.cache[p])
ASSUME OutAssumption == KnownAddresses

-----------------------------------------------------------------------------
(* A meta connection that bears the peer's name: outgoing says whether it  *)
(* stands for an outgoing one (outgoing_peer), up that it is activated.    *)
Link(via, outgoing) == [via |-> via, outgoing |-> outgoing, auto |-> FALSE, up |-> FALSE]

(* OutgoingRetryState, absent when not on.                                 *)
NoRetry == [on |-> FALSE, timeout |-> 0, wait |-> 0]
Ready == [on |-> TRUE, timeout |-> 0, wait |-> 0]
MarkFailed(r) == LET t == Min({r.timeout + 1, MaxTimeout}) IN [on |-> TRUE, timeout |-> t, wait |-> t]
Outcome(r, ok) == IF ok THEN Ready ELSE MarkFailed(r)

Promote(cache, a) ==
    LET others == AllBut(cache, {a})
    IN  <<a>> \o SubSeq(others, 1, Min({Len(others), MaxCached - 1}))

(* outgoing_address_candidates_like_tinc: the cache, then what edges and   *)
(* host files say.                                                         *)
Candidates(p, s) == s.cache \o AllBut(out.addresses[p], ToSet(s.cache))

(* connect_peer: the next address that connect() accepts.                  *)
NextAddressFromStart(p, s) ==
    {k \in DOMAIN Candidates(p, s) : Candidates(p, s)[k] \notin Unroutable}
NextAddress(p, s) ==
    {k \in DOMAIN Candidates(p, s) : k > s.cursor /\ Candidates(p, s)[k] \notin Unroutable}
ConnectPeer(p, s) ==
    IF s.links # <<>> THEN [ok |-> TRUE, s |-> s]
    ELSE IF NextAddress(p, s) = {} THEN [ok |-> FALSE, s |-> [s EXCEPT !.cursor = 0]]
    ELSE LET k == Min(NextAddress(p, s))
         IN  [ok |-> TRUE,
              s |-> [s EXCEPT !.links = <<Link(Candidates(p, s)[k], TRUE)>>, !.cursor = k, !.tries = @ + 1]]

Tired(c) == IF c.ok THEN c.s ELSE [c.s EXCEPT !.tries = 0]

(* connect_configured_peers and retry_configured_peers leave the back-off  *)
(* alone when a connection is started; a close that starts the next one    *)
(* resets it (mark_outgoing_connected).                                    *)
StartConfigured(p, s) ==
    LET c == ConnectPeer(p, s)
    IN  IF c.ok THEN c.s ELSE [Tired(c) EXCEPT !.retry = MarkFailed(@)]

RestartConfigured(p, s) ==
    LET c == ConnectPeer(p, s) IN [Tired(c) EXCEPT !.retry = Outcome(@, c.ok)]

(* mark_autoconnect_connected and mark_latest_connection_autoconnect, or   *)
(* mark_autoconnect_failed.                                                *)
StartAuto(p, s) ==
    LET c == ConnectPeer(p, s)
    IN  [Tired(c) EXCEPT !.auto = Outcome(@, c.ok),
                         !.links = IF c.ok THEN [@ EXCEPT ![Len(@)].auto = TRUE] ELSE @]

(* close_meta_connection_with_report: the last connection with the peer's  *)
(* name, if it is an outgoing one, is followed at once by the next.        *)
Close(p, s, k) ==
    LET rest == [s EXCEPT !.links = RemoveAt(@, k)]
        link == s.links[k]
    IN  IF rest.links # <<>> \/ ~link.outgoing THEN rest
        ELSE IF s.retry.on THEN RestartConfigured(p, rest)
        ELSE IF link.auto /\ s.auto.on THEN StartAuto(p, rest)
        ELSE rest

(* disconnect_peer closes the connections of the peer until there is none, *)
(* those that the closing starts included: all the addresses left are      *)
(* started and closed, and the last close fails.                           *)
Disconnected(p, s) ==
    LET last == Last(s.links)
        Given(r) == MarkFailed(IF NextAddress(p, s) = {} THEN r ELSE Ready)
        closed == [s EXCEPT !.links = <<>>]
    IN  IF ~last.outgoing THEN closed
        ELSE IF s.retry.on THEN [closed EXCEPT !.cursor = 0, !.retry = Given(@)]
        ELSE IF last.auto /\ s.auto.on THEN [closed EXCEPT !.cursor = 0, !.auto = Given(@)]
        ELSE closed

(* The ACK of a connection: an older one of the peer is closed without     *)
(* notice and the new one stands for it; the address of an outgoing one is *)
(* remembered as the first to try, and the cursor starts anew.             *)
Activated(p, s, k) ==
    LET old == {j \in DOMAIN s.links : s.links[j].up}
        link == s.links[k]
        heir == [link EXCEPT !.up = TRUE,
                             !.outgoing = @ \/ \E j \in old : s.links[j].outgoing,
                             !.auto = IF \E j \in old : s.links[j].outgoing
                                      THEN \E j \in old : s.links[j].auto ELSE @]
        kept == [s EXCEPT !.links = AllBut([@ EXCEPT ![k] = heir], {s.links[j] : j \in old} \ {heir}), !.tries = 0]
    IN  IF link.outgoing THEN [kept EXCEPT !.cursor = 0, !.cache = Promote(@, link.via)] ELSE kept

-----------------------------------------------------------------------------
Set(p, s) == peer' = [peer EXCEPT ![p] = s]
UpLink(p) == {k \in DOMAIN peer[p].links : peer[p].links[k].up}
Connected(p) == UpLink(p) # {}
Spend(what) == left[what] > 0 /\ left' = [left EXCEPT ![what] = @ - 1]
Reachable(p) == Connected(p) \/ p \in out.elsewhere
ActiveEdges == Cardinality({p \in Peers : Connected(p)})

(* retry_configured_peers, in each round of the event loop.                *)
RetryPeer(p) ==
    /\ peer[p].retry.on /\ peer[p].retry.wait = 0 /\ peer[p].links = <<>>
    /\ Set(p, StartConfigured(p, peer[p]))
    /\ UNCHANGED <<out, listening, left>>

(* retry_autoconnect_outgoing_like_tinc                                    *)
RetryAuto(p) ==
    /\ out.autoconnect
    /\ peer[p].auto.on /\ peer[p].auto.wait = 0 /\ peer[p].links = <<>>
    /\ Set(p, StartAuto(p, peer[p]))
    /\ UNCHANGED <<out, listening, left>>

Tick ==
    /\ \E p \in Peers : peer[p].retry.wait > 0 \/ peer[p].auto.wait > 0
    /\ LET Later(r) == [r EXCEPT !.wait = Max({@ - 1, 0})]
       IN  peer' = [p \in Peers |-> [peer[p] EXCEPT !.retry = Later(@), !.auto = Later(@)]]
    /\ UNCHANGED <<out, listening, left>>

-----------------------------------------------------------------------------
(* do_autoconnect_like_tinc, with the node it picks at random.             *)
MakeNew(p) ==
    /\ out.autoconnect /\ ActiveEdges < Enough
    /\ peer[p].links = <<>> /\ (out.addresses[p] # <<>> \/ Reachable(p)) /\ ~peer[p].auto.on
    /\ Set(p, StartAuto(p, peer[p]))
    /\ UNCHANGED <<out, listening, left>>

Superfluous(p) == p \in out.elsewhere /\ \E k \in UpLink(p) : peer[p].links[k].auto

(* Outgoing connections still to be made are cancelled, and the node that  *)
(* was picked is dialled if it is unreachable.                             *)
Trim(now, pick) ==
    LET cancelled == [p \in Peers |-> IF now[p].links = <<>> THEN [now[p] EXCEPT !.auto = NoRetry] ELSE now[p]]
        unreached == out.addresses[pick] # <<>> /\ pick \notin out.elsewhere /\ now[pick].links = <<>>
    IN  [cancelled EXCEPT ![pick] = IF unreached THEN StartAuto(pick, @) ELSE @]

TooManyAtEnough == ActiveEdges >= Enough
TooMany == ActiveEdges > Enough
KeepEnough(pick) ==
    /\ out.autoconnect /\ ActiveEdges >= Enough
    /\ LET dropped == {p \in Peers : TooMany /\ Superfluous(p)}
           Dropped(p) == Close(p, [peer[p] EXCEPT !.auto = NoRetry], CHOOSE k \in UpLink(p) : TRUE)
       IN  IF dropped = {} THEN peer' = Trim(peer, pick)
           ELSE \E p \in dropped : peer' = Trim([peer EXCEPT ![p] = Dropped(p)], pick)
    /\ UNCHANGED <<out, listening, left>>

-----------------------------------------------------------------------------
(* What becomes of a connection.                                           *)
Answer(p, k) ==
    /\ ~peer[p].links[k].up
    /\ peer[p].links[k].via \in listening[p] \union {Ephemeral}
    /\ Set(p, Activated(p, peer[p], k))
    /\ UNCHANGED <<out, listening, left>>

(* It is refused, or nothing comes within PingTimeout.                     *)
Refused(p, k) ==
    /\ peer[p].links[k].via \notin listening[p]
    /\ ~(peer[p].links[k].via = Ephemeral /\ peer[p].links[k].up)
    /\ Set(p, Close(p, peer[p], k))
    /\ UNCHANGED <<out, listening, left>>

Lost(p, k) ==
    /\ Spend("losses")
    /\ Set(p, Close(p, peer[p], k))
    /\ UNCHANGED <<out, listening>>

(* handle_pong_address_cache_like_tinc                                     *)
Pong(p, k) ==
    LET link == peer[p].links[k]
    IN  /\ link.up /\ link.outgoing /\ peer[p].retry.on /\ peer[p].retry.timeout # 0
        /\ Set(p, [peer[p] EXCEPT !.cursor = 0, !.cache = Promote(@, link.via), !.retry = Ready])
        /\ UNCHANGED <<out, listening, left>>

(* The peer connects and sends its ID.                                     *)
Incoming(p) ==
    /\ Spend("incoming")
    /\ Set(p, [peer[p] EXCEPT !.links = Append(@, Link(Ephemeral, FALSE))])
    /\ UNCHANGED <<out, listening>>

Move(p) ==
    /\ Spend("moves")
    /\ \E where \in SUBSET out.places : where # listening[p] /\ listening' = [listening EXCEPT ![p] = where]
    /\ UNCHANGED <<out, peer>>

-----------------------------------------------------------------------------
(* retry_configured_peers_now, on SIGALRM, "tinc retry" and after a reload.*)
Fresh(s) == [s EXCEPT !.retry = IF @.on THEN Ready ELSE @, !.tries = 0]
RetriedNow(now) ==
    [p \in Peers |-> IF now[p].retry.on /\ now[p].links = <<>> THEN StartConfigured(p, Fresh(now[p])) ELSE Fresh(now[p])]

RetryNow == Spend("commands") /\ peer' = RetriedNow(peer) /\ UNCHANGED <<out, listening>>

Disconnect(p) ==
    /\ Spend("commands") /\ peer[p].links # <<>>
    /\ Set(p, [Disconnected(p, peer[p]) EXCEPT !.tries = 0])
    /\ UNCHANGED <<out, listening>>

(* A reload that adds or removes a ConnectTo: sync_outgoing_retry_state.   *)
Reload(p) ==
    /\ Spend("commands")
    /\ peer' = RetriedNow([peer EXCEPT ![p].retry = IF @.on THEN NoRetry ELSE Ready])
    /\ UNCHANGED <<out, listening>>

OutInit ==
    /\ out \in OutWorlds
    /\ listening \in [Peers -> SUBSET out.places]
    /\ \A p \in Peers : out.addresses[p] = <<>> => listening[p] = {}
    /\ peer = [p \in Peers |-> [links |-> <<>>, cursor |-> 0, cache |-> out.cache[p], tries |-> 0, auto |-> NoRetry,
                                retry |-> IF p \in out.configured THEN Ready ELSE NoRetry]]
    /\ left = out.left

OutNext ==
    \/ Tick \/ RetryNow
    \/ \E p \in Peers :
         \/ RetryPeer(p) \/ RetryAuto(p) \/ MakeNew(p) \/ KeepEnough(p)
         \/ Incoming(p) \/ Move(p) \/ Disconnect(p) \/ Reload(p)
         \/ \E k \in DOMAIN peer[p].links : Answer(p, k) \/ Refused(p, k) \/ Lost(p, k) \/ Pong(p, k)

(* The timers run in every round of the event loop, a connection that does *)
(* not answer is closed by the keepalive timer, and the picks are random.  *)
Decided(p) == \E k \in DOMAIN peer[p].links : Answer(p, k) \/ Refused(p, k)
OutFairness ==
    /\ WF_outVars(Tick)
    /\ \A p \in Peers :
         /\ WF_outVars(RetryPeer(p)) /\ WF_outVars(RetryAuto(p))
         /\ WF_outVars(MakeNew(p)) /\ WF_outVars(KeepEnough(p))
         /\ WF_outVars(Decided(p))

-----------------------------------------------------------------------------
(* Invariant: until a peer answers, a wait has passed or the operator asks, *)
(* connect_peer tries no more addresses than there are.                    *)
NoHammering == \A p \in Peers : peer[p].tries <= Cardinality(Addresses) + 1

CanReach(p) == \E a \in listening[p] : a \notin Unroutable /\ a \in ToSet(out.addresses[p])

(* A peer that is to be connected to, and that from some time on listens   *)
(* at an address the configuration tells, is connected in the end and      *)
(* stays so.                                                               *)
IsReached == \A p \in Peers : peer[p].retry.on /\ CanReach(p) => Connected(p)
ReachesPeer == <>[]IsReached

(* With AutoConnect there are in the end as many connections as wanted, or *)
(* all that can be had, and none is dropped and made again for ever.       *)
HasEnough ==
    out.autoconnect => ActiveEdges >= Min({Enough, Cardinality({p \in Peers : CanReach(p)})})
AutoconnectSettles == <>[]HasEnough

=============================================================================
