----------------------------- MODULE EventLoop ------------------------------
(***************************************************************************)
(* The event loop of a daemon (tincd/src/event_loop.rs, server.rs), which  *)
(* gets each change of a file descriptor from the kernel only once: what   *)
(* it leaves unread it must remember.  A topology back-off, during which   *)
(* no meta connection is read, and errors of the device and of accept()    *)
(* come in between.                                                        *)
(***************************************************************************)
EXTENDS Integers, Sequences, SequencesExt, FiniteSets, FiniteSetsExt

CONSTANTS
    Fds,            \* the descriptors that may be there
    Kind,           \* [Fds -> "listen", "udp", "meta", "device", "signals"]
    Batch,          \* UDP_DATAGRAMS_PER_READY (64)
    MaxPerLoop,     \* MAX_EVENTS_PER_LOOP (32)
    Cap,            \* how much may wait at a descriptor
    BackoffMax,     \* TOPOLOGY_BACKOFF_MAX, where TOPOLOGY_BACKOFF_MIN is 1
    ErrorLimit,     \* DEVICE_READ_ERROR_LIMIT (10)
    MaxArrivals, MaxNoise, MaxErrors

VARIABLES
    phase,          \* "timers", "poll", "handle" or "ended"
    waiting,        \* what there is to read at each descriptor
    output,         \* the meta connections with output that waits
    room,           \* those whose socket takes output
    open,           \* the descriptors that are open
    edges,          \* the kernel's queue of what changed, a set
    registered,     \* the interest each descriptor is registered with
    allowed,        \* the interests of this round (RuntimePollFdSet)
    ready,          \* the queue of events to handle
    quota,          \* how many are to be handled in this round
    backoff,        \* RuntimeTopologyBackoff
    device,         \* [errors, left]: the reads that failed, the pause after it
    stalled,        \* the descriptors an error of accept or read left unread
    left            \* how many arrivals, contradictions, errors there will be

loopVars == <<phase, waiting, output, room, open, edges, registered, allowed, ready, quota,
              backoff, device, stalled, left>>
world == <<waiting, output, room, open>>

Readable(f) == <<f, "r">>
Writable(f) == <<f, "w">>
Of(kind) == {f \in Fds : Kind[f] = kind}
Sleeping == backoff.left > 0

(* What the kernel has to say of a descriptor now.                         *)
Condition(f) == {Readable(f) : n \in {k \in {waiting[f]} : k > 0}} \union {Writable(f) : g \in {f} \cap room}
Interested(f, interest) == {e \in Condition(f) : e[2] \in interest}

-----------------------------------------------------------------------------
(* insert_runtime_fds                                                      *)
Interest(f) ==
    IF f \notin open THEN {}
    ELSE CASE Kind[f] = "meta" -> (IF f \in output THEN {"w"} ELSE {}) \union (IF Sleeping THEN {} ELSE {"r"})
           [] Kind[f] = "device" -> IF device.left > 0 THEN {} ELSE {"r"}
           [] OTHER -> {"r"}

(* push_ready: an event is queued once.                                    *)
Queue(q, events) == q \o SetToSeq(events \ ToSet(q))

(* sync_registry: a changed registration is queued as if it were ready,    *)
(* and the kernel looks at the descriptor anew.                            *)
Changed == {f \in Fds : Interest(f) # registered[f]}
Initially(f) == {<<f, what>> : what \in Interest(f)}
SyncRegistry ==
    /\ registered' = [f \in Fds |-> Interest(f)]
    /\ allowed' = UNION {Initially(f) : f \in Fds}
    /\ ready' = Queue(ready, UNION {Initially(f) : f \in Changed})
    /\ edges' = {e \in edges : e[1] \notin Changed} \union UNION {Interested(f, Interest(f)) : f \in Changed}

(* RuntimeTopologyBackoff::apply_periodic_check.                           *)
NoNoise(b) == [b EXCEPT !.noise = 0]
PeriodicKeepsNoise(b) ==
    IF b.left > 0 THEN b
    ELSE IF b.noise > 1 THEN [b EXCEPT !.left = b.delay, !.delay = Min({2 * b.delay, BackoffMax})]
    ELSE [noise |-> 0, left |-> 0, delay |-> Max({b.delay \div 2, 1})]
Periodic(b) ==
    IF b.left > 0 THEN NoNoise(b)
    ELSE IF b.noise > 1 THEN [noise |-> 0, left |-> b.delay, delay |-> Min({2 * b.delay, BackoffMax})]
    ELSE [noise |-> 0, left |-> 0, delay |-> Max({b.delay \div 2, 1})]

(* The timers of a round, the periodic check among them when it is due;    *)
(* then what to poll for.                                                  *)
Timers ==
    /\ phase = "timers" /\ phase' = "sync"
    /\ backoff' \in {backoff, Periodic(backoff)}
    /\ UNCHANGED <<world, edges, registered, allowed, ready, quota, device, stalled, left>>

Sync ==
    /\ phase = "sync" /\ phase' = "poll"
    /\ SyncRegistry
    /\ UNCHANGED <<world, quota, backoff, device, stalled, left>>

(* The kernel hands over what changed, or nothing before the next timer.   *)
Poll ==
    /\ phase = "poll" /\ phase' = "handle"
    /\ \E taken \in SUBSET edges :
        /\ Cardinality(taken) = Min({MaxPerLoop, Cardinality(edges)})
        /\ edges' = edges \ taken
        /\ ready' = Queue(ready, taken)
        /\ quota' = Min({MaxPerLoop, Len(ready')})
    /\ UNCHANGED <<world, registered, allowed, backoff, device, stalled, left>>

-----------------------------------------------------------------------------
Event == Head(ready)
Rest == Tail(ready)
Handles(kind, what) == phase = "handle" /\ quota > 0 /\ ready # <<>> /\ Event \in allowed
                       /\ Kind[Event[1]] = kind /\ Event[2] = what
Read(f, n) == waiting' = [waiting EXCEPT ![f] = @ - n]
Done == quota' = quota - 1 /\ UNCHANGED <<phase, edges, registered, allowed>>

Skip ==
    /\ phase = "handle" /\ quota > 0 /\ ready # <<>> /\ Event \notin allowed
    /\ ready' = Rest
    /\ UNCHANGED <<phase, world, edges, registered, allowed, quota, backoff, device, stalled, left>>

EndRound ==
    /\ phase = "handle" /\ (quota = 0 \/ ready = <<>>)
    /\ phase' = "timers"
    /\ UNCHANGED <<world, edges, registered, allowed, ready, quota, backoff, device, stalled, left>>

(* read_udp_datagrams_once: a full batch may not have been all.            *)
Again(n) == n >= Batch
HandleUdp ==
    /\ Handles("udp", "r")
    /\ LET n == Min({waiting[Event[1]], Batch})
       IN  /\ Read(Event[1], n)
           /\ ready' = IF Again(n) THEN Queue(Rest, {Event}) ELSE Rest
    /\ Done /\ UNCHANGED <<output, room, open, backoff, device, stalled, left>>

(* drain_actions                                                           *)
HandleSignals ==
    /\ Handles("signals", "r")
    /\ Read(Event[1], waiting[Event[1]]) /\ ready' = Rest
    /\ Done /\ UNCHANGED <<output, room, open, backoff, device, stalled, left>>

(* accept_meta_connection_once until there is nothing more or it fails; an *)
(* accepted connection opens a descriptor.                                 *)
HandleListen ==
    /\ Handles("listen", "r")
    /\ ready' = Rest
    /\ \/ LET new == {f \in Of("meta") : f \notin open}
          IN  /\ Read(Event[1], waiting[Event[1]])
              /\ \E opened \in SUBSET new :
                   /\ Cardinality(opened) <= waiting[Event[1]]
                   /\ open' = open \union opened
              /\ UNCHANGED <<stalled, left>>
       \/ /\ waiting[Event[1]] > 0 /\ left.errors > 0
          /\ left' = [left EXCEPT !.errors = @ - 1]
          /\ stalled' = stalled \union {Event[1]}
          /\ UNCHANGED <<waiting, open>>
    /\ Done /\ UNCHANGED <<output, room, backoff, device>>

(* poll_device_packet and handle_device_read_error_like_tinc: the pause    *)
(* after an error grows from none.                                         *)
HandleDevice ==
    /\ Handles("device", "r")
    /\ LET f == Event[1]
       IN  \/ /\ device.left > 0 \/ waiting[f] = 0
              /\ ready' = Rest /\ UNCHANGED <<waiting, device, stalled, left, phase>>
           \/ /\ device.left = 0 /\ waiting[f] > 0
              /\ Read(f, 1) /\ ready' = Queue(Rest, {Event})
              /\ device' = [errors |-> 0, left |-> 0] /\ UNCHANGED <<stalled, left, phase>>
           \/ /\ device.left = 0 /\ waiting[f] > 0 /\ left.errors > 0
              /\ left' = [left EXCEPT !.errors = @ - 1]
              /\ device' = [errors |-> device.errors + 1, left |-> device.errors]
              /\ phase' = IF device.errors + 1 > ErrorLimit THEN "ended" ELSE phase
              /\ stalled' = IF device.errors = 0 THEN stalled \union {f} ELSE stalled
              /\ ready' = Rest /\ UNCHANGED waiting
    /\ quota' = quota - 1
    /\ UNCHANGED <<output, room, open, edges, registered, allowed, backoff>>

(* read_meta_connection_once_by_id until there is nothing more: what is    *)
(* read may be answered, may contradict what the daemon knows of itself,   *)
(* and may close the connection.                                           *)
HandleMeta ==
    /\ Handles("meta", "r")
    /\ LET f == Event[1]
       IN  IF f \notin open \/ Sleeping
           THEN ready' = Rest /\ UNCHANGED <<world, backoff, left>>
           ELSE /\ Read(f, waiting[f]) /\ ready' = Rest
                /\ \/ UNCHANGED <<output, open, backoff, left>>
                   \/ output' = output \union {f} /\ waiting[f] > 0 /\ UNCHANGED <<open, backoff, left>>
                   \/ /\ left.noise > 0 /\ waiting[f] > 0
                      /\ left' = [left EXCEPT !.noise = @ - 1]
                      /\ backoff' = [backoff EXCEPT !.noise = Min({@ + 1, 2})]
                      /\ UNCHANGED <<output, open>>
                   \/ /\ waiting[f] > 0 /\ open' = open \ {f} /\ output' = output \ {f}
                      /\ UNCHANGED <<backoff, left>>
                /\ UNCHANGED room
    /\ Done /\ UNCHANGED <<device, stalled>>

(* flush_meta_output_by_id until all is written or the socket is full.     *)
HandleOutput ==
    /\ Handles("meta", "w")
    /\ LET f == Event[1]
       IN  /\ ready' = Rest
           /\ output' = (IF f \in room THEN output \ {f} ELSE output)
           /\ IF f \in room /\ f \in output THEN room' \in {room, room \ {f}} ELSE UNCHANGED room
    /\ Done /\ UNCHANGED <<waiting, open, backoff, device, stalled, left>>

-----------------------------------------------------------------------------
(* Something arrives, and the kernel notes it for who is registered.       *)
Arrive(f) ==
    /\ f \in open /\ waiting[f] < Cap /\ left.arrivals > 0
    /\ left' = [left EXCEPT !.arrivals = @ - 1]
    /\ Read(f, -1)
    /\ edges' = edges \union {e \in {Readable(f)} \union Condition(f) : e[2] \in registered[f]}
    /\ stalled' = stalled \ {f}
    /\ UNCHANGED <<phase, output, room, open, registered, allowed, ready, quota, backoff, device>>

Drained(f) ==
    /\ f \in open \ room /\ Kind[f] = "meta"
    /\ room' = room \union {f}
    /\ edges' = edges \union {e \in {Writable(f)} \union Condition(f) : e[2] \in registered[f]}
    /\ UNCHANGED <<phase, waiting, output, open, registered, allowed, ready, quota, backoff, device, stalled, left>>

Elapse ==
    /\ backoff.left > 0 \/ device.left > 0
    /\ backoff' = [backoff EXCEPT !.left = Max({@ - 1, 0})]
    /\ device' = [device EXCEPT !.left = Max({@ - 1, 0})]
    /\ UNCHANGED <<phase, world, edges, registered, allowed, ready, quota, stalled, left>>

LoopInit ==
    /\ phase = "timers" /\ waiting = [f \in Fds |-> 0]
    /\ output = {} /\ room = Of("meta") /\ open = Fds \ Of("meta")
    /\ edges = {} /\ registered = [f \in Fds |-> {}] /\ allowed = {} /\ ready = <<>> /\ quota = 0
    /\ backoff = [noise |-> 0, left |-> 0, delay |-> 1]
    /\ device = [errors |-> 0, left |-> 0]
    /\ stalled = {} /\ left = [arrivals |-> MaxArrivals, noise |-> MaxNoise, errors |-> MaxErrors]

LoopNext ==
    \/ Timers \/ Sync \/ Poll \/ Skip \/ EndRound
    \/ HandleUdp \/ HandleSignals \/ HandleListen \/ HandleDevice \/ HandleMeta \/ HandleOutput
    \/ Elapse \/ \E f \in Fds : Arrive(f) \/ Drained(f)

Works ==
    \/ Timers \/ Sync \/ Poll \/ Skip \/ EndRound
    \/ HandleUdp \/ HandleSignals \/ HandleListen \/ HandleDevice \/ HandleMeta \/ HandleOutput
WakesUp == phase = "timers" /\ backoff.noise > 0 /\ Timers
LoopFairness == WF_loopVars(Works) /\ WF_loopVars(Elapse) /\ WF_loopVars(WakesUp)

-----------------------------------------------------------------------------
(* The events that are about to be handled.                                *)
Due == edges \union ToSet(ready)

(* Invariant of runtime_tcp_fallback_queues_meta_output_until_io_write_    *)
(* like_tinc: what is queued for a connection is written when the socket   *)
(* takes it, so the daemon never waits with output for such a socket.      *)
OutputIsWritten == phase = "poll" => \A f \in output : Writable(f) \in Due \/ f \notin room

(* Everything that arrives is read in the end, unless the connection is    *)
(* closed or the daemon ends, and however long it sleeps for a daemon with *)
(* the same name.                                                          *)
NothingIsLeft(f) == waiting[f] = 0 \/ f \in stalled \/ f \notin open \/ phase = "ended"
EverythingIsRead == \A f \in Fds : []<>NothingIsLeft(f)

=============================================================================
