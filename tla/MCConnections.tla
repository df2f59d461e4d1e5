--------------------------- MODULE MCConnections ---------------------------
(* Instances for TLC of what keeps daemons connected: the event loop that  *)
(* serves all descriptors (EventLoop), the outgoing connections (Outgoing) *)
(* and the authentication of both ends (MetaAuth); and of the replay       *)
(* window of legacy datagrams (LegacyReplayWindow).                        *)
(* One system is chosen in the first state.  The variables of the others   *)
(* stay as they are.                                                       *)
EXTENDS LegacyReplayWindow, Outgoing, MetaAuth, TLC

CONSTANT Systems    \* the systems to look at

VARIABLES
    system,                                                 \* the one chosen
    phase, waiting, output, room, open, edges, registered,  \* EventLoop
    allowed, ready, quota, backoff, device, stalled, tocome

-----------------------------------------------------------------------------
(* The event loop: a descriptor of each kind.                              *)
Loop == INSTANCE EventLoop WITH
    left <- tocome,
    Fds <- 1 .. 5, Kind <- <<"listen", "udp", "meta", "device", "signals">>,
    Batch <- 2, MaxPerLoop <- 2, Cap <- 3, BackoffMax <- 2, ErrorLimit <- 1,
    MaxArrivals <- 4, MaxNoise <- 2, MaxErrors <- 2

-----------------------------------------------------------------------------
(* Outgoing connections to a peer with three addresses, of which no route  *)
(* leads to the third; and AutoConnect among two peers that are configured *)
(* or were told of by others.                                              *)
Budget(moves, losses, incoming, commands) ==
    [moves |-> moves, losses |-> losses, incoming |-> incoming, commands |-> commands]
OutWorld(configured, auto, addresses, elsewhere, cache, places, budget) ==
    [configured |-> configured, autoconnect |-> auto, addresses |-> addresses,
     elsewhere |-> elsewhere, cache |-> cache, places |-> places, left |-> budget]

DialWorlds ==
    {OutWorld({1}, FALSE, <<<<1, 2, 3>>, <<>>>>, {}, <<<<>>, <<>>>>, {1, 2, 3}, Budget(1, 1, 1, 0)),
     OutWorld({1}, FALSE, <<<<1, 2, 3>>, <<>>>>, {}, <<<<0, 2>>, <<>>>>, {1, 2, 3}, Budget(1, 1, 0, 1))}
    \union
    {OutWorld(c, TRUE, <<<<1>>, <<1>>>>, e, <<<<>>, <<>>>>, {1}, b)
        : c \in {{}, {1}}, e \in {{}, {1, 2}},
          b \in {Budget(1, 0, 1, 0), Budget(0, 1, 1, 0), Budget(0, 0, 0, 1)}}

-----------------------------------------------------------------------------
(* Authentication: every mix of protocols and of keys that are there, not  *)
(* there or wrong; where none is wrong, also with options that differ.     *)
Two == {"a", "b"}
AuthWorld(mode, ed, rsa, b_options, initiators) ==
    [mode |-> mode, ed |-> ed, rsa |-> rsa, initiators |-> initiators,
     options |-> [d \in Two |-> IF d = "a" THEN {"pmtu", "clamp"} ELSE b_options]]
AuthSettings ==
    LET kept == {"none", "right", "wrong"}
        all == {AuthWorld(mode, ed, rsa, o, i) :
                    mode \in [Two -> {"modern", "legacy", "bypass"}],
                    ed \in [Two -> kept], rsa \in [Two -> kept],
                    o \in {{"pmtu"}, {}}, i \in {{"a"}, Two}}
    IN  {w \in all : \A d \in Two :
             /\ w.mode[d] # "modern" => w.ed[d] = "none"
             /\ w.mode[d] = "bypass" => w.rsa[d] = "none"
             /\ w.options["b"] = {} => w.ed[d] # "wrong" /\ w.rsa[d] # "wrong"}

Weights == [d \in Two |-> IF d = "a" THEN 1 ELSE 4]

-----------------------------------------------------------------------------
loopVars == <<phase, waiting, output, room, open, edges, registered, allowed, ready, quota,
              backoff, device, stalled, tocome>>

LoopWaits ==
    /\ phase = 0 /\ waiting = 0 /\ output = 0 /\ room = 0 /\ open = 0 /\ edges = 0
    /\ registered = 0 /\ allowed = 0 /\ ready = 0 /\ quota = 0 /\ backoff = 0
    /\ device = 0 /\ stalled = 0 /\ tocome = 0
DialsWait == OutInit /\ out.places # {1} /\ out.cache[1] = <<>> /\ listening = [p \in Peers |-> {}]
AuthWaits ==
    /\ AuthInit /\ setting.initiators = Two
    /\ \A d \in Two : setting.mode[d] = "bypass" /\ setting.options[d] # {}

AllInit ==
    /\ system \in Systems
    /\ Init
    /\ IF system = "loop" THEN Loop!LoopInit ELSE LoopWaits
    /\ IF system = "dials" THEN OutInit ELSE DialsWait
    /\ IF system = "auth" THEN AuthInit ELSE AuthWaits

AllNext ==
    \/ system = "window" /\ Next /\ UNCHANGED <<system, loopVars, outVars, authVars>>
    \/ system = "loop" /\ Loop!LoopNext /\ UNCHANGED <<system, windowVars, outVars, authVars>>
    \/ system = "dials" /\ OutNext /\ UNCHANGED <<system, windowVars, loopVars, authVars>>
    \/ system = "auth" /\ AuthNext /\ UNCHANGED <<system, windowVars, loopVars, outVars>>

(* What is fair is what the modules say.                                   *)
LoopIsFair ==
    /\ WF_loopVars(system = "loop" /\ Loop!Works)
    /\ WF_loopVars(system = "loop" /\ Loop!Elapse)
    /\ WF_loopVars(system = "loop" /\ Loop!WakesUp)

DialsAreFair ==
    /\ WF_outVars(system = "dials" /\ Tick)
    /\ \A p \in 1 .. 2 :
        /\ WF_outVars(system = "dials" /\ RetryPeer(p))
        /\ WF_outVars(system = "dials" /\ RetryAuto(p))
        /\ WF_outVars(system = "dials" /\ MakeNew(p))
        /\ WF_outVars(system = "dials" /\ KeepEnough(p))
        /\ WF_outVars(system = "dials" /\ Decided(p))

AuthIsFair ==
    \A i \in Two :
        /\ \A d \in Two : /\ WF_authVars(system = "auth" /\ Receive(i, d))
                          /\ WF_authVars(system = "auth" /\ FinishClose(i, d))
        /\ WF_authVars(system = "auth" /\ Connect(i))

AllSpec ==
    /\ AllInit /\ [][AllNext]_<<system, windowVars, loopVars, outVars, authVars>>
    /\ LoopIsFair /\ DialsAreFair /\ AuthIsFair

-----------------------------------------------------------------------------
(* Everything that arrives is read in the end.                             *)
EverythingIsRead == \A f \in 1 .. 5 : []<>(system = "loop" => Loop!NothingIsLeft(f))

(* The daemon does not wait with output for a socket that takes it.        *)
OutputIsWritten == system = "loop" => Loop!OutputIsWritten

(* A peer that listens is connected in the end and stays so, and daemons   *)
(* that make and drop connections on their own come to an end of it.       *)
DialsSettle == <>[](system = "dials" => IsReached /\ HasEnough)

(* The daemons connect, or the keys forbid it.                             *)
ConnectsIfItCan == <>[](system = "auth" => HasConnected)
=============================================================================
