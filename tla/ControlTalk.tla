---------------------------- MODULE ControlTalk -----------------------------
(***************************************************************************)
(* The conversations between a daemon and the `tinc' commands on its       *)
(* control socket (tincd/src/server.rs, state.rs and transport.rs;         *)
(* tincctl/src/lib.rs).  The daemon talks to one command at a time, and    *)
(* its event loop waits meanwhile; only what `tinc log' and `tinc pcap'    *)
(* subscribe to is written by the loop, as much as the socket takes.       *)
(***************************************************************************)
EXTENDS Integers, Sequences, SequencesExt, FiniteSets, FiniteSetsExt

CONSTANTS
    Client,         \* the commands that may be started
    Runs,           \* the names of those each client may run
    Levels, Lengths,    \* debug levels and packet lengths they are given
    Mesh, Me,       \* the nodes of the mesh, numbers, and the daemon's own
    LogBuffer, PcapBuffer,  \* LOG_CONTROL_BUFFER_SIZE, PCAP_CONTROL_BUFFER_SIZE
    Room,           \* what a socket buffers for a subscriber
    DataSizes,      \* the sizes log entries and packets may have
    MaxEvents, MaxKills     \* what happens around the conversations

VARIABLES
    daemon,         \* "runs", "stopped" or "failed"
    talks,          \* the client talked to, or 0 while the loop runs
    heard,          \* whether that client has shown the cookie
    backlog,        \* the clients that wait to be accepted
    view,           \* what the daemon knows of the mesh
    debug,          \* debug_level
    subscribers,    \* log_subscribers and pcap_subscribers
    client,         \* [command, at, got] of each client
    requests,       \* what each client has written
    socket,         \* what the daemon has written to each client
    closed,         \* the clients the daemon has closed the socket of
    moment,         \* the view when each client was accepted
    due,            \* what each subscriber was to be told
    talkLeft        \* how many events and kills there will be

talkServer == <<daemon, talks, heard, backlog, view, debug, subscribers>>
talkVars == <<talkServer, client, requests, socket, closed, moment, due, talkLeft>>

Nobody == 0

(* Clients and the nodes of the mesh are numbers, of which 0 is no client. *)
ASSUME TalkAssumption ==
    /\ Nobody \notin Client
    /\ IsFiniteSet(Mesh) /\ Mesh \subseteq Int /\ Me \in Mesh /\ Me + 1 \in Mesh
    /\ Levels \subseteq Int /\ Lengths \subseteq Nat /\ DataSizes \subseteq Nat
    /\ LogBuffer \in Nat /\ PcapBuffer \in Nat /\ Room \in Nat

IsAlive(c) == client[c].at \notin {"idle", "gone"}
IsGone(c) == client[c].at \in {"done", "failed", "gone"}

-----------------------------------------------------------------------------
(* What the daemon knows, and reports.                                     *)
Reachable(edge) ==
    LET reach[n \in 0 .. Cardinality(Mesh)] ==
            IF n = 0 THEN {Me}
            ELSE LET near == reach[n - 1]
                 IN  near \union {b \in Mesh : \E a \in near : {<<a, b>>, <<b, a>>} \subseteq edge}
    IN  reach[Cardinality(Mesh)]

(* purge_unreachable: the edges of nodes that cannot be reached, then      *)
(* those of the nodes that no edge leads to.                               *)
PurgeUnreachable ==
    LET lost == view.node \ Reachable(view.edge)
        kept == {e \in view.edge : e[1] \notin lost}
    IN  [view EXCEPT !.edge = kept,
                     !.subnet = @ \ lost,
                     !.node = {n \in @ : n \in lost => \E e \in kept : e[2] = n}]

(* dump_nodes, dump_edges, dump_subnets, dump_connections, dump_traffic:   *)
(* what the lines up to the one without data say.                          *)
Dumps == {"nodes", "edges", "subnets", "connections", "traffic"}
Dump(known, req) ==
    CASE req = "nodes" -> {<<n, n \in Reachable(known.edge)>> : n \in known.node}
      [] req = "edges" -> known.edge
      [] req = "subnets" -> known.subnet
      [] req = "connections" -> {<<p, "meta">> : p \in known.peer}
                                    \union {<<s.client, s.kind>> : s \in ToSet(subscribers)}
      [] req = "traffic" -> {<<n, known.traffic[n]>> : n \in known.node}

-----------------------------------------------------------------------------
(* The queue of a subscriber: frames of a header and a payload, of which   *)
(* a part may have been written.                                           *)
Header(frame) == [frame |-> frame, part |-> 0]
Frame(frame) == [i \in 1 .. frame.len + 1 |-> [frame |-> frame, part |-> i - 1]]

CompactOutboundKeepsOffset(s) == [s EXCEPT !.outbound = SubSeq(@, s.offset + 1, Len(@))]
CompactOutbound(s) == [s EXCEPT !.outbound = SubSeq(@, s.offset + 1, Len(@)), !.offset = 0]

QueuePayload(s, frame) ==
    LET compact == CompactOutbound(s)
    IN  [compact EXCEPT !.outbound = @ \o Frame(frame)]

(* control_log_level, publish_control_log_entry, publish_control_pcap_     *)
(* packet: who is told of an entry, and how much of it.                    *)
LogLevel(s) == IF s.level = -1 THEN debug ELSE s.level
ControlPcapLen(s, size) == Min({size, IF s.snaplen = 0 THEN PcapBuffer ELSE Min({s.snaplen, PcapBuffer})})
Told(s, entry) ==
    IF s.kind = "log" THEN entry.kind = "log" /\ entry.level <= LogLevel(s) ELSE entry.kind = "pcap"
FrameFor(s, entry) ==
    [number |-> Len(due[s.client]) + 1,
     len |-> IF s.kind = "log" THEN Min({entry.size, LogBuffer}) ELSE ControlPcapLen(s, entry.size)]

Publish(entry) ==
    /\ subscribers' = [i \in DOMAIN subscribers |->
                          LET s == subscribers[i]
                          IN  IF Told(s, entry) THEN QueuePayload(s, FrameFor(s, entry)) ELSE s]
    /\ due' = [c \in Client |->
                  LET mine == {s \in ToSet(subscribers) : s.client = c /\ Told(s, entry)}
                  IN  due[c] \o SetToSeq({FrameFor(s, entry) : s \in mine})]

LogEntry(level, size) == [kind |-> "log", level |-> level, size |-> size]

-----------------------------------------------------------------------------
(* The commands, and the requests each of them makes; the cookie they show *)
(* is that of the pid file, which may be an old one.                       *)
Ask(req, arg) == [req |-> req, arg |-> arg]
Tinc(name, asks) == [name |-> name, requests |-> asks, cookie |-> TRUE]

DumpCommands ==
    {Tinc(req, <<Ask(req, 0)>>) : req \in Dumps \ {"traffic"}}
    \union {Tinc(name, <<Ask("nodes", 0), Ask("edges", 0)>>) : name \in {"graph", "digraph"}}
InfoCommand == Tinc("info", <<Ask("nodes", 0), Ask("edges", 0), Ask("subnets", 0)>>)
TopCommand == Tinc("top", <<Ask("traffic", 0), Ask("traffic", 0)>>)
PidCommands == {Tinc("pid", <<>>), [Tinc("pid", <<>>) EXCEPT !.cookie = FALSE]}
LiveCommands ==
    {Tinc("log", <<Ask("log", l)>>) : l \in Levels} \union {Tinc("pcap", <<Ask("pcap", n)>>) : n \in Lengths}
SimpleCommands ==
    {Tinc(req, <<Ask(req, 0)>>) : req \in {"stop", "reload", "purge", "retry"}}
    \union {Tinc("debug", <<Ask("debug", l)>>) : l \in Levels}
    \union {Tinc(req, <<Ask(req, n)>>) : req \in {"connect", "disconnect"}, n \in Mesh \ {Me}}
TincCommands ==
    DumpCommands \union {InfoCommand, TopCommand} \union PidCommands \union LiveCommands \union SimpleCommands

-----------------------------------------------------------------------------
(* A command at work: open_control_target, then its request lines.         *)
At(c, where) == client' = [client EXCEPT ![c].at = where]
ReadsAt(c, where) == client[c].at = where /\ socket[c] # <<>>
Taken(c) == socket' = [socket EXCEPT ![c] = Tail(@)]

OpenControl(c) ==
    /\ client[c].at = "idle" /\ daemon = "runs"
    /\ \E command \in {k \in TincCommands : k.name \in Runs[c]} :
            client' = [client EXCEPT ![c] = [command |-> command, at |-> "connected", got |-> <<>>]]
    /\ backlog' = Append(backlog, c)
    /\ UNCHANGED <<daemon, talks, heard, view, debug, subscribers, requests, socket, closed, moment,
                   due, talkLeft>>

SendCookie(c) ==
    /\ client[c].at = "connected" /\ At(c, "greeted")
    /\ requests' = [requests EXCEPT ![c] = <<[req |-> "id", arg |-> client[c].command.cookie]>>]
    /\ UNCHANGED <<talkServer, socket, closed, moment, due, talkLeft>>

(* `top' asks for one dump after the other, the others ask at once; who    *)
(* only wants to know whether the daemon runs has nothing to ask.          *)
Asked(c) ==
    LET all == client[c].command.requests
    IN  IF client[c].command.name = "top" THEN SubSeq(all, 1, 1) ELSE all

ReadAck(c) ==
    /\ ReadsAt(c, "greeted") /\ Len(socket[c]) >= 2
    /\ socket' = [socket EXCEPT ![c] = SubSeq(@, 3, Len(@))]
    /\ At(c, IF client[c].command.requests = <<>> THEN "done" ELSE "answers")
    /\ requests' = [requests EXCEPT ![c] = @ \o Asked(c)]
    /\ UNCHANGED <<talkServer, closed, moment, due, talkLeft>>

Subscribes(c) == client[c].command.name \in {"log", "pcap"}
AnswersRead(c) == Len(client[c].got)

(* send_control_request, send_control_dump_requests, send_top_dump_        *)
(* request: an answer is read, and another question asked by `top'.        *)
Accepts(c, line) ==
    /\ line.req = client[c].command.requests[AnswersRead(c) + 1].req
    /\ line.req \in Dumps \union {"debug"} \/ line.data = 0
ReadAnswer(c) ==
    /\ ReadsAt(c, "answers") /\ ~ Subscribes(c) /\ Taken(c)
    /\ LET line == Head(socket[c])
           command == client[c].command
           ends == AnswersRead(c) + 1 = Len(command.requests)
       IN  IF ~ Accepts(c, line)
           THEN At(c, "failed") /\ UNCHANGED requests
           ELSE /\ client' = [client EXCEPT ![c].got = Append(@, line.data),
                                            ![c].at = IF ends /\ command.name # "stop" THEN "done" ELSE @]
                /\ requests' = IF ends \/ command.name # "top" THEN requests
                               ELSE [requests EXCEPT ![c] = Append(@, command.requests[AnswersRead(c) + 2])]
    /\ UNCHANGED <<talkServer, closed, moment, due, talkLeft>>

(* send_control_log_request, send_control_pcap_request: a header, then as  *)
(* many bytes as it says, whatever they are.                               *)
ReadFrame(c) ==
    /\ ReadsAt(c, "answers") /\ Subscribes(c)
    /\ LET header == Head(socket[c])
           len == header.frame.len
           body == SubSeq(socket[c], 2, len + 1)
       IN  IF header.part # 0 \/ len > (IF client[c].command.name = "log" THEN LogBuffer ELSE PcapBuffer)
           THEN At(c, "failed") /\ UNCHANGED socket
           ELSE /\ Len(socket[c]) > len
                /\ socket' = [socket EXCEPT ![c] = SubSeq(@, len + 2, Len(@))]
                /\ client' = [client EXCEPT ![c].got = Append(@, <<header>> \o body)]
    /\ UNCHANGED <<talkServer, requests, closed, moment, due, talkLeft>>

(* The daemon has closed the socket: `stop' and the subscribers end well,  *)
(* the latter unless they wait for the rest of a frame.                    *)
WaitsForRest(c) == /\ ReadsAt(c, "answers") /\ Subscribes(c)
                   /\ Len(socket[c]) <= Head(socket[c]).frame.len
ReadEnd(c) ==
    /\ IsAlive(c) /\ ~ IsGone(c) /\ c \in closed
    /\ client[c].at # "connected"
    /\ socket[c] = <<>> \/ WaitsForRest(c) \/ (client[c].at = "greeted" /\ Len(socket[c]) < 2)
    /\ At(c, IF client[c].at = "answers" /\ socket[c] = <<>>
                /\ (Subscribes(c) \/ client[c].command.name = "stop") THEN "done" ELSE "failed")
    /\ UNCHANGED <<talkServer, requests, socket, closed, moment, due, talkLeft>>

Kill(c) ==
    /\ IsAlive(c) /\ ~ IsGone(c) /\ talkLeft.kills > 0
    /\ At(c, "gone") /\ talkLeft' = [talkLeft EXCEPT !.kills = @ - 1]
    /\ UNCHANGED <<talkServer, requests, socket, closed, moment, due>>

-----------------------------------------------------------------------------
(* The daemon: accept_control_connection_once, handle_control_io.  While   *)
(* it talks to a client, its loop does nothing else; an error ends it.     *)
LoopRuns == daemon = "runs" /\ talks = Nobody
Talking(c) == daemon = "runs" /\ talks = c

DaemonEnds(how) ==
    /\ daemon' = how /\ talks' = Nobody /\ subscribers' = <<>>
    /\ closed' = Client /\ backlog' = <<>>
WritesTo(c, line) == socket' = [socket EXCEPT ![c] = Append(@, line)]
Fails == DaemonEnds("failed") /\ UNCHANGED <<heard, view, debug, client, requests, socket, moment, due, talkLeft>>

AcceptClient ==
    /\ LoopRuns /\ backlog # <<>>
    /\ LET c == Head(backlog)
       IN  IF IsGone(c) THEN Fails
           ELSE /\ talks' = c /\ heard' = FALSE /\ backlog' = Tail(backlog)
                /\ WritesTo(c, [req |-> "id", data |-> 0])
                /\ moment' = [moment EXCEPT ![c] = view]
                /\ UNCHANGED <<daemon, view, debug, subscribers, client, requests, closed, due, talkLeft>>

NextRequest(c) == Head(requests[c])
NextLine(c) == requests' = [requests EXCEPT ![c] = Tail(@)]

(* The first line must show the cookie, and the answer must be taken.      *)
Authenticate(c) ==
    /\ Talking(c) /\ ~ heard
    /\ requests[c] # <<>> \/ IsGone(c)
    /\ IF requests[c] = <<>> \/ IsGone(c) \/ ~ NextRequest(c).arg
       THEN Fails
       ELSE /\ NextLine(c) /\ heard' = TRUE /\ WritesTo(c, [req |-> "ack", data |-> 0])
            /\ UNCHANGED <<daemon, talks, backlog, view, debug, subscribers, client, closed, moment,
                           due, talkLeft>>

(* The conversation is over; the socket is closed, but for a subscriber.   *)
HangUp(c) ==
    /\ Talking(c) /\ heard /\ requests[c] = <<>> /\ IsGone(c)
    /\ talks' = Nobody /\ closed' = closed \union {c}
    /\ UNCHANGED <<daemon, heard, backlog, view, debug, subscribers, client, requests, socket, moment,
                   due, talkLeft>>

Request(c, kinds) == Talking(c) /\ heard /\ requests[c] # <<>> /\ NextRequest(c).req \in kinds
AnswerRequest(c, data) == ~ IsGone(c) /\ NextLine(c) /\ WritesTo(c, [req |-> NextRequest(c).req, data |-> data])
Unheard(c) == Request(c, {"nodes", "edges", "subnets", "connections", "traffic", "debug", "disconnect",
                          "purge", "retry", "reload", "connect"}) /\ IsGone(c) /\ Fails

(* register_control_live_stream_request                                    *)
RegisterSubscriber(c) ==
    /\ Request(c, {"log", "pcap"}) /\ NextLine(c)
    /\ subscribers' = Append(subscribers,
            [client |-> c, kind |-> NextRequest(c).req, level |-> Max({-1, Min({NextRequest(c).arg, 10})}),
             snaplen |-> NextRequest(c).arg, outbound |-> <<>>, offset |-> 0])
    /\ talks' = Nobody
    /\ UNCHANGED <<daemon, heard, backlog, view, debug, client, socket, closed, moment, due, talkLeft>>

AnswerDump(c) ==
    /\ Request(c, Dumps) /\ AnswerRequest(c, Dump(view, NextRequest(c).req))
    /\ UNCHANGED <<talkServer, client, closed, moment, due, talkLeft>>

(* handle_control_set_debug_request: a negative level only asks.           *)
SetDebug(c) ==
    /\ Request(c, {"debug"}) /\ AnswerRequest(c, debug)
    /\ debug' = IF NextRequest(c).arg >= 0 THEN NextRequest(c).arg ELSE debug
    /\ UNCHANGED <<daemon, talks, heard, backlog, view, subscribers, client, closed, moment, due, talkLeft>>

Purge(c) ==
    /\ Request(c, {"purge"}) /\ AnswerRequest(c, 0) /\ view' = PurgeUnreachable
    /\ UNCHANGED <<daemon, talks, heard, backlog, debug, subscribers, client, closed, moment, due, talkLeft>>

(* handle_control_disconnect_request                                       *)
Disconnect(c) ==
    /\ Request(c, {"disconnect"})
    /\ AnswerRequest(c, IF NextRequest(c).arg \in view.peer THEN 0 ELSE -2)
    /\ view' = [view EXCEPT !.peer = @ \ {NextRequest(c).arg},
                            !.edge = @ \ {<<Me, NextRequest(c).arg>>}]
    /\ UNCHANGED <<daemon, talks, heard, backlog, debug, subscribers, client, closed, moment, due, talkLeft>>

(* handle_control_reload_request, handle_control_retry_request: a log      *)
(* entry first, for those who subscribe; the files may be bad.             *)
ReloadFiles(c) ==
    /\ Request(c, {"reload"}) /\ \E result \in {0, -1} : AnswerRequest(c, result)
    /\ Publish(LogEntry(0, 1))
    /\ UNCHANGED <<daemon, talks, heard, backlog, view, debug, client, closed, moment, talkLeft>>

Retry(c) ==
    /\ Request(c, {"retry"}) /\ \E result \in {0, -1} : AnswerRequest(c, result)
    /\ UNCHANGED <<talkServer, client, closed, moment, due, talkLeft>>

(* A request that is not known, as `tinc connect' sends it.                *)
AnswerUnknown(c) ==
    /\ Request(c, {"connect"}) /\ AnswerRequest(c, -1)
    /\ UNCHANGED <<talkServer, client, closed, moment, due, talkLeft>>

Stop(c) ==
    /\ Request(c, {"stop"}) /\ ~ IsGone(c) /\ DaemonEnds("stopped")
    /\ NextLine(c) /\ WritesTo(c, [req |-> "stop", data |-> 0])
    /\ UNCHANGED <<heard, view, debug, client, moment, due, talkLeft>>

StopUnheard(c) == Request(c, {"stop"}) /\ IsGone(c) /\ Fails

-----------------------------------------------------------------------------
(* The loop meanwhile: the mesh changes, entries are logged, packets come, *)
(* and subscribers are written to.                                         *)
Happens == LoopRuns /\ talkLeft.events > 0 /\ talkLeft' = [talkLeft EXCEPT !.events = @ - 1]
LoopAround == <<daemon, talks, heard, backlog, client, requests, socket, closed, moment>>

MeshChanges ==
    /\ Happens
    /\ \E a, b \in view.node :
        /\ a # b /\ a # Me
        /\ view' = IF <<a, b>> \in view.edge THEN [view EXCEPT !.edge = @ \ {<<a, b>>}]
                   ELSE [view EXCEPT !.edge = @ \union {<<a, b>>}]
    /\ UNCHANGED <<LoopAround, debug, subscribers, due>>

NodeAppears ==
    /\ Happens
    /\ \E n \in Mesh \ view.node :
        view' = [view EXCEPT !.node = @ \union {n}, !.edge = @ \union {<<Me, n>>, <<n, Me>>},
                             !.subnet = @ \union {n}, !.peer = @ \union {n}]
    /\ UNCHANGED <<LoopAround, debug, subscribers, due>>

PacketComes ==
    /\ Happens
    /\ \E n \in view.node, size \in DataSizes :
        /\ view' = [view EXCEPT !.traffic[n] = @ + 1]
        /\ Publish([kind |-> "pcap", level |-> 0, size |-> size])
    /\ UNCHANGED <<LoopAround, debug>>

RecordLog ==
    /\ Happens
    /\ \E level \in 0 .. 1, size \in DataSizes : Publish(LogEntry(level, size))
    /\ UNCHANGED <<LoopAround, view, debug>>

(* flush_control_subscriber_by_id, flush_once                              *)
FlushOnce(i, n) ==
    LET s == subscribers[i]
        written == [s EXCEPT !.offset = @ + n]
    IN  /\ socket' = [socket EXCEPT ![s.client] = @ \o SubSeq(s.outbound, s.offset + 1, s.offset + n)]
        /\ subscribers' = [subscribers EXCEPT ![i] =
                IF written.offset < Len(s.outbound) THEN written ELSE [written EXCEPT !.outbound = <<>>, !.offset = 0]]

Flush ==
    /\ LoopRuns
    /\ \E i \in DOMAIN subscribers :
        LET s == subscribers[i]
            pending == Len(s.outbound) - s.offset
        IN  /\ pending > 0
            /\ IF IsGone(s.client)
               THEN subscribers' = RemoveAt(subscribers, i) /\ UNCHANGED socket
               ELSE \E n \in 1 .. Min({pending, Room - Len(socket[s.client])}) : FlushOnce(i, n)
    /\ UNCHANGED <<daemon, talks, heard, backlog, view, debug, client, requests, closed, moment, due,
                   talkLeft>>

-----------------------------------------------------------------------------
FirstView ==
    [node |-> {Me, Me + 1}, edge |-> {<<Me, Me + 1>>, <<Me + 1, Me>>}, subnet |-> {Me + 1},
     peer |-> {Me + 1}, traffic |-> [n \in Mesh |-> 0]]

TalkInit ==
    /\ daemon = "runs" /\ talks = Nobody /\ heard = FALSE /\ backlog = <<>>
    /\ view = FirstView /\ debug = 0 /\ subscribers = <<>>
    /\ client = [c \in Client |-> [command |-> Nobody, at |-> "idle", got |-> <<>>]]
    /\ requests = [c \in Client |-> <<>>] /\ socket = [c \in Client |-> <<>>]
    /\ closed = {} /\ moment = [c \in Client |-> FirstView] /\ due = [c \in Client |-> <<>>]
    /\ talkLeft = [events |-> MaxEvents, kills |-> MaxKills]

TalkNext ==
    \/ \E c \in Client :
        \/ OpenControl(c) \/ SendCookie(c) \/ ReadAck(c) \/ ReadAnswer(c)
        \/ ReadFrame(c) \/ ReadEnd(c) \/ Kill(c)
        \/ Authenticate(c) \/ HangUp(c) \/ Unheard(c) \/ RegisterSubscriber(c) \/ AnswerDump(c)
        \/ SetDebug(c) \/ Purge(c) \/ Disconnect(c) \/ ReloadFiles(c) \/ Retry(c) \/ AnswerUnknown(c)
        \/ Stop(c) \/ StopUnheard(c)
    \/ AcceptClient \/ MeshChanges \/ NodeAppears \/ PacketComes \/ RecordLog \/ Flush

-----------------------------------------------------------------------------
TalkSpec == TalkInit /\ [][TalkNext]_talkVars

-----------------------------------------------------------------------------
(* What is shown: of a graph all edges, or when they have no direction one *)
(* of two; of a node its edges, its subnets and whether it can be reached. *)
Got(c, req) == client[c].got[CHOOSE i \in DOMAIN client[c].got : client[c].command.requests[i].req = req]
Drawn(c) ==
    {e \in Got(c, "edges") : client[c].command.name = "graph" => e[1] > e[2]}
InfoNode(c, item) ==
    [reachable |-> <<item, TRUE>> \in Got(c, "nodes"),
     edges |-> {e[2] : e \in {f \in Got(c, "edges") : f[1] = item}},
     subnets |-> Got(c, "subnets") \intersect {item}]

(* What a command shows when it is done is of one moment, that of its      *)
(* beginning: every edge of a graph is between two nodes that are drawn,   *)
(* and of a node that can be reached another is shown with an edge to it   *)
(* and back.                                                               *)
ReportsFit ==
    \A c \in Client : client[c].at = "done" =>
        /\ client[c].command.name \in {"graph", "digraph"} =>
              /\ \A e \in Drawn(c) : \A n \in {e[1], e[2]} : \E up \in BOOLEAN : <<n, up>> \in Got(c, "nodes")
              /\ {n \in Mesh : <<n, TRUE>> \in Got(c, "nodes")} = Reachable(Got(c, "edges"))
        /\ client[c].command.name = "info" =>
              \A n \in moment[c].node :
                  /\ InfoNode(c, n).reachable = (n \in Reachable(moment[c].edge))
                  /\ InfoNode(c, n).reachable /\ n # Me =>
                        \E m \in InfoNode(c, n).edges : n \in InfoNode(c, m).edges
                  /\ InfoNode(c, n).subnets = moment[c].subnet \intersect {n}
        /\ client[c].command.name = "top" =>
              \A i \in DOMAIN client[c].got :
                  client[c].got[i] = {<<n, moment[c].traffic[n]>> : n \in moment[c].node}
        /\ client[c].command.name = "stop" => daemon # "runs"

(* What a subscriber has read are whole frames, those it was to be told in *)
(* the order they were published in; nothing is lost between two of them.  *)
FramesAreWhole ==
    \A c \in Client :
        LET frames == IF Subscribes(c) THEN client[c].got ELSE <<>>
        IN  client[c].at # "idle" =>
            /\ Len(frames) <= Len(due[c])
            /\ \A i \in DOMAIN frames : frames[i] = Frame(due[c][i])

(* Invariant: what commands show is of one moment, what subscribers read   *)
(* is whole.                                                               *)
ConversationsFit == ReportsFit /\ FramesAreWhole
=============================================================================
