------------------------------ MODULE MCTables ------------------------------
(* Instances for TLC of eight systems around one program: the routes it    *)
(* searches (GraphRoutes), what it computes for a packet                   *)
(* (RouteAlgorithms), the text of its messages (MetaMessages), how it      *)
(* takes a meta connection apart (MetaStream), the files of a directory    *)
(* that daemons and commands read and write (Invitations, ConfigFiles,     *)
(* KeyFiles), and the conversations of the two (ControlTalk).              *)
(* One system is chosen in the first state.  The variables of the others   *)
(* stay as they are.                                                       *)
EXTENDS GraphRoutes, KeyFiles, Invitations, ConfigFiles, ControlTalk

CONSTANT Systems     \* the systems to look at

VARIABLES
    system,                                                     \* the one chosen
    task, outcome,                                              \* RouteAlgorithms
    stream, unread, input, stage, buffer, decoder, delivered, failed,   \* MetaStream
    letter, reading                                             \* MetaMessages

algorithmVars == <<task, outcome>>
streamVars == <<stream, unread, input, stage, buffer, decoder, delivered, failed>>
letterVars == <<letter, reading>>

-----------------------------------------------------------------------------
(* Routes.  What an edge may be: its weight, and whether it is indirect.   *)
(* With IntMod = 32 two edges of weight 8 wrap around, those of Plain      *)
(* never.                                                                  *)
Absent == [weight |-> 0, indirect |-> FALSE]
Plain == {Absent} \union [weight : {1, 3}, indirect : {FALSE}]
Mixed == {Absent} \union [weight : {7, 8}, indirect : BOOLEAN]
Coarse == {Absent} \union [weight : {8}, indirect : BOOLEAN]

GraphOf(data) ==
    [edges |-> {k \in Key : data[k].weight # 0},
     weight |-> [k \in Key |-> data[k].weight],
     indirect |-> {k \in Key : data[k].indirect}]

(* Edges that all have their reverse.                                      *)
Symmetric(kinds) ==
    LET pair == {p \in SUBSET Node : Cardinality(p) = 2}
    IN  {GraphOf([k \in Key |-> IF k[1] = k[2] THEN Absent ELSE f[{k[1], k[2]}]])
            : f \in [pair -> kinds]}

(* Edges among three nodes that may lack their reverse or differ from it.  *)
OneWay(kinds) ==
    LET arrow == {k \in Key : k[1] # k[2] /\ k[1] <= 3 /\ k[2] <= 3}
    IN  {GraphOf([k \in Key |-> IF k \in arrow THEN f[k] ELSE Absent])
            : f \in [arrow -> kinds]}

(* A square with diagonals of every kind, and one-way edges.               *)
MixedGraphs ==
    OneWay(Coarse) \union
    {G \in Symmetric(Mixed) :
        G.weight[<<1, 2>>] = 8 /\ <<3, 4>> \in G.edges /\ <<1, 4>> \notin G.edges}

SmallGraphs == Symmetric(Plain) \union MixedGraphs

-----------------------------------------------------------------------------
(* What is computed for a packet: addresses of two bytes of two bits, and  *)
(* packets and options around the boundaries that count.                   *)
Addresses == {<<a, b>> : a, b \in 0 .. 3}

MaskTasks == [kind : {"mask"}, a : Addresses, b : Addresses, len : 0 .. 4]

(* Subnets around one address, as MaskBytes leaves them.                   *)
Around(len) == CASE len = 1 -> <<2, 0>> [] len = 2 -> <<2, 0>> [] len = 3 -> <<2, 0>>
                 [] len = 4 -> <<2, 1>>
Subnets == {[address |-> Around(len), prefix |-> len, weight |-> w, owner |-> o]
               : len \in 1 .. 4, w \in 1 .. 2, o \in 1 .. 2}
LookupTasks ==
    [kind : {"lookup"}, subnets : UNION {kSubset(n, Subnets) : n \in 0 .. 3},
     address : {<<2, 1>>, <<2, 0>>, <<3, 1>>}, reachable : SUBSET {1, 2}]

FragmentTasks ==
    [kind : {"fragment"}, mtu : {0, 590, 597, 598, 1000},
     packet : [etherLen : {14, 18}, payload : {1, 552, 553, 556, 1104, 1105, 1480},
               offset : {8}, more : BOOLEAN]]

TcpOptions ==
    [kind : {"nop", "end"}]
    \union [kind : {"other"}, data : {<<>>, <<2>>, <<0, 2>>}]
    \union [kind : {"mss"}, mss : {259, 600}]
ClampTasks ==
    [kind : {"clamp"}, options : UNION {[1 .. n -> TcpOptions] : n \in 0 .. 4},
     mtu : {350}, tcpStart : {40}]

ChecksumTasks == [kind : {"checksum"}, old : 0 .. 15, new : 0 .. 15, other : 0 .. 15]

Packets == INSTANCE RouteAlgorithms WITH
    ByteBits <- 2, WordBits <- 4,
    Tasks <- MaskTasks \union LookupTasks \union FragmentTasks \union ClampTasks
                \union ChecksumTasks

-----------------------------------------------------------------------------
(* What a peer may write on a meta connection: lines, SPTPS records and    *)
(* the bodies that follow an announcement, here of a few bytes each.  A    *)
(* record has 3 bytes more than its payload, an enciphered one 4           *)
(* (HeaderLen and AuthOverhead of MetaStream).                             *)
Piece(what, does, len, newlines, reads) ==
    [what |-> what, does |-> does, len |-> len, newlines |-> newlines, reads |-> reads,
     ok |-> TRUE, method |-> 0, address |-> 0, proxy |-> FALSE]
TextLine(does, len) == Piece("line", does, len, {len}, 99)
Clear(does, len) == Piece("record", does, len, {}, len - 3)
Sealed(does, len) == Piece("record", does, len, {}, len - 4)
Body(len, newlines, reads) == Piece("body", "data", len, newlines, reads)

IdLine == TextLine("id", 3)
ModernStart == <<IdLine, Clear("kex", 5), Clear("sig", 4)>>
ModernItems ==
    {<<Sealed("message", 5)>>,
     <<Sealed("announces record", 5), Sealed("data", 6)>>,
     <<Sealed("announces", 5), Body(4, {2}, 99)>>,
     <<Sealed("announces", 5), Body(6, {}, 1)>>}
LegacyStart == <<IdLine, TextLine("metakey", 2)>>
LineItems ==
    {<<TextLine("message", 2)>>,
     <<TextLine("announces", 2), Body(5, {5}, 0)>>,
     <<TextLine("announces", 2), Body(4, {2}, 9)>>}

UpToThree(S) == {<<>>} \union S \union {a \o b : a, b \in S} \union {a \o b \o c : a, b, c \in S}

Answer(what, does, len, ok, method, address) ==
    <<[Piece(what, does, len, IF what = "line" THEN {len} ELSE {}, 99)
           EXCEPT !.ok = ok, !.method = method, !.address = address, !.proxy = TRUE]>>
ProxyAnswers(proxy) ==
    CASE proxy = "http" ->
            {Answer("line", "status", 3, ok, 0, 0) \o Answer("line", "empty", 1, TRUE, 0, 0)
                : ok \in BOOLEAN}
      [] proxy = "socks4" -> {Answer("answer", "socks", 8, ok, 0, 0) : ok \in BOOLEAN}
      [] proxy = "socks5" -> {Answer("answer", "socks", 12, TRUE, 5, 7),
                              Answer("answer", "socks", 14, TRUE, 7, 7),
                              Answer("answer", "socks", 2, FALSE, 1, 0)}

Stream(mode, incoming, proxy, script) ==
    [mode |-> mode, incoming |-> incoming, proxy |-> proxy, script |-> script]
SomeStreams ==
    {Stream("modern", i, "none", ModernStart \o s) : i \in BOOLEAN, s \in UpToThree(ModernItems)}
    \union {Stream("bypass", i, "none", <<IdLine>> \o s)
               : i \in BOOLEAN, s \in UpToThree(LineItems)}
    \union {Stream("legacy", i, "none", LegacyStart \o s)
               : i \in BOOLEAN, s \in UpToThree(LineItems)}
    \union UNION {{Stream("modern", FALSE, p, a \o ModernStart) : a \in ProxyAnswers(p)}
                     : p \in {"http", "socks4", "socks5"}}

Reader == INSTANCE MetaStream WITH
    MaxMeta <- 16, ReadSizes <- {1, 2, 3, 5, 8, 16}, Streams <- SomeStreams

-----------------------------------------------------------------------------
(* Invitations: two joiners, two names, and an inviter whose script adds   *)
(* lines.                                                                  *)
InviteSettings ==
    LET tincConf == <<Line("Name", "inviter"), Line("Mode", "switch"), Line("Proxy", "p")>>
        address == <<Line("Address", "here"), Line("Port", "0"),
                     Line("Subnet", "s"), Line("Name", "inviter")>>
    IN  {[server |-> tincConf, host |-> address, expire |-> 1,
          added |-> <<Line("Subnet", "t"), Line("Proxy", "q"),
                      Line("Ifconfig", "dhcp"), Line("Other", "o")>>]}

-----------------------------------------------------------------------------
(* Configuration: commands of every action, lines put in by hand that the  *)
(* command and the daemon may read differently, and files to begin with.   *)
ConfigCommand(action, node, var, val) ==
    [action |-> action, node |-> node, var |-> var, val |-> val, force |-> FALSE]
Commands ==
    {ConfigCommand("set", "none", "Mode", "switch"), ConfigCommand("set", "none", "Mode", "bad"),
     ConfigCommand("add", "none", "Mode", "hub"), ConfigCommand("get", "none", "ConnectTo", "a"),
     ConfigCommand("add", "none", "ConnectTo", "b"), ConfigCommand("del", "none", "ConnectTo", "none"),
     ConfigCommand("del", "none", "ConnectTo", "a"), ConfigCommand("set", "none", "Name", "other"),
     ConfigCommand("add", "none", "Subnet", "t"), ConfigCommand("del", "none", "Subnet", "s"),
     ConfigCommand("add", "peer", "Subnet", "u"),
     ConfigCommand("add", "none", "ConnectTo", "A"), ConfigCommand("del", "none", "ConnectTo", "A")}

HandEdit(place, first, line) == [place |-> place, first |-> first, line |-> line]
SomeHandEdits ==
    {HandEdit("tinc.conf", TRUE, ConfigLine("indented", "ConnectTo", "b")),
     HandEdit("tinc.conf", FALSE, ConfigLine("no value", "Mode", "none")),
     HandEdit("tinc.conf", FALSE, ConfigLine("entry", "ConnectTo", "a")),
     HandEdit("tinc.conf", FALSE, ConfigLine("entry", "ConnectTo", "A")),
     HandEdit("conf.d", TRUE, ConfigLine("entry", "Mode", "hub")),
     HandEdit("self", FALSE, ConfigLine("begin", "none", "none")),
     HandEdit("self", FALSE, ConfigLine("end", "none", "none")),
     HandEdit("self", FALSE, ConfigLine("entry", "Subnet", "bad"))}

FirstConfig ==
    {[p \in {"tinc.conf", "conf.d", "self", "peer"} |->
        CASE p = "tinc.conf" -> <<ConfigLine("entry", "Name", "me"),
                                  ConfigLine("entry", "ConnectTo", "a"),
                                  ConfigLine("entry", "Mode", "router")>>
          [] p = "conf.d" -> <<>>
          [] p = "self" -> <<ConfigLine("begin", "none", "none"), ConfigLine("end", "none", "none"),
                             ConfigLine("entry", "Subnet", "s")>>
          [] p = "peer" -> <<ConfigLine("entry", "Subnet", "p")>>]}

ConfigVariables ==
    [v \in {"Name", "Mode", "ConnectTo", "Subnet"} |->
        CASE v = "ConnectTo" -> {"server", "multiple"}
          [] v = "Subnet" -> {"host", "multiple"}
          [] OTHER -> {"server"}]
CommandLine == <<[var |-> "ConnectTo", val |-> "c"]>>
SmallLetters == [val \in {"A"} |-> "a"]

-----------------------------------------------------------------------------
(* Messages: numbers at both ends of their widths, the parts that may be   *)
(* left out, and lines that differ from what daemons write in one word or  *)
(* in their length.                                                        *)
Words == INSTANCE MetaMessages WITH
    Letters <- {}, Radix <- 3, HexRadix <- 4, I32Max <- 31, U32Max <- 63, U64Max <- 127,
    LengthMax <- 15, MinMtu <- 4, DefaultMtu <- 12, AddressBits <- 8, DefaultWeight <- 10,
    ByteValues <- 16, DigitValues <- 8

NodeA == Words!Text("a")
NodeB == Words!Text("b")
Anywhere == Words!Decimal(9)
I32 == {-32, -1, 0, 9, 31}
U32 == {0, 9, 63}
MaybeAddress == {<<>>, <<NodeA, Anywhere>>}
Some(kind, fields) == {Words!Message(kind, f, <<>>) : f \in fields}
WrittenSubnets == [family : {"ip"}, prefix : {0, 7, 8}, weight : {-1, 10, 31}]
                  \union [family : {"mac"}, prefix : {8}, weight : {0, 10}]
Messages ==
    Some("id", {<<NodeA, <<17, n>>>> : n \in {0, 7}})
    \union Some("metakey", {<<n, 9, n, 0, NodeA>> : n \in I32})
    \union Some("challenge", {<<NodeA>>}) \union Some("ping", {<<>>})
    \union Some("ack", {<<Anywhere, n, o>> : n \in I32, o \in U32})
    \union Some("add_subnet", {<<n, NodeA, s>> : n \in U32, s \in WrittenSubnets})
    \union {Words!Message("add_edge", <<n, NodeA, NodeB, NodeA, Anywhere, o, w>>, t)
               : n \in U32, o \in U32, w \in I32, t \in MaybeAddress}
    \union Some("del_edge", {<<n, NodeA, NodeB>> : n \in U32})
    \union Some("key_changed", {<<n, NodeA>> : n \in U32})
    \union {Words!Message("req_key", <<NodeA, NodeB>>, t)
               : t \in {<<>>, <<15>>, <<15, NodeA>>, <<21, Anywhere>>}}
    \union {Words!Message("ans_key", <<NodeA, NodeB, NodeA, -1, -1, n, 9>>, t)
               : n \in {0, 20, 127}, t \in MaybeAddress}
    \union Some("packet", {<<0>>, <<15>>}) \union Some("udp_info", {<<NodeA, NodeB, NodeA, Anywhere>>})
    \union Some("mtu_info", {<<NodeA, NodeB, 4>>, <<NodeA, NodeB, 12>>})

OddNumbers == [form : {"number"}, sign : {"", "-", "+"}, prefix : BOOLEAN,
               digits : {<<>>, <<0>>, <<3>>, <<1, 0>>, <<2, 2, 1>>, <<2, 2, 2, 2, 2>>}]
OddWords ==
    (OddNumbers \ {Words!Number("", FALSE, <<>>)})
    \union {NodeA, Words!Text("bad-name"), Words!Text("^control"),
            Words!SubnetWord("mac", <<Words!Decimal(3)>>, <<>>),
            Words!SubnetWord("ip", <<Anywhere>>, <<>>)}

(* The messages whose numbers are usual ones.                              *)
Typical ==
    {m \in Messages : /\ m.kind = "ack" => m.fields[2] = 9 /\ m.fields[3] = 9
                      /\ m.kind = "add_subnet" => m.fields[1] = 9 /\ m.fields[3].weight = 10
                      /\ m.kind = "add_edge" => m.fields[1] = 9 /\ m.fields[6] = 0 /\ m.fields[7] = 9
                      /\ m.kind \in {"del_edge", "key_changed"} => m.fields[1] = 9}
Variants(line) ==
    {SubSeq(line, 1, n) : n \in 1 .. Len(line)}
    \union {[line EXCEPT ![i] = w] : i \in DOMAIN line, w \in OddWords}
    \union {Append(line, w) : w \in OddWords}
SomeLetters ==
    [kind : {"message"}, message : Messages]
    \union [kind : {"line"}, line : UNION {Variants(Words!Write(m)) : m \in Typical}]
    \union [kind : {"bytes"}, bytes : UNION {[1 .. n -> {0, 7, 8, 15}] : n \in 0 .. 4}]

Post == INSTANCE MetaMessages WITH
    Letters <- SomeLetters, Radix <- 3, HexRadix <- 4, I32Max <- 31, U32Max <- 63, U64Max <- 127,
    LengthMax <- 15, MinMtu <- 4, DefaultMtu <- 12, AddressBits <- 8, DefaultWeight <- 10,
    ByteValues <- 16, DigitValues <- 8

-----------------------------------------------------------------------------
(* Conversations: two clients, one that reports and one that changes what  *)
(* there is to report or subscribes to it.                                 *)
Reporting == {"graph", "info", "top", "stop", "pcap"}
Changing == {"pid", "debug", "disconnect", "purge", "retry", "connect", "reload", "log"}

TalkRuns == <<Reporting, Changing>>
SomeLevels == {-1, 1}

-----------------------------------------------------------------------------
AlgorithmsWait == task = 0 /\ outcome = 0
StreamWaits ==
    /\ stream = 0 /\ unread = 0 /\ input = 0 /\ stage = 0
    /\ buffer = 0 /\ decoder = 0 /\ delivered = 0 /\ failed = 0
ConfigWaits ==
    /\ files = 0 /\ spoilt = {} /\ last = [action |-> "start"] /\ runtime = 0
    /\ server = 0 /\ answer = None /\ startable = {0} /\ changes = 0
LettersWait == letter = 0 /\ reading = 0
TalkWaits ==
    /\ daemon = "stopped" /\ talks = 0 /\ heard = FALSE /\ backlog = <<>> /\ view = 0 /\ debug = 0
    /\ subscribers = <<>> /\ client = [c \in Client |-> [at |-> "idle"]]
    /\ requests = 0 /\ socket = 0 /\ closed = {} /\ moment = 0 /\ due = 0 /\ talkLeft = 0
RoutesWait == Init /\ graph = GraphOf([k \in Key |-> Absent])

AllInit ==
    /\ system \in Systems
    /\ IF system = "routes" THEN Init ELSE RoutesWait
    /\ IF system = "algorithms" THEN Packets!Init ELSE AlgorithmsWait
    /\ IF system = "stream" THEN Reader!StreamInit ELSE StreamWaits
    /\ IF system = "config" THEN ConfigInit ELSE ConfigWaits
    /\ InviteInit /\ KeyFilesInit
    /\ IF system = "messages" THEN Post!LetterInit ELSE LettersWait
    /\ IF system = "control" THEN TalkInit ELSE TalkWaits

AllNext ==
    \/ /\ system = "routes" /\ Next
       /\ UNCHANGED <<system, algorithmVars, streamVars, inviteVars, configVars, keyFileVars, letterVars, talkVars>>
    \/ /\ system = "algorithms" /\ Packets!Next
       /\ UNCHANGED <<system, vars, streamVars, inviteVars, configVars, keyFileVars, letterVars, talkVars>>
    \/ /\ system = "stream" /\ Reader!StreamNext
       /\ UNCHANGED <<system, vars, algorithmVars, inviteVars, configVars, keyFileVars, letterVars, talkVars>>
    \/ /\ system = "invitations" /\ InviteNext
       /\ UNCHANGED <<system, vars, algorithmVars, streamVars, configVars, keyFileVars, letterVars, talkVars>>
    \/ /\ system = "config" /\ ConfigNext
       /\ UNCHANGED <<system, vars, algorithmVars, streamVars, inviteVars, keyFileVars, letterVars, talkVars>>
    \/ /\ system = "keys" /\ KeyFilesNext
       /\ UNCHANGED <<system, vars, algorithmVars, streamVars, inviteVars, configVars, letterVars, talkVars>>
    \/ /\ system = "messages" /\ Post!LetterNext
       /\ UNCHANGED <<system, vars, algorithmVars, streamVars, inviteVars, configVars, keyFileVars, talkVars>>
    \/ /\ system = "control" /\ TalkNext
       /\ UNCHANGED <<system, vars, algorithmVars, streamVars, inviteVars, configVars, keyFileVars, letterVars>>

AllSpec ==
    /\ AllInit
    /\ [][AllNext]_<<system, vars, algorithmVars, streamVars, inviteVars, configVars, keyFileVars,
                     letterVars, talkVars>>

-----------------------------------------------------------------------------
(* A lookup finds the best subnet there is, with masks that compare, clear *)
(* and check exactly the first bits; and a packet that is cut, or of which *)
(* a word is changed, is as good as one that was sent that way.            *)
PacketsAreComputedRight ==
    system = "algorithms" =>
        /\ Packets!MasksAgree /\ Packets!LookupIsBest
        /\ Packets!FragmentsReassemble /\ Packets!MssIsClamped /\ Packets!ChecksumsVerify

(* The frames that come out of a meta connection are those the peer wrote. *)
FramesComeOut == system = "stream" => Reader!FramesComeOut

(* A packet that TCP splits comes out whole.                               *)
SplitBodiesComeWhole == system = "stream" => Reader!SplitBodiesComeWhole

(* What one daemon writes another reads as it was meant.                   *)
WrittenIsRead == system = "messages" => Post!WrittenIsRead

=============================================================================
