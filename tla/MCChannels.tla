----------------------------- MODULE MCChannels -----------------------------
(* Instances for TLC of the systems that two daemons need for a channel    *)
(* between them: the replay window of SPTPS (SptpsReplayWindow), its       *)
(* records over a stream (SptpsStream), the exchange of SPTPS keys         *)
(* (SptpsKeyExchange) and of legacy keys (LegacyKeys), legacy datagrams    *)
(* under those keys (LegacyDatagrams), and the size that datagrams may     *)
(* have (PathMtu).                                                         *)
(* One system is chosen in the first state.  The variables of the others   *)
(* stay as they are.                                                       *)
EXTENDS SptpsReplayWindow, SptpsStream, LegacyKeys, LegacyDatagrams

CONSTANT Systems    \* the systems to look at

VARIABLES
    system,                                             \* the one chosen
    daemon, letters, lost, gone,                        \* SptpsKeyExchange
    path, node, timer, guess, net, changes, delays, infos   \* PathMtu

-----------------------------------------------------------------------------
(* One daemon has packets to send; a message is lost, and a daemon is      *)
(* unreachable once.                                                       *)
Exchange == INSTANCE SptpsKeyExchange WITH
    wire <- letters, MaxKex <- 14, MaxWire <- 1, MaxLost <- 1, MaxGone <- 1,
    Senders <- {1}, Direct <- TRUE, Prompt <- TRUE

(* What receivers are configured with, one of them with a cipher and one   *)
(* with a digest that only OpenSSL knows, and what other programs may      *)
(* answer; the sender was built without LZO.                               *)
Algorithms(cipher, digest, macLength, level) ==
    [cipher |-> cipher, digest |-> digest, macLength |-> macLength, level |-> level]
SomeSettings ==
    {Algorithms("aes256", 672, 4, 0), Algorithms("aes256", 672, 99, 3),
     Algorithms("aes256", 672, 99, 9), Algorithms("aes128", 64, 4, 0),
     Algorithms("aes128", 672, 0, 3), Algorithms("aes192", 674, 64, 11),
     Algorithms("none", 64, 99, 10), Algorithms("none", 64, 4, 0),
     Algorithms("none", -1, 0, 0), Algorithms("aes256", -1, 4, 0),
     Algorithms("other", 672, 4, 0), Algorithms("aes128", 4, 4, 0)}
AnswerOf(keyLen, cipher, digest, macLength, level) ==
    [key |-> 0, keyLen |-> keyLen, cipher |-> cipher, digest |-> digest,
     macLength |-> macLength, level |-> level]
OddAnswers ==
    {AnswerOf(48, 427, 672, 1000000, 0), AnswerOf(48, 427, 672, 32, 12),
     AnswerOf(1, 427, 672, 4, 0), AnswerOf(48, -1, 4, 4, 0), AnswerOf(48, 419, 672, 99, -1)}

(* The kernel knows a larger or the same size, the peer has another        *)
(* address than its edge tells, or nothing passes.  Sizes are 2 .. 7       *)
(* instead of 512 .. 1518.                                                 *)
APath(mtu, iface, address, open) ==
    [mtu |-> mtu, iface |-> iface, address |-> address, open |-> open]
Mtu == INSTANCE PathMtu WITH
    late <- delays,
    MinMtu <- 2, DefaultMtu <- 7, ProbeMinSize <- 1, InitialProbes <- 3,
    ProbesPerCycle <- 2, GuessPeriod <- 3, EdgeAddress <- 1, DataSizes <- {6},
    InfoSizes <- {5}, MaxChanges <- 1, MaxLate <- 1, MaxInfos <- 1,
    Paths <- {APath(6, 7, 1, TRUE), APath(4, 4, 1, TRUE),
              APath(3, 7, 2, TRUE), APath(6, 7, 1, FALSE)}

-----------------------------------------------------------------------------
exchangeVars == <<daemon, letters, lost, gone>>
mtuVars == <<path, node, timer, guess, net, changes, delays, infos>>

ExchangeWaits == daemon = 0 /\ letters = 0 /\ lost = 0 /\ gone = 0
MtuWaits ==
    /\ path = 0 /\ node = 0 /\ timer = 0 /\ guess = 0 /\ net = 0
    /\ changes = 0 /\ delays = 0 /\ infos = 0

AllInit ==
    /\ system \in Systems
    /\ Init /\ StreamInit /\ DatagramInit
    /\ KeyInit /\ (system # "keys" => direct)
    /\ IF system = "exchange" THEN Exchange!Init ELSE ExchangeWaits
    /\ IF system = "mtu" THEN Mtu!Init ELSE MtuWaits

AllNext ==
    \/ /\ system = "window" /\ Next
       /\ UNCHANGED <<system, streamVars, exchangeVars, keyVars, datagramVars, mtuVars>>
    \/ /\ system = "stream" /\ StreamNext
       /\ UNCHANGED <<system, vars, exchangeVars, keyVars, datagramVars, mtuVars>>
    \/ /\ system = "exchange" /\ Exchange!Next
       /\ UNCHANGED <<system, vars, streamVars, keyVars, datagramVars, mtuVars>>
    \/ /\ system = "keys" /\ KeyNext
       /\ UNCHANGED <<system, vars, streamVars, exchangeVars, datagramVars, mtuVars>>
    \/ /\ system = "datagrams" /\ DatagramNext
       /\ UNCHANGED <<system, vars, streamVars, exchangeVars, keyVars, mtuVars>>
    \/ /\ system = "mtu" /\ Mtu!Next
       /\ UNCHANGED <<system, vars, streamVars, exchangeVars, keyVars, datagramVars>>

(* What is fair is what the modules say.                                   *)
StreamIsFair ==
    \A e \in {"initiator", "responder"} :
        WF_streamVars(system = "stream" /\ \E kex \in Fresh : Receive(e, kex))

ExchangeIsFair ==
    \A e \in 1 .. 2 :
        /\ WF_exchangeVars(system = "exchange" /\ \E kex \in Exchange!Fresh : Exchange!Receive(e, kex))
        /\ WF_exchangeVars(system = "exchange" /\ \E kex \in Exchange!Fresh : Exchange!Request(e, kex))
        /\ WF_exchangeVars(system = "exchange" /\ \E kex \in Exchange!Fresh : Exchange!BadTcpPacket(e, kex))
        /\ WF_exchangeVars(system = "exchange" /\ Exchange!Tick(e))
        /\ WF_exchangeVars(system = "exchange" /\ Exchange!BecomesReachable(e))

KeysAreFair ==
    /\ WF_keyVars(system = "keys" /\ ReceiveReqKey)
    /\ WF_keyVars(system = "keys" /\ SenderSends)
    /\ WF_keyVars(system = "keys" /\ AskAgain)
    /\ \A r \in 1 .. 2 : WF_keyVars(system = "keys" /\ ReceiveFrom(r))
    /\ SF_keyVars(system = "keys" /\ RegenerateKeys)

MtuIsFair ==
    /\ SF_mtuVars(system = "mtu" /\ Mtu!TryUdp)
    /\ SF_mtuVars(system = "mtu" /\ Mtu!TryMtuForPeer)
    /\ SF_mtuVars(system = "mtu" /\ Mtu!ExpireUdpProbeTimeout)
    /\ WF_mtuVars(system = "mtu" /\ \E d \in net : Mtu!ArriveAtPeer(d) \/ Mtu!ReceiveReply(d))
    /\ WF_mtuVars(system = "mtu" /\ Mtu!PeerSends)
    /\ WF_mtuVars(system = "mtu" /\ Mtu!Reach)

AllSpec ==
    /\ AllInit /\ [][AllNext]_<<system, vars, streamVars, exchangeVars, keyVars, datagramVars, mtuVars>>
    /\ StreamIsFair /\ ExchangeIsFair /\ KeysAreFair /\ MtuIsFair

-----------------------------------------------------------------------------
(* A key exchange that was begun on a stream ends.                         *)
ExchangeEnds ==
    \A e \in {"initiator", "responder"} :
        []<>(system = "stream" => session[e].state = "SecondaryKex")

(* Once messages are no longer lost, both daemons have keys for good.      *)
KeysAreFound ==
    <>[](system = "exchange" => Exchange!Keyed /\ \A e \in 1 .. 2 : Exchange!Readable(e))

(* Again and again the sender has the key that the receiver uses.          *)
DatagramsPass == []<>(system = "keys" => KeyFits)

(* The size of packets becomes what the path takes, and stays it.          *)
MtuSettles == <>[](system = "mtu" => Mtu!MtuFits)
=============================================================================
