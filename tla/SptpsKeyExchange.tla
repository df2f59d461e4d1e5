-------------------------- MODULE SptpsKeyExchange --------------------------
(***************************************************************************)
(* How two daemons agree on the keys for their packets                     *)
(* (tinc-runtime/src/key_exchange.rs and tincd/src/state.rs).  The records *)
(* of the SPTPS handshake travel in REQ_KEY and ANS_KEY messages over meta *)
(* connections, through other daemons where there is no direct one.        *)
(* A session that is being negotiated is pending; once it is established   *)
(* the packet codec owns it.                                               *)
(*                                                                         *)
(* A daemon asks for a key when it has a packet to send, when a connection *)
(* is activated and when a packet arrives that it cannot open.  It asks    *)
(* again once its last request is older than SPTPS_REQ_KEY_INTERVAL.  A    *)
(* message is lost when a connection on its way closes.                    *)
(*                                                                         *)
(* Both daemons know each other's public key, and each sends handshake     *)
(* records in ANS_KEY messages only (SPTPS_PACKET requests, which only     *)
(* very old daemons send, are left out).  valid_key is left out: for SPTPS *)
(* peers it is only displayed.                                             *)
(***************************************************************************)
EXTENDS SptpsHandshake, FiniteSets

CONSTANTS
    MaxKex,     \* how many ephemeral keys may be in use at the same time
    MaxWire,    \* a daemon begins nothing with so many messages on their way
    MaxLost,    \* how many messages are lost
    MaxGone,    \* how often a daemon loses sight of the other
    Senders,    \* the daemons that have packets to send to the other
    Direct,     \* whether there is a direct connection between the two
    Prompt      \* whether messages take less than SPTPS_REQ_KEY_INTERVAL

(* The two daemons, in the order of their names.                           *)
End == 1 .. 2
Other(e) == 3 - e

NoSession == [state |-> "None"]

VARIABLES
    daemon,     \* daemon[e]: what e keeps about the other
    wire,       \* wire[e]: the messages on their way to e
    lost,       \* how many messages were lost
    gone        \* how often somebody lost sight of the other

vars == <<daemon, wire, lost, gone>>

(* pending is the session in key_exchange, codec the one in packet_codec;  *)
(* last_req is the age of sptps_last_req_key.                              *)
Unknown ==
    [pending |-> NoSession, codec |-> NoSession, waiting |-> FALSE,
     last_req |-> "none", reachable |-> TRUE, out |-> <<>>]

-----------------------------------------------------------------------------
(* The ephemeral keys of which a trace is left anywhere.                   *)
KexHeld(s) ==
    IF s = NoSession THEN {}
    ELSE {s.my_kex, s.his_kex} \union KexIn(s.in_key) \union KexIn(s.out_key)

Used ==
    UNION {KexHeld(daemon[e].pending) \union KexHeld(daemon[e].codec) : e \in End}
    \union
    UNION {UNION {KexIn(wire[e][i].record.key) \union KexOf(wire[e][i].record.payload)
               : i \in DOMAIN wire[e]} : e \in End}

(* A new one: the least that is not in use.                                *)
Fresh == {k \in 1 .. MaxKex : k \notin Used /\ 1 .. k - 1 \subseteq Used}

-----------------------------------------------------------------------------
Answers(records) ==
    [i \in DOMAIN records |-> [request |-> "ANS_KEY", record |-> records[i]]]

(* A new session as the initiator, its KEX in a REQ_KEY.                   *)
Requested(d, e, kex) ==
    LET s == Started(TRUE, e, kex)
    IN  [d EXCEPT !.pending = Drained(s), !.waiting = TRUE, !.last_req = "recent",
                  !.out = <<[request |-> "REQ_KEY", record |-> Head(s.outbound)]>>]

StartSptpsKeyExchange(d, e, kex) ==
    IF d.codec # NoSession \/ d.pending # NoSession THEN d
    ELSE Requested(d, e, kex)

SptpsReqKeyDue(d) == ~d.waiting \/ d.last_req # "recent"

(* Mutant: the pending session stays, and is not started again.            *)
RestartPendingKeeps(d) ==
    IF d.waiting /\ d.last_req = "recent" THEN d ELSE [d EXCEPT !.waiting = FALSE]

RestartPending(d) ==
    IF d.waiting /\ d.last_req = "recent" THEN d
    ELSE [d EXCEPT !.pending = NoSession, !.waiting = FALSE]

(* Mutant: however recent the last request is.                             *)
RestartAfterBadAtOnce(d, e, kex) == Requested(d, e, kex)

RestartAfterBad(d, e, kex) ==
    IF d.last_req = "old" THEN Requested(d, e, kex) ELSE d

FinishOrStore(d, result) ==
    LET s == Drained(result.s)
        answered == [d EXCEPT !.out = Answers(result.s.outbound)]
    IN  IF result.complete
          THEN [answered EXCEPT !.pending = NoSession, !.codec = s,
                                !.waiting = FALSE, !.last_req = "none"]
          ELSE [answered EXCEPT !.pending = s]

(* Of two daemons that ask each other, the first by name is the initiator. *)
Ignores(d, e) == d.pending # NoSession /\ d.pending.initiator /\ e < Other(e)

HandleRequestKey(d, e, record, kex) ==
    LET waits == [d EXCEPT !.waiting = TRUE, !.last_req = "recent"]
        result == ReceiveDatagram(Started(FALSE, Other(e), kex), record, kex)
    IN  IF Ignores(d, e) THEN waits
        ELSE IF result.ok THEN FinishOrStore(waits, result)
        ELSE d

HandleAnswerKey(d, e, record, kex) ==
    LET result == ReceiveDatagram(d.pending, record, kex)
    IN  IF d.pending = NoSession THEN RestartAfterBad(d, e, kex)
        ELSE IF result.ok THEN FinishOrStore(d, result)
        ELSE RestartAfterBad([d EXCEPT !.pending = result.s], e, kex)

-----------------------------------------------------------------------------
Init ==
    /\ daemon = [e \in End |-> Unknown]
    /\ wire = [e \in End |-> <<>>]
    /\ lost = 0
    /\ gone = 0

(* Daemon e is in state d, and what it has to say is sent.                 *)
Becomes(e, d, wires) ==
    /\ daemon' = [daemon EXCEPT ![e] = [d EXCEPT !.out = <<>>]]
    /\ wire' = [wires EXCEPT ![Other(e)] = @ \o d.out]

Begins(e, d) ==
    /\ Len(wire[Other(e)]) < MaxWire
    /\ Becomes(e, d, wire)
    /\ UNCHANGED <<lost, gone>>

(* There is a packet to send.                                              *)
Request(e, kex) ==
    /\ e \in Senders
    /\ daemon[e].reachable
    /\ daemon[e].codec = NoSession
    /\ SptpsReqKeyDue(daemon[e])
    /\ Begins(e, StartSptpsKeyExchange(RestartPending(daemon[e]), e, kex))

(* A connection to the other daemon was activated.                         *)
Activated(e, kex) ==
    /\ daemon[e].codec = NoSession /\ daemon[e].pending = NoSession
    /\ Begins(e, StartSptpsKeyExchange(daemon[e], e, kex))

(* A packet of the other daemon arrives by UDP, and there is no key.       *)
UnkeyedPacket(e, kex) ==
    /\ Other(e) \in Senders
    /\ daemon[Other(e)].codec # NoSession
    /\ daemon[e].reachable
    /\ ~daemon[e].waiting /\ daemon[e].codec = NoSession
    /\ Begins(e, StartSptpsKeyExchange(daemon[e], e, kex))

Readable(e) ==
    /\ daemon[e].codec # NoSession
    /\ Opens(daemon[e].codec, Encode(daemon[Other(e)].codec, AppData))

(* A packet of the other daemon arrives by TCP, and cannot be opened.      *)
BadTcpPacket(e, kex) ==
    /\ Other(e) \in Senders
    /\ daemon[Other(e)].codec # NoSession /\ ~Readable(e)
    /\ daemon[e].reachable
    /\ SptpsReqKeyDue(daemon[e])
    /\ Begins(e, StartSptpsKeyExchange(RestartPending(daemon[e]), e, kex))

(* The keys expire.  The KEX is sent over a direct connection, if any.     *)
ForceKeyExchange(e, kex) ==
    /\ daemon[e].codec # NoSession /\ CanForceKex(daemon[e].codec)
    /\ LET s == ForceKex(daemon[e].codec, kex)
       IN  Begins(e, [daemon[e] EXCEPT
                          !.codec = Drained(s),
                          !.out = IF Direct THEN Answers(s.outbound) ELSE <<>>])

Receive(e, kex) ==
    /\ wire[e] # <<>>
    /\ LET message == Head(wire[e])
           rest == [wire EXCEPT ![e] = Tail(@)]
       IN  IF message.request = "REQ_KEY"
             THEN Becomes(e, HandleRequestKey(daemon[e], e, message.record, kex), rest)
             ELSE Becomes(e, HandleAnswerKey(daemon[e], e, message.record, kex), rest)
    /\ UNCHANGED <<lost, gone>>

Lose(e) ==
    /\ lost < MaxLost
    /\ \E i \in DOMAIN wire[e] :
          wire' = [wire EXCEPT ![e] = SubSeq(@, 1, i - 1) \o SubSeq(@, i + 1, Len(@))]
    /\ lost' = lost + 1
    /\ UNCHANGED <<daemon, gone>>

(* The last request of e becomes older than SPTPS_REQ_KEY_INTERVAL.        *)
Tick(e) ==
    /\ daemon[e].last_req = "recent"
    /\ Prompt => \A f \in End : wire[f] = <<>>
    /\ daemon' = [daemon EXCEPT ![e].last_req = "old"]
    /\ UNCHANGED <<wire, lost, gone>>

BecomesUnreachable(e) ==
    /\ daemon[e].reachable
    /\ gone < MaxGone
    /\ daemon' = [daemon EXCEPT ![e] = [Unknown EXCEPT !.reachable = FALSE]]
    /\ gone' = gone + 1
    /\ UNCHANGED <<wire, lost>>

BecomesReachable(e) ==
    /\ ~daemon[e].reachable
    /\ daemon' = [daemon EXCEPT ![e].reachable = TRUE, ![e].waiting = FALSE]
    /\ UNCHANGED <<wire, lost, gone>>

Next ==
    \E e \in End :
        \/ \E kex \in Fresh :
              \/ Request(e, kex)
              \/ Activated(e, kex)
              \/ UnkeyedPacket(e, kex)
              \/ BadTcpPacket(e, kex)
              \/ ForceKeyExchange(e, kex)
              \/ Receive(e, kex)
        \/ Lose(e)
        \/ Tick(e)
        \/ BecomesUnreachable(e)
        \/ BecomesReachable(e)

Spec == Init /\ [][Next]_vars

(* Messages arrive, time passes, the daemons find each other again, and    *)
(* those that have packets to send keep having them.                       *)
FairSpec ==
    /\ Spec
    /\ \A e \in End : /\ WF_vars(\E kex \in Fresh : Receive(e, kex))
                      /\ WF_vars(\E kex \in Fresh : Request(e, kex))
                      /\ WF_vars(\E kex \in Fresh : BadTcpPacket(e, kex))
                      /\ WF_vars(Tick(e))
                      /\ WF_vars(BecomesReachable(e))

-----------------------------------------------------------------------------
(* A pending session has no keys yet, and the one in the codec has both,   *)
(* even while a new exchange was forced.                                   *)
TypeOK ==
    \A e \in End :
        LET d == daemon[e]
        IN  /\ d.pending # NoSession => /\ d.pending.state \in {"Kex", "Sig"}
                                        /\ d.pending.in_key = NoKey
                                        /\ d.pending.out_key = NoKey
            /\ d.codec # NoSession => /\ d.codec.state \in {"SecondaryKex", "Kex"}
                                      /\ IsEstablished(d.codec)
            /\ d.last_req = "none" => ~d.waiting
            /\ d.out = <<>>

Quiet == \A e \in End : wire[e] = <<>>
Keyed == \A e \in End : daemon[e].codec # NoSession

(* With nothing on its way, two daemons that both hold keys hold the same: *)
(* whichever requests crossed, were lost or were repeated.                 *)
KeysAgree == Quiet /\ Keyed => \A e \in End : Readable(e)

(* Once messages are no longer lost, both daemons have keys for good.      *)
KeysAreFound == <>[](Keyed /\ \A e \in End : Readable(e))

(* A daemon that keeps asking for a key gets one.                          *)
RequestIsAnswered == <>(daemon[2].codec # NoSession)

(* A key exchange that was forced ends.                                    *)
ForcedExchangeEnds ==
    \A e \in End : daemon[e].codec.state = "Kex" ~> daemon[e].codec.state # "Kex"
=============================================================================
